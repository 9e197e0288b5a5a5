\* Eight frames, one of them the image; the descriptor behind them is not in the cleared bytes.
CONSTANTS
  BasePfn = 2
  LimitPfn = 10
  ImageLimit = 2
  MarkLimit = 11
  MaxRequest = 3
SPECIFICATION Spec
INVARIANTS CountersAgree HeldIsAllocated
PROPERTIES ReservedStays
