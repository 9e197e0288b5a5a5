CONSTANTS
  PageSize = 2
  LowLimit = 4
  Word = 18
  ImageEnd = 5
  Maps <- SmallMaps
SPECIFICATION Spec
INVARIANTS ReservedIsKept UsableIsAllocatable
CHECK_DEADLOCK FALSE
