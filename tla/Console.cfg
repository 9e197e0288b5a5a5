SPECIFICATION Spec
CONSTANTS
  VideoModes <- ConsoleModes
  RefusedModes = {0}
  FirstMode = 3
  Chars = {"a"}
  MaxPuts = 3
  Width = 4
  Height = 2
  TabStop = 2
  MaxArgs = 2
  TextChars <- SentAsText
  SequenceChars <- SentInSequences
  DigitValues = {0, 2}
  NumberCap = 9
  MaxSent = 7
INVARIANT StaysOnScreen
INVARIANT WritingIsHeard
INVARIANT FlushedIsShown
INVARIANT BuffersAreKept
INVARIANT FunctionsAreRight
CHECK_DEADLOCK FALSE
