CONSTANTS
  Chars <- TwoLetters
  Pieces <- UpToThree
  StopLists <- SomeLists
  MaxText = 8
SPECIFICATION FilterSpec
INVARIANTS
  Conserved
  NothingLeaks
  CutAtStop
  OnlyStopIsWithheld
CHECK_DEADLOCK FALSE
