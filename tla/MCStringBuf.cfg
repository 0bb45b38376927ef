SPECIFICATION Spec
CONSTANTS
  Letters <- MCLetters
  Chars <- MCChars
  TagLen = 2
  NUL = "NUL"
  InitLen = 2
  MaxLen = 32
  ConsName <- MCCons
  Programs <- MCPrograms
  Asked = {1, 2}
INVARIANTS
  TextExact
  RoomForEnd
  MatchExact
  PatternsApart
PROPERTY
  Ends
CHECK_DEADLOCK FALSE
