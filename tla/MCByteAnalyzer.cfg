\* The report is made once.
SPECIFICATION Spec
CONSTANTS
  Garbage <- MCGarbage
  Files <- MCFiles
  N = 4
  None = None
  MaxCount = 3
INVARIANTS
  NeverFails
  ReportExact
  PrintsWhole
PROPERTY ImplementsAnalyzer
CHECK_DEADLOCK FALSE
