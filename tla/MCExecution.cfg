SPECIFICATION Spec
CONSTANTS
  Garbage <- MCGarbage
  Files <- MCFiles
  MaxCalls = 4
INVARIANTS
  ReadsInFile
  OnBoundary
  CutTablesNeverRun
  WholeRuns
  HaltsWithMain
CHECK_DEADLOCK FALSE
