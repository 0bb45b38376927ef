\* All codes of three instructions.
SPECIFICATION Spec
CONSTANTS
  N = 3
  None = None
  MaxCount = 3
INVARIANTS
  TypeOK
  Coverage
  CountsExact
  PairsSound
  PairsComplete
PROPERTY Terminates
\* The walk ends.
CHECK_DEADLOCK FALSE
