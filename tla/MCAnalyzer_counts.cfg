\* A public symbol that is also called.
SPECIFICATION Spec
CONSTANTS
  N = 2
  None = None
  MaxCount = 3
INVARIANT CountedOnce
\* The walk ends.
CHECK_DEADLOCK FALSE
