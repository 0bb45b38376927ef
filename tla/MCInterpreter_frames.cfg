\* Calls, closures and captured variables, three activations deep.
SPECIFICATION Spec
CONSTANTS
  zero = zero
  one = one
  Ints <- MCInts
  Zero = zero
  Funs <- CapturingFuns
  NGlobals = 1
  VSTACK_SIZE = 8
  CSTACK_SIZE = 15
  Places = {1}
  MaxClosures = 1
  MaxElements = 2
  Instrs = {"CONST", "LD", "ST", "CLOSURE", "CALL", "CALLC", "END"}
INVARIANTS
  TypeOK
  NoUnderflow
  OperandsCounted
  ScannedByGc
PROPERTIES
  FramesImplemented
  NamesImplemented
\* The program halts, or fails for lack of room.
CHECK_DEADLOCK FALSE
