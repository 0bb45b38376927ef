\* A global is assigned.
SPECIFICATION Spec
CONSTANTS
  zero = zero
  one = one
  Ints <- MCInts
  Zero = zero
  Funs <- PlainFuns
  NGlobals = 1
  VSTACK_SIZE = 9
  CSTACK_SIZE = 10
  Places = {1}
  MaxClosures = 1
  MaxElements = 0
  Instrs = {"CONST", "ST", "END"}
INVARIANT ArgcArgvKept
\* The program halts, or fails for lack of room.
CHECK_DEADLOCK FALSE
