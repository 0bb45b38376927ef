\* Several arguments and locals, operands shuffled, small stacks.
SPECIFICATION Spec
CONSTANTS
  zero = zero
  one = one
  Ints <- MCInts
  Zero = zero
  Funs <- PlainFuns
  NGlobals = 1
  VSTACK_SIZE = 8
  CSTACK_SIZE = 13
  Places = {1, 2}
  MaxClosures = 0
  MaxElements = 2
  Instrs = {"CONST", "BINOP", "BARRAY", "JMP", "SEXP", "CJMP", "DROP", "DUP", "SWAP", "LSTRING", "LD", "ST", "CALL", "END"}
INVARIANTS
  OverflowMeansFull
PROPERTIES
  FramesImplemented
  NamesImplemented
\* The program halts, or fails for lack of room.
CHECK_DEADLOCK FALSE
