\* Heaps of more than one page: the old heap is not released as a whole.
SPECIFICATION Spec
CONSTANTS
  Unboxed = Unboxed
  NGlobals = 0
  MinHeap = 4
  PageWords = 2
  NPages = 8
  MaxExtraRoots = 2
  MaxStack = 4
  MaxObjects = 2
  MaxFields = 2
  Instrs = {"CONST", "DROP", "BARRAY"}
  Shapes = {}
  Operand = 0
INVARIANT OldHeapReleased
CHECK_DEADLOCK FALSE
