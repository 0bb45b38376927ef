\* The collector from every full heap of three or four objects.
SPECIFICATION CollectorSpec
CONSTANTS
  Unboxed = Unboxed
  NGlobals = 0
  MinHeap = 4
  PageWords = 64
  NPages = 2
  MaxExtraRoots = 2
  MaxStack = 6
  MaxObjects = 5
  MaxFields = 2
  Instrs = {}
  Shapes <- HeapShapes
  Operand = 2
PROPERTY AllocReturns
INVARIANTS
  TypeOK
  QueueInv
  QueueFits
  MarkExact
  SlideSafe
  HeapSound
  RoomAfterGc
  Transparent
