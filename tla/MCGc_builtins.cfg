\* Strings, s-expressions and closures; the pool of extra roots overflows, and
\* small pages make the heaps that compact_phase leaks exhaust the memory.
SPECIFICATION Spec
CONSTANTS
  Unboxed = Unboxed
  NGlobals = 0
  MinHeap = 4
  PageWords = 2
  NPages = 7
  MaxExtraRoots = 2
  MaxStack = 5
  MaxObjects = 2
  MaxFields = 3
  Instrs = {"CONST", "DUP", "DROP", "LWRITE", "ELEM", "LDC", "STC", "STRING",
            "LSTRING", "BARRAY", "STA", "LD", "ST", "SEXP", "CLOSURE"}
  Shapes = {}
  Operand = 0
INVARIANTS
  HeapMapped
PROPERTIES
  StoreImplemented
\* The process ends when the pool overflows or mmap fails.
CHECK_DEADLOCK FALSE
