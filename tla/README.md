# A verification of the Lama bytecode interpreter

TLA+ models of the program in this repository: the interpreter for the
bytecode of the language Lama, its garbage-collected runtime, and the
frequency analyzer for bytecode. TLC checks them on small instances; TLAPS
proves what is listed under *Theorems* for every value of the constants.

    tlc -config MCGc_shapes.cfg MCGc      # a run
    tlapm AnalyzerProofs.tla              # the proofs of a component; the
                                          # longest, GcProofs and
                                          # InterpreterProofs, take minutes

## Inventory

| Component | Source | State | Operations | What makes it correct | Modelled |
|---|---|---|---|---|---|
| Garbage collector | `runtime/gc.c`, `gc.h` | the heap chunk, mark and enqueued bits and forward addresses in the headers, the pool of extra roots | `alloc`, `gc_alloc`, `mark_phase`, `compact_phase` | collections are invisible to the program; nothing reachable is lost; the mark queue fits in the headers; there is room afterwards; collections end | `Gc` |
| Allocating builtins | `runtime/runtime.c` 685-969 | fields of objects | `Bstring`, `Lstring`, `Barray`, `Bsexp`, `Bclosure`, `Bsta`, `Belem` | operands survive the allocation in their middle and end up in the right fields | `Gc` |
| Interpreter | `src/main.cpp` | `vstack`, `cstack`, the instruction pointer | one `process...` per instruction | calls behave as if every activation had its own record; the collector sees every slot; bounds checks stop only programs that need it | `Interpreter` |
| Decoder | `src/processor.h`, `src/common.h` | `ip` | `readByte`, `readInt`, `readString`, `readLoc`, `update_ip`, `processInstruction` | reads stay within the file and reach all of the code; `ip` stays on instructions | `Processor`, `Execution` |
| Loader | `bytecode/bytefile.cpp` | the tables of the file | `readFile`, `get_string`, `get_public_*` | whole files are taken, files cut short run only what is there | `Bytefile`, `CompiledFile` |
| Analyzer | `src/analyzer.cpp` | worklist, `visited`, `prev`, the counts | the loop of `main`, `record`, the report | the walk ends, reaches everything reachable, counts blocks and pairs right; the report merges what is equal and nothing else | `Analyzer`, `ByteAnalyzer` |
| Patterns and tags | `runtime/runtime.c` 202-252, 877-944 | none | `Btag`, `B*_patt`, `LtagHash`, `de_hash` | a value matches the name it was built with and no other of the first ten characters; the kinds exclude each other | `Values` |
| Values as text | `runtime/runtime.c` 254-379, 774-792 | `stringBuf` | `printValue`, `printStringBuf`, `extendStringBuf`, `Lstring` | the text is complete, wherever the buffer had to grow | `StringBuf` |
| Standard library | rest of `runtime/runtime.c` | | `Lcompare`, `Lhash`, `Lclone`, ... | no bytecode instruction calls them | no |
| Glue, build, scripts | `printf.S`, `CMakeLists.txt`, `*.sh` | | | | no |

How they interact. Everything runs in one thread. `readFile` fills the
`bytefile`; the interpreter's loop decodes an instruction and calls its
handler; handlers move words between the virtual stack, the call stack and the
heap; the allocating builtins may call the collector, which reads the virtual
stack between `__gc_stack_top` and `__gc_stack_bottom`, reads the extra roots,
and rewrites both. The two programs share loader and decoder.

What is hard. There is no concurrency and nothing is persisted. The difficulty
is in state shared by address: a collection in the middle of a builtin moves
every object under it; the collector needs no memory of its own because its
queue and its forwarding table lie in the objects it is moving; frames are
offsets from one pointer into a stack that calls and returns must keep
balanced over any sequence of calls. Failures are `exit`: of `mmap`, of the
extra-root pool, of the stack bounds.

## Modules

* `Reachability`: reachability as the least closed set, without recursion so
  that provers can use it.
* `ObjectStore`: what the heap promises. Objects have an identity and no
  address, and exist while they can be reached.
* `Gc`: the collector with the allocating builtins and the instructions that
  move references. One action is one turn of a loop of the collector, or one
  instruction. `Abs` maps it to `ObjectStore`: identities are the `cur_id` of
  `DEBUG_VERSION`, and during a collection the store is the one it started
  from (history variable `snap`, the analogue of the dumps that
  `FULL_INVARIANT_CHECKS` compares).
* `MCGc`: shapes of heaps for TLC and the specification that starts from every
  heap of these shapes.
* `FrameMachine`: what the two stacks promise: a list of activation records
  that own their arguments, locals and operands.
* `Interpreter`: the virtual stack, the call stack and the frame arithmetic.
  `Machine` maps it to `FrameMachine`.
* `MCInterpreter`: sets of functions for TLC.
* `Analyzer`, `MCAnalyzer`: the worklist of the analyzer, by instructions.
* `Processor`: the decoder, with the operands of every opcode and the checks on
  the way. Both programs use it, and so do both models below.
* `Bytefile`: the loader, for files whole and cut short.
* `Compiler`: what `lamac -b` writes (external): the encoding of instructions and
  the file around them.
* `CompiledFile`: what both programs may expect of a file of the compiler
  (`FilesAssumption`).
* `Execution`, `MCExecution`: the interpreter's way through the bytes of a file:
  loader, decoder, branches, calls and the loop of `main`. Its stacks are reduced
  to the return addresses and the targets of closures; `Interpreter` has the
  rest.
* `ByteAnalyzer`, `MCByteAnalyzer`: the analyzer on the bytes of a file, with the
  tables of `record()` and the report. It refines `Analyzer` (instance `A`; the
  mapping is `absCode`, `absNext`, ...), so that what is proved of the walk by
  instructions holds of the walk by bytes.
* `Values`: names packed into tags, and the tests of patterns.
* `StringBuf`, `MCStringBuf`: `Lstring` with the buffer that grows.
* `DataLemmas`: facts about numbers, recursive functions, sequences, finite sets and
  reachability that the proofs share.
* `AnalyzerProofs`, `ByteAnalyzerProofs`, `InterpreterProofs`, `ExecutionProofs`,
  `StringBufProofs`: the theorems of the module each is named after.
* `LoaderProofs`: what the decoder and the loader do with a compiled file, for the
  proofs about the two programs.
* `GcProofs`: the inductive invariant of `Gc` with the steps of the program, the
  allocation, the mark phase and the compaction; the theorems, and the refinement
  of `ObjectStore`.

A definition that stands before the one it resembles and is used by no other
(`LocateDownwards` before `Locate`, `PushSeen` before `Push`, ...) is a
plausible mistake: with it in the place of the right one a property named in
`PROJECT.json` fails.

### From code to model

`Gc`. The unit is the word. `heap` is `memory_chunk` with `current` as an
offset; `mem` maps the offset of a header to the object there, with `fwd`,
`marked`, `enqueued` from its `forward_address` word. A value is `Unboxed` or a
number, the address; addresses outside the heap are 0. `alloc`'s caller and
the rest of the builtin after `alloc` are `Enter` and `Finish`; between them the
collector runs: `MarkRoot`, `Dequeue`, `ScanField`, `FieldsDone`, `QueueEmpty`
are `mark()`, `Locate` is a turn of `compute_locations`, `Grow` the `mmap` and
`memcpy`, `UpdateObject` and `UpdateRoots` are `update_references`, `Move` is a
turn of `physically_relocate`, `MoveDone` the end with `munmap`. `mapped` are the
pages of the process. The program is any sequence of instructions that keeps to
its own operands and indexes objects within their bounds; bytecode the compiler
cannot emit is outside the model.

`Interpreter`. Both stacks are sequences that grow to the right. Position 1 of
`vstack` is the word *at* `__gc_stack_bottom`: the first `vstack_push` writes it,
one past the end of the array. `depth` is the compiler's count of operands per
activation, and is what makes a sequence of instructions one that the compiler
emits. An instruction pointer is a function and a place, place 0 being its
`BEGIN`; jumps go to any place of the function. `Builtin` is every instruction that
replaces operands by a result, with the number of operands in `Arity`; the
result is any integer.

`Analyzer`. An instruction is its index and a decoded one a kind and a target.
`Step` is one turn of the loop of `main()`. The counters count places, before
`squashed` groups equal byte sequences.

`Execution`. The byte at offset `i` is `code[i + 1]`, `ip` is an offset. A decoded
instruction is its kind, its integers, and where it ends; `CLOSURE` ends after
what its handler reads. Only instructions that move `ip` in a way of their own
have an action of their own. A condition of `CJMP` may come out either way, and
`CALLC` may find any closure made so far. What a file that was cut lacks is
unwritten memory: the header fields and table entries beyond the cut are any
of `Garbage`.

`ByteAnalyzer`. `Step` is a turn of the loop of `main()`, `Report` all that follows
it. The sequences recorded are kept as history to compare the report with.

`StringBuf`. The calls of `printValue` are the list `todo` of what they have still
to print: one action prints a piece of text, or opens a value or a list cell.
A piece that does not fit is one action too, which writes what fits and doubles
the buffer; the piece stays first in `todo`, which is the `goto again`. Objects
have no addresses here, as nothing is allocated while a value is printed.

## Runs

| Run | Shows | Bounds, and why they are enough |
|---|---|---|
| `gc_shapes` | one whole collection from every full heap: `QueueInv`, `QueueFits`, `MarkExact`, `SlideSafe`, `HeapSound`, `RoomAfterGc`, `Transparent`, and that it ends, `AllocReturns` | five shapes of three or four objects of all kinds and sizes 0 to 2, every assignment of references, two operands. Three objects give cycles, sharing and garbage before, between and after survivors; an empty array ends a heap |
| `gc_builtins` | `StoreImplemented` for programs of all the builtins; `HeapMapped` | two allocations with a heap of four words: the second collects; `STA` ties cycles; pages of two words so that heaps take several; two extra roots so that the pool overflows; seven pages so that memory runs out |
| `frames` | `FramesImplemented` and `NamesImplemented` with closures and captures; operands, underflow, scanning | three activations, one closure, 8 words of stack; `main` has a local, as a `case` outside the functions gives it |
| `plain` | the same with several arguments and locals, jumps and array literals; `OverflowMeansFull` | two arguments, two locals, two places to return to; both stacks overflow within the bounds |
| `exec` | `ReadsInFile`, `OnBoundary`, `CutTablesNeverRun` for files cut anywhere; `WholeRuns`, `HaltsWithMain` for whole ones | two programs with recursion, closures that capture one and two variables, branches in both directions, text and `FAIL`; every number of bytes from none to all; four calls at a time |
| `analyzer_walk` | all properties of the walk | all codes of three instructions with all targets: loops, merges, a closure whose code follows it, public symbols inside blocks |
| `bytes` | `ImplementsAnalyzer`, `NeverFails`, `ReportExact`, `PrintsWhole` | all programs of four instructions of lengths 1, 5, 9 and 14 bytes, with one and two public symbols: short sequences of one and two bytes, longer ones, and ones that start others |
| `text` | `TextExact`, `RoomForEnd`, `Ends`; `MatchExact`, `PatternsApart` | heaps of two objects of all kinds with shared and cyclic references; names shorter, as long as, and longer than a tag of two characters; a buffer that starts with two cells, so that pieces fit, fit but for the NUL, and are cut, up to five times in a value |

Four more runs state what a comment or the README says and find it violated:
`gc_leak` (`munmap` gets words for bytes), `lstring` (`LSTRING` leaves its operand on
the stack), `argc` (the first global is the word of `argc`) and `analyzer_counts` (a
public function that is also called is counted twice).

Deadlock is not checked where the program stops: when it halts, fails a bounds
check, overflows the extra roots, cannot map memory, refuses a name or a file,
or, in the analyzer, is done; and in `text` where a cyclic value reaches `MaxLen`.

Bounds named in the modules: `MaxStack`, `MaxObjects`, `MaxFields`, `Instrs` in
`Gc`; `Places`, `MaxClosures`, `MaxElements`, `Instrs` in `Interpreter`; `MaxCount` in
`Analyzer`, where counters stop; `MaxCalls` in `Execution`; `Garbage` in `Bytefile`;
`MaxLen` in `StringBuf`, which all values without cycles stay below (`Ends`).

## Fairness

`Gc` assumes `WF_vars(Collector)`: once a builtin has been entered, the one thread
runs it until it returns or the process ends. Nothing is assumed of the program,
which may stop issuing instructions. `Analyzer` assumes `WF_vars(Next)`: its loop
runs as long as it has something to do. `StringBuf` assumes `WF_vars(Printing)`: a
call of `Lstring` goes on until it returns. The others state safety only: whether
a program halts is up to the program.

## Theorems

The theorems are of two forms: `Spec => []P`, and `Spec => Abs!Spec` for an abstract
specification. For each module an inductive invariant `IInv` is
proved first (`InitIInv`, one lemma for each action, `Stutter`, `StepIInv`,
`Invariance`), because none of the properties is inductive; the properties are
then read off it. `IInv` of `Gc`, `Interpreter` and `Execution` was checked with TLC
on the instances of the runs before it was proved.

### The collector: `GcProofs`

For any number of globals, pages, roots, objects, operands and any size of the
first heap: `TypeCorrect`, `QueueCorrect`, `QueueFitsCorrect`, `MarkExactCorrect`,
`SlideSafeCorrect`, `HeapSoundCorrect`, `RoomAfterGcCorrect`, `TransparentCorrect` and
`HeapMappedCorrect` - every invariant of the two passing runs. They start from `Init`
of `Gc`; the run `gc_shapes` starts from heaps of given shapes.

Assumptions: `Unboxed` is no natural number (the low bit); the bounds are numbers, a
page has at least a word, and the first heap fits into the pages.

The argument, by the parts of `IInv`:

* `HeapInv`, `Sound`, `Clean`: the objects tile the heap up to `current`, every
  word that can be read as a reference is 0, unboxed or the content of an object,
  and outside a collection no bit is set. A content pointer may *equal* `current`
  (an empty array that ends the heap), which is why `InChunk` must admit it.
* `MarkInv`: marked and enqueued objects are reachable; a marked object leads only
  to marked or enqueued ones, except through the fields of `obj` from `fld` on;
  the roots before `root` lead only to such. With an empty queue the marked
  objects are closed and hold the roots, so they are all that is reachable
  (`MarkedIsLive`).
* `QInv`: the entries up to `tail` hold *different* objects - those up to `head` marked,
  the others enqueued. It has to speak of the entries that have left the queue:
  only then are all objects but the new one an upper bound for the number of
  entries, and by the pigeon-hole principle one is free (`QueueRoom`).
* `CompactInv`, with `Located`: the forward addresses of the objects passed tile the
  heap from 0 to `free`, none above the object itself. During `update` the objects
  below the iterator refer to new places and the others to old ones.
* `MoveInv`, with `Sliding`: there is a boundary `d`. Below it lie the copies, from
  `iter` on the objects that wait, whose forward addresses tile what is between
  `d` and `free`. `d` is not a variable of the program, but it is determined
  (`SlidingUnique`): the forward address of the next survivor.
* `SnapInv`: in every phase a word of memory stands for one of the snapshot
  (`BecomesOld`, `BecomesNew`), and the objects for those of the snapshot, one to one
  by identity. `SnapReach` keeps, without the memory it was true of, that every
  object of the snapshot can be reached there; from it the objects after the
  slide are all live (`RestoredLive`), and the store is the snapshot
  (`RestoredStore`).
* `PagesInv`: the two heaps lie on different pages. `munmap` is given words for
  bytes, so what it frees is part of the old heap (`UnmappedOld`).

`RoomInNextHeap` is the arithmetic of `next_heap_pseudo_size`.

### The store: `GcProofs`, second part

`StoreRefined`: under the same assumptions, `Gc` implements `ObjectStore`
(`StoreImplemented`). The store has objects with an identity and a stack; an
instruction reads them, writes a field or makes an object, and what can no
longer be reached is gone at once. There are no addresses, headers or collections
in it.

* `StoreInv` is what the refinement needs beyond `IInv`: the words of an object that are
  no references are represented by 0, a builtin under way has a request,
  and a request for a string is one for a single word.
* Reachability is by identity in the store and by address in the heap. `SeenGraph` shows
  that they agree, as one identity is at one address; `Reduced` that a store
  without the objects that cannot be reached from a new stack is the one seen
  with that stack.
* `Moved` covers the instructions that only change the stack, `Wrote` and `WriteMoves` the writes to
  a field (`St` of a captured variable, `Sta`), `Built` and `FinishMoves` the
  completion of a builtin, whether its `alloc` found room at once (`Alloc`) or after a
  collection (`Retry`).
* The steps of a collection leave the store alone, since it shows the snapshot while
  one is under way (`CollectorHidden`). The step that ends it, `MoveDone`, does so because `SnapInv` of the
  invariant says that the heap is then the snapshot (`MoveDoneHidden`).

### The interpreter: `InterpreterProofs`

For any functions (a finite set of them, with any numbers of arguments, locals and
captured variables; `main` has two arguments, captures nothing and has any number
of locals, which a program gets from `case` expressions outside its functions),
any stack sizes that hold the globals and the first call, and any integers: `TypeCorrect`,
`NoUnderflowCorrect`, `OverflowCorrect`, `ScannedCorrect`, `NamesDistinctCorrect`; and, for
programs without `LSTRING`, `OperandsCountedCorrect`. The condition is needed:
`LSTRING` leaves its operand on the stack, which the run `lstring` shows. `NamesDistinct` is
checked by no run: `NamesImplemented` says more. The other
theorems hold with `LSTRING` too, and so `IInv` says of the operands that there are
at least as many as are counted, and equality only without it.

`IInv` is the chain of frames: the call stack is two words for the start, five for
each activation and two or three for the last; activation `k` has its arguments, its
locals and its counted operands between `First(k)` and the frame of `k + 1`; and
the closure of an activation that was called through one is still in its slot. No
property is inductive without it, since `END` takes the frame below on trust.

### The activation records: `InterpreterProofs`, second part

`FramesRefined` and `NamesRefined`: under the same assumptions, with or without
`LSTRING`, `Interpreter` implements `FrameMachine` (`FramesImplemented`), and an `LD` or
`ST` of a name does there what the name says (`NamesImplemented`). The machine has
records that own their arguments, locals and operands; there are no stacks, frame
pointers or addresses in it.

* `RunningSeen` and `CallSeen` read the records off a state that runs a function, and
  off one between a call and its `BEGIN`. `Unseen` is a step that leaves the records
  as they are; only steps that fail at a bounds check are such.
* `RecordKept`: an activation keeps its record if its words of the call stack stay as
  they were, and so does the other stack up to `Limit`. `OwnMoves` gets this for all
  callers at once from the chain of frames of `IInv`: what an instruction writes lies
  above the start of the running frame, or is a global.
* `RewriteMoves` covers the instructions that replace operands. `NamedRead` and
  `SlotWritten` connect the slots that `global`, `local`, `arg` and `closure_loc` compute
  with the names of the record.
* `TransferSeen` splits the operands of the caller at a call; `BeginMoves` is the step
  that turns the arguments into a frame; `CallerSeen` shows that `END` finds the
  caller's record as the call left it and puts the result on top. Control returns to
  the right place since nothing has written the word `Ret` of the chain meanwhile.

### Loader and decoder: `LoaderProofs`, `ExecutionProofs`

For any set of compiled files, cut at any byte, with any unwritten memory:
`ReadsInFileCorrect`, `OnBoundaryCorrect`, `CutTablesCorrect`, `WholeRunsCorrect`,
`HaltsWithMainCorrect`. `FilesAssumption` says what the compiler's files are
(`Compiled`): instructions follow each other without gaps up to the last byte,
which starts a `STOP`; branches, calls and closures lead to where one starts; the
last instruction before the `STOP` does not fall through; texts lie in the string table;
opcodes are below 128 and captured variables of the four types of `Loc`;
there is a `main`. It states what `Compiler` builds, and TLC evaluates it on the
programs of the runs `exec` and `bytes`.

`IInv` says that `ip`, the return addresses and the targets of closures are starts of
instructions. That a read stays in the file follows since a start lies at or
before the last byte and the decoder's checks compare the end of a read with the
size of the file. Nothing is needed of the bytes that are missing.

### The walk of the analyzer: `AnalyzerProofs`

For code of any length `N`: `TypeCorrect`, `CoverageCorrect` (what has been counted
when the stack is empty is `Reach(entrypoints, Flow)`), `PairsSoundCorrect`,
`PairsCompleteCorrect`, and `CountsExactCorrect`.

Assumptions: `N` is a positive number, `None` is no integer, counters count to
at least 3; the code is well formed (`Codes`): targets lie in the code and its
last instruction does not fall through, as the compiler emits it.

`IInv` adds to the properties: what is processed or on
the stack is what is public or visited (`Agenda`); the successors of processed
instructions are visited and nothing else is (`Expanded`, `Arrived`); both stay
within what is reachable (`Within`), so that the processed set, once the stack is
empty, is closed and hence all that is reachable; and a pending `prev` is
continued by the top of the stack and has no pair yet (`PrevPending`), which
carries the pairs from one turn to the next. `StepEffect` says what one turn does
to the sets involved; `PushElements` and `PopElements` reduce the stack to the
set of its elements. For `CountsExact` the set is not enough, as an address may lie on the
stack twice (a public function that is called): a second invariant relates the
count to the number of times it lies there, by cardinalities of sets of positions.

### The walk over bytes: `ByteAnalyzerProofs`

For any set of compiled files, with any number `N` of instructions of any lengths:
`AnalyzerImplemented` (the refinement `ImplementsAnalyzer`), `PrintsWholeCorrect` and
`NeverFailsCorrect`. With the first the theorems on `Analyzer` hold of what `main()` and
`record()` do with the bytes of a file.

Assumptions: `FilesAssumption` as above; `ProgramsAssumption`, that the bytes of each
file are those of its program (`Encoded`), which is what gives a meaning to "the
instruction at an address" and which TLC evaluates on the programs of the run
`bytes`; and `BoundsAssumption`, those of `Analyzer`.

* `IInv` says that the file was loaded whole; that the stack, `visited` and `prev` hold
  starts of instructions (`Offsets`); and that each entry of the history begins at an
  instruction and ends one or two later (`PrintsWhole`). It is not inductive
  alone: that a pair is of neighbours follows from `PrevPending` of `Analyzer`, so
  `IInv` is kept together with the invariant of `AnalyzerProofs`, read through the
  mapping (`AbsInv`). In turn each of its steps uses that the step is one of
  `Analyzer`.
* `IndexOfStart` and `IndexInjective`: an offset where an instruction starts stands for one
  address, and only that. `Abstracted`: what is decoded at an offset is what
  `Analyzer` has at the address - the kind, the target, and that the next instruction
  is at the next address.
* The parts of a turn: `SameFlow` (the flags and the places visited), `SamePush` and
  `SameStack`, `SamePrev`, and `SameCounts`. The last relates the number of entries in the
  history to the counters of `Analyzer` (`NewHits`); `CountsExact` is what keeps the
  counters below their bound, so that the model's saturation is never met.
* `InitStack`: the order in which `unordered_set` gives the public symbols has each of
  them once, and so have their addresses (`SameNumber`).

### Tags and the buffer of `Lstring`: `StringBufProofs`

For any alphabet of two characters or more, any length of a tag, any buffer and any
set of programs: `RoomForEndCorrect`, `MatchExactCorrect`, `TextExactCorrect` and
`PatternsApartCorrect` - every invariant of the run `text`.

Assumptions: `ValuesAssumption` (the characters of `chars` differ; the NUL is none of
a text), `PunctuationAssumption` (what `printValue` adds are characters of a text),
`StringBufAssumption` (the name `cons` is shorter than a tag, as 4 < 10) and
`ProgramsAssumption`: the heaps are finite, their objects are typed, a closure begins
with its entry point, and a cell of a list has two words, of which the second is a
number or a cell (`WellFormed`).

* `Invariance`: `IInv` has the heap well formed and its tags packed (`TagsInv`), what is
  left to print typed (`TodoInv`), and in `BufferInv` a NUL behind `ptr` with nothing
  unset before it. That NUL is not always at `ptr`: when a piece was cut it is in the last
  cell of the old half, and the piece is printed again over what stands before it
  (`Written`, `GrownProperties`, `TextStep`).
* `DehashPack`: a tag unpacks to the first characters of a packable name, since no
  digit is lost but a zero in front (`DehashDigit`, `NoLeadingZero`);
  `HashableIsPackable`: `LtagHash` ends the program for the other names and for no more;
  `SameTag`: the names with one tag are those that begin the same. `de_hash` and the loop
  of `LtagHash` are recursive functions, whose existence is `RecursiveFunction` in
  `DataLemmas`.
* `TextInv` is the invariant behind `TextExact`: what is in the buffer up to `ptr`,
  followed by the text of what is left in `todo`, is the text of the value asked for.
  `PieceWritten` keeps it when a piece is printed or cut, `ValuePrinted` and
  `CellsPrinted` when a value or a cell is opened, which replaces it by parts that
  spell the same (`ObjectPrinted`). A value with a cycle below it has no text and
  is never printed to the end, so the invariant asks for `Whole` parts only.
* The text of a value is defined by levels (`texts`), as deep as the heap has objects.
  It no longer changes above the longest chain of pointers below the value
  (`TextsStable`, `AcyclicTexts`), so that what is printed under one value is the text
  it has on its own. The same holds of the elements of a list (`ElementsStable`).
* `StringText` and `SameQuoted`: the text of a string is the string in quotes, so
  equal texts are equal strings, which is what `PatternsApart` says of `Bstring_patt`.

### Only model-checked

* Liveness under fairness (`AllocReturns`, `Terminates`, `Ends`): out of the prover's
  reach.
* `ReportExact`: the report is a sort and a merge of all that was recorded, and
  what they compute for every input takes induction over that data.

Where a proof needs the first of several positions or the last instruction
before an offset, it takes the least number of a set (`LeastNumber` in `DataLemmas`)
in place of an induction.

## Plan

Order: what moves memory first, then what finds slots, then what reads code.

1. Done: `Gc`, `Interpreter`, `Analyzer` and their runs.
2. Done: `Processor`, `Bytefile`, `Execution`, `ByteAnalyzer`, `Values`, `StringBuf`;
   names and jumps in `Interpreter`.
3. Done: every safety invariant of `Gc`, `Interpreter`, `Execution` and `Analyzer` as a
   theorem.
4. Done: the refinements `StoreImplemented`, `FramesImplemented`, `NamesImplemented` and
   `ImplementsAnalyzer`, for all values of the constants.
5. Done: `RoomForEnd`, `MatchExact`, `TextExact` and `PatternsApart` of `StringBuf`.

## Not modelled, and why

* The library functions that no instruction calls (comparison, hashing,
  cloning, substrings, regular expressions, files, formatted output): neither
  program reaches them. The bytecode calls `Lread`, `Lwrite`, `Llength`, `Lstring`
  and `Barray`.
* The results of arithmetic, of `LREAD` and of `LLENGTH`, and the elements of
  strings: data the properties do not tell apart.
* How the process ends when `mmap` fails: `GrowFault` is the failure, in
  `gc_builtins`; that `memcpy` comes before the test for it is noted as a hazard.
* Lists whose tail is neither a number nor a cell, pattern tests on the raw 0
  that `LWRITE` leaves, and initial globals that look like heap addresses: the
  code reads memory that is not the object's.
* `SWAP` is modelled as the code has it, which leaves the stack as it was; no
  property speaks of it.
* Bytecode that no compiler emits, other than by cutting a file short. The decoder
  refuses unknown opcodes and locations in the model as in the code (`Formats`,
  `LocsKnown`), but no file of the runs has any. Opcodes of 128 and more, which make
  `record()` index its vector with a negative number, are excluded by `Compiled`:
  of them only the `STOP` at the end decodes, and it is never reached.
* Failures of `fopen`, `fread` and `malloc`, the wording of the report and of
  messages, the native-code build of the runtime (`LAMA_ENV`, `printf.S`), build
  rules and scripts.
