-------------------------------- MODULE Gc --------------------------------
(***************************************************************************)
(* The compacting collector of src/runtime/gc.c together with the          *)
(* allocating builtins of src/runtime/runtime.c and the interpreter steps  *)
(* of src/src/main.cpp that move values between the virtual stack and the  *)
(* heap.  Everything runs in one thread; one action is one step of a loop  *)
(* of the collector, or one bytecode instruction of the mutator.           *)
(*                                                                         *)
(* The unit of memory is the word.  A value is Unboxed (any integer with   *)
(* its low bit set), or a natural number: an address.  Addresses outside   *)
(* the heap - the raw 0 that argc, argv and LWRITE leave, a code address,  *)
(* a C string - are all represented by 0.  Words of strings, s-expression  *)
(* tags and code addresses are never read as references and are 0 too.     *)
(***************************************************************************)
EXTENDS Naturals, Sequences, FiniteSets, Functions, Reachability

CONSTANTS
  Unboxed,        \* the unboxed integers
  NGlobals,       \* global_area_size of the bytecode file
  MinHeap,        \* MINIMUM_HEAP_CAPACITY, in words (64 in the code)
  PageWords,      \* words per page (512 in the code)
  NPages,         \* pages the process may map
  MaxExtraRoots,  \* MAX_EXTRA_ROOTS_NUMBER (32 in the code)
  MaxStack,       \* bound: slots of the virtual stack a run uses
  MaxObjects,     \* bound: allocations of a run
  MaxFields,      \* bound: operands of ARRAY, SEXP and CLOSURE
  Instrs          \* bound: the instructions a run uses

ASSUME UnboxedAssumption == Unboxed \notin Nat
ASSUME BoundsAssumption ==
  /\ NGlobals \in Nat /\ MaxStack \in Nat /\ MaxObjects \in Nat
  /\ MaxFields \in Nat /\ MaxExtraRoots \in Nat
  /\ MinHeap \in Nat \ {0} /\ PageWords \in Nat \ {0} /\ NPages \in Nat
  /\ MinHeap <= PageWords * NPages

VARIABLES
  mem,      \* the objects of the heap, by the offset of their header
  heap,     \* memory_chunk: begin, size, and current as an offset from begin
  mapped,   \* the pages the process has mapped for heaps
  stack,    \* the virtual stack: slot 1 is __gc_stack_bottom, the last is SP
  extra,    \* extra_roots: stack slots, or 0 for a variable of the C stack
  req,      \* the allocating builtin in progress
  phase,    \* where control is
  root,     \* index of the root being marked
  head,     \* q_head_iter of mark()
  tail,     \* q_tail_iter of mark()
  obj,      \* cur_obj of mark()
  fld,      \* ptr_field_it of mark()
  old,      \* old_heap of compact_phase()
  iter,     \* the heap iterator of the compaction loops
  free,     \* free_ptr of compute_locations()
  nextId,   \* cur_id of DEBUG_VERSION: identities of the objects
  snap      \* history: the store before the collection, as the dumps of
            \* FULL_INVARIANT_CHECKS record it

markVars == <<root, head, tail, obj, fld>>
compactVars == <<old, iter, free>>
vars == <<mem, heap, mapped, stack, extra, req, phase, markVars, compactVars,
          nextId, snap>>

Hdr == 2          \* DATA_HEADER_SZ: the header word and forward_address
WordBytes == 8
ExtraRoom == 2    \* EXTRA_ROOM_HEAP_COEFFICIENT

Values == Nat \cup {Unboxed}
Kinds == {"string", "array", "sexp", "closure"}
Phases == {"run", "alloc", "roots", "queue", "fields", "locate", "grow",
           "update", "move", "retry", "exit", "fault"}

Larger(a, b) == IF a > b THEN a ELSE b
CeilDiv(a, b) == (a + b - 1) \div b

---------------------------------------------------------------------------
(***************************************************************************)
(* Objects.                                                                *)
(***************************************************************************)

Size(o) == Hdr + Len(o.fields)

\* field_begin_iterator: the fields of a string are skipped, and so is the
\* first word of a closure (its code) and of an s-expression (its tag).
FirstField(o) ==
  CASE o.kind = "array" -> 1
    [] o.kind \in {"closure", "sexp"} -> 2
    [] OTHER -> Len(o.fields) + 1

IsValidPointer(v) == v # Unboxed

\* A content pointer may equal current: an empty array can end the heap.
InChunk(h, v) == h.begin <= v /\ v <= h.begin + h.current

IsValidHeapPointer(v) == IsValidPointer(v) /\ InChunk(heap, v)

\* The offset of the object whose content v points to.
Target(h, v) == v - h.begin - Hdr
Content(h, a) == h.begin + a + Hdr

\* The references among the fields of an object.
Refs(o) == {o.fields[i] : i \in FirstField(o)..Len(o.fields)} \ {Unboxed}

\* The objects on the heap that the object at a refers to.
Succ == [a \in DOMAIN mem |->
           {Target(heap, v) : v \in {w \in Refs(mem[a]) : InChunk(heap, w)}}]

\* Mutant: the scan starts one slot below SP.
RootSlotsBelowTop == [i \in 1..(Len(stack) - 2) |-> Len(stack) - i] \o extra

\* The roots in the order of mark_phase: the stack from SP down to, and not
\* including, __gc_stack_bottom, then the extra roots.
RootSlots == [i \in 1..(Len(stack) - 1) |-> Len(stack) + 1 - i] \o extra
SlotValue(s) == IF s = 0 THEN 0 ELSE stack[s]

\* What the program holds: the references in the slots above
\* __gc_stack_bottom.
Held == {Target(heap, v) : v \in {w \in {stack[s] : s \in 2..Len(stack)} :
                                    IsValidHeapPointer(w)}}

Live == Reach(Held, Succ)

(***************************************************************************)
(* The store as a program sees it: objects by identity, and only those it  *)
(* can reach.                                                              *)
(***************************************************************************)
AbsValue(v) == IF v # Unboxed /\ InChunk(heap, v) THEN mem[Target(heap, v)].id
               ELSE v
AbsObject(o) == [id |-> o.id, kind |-> o.kind,
                 fields |-> [i \in DOMAIN o.fields |->
                               IF i >= FirstField(o) THEN AbsValue(o.fields[i])
                                                     ELSE o.fields[i]]]
StoreStack == [i \in DOMAIN stack |-> AbsValue(stack[i])]
StoreObjs == {AbsObject(mem[a]) : a \in Live}

NoReq == [op |-> "none", n |-> 0]
NoChunk == [begin |-> 0, size |-> 0, current |-> 0]
NoSnap == [stack |-> << >>, objs |-> {}]

\* The stack before the first instruction: the uninitialised global area and
\* then argc and argv, both 0.
Base == NGlobals + 2

InitialSlots == {Unboxed, 0}

Init ==
  /\ mem = << >>
  /\ heap = [begin |-> PageWords, size |-> MinHeap, current |-> 0]
  /\ mapped = 1..CeilDiv(MinHeap, PageWords)
  /\ \E g \in [1..NGlobals -> InitialSlots] : stack = g \o <<0, 0>>
  /\ extra = << >>
  /\ req = NoReq
  /\ phase = "run"
  /\ root = 0 /\ head = 0 /\ tail = 0 /\ obj = 0 /\ fld = 0
  /\ old = NoChunk /\ iter = 0 /\ free = 0
  /\ nextId = 1
  /\ snap = NoSnap

---------------------------------------------------------------------------
(***************************************************************************)
(* The mutator: the instructions that move values.  The program in         *)
(* bytecode is any sequence of them that keeps to its own operands, as the *)
(* compiler of Lama emits it: it never pops argc, argv or the globals, and *)
(* indexes objects within their bounds.                                    *)
(***************************************************************************)

\* The interpreter dispatches an instruction and n operands are its own.
Dispatch(instr, n) ==
  /\ phase = "run" /\ instr \in Instrs
  /\ Len(stack) >= Base + n

Pop(n) == SubSeq(stack, 1, Len(stack) - n)
Top(n) == stack[Len(stack) - n]

\* The instruction leaves the heap alone and the stack as s.
SetStack(s) ==
  /\ Len(s) <= MaxStack
  /\ stack' = s
  /\ UNCHANGED <<mem, heap, mapped, extra, req, phase, markVars, compactVars,
                 nextId, snap>>

IsObject(v) == IsValidHeapPointer(v) /\ Target(heap, v) \in DOMAIN mem

\* An object a program can have indexed with v, and the indices it has.
Indexable(v) == IsObject(v) /\ mem[Target(heap, v)].kind # "string"
Fields(v) == FirstField(mem[Target(heap, v)])..Len(mem[Target(heap, v)].fields)
Field(v, i) == mem[Target(heap, v)].fields[i]

IsClosure(v) == IsObject(v) /\ mem[Target(heap, v)].kind = "closure"

\* The slots of globals, arguments, locals and operands.
Slots == 2..Len(stack)

\* CONST and the other instructions that push an integer.
Const == Dispatch("CONST", 0) /\ SetStack(Append(stack, Unboxed))

\* LWRITE pops its argument and pushes the raw 0 that Lwrite returns.
Lwrite == Dispatch("LWRITE", 1) /\ SetStack(Append(Pop(1), 0))

Drop == Dispatch("DROP", 1) /\ SetStack(Pop(1))

Dup == Dispatch("DUP", 1) /\ SetStack(Append(stack, Top(0)))

\* LD of a global, an argument or a local.
Ld == /\ Dispatch("LD", 0)
      /\ \E s \in Slots : SetStack(Append(stack, stack[s]))

\* The values captured by the closures on the stack: LD C reads them.
Captures ==
  UNION {{Field(stack[s], i) : i \in Fields(stack[s])} :
           s \in {t \in Slots : IsClosure(stack[t])}}

LdCaptured == /\ Dispatch("LDC", 0)
              /\ \E v \in Captures : SetStack(Append(stack, v))

\* ST of a global, an argument or a local: the value stays on the stack.
St == /\ Dispatch("ST", 1)
      /\ \E s \in Slots : SetStack([stack EXCEPT ![s] = Top(0)])

\* The write of v into field i of the object p points to.
Assign(p, i, v) ==
  /\ mem' = [mem EXCEPT ![Target(heap, p)].fields[i] = v]
  /\ UNCHANGED <<heap, mapped, extra, req, phase, markVars, compactVars,
                 nextId, snap>>

\* ST C: the closure of the frame keeps the value.
StCaptured ==
  /\ Dispatch("STC", 1)
  /\ \E s \in Slots :
       /\ IsClosure(stack[s])
       /\ \E i \in Fields(stack[s]) : Assign(stack[s], i, Top(0))
  /\ UNCHANGED stack

\* STA: Bsta writes the element and returns the value.
Sta ==
  /\ Dispatch("STA", 3) /\ Indexable(Top(2)) /\ Top(1) = Unboxed
  /\ \E i \in Fields(Top(2)) : Assign(Top(2), i, Top(0))
  /\ stack' = Append(Pop(3), Top(0))

\* ELEM: Belem.
Elem ==
  /\ Dispatch("ELEM", 2) /\ Indexable(Top(1)) /\ Top(0) = Unboxed
  /\ \E i \in Fields(Top(1)) : SetStack(Append(Pop(2), Field(Top(1), i)))

(***************************************************************************)
(* The allocating builtins: enter, push the extra roots, allocate.         *)
(***************************************************************************)

\* Words of the object a builtin asks alloc for; n is the number of payload
\* words of a string, and of operands otherwise.
Words(r) == Hdr + r.n + (IF r.op \in {"SEXP", "CLOSURE"} THEN 1 ELSE 0)

\* The extra roots of n operands, the uppermost at slot s.
OperandRoots(s, n) == [i \in 1..n |-> s + 1 - i]

\* The prologue of a builtin: it has pushed s on the stack and registers the
\* extra roots rs; push_extra_root exits when the pool is full.
Enter(op, n, s, rs) ==
  /\ nextId <= MaxObjects
  /\ Len(stack \o s) <= MaxStack
  /\ stack' = stack \o s
  /\ IF Len(rs) > MaxExtraRoots
       THEN phase' = "exit" /\ extra' = SubSeq(rs, 1, MaxExtraRoots)
       ELSE phase' = "alloc" /\ extra' = rs
  /\ req' = [op |-> op, n |-> n]
  /\ UNCHANGED <<mem, heap, mapped, markVars, compactVars, nextId, snap>>

\* STRING: Bstring registers its C parameter, not a Lama value.
String == /\ Dispatch("STRING", 0) /\ Len(stack) < MaxStack
          /\ Enter("STRING", 1, << >>, <<0>>)

\* LSTRING: Lstring registers its operand - which stays on the stack - and
\* Bstring its parameter.
Lstring == /\ Dispatch("LSTRING", 1) /\ Len(stack) < MaxStack
           /\ Enter("LSTRING", 1, << >>, <<Len(stack), 0>>)

Barray == \E n \in 0..MaxFields :
  /\ Dispatch("BARRAY", n)
  /\ Len(stack) - n < MaxStack
  /\ Enter("BARRAY", n, << >>, OperandRoots(Len(stack), n))

\* SEXP pushes the hash of the tag first.
Sexp == \E n \in 0..MaxFields :
  /\ Dispatch("SEXP", n)
  /\ Enter("SEXP", n, <<Unboxed>>, OperandRoots(Len(stack), n))

\* CLOSURE loads and pushes what it captures, then the code address.
Closure == \E n \in 0..MaxFields :
  /\ Dispatch("CLOSURE", 0)
  /\ \E vs \in [1..n -> {stack[s] : s \in Slots} \cup Captures] :
       Enter("CLOSURE", n, Append(vs, 0), OperandRoots(Len(stack) + n, n))

Mutator ==
  \/ Const \/ Lwrite \/ Drop \/ Dup \/ Ld \/ LdCaptured \/ St
  \/ StCaptured \/ Sta \/ Elem
  \/ String \/ Lstring \/ Barray \/ Sexp \/ Closure

\* What the builtin leaves in the fields of its object.  The operands lie on
\* the stack in the order of the fields: contents[n - i - 1] = args[i].
KindOf(op) ==
  CASE op \in {"STRING", "LSTRING"} -> "string"
    [] op = "BARRAY"  -> "array"
    [] op = "SEXP"    -> "sexp"
    [] op = "CLOSURE" -> "closure"

Contents(r) ==
  CASE r.op \in {"STRING", "LSTRING"} -> [i \in 1..r.n |-> 0]
    [] r.op = "BARRAY" -> SubSeq(stack, Len(stack) - r.n + 1, Len(stack))
    [] OTHER -> <<0>> \o SubSeq(stack, Len(stack) - r.n, Len(stack) - 1)

\* Mutant: the hash of SEXP and the code address of CLOSURE stay on the stack.
OperandsWithoutExtra(r) == IF r.op \in {"STRING", "LSTRING"} THEN 0 ELSE r.n

Operands(r) ==
  CASE r.op \in {"STRING", "LSTRING"} -> 0
    [] r.op = "BARRAY" -> r.n
    [] OTHER -> r.n + 1

\* gc_alloc_on_existing_heap succeeds.
Fits == heap.current + Words(req) <= heap.size

\* The rest of the builtin once alloc has found room: the object is built
\* from the operands, the extra roots popped, the operands replaced by it.
Finish ==
  /\ Fits
  /\ mem' = [a \in DOMAIN mem \cup {heap.current} |->
                IF a = heap.current
                  THEN [id |-> nextId, kind |-> KindOf(req.op),
                        fields |-> Contents(req), fwd |-> 0,
                        marked |-> FALSE, enqueued |-> FALSE]
                  ELSE mem[a]]
  /\ heap' = [heap EXCEPT !.current = @ + Words(req)]
  /\ stack' = Append(Pop(Operands(req)), Content(heap, heap.current))
  /\ extra' = << >> /\ req' = NoReq /\ phase' = "run"
  /\ nextId' = nextId + 1
  /\ snap' = NoSnap
  /\ UNCHANGED <<mapped, markVars, compactVars>>

Alloc == phase = "alloc" /\ Finish

---------------------------------------------------------------------------
(***************************************************************************)
(* The mark phase.  mark() keeps the queue of objects to visit in the      *)
(* forward addresses of the first objects of the heap, one entry per       *)
(* object: [head, tail) are the entries in the queue.                      *)
(***************************************************************************)

\* alloc finds no room and calls gc_alloc.
StartGc ==
  /\ phase = "alloc" /\ ~Fits
  /\ phase' = "roots" /\ root' = 1 /\ snap' = [stack |-> StoreStack, objs |-> StoreObjs]
  /\ UNCHANGED <<mem, heap, mapped, stack, extra, req, head, tail, obj, fld,
                 compactVars, nextId>>

\* queue_enqueue: the entry at t receives the object at a.
Enqueued(t, a) == [mem EXCEPT ![t].fwd = a, ![a].enqueued = TRUE]

\* The entry after t, as heap_next_obj_iterator finds it.
NextObject(t) == t + Size(mem[t])

\* mark() returns at once.
Ignored(v) == \/ ~IsValidHeapPointer(v)
              \/ mem[Target(heap, v)].marked

\* Mutant: the enqueued bit is not tested.
SkippedUnlessMarked(v) == Ignored(v)

\* A field that mark() does not enqueue.
Skipped(v) == \/ Ignored(v)
              \/ mem[Target(heap, v)].enqueued

\* Mutant: the queue starts at the root object instead of the first object.
MarkRootInPlace ==
  /\ phase = "roots" /\ root <= Len(RootSlots)
  /\ root' = root + 1
  /\ LET v == SlotValue(RootSlots[root]) IN
       IF Ignored(v)
         THEN UNCHANGED <<mem, phase, head, tail>>
         ELSE /\ mem' = Enqueued(Target(heap, v), Target(heap, v))
              /\ head' = Target(heap, v) /\ tail' = NextObject(Target(heap, v))
              /\ phase' = "queue"
  /\ UNCHANGED <<heap, mapped, stack, extra, req, obj, fld, compactVars,
                 nextId, snap>>

\* mark() of the next root.
MarkRoot ==
  /\ phase = "roots" /\ root <= Len(RootSlots)
  /\ root' = root + 1
  /\ LET v == SlotValue(RootSlots[root]) IN
       IF Ignored(v)
         THEN UNCHANGED <<mem, phase, head, tail>>
         ELSE /\ mem' = Enqueued(0, Target(heap, v))
              /\ head' = 0 /\ tail' = NextObject(0)
              /\ phase' = "queue"
  /\ UNCHANGED <<heap, mapped, stack, extra, req, obj, fld, compactVars,
                 nextId, snap>>

\* One turn of the loop of mark(): queue_dequeue and mark_object.
Dequeue ==
  /\ phase = "queue" /\ head # tail
  /\ LET a == mem[head].fwd IN
       /\ mem' = [mem EXCEPT ![a].enqueued = FALSE, ![a].marked = TRUE]
       /\ obj' = a /\ fld' = FirstField(mem[a])
  /\ head' = NextObject(head)
  /\ phase' = "fields"
  /\ UNCHANGED <<heap, mapped, stack, extra, req, root, tail, compactVars,
                 nextId, snap>>

\* The next field of cur_obj.
ScanField ==
  /\ phase = "fields" /\ fld <= Len(mem[obj].fields)
  /\ fld' = fld + 1
  /\ LET v == mem[obj].fields[fld] IN
       IF Skipped(v)
         THEN UNCHANGED <<mem, tail>>
         ELSE /\ mem' = Enqueued(tail, Target(heap, v))
              /\ tail' = NextObject(tail)
  /\ UNCHANGED <<heap, mapped, stack, extra, req, phase, root, head, obj,
                 compactVars, nextId, snap>>

FieldsDone ==
  /\ phase = "fields" /\ fld > Len(mem[obj].fields)
  /\ phase' = "queue" /\ obj' = 0 /\ fld' = 0
  /\ UNCHANGED <<mem, heap, mapped, stack, extra, req, root, head, tail,
                 compactVars, nextId, snap>>

\* mark() returns when the queue is empty.
QueueEmpty ==
  /\ phase = "queue" /\ head = tail
  /\ phase' = "roots" /\ head' = 0 /\ tail' = 0
  /\ UNCHANGED <<mem, heap, mapped, stack, extra, req, root, obj, fld,
                 compactVars, nextId, snap>>

RootsDone ==
  /\ phase = "roots" /\ root > Len(RootSlots)
  /\ phase' = "locate" /\ root' = 0
  /\ UNCHANGED <<mem, heap, mapped, stack, extra, req, head, tail, obj, fld,
                 compactVars, nextId, snap>>

(***************************************************************************)
(* The compaction.                                                         *)
(***************************************************************************)

MoreObjects == iter < heap.current

\* Mutant: the free pointer runs downwards.
LocateDownwards ==
  /\ phase = "locate" /\ MoreObjects
  /\ IF mem[iter].marked
       THEN /\ mem' = [mem EXCEPT ![iter].fwd = free]
            /\ free' = free - Size(mem[iter])
       ELSE UNCHANGED <<mem, free>>
  /\ iter' = NextObject(iter)
  /\ UNCHANGED <<heap, mapped, stack, extra, req, phase, markVars, old,
                 nextId, snap>>

\* Mutant: the free pointer is advanced by the fields alone.
LocateWithoutHeader ==
  /\ phase = "locate" /\ MoreObjects
  /\ IF mem[iter].marked
       THEN /\ mem' = [mem EXCEPT ![iter].fwd = free]
            /\ free' = free + Len(mem[iter].fields)
       ELSE UNCHANGED <<mem, free>>
  /\ iter' = NextObject(iter)
  /\ UNCHANGED <<heap, mapped, stack, extra, req, phase, markVars, old,
                 nextId, snap>>

\* One turn of compute_locations.
Locate ==
  /\ phase = "locate" /\ MoreObjects
  /\ IF mem[iter].marked
       THEN /\ mem' = [mem EXCEPT ![iter].fwd = free]
            /\ free' = free + Size(mem[iter])
       ELSE UNCHANGED <<mem, free>>
  /\ iter' = NextObject(iter)
  /\ UNCHANGED <<heap, mapped, stack, extra, req, phase, markVars, old,
                 nextId, snap>>

LocateDone ==
  /\ phase = "locate" /\ ~MoreObjects
  /\ phase' = "grow" /\ iter' = 0
  /\ UNCHANGED <<mem, heap, mapped, stack, extra, req, markVars, old, free,
                 nextId, snap>>

\* Mutant: the heap never grows.
SameHeapSize == heap.size

\* next_heap_pseudo_size
NextHeapSize ==
  Larger(Larger(free * ExtraRoom + Words(req), MinHeap), heap.size)

\* The places where mmap can put a region of that many words.
Pages(p, words) == p..(p + CeilDiv(words, PageWords) - 1)
Bases == {p \in 1..NPages : /\ Pages(p, NextHeapSize) \subseteq 1..NPages
                            /\ Pages(p, NextHeapSize) \cap mapped = {}}

\* mmap of the next heap and memcpy of the old one into it.
Grow ==
  /\ phase = "grow"
  /\ \E p \in Bases :
       /\ heap' = [begin |-> p * PageWords, size |-> NextHeapSize,
                   current |-> heap.current]
       /\ mapped' = mapped \cup Pages(p, NextHeapSize)
  /\ old' = heap /\ phase' = "update"
  /\ UNCHANGED <<mem, stack, extra, req, markVars, iter, free, nextId, snap>>

\* mmap fails; memcpy writes through MAP_FAILED before the test for it, and
\* the handler of SIGSEGV ends the process.
GrowFault ==
  /\ phase = "grow" /\ Bases = {}
  /\ phase' = "fault"
  /\ UNCHANGED <<mem, heap, mapped, stack, extra, req, markVars, compactVars,
                 nextId, snap>>

\* Mutant: a pointer equal to current is taken to lie outside the heap.
ForwardedStrictly(v) ==
  IF IsValidPointer(v) /\ InChunk(old, v) /\ v # old.begin + old.current
    THEN Content(heap, mem[Target(old, v)].fwd)
    ELSE v

\* A reference into the old heap, as update_references and
\* scan_and_fix_region rewrite it.
Forwarded(v) ==
  IF IsValidPointer(v) /\ InChunk(old, v)
    THEN Content(heap, mem[Target(old, v)].fwd)
    ELSE v

\* One turn of the loop of update_references.
UpdateObject ==
  /\ phase = "update" /\ MoreObjects
  /\ mem' = IF mem[iter].marked
              THEN [mem EXCEPT ![iter].fields =
                      [i \in DOMAIN @ |-> IF i < FirstField(mem[iter])
                                            THEN @[i] ELSE Forwarded(@[i])]]
              ELSE mem
  /\ iter' = NextObject(iter)
  /\ UNCHANGED <<heap, mapped, stack, extra, req, phase, markVars, old, free,
                 nextId, snap>>

\* scan_and_fix_region_roots skips the roots that lie in the stack.
FixedWithStack(s) == s \in 2..(Len(stack) + 1)

\* The rest of update_references: the stack with slot __gc_stack_bottom, then
\* the extra roots.
UpdateRoots ==
  /\ phase = "update" /\ ~MoreObjects
  /\ stack' = [s \in DOMAIN stack |->
                 IF s \in Range(extra) /\ ~FixedWithStack(s)
                   THEN Forwarded(Forwarded(stack[s]))
                   ELSE Forwarded(stack[s])]
  /\ phase' = "move" /\ iter' = 0
  /\ UNCHANGED <<mem, heap, mapped, extra, req, markVars, old, free, nextId,
                 snap>>

\* The heap after o is copied to offset t: the objects it overlaps are gone.
Overwrite(t, o) ==
  LET kept == {a \in DOMAIN mem : a + Size(mem[a]) <= t \/ t + Size(o) <= a}
  IN [a \in kept \cup {t} |-> IF a = t THEN o ELSE mem[a]]

\* Mutant: the mark bit of the copy is not reset.
MoveMarked ==
  /\ phase = "move" /\ MoreObjects
  /\ mem' = IF mem[iter].marked THEN Overwrite(mem[iter].fwd, mem[iter])
                                ELSE mem
  /\ iter' = NextObject(iter)
  /\ UNCHANGED <<heap, mapped, stack, extra, req, phase, markVars, old, free,
                 nextId, snap>>

\* Mutant: the iterator is not advanced.
MoveForever ==
  /\ phase = "move" /\ MoreObjects
  /\ mem' = IF mem[iter].marked
              THEN Overwrite(mem[iter].fwd, [mem[iter] EXCEPT !.marked = FALSE])
              ELSE mem
  /\ UNCHANGED <<heap, mapped, stack, extra, req, phase, markVars, compactVars,
                 nextId, snap>>

\* One turn of physically_relocate.
Move ==
  /\ phase = "move" /\ MoreObjects
  /\ mem' = IF mem[iter].marked
              THEN Overwrite(mem[iter].fwd, [mem[iter] EXCEPT !.marked = FALSE])
              ELSE mem
  /\ iter' = NextObject(iter)
  /\ UNCHANGED <<heap, mapped, stack, extra, req, phase, markVars, old, free,
                 nextId, snap>>

\* Mutant: the size in words is converted to bytes twice.
UnmappedTwice(h) == Pages(h.begin \div PageWords, h.size * WordBytes)

\* munmap receives the size of the old heap in words and takes it for bytes.
Unmapped(h) == Pages(h.begin \div PageWords, CeilDiv(h.size, WordBytes))

\* The end of compact_phase.
MoveDone ==
  /\ phase = "move" /\ ~MoreObjects
  /\ heap' = [heap EXCEPT !.current = free]
  /\ mem' = Restrict(mem, {a \in DOMAIN mem : a < free})
  /\ mapped' = mapped \ Unmapped(old)
  /\ phase' = "retry"
  /\ old' = NoChunk /\ iter' = 0 /\ free' = 0
  /\ UNCHANGED <<stack, extra, req, markVars, nextId, snap>>

\* The second gc_alloc_on_existing_heap; were there no room, it would return
\* NULL and alloc_array write through it.
Retry == phase = "retry" /\ Finish

MarkPhase == \/ MarkRoot \/ Dequeue \/ ScanField \/ FieldsDone \/ QueueEmpty
             \/ RootsDone
CompactPhase == \/ Locate \/ LocateDone \/ Grow \/ GrowFault \/ UpdateObject
                \/ UpdateRoots \/ Move \/ MoveDone
Collector == Alloc \/ StartGc \/ MarkPhase \/ CompactPhase \/ Retry

Next == Mutator \/ Collector

\* The builtin runs to its end in the one thread there is; the program may
\* stop issuing instructions.
Spec == Init /\ [][Next]_vars /\ WF_vars(Collector)

---------------------------------------------------------------------------
(***************************************************************************)
(* Properties.                                                             *)
(***************************************************************************)

ObjectType == [id : Nat, kind : Kinds, fields : Seq(Values), fwd : Nat,
               marked : BOOLEAN, enqueued : BOOLEAN]
ChunkType == [begin : Nat, size : Nat, current : Nat]

\* Every variable of the collector and of the mutator stays in its range.
TypeOK ==
  /\ DOMAIN mem \subseteq Nat /\ \A a \in DOMAIN mem : mem[a] \in ObjectType
  /\ heap \in ChunkType /\ old \in ChunkType
  /\ mapped \subseteq 1..NPages
  /\ stack \in Seq(Values) /\ extra \in Seq(Nat)
  /\ req.n \in Nat
  /\ phase \in Phases
  /\ root \in Nat /\ head \in Nat /\ tail \in Nat /\ obj \in Nat /\ fld \in Nat
  /\ iter \in Nat /\ free \in Nat /\ nextId \in Nat

Ends == DOMAIN mem \cup {heap.current}
Queue == {a \in DOMAIN mem : head <= a /\ a < tail}

\* The comment of mark() on its loop (gc.c:534-535): the queue contains only
\* unmarked heap objects, each once; and the enqueued bit tells exactly them.
QueueInv ==
  phase \in {"queue", "fields"} =>
    /\ head \in Ends /\ tail \in Ends /\ head <= tail
    /\ \A a \in Queue : mem[a].fwd \in DOMAIN mem /\ ~mem[mem[a].fwd].marked
    /\ \A a, b \in Queue : a # b => mem[a].fwd # mem[b].fwd
    /\ {b \in DOMAIN mem : mem[b].enqueued} = {mem[a].fwd : a \in Queue}

\* Marking needs no memory of its own (gc.h:14-16): whenever mark() enqueues a
\* field there is still an object of the heap to hold the entry.
QueueFits ==
  phase = "fields" /\ fld <= Len(mem[obj].fields) =>
    (~Skipped(mem[obj].fields[fld]) => tail \in DOMAIN mem)

\* mark_phase marks the objects that can be reached from the roots, all of
\* them and no others, and leaves no enqueued bit behind.
MarkExact ==
  phase = "locate" =>
    /\ {a \in DOMAIN mem : mem[a].marked} = Live
    /\ \A a \in DOMAIN mem : ~mem[a].enqueued

ToMove == {a \in DOMAIN mem : mem[a].marked /\ a >= iter}

\* While physically_relocate slides the objects, no survivor is overwritten
\* before its turn, and none is copied over one that has moved already.
SlideSafe ==
  phase = "move" =>
    /\ \A x \in snap.objs :
         \E a \in DOMAIN mem : mem[a].id = x.id /\ (mem[a].marked => a >= iter)
    /\ \A a \in ToMove : mem[a].fwd <= a /\ mem[a].fwd + Size(mem[a]) <= free
    /\ \A a, b \in ToMove : a < b => mem[a].fwd + Size(mem[a]) <= mem[b].fwd

\* Whenever the program runs the objects tile the heap up to current, no mark
\* or enqueued bit is left over, and every reference - on the stack or in an
\* object, garbage included - points to the content of an object.
HeapSound ==
  phase \in {"run", "alloc", "retry"} =>
    /\ \A a \in DOMAIN mem : NextObject(a) \in Ends
    /\ heap.current > 0 => 0 \in DOMAIN mem
    /\ heap.current <= heap.size
    /\ \A a \in DOMAIN mem : ~mem[a].marked /\ ~mem[a].enqueued
    /\ \A v \in Range(stack) \cup UNION {Refs(mem[a]) : a \in DOMAIN mem} :
         v \in {0, Unboxed} \/ IsObject(v)

\* A collection makes room for the request that started it: gc_alloc never
\* returns NULL.
RoomAfterGc == phase = "retry" => Fits

\* A collection is invisible: the stack and the objects that can be reached
\* are the same after it as before, up to addresses.  FULL_INVARIANT_CHECKS
\* compares its dumps for it (gc.c:207-236).
Transparent ==
  phase = "retry" => StoreStack = snap.stack /\ StoreObjs = snap.objs

\* munmap of the old heap never unmaps the new one.
HeapMapped == Pages(heap.begin \div PageWords, heap.size) \subseteq mapped

\* Of the memory mapped for heaps the process keeps only the current heap:
\* compact_phase releases the old one, whose size is "all in words"
\* (gc.c:279).
OldHeapReleased ==
  phase = "run" => mapped = Pages(heap.begin \div PageWords, heap.size)

\* The store a program sees: during a collection, the one it started from.
Collecting == phase \in Phases \ {"run", "alloc", "retry", "exit"}

Abs == INSTANCE ObjectStore
         WITH stack <- IF Collecting THEN snap.stack ELSE StoreStack,
              objs <- IF Collecting THEN snap.objs ELSE StoreObjs

\* Collections are invisible: the collector implements the store of objects
\* with identity, whose steps are those of the program alone.  It is what
\* FULL_INVARIANT_CHECKS compares its dumps for (gc.c:223-236).
StoreImplemented == Abs!Spec

\* alloc returns, or the process ends: the collector terminates.
AllocReturns == phase = "alloc" ~> phase \in {"run", "exit", "fault"}
=============================================================================
