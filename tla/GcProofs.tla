------------------------------ MODULE GcProofs ------------------------------
(***************************************************************************)
(* What the collector guarantees for heaps, stacks and programs of any     *)
(* size: the inductive invariant, the steps that preserve it - those of    *)
(* the program, of the mark phase and of the compaction -, the theorems    *)
(* that follow from it; and the collector with the allocating builtins     *)
(* implements ObjectStore.                                                 *)
(***************************************************************************)
EXTENDS Gc, DataLemmas
---------------------------------------------------------------------------
(***************************************************************************)
(* The inductive invariant.                                                *)
(***************************************************************************)

\* The objects of m lie one after the other from 0 up to end.
Tiled(m, end) ==
  /\ \A a \in DOMAIN m : a + Size(m[a]) \in DOMAIN m \cup {end} /\ a + Size(m[a]) <= end
  /\ \A a, b \in DOMAIN m : a < b => a + Size(m[a]) <= b
  /\ end > 0 => 0 \in DOMAIN m

\* What a word may hold when the objects at A are there.
ValuesAt(begin, A) == {0, Unboxed} \cup {begin + Hdr + a : a \in A}

\* The references in o are to the objects at A.
RefersTo(o, begin, A) ==
  \A i \in FirstField(o)..Len(o.fields) : o.fields[i] \in ValuesAt(begin, A)

Operators == {"STRING", "LSTRING", "BARRAY", "SEXP", "CLOSURE"}
InBuiltin == Phases \ {"run", "exit", "fault"}
Marking == {"roots", "queue", "fields"}

Typed ==
  /\ mem \in [DOMAIN mem -> ObjectType] /\ DOMAIN mem \subseteq Nat
  /\ heap \in ChunkType /\ old \in ChunkType
  /\ stack \in Seq(Values) /\ extra \in Seq(Nat)
  /\ req \in [op : Operators \cup {"none"}, n : Nat]
  /\ phase \in Phases
  /\ root \in Nat /\ head \in Nat /\ tail \in Nat /\ obj \in Nat /\ fld \in Nat
  /\ iter \in Nat /\ free \in Nat /\ nextId \in Nat \ {0}

\* The pages of the heap are mapped; while there are two heaps they are apart.
PagesOf(h) == Pages(h.begin \div PageWords, h.size)
PagesInv ==
  /\ \E p \in Nat \ {0} : heap.begin = p * PageWords
  /\ mapped \subseteq 1..NPages /\ PagesOf(heap) \subseteq mapped
  /\ phase \in {"update", "move"} =>
       /\ PagesOf(old) \cap PagesOf(heap) = {}
       /\ \E p \in Nat \ {0} : old.begin = p * PageWords

\* The operands of the builtin and its roots are on the stack, above the
\* globals.
StackInv ==
  /\ Len(stack) >= Base /\ stack[1] \in {0, Unboxed}
  /\ phase \in InBuiltin =>
       /\ req.op \in Operators
       /\ Len(stack) >= Base + Operands(req)
       /\ \A i \in DOMAIN extra : extra[i] = 0 \/ extra[i] \in 2..Len(stack)

HeapInv ==
  /\ phase # "move" => /\ Tiled(mem, heap.current)
                       /\ \A a, b \in DOMAIN mem : mem[a].id = mem[b].id => a = b
  /\ heap.current <= heap.size
  /\ \A a \in DOMAIN mem : 0 < mem[a].id /\ mem[a].id < nextId
  /\ phase = "retry" => heap.current + Words(req) <= heap.size
  /\ phase \notin {"locate", "update", "move"} => iter = 0
  /\ phase \notin {"locate", "grow", "update", "move", "fault"} => free = 0

\* References are to objects of the heap.
Sound ==
  phase \notin {"update", "move", "exit", "fault"} =>
    /\ \A s \in DOMAIN stack : stack[s] \in ValuesAt(heap.begin, DOMAIN mem)
    /\ \A a \in DOMAIN mem : RefersTo(mem[a], heap.begin, DOMAIN mem)

\* No mark and no enqueued bit outside a collection.
Clean ==
  phase \in {"run", "alloc", "retry"} =>
    \A a \in DOMAIN mem : ~mem[a].marked /\ ~mem[a].enqueued

\* The value v leads to an object that is marked or waits to be.
Grey(v) == IsValidHeapPointer(v) =>
             mem[Target(heap, v)].marked \/ mem[Target(heap, v)].enqueued

\* The fields of the object at a, up to and without field n.
GreyFields(a, n) ==
  \A i \in FirstField(mem[a])..Len(mem[a].fields) : i < n => Grey(mem[a].fields[i])

MarkInv ==
  phase \in Marking =>
    /\ root \in 1..(Len(RootSlots) + 1)
    /\ \A a \in DOMAIN mem :
         /\ mem[a].marked \/ mem[a].enqueued => a \in Live
         /\ ~(mem[a].marked /\ mem[a].enqueued)
         /\ mem[a].marked =>
              GreyFields(a, IF phase = "fields" /\ a = obj THEN fld
                                                ELSE Len(mem[a].fields) + 1)
         /\ phase = "roots" => ~mem[a].enqueued
    /\ phase = "fields" => obj \in DOMAIN mem /\ mem[obj].marked
                           /\ fld >= FirstField(mem[obj])
    /\ \A i \in 1..(root - 1) : Grey(SlotValue(RootSlots[i]))

\* The queue holds the objects that wait, each once; what has left it is
\* marked.
Entries == {a \in DOMAIN mem : a < tail}
QInv ==
  phase \in {"queue", "fields"} =>
    /\ head \in Ends /\ tail \in Ends /\ head <= tail
    /\ \A a \in Entries :
         /\ mem[a].fwd \in DOMAIN mem
         /\ a < head => mem[mem[a].fwd].marked
         /\ a >= head => mem[mem[a].fwd].enqueued
    /\ \A a, b \in Entries : mem[a].fwd = mem[b].fwd => a = b
    /\ \A b \in DOMAIN mem : mem[b].enqueued => \E a \in Queue : mem[a].fwd = b

\* The marked objects below lo have their new places, one after the other.
Located(m, lo, end) ==
  LET Done == {a \in DOMAIN m : m[a].marked /\ a < lo} IN
  /\ end <= lo
  /\ \A a \in Done :
       /\ m[a].fwd <= a /\ m[a].fwd + Size(m[a]) <= end
       /\ m[a].fwd + Size(m[a]) \in {m[b].fwd : b \in Done} \cup {end}
  /\ \A a, b \in Done : a < b => m[a].fwd + Size(m[a]) <= m[b].fwd
  /\ end > 0 => \E a \in Done : m[a].fwd = 0

Marked == {a \in DOMAIN mem : mem[a].marked}
NewPlaces == {mem[a].fwd : a \in Marked}

CompactInv ==
  /\ phase \in {"locate", "grow"} =>
       Marked = Live /\ \A a \in DOMAIN mem : ~mem[a].enqueued
  /\ phase = "locate" => iter \in Ends /\ Located(mem, iter, free)
  /\ phase \in {"grow", "update"} => Located(mem, heap.current, free)
  /\ phase \in {"update", "move"} =>
       /\ old.current = heap.current
       /\ free + Words(req) <= heap.size
  /\ phase = "update" =>
       /\ iter \in Ends
       /\ \A a \in DOMAIN mem : ~mem[a].enqueued
       /\ \A s \in DOMAIN stack : s > 1 => stack[s] \in ValuesAt(old.begin, Marked)
       /\ \A a \in Marked :
            IF a < iter THEN RefersTo(mem[a], heap.begin, NewPlaces)
                        ELSE RefersTo(mem[a], old.begin, Marked)

\* The move: the copies fill the heap up to d, the objects from lo on are
\* where they were.
Todo(m, lo) == {a \in DOMAIN m : m[a].marked /\ a >= lo}
Copies(m, d) == {a \in DOMAIN m : a < d}
Places(m, lo, d) == Copies(m, d) \cup {m[a].fwd : a \in Todo(m, lo)}

Sliding(m, lo, d, end, free_) ==
  /\ lo \in {a \in DOMAIN m : a >= lo} \cup {end}
  /\ d <= lo /\ d <= free_
  /\ d \in {m[a].fwd : a \in Todo(m, lo)} \cup {free_}
  /\ \A a \in DOMAIN m : a >= lo => /\ a + Size(m[a]) \in DOMAIN m \cup {end}
                                    /\ a + Size(m[a]) <= end
  /\ \A a, b \in DOMAIN m : lo <= a /\ a < b => a + Size(m[a]) <= b
  /\ \A a \in Todo(m, lo) :
       /\ d <= m[a].fwd /\ m[a].fwd <= a /\ m[a].fwd + Size(m[a]) <= free_
       /\ m[a].fwd + Size(m[a]) \in {m[b].fwd : b \in Todo(m, lo)} \cup {free_}
  /\ \A a, b \in Todo(m, lo) : a < b => m[a].fwd + Size(m[a]) <= m[b].fwd
  /\ Todo(m, lo) = {} => d = free_
  /\ \A a \in Copies(m, d) :
       /\ ~m[a].marked /\ ~m[a].enqueued
       /\ a + Size(m[a]) \in Copies(m, d) \cup {d} /\ a + Size(m[a]) <= d
  /\ \A a, b \in Copies(m, d) : a < b => a + Size(m[a]) <= b
  /\ d > 0 => 0 \in DOMAIN m
  /\ \A a \in Todo(m, lo) : ~m[a].enqueued
  /\ \A a, b \in Todo(m, lo) \cup Copies(m, d) : m[a].id = m[b].id => a = b

MoveInv ==
  phase = "move" =>
    \E d \in 0..free :
      /\ Sliding(mem, iter, d, heap.current, free)
      /\ \A s \in DOMAIN stack : stack[s] \in ValuesAt(heap.begin, Places(mem, iter, d))
      /\ \A a \in Todo(mem, iter) \cup Copies(mem, d) :
           RefersTo(mem[a], heap.begin, Places(mem, iter, d))

(***************************************************************************)
(* The snapshot.                                                           *)
(***************************************************************************)

\* v is what w of the snapshot has become, before and after the references
\* are rewritten.
BecomesOld(m, v, w) == \/ v \in {0, Unboxed} /\ w = v
                       \/ \E a \in DOMAIN m : m[a].marked /\ v = old.begin + Hdr + a /\ w = m[a].id
BecomesNew(m, lo, d, v, w) ==
  \/ v \in {0, Unboxed} /\ w = v
  \/ \E a \in Copies(m, d) : v = heap.begin + Hdr + a /\ w = m[a].id
  \/ \E a \in Todo(m, lo) : v = heap.begin + Hdr + m[a].fwd /\ w = m[a].id

SameShape(o, x) ==
  /\ x.id = o.id /\ x.kind = o.kind /\ Len(x.fields) = Len(o.fields)
  /\ \A i \in DOMAIN o.fields : i < FirstField(o) => x.fields[i] = o.fields[i]

IsOld(m, o, x) ==
  /\ SameShape(o, x)
  /\ \A i \in FirstField(o)..Len(o.fields) : BecomesOld(m, o.fields[i], x.fields[i])
IsNew(m, lo, d, o, x) ==
  /\ SameShape(o, x)
  /\ \A i \in FirstField(o)..Len(o.fields) : BecomesNew(m, lo, d, o.fields[i], x.fields[i])

\* From its stack every object of the snapshot can be reached.
SnapFirst(x) == CASE x.kind = "array" -> 1
                  [] x.kind \in {"closure", "sexp"} -> 2
                  [] OTHER -> Len(x.fields) + 1
SnapReach ==
  \A W \in SUBSET Nat :
    /\ \A s \in 2..Len(snap.stack) : snap.stack[s] \in W \cup {0, Unboxed}
    /\ \A x \in snap.objs : x.id \in W =>
         \A i \in SnapFirst(x)..Len(x.fields) : x.fields[i] \in W \cup {0, Unboxed}
    => \A x \in snap.objs : x.id \in W

SnapTyped ==
  /\ snap.stack \in Seq(Values)
  /\ snap.objs \subseteq [id : Nat, kind : Kinds, fields : Seq(Values)]

SnapInv ==
  /\ phase \in Marking \cup {"locate", "grow", "update", "move"} => SnapReach /\ SnapTyped
  /\ phase \in Marking \cup {"locate", "grow", "retry"} =>
       snap.stack = StoreStack /\ snap.objs = StoreObjs
  /\ phase = "update" =>
       /\ Len(snap.stack) = Len(stack)
       /\ \A s \in DOMAIN stack : BecomesOld(mem, stack[s], snap.stack[s])
       /\ \A a \in Marked : \E x \in snap.objs :
            IF a < iter THEN IsNew(mem, 0, 0, mem[a], x) ELSE IsOld(mem, mem[a], x)
       /\ \A x \in snap.objs : \E a \in Marked :
            IF a < iter THEN IsNew(mem, 0, 0, mem[a], x) ELSE IsOld(mem, mem[a], x)
  /\ phase = "move" => \A d \in 0..free :
       Sliding(mem, iter, d, heap.current, free) =>
       /\ Len(snap.stack) = Len(stack)
       /\ \A s \in DOMAIN stack : BecomesNew(mem, iter, d, stack[s], snap.stack[s])
       /\ \A a \in Todo(mem, iter) \cup Copies(mem, d) : \E x \in snap.objs :
            IsNew(mem, iter, d, mem[a], x)
       /\ \A x \in snap.objs : \E a \in Todo(mem, iter) \cup Copies(mem, d) :
            IsNew(mem, iter, d, mem[a], x)

IInv ==
  /\ Typed /\ PagesInv /\ StackInv /\ HeapInv /\ Sound /\ Clean
  /\ MarkInv /\ QInv /\ CompactInv /\ MoveInv /\ SnapInv

---------------------------------------------------------------------------
(***************************************************************************)
(* Objects and references.                                                 *)
(***************************************************************************)

\* What an object is made of.
LEMMA ObjectFields ==
  ASSUME NEW o \in ObjectType
  PROVE  /\ o.fields \in Seq(Values) /\ Len(o.fields) \in Nat
         /\ Size(o) \in Nat /\ Size(o) = 2 + Len(o.fields)
         /\ FirstField(o) \in Nat \ {0}
         /\ o.kind \in Kinds /\ o.id \in Nat /\ o.fwd \in Nat
         /\ o.marked \in BOOLEAN /\ o.enqueued \in BOOLEAN
<1>1. /\ o.fields \in Seq(Values) /\ o.kind \in Kinds /\ o.id \in Nat /\ o.fwd \in Nat
      /\ o.marked \in BOOLEAN /\ o.enqueued \in BOOLEAN
  BY DEF ObjectType
<1>2. Len(o.fields) \in Nat
  BY <1>1
<1>3. FirstField(o) \in Nat \ {0}
  BY <1>1, <1>2 DEF FirstField, Kinds
<1>4. QED
  BY <1>1, <1>2, <1>3 DEF Size, Hdr

\* A heap of typed objects.
Memory(m) == DOMAIN m \subseteq Nat /\ m \in [DOMAIN m -> ObjectType]

\* A value a sound heap holds is no pointer into the heap, or one to the
\* content of an object.
LEMMA Pointers ==
  ASSUME NEW h, h.begin \in Nat \ {0}, h.current \in Nat,
         NEW m, Memory(m), Tiled(m, h.current),
         NEW v \in ValuesAt(h.begin, DOMAIN m)
  PROVE  /\ v \in Values
         /\ \/ v = Unboxed
            \/ v = 0 /\ v # Unboxed /\ ~InChunk(h, v)
            \/ /\ v \in Nat /\ v # 0 /\ v # Unboxed /\ InChunk(h, v)
               /\ Target(h, v) \in DOMAIN m
               /\ v = h.begin + Hdr + Target(h, v)
<1>1. Unboxed \notin Nat
  BY UnboxedAssumption
<1>2. CASE v = Unboxed
  BY <1>2 DEF Values
<1>3. CASE v = 0
  BY <1>1, <1>3 DEF Values, InChunk
<1>4. CASE v \notin {0, Unboxed}
  <2>1. PICK a \in DOMAIN m : v = h.begin + Hdr + a
    BY <1>4 DEF ValuesAt
  <2>2. a \in Nat /\ m[a] \in ObjectType
    BY DEF Memory
  <2>3. Size(m[a]) \in Nat /\ Size(m[a]) >= 2 /\ a + Size(m[a]) <= h.current
    BY <2>2, ObjectFields DEF Tiled
  <2>4. v \in Nat /\ Hdr = 2
    BY <2>1, <2>2 DEF Hdr
  <2>5. InChunk(h, v)
    BY <2>1, <2>2, <2>3, <2>4 DEF InChunk
  <2>6. Target(h, v) = a
    BY <2>1, <2>2, <2>4 DEF Target
  <2>7. QED
    BY <1>1, <1>4, <2>1, <2>4, <2>5, <2>6 DEF Values
<1>5. QED
  BY <1>2, <1>3, <1>4

\* The value that points to the object at a.
LEMMA PointerTo ==
  ASSUME NEW h, h.begin \in Nat \ {0}, h.current \in Nat,
         NEW m, Memory(m), Tiled(m, h.current), NEW a \in DOMAIN m
  PROVE  /\ Content(h, a) = h.begin + Hdr + a
         /\ Content(h, a) \in ValuesAt(h.begin, DOMAIN m)
         /\ Content(h, a) \in Nat /\ Content(h, a) # Unboxed
         /\ InChunk(h, Content(h, a)) /\ Target(h, Content(h, a)) = a
<1>1. a \in Nat /\ m[a] \in ObjectType /\ Hdr = 2
  BY DEF Memory, Hdr
<1>2. Size(m[a]) \in Nat /\ Size(m[a]) >= 2 /\ a + Size(m[a]) <= h.current
  BY <1>1, ObjectFields DEF Tiled
<1>3. Content(h, a) = h.begin + Hdr + a /\ Content(h, a) \in Nat
  BY <1>1 DEF Content
<1>4. InChunk(h, Content(h, a)) /\ Target(h, Content(h, a)) = a
  BY <1>1, <1>2, <1>3 DEF InChunk, Target
<1>5. QED
  BY <1>3, <1>4, UnboxedAssumption DEF ValuesAt

\* More objects, more values.
LEMMA MoreValues ==
  ASSUME NEW b, NEW A, NEW B, A \subseteq B
  PROVE  ValuesAt(b, A) \subseteq ValuesAt(b, B)
BY DEF ValuesAt

\* The objects of one heap and another that differs from it in the bits and
\* the forward addresses.
SameObjects(m, n) ==
  /\ DOMAIN n = DOMAIN m
  /\ \A a \in DOMAIN m : /\ n[a].id = m[a].id /\ n[a].kind = m[a].kind
                         /\ n[a].fields = m[a].fields

\* Objects that differ in the bits alone have the same size and references.
LEMMA SameSizes ==
  ASSUME NEW m, NEW n, SameObjects(m, n), NEW a \in DOMAIN m
  PROVE  /\ Size(n[a]) = Size(m[a]) /\ FirstField(n[a]) = FirstField(m[a])
         /\ n[a].fields = m[a].fields /\ Refs(n[a]) = Refs(m[a])
         /\ n[a].id = m[a].id /\ n[a].kind = m[a].kind
<1>1. n[a].kind = m[a].kind /\ n[a].fields = m[a].fields /\ n[a].id = m[a].id
  BY DEF SameObjects
<1>2. FirstField(n[a]) = FirstField(m[a]) /\ Size(n[a]) = Size(m[a])
  BY <1>1 DEF FirstField, Size
<1>3. QED
  BY <1>1, <1>2 DEF Refs

\* They tile the heap alike.
LEMMA SameTiles ==
  ASSUME NEW m, NEW n, SameObjects(m, n), NEW end, Tiled(m, end)
  PROVE  Tiled(n, end)
<1>1. \A a \in DOMAIN m : Size(n[a]) = Size(m[a])
  BY SameSizes
<1>2. DOMAIN n = DOMAIN m
  BY DEF SameObjects
<1>3. QED
  BY <1>1, <1>2 DEF Tiled

\* Their references lead to the same places.
LEMMA SameReferences ==
  ASSUME NEW m, NEW n, SameObjects(m, n), NEW begin, NEW A, NEW a \in DOMAIN m,
         RefersTo(m[a], begin, A)
  PROVE  RefersTo(n[a], begin, A)
BY SameSizes DEF RefersTo

\* The members of an interval below a mark, one above it.
LEMMA NextTile ==
  ASSUME NEW m, NEW end \in Nat, Memory(m), Tiled(m, end), NEW a \in DOMAIN m
  PROVE  /\ a \in Nat /\ a < end
         /\ a + Size(m[a]) \in Nat /\ a < a + Size(m[a])
         /\ a + Size(m[a]) \in DOMAIN m \cup {end}
         /\ \A b \in DOMAIN m : b < a + Size(m[a]) <=> b <= a
<1>1. a \in Nat /\ m[a] \in ObjectType
  BY DEF Memory
<1>2. Size(m[a]) \in Nat /\ Size(m[a]) >= 2
  BY <1>1, ObjectFields
<1>3. a + Size(m[a]) \in DOMAIN m \cup {end} /\ a + Size(m[a]) <= end
  BY DEF Tiled
<1>4. ASSUME NEW b \in DOMAIN m PROVE b < a + Size(m[a]) <=> b <= a
  <2>1. b \in Nat
    BY DEF Memory
  <2>2. a < b => a + Size(m[a]) <= b
    BY DEF Tiled
  <2>3. QED
    BY <1>1, <1>2, <2>1, <2>2
<1>5. QED
  BY <1>1, <1>2, <1>3, <1>4

\* The begin of a heap is no 0.
LEMMA Positive ==
  ASSUME NEW p \in Nat \ {0}, NEW q \in Nat \ {0}
  PROVE  p * q \in Nat \ {0}
<1>1. p * q >= q
  <2>1. p - 1 >= 0 /\ q >= 0
    OBVIOUS
  <2>2. (p - 1) * q >= 0
    BY <2>1, SMT
  <2>3. (p - 1) * q = p * q - q
    BY SMT
  <2>4. p * q \in Int
    OBVIOUS
  <2>5. QED
    BY <2>2, <2>3, <2>4
<1>2. p * q \in Int
  OBVIOUS
<1>3. QED
  BY <1>1, <1>2

\* Where the heap is.
LEMMA HeapFacts ==
  ASSUME IInv
  PROVE  /\ heap.begin \in Nat \ {0} /\ heap.current \in Nat /\ heap.size \in Nat
         /\ Memory(mem) /\ heap.current <= heap.size
<1>1. PICK p \in Nat \ {0} : heap.begin = p * PageWords
  BY DEF IInv, PagesInv
<1>2. heap.begin \in Nat \ {0}
  <2>1. PageWords \in Nat \ {0}
    BY BoundsAssumption
  <2>2. QED
    BY <1>1, <2>1, Positive
<1>3. heap \in ChunkType
  BY DEF IInv, Typed
<1>4. heap.current \in Nat /\ heap.size \in Nat
  BY <1>3 DEF ChunkType
<1>5. Memory(mem)
  BY DEF IInv, Typed, Memory
<1>6. QED
  BY <1>2, <1>4, <1>5 DEF IInv, HeapInv

---------------------------------------------------------------------------
(***************************************************************************)
(* The mutator.                                                            *)
(***************************************************************************)

\* The values the program can hold.
Known == ValuesAt(heap.begin, DOMAIN mem)

\* What is the case whenever no collection is under way.
Settled == phase \in {"run", "alloc", "retry"}

\* Outside a collection every word of the stack is one the program may hold,
\* and the objects tile the heap.
LEMMA Running ==
  ASSUME IInv, Settled
  PROVE  /\ heap.begin \in Nat \ {0} /\ heap.current \in Nat
         /\ Memory(mem) /\ Tiled(mem, heap.current)
         /\ stack \in Seq(Known) /\ Len(stack) \in Nat /\ Len(stack) >= Base
         /\ stack[1] \in {0, Unboxed}
         /\ \A a \in DOMAIN mem : RefersTo(mem[a], heap.begin, DOMAIN mem)
         /\ {0, Unboxed} \subseteq Known /\ Known \subseteq Values
         /\ Base \in Nat /\ Base >= 2
<1>1. /\ heap.begin \in Nat \ {0} /\ heap.current \in Nat /\ Memory(mem)
  BY HeapFacts
<1>2. Tiled(mem, heap.current)
  BY DEF IInv, HeapInv, Settled
<1>3. /\ \A s \in DOMAIN stack : stack[s] \in Known
      /\ \A a \in DOMAIN mem : RefersTo(mem[a], heap.begin, DOMAIN mem)
  BY DEF IInv, Sound, Known, Settled
<1>4. stack \in Seq(Values) /\ Len(stack) >= Base /\ stack[1] \in {0, Unboxed}
  BY DEF IInv, Typed, StackInv
<1>5. stack \in Seq(Known) /\ Len(stack) \in Nat
  <2>1. stack = [s \in 1..Len(stack) |-> stack[s]] /\ Len(stack) \in Nat
    BY <1>4
  <2>2. \A s \in 1..Len(stack) : stack[s] \in Known
    BY <1>3, <1>4
  <2>3. QED
    BY <2>1, <2>2
<1>6. {0, Unboxed} \subseteq Known
  BY DEF Known, ValuesAt
<1>7. Known \subseteq Values
  BY <1>1, <1>2, Pointers DEF Known
<1>8. Base \in Nat /\ Base >= 2
  BY BoundsAssumption DEF Base
<1>9. QED
  BY <1>1, <1>2, <1>3, <1>4, <1>5, <1>6, <1>7, <1>8

\* An instruction that leaves the heap alone.
LEMMA StackChanged ==
  ASSUME IInv, phase = "run",
         NEW s \in Seq(Known), Len(s) >= Base, s[1] \in {0, Unboxed},
         SetStack(s)
  PROVE  IInv'
<1>1. /\ stack' = s
      /\ UNCHANGED <<mem, heap, mapped, extra, req, phase, root, head, tail, obj,
                     fld, old, iter, free, nextId, snap>>
  BY DEF SetStack, markVars, compactVars
<1>2. Known \subseteq Values
  BY Running DEF Settled
<1>3. Typed'
  <2>1. s \in Seq(Values)
    BY <1>2, SeqMonotonic
  <2>2. QED
    BY <1>1, <2>1 DEF IInv, Typed
<1>4. PagesInv'
  BY <1>1 DEF IInv, PagesInv, PagesOf
<1>5. StackInv'
  BY <1>1 DEF IInv, StackInv, InBuiltin, Base
<1>6. HeapInv'
  BY <1>1 DEF IInv, HeapInv
<1>7. Sound' /\ Clean'
  <2>1. \A i \in DOMAIN s : s[i] \in ValuesAt(heap.begin, DOMAIN mem)
    BY DEF Known
  <2>2. QED
    BY <1>1, <2>1 DEF IInv, Sound, Clean
<1>8. MarkInv' /\ QInv' /\ CompactInv' /\ MoveInv' /\ SnapInv'
  BY <1>1 DEF MarkInv, QInv, CompactInv, MoveInv, SnapInv, Marking
<1>9. QED
  BY <1>3, <1>4, <1>5, <1>6, <1>7, <1>8 DEF IInv

\* What n operands leave of l slots.
LEMMA Remaining ==
  ASSUME NEW l \in Nat, NEW b \in Nat, b >= 2, NEW n \in Nat, l >= b + n
  PROVE  \E m \in 0..l : m = l - n /\ m >= b /\ 1 \in 1..m
OBVIOUS

\* Pushing and popping.
LEMMA Pushed ==
  ASSUME IInv, Settled, NEW n \in Nat, Len(stack) >= Base + n,
         NEW v \in Known
  PROVE  /\ Append(Pop(n), v) \in Seq(Known)
         /\ Len(Append(Pop(n), v)) >= Base
         /\ Append(Pop(n), v)[1] \in {0, Unboxed}
<1>1. /\ stack \in Seq(Known) /\ Len(stack) \in Nat /\ Base \in Nat /\ Base >= 2
      /\ stack[1] \in {0, Unboxed}
  BY Running
<1>2. PICK m \in 0..Len(stack) : m = Len(stack) - n /\ m >= Base /\ 1 \in 1..m
  BY <1>1, Remaining
<1>3. /\ Pop(n) \in Seq(Known) /\ Len(Pop(n)) = m
      /\ \A i \in 1..m : Pop(n)[i] = stack[i]
  BY <1>1, <1>2, PopProperties DEF Pop
<1>4. /\ Append(Pop(n), v) \in Seq(Known) /\ Len(Append(Pop(n), v)) = m + 1
      /\ \A i \in 1..m : Append(Pop(n), v)[i] = Pop(n)[i]
  BY <1>3, AppendProperties
<1>5. Append(Pop(n), v)[1] = stack[1] /\ m + 1 >= Base
  BY <1>1, <1>2, <1>3, <1>4
<1>6. QED
  BY <1>1, <1>4, <1>5

\* Popping operands leaves known values, and the stack above its base.
LEMMA Popped ==
  ASSUME IInv, Settled, NEW n \in Nat, Len(stack) >= Base + n
  PROVE  /\ Pop(n) \in Seq(Known) /\ Len(Pop(n)) = Len(stack) - n
         /\ Len(Pop(n)) >= Base /\ Pop(n)[1] \in {0, Unboxed}
         /\ \A i \in 1..(Len(stack) - n) : Pop(n)[i] = stack[i]
<1>1. /\ stack \in Seq(Known) /\ Len(stack) \in Nat /\ Base \in Nat /\ Base >= 2
      /\ stack[1] \in {0, Unboxed}
  BY Running
<1>2. PICK m \in 0..Len(stack) : m = Len(stack) - n /\ m >= Base /\ 1 \in 1..m
  BY <1>1, Remaining
<1>3. /\ Pop(n) \in Seq(Known) /\ Len(Pop(n)) = m
      /\ \A i \in 1..m : Pop(n)[i] = stack[i]
  BY <1>1, <1>2, PopProperties DEF Pop
<1>4. QED
  BY <1>1, <1>2, <1>3

\* Without a pop.
LEMMA PushedOn ==
  ASSUME IInv, Settled, NEW v \in Known
  PROVE  /\ Append(stack, v) \in Seq(Known)
         /\ Len(Append(stack, v)) >= Base
         /\ Append(stack, v)[1] \in {0, Unboxed}
<1>1. /\ stack \in Seq(Known) /\ Len(stack) \in Nat /\ Base \in Nat /\ Base >= 2
      /\ stack[1] \in {0, Unboxed} /\ Len(stack) >= Base
  BY Running
<1>2. /\ Append(stack, v) \in Seq(Known) /\ Len(Append(stack, v)) = Len(stack) + 1
      /\ \A i \in 1..Len(stack) : Append(stack, v)[i] = stack[i]
  BY <1>1, AppendProperties
<1>3. 1 \in 1..Len(stack)
  BY <1>1
<1>4. QED
  BY <1>1, <1>2, <1>3

\* So is each operand.
LEMMA TopKnown ==
  ASSUME IInv, Settled, NEW n \in Nat, Len(stack) > n
  PROVE  Top(n) \in Known
<1>1. stack \in Seq(Known) /\ Len(stack) \in Nat
  BY Running
<1>2. Len(stack) - n \in 1..Len(stack)
  BY <1>1
<1>3. QED
  BY <1>1, <1>2, ElementOfSeq DEF Top

\* The fields of what is on the stack are sound, too.
LEMMA FieldKnown ==
  ASSUME IInv, Settled, NEW v \in Known, IsObject(v), NEW i \in Fields(v)
  PROVE  Field(v, i) \in Known /\ Target(heap, v) \in DOMAIN mem /\ i \in Nat
         /\ i \in DOMAIN mem[Target(heap, v)].fields
<1>1. Target(heap, v) \in DOMAIN mem /\ Memory(mem)
  BY Running DEF IsObject
<1>2. PICK a \in DOMAIN mem : a = Target(heap, v)
  BY <1>1
<1>3. mem[a] \in ObjectType
  BY <1>1 DEF Memory
<1>4. /\ FirstField(mem[a]) \in Nat \ {0} /\ mem[a].fields \in Seq(Values)
      /\ Len(mem[a].fields) \in Nat
  BY <1>3, ObjectFields
<1>5. i \in FirstField(mem[a])..Len(mem[a].fields)
  BY <1>2 DEF Fields
<1>6. RefersTo(mem[a], heap.begin, DOMAIN mem)
  BY Running
<1>7. mem[a].fields[i] \in Known
  BY <1>5, <1>6 DEF RefersTo, Known
<1>8. i \in Nat /\ i \in DOMAIN mem[a].fields
  BY <1>4, <1>5
<1>9. QED
  BY <1>1, <1>2, <1>7, <1>8 DEF Field

\* CONST pushes an integer: no new reference.
LEMMA ConstStep == IInv /\ Const => IInv'
<1> SUFFICES ASSUME IInv, Const PROVE IInv'
  OBVIOUS
<1>1. phase = "run" /\ Settled /\ SetStack(Append(stack, Unboxed))
  BY DEF Const, Dispatch, Settled
<1>2. Unboxed \in Known
  BY <1>1, Running
<1>3. PICK s : s = Append(stack, Unboxed)
  OBVIOUS
<1>4. s \in Seq(Known) /\ Len(s) >= Base /\ s[1] \in {0, Unboxed}
  BY <1>1, <1>2, <1>3, PushedOn
<1>5. SetStack(s)
  BY <1>1, <1>3 DEF SetStack
<1>6. QED
  BY <1>1, <1>4, <1>5, StackChanged

\* LWRITE replaces its operand by the raw 0, which lies in no heap.
LEMMA LwriteStep == IInv /\ Lwrite => IInv'
<1> SUFFICES ASSUME IInv, Lwrite PROVE IInv'
  OBVIOUS
<1>1. phase = "run" /\ Settled /\ SetStack(Append(Pop(1), 0)) /\ Len(stack) >= Base + 1
  BY DEF Lwrite, Dispatch, Settled
<1>2. 0 \in Known
  BY <1>1, Running
<1>3. PICK s : s = Append(Pop(1), 0)
  OBVIOUS
<1>4. s \in Seq(Known) /\ Len(s) >= Base /\ s[1] \in {0, Unboxed}
  BY <1>1, <1>2, <1>3, Pushed
<1>5. SetStack(s)
  BY <1>1, <1>3 DEF SetStack
<1>6. QED
  BY <1>1, <1>4, <1>5, StackChanged

\* DROP only forgets a word.
LEMMA DropStep == IInv /\ Drop => IInv'
<1> SUFFICES ASSUME IInv, Drop PROVE IInv'
  OBVIOUS
<1>1. phase = "run" /\ Settled /\ SetStack(Pop(1)) /\ Len(stack) >= Base + 1
  BY DEF Drop, Dispatch, Settled
<1>2. PICK s : s = Pop(1)
  OBVIOUS
<1>3. s \in Seq(Known) /\ Len(s) >= Base /\ s[1] \in {0, Unboxed}
  BY <1>1, <1>2, Popped
<1>4. SetStack(s)
  BY <1>1, <1>2 DEF SetStack
<1>5. QED
  BY <1>1, <1>3, <1>4, StackChanged

\* DUP repeats a word that is known already.
LEMMA DupStep == IInv /\ Dup => IInv'
<1> SUFFICES ASSUME IInv, Dup PROVE IInv'
  OBVIOUS
<1>1. phase = "run" /\ Settled /\ SetStack(Append(stack, Top(0))) /\ Len(stack) >= Base + 1
  BY DEF Dup, Dispatch, Settled
<1>2. Top(0) \in Known
  <2>1. Len(stack) > 0
    BY <1>1, Running
  <2>2. QED
    BY <1>1, <2>1, TopKnown
<1>3. PICK s : s = Append(stack, Top(0))
  OBVIOUS
<1>4. s \in Seq(Known) /\ Len(s) >= Base /\ s[1] \in {0, Unboxed}
  BY <1>1, <1>2, <1>3, PushedOn
<1>5. SetStack(s)
  BY <1>1, <1>3 DEF SetStack
<1>6. QED
  BY <1>1, <1>4, <1>5, StackChanged

\* LD copies a slot of the stack.
LEMMA LdStep == IInv /\ Ld => IInv'
<1> SUFFICES ASSUME IInv, Ld PROVE IInv'
  OBVIOUS
<1>1. phase = "run" /\ Settled
  BY DEF Ld, Dispatch, Settled
<1>2. PICK t \in Slots : SetStack(Append(stack, stack[t]))
  BY DEF Ld
<1>3. stack[t] \in Known
  <2>1. stack \in Seq(Known) /\ Len(stack) \in Nat
    BY <1>1, Running
  <2>2. t \in 1..Len(stack)
    BY <2>1 DEF Slots
  <2>3. QED
    BY <2>1, <2>2, ElementOfSeq
<1>4. PICK s : s = Append(stack, stack[t])
  OBVIOUS
<1>5. s \in Seq(Known) /\ Len(s) >= Base /\ s[1] \in {0, Unboxed}
  BY <1>1, <1>3, <1>4, PushedOn
<1>6. SetStack(s)
  BY <1>2, <1>4 DEF SetStack
<1>7. QED
  BY <1>1, <1>5, <1>6, StackChanged

\* What the closures on the stack hold is known to the program.
LEMMA CapturesKnown ==
  ASSUME IInv, Settled
  PROVE  Captures \subseteq Known
<1>1. SUFFICES ASSUME NEW v \in Captures PROVE v \in Known
  OBVIOUS
<1>2. PICK t \in {u \in Slots : IsClosure(stack[u])} :
        v \in {Field(stack[t], i) : i \in Fields(stack[t])}
  BY DEF Captures
<1>3. PICK i \in Fields(stack[t]) : v = Field(stack[t], i)
  BY <1>2
<1>4. stack[t] \in Known
  <2>1. stack \in Seq(Known) /\ Len(stack) \in Nat
    BY Running
  <2>2. t \in 1..Len(stack)
    BY <2>1, <1>2 DEF Slots
  <2>3. QED
    BY <2>1, <2>2, ElementOfSeq
<1>5. IsObject(stack[t])
  BY <1>2 DEF IsClosure
<1>6. QED
  BY <1>3, <1>4, <1>5, FieldKnown

\* LD C copies a word out of a closure.
LEMMA LdCapturedStep == IInv /\ LdCaptured => IInv'
<1> SUFFICES ASSUME IInv, LdCaptured PROVE IInv'
  OBVIOUS
<1>1. phase = "run" /\ Settled
  BY DEF LdCaptured, Dispatch, Settled
<1>2. PICK v \in Captures : SetStack(Append(stack, v))
  BY DEF LdCaptured
<1>3. v \in Known
  BY <1>1, CapturesKnown
<1>4. PICK s : s = Append(stack, v)
  OBVIOUS
<1>5. s \in Seq(Known) /\ Len(s) >= Base /\ s[1] \in {0, Unboxed}
  BY <1>1, <1>3, <1>4, PushedOn
<1>6. SetStack(s)
  BY <1>2, <1>4 DEF SetStack
<1>7. QED
  BY <1>1, <1>5, <1>6, StackChanged

\* ST overwrites a slot above __gc_stack_bottom with a known word.
LEMMA StStep == IInv /\ St => IInv'
<1> SUFFICES ASSUME IInv, St PROVE IInv'
  OBVIOUS
<1>1. phase = "run" /\ Settled /\ Len(stack) >= Base + 1
  BY DEF St, Dispatch, Settled
<1>2. PICK t \in Slots : SetStack([stack EXCEPT ![t] = Top(0)])
  BY DEF St
<1>3. /\ stack \in Seq(Known) /\ Len(stack) \in Nat /\ Base \in Nat /\ Base >= 2
      /\ stack[1] \in {0, Unboxed} /\ Len(stack) >= Base
  BY <1>1, Running
<1>4. Top(0) \in Known
  <2>1. Len(stack) > 0
    BY <1>3
  <2>2. QED
    BY <1>1, <2>1, TopKnown
<1>5. PICK s : s = [stack EXCEPT ![t] = Top(0)]
  OBVIOUS
<1>6. s \in Seq(Known) /\ Len(s) = Len(stack)
  <2>1. t \in 1..Len(stack)
    BY <1>3 DEF Slots
  <2>2. QED
    BY <1>3, <1>4, <1>5, <2>1, ExceptSeq
<1>7. s[1] = stack[1]
  <2>1. t # 1 /\ 1 \in DOMAIN stack
    BY <1>3 DEF Slots
  <2>2. QED
    BY <2>1, <1>5
<1>8. SetStack(s)
  BY <1>2, <1>5 DEF SetStack
<1>9. QED
  BY <1>1, <1>3, <1>6, <1>7, <1>8, StackChanged

\* ELEM replaces the object and the index by a field of that object.
LEMMA ElemStep == IInv /\ Elem => IInv'
<1> SUFFICES ASSUME IInv, Elem PROVE IInv'
  OBVIOUS
<1>1. phase = "run" /\ Settled /\ Len(stack) >= Base + 2 /\ IsObject(Top(1))
  BY DEF Elem, Dispatch, Settled, Indexable
<1>2. PICK i \in Fields(Top(1)) : SetStack(Append(Pop(2), Field(Top(1), i)))
  BY DEF Elem
<1>3. Top(1) \in Known
  <2>1. Len(stack) > 1
    BY <1>1, Running
  <2>2. QED
    BY <1>1, <2>1, TopKnown
<1>4. PICK v : v = Field(Top(1), i)
  OBVIOUS
<1>5. v \in Known
  BY <1>1, <1>3, <1>4, FieldKnown
<1>6. PICK s : s = Append(Pop(2), v)
  OBVIOUS
<1>7. s \in Seq(Known) /\ Len(s) >= Base /\ s[1] \in {0, Unboxed}
  BY <1>1, <1>5, <1>6, Pushed
<1>8. SetStack(s)
  BY <1>2, <1>4, <1>6 DEF SetStack
<1>9. QED
  BY <1>1, <1>7, <1>8, StackChanged

\* The write of one field.
Written(o, i, v) == [o EXCEPT !.fields = [o.fields EXCEPT ![i] = v]]

\* A write to a field of an object changes that field only.
LEMMA WrittenObject ==
  ASSUME NEW o \in ObjectType, NEW i \in DOMAIN o.fields, NEW v \in Values
  PROVE  /\ Written(o, i, v) \in ObjectType
         /\ Written(o, i, v).id = o.id /\ Written(o, i, v).kind = o.kind
         /\ Written(o, i, v).marked = o.marked
         /\ Written(o, i, v).enqueued = o.enqueued
         /\ Size(Written(o, i, v)) = Size(o)
         /\ FirstField(Written(o, i, v)) = FirstField(o)
         /\ Len(Written(o, i, v).fields) = Len(o.fields)
         /\ \A j \in DOMAIN o.fields :
              Written(o, i, v).fields[j] = IF j = i THEN v ELSE o.fields[j]
<1>1. o.fields \in Seq(Values)
  BY ObjectFields
<1>2. PICK fs : fs = [o.fields EXCEPT ![i] = v]
  OBVIOUS
<1>3. /\ fs \in Seq(Values) /\ Len(fs) = Len(o.fields)
      /\ \A j \in DOMAIN o.fields : fs[j] = IF j = i THEN v ELSE o.fields[j]
  <2>1. DOMAIN o.fields = 1..Len(o.fields)
    BY <1>1, LenProperties
  <2>2. QED
    BY <1>1, <1>2, <2>1, ExceptSeq
<1>4. PICK n : n = Written(o, i, v)
  OBVIOUS
<1>5. n = [o EXCEPT !.fields = fs]
  BY <1>2, <1>4 DEF Written
<1>6. /\ n \in ObjectType /\ n.fields = fs /\ n.id = o.id /\ n.kind = o.kind
      /\ n.marked = o.marked /\ n.enqueued = o.enqueued
  BY <1>3, <1>5 DEF ObjectType
<1>7. Size(n) = Size(o) /\ FirstField(n) = FirstField(o)
  BY <1>3, <1>6 DEF Size, FirstField
<1>8. QED
  BY <1>3, <1>4, <1>6, <1>7

\* A write of a known value into an object the program knows, with the stack
\* the instruction leaves.
LEMMA Assigned ==
  ASSUME IInv, phase = "run", NEW p \in Known, IsObject(p), NEW i \in Fields(p),
         NEW v \in Known, Assign(p, i, v),
         NEW s \in Seq(Known), Len(s) >= Base, s[1] \in {0, Unboxed}, stack' = s
  PROVE  IInv'
<1>1. UNCHANGED <<heap, mapped, extra, req, phase, root, head, tail, obj,
                  fld, old, iter, free, nextId, snap>>
  BY DEF Assign, markVars, compactVars
<1>2. /\ Memory(mem) /\ Tiled(mem, heap.current) /\ Known \subseteq Values
      /\ \A a \in DOMAIN mem : RefersTo(mem[a], heap.begin, DOMAIN mem)
      /\ heap.current \in Nat /\ Settled
  BY Running DEF Settled
<1>3. PICK a \in DOMAIN mem : a = Target(heap, p)
  BY <1>2, FieldKnown
<1>4. i \in DOMAIN mem[a].fields /\ mem[a] \in ObjectType /\ v \in Values
  BY <1>2, <1>3, FieldKnown DEF Memory
<1>5. PICK n : n = [mem EXCEPT ![a] = Written(mem[a], i, v)]
  OBVIOUS
<1>6. mem' = n
  BY <1>3, <1>5 DEF Assign, Written
<1>7. /\ DOMAIN n = DOMAIN mem
      /\ n[a] = Written(mem[a], i, v)
      /\ \A b \in DOMAIN mem : b # a => n[b] = mem[b]
  BY <1>5
<1>8. Memory(n)
  <2>1. \A b \in DOMAIN mem : n[b] \in ObjectType
    BY <1>2, <1>4, <1>7, WrittenObject DEF Memory
  <2>2. n = [b \in DOMAIN mem |-> n[b]]
    BY <1>5
  <2>3. QED
    BY <2>1, <2>2, <1>2, <1>7 DEF Memory
<1>9. \A b \in DOMAIN mem : /\ Size(n[b]) = Size(mem[b]) /\ n[b].id = mem[b].id
                            /\ n[b].marked = mem[b].marked
                            /\ n[b].enqueued = mem[b].enqueued
  BY <1>4, <1>7, WrittenObject
<1>10. Tiled(n, heap.current)
  BY <1>2, <1>7, <1>9 DEF Tiled
<1>11. \A b \in DOMAIN mem : RefersTo(n[b], heap.begin, DOMAIN mem)
  <2>1. ASSUME NEW b \in DOMAIN mem PROVE RefersTo(n[b], heap.begin, DOMAIN mem)
    <3>1. CASE b # a
      BY <3>1, <1>2, <1>7
    <3>2. CASE b = a
      <4>1. /\ FirstField(n[a]) = FirstField(mem[a])
            /\ Len(n[a].fields) = Len(mem[a].fields)
            /\ \A j \in DOMAIN mem[a].fields :
                 n[a].fields[j] = IF j = i THEN v ELSE mem[a].fields[j]
        BY <1>4, <1>7, WrittenObject
      <4>2. FirstField(mem[a]) \in Nat \ {0} /\ mem[a].fields \in Seq(Values)
        BY <1>4, ObjectFields
      <4>3. \A j \in FirstField(mem[a])..Len(mem[a].fields) :
              j \in DOMAIN mem[a].fields
        BY <4>2
      <4>4. RefersTo(mem[a], heap.begin, DOMAIN mem)
        BY <1>2
      <4>5. v \in ValuesAt(heap.begin, DOMAIN mem)
        BY DEF Known
      <4>6. QED
        BY <3>2, <4>1, <4>3, <4>4, <4>5 DEF RefersTo
    <3>3. QED
      BY <3>1, <3>2
  <2>2. QED
    BY <2>1
<1>12. Typed'
  <2>1. s \in Seq(Values)
    BY <1>2, SeqMonotonic
  <2>2. QED
    BY <1>1, <1>6, <1>8, <2>1 DEF IInv, Typed, Memory
<1>13. PagesInv' /\ StackInv'
  BY <1>1 DEF IInv, PagesInv, PagesOf, StackInv, InBuiltin, Base
<1>14. HeapInv'
  BY <1>1, <1>6, <1>7, <1>9, <1>10 DEF IInv, HeapInv
<1>15. Sound'
  <2>1. \A j \in DOMAIN s : s[j] \in ValuesAt(heap.begin, DOMAIN mem)
    BY DEF Known
  <2>2. QED
    BY <1>1, <1>6, <1>7, <1>11, <2>1 DEF Sound
<1>16. Clean'
  BY <1>1, <1>6, <1>7, <1>9 DEF IInv, Clean
<1>17. MarkInv' /\ QInv' /\ CompactInv' /\ MoveInv' /\ SnapInv'
  BY <1>1 DEF MarkInv, QInv, CompactInv, MoveInv, SnapInv, Marking
<1>18. QED
  BY <1>12, <1>13, <1>14, <1>15, <1>16, <1>17 DEF IInv

\* ST C writes into the closure of the frame.
LEMMA StCapturedStep == IInv /\ StCaptured => IInv'
<1> SUFFICES ASSUME IInv, StCaptured PROVE IInv'
  OBVIOUS
<1>1. phase = "run" /\ Settled /\ Len(stack) >= Base + 1 /\ stack' = stack
  BY DEF StCaptured, Dispatch, Settled
<1>2. PICK t \in Slots : /\ IsClosure(stack[t])
                         /\ \E i \in Fields(stack[t]) : Assign(stack[t], i, Top(0))
  BY DEF StCaptured
<1>3. /\ stack \in Seq(Known) /\ Len(stack) \in Nat /\ Base \in Nat /\ Base >= 2
      /\ stack[1] \in {0, Unboxed} /\ Len(stack) >= Base
  BY <1>1, Running
<1>4. PICK v : v = Top(0)
  OBVIOUS
<1>5. v \in Known
  <2>1. Len(stack) > 0
    BY <1>3
  <2>2. QED
    BY <1>1, <1>4, <2>1, TopKnown
<1>6. PICK p : p = stack[t]
  OBVIOUS
<1>7. p \in Known /\ IsObject(p)
  <2>1. t \in 1..Len(stack)
    BY <1>3 DEF Slots
  <2>2. QED
    BY <1>2, <1>3, <1>6, <2>1, ElementOfSeq DEF IsClosure
<1>8. PICK i \in Fields(p) : Assign(p, i, v)
  BY <1>2, <1>4, <1>6
<1>9. PICK s : s = stack
  OBVIOUS
<1>10. s \in Seq(Known) /\ Len(s) >= Base /\ s[1] \in {0, Unboxed} /\ stack' = s
  BY <1>1, <1>3, <1>9
<1>11. QED
  BY <1>1, <1>5, <1>7, <1>8, <1>10, Assigned

\* STA writes an element and leaves the value on the stack.
LEMMA StaStep == IInv /\ Sta => IInv'
<1> SUFFICES ASSUME IInv, Sta PROVE IInv'
  OBVIOUS
<1>1. /\ phase = "run" /\ Settled /\ Len(stack) >= Base + 3 /\ IsObject(Top(2))
      /\ stack' = Append(Pop(3), Top(0))
  BY DEF Sta, Dispatch, Settled, Indexable
<1>2. Len(stack) > 2
  BY <1>1, Running
<1>3. PICK v : v = Top(0)
  OBVIOUS
<1>4. PICK p : p = Top(2)
  OBVIOUS
<1>5. v \in Known /\ p \in Known
  <2>1. Len(stack) > 0 /\ Len(stack) > 2
    BY <1>1, <1>2, Running
  <2>2. QED
    BY <1>1, <1>3, <1>4, <2>1, TopKnown
<1>6. PICK i \in Fields(p) : Assign(p, i, v)
  BY <1>3, <1>4 DEF Sta
<1>7. PICK s : s = Append(Pop(3), v)
  OBVIOUS
<1>8. s \in Seq(Known) /\ Len(s) >= Base /\ s[1] \in {0, Unboxed}
  BY <1>1, <1>5, <1>7, Pushed
<1>9. stack' = s
  BY <1>1, <1>3, <1>7
<1>10. QED
  BY <1>1, <1>4, <1>5, <1>6, <1>8, <1>9, Assigned

---------------------------------------------------------------------------
(***************************************************************************)
(* The allocating builtins.                                                *)
(***************************************************************************)

\* The prologue: what the builtin has pushed and registered is in order.
LEMMA Entered ==
  ASSUME IInv, phase = "run",
         NEW op \in Operators, NEW n \in Nat, NEW s \in Seq(Known), NEW rs \in Seq(Nat),
         Enter(op, n, s, rs),
         \A i \in 1..Len(rs) : rs[i] = 0 \/ rs[i] \in 2..(Len(stack) + Len(s)),
         Len(stack) + Len(s) >= Base + Operands([op |-> op, n |-> n])
  PROVE  IInv'
<1>1. /\ stack' = stack \o s /\ req' = [op |-> op, n |-> n]
      /\ phase' \in {"exit", "alloc"}
      /\ phase' = "alloc" => extra' = rs
      /\ UNCHANGED <<mem, heap, mapped, root, head, tail, obj,
                     fld, old, iter, free, nextId, snap>>
  BY DEF Enter, markVars, compactVars
<1>2. extra' \in Seq(Nat)
  <2>1. CASE Len(rs) > MaxExtraRoots
    <3>1. extra' = SubSeq(rs, 1, MaxExtraRoots)
      BY <2>1 DEF Enter
    <3>2. MaxExtraRoots \in 0..Len(rs)
      BY <2>1, BoundsAssumption
    <3>3. QED
      BY <3>1, <3>2, PopProperties
  <2>2. CASE ~(Len(rs) > MaxExtraRoots)
    BY <2>2 DEF Enter
  <2>3. QED
    BY <2>1, <2>2
<1>3. /\ stack \in Seq(Known) /\ Len(stack) \in Nat /\ Base \in Nat /\ Base >= 2
      /\ stack[1] \in {0, Unboxed} /\ Len(stack) >= Base /\ Known \subseteq Values
  BY Running DEF Settled
<1>4. PICK t : t = stack \o s
  OBVIOUS
<1>5. /\ t \in Seq(Known) /\ Len(t) = Len(stack) + Len(s)
      /\ \A i \in 1..Len(stack) : t[i] = stack[i]
      /\ Len(s) \in Nat
  BY <1>3, <1>4, Appended
<1>6. t[1] = stack[1] /\ Len(t) >= Base
  BY <1>3, <1>5
<1>7. Typed'
  <2>1. t \in Seq(Values)
    BY <1>3, <1>5, SeqMonotonic
  <2>2. req' \in [op : Operators \cup {"none"}, n : Nat]
    BY <1>1
  <2>3. phase' \in Phases
    BY <1>1 DEF Phases
  <2>4. QED
    BY <1>1, <1>2, <1>4, <2>1, <2>2, <2>3 DEF IInv, Typed
<1>8. PagesInv'
  BY <1>1 DEF IInv, PagesInv, PagesOf
<1>9. StackInv'
  <2>1. Len(t) >= Base + Operands(req)'
    <3>1. Operands(req)' = Operands([op |-> op, n |-> n])
      BY <1>1 DEF Operands
    <3>2. QED
      BY <3>1, <1>5
  <2>2. req'.op \in Operators
    BY <1>1
  <2>3. phase' = "alloc" =>
          \A i \in DOMAIN extra' : extra'[i] = 0 \/ extra'[i] \in 2..Len(t)
    <3>1. DOMAIN rs = 1..Len(rs)
      BY LenProperties
    <3>2. QED
      BY <1>1, <1>5, <3>1
  <2>4. phase' \in InBuiltin => phase' = "alloc"
    BY <1>1 DEF InBuiltin
  <2>5. Len(t) >= Base /\ t[1] \in {0, Unboxed} /\ stack' = t
    BY <1>1, <1>3, <1>4, <1>6
  <2>6. QED
    BY <2>1, <2>2, <2>3, <2>4, <2>5 DEF StackInv, Base
<1>10. HeapInv'
  BY <1>1 DEF IInv, HeapInv
<1>11. Sound' /\ Clean'
  <2>1. \A i \in DOMAIN t : t[i] \in ValuesAt(heap.begin, DOMAIN mem)
    BY <1>5 DEF Known
  <2>2. QED
    BY <1>1, <1>4, <2>1 DEF IInv, Sound, Clean
<1>12. MarkInv' /\ QInv' /\ CompactInv' /\ MoveInv' /\ SnapInv'
  BY <1>1 DEF MarkInv, QInv, CompactInv, MoveInv, SnapInv, Marking
<1>13. QED
  BY <1>7, <1>8, <1>9, <1>10, <1>11, <1>12 DEF IInv

\* The roots of n operands are the n slots up to s.
LEMMA RootsOfOperands ==
  ASSUME NEW n \in Nat, NEW s \in Nat, s >= n + 1
  PROVE  /\ OperandRoots(s, n) \in Seq(Nat) /\ Len(OperandRoots(s, n)) = n
         /\ \A i \in 1..n : OperandRoots(s, n)[i] \in 2..s
<1>1. \A i \in 1..n : s + 1 - i \in 2..s
  OBVIOUS
<1>2. OperandRoots(s, n) \in [1..n -> Nat]
  BY <1>1 DEF OperandRoots
<1>3. OperandRoots(s, n) \in Seq(Nat) /\ Len(OperandRoots(s, n)) = n
  <2>1. PICK w : w = OperandRoots(s, n)
    OBVIOUS
  <2>2. w \in [1..n -> Nat]
    BY <1>2, <2>1
  <2>3. w \in Seq(Nat) /\ Len(w) = n
    BY <2>2
  <2>4. QED
    BY <2>1, <2>3
<1>4. QED
  BY <1>1, <1>3 DEF OperandRoots

\* How many operands each builtin takes off the stack.
LEMMA OperandCounts ==
  ASSUME NEW n
  PROVE  /\ Operands([op |-> "STRING", n |-> n]) = 0
         /\ Operands([op |-> "LSTRING", n |-> n]) = 0
         /\ Operands([op |-> "BARRAY", n |-> n]) = n
         /\ Operands([op |-> "SEXP", n |-> n]) = n + 1
         /\ Operands([op |-> "CLOSURE", n |-> n]) = n + 1
BY DEF Operands

\* STRING enters Bstring with no operand.
LEMMA StringStep == IInv /\ String => IInv'
<1> SUFFICES ASSUME IInv, String PROVE IInv'
  OBVIOUS
<1>1. phase = "run" /\ Settled /\ Enter("STRING", 1, << >>, <<0>>)
  BY DEF String, Dispatch, Settled
<1>2. Len(stack) \in Nat /\ Len(stack) >= Base /\ Base \in Nat
  BY <1>1, Running
<1>3. << >> \in Seq(Known) /\ Len(<< >>) = 0
  OBVIOUS
<1>4. <<0>> \in Seq(Nat) /\ Len(<<0>>) = 1 /\ <<0>>[1] = 0
  OBVIOUS
<1>5. PICK rs : rs = <<0>>
  OBVIOUS
<1>6. rs \in Seq(Nat) /\ \A i \in 1..Len(rs) : rs[i] = 0
  BY <1>4, <1>5
<1>7. Len(stack) + Len(<< >>) >= Base + Operands([op |-> "STRING", n |-> 1])
  <2>1. Operands([op |-> "STRING", n |-> 1]) = 0
    BY OperandCounts
  <2>2. QED
    BY <1>2, <1>3, <2>1
<1>8. "STRING" \in Operators
  BY DEF Operators
<1>9. Enter("STRING", 1, << >>, rs)
  BY <1>1, <1>5
<1>10. QED
  BY <1>1, <1>3, <1>6, <1>7, <1>8, <1>9, Entered

\* LSTRING enters with its operand registered as a root.
LEMMA LstringStep == IInv /\ Lstring => IInv'
<1> SUFFICES ASSUME IInv, Lstring PROVE IInv'
  OBVIOUS
<1>1. phase = "run" /\ Settled /\ Enter("LSTRING", 1, << >>, <<Len(stack), 0>>)
  BY DEF Lstring, Dispatch, Settled
<1>2. Len(stack) \in Nat /\ Len(stack) >= Base /\ Base \in Nat /\ Base >= 2
  BY <1>1, Running
<1>3. << >> \in Seq(Known) /\ Len(<< >>) = 0
  OBVIOUS
<1>4. PICK l : l = Len(stack)
  OBVIOUS
<1>5. PICK rs : rs = <<l, 0>>
  OBVIOUS
<1>6. rs \in Seq(Nat) /\ Len(rs) = 2 /\ rs[1] = l /\ rs[2] = 0
  BY <1>2, <1>4, <1>5
<1>7. l \in 2..(Len(stack) + Len(<< >>))
  BY <1>2, <1>3, <1>4
<1>8. \A i \in 1..Len(rs) : rs[i] = 0 \/ rs[i] \in 2..(Len(stack) + Len(<< >>))
  <2>1. \A i \in 1..2 : i = 1 \/ i = 2
    OBVIOUS
  <2>2. QED
    BY <1>6, <1>7, <2>1
<1>9. Len(stack) + Len(<< >>) >= Base + Operands([op |-> "LSTRING", n |-> 1])
  <2>1. Operands([op |-> "LSTRING", n |-> 1]) = 0
    BY OperandCounts
  <2>2. QED
    BY <1>2, <1>3, <2>1
<1>10. "LSTRING" \in Operators
  BY DEF Operators
<1>11. Enter("LSTRING", 1, << >>, rs)
  BY <1>1, <1>4, <1>5
<1>12. QED
  BY <1>1, <1>3, <1>6, <1>8, <1>9, <1>10, <1>11, Entered

\* BARRAY registers its n operands as roots.
LEMMA BarrayStep == IInv /\ Barray => IInv'
<1> SUFFICES ASSUME IInv, Barray PROVE IInv'
  OBVIOUS
<1>1. PICK n \in 0..MaxFields :
        /\ phase = "run" /\ Settled /\ Len(stack) >= Base + n
        /\ Enter("BARRAY", n, << >>, OperandRoots(Len(stack), n))
  BY DEF Barray, Dispatch, Settled
<1>2. Len(stack) \in Nat /\ Base \in Nat /\ Base >= 2 /\ n \in Nat
  BY <1>1, Running, BoundsAssumption
<1>3. << >> \in Seq(Known) /\ Len(<< >>) = 0
  OBVIOUS
<1>4. Len(stack) >= n + 1
  BY <1>1, <1>2
<1>5. PICK rs : rs = OperandRoots(Len(stack), n)
  OBVIOUS
<1>6. rs \in Seq(Nat) /\ Len(rs) = n /\ \A i \in 1..n : rs[i] \in 2..Len(stack)
  BY <1>2, <1>4, <1>5, RootsOfOperands
<1>7. Len(stack) + Len(<< >>) = Len(stack)
  BY <1>2, <1>3
<1>8. Len(stack) + Len(<< >>) >= Base + Operands([op |-> "BARRAY", n |-> n])
  BY <1>1, <1>7, OperandCounts
<1>9. "BARRAY" \in Operators
  BY DEF Operators
<1>10. Enter("BARRAY", n, << >>, rs)
  BY <1>1, <1>5
<1>11. QED
  BY <1>1, <1>2, <1>3, <1>6, <1>7, <1>8, <1>9, <1>10, Entered

\* SEXP pushes the hash of the tag above its operands first.
LEMMA SexpStep == IInv /\ Sexp => IInv'
<1> SUFFICES ASSUME IInv, Sexp PROVE IInv'
  OBVIOUS
<1>1. PICK n \in 0..MaxFields :
        /\ phase = "run" /\ Settled /\ Len(stack) >= Base + n
        /\ Enter("SEXP", n, <<Unboxed>>, OperandRoots(Len(stack), n))
  BY DEF Sexp, Dispatch, Settled
<1>2. Len(stack) \in Nat /\ Base \in Nat /\ Base >= 2 /\ n \in Nat
  BY <1>1, Running, BoundsAssumption
<1>3. PICK s : s = <<Unboxed>>
  OBVIOUS
<1>4. s \in Seq(Known) /\ Len(s) = 1
  <2>1. Unboxed \in Known
    BY <1>1, Running
  <2>2. QED
    BY <1>3, <2>1
<1>5. Len(stack) >= n + 1
  BY <1>1, <1>2
<1>6. PICK rs : rs = OperandRoots(Len(stack), n)
  OBVIOUS
<1>7. rs \in Seq(Nat) /\ Len(rs) = n /\ \A i \in 1..n : rs[i] \in 2..Len(stack)
  BY <1>2, <1>5, <1>6, RootsOfOperands
<1>8. \A i \in 1..Len(rs) : rs[i] = 0 \/ rs[i] \in 2..(Len(stack) + Len(s))
  <2>1. 2..Len(stack) \subseteq 2..(Len(stack) + Len(s))
    BY <1>2, <1>4
  <2>2. QED
    BY <1>7, <2>1
<1>9. Len(stack) + Len(s) >= Base + Operands([op |-> "SEXP", n |-> n])
  <2>1. Operands([op |-> "SEXP", n |-> n]) = n + 1
    BY OperandCounts
  <2>2. QED
    BY <1>1, <1>2, <1>4, <2>1
<1>10. "SEXP" \in Operators
  BY DEF Operators
<1>11. Enter("SEXP", n, s, rs)
  BY <1>1, <1>3, <1>6
<1>12. QED
  BY <1>1, <1>2, <1>4, <1>7, <1>8, <1>9, <1>10, <1>11, Entered

\* CLOSURE pushes what it captures, known values all, and the code address.
LEMMA ClosureStep == IInv /\ Closure => IInv'
<1> SUFFICES ASSUME IInv, Closure PROVE IInv'
  OBVIOUS
<1>1. PICK n \in 0..MaxFields :
        /\ phase = "run" /\ Settled
        /\ \E vs \in [1..n -> {stack[s] : s \in Slots} \cup Captures] :
             Enter("CLOSURE", n, Append(vs, 0), OperandRoots(Len(stack) + n, n))
  BY DEF Closure, Dispatch, Settled
<1>2. PICK vs \in [1..n -> {stack[s] : s \in Slots} \cup Captures] :
        Enter("CLOSURE", n, Append(vs, 0), OperandRoots(Len(stack) + n, n))
  BY <1>1
<1>3. /\ Len(stack) \in Nat /\ Base \in Nat /\ Base >= 2 /\ n \in Nat
      /\ Len(stack) >= Base /\ stack \in Seq(Known)
  BY <1>1, Running, BoundsAssumption
<1>4. {stack[s] : s \in Slots} \cup Captures \subseteq Known
  <2>1. \A s \in Slots : stack[s] \in Known
    <3>1. Slots \subseteq 1..Len(stack)
      BY <1>3 DEF Slots
    <3>2. QED
      BY <3>1, <1>3, ElementOfSeq
  <2>2. QED
    BY <1>1, <2>1, CapturesKnown
<1>5. vs \in Seq(Known) /\ Len(vs) = n
  <2>1. vs \in [1..n -> Known]
    BY <1>4
  <2>2. QED
    BY <2>1, <1>3
<1>6. PICK s : s = Append(vs, 0)
  OBVIOUS
<1>7. s \in Seq(Known) /\ Len(s) = n + 1
  <2>1. 0 \in Known
    BY <1>1, Running
  <2>2. QED
    BY <1>5, <1>6, <2>1, AppendProperties
<1>8. PICK l \in Nat : l = Len(stack) + n /\ l >= n + 1
  BY <1>3
<1>9. PICK rs : rs = OperandRoots(l, n)
  OBVIOUS
<1>10. rs \in Seq(Nat) /\ Len(rs) = n /\ \A i \in 1..n : rs[i] \in 2..l
  BY <1>3, <1>8, <1>9, RootsOfOperands
<1>11. \A i \in 1..Len(rs) : rs[i] = 0 \/ rs[i] \in 2..(Len(stack) + Len(s))
  <2>1. 2..l \subseteq 2..(Len(stack) + Len(s))
    BY <1>3, <1>7, <1>8
  <2>2. QED
    BY <1>10, <2>1
<1>12. Len(stack) + Len(s) >= Base + Operands([op |-> "CLOSURE", n |-> n])
  <2>1. Operands([op |-> "CLOSURE", n |-> n]) = n + 1
    BY OperandCounts
  <2>2. QED
    BY <1>3, <1>7, <2>1
<1>13. "CLOSURE" \in Operators
  BY DEF Operators
<1>14. Enter("CLOSURE", n, s, rs)
  BY <1>2, <1>6, <1>8, <1>9
<1>15. QED
  BY <1>1, <1>3, <1>7, <1>10, <1>11, <1>12, <1>13, <1>14, Entered

\* The request of the builtin: how many words and operands, which contents.
LEMMA Requested ==
  ASSUME IInv, phase \in {"alloc", "retry"}
  PROVE  /\ req.op \in Operators /\ req.n \in Nat
         /\ Operands(req) \in Nat /\ Words(req) \in Nat /\ Words(req) >= 2
         /\ Len(stack) >= Base + Operands(req)
         /\ KindOf(req.op) \in Kinds
         /\ Contents(req) \in Seq(Known) /\ Words(req) = 2 + Len(Contents(req))
<1>1. /\ req.op \in Operators /\ Len(stack) >= Base + Operands(req)
  BY DEF IInv, StackInv, InBuiltin, Phases
<1>2. req.n \in Nat
  BY DEF IInv, Typed
<1>3. PICK op \in Operators : req.op = op
  BY <1>1
<1>4. PICK n \in Nat : req.n = n
  BY <1>2
<1>5. PICK l \in Nat : l = Len(stack) /\ stack \in Seq(Known) /\ 0 \in Known
  BY Running DEF Settled
<1>6. Base \in Nat /\ Base >= 2
  BY Running DEF Settled
<1>7. CASE op \in {"STRING", "LSTRING"}
  <2>1. /\ Operands(req) = 0 /\ Words(req) = 2 + n /\ KindOf(req.op) = "string"
        /\ Contents(req) = [i \in 1..n |-> 0]
    BY <1>3, <1>4, <1>7 DEF Operands, Words, KindOf, Contents, Hdr
  <2>2. PICK t : t = [i \in 1..n |-> 0]
    OBVIOUS
  <2>3. t \in Seq(Known) /\ Len(t) = n
    BY <1>5, <2>2
  <2>4. QED
    BY <1>1, <1>2, <2>1, <2>2, <2>3 DEF Kinds
<1>8. CASE op = "BARRAY"
  <2>1. /\ Operands(req) = n /\ Words(req) = 2 + n /\ KindOf(req.op) = "array"
        /\ Contents(req) = SubSeq(stack, Len(stack) - n + 1, Len(stack))
    BY <1>3, <1>4, <1>8, SMTT(30) DEF Operands, Words, KindOf, Contents, Hdr
  <2>2. l >= n
    BY <1>1, <1>5, <1>6, <2>1
  <2>3. PICK k \in 1..(l + 1) : k = l - n + 1
    BY <2>2
  <2>4. SubSeq(stack, k, l) \in Seq(Known) /\ Len(SubSeq(stack, k, l)) = n
    BY <1>5, <2>3, SubSeqProperties
  <2>5. Contents(req) = SubSeq(stack, k, l)
    BY <1>5, <2>1, <2>3
  <2>6. /\ Contents(req) \in Seq(Known)
       /\ Words(req) = 2 + Len(Contents(req)) /\ Words(req) >= 2
    <3>1. PICK ct : ct = Contents(req)
      OBVIOUS
    <3>2. PICK w : w = Words(req)
      OBVIOUS
    <3>3. ct \in Seq(Known) /\ Len(ct) = n
      BY <2>4, <2>5, <3>1
    <3>4. w = 2 + Len(ct)
      BY <2>1, <3>2, <3>3
    <3>5. w >= 2
      BY <3>3, <3>4
    <3>6. QED
      BY <3>1, <3>2, <3>3, <3>4, <3>5
  <2>7. QED
    BY <1>1, <1>2, <2>1, <2>6 DEF Kinds
<1>9. CASE op \in {"SEXP", "CLOSURE"}
  <2>0. /\ Operands(req) = n + 1 /\ Words(req) = 2 + n + 1
        /\ Contents(req) = <<0>> \o SubSeq(stack, Len(stack) - n, Len(stack) - 1)
    BY <1>3, <1>4, <1>9 DEF Operands, Words, Contents, Hdr
  <2>1. /\ Operands(req) = n + 1 /\ Words(req) = 2 + (1 + n)
        /\ KindOf(req.op) \in {"sexp", "closure"}
        /\ Contents(req) = <<0>> \o SubSeq(stack, Len(stack) - n, Len(stack) - 1)
    BY <2>0, <1>3, <1>9 DEF KindOf
  <2>2. l >= n + 1
    BY <1>1, <1>5, <1>6, <2>1
  <2>3. PICK k \in 1..l : k = l - n
    BY <2>2
  <2>4. PICK k1 \in 0..l : k1 = l - 1
    BY <2>2
  <2>5. PICK t : t = SubSeq(stack, k, k1)
    OBVIOUS
  <2>6. t \in Seq(Known) /\ Len(t) = n
    BY <1>5, <2>3, <2>4, <2>5, SubSeqProperties, SMTT(30)
  <2>7. PICK z : z = <<0>>
    OBVIOUS
  <2>8. z \in Seq(Known) /\ Len(z) = 1
    BY <1>5, <2>7
  <2>9. z \o t \in Seq(Known) /\ Len(z \o t) = 1 + n
    <3>1. z \in Seq(Known) /\ t \in Seq(Known)
      BY <2>6, <2>8
    <3>2. z \o t \in Seq(Known) /\ Len(z \o t) = Len(z) + Len(t)
      BY ONLY <3>1, Appended
    <3>3. QED
      BY <2>6, <2>8, <3>2
  <2>10. Contents(req) = z \o t
    BY <1>5, <2>1, <2>3, <2>4, <2>5, <2>7
  <2>11. /\ Contents(req) \in Seq(Known)
       /\ Words(req) = 2 + Len(Contents(req)) /\ Words(req) >= 2
    <3>1. PICK ct : ct = Contents(req)
      OBVIOUS
    <3>2. PICK w : w = Words(req)
      OBVIOUS
    <3>3. ct \in Seq(Known) /\ Len(ct) = 1 + n
      BY <2>9, <2>10, <3>1
    <3>4. w = 2 + Len(ct)
      BY <2>1, <3>2, <3>3
    <3>5. w >= 2
      BY <3>3, <3>4
    <3>6. QED
      BY <3>1, <3>2, <3>3, <3>4, <3>5
  <2>12. QED
    BY <1>1, <1>2, <2>1, <2>11 DEF Kinds
<1>10. QED
  BY <1>7, <1>8, <1>9 DEF Operators

\* One object more, at the end of the heap.
LEMMA OneMore ==
  ASSUME NEW m, NEW end \in Nat, Memory(m), Tiled(m, end),
         NEW o \in ObjectType, NEW n,
         n = [a \in DOMAIN m \cup {end} |-> IF a = end THEN o ELSE m[a]]
  PROVE  /\ end \notin DOMAIN m /\ Memory(n)
         /\ n[end] = o /\ \A a \in DOMAIN m : n[a] = m[a]
         /\ Tiled(n, end + Size(o))
<1>1. \A a \in DOMAIN m : a \in Nat /\ a < end /\ a + Size(m[a]) \in DOMAIN m \cup {end}
                          /\ a + Size(m[a]) <= end /\ a + Size(m[a]) \in Nat
  BY NextTile DEF Tiled
<1>2. end \notin DOMAIN m
  BY <1>1
<1>3. DOMAIN n = DOMAIN m \cup {end} /\ n[end] = o /\ \A a \in DOMAIN m : n[a] = m[a]
  BY <1>2
<1>4. Size(o) \in Nat /\ Size(o) >= 2
  BY ObjectFields
<1>5. Memory(n)
  <2>1. \A a \in DOMAIN n : n[a] \in ObjectType
    BY <1>3 DEF Memory
  <2>2. QED
    BY <1>3, <2>1 DEF Memory
<1>6. \A a \in DOMAIN n : a + Size(n[a]) \in DOMAIN n \cup {end + Size(o)}
                          /\ a + Size(n[a]) <= end + Size(o)
  <2>1. ASSUME NEW a \in DOMAIN m
        PROVE  a + Size(n[a]) \in DOMAIN n \cup {end + Size(o)}
               /\ a + Size(n[a]) <= end + Size(o)
    <3>1. n[a] = m[a] /\ a + Size(m[a]) \in DOMAIN n /\ a + Size(m[a]) <= end
      BY <1>1, <1>3
    <3>2. a + Size(m[a]) <= end + Size(o)
      BY <1>1, <1>4
    <3>3. QED
      BY <3>1, <3>2
  <2>2. end + Size(n[end]) = end + Size(o) /\ end + Size(o) <= end + Size(o)
    BY <1>3, <1>4
  <2>3. QED
    BY <1>3, <2>1, <2>2
<1>7. \A a, b \in DOMAIN n : a < b => a + Size(n[a]) <= b
  <2>1. ASSUME NEW a \in DOMAIN n, NEW b \in DOMAIN n, a < b PROVE a + Size(n[a]) <= b
    <3>1. a \in DOMAIN m
      BY <1>1, <1>3, <2>1
    <3>2. CASE b \in DOMAIN m
      BY <1>3, <2>1, <3>1, <3>2 DEF Tiled
    <3>3. CASE b = end
      BY <1>1, <1>3, <3>1, <3>3
    <3>4. QED
      BY <1>3, <3>2, <3>3
  <2>2. QED
    BY <2>1
<1>8. 0 \in DOMAIN n
  BY <1>3 DEF Tiled
<1>9. QED
  BY <1>2, <1>3, <1>5, <1>6, <1>7, <1>8 DEF Tiled

\* The builtin builds its object.
LEMMA FinishStep == IInv /\ phase \in {"alloc", "retry"} /\ Finish => IInv'
<1> SUFFICES ASSUME IInv, phase \in {"alloc", "retry"}, Finish PROVE IInv'
  OBVIOUS
<1>1. /\ heap' = [heap EXCEPT !.current = @ + Words(req)]
      /\ stack' = Append(Pop(Operands(req)), Content(heap, heap.current))
      /\ extra' = << >> /\ req' = NoReq /\ phase' = "run" /\ nextId' = nextId + 1
      /\ UNCHANGED <<mapped, root, head, tail, obj, fld, old, iter, free>>
      /\ heap.current + Words(req) <= heap.size
  BY DEF Finish, Fits, markVars, compactVars
<1>2. /\ heap.begin \in Nat \ {0} /\ heap.current \in Nat
      /\ Memory(mem) /\ Tiled(mem, heap.current)
      /\ \A a \in DOMAIN mem : RefersTo(mem[a], heap.begin, DOMAIN mem)
      /\ Known \subseteq Values /\ Base \in Nat /\ Base >= 2 /\ Len(stack) \in Nat
  BY Running DEF Settled
<1>3. /\ req.op \in Operators /\ req.n \in Nat
      /\ Operands(req) \in Nat /\ Words(req) \in Nat
      /\ Len(stack) >= Base + Operands(req)
      /\ KindOf(req.op) \in Kinds
      /\ Contents(req) \in Seq(Known) /\ Words(req) = 2 + Len(Contents(req))
  BY Requested
<1>4. PICK c \in Nat : c = heap.current
  BY <1>2
<1>5. nextId \in Nat \ {0} /\ heap \in ChunkType
  BY DEF IInv, Typed
<1>6. PICK o : o = [id |-> nextId, kind |-> KindOf(req.op),
                    fields |-> Contents(req), fwd |-> 0,
                    marked |-> FALSE, enqueued |-> FALSE]
  OBVIOUS
<1>7. o \in ObjectType
  <2>1. Contents(req) \in Seq(Values)
    BY <1>2, <1>3, SeqMonotonic
  <2>2. QED
    BY <1>3, <1>5, <1>6, <2>1 DEF ObjectType
<1>8. Size(o) = Words(req) /\ o.id = nextId /\ ~o.marked /\ ~o.enqueued
  BY <1>3, <1>6 DEF Size, Hdr
<1>9. PICK n : n = [a \in DOMAIN mem \cup {c} |-> IF a = c THEN o ELSE mem[a]]
  OBVIOUS
<1>10. mem' = n
  BY <1>4, <1>6, <1>9 DEF Finish
<1>11. /\ c \notin DOMAIN mem /\ Memory(n) /\ n[c] = o
       /\ \A a \in DOMAIN mem : n[a] = mem[a]
       /\ Tiled(n, c + Size(o))
  BY <1>2, <1>4, <1>7, <1>9, OneMore
<1>12. DOMAIN n = DOMAIN mem \cup {c}
  BY <1>9
<1>13. /\ heap'.begin = heap.begin /\ heap'.size = heap.size
       /\ heap'.current = c + Size(o) /\ heap' \in ChunkType
  BY <1>1, <1>3, <1>4, <1>5, <1>8, SMTT(30) DEF ChunkType
<1>14. PICK t : t = Pop(Operands(req))
  OBVIOUS
<1>15. /\ t \in Seq(Known) /\ Len(t) = Len(stack) - Operands(req)
       /\ Len(t) >= Base /\ t[1] \in {0, Unboxed}
  BY <1>3, <1>14, Popped DEF Settled
<1>16. PICK v : v = Content(heap, c)
  OBVIOUS
<1>17. v \in ValuesAt(heap.begin, DOMAIN n) /\ v \in Values
  <2>1. v = heap.begin + Hdr + c /\ v \in Nat
    BY <1>2, <1>16 DEF Content, Hdr
  <2>2. QED
    BY <1>12, <2>1 DEF ValuesAt, Values
<1>18. PICK K : K = ValuesAt(heap.begin, DOMAIN n)
  OBVIOUS
<1>19. Known \subseteq K
  BY <1>12, <1>18, MoreValues DEF Known
<1>20. PICK s : s = Append(t, v)
  OBVIOUS
<1>21. /\ s \in Seq(K) /\ s \in Seq(Values) /\ Len(s) = Len(t) + 1 /\ s[1] = t[1]
       /\ stack' = s
  <2>1. t \in Seq(K) /\ t \in Seq(Values)
    BY <1>2, <1>15, <1>19, SeqMonotonic
  <2>2. Len(t) \in Nat /\ 1 \in 1..Len(t)
    BY <1>2, <1>15
  <2>3. QED
    BY <1>1, <1>4, <1>14, <1>16, <1>17, <1>18, <1>20, <2>1, <2>2, AppendProperties
<1>22. Typed'
  <2>1. n \in [DOMAIN n -> ObjectType] /\ DOMAIN n \subseteq Nat
    BY <1>11 DEF Memory
  <2>2. NoReq \in [op : Operators \cup {"none"}, n : Nat]
    BY DEF NoReq
  <2>3. nextId + 1 \in Nat \ {0}
    BY <1>5
  <2>4. QED
    BY <1>1, <1>10, <1>13, <1>21, <2>1, <2>2, <2>3, SMTT(30) DEF IInv, Typed, Phases
<1>23. PagesInv'
  BY <1>1, <1>13 DEF IInv, PagesInv, PagesOf
<1>24. StackInv'
  <2>1. Len(s) >= Base
    BY <1>2, <1>15, <1>21
  <2>2. QED
    BY <1>1, <1>15, <1>21, <2>1 DEF StackInv, InBuiltin, Base
<1>25. HeapInv'
  <2>1. \A a \in DOMAIN mem : mem[a].id \in Nat /\ 0 < mem[a].id /\ mem[a].id < nextId
    BY <1>2, ObjectFields DEF IInv, HeapInv, Memory
  <2>2. \A a \in DOMAIN n : 0 < n[a].id /\ n[a].id < nextId + 1
    BY <1>5, <1>8, <1>11, <1>12, <2>1
  <2>3. \A a, b \in DOMAIN mem : mem[a].id = mem[b].id => a = b
    BY DEF IInv, HeapInv
  <2>4. \A a, b \in DOMAIN n : n[a].id = n[b].id => a = b
    BY <1>5, <1>8, <1>11, <1>12, <2>1, <2>3
  <2>5. iter = 0 /\ free = 0
    BY DEF IInv, HeapInv
  <2>6. c + Size(o) <= heap.size
    BY <1>1, <1>4, <1>8
  <2>7. QED
    BY <1>1, <1>10, <1>11, <1>13, <2>2, <2>4, <2>5, <2>6 DEF HeapInv
<1>26. Sound'
  <2>1. \A i \in DOMAIN s : s[i] \in ValuesAt(heap.begin, DOMAIN n)
    BY <1>18, <1>21
  <2>2. \A a \in DOMAIN mem : RefersTo(n[a], heap.begin, DOMAIN n)
    BY <1>2, <1>11, <1>18, <1>19 DEF RefersTo, Known
  <2>3. RefersTo(n[c], heap.begin, DOMAIN n)
    <3>1. \A i \in 1..Len(Contents(req)) : Contents(req)[i] \in K
      BY <1>3, <1>19
    <3>2. FirstField(o)..Len(o.fields) \subseteq 1..Len(Contents(req))
      BY <1>6, <1>7, ObjectFields
    <3>3. n[c] = o /\ o.fields = Contents(req)
      BY <1>6, <1>11
    <3>4. QED
      BY <1>18, <3>1, <3>2, <3>3 DEF RefersTo
  <2>4. QED
    BY <1>10, <1>12, <1>13, <1>21, <2>1, <2>2, <2>3 DEF Sound
<1>27. Clean'
  <2>1. \A a \in DOMAIN mem : ~mem[a].marked /\ ~mem[a].enqueued
    BY DEF IInv, Clean
  <2>2. QED
    BY <1>8, <1>10, <1>11, <1>12, <2>1 DEF Clean
<1>28. MarkInv' /\ QInv' /\ CompactInv' /\ MoveInv' /\ SnapInv'
  BY <1>1 DEF MarkInv, QInv, CompactInv, MoveInv, SnapInv, Marking
<1>29. QED
  BY <1>22, <1>23, <1>24, <1>25, <1>26, <1>27, <1>28 DEF IInv

\* The request fits at once.
LEMMA AllocStep == IInv /\ Alloc => IInv'
BY FinishStep DEF Alloc

\* The request fits after a collection.
LEMMA RetryStep == IInv /\ Retry => IInv'
BY FinishStep DEF Retry

---------------------------------------------------------------------------
(***************************************************************************)
(* Pages, and the initial states.                                          *)
(***************************************************************************)

\* Quotient and remainder.
LEMMA Quotient ==
  ASSUME NEW a \in Nat, NEW w \in Nat \ {0}
  PROVE  /\ a \div w \in Nat /\ w * (a \div w) <= a /\ a < w * (a \div w) + w
<1>1. a \div w \in Nat
  OBVIOUS
<1>2. w * (a \div w) <= a
  OBVIOUS
<1>3. a < w * (a \div w) + w
  OBVIOUS
<1>4. QED
  BY <1>1, <1>2, <1>3

\* A factor can be cancelled.
LEMMA Cancel ==
  ASSUME NEW w \in Nat \ {0}, NEW p \in Int, NEW q \in Int, w * p < w * q
  PROVE  p < q
<1>1. SUFFICES ASSUME q <= p PROVE FALSE
  OBVIOUS
<1>2. PICK d \in Nat : p = q + d
  <2>1. p - q \in Nat
    BY <1>1
  <2>2. p = q + (p - q)
    OBVIOUS
  <2>3. QED
    BY <2>1, <2>2
<1>3. w * p = w * q + w * d
  BY <1>2, SMT
<1>4. w * d >= 0
  BY <1>2, SMT
<1>5. w * p \in Int /\ w * q \in Int /\ w * d \in Int
  BY <1>2
<1>6. QED
  BY <1>3, <1>4, <1>5

\* The page a heap begins at.
LEMMA PageOfBegin ==
  ASSUME NEW p \in Nat, NEW w \in Nat \ {0}
  PROVE  (p * w) \div w = p
<1>1. p * w = w * p /\ w * p \in Nat
  BY SMT
<1>2. PICK q \in Nat : q = (p * w) \div w
  BY <1>1, Quotient
<1>3. w * q <= w * p /\ w * p < w * q + w
  BY <1>1, <1>2, Quotient
<1>4. w * (q + 1) = w * q + w
  BY SMT
<1>5. w * (p + 1) = w * p + w
  BY SMT
<1>6. w * p \in Int /\ w * q \in Int
  OBVIOUS
<1>7. w * p < w * (q + 1) /\ w * q < w * (p + 1)
  BY <1>3, <1>4, <1>5, <1>6
<1>8. p < q + 1 /\ q < p + 1
  BY <1>7, Cancel
<1>9. QED
  BY <1>2, <1>8

\* Rounding up.
LEMMA RoundedUp ==
  ASSUME NEW a \in Nat, NEW w \in Nat \ {0}
  PROVE  /\ CeilDiv(a, w) \in Nat /\ a <= w * CeilDiv(a, w)
         /\ \A n \in Nat : a <= w * n => CeilDiv(a, w) <= n
<1>1. PICK b \in Nat : b = a + w - 1
  <2>1. a + w - 1 \in Nat
    OBVIOUS
  <2>2. QED
    BY <2>1
<1>2. PICK q \in Nat : q = b \div w
  BY Quotient
<1>3. w * q <= b /\ b < w * q + w
  BY <1>2, Quotient
<1>4. CeilDiv(a, w) = q
  BY <1>1, <1>2 DEF CeilDiv
<1>5. w * q \in Int
  OBVIOUS
<1>6. a <= w * q
  BY <1>1, <1>3, <1>5
<1>7. ASSUME NEW n \in Nat, a <= w * n PROVE q <= n
  <2>1. w * (n + 1) = w * n + w /\ w * n \in Int
    BY SMT
  <2>2. w * q < w * (n + 1)
    BY <1>1, <1>3, <1>5, <1>7, <2>1
  <2>3. q < n + 1
    BY <2>2, Cancel
  <2>4. QED
    BY <2>3
<1>8. QED
  BY <1>4, <1>6, <1>7

\* A heap that is smaller takes no more pages.
LEMMA FewerPages ==
  ASSUME NEW a \in Nat, NEW b \in Nat, a <= b, NEW w \in Nat \ {0}
  PROVE  CeilDiv(a, w) <= CeilDiv(b, w)
<1>1. CeilDiv(b, w) \in Nat /\ b <= w * CeilDiv(b, w)
  BY RoundedUp
<1>2. w * CeilDiv(b, w) \in Int
  BY <1>1
<1>3. a <= w * CeilDiv(b, w)
  BY <1>1, <1>2
<1>4. QED
  BY <1>1, <1>3, RoundedUp

\* The states before the first instruction.
LEMMA InitIInv == Init => IInv
<1> SUFFICES ASSUME Init PROVE IInv
  OBVIOUS
<1>1. /\ mem = << >> /\ heap = [begin |-> PageWords, size |-> MinHeap, current |-> 0]
      /\ mapped = 1..CeilDiv(MinHeap, PageWords)
      /\ extra = << >> /\ req = NoReq /\ phase = "run"
      /\ root = 0 /\ head = 0 /\ tail = 0 /\ obj = 0 /\ fld = 0
      /\ old = NoChunk /\ iter = 0 /\ free = 0 /\ nextId = 1 /\ snap = NoSnap
  BY DEF Init
<1>2. PICK g \in [1..NGlobals -> InitialSlots] : stack = g \o <<0, 0>>
  BY DEF Init
<1>3. /\ MinHeap \in Nat \ {0} /\ PageWords \in Nat \ {0} /\ NPages \in Nat
      /\ NGlobals \in Nat
  BY BoundsAssumption
<1>4. DOMAIN mem = {} /\ mem \in [DOMAIN mem -> ObjectType]
  BY <1>1
<1>5. g \in Seq(InitialSlots) /\ Len(g) = NGlobals
  BY <1>3
<1>6. PICK z : z = <<0, 0>>
  OBVIOUS
<1>7. z \in Seq(InitialSlots) /\ Len(z) = 2 /\ z[1] = 0
  BY <1>6 DEF InitialSlots
<1>8. /\ stack \in Seq(InitialSlots) /\ Len(stack) = NGlobals + 2
      /\ \A i \in 1..Len(stack) : stack[i] \in InitialSlots
  <2>1. PICK t : t = g \o z
    OBVIOUS
  <2>2. t \in Seq(InitialSlots) /\ Len(t) = Len(g) + Len(z)
    BY <1>5, <1>7, <2>1, Appended
  <2>3. \A i \in 1..Len(t) : t[i] \in InitialSlots
    BY <2>2, ElementOfSeq
  <2>4. stack = t
    BY <1>2, <1>6, <2>1
  <2>5. QED
    BY <1>5, <1>7, <2>2, <2>3, <2>4
<1>9. InitialSlots = {0, Unboxed} /\ InitialSlots \subseteq Values
  BY DEF InitialSlots, Values
<1>10. Typed
  <2>1. stack \in Seq(Values)
    BY <1>8, <1>9, SeqMonotonic
  <2>2. heap \in ChunkType /\ old \in ChunkType
    BY <1>1, <1>3 DEF ChunkType, NoChunk
  <2>3. req \in [op : Operators \cup {"none"}, n : Nat]
    BY <1>1 DEF NoReq
  <2>4. extra \in Seq(Nat)
    BY <1>1
  <2>5. QED
    BY <1>1, <1>4, <2>1, <2>2, <2>3, <2>4 DEF Typed, Phases
<1>11. PagesInv
  <2>1. heap.begin = 1 * PageWords /\ heap.size = MinHeap
    BY <1>1, <1>3
  <2>2. heap.begin \div PageWords = 1
    BY <1>3, <2>1, PageOfBegin
  <2>3. PICK c \in Nat : c = CeilDiv(MinHeap, PageWords)
    BY <1>3, RoundedUp
  <2>4. c <= NPages
    BY <1>3, <2>3, RoundedUp, BoundsAssumption
  <2>5. PagesOf(heap) = 1..c
    BY <2>1, <2>2, <2>3 DEF PagesOf, Pages
  <2>6. 1..c \subseteq 1..NPages
    BY <1>3, <2>4
  <2>7. QED
    BY <1>1, <2>1, <2>3, <2>5, <2>6 DEF PagesInv
<1>12. StackInv
  <2>1. 1 \in 1..Len(stack) /\ Len(stack) >= Base
    BY <1>3, <1>8 DEF Base
  <2>2. QED
    BY <1>1, <1>8, <1>9, <2>1 DEF StackInv, InBuiltin
<1>13. HeapInv
  BY <1>1, <1>3, <1>4 DEF HeapInv, Tiled
<1>14. Sound /\ Clean
  <2>1. \A s \in DOMAIN stack : stack[s] \in ValuesAt(heap.begin, DOMAIN mem)
    BY <1>8, <1>9 DEF ValuesAt
  <2>2. QED
    BY <1>4, <2>1 DEF Sound, Clean
<1>15. MarkInv /\ QInv /\ CompactInv /\ MoveInv /\ SnapInv
  BY <1>1 DEF MarkInv, QInv, CompactInv, MoveInv, SnapInv, Marking
<1>16. QED
  BY <1>10, <1>11, <1>12, <1>13, <1>14, <1>15 DEF IInv

---------------------------------------------------------------------------
(***************************************************************************)
(* What can be reached, and the store a program sees.                      *)
(***************************************************************************)

\* The references are not being rewritten.
Steady == phase \notin {"update", "move", "exit", "fault"}

\* While no object has moved the heap is as sound as it was when alloc was
\* called.
LEMMA SteadyFacts ==
  ASSUME IInv, Steady
  PROVE  /\ heap.begin \in Nat \ {0} /\ heap.current \in Nat
         /\ Memory(mem) /\ Tiled(mem, heap.current)
         /\ stack \in Seq(Known) /\ Len(stack) \in Nat
         /\ \A a \in DOMAIN mem : RefersTo(mem[a], heap.begin, DOMAIN mem)
         /\ Known \subseteq Values
<1>1. /\ heap.begin \in Nat \ {0} /\ heap.current \in Nat /\ Memory(mem)
  BY HeapFacts
<1>2. Tiled(mem, heap.current)
  BY DEF IInv, HeapInv, Steady
<1>3. /\ \A s \in DOMAIN stack : stack[s] \in Known
      /\ \A a \in DOMAIN mem : RefersTo(mem[a], heap.begin, DOMAIN mem)
  BY DEF IInv, Sound, Known, Steady
<1>4. stack \in Seq(Values)
  BY DEF IInv, Typed
<1>5. stack \in Seq(Known) /\ Len(stack) \in Nat
  <2>1. stack = [s \in 1..Len(stack) |-> stack[s]] /\ Len(stack) \in Nat
    BY <1>4
  <2>2. \A s \in 1..Len(stack) : stack[s] \in Known
    BY <1>3, <1>4
  <2>3. QED
    BY <2>1, <2>2
<1>6. Known \subseteq Values
  BY <1>1, <1>2, Pointers DEF Known
<1>7. QED
  BY <1>1, <1>2, <1>3, <1>5, <1>6

\* The three sorts of values.
LEMMA KnownCases ==
  ASSUME IInv, Steady, NEW v \in Known
  PROVE  \/ v = Unboxed /\ AbsValue(v) = v /\ ~IsValidHeapPointer(v)
         \/ v = 0 /\ v # Unboxed /\ AbsValue(v) = v /\ ~IsValidHeapPointer(v)
         \/ /\ v \in Nat /\ v # 0 /\ v # Unboxed /\ IsValidHeapPointer(v)
            /\ Target(heap, v) \in DOMAIN mem
            /\ v = heap.begin + Hdr + Target(heap, v)
            /\ AbsValue(v) = mem[Target(heap, v)].id
<1>1. /\ heap.begin \in Nat \ {0} /\ heap.current \in Nat
      /\ Memory(mem) /\ Tiled(mem, heap.current)
  BY SteadyFacts
<1>2. v \in ValuesAt(heap.begin, DOMAIN mem)
  BY DEF Known
<1>3. \/ v = Unboxed
      \/ v = 0 /\ v # Unboxed /\ ~InChunk(heap, v)
      \/ /\ v \in Nat /\ v # 0 /\ v # Unboxed /\ InChunk(heap, v)
         /\ Target(heap, v) \in DOMAIN mem
         /\ v = heap.begin + Hdr + Target(heap, v)
  BY <1>1, <1>2, Pointers
<1>4. QED
  BY <1>3 DEF AbsValue, IsValidHeapPointer, IsValidPointer

\* The identities of the objects.
LEMMA Identities ==
  ASSUME IInv, NEW a \in DOMAIN mem
  PROVE  mem[a].id \in Nat \ {0} /\ mem[a].id # Unboxed
<1>1. mem[a] \in ObjectType
  BY HeapFacts DEF Memory
<1>2. mem[a].id \in Nat
  BY <1>1, ObjectFields
<1>3. 0 < mem[a].id
  BY DEF IInv, HeapInv
<1>4. QED
  BY <1>2, <1>3, UnboxedAssumption

\* The references in an object, one by one.
LEMMA ReferencesOf ==
  ASSUME IInv, Steady, NEW a \in DOMAIN mem
  PROVE  /\ mem[a] \in ObjectType /\ a \in Nat
         /\ \A i \in FirstField(mem[a])..Len(mem[a].fields) :
              mem[a].fields[i] \in Known /\ i \in DOMAIN mem[a].fields /\ i \in Nat
         /\ Refs(mem[a]) \subseteq Known
         /\ \A v \in Refs(mem[a]) : \E i \in FirstField(mem[a])..Len(mem[a].fields) :
              v = mem[a].fields[i]
<1>1. mem[a] \in ObjectType /\ a \in Nat
  BY SteadyFacts DEF Memory
<1>2. /\ FirstField(mem[a]) \in Nat \ {0} /\ mem[a].fields \in Seq(Values)
      /\ Len(mem[a].fields) \in Nat
  BY <1>1, ObjectFields
<1>3. RefersTo(mem[a], heap.begin, DOMAIN mem)
  BY SteadyFacts
<1>4. \A i \in FirstField(mem[a])..Len(mem[a].fields) : mem[a].fields[i] \in Known
  BY <1>3 DEF RefersTo, Known
<1>5. \A i \in FirstField(mem[a])..Len(mem[a].fields) : i \in DOMAIN mem[a].fields /\ i \in Nat
  <2>1. DOMAIN mem[a].fields = 1..Len(mem[a].fields)
    BY <1>2
  <2>2. QED
    BY <1>2, <2>1
<1>6. QED
  BY <1>1, <1>4, <1>5 DEF Refs

\* The graph of the objects.
LEMMA Graph ==
  ASSUME IInv, Steady
  PROVE  /\ DOMAIN Succ = DOMAIN mem
         /\ Held \subseteq DOMAIN mem
         /\ \A a \in DOMAIN mem : Succ[a] \subseteq DOMAIN mem
         /\ Held \subseteq Live /\ Live \subseteq DOMAIN mem
         /\ \A a \in Live : Succ[a] \subseteq Live
         /\ \A T \in SUBSET DOMAIN mem :
              Held \subseteq T /\ (\A a \in T : Succ[a] \subseteq T) => Live \subseteq T
<1>1. DOMAIN Succ = DOMAIN mem
  BY DEF Succ
<1>2. Held \subseteq DOMAIN mem
  <2>1. ASSUME NEW s \in 2..Len(stack), IsValidHeapPointer(stack[s])
        PROVE  Target(heap, stack[s]) \in DOMAIN mem
    <3>1. s \in 1..Len(stack)
      BY SteadyFacts
    <3>2. stack[s] \in Known
      BY <3>1, SteadyFacts, ElementOfSeq
    <3>3. QED
      BY <2>1, <3>2, KnownCases
  <2>2. QED
    BY <2>1 DEF Held
<1>3. ASSUME NEW a \in DOMAIN mem PROVE Succ[a] \subseteq DOMAIN mem
  <2>1. ASSUME NEW v \in Refs(mem[a]), InChunk(heap, v)
        PROVE  Target(heap, v) \in DOMAIN mem
    <3>1. v \in Known /\ v # Unboxed
      BY ReferencesOf DEF Refs
    <3>2. IsValidHeapPointer(v)
      BY <2>1, <3>1 DEF IsValidHeapPointer, IsValidPointer
    <3>3. QED
      BY <3>1, <3>2, KnownCases
  <2>2. QED
    BY <2>1 DEF Succ
<1>4. Held \subseteq Live
  BY <1>1, <1>2, ReachContains DEF Live
<1>5. Live \subseteq DOMAIN mem
  BY <1>1, ReachDef DEF Live
<1>6. ASSUME NEW a \in Live PROVE Succ[a] \subseteq Live
  <2>1. a \in Reach(Held, Succ) /\ Succ[a] \subseteq DOMAIN Succ
    BY <1>1, <1>3, <1>5 DEF Live
  <2>2. Succ[a] \subseteq Reach(Held, Succ)
    BY <2>1, ReachClosed
  <2>3. QED
    BY <2>2 DEF Live
<1>7. ASSUME NEW T \in SUBSET DOMAIN mem, Held \subseteq T, \A a \in T : Succ[a] \subseteq T
      PROVE  Live \subseteq T
  <2>1. T \in SUBSET DOMAIN Succ /\ Closed(T, Succ)
    BY <1>1, <1>7 DEF Closed
  <2>2. QED
    BY <1>7, <2>1, ReachLeast DEF Live
<1>8. QED
  BY <1>1, <1>2, <1>3, <1>4, <1>5, <1>6, <1>7

\* Who holds and who refers to an object.
LEMMA Edges ==
  ASSUME IInv, Steady
  PROVE  /\ \A s \in 2..Len(stack) : IsValidHeapPointer(stack[s]) =>
              Target(heap, stack[s]) \in Held
         /\ \A b \in Held : \E s \in 2..Len(stack) :
              IsValidHeapPointer(stack[s]) /\ b = Target(heap, stack[s])
         /\ \A a \in DOMAIN mem : \A i \in FirstField(mem[a])..Len(mem[a].fields) :
              IsValidHeapPointer(mem[a].fields[i]) =>
                Target(heap, mem[a].fields[i]) \in Succ[a]
         /\ \A a \in DOMAIN mem : \A b \in Succ[a] :
              \E i \in FirstField(mem[a])..Len(mem[a].fields) :
                /\ IsValidHeapPointer(mem[a].fields[i])
                /\ b = Target(heap, mem[a].fields[i])
<1>1. \A a \in DOMAIN mem :
        Succ[a] = {Target(heap, v) : v \in {w \in Refs(mem[a]) : InChunk(heap, w)}}
  BY DEF Succ
<1>2. \A s \in 2..Len(stack) : IsValidHeapPointer(stack[s]) => Target(heap, stack[s]) \in Held
  BY DEF Held
<1>3. \A b \in Held : \E s \in 2..Len(stack) :
        IsValidHeapPointer(stack[s]) /\ b = Target(heap, stack[s])
  BY DEF Held
<1>4. ASSUME NEW a \in DOMAIN mem, NEW i \in FirstField(mem[a])..Len(mem[a].fields),
             IsValidHeapPointer(mem[a].fields[i])
      PROVE  Target(heap, mem[a].fields[i]) \in Succ[a]
  <2>1. mem[a].fields[i] \in Refs(mem[a]) /\ InChunk(heap, mem[a].fields[i])
    BY <1>4 DEF Refs, IsValidHeapPointer, IsValidPointer
  <2>2. QED
    BY <1>1, <2>1
<1>5. ASSUME NEW a \in DOMAIN mem, NEW b \in Succ[a]
      PROVE  \E i \in FirstField(mem[a])..Len(mem[a].fields) :
                /\ IsValidHeapPointer(mem[a].fields[i])
                /\ b = Target(heap, mem[a].fields[i])
  <2>1. PICK v \in Refs(mem[a]) : InChunk(heap, v) /\ b = Target(heap, v)
    BY <1>1
  <2>2. PICK i \in FirstField(mem[a])..Len(mem[a].fields) : v = mem[a].fields[i]
    BY DEF Refs
  <2>3. v # Unboxed
    BY DEF Refs
  <2>4. QED
    BY <2>1, <2>2, <2>3 DEF IsValidHeapPointer, IsValidPointer
<1>6. QED
  BY <1>2, <1>3, <1>4, <1>5

\* What a program sees of an object.
LEMMA AbsObjects ==
  ASSUME IInv, Steady, NEW a \in DOMAIN mem, NEW x, x = AbsObject(mem[a])
  PROVE  /\ x.id = mem[a].id /\ x.kind = mem[a].kind
         /\ x.fields \in Seq(Values)
         /\ Len(x.fields) = Len(mem[a].fields) /\ Len(x.fields) \in Nat
         /\ SnapFirst(x) = FirstField(mem[a]) /\ FirstField(mem[a]) \in Nat \ {0}
         /\ \A i \in 1..Len(mem[a].fields) :
              x.fields[i] = IF i >= FirstField(mem[a]) THEN AbsValue(mem[a].fields[i])
                                                       ELSE mem[a].fields[i]
<1>1. mem[a] \in ObjectType
  BY ReferencesOf
<1>2. /\ FirstField(mem[a]) \in Nat \ {0} /\ mem[a].fields \in Seq(Values)
      /\ Len(mem[a].fields) \in Nat /\ mem[a].kind \in Kinds
  BY <1>1, ObjectFields
<1>3. PICK n \in Nat : n = Len(mem[a].fields) /\ DOMAIN mem[a].fields = 1..n
  BY <1>2
<1>4. PICK f \in Nat \ {0} : f = FirstField(mem[a])
  BY <1>2
<1>5. /\ x.id = mem[a].id /\ x.kind = mem[a].kind
      /\ x.fields = [i \in 1..n |-> IF i >= f THEN AbsValue(mem[a].fields[i])
                                             ELSE mem[a].fields[i]]
  BY <1>3, <1>4 DEF AbsObject
<1>6. \A i \in 1..n : mem[a].fields[i] \in Values
  BY <1>2, <1>3, ElementOfSeq
<1>7. \A i \in 1..n : i >= f => AbsValue(mem[a].fields[i]) \in Values
  <2>1. ASSUME NEW i \in 1..n, i >= f PROVE AbsValue(mem[a].fields[i]) \in Values
    <3>1. i \in FirstField(mem[a])..Len(mem[a].fields)
      BY <1>3, <1>4, <2>1
    <3>2. mem[a].fields[i] \in Known
      BY <3>1, ReferencesOf
    <3>3. QED
      BY <3>2, KnownCases, Identities DEF Values
  <2>2. QED
    BY <2>1
<1>8. x.fields \in [1..n -> Values]
  BY <1>5, <1>6, <1>7
<1>9. Len(x.fields) = n /\ x.fields \in Seq(Values)
  <2>1. PICK y : y = x.fields
    OBVIOUS
  <2>2. y \in [1..n -> Values]
    BY <1>8, <2>1
  <2>3. Len(y) = n /\ y \in Seq(Values)
    BY <2>2
  <2>4. QED
    BY <2>1, <2>3
<1>10. SnapFirst(x) = f
  BY <1>3, <1>4, <1>5, <1>9 DEF SnapFirst, FirstField
<1>11. QED
  BY <1>2, <1>3, <1>4, <1>5, <1>9, <1>10

\* A step of the collector that changes the bits and the forward addresses
\* alone.
LEMMA SameStore ==
  ASSUME IInv, Steady, SameObjects(mem, mem'), heap' = heap, stack' = stack
  PROVE  /\ Held' = Held /\ Succ' = Succ /\ Live' = Live
         /\ StoreStack' = StoreStack /\ StoreObjs' = StoreObjs
         /\ Tiled(mem', heap.current)
         /\ \A a \in DOMAIN mem : RefersTo(mem'[a], heap.begin, DOMAIN mem)
<1>1. DOMAIN mem' = DOMAIN mem
  BY DEF SameObjects
<1>2. \A a \in DOMAIN mem :
        /\ Refs(mem'[a]) = Refs(mem[a]) /\ FirstField(mem'[a]) = FirstField(mem[a])
        /\ mem'[a].fields = mem[a].fields /\ mem'[a].id = mem[a].id
        /\ mem'[a].kind = mem[a].kind
  BY SameSizes
<1>3. Held' = Held
  BY DEF Held, IsValidHeapPointer
<1>4. Succ' = Succ
  BY <1>1, <1>2 DEF Succ
<1>5. Live' = Live
  BY <1>3, <1>4 DEF Live
<1>6. \A v \in Known : AbsValue(v)' = AbsValue(v)
  <2>1. SUFFICES ASSUME NEW v \in Known PROVE AbsValue(v)' = AbsValue(v)
    OBVIOUS
  <2>2. CASE IsValidHeapPointer(v)
    <3>1. Target(heap, v) \in DOMAIN mem /\ v # Unboxed /\ InChunk(heap, v)
      BY <2>2, KnownCases DEF IsValidHeapPointer
    <3>2. PICK a \in DOMAIN mem : a = Target(heap, v)
      BY <3>1
    <3>3. AbsValue(v) = mem[a].id
      BY <3>1, <3>2 DEF AbsValue
    <3>4. AbsValue(v)' = mem'[a].id
      BY <3>1, <3>2 DEF AbsValue
    <3>5. QED
      BY <1>2, <3>3, <3>4
  <2>3. CASE ~IsValidHeapPointer(v)
    BY <2>3 DEF AbsValue, IsValidHeapPointer, IsValidPointer
  <2>4. QED
    BY <2>2, <2>3
<1>7. StoreStack' = StoreStack
  <2>1. \A i \in DOMAIN stack : stack[i] \in Known
    BY SteadyFacts, ElementOfSeq
  <2>2. \A i \in DOMAIN stack : AbsValue(stack[i])' = AbsValue(stack[i])
    <3>1. SUFFICES ASSUME NEW i \in DOMAIN stack
                   PROVE  AbsValue(stack[i])' = AbsValue(stack[i])
      OBVIOUS
    <3>2. PICK v \in Known : v = stack[i]
      BY <2>1
    <3>3. AbsValue(v)' = AbsValue(v)
      BY <1>6
    <3>4. AbsValue(stack[i])' = AbsValue(v)'
      BY <3>2 DEF AbsValue
    <3>5. QED
      BY <3>2, <3>3, <3>4
  <2>3. QED
    BY <2>2 DEF StoreStack
<1>8. ASSUME NEW a \in DOMAIN mem PROVE AbsObject(mem[a])' = AbsObject(mem[a])
  <2>1. PICK f \in Nat \ {0} : f = FirstField(mem[a])
    BY ReferencesOf, ObjectFields
  <2>2. PICK fs : fs = mem[a].fields
    OBVIOUS
  <2>2a. /\ DOMAIN fs = 1..Len(mem[a].fields) /\ Len(mem[a].fields) \in Nat
    BY <2>2, ReferencesOf, ObjectFields
  <2>3. \A i \in DOMAIN fs : i >= f => AbsValue(fs[i])' = AbsValue(fs[i])
    <3>1. SUFFICES ASSUME NEW i \in DOMAIN fs, i >= f PROVE AbsValue(fs[i])' = AbsValue(fs[i])
      OBVIOUS
    <3>2. i \in FirstField(mem[a])..Len(mem[a].fields)
      BY <2>1, <2>2a, <3>1
    <3>3. fs[i] \in Known
      BY <2>2, <3>2, ReferencesOf
    <3>4. QED
      BY <1>6, <3>3
  <2>4. AbsObject(mem[a]) = [id |-> mem[a].id, kind |-> mem[a].kind,
          fields |-> [i \in DOMAIN fs |-> IF i >= f THEN AbsValue(fs[i]) ELSE fs[i]]]
    BY <2>1, <2>2 DEF AbsObject
  <2>5. AbsObject(mem[a])' = [id |-> mem[a].id, kind |-> mem[a].kind,
          fields |-> [i \in DOMAIN fs |-> IF i >= f THEN AbsValue(fs[i])' ELSE fs[i]]]
    BY <1>2, <2>1, <2>2 DEF AbsObject
  <2>6. QED
    BY <2>3, <2>4, <2>5
<1>9. StoreObjs' = StoreObjs
  <2>1. Live \subseteq DOMAIN mem
    BY Graph
  <2>2. \A a \in Live : AbsObject(mem[a])' = AbsObject(mem[a])
    BY <1>8, <2>1
  <2>3. QED
    BY <1>5, <2>2 DEF StoreObjs
<1>10. Tiled(mem', heap.current)
  BY SteadyFacts, SameTiles
<1>11. \A a \in DOMAIN mem : RefersTo(mem'[a], heap.begin, DOMAIN mem)
  BY SteadyFacts, SameReferences
<1>12. QED
  BY <1>3, <1>4, <1>5, <1>7, <1>9, <1>10, <1>11

---------------------------------------------------------------------------
(***************************************************************************)
(* The mark phase.                                                         *)
(***************************************************************************)

\* A step that changes the bits, the forward addresses and the variables of
\* mark() alone.
LEMMA BitsChanged ==
  ASSUME IInv, phase \in Marking \cup {"alloc"}, phase' \in Marking \cup {"locate"},
         SameObjects(mem, mem'), Memory(mem'),
         UNCHANGED <<heap, mapped, stack, extra, req, old, iter, free, nextId>>,
         root' \in Nat, head' \in Nat, tail' \in Nat, obj' \in Nat, fld' \in Nat,
         snap'.stack = StoreStack, snap'.objs = StoreObjs, SnapReach', SnapTyped',
         MarkInv', QInv', CompactInv'
  PROVE  IInv'
<1>1. Steady /\ phase \in InBuiltin /\ phase' \in InBuiltin /\ phase' \in Phases
      /\ phase' \notin {"run", "alloc", "retry", "update", "move", "exit", "fault", "grow"}
  BY DEF Steady, Marking, InBuiltin, Phases
<1>2. /\ StoreStack' = StoreStack /\ StoreObjs' = StoreObjs
      /\ Tiled(mem', heap.current)
      /\ \A a \in DOMAIN mem : RefersTo(mem'[a], heap.begin, DOMAIN mem)
  BY <1>1, SameStore
<1>3. DOMAIN mem' = DOMAIN mem /\ \A a \in DOMAIN mem : mem'[a].id = mem[a].id
  BY DEF SameObjects
<1>4. Typed'
  BY <1>1 DEF IInv, Typed, Memory
<1>5. PagesInv'
  BY <1>1 DEF IInv, PagesInv, PagesOf
<1>6. StackInv'
  BY <1>1 DEF IInv, StackInv, Base, Operands
<1>7. HeapInv'
  <2>1. iter = 0 /\ free = 0
    BY <1>1 DEF IInv, HeapInv, Marking
  <2>2. /\ \A a, b \in DOMAIN mem : mem[a].id = mem[b].id => a = b
        /\ \A a \in DOMAIN mem : 0 < mem[a].id /\ mem[a].id < nextId
        /\ heap.current <= heap.size
    BY <1>1 DEF IInv, HeapInv, Steady
  <2>3. QED
    BY <1>1, <1>2, <1>3, <2>1, <2>2 DEF HeapInv
<1>8. Sound' /\ Clean'
  <2>1. \A s \in DOMAIN stack : stack[s] \in ValuesAt(heap.begin, DOMAIN mem)
    BY <1>1 DEF IInv, Sound, Steady
  <2>2. QED
    BY <1>1, <1>2, <1>3, <2>1 DEF Sound, Clean
<1>9. MoveInv'
  BY <1>1 DEF MoveInv
<1>10. SnapInv'
  BY <1>1, <1>2 DEF SnapInv
<1>11. QED
  BY <1>4, <1>5, <1>6, <1>7, <1>8, <1>9, <1>10 DEF IInv

\* Everything a program sees can be reached from what its stack holds.
LEMMA StoreReach ==
  ASSUME IInv, Steady, NEW W \in SUBSET Nat,
         \A s \in 2..Len(stack) : AbsValue(stack[s]) \in W \cup {0, Unboxed},
         \A a \in Live : mem[a].id \in W =>
           \A i \in FirstField(mem[a])..Len(mem[a].fields) :
             AbsValue(mem[a].fields[i]) \in W \cup {0, Unboxed}
  PROVE  \A a \in Live : mem[a].id \in W
<1> DEFINE T == {a \in Live : mem[a].id \in W}
<1>1. Live \subseteq DOMAIN mem /\ Held \subseteq Live /\ \A a \in Live : Succ[a] \subseteq Live
  BY Graph
<1>2. T \in SUBSET DOMAIN mem
  BY <1>1
<1>3. \A a \in Held : a \in T
  <2>1. SUFFICES ASSUME NEW a \in Held PROVE mem[a].id \in W
    BY <1>1
  <2>2. PICK s \in 2..Len(stack) : IsValidHeapPointer(stack[s]) /\ a = Target(heap, stack[s])
    BY Edges
  <2>3. stack[s] \in Known
    <3>1. s \in 1..Len(stack)
      BY SteadyFacts
    <3>2. QED
      BY <3>1, SteadyFacts, ElementOfSeq
  <2>4. AbsValue(stack[s]) = mem[a].id /\ a \in DOMAIN mem
    BY <2>2, <2>3, KnownCases
  <2>5. QED
    BY <2>4, Identities
<1>4. \A a \in T : Succ[a] \subseteq T
  <2>1. SUFFICES ASSUME NEW a \in T, NEW b \in Succ[a] PROVE b \in T
    OBVIOUS
  <2>2. a \in Live /\ a \in DOMAIN mem /\ mem[a].id \in W /\ b \in Live
    BY <1>1
  <2>3. PICK i \in FirstField(mem[a])..Len(mem[a].fields) :
          /\ IsValidHeapPointer(mem[a].fields[i])
          /\ b = Target(heap, mem[a].fields[i])
    BY <2>2, Edges
  <2>4. mem[a].fields[i] \in Known
    BY <2>2, ReferencesOf
  <2>5. AbsValue(mem[a].fields[i]) = mem[b].id /\ b \in DOMAIN mem
    BY <2>3, <2>4, KnownCases
  <2>6. mem[b].id \in W
    BY <2>2, <2>5, Identities
  <2>7. QED
    BY <2>2, <2>6
<1>5. Live \subseteq T
  BY <1>2, <1>3, <1>4, Graph
<1>6. QED
  BY <1>5

\* What a program sees, and its types.
LEMMA StoreTyped ==
  ASSUME IInv, Steady
  PROVE  /\ StoreStack \in Seq(Values) /\ Len(StoreStack) = Len(stack)
         /\ StoreObjs \subseteq [id : Nat, kind : Kinds, fields : Seq(Values)]
<1>1. PICK n \in Nat : n = Len(stack) /\ DOMAIN stack = 1..n
  BY SteadyFacts
<1>2. PICK st : st = StoreStack
  OBVIOUS
<1>3. st = [i \in 1..n |-> AbsValue(stack[i])]
  BY <1>1, <1>2 DEF StoreStack
<1>4. \A i \in 1..n : stack[i] \in Known
  BY <1>1, SteadyFacts, ElementOfSeq
<1>5. \A i \in 1..n : AbsValue(stack[i]) \in Values
  BY <1>4, KnownCases, Identities DEF Values
<1>6. st \in [1..n -> Values]
  BY <1>3, <1>5
<1>7. st \in Seq(Values) /\ Len(st) = n
  BY <1>6
<1>8. ASSUME NEW a \in Live
      PROVE  AbsObject(mem[a]) \in [id : Nat, kind : Kinds, fields : Seq(Values)]
  <2>1. a \in DOMAIN mem
    BY Graph
  <2>2. PICK x : x = AbsObject(mem[a])
    OBVIOUS
  <2>3. mem[a].id \in Nat /\ mem[a].kind \in Kinds
    BY <2>1, ReferencesOf, ObjectFields
  <2>4. x.fields \in Seq(Values)
    BY <2>1, <2>2, AbsObjects
  <2>5. AbsObject(mem[a]) = [id |-> mem[a].id, kind |-> mem[a].kind, fields |-> x.fields]
    BY <2>2 DEF AbsObject
  <2>6. QED
    BY <2>3, <2>4, <2>5
<1>9. QED
  BY <1>1, <1>2, <1>7, <1>8 DEF StoreObjs

\* The collection starts: the snapshot is the store, of which nothing is
\* marked yet.
LEMMA StartGcStep == IInv /\ StartGc => IInv'
<1> SUFFICES ASSUME IInv, StartGc PROVE IInv'
  OBVIOUS
<1>1. /\ phase = "alloc" /\ phase' = "roots" /\ root' = 1
      /\ snap' = [stack |-> StoreStack, objs |-> StoreObjs]
      /\ UNCHANGED <<mem, heap, mapped, stack, extra, req, head, tail, obj, fld,
                     old, iter, free, nextId>>
  BY DEF StartGc, compactVars
<1>2. Steady /\ Memory(mem)
  BY <1>1, HeapFacts DEF Steady
<1>3. SameObjects(mem, mem') /\ Memory(mem')
  BY <1>1, <1>2 DEF SameObjects
<1>4. SnapReach'
  <2>1. SUFFICES ASSUME NEW W \in SUBSET Nat,
                        \A s \in 2..Len(StoreStack) : StoreStack[s] \in W \cup {0, Unboxed},
                        \A x \in StoreObjs : x.id \in W =>
                          \A i \in SnapFirst(x)..Len(x.fields) :
                            x.fields[i] \in W \cup {0, Unboxed},
                        NEW y \in StoreObjs
                 PROVE  y.id \in W
    BY <1>1 DEF SnapReach
  <2>2. \A s \in 2..Len(stack) : AbsValue(stack[s]) \in W \cup {0, Unboxed}
    <3>1. PICK st : st = StoreStack
      OBVIOUS
    <3>2. PICK n \in Nat : n = Len(stack) /\ DOMAIN stack = 1..n
      BY <1>2, SteadyFacts
    <3>3. st = [i \in 1..n |-> AbsValue(stack[i])]
      BY <3>1, <3>2 DEF StoreStack
    <3>4. \A i \in 1..n : stack[i] \in Known
      BY <1>2, <3>2, SteadyFacts, ElementOfSeq
    <3>5. \A i \in 1..n : AbsValue(stack[i]) \in Values
      BY <1>2, <3>4, KnownCases, Identities DEF Values
    <3>6. st \in [1..n -> Values]
      BY <3>3, <3>5
    <3>7. Len(st) = n
      BY <3>6
    <3>8. QED
      BY <2>1, <3>1, <3>2, <3>3, <3>7
  <2>3. ASSUME NEW a \in Live, mem[a].id \in W,
               NEW i \in FirstField(mem[a])..Len(mem[a].fields)
        PROVE  AbsValue(mem[a].fields[i]) \in W \cup {0, Unboxed}
    <3>1. a \in DOMAIN mem
      BY <1>2, Graph
    <3>2. PICK x : x = AbsObject(mem[a])
      OBVIOUS
    <3>3. x \in StoreObjs
      BY <3>2 DEF StoreObjs
    <3>4. /\ x.id = mem[a].id /\ Len(x.fields) = Len(mem[a].fields)
          /\ Len(x.fields) \in Nat
          /\ SnapFirst(x) = FirstField(mem[a]) /\ FirstField(mem[a]) \in Nat \ {0}
          /\ \A j \in 1..Len(mem[a].fields) :
               x.fields[j] = IF j >= FirstField(mem[a]) THEN AbsValue(mem[a].fields[j])
                                                        ELSE mem[a].fields[j]
      BY <1>2, <3>1, <3>2, AbsObjects
    <3>5. i \in SnapFirst(x)..Len(x.fields) /\ i \in 1..Len(mem[a].fields)
          /\ i >= FirstField(mem[a])
      BY <3>4
    <3>6. x.fields[i] \in W \cup {0, Unboxed}
      BY <2>1, <2>3, <3>3, <3>4, <3>5
    <3>7. QED
      BY <3>4, <3>5, <3>6
  <2>4. \A a \in Live : mem[a].id \in W
    BY <1>2, <2>2, <2>3, StoreReach
  <2>5. PICK a \in Live : y = AbsObject(mem[a])
    BY DEF StoreObjs
  <2>6. y.id = mem[a].id
    BY <2>5 DEF AbsObject
  <2>7. QED
    BY <2>4, <2>6
<1>4a. SnapTyped'
  <2>1. StoreStack \in Seq(Values) /\ StoreObjs \subseteq [id : Nat, kind : Kinds, fields : Seq(Values)]
    BY <1>2, StoreTyped
  <2>2. QED
    BY <1>1, <2>1 DEF SnapTyped
<1>5. MarkInv'
  <2>1. \A a \in DOMAIN mem : ~mem[a].marked /\ ~mem[a].enqueued
    BY <1>1 DEF IInv, Clean
  <2>2. Len(RootSlots') \in Nat
    <3>1. stack \in Seq(Known) /\ Len(stack) \in Nat /\ Len(stack) >= 1
      BY <1>1, Running DEF Settled
    <3>2. extra \in Seq(Nat)
      BY DEF IInv, Typed
    <3>3. PICK n \in Nat : n = Len(stack) - 1
      BY <3>1
    <3>4. PICK f : f = [i \in 1..n |-> Len(stack) + 1 - i]
      OBVIOUS
    <3>5. f \in [1..n -> Int]
      BY <3>1, <3>4
    <3>6. f \in Seq(Int) /\ extra \in Seq(Int)
      BY <3>2, <3>5, SeqMonotonic
    <3>7. f \o extra \in Seq(Int)
      BY <3>6, Appended
    <3>8. RootSlots' = f \o extra
      BY <1>1, <3>3, <3>4 DEF RootSlots
    <3>9. QED
      BY <3>7, <3>8
  <2>3. root' \in 1..(Len(RootSlots') + 1)
    BY <1>1, <2>2
  <2>4. \A i \in 1..(root' - 1) : FALSE
    BY <1>1
  <2>5. QED
    BY <1>1, <2>1, <2>3, <2>4 DEF MarkInv
<1>6. QInv' /\ CompactInv'
  BY <1>1 DEF QInv, CompactInv
<1>7. /\ phase \in Marking \cup {"alloc"} /\ phase' \in Marking \cup {"locate"}
  BY <1>1 DEF Marking
<1>8. /\ root' \in Nat /\ head' \in Nat /\ tail' \in Nat /\ obj' \in Nat /\ fld' \in Nat
      /\ snap'.stack = StoreStack /\ snap'.objs = StoreObjs
  BY <1>1 DEF IInv, Typed
<1>9. QED
  BY <1>1, <1>3, <1>4, <1>4a, <1>5, <1>6, <1>7, <1>8, BitsChanged

\* The roots in the order of the scan: slots of the stack above its bottom,
\* each of them, or variables of the C stack.
LEMMA RootsOrder ==
  ASSUME IInv, phase \in Marking
  PROVE  /\ Len(RootSlots) \in Nat
         /\ \A i \in 1..Len(RootSlots) : RootSlots[i] = 0 \/ RootSlots[i] \in 2..Len(stack)
         /\ \A s \in 2..Len(stack) : \E i \in 1..Len(RootSlots) : RootSlots[i] = s
<1>1. Steady /\ phase \in InBuiltin
  BY DEF Steady, Marking, InBuiltin, Phases
<1>2. PICK l \in Nat : l = Len(stack)
  BY <1>1, SteadyFacts
<1>3. PICK n \in Nat : n = l - 1
  <2>1. Len(stack) >= Base /\ Base \in Nat /\ Base >= 2
    BY BoundsAssumption DEF IInv, StackInv, Base
  <2>2. l - 1 \in Nat
    BY <1>2, <2>1
  <2>3. QED
    BY <2>2
<1>4. extra \in Seq(Nat) /\ \A i \in DOMAIN extra : extra[i] = 0 \/ extra[i] \in 2..l
  BY <1>1, <1>2 DEF IInv, Typed, StackInv
<1>5. PICK f : f = [i \in 1..n |-> l + 1 - i]
  OBVIOUS
<1>6. f \in [1..n -> Int]
  BY <1>2, <1>5
<1>7. f \in Seq(Int) /\ Len(f) = n /\ \A i \in 1..n : f[i] = l + 1 - i
  BY <1>5, <1>6
<1>8. extra \in Seq(Int)
  BY <1>4, SeqMonotonic
<1>9. PICK e : e = extra
  OBVIOUS
<1>10. e \in Seq(Int) /\ Len(e) \in Nat /\ \A i \in 1..Len(e) : e[i] = 0 \/ e[i] \in 2..l
  BY <1>4, <1>8, <1>9
<1>11. PICK r : r = f \o e
  OBVIOUS
<1>12. /\ r \in Seq(Int) /\ Len(r) = n + Len(e)
       /\ \A i \in 1..n : r[i] = f[i]
       /\ \A i \in 1..Len(e) : r[n + i] = e[i]
  <2>1. f \in Seq(Int) /\ e \in Seq(Int) /\ Len(f) = n
    BY <1>7, <1>10
  <2>2. /\ f \o e \in Seq(Int) /\ Len(f \o e) = Len(f) + Len(e)
        /\ \A i \in 1..Len(f) : (f \o e)[i] = f[i]
        /\ \A i \in 1..Len(e) : (f \o e)[Len(f) + i] = e[i]
    <3>1. PICK S : S = Int
      OBVIOUS
    <3>2. f \in Seq(S) /\ e \in Seq(S)
      BY <2>1, <3>1
    <3>3. QED
      BY ONLY <3>1, <3>2, Appended
  <2>3. QED
    BY <1>11, <2>1, <2>2
<1>13. RootSlots = r
  BY <1>2, <1>3, <1>5, <1>9, <1>11 DEF RootSlots
<1>14. ASSUME NEW i \in 1..Len(r) PROVE r[i] = 0 \/ r[i] \in 2..l
  <2>1. CASE i <= n
    <3>1. i \in 1..n
      BY <2>1
    <3>2. r[i] = l + 1 - i
      BY <3>1, <1>7, <1>12
    <3>3. l + 1 - i \in 2..l
      BY <1>3, <3>1
    <3>4. QED
      BY <3>2, <3>3
  <2>2. CASE i > n
    <3>1. PICK j \in 1..Len(e) : i = n + j
      <4>1. i - n \in 1..Len(e)
        BY <1>10, <1>12, <2>2
      <4>2. i = n + (i - n)
        BY <1>12
      <4>3. QED
        BY <4>1, <4>2
    <3>2. QED
      BY <1>10, <1>12, <3>1
  <2>3. QED
    BY <2>1, <2>2, <1>12
<1>15. ASSUME NEW s \in 2..l PROVE \E i \in 1..Len(r) : r[i] = s
  <2>1. PICK i \in 1..n : i = l + 1 - s
    BY <1>3
  <2>2. r[i] = s
    BY <1>7, <1>12, <2>1
  <2>3. i \in 1..Len(r)
    BY <1>10, <1>12
  <2>4. QED
    BY <2>2, <2>3
<1>16. Len(r) \in Nat
  BY <1>12
<1>17. QED
  BY <1>2, <1>13, <1>14, <1>15, <1>16

\* What a root holds is known to be sound, and held.
LEMMA RootValue ==
  ASSUME IInv, phase \in Marking, NEW i \in 1..Len(RootSlots)
  PROVE  /\ SlotValue(RootSlots[i]) \in Known
         /\ IsValidHeapPointer(SlotValue(RootSlots[i])) =>
              Target(heap, SlotValue(RootSlots[i])) \in Held
<1>1. Steady
  BY DEF Steady, Marking
<1>2. PICK s : s = RootSlots[i]
  OBVIOUS
<1>3. s = 0 \/ s \in 2..Len(stack)
  BY <1>2, RootsOrder
<1>4. CASE s = 0
  <2>1. SlotValue(s) = 0 /\ 0 \in Known
    BY <1>4 DEF SlotValue, Known, ValuesAt
  <2>2. ~IsValidHeapPointer(0)
    BY <1>1, <2>1, KnownCases
  <2>3. QED
    BY <1>2, <2>1, <2>2
<1>5. CASE s \in 2..Len(stack)
  <2>1. s \in 1..Len(stack) /\ s # 0
    BY <1>1, <1>5, SteadyFacts
  <2>2. SlotValue(s) = stack[s] /\ stack[s] \in Known
    BY <1>1, <2>1, SteadyFacts, ElementOfSeq DEF SlotValue
  <2>3. QED
    BY <1>1, <1>2, <1>5, <2>2, Edges
<1>6. QED
  BY <1>3, <1>4, <1>5

\* What is marked or waits stays so.
LEMMA GreyKept ==
  ASSUME IInv, Steady, heap' = heap, DOMAIN mem' = DOMAIN mem,
         \A b \in DOMAIN mem : mem[b].marked \/ mem[b].enqueued =>
                                 mem'[b].marked \/ mem'[b].enqueued,
         NEW v \in Known, Grey(v)
  PROVE  Grey(v)'
<1>1. SUFFICES ASSUME IsValidHeapPointer(v)'
               PROVE  mem'[Target(heap, v)].marked \/ mem'[Target(heap, v)].enqueued
  BY DEF Grey
<1>2. IsValidHeapPointer(v)
  BY <1>1 DEF IsValidHeapPointer
<1>3. Target(heap, v) \in DOMAIN mem
  BY <1>2, KnownCases
<1>4. mem[Target(heap, v)].marked \/ mem[Target(heap, v)].enqueued
  BY <1>2 DEF Grey
<1>5. QED
  BY <1>3, <1>4

\* So the roots scanned so far and the fields scanned so far stay grey.
LEMMA GreysKept ==
  ASSUME IInv, phase \in Marking, heap' = heap, stack' = stack, extra' = extra,
         SameObjects(mem, mem'),
         \A b \in DOMAIN mem : mem[b].marked \/ mem[b].enqueued =>
                                 mem'[b].marked \/ mem'[b].enqueued
  PROVE  /\ RootSlots' = RootSlots
         /\ \A i \in 1..(root - 1) : Grey(SlotValue(RootSlots[i]))'
         /\ \A a \in DOMAIN mem : \A n \in Nat : GreyFields(a, n) => GreyFields(a, n)'
<1>1. Steady /\ DOMAIN mem' = DOMAIN mem
  BY DEF Steady, Marking, SameObjects
<1>2. RootSlots' = RootSlots
  BY DEF RootSlots
<1>3. ASSUME NEW i \in 1..(root - 1) PROVE Grey(SlotValue(RootSlots[i]))'
  <2>1. root \in 1..(Len(RootSlots) + 1) /\ Grey(SlotValue(RootSlots[i]))
    BY DEF IInv, MarkInv
  <2>2. i \in 1..Len(RootSlots)
    BY <2>1, RootsOrder
  <2>3. PICK v \in Known : v = SlotValue(RootSlots[i])
    BY <2>2, RootValue
  <2>4. Grey(v)'
    BY <1>1, <2>1, <2>3, GreyKept
  <2>5. SlotValue(RootSlots[i])' = v
    BY <1>2, <2>3 DEF SlotValue
  <2>6. QED
    BY <2>4, <2>5 DEF Grey, IsValidHeapPointer
<1>4. ASSUME NEW a \in DOMAIN mem, NEW n \in Nat, GreyFields(a, n) PROVE GreyFields(a, n)'
  <2>1. mem'[a].fields = mem[a].fields /\ FirstField(mem'[a]) = FirstField(mem[a])
    BY SameSizes
  <2>2. \A i \in FirstField(mem[a])..Len(mem[a].fields) : i < n => Grey(mem[a].fields[i])
    BY <1>4 DEF GreyFields
  <2>3. ASSUME NEW i \in FirstField(mem[a])..Len(mem[a].fields), i < n
        PROVE  Grey(mem[a].fields[i])'
    <3>1. PICK v \in Known : v = mem[a].fields[i]
      BY <1>1, ReferencesOf
    <3>2. Grey(v)'
      BY <1>1, <2>2, <2>3, <3>1, GreyKept
    <3>3. QED
      BY <2>1, <3>1, <3>2 DEF Grey, IsValidHeapPointer
  <2>4. QED
    BY <2>1, <2>3 DEF GreyFields
<1>5. QED
  BY <1>2, <1>3, <1>4

\* What queue_enqueue changes.
EnqueuedIn(m, t, a) == [m EXCEPT ![t].fwd = a, ![a].enqueued = TRUE]

\* queue_enqueue changes one forward address and one enqueued bit.
LEMMA EnqueuedObjects ==
  ASSUME NEW m, Memory(m), NEW t \in DOMAIN m, NEW a \in DOMAIN m,
         NEW n, n = EnqueuedIn(m, t, a)
  PROVE  /\ SameObjects(m, n) /\ Memory(n)
         /\ n[t].fwd = a /\ \A b \in DOMAIN m : b # t => n[b].fwd = m[b].fwd
         /\ n[a].enqueued /\ \A b \in DOMAIN m : b # a => n[b].enqueued = m[b].enqueued
         /\ \A b \in DOMAIN m : n[b].marked = m[b].marked
<1>1. a \in Nat /\ \A b \in DOMAIN m : m[b] \in ObjectType
  BY DEF Memory
<1>2. PICK k : k = [m EXCEPT ![t].fwd = a]
  OBVIOUS
<1>3. n = [k EXCEPT ![a].enqueued = TRUE]
  BY <1>2 DEF EnqueuedIn
<1>4. /\ DOMAIN k = DOMAIN m /\ k[t] = [m[t] EXCEPT !.fwd = a]
      /\ \A b \in DOMAIN m : b # t => k[b] = m[b]
  BY <1>2
<1>5. /\ DOMAIN n = DOMAIN m /\ n[a] = [k[a] EXCEPT !.enqueued = TRUE]
      /\ \A b \in DOMAIN m : b # a => n[b] = k[b]
  BY <1>3, <1>4
<1>6. ASSUME NEW b \in DOMAIN m
      PROVE  /\ k[b] \in ObjectType /\ k[b].id = m[b].id /\ k[b].kind = m[b].kind
             /\ k[b].fields = m[b].fields /\ k[b].marked = m[b].marked
             /\ k[b].enqueued = m[b].enqueued
             /\ k[b].fwd = IF b = t THEN a ELSE m[b].fwd
  <2>1. CASE b = t
    BY <1>1, <1>4, <2>1 DEF ObjectType
  <2>2. CASE b # t
    BY <1>1, <1>4, <2>2
  <2>3. QED
    BY <2>1, <2>2
<1>7. ASSUME NEW b \in DOMAIN m
      PROVE  /\ n[b] \in ObjectType /\ n[b].id = k[b].id /\ n[b].kind = k[b].kind
             /\ n[b].fields = k[b].fields /\ n[b].marked = k[b].marked
             /\ n[b].fwd = k[b].fwd
             /\ n[b].enqueued = IF b = a THEN TRUE ELSE k[b].enqueued
  <2>1. k[b] \in ObjectType
    BY <1>6
  <2>2. CASE b = a
    BY <1>5, <2>1, <2>2 DEF ObjectType
  <2>3. CASE b # a
    BY <1>5, <2>1, <2>3
  <2>4. QED
    BY <2>2, <2>3
<1>8. DOMAIN n = DOMAIN m
  BY <1>5
<1>9. SameObjects(m, n)
  <2>1. \A b \in DOMAIN m : n[b].id = m[b].id
    BY <1>6, <1>7, ZenonT(60)
  <2>2. \A b \in DOMAIN m : n[b].kind = m[b].kind
    BY <1>6, <1>7, ZenonT(60)
  <2>3. \A b \in DOMAIN m : n[b].fields = m[b].fields
    BY <1>6, <1>7, ZenonT(60)
  <2>4. QED
    BY <1>8, <2>1, <2>2, <2>3 DEF SameObjects
<1>10. n = [b \in DOMAIN n |-> n[b]]
  BY <1>3
<1>11. Memory(n)
  <2>1. \A b \in DOMAIN n : n[b] \in ObjectType
    BY <1>7, <1>8
  <2>2. DOMAIN n \subseteq Nat
    BY <1>8 DEF Memory
  <2>3. QED
    BY <1>10, <2>1, <2>2 DEF Memory
<1>12. QED
  BY <1>6, <1>7, <1>9, <1>11, ZenonT(60)

\* What mark_object changes.
MarkedIn(m, a) == [m EXCEPT ![a].enqueued = FALSE, ![a].marked = TRUE]

\* mark_object after queue_dequeue changes the two bits of one object.
LEMMA MarkedObjects ==
  ASSUME NEW m, Memory(m), NEW a \in DOMAIN m,
         NEW n, n = MarkedIn(m, a)
  PROVE  /\ SameObjects(m, n) /\ Memory(n)
         /\ \A b \in DOMAIN m : n[b].fwd = m[b].fwd
         /\ n[a].marked /\ ~n[a].enqueued
         /\ \A b \in DOMAIN m : b # a => n[b] = m[b]
<1>1. \A b \in DOMAIN m : m[b] \in ObjectType
  BY DEF Memory
<1>2. PICK k : k = [m EXCEPT ![a].enqueued = FALSE]
  OBVIOUS
<1>3. n = [k EXCEPT ![a].marked = TRUE]
  BY <1>2 DEF MarkedIn
<1>4. /\ DOMAIN k = DOMAIN m /\ k[a] = [m[a] EXCEPT !.enqueued = FALSE]
      /\ \A b \in DOMAIN m : b # a => k[b] = m[b]
  BY <1>2
<1>5. /\ DOMAIN n = DOMAIN m /\ n[a] = [k[a] EXCEPT !.marked = TRUE]
      /\ \A b \in DOMAIN m : b # a => n[b] = k[b]
  BY <1>3, <1>4
<1>6. /\ k[a] \in ObjectType /\ k[a].id = m[a].id /\ k[a].kind = m[a].kind
      /\ k[a].fields = m[a].fields /\ k[a].fwd = m[a].fwd /\ k[a].enqueued = FALSE
  BY <1>1, <1>4 DEF ObjectType
<1>7. /\ n[a] \in ObjectType /\ n[a].id = k[a].id /\ n[a].kind = k[a].kind
      /\ n[a].fields = k[a].fields /\ n[a].fwd = k[a].fwd /\ n[a].enqueued = FALSE
      /\ n[a].marked = TRUE
  BY <1>5, <1>6 DEF ObjectType
<1>8. \A b \in DOMAIN m : b # a => n[b] = m[b]
  BY <1>4, <1>5
<1>9. SameObjects(m, n)
  BY <1>5, <1>6, <1>7, <1>8, ZenonT(60) DEF SameObjects
<1>10. n = [b \in DOMAIN n |-> n[b]]
  BY <1>3
<1>11. Memory(n)
  <2>1. \A b \in DOMAIN n : n[b] \in ObjectType
    BY <1>1, <1>5, <1>7, <1>8
  <2>2. DOMAIN n \subseteq Nat
    BY <1>5 DEF Memory
  <2>3. QED
    BY <1>10, <2>1, <2>2 DEF Memory
<1>12. QED
  BY <1>6, <1>7, <1>8, <1>9, <1>11

\* Nothing moves: the same objects, marks and waiting bits.
LEMMA SameHeap ==
  ASSUME mem' = mem, IInv
  PROVE  SameObjects(mem, mem') /\ Memory(mem')
BY HeapFacts DEF SameObjects

\* The facts of the mark phase that the steps start from.
LEMMA MarkFacts ==
  ASSUME IInv, phase \in Marking
  PROVE  /\ Steady
         /\ root \in 1..(Len(RootSlots) + 1)
         /\ \A a \in DOMAIN mem :
              /\ mem[a].marked \/ mem[a].enqueued => a \in Live
              /\ ~(mem[a].marked /\ mem[a].enqueued)
         /\ \A a \in DOMAIN mem : mem[a] \in ObjectType /\ Len(mem[a].fields) \in Nat
                                  /\ FirstField(mem[a]) \in Nat \ {0}
         /\ root \in Nat /\ head \in Nat /\ tail \in Nat /\ obj \in Nat /\ fld \in Nat
         /\ snap.stack = StoreStack /\ snap.objs = StoreObjs /\ SnapReach /\ SnapTyped
<1>1. Steady
  BY DEF Steady, Marking
<1>2. /\ root \in 1..(Len(RootSlots) + 1)
      /\ \A a \in DOMAIN mem :
           /\ mem[a].marked \/ mem[a].enqueued => a \in Live
           /\ ~(mem[a].marked /\ mem[a].enqueued)
  BY DEF IInv, MarkInv
<1>3. \A a \in DOMAIN mem : mem[a] \in ObjectType
  BY HeapFacts DEF Memory
<1>4. root \in Nat /\ head \in Nat /\ tail \in Nat /\ obj \in Nat /\ fld \in Nat
  BY DEF IInv, Typed
<1>5. snap.stack = StoreStack /\ snap.objs = StoreObjs /\ SnapReach /\ SnapTyped
  BY DEF IInv, SnapInv
<1>6. QED
  BY <1>1, <1>2, <1>3, <1>4, <1>5, ObjectFields

\* A step of mark() that leaves its roots and its store as they are.
LEMMA MarkStepDone ==
  ASSUME IInv, phase \in Marking, phase' \in Marking \cup {"locate"},
         SameObjects(mem, mem'), Memory(mem'),
         UNCHANGED <<heap, mapped, stack, extra, req, old, iter, free, nextId, snap>>,
         root' \in Nat, head' \in Nat, tail' \in Nat, obj' \in Nat, fld' \in Nat,
         MarkInv', QInv', CompactInv'
  PROVE  IInv'
<1>1. snap'.stack = StoreStack /\ snap'.objs = StoreObjs /\ SnapReach' /\ SnapTyped'
  BY MarkFacts DEF SnapReach, SnapTyped
<1>2. QED
  BY <1>1, BitsChanged

\* A root that is not marked starts a queue of one entry; it is reachable, so
\* the marked objects stay within those that are.
LEMMA MarkRootStep == IInv /\ MarkRoot => IInv'
<1> SUFFICES ASSUME IInv, MarkRoot PROVE IInv'
  OBVIOUS
<1>1. /\ phase = "roots" /\ root <= Len(RootSlots) /\ root' = root + 1
      /\ UNCHANGED <<heap, mapped, stack, extra, req, obj, fld, old, iter, free,
                     nextId, snap>>
  BY DEF MarkRoot, compactVars
<1>2. phase \in Marking
  BY <1>1 DEF Marking
<1>3. /\ Steady /\ root \in 1..Len(RootSlots) /\ root' \in 1..(Len(RootSlots) + 1)
      /\ root \in Nat /\ root' \in Nat /\ head \in Nat /\ tail \in Nat /\ obj' \in Nat
      /\ fld' \in Nat
  BY <1>1, <1>2, MarkFacts, RootsOrder
<1>4. PICK v \in Known : /\ v = SlotValue(RootSlots[root])
                         /\ IsValidHeapPointer(v) => Target(heap, v) \in Held
  BY <1>2, <1>3, RootValue
<1>4a. PICK r \in 1..Len(RootSlots) : r = root
  BY <1>3
<1>4b. PICK s : s = RootSlots[r]
  OBVIOUS
<1>4c. RootSlots' = RootSlots /\ SlotValue(s) = v /\ SlotValue(s)' = v
  BY <1>1, <1>4, <1>4a, <1>4b DEF SlotValue, RootSlots
<1>4d. Grey(v)' => Grey(SlotValue(RootSlots[r]))'
  BY <1>4b, <1>4c DEF Grey, IsValidHeapPointer
<1>5. \A a \in DOMAIN mem : ~mem[a].enqueued
  BY <1>1, <1>2 DEF IInv, MarkInv
<1>6. \A a \in DOMAIN mem : mem[a].marked => GreyFields(a, Len(mem[a].fields) + 1)
  BY <1>1, <1>2 DEF IInv, MarkInv
<1>7. CASE Ignored(v)
  <2>1. mem' = mem /\ phase' = phase /\ head' = head /\ tail' = tail
    BY <1>4, <1>7 DEF MarkRoot
  <2>2. SameObjects(mem, mem') /\ Memory(mem')
    BY <2>1, SameHeap
  <2>3. /\ RootSlots' = RootSlots
        /\ \A i \in 1..(root - 1) : Grey(SlotValue(RootSlots[i]))'
        /\ \A a \in DOMAIN mem : \A n \in Nat : GreyFields(a, n) => GreyFields(a, n)'
    BY <1>1, <1>2, <2>1, <2>2, GreysKept
  <2>4. Grey(SlotValue(RootSlots[r]))'
    <3>1. Grey(v)
      BY <1>7 DEF Ignored, Grey
    <3>2. Grey(v)'
      BY <1>1, <2>1, <3>1 DEF Grey, IsValidHeapPointer
    <3>3. QED
      BY <1>4d, <3>2
  <2>5. MarkInv'
    <3>1. \A i \in 1..(root' - 1) : Grey(SlotValue(RootSlots[i]))'
      <4>1. \A i \in 1..(root' - 1) : i \in 1..(root - 1) \/ i = r
        BY <1>1, <1>3, <1>4a
      <4>2. QED
        BY <2>3, <2>4, <4>1
    <3>2. Live' = Live
      BY <1>1, <1>3, <2>2, SameStore
    <3>3. \A a \in DOMAIN mem : mem[a].marked => GreyFields(a, Len(mem[a].fields) + 1)'
      <4>1. SUFFICES ASSUME NEW a \in DOMAIN mem, mem[a].marked
                     PROVE  GreyFields(a, Len(mem[a].fields) + 1)'
        OBVIOUS
      <4>2. PICK n \in Nat : n = Len(mem[a].fields) + 1
        BY <1>2, MarkFacts
      <4>3. GreyFields(a, n)'
        BY <1>6, <2>3, <4>1, <4>2
      <4>4. QED
        BY <2>1, <4>2, <4>3
    <3>4. \A a \in DOMAIN mem : mem[a].marked => a \in Live
      BY <1>2, MarkFacts
    <3>5. QED
      BY <1>1, <1>3, <1>5, <2>1, <2>3, <3>1, <3>2, <3>3, <3>4 DEF MarkInv
  <2>6. QInv' /\ CompactInv'
    BY <1>1, <2>1 DEF QInv, CompactInv
  <2>7. phase' \in Marking /\ head' \in Nat /\ tail' \in Nat
    BY <1>2, <1>3, <2>1
  <2>8. QED
    BY <1>1, <1>2, <1>3, <2>2, <2>5, <2>6, <2>7, MarkStepDone
<1>8. CASE ~Ignored(v)
  <2>1. PICK a : a = Target(heap, v)
    OBVIOUS
  <2>2. /\ IsValidHeapPointer(v) /\ a \in DOMAIN mem /\ ~mem[a].marked /\ a \in Live
    BY <1>3, <1>4, <1>8, <2>1, KnownCases, Graph DEF Ignored
  <2>2a. PICK z : z = 0
    OBVIOUS
  <2>2b. mem' = EnqueuedIn(mem, z, a)
    BY <1>4, <1>8, <2>1, <2>2a DEF MarkRoot, Enqueued, EnqueuedIn
  <2>3. head' = 0 /\ tail' = NextObject(0) /\ phase' = "queue"
    BY <1>4, <1>8, <2>1 DEF MarkRoot
  <2>4. 0 \in DOMAIN mem
    <3>1. a \in Nat /\ a < heap.current
      BY <1>3, <2>2, SteadyFacts, NextTile
    <3>2. QED
      BY <1>3, <3>1, SteadyFacts DEF Tiled
  <2>5. PICK n : n = mem'
    OBVIOUS
  <2>6. /\ SameObjects(mem, n) /\ Memory(n)
        /\ n[0].fwd = a
        /\ n[a].enqueued /\ \A b \in DOMAIN mem : b # a => n[b].enqueued = mem[b].enqueued
        /\ \A b \in DOMAIN mem : n[b].marked = mem[b].marked
    <3>1. z \in DOMAIN mem
      BY <2>2a, <2>4
    <3>2. n = EnqueuedIn(mem, z, a)
      BY <2>2b, <2>5
    <3>3. Memory(mem) /\ a \in DOMAIN mem
      BY <1>3, <2>2, SteadyFacts
    <3>4. /\ SameObjects(mem, n) /\ Memory(n)
          /\ n[z].fwd = a
          /\ n[a].enqueued /\ \A b \in DOMAIN mem : b # a => n[b].enqueued = mem[b].enqueued
          /\ \A b \in DOMAIN mem : n[b].marked = mem[b].marked
      BY <3>1, <3>2, <3>3, EnqueuedObjects
    <3>5. QED
      BY <2>2a, <3>4
  <2>7. SameObjects(mem, mem') /\ Memory(mem') /\ DOMAIN mem' = DOMAIN mem
    BY <2>5, <2>6 DEF SameObjects
  <2>8. \A b \in DOMAIN mem : mem[b].marked \/ mem[b].enqueued =>
                                mem'[b].marked \/ mem'[b].enqueued
    BY <2>5, <2>6
  <2>9. /\ RootSlots' = RootSlots
        /\ \A i \in 1..(root - 1) : Grey(SlotValue(RootSlots[i]))'
        /\ \A b \in DOMAIN mem : \A k \in Nat : GreyFields(b, k) => GreyFields(b, k)'
    BY <1>1, <1>2, <2>7, <2>8, GreysKept
  <2>10. Grey(SlotValue(RootSlots[r]))'
    <3>1. mem'[a].enqueued
      BY <2>5, <2>6
    <3>2. Grey(v)'
      BY <1>1, <2>1, <3>1 DEF Grey, IsValidHeapPointer
    <3>3. QED
      BY <1>4d, <3>2
  <2>11. MarkInv'
    <3>1. \A i \in 1..(root' - 1) : Grey(SlotValue(RootSlots[i]))'
      <4>1. \A i \in 1..(root' - 1) : i \in 1..(root - 1) \/ i = r
        BY <1>1, <1>3, <1>4a
      <4>2. QED
        BY <2>9, <2>10, <4>1
    <3>2. Live' = Live
      BY <1>1, <1>3, <2>7, SameStore
    <3>3. \A b \in DOMAIN mem : mem'[b].marked => GreyFields(b, Len(mem[b].fields) + 1)'
      <4>1. SUFFICES ASSUME NEW b \in DOMAIN mem, mem'[b].marked
                     PROVE  GreyFields(b, Len(mem[b].fields) + 1)'
        OBVIOUS
      <4>2. mem[b].marked /\ mem'[b].fields = mem[b].fields
        BY <2>5, <2>6, <2>7, <4>1 DEF SameObjects
      <4>3. PICK k \in Nat : k = Len(mem[b].fields) + 1
        BY <1>2, MarkFacts
      <4>4. GreyFields(b, k)'
        BY <1>6, <2>9, <4>2, <4>3
      <4>5. QED
        BY <4>2, <4>3, <4>4
    <3>4. \A b \in DOMAIN mem : /\ mem'[b].marked \/ mem'[b].enqueued => b \in Live
                                /\ ~(mem'[b].marked /\ mem'[b].enqueued)
      BY <1>2, <1>5, <2>2, <2>5, <2>6, MarkFacts
    <3>5. QED
      BY <1>1, <1>3, <2>3, <2>7, <2>9, <3>1, <3>2, <3>3, <3>4 DEF MarkInv
  <2>12. QInv'
    <3>0. /\ heap.current \in Nat /\ Memory(mem) /\ Tiled(mem, heap.current)
      BY <1>3, SteadyFacts
    <3>0a. z \in DOMAIN mem /\ z = 0
      BY <2>2a, <2>4
    <3>0b. PICK t : t = z + Size(mem[z])
      OBVIOUS
    <3>0c. /\ t \in Nat /\ z < t /\ t \in DOMAIN mem \cup {heap.current}
           /\ \A b \in DOMAIN mem : b < t <=> b <= z
      BY <3>0, <3>0a, <3>0b, NextTile
    <3>0d. tail' = t
      BY <2>3, <3>0a, <3>0b DEF NextObject
    <3>1. /\ tail' \in Nat /\ 0 <= tail' /\ tail' \in DOMAIN mem \cup {heap.current}
          /\ \A b \in DOMAIN mem : b \in Nat /\ (b < tail' <=> b <= 0)
      BY <3>0, <3>0a, <3>0c, <3>0d DEF Memory
    <3>2. \A b \in DOMAIN mem : b < tail' <=> b = 0
      BY <3>1
    <3>3. /\ \A b \in Entries' : b = 0
          /\ 0 \in Queue' /\ head' \in Ends' /\ tail' \in Ends'
      BY <1>1, <2>3, <2>4, <2>7, <3>1, <3>2 DEF Entries, Queue, Ends
    <3>4. \A b \in DOMAIN mem' : mem'[b].enqueued => b = a
      BY <1>5, <2>5, <2>6, <2>7
    <3>5. mem'[0].fwd = a /\ mem'[a].enqueued
      BY <2>5, <2>6
    <3>6. /\ \A b \in Entries' : /\ mem'[b].fwd \in DOMAIN mem'
                                 /\ b < head' => mem'[mem'[b].fwd].marked
                                 /\ b >= head' => mem'[mem'[b].fwd].enqueued
      <4>1. SUFFICES ASSUME NEW b \in Entries'
                     PROVE  /\ mem'[b].fwd \in DOMAIN mem'
                            /\ b < head' => mem'[mem'[b].fwd].marked
                            /\ b >= head' => mem'[mem'[b].fwd].enqueued
        OBVIOUS
      <4>2. b = 0 /\ mem'[b].fwd = a /\ ~(b < head')
        BY <2>3, <3>3, <3>5
      <4>3. QED
        BY <2>2, <2>7, <3>5, <4>2
    <3>7. \A b, c \in Entries' : mem'[b].fwd = mem'[c].fwd => b = c
      BY <3>3
    <3>8. \A b \in DOMAIN mem' : mem'[b].enqueued => \E c \in Queue' : mem'[c].fwd = b
      BY <3>3, <3>4, <3>5
    <3>9. head' <= tail'
      BY <2>3, <3>1
    <3>10. QED
      BY <3>3, <3>6, <3>7, <3>8, <3>9 DEF QInv
  <2>13. CompactInv'
    BY <2>3 DEF CompactInv
  <2>14. /\ phase' \in Marking /\ head' \in Nat /\ tail' \in Nat
    <3>1. NextObject(0) \in Nat
      BY <1>3, <2>4, SteadyFacts, NextTile DEF NextObject
    <3>2. QED
      BY <2>3, <3>1 DEF Marking
  <2>15. QED
    BY <1>1, <1>2, <1>3, <2>7, <2>11, <2>12, <2>13, <2>14, MarkStepDone
<1>9. QED
  BY <1>7, <1>8

\* The queue of mark() as it is at the start of a step.
LEMMA QueueFacts ==
  ASSUME IInv, phase \in {"queue", "fields"}
  PROVE  /\ phase \in Marking
         /\ head \in DOMAIN mem \cup {heap.current} /\ tail \in DOMAIN mem \cup {heap.current}
         /\ head \in Nat /\ tail \in Nat /\ head <= tail
         /\ \A b \in DOMAIN mem : b < tail =>
              /\ mem[b].fwd \in DOMAIN mem
              /\ b < head => mem[mem[b].fwd].marked
              /\ b >= head => mem[mem[b].fwd].enqueued
         /\ \A b, c \in DOMAIN mem : b < tail /\ c < tail /\ mem[b].fwd = mem[c].fwd => b = c
         /\ \A b \in DOMAIN mem : mem[b].enqueued =>
              \E c \in DOMAIN mem : head <= c /\ c < tail /\ mem[c].fwd = b
<1>1. QInv /\ Typed
  BY DEF IInv
<1>2. phase \in Marking
  BY DEF Marking
<1>3. head \in Nat /\ tail \in Nat
  BY <1>1 DEF Typed
<1>4. QED
  BY <1>1, <1>2, <1>3 DEF QInv, Entries, Queue, Ends

\* The head of the queue becomes marked and loses its enqueued bit; no field
\* of it has been looked at yet.
LEMMA DequeueStep == IInv /\ Dequeue => IInv'
<1> SUFFICES ASSUME IInv, Dequeue PROVE IInv'
  OBVIOUS
<1>1. /\ phase = "queue" /\ head # tail /\ phase' = "fields"
      /\ UNCHANGED <<heap, mapped, stack, extra, req, root, tail, old, iter, free,
                     nextId, snap>>
  BY DEF Dequeue, compactVars
<1>2. phase \in Marking /\ Steady
  BY <1>1, MarkFacts DEF Marking
<1>3. /\ heap.current \in Nat /\ Memory(mem) /\ Tiled(mem, heap.current)
      /\ \A b \in DOMAIN mem : b \in Nat
  BY <1>2, SteadyFacts DEF Memory
<1>4. head \in DOMAIN mem /\ head \in Nat /\ tail \in Nat /\ head < tail
  <2>1. /\ head \in DOMAIN mem \cup {heap.current} /\ tail \in DOMAIN mem \cup {heap.current}
        /\ head \in Nat /\ tail \in Nat /\ head <= tail
    BY <1>1, QueueFacts
  <2>2. head < tail
    BY <1>1, <2>1
  <2>3. tail <= heap.current
    <3>1. tail \in DOMAIN mem => tail < heap.current
      BY <1>3, NextTile
    <3>2. QED
      BY <1>3, <2>1, <3>1
  <2>4. QED
    BY <1>3, <2>1, <2>2, <2>3
<1>5. PICK a \in DOMAIN mem : a = mem[head].fwd /\ mem[a].enqueued
  BY <1>1, <1>4, QueueFacts
<1>6. PICK f \in Nat \ {0} : f = FirstField(mem[a])
  BY <1>2, MarkFacts
<1>7. mem' = MarkedIn(mem, a) /\ obj' = a /\ fld' = f /\ head' = NextObject(head)
  BY <1>5, <1>6 DEF Dequeue, MarkedIn
<1>8. PICK n : n = mem'
  OBVIOUS
<1>9. /\ SameObjects(mem, n) /\ Memory(n)
      /\ \A b \in DOMAIN mem : n[b].fwd = mem[b].fwd
      /\ n[a].marked /\ ~n[a].enqueued
      /\ \A b \in DOMAIN mem : b # a => n[b] = mem[b]
  BY <1>3, <1>7, <1>8, MarkedObjects
<1>10. SameObjects(mem, mem') /\ Memory(mem') /\ DOMAIN mem' = DOMAIN mem
  BY <1>8, <1>9 DEF SameObjects
<1>11. /\ mem'[a].marked /\ ~mem'[a].enqueued
       /\ \A b \in DOMAIN mem : mem'[b].fwd = mem[b].fwd
       /\ \A b \in DOMAIN mem : b # a => mem'[b].marked = mem[b].marked
                                         /\ mem'[b].enqueued = mem[b].enqueued
  BY <1>8, <1>9
<1>12. /\ RootSlots' = RootSlots
       /\ \A i \in 1..(root - 1) : Grey(SlotValue(RootSlots[i]))'
       /\ \A b \in DOMAIN mem : \A k \in Nat : GreyFields(b, k) => GreyFields(b, k)'
  <2>1. \A b \in DOMAIN mem : mem[b].marked \/ mem[b].enqueued =>
                                mem'[b].marked \/ mem'[b].enqueued
    BY <1>11
  <2>2. QED
    BY <1>1, <1>2, <1>10, <2>1, GreysKept
<1>13. PICK h \in Nat : h = head
  BY <1>4
<1>14. PICK t \in Nat : t = tail /\ h < t
  BY <1>4, <1>13
<1>15. PICK h1 : h1 = h + Size(mem[h])
  OBVIOUS
<1>16. /\ h1 \in Nat /\ h < h1 /\ h1 \in DOMAIN mem \cup {heap.current}
       /\ \A b \in DOMAIN mem : b < h1 <=> b <= h
  BY <1>3, <1>4, <1>13, <1>15, NextTile
<1>17. head' = h1
  BY <1>7, <1>13, <1>15 DEF NextObject
<1>18. h1 <= t
  <2>1. CASE t \in DOMAIN mem
    BY <1>14, <1>16, <2>1
  <2>2. CASE t = heap.current
    BY <1>3, <1>16, <2>2, NextTile
  <2>3. QED
    BY <2>1, <2>2, <1>1, <1>14, QueueFacts
<1>19. MarkInv'
  <2>1. Live' = Live
    BY <1>1, <1>2, <1>10, SameStore
  <2>2. \A b \in DOMAIN mem : /\ mem'[b].marked \/ mem'[b].enqueued => b \in Live
                              /\ ~(mem'[b].marked /\ mem'[b].enqueued)
    BY <1>2, <1>5, <1>11, MarkFacts
  <2>3. ASSUME NEW b \in DOMAIN mem, mem'[b].marked
        PROVE  /\ b # a => GreyFields(b, Len(mem[b].fields) + 1)'
               /\ b = a => GreyFields(b, f)'
    <3>1. CASE b # a
      <4>1. mem[b].marked
        BY <1>11, <2>3, <3>1
      <4>2. PICK k \in Nat : k = Len(mem[b].fields) + 1
        BY <1>2, MarkFacts
      <4>3. GreyFields(b, k)
        BY <1>1, <1>2, <4>1, <4>2 DEF IInv, MarkInv
      <4>4. GreyFields(b, k)'
        BY <1>12, <4>3
      <4>5. mem'[b].fields = mem[b].fields
        BY <1>10 DEF SameObjects
      <4>6. QED
        BY <3>1, <4>2, <4>4, <4>5
    <3>2. CASE b = a
      <4>1. GreyFields(a, f)
        <5>1. \A i \in FirstField(mem[a])..Len(mem[a].fields) : ~(i < f)
          BY <1>2, <1>6, MarkFacts
        <5>2. QED
          BY <5>1 DEF GreyFields
      <4>2. GreyFields(a, f)'
        BY <1>12, <4>1
      <4>3. QED
        BY <3>2, <4>2
    <3>3. QED
      BY <3>1, <3>2
  <2>4. root' \in 1..(Len(RootSlots') + 1)
    BY <1>1, <1>2, <1>12, MarkFacts
  <2>5. FirstField(mem'[a]) = f
    BY <1>6, <1>10, SameSizes
  <2>6. \A i \in 1..(root' - 1) : Grey(SlotValue(RootSlots[i]))'
    BY <1>1, <1>12
  <2>7. QED
    BY <1>1, <1>5, <1>6, <1>7, <1>10, <1>11, <1>12, <2>1, <2>2, <2>3, <2>4, <2>5, <2>6, SMTT(30) DEF MarkInv
<1>20. QInv'
  <2>1. \A b \in DOMAIN mem : b < t =>
          /\ mem[b].fwd \in DOMAIN mem
          /\ b < h => mem[mem[b].fwd].marked
          /\ b >= h => mem[mem[b].fwd].enqueued
    BY <1>1, <1>13, <1>14, QueueFacts
  <2>2. \A b, c \in DOMAIN mem : b < t /\ c < t /\ mem[b].fwd = mem[c].fwd => b = c
    BY <1>1, <1>14, QueueFacts
  <2>3. ASSUME NEW b \in DOMAIN mem, b < t
        PROVE  /\ mem'[b].fwd \in DOMAIN mem
               /\ b < h1 => mem'[mem'[b].fwd].marked
               /\ b >= h1 => mem'[mem'[b].fwd].enqueued
    <3>1. PICK c \in DOMAIN mem : c = mem[b].fwd /\ c = mem'[b].fwd
      BY <1>11, <2>1, <2>3
    <3>1a. /\ b < h => mem[c].marked
           /\ b >= h => mem[c].enqueued
           /\ b \in Nat /\ (b < h1 <=> b <= h)
      BY <1>3, <1>16, <2>1, <2>3, <3>1
    <3>2. CASE b < h
      <4>1. b < h1 /\ mem[c].marked
        BY <3>1a, <3>2
      <4>2. mem'[c].marked
        BY <1>11, <4>1
      <4>3. QED
        BY <1>3, <1>16, <3>1, <4>1, <4>2
    <3>3. CASE b = h
      BY <1>4, <1>5, <1>11, <1>13, <1>16, <3>1, <3>3
    <3>4. CASE b > h
      <4>1. b >= h1 /\ mem[c].enqueued
        BY <1>16, <3>1a, <3>4
      <4>2. c # a
        <5>1. mem[h].fwd = a /\ h \in DOMAIN mem /\ h < t
          BY <1>4, <1>5, <1>13, <1>14
        <5>2. c = a => b = h
          BY <2>2, <2>3, <3>1, <5>1
        <5>3. QED
          BY <3>1a, <3>4, <5>2
      <4>3. mem'[c].enqueued
        BY <1>11, <4>1, <4>2
      <4>4. QED
        BY <1>3, <1>16, <3>1, <4>1, <4>3
    <3>5. QED
      BY <1>3, <3>2, <3>3, <3>4
  <2>4. ASSUME NEW b \in DOMAIN mem, mem'[b].enqueued
        PROVE  \E c \in DOMAIN mem : h1 <= c /\ c < t /\ mem'[c].fwd = b
    <3>1. b # a /\ mem[b].enqueued
      BY <1>11, <2>4
    <3>2. PICK c \in DOMAIN mem : h <= c /\ c < t /\ mem[c].fwd = b
      BY <1>1, <1>13, <1>14, <3>1, QueueFacts
    <3>3. c # h
      BY <1>5, <1>13, <3>1, <3>2
    <3>4. ~(c < h1)
      BY <1>3, <1>16, <3>2, <3>3
    <3>5. h1 <= c
      BY <1>3, <1>16, <3>4
    <3>6. QED
      BY <1>11, <3>2, <3>5
  <2>5. tail' = t /\ head' = h1
    BY <1>1, <1>14, <1>17
  <2>6. Entries' = {b \in DOMAIN mem : b < t}
        /\ Queue' = {b \in DOMAIN mem : h1 <= b /\ b < t}
        /\ Ends' = DOMAIN mem \cup {heap.current}
    BY <1>1, <1>10, <2>5 DEF Entries, Queue, Ends
  <2>7. t \in DOMAIN mem \cup {heap.current}
    BY <1>1, <1>14, QueueFacts
  <2>8. \A b, c \in DOMAIN mem : b < t /\ c < t /\ mem'[b].fwd = mem'[c].fwd => b = c
    BY <1>11, <2>2
  <2>9. QED
    BY <1>10, <1>16, <1>18, <2>3, <2>4, <2>5, <2>6, <2>7, <2>8 DEF QInv
<1>21. CompactInv'
  BY <1>1 DEF CompactInv
<1>22. /\ phase' \in Marking /\ head' \in Nat /\ tail' \in Nat /\ root' \in Nat
       /\ obj' \in Nat /\ fld' \in Nat
  BY <1>1, <1>2, <1>3, <1>7, <1>16, <1>17, MarkFacts DEF Marking
<1>23. QED
  BY <1>1, <1>2, <1>10, <1>19, <1>20, <1>21, <1>22, MarkStepDone

\* There is an entry left for each object that is neither marked nor waiting:
\* the entries used so far hold different objects that are one or the other.
LEMMA QueueRoom ==
  ASSUME IInv, phase \in {"queue", "fields"}, NEW a \in DOMAIN mem,
         ~mem[a].marked, ~mem[a].enqueued
  PROVE  tail \in DOMAIN mem
<1> SUFFICES ASSUME tail \notin DOMAIN mem PROVE FALSE
  OBVIOUS
<1>1. phase \in Marking /\ Steady
  BY QueueFacts, MarkFacts
<1>2. /\ heap.current \in Nat /\ Memory(mem) /\ Tiled(mem, heap.current)
      /\ \A b \in DOMAIN mem : b \in Nat
  BY <1>1, SteadyFacts DEF Memory
<1>3. tail = heap.current
  BY QueueFacts
<1>4. \A b \in DOMAIN mem : b < tail
  BY <1>2, <1>3, NextTile
<1>5. PICK D : D = DOMAIN mem
  OBVIOUS
<1>6. IsFiniteSet(D)
  <2>1. IsFiniteSet(0..heap.current)
    BY <1>2, FS_Interval
  <2>2. D \in SUBSET (0..heap.current)
    BY <1>2, <1>3, <1>4, <1>5
  <2>3. QED
    BY <2>1, <2>2, FS_Subset
<1>7. IsFiniteSet(D \ {a}) /\ Cardinality(D \ {a}) = Cardinality(D) - 1
  BY <1>5, <1>6, FS_RemoveElement
<1>8. Cardinality(D) \in Nat
  BY <1>6, FS_CardinalityType
<1>9. PICK f : f = [b \in D |-> mem[b].fwd]
  OBVIOUS
<1>10. f \in [D -> D \ {a}]
  <2>1. ASSUME NEW b \in D PROVE mem[b].fwd \in D \ {a}
    <3>1. /\ mem[b].fwd \in DOMAIN mem
          /\ b < head => mem[mem[b].fwd].marked
          /\ b >= head => mem[mem[b].fwd].enqueued
          /\ head \in Nat /\ b \in Nat
      BY <1>2, <1>4, <1>5, QueueFacts
    <3>2. b < head \/ b >= head
      BY <3>1
    <3>3. QED
      BY <1>5, <3>1, <3>2
  <2>2. QED
    BY <1>9, <2>1
<1>11. Cardinality(D \ {a}) < Cardinality(D)
  BY <1>7, <1>8
<1>12. PICK b \in D, c \in D : b # c /\ f[b] = f[c]
  BY <1>6, <1>7, <1>10, <1>11, FS_PigeonHole
<1>13. mem[b].fwd = mem[c].fwd
  BY <1>9, <1>12
<1>14. QED
  BY <1>4, <1>5, <1>12, <1>13, QueueFacts

\* The object being scanned.
LEMMA ScanFacts ==
  ASSUME IInv, phase = "fields"
  PROVE  /\ phase \in Marking /\ Steady
         /\ obj \in DOMAIN mem /\ mem[obj].marked /\ obj \in Live
         /\ fld \in Nat /\ fld >= FirstField(mem[obj])
         /\ \A b \in DOMAIN mem : mem[b].marked =>
              GreyFields(b, IF b = obj THEN fld ELSE Len(mem[b].fields) + 1)
         /\ fld <= Len(mem[obj].fields) =>
              /\ mem[obj].fields[fld] \in Known
              /\ IsValidHeapPointer(mem[obj].fields[fld]) =>
                   /\ Target(heap, mem[obj].fields[fld]) \in DOMAIN mem
                   /\ Target(heap, mem[obj].fields[fld]) \in Live
<1>1. phase \in Marking /\ Steady
  BY DEF Marking, Steady
<1>2. /\ obj \in DOMAIN mem /\ mem[obj].marked /\ fld >= FirstField(mem[obj])
      /\ \A b \in DOMAIN mem : mem[b].marked =>
           GreyFields(b, IF b = obj THEN fld ELSE Len(mem[b].fields) + 1)
  BY <1>1 DEF IInv, MarkInv
<1>3. obj \in Live /\ fld \in Nat
  BY <1>1, <1>2, MarkFacts
<1>4. ASSUME fld <= Len(mem[obj].fields)
      PROVE  /\ mem[obj].fields[fld] \in Known
             /\ IsValidHeapPointer(mem[obj].fields[fld]) =>
                   /\ Target(heap, mem[obj].fields[fld]) \in DOMAIN mem
                   /\ Target(heap, mem[obj].fields[fld]) \in Live
  <2>1. fld \in FirstField(mem[obj])..Len(mem[obj].fields)
    BY <1>1, <1>2, <1>3, <1>4, MarkFacts
  <2>2. PICK i \in FirstField(mem[obj])..Len(mem[obj].fields) : i = fld
    BY <2>1
  <2>3. mem[obj].fields[i] \in Known
    BY <1>1, <1>2, ReferencesOf
  <2>4. IsValidHeapPointer(mem[obj].fields[i]) => Target(heap, mem[obj].fields[i]) \in Succ[obj]
    BY <1>1, <1>2, Edges
  <2>5. Succ[obj] \subseteq Live /\ Live \subseteq DOMAIN mem
    BY <1>1, <1>3, Graph
  <2>6. QED
    BY <2>2, <2>3, <2>4, <2>5
<1>5. QED
  BY <1>1, <1>2, <1>3, <1>4

\* A field leads to an object that is marked or enqueued from now on; the
\* entry it takes is free, because there is room in the queue.
LEMMA ScanFieldStep == IInv /\ ScanField => IInv'
<1> SUFFICES ASSUME IInv, ScanField PROVE IInv'
  OBVIOUS
<1>1. /\ phase = "fields" /\ fld <= Len(mem[obj].fields) /\ fld' = fld + 1
      /\ phase' = phase
      /\ UNCHANGED <<heap, mapped, stack, extra, req, root, head, obj, old, iter,
                     free, nextId, snap>>
  BY DEF ScanField, compactVars
<1>2. phase \in Marking /\ Steady
  BY <1>1, ScanFacts
<1>3. /\ heap.current \in Nat /\ Memory(mem) /\ Tiled(mem, heap.current)
      /\ \A b \in DOMAIN mem : b \in Nat
  BY <1>2, SteadyFacts DEF Memory
<1>4. PICK o \in DOMAIN mem : o = obj /\ mem[o].marked /\ o \in Live
  BY <1>1, ScanFacts
<1>5. PICK k \in Nat \ {0} : /\ k = fld /\ k >= FirstField(mem[o])
                             /\ FirstField(mem[o]) \in Nat \ {0}
  <2>1. FirstField(mem[o]) \in Nat \ {0}
    BY <1>2, MarkFacts
  <2>2. fld \in Nat /\ fld >= FirstField(mem[o])
    BY <1>1, <1>4, ScanFacts
  <2>3. fld \in Nat \ {0}
    BY <2>1, <2>2
  <2>4. QED
    BY <2>1, <2>2, <2>3
<1>6. PICK v \in Known : v = mem[o].fields[k]
  BY <1>1, <1>4, <1>5, ScanFacts
<1>7. \A b \in DOMAIN mem : mem[b].marked =>
        GreyFields(b, IF b = o THEN k ELSE Len(mem[b].fields) + 1)
  BY <1>1, <1>4, <1>5, ScanFacts
<1>8. \* The marks of the next state, once its objects are known.
  ASSUME SameObjects(mem, mem'), Memory(mem'),
         \A b \in DOMAIN mem : mem[b].marked \/ mem[b].enqueued =>
                                 mem'[b].marked \/ mem'[b].enqueued,
         \A b \in DOMAIN mem : /\ mem'[b].marked = mem[b].marked
                               /\ mem'[b].marked \/ mem'[b].enqueued => b \in Live
                               /\ ~(mem'[b].marked /\ mem'[b].enqueued),
         Grey(v)'
  PROVE  MarkInv'
  <2>1. /\ RootSlots' = RootSlots
        /\ \A i \in 1..(root - 1) : Grey(SlotValue(RootSlots[i]))'
        /\ \A b \in DOMAIN mem : \A n \in Nat : GreyFields(b, n) => GreyFields(b, n)'
    BY <1>1, <1>2, <1>8, GreysKept
  <2>2. Live' = Live
    BY <1>1, <1>2, <1>8, SameStore
  <2>3. DOMAIN mem' = DOMAIN mem /\ \A b \in DOMAIN mem : mem'[b].fields = mem[b].fields
    BY <1>8 DEF SameObjects
  <2>4. ASSUME NEW b \in DOMAIN mem, mem'[b].marked
        PROVE  /\ b # o => GreyFields(b, Len(mem[b].fields) + 1)'
               /\ b = o => GreyFields(b, k + 1)'
    <3>1. mem[b].marked
      BY <1>8, <2>4
    <3>2. CASE b # o
      <4>1. PICK n \in Nat : n = Len(mem[b].fields) + 1
        BY <1>2, MarkFacts
      <4>2. GreyFields(b, n)
        BY <1>7, <3>1, <3>2, <4>1
      <4>3. GreyFields(b, n)'
        BY <2>1, <4>2
      <4>4. QED
        BY <2>3, <3>2, <4>1, <4>3
    <3>3. CASE b = o
      <4>1. GreyFields(o, k)
        BY <1>4, <1>7
      <4>2. GreyFields(o, k)'
        BY <2>1, <4>1
      <4>3. PICK f \in Nat \ {0} : f = FirstField(mem[o]) /\ f = FirstField(mem'[o])
        BY <1>5, <1>8, SameSizes
      <4>4. PICK l \in Nat : l = Len(mem[o].fields)
        BY <1>2, MarkFacts
      <4>5. \A i \in f..l : i < k => Grey(mem[o].fields[i])'
        BY <2>3, <4>2, <4>3, <4>4 DEF GreyFields
      <4>6. Grey(mem[o].fields[k])'
        <5>1. v = mem'[o].fields[k]
          BY <1>6, <2>3
        <5>2. QED
          BY <1>8, <5>1 DEF Grey, IsValidHeapPointer
      <4>7. \A i \in f..l : i < k + 1 => i < k \/ i = k
        BY <1>5, <4>3, <4>4
      <4>8. \A i \in f..l : i < k + 1 => Grey(mem[o].fields[i])'
        BY <4>5, <4>6, <4>7
      <4>9. QED
        BY <2>3, <3>3, <4>3, <4>4, <4>8 DEF GreyFields
    <3>4. QED
      BY <3>2, <3>3
  <2>5. root' \in 1..(Len(RootSlots') + 1)
    BY <1>1, <1>2, <2>1, MarkFacts
  <2>6. FirstField(mem'[o]) = FirstField(mem[o])
    BY <1>8, SameSizes
  <2>7. fld' >= FirstField(mem'[o])
    BY <1>1, <1>5, <2>6
  <2>8. /\ obj' = o /\ phase' = "fields" /\ fld' = k + 1 /\ mem'[o].marked
    BY <1>1, <1>4, <1>5, <1>8
  <2>9. \A i \in 1..(root' - 1) : Grey(SlotValue(RootSlots[i]))'
    BY <1>1, <2>1
  <2>10. QED
    BY <1>8, <2>2, <2>3, <2>4, <2>5, <2>7, <2>8, <2>9 DEF MarkInv
<1>9. CompactInv'
  BY <1>1 DEF CompactInv
<1>10. phase' \in Marking /\ head' \in Nat /\ root' \in Nat /\ obj' \in Nat /\ fld' \in Nat
  BY <1>1, <1>2, MarkFacts
<1>11. CASE Skipped(v)
  <2>1. mem' = mem /\ tail' = tail
    BY <1>4, <1>5, <1>6, <1>11 DEF ScanField
  <2>2. SameObjects(mem, mem') /\ Memory(mem')
    BY <2>1, SameHeap
  <2>3. Grey(v)'
    BY <1>1, <1>11, <2>1 DEF Skipped, Ignored, Grey, IsValidHeapPointer
  <2>4. MarkInv'
    BY <1>2, <1>8, <2>1, <2>2, <2>3, MarkFacts
  <2>5. QInv'
    BY <1>1, <2>1 DEF IInv, QInv, Entries, Queue, Ends
  <2>6. tail' \in Nat
    BY <1>2, <2>1, MarkFacts
  <2>7. QED
    BY <1>1, <1>2, <1>9, <1>10, <2>2, <2>4, <2>5, <2>6, MarkStepDone
<1>12. CASE ~Skipped(v)
  <2>1. PICK a : a = Target(heap, v)
    OBVIOUS
  <2>2. IsValidHeapPointer(v) /\ ~mem[a].marked /\ ~mem[a].enqueued
    BY <1>12, <2>1 DEF Skipped, Ignored
  <2>3. a \in DOMAIN mem /\ a \in Live
    BY <1>1, <1>4, <1>5, <1>6, <2>1, <2>2, ScanFacts
  <2>4. PICK t \in DOMAIN mem : t = tail
    BY <1>1, <2>2, <2>3, QueueRoom
  <2>5. mem' = EnqueuedIn(mem, t, a) /\ tail' = NextObject(t)
    BY <1>4, <1>5, <1>6, <1>12, <2>1, <2>4 DEF ScanField, Enqueued, EnqueuedIn
  <2>6. PICK n : n = mem'
    OBVIOUS
  <2>7. /\ SameObjects(mem, n) /\ Memory(n)
        /\ n[t].fwd = a /\ \A b \in DOMAIN mem : b # t => n[b].fwd = mem[b].fwd
        /\ n[a].enqueued /\ \A b \in DOMAIN mem : b # a => n[b].enqueued = mem[b].enqueued
        /\ \A b \in DOMAIN mem : n[b].marked = mem[b].marked
    BY <1>3, <2>3, <2>5, <2>6, EnqueuedObjects
  <2>8. SameObjects(mem, mem') /\ Memory(mem') /\ DOMAIN mem' = DOMAIN mem
    BY <2>6, <2>7 DEF SameObjects
  <2>9. Grey(v)'
    BY <1>1, <2>1, <2>6, <2>7 DEF Grey, IsValidHeapPointer
  <2>10. MarkInv'
    <3>1. \A b \in DOMAIN mem : mem[b].marked \/ mem[b].enqueued =>
                                  mem'[b].marked \/ mem'[b].enqueued
      BY <2>6, <2>7
    <3>2. \A b \in DOMAIN mem : /\ mem[b].marked \/ mem[b].enqueued => b \in Live
                                /\ ~(mem[b].marked /\ mem[b].enqueued)
      BY <1>2, MarkFacts
    <3>3. \A b \in DOMAIN mem : /\ mem'[b].marked = mem[b].marked
                                /\ mem'[b].marked \/ mem'[b].enqueued => b \in Live
                                /\ ~(mem'[b].marked /\ mem'[b].enqueued)
      BY <2>2, <2>3, <2>6, <2>7, <3>2
    <3>4. QED
      BY <1>8, <2>8, <2>9, <3>1, <3>3
  <2>11. PICK t1 : t1 = t + Size(mem[t])
    OBVIOUS
  <2>12. /\ t1 \in Nat /\ t < t1 /\ t1 \in DOMAIN mem \cup {heap.current}
         /\ \A b \in DOMAIN mem : b < t1 <=> b <= t
    BY <1>3, <2>11, NextTile
  <2>13. PICK h \in Nat : h = head /\ h <= t /\ h \in DOMAIN mem \cup {heap.current}
    BY <1>1, <2>4, QueueFacts
  <2>14. QInv'
    <3>1. /\ \A b \in DOMAIN mem : b < t =>
               /\ mem[b].fwd \in DOMAIN mem
               /\ b < h => mem[mem[b].fwd].marked
               /\ b >= h => mem[mem[b].fwd].enqueued
          /\ \A b, c \in DOMAIN mem : b < t /\ c < t /\ mem[b].fwd = mem[c].fwd => b = c
          /\ \A b \in DOMAIN mem : mem[b].enqueued =>
               \E c \in DOMAIN mem : h <= c /\ c < t /\ mem[c].fwd = b
      BY <1>1, <2>4, <2>13, QueueFacts
    <3>2. \A b \in DOMAIN mem : b < t => mem[b].fwd # a
      <4>1. SUFFICES ASSUME NEW b \in DOMAIN mem, b < t, mem[b].fwd = a PROVE FALSE
        OBVIOUS
      <4>2. b < h \/ b >= h
        BY <1>3, <2>13
      <4>3. mem[mem[b].fwd].marked \/ mem[mem[b].fwd].enqueued
        BY <3>1, <4>1, <4>2
      <4>4. QED
        BY <2>2, <4>1, <4>3
    <3>3. \A b \in DOMAIN mem : b < t1 => b < t \/ b = t
      BY <1>3, <2>12
    <3>4. mem'[t].fwd = a /\ \A b \in DOMAIN mem : b < t => mem'[b].fwd = mem[b].fwd
      <4>1. \A b \in DOMAIN mem : b < t => b # t
        BY <1>3
      <4>2. QED
        BY <2>6, <2>7, <4>1
    <3>5. ASSUME NEW b \in DOMAIN mem, b < t1
          PROVE  /\ mem'[b].fwd \in DOMAIN mem
                 /\ b < h => mem'[mem'[b].fwd].marked
                 /\ b >= h => mem'[mem'[b].fwd].enqueued
      <4>1. CASE b < t
        <5>1. PICK c \in DOMAIN mem : c = mem[b].fwd /\ c = mem'[b].fwd
          BY <3>1, <3>4, <4>1
        <5>2. /\ b < h => mem[c].marked
              /\ b >= h => mem[c].enqueued
          BY <3>1, <4>1, <5>1
        <5>3. c # a
          BY <3>2, <4>1, <5>1
        <5>4. mem'[c].marked = mem[c].marked /\ mem'[c].enqueued = mem[c].enqueued
          BY <2>6, <2>7, <5>3
        <5>5. QED
          BY <5>1, <5>2, <5>4
      <4>2. CASE b = t
        <5>1. ~(b < h)
          BY <1>3, <2>13, <4>2
        <5>2. mem'[a].enqueued
          BY <2>6, <2>7
        <5>3. QED
          BY <2>3, <3>4, <4>2, <5>1, <5>2
      <4>3. QED
        BY <3>3, <3>5, <4>1, <4>2
    <3>6. ASSUME NEW b \in DOMAIN mem, NEW c \in DOMAIN mem, b < t1, c < t1,
                 mem'[b].fwd = mem'[c].fwd
          PROVE  b = c
      <4>1. CASE b < t /\ c < t
        BY <3>1, <3>4, <3>6, <4>1
      <4>2. CASE b < t /\ c = t
        BY <3>2, <3>4, <3>6, <4>2
      <4>3. CASE b = t /\ c < t
        BY <3>2, <3>4, <3>6, <4>3
      <4>4. QED
        BY <3>3, <3>6, <4>1, <4>2, <4>3
    <3>7. ASSUME NEW b \in DOMAIN mem, mem'[b].enqueued
          PROVE  \E c \in DOMAIN mem : h <= c /\ c < t1 /\ mem'[c].fwd = b
      <4>1. CASE b = a
        BY <2>12, <2>13, <3>4, <4>1
      <4>2. CASE b # a
        <5>1. mem[b].enqueued
          BY <2>6, <2>7, <3>7, <4>2
        <5>2. PICK c \in DOMAIN mem : h <= c /\ c < t /\ mem[c].fwd = b
          BY <3>1, <5>1
        <5>3. c < t1 /\ mem'[c].fwd = b
          BY <1>3, <2>12, <3>4, <5>2
        <5>4. QED
          BY <5>2, <5>3
      <4>3. QED
        BY <4>1, <4>2
    <3>8. tail' = t1 /\ head' = h
      BY <1>1, <2>5, <2>11, <2>13 DEF NextObject
    <3>9. Entries' = {b \in DOMAIN mem : b < t1}
          /\ Queue' = {b \in DOMAIN mem : h <= b /\ b < t1}
          /\ Ends' = DOMAIN mem \cup {heap.current}
      BY <1>1, <2>8, <3>8 DEF Entries, Queue, Ends
    <3>10. h <= t1
      BY <1>3, <2>12, <2>13
    <3>11. QED
      BY <2>8, <2>12, <2>13, <3>5, <3>6, <3>7, <3>8, <3>9, <3>10 DEF QInv
  <2>15. tail' \in Nat
    BY <2>5, <2>11, <2>12 DEF NextObject
  <2>16. QED
    BY <1>1, <1>2, <1>9, <1>10, <2>8, <2>10, <2>14, <2>15, MarkStepDone
<1>13. QED
  BY <1>11, <1>12

\* A step that leaves the heap and what is grey alone.
LEMMA NothingMarked ==
  ASSUME IInv, phase \in Marking,
         UNCHANGED <<mem, heap, stack, extra>>
  PROVE  /\ SameObjects(mem, mem') /\ Memory(mem')
         /\ RootSlots' = RootSlots /\ Live' = Live
         /\ \A i \in 1..(root - 1) : Grey(SlotValue(RootSlots[i]))'
         /\ \A b \in DOMAIN mem : \A n \in Nat : GreyFields(b, n) => GreyFields(b, n)'
<1>1. SameObjects(mem, mem') /\ Memory(mem')
  BY SameHeap
<1>2. Live' = Live
  BY <1>1, MarkFacts, SameStore
<1>3. QED
  BY <1>1, <1>2, GreysKept

\* All fields of the object have been looked at.
LEMMA FieldsDoneStep == IInv /\ FieldsDone => IInv'
<1> SUFFICES ASSUME IInv, FieldsDone PROVE IInv'
  OBVIOUS
<1>1. /\ phase = "fields" /\ fld > Len(mem[obj].fields)
      /\ phase' = "queue" /\ obj' = 0 /\ fld' = 0
      /\ UNCHANGED <<mem, heap, mapped, stack, extra, req, root, head, tail,
                     old, iter, free, nextId, snap>>
  BY DEF FieldsDone, compactVars
<1>2. phase \in Marking /\ Steady
  BY <1>1, ScanFacts
<1>3. /\ SameObjects(mem, mem') /\ Memory(mem')
      /\ RootSlots' = RootSlots /\ Live' = Live
      /\ \A i \in 1..(root - 1) : Grey(SlotValue(RootSlots[i]))'
      /\ \A b \in DOMAIN mem : \A n \in Nat : GreyFields(b, n) => GreyFields(b, n)'
  BY <1>1, <1>2, NothingMarked
<1>4. ASSUME NEW b \in DOMAIN mem, mem[b].marked
      PROVE  GreyFields(b, Len(mem[b].fields) + 1)'
  <2>1. PICK n \in Nat : n = Len(mem[b].fields) + 1
    BY <1>2, MarkFacts
  <2>2. GreyFields(b, IF b = obj THEN fld ELSE Len(mem[b].fields) + 1)
    BY <1>1, <1>4, ScanFacts
  <2>3. GreyFields(b, n)
    <3>1. CASE b # obj
      BY <2>1, <2>2, <3>1
    <3>2. CASE b = obj
      <4>1. PICK k \in Nat : k = fld
        BY <1>1, ScanFacts
      <4>2. \A i \in FirstField(mem[b])..Len(mem[b].fields) :
              i < k => Grey(mem[b].fields[i])
        BY <2>2, <3>2, <4>1 DEF GreyFields
      <4>3. \A i \in FirstField(mem[b])..Len(mem[b].fields) : i < k
        BY <1>1, <1>2, <3>2, <4>1, MarkFacts
      <4>4. QED
        BY <4>2, <4>3 DEF GreyFields
    <3>3. QED
      BY <3>1, <3>2
  <2>4. GreyFields(b, n)'
    BY <1>3, <2>3
  <2>5. QED
    BY <1>1, <2>1, <2>4
<1>5. MarkInv'
  <2>1. root' \in 1..(Len(RootSlots') + 1)
    BY <1>1, <1>2, <1>3, MarkFacts
  <2>2. \A b \in DOMAIN mem : /\ mem[b].marked \/ mem[b].enqueued => b \in Live
                              /\ ~(mem[b].marked /\ mem[b].enqueued)
    BY <1>2, MarkFacts
  <2>3. \A i \in 1..(root' - 1) : Grey(SlotValue(RootSlots[i]))'
    BY <1>1, <1>3
  <2>4. QED
    BY <1>1, <1>3, <1>4, <2>1, <2>2, <2>3 DEF MarkInv
<1>6. QInv'
  BY <1>1 DEF IInv, QInv, Entries, Queue, Ends
<1>7. CompactInv'
  BY <1>1 DEF CompactInv
<1>8. /\ phase' \in Marking /\ head' \in Nat /\ tail' \in Nat /\ root' \in Nat
      /\ obj' \in Nat /\ fld' \in Nat
  BY <1>1, <1>2, MarkFacts DEF Marking
<1>9. QED
  BY <1>1, <1>2, <1>3, <1>5, <1>6, <1>7, <1>8, MarkStepDone

\* With an empty queue no enqueued bit is set.
LEMMA QueueEmptyStep == IInv /\ QueueEmpty => IInv'
<1> SUFFICES ASSUME IInv, QueueEmpty PROVE IInv'
  OBVIOUS
<1>1. /\ phase = "queue" /\ head = tail
      /\ phase' = "roots" /\ head' = 0 /\ tail' = 0
      /\ UNCHANGED <<mem, heap, mapped, stack, extra, req, root, obj, fld,
                     old, iter, free, nextId, snap>>
  BY DEF QueueEmpty, compactVars
<1>2. phase \in Marking /\ Steady
  BY <1>1, MarkFacts DEF Marking
<1>3. /\ SameObjects(mem, mem') /\ Memory(mem')
      /\ RootSlots' = RootSlots /\ Live' = Live
      /\ \A i \in 1..(root - 1) : Grey(SlotValue(RootSlots[i]))'
      /\ \A b \in DOMAIN mem : \A n \in Nat : GreyFields(b, n) => GreyFields(b, n)'
  BY <1>1, <1>2, NothingMarked
<1>4. \A b \in DOMAIN mem : ~mem[b].enqueued
  <2>1. SUFFICES ASSUME NEW b \in DOMAIN mem, mem[b].enqueued PROVE FALSE
    OBVIOUS
  <2>2. PICK c \in DOMAIN mem : head <= c /\ c < tail
    BY <1>1, <2>1, QueueFacts
  <2>3. c \in Nat /\ head \in Nat
    BY <1>2, SteadyFacts, MarkFacts DEF Memory
  <2>4. QED
    BY <1>1, <2>2, <2>3
<1>5. ASSUME NEW b \in DOMAIN mem, mem[b].marked
      PROVE  GreyFields(b, Len(mem[b].fields) + 1)'
  <2>1. PICK n \in Nat : n = Len(mem[b].fields) + 1
    BY <1>2, MarkFacts
  <2>2. GreyFields(b, n)
    BY <1>1, <1>2, <1>5, <2>1 DEF IInv, MarkInv
  <2>3. GreyFields(b, n)'
    BY <1>3, <2>2
  <2>4. QED
    BY <1>1, <2>1, <2>3
<1>6. MarkInv'
  <2>1. root' \in 1..(Len(RootSlots') + 1)
    BY <1>1, <1>2, <1>3, MarkFacts
  <2>2. \A b \in DOMAIN mem : /\ mem[b].marked \/ mem[b].enqueued => b \in Live
                              /\ ~(mem[b].marked /\ mem[b].enqueued)
    BY <1>2, MarkFacts
  <2>3. \A i \in 1..(root' - 1) : Grey(SlotValue(RootSlots[i]))'
    BY <1>1, <1>3
  <2>4. QED
    BY <1>1, <1>3, <1>4, <1>5, <2>1, <2>2, <2>3 DEF MarkInv
<1>7. QInv' /\ CompactInv'
  BY <1>1 DEF QInv, CompactInv
<1>8. /\ phase' \in Marking /\ head' \in Nat /\ tail' \in Nat /\ root' \in Nat
      /\ obj' \in Nat /\ fld' \in Nat
  BY <1>1, <1>2, MarkFacts DEF Marking
<1>9. QED
  BY <1>1, <1>2, <1>3, <1>6, <1>7, <1>8, MarkStepDone

\* When all roots are marked, exactly what can be reached is marked.
LEMMA MarkedIsLive ==
  ASSUME IInv, phase = "roots", root > Len(RootSlots)
  PROVE  Marked = Live /\ \A a \in DOMAIN mem : ~mem[a].enqueued
<1>1. phase \in Marking /\ Steady
  BY MarkFacts DEF Marking
<1>2. \A a \in DOMAIN mem : ~mem[a].enqueued
  BY <1>1 DEF IInv, MarkInv
<1>3. Marked \subseteq Live
  BY <1>1, MarkFacts DEF Marked
<1>4. Held \subseteq Marked
  <2>1. SUFFICES ASSUME NEW b \in Held PROVE b \in Marked
    OBVIOUS
  <2>2. PICK s \in 2..Len(stack) : IsValidHeapPointer(stack[s]) /\ b = Target(heap, stack[s])
    BY <1>1, Edges
  <2>3. PICK i \in 1..Len(RootSlots) : RootSlots[i] = s
    BY <1>1, RootsOrder
  <2>4. i \in 1..(root - 1)
    BY <1>1, MarkFacts, RootsOrder
  <2>5. Grey(SlotValue(RootSlots[i]))
    BY <1>1, <2>4 DEF IInv, MarkInv
  <2>6. SlotValue(RootSlots[i]) = stack[s]
    <3>1. s # 0
      BY <1>1, SteadyFacts
    <3>2. QED
      BY <2>3, <3>1 DEF SlotValue
  <2>7. mem[b].marked \/ mem[b].enqueued
    BY <2>2, <2>5, <2>6 DEF Grey
  <2>8. b \in DOMAIN mem
    BY <1>1, Graph
  <2>9. QED
    BY <1>2, <2>7, <2>8 DEF Marked
<1>5. \A a \in Marked : Succ[a] \subseteq Marked
  <2>1. SUFFICES ASSUME NEW a \in Marked, NEW b \in Succ[a] PROVE b \in Marked
    OBVIOUS
  <2>2. a \in DOMAIN mem /\ mem[a].marked
    BY DEF Marked
  <2>3. PICK i \in FirstField(mem[a])..Len(mem[a].fields) :
          IsValidHeapPointer(mem[a].fields[i]) /\ b = Target(heap, mem[a].fields[i])
    BY <1>1, <2>2, Edges
  <2>4. GreyFields(a, Len(mem[a].fields) + 1)
    BY <1>1, <2>2 DEF IInv, MarkInv
  <2>5. i < Len(mem[a].fields) + 1
    BY <1>1, <2>2, MarkFacts
  <2>6. Grey(mem[a].fields[i])
    BY <2>4, <2>5 DEF GreyFields
  <2>7. mem[b].marked \/ mem[b].enqueued
    BY <2>3, <2>6 DEF Grey
  <2>8. b \in DOMAIN mem
    BY <1>1, <2>2, Graph
  <2>9. QED
    BY <1>2, <2>7, <2>8 DEF Marked
<1>6. Marked \in SUBSET DOMAIN mem
  BY DEF Marked
<1>7. Live \subseteq Marked
  BY <1>1, <1>4, <1>5, <1>6, Graph
<1>8. QED
  BY <1>2, <1>3, <1>7

\* After the last root the marked objects are the reachable ones.
LEMMA RootsDoneStep == IInv /\ RootsDone => IInv'
<1> SUFFICES ASSUME IInv, RootsDone PROVE IInv'
  OBVIOUS
<1>1. /\ phase = "roots" /\ root > Len(RootSlots)
      /\ phase' = "locate" /\ root' = 0
      /\ UNCHANGED <<mem, heap, mapped, stack, extra, req, head, tail, obj, fld,
                     old, iter, free, nextId, snap>>
  BY DEF RootsDone, compactVars
<1>2. phase \in Marking /\ Steady
  BY <1>1, MarkFacts DEF Marking
<1>3. SameObjects(mem, mem') /\ Memory(mem') /\ Live' = Live
  BY <1>1, <1>2, NothingMarked
<1>4. Marked = Live /\ \A a \in DOMAIN mem : ~mem[a].enqueued
  BY <1>1, MarkedIsLive
<1>5. iter = 0 /\ free = 0
  BY <1>1 DEF IInv, HeapInv
<1>6. 0 \in Ends
  <2>1. heap.current \in Nat /\ Tiled(mem, heap.current)
    BY <1>2, SteadyFacts
  <2>2. QED
    BY <2>1 DEF Tiled, Ends
<1>7. Located(mem, 0, 0)
  <2>1. \A a \in DOMAIN mem : ~(a < 0)
    BY <1>2, SteadyFacts DEF Memory
  <2>2. QED
    BY <2>1 DEF Located
<1>8. CompactInv'
  BY <1>1, <1>3, <1>4, <1>5, <1>6, <1>7 DEF CompactInv, Marked, Ends
<1>9. MarkInv' /\ QInv'
  BY <1>1 DEF MarkInv, QInv, Marking
<1>10. /\ phase' \in Marking \cup {"locate"} /\ head' \in Nat /\ tail' \in Nat
       /\ root' \in Nat /\ obj' \in Nat /\ fld' \in Nat
  BY <1>1, <1>2, MarkFacts
<1>11. QED
  BY <1>1, <1>2, <1>3, <1>8, <1>9, <1>10, MarkStepDone

---------------------------------------------------------------------------
(***************************************************************************)
(* The new places of the objects.                                          *)
(***************************************************************************)

\* A step of compute_locations.
LEMMA LocateStepDone ==
  ASSUME IInv, phase = "locate", phase' \in {"locate", "grow"},
         SameObjects(mem, mem'), Memory(mem'),
         UNCHANGED <<heap, mapped, stack, extra, req, root, head, tail, obj, fld,
                     old, nextId, snap>>,
         iter' \in Nat, free' \in Nat, phase' = "grow" => iter' = 0,
         CompactInv'
  PROVE  IInv'
<1>1. /\ Steady /\ phase \in InBuiltin /\ phase' \in InBuiltin /\ phase' \in Phases
      /\ phase' \notin {"run", "alloc", "retry", "update", "move", "exit", "fault",
                        "roots", "queue", "fields"}
  BY DEF Steady, InBuiltin, Phases
<1>2. /\ StoreStack' = StoreStack /\ StoreObjs' = StoreObjs
      /\ Tiled(mem', heap.current)
      /\ \A a \in DOMAIN mem : RefersTo(mem'[a], heap.begin, DOMAIN mem)
  BY <1>1, SameStore
<1>3. DOMAIN mem' = DOMAIN mem /\ \A a \in DOMAIN mem : mem'[a].id = mem[a].id
  BY DEF SameObjects
<1>4. Typed'
  BY <1>1 DEF IInv, Typed, Memory
<1>5. PagesInv'
  BY <1>1 DEF IInv, PagesInv, PagesOf
<1>6. StackInv'
  BY <1>1 DEF IInv, StackInv, Base, Operands
<1>7. HeapInv'
  <2>1. /\ \A a, b \in DOMAIN mem : mem[a].id = mem[b].id => a = b
        /\ \A a \in DOMAIN mem : 0 < mem[a].id /\ mem[a].id < nextId
        /\ heap.current <= heap.size
    BY <1>1 DEF IInv, HeapInv, Steady
  <2>2. QED
    BY <1>1, <1>2, <1>3, <2>1 DEF HeapInv
<1>8. Sound' /\ Clean'
  <2>1. \A s \in DOMAIN stack : stack[s] \in ValuesAt(heap.begin, DOMAIN mem)
    BY <1>1 DEF IInv, Sound, Steady
  <2>2. QED
    BY <1>1, <1>2, <1>3, <2>1 DEF Sound, Clean
<1>9. MarkInv' /\ QInv' /\ MoveInv'
  BY <1>1 DEF MarkInv, QInv, MoveInv, Marking
<1>10. SnapInv'
  <2>1. snap.stack = StoreStack /\ snap.objs = StoreObjs /\ SnapReach /\ SnapTyped
    BY DEF IInv, SnapInv
  <2>2. snap'.stack = StoreStack' /\ snap'.objs = StoreObjs' /\ SnapReach' /\ SnapTyped'
    BY <1>2, <2>1 DEF SnapReach, SnapTyped
  <2>3. QED
    BY <1>1, <2>2 DEF SnapInv
<1>11. QED
  BY <1>4, <1>5, <1>6, <1>7, <1>8, <1>9, <1>10 DEF IInv

\* The objects below lo that are marked.
Done(m, lo) == {a \in DOMAIN m : m[a].marked /\ a < lo}

\* Located in terms of the objects done.
LEMMA LocatedDone ==
  ASSUME NEW m, NEW lo, NEW end
  PROVE  Located(m, lo, end) <=>
           /\ end <= lo
           /\ \A a \in Done(m, lo) :
                /\ m[a].fwd <= a /\ m[a].fwd + Size(m[a]) <= end
                /\ m[a].fwd + Size(m[a]) \in {m[b].fwd : b \in Done(m, lo)} \cup {end}
           /\ \A a, b \in Done(m, lo) : a < b => m[a].fwd + Size(m[a]) <= m[b].fwd
           /\ end > 0 => \E a \in Done(m, lo) : m[a].fwd = 0
BY DEF Located, Done

\* A garbage object takes no place.
LEMMA LocatedGarbage ==
  ASSUME NEW m, NEW cur \in Nat, Memory(m), Tiled(m, cur), NEW lo \in DOMAIN m,
         NEW end \in Nat, Located(m, lo, end), ~m[lo].marked
  PROVE  Located(m, lo + Size(m[lo]), end)
<1>1. /\ lo \in Nat /\ lo + Size(m[lo]) \in Nat /\ lo < lo + Size(m[lo])
      /\ \A b \in DOMAIN m : b < lo + Size(m[lo]) <=> b <= lo
  BY NextTile
<1>2. PICK lo1 \in Nat : lo1 = lo + Size(m[lo])
  BY <1>1
<1>3. \A b \in DOMAIN m : b \in Nat
  BY DEF Memory
<1>4. \A b \in DOMAIN m : m[b].marked => (b < lo1 <=> b < lo)
  BY <1>1, <1>2, <1>3
<1>5. Done(m, lo1) = Done(m, lo)
  BY <1>4 DEF Done
<1>6. end <= lo1
  BY <1>1, <1>2, LocatedDone
<1>7. Located(m, lo1, end)
  BY <1>5, <1>6, LocatedDone
<1>8. QED
  BY <1>2, <1>7

\* An object that is marked takes the next place.
LEMMA LocatedNext ==
  ASSUME NEW m, NEW cur \in Nat, Memory(m), Tiled(m, cur), NEW lo \in DOMAIN m,
         NEW end \in Nat, Located(m, lo, end), m[lo].marked,
         NEW n, SameObjects(m, n), n[lo].fwd = end,
         \A a \in DOMAIN m : n[a].marked = m[a].marked,
         \A a \in DOMAIN m : a # lo => n[a].fwd = m[a].fwd
  PROVE  /\ Located(n, lo + Size(m[lo]), end + Size(m[lo]))
         /\ end + Size(m[lo]) \in Nat
<1>1. /\ lo \in Nat /\ lo + Size(m[lo]) \in Nat /\ lo < lo + Size(m[lo])
      /\ \A b \in DOMAIN m : b < lo + Size(m[lo]) <=> b <= lo
  BY NextTile
<1>2. PICK lo1 \in Nat : lo1 = lo + Size(m[lo])
  BY <1>1
<1>3. \A b \in DOMAIN m : b \in Nat /\ m[b].fwd \in Nat /\ Size(m[b]) \in Nat
                          /\ Size(n[b]) = Size(m[b]) /\ Size(m[b]) >= 2
  BY ObjectFields, SameSizes, SMTT(30) DEF Memory
<1>4. PICK end1 \in Nat : end1 = end + Size(m[lo]) /\ end1 > end
  <2>1. end + Size(m[lo]) \in Nat /\ end + Size(m[lo]) > end
    BY <1>3
  <2>2. QED
    BY <2>1
<1>5. DOMAIN n = DOMAIN m
  BY DEF SameObjects
<1>6. \A b \in DOMAIN m : m[b].marked => (b < lo1 <=> b < lo \/ b = lo)
  BY <1>1, <1>2, <1>3
<1>7. Done(n, lo1) = Done(m, lo) \cup {lo}
  BY <1>5, <1>6 DEF Done
<1>8. PICK D : D = Done(m, lo)
  OBVIOUS
<1>9. /\ \A a \in D : a \in DOMAIN m /\ a # lo /\ a < lo /\ a \in Nat
      /\ \A a \in D : n[a].fwd = m[a].fwd /\ Size(n[a]) = Size(m[a])
      /\ \A a \in D : m[a].fwd \in Nat /\ Size(m[a]) \in Nat
  BY <1>1, <1>3, <1>8 DEF Done
<1>10. /\ end <= lo
       /\ \A a \in D : /\ m[a].fwd <= a /\ m[a].fwd + Size(m[a]) <= end
                       /\ m[a].fwd + Size(m[a]) \in {m[b].fwd : b \in D} \cup {end}
       /\ \A a, b \in D : a < b => m[a].fwd + Size(m[a]) <= m[b].fwd
       /\ end > 0 => \E a \in D : m[a].fwd = 0
  BY <1>8, LocatedDone
<1>11. PICK E : E = D \cup {lo}
  OBVIOUS
<1>12. {n[b].fwd : b \in E} = {m[b].fwd : b \in D} \cup {end}
  BY <1>9, <1>11
<1>13. n[lo].fwd + Size(n[lo]) = end1
  BY <1>3, <1>4
<1>14. \A a \in E : /\ n[a].fwd <= a /\ n[a].fwd + Size(n[a]) <= end1
                    /\ n[a].fwd + Size(n[a]) \in {n[b].fwd : b \in E} \cup {end1}
  <2>1. ASSUME NEW a \in D
        PROVE  /\ n[a].fwd <= a /\ n[a].fwd + Size(n[a]) <= end1
               /\ n[a].fwd + Size(n[a]) \in {n[b].fwd : b \in E} \cup {end1}
    <3>1. n[a].fwd <= a /\ n[a].fwd + Size(n[a]) <= end1
      BY <1>4, <1>9, <1>10
    <3>2. n[a].fwd + Size(n[a]) \in {m[b].fwd : b \in D} \cup {end}
      BY <1>9, <1>10
    <3>3. QED
      BY <1>12, <3>1, <3>2
  <2>2. /\ n[lo].fwd <= lo /\ n[lo].fwd + Size(n[lo]) <= end1
        /\ n[lo].fwd + Size(n[lo]) \in {n[b].fwd : b \in E} \cup {end1}
    BY <1>4, <1>10, <1>13
  <2>3. QED
    BY <1>11, <2>1, <2>2
<1>15. \A a, b \in E : a < b => n[a].fwd + Size(n[a]) <= n[b].fwd
  <2>1. ASSUME NEW a \in E, NEW b \in E, a < b PROVE n[a].fwd + Size(n[a]) <= n[b].fwd
    <3>1. a \in D
      <4>1. CASE a = lo
        BY <1>1, <1>9, <1>11, <2>1, <4>1
      <4>2. QED
        BY <1>11, <4>1
    <3>2. CASE b \in D
      BY <1>9, <1>10, <2>1, <3>1, <3>2
    <3>3. CASE b = lo
      BY <1>9, <1>10, <3>1, <3>3
    <3>4. QED
      BY <1>11, <3>2, <3>3
  <2>2. QED
    BY <2>1
<1>16. \E a \in E : n[a].fwd = 0
  <2>1. CASE end > 0
    BY <1>9, <1>10, <1>11, <2>1
  <2>2. CASE end = 0
    BY <1>11, <2>2
  <2>3. QED
    BY <2>1, <2>2
<1>17. end1 <= lo1
  BY <1>1, <1>2, <1>3, <1>4, <1>10
<1>18. Done(n, lo1) = E
  BY <1>7, <1>8, <1>11
<1>19. Located(n, lo1, end1)
  BY <1>14, <1>15, <1>16, <1>17, <1>18, LocatedDone
<1>20. QED
  BY <1>2, <1>4, <1>19

\* The forward address of one object changes.
MovedTo(m, a, f) == [m EXCEPT ![a].fwd = f]

\* compute_locations changes one forward address.
LEMMA ForwardedObjects ==
  ASSUME NEW m, Memory(m), NEW a \in DOMAIN m, NEW f \in Nat, NEW n, n = MovedTo(m, a, f)
  PROVE  /\ SameObjects(m, n) /\ Memory(n) /\ n[a].fwd = f
         /\ \A b \in DOMAIN m : n[b].marked = m[b].marked /\ n[b].enqueued = m[b].enqueued
         /\ \A b \in DOMAIN m : b # a => n[b].fwd = m[b].fwd
<1>1. \A b \in DOMAIN m : m[b] \in ObjectType
  BY DEF Memory
<1>2. /\ DOMAIN n = DOMAIN m /\ n[a] = [m[a] EXCEPT !.fwd = f]
      /\ \A b \in DOMAIN m : b # a => n[b] = m[b]
  BY DEF MovedTo
<1>3. /\ n[a] \in ObjectType /\ n[a].id = m[a].id /\ n[a].kind = m[a].kind
      /\ n[a].fields = m[a].fields /\ n[a].fwd = f /\ n[a].enqueued = m[a].enqueued
      /\ n[a].marked = m[a].marked
  BY <1>1, <1>2 DEF ObjectType
<1>4. SameObjects(m, n)
  BY <1>2, <1>3 DEF SameObjects
<1>5. n = [b \in DOMAIN n |-> n[b]]
  BY DEF MovedTo
<1>6. Memory(n)
  <2>1. \A b \in DOMAIN n : n[b] \in ObjectType
    BY <1>1, <1>2, <1>3
  <2>2. DOMAIN n \subseteq Nat
    BY <1>2 DEF Memory
  <2>3. QED
    BY <1>5, <2>1, <2>2 DEF Memory
<1>7. QED
  BY <1>2, <1>3, <1>4, <1>6

\* A marked object gets the next free place, which is not above its own.
LEMMA LocateStep == IInv /\ Locate => IInv'
<1> SUFFICES ASSUME IInv, Locate PROVE IInv'
  OBVIOUS
<1>1. /\ phase = "locate" /\ iter < heap.current /\ phase' = phase
      /\ iter' = NextObject(iter)
      /\ UNCHANGED <<heap, mapped, stack, extra, req, root, head, tail, obj, fld,
                     old, nextId, snap>>
  BY DEF Locate, MoreObjects, markVars
<1>2. Steady
  BY <1>1 DEF Steady
<1>3. /\ heap.current \in Nat /\ Memory(mem) /\ Tiled(mem, heap.current)
  BY <1>2, SteadyFacts
<1>4. /\ Marked = Live /\ \A a \in DOMAIN mem : ~mem[a].enqueued
      /\ iter \in Ends /\ Located(mem, iter, free)
  BY <1>1 DEF IInv, CompactInv
<1>5. PICK t \in DOMAIN mem : t = iter /\ Located(mem, t, free)
  <2>1. iter \in Nat
    BY DEF IInv, Typed
  <2>2. iter # heap.current
    BY <1>1, <1>3, <2>1
  <2>3. QED
    BY <1>4, <2>2 DEF Ends
<1>6. PICK e \in Nat : e = free
  BY DEF IInv, Typed
<1>7. PICK t1 : t1 = t + Size(mem[t])
  OBVIOUS
<1>8. t1 \in Nat /\ t1 \in DOMAIN mem \cup {heap.current}
  BY <1>3, <1>7, NextTile
<1>9. iter' = t1
  BY <1>1, <1>5, <1>7 DEF NextObject
<1>10. ASSUME NEW e1 \in Nat, free' = e1, SameObjects(mem, mem'), Memory(mem'),
              \A b \in DOMAIN mem : mem'[b].marked = mem[b].marked
                                    /\ mem'[b].enqueued = mem[b].enqueued,
              Located(mem', t1, e1)
       PROVE  IInv'
  <2>1. Live' = Live
    BY <1>1, <1>2, <1>10, SameStore
  <2>2. DOMAIN mem' = DOMAIN mem
    BY <1>10 DEF SameObjects
  <2>3. Marked' = Marked
    BY <1>10, <2>2 DEF Marked
  <2>4. \A a \in DOMAIN mem' : ~mem'[a].enqueued
    BY <1>4, <1>10, <2>2
  <2>5. iter' \in Ends'
    BY <1>1, <1>8, <1>9, <2>2 DEF Ends
  <2>6. CompactInv'
    BY <1>1, <1>4, <1>9, <1>10, <2>1, <2>3, <2>4, <2>5 DEF CompactInv
  <2>7. QED
    BY <1>1, <1>8, <1>9, <1>10, <2>6, LocateStepDone
<1>11. CASE mem[t].marked
  <2>1. mem' = MovedTo(mem, t, e) /\ free' = e + Size(mem[t])
    BY <1>5, <1>6, <1>11 DEF Locate, MovedTo
  <2>2. PICK n : n = mem'
    OBVIOUS
  <2>3. /\ SameObjects(mem, n) /\ Memory(n) /\ n[t].fwd = e
        /\ \A b \in DOMAIN mem : n[b].marked = mem[b].marked /\ n[b].enqueued = mem[b].enqueued
        /\ \A b \in DOMAIN mem : b # t => n[b].fwd = mem[b].fwd
    BY <1>3, <2>1, <2>2, ForwardedObjects
  <2>4. PICK e1 : e1 = e + Size(mem[t])
    OBVIOUS
  <2>5. Located(n, t1, e1) /\ e1 \in Nat
    <3>1. Located(mem, t, e)
      BY <1>5, <1>6
    <3>2. QED
      BY <1>3, <1>7, <1>11, <2>3, <2>4, <3>1, LocatedNext
  <2>6. QED
    BY <1>10, <2>1, <2>2, <2>3, <2>4, <2>5
<1>12. CASE ~mem[t].marked
  <2>1. mem' = mem /\ free' = e
    BY <1>5, <1>6, <1>12 DEF Locate
  <2>2. Located(mem, t1, e)
    <3>1. Located(mem, t, e)
      BY <1>5, <1>6
    <3>2. QED
      BY <1>3, <1>7, <1>12, <3>1, LocatedGarbage
  <2>3. SameObjects(mem, mem') /\ Memory(mem')
    BY <2>1, SameHeap
  <2>4. QED
    BY <1>10, <2>1, <2>2, <2>3
<1>13. QED
  BY <1>11, <1>12

\* When the iterator reaches current every marked object has its place.
LEMMA LocateDoneStep == IInv /\ LocateDone => IInv'
<1> SUFFICES ASSUME IInv, LocateDone PROVE IInv'
  OBVIOUS
<1>1. /\ phase = "locate" /\ ~(iter < heap.current) /\ phase' = "grow" /\ iter' = 0
      /\ UNCHANGED <<mem, heap, mapped, stack, extra, req, root, head, tail, obj, fld,
                     old, free, nextId, snap>>
  BY DEF LocateDone, MoreObjects, markVars
<1>2. Steady
  BY <1>1 DEF Steady
<1>3. /\ heap.current \in Nat /\ Memory(mem) /\ Tiled(mem, heap.current)
  BY <1>2, SteadyFacts
<1>4. /\ Marked = Live /\ \A a \in DOMAIN mem : ~mem[a].enqueued
      /\ iter \in Ends /\ Located(mem, iter, free)
  BY <1>1 DEF IInv, CompactInv
<1>5. iter = heap.current
  <2>1. iter \in DOMAIN mem => iter < heap.current
    BY <1>3, NextTile
  <2>2. QED
    BY <1>1, <1>4, <2>1 DEF Ends
<1>6. SameObjects(mem, mem') /\ Memory(mem')
  BY <1>1, SameHeap
<1>7. Live' = Live /\ Marked' = Marked
  BY <1>1, <1>2, <1>6, SameStore DEF Marked
<1>8. CompactInv'
  BY <1>1, <1>4, <1>5, <1>7 DEF CompactInv
<1>9. free' \in Nat
  BY <1>1 DEF IInv, Typed
<1>10. QED
  BY <1>1, <1>6, <1>8, <1>9, LocateStepDone

---------------------------------------------------------------------------
(***************************************************************************)
(* The next heap.                                                          *)
(***************************************************************************)

\* It is large enough for the old one, and for the survivors and the request.
LEMMA RoomInNextHeap ==
  ASSUME NEW f \in Nat, NEW w \in Nat, NEW s \in Nat, NEW m \in Nat, NEW n,
         n = Larger(Larger(f * ExtraRoom + w, m), s)
  PROVE  n \in Nat /\ s <= n /\ f + w <= n
<1>1. PICK x \in Nat : x = f * ExtraRoom + w /\ f + w <= x
  <2>1. f * ExtraRoom + w \in Nat /\ f + w <= f * ExtraRoom + w
    BY DEF ExtraRoom
  <2>2. QED
    BY <2>1
<1>2. PICK y \in Nat : y = Larger(x, m) /\ x <= y
  <2>1. Larger(x, m) \in Nat /\ x <= Larger(x, m)
    BY DEF Larger
  <2>2. QED
    BY <2>1
<1>3. Larger(y, s) \in Nat /\ y <= Larger(y, s) /\ s <= Larger(y, s)
  BY DEF Larger
<1>4. n = Larger(y, s)
  BY <1>1, <1>2
<1>5. QED
  BY <1>1, <1>2, <1>3, <1>4

\* What holds when the next heap is mapped.
LEMMA GrowFacts ==
  ASSUME IInv, phase = "grow"
  PROVE  /\ Steady /\ Marked = Live /\ (\A a \in DOMAIN mem : ~mem[a].enqueued)
         /\ Located(mem, heap.current, free) /\ iter = 0 /\ free \in Nat
         /\ Words(req) \in Nat /\ NextHeapSize \in Nat
         /\ heap.size <= NextHeapSize /\ free + Words(req) <= NextHeapSize
<1>1. /\ Steady /\ Marked = Live /\ (\A a \in DOMAIN mem : ~mem[a].enqueued)
      /\ Located(mem, heap.current, free) /\ iter = 0
  BY DEF IInv, CompactInv, HeapInv, Steady
<1>2. free \in Nat /\ req.n \in Nat /\ heap.size \in Nat
  BY HeapFacts DEF IInv, Typed
<1>3. Words(req) \in Nat
  BY <1>2 DEF Words, Hdr
<1>4. PICK n : n = NextHeapSize
  OBVIOUS
<1>5. n = Larger(Larger(free * ExtraRoom + Words(req), MinHeap), heap.size)
  BY <1>4 DEF NextHeapSize
<1>6. MinHeap \in Nat
  BY BoundsAssumption
<1>7. n \in Nat /\ heap.size <= n /\ free + Words(req) <= n
  BY <1>2, <1>3, <1>5, <1>6, RoomInNextHeap
<1>8. QED
  BY <1>1, <1>2, <1>3, <1>4, <1>7

\* A value that the program holds, once only what can be reached counts.
LEMMA HeldMarked ==
  ASSUME IInv, Steady, Marked = Live, stack[1] \in {0, Unboxed}
  PROVE  /\ \A s \in DOMAIN stack : stack[s] \in ValuesAt(heap.begin, Marked)
         /\ \A a \in Marked : RefersTo(mem[a], heap.begin, Marked)
<1>1. ASSUME NEW s \in DOMAIN stack PROVE stack[s] \in ValuesAt(heap.begin, Marked)
  <2>1. CASE s = 1
    BY <2>1 DEF ValuesAt
  <2>2. CASE s # 1
    <3>1. s \in 2..Len(stack) /\ stack[s] \in Known
      BY <2>2, SteadyFacts, ElementOfSeq
    <3>2. CASE IsValidHeapPointer(stack[s])
      <4>1. Target(heap, stack[s]) \in Marked
        BY <3>1, <3>2, Edges, Graph
      <4>2. stack[s] = heap.begin + Hdr + Target(heap, stack[s])
        BY <3>1, <3>2, KnownCases
      <4>3. QED
        BY <4>1, <4>2 DEF ValuesAt
    <3>3. CASE ~IsValidHeapPointer(stack[s])
      <4>1. stack[s] \in {0, Unboxed}
        BY <3>1, <3>3, KnownCases
      <4>2. QED
        BY <4>1 DEF ValuesAt
    <3>4. QED
      BY <3>2, <3>3
  <2>3. QED
    BY <2>1, <2>2
<1>2. ASSUME NEW a \in Marked, NEW i \in FirstField(mem[a])..Len(mem[a].fields)
      PROVE  mem[a].fields[i] \in ValuesAt(heap.begin, Marked)
  <2>1. a \in DOMAIN mem /\ a \in Live
    BY DEF Marked
  <2>2. PICK v \in Known : v = mem[a].fields[i]
    BY <2>1, ReferencesOf
  <2>3. CASE IsValidHeapPointer(v)
    <3>1. Target(heap, v) \in Marked
      BY <2>1, <2>2, <2>3, Edges, Graph
    <3>2. v = heap.begin + Hdr + Target(heap, v)
      BY <2>3, KnownCases
    <3>3. QED
      BY <2>2, <3>1, <3>2 DEF ValuesAt
  <2>4. CASE ~IsValidHeapPointer(v)
    <3>1. v \in {0, Unboxed}
      BY <2>4, KnownCases
    <3>2. QED
      BY <2>2, <3>1 DEF ValuesAt
  <2>5. QED
    BY <2>3, <2>4
<1>3. QED
  BY <1>1, <1>2 DEF RefersTo

\* What a value of the old heap is in the snapshot.
Was(m, begin, v, w) ==
  \/ v \in {0, Unboxed} /\ w = v
  \/ \E a \in DOMAIN m : m[a].marked /\ v = begin + Hdr + a /\ w = m[a].id

\* A reference of the store is one of the snapshot.
LEMMA StoreWas ==
  ASSUME IInv, Steady, Marked = Live, NEW v \in ValuesAt(heap.begin, Marked)
  PROVE  Was(mem, heap.begin, v, AbsValue(v))
<1>1. v \in Known
  BY MoreValues DEF Known, Marked
<1>2. CASE v \in {0, Unboxed}
  BY <1>1, <1>2, KnownCases DEF Was
<1>3. CASE v \notin {0, Unboxed}
  <2>1. PICK a \in Marked : v = heap.begin + Hdr + a
    BY <1>3 DEF ValuesAt
  <2>2. a \in DOMAIN mem /\ mem[a].marked /\ a \in Nat
    BY <2>1, ReferencesOf DEF Marked
  <2>3. Target(heap, v) = a
    BY <2>1, <2>2, SteadyFacts DEF Target, Hdr
  <2>4. AbsValue(v) = mem[a].id
    BY <1>1, <1>3, <2>3, KnownCases
  <2>5. QED
    BY <2>1, <2>2, <2>4 DEF Was
<1>4. QED
  BY <1>2, <1>3

\* The snapshot, when nothing has moved yet.
LEMMA SnapshotIsOld ==
  ASSUME IInv, Steady, Marked = Live, stack[1] \in {0, Unboxed}
  PROVE  /\ Len(StoreStack) = Len(stack)
         /\ \A s \in DOMAIN stack : Was(mem, heap.begin, stack[s], StoreStack[s])
         /\ \A a \in Marked : LET x == AbsObject(mem[a]) IN
              /\ x \in StoreObjs /\ SameShape(mem[a], x)
              /\ \A i \in FirstField(mem[a])..Len(mem[a].fields) :
                   Was(mem, heap.begin, mem[a].fields[i], x.fields[i])
         /\ \A x \in StoreObjs : \E a \in Marked : x = AbsObject(mem[a])
<1>1. Len(StoreStack) = Len(stack)
  BY StoreTyped
<1>2. ASSUME NEW s \in DOMAIN stack PROVE Was(mem, heap.begin, stack[s], StoreStack[s])
  <2>1. stack[s] \in ValuesAt(heap.begin, Marked)
    BY HeldMarked
  <2>2. StoreStack[s] = AbsValue(stack[s])
    BY DEF StoreStack
  <2>3. QED
    BY <2>1, <2>2, StoreWas
<1>3. ASSUME NEW a \in Marked, NEW x, x = AbsObject(mem[a])
      PROVE  /\ x \in StoreObjs /\ SameShape(mem[a], x)
             /\ \A i \in FirstField(mem[a])..Len(mem[a].fields) :
                  Was(mem, heap.begin, mem[a].fields[i], x.fields[i])
  <2>1. a \in DOMAIN mem /\ x \in StoreObjs
    BY <1>3 DEF Marked, StoreObjs
  <2>2. PICK l \in Nat : l = Len(mem[a].fields) /\ DOMAIN mem[a].fields = 1..l
    BY <2>1, ReferencesOf, ObjectFields
  <2>3. /\ x.id = mem[a].id /\ x.kind = mem[a].kind
        /\ Len(x.fields) = l
        /\ FirstField(mem[a]) \in Nat \ {0}
        /\ \A i \in 1..l :
             x.fields[i] = IF i >= FirstField(mem[a]) THEN AbsValue(mem[a].fields[i])
                                                      ELSE mem[a].fields[i]
    BY <1>3, <2>1, <2>2, AbsObjects
  <2>4. SameShape(mem[a], x)
    <3>1. \A i \in 1..l : i < FirstField(mem[a]) => x.fields[i] = mem[a].fields[i]
      BY <2>3
    <3>2. QED
      BY <2>2, <2>3, <3>1 DEF SameShape
  <2>5. ASSUME NEW i \in FirstField(mem[a])..Len(mem[a].fields)
        PROVE  Was(mem, heap.begin, mem[a].fields[i], x.fields[i])
    <3>1. i \in 1..l /\ i >= FirstField(mem[a])
      BY <2>2, <2>3
    <3>2. x.fields[i] = AbsValue(mem[a].fields[i])
      BY <2>3, <3>1
    <3>3. mem[a].fields[i] \in ValuesAt(heap.begin, Marked)
      BY <2>5, HeldMarked DEF RefersTo
    <3>4. QED
      BY <3>2, <3>3, StoreWas
  <2>6. QED
    BY <2>1, <2>4, <2>5
<1>4. \A x \in StoreObjs : \E a \in Marked : x = AbsObject(mem[a])
  BY DEF StoreObjs
<1>5. QED
  BY <1>1, <1>2, <1>3, <1>4

\* mmap finds pages that are not mapped; the objects and their distances from
\* the begin of the heap are the same in the copy, whose references still lead
\* into the old heap.
LEMMA GrowStep == IInv /\ Grow => IInv'
<1> SUFFICES ASSUME IInv, Grow PROVE IInv'
  OBVIOUS
<1>1. /\ phase = "grow" /\ phase' = "update" /\ old' = heap
      /\ UNCHANGED <<mem, stack, extra, req, root, head, tail, obj, fld, iter, free,
                     nextId, snap>>
  BY DEF Grow, markVars
<1>2. PICK p \in Bases :
        /\ heap' = [begin |-> p * PageWords, size |-> NextHeapSize,
                    current |-> heap.current]
        /\ mapped' = mapped \cup Pages(p, NextHeapSize)
  BY DEF Grow
<1>3. /\ Steady /\ Marked = Live /\ (\A a \in DOMAIN mem : ~mem[a].enqueued)
      /\ Located(mem, heap.current, free) /\ iter = 0 /\ free \in Nat
      /\ Words(req) \in Nat /\ NextHeapSize \in Nat
      /\ heap.size <= NextHeapSize /\ free + Words(req) <= NextHeapSize
  BY <1>1, GrowFacts
<1>4. PICK c \in Nat : c = heap.current /\ c <= heap.size
  BY HeapFacts
<1>5. PICK z \in Nat : z = NextHeapSize /\ heap.size \in Nat
  BY <1>3, HeapFacts
<1>6. PICK b \in Nat \ {0} : b = p * PageWords
  <2>1. p \in Nat \ {0} /\ PageWords \in Nat \ {0}
    BY BoundsAssumption DEF Bases
  <2>2. QED
    BY <2>1, Positive
<1>7. heap'.begin = b /\ heap'.size = z /\ heap'.current = c /\ heap' \in ChunkType
  BY <1>2, <1>4, <1>5, <1>6 DEF ChunkType
<1>8. p \in Nat \ {0} /\ Pages(p, z) \subseteq 1..NPages /\ Pages(p, z) \cap mapped = {}
  BY <1>5, BoundsAssumption DEF Bases
<1>9. phase' \in InBuiltin /\ phase' \in Phases /\ phase \in InBuiltin
  BY <1>1 DEF InBuiltin, Phases
<1>10. Typed'
  BY <1>1, <1>7, <1>9 DEF IInv, Typed
<1>11. PagesInv'
  <2>1. (p * PageWords) \div PageWords = p
    BY <1>8, BoundsAssumption, PageOfBegin
  <2>2. heap'.begin \div PageWords = p
    BY <1>6, <1>7, <2>1
  <2>3. PagesOf(heap)' = Pages(p, z)
    BY <1>7, <2>2 DEF PagesOf
  <2>4. PagesOf(old)' = PagesOf(heap)
    BY <1>1 DEF PagesOf
  <2>5. PagesOf(heap) \subseteq mapped /\ mapped \subseteq 1..NPages
    BY DEF IInv, PagesInv
  <2>6. PICK q \in Nat \ {0} : heap.begin = q * PageWords
    BY DEF IInv, PagesInv
  <2>7. PagesOf(old)' \cap PagesOf(heap)' = {}
    BY <1>8, <2>3, <2>4, <2>5
  <2>8. mapped' \subseteq 1..NPages /\ PagesOf(heap)' \subseteq mapped'
    BY <1>2, <1>5, <1>8, <2>3, <2>5
  <2>9. heap'.begin = p * PageWords /\ old'.begin = q * PageWords
    BY <1>1, <1>6, <1>7, <2>6
  <2>10. QED
    BY <1>8, <2>7, <2>8, <2>9 DEF PagesInv
<1>12. StackInv'
  BY <1>1, <1>9 DEF IInv, StackInv, Base, Operands
<1>13. HeapInv'
  <2>1. /\ Tiled(mem, c) /\ \A a, d \in DOMAIN mem : mem[a].id = mem[d].id => a = d
        /\ \A a \in DOMAIN mem : 0 < mem[a].id /\ mem[a].id < nextId
    BY <1>1, <1>4 DEF IInv, HeapInv
  <2>2. c <= z
    BY <1>3, <1>4, <1>5
  <2>3. QED
    BY <1>1, <1>7, <2>1, <2>2 DEF HeapInv
<1>14. Sound' /\ Clean' /\ MarkInv' /\ QInv' /\ MoveInv'
  BY <1>1 DEF Sound, Clean, MarkInv, QInv, MoveInv, Marking
<1>15. stack[1] \in {0, Unboxed}
  BY DEF IInv, StackInv
<1>16. CompactInv'
  <2>1. iter' \in Ends'
    <3>1. Tiled(mem, c)
      BY <1>1, <1>4 DEF IInv, HeapInv
    <3>2. 0 \in DOMAIN mem \cup {c}
      BY <3>1 DEF Tiled
    <3>3. QED
      BY <1>1, <1>3, <1>7, <3>2 DEF Ends
  <2>2. Marked' = Marked
    BY <1>1 DEF Marked
  <2>3. /\ \A s \in DOMAIN stack : stack[s] \in ValuesAt(heap.begin, Marked)
        /\ \A a \in Marked : RefersTo(mem[a], heap.begin, Marked)
    BY <1>3, <1>15, HeldMarked
  <2>4. \A a \in Marked : ~(a < iter')
    <3>1. \A a \in Marked : a \in Nat
      BY HeapFacts DEF Marked, Memory
    <3>2. QED
      BY <1>1, <1>3, <3>1
  <2>5. Words(req)' = Words(req)
    BY <1>1 DEF Words
  <2>6. free' + Words(req)' <= heap'.size /\ old'.current = heap'.current
    BY <1>1, <1>3, <1>4, <1>5, <1>7, <2>5
  <2>7. Located(mem', heap'.current, free')
    BY <1>1, <1>3, <1>4, <1>7
  <2>8. QED
    BY <1>1, <1>3, <2>1, <2>2, <2>3, <2>4, <2>6, <2>7 DEF CompactInv
<1>17. SnapInv'
  <2>1. snap.stack = StoreStack /\ snap.objs = StoreObjs /\ SnapReach /\ SnapTyped
    BY <1>1 DEF IInv, SnapInv
  <2>2. SnapReach' /\ SnapTyped'
    BY <1>1, <2>1 DEF SnapReach, SnapTyped
  <2>3. \A v, w : BecomesOld(mem, v, w)' <=> Was(mem, heap.begin, v, w)
    BY <1>1 DEF BecomesOld, Was
  <2>4. /\ Len(StoreStack) = Len(stack)
        /\ \A s \in DOMAIN stack : Was(mem, heap.begin, stack[s], StoreStack[s])
        /\ \A a \in Marked : LET x == AbsObject(mem[a]) IN
              /\ x \in StoreObjs /\ SameShape(mem[a], x)
              /\ \A i \in FirstField(mem[a])..Len(mem[a].fields) :
                   Was(mem, heap.begin, mem[a].fields[i], x.fields[i])
        /\ \A x \in StoreObjs : \E a \in Marked : x = AbsObject(mem[a])
    BY <1>3, <1>15, SnapshotIsOld
  <2>5. ASSUME NEW a \in Marked, NEW x, x = AbsObject(mem[a])
        PROVE  x \in StoreObjs /\ IsOld(mem, mem[a], x)'
    <3>1. /\ x \in StoreObjs /\ SameShape(mem[a], x)
          /\ \A i \in FirstField(mem[a])..Len(mem[a].fields) :
                Was(mem, heap.begin, mem[a].fields[i], x.fields[i])
      BY <2>4, <2>5
    <3>2. \A i \in FirstField(mem[a])..Len(mem[a].fields) :
             BecomesOld(mem, mem[a].fields[i], x.fields[i])'
      BY <1>1, <2>3, <3>1 DEF BecomesOld, Was
    <3>3. QED
      BY <1>1, <3>1, <3>2 DEF IsOld
  <2>6. \A a \in Marked : ~(a < iter')
    <3>1. \A a \in Marked : a \in Nat
      BY HeapFacts DEF Marked, Memory
    <3>2. QED
      BY <1>1, <1>3, <3>1
  <2>7. Marked' = Marked
    BY <1>1 DEF Marked
  <2>8. \A s \in DOMAIN stack : BecomesOld(mem, stack[s], snap.stack[s])'
    BY <1>1, <2>1, <2>4 DEF BecomesOld, Was
  <2>9. \A a \in Marked : \E x \in StoreObjs : IsOld(mem, mem[a], x)'
    BY <2>5
  <2>10. \A x \in StoreObjs : \E a \in Marked : IsOld(mem, mem[a], x)'
    BY <2>4, <2>5
  <2>11. QED
    BY <1>1, <2>1, <2>2, <2>4, <2>6, <2>7, <2>8, <2>9, <2>10 DEF SnapInv, Marking
<1>18. QED
  BY <1>10, <1>11, <1>12, <1>13, <1>14, <1>16, <1>17 DEF IInv

\* mmap fails, and the process ends.
LEMMA GrowFaultStep == IInv /\ GrowFault => IInv'
<1> SUFFICES ASSUME IInv, GrowFault PROVE IInv'
  OBVIOUS
<1>1. /\ phase = "grow" /\ phase' = "fault"
      /\ UNCHANGED <<mem, heap, mapped, stack, extra, req, root, head, tail, obj, fld,
                     old, iter, free, nextId, snap>>
  BY DEF GrowFault, markVars, compactVars
<1>2. Typed'
  BY <1>1 DEF IInv, Typed, Phases
<1>3. PagesInv'
  BY <1>1 DEF IInv, PagesInv, PagesOf
<1>4. StackInv'
  BY <1>1 DEF IInv, StackInv, Base, InBuiltin
<1>5. HeapInv'
  BY <1>1 DEF IInv, HeapInv
<1>6. Sound' /\ Clean' /\ MarkInv' /\ QInv' /\ CompactInv' /\ MoveInv' /\ SnapInv'
  BY <1>1 DEF Sound, Clean, MarkInv, QInv, CompactInv, MoveInv, SnapInv, Marking
<1>7. QED
  BY <1>2, <1>3, <1>4, <1>5, <1>6 DEF IInv

---------------------------------------------------------------------------
(***************************************************************************)
(* The references are rewritten.                                           *)
(***************************************************************************)

\* The fields of an object change, and nothing else.
SameLayout(m, n) ==
  /\ DOMAIN n = DOMAIN m
  /\ \A a \in DOMAIN m : /\ n[a].id = m[a].id /\ n[a].kind = m[a].kind
                         /\ n[a].fwd = m[a].fwd /\ n[a].marked = m[a].marked
                         /\ n[a].enqueued = m[a].enqueued
                         /\ Len(n[a].fields) = Len(m[a].fields)

\* The places of the objects stay as they are.
LEMMA LayoutKept ==
  ASSUME NEW m, NEW n, SameLayout(m, n), NEW end
  PROVE  /\ Tiled(m, end) => Tiled(n, end)
         /\ \A e : Located(m, end, e) => Located(n, end, e)
         /\ \A a \in DOMAIN m : FirstField(n[a]) = FirstField(m[a])
<1>1. /\ DOMAIN n = DOMAIN m
      /\ \A a \in DOMAIN m : n[a].fwd = m[a].fwd /\ n[a].marked = m[a].marked
  BY DEF SameLayout
<1>2. \A a \in DOMAIN m : Size(n[a]) = Size(m[a]) /\ FirstField(n[a]) = FirstField(m[a])
  BY DEF SameLayout, Size, FirstField
<1>3. Tiled(m, end) => Tiled(n, end)
  BY <1>1, <1>2 DEF Tiled
<1>4. Done(n, end) = Done(m, end) /\ Done(m, end) \subseteq DOMAIN m
  BY <1>1 DEF Done
<1>5. PICK D : D = Done(m, end)
  OBVIOUS
<1>6. \A a \in D : n[a].fwd = m[a].fwd /\ Size(n[a]) = Size(m[a])
  BY <1>1, <1>2, <1>4, <1>5
<1>7. {n[a].fwd : a \in D} = {m[a].fwd : a \in D}
  BY <1>6
<1>8. ASSUME NEW e, Located(m, end, e) PROVE Located(n, end, e)
  <2>1. /\ e <= end
        /\ \A a \in D :
             /\ m[a].fwd <= a /\ m[a].fwd + Size(m[a]) <= e
             /\ m[a].fwd + Size(m[a]) \in {m[b].fwd : b \in D} \cup {e}
        /\ \A a, b \in D : a < b => m[a].fwd + Size(m[a]) <= m[b].fwd
        /\ e > 0 => \E a \in D : m[a].fwd = 0
    BY <1>5, <1>8, LocatedDone
  <2>2. /\ e <= end
        /\ \A a \in D :
             /\ n[a].fwd <= a /\ n[a].fwd + Size(n[a]) <= e
             /\ n[a].fwd + Size(n[a]) \in {n[b].fwd : b \in D} \cup {e}
        /\ \A a, b \in D : a < b => n[a].fwd + Size(n[a]) <= n[b].fwd
        /\ e > 0 => \E a \in D : n[a].fwd = 0
    BY <1>6, <1>7, <2>1
  <2>3. QED
    BY <1>4, <1>5, <2>2, LocatedDone
<1>9. QED
  BY <1>2, <1>3, <1>8

\* The heap in which the object at a has the fields fs.
UpdatedIn(m, a, fs) == [m EXCEPT ![a].fields = fs]

\* Rewriting its references changes the fields of one object.
LEMMA UpdatedObjects ==
  ASSUME NEW m, Memory(m), NEW a \in DOMAIN m, NEW fs \in Seq(Values),
         Len(fs) = Len(m[a].fields), NEW n, n = UpdatedIn(m, a, fs)
  PROVE  /\ SameLayout(m, n) /\ Memory(n) /\ n[a].fields = fs
         /\ \A b \in DOMAIN m : b # a => n[b] = m[b]
<1>1. \A b \in DOMAIN m : m[b] \in ObjectType
  BY DEF Memory
<1>2. /\ DOMAIN n = DOMAIN m /\ n[a] = [m[a] EXCEPT !.fields = fs]
      /\ \A b \in DOMAIN m : b # a => n[b] = m[b]
  BY DEF UpdatedIn
<1>3. /\ n[a] \in ObjectType /\ n[a].id = m[a].id /\ n[a].kind = m[a].kind
      /\ n[a].fields = fs /\ n[a].fwd = m[a].fwd /\ n[a].enqueued = m[a].enqueued
      /\ n[a].marked = m[a].marked
  BY <1>1, <1>2 DEF ObjectType
<1>4. SameLayout(m, n)
  BY <1>2, <1>3 DEF SameLayout
<1>5. n = [b \in DOMAIN n |-> n[b]]
  BY DEF UpdatedIn
<1>6. Memory(n)
  <2>1. \A b \in DOMAIN n : n[b] \in ObjectType
    BY <1>1, <1>2, <1>3
  <2>2. DOMAIN n \subseteq Nat
    BY <1>2 DEF Memory
  <2>3. QED
    BY <1>5, <2>1, <2>2 DEF Memory
<1>7. QED
  BY <1>2, <1>3, <1>4, <1>6

\* What holds while the references are rewritten.
LEMMA UpdateFacts ==
  ASSUME IInv, phase = "update"
  PROVE  /\ Memory(mem) /\ Tiled(mem, heap.current) /\ heap.current \in Nat
         /\ heap.begin \in Nat \ {0} /\ old.begin \in Nat \ {0}
         /\ old.current = heap.current /\ free \in Nat
         /\ Located(mem, heap.current, free) /\ iter \in Ends /\ iter \in Nat
         /\ (\A a \in DOMAIN mem : ~mem[a].enqueued)
         /\ stack \in Seq(Values) /\ Len(stack) \in Nat
         /\ (\A s \in DOMAIN stack : stack[s] \in ValuesAt(old.begin, Marked))
         /\ \A a \in Marked : a \in DOMAIN mem /\ a \in Nat /\ mem[a].fwd \in Nat
                              /\ mem[a] \in ObjectType
         /\ \A a \in Marked :
              IF a < iter THEN RefersTo(mem[a], heap.begin, NewPlaces)
                          ELSE RefersTo(mem[a], old.begin, Marked)
<1>1. /\ Memory(mem) /\ heap.current \in Nat /\ heap.begin \in Nat \ {0}
      /\ Tiled(mem, heap.current)
  BY HeapFacts DEF IInv, HeapInv
<1>2. old.begin \in Nat \ {0}
  <2>1. PICK p \in Nat \ {0} : old.begin = p * PageWords
    BY DEF IInv, PagesInv
  <2>2. QED
    BY <2>1, BoundsAssumption, Positive
<1>3. /\ old.current = heap.current /\ Located(mem, heap.current, free) /\ iter \in Ends
      /\ \A a \in DOMAIN mem : ~mem[a].enqueued
      /\ \A s \in DOMAIN stack : s > 1 => stack[s] \in ValuesAt(old.begin, Marked)
      /\ \A a \in Marked :
              IF a < iter THEN RefersTo(mem[a], heap.begin, NewPlaces)
                          ELSE RefersTo(mem[a], old.begin, Marked)
  BY DEF IInv, CompactInv
<1>4. free \in Nat /\ iter \in Nat /\ stack \in Seq(Values)
  BY DEF IInv, Typed
<1>5. Len(stack) \in Nat /\ DOMAIN stack = 1..Len(stack)
  BY <1>4
<1>6. \A s \in DOMAIN stack : stack[s] \in ValuesAt(old.begin, Marked)
  <2>1. stack[1] \in ValuesAt(old.begin, Marked)
    BY DEF IInv, StackInv, ValuesAt
  <2>2. \A s \in DOMAIN stack : s = 1 \/ s > 1
    BY <1>5
  <2>3. QED
    BY <1>3, <2>1, <2>2
<1>7. \A a \in Marked : a \in DOMAIN mem /\ a \in Nat /\ mem[a].fwd \in Nat
                        /\ mem[a] \in ObjectType
  BY <1>1, ObjectFields DEF Marked, Memory
<1>8. QED
  BY <1>1, <1>2, <1>3, <1>4, <1>5, <1>6, <1>7

\* What becomes of a value.
LEMMA ForwardedValue ==
  ASSUME IInv, phase = "update", NEW v \in ValuesAt(old.begin, Marked)
  PROVE  /\ Forwarded(v) \in Values
         /\ \/ v \in {0, Unboxed} /\ Forwarded(v) = v
            \/ \E b \in Marked : /\ v = old.begin + Hdr + b
                                 /\ Forwarded(v) = heap.begin + Hdr + mem[b].fwd
                                 /\ Forwarded(v) \notin {0, Unboxed}
<1>1. /\ Memory(mem) /\ Tiled(mem, heap.current) /\ heap.current \in Nat
      /\ heap.begin \in Nat \ {0} /\ old.begin \in Nat \ {0}
      /\ old.current = heap.current
  BY UpdateFacts
<1>2. v \in ValuesAt(old.begin, DOMAIN mem)
  BY MoreValues DEF Marked
<1>3. \/ v = Unboxed
      \/ v = 0 /\ v # Unboxed /\ ~InChunk(old, v)
      \/ /\ v \in Nat /\ v # 0 /\ v # Unboxed /\ InChunk(old, v)
         /\ Target(old, v) \in DOMAIN mem
         /\ v = old.begin + Hdr + Target(old, v)
  BY <1>1, <1>2, Pointers
<1>4. CASE v \in {0, Unboxed}
  BY <1>3, <1>4 DEF Forwarded, IsValidPointer, Values
<1>5. CASE v \notin {0, Unboxed}
  <2>1. PICK b \in Marked : v = old.begin + Hdr + b
    BY <1>5 DEF ValuesAt
  <2>2. b \in Nat /\ mem[b].fwd \in Nat
    BY UpdateFacts
  <2>3. Target(old, v) = b
    BY <1>1, <2>1, <2>2 DEF Target, Hdr
  <2>4. PICK f \in Nat : f = mem[b].fwd
    BY <2>2
  <2>5. Forwarded(v) = Content(heap, f)
    BY <1>3, <1>5, <2>3, <2>4 DEF Forwarded, IsValidPointer
  <2>6. Content(heap, f) = heap.begin + Hdr + f /\ Content(heap, f) \in Nat \ {0}
    BY <1>1, <2>4 DEF Content, Hdr
  <2>7. QED
    BY <2>1, <2>4, <2>5, <2>6, UnboxedAssumption DEF Values
<1>6. QED
  BY <1>4, <1>5

\* The same, as the invariant has it.
LEMMA ForwardedSnapshot ==
  ASSUME IInv, phase = "update", NEW v \in ValuesAt(old.begin, Marked)
  PROVE  /\ Forwarded(v) \in ValuesAt(heap.begin, NewPlaces)
         /\ \A w : BecomesOld(mem, v, w) => BecomesNew(mem, 0, 0, Forwarded(v), w)
<1>1. \/ v \in {0, Unboxed} /\ Forwarded(v) = v
      \/ \E b \in Marked : /\ v = old.begin + Hdr + b
                           /\ Forwarded(v) = heap.begin + Hdr + mem[b].fwd
                           /\ Forwarded(v) \notin {0, Unboxed}
  BY ForwardedValue
<1>2. old.begin \in Nat \ {0} /\ \A a \in Marked : a \in Nat /\ a \in DOMAIN mem
  BY UpdateFacts
<1>3. CASE v \in {0, Unboxed} /\ Forwarded(v) = v
  <2>1. v = Unboxed \/ v = 0
    BY <1>3
  <2>2. ASSUME NEW a \in DOMAIN mem, v = old.begin + Hdr + a PROVE FALSE
    <3>1. a \in Nat /\ old.begin + Hdr + a \in Nat \ {0}
      BY <1>2, UpdateFacts DEF Memory, Hdr
    <3>2. QED
      BY <2>1, <2>2, <3>1, UnboxedAssumption
  <2>3. QED
    BY <1>3, <2>2 DEF BecomesOld, BecomesNew, ValuesAt
<1>4. ASSUME NEW b \in Marked, v = old.begin + Hdr + b,
             Forwarded(v) = heap.begin + Hdr + mem[b].fwd
      PROVE  /\ Forwarded(v) \in ValuesAt(heap.begin, NewPlaces)
             /\ \A w : BecomesOld(mem, v, w) => BecomesNew(mem, 0, 0, Forwarded(v), w)
  <2>1. v \in Nat \ {0} /\ v # Unboxed
    BY <1>2, <1>4, UnboxedAssumption DEF Hdr
  <2>2. ASSUME NEW w, BecomesOld(mem, v, w) PROVE w = mem[b].id
    <3>1. PICK a \in DOMAIN mem : v = old.begin + Hdr + a /\ w = mem[a].id
      BY <2>1, <2>2 DEF BecomesOld
    <3>2. a \in Nat
      BY UpdateFacts DEF Memory
    <3>3. a = b
      BY <1>2, <1>4, <3>1, <3>2 DEF Hdr
    <3>4. QED
      BY <3>1, <3>3
  <2>3. b \in Todo(mem, 0)
    BY <1>2 DEF Todo, Marked
  <2>4. \A w : BecomesOld(mem, v, w) => BecomesNew(mem, 0, 0, Forwarded(v), w)
    BY <1>4, <2>2, <2>3 DEF BecomesNew
  <2>5. Forwarded(v) \in ValuesAt(heap.begin, NewPlaces)
    BY <1>4 DEF ValuesAt, NewPlaces
  <2>6. QED
    BY <2>4, <2>5
<1>5. QED
  BY <1>1, <1>3, <1>4

\* A value that is no reference stays.
LEMMA ForwardedRaw ==
  ASSUME IInv, phase = "update", NEW v \in {0, Unboxed}
  PROVE  Forwarded(v) = v
BY UpdateFacts, UnboxedAssumption DEF Forwarded, IsValidPointer, InChunk

\* The fields of a survivor, rewritten.
Rewritten(o) == [i \in DOMAIN o.fields |-> IF i < FirstField(o) THEN o.fields[i]
                                                               ELSE Forwarded(o.fields[i])]

\* The object whose references have been rewritten means what it meant.
LEMMA RewrittenObject ==
  ASSUME IInv, phase = "update", NEW t \in Marked, RefersTo(mem[t], old.begin, Marked),
         NEW fs, fs = Rewritten(mem[t]), NEW o, o.fields = fs, o.id = mem[t].id,
         o.kind = mem[t].kind
  PROVE  /\ fs \in Seq(Values) /\ Len(fs) = Len(mem[t].fields)
         /\ RefersTo(o, heap.begin, NewPlaces)
         /\ \A x : IsOld(mem, mem[t], x) => IsNew(mem, 0, 0, o, x)
<1>1. mem[t] \in ObjectType
  BY UpdateFacts
<1>2. PICK gs \in Seq(Values) : gs = mem[t].fields
  BY <1>1, ObjectFields
<1>3. PICK l \in Nat : l = Len(gs) /\ DOMAIN gs = 1..l
  OBVIOUS
<1>4. PICK f \in Nat \ {0} : f = FirstField(mem[t])
  BY <1>1, ObjectFields
<1>5. fs = [i \in 1..l |-> IF i < f THEN gs[i] ELSE Forwarded(gs[i])]
  BY <1>2, <1>3, <1>4 DEF Rewritten
<1>6. \A i \in 1..l : i >= f => gs[i] \in ValuesAt(old.begin, Marked)
  <2>1. \A i \in f..l : gs[i] \in ValuesAt(old.begin, Marked)
    BY <1>2, <1>3, <1>4 DEF RefersTo
  <2>2. QED
    BY <1>3, <1>4, <2>1
<1>7. \A i \in 1..l : gs[i] \in Values
  BY <1>3, ElementOfSeq
<1>8. \A i \in 1..l : i < f => fs[i] = gs[i]
  BY <1>5
<1>9. \A i \in 1..l : i >= f => fs[i] = Forwarded(gs[i])
  BY <1>3, <1>4, <1>5
<1>10. \A i \in 1..l : fs[i] \in Values
  <2>1. \A i \in 1..l : i < f \/ i >= f
    BY <1>3, <1>4
  <2>2. \A i \in 1..l : i >= f => Forwarded(gs[i]) \in Values
    BY <1>6, ForwardedValue
  <2>3. QED
    BY <1>7, <1>8, <1>9, <2>1, <2>2
<1>11. fs \in Seq(Values) /\ Len(fs) = l
  <2>1. fs \in [1..l -> Values]
    BY <1>5, <1>10
  <2>2. QED
    BY <1>3, <2>1
<1>12. FirstField(o) = f
  BY <1>2, <1>3, <1>4, <1>11 DEF FirstField
<1>13. RefersTo(o, heap.begin, NewPlaces)
  <2>1. ASSUME NEW i \in f..l PROVE fs[i] \in ValuesAt(heap.begin, NewPlaces)
    <3>1. i \in 1..l /\ i >= f
      BY <1>3, <1>4
    <3>2. fs[i] = Forwarded(gs[i]) /\ gs[i] \in ValuesAt(old.begin, Marked)
      BY <1>6, <1>9, <3>1
    <3>3. QED
      BY <3>2, ForwardedSnapshot
  <2>2. QED
    BY <1>11, <1>12, <2>1 DEF RefersTo
<1>14. ASSUME NEW x, IsOld(mem, mem[t], x) PROVE IsNew(mem, 0, 0, o, x)
  <2>1. /\ x.id = mem[t].id /\ x.kind = mem[t].kind /\ Len(x.fields) = l
        /\ \A i \in 1..l : i < f => x.fields[i] = gs[i]
        /\ \A i \in f..l : BecomesOld(mem, gs[i], x.fields[i])
    BY <1>2, <1>3, <1>4, <1>14 DEF IsOld, SameShape
  <2>2. SameShape(o, x)
    <3>1. DOMAIN fs = 1..l
      BY <1>5
    <3>2. QED
      BY <1>8, <1>11, <1>12, <2>1, <3>1 DEF SameShape
  <2>3. ASSUME NEW i \in f..l PROVE BecomesNew(mem, 0, 0, fs[i], x.fields[i])
    <3>1. i \in 1..l /\ i >= f
      BY <1>3, <1>4
    <3>2. fs[i] = Forwarded(gs[i]) /\ gs[i] \in ValuesAt(old.begin, Marked)
      BY <1>6, <1>9, <3>1
    <3>3. QED
      BY <2>1, <3>2, ForwardedSnapshot
  <2>4. QED
    BY <1>11, <1>12, <2>2, <2>3 DEF IsNew
<1>15. QED
  BY <1>2, <1>3, <1>11, <1>13, <1>14

\* What a value has become does not depend on the fields.
LEMMA SnapshotLayout ==
  ASSUME SameLayout(mem, mem'), heap' = heap, old' = old
  PROVE  /\ \A v, w : BecomesOld(mem, v, w)' <=> BecomesOld(mem, v, w)
         /\ \A v, w : BecomesNew(mem, 0, 0, v, w)' <=> BecomesNew(mem, 0, 0, v, w)
         /\ Marked' = Marked /\ NewPlaces' = NewPlaces
<1>1. /\ DOMAIN mem' = DOMAIN mem
      /\ \A a \in DOMAIN mem : /\ mem'[a].id = mem[a].id /\ mem'[a].fwd = mem[a].fwd
                               /\ mem'[a].marked = mem[a].marked
  BY DEF SameLayout
<1>2. \A v, w : BecomesOld(mem, v, w)' <=> BecomesOld(mem, v, w)
  BY <1>1 DEF BecomesOld
<1>3. Copies(mem', 0) = Copies(mem, 0) /\ Todo(mem', 0) = Todo(mem, 0)
  BY <1>1 DEF Copies, Todo
<1>4. \A v, w : BecomesNew(mem, 0, 0, v, w)' <=> BecomesNew(mem, 0, 0, v, w)
  <2>1. \A a \in Copies(mem, 0) \cup Todo(mem, 0) : a \in DOMAIN mem
    BY DEF Copies, Todo
  <2>2. QED
    BY <1>1, <1>3, <2>1 DEF BecomesNew
<1>5. Marked' = Marked
  BY <1>1 DEF Marked
<1>6. NewPlaces' = NewPlaces
  <2>1. \A a \in Marked : mem'[a].fwd = mem[a].fwd
    BY <1>1 DEF Marked
  <2>2. QED
    BY <1>5, <2>1 DEF NewPlaces
<1>7. QED
  BY <1>2, <1>4, <1>5, <1>6

\* One turn of update_references: the objects below the iterator refer to new
\* places, those from it on to old ones.
LEMMA UpdateObjectStep == IInv /\ UpdateObject => IInv'
<1> SUFFICES ASSUME IInv, UpdateObject PROVE IInv'
  OBVIOUS
<1>1. /\ phase = "update" /\ iter < heap.current /\ phase' = phase
      /\ iter' = NextObject(iter)
      /\ UNCHANGED <<heap, mapped, stack, extra, req, root, head, tail, obj, fld,
                     old, free, nextId, snap>>
  BY DEF UpdateObject, MoreObjects, markVars
<1>2. /\ Memory(mem) /\ Tiled(mem, heap.current) /\ heap.current \in Nat
      /\ old.current = heap.current /\ free \in Nat
      /\ Located(mem, heap.current, free) /\ iter \in Ends /\ iter \in Nat
      /\ (\A a \in DOMAIN mem : ~mem[a].enqueued)
      /\ (\A s \in DOMAIN stack : stack[s] \in ValuesAt(old.begin, Marked))
      /\ \A a \in Marked : a \in DOMAIN mem /\ a \in Nat /\ mem[a].fwd \in Nat
                           /\ mem[a] \in ObjectType
      /\ \A a \in Marked :
              IF a < iter THEN RefersTo(mem[a], heap.begin, NewPlaces)
                          ELSE RefersTo(mem[a], old.begin, Marked)
  BY <1>1, UpdateFacts
<1>3. PICK t \in DOMAIN mem : t = iter
  <2>1. iter # heap.current
    BY <1>1, <1>2
  <2>2. QED
    BY <1>2, <2>1 DEF Ends
<1>4. PICK t1 \in Nat : t1 = t + Size(mem[t])
  BY <1>2, NextTile
<1>5. /\ t1 \in DOMAIN mem \cup {heap.current} /\ t \in Nat
      /\ \A b \in DOMAIN mem : b < t1 <=> b <= t
  BY <1>2, <1>4, NextTile
<1>6. iter' = t1
  BY <1>1, <1>3, <1>4 DEF NextObject
<1>7. /\ SameLayout(mem, mem') /\ Memory(mem')
      /\ \A b \in DOMAIN mem : b # t => mem'[b] = mem[b]
      /\ t \in Marked =>
           /\ RefersTo(mem'[t], heap.begin, NewPlaces)
           /\ \A x : IsOld(mem, mem[t], x) => IsNew(mem, 0, 0, mem'[t], x)
  <2>1. CASE t \in Marked
    <3>1. RefersTo(mem[t], old.begin, Marked)
      BY <1>2, <1>3, <2>1
    <3>2. PICK fs : fs = Rewritten(mem[t])
      OBVIOUS
    <3>3. mem' = UpdatedIn(mem, t, fs)
      BY <1>3, <2>1, <3>2 DEF UpdateObject, Rewritten, UpdatedIn, Marked
    <3>4. PICK n : n = mem'
      OBVIOUS
    <3>5. fs \in Seq(Values) /\ Len(fs) = Len(mem[t].fields)
      <4>1. PICK o : o = [mem[t] EXCEPT !.fields = fs]
        OBVIOUS
      <4>2. mem[t] \in ObjectType
        BY <1>2, <2>1
      <4>3. o.fields = fs /\ o.id = mem[t].id /\ o.kind = mem[t].kind
        BY <4>1, <4>2 DEF ObjectType
      <4>4. QED
        BY <1>1, <2>1, <3>1, <3>2, <4>3, RewrittenObject
    <3>6. /\ SameLayout(mem, n) /\ Memory(n) /\ n[t].fields = fs
          /\ \A b \in DOMAIN mem : b # t => n[b] = mem[b]
      BY <1>2, <3>3, <3>4, <3>5, UpdatedObjects
    <3>7. n[t].id = mem[t].id /\ n[t].kind = mem[t].kind
      BY <3>6 DEF SameLayout
    <3>8. /\ RefersTo(n[t], heap.begin, NewPlaces)
          /\ \A x : IsOld(mem, mem[t], x) => IsNew(mem, 0, 0, n[t], x)
      BY <1>1, <2>1, <3>1, <3>2, <3>6, <3>7, RewrittenObject
    <3>9. QED
      BY <3>4, <3>6, <3>8
  <2>2. CASE t \notin Marked
    <3>1. mem' = mem
      BY <1>3, <2>2 DEF UpdateObject, Marked
    <3>2. SameLayout(mem, mem')
      BY <3>1 DEF SameLayout
    <3>3. QED
      BY <1>2, <2>2, <3>1, <3>2
  <2>3. QED
    BY <2>1, <2>2
<1>8. /\ DOMAIN mem' = DOMAIN mem
      /\ \A a \in DOMAIN mem : /\ mem'[a].id = mem[a].id
                               /\ mem'[a].enqueued = mem[a].enqueued
  BY <1>7 DEF SameLayout
<1>9. Marked' = Marked /\ NewPlaces' = NewPlaces
  BY <1>1, <1>7, SnapshotLayout
<1>10. Tiled(mem', heap.current) /\ Located(mem', heap.current, free)
  BY <1>2, <1>7, LayoutKept
<1>11. \A a \in Marked : a # t => (a < t1 <=> a < iter)
  BY <1>2, <1>3, <1>5
<1>12. t < t1 /\ ~(t < iter)
  <2>1. t < t1
    BY <1>2, <1>4, NextTile
  <2>2. QED
    BY <1>3, <1>5, <2>1
<1>13. phase \in InBuiltin /\ phase \in Phases
       /\ phase \notin {"run", "alloc", "retry", "move", "exit", "fault", "roots",
                        "queue", "fields", "locate", "grow"}
  BY <1>1 DEF InBuiltin, Phases
<1>14. Typed'
  BY <1>1, <1>6, <1>7 DEF IInv, Typed, Memory
<1>15. PagesInv'
  BY <1>1 DEF IInv, PagesInv, PagesOf
<1>16. StackInv'
  BY <1>1 DEF IInv, StackInv, Base, Operands
<1>17. HeapInv'
  <2>1. /\ \A a, b \in DOMAIN mem : mem[a].id = mem[b].id => a = b
        /\ \A a \in DOMAIN mem : 0 < mem[a].id /\ mem[a].id < nextId
        /\ heap.current <= heap.size
    BY <1>1 DEF IInv, HeapInv
  <2>2. QED
    BY <1>1, <1>8, <1>10, <2>1 DEF HeapInv
<1>18. Sound' /\ Clean' /\ MarkInv' /\ QInv' /\ MoveInv'
  BY <1>1 DEF Sound, Clean, MarkInv, QInv, MoveInv, Marking
<1>19. CompactInv'
  <2>1. iter' \in Ends'
    BY <1>1, <1>5, <1>6, <1>8 DEF Ends
  <2>2. free' + Words(req)' <= heap'.size
    BY <1>1 DEF IInv, CompactInv, Words
  <2>3. ASSUME NEW a \in Marked
        PROVE  IF a < t1 THEN RefersTo(mem'[a], heap.begin, NewPlaces)
                         ELSE RefersTo(mem'[a], old.begin, Marked)
    <3>1. CASE a = t
      BY <1>7, <1>12, <2>3, <3>1
    <3>2. CASE a # t
      <4>1. mem'[a] = mem[a] /\ (a < t1 <=> a < iter)
        BY <1>2, <1>7, <1>11, <3>2
      <4>2. QED
        BY <1>2, <4>1
    <3>3. QED
      BY <3>1, <3>2
  <2>4. \A a \in Marked' : IF a < iter' THEN RefersTo(mem'[a], heap'.begin, NewPlaces')
                                         ELSE RefersTo(mem'[a], old'.begin, Marked')
    BY <1>1, <1>6, <1>9, <2>3
  <2>5. \A a \in DOMAIN mem' : ~mem'[a].enqueued
    BY <1>2, <1>8
  <2>6. \A s \in DOMAIN stack' : stack'[s] \in ValuesAt(old'.begin, Marked')
    BY <1>1, <1>2, <1>9
  <2>7. /\ old'.current = heap'.current /\ Located(mem', heap'.current, free')
    BY <1>1, <1>2, <1>10
  <2>8. QED
    BY <1>1, <2>1, <2>2, <2>4, <2>5, <2>6, <2>7 DEF CompactInv
<1>20. SnapInv'
  <2>1. /\ SnapReach /\ SnapTyped /\ Len(snap.stack) = Len(stack)
        /\ \A s \in DOMAIN stack : BecomesOld(mem, stack[s], snap.stack[s])
        /\ \A a \in Marked : \E x \in snap.objs :
            IF a < iter THEN IsNew(mem, 0, 0, mem[a], x) ELSE IsOld(mem, mem[a], x)
        /\ \A x \in snap.objs : \E a \in Marked :
            IF a < iter THEN IsNew(mem, 0, 0, mem[a], x) ELSE IsOld(mem, mem[a], x)
    BY <1>1 DEF IInv, SnapInv
  <2>2. SnapReach' /\ SnapTyped' /\ Len(snap'.stack) = Len(stack')
    BY <1>1, <2>1 DEF SnapReach, SnapTyped
  <2>3. /\ \A v, w : BecomesOld(mem, v, w)' <=> BecomesOld(mem, v, w)
        /\ \A v, w : BecomesNew(mem, 0, 0, v, w)' <=> BecomesNew(mem, 0, 0, v, w)
    BY <1>1, <1>7, SnapshotLayout
  <2>4. ASSUME NEW o, NEW x PROVE /\ IsOld(mem, o, x)' <=> IsOld(mem, o, x)
                                  /\ IsNew(mem, 0, 0, o, x)' <=> IsNew(mem, 0, 0, o, x)
    BY <2>3 DEF IsOld, IsNew
  <2>5. ASSUME NEW a \in Marked, NEW x,
               IF a < iter THEN IsNew(mem, 0, 0, mem[a], x) ELSE IsOld(mem, mem[a], x)
        PROVE  IF a < t1 THEN IsNew(mem, 0, 0, mem[a], x)' ELSE IsOld(mem, mem[a], x)'
    <3>1. PICK o : o = mem'[a]
      OBVIOUS
    <3>2. IF a < t1 THEN IsNew(mem, 0, 0, o, x) ELSE IsOld(mem, o, x)
      <4>1. CASE a = t
        <5>1. IsOld(mem, mem[t], x)
          BY <1>12, <2>5, <4>1
        <5>2. QED
          BY <1>7, <1>12, <3>1, <4>1, <5>1
      <4>2. CASE a # t
        <5>1. mem'[a] = mem[a] /\ (a < t1 <=> a < iter)
          BY <1>2, <1>7, <1>11, <4>2
        <5>2. QED
          BY <2>5, <3>1, <5>1
      <4>3. QED
        BY <4>1, <4>2
    <3>3. IF a < t1 THEN IsNew(mem, 0, 0, o, x)' ELSE IsOld(mem, o, x)'
      BY <2>4, <3>2
    <3>4. /\ IsNew(mem, 0, 0, o, x)' <=> IsNew(mem, 0, 0, mem[a], x)'
          /\ IsOld(mem, o, x)' <=> IsOld(mem, mem[a], x)'
      BY <3>1 DEF IsNew, IsOld
    <3>5. QED
      BY <3>3, <3>4
  <2>6. \A s \in DOMAIN stack : BecomesOld(mem, stack[s], snap.stack[s])'
    <3>1. ASSUME NEW s \in DOMAIN stack PROVE BecomesOld(mem, stack[s], snap.stack[s])'
      <4>1. PICK v, w : v = stack[s] /\ w = snap.stack[s]
        OBVIOUS
      <4>2. BecomesOld(mem, v, w)'
        BY <2>1, <2>3, <4>1
      <4>3. QED
        BY <1>1, <4>1, <4>2 DEF BecomesOld
    <3>2. QED
      BY <3>1
  <2>7. \A a \in Marked : \E x \in snap.objs :
           IF a < t1 THEN IsNew(mem, 0, 0, mem[a], x)' ELSE IsOld(mem, mem[a], x)'
    BY <2>1, <2>5
  <2>8. \A x \in snap.objs : \E a \in Marked :
           IF a < t1 THEN IsNew(mem, 0, 0, mem[a], x)' ELSE IsOld(mem, mem[a], x)'
    BY <2>1, <2>5
  <2>9. QED
    BY <1>1, <1>6, <1>9, <2>2, <2>6, <2>7, <2>8 DEF SnapInv, Marking
<1>21. QED
  BY <1>14, <1>15, <1>16, <1>17, <1>18, <1>19, <1>20 DEF IInv

---------------------------------------------------------------------------
(***************************************************************************)
(* The objects slide down.                                                 *)
(***************************************************************************)

\* Before the first object has moved.
LEMMA SlidingStarts ==
  ASSUME NEW m, NEW cur \in Nat, NEW e \in Nat, Memory(m), Tiled(m, cur), Located(m, cur, e),
         \A a \in DOMAIN m : ~m[a].enqueued,
         \A a, b \in DOMAIN m : m[a].id = m[b].id => a = b
  PROVE  /\ Sliding(m, 0, 0, cur, e)
         /\ Copies(m, 0) = {} /\ Todo(m, 0) = {a \in DOMAIN m : m[a].marked}
<1>1. \A a \in DOMAIN m : a \in Nat /\ a >= 0 /\ ~(a < 0) /\ a < cur /\ m[a].fwd \in Nat
                          /\ m[a].fwd >= 0
  <2>1. \A a \in DOMAIN m : a \in Nat /\ a < cur
    BY NextTile
  <2>2. \A a \in DOMAIN m : m[a].fwd \in Nat
    BY ObjectFields DEF Memory
  <2>3. QED
    BY <2>1, <2>2
<1>2. Copies(m, 0) = {}
  BY <1>1 DEF Copies
<1>3. PICK T : T = Todo(m, 0)
  OBVIOUS
<1>4. /\ T = {a \in DOMAIN m : m[a].marked} /\ T = Done(m, cur)
      /\ \A a \in T : a \in DOMAIN m
  BY <1>1, <1>3 DEF Todo, Done
<1>5. /\ \A a \in T :
           /\ m[a].fwd <= a /\ m[a].fwd + Size(m[a]) <= e
           /\ m[a].fwd + Size(m[a]) \in {m[b].fwd : b \in T} \cup {e}
      /\ \A a, b \in T : a < b => m[a].fwd + Size(m[a]) <= m[b].fwd
      /\ e > 0 => \E a \in T : m[a].fwd = 0
  BY <1>4, LocatedDone
<1>6. 0 \in {a \in DOMAIN m : a >= 0} \cup {cur}
  BY DEF Tiled
<1>7. 0 \in {m[a].fwd : a \in T} \cup {e}
  <2>1. CASE e > 0
    BY <1>5, <2>1
  <2>2. CASE e = 0
    BY <2>2
  <2>3. QED
    BY <2>1, <2>2
<1>8. T = {} => 0 = e
  BY <1>5
<1>9. \A a \in DOMAIN m : a >= 0 => /\ a + Size(m[a]) \in DOMAIN m \cup {cur}
                                    /\ a + Size(m[a]) <= cur
  BY DEF Tiled
<1>10. \A a, b \in DOMAIN m : 0 <= a /\ a < b => a + Size(m[a]) <= b
  BY DEF Tiled
<1>11. \A a \in T : 0 <= m[a].fwd
  BY <1>1, <1>4
<1>12. \A a, b \in T \cup {} : m[a].id = m[b].id => a = b
  BY <1>4
<1>13. Sliding(m, 0, 0, cur, e)
  BY <1>2, <1>3, <1>4, <1>5, <1>6, <1>7, <1>8, <1>9, <1>10, <1>11, <1>12 DEF Sliding
<1>14. QED
  BY <1>2, <1>3, <1>4, <1>13

\* The stack and the extra roots follow: a slot is rewritten once, and what it
\* holds means what it meant.
LEMMA UpdateRootsStep == IInv /\ UpdateRoots => IInv'
<1> SUFFICES ASSUME IInv, UpdateRoots PROVE IInv'
  OBVIOUS
<1>1. /\ phase = "update" /\ ~(iter < heap.current) /\ phase' = "move" /\ iter' = 0
      /\ UNCHANGED <<mem, heap, mapped, extra, req, root, head, tail, obj, fld,
                     old, free, nextId, snap>>
  BY DEF UpdateRoots, MoreObjects, markVars
<1>2. /\ Memory(mem) /\ Tiled(mem, heap.current) /\ heap.current \in Nat
      /\ old.current = heap.current /\ free \in Nat
      /\ Located(mem, heap.current, free) /\ iter \in Ends /\ iter \in Nat
      /\ (\A a \in DOMAIN mem : ~mem[a].enqueued)
      /\ stack \in Seq(Values) /\ Len(stack) \in Nat
      /\ (\A s \in DOMAIN stack : stack[s] \in ValuesAt(old.begin, Marked))
      /\ \A a \in Marked :
              IF a < iter THEN RefersTo(mem[a], heap.begin, NewPlaces)
                          ELSE RefersTo(mem[a], old.begin, Marked)
  BY <1>1, UpdateFacts
<1>3. PICK l \in Nat : l = Len(stack) /\ DOMAIN stack = 1..l
  BY <1>2
<1>4. \A s \in 1..l : stack'[s] = Forwarded(stack[s])
  <2>1. \A i \in DOMAIN extra : extra[i] = 0 \/ extra[i] \in 2..l
    BY <1>1, <1>3 DEF IInv, StackInv, InBuiltin, Phases
  <2>2. \A s \in 1..l : s \in Range(extra) => FixedWithStack(s)
    BY <1>3, <2>1 DEF Range, FixedWithStack
  <2>3. QED
    BY <1>3, <2>2 DEF UpdateRoots
<1>5. DOMAIN stack' = 1..l /\ stack' = [s \in 1..l |-> stack'[s]]
  BY <1>3 DEF UpdateRoots
<1>6. stack' \in Seq(Values) /\ Len(stack') = l
  <2>1. \A s \in 1..l : stack'[s] \in Values
    BY <1>1, <1>2, <1>3, <1>4, ForwardedValue
  <2>2. PICK y : y = stack'
    OBVIOUS
  <2>3. y \in [1..l -> Values]
    BY <1>5, <2>1, <2>2
  <2>4. Len(y) = l /\ y \in Seq(Values)
    BY <2>3
  <2>5. QED
    BY <2>2, <2>4
<1>7. \A a \in Marked : a < iter
  <2>1. ASSUME NEW a \in Marked PROVE a < iter
    <3>1. a \in DOMAIN mem
      BY DEF Marked
    <3>2. a \in Nat /\ a < heap.current
      BY <1>2, <3>1, NextTile
    <3>3. QED
      BY <1>1, <1>2, <3>2
  <2>2. QED
    BY <2>1
<1>8. /\ Sliding(mem, 0, 0, heap.current, free)
      /\ Copies(mem, 0) = {} /\ Todo(mem, 0) = Marked
  <2>1. PICK c \in Nat, e \in Nat : c = heap.current /\ e = free
    BY <1>2
  <2>2. \A a, b \in DOMAIN mem : mem[a].id = mem[b].id => a = b
    BY <1>1 DEF IInv, HeapInv
  <2>3. /\ Memory(mem) /\ Tiled(mem, c) /\ Located(mem, c, e)
        /\ \A a \in DOMAIN mem : ~mem[a].enqueued
    BY <1>2, <2>1
  <2>4. Sliding(mem, 0, 0, c, e) /\ Copies(mem, 0) = {}
        /\ Todo(mem, 0) = {a \in DOMAIN mem : mem[a].marked}
    BY <2>2, <2>3, SlidingStarts
  <2>5. QED
    BY <2>1, <2>4 DEF Marked
<1>9. Places(mem, 0, 0) = NewPlaces
  BY <1>8 DEF Places, NewPlaces
<1>10. phase' \in InBuiltin /\ phase' \in Phases /\ phase \in InBuiltin
  BY <1>1 DEF InBuiltin, Phases
<1>11. Typed'
  BY <1>1, <1>6, <1>10 DEF IInv, Typed
<1>12. PagesInv'
  BY <1>1 DEF IInv, PagesInv, PagesOf
<1>13. StackInv'
  <2>1. /\ l >= Base /\ stack[1] \in {0, Unboxed} /\ Base \in Nat /\ Base >= 2
        /\ req.op \in Operators
        /\ l >= Base + Operands(req)
        /\ \A i \in DOMAIN extra : extra[i] = 0 \/ extra[i] \in 2..l
    BY <1>3, <1>10, BoundsAssumption DEF IInv, StackInv, Base
  <2>2. 1 \in 1..l
    BY <1>3, <2>1
  <2>3. stack'[1] \in {0, Unboxed}
    <3>1. PICK v : v = stack[1]
      OBVIOUS
    <3>2. v \in ValuesAt(old.begin, Marked) /\ v \in {0, Unboxed}
      BY <2>1, <3>1 DEF ValuesAt
    <3>3. Forwarded(v) = v
      BY <1>1, <1>2, <3>2, ForwardedRaw
    <3>4. QED
      BY <1>4, <2>2, <3>1, <3>2, <3>3
  <2>4. Operands(req)' = Operands(req)
    BY <1>1 DEF Operands
  <2>5. QED
    BY <1>1, <1>6, <2>1, <2>3, <2>4 DEF StackInv, Base
<1>14. HeapInv'
  <2>1. /\ heap.current <= heap.size
        /\ \A a \in DOMAIN mem : 0 < mem[a].id /\ mem[a].id < nextId
    BY <1>1 DEF IInv, HeapInv
  <2>2. QED
    BY <1>1, <2>1 DEF HeapInv
<1>15. Sound' /\ Clean' /\ MarkInv' /\ QInv'
  BY <1>1 DEF Sound, Clean, MarkInv, QInv, Marking
<1>16. CompactInv'
  <2>1. free' + Words(req)' <= heap'.size /\ old'.current = heap'.current
    BY <1>1, <1>2 DEF IInv, CompactInv, Words
  <2>2. QED
    BY <1>1, <2>1 DEF CompactInv
<1>17. MoveInv'
  <2>1. 0 \in 0..free
    BY <1>2
  <2>2. ASSUME NEW s \in 1..l PROVE stack'[s] \in ValuesAt(heap.begin, NewPlaces)
    <3>1. PICK v : v = stack[s]
      OBVIOUS
    <3>2. v \in ValuesAt(old.begin, Marked)
      BY <1>2, <1>3, <3>1
    <3>3. Forwarded(v) \in ValuesAt(heap.begin, NewPlaces)
      BY <1>1, <3>2, ForwardedSnapshot
    <3>4. QED
      BY <1>4, <3>1, <3>3
  <2>3. \A a \in Marked : RefersTo(mem[a], heap.begin, NewPlaces)
    BY <1>2, <1>7
  <2>4. \E d \in 0..free :
          /\ Sliding(mem, 0, d, heap.current, free)
          /\ \A s \in DOMAIN stack' : stack'[s] \in ValuesAt(heap.begin, Places(mem, 0, d))
          /\ \A a \in Todo(mem, 0) \cup Copies(mem, d) :
               RefersTo(mem[a], heap.begin, Places(mem, 0, d))
    BY <1>5, <1>8, <1>9, <2>1, <2>2, <2>3
  <2>5. QED
    BY <1>1, <2>4 DEF MoveInv
<1>18. SnapInv'
  <2>1. /\ SnapReach /\ SnapTyped /\ Len(snap.stack) = Len(stack)
        /\ \A s \in DOMAIN stack : BecomesOld(mem, stack[s], snap.stack[s])
        /\ \A a \in Marked : \E x \in snap.objs :
            IF a < iter THEN IsNew(mem, 0, 0, mem[a], x) ELSE IsOld(mem, mem[a], x)
        /\ \A x \in snap.objs : \E a \in Marked :
            IF a < iter THEN IsNew(mem, 0, 0, mem[a], x) ELSE IsOld(mem, mem[a], x)
    BY <1>1 DEF IInv, SnapInv
  <2>2. SnapReach' /\ SnapTyped' /\ Len(snap'.stack) = Len(stack')
    BY <1>1, <1>3, <1>6, <2>1 DEF SnapReach, SnapTyped
  <2>3. /\ \A a \in Marked : \E x \in snap.objs : IsNew(mem, 0, 0, mem[a], x)
        /\ \A x \in snap.objs : \E a \in Marked : IsNew(mem, 0, 0, mem[a], x)
    BY <1>7, <2>1
  <2>4. \A v, w : BecomesNew(mem, 0, 0, v, w)' <=> BecomesNew(mem, 0, 0, v, w)
    BY <1>1 DEF BecomesNew
  <2>5. \A a, x : IsNew(mem, 0, 0, mem[a], x)' <=> IsNew(mem, 0, 0, mem[a], x)
    BY <1>1, <2>4 DEF IsNew, BecomesNew
  <2>6. ASSUME NEW s \in 1..l PROVE BecomesNew(mem, 0, 0, stack[s], snap.stack[s])'
    <3>1. PICK v, w : v = stack[s] /\ w = snap.stack[s]
      OBVIOUS
    <3>2. v \in ValuesAt(old.begin, Marked) /\ BecomesOld(mem, v, w)
      BY <1>2, <1>3, <2>1, <3>1
    <3>3. BecomesNew(mem, 0, 0, Forwarded(v), w)
      BY <1>1, <3>2, ForwardedSnapshot
    <3>4. PICK u : u = Forwarded(v)
      OBVIOUS
    <3>5. BecomesNew(mem, 0, 0, u, w)'
      BY <2>4, <3>3, <3>4
    <3>6. stack'[s] = u /\ snap'.stack[s] = w
      BY <1>1, <1>4, <3>1, <3>4
    <3>7. QED
      BY <3>5, <3>6 DEF BecomesNew
  <2>7. ASSUME NEW d \in 0..free, Sliding(mem, 0, d, heap.current, free)
        PROVE  d = 0
    BY <1>2, <2>7 DEF Sliding
  <2>8. /\ Len(snap'.stack) = Len(stack')
        /\ \A s \in DOMAIN stack' : BecomesNew(mem, 0, 0, stack[s], snap.stack[s])'
        /\ \A a \in Todo(mem, 0) \cup Copies(mem, 0) : \E x \in snap.objs :
             IsNew(mem, 0, 0, mem[a], x)'
        /\ \A x \in snap.objs : \E a \in Todo(mem, 0) \cup Copies(mem, 0) :
             IsNew(mem, 0, 0, mem[a], x)'
    BY <1>5, <1>8, <2>2, <2>3, <2>5, <2>6
  <2>9. ASSUME NEW d \in 0..free, Sliding(mem, 0, d, heap.current, free)
        PROVE  /\ Len(snap'.stack) = Len(stack')
               /\ \A s \in DOMAIN stack' : BecomesNew(mem, 0, d, stack[s], snap.stack[s])'
               /\ \A a \in Todo(mem, 0) \cup Copies(mem, d) : \E x \in snap.objs :
                    IsNew(mem, 0, d, mem[a], x)'
               /\ \A x \in snap.objs : \E a \in Todo(mem, 0) \cup Copies(mem, d) :
                    IsNew(mem, 0, d, mem[a], x)'
    BY <2>7, <2>8, <2>9
  <2>10. QED
    BY <1>1, <2>2, <2>9 DEF SnapInv, Marking
<1>19. QED
  BY <1>11, <1>12, <1>13, <1>14, <1>15, <1>16, <1>17, <1>18 DEF IInv

\* What the slide says about the objects from lo on.
LEMMA SlidingFacts ==
  ASSUME NEW m, Memory(m), NEW lo \in Nat, NEW d \in Nat, NEW cur \in Nat, NEW e \in Nat,
         Sliding(m, lo, d, cur, e)
  PROVE  /\ d <= lo /\ d <= e
         /\ \A a \in Todo(m, lo) : /\ a \in DOMAIN m /\ a \in Nat /\ a >= lo /\ m[a].marked
                                   /\ m[a].fwd \in Nat /\ d <= m[a].fwd
                                   /\ Size(m[a]) \in Nat /\ Size(m[a]) >= 2
                                   /\ m[a].fwd + Size(m[a]) <= e
         /\ \A a \in Copies(m, d) : a \in DOMAIN m /\ a \in Nat /\ a < d
         /\ lo < cur => lo \in DOMAIN m
         /\ ~(lo < cur) => Todo(m, lo) = {} /\ d = e
<1>1. \A a \in DOMAIN m : /\ a \in Nat /\ m[a].fwd \in Nat
                          /\ Size(m[a]) \in Nat /\ Size(m[a]) >= 2
  BY ObjectFields DEF Memory
<1>2. /\ d <= lo /\ d <= e /\ lo \in {a \in DOMAIN m : a >= lo} \cup {cur}
      /\ \A a \in Todo(m, lo) : d <= m[a].fwd /\ m[a].fwd + Size(m[a]) <= e
      /\ Todo(m, lo) = {} => d = e
      /\ \A a \in DOMAIN m : a >= lo => a + Size(m[a]) <= cur
  BY DEF Sliding
<1>3. \A a \in Todo(m, lo) : a \in DOMAIN m /\ a >= lo /\ m[a].marked
  BY DEF Todo
<1>4. \A a \in Copies(m, d) : a \in DOMAIN m /\ a < d
  BY DEF Copies
<1>5. lo < cur => lo \in DOMAIN m
  BY <1>2
<1>6. ~(lo < cur) => Todo(m, lo) = {}
  <2>1. ASSUME ~(lo < cur), NEW a \in Todo(m, lo) PROVE FALSE
    <3>1. a \in Nat /\ a >= lo /\ Size(m[a]) \in Nat /\ Size(m[a]) >= 2 /\ a + Size(m[a]) <= cur
      BY <1>1, <1>2, <1>3
    <3>2. QED
      BY <2>1, <3>1
  <2>2. QED
    BY <2>1
<1>7. QED
  BY <1>1, <1>2, <1>3, <1>4, <1>5, <1>6

\* The slide is over when the scan pointer has reached the end of the heap.
LEMMA SlidingOver ==
  ASSUME NEW m, Memory(m), NEW lo \in Nat, NEW d \in Nat, NEW cur \in Nat, NEW e \in Nat,
         Sliding(m, lo, d, cur, e), ~(lo < cur)
  PROVE  d = e /\ Todo(m, lo) = {}
<1>1. ~(lo < cur) => Todo(m, lo) = {} /\ d = e
  BY SlidingFacts
<1>2. QED
  BY <1>1

\* There is one place up to which the heap is filled.
LEMMA SlidingUnique ==
  ASSUME NEW m, Memory(m), NEW lo \in Nat, NEW d \in Nat, NEW b \in Nat, NEW cur \in Nat,
         NEW e \in Nat, Sliding(m, lo, d, cur, e), Sliding(m, lo, b, cur, e)
  PROVE  b = d
<1>1. ASSUME NEW x \in Nat, NEW y \in Nat, Sliding(m, lo, x, cur, e), Sliding(m, lo, y, cur, e)
      PROVE  x <= y
  <2>1. y \in {m[a].fwd : a \in Todo(m, lo)} \cup {e}
    BY <1>1 DEF Sliding
  <2>2. x <= e /\ \A a \in Todo(m, lo) : x <= m[a].fwd
    BY <1>1 DEF Sliding
  <2>3. QED
    BY <2>1, <2>2
<1>2. d <= b /\ b <= d
  BY <1>1
<1>3. QED
  BY <1>2

\* An object that moves keeps its identity, its kind and its fields.
SameData(o, p) == p.id = o.id /\ p.kind = o.kind /\ p.fields = o.fields

\* One step of the slide: the objects are those before it, and the pointers
\* to them mean what they meant.
Slid(m, lo, d, n, lo1, d1) ==
  /\ Places(n, lo1, d1) = Places(m, lo, d)
  /\ \A a \in Todo(n, lo1) \cup Copies(n, d1) :
       \E b \in Todo(m, lo) \cup Copies(m, d) : SameData(m[b], n[a])
  /\ \A b \in Todo(m, lo) \cup Copies(m, d) :
       \E a \in Todo(n, lo1) \cup Copies(n, d1) : SameData(m[b], n[a])
  /\ \A a \in Copies(m, d) : a \in Copies(n, d1) /\ n[a].id = m[a].id
  /\ \A a \in Todo(m, lo) :
       \/ a \in Todo(n, lo1) /\ n[a].fwd = m[a].fwd /\ n[a].id = m[a].id
       \/ m[a].fwd \in Copies(n, d1) /\ n[m[a].fwd].id = m[a].id

\* A garbage object stays where it is.
LEMMA SlidePast ==
  ASSUME NEW m, Memory(m), NEW lo \in Nat, NEW d \in Nat, NEW cur \in Nat, NEW e \in Nat,
         Sliding(m, lo, d, cur, e), lo < cur, ~m[lo].marked,
         NEW lo1, lo1 = lo + Size(m[lo])
  PROVE  lo1 \in Nat /\ Sliding(m, lo1, d, cur, e) /\ Slid(m, lo, d, m, lo1, d)
<1>1. lo \in DOMAIN m /\ d <= lo /\ d <= e
  BY SlidingFacts
<1>2. \A a \in DOMAIN m : a \in Nat /\ Size(m[a]) \in Nat /\ Size(m[a]) >= 2
  BY ObjectFields, SMTT(30) DEF Memory
<1>3. lo1 \in Nat /\ lo < lo1 /\ d <= lo1
  BY <1>1, <1>2
<1>4. /\ lo1 \in DOMAIN m \cup {cur}
      /\ \A b \in DOMAIN m : lo < b => lo1 <= b
  <2>1. lo >= lo
    BY <1>2
  <2>2. QED
    BY <1>1, <2>1 DEF Sliding
<1>5. \A a \in DOMAIN m : (a >= lo1 => a >= lo) /\ (a >= lo /\ a # lo => a >= lo1)
  <2>1. ASSUME NEW a \in DOMAIN m PROVE (a >= lo1 => a >= lo) /\ (a >= lo /\ a # lo => a >= lo1)
    <3>1. a \in Nat /\ (lo < a => lo1 <= a)
      BY <1>2, <1>4
    <3>2. QED
      BY <1>3, <3>1
  <2>2. QED
    BY <2>1
<1>6. Todo(m, lo1) = Todo(m, lo)
  <2>1. ASSUME NEW a \in DOMAIN m PROVE a \in Todo(m, lo1) <=> a \in Todo(m, lo)
    BY <1>5 DEF Todo
  <2>2. QED
    BY <2>1 DEF Todo
<1>7. lo1 \in {a \in DOMAIN m : a >= lo1} \cup {cur}
  BY <1>3, <1>4
<1>8. /\ \A a \in DOMAIN m : a >= lo1 => /\ a + Size(m[a]) \in DOMAIN m \cup {cur}
                                         /\ a + Size(m[a]) <= cur
      /\ \A a, b \in DOMAIN m : lo1 <= a /\ a < b => a + Size(m[a]) <= b
  <2>1. \A a \in DOMAIN m : lo1 <= a => lo <= a
    BY <1>2, <1>3
  <2>2. QED
    BY <1>5, <2>1 DEF Sliding
<1>9. Sliding(m, lo1, d, cur, e)
  BY <1>3, <1>6, <1>7, <1>8 DEF Sliding
<1>10. Slid(m, lo, d, m, lo1, d)
  BY <1>6 DEF Slid, Places, SameData
<1>11. QED
  BY <1>3, <1>9, <1>10

\* The heap after the object o has been copied to d, and those it overlaps
\* are gone.
OverwriteIn(m, d, o) ==
  LET kept == {a \in DOMAIN m : a + Size(m[a]) <= d \/ d + Size(o) <= a}
  IN [a \in kept \cup {d} |-> IF a = d THEN o ELSE m[a]]

\* The copy of an object.
Unmarked(o) == [o EXCEPT !.marked = FALSE]

\* What is where after the first object to move has moved.
LEMMA SlideLayout ==
  ASSUME NEW m, Memory(m), NEW lo \in Nat, NEW d \in Nat, NEW cur \in Nat, NEW e \in Nat,
         Sliding(m, lo, d, cur, e), lo < cur, m[lo].marked,
         NEW lo1, lo1 = lo + Size(m[lo]), NEW d1, d1 = d + Size(m[lo]),
         NEW o, o = Unmarked(m[lo]),
         NEW n, n = OverwriteIn(m, m[lo].fwd, o)
  PROVE  /\ m[lo].fwd = d /\ lo \in Todo(m, lo)
         /\ lo1 \in Nat /\ d1 \in Nat /\ lo < lo1 /\ d < d1 /\ d1 <= lo1 /\ d1 <= e
         /\ Memory(n) /\ d \in DOMAIN n /\ n[d] = o /\ o \in ObjectType
         /\ ~o.marked /\ o.enqueued = m[lo].enqueued /\ SameData(m[lo], o)
         /\ Size(o) = Size(m[lo])
         /\ \A a \in DOMAIN n : a # d => a \in DOMAIN m /\ n[a] = m[a]
         /\ Copies(n, d1) = Copies(m, d) \cup {d}
         /\ Todo(n, lo1) = Todo(m, lo) \ {lo}
         /\ \A a \in Copies(m, d) : n[a] = m[a] /\ a # d /\ a < d
         /\ \A a \in Todo(m, lo) \ {lo} : n[a] = m[a] /\ a # d /\ a > lo /\ d1 <= m[a].fwd
         /\ \A a \in DOMAIN m : a >= lo /\ a # lo => a \in DOMAIN n /\ a >= lo1
         /\ \A a \in DOMAIN n : a >= lo1 => a # d /\ a >= lo /\ a # lo
<1>1. lo \in DOMAIN m /\ d <= lo /\ d <= e
  BY SlidingFacts
<1>2. \A a \in DOMAIN m : /\ a \in Nat /\ m[a].fwd \in Nat /\ m[a] \in ObjectType
                          /\ Size(m[a]) \in Nat /\ Size(m[a]) >= 2
  BY ObjectFields, SMTT(30) DEF Memory
<1>3. PICK s \in Nat : s = Size(m[lo]) /\ s >= 2
  BY <1>1, <1>2
<1>4. lo1 \in Nat /\ d1 \in Nat /\ lo < lo1 /\ d < d1 /\ d1 <= lo1 /\ lo1 = lo + s /\ d1 = d + s
  BY <1>1, <1>3
<1>5. lo \in Todo(m, lo)
  BY <1>1, <1>2 DEF Todo
<1>6. \A a \in Todo(m, lo) : /\ a \in DOMAIN m /\ a \in Nat /\ a >= lo /\ m[a].marked
                             /\ m[a].fwd \in Nat /\ d <= m[a].fwd
                             /\ m[a].fwd + Size(m[a]) <= e
  BY SlidingFacts
<1>7. \A a \in Todo(m, lo) : lo < a => m[lo].fwd + s <= m[a].fwd
  BY <1>3, <1>5 DEF Sliding
<1>8. m[lo].fwd = d
  <2>1. d \in {m[a].fwd : a \in Todo(m, lo)} \cup {e}
    BY DEF Sliding
  <2>2. PICK p \in Nat : p = m[lo].fwd /\ d <= p /\ p + s <= e
    BY <1>3, <1>5, <1>6
  <2>3. d # e
    BY <1>3, <2>2
  <2>4. PICK a \in Todo(m, lo) : d = m[a].fwd
    BY <2>1, <2>3
  <2>5. CASE a = lo
    BY <2>4, <2>5
  <2>6. CASE a # lo
    <3>1. lo < a
      BY <1>6, <2>6
    <3>2. p + s <= d
      BY <1>7, <2>2, <2>4, <3>1
    <3>3. QED
      BY <1>3, <2>2, <3>2
  <2>7. QED
    BY <2>5, <2>6
<1>9. d1 <= e
  BY <1>3, <1>4, <1>5, <1>6, <1>8
<1>10. /\ o \in ObjectType /\ ~o.marked /\ o.enqueued = m[lo].enqueued /\ SameData(m[lo], o)
       /\ o.fields = m[lo].fields
  BY <1>1, <1>2 DEF ObjectType, SameData, Unmarked
<1>11. Size(o) = s
  BY <1>3, <1>10 DEF Size
<1>12. PICK kept : kept = {a \in DOMAIN m : a + Size(m[a]) <= d \/ d1 <= a}
  OBVIOUS
<1>13. n = [a \in kept \cup {d} |-> IF a = d THEN o ELSE m[a]]
  BY <1>4, <1>8, <1>11, <1>12 DEF OverwriteIn
<1>14. /\ DOMAIN n = kept \cup {d} /\ n[d] = o
       /\ \A a \in DOMAIN n : a # d => a \in DOMAIN m /\ n[a] = m[a]
  BY <1>12, <1>13
<1>15. Memory(n)
  <2>1. n = [a \in DOMAIN n |-> n[a]]
    BY <1>13, <1>14
  <2>2. \A a \in DOMAIN n : a \in Nat /\ n[a] \in ObjectType
    BY <1>2, <1>10, <1>14
  <2>3. QED
    BY <2>1, <2>2 DEF Memory
<1>16. \A a \in Copies(m, d) : a \in kept /\ a # d /\ a < d /\ a < d1
  <2>1. ASSUME NEW a \in Copies(m, d) PROVE a \in kept /\ a # d /\ a < d /\ a < d1
    <3>1. a \in DOMAIN m /\ a < d /\ a \in Nat
      BY <1>2 DEF Copies
    <3>2. a + Size(m[a]) <= d
      BY DEF Sliding
    <3>3. QED
      BY <1>4, <1>12, <3>1, <3>2
  <2>2. QED
    BY <2>1
<1>17. \A a \in DOMAIN m : a >= lo /\ a # lo => a \in kept /\ a >= lo1 /\ a > lo /\ a # d
  <2>1. ASSUME NEW a \in DOMAIN m, a >= lo, a # lo
        PROVE  a \in kept /\ a >= lo1 /\ a > lo /\ a # d
    <3>1. a \in Nat /\ lo < a
      BY <1>2, <2>1
    <3>2. lo <= lo /\ lo + s <= a
      BY <1>1, <1>3, <3>1 DEF Sliding
    <3>3. d1 <= a /\ a # d /\ a >= lo1
      BY <1>1, <1>4, <3>1, <3>2
    <3>4. QED
      BY <1>12, <3>1, <3>3
  <2>2. QED
    BY <2>1
<1>18. Copies(n, d1) = Copies(m, d) \cup {d}
  <2>1. ASSUME NEW a \in Copies(n, d1), a # d PROVE a \in Copies(m, d)
    <3>1. a \in kept /\ a < d1 /\ a \in DOMAIN m /\ a \in Nat
      BY <1>2, <1>12, <1>14, <2>1 DEF Copies
    <3>2. a + Size(m[a]) <= d /\ Size(m[a]) \in Nat /\ Size(m[a]) >= 2
      BY <1>2, <1>4, <1>12, <3>1
    <3>3. a < d
      BY <3>1, <3>2
    <3>4. QED
      BY <3>1, <3>3 DEF Copies
  <2>2. \A a \in Copies(m, d) : a \in Copies(n, d1)
    BY <1>14, <1>16 DEF Copies
  <2>3. d \in Copies(n, d1)
    BY <1>4, <1>14 DEF Copies
  <2>4. QED
    BY <2>1, <2>2, <2>3
<1>19. \A a \in DOMAIN n : a >= lo1 => a # d /\ a >= lo /\ a # lo
  <2>1. ASSUME NEW a \in DOMAIN n, a >= lo1 PROVE a # d /\ a >= lo /\ a # lo
    <3>1. a \in Nat
      BY <1>15 DEF Memory
    <3>2. QED
      BY <1>1, <1>4, <2>1, <3>1
  <2>2. QED
    BY <2>1
<1>20. Todo(n, lo1) = Todo(m, lo) \ {lo}
  <2>1. ASSUME NEW a \in Todo(n, lo1) PROVE a \in Todo(m, lo) \ {lo}
    <3>1. a \in DOMAIN n /\ n[a].marked /\ a >= lo1
      BY DEF Todo
    <3>2. a # d /\ a >= lo /\ a # lo
      BY <1>19, <3>1
    <3>3. QED
      BY <1>14, <3>1, <3>2 DEF Todo
  <2>2. ASSUME NEW a \in Todo(m, lo), a # lo PROVE a \in Todo(n, lo1)
    <3>1. a \in DOMAIN m /\ m[a].marked /\ a >= lo
      BY DEF Todo
    <3>2. a \in kept /\ a >= lo1 /\ a # d
      BY <1>17, <2>2, <3>1
    <3>3. QED
      BY <1>14, <3>1, <3>2 DEF Todo
  <2>3. QED
    BY <2>1, <2>2
<1>21. \A a \in Copies(m, d) : n[a] = m[a] /\ a # d /\ a < d
  BY <1>14, <1>16
<1>22. \A a \in Todo(m, lo) \ {lo} : n[a] = m[a] /\ a # d /\ a > lo /\ d1 <= m[a].fwd
  <2>1. ASSUME NEW a \in Todo(m, lo), a # lo
        PROVE  n[a] = m[a] /\ a # d /\ a > lo /\ d1 <= m[a].fwd
    <3>1. a \in kept /\ a > lo /\ a # d
      BY <1>6, <1>17, <2>1
    <3>2. d + s <= m[a].fwd
      BY <1>7, <1>8, <3>1
    <3>3. QED
      BY <1>4, <1>14, <3>1, <3>2
  <2>2. QED
    BY <2>1
<1>23. \A a \in DOMAIN m : a >= lo /\ a # lo => a \in DOMAIN n /\ a >= lo1
  BY <1>14, <1>17
<1>24. QED
  BY <1>3, <1>4, <1>5, <1>8, <1>9, <1>10, <1>11, <1>14, <1>15, <1>18, <1>19, <1>20, <1>21,
     <1>22, <1>23

\* The slide goes on from the next object.
LEMMA SlideObject ==
  ASSUME NEW m, Memory(m), NEW lo \in Nat, NEW d \in Nat, NEW cur \in Nat, NEW e \in Nat,
         Sliding(m, lo, d, cur, e), lo < cur, m[lo].marked,
         NEW lo1, lo1 = lo + Size(m[lo]), NEW d1, d1 = d + Size(m[lo]),
         NEW o, o = Unmarked(m[lo]),
         NEW n, n = OverwriteIn(m, m[lo].fwd, o)
  PROVE  Sliding(n, lo1, d1, cur, e) /\ Slid(m, lo, d, n, lo1, d1)
<1>1. PICK T, C, U : T = Todo(m, lo) /\ C = Copies(m, d) /\ U = T \ {lo}
  OBVIOUS
<1>2. /\ m[lo].fwd = d /\ lo \in T
      /\ lo1 \in Nat /\ d1 \in Nat /\ lo < lo1 /\ d < d1 /\ d1 <= lo1 /\ d1 <= e
      /\ Memory(n) /\ d \in DOMAIN n /\ n[d] = o /\ o \in ObjectType
      /\ ~o.marked /\ o.enqueued = m[lo].enqueued /\ SameData(m[lo], o)
      /\ Size(o) = Size(m[lo])
      /\ \A a \in DOMAIN n : a # d => a \in DOMAIN m /\ n[a] = m[a]
      /\ Copies(n, d1) = C \cup {d} /\ Todo(n, lo1) = U
      /\ \A a \in C : n[a] = m[a] /\ a # d /\ a < d
      /\ \A a \in U : n[a] = m[a] /\ a # d /\ a > lo /\ d1 <= m[a].fwd
      /\ \A a \in DOMAIN m : a >= lo /\ a # lo => a \in DOMAIN n /\ a >= lo1
      /\ \A a \in DOMAIN n : a >= lo1 => a # d /\ a >= lo /\ a # lo
  <2> HIDE <1>1
  <2>1. /\ m[lo].fwd = d /\ lo \in Todo(m, lo)
        /\ lo1 \in Nat /\ d1 \in Nat /\ lo < lo1 /\ d < d1 /\ d1 <= lo1 /\ d1 <= e
        /\ Memory(n) /\ d \in DOMAIN n /\ n[d] = o /\ o \in ObjectType
        /\ ~o.marked /\ o.enqueued = m[lo].enqueued /\ SameData(m[lo], o)
        /\ Size(o) = Size(m[lo])
        /\ \A a \in DOMAIN n : a # d => a \in DOMAIN m /\ n[a] = m[a]
        /\ Copies(n, d1) = Copies(m, d) \cup {d}
        /\ Todo(n, lo1) = Todo(m, lo) \ {lo}
        /\ \A a \in Copies(m, d) : n[a] = m[a] /\ a # d /\ a < d
        /\ \A a \in Todo(m, lo) \ {lo} : n[a] = m[a] /\ a # d /\ a > lo /\ d1 <= m[a].fwd
        /\ \A a \in DOMAIN m : a >= lo /\ a # lo => a \in DOMAIN n /\ a >= lo1
        /\ \A a \in DOMAIN n : a >= lo1 => a # d /\ a >= lo /\ a # lo
    BY SlideLayout
  <2>2. QED
    BY <1>1, <2>1
<1>3. /\ d <= lo /\ d <= e
      /\ \A a \in T : /\ a \in DOMAIN m /\ a \in Nat /\ a >= lo /\ m[a].marked
                      /\ m[a].fwd \in Nat /\ d <= m[a].fwd
                      /\ Size(m[a]) \in Nat /\ Size(m[a]) >= 2
                      /\ m[a].fwd + Size(m[a]) <= e
      /\ \A a \in C : a \in DOMAIN m /\ a \in Nat /\ a < d
      /\ lo \in DOMAIN m
  BY <1>1, SlidingFacts
<1>4. /\ \A a \in DOMAIN m : a >= lo => /\ a + Size(m[a]) \in DOMAIN m \cup {cur}
                                        /\ a + Size(m[a]) <= cur
      /\ \A a, b \in DOMAIN m : lo <= a /\ a < b => a + Size(m[a]) <= b
      /\ \A a \in T :
           /\ d <= m[a].fwd /\ m[a].fwd <= a /\ m[a].fwd + Size(m[a]) <= e
           /\ m[a].fwd + Size(m[a]) \in {m[b].fwd : b \in T} \cup {e}
      /\ \A a, b \in T : a < b => m[a].fwd + Size(m[a]) <= m[b].fwd
      /\ \A a \in C :
           /\ ~m[a].marked /\ ~m[a].enqueued
           /\ a + Size(m[a]) \in C \cup {d} /\ a + Size(m[a]) <= d
      /\ \A a, b \in C : a < b => a + Size(m[a]) <= b
      /\ d > 0 => 0 \in DOMAIN m
      /\ \A a \in T : ~m[a].enqueued
      /\ \A a, b \in T \cup C : m[a].id = m[b].id => a = b
  BY <1>1 DEF Sliding
<1>5. d1 = d + Size(o) /\ lo1 = lo + Size(o)
  BY <1>2
<1>6. \A a \in DOMAIN m : a \in Nat
  BY DEF Memory
<1>7. \A a \in DOMAIN n : a \in Nat /\ (a >= lo1 => a \in DOMAIN m /\ n[a] = m[a] /\ a >= lo /\ a # lo)
  BY <1>2 DEF Memory
<1>8. \A x \in DOMAIN m \cup {cur} : x >= lo1 => x \in DOMAIN n \cup {cur}
  <2>1. ASSUME NEW x \in DOMAIN m, x >= lo1 PROVE x \in DOMAIN n
    <3>1. x >= lo /\ x # lo
      BY <1>2, <1>6, <2>1
    <3>2. QED
      BY <1>2, <3>1
  <2>2. QED
    BY <2>1
<1>9. lo1 \in {a \in DOMAIN n : a >= lo1} \cup {cur}
  <2>1. lo1 \in DOMAIN m \cup {cur}
    <3>1. lo >= lo
      OBVIOUS
    <3>2. QED
      BY <1>3, <1>4, <3>1
  <2>2. lo1 >= lo1
    BY <1>2
  <2>3. QED
    BY <1>8, <2>1, <2>2
<1>10. ASSUME NEW a \in DOMAIN n, a >= lo1
       PROVE  a + Size(n[a]) \in DOMAIN n \cup {cur} /\ a + Size(n[a]) <= cur
  <2>1. a \in DOMAIN m /\ n[a] = m[a] /\ a >= lo /\ a \in Nat
    BY <1>7, <1>10
  <2>2. Size(m[a]) \in Nat
    BY <2>1, ObjectFields DEF Memory
  <2>3. /\ a + Size(m[a]) \in DOMAIN m \cup {cur} /\ a + Size(m[a]) <= cur
    BY <1>4, <2>1
  <2>4. a + Size(m[a]) >= lo1
    BY <1>2, <1>10, <2>1, <2>2
  <2>5. QED
    BY <1>8, <2>1, <2>3, <2>4
<1>11. ASSUME NEW a \in DOMAIN n, NEW b \in DOMAIN n, lo1 <= a, a < b
       PROVE  a + Size(n[a]) <= b
  <2>1. a >= lo1 /\ b >= lo1 /\ a \in Nat /\ b \in Nat
    <3>1. a \in Nat /\ b \in Nat /\ lo1 \in Nat
      BY <1>2, <1>7
    <3>2. QED
      BY <1>11, <3>1
  <2>2. a \in DOMAIN m /\ n[a] = m[a] /\ a >= lo /\ b \in DOMAIN m
    BY <1>7, <2>1
  <2>3. lo <= a
    BY <2>1, <2>2
  <2>4. QED
    BY <1>4, <1>11, <2>2, <2>3
<1>12. \A a \in U : a \in T /\ n[a].fwd = m[a].fwd /\ Size(n[a]) = Size(m[a]) /\ n[a].id = m[a].id
                    /\ n[a].enqueued = m[a].enqueued
  BY <1>1, <1>2
<1>13. {n[b].fwd : b \in U} = {m[b].fwd : b \in U}
  BY <1>12
<1>14. {m[b].fwd : b \in T} = {m[b].fwd : b \in U} \cup {d}
  BY <1>1, <1>2
<1>15. \A a \in T : m[a].fwd + Size(m[a]) \in {n[b].fwd : b \in U} \cup {e}
  <2>1. ASSUME NEW a \in T PROVE m[a].fwd + Size(m[a]) # d
    BY <1>3
  <2>2. QED
    BY <1>4, <1>13, <1>14, <2>1
<1>16. d1 \in {n[b].fwd : b \in U} \cup {e}
  <2>1. lo \in T /\ m[lo].fwd = d
    BY <1>2
  <2>2. m[lo].fwd + Size(m[lo]) \in {n[b].fwd : b \in U} \cup {e}
    BY <1>15, <2>1
  <2>3. d1 = m[lo].fwd + Size(m[lo])
    BY <2>1
  <2>4. QED
    BY ONLY <2>2, <2>3
<1>17. \A a \in U :
         /\ d1 <= n[a].fwd /\ n[a].fwd <= a /\ n[a].fwd + Size(n[a]) <= e
         /\ n[a].fwd + Size(n[a]) \in {n[b].fwd : b \in U} \cup {e}
  BY <1>2, <1>4, <1>12, <1>15, ZenonT(60)
<1>18. \A a, b \in U : a < b => n[a].fwd + Size(n[a]) <= n[b].fwd
  BY <1>4, <1>12
<1>19. U = {} => d1 = e
  BY <1>16
<1>20. PICK E : E = C \cup {d}
  OBVIOUS
<1>21. \A a \in E :
         /\ ~n[a].marked /\ ~n[a].enqueued
         /\ a + Size(n[a]) \in E \cup {d1} /\ a + Size(n[a]) <= d1
  <2>1. ASSUME NEW a \in C
        PROVE  /\ ~n[a].marked /\ ~n[a].enqueued
               /\ a + Size(n[a]) \in E \cup {d1} /\ a + Size(n[a]) <= d1
    <3>1. n[a] = m[a] /\ a \in Nat
      BY <1>2, <1>3
    <3>2. Size(m[a]) \in Nat
      BY <1>3, ObjectFields DEF Memory
    <3>3. /\ ~m[a].marked /\ ~m[a].enqueued
          /\ a + Size(m[a]) \in C \cup {d} /\ a + Size(m[a]) <= d
      BY <1>4
    <3>4. a + Size(m[a]) <= d1
      BY <1>2, <3>1, <3>2, <3>3
    <3>5. QED
      BY <1>20, <3>1, <3>3, <3>4
  <2>2. /\ ~n[d].marked /\ ~n[d].enqueued
        /\ d + Size(n[d]) \in E \cup {d1} /\ d + Size(n[d]) <= d1
    <3>1. ~o.enqueued /\ ~o.marked /\ n[d] = o /\ d1 \in Nat
      BY <1>2, <1>4
    <3>2. QED
      BY <1>5, <3>1
  <2>3. QED
    BY <1>20, <2>1, <2>2
<1>22. \A a, b \in E : a < b => a + Size(n[a]) <= b
  <2>1. ASSUME NEW a \in E, NEW b \in E, a < b PROVE a + Size(n[a]) <= b
    <3>1. a \in C
      <4>1. CASE a = d
        <5>1. b = d \/ b < d
          BY <1>2, <1>20
        <5>2. b \in Nat
          BY <1>3, <1>20
        <5>3. QED
          BY <2>1, <4>1, <5>1, <5>2
      <4>2. QED
        BY <1>20, <4>1
    <3>2. n[a] = m[a]
      BY <1>2, <3>1
    <3>3. CASE b \in C
      BY <1>4, <2>1, <3>1, <3>2, <3>3
    <3>4. CASE b = d
      BY <1>4, <3>1, <3>2, <3>4
    <3>5. QED
      BY <1>20, <3>3, <3>4
  <2>2. QED
    BY <2>1
<1>23. 0 \in DOMAIN n
  <2>1. CASE d = 0
    BY <1>2, <2>1
  <2>2. CASE d > 0
    <3>1. 0 \in C
      BY <1>1, <1>4, <2>2 DEF Copies
    <3>2. 0 \in Copies(n, d1)
      BY <1>2, <3>1
    <3>3. QED
      BY <3>2 DEF Copies
  <2>3. QED
    BY <2>1, <2>2
<1>24. \A a, b \in U \cup E : n[a].id = n[b].id => a = b
  <2>1. \A a \in U \cup C : n[a].id = m[a].id /\ a # d /\ a # lo /\ a \in T \cup C
    <3>1. \A a \in C : a # lo
      BY <1>3
    <3>2. QED
      BY <1>1, <1>2, <1>12, <3>1
  <2>2. n[d].id = m[lo].id /\ lo \in T \cup C
    BY <1>2 DEF SameData
  <2>3. \A a \in U \cup C : n[a].id # n[d].id
    BY <1>4, <2>1, <2>2
  <2>4. \A a, b \in U \cup C : n[a].id = n[b].id => a = b
    BY <1>4, <2>1
  <2>5. \A a \in U \cup E : a = d \/ a \in U \cup C
    BY <1>20
  <2>6. ASSUME NEW a \in U \cup E, NEW b \in U \cup E, n[a].id = n[b].id PROVE a = b
    <3>1. CASE a = d /\ b = d
      BY <3>1
    <3>2. CASE a = d /\ b # d
      BY <2>3, <2>5, <2>6, <3>2
    <3>3. CASE a # d /\ b = d
      BY <2>3, <2>5, <2>6, <3>3
    <3>4. CASE a # d /\ b # d
      BY <2>4, <2>5, <2>6, <3>4
    <3>5. QED
      BY <3>1, <3>2, <3>3, <3>4
  <2>7. QED
    BY <2>6
<1>25. \A a \in U : ~n[a].enqueued
  BY <1>4, <1>12
<1>26. Copies(n, d1) = E /\ Todo(n, lo1) = U
  BY <1>2, <1>20
<1>27. Sliding(n, lo1, d1, cur, e)
  <2>1. /\ \A a \in DOMAIN n : a >= lo1 => /\ a + Size(n[a]) \in DOMAIN n \cup {cur}
                                           /\ a + Size(n[a]) <= cur
        /\ \A a, b \in DOMAIN n : lo1 <= a /\ a < b => a + Size(n[a]) <= b
    BY <1>10, <1>11
  <2>2. d1 <= lo1 /\ d1 <= e
    BY <1>2
  <2>3. d1 \in {n[b].fwd : b \in Todo(n, lo1)} \cup {e}
    BY <1>16, <1>26
  <2>4. /\ \A a \in Todo(n, lo1) :
             /\ d1 <= n[a].fwd /\ n[a].fwd <= a /\ n[a].fwd + Size(n[a]) <= e
             /\ n[a].fwd + Size(n[a]) \in {n[b].fwd : b \in Todo(n, lo1)} \cup {e}
        /\ \A a, b \in Todo(n, lo1) : a < b => n[a].fwd + Size(n[a]) <= n[b].fwd
        /\ Todo(n, lo1) = {} => d1 = e
        /\ \A a \in Todo(n, lo1) : ~n[a].enqueued
    BY <1>17, <1>18, <1>19, <1>25, <1>26
  <2>5. /\ \A a \in Copies(n, d1) :
             /\ ~n[a].marked /\ ~n[a].enqueued
             /\ a + Size(n[a]) \in Copies(n, d1) \cup {d1} /\ a + Size(n[a]) <= d1
        /\ \A a, b \in Copies(n, d1) : a < b => a + Size(n[a]) <= b
    BY <1>21, <1>22, <1>26
  <2>6. \A a, b \in Todo(n, lo1) \cup Copies(n, d1) : n[a].id = n[b].id => a = b
    BY <1>24, <1>26
  <2>7. d1 > 0 => 0 \in DOMAIN n
    BY <1>23
  <2>8. QED
    BY <1>9, <2>1, <2>2, <2>3, <2>4, <2>5, <2>6, <2>7 DEF Sliding
<1>28. Slid(m, lo, d, n, lo1, d1)
  <2>1. Places(n, lo1, d1) = Places(m, lo, d)
    <3>1. Places(n, lo1, d1) = C \cup {d} \cup {m[b].fwd : b \in U}
      BY <1>13, <1>20, <1>26 DEF Places
    <3>2. Places(m, lo, d) = C \cup ({m[b].fwd : b \in U} \cup {d})
      BY <1>1, <1>14 DEF Places
    <3>3. QED
      BY <3>1, <3>2
  <2>2. \A a \in U \cup E : \E b \in T \cup C : SameData(m[b], n[a])
    <3>1. \A a \in U \cup C : a \in T \cup C /\ SameData(m[a], n[a])
      BY <1>1, <1>2 DEF SameData
    <3>2. lo \in T /\ SameData(m[lo], n[d])
      BY <1>2
    <3>3. QED
      BY <1>20, <3>1, <3>2
  <2>3. \A b \in T \cup C : \E a \in U \cup E : SameData(m[b], n[a])
    <3>1. \A a \in U \cup C : SameData(m[a], n[a])
      BY <1>2 DEF SameData
    <3>2. d \in E /\ SameData(m[lo], n[d])
      BY <1>2, <1>20
    <3>3. \A b \in T \cup C : b = lo \/ b \in U \cup C
      BY <1>1
    <3>4. QED
      BY <1>20, <3>1, <3>2, <3>3
  <2>4. \A a \in C : a \in E /\ n[a].id = m[a].id
    BY <1>2, <1>20
  <2>5. \A a \in T : \/ a \in U /\ n[a].fwd = m[a].fwd /\ n[a].id = m[a].id
                     \/ m[a].fwd \in E /\ n[m[a].fwd].id = m[a].id
    <3>1. m[lo].fwd \in E /\ n[m[lo].fwd].id = m[lo].id
      BY <1>2, <1>20 DEF SameData
    <3>2. QED
      BY <1>1, <1>12, <3>1
  <2>6. QED
    BY <1>1, <1>26, <2>1, <2>2, <2>3, <2>4, <2>5 DEF Slid
<1>29. QED
  BY <1>27, <1>28

\* A value has become the same after the step as before it.
LEMMA SlidValue ==
  ASSUME NEW m, NEW lo, NEW d, NEW n, NEW lo1, NEW d1, Slid(m, lo, d, n, lo1, d1),
         NEW v, NEW w, BecomesNew(m, lo, d, v, w)
  PROVE  BecomesNew(n, lo1, d1, v, w)
<1>1. CASE v \in {0, Unboxed} /\ w = v
  BY <1>1 DEF BecomesNew
<1>2. ASSUME NEW a \in Copies(m, d), v = heap.begin + Hdr + a, w = m[a].id
      PROVE  BecomesNew(n, lo1, d1, v, w)
  BY <1>2 DEF BecomesNew, Slid
<1>3. ASSUME NEW a \in Todo(m, lo), v = heap.begin + Hdr + m[a].fwd, w = m[a].id
      PROVE  BecomesNew(n, lo1, d1, v, w)
  <2>1. \/ a \in Todo(n, lo1) /\ n[a].fwd = m[a].fwd /\ n[a].id = m[a].id
        \/ m[a].fwd \in Copies(n, d1) /\ n[m[a].fwd].id = m[a].id
    BY DEF Slid
  <2>2. CASE a \in Todo(n, lo1) /\ n[a].fwd = m[a].fwd /\ n[a].id = m[a].id
    BY <1>3, <2>2 DEF BecomesNew
  <2>3. CASE m[a].fwd \in Copies(n, d1) /\ n[m[a].fwd].id = m[a].id
    BY <1>3, <2>3 DEF BecomesNew
  <2>4. QED
    BY <2>1, <2>2, <2>3
<1>4. QED
  BY <1>1, <1>2, <1>3 DEF BecomesNew

\* A step of the slide keeps what an object means, and where its references
\* lead.
LEMMA SlidObject ==
  ASSUME NEW m, NEW lo, NEW d, NEW n, NEW lo1, NEW d1, Slid(m, lo, d, n, lo1, d1),
         NEW o, NEW p, SameData(o, p)
  PROVE  /\ \A x : IsNew(m, lo, d, o, x) => IsNew(n, lo1, d1, p, x)
         /\ \A b, A : RefersTo(o, b, A) => RefersTo(p, b, A)
<1>1. p.id = o.id /\ p.kind = o.kind /\ p.fields = o.fields
  BY DEF SameData
<1>2. FirstField(p) = FirstField(o)
  BY <1>1 DEF FirstField
<1>3. ASSUME NEW x, IsNew(m, lo, d, o, x) PROVE IsNew(n, lo1, d1, p, x)
  <2>1. /\ SameShape(o, x)
        /\ \A i \in FirstField(o)..Len(o.fields) : BecomesNew(m, lo, d, o.fields[i], x.fields[i])
    BY <1>3 DEF IsNew
  <2>2. \A i \in FirstField(o)..Len(o.fields) : BecomesNew(n, lo1, d1, o.fields[i], x.fields[i])
    BY <2>1, SlidValue
  <2>3. SameShape(p, x)
    BY <1>1, <1>2, <2>1 DEF SameShape
  <2>4. QED
    BY <1>1, <1>2, <2>2, <2>3 DEF IsNew
<1>4. \A b, A : RefersTo(o, b, A) => RefersTo(p, b, A)
  BY <1>1, <1>2 DEF RefersTo
<1>5. QED
  BY <1>3, <1>4

\* What holds while the objects slide.
LEMMA MoveFacts ==
  ASSUME IInv, phase = "move"
  PROVE  /\ Memory(mem) /\ heap.current \in Nat /\ iter \in Nat /\ free \in Nat
         /\ heap.begin \in Nat \ {0} /\ heap.size \in Nat
         /\ old.current = heap.current /\ free + Words(req) <= heap.size
         /\ stack \in Seq(Values) /\ Len(stack) \in Nat
         /\ SnapReach /\ SnapTyped /\ Len(snap.stack) = Len(stack)
         /\ \E d \in 0..free :
              /\ Sliding(mem, iter, d, heap.current, free)
              /\ \A s \in DOMAIN stack : stack[s] \in ValuesAt(heap.begin, Places(mem, iter, d))
              /\ \A a \in Todo(mem, iter) \cup Copies(mem, d) :
                   RefersTo(mem[a], heap.begin, Places(mem, iter, d))
              /\ \A s \in DOMAIN stack : BecomesNew(mem, iter, d, stack[s], snap.stack[s])
              /\ \A a \in Todo(mem, iter) \cup Copies(mem, d) : \E x \in snap.objs :
                   IsNew(mem, iter, d, mem[a], x)
              /\ \A x \in snap.objs : \E a \in Todo(mem, iter) \cup Copies(mem, d) :
                   IsNew(mem, iter, d, mem[a], x)
<1>1. /\ Memory(mem) /\ heap.current \in Nat /\ heap.begin \in Nat \ {0} /\ heap.size \in Nat
  BY HeapFacts
<1>2. iter \in Nat /\ free \in Nat /\ stack \in Seq(Values)
  BY DEF IInv, Typed
<1>3. Len(stack) \in Nat
  BY <1>2
<1>4. old.current = heap.current /\ free + Words(req) <= heap.size
  BY DEF IInv, CompactInv
<1>5. SnapReach /\ SnapTyped
  BY DEF IInv, SnapInv
<1>6. PICK d \in 0..free :
        /\ Sliding(mem, iter, d, heap.current, free)
        /\ \A s \in DOMAIN stack : stack[s] \in ValuesAt(heap.begin, Places(mem, iter, d))
        /\ \A a \in Todo(mem, iter) \cup Copies(mem, d) :
             RefersTo(mem[a], heap.begin, Places(mem, iter, d))
  BY DEF IInv, MoveInv
<1>7. /\ Len(snap.stack) = Len(stack)
      /\ \A s \in DOMAIN stack : BecomesNew(mem, iter, d, stack[s], snap.stack[s])
      /\ \A a \in Todo(mem, iter) \cup Copies(mem, d) : \E x \in snap.objs :
           IsNew(mem, iter, d, mem[a], x)
      /\ \A x \in snap.objs : \E a \in Todo(mem, iter) \cup Copies(mem, d) :
           IsNew(mem, iter, d, mem[a], x)
  BY <1>6 DEF IInv, SnapInv
<1>8. QED
  BY <1>1, <1>2, <1>3, <1>4, <1>5, <1>6, <1>7

\* One turn of physically_relocate: garbage is passed over, a survivor copied
\* to the end of the copies before it, over nothing that is still needed.
LEMMA MoveStep == IInv /\ Move => IInv'
<1> SUFFICES ASSUME IInv, Move PROVE IInv'
  OBVIOUS
<1>1. /\ phase = "move" /\ iter < heap.current /\ phase' = phase
      /\ iter' = NextObject(iter)
      /\ UNCHANGED <<heap, mapped, stack, extra, req, root, head, tail, obj, fld,
                     old, free, nextId, snap>>
  BY DEF Move, MoreObjects, markVars
<1>2. /\ Memory(mem) /\ heap.current \in Nat /\ iter \in Nat /\ free \in Nat
      /\ heap.begin \in Nat \ {0} /\ heap.size \in Nat
      /\ old.current = heap.current /\ free + Words(req) <= heap.size
      /\ stack \in Seq(Values) /\ Len(stack) \in Nat
      /\ SnapReach /\ SnapTyped /\ Len(snap.stack) = Len(stack)
  BY <1>1, MoveFacts
<1>3. PICK d \in 0..free :
        /\ Sliding(mem, iter, d, heap.current, free)
        /\ \A s \in DOMAIN stack : stack[s] \in ValuesAt(heap.begin, Places(mem, iter, d))
        /\ \A a \in Todo(mem, iter) \cup Copies(mem, d) :
             RefersTo(mem[a], heap.begin, Places(mem, iter, d))
        /\ \A s \in DOMAIN stack : BecomesNew(mem, iter, d, stack[s], snap.stack[s])
        /\ \A a \in Todo(mem, iter) \cup Copies(mem, d) : \E x \in snap.objs :
             IsNew(mem, iter, d, mem[a], x)
        /\ \A x \in snap.objs : \E a \in Todo(mem, iter) \cup Copies(mem, d) :
             IsNew(mem, iter, d, mem[a], x)
  BY <1>1, MoveFacts
<1>3a. PICK m, n : m = mem /\ n = mem'
  OBVIOUS
<1>3b. PICK lo \in Nat, cur \in Nat, e \in Nat :
         lo = iter /\ cur = heap.current /\ e = free
  BY <1>2
<1>4. m = mem /\ lo = iter /\ cur = heap.current /\ e = free
  BY <1>3a, <1>3b
<1>5. /\ Memory(m) /\ d \in Nat /\ Sliding(m, lo, d, cur, e) /\ lo < cur
  BY <1>1, <1>2, <1>3, <1>4
<1>6. lo \in DOMAIN m /\ d <= e
  BY <1>5, SlidingFacts
<1>7. PICK lo1 : lo1 = lo + Size(m[lo])
  OBVIOUS
<1>8. iter' = lo1
  BY <1>1, <1>4, <1>7 DEF NextObject
<1>9. \A a \in DOMAIN m : a \in Nat /\ Size(m[a]) \in Nat
  BY <1>5, ObjectFields DEF Memory
<1>10. lo1 \in Nat
  BY <1>6, <1>7, <1>9
<1>11. PICK d1 \in 0..e :
         /\ n = mem' /\ Memory(n) /\ lo1 \in Nat
         /\ Sliding(n, lo1, d1, cur, e) /\ Slid(m, lo, d, n, lo1, d1)
         /\ \A a \in DOMAIN n : \E b \in DOMAIN m : n[a].id = m[b].id
  <2>1. CASE m[lo].marked
    <3>1. PICK o : o = Unmarked(m[lo])
      OBVIOUS
    <3>2. n = OverwriteIn(m, m[lo].fwd, o)
      BY <1>3a, <1>4, <2>1, <3>1 DEF Move, Overwrite, OverwriteIn, Unmarked
    <3>3. PICK d1 : d1 = d + Size(m[lo])
      OBVIOUS
    <3>4. Sliding(n, lo1, d1, cur, e) /\ Slid(m, lo, d, n, lo1, d1)
      BY <1>5, <1>7, <2>1, <3>1, <3>2, <3>3, SlideObject
    <3>5. /\ d1 \in Nat /\ d1 <= e
          /\ Memory(n) /\ n[d] = o /\ SameData(m[lo], o)
          /\ \A a \in DOMAIN n : a # d => a \in DOMAIN m /\ n[a] = m[a]
      BY <1>5, <1>7, <2>1, <3>1, <3>2, <3>3, SlideLayout
    <3>6. \A a \in DOMAIN n : \E b \in DOMAIN m : n[a].id = m[b].id
      BY <1>6, <3>5 DEF SameData
    <3>7. d1 \in 0..e
      BY <3>5
    <3>8. QED
      BY <1>3a, <1>10, <3>4, <3>5, <3>6, <3>7
  <2>2. CASE ~m[lo].marked
    <3>1. n = m
      BY <1>3a, <1>4, <2>2 DEF Move
    <3>2. Sliding(m, lo1, d, cur, e) /\ Slid(m, lo, d, m, lo1, d)
      BY <1>5, <1>7, <2>2, SlidePast
    <3>3. d \in 0..e
      BY <1>4
    <3>4. Sliding(n, lo1, d, cur, e) /\ Slid(m, lo, d, n, lo1, d) /\ Memory(n)
      BY <1>5, <3>1, <3>2
    <3>5. \A a \in DOMAIN n : \E b \in DOMAIN m : n[a].id = m[b].id
      BY <3>1
    <3>6. QED
      BY <1>3a, <1>10, <3>3, <3>4, <3>5
  <2>3. QED
    BY <2>1, <2>2
<1>12. Places(n, lo1, d1) = Places(m, lo, d)
  BY <1>11 DEF Slid
<1>13. ASSUME NEW a \in Todo(n, lo1) \cup Copies(n, d1)
       PROVE  /\ RefersTo(n[a], heap.begin, Places(n, lo1, d1))
              /\ \E x \in snap.objs : IsNew(n, lo1, d1, n[a], x)
  <2>1. PICK b \in Todo(m, lo) \cup Copies(m, d) : SameData(m[b], n[a])
    BY <1>11, <1>13 DEF Slid
  <2>2. RefersTo(m[b], heap.begin, Places(m, lo, d))
    BY <1>3, <1>4
  <2>3. PICK x \in snap.objs : IsNew(m, lo, d, m[b], x)
    BY <1>3, <1>4
  <2>4. QED
    BY <1>11, <1>12, <2>1, <2>2, <2>3, SlidObject
<1>14. ASSUME NEW x \in snap.objs
       PROVE  \E a \in Todo(n, lo1) \cup Copies(n, d1) : IsNew(n, lo1, d1, n[a], x)
  <2>1. PICK b \in Todo(m, lo) \cup Copies(m, d) : IsNew(m, lo, d, m[b], x)
    BY <1>3, <1>4
  <2>2. PICK a \in Todo(n, lo1) \cup Copies(n, d1) : SameData(m[b], n[a])
    BY <1>11 DEF Slid
  <2>3. QED
    BY <1>11, <2>1, <2>2, SlidObject
<1>15. \A s \in DOMAIN stack : /\ stack[s] \in ValuesAt(heap.begin, Places(n, lo1, d1))
                               /\ BecomesNew(n, lo1, d1, stack[s], snap.stack[s])
  <2>1. \A s \in DOMAIN stack : BecomesNew(m, lo, d, stack[s], snap.stack[s])
    BY <1>3, <1>4
  <2>2. \A s \in DOMAIN stack : BecomesNew(n, lo1, d1, stack[s], snap.stack[s])
    BY <1>11, <2>1, SlidValue
  <2>3. QED
    BY <1>3, <1>4, <1>12, <2>2
<1>16. phase \in InBuiltin /\ phase \in Phases
  BY <1>1 DEF InBuiltin, Phases
<1>17. Typed'
  <2>1. mem' \in [DOMAIN mem' -> ObjectType] /\ DOMAIN mem' \subseteq Nat
    BY <1>11 DEF Memory
  <2>2. QED
    BY <1>1, <1>8, <1>11, <2>1 DEF IInv, Typed
<1>18. PagesInv'
  BY <1>1 DEF IInv, PagesInv, PagesOf
<1>19. StackInv'
  BY <1>1 DEF IInv, StackInv, Base, Operands
<1>20. HeapInv'
  <2>1. /\ heap.current <= heap.size
        /\ \A a \in DOMAIN m : 0 < m[a].id /\ m[a].id < nextId
    BY <1>1, <1>4 DEF IInv, HeapInv
  <2>2. \A a \in DOMAIN n : 0 < n[a].id /\ n[a].id < nextId
    BY <1>11, <2>1
  <2>3. QED
    BY <1>1, <1>11, <2>1, <2>2 DEF HeapInv
<1>21. Sound' /\ Clean' /\ MarkInv' /\ QInv'
  BY <1>1 DEF Sound, Clean, MarkInv, QInv, Marking
<1>22. CompactInv'
  <2>1. free' + Words(req)' <= heap'.size /\ old'.current = heap'.current
    BY <1>1, <1>2 DEF Words
  <2>2. QED
    BY <1>1, <2>1 DEF CompactInv
<1>23. MoveInv'
  <2>1. /\ Sliding(n, lo1, d1, cur, e)
        /\ \A s \in DOMAIN stack : stack[s] \in ValuesAt(heap.begin, Places(n, lo1, d1))
        /\ \A a \in Todo(n, lo1) \cup Copies(n, d1) :
             RefersTo(n[a], heap.begin, Places(n, lo1, d1))
    BY <1>11, <1>13, <1>15
  <2>2. QED
    BY <1>1, <1>4, <1>8, <1>11, <2>1 DEF MoveInv
<1>24. SnapInv'
  <2>1. SnapReach' /\ SnapTyped' /\ Len(snap'.stack) = Len(stack')
    BY <1>1, <1>2 DEF SnapReach, SnapTyped
  <2>2. ASSUME NEW c \in 0..e, Sliding(n, lo1, c, cur, e) PROVE c = d1
    <3>1. c \in Nat /\ d1 \in Nat /\ Sliding(n, lo1, d1, cur, e) /\ Memory(n) /\ lo1 \in Nat
      BY <1>11
    <3>2. QED
      BY ONLY <2>2, <3>1, SlidingUnique, e \in Nat, cur \in Nat
  <2>3. \A v, w : BecomesNew(mem, iter, d1, v, w)' <=> BecomesNew(n, lo1, d1, v, w)
    BY <1>1, <1>8, <1>11 DEF BecomesNew
  <2>4. \A o, x : IsNew(mem, iter, d1, o, x)' <=> IsNew(n, lo1, d1, o, x)
    BY <2>3 DEF IsNew
  <2>5. ASSUME NEW s \in DOMAIN stack PROVE BecomesNew(mem, iter, d1, stack[s], snap.stack[s])'
    <3>1. PICK v, w : v = stack[s] /\ w = snap.stack[s]
      OBVIOUS
    <3>2. BecomesNew(mem, iter, d1, v, w)'
      BY <1>15, <2>3, <3>1
    <3>3. QED
      BY <1>1, <3>1, <3>2 DEF BecomesNew
  <2>6. ASSUME NEW a, NEW x, IsNew(n, lo1, d1, n[a], x)
        PROVE  IsNew(mem, iter, d1, mem[a], x)'
    <3>1. PICK o : o = n[a]
      OBVIOUS
    <3>2. IsNew(mem, iter, d1, o, x)'
      BY <2>4, <2>6, <3>1
    <3>3. QED
      BY <1>11, <3>1, <3>2 DEF IsNew
  <2>7. /\ \A s \in DOMAIN stack : BecomesNew(mem, iter, d1, stack[s], snap.stack[s])'
        /\ \A a \in Todo(n, lo1) \cup Copies(n, d1) : \E x \in snap.objs :
             IsNew(mem, iter, d1, mem[a], x)'
        /\ \A x \in snap.objs : \E a \in Todo(n, lo1) \cup Copies(n, d1) :
             IsNew(mem, iter, d1, mem[a], x)'
    BY <1>13, <1>14, <2>5, <2>6
  <2>8. ASSUME NEW c \in 0..e, Sliding(n, lo1, c, cur, e)
        PROVE  /\ \A s \in DOMAIN stack : BecomesNew(mem, iter, c, stack[s], snap.stack[s])'
               /\ \A a \in Todo(n, lo1) \cup Copies(n, c) : \E x \in snap.objs :
                    IsNew(mem, iter, c, mem[a], x)'
               /\ \A x \in snap.objs : \E a \in Todo(n, lo1) \cup Copies(n, c) :
                    IsNew(mem, iter, c, mem[a], x)'
    BY <2>2, <2>7, <2>8
  <2>9. QED
    BY <1>1, <1>4, <1>8, <1>11, <2>1, <2>8 DEF SnapInv, Marking
<1>25. QED
  BY <1>17, <1>18, <1>19, <1>20, <1>21, <1>22, <1>23, <1>24 DEF IInv

---------------------------------------------------------------------------
(***************************************************************************)
(* The end of the compaction: the store is the one of the snapshot.        *)
(***************************************************************************)

\* The value v of the heap is w in the snapshot.
IsAt(v, w) == \/ v \in {0, Unboxed} /\ w = v
              \/ \E a \in DOMAIN mem : v = heap.begin + Hdr + a /\ w = mem[a].id
IsObjectOf(o, x) ==
  /\ SameShape(o, x)
  /\ \A i \in FirstField(o)..Len(o.fields) : IsAt(o.fields[i], x.fields[i])

\* The heap holds the objects of the snapshot and nothing else.
Restored ==
  /\ Memory(mem) /\ heap.begin \in Nat \ {0} /\ heap.current \in Nat
  /\ Tiled(mem, heap.current) /\ stack \in Seq(Values)
  /\ \A a, b \in DOMAIN mem : mem[a].id = mem[b].id => a = b
  /\ SnapReach /\ SnapTyped /\ Len(snap.stack) = Len(stack)
  /\ \A s \in DOMAIN stack : IsAt(stack[s], snap.stack[s])
  /\ \A a \in DOMAIN mem : \E x \in snap.objs : IsObjectOf(mem[a], x)
  /\ \A x \in snap.objs : \E a \in DOMAIN mem : IsObjectOf(mem[a], x)

\* The two sorts of values.
LEMMA RestoredValues ==
  ASSUME Restored, NEW v, NEW w, IsAt(v, w)
  PROVE  /\ AbsValue(v) = w
         /\ \/ w \in {0, Unboxed} /\ ~IsValidHeapPointer(v)
            \/ /\ Target(heap, v) \in DOMAIN mem /\ IsValidHeapPointer(v)
               /\ w = mem[Target(heap, v)].id
<1>1. /\ Memory(mem) /\ heap.begin \in Nat \ {0} /\ heap.current \in Nat
      /\ Tiled(mem, heap.current)
  BY DEF Restored
<1>2. CASE v \in {0, Unboxed} /\ w = v
  <2>0. ~InChunk(heap, 0)
    <3>1. PICK b \in Nat \ {0} : b = heap.begin
      BY <1>1
    <3>2. ~(b <= 0)
      OBVIOUS
    <3>3. QED
      BY <3>1, <3>2 DEF InChunk
  <2>1. v = Unboxed \/ (v = 0 /\ ~InChunk(heap, v))
    <3>1. CASE v = Unboxed
      BY <3>1
    <3>2. CASE v = 0
      BY <2>0, <3>2
    <3>3. QED
      BY <1>2, <3>1, <3>2
  <2>2. QED
    BY <1>2, <2>1 DEF AbsValue, IsValidHeapPointer, IsValidPointer
<1>3. ASSUME NEW a \in DOMAIN mem, v = heap.begin + Hdr + a, w = mem[a].id
      PROVE  /\ AbsValue(v) = w
             /\ Target(heap, v) \in DOMAIN mem /\ IsValidHeapPointer(v)
             /\ w = mem[Target(heap, v)].id
  <2>1. /\ v = Content(heap, a) /\ v # Unboxed /\ InChunk(heap, v) /\ Target(heap, v) = a
    BY <1>1, <1>3, PointerTo
  <2>2. QED
    BY <1>3, <2>1 DEF AbsValue, IsValidHeapPointer, IsValidPointer
<1>4. QED
  BY <1>2, <1>3 DEF IsAt

\* The fields of an object of the snapshot.
LEMMA RestoredObjects ==
  ASSUME Restored, NEW a \in DOMAIN mem, NEW x \in snap.objs, IsObjectOf(mem[a], x)
  PROVE  /\ x = AbsObject(mem[a]) /\ x.id = mem[a].id
         /\ SnapFirst(x) = FirstField(mem[a]) /\ Len(x.fields) = Len(mem[a].fields)
<1>1. mem[a] \in ObjectType
  BY DEF Restored, Memory
<1>2. PICK l \in Nat, f \in Nat \ {0} :
        l = Len(mem[a].fields) /\ f = FirstField(mem[a])
  BY <1>1, ObjectFields
<1>3. PICK fs \in Seq(Values) : fs = mem[a].fields /\ DOMAIN fs = 1..l
  BY <1>1, <1>2, ObjectFields
<1>4. /\ x.id = mem[a].id /\ x.kind = mem[a].kind /\ Len(x.fields) = l
      /\ \A i \in 1..l : i < f => x.fields[i] = fs[i]
      /\ \A i \in f..l : IsAt(fs[i], x.fields[i])
  BY <1>2, <1>3 DEF IsObjectOf, SameShape
<1>5. x \in [id : Nat, kind : Kinds, fields : Seq(Values)]
  BY DEF Restored, SnapTyped
<1>6. PICK gs \in Seq(Values) : gs = x.fields
  BY <1>5
<1>7. DOMAIN gs = 1..l /\ gs = [i \in 1..l |-> gs[i]]
  BY <1>4, <1>6
<1>8. \A i \in 1..l : i >= f => gs[i] = AbsValue(fs[i])
  <2>1. \A i \in f..l : AbsValue(fs[i]) = x.fields[i]
    BY <1>4, RestoredValues
  <2>2. \A i \in 1..l : i >= f => i \in f..l
    BY <1>2
  <2>3. QED
    BY <1>6, <2>1, <2>2
<1>9. gs = [i \in 1..l |-> IF i >= f THEN AbsValue(fs[i]) ELSE fs[i]]
  <2>1. \A i \in 1..l : ~(i >= f) => gs[i] = fs[i]
    <3>1. \A i \in 1..l : ~(i >= f) => i < f
      BY <1>2
    <3>2. QED
      BY <1>4, <1>6, <3>1
  <2>2. QED
    BY <1>7, <1>8, <2>1
<1>10. AbsObject(mem[a]) = [id |-> x.id, kind |-> x.kind, fields |-> gs]
  BY <1>2, <1>3, <1>4, <1>9 DEF AbsObject
<1>11. x = [id |-> x.id, kind |-> x.kind, fields |-> gs]
  BY <1>5, <1>6
<1>12. SnapFirst(x) = FirstField(mem[a])
  BY <1>2, <1>4 DEF SnapFirst, FirstField
<1>13. QED
  BY <1>2, <1>4, <1>10, <1>11, <1>12

\* Everything in the heap can be reached.
LEMMA RestoredLive ==
  ASSUME Restored
  PROVE  Live = DOMAIN mem
<1>1. DOMAIN Succ = DOMAIN mem
  BY DEF Succ
<1>2. DOMAIN stack = 1..Len(stack) /\ Len(stack) \in Nat
  BY DEF Restored
<1>3. Held \subseteq DOMAIN mem
  <2>1. ASSUME NEW s \in 2..Len(stack), IsValidHeapPointer(stack[s])
        PROVE  Target(heap, stack[s]) \in DOMAIN mem
    <3>1. s \in DOMAIN stack
      BY <1>2
    <3>2. PICK v, w : v = stack[s] /\ w = snap.stack[s]
      OBVIOUS
    <3>3. IsAt(v, w)
      BY <3>1, <3>2 DEF Restored
    <3>4. QED
      BY <2>1, <3>2, <3>3, RestoredValues
  <2>2. QED
    BY <2>1 DEF Held
<1>4. ASSUME NEW a \in DOMAIN mem PROVE Succ[a] \subseteq DOMAIN mem
  <2>1. PICK x \in snap.objs : IsObjectOf(mem[a], x)
    BY DEF Restored
  <2>2. ASSUME NEW v \in Refs(mem[a]), InChunk(heap, v)
        PROVE  Target(heap, v) \in DOMAIN mem
    <3>1. PICK i \in FirstField(mem[a])..Len(mem[a].fields) : v = mem[a].fields[i]
      BY DEF Refs
    <3>2. v # Unboxed
      BY DEF Refs
    <3>3. IsAt(v, x.fields[i])
      BY <2>1, <3>1 DEF IsObjectOf
    <3>4. IsValidHeapPointer(v)
      BY <2>2, <3>2 DEF IsValidHeapPointer, IsValidPointer
    <3>5. QED
      BY <3>3, <3>4, RestoredValues
  <2>3. QED
    BY <2>2 DEF Succ
<1>5. Held \subseteq Live
  BY <1>1, <1>3, ReachContains DEF Live
<1>6. Live \subseteq DOMAIN mem
  BY <1>1, ReachDef DEF Live
<1>7. ASSUME NEW a \in Live PROVE Succ[a] \subseteq Live
  <2>1. a \in Reach(Held, Succ) /\ Succ[a] \subseteq DOMAIN Succ
    BY <1>1, <1>4, <1>6 DEF Live
  <2>2. Succ[a] \subseteq Reach(Held, Succ)
    BY <2>1, ReachClosed
  <2>3. QED
    BY <2>2 DEF Live
<1>8. PICK W : W = {mem[a].id : a \in Live}
  OBVIOUS
<1>9. W \in SUBSET Nat
  BY <1>6, <1>8, ObjectFields DEF Restored, Memory
<1>10. ASSUME NEW s \in 2..Len(snap.stack) PROVE snap.stack[s] \in W \cup {0, Unboxed}
  <2>1. Len(snap.stack) = Len(stack)
    BY DEF Restored
  <2>2. s \in DOMAIN stack /\ s \in 2..Len(stack)
    BY <1>2, <2>1
  <2>3. PICK v, w : v = stack[s] /\ w = snap.stack[s]
    OBVIOUS
  <2>4. IsAt(v, w)
    BY <2>2, <2>3 DEF Restored
  <2>5. CASE w \in {0, Unboxed}
    BY <2>3, <2>5
  <2>6. CASE IsValidHeapPointer(v) /\ w = mem[Target(heap, v)].id
    <3>1. Target(heap, v) \in Held
      BY <2>2, <2>3, <2>6 DEF Held
    <3>2. QED
      BY <1>5, <1>8, <2>3, <2>6, <3>1
  <2>7. QED
    BY <2>4, <2>5, <2>6, RestoredValues
<1>11. ASSUME NEW x \in snap.objs, x.id \in W, NEW i \in SnapFirst(x)..Len(x.fields)
       PROVE  x.fields[i] \in W \cup {0, Unboxed}
  <2>1. PICK a \in DOMAIN mem : IsObjectOf(mem[a], x)
    BY DEF Restored
  <2>2. /\ x.id = mem[a].id
        /\ SnapFirst(x) = FirstField(mem[a]) /\ Len(x.fields) = Len(mem[a].fields)
    BY <2>1, RestoredObjects
  <2>3. a \in Live
    <3>1. PICK b \in Live : mem[b].id = mem[a].id
      BY <1>8, <1>11, <2>2
    <3>2. QED
      BY <1>6, <3>1 DEF Restored
  <2>4. PICK v, w : v = mem[a].fields[i] /\ w = x.fields[i]
    OBVIOUS
  <2>5. i \in FirstField(mem[a])..Len(mem[a].fields)
    BY <2>2
  <2>6. IsAt(v, w)
    BY <2>1, <2>4, <2>5 DEF IsObjectOf
  <2>7. CASE w \in {0, Unboxed}
    BY <2>4, <2>7
  <2>8. CASE IsValidHeapPointer(v) /\ w = mem[Target(heap, v)].id
    <3>1. v \in Refs(mem[a]) /\ InChunk(heap, v)
      BY <2>4, <2>5, <2>8 DEF Refs, IsValidHeapPointer, IsValidPointer
    <3>2. Target(heap, v) \in Succ[a]
      BY <1>1, <3>1 DEF Succ
    <3>3. QED
      BY <1>7, <1>8, <2>3, <2>4, <2>8, <3>2
  <2>9. QED
    BY <2>6, <2>7, <2>8, RestoredValues
<1>12. \A x \in snap.objs : x.id \in W
  <2>1. SnapReach
    BY DEF Restored
  <2>2. QED
    BY <1>9, <1>10, <1>11, <2>1 DEF SnapReach
<1>13. ASSUME NEW a \in DOMAIN mem PROVE a \in Live
  <2>1. PICK x \in snap.objs : IsObjectOf(mem[a], x)
    BY DEF Restored
  <2>2. mem[a].id \in W
    BY <1>12, <2>1, RestoredObjects
  <2>3. PICK b \in Live : mem[b].id = mem[a].id
    BY <1>8, <2>2
  <2>4. QED
    BY <1>6, <2>3 DEF Restored
<1>14. QED
  BY <1>6, <1>13

\* A heap that holds the objects of the snapshot and nothing else has the
\* store of the snapshot.
LEMMA RestoredStore == Restored => snap.stack = StoreStack /\ snap.objs = StoreObjs
<1> SUFFICES ASSUME Restored PROVE snap.stack = StoreStack /\ snap.objs = StoreObjs
  OBVIOUS
<1>1. snap.stack = StoreStack
  <2>1. PICK l \in Nat : l = Len(stack) /\ DOMAIN stack = 1..l
    BY DEF Restored
  <2>2. snap.stack \in Seq(Values) /\ Len(snap.stack) = l
    BY <2>1 DEF Restored, SnapTyped
  <2>3. snap.stack = [s \in 1..l |-> snap.stack[s]]
    BY <2>2
  <2>4. \A s \in 1..l : AbsValue(stack[s]) = snap.stack[s]
    BY <2>1, RestoredValues DEF Restored
  <2>5. QED
    BY <2>1, <2>3, <2>4 DEF StoreStack
<1>2. Live = DOMAIN mem
  BY RestoredLive
<1>3. ASSUME NEW x \in snap.objs PROVE x \in StoreObjs
  <2>1. PICK a \in DOMAIN mem : IsObjectOf(mem[a], x)
    BY DEF Restored
  <2>2. x = AbsObject(mem[a])
    BY <2>1, RestoredObjects
  <2>3. QED
    BY <1>2, <2>2 DEF StoreObjs
<1>4. ASSUME NEW a \in Live PROVE AbsObject(mem[a]) \in snap.objs
  <2>1. PICK x \in snap.objs : IsObjectOf(mem[a], x)
    BY <1>2 DEF Restored
  <2>2. QED
    BY <1>2, <2>1, RestoredObjects
<1>5. StoreObjs = snap.objs
  BY <1>3, <1>4 DEF StoreObjs
<1>6. QED
  BY <1>1, <1>5

\* The heap below f.
Below(m, f) == Restrict(m, {a \in DOMAIN m : a < f})

\* When every object has moved the copies tile the heap.
LEMMA SlidingEnds ==
  ASSUME NEW m, Memory(m), NEW lo \in Nat, NEW d \in Nat, NEW cur \in Nat, NEW e \in Nat,
         Sliding(m, lo, d, cur, e), ~(lo < cur), NEW n, n = Below(m, e)
  PROVE  /\ d = e /\ Todo(m, lo) = {} /\ Copies(m, e) = DOMAIN n /\ Memory(n)
         /\ \A a \in DOMAIN n : /\ n[a] = m[a] /\ a \in DOMAIN m
                                /\ ~n[a].marked /\ ~n[a].enqueued
         /\ Tiled(n, e) /\ Places(m, lo, d) = DOMAIN n
         /\ \A a, b \in DOMAIN n : n[a].id = n[b].id => a = b
<1>1. d = e /\ Todo(m, lo) = {}
  BY SlidingOver
<1>2. PICK C : C = Copies(m, e)
  OBVIOUS
<1>3. n = [a \in C |-> m[a]] /\ C \subseteq DOMAIN m
  BY <1>2 DEF Below, Restrict, Copies
<1>4. DOMAIN n = C /\ \A a \in C : n[a] = m[a]
  BY <1>3
<1>5. Memory(n)
  <2>1. \A a \in C : a \in Nat /\ n[a] \in ObjectType
    BY <1>3, <1>4 DEF Memory
  <2>2. n = [a \in DOMAIN n |-> n[a]]
    BY <1>3
  <2>3. QED
    BY <1>4, <2>1, <2>2 DEF Memory
<1>6. /\ \A a \in C :
           /\ ~m[a].marked /\ ~m[a].enqueued
           /\ a + Size(m[a]) \in C \cup {e} /\ a + Size(m[a]) <= e
      /\ \A a, b \in C : a < b => a + Size(m[a]) <= b
      /\ e > 0 => 0 \in DOMAIN m
      /\ \A a, b \in C : m[a].id = m[b].id => a = b
  BY <1>1, <1>2 DEF Sliding
<1>7. e > 0 => 0 \in C
  BY <1>2, <1>6 DEF Copies
<1>8. Tiled(n, e)
  BY <1>4, <1>6, <1>7 DEF Tiled
<1>9. Places(m, lo, d) = C
  BY <1>1, <1>2 DEF Places
<1>10. QED
  BY <1>1, <1>2, <1>3, <1>4, <1>5, <1>6, <1>8, <1>9

\* munmap of the old heap, whose size it takes for bytes, stays within it.
LEMMA UnmappedOld ==
  ASSUME IInv
  PROVE  Unmapped(old) \subseteq PagesOf(old)
<1>1. PICK p : p = old.begin \div PageWords
  OBVIOUS
<1>2. old.size \in Nat /\ old.begin \in Nat
  BY DEF IInv, Typed, ChunkType
<1>3. PageWords \in Nat \ {0}
  BY BoundsAssumption
<1>4. p \in Nat
  BY <1>1, <1>2, <1>3, Quotient
<1>5. PICK s \in Nat : s = old.size
  BY <1>2
<1>6. PICK u : u = CeilDiv(s, WordBytes)
  OBVIOUS
<1>7. u \in Nat /\ u <= s
  BY <1>5, <1>6 DEF CeilDiv, WordBytes
<1>8. CeilDiv(u, PageWords) <= CeilDiv(s, PageWords)
  BY <1>3, <1>5, <1>7, FewerPages
<1>9. CeilDiv(u, PageWords) \in Nat /\ CeilDiv(s, PageWords) \in Nat
  BY <1>3, <1>5, <1>7, RoundedUp
<1>10. Pages(p, u) \subseteq Pages(p, s)
  BY <1>4, <1>8, <1>9 DEF Pages
<1>11. QED
  BY <1>1, <1>5, <1>6, <1>10 DEF Unmapped, PagesOf

\* The compaction ends: the heap is cut off behind the last copy, and the
\* store is that of the snapshot.
LEMMA MoveDoneStep == IInv /\ MoveDone => IInv'
<1> SUFFICES ASSUME IInv, MoveDone PROVE IInv'
  OBVIOUS
<1>1. /\ phase = "move" /\ ~(iter < heap.current) /\ phase' = "retry"
      /\ heap' = [heap EXCEPT !.current = free]
      /\ mem' = Below(mem, free)
      /\ mapped' = mapped \ Unmapped(old)
      /\ old' = NoChunk /\ iter' = 0 /\ free' = 0
      /\ UNCHANGED <<stack, extra, req, root, head, tail, obj, fld, nextId, snap>>
  BY DEF MoveDone, MoreObjects, markVars, Below
<1>2. /\ Memory(mem) /\ heap.current \in Nat /\ iter \in Nat /\ free \in Nat
      /\ heap.begin \in Nat \ {0} /\ heap.size \in Nat
      /\ old.current = heap.current /\ free + Words(req) <= heap.size
      /\ stack \in Seq(Values) /\ Len(stack) \in Nat
      /\ SnapReach /\ SnapTyped /\ Len(snap.stack) = Len(stack)
  BY <1>1, MoveFacts
<1>3. PICK d \in 0..free :
        /\ Sliding(mem, iter, d, heap.current, free)
        /\ \A s \in DOMAIN stack : stack[s] \in ValuesAt(heap.begin, Places(mem, iter, d))
        /\ \A a \in Todo(mem, iter) \cup Copies(mem, d) :
             RefersTo(mem[a], heap.begin, Places(mem, iter, d))
        /\ \A s \in DOMAIN stack : BecomesNew(mem, iter, d, stack[s], snap.stack[s])
        /\ \A a \in Todo(mem, iter) \cup Copies(mem, d) : \E x \in snap.objs :
             IsNew(mem, iter, d, mem[a], x)
        /\ \A x \in snap.objs : \E a \in Todo(mem, iter) \cup Copies(mem, d) :
             IsNew(mem, iter, d, mem[a], x)
  BY <1>1, MoveFacts
<1>4. PICK n, D : n = mem' /\ D = DOMAIN n
  OBVIOUS
<1>5. PICK e \in Nat : e = free
  BY <1>2
<1>6. /\ d = e /\ Todo(mem, iter) = {} /\ Copies(mem, e) = D /\ Memory(n)
      /\ \A a \in D : /\ n[a] = mem[a] /\ a \in DOMAIN mem
                      /\ ~n[a].marked /\ ~n[a].enqueued
      /\ Tiled(n, e) /\ Places(mem, iter, d) = D
      /\ \A a, b \in D : n[a].id = n[b].id => a = b
  <2>1. PICK m : m = mem
    OBVIOUS
  <2>1a. PICK lo \in Nat, cur \in Nat : lo = iter /\ cur = heap.current
    BY <1>2
  <2>2. Memory(m) /\ Sliding(m, lo, d, cur, e) /\ ~(lo < cur) /\ n = Below(m, e) /\ d \in Nat
    BY <1>1, <1>2, <1>3, <1>4, <1>5, <2>1, <2>1a
  <2>3. /\ d = e /\ Todo(m, lo) = {} /\ Copies(m, e) = DOMAIN n /\ Memory(n)
        /\ \A a \in DOMAIN n : /\ n[a] = m[a] /\ a \in DOMAIN m
                               /\ ~n[a].marked /\ ~n[a].enqueued
        /\ Tiled(n, e) /\ Places(m, lo, d) = DOMAIN n
        /\ \A a, b \in DOMAIN n : n[a].id = n[b].id => a = b
    BY <2>2, SlidingEnds
  <2>4. QED
    BY <1>4, <2>1, <2>1a, <2>3
<1>7. /\ heap' \in ChunkType /\ heap'.current = e /\ heap'.begin = heap.begin
      /\ heap'.size = heap.size
  <2>1. heap \in ChunkType
    BY DEF IInv, Typed
  <2>2. QED
    BY <1>1, <1>5, <2>1 DEF ChunkType
<1>8. phase' \in InBuiltin /\ phase' \in Phases /\ phase \in InBuiltin
  BY <1>1 DEF InBuiltin, Phases
<1>9. Typed'
  <2>1. mem' \in [DOMAIN mem' -> ObjectType] /\ DOMAIN mem' \subseteq Nat
    BY <1>4, <1>6 DEF Memory
  <2>2. old' \in ChunkType
    BY <1>1 DEF NoChunk, ChunkType
  <2>3. QED
    BY <1>1, <1>7, <1>8, <2>1, <2>2 DEF IInv, Typed
<1>10. PagesInv'
  <2>1. PagesOf(heap)' = PagesOf(heap)
    BY <1>7 DEF PagesOf
  <2>2. /\ \E p \in Nat \ {0} : heap.begin = p * PageWords
        /\ mapped \subseteq 1..NPages /\ PagesOf(heap) \subseteq mapped
        /\ PagesOf(old) \cap PagesOf(heap) = {}
    BY <1>1 DEF IInv, PagesInv
  <2>3. Unmapped(old) \subseteq PagesOf(old)
    BY UnmappedOld
  <2>4. mapped' \subseteq 1..NPages /\ PagesOf(heap)' \subseteq mapped'
    BY <1>1, <2>1, <2>2, <2>3
  <2>5. QED
    BY <1>1, <1>7, <2>2, <2>4 DEF PagesInv
<1>11. StackInv'
  BY <1>1, <1>8 DEF IInv, StackInv, Base, Operands
<1>12. HeapInv'
  <2>1. \A a \in DOMAIN mem : 0 < mem[a].id /\ mem[a].id < nextId
    BY <1>1 DEF IInv, HeapInv
  <2>2. \A a \in D : 0 < n[a].id /\ n[a].id < nextId
    BY <1>6, <2>1
  <2>3. PICK w \in Nat : w = Words(req)
    <3>1. req.n \in Nat
      BY DEF IInv, Typed
    <3>2. QED
      BY <3>1 DEF Words, Hdr
  <2>4. Words(req)' = w
    BY <1>1, <2>3 DEF Words
  <2>5. heap'.current + Words(req)' <= heap'.size /\ heap'.current <= heap'.size
    <3>1. e + w <= heap.size /\ heap.size \in Nat
      BY <1>2, <1>5, <2>3
    <3>2. e <= heap.size
      BY <3>1
    <3>3. QED
      BY <1>7, <2>4, <3>1, <3>2
  <2>6. Tiled(mem', heap'.current)
    BY <1>4, <1>6, <1>7
  <2>7. /\ \A a, b \in DOMAIN mem' : mem'[a].id = mem'[b].id => a = b
        /\ \A a \in DOMAIN mem' : 0 < mem'[a].id /\ mem'[a].id < nextId
    BY <1>4, <1>6, <2>2
  <2>8. QED
    BY <1>1, <2>5, <2>6, <2>7 DEF HeapInv
<1>13. Sound' /\ Clean'
  <2>1. \A s \in DOMAIN stack : stack[s] \in ValuesAt(heap.begin, D)
    BY <1>3, <1>6
  <2>2. \A a \in D : RefersTo(n[a], heap.begin, D)
    BY <1>3, <1>6
  <2>3. QED
    BY <1>1, <1>4, <1>6, <1>7, <2>1, <2>2 DEF Sound, Clean
<1>14. MarkInv' /\ QInv' /\ CompactInv' /\ MoveInv'
  BY <1>1 DEF MarkInv, QInv, CompactInv, MoveInv, Marking
<1>15. Restored'
  <2>1. \A v, w : BecomesNew(mem, iter, d, v, w) => IsAt(v, w)'
    <3>1. ASSUME NEW v, NEW w, BecomesNew(mem, iter, d, v, w) PROVE IsAt(v, w)'
      <4>1. CASE v \in {0, Unboxed} /\ w = v
        BY <4>1 DEF IsAt
      <4>2. ASSUME NEW a \in D, v = heap.begin + Hdr + a, w = mem[a].id PROVE IsAt(v, w)'
        <5>1. a \in DOMAIN mem' /\ w = mem'[a].id /\ v = heap'.begin + Hdr + a
          BY <1>4, <1>6, <1>7, <4>2
        <5>2. QED
          BY <5>1 DEF IsAt
      <4>3. \/ v \in {0, Unboxed} /\ w = v
            \/ \E a \in D : v = heap.begin + Hdr + a /\ w = mem[a].id
        BY <1>6, <3>1 DEF BecomesNew
      <4>4. QED
        BY <4>1, <4>2, <4>3
    <3>2. QED
      BY <3>1
  <2>2. ASSUME NEW a \in D, NEW x, IsNew(mem, iter, d, mem[a], x) PROVE IsObjectOf(mem[a], x)'
    <3>1. PICK o : o = n[a]
      OBVIOUS
    <3>2. IsNew(mem, iter, d, o, x)
      BY <1>6, <2>2, <3>1
    <3>3. IsObjectOf(o, x)'
      BY <2>1, <3>2 DEF IsNew, IsObjectOf
    <3>4. QED
      BY <1>4, <3>1, <3>3 DEF IsObjectOf
  <2>3. \A s \in DOMAIN stack : IsAt(stack[s], snap.stack[s])'
    <3>1. ASSUME NEW s \in DOMAIN stack PROVE IsAt(stack[s], snap.stack[s])'
      <4>1. PICK v, w : v = stack[s] /\ w = snap.stack[s]
        OBVIOUS
      <4>2. IsAt(v, w)'
        BY <1>3, <2>1, <4>1
      <4>3. QED
        BY <1>1, <4>1, <4>2 DEF IsAt
    <3>2. QED
      BY <3>1
  <2>4. /\ \A a \in D : \E x \in snap.objs : IsObjectOf(mem[a], x)'
        /\ \A x \in snap.objs : \E a \in D : IsObjectOf(mem[a], x)'
    BY <1>3, <1>6, <2>2
  <2>5. SnapReach' /\ SnapTyped'
    BY <1>1, <1>2 DEF SnapReach, SnapTyped
  <2>6. /\ Memory(mem') /\ heap'.begin \in Nat \ {0} /\ heap'.current \in Nat
        /\ Tiled(mem', heap'.current) /\ stack' \in Seq(Values)
        /\ \A a, b \in DOMAIN mem' : mem'[a].id = mem'[b].id => a = b
        /\ Len(snap'.stack) = Len(stack')
    BY <1>1, <1>2, <1>4, <1>6, <1>7
  <2>7. /\ \A s \in DOMAIN stack' : IsAt(stack[s], snap.stack[s])'
        /\ \A a \in DOMAIN mem' : \E x \in snap'.objs : IsObjectOf(mem[a], x)'
        /\ \A x \in snap'.objs : \E a \in DOMAIN mem' : IsObjectOf(mem[a], x)'
    BY <1>1, <1>4, <2>3, <2>4
  <2>8. QED
    BY <2>5, <2>6, <2>7 DEF Restored
<1>16. SnapInv'
  <2>1. (snap.stack = StoreStack /\ snap.objs = StoreObjs)'
    BY <1>15, RestoredStore, PTL
  <2>2. QED
    BY <1>1, <2>1 DEF SnapInv, Marking
<1>17. QED
  BY <1>9, <1>10, <1>11, <1>12, <1>13, <1>14, <1>16 DEF IInv

---------------------------------------------------------------------------
(***************************************************************************)
(* The invariant, and what follows from it.                                *)
(***************************************************************************)

\* A stuttering step changes nothing the invariant speaks of.
LEMMA Stutter == IInv /\ UNCHANGED vars => IInv'
<1> SUFFICES ASSUME IInv, UNCHANGED vars PROVE IInv'
  OBVIOUS
<1>1. UNCHANGED <<mem, heap, mapped, stack, extra, req, phase, root, head, tail, obj, fld,
                  old, iter, free, nextId, snap>>
  BY DEF vars, markVars, compactVars
<1>2. Typed' /\ PagesInv' /\ StackInv' /\ HeapInv'
  BY <1>1 DEF IInv, Typed, PagesInv, PagesOf, StackInv, Operands, HeapInv, Words
<1>3. Sound' /\ Clean'
  BY <1>1 DEF IInv, Sound, Clean
<1>4. Live' = Live
  BY <1>1 DEF Live, Held, Succ, IsValidHeapPointer
<1>5. MarkInv'
  <2>1. RootSlots' = RootSlots
    BY <1>1 DEF RootSlots
  <2>2. QED
    BY <1>1, <1>4, <2>1 DEF IInv, MarkInv, GreyFields, Grey, IsValidHeapPointer, SlotValue
<1>6. QInv'
  BY <1>1 DEF IInv, QInv, Ends, Entries, Queue
<1>7. CompactInv'
  BY <1>1, <1>4 DEF IInv, CompactInv, Marked, NewPlaces, Ends, Words
<1>8. MoveInv'
  BY <1>1 DEF IInv, MoveInv
<1>9. SnapInv'
  <2>1. StoreStack' = StoreStack /\ StoreObjs' = StoreObjs
    BY <1>1, <1>4 DEF StoreStack, StoreObjs, AbsObject, AbsValue
  <2>2. SnapReach' = SnapReach /\ SnapTyped' = SnapTyped
    BY <1>1 DEF SnapReach, SnapTyped
  <2>3. \A m, v, w : BecomesOld(m, v, w)' = BecomesOld(m, v, w)
    BY <1>1 DEF BecomesOld
  <2>4. \A m, lo, d, v, w : BecomesNew(m, lo, d, v, w)' = BecomesNew(m, lo, d, v, w)
    BY <1>1 DEF BecomesNew
  <2>5. QED
    BY <1>1, <2>1, <2>2, SMTT(30) DEF IInv, SnapInv, Marked, IsOld, IsNew, BecomesOld, BecomesNew
<1>10. QED
  BY <1>2, <1>3, <1>5, <1>6, <1>7, <1>8, <1>9 DEF IInv

\* Every instruction of the program and every step of the collector preserves
\* the invariant.
LEMMA StepIInv == IInv /\ [Next]_vars => IInv'
<1> SUFFICES ASSUME IInv, [Next]_vars PROVE IInv'
  OBVIOUS
<1>1. CASE Mutator
  BY <1>1, ConstStep, LwriteStep, DropStep, DupStep, LdStep, LdCapturedStep, StStep,
     StCapturedStep, StaStep, ElemStep, StringStep, LstringStep, BarrayStep, SexpStep,
     ClosureStep DEF Mutator
<1>2. CASE Alloc \/ StartGc \/ Retry
  BY <1>2, AllocStep, StartGcStep, RetryStep
<1>3. CASE MarkPhase
  BY <1>3, MarkRootStep, DequeueStep, ScanFieldStep, FieldsDoneStep, QueueEmptyStep,
     RootsDoneStep DEF MarkPhase
<1>4. CASE CompactPhase
  BY <1>4, LocateStep, LocateDoneStep, GrowStep, GrowFaultStep, UpdateObjectStep,
     UpdateRootsStep, MoveStep, MoveDoneStep DEF CompactPhase
<1>5. CASE UNCHANGED vars
  BY <1>5, Stutter
<1>6. QED
  BY <1>1, <1>2, <1>3, <1>4, <1>5 DEF Next, Collector

\* In every state the program and its collector reach the invariant holds.
THEOREM Invariance == Spec => []IInv
<1>1. IInv /\ [Next]_vars => IInv'
  BY StepIInv
<1>2. QED
  BY <1>1, InitIInv, PTL DEF Spec

\* Every variable keeps to its range: above all, the free pointer, the
\* iterators and the entries of the queue are never negative, and the heap is
\* a function from the offsets of headers to objects.
THEOREM TypeCorrect == Spec => []TypeOK
<1>1. IInv => TypeOK
  BY DEF IInv, Typed, PagesInv, TypeOK
<1>2. QED
  BY <1>1, Invariance, PTL

\* mark() (gc.c:515-556): the queue in the forward addresses holds exactly the
\* objects whose enqueued bit is set, each once, and no marked one.
THEOREM QueueCorrect == Spec => []QueueInv
<1>1. IInv => QueueInv
  <2> SUFFICES ASSUME IInv, phase \in {"queue", "fields"} PROVE QueueInv
    BY DEF QueueInv
  <2>1. \A a \in Queue : a \in DOMAIN mem /\ a \in Entries /\ a >= head /\ a < tail
    <3>1. head \in Nat /\ DOMAIN mem \subseteq Nat
      BY HeapFacts, QueueFacts DEF Memory
    <3>2. QED
      BY <3>1 DEF Queue, Entries
  <2>2. \A a \in Queue : /\ mem[a].fwd \in DOMAIN mem
                         /\ mem[mem[a].fwd].enqueued
                         /\ ~mem[mem[a].fwd].marked
    BY <2>1, QueueFacts, MarkFacts
  <2>3. \A a, b \in Queue : a # b => mem[a].fwd # mem[b].fwd
    BY <2>1, QueueFacts
  <2>4. {b \in DOMAIN mem : mem[b].enqueued} = {mem[a].fwd : a \in Queue}
    <3>1. \A b \in DOMAIN mem : mem[b].enqueued => \E a \in Queue : mem[a].fwd = b
      BY QueueFacts DEF Queue
    <3>2. QED
      BY <2>2, <3>1
  <2>5. QED
    BY <2>2, <2>3, <2>4, QueueFacts DEF QueueInv, Ends
<1>2. QED
  BY <1>1, Invariance, PTL

\* mark() needs no memory of its own (gc.h:14-16): by the pigeon-hole
\* principle an object that is neither marked nor enqueued leaves an entry of
\* the queue unused.
THEOREM QueueFitsCorrect == Spec => []QueueFits
<1>1. IInv => QueueFits
  <2> SUFFICES ASSUME IInv, phase = "fields", fld <= Len(mem[obj].fields),
                      ~Skipped(mem[obj].fields[fld])
               PROVE  tail \in DOMAIN mem
    BY DEF QueueFits
  <2>1. PICK a : a = Target(heap, mem[obj].fields[fld])
    OBVIOUS
  <2>2. IsValidHeapPointer(mem[obj].fields[fld]) /\ ~mem[a].marked /\ ~mem[a].enqueued
    BY <2>1 DEF Skipped, Ignored
  <2>3. a \in DOMAIN mem
    BY <2>1, <2>2, ScanFacts
  <2>4. QED
    BY <2>2, <2>3, QueueRoom
<1>2. QED
  BY <1>1, Invariance, PTL

\* When mark_phase ends, the marked objects are exactly those that can be
\* reached from the stack, and no enqueued bit is set.
THEOREM MarkExactCorrect == Spec => []MarkExact
<1>1. IInv => MarkExact
  BY DEF IInv, CompactInv, Marked, MarkExact
<1>2. QED
  BY <1>1, Invariance, PTL

\* physically_relocate never writes over an object it has still to move, nor
\* over one it has moved: every object of the snapshot is there, moved or
\* waiting, and the new places of the waiting ones are apart and not above
\* the old ones.
THEOREM SlideSafeCorrect == Spec => []SlideSafe
<1>1. IInv => SlideSafe
  <2> SUFFICES ASSUME IInv, phase = "move" PROVE SlideSafe
    BY DEF SlideSafe
  <2>1. PICK d \in 0..free :
          /\ Sliding(mem, iter, d, heap.current, free)
          /\ \A x \in snap.objs : \E a \in Todo(mem, iter) \cup Copies(mem, d) :
               IsNew(mem, iter, d, mem[a], x)
    BY MoveFacts
  <2>2. ToMove = Todo(mem, iter)
    BY DEF ToMove, Todo
  <2>3. /\ \A a \in Todo(mem, iter) : /\ a \in DOMAIN mem /\ a >= iter
                                      /\ mem[a].fwd <= a /\ mem[a].fwd + Size(mem[a]) <= free
        /\ \A a, b \in Todo(mem, iter) : a < b => mem[a].fwd + Size(mem[a]) <= mem[b].fwd
        /\ \A a \in Copies(mem, d) : a \in DOMAIN mem /\ ~mem[a].marked
    BY <2>1 DEF Sliding, Todo, Copies
  <2>4. \A x \in snap.objs :
          \E a \in DOMAIN mem : mem[a].id = x.id /\ (mem[a].marked => a >= iter)
    <3>1. ASSUME NEW x \in snap.objs
          PROVE  \E a \in DOMAIN mem : mem[a].id = x.id /\ (mem[a].marked => a >= iter)
      <4>1. PICK a \in Todo(mem, iter) \cup Copies(mem, d) : IsNew(mem, iter, d, mem[a], x)
        BY <2>1
      <4>2. mem[a].id = x.id
        BY <4>1 DEF IsNew, SameShape
      <4>3. QED
        BY <2>3, <4>2
    <3>2. QED
      BY <3>1
  <2>5. QED
    BY <2>2, <2>3, <2>4 DEF SlideSafe
<1>2. QED
  BY <1>1, Invariance, PTL

\* Whenever the program runs, the objects tile the heap, the bits of the
\* collector are clear, and every word the program can read as a reference is
\* one to the content of an object.
THEOREM HeapSoundCorrect == Spec => []HeapSound
<1>1. IInv => HeapSound
  <2> SUFFICES ASSUME IInv, phase \in {"run", "alloc", "retry"} PROVE HeapSound
    BY DEF HeapSound
  <2>1. /\ heap.begin \in Nat \ {0} /\ heap.current \in Nat /\ Memory(mem)
        /\ Tiled(mem, heap.current) /\ stack \in Seq(Known)
        /\ \A a \in DOMAIN mem : RefersTo(mem[a], heap.begin, DOMAIN mem)
    BY Running DEF Settled
  <2>2. \A v \in Known : v \in {0, Unboxed} \/ IsObject(v)
    <3>1. ASSUME NEW v \in Known PROVE v \in {0, Unboxed} \/ IsObject(v)
      <4>1. \/ v = Unboxed
            \/ v = 0
            \/ v # Unboxed /\ InChunk(heap, v) /\ Target(heap, v) \in DOMAIN mem
        BY <2>1, <3>1, Pointers DEF Known
      <4>2. QED
        BY <4>1 DEF IsObject, IsValidHeapPointer, IsValidPointer
    <3>2. QED
      BY <3>1
  <2>3. Range(stack) \subseteq Known
    BY <2>1 DEF Range
  <2>4. \A a \in DOMAIN mem : Refs(mem[a]) \subseteq Known
    BY <2>1 DEF Refs, RefersTo, Known
  <2>5. /\ \A a \in DOMAIN mem : NextObject(a) \in Ends
        /\ heap.current > 0 => 0 \in DOMAIN mem
    BY <2>1 DEF Tiled, NextObject, Ends
  <2>6. /\ heap.current <= heap.size
        /\ \A a \in DOMAIN mem : ~mem[a].marked /\ ~mem[a].enqueued
    BY DEF IInv, HeapInv, Clean
  <2>7. \A v \in Range(stack) \cup UNION {Refs(mem[a]) : a \in DOMAIN mem} :
          v \in {0, Unboxed} \/ IsObject(v)
    BY <2>2, <2>3, <2>4
  <2>8. QED
    BY <2>5, <2>6, <2>7 DEF HeapSound
<1>2. QED
  BY <1>1, Invariance, PTL

\* After a collection the request that started it fits: the second
\* gc_alloc_on_existing_heap (gc.c:240) never fails.
THEOREM RoomAfterGcCorrect == Spec => []RoomAfterGc
<1>1. IInv => RoomAfterGc
  BY DEF IInv, HeapInv, RoomAfterGc, Fits
<1>2. QED
  BY <1>1, Invariance, PTL

\* A collection leaves the stack and every reachable object as they were, up
\* to addresses.
THEOREM TransparentCorrect == Spec => []Transparent
<1>1. IInv => Transparent
  BY DEF IInv, SnapInv, Transparent
<1>2. QED
  BY <1>1, Invariance, PTL

\* The pages of the current heap are mapped: munmap of the old heap, whose
\* size in words it takes for bytes, frees too little but never too much.
THEOREM HeapMappedCorrect == Spec => []HeapMapped
<1>1. IInv => HeapMapped
  BY DEF IInv, PagesInv, PagesOf, HeapMapped
<1>2. QED
  BY <1>1, Invariance, PTL

---------------------------------------------------------------------------
(***************************************************************************)
(* The collector and the allocating builtins implement ObjectStore: every  *)
(* step of Gc is a step of the store without addresses or collections, or  *)
(* leaves the store as it is.                                              *)
(***************************************************************************)

\* The store that Abs sees.
AbsStack == IF Collecting THEN snap.stack ELSE StoreStack
AbsObjs == IF Collecting THEN snap.objs ELSE StoreObjs

\* The words of an object that are no references - tags, code addresses, text
\* - are all represented by 0.
Raw(x) == \A i \in 1..Len(x.fields) : i < SnapFirst(x) => x.fields[i] = 0

\* What the refinement needs beyond the invariant of the collector.
StoreInv ==
  /\ \A x \in AbsObjs : Raw(x)
  /\ req.op \in {"STRING", "LSTRING"} => req.n = 1
  /\ phase # "run" => req.op # "none"

---------------------------------------------------------------------------
(***************************************************************************)
(* Reachability by identity and by address.                                *)
(***************************************************************************)

\* Reachability is the same in both modules.
LEMMA SameReach == ASSUME NEW S, NEW succ PROVE Abs!Reach(S, succ) = Reach(S, succ)
BY DEF Abs!Reach, Abs!ClosedAround, Abs!Closed, Reach, ClosedAround, Closed

\* The store as it would be with t as the stack.
HeldBy(t) == {Target(heap, v) : v \in {w \in {t[s] : s \in 2..Len(t)} :
                                          IsValidHeapPointer(w)}}
LiveFrom(t) == Reach(HeldBy(t), Succ)
SeenStack(t) == [i \in DOMAIN t |-> AbsValue(t[i])]
Seen(D) == {AbsObject(mem[a]) : a \in D}

\* A stack the program can have.
Usable(t) == t \in Seq(Known) /\ Len(t) \in Nat \ {0} /\ t[1] \in {0, Unboxed}

\* What the words of t are to the program.
LEMMA SeenValues ==
  ASSUME IInv, Steady, NEW t, Usable(t)
  PROVE  /\ SeenStack(t) = [i \in 1..Len(t) |-> AbsValue(t[i])]
         /\ HeldBy(t) \subseteq DOMAIN mem
         /\ Abs!IdsIn(SeenStack(t)) = {mem[b].id : b \in HeldBy(t)}
<1>1. PICK l \in Nat \ {0} : l = Len(t) /\ DOMAIN t = 1..l
  BY DEF Usable
<1>2. \A s \in 1..l : t[s] \in Known
  BY <1>1, ElementOfSeq DEF Usable
<1>3. SeenStack(t) = [i \in 1..l |-> AbsValue(t[i])]
  BY <1>1 DEF SeenStack
<1>4. ASSUME NEW s \in 1..l
      PROVE  \/ AbsValue(t[s]) \in {0, Unboxed} /\ ~IsValidHeapPointer(t[s])
             \/ /\ IsValidHeapPointer(t[s]) /\ Target(heap, t[s]) \in DOMAIN mem
                /\ AbsValue(t[s]) = mem[Target(heap, t[s])].id
                /\ AbsValue(t[s]) \notin {0, Unboxed}
                /\ s \in 2..l
  <2>1. t[s] \in Known
    BY <1>2
  <2>2. CASE t[s] \in {0, Unboxed}
    BY <2>1, <2>2, KnownCases
  <2>3. CASE t[s] \notin {0, Unboxed}
    <3>1. /\ IsValidHeapPointer(t[s]) /\ Target(heap, t[s]) \in DOMAIN mem
          /\ AbsValue(t[s]) = mem[Target(heap, t[s])].id
      BY <2>1, <2>3, KnownCases
    <3>2. AbsValue(t[s]) \notin {0, Unboxed}
      BY <3>1, Identities
    <3>3. s # 1
      BY <2>3 DEF Usable
    <3>4. QED
      BY <3>1, <3>2, <3>3
  <2>4. QED
    BY <2>2, <2>3
<1>5. HeldBy(t) \subseteq DOMAIN mem
  <2>1. ASSUME NEW s \in 2..l, IsValidHeapPointer(t[s])
        PROVE  Target(heap, t[s]) \in DOMAIN mem
    <3>1. s \in 1..l
      OBVIOUS
    <3>2. QED
      BY <1>4, <2>1, <3>1
  <2>2. QED
    BY <1>1, <2>1 DEF HeldBy
<1>6. PICK R : R = {AbsValue(t[s]) : s \in 1..l} \ {0, Unboxed}
  OBVIOUS
<1>7. Abs!IdsIn(SeenStack(t)) = R
  BY <1>3, <1>6 DEF Abs!IdsIn, Abs!Range
<1>8. ASSUME NEW n \in R PROVE \E b \in HeldBy(t) : n = mem[b].id
  <2>1. PICK s \in 1..l : n = AbsValue(t[s]) /\ n \notin {0, Unboxed}
    BY <1>6
  <2>2. s \in 2..l /\ IsValidHeapPointer(t[s]) /\ n = mem[Target(heap, t[s])].id
    BY <1>4, <2>1
  <2>3. Target(heap, t[s]) \in HeldBy(t)
    BY <1>1, <2>2 DEF HeldBy
  <2>4. QED
    BY <2>2, <2>3
<1>9. ASSUME NEW b \in HeldBy(t) PROVE mem[b].id \in R
  <2>1. PICK s \in 2..l : IsValidHeapPointer(t[s]) /\ b = Target(heap, t[s])
    BY <1>1 DEF HeldBy
  <2>2. s \in 1..l
    OBVIOUS
  <2>3. AbsValue(t[s]) = mem[b].id /\ AbsValue(t[s]) \notin {0, Unboxed}
    BY <1>4, <2>1, <2>2
  <2>4. QED
    BY <1>6, <2>2, <2>3
<1>10. R = {mem[b].id : b \in HeldBy(t)}
  BY <1>8, <1>9
<1>11. QED
  BY <1>1, <1>3, <1>5, <1>7, <1>10

\* The identities in an object are those of the objects it refers to.
LEMMA SeenFields ==
  ASSUME IInv, Steady, NEW a \in DOMAIN mem, Raw(AbsObject(mem[a]))
  PROVE  Abs!IdsIn(AbsObject(mem[a]).fields) = {mem[b].id : b \in Succ[a]}
<1>1. PICK x : x = AbsObject(mem[a])
  OBVIOUS
<1>2. /\ x.fields \in Seq(Values) /\ Len(x.fields) = Len(mem[a].fields)
      /\ Len(x.fields) \in Nat
      /\ SnapFirst(x) = FirstField(mem[a]) /\ FirstField(mem[a]) \in Nat \ {0}
      /\ \A i \in 1..Len(mem[a].fields) :
           x.fields[i] = IF i >= FirstField(mem[a]) THEN AbsValue(mem[a].fields[i])
                                                    ELSE mem[a].fields[i]
  BY <1>1, AbsObjects
<1>3. PICK l \in Nat, f \in Nat \ {0} : l = Len(x.fields) /\ f = FirstField(mem[a])
  BY <1>2
<1>4. PICK g : g = x.fields
  OBVIOUS
<1>5. /\ DOMAIN g = 1..l /\ Len(mem[a].fields) = l
      /\ \A i \in 1..l : i < f => g[i] = 0
  BY <1>1, <1>2, <1>3, <1>4 DEF Raw
<1>6. \A i \in f..l : i \in 1..l /\ g[i] = AbsValue(mem[a].fields[i])
  BY <1>2, <1>3, <1>4
<1>7. PICK R : R = {g[i] : i \in 1..l} \ {0, Unboxed}
  OBVIOUS
<1>8. Abs!IdsIn(g) = R
  BY <1>5, <1>7 DEF Abs!IdsIn, Abs!Range
<1>9. ASSUME NEW n \in R PROVE \E b \in Succ[a] : n = mem[b].id
  <2>1. PICK i \in 1..l : n = g[i] /\ n \notin {0, Unboxed}
    BY <1>7
  <2>2. i \in f..l
    BY <1>5, <2>1
  <2>3. PICK v \in Known : v = mem[a].fields[i] /\ n = AbsValue(v)
    <3>1. i \in FirstField(mem[a])..Len(mem[a].fields)
      BY <1>3, <1>5, <2>2
    <3>2. mem[a].fields[i] \in Known
      BY <3>1, ReferencesOf
    <3>3. QED
      BY <1>6, <2>1, <2>2, <3>2
  <2>4. IsValidHeapPointer(v) /\ n = mem[Target(heap, v)].id
    BY <2>1, <2>3, KnownCases
  <2>5. Target(heap, v) \in Succ[a]
    <3>1. i \in FirstField(mem[a])..Len(mem[a].fields)
      BY <1>3, <1>5, <2>2
    <3>2. QED
      BY <2>3, <2>4, <3>1, Edges
  <2>6. QED
    BY <2>4, <2>5
<1>10. ASSUME NEW b \in Succ[a] PROVE mem[b].id \in R
  <2>1. PICK i \in FirstField(mem[a])..Len(mem[a].fields) :
          IsValidHeapPointer(mem[a].fields[i]) /\ b = Target(heap, mem[a].fields[i])
    BY Edges
  <2>2. i \in f..l
    BY <1>3, <1>5, <2>1
  <2>3. PICK v \in Known : v = mem[a].fields[i]
    BY ReferencesOf
  <2>4. b \in DOMAIN mem /\ AbsValue(v) = mem[b].id
    BY <2>1, <2>3, KnownCases
  <2>5. mem[b].id \notin {0, Unboxed}
    BY <2>4, Identities
  <2>6. QED
    BY <1>6, <1>7, <2>2, <2>3, <2>4, <2>5
<1>11. R = {mem[b].id : b \in Succ[a]}
  BY <1>9, <1>10
<1>12. QED
  BY <1>1, <1>4, <1>8, <1>11

\* The objects a program sees when it can reach no others than those at D.
LEMMA SeenGraph ==
  ASSUME IInv, Steady, NEW D \in SUBSET DOMAIN mem,
         \A a \in D : Raw(AbsObject(mem[a]))
  PROVE  /\ DOMAIN Abs!Graph(Seen(D)) = {mem[a].id : a \in D}
         /\ \A a \in D : Abs!Graph(Seen(D))[mem[a].id] = {mem[b].id : b \in Succ[a]}
<1>1. PICK o : o = Seen(D)
  OBVIOUS
<1>2. \A a \in D : AbsObject(mem[a]).id = mem[a].id
  BY DEF AbsObject
<1>3. {x.id : x \in o} = {mem[a].id : a \in D}
  BY <1>1, <1>2 DEF Seen
<1>4. PICK N : N = {mem[a].id : a \in D}
  OBVIOUS
<1>5. Abs!Graph(o) = [n \in N |-> UNION {Abs!IdsIn(x.fields) : x \in {y \in o : y.id = n}}]
  BY <1>3, <1>4 DEF Abs!Graph
<1>6. \A a, b \in DOMAIN mem : mem[a].id = mem[b].id => a = b
  BY DEF IInv, HeapInv, Steady
<1>7. ASSUME NEW a \in D PROVE Abs!Graph(o)[mem[a].id] = {mem[b].id : b \in Succ[a]}
  <2>1. PICK x : x = AbsObject(mem[a])
    OBVIOUS
  <2>2. PICK n \in N : n = mem[a].id
    BY <1>4
  <2>3. {y \in o : y.id = n} = {x}
    <3>1. x \in o /\ x.id = n
      BY <1>1, <1>2, <2>1, <2>2 DEF Seen
    <3>2. ASSUME NEW y \in o, y.id = n PROVE y = x
      <4>1. PICK b \in D : y = AbsObject(mem[b])
        BY <1>1 DEF Seen
      <4>2. mem[b].id = mem[a].id
        BY <1>2, <2>2, <3>2, <4>1
      <4>3. QED
        BY <1>6, <2>1, <4>1, <4>2
    <3>3. QED
      BY <3>1, <3>2
  <2>4. Abs!Graph(o)[n] = UNION {Abs!IdsIn(y.fields) : y \in {x}}
    BY <1>5, <2>3
  <2>5. UNION {Abs!IdsIn(y.fields) : y \in {x}} = Abs!IdsIn(x.fields)
    OBVIOUS
  <2>6. a \in DOMAIN mem /\ Raw(AbsObject(mem[a]))
    OBVIOUS
  <2>7. Abs!IdsIn(x.fields) = {mem[b].id : b \in Succ[a]}
    BY <2>1, <2>6, SeenFields
  <2>8. QED
    BY <2>2, <2>4, <2>5, <2>7
<1>8. QED
  BY <1>1, <1>4, <1>5, <1>7

\* What can be reached by identity is what can be reached by address: of the
\* objects at D, which hold all that t leads to, t keeps those it leads to.
LEMMA Reduced ==
  ASSUME IInv, Steady, NEW t, Usable(t), NEW D \in SUBSET DOMAIN mem,
         HeldBy(t) \subseteq D, \A a \in D : Succ[a] \subseteq D,
         \A a \in D : Raw(AbsObject(mem[a]))
  PROVE  /\ Abs!Reachable(SeenStack(t), Seen(D)) = Seen(LiveFrom(t))
         /\ LiveFrom(t) \subseteq D
<1>1. PICK o : o = Seen(D)
  OBVIOUS
<1>2. PICK G : G = Abs!Graph(o)
  OBVIOUS
<1>3. /\ DOMAIN G = {mem[a].id : a \in D}
      /\ \A a \in D : G[mem[a].id] = {mem[b].id : b \in Succ[a]}
  BY <1>1, <1>2, SeenGraph
<1>4. PICK S : S = {mem[b].id : b \in HeldBy(t)}
  OBVIOUS
<1>5. Abs!IdsIn(SeenStack(t)) = S
  BY <1>4, SeenValues
<1>6. PICK R : R = Reach(S, G)
  OBVIOUS
<1>7. Abs!Reachable(SeenStack(t), o) = {x \in o : x.id \in R}
  <2>1. Abs!Reachable(SeenStack(t), o) =
          UNION {{x \in o : x.id \in reached} : reached \in {Abs!Reach(S, G)}}
    BY <1>2, <1>5 DEF Abs!Reachable
  <2>2. Abs!Reach(S, G) = R
    BY <1>6, SameReach
  <2>3. UNION {{x \in o : x.id \in reached} : reached \in {R}} = {x \in o : x.id \in R}
    OBVIOUS
  <2>4. QED
    BY <2>1, <2>2, <2>3
<1>8. PICK L : L = LiveFrom(t)
  OBVIOUS
<1>9. PICK H : H = HeldBy(t)
  OBVIOUS
<1>10. /\ DOMAIN Succ = DOMAIN mem /\ H \subseteq D /\ D \subseteq DOMAIN Succ
       /\ L = Reach(H, Succ)
  BY <1>8, <1>9, Graph DEF LiveFrom
<1>11. L \subseteq D
  <2>1. Closed(D, Succ) /\ D \in SUBSET DOMAIN Succ
    BY <1>10 DEF Closed
  <2>2. QED
    BY <1>10, <2>1, ReachLeast
<1>12. H \subseteq L
  BY <1>10, ReachContains
<1>13. \A a \in L : Succ[a] \subseteq L
  <2>1. ASSUME NEW a \in L PROVE Succ[a] \subseteq L
    <3>1. a \in Reach(H, Succ) /\ Succ[a] \subseteq DOMAIN Succ
      BY <1>10, <1>11
    <3>2. QED
      BY <1>10, <3>1, ReachClosed
  <2>2. QED
    BY <2>1
<1>14. PICK T : T = {mem[a].id : a \in L}
  OBVIOUS
<1>15. R \subseteq T
  <2>1. T \in SUBSET DOMAIN G
    BY <1>3, <1>11, <1>14
  <2>2. S \subseteq T
    BY <1>4, <1>9, <1>12, <1>14
  <2>3. Closed(T, G)
    <3>1. ASSUME NEW n \in T PROVE G[n] \subseteq T
      <4>1. PICK a \in L : n = mem[a].id
        BY <1>14
      <4>2. a \in D /\ Succ[a] \subseteq L
        BY <1>11, <1>13
      <4>3. G[n] = {mem[b].id : b \in Succ[a]}
        BY <1>3, <4>1, <4>2
      <4>4. QED
        BY <1>14, <4>2, <4>3
    <3>2. QED
      BY <3>1 DEF Closed
  <2>4. QED
    BY <1>6, <2>1, <2>2, <2>3, ReachLeast
<1>16. \A a \in L : mem[a].id \in R
  <2>1. PICK U : U = {a \in D : mem[a].id \in R}
    OBVIOUS
  <2>2. S \subseteq R
    <3>1. S \subseteq DOMAIN G
      BY <1>3, <1>4, <1>9, <1>10
    <3>2. QED
      BY <1>6, <3>1, ReachContains
  <2>3. H \subseteq U
    BY <1>4, <1>9, <1>10, <2>1, <2>2
  <2>4. ASSUME NEW a \in U PROVE Succ[a] \subseteq U
    <3>1. a \in D /\ mem[a].id \in R /\ Succ[a] \subseteq D
      BY <2>1
    <3>2. G[mem[a].id] = {mem[b].id : b \in Succ[a]}
      BY <1>3, <3>1
    <3>3. G[mem[a].id] \subseteq DOMAIN G
      BY <1>3, <3>1, <3>2
    <3>4. G[mem[a].id] \subseteq R
      BY <1>6, <3>1, <3>3, ReachClosed
    <3>5. QED
      BY <2>1, <3>1, <3>2, <3>4
  <2>5. U \in SUBSET DOMAIN Succ /\ Closed(U, Succ)
    BY <1>10, <2>1, <2>4 DEF Closed
  <2>6. L \subseteq U
    BY <1>10, <2>3, <2>5, ReachLeast
  <2>7. QED
    BY <2>1, <2>6
<1>17. \A a, b \in DOMAIN mem : mem[a].id = mem[b].id => a = b
  BY DEF IInv, HeapInv, Steady
<1>18. \A a \in D : AbsObject(mem[a]).id = mem[a].id
  BY DEF AbsObject
<1>19. {x \in o : x.id \in R} = Seen(L)
  <2>1. ASSUME NEW x \in o, x.id \in R PROVE x \in Seen(L)
    <3>1. PICK a \in D : x = AbsObject(mem[a])
      BY <1>1 DEF Seen
    <3>2. mem[a].id \in T
      BY <1>15, <1>18, <2>1, <3>1
    <3>3. PICK b \in L : mem[b].id = mem[a].id
      BY <1>14, <3>2
    <3>4. b = a
      BY <1>11, <1>17, <3>3
    <3>5. QED
      BY <3>1, <3>4 DEF Seen
  <2>2. ASSUME NEW x \in Seen(L) PROVE x \in o /\ x.id \in R
    <3>1. PICK a \in L : x = AbsObject(mem[a])
      BY DEF Seen
    <3>2. a \in D /\ mem[a].id \in R
      BY <1>11, <1>16
    <3>3. QED
      BY <1>1, <1>18, <3>1, <3>2 DEF Seen
  <2>3. QED
    BY <2>1, <2>2
<1>20. QED
  BY <1>1, <1>7, <1>8, <1>11, <1>19

---------------------------------------------------------------------------
(***************************************************************************)
(* The words a program can lay its hands on.                               *)
(***************************************************************************)

InHand(v) ==
  \/ v \in {0, Unboxed}
  \/ \E s \in 2..Len(stack) : v = stack[s]
  \/ \E a \in Live : \E i \in FirstField(mem[a])..Len(mem[a].fields) : v = mem[a].fields[i]

\* While a program runs what it sees is the heap.
LEMMA SeenHere ==
  ASSUME IInv, StoreInv, Settled
  PROVE  /\ Steady /\ AbsStack = StoreStack /\ AbsObjs = StoreObjs
         /\ StoreStack = SeenStack(stack) /\ StoreObjs = Seen(Live)
         /\ Live = LiveFrom(stack) /\ Held = HeldBy(stack) /\ Usable(stack)
         /\ \A a \in Live : Raw(AbsObject(mem[a]))
<1>1. Steady /\ ~Collecting
  BY DEF Settled, Steady, Collecting
<1>2. AbsStack = StoreStack /\ AbsObjs = StoreObjs
  BY <1>1 DEF AbsStack, AbsObjs
<1>3. StoreStack = SeenStack(stack) /\ StoreObjs = Seen(Live)
  BY DEF StoreStack, StoreObjs, SeenStack, Seen
<1>4. Live = LiveFrom(stack) /\ Held = HeldBy(stack)
  BY DEF Live, Held, LiveFrom, HeldBy
<1>5. Usable(stack)
  BY Running DEF Usable
<1>6. \A a \in Live : Raw(AbsObject(mem[a]))
  BY <1>2, <1>3 DEF StoreInv, Seen
<1>7. QED
  BY <1>1, <1>2, <1>3, <1>4, <1>5, <1>6

\* A word in hand leads to an object that can be reached, and is among those
\* the store shows.
LEMMA HandValues ==
  ASSUME IInv, StoreInv, Settled, NEW v, InHand(v)
  PROVE  /\ v \in Known
         /\ IsValidHeapPointer(v) => Target(heap, v) \in Live
         /\ AbsValue(v) \in Abs!Visible(StoreStack, StoreObjs)
<1>1. /\ Steady /\ StoreStack = SeenStack(stack) /\ StoreObjs = Seen(Live) /\ Usable(stack)
  BY SeenHere
<1>2. CASE v \in {0, Unboxed}
  <2>1. v \in Known
    BY <1>2, Running
  <2>2. AbsValue(v) = v /\ ~IsValidHeapPointer(v)
    BY <1>1, <1>2, <2>1, KnownCases
  <2>3. AbsValue(v) \in Abs!Visible(StoreStack, StoreObjs)
    BY <1>2, <2>2 DEF Abs!Visible
  <2>4. QED
    BY <2>1, <2>2, <2>3
<1>3. ASSUME NEW s \in 2..Len(stack), v = stack[s]
      PROVE  /\ v \in Known
             /\ IsValidHeapPointer(v) => Target(heap, v) \in Live
             /\ AbsValue(v) \in Abs!Visible(StoreStack, StoreObjs)
  <2>1. s \in 1..Len(stack) /\ stack \in Seq(Known)
    BY Running
  <2>2. v \in Known
    BY <1>3, <2>1, ElementOfSeq
  <2>3. IsValidHeapPointer(v) => Target(heap, v) \in Live
    BY <1>1, <1>3, Edges, Graph
  <2>4. AbsValue(v) \in Abs!Range(StoreStack)
    <3>1. PICK st : st = SeenStack(stack)
      OBVIOUS
    <3>2. st = [i \in 1..Len(stack) |-> AbsValue(stack[i])]
      BY <1>1, <3>1, SeenValues
    <3>3. s \in DOMAIN st /\ st[s] = AbsValue(v)
      BY <1>3, <2>1, <3>2
    <3>4. AbsValue(v) \in Abs!Range(st)
      BY <3>3 DEF Abs!Range
    <3>5. QED
      BY <1>1, <3>1, <3>4
  <2>5. QED
    BY <2>2, <2>3, <2>4 DEF Abs!Visible
<1>4. ASSUME NEW a \in Live, NEW i \in FirstField(mem[a])..Len(mem[a].fields),
             v = mem[a].fields[i]
      PROVE  /\ v \in Known
             /\ IsValidHeapPointer(v) => Target(heap, v) \in Live
             /\ AbsValue(v) \in Abs!Visible(StoreStack, StoreObjs)
  <2>1. a \in DOMAIN mem /\ Succ[a] \subseteq Live
    BY <1>1, Graph
  <2>2. v \in Known
    BY <1>1, <1>4, <2>1, ReferencesOf
  <2>3. IsValidHeapPointer(v) => Target(heap, v) \in Live
    BY <1>1, <1>4, <2>1, Edges
  <2>4. PICK x : x = AbsObject(mem[a])
    OBVIOUS
  <2>5. x \in StoreObjs
    BY <1>1, <2>4 DEF Seen
  <2>6. /\ x.fields \in Seq(Values) /\ Len(x.fields) = Len(mem[a].fields)
        /\ Len(x.fields) \in Nat /\ FirstField(mem[a]) \in Nat \ {0}
        /\ \A j \in 1..Len(mem[a].fields) :
             x.fields[j] = IF j >= FirstField(mem[a]) THEN AbsValue(mem[a].fields[j])
                                                      ELSE mem[a].fields[j]
    BY <1>1, <2>1, <2>4, AbsObjects
  <2>7. i \in 1..Len(x.fields) /\ x.fields[i] = AbsValue(v)
    BY <1>4, <2>6
  <2>8. i \in DOMAIN x.fields
    BY <2>6, <2>7
  <2>9. AbsValue(v) \in Abs!Range(x.fields)
    BY <2>7, <2>8 DEF Abs!Range
  <2>10. QED
    BY <2>2, <2>3, <2>5, <2>9 DEF Abs!Visible
<1>5. QED
  BY <1>2, <1>3, <1>4 DEF InHand

\* An instruction that leaves the heap alone moves values.
LEMMA Moved ==
  ASSUME IInv, StoreInv, Settled, NEW t, Usable(t),
         \A s \in 2..Len(t) : InHand(t[s]), stack' = t,
         mem' = mem, heap' = heap, nextId' = nextId, phase' \in {"run", "alloc", "exit"}
  PROVE  Abs!Next /\ \A x \in AbsObjs' : Raw(x)
<1>1. /\ Steady /\ AbsStack = StoreStack /\ AbsObjs = StoreObjs
      /\ StoreObjs = Seen(Live) /\ \A a \in Live : Raw(AbsObject(mem[a]))
  BY SeenHere
<1>2. PICK D : D = Live
  OBVIOUS
<1>3. D \in SUBSET DOMAIN mem /\ \A a \in D : Succ[a] \subseteq D
  BY <1>1, <1>2, Graph
<1>4. HeldBy(t) \subseteq D
  BY <1>2, HandValues DEF HeldBy
<1>5. /\ Abs!Reachable(SeenStack(t), Seen(D)) = Seen(LiveFrom(t))
      /\ LiveFrom(t) \subseteq D
  BY <1>1, <1>2, <1>3, <1>4, Reduced
<1>6. ~Collecting'
  BY DEF Collecting
<1>7. \A v : AbsValue(v)' = AbsValue(v)
  BY DEF AbsValue
<1>8. AbsStack' = SeenStack(t)
  BY <1>6, <1>7 DEF AbsStack, StoreStack, SeenStack
<1>9. AbsObjs' = Seen(LiveFrom(t))
  <2>1. Succ' = Succ
    BY DEF Succ
  <2>2. Held' = HeldBy(t)
    BY DEF Held, HeldBy, IsValidHeapPointer
  <2>3. Live' = LiveFrom(t)
    BY <2>1, <2>2 DEF Live, LiveFrom
  <2>4. StoreObjs' = Seen(LiveFrom(t))
    BY <1>7, <2>3 DEF StoreObjs, Seen, AbsObject
  <2>5. QED
    BY <1>6, <2>4 DEF AbsObjs
<1>10. Abs!Range(SeenStack(t)) \subseteq Abs!Visible(StoreStack, StoreObjs)
  <2>1. PICK st : st = SeenStack(t)
    OBVIOUS
  <2>2. st = [i \in 1..Len(t) |-> AbsValue(t[i])]
    BY <1>1, <2>1, SeenValues
  <2>3. ASSUME NEW i \in 1..Len(t) PROVE InHand(t[i])
    <3>1. CASE i = 1
      BY <3>1 DEF InHand, Usable
    <3>2. CASE i # 1
      <4>1. i \in 2..Len(t)
        BY <3>2 DEF Usable
      <4>2. QED
        BY <4>1
    <3>3. QED
      BY <3>1, <3>2
  <2>4. \A i \in 1..Len(t) : AbsValue(t[i]) \in Abs!Visible(StoreStack, StoreObjs)
    BY <2>3, HandValues
  <2>5. QED
    BY <2>1, <2>2, <2>4 DEF Abs!Range
<1>11. Abs!Move(AbsStack, AbsObjs, AbsStack', AbsObjs')
  BY <1>1, <1>2, <1>5, <1>8, <1>9, <1>10 DEF Abs!Move
<1>12. Abs!Next
  BY <1>11 DEF Abs!Next, AbsStack, AbsObjs
<1>13. \A x \in AbsObjs' : Raw(x)
  BY <1>1, <1>2, <1>5, <1>9 DEF Seen
<1>14. QED
  BY <1>12, <1>13

\* Such an instruction leaves no builtin in progress.
LEMMA StackSet ==
  ASSUME IInv, StoreInv, phase = "run", NEW t, Usable(t),
         \A s \in 2..Len(t) : InHand(t[s]), SetStack(t)
  PROVE  Abs!Next /\ StoreInv'
<1>1. /\ stack' = t
      /\ UNCHANGED <<mem, heap, req, phase, nextId>>
  BY DEF SetStack
<1>2. Settled /\ phase' \in {"run", "alloc", "exit"}
  BY <1>1 DEF Settled
<1>3. Abs!Next /\ \A x \in AbsObjs' : Raw(x)
  BY <1>1, <1>2, Moved
<1>4. StoreInv'
  BY <1>1, <1>3 DEF StoreInv
<1>5. QED
  BY <1>3, <1>4

\* The words above n operands, and a value in hand on top of them.
LEMMA HandPushed ==
  ASSUME IInv, Settled, NEW n \in Nat, Len(stack) >= Base + n, NEW v \in Known, InHand(v)
  PROVE  /\ Usable(Append(Pop(n), v))
         /\ \A s \in 2..Len(Append(Pop(n), v)) : InHand(Append(Pop(n), v)[s])
<1>1. PICK t : t = Append(Pop(n), v)
  OBVIOUS
<1>2. t \in Seq(Known) /\ Len(t) >= Base /\ t[1] \in {0, Unboxed}
  BY <1>1, Pushed
<1>3. Base \in Nat /\ Base >= 2 /\ Len(stack) \in Nat
  BY Running
<1>4. Usable(t)
  BY <1>2, <1>3 DEF Usable
<1>5. PICK p : p = Pop(n)
  OBVIOUS
<1>6. PICK l \in 0..Len(stack) : l = Len(stack) - n /\ l >= Base /\ 1 \in 1..l
  BY <1>3, Remaining
<1>7. p \in Seq(Known) /\ Len(p) = l /\ \A i \in 1..l : p[i] = stack[i]
  BY <1>5, <1>6, Popped
<1>8. Len(t) = l + 1 /\ t[l + 1] = v /\ \A i \in 1..l : t[i] = p[i]
  BY <1>1, <1>5, <1>7, AppendProperties
<1>9. ASSUME NEW s \in 2..(l + 1) PROVE InHand(t[s])
  <2>1. CASE s = l + 1
    BY <1>8, <2>1
  <2>2. CASE s # l + 1
    <3>1. s \in 1..l /\ s \in 2..Len(stack)
      BY <1>3, <1>6, <2>2
    <3>2. t[s] = stack[s]
      BY <1>7, <1>8, <3>1
    <3>3. QED
      BY <3>1, <3>2 DEF InHand
  <2>3. QED
    BY <2>1, <2>2
<1>10. QED
  BY <1>1, <1>4, <1>8, <1>9

\* Likewise without a pop.
LEMMA HandAppended ==
  ASSUME IInv, Settled, NEW v \in Known, InHand(v)
  PROVE  /\ Usable(Append(stack, v))
         /\ \A s \in 2..Len(Append(stack, v)) : InHand(Append(stack, v)[s])
<1>1. PICK t : t = Append(stack, v)
  OBVIOUS
<1>2. t \in Seq(Known) /\ Len(t) >= Base /\ t[1] \in {0, Unboxed}
  BY <1>1, PushedOn
<1>3. Base \in Nat /\ Base >= 2 /\ stack \in Seq(Known)
  BY Running
<1>4. Usable(t)
  BY <1>2, <1>3 DEF Usable
<1>5. PICK l \in Nat : l = Len(stack)
  BY <1>3
<1>6. Len(t) = l + 1 /\ t[l + 1] = v /\ \A i \in 1..l : t[i] = stack[i]
  BY <1>1, <1>3, <1>5, AppendProperties
<1>7. ASSUME NEW s \in 2..(l + 1) PROVE InHand(t[s])
  <2>1. CASE s = l + 1
    BY <1>6, <2>1
  <2>2. CASE s # l + 1
    <3>1. s \in 1..l /\ s \in 2..Len(stack)
      BY <1>5, <2>2
    <3>2. QED
      BY <1>6, <3>1 DEF InHand
  <2>3. QED
    BY <2>1, <2>2
<1>8. QED
  BY <1>1, <1>4, <1>6, <1>7

\* An operand is in hand, and so are the fields of the objects in hand.
LEMMA HandTop ==
  ASSUME IInv, Settled, NEW n \in Nat, Len(stack) >= n + 2
  PROVE  Top(n) \in Known /\ InHand(Top(n))
<1>1. Len(stack) \in Nat
  BY Running
<1>2. Len(stack) - n \in 2..Len(stack) /\ Len(stack) > n
  BY <1>1
<1>3. QED
  BY <1>2, TopKnown DEF InHand, Top

\* A field of an object in hand can be reached.
LEMMA HandField ==
  ASSUME IInv, StoreInv, Settled, NEW p, InHand(p), IsObject(p), NEW i \in Fields(p)
  PROVE  Field(p, i) \in Known /\ InHand(Field(p, i)) /\ Target(heap, p) \in Live
<1>1. p \in Known /\ Target(heap, p) \in Live
  BY HandValues DEF IsObject
<1>2. Field(p, i) \in Known
  BY <1>1, FieldKnown
<1>3. InHand(Field(p, i))
  BY <1>1 DEF InHand, Field, Fields
<1>4. QED
  BY <1>1, <1>2, <1>3

\* What the closures on the stack hold is in hand.
LEMMA HandCaptured ==
  ASSUME IInv, StoreInv, Settled, NEW v \in Captures
  PROVE  v \in Known /\ InHand(v)
<1>1. PICK s \in {u \in Slots : IsClosure(stack[u])} :
        v \in {Field(stack[s], i) : i \in Fields(stack[s])}
  BY DEF Captures
<1>2. PICK i \in Fields(stack[s]) : v = Field(stack[s], i)
  BY <1>1
<1>3. InHand(stack[s]) /\ IsObject(stack[s])
  BY <1>1 DEF InHand, Slots, IsClosure
<1>4. QED
  BY <1>2, <1>3, HandField

\* CONST, LWRITE and DROP.
LEMMA ConstMoves == IInv /\ StoreInv /\ Const => Abs!Next /\ StoreInv'
<1> SUFFICES ASSUME IInv, StoreInv, Const PROVE Abs!Next /\ StoreInv'
  OBVIOUS
<1>1. phase = "run" /\ Settled /\ SetStack(Append(stack, Unboxed))
  BY DEF Const, Dispatch, Settled
<1>2. Unboxed \in Known /\ InHand(Unboxed)
  BY <1>1, Running DEF InHand
<1>3. PICK t : t = Append(stack, Unboxed)
  OBVIOUS
<1>4. Usable(t) /\ \A s \in 2..Len(t) : InHand(t[s])
  BY <1>1, <1>2, <1>3, HandAppended
<1>5. SetStack(t)
  BY <1>1, <1>3 DEF SetStack
<1>6. QED
  BY <1>1, <1>4, <1>5, StackSet

\* LWRITE leaves the raw 0.
LEMMA LwriteMoves == IInv /\ StoreInv /\ Lwrite => Abs!Next /\ StoreInv'
<1> SUFFICES ASSUME IInv, StoreInv, Lwrite PROVE Abs!Next /\ StoreInv'
  OBVIOUS
<1>1. phase = "run" /\ Settled /\ SetStack(Append(Pop(1), 0)) /\ Len(stack) >= Base + 1
  BY DEF Lwrite, Dispatch, Settled
<1>2. 0 \in Known /\ InHand(0)
  BY <1>1, Running DEF InHand
<1>3. PICK t : t = Append(Pop(1), 0)
  OBVIOUS
<1>4. Usable(t) /\ \A s \in 2..Len(t) : InHand(t[s])
  BY <1>1, <1>2, <1>3, HandPushed
<1>5. SetStack(t)
  BY <1>1, <1>3 DEF SetStack
<1>6. QED
  BY <1>1, <1>4, <1>5, StackSet

\* DROP may end the life of what only its operand led to.
LEMMA DropMoves == IInv /\ StoreInv /\ Drop => Abs!Next /\ StoreInv'
<1> SUFFICES ASSUME IInv, StoreInv, Drop PROVE Abs!Next /\ StoreInv'
  OBVIOUS
<1>1. phase = "run" /\ Settled /\ SetStack(Pop(1)) /\ Len(stack) >= Base + 1
  BY DEF Drop, Dispatch, Settled
<1>2. PICK t : t = Pop(1)
  OBVIOUS
<1>3. /\ t \in Seq(Known) /\ Len(t) = Len(stack) - 1 /\ Len(t) >= Base
      /\ t[1] \in {0, Unboxed} /\ \A i \in 1..(Len(stack) - 1) : t[i] = stack[i]
  BY <1>1, <1>2, Popped
<1>4. Base \in Nat /\ Base >= 2 /\ Len(stack) \in Nat
  BY <1>1, Running
<1>5. Usable(t)
  BY <1>3, <1>4 DEF Usable
<1>6. ASSUME NEW s \in 2..Len(t) PROVE InHand(t[s])
  <2>1. s \in 1..(Len(stack) - 1) /\ s \in 2..Len(stack)
    BY <1>3, <1>4
  <2>2. QED
    BY <1>3, <2>1 DEF InHand
<1>7. SetStack(t)
  BY <1>1, <1>2 DEF SetStack
<1>8. QED
  BY <1>1, <1>5, <1>6, <1>7, StackSet

\* DUP.
LEMMA DupMoves == IInv /\ StoreInv /\ Dup => Abs!Next /\ StoreInv'
<1> SUFFICES ASSUME IInv, StoreInv, Dup PROVE Abs!Next /\ StoreInv'
  OBVIOUS
<1>1. phase = "run" /\ Settled /\ SetStack(Append(stack, Top(0))) /\ Len(stack) >= Base + 1
  BY DEF Dup, Dispatch, Settled
<1>2. PICK v : v = Top(0)
  OBVIOUS
<1>3. v \in Known /\ InHand(v)
  <2>1. Len(stack) >= 0 + 2
    BY <1>1, Running
  <2>2. QED
    BY <1>1, <1>2, <2>1, HandTop
<1>4. PICK t : t = Append(stack, v)
  OBVIOUS
<1>5. Usable(t) /\ \A s \in 2..Len(t) : InHand(t[s])
  BY <1>1, <1>3, <1>4, HandAppended
<1>6. SetStack(t)
  BY <1>1, <1>2, <1>4 DEF SetStack
<1>7. QED
  BY <1>1, <1>5, <1>6, StackSet

\* LD copies a slot of the stack.
LEMMA LdMoves == IInv /\ StoreInv /\ Ld => Abs!Next /\ StoreInv'
<1> SUFFICES ASSUME IInv, StoreInv, Ld PROVE Abs!Next /\ StoreInv'
  OBVIOUS
<1>1. phase = "run" /\ Settled
  BY DEF Ld, Dispatch, Settled
<1>2. PICK s \in Slots : SetStack(Append(stack, stack[s]))
  BY DEF Ld
<1>3. PICK v : v = stack[s]
  OBVIOUS
<1>4. InHand(v)
  BY <1>3 DEF InHand, Slots
<1>5. v \in Known
  BY <1>1, <1>4, HandValues
<1>6. PICK t : t = Append(stack, v)
  OBVIOUS
<1>7. Usable(t) /\ \A i \in 2..Len(t) : InHand(t[i])
  BY <1>1, <1>4, <1>5, <1>6, HandAppended
<1>8. SetStack(t)
  BY <1>2, <1>3, <1>6 DEF SetStack
<1>9. QED
  BY <1>1, <1>7, <1>8, StackSet

\* LD C copies a word out of a closure.
LEMMA LdCapturedMoves == IInv /\ StoreInv /\ LdCaptured => Abs!Next /\ StoreInv'
<1> SUFFICES ASSUME IInv, StoreInv, LdCaptured PROVE Abs!Next /\ StoreInv'
  OBVIOUS
<1>1. phase = "run" /\ Settled
  BY DEF LdCaptured, Dispatch, Settled
<1>2. PICK v \in Captures : SetStack(Append(stack, v))
  BY DEF LdCaptured
<1>3. v \in Known /\ InHand(v)
  BY <1>1, HandCaptured
<1>4. PICK t : t = Append(stack, v)
  OBVIOUS
<1>5. Usable(t) /\ \A s \in 2..Len(t) : InHand(t[s])
  BY <1>1, <1>3, <1>4, HandAppended
<1>6. SetStack(t)
  BY <1>2, <1>4 DEF SetStack
<1>7. QED
  BY <1>1, <1>5, <1>6, StackSet

\* ST overwrites a slot with the word on top.
LEMMA StMoves == IInv /\ StoreInv /\ St => Abs!Next /\ StoreInv'
<1> SUFFICES ASSUME IInv, StoreInv, St PROVE Abs!Next /\ StoreInv'
  OBVIOUS
<1>1. phase = "run" /\ Settled /\ Len(stack) >= Base + 1
  BY DEF St, Dispatch, Settled
<1>2. PICK r \in Slots : SetStack([stack EXCEPT ![r] = Top(0)])
  BY DEF St
<1>3. /\ stack \in Seq(Known) /\ Len(stack) \in Nat \ {0} /\ Base \in Nat /\ Base >= 2
      /\ stack[1] \in {0, Unboxed} /\ Len(stack) >= Base
  BY <1>1, Running
<1>4. PICK v : v = Top(0)
  OBVIOUS
<1>5. v \in Known /\ InHand(v)
  <2>1. Len(stack) >= 0 + 2
    BY <1>3
  <2>2. QED
    BY <1>1, <1>4, <2>1, HandTop
<1>6. PICK t : t = [stack EXCEPT ![r] = v]
  OBVIOUS
<1>7. t \in Seq(Known) /\ Len(t) = Len(stack)
  <2>1. r \in 1..Len(stack)
    BY <1>3 DEF Slots
  <2>2. QED
    BY <1>3, <1>5, <1>6, <2>1, ExceptSeq
<1>8. \A i \in 1..Len(stack) : t[i] = IF i = r THEN v ELSE stack[i]
  BY <1>3, <1>6
<1>9. Usable(t)
  <2>1. r # 1 /\ 1 \in 1..Len(stack)
    BY <1>3 DEF Slots
  <2>2. t[1] = stack[1]
    BY <1>8, <2>1
  <2>3. QED
    BY <1>3, <1>7, <2>2 DEF Usable
<1>10. \A s \in 2..Len(t) : InHand(t[s])
  <2>1. ASSUME NEW s \in 2..Len(stack) PROVE InHand(t[s])
    <3>1. s \in 1..Len(stack) /\ InHand(stack[s])
      BY <1>3 DEF InHand
    <3>2. QED
      BY <1>5, <1>8, <3>1
  <2>2. QED
    BY <1>7, <2>1
<1>11. SetStack(t)
  BY <1>2, <1>4, <1>6 DEF SetStack
<1>12. QED
  BY <1>1, <1>9, <1>10, <1>11, StackSet

\* ELEM replaces the object and the index by a field of that object.
LEMMA ElemMoves == IInv /\ StoreInv /\ Elem => Abs!Next /\ StoreInv'
<1> SUFFICES ASSUME IInv, StoreInv, Elem PROVE Abs!Next /\ StoreInv'
  OBVIOUS
<1>1. phase = "run" /\ Settled /\ Len(stack) >= Base + 2 /\ IsObject(Top(1))
  BY DEF Elem, Dispatch, Settled, Indexable
<1>2. PICK p : p = Top(1)
  OBVIOUS
<1>3. PICK i \in Fields(p) : SetStack(Append(Pop(2), Field(p, i)))
  BY <1>2 DEF Elem
<1>4. InHand(p) /\ IsObject(p)
  <2>1. Len(stack) >= 1 + 2
    BY <1>1, Running
  <2>2. QED
    BY <1>1, <1>2, <2>1, HandTop
<1>5. PICK v : v = Field(p, i)
  OBVIOUS
<1>6. v \in Known /\ InHand(v)
  BY <1>1, <1>4, <1>5, HandField
<1>7. PICK t : t = Append(Pop(2), v)
  OBVIOUS
<1>8. Usable(t) /\ \A s \in 2..Len(t) : InHand(t[s])
  BY <1>1, <1>6, <1>7, HandPushed
<1>9. SetStack(t)
  BY <1>3, <1>5, <1>7 DEF SetStack
<1>10. QED
  BY <1>1, <1>8, <1>9, StackSet

\* The prologue of a builtin pushes values in hand, and what is no reference.
LEMMA EnterMoves ==
  ASSUME IInv, StoreInv, phase = "run",
         NEW op \in Operators, NEW n \in Nat, op \in {"STRING", "LSTRING"} => n = 1,
         NEW s \in Seq(Known), \A i \in 1..Len(s) : InHand(s[i]),
         NEW rs, Enter(op, n, s, rs)
  PROVE  Abs!Next /\ StoreInv'
<1>1. /\ stack' = stack \o s /\ req' = [op |-> op, n |-> n]
      /\ phase' \in {"exit", "alloc"}
      /\ UNCHANGED <<mem, heap, nextId>>
  BY DEF Enter
<1>2. /\ stack \in Seq(Known) /\ Len(stack) \in Nat /\ Base \in Nat /\ Base >= 2
      /\ stack[1] \in {0, Unboxed} /\ Len(stack) >= Base /\ Settled
  BY Running DEF Settled
<1>3. PICK t : t = stack \o s
  OBVIOUS
<1>4. /\ t \in Seq(Known) /\ Len(t) = Len(stack) + Len(s)
      /\ \A i \in 1..Len(stack) : t[i] = stack[i]
      /\ \A i \in 1..Len(s) : t[Len(stack) + i] = s[i]
      /\ Len(s) \in Nat
  BY <1>2, <1>3, Appended
<1>5. Usable(t)
  <2>1. 1 \in 1..Len(stack) /\ Len(t) \in Nat \ {0}
    BY <1>2, <1>4
  <2>2. QED
    BY <1>2, <1>4, <2>1 DEF Usable
<1>6. ASSUME NEW j \in 2..Len(t) PROVE InHand(t[j])
  <2>1. CASE j <= Len(stack)
    <3>1. j \in 1..Len(stack) /\ j \in 2..Len(stack)
      BY <1>2, <2>1
    <3>2. QED
      BY <1>4, <3>1 DEF InHand
  <2>2. CASE ~(j <= Len(stack))
    <3>1. PICK l \in Nat : l = Len(stack)
      BY <1>2
    <3>2. PICK k \in Nat : k = Len(s)
      BY <1>4
    <3>3. j \in 2..(l + k) /\ ~(j <= l)
      BY <1>4, <2>2, <3>1, <3>2
    <3>4. PICK i \in 1..k : j = l + i
      <4>1. j - l \in 1..k /\ j = l + (j - l)
        BY <3>3
      <4>2. QED
        BY <4>1
    <3>5. t[j] = s[i]
      BY <1>4, <3>1, <3>2, <3>4
    <3>6. QED
      BY <3>2, <3>5
  <2>3. QED
    BY <2>1, <2>2
<1>7. Abs!Next /\ \A x \in AbsObjs' : Raw(x)
  <2>1. /\ stack' = t /\ mem' = mem /\ heap' = heap /\ nextId' = nextId
        /\ phase' \in {"run", "alloc", "exit"}
    BY <1>1, <1>3
  <2>2. QED
    BY <1>2, <1>5, <1>6, <2>1, Moved
<1>8. req'.op # "none" /\ (req'.op \in {"STRING", "LSTRING"} => req'.n = 1)
  BY <1>1 DEF Operators
<1>9. StoreInv'
  BY <1>7, <1>8 DEF StoreInv
<1>10. QED
  BY <1>7, <1>9

\* STRING, LSTRING and BARRAY push nothing.
LEMMA StringMoves == IInv /\ StoreInv /\ String => Abs!Next /\ StoreInv'
<1> SUFFICES ASSUME IInv, StoreInv, String PROVE Abs!Next /\ StoreInv'
  OBVIOUS
<1>1. phase = "run" /\ Enter("STRING", 1, << >>, <<0>>)
  BY DEF String, Dispatch
<1>2. << >> \in Seq(Known) /\ \A i \in 1..Len(<< >>) : InHand(<< >>[i])
  OBVIOUS
<1>3. "STRING" \in Operators
  BY DEF Operators
<1>4. QED
  BY <1>1, <1>2, <1>3, EnterMoves

\* The operand of LSTRING stays on the stack.
LEMMA LstringMoves == IInv /\ StoreInv /\ Lstring => Abs!Next /\ StoreInv'
<1> SUFFICES ASSUME IInv, StoreInv, Lstring PROVE Abs!Next /\ StoreInv'
  OBVIOUS
<1>1. PICK rs : phase = "run" /\ Enter("LSTRING", 1, << >>, rs)
  BY DEF Lstring, Dispatch
<1>2. << >> \in Seq(Known) /\ \A i \in 1..Len(<< >>) : InHand(<< >>[i])
  OBVIOUS
<1>3. "LSTRING" \in Operators
  BY DEF Operators
<1>4. QED
  BY <1>1, <1>2, <1>3, EnterMoves

\* So do those of BARRAY until the array is there.
LEMMA BarrayMoves == IInv /\ StoreInv /\ Barray => Abs!Next /\ StoreInv'
<1> SUFFICES ASSUME IInv, StoreInv, Barray PROVE Abs!Next /\ StoreInv'
  OBVIOUS
<1>1. PICK n \in 0..MaxFields :
        phase = "run" /\ Enter("BARRAY", n, << >>, OperandRoots(Len(stack), n))
  BY DEF Barray, Dispatch
<1>2. PICK rs : rs = OperandRoots(Len(stack), n)
  OBVIOUS
<1>3. << >> \in Seq(Known) /\ \A i \in 1..Len(<< >>) : InHand(<< >>[i])
  OBVIOUS
<1>4. "BARRAY" \in Operators /\ "BARRAY" \notin {"STRING", "LSTRING"} /\ n \in Nat
  BY BoundsAssumption DEF Operators
<1>5. Enter("BARRAY", n, << >>, rs)
  BY <1>1, <1>2
<1>6. QED
  BY <1>1, <1>3, <1>4, <1>5, EnterMoves

\* SEXP pushes the hash of the tag.
LEMMA SexpMoves == IInv /\ StoreInv /\ Sexp => Abs!Next /\ StoreInv'
<1> SUFFICES ASSUME IInv, StoreInv, Sexp PROVE Abs!Next /\ StoreInv'
  OBVIOUS
<1>1. PICK n \in 0..MaxFields :
        phase = "run" /\ Enter("SEXP", n, <<Unboxed>>, OperandRoots(Len(stack), n))
  BY DEF Sexp, Dispatch
<1>2. PICK rs : rs = OperandRoots(Len(stack), n)
  OBVIOUS
<1>3. PICK s : s = <<Unboxed>>
  OBVIOUS
<1>4. s \in Seq(Known) /\ \A i \in 1..Len(s) : InHand(s[i])
  <2>1. Unboxed \in Known /\ InHand(Unboxed)
    BY <1>1, Running DEF Settled, InHand
  <2>2. Len(s) = 1 /\ s[1] = Unboxed /\ \A i \in 1..1 : i = 1
    BY <1>3
  <2>3. s \in Seq(Known)
    BY <1>3, <2>1
  <2>4. QED
    BY <2>1, <2>2, <2>3
<1>5. "SEXP" \in Operators /\ "SEXP" \notin {"STRING", "LSTRING"} /\ n \in Nat
  BY BoundsAssumption DEF Operators
<1>6. Enter("SEXP", n, s, rs)
  BY <1>1, <1>2, <1>3
<1>7. QED
  BY <1>1, <1>4, <1>5, <1>6, EnterMoves

\* CLOSURE pushes what it captures and the code address.
LEMMA ClosureMoves == IInv /\ StoreInv /\ Closure => Abs!Next /\ StoreInv'
<1> SUFFICES ASSUME IInv, StoreInv, Closure PROVE Abs!Next /\ StoreInv'
  OBVIOUS
<1>1. PICK n \in 0..MaxFields :
        /\ phase = "run" /\ Settled
        /\ \E vs \in [1..n -> {stack[s] : s \in Slots} \cup Captures] :
             Enter("CLOSURE", n, Append(vs, 0), OperandRoots(Len(stack) + n, n))
  BY DEF Closure, Dispatch, Settled
<1>2. PICK vs \in [1..n -> {stack[s] : s \in Slots} \cup Captures] :
        Enter("CLOSURE", n, Append(vs, 0), OperandRoots(Len(stack) + n, n))
  BY <1>1
<1>3. n \in Nat
  BY BoundsAssumption
<1>4. \A v \in {stack[s] : s \in Slots} \cup Captures : v \in Known /\ InHand(v)
  <2>1. ASSUME NEW s \in Slots PROVE stack[s] \in Known /\ InHand(stack[s])
    <3>1. InHand(stack[s])
      BY DEF InHand, Slots
    <3>2. QED
      BY <1>1, <3>1, HandValues
  <2>2. QED
    BY <1>1, <2>1, HandCaptured
<1>5. vs \in Seq(Known) /\ Len(vs) = n /\ \A i \in 1..n : InHand(vs[i])
  <2>1. vs \in [1..n -> Known] /\ \A i \in 1..n : InHand(vs[i])
    BY <1>4
  <2>2. QED
    BY <2>1, <1>3
<1>6. PICK s : s = Append(vs, 0)
  OBVIOUS
<1>7. 0 \in Known /\ InHand(0)
  BY <1>1, Running DEF InHand
<1>8. /\ s \in Seq(Known) /\ Len(s) = n + 1 /\ s[n + 1] = 0
      /\ \A i \in 1..n : s[i] = vs[i]
  BY <1>5, <1>6, <1>7, AppendProperties
<1>9. \A i \in 1..Len(s) : InHand(s[i])
  <2>1. \A i \in 1..(n + 1) : i = n + 1 \/ i \in 1..n
    BY <1>3
  <2>2. QED
    BY <1>5, <1>7, <1>8, <2>1
<1>10. PICK rs : rs = OperandRoots(Len(stack) + n, n)
  OBVIOUS
<1>11. "CLOSURE" \in Operators /\ "CLOSURE" \notin {"STRING", "LSTRING"}
  BY DEF Operators
<1>12. Enter("CLOSURE", n, s, rs)
  BY <1>2, <1>6, <1>10
<1>13. QED
  BY <1>1, <1>3, <1>8, <1>9, <1>11, <1>12, EnterMoves

---------------------------------------------------------------------------
(***************************************************************************)
(* The instructions that write to an object.                               *)
(***************************************************************************)

\* The objects at L hold all that can be reached.
Closes(L) ==
  /\ L \subseteq DOMAIN mem /\ Held \subseteq L
  /\ \A a \in L : Succ[a] \subseteq L /\ Raw(AbsObject(mem[a]))

Shrinks(L) ==
  /\ Abs!Reachable(StoreStack, Seen(L)) = StoreObjs
  /\ Live \subseteq L

AllShrink == \A L : IInv /\ Settled /\ Closes(L) => Shrinks(L)

\* The store is what can be reached of them.
LEMMA ReducedHere == AllShrink
<1> SUFFICES ASSUME NEW L, IInv, Settled, Closes(L) PROVE Shrinks(L)
  BY DEF AllShrink
<1>1. Steady
  BY DEF Settled, Steady
<1>2. PICK t : t = stack
  OBVIOUS
<1>3. Usable(t)
  BY <1>2, Running DEF Usable
<1>4. HeldBy(t) = Held /\ LiveFrom(t) = Live /\ SeenStack(t) = StoreStack
  BY <1>2 DEF HeldBy, Held, LiveFrom, Live, SeenStack, StoreStack
<1>5. /\ L \in SUBSET DOMAIN mem /\ HeldBy(t) \subseteq L
      /\ \A a \in L : Succ[a] \subseteq L
      /\ \A a \in L : Raw(AbsObject(mem[a]))
  BY <1>4 DEF Closes
<1>6. /\ Abs!Reachable(SeenStack(t), Seen(L)) = Seen(LiveFrom(t))
      /\ LiveFrom(t) \subseteq L
  BY <1>1, <1>3, <1>5, Reduced
<1>7. QED
  BY <1>4, <1>6 DEF Shrinks, StoreObjs, Seen

\* After a write to field i of the object at a.
WrittenAt(m, a, i, v) == [m EXCEPT ![a] = Written(m[a], i, v)]

\* What a write of v changes in the store, and what it leaves.
LEMMA Wrote ==
  ASSUME IInv, StoreInv, phase = "run", NEW p, InHand(p), IsObject(p),
         NEW i \in Fields(p), NEW v, InHand(v), Assign(p, i, v)
  PROVE  \E a \in Live : LET x == AbsObject(mem[a]) IN
           /\ i \in DOMAIN x.fields /\ DOMAIN mem' = DOMAIN mem
           /\ \A w \in Known : AbsValue(w)' = AbsValue(w)
           /\ \A b \in Live : b # a => AbsObject(mem[b])' = AbsObject(mem[b])
           /\ AbsObject(mem[a])' = [x EXCEPT !.fields[i] = AbsValue(v)]
           /\ Raw(AbsObject(mem[a])')
           /\ \A b \in Live : Succ'[b] \subseteq Live
<1>1. UNCHANGED <<heap, req, phase, nextId>>
  BY DEF Assign
<1>2. /\ Steady /\ Settled /\ \A b \in Live : Raw(AbsObject(mem[b]))
  BY SeenHere DEF Settled
<1>3. PICK a \in Live : a = Target(heap, p)
  BY <1>2, HandField
<1>4. /\ Memory(mem) /\ Known \subseteq Values
      /\ a \in DOMAIN mem /\ Live \subseteq DOMAIN mem
      /\ \A b \in Live : Succ[b] \subseteq Live
  BY <1>2, Running, Graph
<1>5. p \in Known /\ v \in Known /\ (IsValidHeapPointer(v) => Target(heap, v) \in Live)
  BY <1>2, HandValues
<1>6. i \in DOMAIN mem[a].fields /\ mem[a] \in ObjectType /\ v \in Values /\ i \in Nat
  BY <1>2, <1>3, <1>4, <1>5, FieldKnown DEF Memory
<1>7. i \in FirstField(mem[a])..Len(mem[a].fields)
  BY <1>3 DEF Fields
<1>8. PICK n : n = WrittenAt(mem, a, i, v)
  OBVIOUS
<1>9. mem' = n
  BY <1>3, <1>8 DEF Assign, Written, WrittenAt
<1>10. /\ DOMAIN n = DOMAIN mem
       /\ n[a] = Written(mem[a], i, v)
       /\ \A b \in DOMAIN mem : b # a => n[b] = mem[b]
  BY <1>4, <1>8 DEF WrittenAt
<1>11. PICK f \in Nat \ {0} : f = FirstField(mem[a])
  BY <1>6, ObjectFields
<1>12. PICK l \in Nat : l = Len(mem[a].fields) /\ DOMAIN mem[a].fields = 1..l
  BY <1>6, ObjectFields
<1>13. PICK g : g = mem[a].fields
  OBVIOUS
<1>14. PICK h : h = n[a].fields
  OBVIOUS
<1>15. /\ n[a].id = mem[a].id /\ n[a].kind = mem[a].kind /\ n[a] \in ObjectType
       /\ FirstField(n[a]) = f /\ Len(h) = l /\ DOMAIN h = 1..l
       /\ \A j \in 1..l : h[j] = IF j = i THEN v ELSE g[j]
  <2>1. /\ n[a].id = mem[a].id /\ n[a].kind = mem[a].kind /\ n[a] \in ObjectType
        /\ FirstField(n[a]) = FirstField(mem[a])
        /\ Len(n[a].fields) = Len(mem[a].fields)
        /\ \A j \in DOMAIN mem[a].fields :
             n[a].fields[j] = IF j = i THEN v ELSE mem[a].fields[j]
    BY <1>6, <1>10, WrittenObject
  <2>2. DOMAIN h = 1..Len(h)
    BY <1>14, <2>1, ObjectFields
  <2>3. QED
    BY <1>11, <1>12, <1>13, <1>14, <2>1, <2>2
<1>16. \A b \in DOMAIN mem : n[b].id = mem[b].id
  BY <1>10, <1>15
<1>17. ASSUME NEW w \in Known PROVE AbsValue(w)' = AbsValue(w)
  <2>1. CASE IsValidHeapPointer(w)
    <3>1. Target(heap, w) \in DOMAIN mem /\ w # Unboxed /\ InChunk(heap, w)
      BY <1>2, <2>1, KnownCases DEF IsValidHeapPointer
    <3>2. PICK b \in DOMAIN mem : b = Target(heap, w)
      BY <3>1
    <3>3. AbsValue(w) = mem[b].id
      BY <3>1, <3>2 DEF AbsValue
    <3>4. AbsValue(w)' = n[b].id
      BY <1>1, <1>9, <3>1, <3>2 DEF AbsValue
    <3>5. QED
      BY <1>16, <3>3, <3>4
  <2>2. CASE ~IsValidHeapPointer(w)
    BY <1>1, <2>2 DEF AbsValue, IsValidHeapPointer, IsValidPointer
  <2>3. QED
    BY <2>1, <2>2
<1>18. ASSUME NEW b \in Live, b # a PROVE AbsObject(mem[b])' = AbsObject(mem[b])
  <2>1. b \in DOMAIN mem
    BY <1>4
  <2>2. PICK o : o = mem[b]
    OBVIOUS
  <2>3. n[b] = o
    BY <1>10, <1>18, <2>1, <2>2
  <2>4. \A j \in DOMAIN o.fields : j >= FirstField(o) => AbsValue(o.fields[j])' = AbsValue(o.fields[j])
    <3>1. ASSUME NEW j \in DOMAIN o.fields, j >= FirstField(o)
          PROVE  AbsValue(o.fields[j])' = AbsValue(o.fields[j])
      <4>1. mem[b] \in ObjectType
        BY <1>4, <2>1 DEF Memory
      <4>2. FirstField(o) \in Nat \ {0} /\ DOMAIN o.fields = 1..Len(o.fields) /\ Len(o.fields) \in Nat
        BY <2>2, <4>1, ObjectFields
      <4>3. j \in FirstField(o)..Len(o.fields)
        BY <3>1, <4>2
      <4>4. PICK w \in Known : w = o.fields[j]
        BY <1>2, <2>1, <2>2, <4>3, ReferencesOf
      <4>5. AbsValue(w)' = AbsValue(w)
        BY <1>17
      <4>6. QED
        BY <4>4, <4>5
    <3>2. QED
      BY <3>1
  <2>5. AbsObject(o)' = AbsObject(o)
    BY <2>4 DEF AbsObject
  <2>6. AbsObject(mem[b])' = AbsObject(o)'
    BY <1>9, <2>3 DEF AbsObject
  <2>7. QED
    BY <2>2, <2>5, <2>6
<1>19. PICK x : x = AbsObject(mem[a])
  OBVIOUS
<1>20. PICK y : y = AbsObject(mem[a])'
  OBVIOUS
<1>21. \A j \in 1..l : j >= f => g[j] \in Known
  <2>1. ASSUME NEW j \in 1..l, j >= f PROVE g[j] \in Known
    <3>1. j \in FirstField(mem[a])..Len(mem[a].fields)
      BY <1>11, <1>12, <2>1
    <3>2. QED
      BY <1>2, <1>4, <1>13, <3>1, ReferencesOf
  <2>2. QED
    BY <2>1
<1>22. /\ x = [id |-> mem[a].id, kind |-> mem[a].kind,
               fields |-> [j \in 1..l |-> IF j >= f THEN AbsValue(g[j]) ELSE g[j]]]
  BY <1>11, <1>12, <1>13, <1>19 DEF AbsObject
<1>23. y = [id |-> n[a].id, kind |-> n[a].kind,
            fields |-> [j \in 1..l |-> IF j >= f THEN AbsValue(h[j])' ELSE h[j]]]
  <2>1. FirstField(mem[a])' = f /\ mem'[a] = n[a]
    BY <1>9, <1>15 DEF FirstField
  <2>2. QED
    BY <1>9, <1>14, <1>15, <1>20, <2>1 DEF AbsObject
<1>24. i \in 1..l /\ i >= f
  BY <1>6, <1>7, <1>11, <1>12
<1>25. ASSUME NEW j \in 1..l
       PROVE  (IF j >= f THEN AbsValue(h[j])' ELSE h[j]) =
                IF j = i THEN AbsValue(v) ELSE IF j >= f THEN AbsValue(g[j]) ELSE g[j]
  <2>1. CASE j = i
    <3>1. h[j] = v /\ AbsValue(v)' = AbsValue(v)
      BY <1>5, <1>15, <1>17, <2>1
    <3>2. AbsValue(h[j])' = AbsValue(v)'
      BY <3>1
    <3>3. QED
      BY <1>24, <2>1, <3>1, <3>2
  <2>2. CASE j # i /\ j >= f
    <3>1. h[j] = g[j] /\ g[j] \in Known
      BY <1>15, <1>21, <2>2
    <3>2. AbsValue(h[j])' = AbsValue(g[j])
      BY <1>17, <3>1
    <3>3. QED
      BY <2>2, <3>2
  <2>3. CASE j # i /\ ~(j >= f)
    BY <1>15, <2>3
  <2>4. QED
    BY <2>1, <2>2, <2>3
<1>26. PICK xf : xf = [j \in 1..l |-> IF j >= f THEN AbsValue(g[j]) ELSE g[j]]
  OBVIOUS
<1>27. PICK yf : yf = [j \in 1..l |-> IF j >= f THEN AbsValue(h[j])' ELSE h[j]]
  OBVIOUS
<1>28. yf = [xf EXCEPT ![i] = AbsValue(v)]
  BY <1>24, <1>25, <1>26, <1>27
<1>29. y = [x EXCEPT !.fields = yf] /\ x.fields = xf /\ y.fields = yf
  <2>1. PICK d : d = mem[a].id
    OBVIOUS
  <2>2. PICK k : k = mem[a].kind
    OBVIOUS
  <2>3. x = [id |-> d, kind |-> k, fields |-> xf]
    BY <1>22, <1>26, <2>1, <2>2
  <2>4. y = [id |-> d, kind |-> k, fields |-> yf]
    BY <1>15, <1>23, <1>27, <2>1, <2>2
  <2>5. QED
    BY <2>3, <2>4
<1>30. y = [x EXCEPT !.fields[i] = AbsValue(v)]
  BY <1>28, <1>29
<1>31. i \in DOMAIN x.fields
  BY <1>24, <1>26, <1>29
<1>32. Raw(y)
  <2>1. Raw(x)
    BY <1>2, <1>19
  <2>2. /\ SnapFirst(x) = f /\ Len(x.fields) = l
    BY <1>2, <1>4, <1>11, <1>12, <1>19, AbsObjects
  <2>3. DOMAIN yf = 1..l /\ (\A j \in 1..l : j # i => yf[j] = xf[j]) /\ y.kind = x.kind
    BY <1>26, <1>28, <1>29
  <2>4. Len(y.fields) = l
    BY <1>29, <2>3
  <2>5. SnapFirst(y) = f
    BY <2>2, <2>3, <2>4 DEF SnapFirst
  <2>6. \A j \in 1..l : j < f => yf[j] = 0
    BY <1>24, <1>29, <2>1, <2>2, <2>3 DEF Raw
  <2>7. QED
    BY <1>29, <2>4, <2>5, <2>6 DEF Raw
<1>33. ASSUME NEW b \in Live PROVE Succ'[b] \subseteq Live
  <2>1. /\ b \in DOMAIN mem
        /\ Succ'[b] = {Target(heap, w) : w \in {u \in Refs(n[b]) : InChunk(heap, u)}}
    BY <1>1, <1>4, <1>9, <1>10 DEF Succ
  <2>2. CASE b # a
    <3>1. Succ'[b] = Succ[b]
      BY <1>10, <2>1, <2>2 DEF Succ
    <3>2. QED
      BY <1>4, <3>1
  <2>3. CASE b = a
    <3>1. ASSUME NEW w \in Refs(n[a]), InChunk(heap, w) PROVE Target(heap, w) \in Live
      <4>1. w # Unboxed /\ IsValidHeapPointer(w)
        BY <3>1 DEF Refs, IsValidHeapPointer, IsValidPointer
      <4>2. PICK j \in f..l : w = h[j]
        BY <1>14, <1>15 DEF Refs
      <4>3. j \in 1..l
        OBVIOUS
      <4>4. CASE j = i
        BY <1>5, <1>15, <4>1, <4>2, <4>3, <4>4
      <4>5. CASE j # i
        <5>1. w = mem[a].fields[j] /\ j \in FirstField(mem[a])..Len(mem[a].fields)
          BY <1>11, <1>12, <1>13, <1>15, <4>2, <4>3, <4>5
        <5>2. Target(heap, w) \in Succ[a]
          BY <1>2, <1>4, <4>1, <5>1, Edges
        <5>3. QED
          BY <1>4, <5>2
      <4>6. QED
        BY <4>4, <4>5
    <3>2. QED
      BY <2>1, <2>3, <3>1
  <2>4. QED
    BY <2>2, <2>3
<1>34. QED
  BY <1>9, <1>10, <1>17, <1>18, <1>19, <1>20, <1>30, <1>31, <1>32, <1>33

\* An instruction that writes a value in hand into an object in hand.
LEMMA WriteMoves ==
  ASSUME IInv, IInv', StoreInv, phase = "run", NEW p, InHand(p), IsObject(p),
         NEW i \in Fields(p), NEW v, InHand(v), Assign(p, i, v),
         NEW t, Usable(t), \A s \in 2..Len(t) : InHand(t[s]), stack' = t,
         \/ SeenStack(t) = StoreStack
         \/ SeenStack(t) = Append(SubSeq(StoreStack, 1, Len(StoreStack) - 3),
                                  StoreStack[Len(StoreStack)]),
         AbsValue(v) = StoreStack[Len(StoreStack)]
  PROVE  Abs!Next /\ StoreInv'
<1>1. /\ mem' = [mem EXCEPT ![Target(heap, p)].fields[i] = v]
      /\ UNCHANGED <<heap, req, phase, nextId>>
  BY DEF Assign
<1>2. /\ Steady /\ Settled /\ AbsStack = StoreStack /\ AbsObjs = StoreObjs
      /\ StoreObjs = Seen(Live) /\ \A b \in Live : Raw(AbsObject(mem[b]))
  BY SeenHere DEF Settled
<1>3. PICK L : L = Live
  OBVIOUS
<1>4. PICK a \in L : LET x == AbsObject(mem[a]) IN
        /\ i \in DOMAIN x.fields /\ DOMAIN mem' = DOMAIN mem
        /\ \A w \in Known : AbsValue(w)' = AbsValue(w)
        /\ \A b \in L : b # a => AbsObject(mem[b])' = AbsObject(mem[b])
        /\ AbsObject(mem[a])' = [x EXCEPT !.fields[i] = AbsValue(v)]
        /\ Raw(AbsObject(mem[a])')
        /\ \A b \in L : Succ'[b] \subseteq L
  BY <1>3, Wrote
<1>5. PICK x : x = AbsObject(mem[a])
  OBVIOUS
<1>6. PICK y : y = [x EXCEPT !.fields[i] = AbsValue(v)]
  OBVIOUS
<1>7. /\ i \in DOMAIN x.fields /\ DOMAIN mem' = DOMAIN mem
      /\ \A w \in Known : AbsValue(w)' = AbsValue(w)
      /\ \A b \in L : b # a => AbsObject(mem[b])' = AbsObject(mem[b])
      /\ AbsObject(mem[a])' = y /\ Raw(y)
      /\ \A b \in L : Succ'[b] \subseteq L
  BY <1>4, <1>5, <1>6
<1>8. L \subseteq DOMAIN mem
  BY <1>2, <1>3, Graph
<1>9. Settled' /\ ~Collecting'
  BY <1>1 DEF Settled, Collecting
<1>10. Closes(L)'
  <2>1. L \subseteq DOMAIN mem'
    BY <1>7, <1>8
  <2>2. Held' = HeldBy(t)
    BY <1>1 DEF Held, HeldBy, IsValidHeapPointer
  <2>3. HeldBy(t) \subseteq L
    BY <1>2, <1>3, HandValues DEF HeldBy
  <2>4. ASSUME NEW b \in L PROVE Raw(AbsObject(mem[b])')
    <3>1. CASE b = a
      BY <1>7, <3>1
    <3>2. CASE b # a
      <4>1. AbsObject(mem[b])' = AbsObject(mem[b]) /\ Raw(AbsObject(mem[b]))
        BY <1>2, <1>3, <1>7, <3>2
      <4>2. QED
        BY <4>1
    <3>3. QED
      BY <3>1, <3>2
  <2>5. \A b \in L : Raw(AbsObject(mem[b]))'
    BY <2>4 DEF Raw, SnapFirst
  <2>6. QED
    BY <1>7, <2>1, <2>2, <2>3, <2>5 DEF Closes
<1>11. AllShrink'
  BY ReducedHere, PTL
<1>12. Shrinks(L)'
  BY <1>9, <1>10, <1>11 DEF AllShrink
<1>13. AbsStack' = SeenStack(t)
  <2>1. PICK l \in Nat \ {0} : l = Len(t) /\ DOMAIN t = 1..l
    BY DEF Usable
  <2>2. \A s \in 1..l : t[s] \in Known
    BY <2>1, ElementOfSeq DEF Usable
  <2>3. \A s \in 1..l : AbsValue(t[s])' = AbsValue(t[s])
    <3>1. ASSUME NEW s \in 1..l PROVE AbsValue(t[s])' = AbsValue(t[s])
      <4>1. PICK w \in Known : w = t[s]
        BY <2>2
      <4>2. AbsValue(w)' = AbsValue(w)
        BY <1>7
      <4>3. QED
        BY <4>1, <4>2
    <3>2. QED
      BY <3>1
  <2>4. StoreStack' = [s \in 1..l |-> AbsValue(t[s])']
    BY <2>1 DEF StoreStack
  <2>5. SeenStack(t) = [s \in 1..l |-> AbsValue(t[s])]
    BY <2>1 DEF SeenStack
  <2>6. StoreStack' = SeenStack(t)
    BY <2>3, <2>4, <2>5
  <2>7. QED
    BY <1>9, <2>6 DEF AbsStack
<1>14. AbsObjs' = StoreObjs' /\ StoreStack' = SeenStack(t)
  BY <1>9, <1>13 DEF AbsObjs, AbsStack
<1>15. \A b \in L : b # a => AbsObject(mem[b]) # x
  <2>1. ASSUME NEW b \in L, b # a PROVE AbsObject(mem[b]) # x
    <3>1. mem[b].id # mem[a].id
      BY <1>2, <1>8, <2>1 DEF IInv, HeapInv, Steady
    <3>2. AbsObject(mem[b]).id = mem[b].id /\ x.id = mem[a].id
      BY <1>5 DEF AbsObject
    <3>3. QED
      BY <3>1, <3>2
  <2>2. QED
    BY <2>1
<1>16. PICK o : o = StoreObjs
  OBVIOUS
<1>17. Seen(L)' = (o \ {x}) \cup {y}
  <2>1. Seen(L)' = {AbsObject(mem[b])' : b \in L}
    BY DEF Seen
  <2>2. o = {AbsObject(mem[b]) : b \in L}
    BY <1>2, <1>3, <1>16 DEF Seen
  <2>3. ASSUME NEW z \in Seen(L)' PROVE z \in (o \ {x}) \cup {y}
    <3>1. PICK b \in L : z = AbsObject(mem[b])'
      BY <2>1
    <3>2. CASE b = a
      BY <1>7, <3>1, <3>2
    <3>3. CASE b # a
      <4>1. z = AbsObject(mem[b]) /\ z # x
        BY <1>7, <1>15, <3>1, <3>3
      <4>2. QED
        BY <2>2, <4>1
    <3>4. QED
      BY <3>2, <3>3
  <2>4. y \in Seen(L)'
    BY <1>7, <2>1
  <2>5. ASSUME NEW z \in o, z # x PROVE z \in Seen(L)'
    <3>1. PICK b \in L : z = AbsObject(mem[b])
      BY <2>2
    <3>2. b # a
      BY <1>5, <2>5, <3>1
    <3>3. z = AbsObject(mem[b])'
      BY <1>7, <3>1, <3>2
    <3>4. QED
      BY <2>1, <3>3
  <2>6. QED
    BY <2>3, <2>4, <2>5
<1>18. AbsObjs' = Abs!Reachable(SeenStack(t), (o \ {x}) \cup {y})
  <2>1. Abs!Reachable(StoreStack', Seen(L)') = StoreObjs'
    BY <1>12 DEF Shrinks
  <2>2. QED
    BY <1>14, <1>17, <2>1
<1>19. Abs!Write(AbsStack, AbsObjs, AbsStack', AbsObjs')
  <2>1. PICK st : st = StoreStack
    OBVIOUS
  <2>2. PICK top : top = st[Len(st)]
    OBVIOUS
  <2>3. SeenStack(t) = st \/ SeenStack(t) = Append(SubSeq(st, 1, Len(st) - 3), top)
    BY <2>1, <2>2
  <2>4. x \in o /\ i \in DOMAIN x.fields
    BY <1>2, <1>3, <1>5, <1>7, <1>16 DEF Seen
  <2>5. AbsObjs' = Abs!Reachable(SeenStack(t), (o \ {x}) \cup {[x EXCEPT !.fields[i] = top]})
    BY <1>6, <1>18, <2>1, <2>2
  <2>6. AbsStack = st /\ AbsObjs = o /\ nextId' = nextId
    BY <1>1, <1>2, <1>16, <2>1
  <2>7. QED
    BY <1>13, <2>2, <2>3, <2>4, <2>5, <2>6 DEF Abs!Write
<1>20. Abs!Next
  BY <1>19 DEF Abs!Next, AbsStack, AbsObjs
<1>21. \A z \in AbsObjs' : Raw(z)
  <2>1. Live' \subseteq L
    BY <1>12 DEF Shrinks
  <2>2. StoreObjs' \subseteq Seen(L)'
    BY <2>1 DEF StoreObjs, Seen
  <2>3. \A z \in o : Raw(z)
    BY <1>2, <1>16 DEF StoreInv
  <2>4. QED
    BY <1>7, <1>14, <1>17, <2>2, <2>3
<1>22. StoreInv'
  BY <1>1, <1>21 DEF StoreInv
<1>23. QED
  BY <1>20, <1>22

\* ST C writes into the closure of the frame.
LEMMA StCapturedWrites == IInv /\ IInv' /\ StoreInv /\ StCaptured => Abs!Next /\ StoreInv'
<1> SUFFICES ASSUME IInv, IInv', StoreInv, StCaptured PROVE Abs!Next /\ StoreInv'
  OBVIOUS
<1>1. phase = "run" /\ Settled /\ Len(stack) >= Base + 1 /\ stack' = stack
  BY DEF StCaptured, Dispatch, Settled
<1>2. PICK s \in Slots : /\ IsClosure(stack[s])
                         /\ \E i \in Fields(stack[s]) : Assign(stack[s], i, Top(0))
  BY DEF StCaptured
<1>3. /\ stack \in Seq(Known) /\ Len(stack) \in Nat \ {0} /\ Base \in Nat /\ Base >= 2
  BY <1>1, Running
<1>4. PICK v : v = Top(0)
  OBVIOUS
<1>5. v \in Known /\ InHand(v)
  <2>1. Len(stack) >= 0 + 2
    BY <1>1, <1>3
  <2>2. QED
    BY <1>1, <1>4, <2>1, HandTop
<1>6. PICK p : p = stack[s]
  OBVIOUS
<1>7. InHand(p) /\ IsObject(p)
  BY <1>2, <1>6 DEF InHand, Slots, IsClosure
<1>8. PICK i \in Fields(p) : Assign(p, i, v)
  BY <1>2, <1>4, <1>6
<1>9. PICK t : t = stack
  OBVIOUS
<1>10. Usable(t) /\ SeenStack(t) = StoreStack
  BY <1>1, <1>9, SeenHere
<1>11. \A r \in 2..Len(t) : InHand(t[r])
  BY <1>9 DEF InHand
<1>12. AbsValue(v) = StoreStack[Len(StoreStack)]
  <2>1. PICK l \in Nat \ {0} : l = Len(stack) /\ DOMAIN stack = 1..l
    BY <1>3
  <2>2. Len(StoreStack) = l
    BY <1>1, <2>1, SeenHere, StoreTyped
  <2>3. StoreStack[l] = AbsValue(stack[l])
    BY <2>1 DEF StoreStack
  <2>4. v = stack[l]
    BY <1>4, <2>1 DEF Top
  <2>5. QED
    BY <2>2, <2>3, <2>4
<1>13. stack' = t
  BY <1>1, <1>9
<1>14. QED
  BY <1>1, <1>5, <1>7, <1>8, <1>10, <1>11, <1>12, <1>13, WriteMoves

\* STA writes an element, and drops the object and the index under the value.
LEMMA StaWrites == IInv /\ IInv' /\ StoreInv /\ Sta => Abs!Next /\ StoreInv'
<1> SUFFICES ASSUME IInv, IInv', StoreInv, Sta PROVE Abs!Next /\ StoreInv'
  OBVIOUS
<1>1. /\ phase = "run" /\ Settled /\ Len(stack) >= Base + 3 /\ IsObject(Top(2))
      /\ stack' = Append(Pop(3), Top(0))
  BY DEF Sta, Dispatch, Settled, Indexable
<1>2. /\ stack \in Seq(Known) /\ Len(stack) \in Nat \ {0} /\ Base \in Nat /\ Base >= 2
  BY <1>1, Running
<1>3. PICK l \in Nat : l = Len(stack) /\ l >= Base + 3 /\ DOMAIN stack = 1..l
  BY <1>1, <1>2
<1>4. PICK v : v = Top(0)
  OBVIOUS
<1>5. PICK p : p = Top(2)
  OBVIOUS
<1>6. v \in Known /\ InHand(v) /\ p \in Known /\ InHand(p) /\ IsObject(p)
  <2>1. Len(stack) >= 0 + 2 /\ Len(stack) >= 2 + 2
    BY <1>2, <1>3
  <2>2. QED
    BY <1>1, <1>4, <1>5, <2>1, HandTop
<1>7. PICK i \in Fields(p) : Assign(p, i, v)
  BY <1>4, <1>5 DEF Sta
<1>8. PICK t : t = Append(Pop(3), v)
  OBVIOUS
<1>9. Usable(t) /\ \A r \in 2..Len(t) : InHand(t[r])
  BY <1>1, <1>6, <1>8, HandPushed
<1>10. PICK st : st = StoreStack
  OBVIOUS
<1>11. st = [j \in 1..l |-> AbsValue(stack[j])] /\ st \in Seq(Values) /\ Len(st) = l
  <2>1. st \in Seq(Values) /\ Len(st) = l
    BY <1>1, <1>3, <1>10, SeenHere, StoreTyped
  <2>2. QED
    BY <1>3, <1>10, <2>1 DEF StoreStack
<1>12. AbsValue(v) = st[l]
  BY <1>2, <1>3, <1>4, <1>11 DEF Top
<1>13. SeenStack(t) = Append(SubSeq(st, 1, l - 3), st[l])
  <2>1. PICK m \in 0..l : m = l - 3
    BY <1>2, <1>3
  <2>2. PICK q : q = SubSeq(st, 1, m)
    OBVIOUS
  <2>3. q \in Seq(Values) /\ Len(q) = m /\ \A j \in 1..m : q[j] = st[j]
    BY <1>11, <2>1, <2>2, PopProperties
  <2>4. PICK r : r = Pop(3)
    OBVIOUS
  <2>5. r \in Seq(Known) /\ Len(r) = m /\ \A j \in 1..m : r[j] = stack[j]
    BY <1>2, <1>3, <2>1, <2>4, PopProperties DEF Pop
  <2>6. Len(t) = m + 1 /\ t[m + 1] = v /\ \A j \in 1..m : t[j] = r[j]
    BY <1>6, <1>8, <2>4, <2>5, AppendProperties
  <2>7. PICK z : z = SeenStack(t)
    OBVIOUS
  <2>8. z = [j \in 1..(m + 1) |-> AbsValue(t[j])]
    BY <1>9, <2>6, <2>7 DEF SeenStack, Usable
  <2>9. PICK w \in Values : w = st[l]
    <3>1. l \in 1..l
      BY <1>2, <1>3
    <3>2. QED
      BY <1>11, <3>1, ElementOfSeq
  <2>10. PICK y : y = Append(q, w)
    OBVIOUS
  <2>11. y \in Seq(Values) /\ Len(y) = m + 1 /\ y[m + 1] = w /\ \A j \in 1..m : y[j] = q[j]
    BY <2>3, <2>9, <2>10, AppendProperties
  <2>12. y = [j \in 1..(m + 1) |-> y[j]]
    BY <2>11
  <2>13. ASSUME NEW j \in 1..(m + 1) PROVE z[j] = y[j]
    <3>1. CASE j = m + 1
      BY <1>12, <2>6, <2>8, <2>9, <2>11, <3>1
    <3>2. CASE j # m + 1
      <4>1. j \in 1..m /\ j \in 1..l
        BY <2>1, <3>2
      <4>2. z[j] = AbsValue(stack[j])
        BY <2>5, <2>6, <2>8, <4>1
      <4>3. y[j] = AbsValue(stack[j])
        BY <1>11, <2>3, <2>11, <4>1
      <4>4. QED
        BY <4>2, <4>3
    <3>3. QED
      BY <3>1, <3>2
  <2>14. z = y
    BY <2>8, <2>12, <2>13
  <2>15. QED
    BY <2>1, <2>2, <2>7, <2>9, <2>10, <2>14
<1>14. /\ SeenStack(t) = Append(SubSeq(StoreStack, 1, Len(StoreStack) - 3),
                                StoreStack[Len(StoreStack)])
       /\ AbsValue(v) = StoreStack[Len(StoreStack)]
  BY <1>10, <1>11, <1>12, <1>13
<1>15. stack' = t
  BY <1>1, <1>4, <1>8
<1>16. QED
  BY <1>1, <1>6, <1>7, <1>9, <1>14, <1>15, WriteMoves

---------------------------------------------------------------------------
(***************************************************************************)
(* The builtin builds its object.                                          *)
(***************************************************************************)

\* What the program sees in the fields of o.
Shown(o) == [i \in DOMAIN o.fields |->
               IF i >= FirstField(o) THEN AbsValue(o.fields[i]) ELSE o.fields[i]]

\* The members of a part of a sequence.
LEMMA PartOf ==
  ASSUME NEW S, NEW s \in Seq(S), NEW m \in Nat \ {0}, NEW n \in Nat,
         m + n <= Len(s) + 1
  PROVE  /\ SubSeq(s, m, m + n - 1) \in Seq(S) /\ Len(SubSeq(s, m, m + n - 1)) = n
         /\ \A i \in 1..n : SubSeq(s, m, m + n - 1)[i] = s[m + i - 1]
<1>1. PICK l \in Nat : l = Len(s)
  OBVIOUS
<1>2. \A i \in m..(m + n - 1) : s[i] \in S
  <2>1. ASSUME NEW i \in m..(m + n - 1) PROVE s[i] \in S
    <3>1. i \in 1..Len(s)
      BY <1>1
    <3>2. QED
      BY <3>1, ElementOfSeq
  <2>2. QED
    BY <2>1
<1>3. PICK e \in Int : e = m + n - 1
  OBVIOUS
<1>4. /\ SubSeq(s, m, e) \in Seq(S)
      /\ Len(SubSeq(s, m, e)) = IF m <= e THEN e - m + 1 ELSE 0
      /\ \A i \in 1..(e - m + 1) : SubSeq(s, m, e)[i] = s[m + i - 1]
  BY <1>2, <1>3, SubSeqProperties
<1>5. e - m + 1 = n /\ (m <= e <=> n # 0)
  BY <1>3
<1>6. QED
  BY <1>3, <1>4, <1>5

\* The operands of the builtin, as the program sees them.
NewArgs == SubSeq(StoreStack, Len(StoreStack) - Operands(req) + 1, Len(StoreStack))

\* The object o that the builtin builds, as the program sees it.
BuiltAs(o) ==
  /\ o.kind \in {"sexp", "closure"} => Operands(req) >= 1
  /\ o.kind = "string" => Operands(req) = 0
  /\ Shown(o) = Abs!Object(nextId, o.kind, NewArgs).fields
  /\ \A i \in 1..Len(o.fields) : i < FirstField(o) => o.fields[i] = 0
  /\ \A i \in 1..Len(o.fields) : InHand(o.fields[i])

\* The operands of the builtin are the fields of its object.
LEMMA BuiltFields ==
  ASSUME IInv, StoreInv, phase \in {"alloc", "retry"},
         NEW o \in ObjectType, o.kind = KindOf(req.op), o.fields = Contents(req)
  PROVE  BuiltAs(o)
<1> SUFFICES ASSUME NEW st, st = StoreStack, NEW k, k = Operands(req),
                    NEW args, args = SubSeq(st, Len(st) - k + 1, Len(st))
             PROVE  /\ o.kind \in {"sexp", "closure"} => k >= 1
                    /\ o.kind = "string" => k = 0
                    /\ Shown(o) = Abs!Object(nextId, o.kind, args).fields
                    /\ \A i \in 1..Len(o.fields) : i < FirstField(o) => o.fields[i] = 0
                    /\ \A i \in 1..Len(o.fields) : InHand(o.fields[i])
  BY DEF BuiltAs, NewArgs
<1>1. /\ stack \in Seq(Known) /\ Len(stack) \in Nat /\ Base \in Nat /\ Base >= 2
      /\ Len(stack) >= Base + k /\ req.op \in Operators /\ req.n \in Nat
      /\ Steady
  BY Running, Requested DEF Settled, Steady
<1>2. PICK l \in Nat : l = Len(stack) /\ DOMAIN stack = 1..l
  BY <1>1
<1>3. st \in Seq(Values) /\ Len(st) = l /\ \A j \in 1..l : st[j] = AbsValue(stack[j])
  <2>1. st \in Seq(Values) /\ Len(st) = l
    BY <1>1, <1>2, StoreTyped
  <2>2. QED
    BY <1>2, <2>1 DEF StoreStack
<1>4. PICK op \in Operators : req.op = op
  BY <1>1
<1>5. PICK n \in Nat : req.n = n
  BY <1>1
<1>6. PICK x : x = Shown(o)
  OBVIOUS
<1>7. PICK ct : ct = o.fields
  OBVIOUS
<1>8. PICK f : f = FirstField(o)
  OBVIOUS
<1>9. x = [i \in DOMAIN ct |-> IF i >= f THEN AbsValue(ct[i]) ELSE ct[i]]
  BY <1>6, <1>7, <1>8 DEF Shown
<1>10. CASE op \in {"STRING", "LSTRING"}
  <2>1. n = 1 /\ k = 0 /\ o.kind = "string" /\ ct = [i \in 1..n |-> 0]
    BY <1>4, <1>5, <1>7, <1>10 DEF StoreInv, Operands, KindOf, Contents
  <2>2. ct \in Seq(Values) /\ Len(ct) = 1 /\ DOMAIN ct = 1..1 /\ ct[1] = 0
    <3>1. ct = [i \in 1..1 |-> 0]
      BY <2>1
    <3>2. 0 \in Values
      BY DEF Values
    <3>3. QED
      BY ONLY <3>1, <3>2
  <2>3. f = 2
    BY <1>7, <1>8, <2>1, <2>2 DEF FirstField
  <2>4. x = <<0>>
    BY <1>9, <2>2, <2>3
  <2>5. Abs!Object(nextId, o.kind, args).fields = <<0>>
    BY <2>1 DEF Abs!Object
  <2>6. InHand(ct[1])
    BY <2>2 DEF InHand
  <2>7. QED
    BY <1>6, <1>7, <2>1, <2>2, <2>4, <2>5, <2>6
<1>11. CASE op = "BARRAY"
  <2>1. k = n /\ o.kind = "array" /\ ct = SubSeq(stack, l - n + 1, l)
    <3>1. /\ Operands(req) = n /\ KindOf(req.op) = "array"
          /\ Contents(req) = SubSeq(stack, Len(stack) - n + 1, Len(stack))
      BY <1>4, <1>5, <1>11 DEF Operands, KindOf, Contents
    <3>2. QED
      BY <1>2, <1>7, <3>1
  <2>2. PICK m \in Nat \ {0} : m = l - n + 1 /\ m + n <= l + 1 /\ l = m + n - 1
    <3>1. l >= Base + n /\ Base \in Nat
      BY <1>1, <1>2, <2>1
    <3>2. /\ l - n + 1 \in Nat \ {0} /\ (l - n + 1) + n <= l + 1
          /\ l = (l - n + 1) + n - 1
      BY <3>1
    <3>3. QED
      BY ONLY <3>2
  <2>3. ct \in Seq(Known) /\ Len(ct) = n /\ \A i \in 1..n : ct[i] = stack[m + i - 1]
    BY <1>1, <1>2, <2>1, <2>2, PartOf
  <2>4. args \in Seq(Values) /\ Len(args) = n /\ \A i \in 1..n : args[i] = st[m + i - 1]
    <3>1. args = SubSeq(st, m, m + n - 1)
      <4>1. Len(st) - k + 1 = m /\ Len(st) = m + n - 1
        BY <1>3, <2>1, <2>2
      <4>2. QED
        BY <4>1
    <3>2. st \in Seq(Values) /\ m \in Nat \ {0} /\ n \in Nat /\ m + n <= Len(st) + 1
      BY <1>3, <2>2
    <3>3. /\ SubSeq(st, m, m + n - 1) \in Seq(Values) /\ Len(SubSeq(st, m, m + n - 1)) = n
          /\ \A i \in 1..n : SubSeq(st, m, m + n - 1)[i] = st[m + i - 1]
      BY ONLY <3>2, PartOf
    <3>4. QED
      BY ONLY <3>1, <3>3
  <2>5. f = 1
    BY <1>8, <2>1 DEF FirstField
  <2>6. x = [i \in 1..n |-> AbsValue(ct[i])]
    BY <1>9, <2>3, <2>5
  <2>7. \A i \in 1..n : AbsValue(ct[i]) = args[i]
    <3>1. ASSUME NEW i \in 1..n PROVE AbsValue(ct[i]) = args[i]
      <4>1. m + i - 1 \in 1..l
        BY <2>2
      <4>2. QED
        BY <1>3, <2>3, <2>4, <4>1
    <3>2. QED
      BY <3>1
  <2>8. args = [i \in 1..n |-> args[i]]
    <3>1. args \in Seq(Values) /\ Len(args) = n
      BY <2>4
    <3>2. QED
      BY ONLY <3>1
  <2>9. x = args
    BY <2>6, <2>7, <2>8
  <2>10. Abs!Object(nextId, o.kind, args).fields = args
    BY <2>1 DEF Abs!Object
  <2>11. /\ o.kind \in {"sexp", "closure"} => k >= 1
         /\ o.kind # "string" /\ \A i \in 1..Len(o.fields) : ~(i < FirstField(o))
    BY <1>8, <2>1, <2>5
  <2>12. \A i \in 1..Len(o.fields) : InHand(o.fields[i])
    <3>1. ASSUME NEW i \in 1..n PROVE InHand(ct[i])
      <4>1. l >= Base + n /\ m = l - n + 1 /\ l = m + n - 1
        BY <1>1, <1>2, <2>1, <2>2
      <4>2. m + i - 1 \in 2..Len(stack)
        BY <1>1, <1>2, <4>1
      <4>3. QED
        BY <2>3, <4>2 DEF InHand
    <3>2. QED
      BY <1>7, <2>3, <3>1
  <2>13. QED
    BY <1>6, <2>9, <2>10, <2>11, <2>12
<1>12. CASE op \in {"SEXP", "CLOSURE"}
  <2>1. /\ k = n + 1 /\ o.kind \in {"sexp", "closure"}
        /\ ct = <<0>> \o SubSeq(stack, l - n, l - 1)
    <3>1. /\ Operands(req) = n + 1 /\ KindOf(req.op) \in {"sexp", "closure"}
          /\ Contents(req) = <<0>> \o SubSeq(stack, Len(stack) - n, Len(stack) - 1)
      BY <1>4, <1>5, <1>12 DEF Operands, KindOf, Contents
    <3>2. QED
      BY <1>2, <1>7, <3>1
  <2>2. PICK m \in Nat \ {0} : /\ m = l - n /\ m + n <= l + 1 /\ l - 1 = m + n - 1
                               /\ m + (n + 1) <= l + 1 /\ l = m + (n + 1) - 1
    <3>1. l >= Base + (n + 1) /\ Base \in Nat
      BY <1>1, <1>2, <2>1
    <3>2. /\ l - n \in Nat \ {0} /\ (l - n) + n <= l + 1 /\ l - 1 = (l - n) + n - 1
          /\ (l - n) + (n + 1) <= l + 1 /\ l = (l - n) + (n + 1) - 1
      BY <3>1
    <3>3. QED
      BY ONLY <3>2
  <2>3. PICK u : u = SubSeq(stack, m, m + n - 1)
    OBVIOUS
  <2>4. u \in Seq(Known) /\ Len(u) = n /\ \A i \in 1..n : u[i] = stack[m + i - 1]
    BY <1>1, <1>2, <2>2, <2>3, PartOf
  <2>5. args \in Seq(Values) /\ Len(args) = n + 1 /\ \A i \in 1..(n + 1) : args[i] = st[m + i - 1]
    <3>1. args = SubSeq(st, m, m + (n + 1) - 1)
      <4>1. l - k + 1 = m
        BY <2>1, <2>2
      <4>2. QED
        BY <1>3, <2>2, <4>1
    <3>2. PICK q \in Nat : q = n + 1
      OBVIOUS
    <3>3. m + q <= Len(st) + 1 /\ args = SubSeq(st, m, m + q - 1)
      BY <1>3, <2>2, <3>1, <3>2
    <3>4. st \in Seq(Values) /\ m \in Nat \ {0} /\ q \in Nat /\ m + q <= Len(st) + 1
      BY <1>3, <3>3
    <3>5. /\ SubSeq(st, m, m + q - 1) \in Seq(Values) /\ Len(SubSeq(st, m, m + q - 1)) = q
          /\ \A i \in 1..q : SubSeq(st, m, m + q - 1)[i] = st[m + i - 1]
      BY ONLY <3>4, PartOf
    <3>6. QED
      BY ONLY <3>2, <3>3, <3>5
  <2>6. PICK w : w = SubSeq(args, 1, n)
    OBVIOUS
  <2>7. w \in Seq(Values) /\ Len(w) = n /\ \A i \in 1..n : w[i] = args[i]
    <3>1. n \in 0..Len(args) /\ args \in Seq(Values)
      BY <2>5
    <3>2. QED
      BY ONLY <2>6, <3>1, PopProperties
  <2>8. PICK z : z = <<0>>
    OBVIOUS
  <2>9. z \in Seq(Values) /\ Len(z) = 1 /\ z[1] = 0
    BY <2>8 DEF Values
  <2>10. ct = z \o u
    BY <2>1, <2>2, <2>3, <2>8
  <2>11. u \in Seq(Values)
    <3>1. Known \subseteq Values
      BY <1>1, SteadyFacts
    <3>2. QED
      BY <2>4, <3>1, SeqMonotonic
  <2>12. /\ ct \in Seq(Values) /\ Len(ct) = 1 + n /\ ct[1] = 0
         /\ \A i \in 1..n : ct[1 + i] = u[i]
    <3>0. z \in Seq(Values) /\ u \in Seq(Values)
      BY <2>9, <2>11
    <3>1. /\ z \o u \in Seq(Values) /\ Len(z \o u) = Len(z) + Len(u)
          /\ \A i \in 1..Len(z) : (z \o u)[i] = z[i]
          /\ \A i \in 1..Len(u) : (z \o u)[Len(z) + i] = u[i]
      BY ONLY <3>0, Appended
    <3>2. 1 \in 1..1
      OBVIOUS
    <3>3. QED
      BY ONLY <2>4, <2>9, <2>10, <3>1, <3>2
  <2>13. PICK y : y = z \o w
    OBVIOUS
  <2>14. /\ y \in Seq(Values) /\ Len(y) = 1 + n /\ y[1] = 0
         /\ \A i \in 1..n : y[1 + i] = w[i]
    <3>0. z \in Seq(Values) /\ w \in Seq(Values)
      BY <2>7, <2>9
    <3>1. /\ z \o w \in Seq(Values) /\ Len(z \o w) = Len(z) + Len(w)
          /\ \A i \in 1..Len(z) : (z \o w)[i] = z[i]
          /\ \A i \in 1..Len(w) : (z \o w)[Len(z) + i] = w[i]
      BY ONLY <3>0, Appended
    <3>2. 1 \in 1..1
      OBVIOUS
    <3>3. QED
      BY ONLY <2>7, <2>9, <2>13, <3>1, <3>2
  <2>15. f = 2
    BY <1>8, <2>1 DEF FirstField
  <2>16. x = [i \in 1..(1 + n) |-> IF i >= 2 THEN AbsValue(ct[i]) ELSE ct[i]]
    BY <1>9, <2>12, <2>15
  <2>17. ASSUME NEW i \in 1..(1 + n) PROVE x[i] = y[i]
    <3>1. CASE i = 1
      BY <2>12, <2>14, <2>16, <3>1
    <3>2. CASE i # 1
      <4>1. PICK j \in 1..n : i = 1 + j
        <5>1. i - 1 \in 1..n /\ i = 1 + (i - 1)
          BY <3>2
        <5>2. QED
          BY <5>1
      <4>2. x[i] = AbsValue(ct[i])
        BY <2>16, <4>1
      <4>3. ct[i] = stack[m + j - 1]
        BY <2>4, <2>12, <4>1
      <4>4. y[i] = st[m + j - 1]
        <5>1. j \in 1..(n + 1)
          OBVIOUS
        <5>2. args[j] = st[m + j - 1]
          BY <2>5, <5>1
        <5>3. w[j] = args[j]
          BY <2>7
        <5>4. y[i] = w[j]
          BY <2>14, <4>1
        <5>5. QED
          BY <5>2, <5>3, <5>4
      <4>5. m + j - 1 \in 1..l
        BY <2>2
      <4>6. QED
        BY <1>3, <4>2, <4>3, <4>4, <4>5
    <3>3. QED
      BY <3>1, <3>2
  <2>18. y = [i \in 1..(1 + n) |-> y[i]]
    BY <2>14
  <2>19. x = y
    BY <2>16, <2>17, <2>18
  <2>20. Abs!Object(nextId, o.kind, args).fields = <<0>> \o SubSeq(args, 1, Len(args) - 1)
    BY <2>1 DEF Abs!Object
  <2>21. Len(args) - 1 = n
    BY <2>5
  <2>22. Abs!Object(nextId, o.kind, args).fields = y
    BY <2>6, <2>8, <2>13, <2>20, <2>21
  <2>23. /\ o.kind \in {"sexp", "closure"} => k >= 1
         /\ o.kind # "string"
    BY <2>1
  <2>24. \A i \in 1..Len(o.fields) : i < FirstField(o) => o.fields[i] = 0
    BY <1>7, <1>8, <2>12, <2>15
  <2>25. \A i \in 1..Len(o.fields) : InHand(o.fields[i])
    <3>1. ASSUME NEW i \in 1..(1 + n) PROVE InHand(ct[i])
      <4>1. CASE i = 1
        BY <2>12, <4>1 DEF InHand
      <4>2. CASE i # 1
        <5>1. PICK j \in 1..n : i = 1 + j
          <6>1. i - 1 \in 1..n /\ i = 1 + (i - 1)
            BY <4>2
          <6>2. QED
            BY <6>1
        <5>2. l >= Base + (n + 1) /\ m = l - n /\ l - 1 = m + n - 1
          BY <1>1, <1>2, <2>1, <2>2
        <5>3. m + j - 1 \in 2..Len(stack)
          BY <1>1, <1>2, <5>2
        <5>4. QED
          BY <2>4, <2>12, <5>1, <5>3 DEF InHand
      <4>3. QED
        BY <4>1, <4>2
    <3>2. QED
      BY <1>7, <2>12, <3>1
  <2>26. QED
    BY <1>6, <2>19, <2>22, <2>23, <2>24, <2>25
<1>13. QED
  BY <1>4, <1>10, <1>11, <1>12 DEF Operators

\* What the new object changes in the store: it is there, with the operands as
\* its fields, and everything else is as it was.
LEMMA Built ==
  ASSUME IInv, StoreInv, phase \in {"alloc", "retry"}, Finish,
         NEW c, c = heap.current, NEW v, v = Content(heap, c),
         NEW o, o = [id |-> nextId, kind |-> KindOf(req.op), fields |-> Contents(req),
                     fwd |-> 0, marked |-> FALSE, enqueued |-> FALSE]
  PROVE  /\ c \notin DOMAIN mem /\ DOMAIN mem' = DOMAIN mem \cup {c}
         /\ mem'[c] = o /\ o \in ObjectType /\ o.fields \in Seq(Known)
         /\ \A b \in DOMAIN mem : mem'[b] = mem[b]
         /\ \A w \in Known : /\ AbsValue(w)' = AbsValue(w)
                             /\ IsValidHeapPointer(w)' <=> IsValidHeapPointer(w)
         /\ AbsValue(v)' = nextId /\ IsValidHeapPointer(v)' /\ Target(heap, v) = c
         /\ heap'.begin = heap.begin
<1>1. /\ heap' = [heap EXCEPT !.current = @ + Words(req)]
      /\ mem' = [a \in DOMAIN mem \cup {c} |-> IF a = c THEN o ELSE mem[a]]
  BY DEF Finish
<1>2. /\ heap.begin \in Nat \ {0} /\ heap.current \in Nat
      /\ Memory(mem) /\ Tiled(mem, heap.current) /\ Known \subseteq Values /\ Steady
  BY Running DEF Settled, Steady
<1>3. /\ KindOf(req.op) \in Kinds /\ Contents(req) \in Seq(Known)
      /\ Words(req) \in Nat /\ Words(req) = 2 + Len(Contents(req))
  BY Requested
<1>4. nextId \in Nat \ {0} /\ heap \in ChunkType
  BY DEF IInv, Typed
<1>5. o \in ObjectType /\ o.fields \in Seq(Known) /\ Size(o) = Words(req)
  <2>1. Contents(req) \in Seq(Values)
    BY <1>2, <1>3, SeqMonotonic
  <2>2. o \in ObjectType
    BY <1>3, <1>4, <2>1 DEF ObjectType
  <2>3. QED
    BY <1>3, <2>2 DEF Size, Hdr
<1>6. PICK n : n = [a \in DOMAIN mem \cup {c} |-> IF a = c THEN o ELSE mem[a]]
  OBVIOUS
<1>7. PICK m : m = mem
  OBVIOUS
<1>8. /\ c \notin DOMAIN m /\ n[c] = o /\ \A a \in DOMAIN m : n[a] = m[a]
      /\ Memory(n) /\ Tiled(n, c + Size(o))
  <2>1. c \in Nat /\ Memory(m) /\ Tiled(m, c)
    BY <1>2, <1>7
  <2>2. n = [a \in DOMAIN m \cup {c} |-> IF a = c THEN o ELSE m[a]]
    BY <1>6, <1>7
  <2>3. o \in ObjectType
    BY <1>5
  <2>4. QED
    BY ONLY <2>1, <2>2, <2>3, OneMore
<1>9. PICK h : h = heap'
  OBVIOUS
<1>10. h.begin = heap.begin /\ h.current = c + Size(o) /\ h.current \in Nat
  BY <1>1, <1>2, <1>3, <1>4, <1>5, <1>9, SMTT(30) DEF ChunkType
<1>11. PICK b \in Nat \ {0} : b = heap.begin
  BY <1>2
<1>12. c \in Nat /\ h.begin = b
  BY <1>2, <1>10, <1>11
<1>13. DOMAIN n = DOMAIN m \cup {c}
  BY <1>6, <1>7
<1>14. ASSUME NEW w \in Known
       PROVE  AbsValue(w)' = AbsValue(w) /\ (IsValidHeapPointer(w)' <=> IsValidHeapPointer(w))
  <2>1. /\ AbsValue(w)' = IF w # Unboxed /\ InChunk(h, w) THEN n[Target(h, w)].id ELSE w
        /\ IsValidHeapPointer(w)' <=> (w # Unboxed /\ InChunk(h, w))
    BY <1>1, <1>6, <1>9 DEF AbsValue, IsValidHeapPointer, IsValidPointer, InChunk, Target
  <2>2. CASE w = Unboxed
    BY <2>1, <2>2 DEF AbsValue, IsValidHeapPointer, IsValidPointer
  <2>3. CASE w = 0
    <3>1. ~InChunk(h, w) /\ ~InChunk(heap, w)
      BY <1>11, <1>12, <2>3 DEF InChunk
    <3>2. QED
      BY <2>1, <3>1 DEF AbsValue, IsValidHeapPointer, IsValidPointer
  <2>4. CASE w \notin {0, Unboxed}
    <3>1. /\ w \in Nat /\ w # Unboxed /\ IsValidHeapPointer(w)
          /\ Target(heap, w) \in DOMAIN m /\ AbsValue(w) = m[Target(heap, w)].id
      BY <1>2, <1>7, <2>4, KnownCases
    <3>2. InChunk(heap, w)
      BY <3>1 DEF IsValidHeapPointer
    <3>3. InChunk(h, w)
      <4>1. b <= w /\ w <= b + c
        BY <1>11, <3>2 DEF InChunk
      <4>2. Size(o) \in Nat
        BY <1>3, <1>5
      <4>3. w <= b + (c + Size(o))
        BY <1>12, <3>1, <4>1, <4>2
      <4>4. QED
        BY <1>10, <1>12, <4>1, <4>3 DEF InChunk
    <3>4. Target(h, w) = Target(heap, w)
      BY <1>11, <1>12 DEF Target
    <3>5. PICK a \in DOMAIN m : a = Target(heap, w)
      BY <3>1
    <3>6. AbsValue(w)' = n[a].id
      BY <2>1, <3>1, <3>3, <3>4, <3>5
    <3>7. QED
      BY <1>8, <2>1, <3>1, <3>3, <3>5, <3>6
  <2>5. QED
    BY <2>2, <2>3, <2>4
<1>15. /\ v # Unboxed /\ InChunk(h, v) /\ Target(h, v) = c /\ Target(heap, v) = c
  <2>1. /\ c \in DOMAIN n /\ h.begin \in Nat \ {0} /\ h.current \in Nat
        /\ Memory(n) /\ Tiled(n, h.current)
    BY <1>8, <1>10, <1>12, <1>13
  <2>2. /\ Content(h, c) # Unboxed /\ InChunk(h, Content(h, c)) /\ Target(h, Content(h, c)) = c
    BY ONLY <2>1, PointerTo
  <2>3. v = Content(h, c)
    BY <1>11, <1>12 DEF Content
  <2>4. Target(heap, v) = Target(h, v)
    BY <1>11, <1>12 DEF Target
  <2>5. QED
    BY <2>2, <2>3, <2>4
<1>16. AbsValue(v)' = nextId /\ IsValidHeapPointer(v)'
  <2>1. AbsValue(v)' = n[c].id
    BY <1>1, <1>6, <1>9, <1>15 DEF AbsValue, InChunk, Target
  <2>2. IsValidHeapPointer(v)'
    BY <1>9, <1>15 DEF IsValidHeapPointer, IsValidPointer, InChunk
  <2>3. QED
    BY <1>8, <2>1, <2>2
<1>17. c \notin DOMAIN mem /\ DOMAIN mem' = DOMAIN mem \cup {c} /\ mem'[c] = o
       /\ \A a \in DOMAIN mem : mem'[a] = mem[a]
  BY <1>1, <1>6, <1>7, <1>8, <1>13
<1>18. heap'.begin = heap.begin
  BY <1>9, <1>10
<1>19. QED
  BY <1>5, <1>14, <1>15, <1>16, <1>17, <1>18

\* What is held can be reached.
LEMMA HeldLive == IInv /\ Steady => Held \subseteq Live
BY Graph

\* The builtin replaces its operands by an object that is new.
LEMMA FinishMoves ==
  IInv /\ IInv' /\ StoreInv /\ phase \in {"alloc", "retry"} /\ Finish => Abs!Next /\ StoreInv'
<1> SUFFICES ASSUME IInv, IInv', StoreInv, phase \in {"alloc", "retry"}, Finish
             PROVE  Abs!Next /\ StoreInv'
  OBVIOUS
<1>1. /\ stack' = Append(Pop(Operands(req)), Content(heap, heap.current))
      /\ req' = NoReq /\ phase' = "run" /\ nextId' = nextId + 1
  BY DEF Finish
<1>2. /\ Steady /\ Settled /\ AbsStack = StoreStack /\ AbsObjs = StoreObjs
      /\ StoreObjs = Seen(Live) /\ \A b \in Live : Raw(AbsObject(mem[b]))
  BY SeenHere DEF Settled
<1>3. /\ stack \in Seq(Known) /\ Len(stack) \in Nat /\ Base \in Nat /\ Base >= 2
      /\ Operands(req) \in Nat /\ Len(stack) >= Base + Operands(req)
  BY <1>2, Running, Requested
<1>4. PICK c : c = heap.current
  OBVIOUS
<1>5. PICK v : v = Content(heap, c)
  OBVIOUS
<1>6. PICK o : o = [id |-> nextId, kind |-> KindOf(req.op), fields |-> Contents(req),
                    fwd |-> 0, marked |-> FALSE, enqueued |-> FALSE]
  OBVIOUS
<1>7. /\ c \notin DOMAIN mem /\ DOMAIN mem' = DOMAIN mem \cup {c}
      /\ mem'[c] = o /\ o \in ObjectType /\ o.fields \in Seq(Known)
      /\ \A b \in DOMAIN mem : mem'[b] = mem[b]
      /\ \A w \in Known : /\ AbsValue(w)' = AbsValue(w)
                          /\ IsValidHeapPointer(w)' <=> IsValidHeapPointer(w)
      /\ AbsValue(v)' = nextId /\ IsValidHeapPointer(v)' /\ Target(heap, v) = c
      /\ heap'.begin = heap.begin
  BY <1>4, <1>5, <1>6, Built
<1>8. PICK L : L = Live
  OBVIOUS
<1>9. PICK k \in Nat : k = Operands(req)
  BY <1>3
<1>10. PICK l \in Nat : l = Len(stack) /\ DOMAIN stack = 1..l /\ l >= Base + k
  BY <1>3, <1>9
<1>11. PICK r \in 0..l : r = l - k /\ r >= Base /\ 1 \in 1..r
  BY <1>3, <1>10, Remaining
<1>12. PICK st : st = StoreStack
  OBVIOUS
<1>13. st \in Seq(Values) /\ Len(st) = l /\ \A j \in 1..l : st[j] = AbsValue(stack[j])
  <2>1. st \in Seq(Values) /\ Len(st) = l
    BY <1>2, <1>10, <1>12, StoreTyped
  <2>2. QED
    BY <1>10, <1>12, <2>1 DEF StoreStack
<1>14. PICK t : t = Append(Pop(k), v)
  OBVIOUS
<1>15. /\ stack' = t /\ Len(t) = r + 1 /\ DOMAIN t = 1..(r + 1) /\ t[r + 1] = v
       /\ \A j \in 1..r : t[j] = stack[j] /\ stack[j] \in Known
  <2>1. PICK p : p = Pop(k)
    OBVIOUS
  <2>2. p \in Seq(Known) /\ Len(p) = r /\ \A j \in 1..r : p[j] = stack[j]
    BY <1>2, <1>3, <1>9, <1>10, <1>11, <2>1, Popped
  <2>3. PICK P : P = Known \cup {v}
    OBVIOUS
  <2>4. p \in Seq(P) /\ v \in P
    BY <2>2, <2>3, SeqMonotonic
  <2>5. /\ Append(p, v) \in Seq(P) /\ Len(Append(p, v)) = Len(p) + 1
        /\ Append(p, v)[Len(p) + 1] = v
        /\ \A j \in 1..Len(p) : Append(p, v)[j] = p[j]
    BY ONLY <2>4, AppendProperties
  <2>6. t = Append(p, v) /\ stack' = t
    BY <1>1, <1>4, <1>5, <1>9, <1>14, <2>1
  <2>7. DOMAIN t = 1..Len(t)
    BY <2>5, <2>6
  <2>8. \A j \in 1..r : stack[j] \in Known
    <3>1. ASSUME NEW j \in 1..r PROVE stack[j] \in Known
      <4>1. j \in 1..Len(stack)
        BY <1>10
      <4>2. QED
        BY <1>3, <4>1, ElementOfSeq
    <3>2. QED
      BY <3>1
  <2>9. QED
    BY <2>2, <2>5, <2>6, <2>7, <2>8
<1>16. L \subseteq DOMAIN mem /\ \A b \in L : Succ[b] \subseteq L
  BY <1>2, <1>8, Graph
<1>17. ASSUME NEW b \in DOMAIN mem
       PROVE  AbsObject(mem[b])' = AbsObject(mem[b]) /\ Succ'[b] = Succ[b]
  <2>1. PICK q : q = mem[b]
    OBVIOUS
  <2>2. mem'[b] = q /\ mem[b] = q /\ b \in DOMAIN mem'
    BY <1>7, <2>1
  <2>3. /\ FirstField(q) \in Nat \ {0} /\ DOMAIN q.fields = 1..Len(q.fields)
        /\ Len(q.fields) \in Nat
    BY <1>2, <2>2, ReferencesOf, ObjectFields
  <2>4. \A i \in FirstField(q)..Len(q.fields) : q.fields[i] \in Known
    BY <1>2, <2>2, ReferencesOf
  <2>5. \A i \in DOMAIN q.fields : i >= FirstField(q) => AbsValue(q.fields[i])' = AbsValue(q.fields[i])
    <3>1. ASSUME NEW i \in DOMAIN q.fields, i >= FirstField(q)
          PROVE  AbsValue(q.fields[i])' = AbsValue(q.fields[i])
      <4>1. i \in FirstField(q)..Len(q.fields)
        BY <2>3, <3>1
      <4>2. PICK w \in Known : w = q.fields[i]
        BY <2>4, <4>1
      <4>3. AbsValue(w)' = AbsValue(w)
        BY <1>7
      <4>4. QED
        BY <4>2, <4>3
    <3>2. QED
      BY <3>1
  <2>6. AbsObject(q)' = AbsObject(q)
    BY <2>5 DEF AbsObject
  <2>7. AbsObject(mem[b])' = AbsObject(q)'
    BY <2>2 DEF AbsObject
  <2>8. /\ Succ[b] = {Target(heap, w) : w \in {u \in Refs(q) : InChunk(heap, u)}}
        /\ Succ'[b] = {Target(heap, w)' : w \in {u \in Refs(q) : InChunk(heap, u)'}}
    BY <2>2 DEF Succ, Refs, FirstField
  <2>9. ASSUME NEW w \in Refs(q)
        PROVE  Target(heap, w)' = Target(heap, w) /\ (InChunk(heap, w)' <=> InChunk(heap, w))
    <3>1. w \in Known /\ w # Unboxed
      BY <1>2, <2>2, ReferencesOf DEF Refs
    <3>2. IsValidHeapPointer(w)' <=> IsValidHeapPointer(w)
      BY <1>7, <3>1
    <3>3. QED
      BY <1>7, <3>1, <3>2 DEF IsValidHeapPointer, IsValidPointer, Target
  <2>10. Succ'[b] = Succ[b]
    BY <2>8, <2>9
  <2>11. QED
    BY <2>2, <2>6, <2>7, <2>10
<1>18. PICK x : x = AbsObject(mem[c])'
  OBVIOUS
<1>19. PICK args : args = SubSeq(st, Len(st) - k + 1, Len(st))
  OBVIOUS
<1>20. /\ x = Abs!Object(nextId, o.kind, args) /\ x.kind = o.kind /\ Raw(x)
       /\ k >= (IF x.kind \in {"sexp", "closure"} THEN 1 ELSE 0)
       /\ x.kind = "string" => k = 0
       /\ \A i \in 1..Len(o.fields) : InHand(o.fields[i])
  <2>1. /\ o.kind = KindOf(req.op) /\ o.fields = Contents(req) /\ o.id = nextId
        /\ o \in ObjectType
    BY <1>6, <1>7
  <2>2. /\ o.kind \in {"sexp", "closure"} => k >= 1
        /\ o.kind = "string" => k = 0
        /\ Shown(o) = Abs!Object(nextId, o.kind, args).fields
        /\ \A i \in 1..Len(o.fields) : i < FirstField(o) => o.fields[i] = 0
        /\ \A i \in 1..Len(o.fields) : InHand(o.fields[i])
    <3>1. BuiltAs(o)
      BY <2>1, BuiltFields
    <3>2. NewArgs = args
      BY <1>9, <1>12, <1>19 DEF NewArgs
    <3>3. QED
      BY <1>9, <3>1, <3>2 DEF BuiltAs
  <2>3. PICK fs : fs = o.fields
    OBVIOUS
  <2>4. PICK f \in Nat \ {0} : f = FirstField(o)
    BY <1>7, ObjectFields
  <2>5. PICK n \in Nat : n = Len(fs) /\ DOMAIN fs = 1..n
    BY <1>7, <2>3, ObjectFields
  <2>6. \A i \in 1..n : fs[i] \in Known
    BY <1>7, <2>3, <2>5, ElementOfSeq
  <2>7. PICK y : y = [i \in 1..n |-> IF i >= f THEN AbsValue(fs[i]) ELSE fs[i]]
    OBVIOUS
  <2>8. y = Shown(o)
    BY <2>3, <2>4, <2>5, <2>7 DEF Shown
  <2>9. x = [id |-> nextId, kind |-> o.kind,
             fields |-> [i \in 1..n |-> IF i >= f THEN AbsValue(fs[i])' ELSE fs[i]]]
    <3>1. FirstField(mem[c])' = f /\ mem'[c] = o
      BY <1>7, <2>4 DEF FirstField
    <3>2. QED
      BY <1>18, <2>1, <2>3, <2>5, <3>1 DEF AbsObject
  <2>10. \A i \in 1..n : AbsValue(fs[i])' = AbsValue(fs[i])
    <3>1. ASSUME NEW i \in 1..n PROVE AbsValue(fs[i])' = AbsValue(fs[i])
      <4>1. PICK w \in Known : w = fs[i]
        BY <2>6
      <4>2. AbsValue(w)' = AbsValue(w)
        BY <1>7
      <4>3. QED
        BY <4>1, <4>2
    <3>2. QED
      BY <3>1
  <2>11. x = [id |-> nextId, kind |-> o.kind, fields |-> y]
    BY <2>7, <2>9, <2>10
  <2>12. PICK K : K = o.kind
    OBVIOUS
  <2>13. x = Abs!Object(nextId, K, args)
    BY <2>2, <2>8, <2>11, <2>12 DEF Abs!Object
  <2>14. x.kind = K /\ x.fields = y
    BY <2>11, <2>12
  <2>15. Len(y) = n
    BY <2>7
  <2>16. SnapFirst(x) = f
    BY <2>3, <2>4, <2>5, <2>12, <2>14, <2>15 DEF SnapFirst, FirstField
  <2>17. \A i \in 1..n : i < f => y[i] = 0
    BY <2>2, <2>3, <2>4, <2>5, <2>7
  <2>18. Raw(x)
    BY <2>14, <2>15, <2>16, <2>17 DEF Raw
  <2>19. QED
    BY <2>2, <2>12, <2>13, <2>14, <2>18
<1>21. Settled' /\ Steady' /\ ~Collecting'
  BY <1>1 DEF Settled, Steady, Collecting
<1>22. PICK M : M = L \cup {c}
  OBVIOUS
<1>23. Target(heap, v)' = c
  BY <1>7 DEF Target
<1>24. c \in Held'
  <2>1. r + 1 \in 2..Len(stack')
    BY <1>3, <1>11, <1>15
  <2>2. stack'[r + 1] = v
    BY <1>15
  <2>3. QED
    BY <1>7, <1>23, <2>1, <2>2 DEF Held
<1>25. ASSUME NEW w, InHand(w), IsValidHeapPointer(w)' PROVE Target(heap, w)' \in L
  <2>1. w \in Known /\ (IsValidHeapPointer(w) => Target(heap, w) \in Live)
    BY <1>2, <1>25, HandValues
  <2>2. IsValidHeapPointer(w)
    BY <1>7, <1>25, <2>1
  <2>3. Target(heap, w)' = Target(heap, w)
    BY <1>7 DEF Target
  <2>4. QED
    BY <1>8, <2>1, <2>2, <2>3
<1>26. Held' \subseteq M
  <2>1. ASSUME NEW s \in 2..(r + 1), IsValidHeapPointer(t[s])' PROVE Target(heap, t[s])' \in M
    <3>1. CASE s = r + 1
      BY <1>15, <1>22, <1>23, <3>1
    <3>2. CASE s # r + 1
      <4>1. s \in 1..r /\ s \in 2..Len(stack)
        BY <1>10, <3>2
      <4>2. PICK w : w = t[s]
        OBVIOUS
      <4>3. InHand(w)
        BY <1>15, <4>1, <4>2 DEF InHand
      <4>4. IsValidHeapPointer(w)'
        BY <2>1, <4>2
      <4>5. Target(heap, w)' \in M
        BY <1>22, <1>25, <4>3, <4>4
      <4>6. QED
        BY <4>2, <4>5
    <3>3. QED
      BY <3>1, <3>2
  <2>2. Held' = {Target(heap, w)' : w \in {u \in {t[s] : s \in 2..(r + 1)} : IsValidHeapPointer(u)'}}
    BY <1>15 DEF Held
  <2>3. QED
    BY <2>1, <2>2
<1>27. Succ'[c] \subseteq M
  <2>1. Succ'[c] = {Target(heap, w)' : w \in {u \in Refs(o) : InChunk(heap, u)'}}
    BY <1>7 DEF Succ, Refs, FirstField
  <2>2. ASSUME NEW w \in Refs(o), InChunk(heap, w)' PROVE Target(heap, w)' \in M
    <3>1. FirstField(o) \in Nat \ {0} /\ Len(o.fields) \in Nat
      BY <1>7, ObjectFields
    <3>2. PICK i \in FirstField(o)..Len(o.fields) : w = o.fields[i]
      BY DEF Refs
    <3>3. i \in 1..Len(o.fields)
      BY <3>1
    <3>4. InHand(w)
      BY <1>20, <3>2, <3>3
    <3>5. IsValidHeapPointer(w)'
      BY <2>2 DEF Refs, IsValidHeapPointer, IsValidPointer
    <3>6. QED
      BY <1>22, <1>25, <3>4, <3>5
  <2>3. QED
    BY <2>1, <2>2
<1>28. Closes(M)'
  <2>1. M \subseteq DOMAIN mem'
    BY <1>7, <1>16, <1>22
  <2>2. ASSUME NEW b \in M PROVE Succ'[b] \subseteq M
    <3>1. CASE b = c
      BY <1>27, <3>1
    <3>2. CASE b \in L
      BY <1>16, <1>17, <1>22, <3>2
    <3>3. QED
      BY <1>22, <3>1, <3>2
  <2>3. ASSUME NEW b \in M PROVE Raw(AbsObject(mem[b])')
    <3>1. CASE b = c
      BY <1>18, <1>20, <3>1
    <3>2. CASE b \in L
      <4>1. AbsObject(mem[b])' = AbsObject(mem[b]) /\ Raw(AbsObject(mem[b]))
        BY <1>2, <1>8, <1>16, <1>17, <3>2
      <4>2. QED
        BY <4>1
    <3>3. QED
      BY <1>22, <3>1, <3>2
  <2>4. \A b \in M : Raw(AbsObject(mem[b]))'
    BY <2>3 DEF Raw, SnapFirst
  <2>5. QED
    BY <1>26, <2>1, <2>2, <2>4 DEF Closes
<1>29. Shrinks(M)'
  <2>1. AllShrink'
    BY ReducedHere, PTL
  <2>2. QED
    BY <1>21, <1>28, <2>1 DEF AllShrink
<1>30. PICK z : z = StoreObjs
  OBVIOUS
<1>31. Seen(M)' = z \cup {x}
  <2>1. Seen(M)' = {AbsObject(mem[b])' : b \in M}
    BY DEF Seen
  <2>2. z = {AbsObject(mem[b]) : b \in L}
    BY <1>2, <1>8, <1>30 DEF Seen
  <2>3. \A b \in L : AbsObject(mem[b])' = AbsObject(mem[b])
    BY <1>16, <1>17
  <2>4. ASSUME NEW y \in Seen(M)' PROVE y \in z \cup {x}
    <3>1. PICK b \in M : y = AbsObject(mem[b])'
      BY <2>1
    <3>2. CASE b = c
      BY <1>18, <3>1, <3>2
    <3>3. CASE b \in L
      BY <2>2, <2>3, <3>1, <3>3
    <3>4. QED
      BY <1>22, <3>2, <3>3
  <2>5. x \in Seen(M)'
    BY <1>18, <1>22, <2>1
  <2>6. ASSUME NEW y \in z PROVE y \in Seen(M)'
    <3>1. PICK b \in L : y = AbsObject(mem[b])
      BY <2>2
    <3>2. b \in M /\ y = AbsObject(mem[b])'
      BY <1>22, <2>3, <3>1
    <3>3. QED
      BY <2>1, <3>2
  <2>7. QED
    BY <2>4, <2>5, <2>6
<1>32. PICK tt : tt = StoreStack'
  OBVIOUS
<1>33. PICK zz : zz = StoreObjs'
  OBVIOUS
<1>34. AbsStack' = tt /\ AbsObjs' = zz
  BY <1>21, <1>32, <1>33 DEF AbsStack, AbsObjs
<1>35. zz = Abs!Reachable(tt, z \cup {x})
  <2>1. Abs!Reachable(StoreStack', Seen(M)') = StoreObjs'
    BY <1>29 DEF Shrinks
  <2>2. QED
    BY <1>31, <1>32, <1>33, <2>1
<1>36. x \in zz
  <2>1. (IInv /\ Steady => Held \subseteq Live)'
    BY HeldLive, PTL
  <2>2. c \in Live'
    BY <1>21, <1>24, <2>1
  <2>3. QED
    BY <1>18, <1>33, <2>2 DEF StoreObjs
<1>37. tt = Append(SubSeq(st, 1, r), nextId) /\ Len(tt) = r + 1
  <2>1. tt = [j \in 1..(r + 1) |-> AbsValue(t[j])']
    BY <1>15, <1>32 DEF StoreStack
  <2>2. PICK q : q = SubSeq(st, 1, r)
    OBVIOUS
  <2>3. q \in Seq(Values) /\ Len(q) = r /\ \A j \in 1..r : q[j] = st[j]
    <3>1. st \in Seq(Values) /\ r \in 0..Len(st)
      BY <1>13
    <3>2. QED
      BY ONLY <2>2, <3>1, PopProperties
  <2>4. nextId \in Values
    BY DEF IInv, Typed, Values
  <2>5. PICK y : y = Append(q, nextId)
    OBVIOUS
  <2>6. /\ y \in Seq(Values) /\ Len(y) = Len(q) + 1 /\ y[Len(q) + 1] = nextId
        /\ \A j \in 1..Len(q) : y[j] = q[j]
    <3>1. q \in Seq(Values) /\ nextId \in Values
      BY <2>3, <2>4
    <3>2. QED
      BY ONLY <2>5, <3>1, AppendProperties
  <2>7. y = [j \in 1..(r + 1) |-> y[j]]
    <3>1. y \in Seq(Values) /\ Len(y) = r + 1
      BY <2>3, <2>6
    <3>2. QED
      BY ONLY <3>1
  <2>8. ASSUME NEW j \in 1..(r + 1) PROVE AbsValue(t[j])' = y[j]
    <3>1. CASE j = r + 1
      <4>1. AbsValue(t[j])' = AbsValue(v)'
        BY <1>15, <3>1
      <4>2. QED
        BY <1>7, <2>3, <2>6, <3>1, <4>1
    <3>2. CASE j # r + 1
      <4>1. j \in 1..r /\ j \in 1..l
        BY <3>2
      <4>2. PICK w \in Known : w = stack[j] /\ w = t[j]
        BY <1>15, <4>1
      <4>3. AbsValue(w)' = AbsValue(w)
        BY <1>7
      <4>4. AbsValue(t[j])' = AbsValue(w)
        BY <4>2, <4>3
      <4>5. y[j] = AbsValue(w)
        BY <1>13, <2>3, <2>6, <4>1, <4>2
      <4>6. QED
        BY <4>4, <4>5
    <3>3. QED
      BY <3>1, <3>2
  <2>9. tt = y
    BY <2>1, <2>7, <2>8
  <2>10. QED
    BY <2>2, <2>3, <2>5, <2>6, <2>9
<1>38. Abs!New(st, z, tt, zz)
  <2>1. Len(st) + 1 - Len(tt) = k /\ Len(st) - k = r
    BY <1>11, <1>13, <1>37
  <2>2. x = Abs!Object(nextId, x.kind, args)
    <3>1. PICK K : K = o.kind
      OBVIOUS
    <3>2. x.kind = K /\ x = Abs!Object(nextId, K, args)
      BY <1>20, <3>1
    <3>3. QED
      BY <3>2
  <2>3. /\ k >= (IF x.kind \in {"sexp", "closure"} THEN 1 ELSE 0)
        /\ x.kind = "string" => k = 0
    BY <1>20
  <2>4. tt = Append(SubSeq(st, 1, Len(st) - k), nextId)
    BY <1>37, <2>1
  <2>5. QED
    BY <1>1, <1>19, <1>35, <1>36, <2>1, <2>2, <2>3, <2>4 DEF Abs!New
<1>39. Abs!Next
  <2>1. AbsStack = st /\ AbsObjs = z
    BY <1>2, <1>12, <1>30
  <2>2. QED
    BY <1>34, <1>38, <2>1 DEF Abs!Next, AbsStack, AbsObjs
<1>40. \A y \in AbsObjs' : Raw(y)
  <2>1. Live' \subseteq M
    BY <1>29 DEF Shrinks
  <2>2. StoreObjs' \subseteq Seen(M)'
    BY <2>1 DEF StoreObjs, Seen
  <2>3. \A y \in z : Raw(y)
    BY <1>2, <1>30 DEF StoreInv
  <2>4. QED
    BY <1>20, <1>31, <1>33, <1>34, <2>2, <2>3
<1>41. StoreInv'
  <2>1. req'.op = "none" /\ phase' = "run"
    BY <1>1 DEF NoReq
  <2>2. QED
    BY <1>40, <2>1 DEF StoreInv
<1>42. QED
  BY <1>39, <1>41

\* The request fits at once.
LEMMA AllocMoves == IInv /\ IInv' /\ StoreInv /\ Alloc => Abs!Next /\ StoreInv'
BY FinishMoves DEF Alloc

\* The request fits after a collection.
LEMMA RetryMoves == IInv /\ IInv' /\ StoreInv /\ Retry => Abs!Next /\ StoreInv'
BY FinishMoves DEF Retry

---------------------------------------------------------------------------
(***************************************************************************)
(* The collector.                                                          *)
(***************************************************************************)

\* Nothing happens to the store.
Unseen == AbsStack' = AbsStack /\ AbsObjs' = AbsObjs /\ nextId' = nextId

\* While a collection is under way the program sees the store it started from.
LEMMA Hidden ==
  ASSUME StoreInv, Collecting, Collecting', snap' = snap, nextId' = nextId, req' = req
  PROVE  Unseen /\ StoreInv'
<1>1. Unseen
  BY DEF Unseen, AbsStack, AbsObjs
<1>2. phase # "run" /\ phase' # "run"
  BY DEF Collecting
<1>3. StoreInv'
  BY <1>1, <1>2 DEF StoreInv, Unseen
<1>4. QED
  BY <1>1, <1>3

\* mark_phase and compact_phase up to the end.
LEMMA CollectorHidden ==
  StoreInv /\ (MarkPhase \/ Locate \/ LocateDone \/ Grow \/ GrowFault
                 \/ UpdateObject \/ UpdateRoots \/ Move)
    => Unseen /\ StoreInv'
<1> SUFFICES ASSUME StoreInv,
                    MarkPhase \/ Locate \/ LocateDone \/ Grow \/ GrowFault
                      \/ UpdateObject \/ UpdateRoots \/ Move
             PROVE  Unseen /\ StoreInv'
  OBVIOUS
<1> DEFINE Working == {"roots", "queue", "fields", "locate", "grow", "update",
                       "move", "fault"}
<1>1. CASE MarkRoot
  <2>1. phase \in Working /\ phase' \in Working /\ snap' = snap /\ nextId' = nextId /\ req' = req
    BY <1>1 DEF MarkRoot
  <2>2. QED
    BY <2>1, Hidden DEF Collecting, Phases
<1>2. CASE Dequeue \/ ScanField \/ FieldsDone \/ QueueEmpty \/ RootsDone
  <2>1. phase \in Working /\ phase' \in Working /\ snap' = snap /\ nextId' = nextId /\ req' = req
    BY <1>2 DEF Dequeue, ScanField, FieldsDone, QueueEmpty, RootsDone
  <2>2. QED
    BY <2>1, Hidden DEF Collecting, Phases
<1>3. CASE Locate \/ LocateDone \/ Grow \/ GrowFault
  <2>1. phase \in Working /\ phase' \in Working /\ snap' = snap /\ nextId' = nextId /\ req' = req
    BY <1>3 DEF Locate, LocateDone, Grow, GrowFault
  <2>2. QED
    BY <2>1, Hidden DEF Collecting, Phases
<1>4. CASE UpdateObject \/ UpdateRoots \/ Move
  <2>1. phase \in Working /\ phase' \in Working /\ snap' = snap /\ nextId' = nextId /\ req' = req
    BY <1>4 DEF UpdateObject, UpdateRoots, Move
  <2>2. QED
    BY <2>1, Hidden DEF Collecting, Phases
<1>5. QED
  BY <1>1, <1>2, <1>3, <1>4 DEF MarkPhase

\* The collection starts from the store the program sees.
LEMMA StartGcHidden == StoreInv /\ StartGc => Unseen /\ StoreInv'
<1> SUFFICES ASSUME StoreInv, StartGc PROVE Unseen /\ StoreInv'
  OBVIOUS
<1>1. /\ phase = "alloc" /\ phase' = "roots" /\ nextId' = nextId /\ req' = req
      /\ snap' = [stack |-> StoreStack, objs |-> StoreObjs]
  BY DEF StartGc
<1>2. ~Collecting /\ Collecting'
  BY <1>1 DEF Collecting, Phases
<1>3. Unseen
  BY <1>1, <1>2 DEF Unseen, AbsStack, AbsObjs
<1>4. StoreInv'
  BY <1>1, <1>3 DEF StoreInv, Unseen
<1>5. QED
  BY <1>3, <1>4

\* It ends with the store it started from, at new addresses.
LEMMA MoveDoneHidden == IInv' /\ StoreInv /\ MoveDone => Unseen /\ StoreInv'
<1> SUFFICES ASSUME IInv', StoreInv, MoveDone PROVE Unseen /\ StoreInv'
  OBVIOUS
<1>1. phase = "move" /\ phase' = "retry" /\ nextId' = nextId /\ req' = req /\ snap' = snap
  BY DEF MoveDone
<1>2. Collecting /\ ~Collecting'
  BY <1>1 DEF Collecting, Phases
<1>3. snap'.stack = StoreStack' /\ snap'.objs = StoreObjs'
  BY <1>1 DEF IInv, SnapInv
<1>4. Unseen
  BY <1>1, <1>2, <1>3 DEF Unseen, AbsStack, AbsObjs
<1>5. StoreInv'
  BY <1>1, <1>4 DEF StoreInv, Unseen
<1>6. QED
  BY <1>4, <1>5

\* A step that changes nothing.
LEMMA StutterHidden == StoreInv /\ UNCHANGED vars => Unseen /\ StoreInv'
<1> SUFFICES ASSUME StoreInv, UNCHANGED vars PROVE Unseen /\ StoreInv'
  OBVIOUS
<1>1. UNCHANGED <<mem, heap, stack, req, phase, nextId, snap>>
  BY DEF vars
<1>2. \A v : AbsValue(v)' = AbsValue(v)
  BY <1>1 DEF AbsValue
<1>3. Succ' = Succ /\ Held' = Held
  BY <1>1 DEF Succ, Held, IsValidHeapPointer
<1>4. Live' = Live
  BY <1>3 DEF Live
<1>5. StoreStack' = StoreStack /\ StoreObjs' = StoreObjs
  BY <1>1, <1>2, <1>4 DEF StoreStack, StoreObjs, AbsObject
<1>6. Unseen
  BY <1>1, <1>5 DEF Unseen, AbsStack, AbsObjs, Collecting
<1>7. StoreInv'
  BY <1>1, <1>6 DEF StoreInv, Unseen
<1>8. QED
  BY <1>6, <1>7

---------------------------------------------------------------------------
(***************************************************************************)
(* The refinement.                                                         *)
(***************************************************************************)

\* The program starts from a store without objects.
LEMMA InitStore == Init => Abs!Init /\ StoreInv
<1> SUFFICES ASSUME Init PROVE Abs!Init /\ StoreInv
  OBVIOUS
<1>1. /\ mem = << >> /\ req = NoReq /\ phase = "run" /\ nextId = 1
      /\ \E g \in [1..NGlobals -> InitialSlots] : stack = g \o <<0, 0>>
  BY DEF Init
<1>2. IInv /\ Settled /\ Steady /\ ~Collecting
  BY <1>1, InitIInv DEF Settled, Steady, Collecting
<1>3. DOMAIN mem = {}
  BY <1>1
<1>4. Known = {0, Unboxed}
  BY <1>3 DEF Known, ValuesAt
<1>5. StoreObjs = {}
  <2>1. Live = {}
    BY <1>2, <1>3, Graph
  <2>2. QED
    BY <2>1 DEF StoreObjs
<1>6. Range(StoreStack) \subseteq {Unboxed, 0}
  <2>1. PICK l \in Nat : l = Len(stack) /\ DOMAIN stack = 1..l
    BY <1>2, Running
  <2>2. \A j \in 1..l : stack[j] \in Known
    BY <1>2, <2>1, Running, ElementOfSeq
  <2>3. ASSUME NEW j \in 1..l PROVE AbsValue(stack[j]) \in {Unboxed, 0}
    <3>1. PICK w \in Known : w = stack[j]
      BY <2>2
    <3>2. AbsValue(w) = w
      BY <1>2, <1>3, KnownCases
    <3>3. QED
      BY <1>4, <3>1, <3>2
  <2>4. QED
    BY <2>1, <2>3 DEF StoreStack, Range
<1>7. AbsStack = StoreStack /\ AbsObjs = StoreObjs
  BY <1>2 DEF AbsStack, AbsObjs
<1>8. Abs!Init
  <2>1. Abs!Range(StoreStack) \subseteq {Unboxed, 0}
    BY <1>6 DEF Abs!Range, Range
  <2>2. Abs!Range(AbsStack) \subseteq {Unboxed, 0} /\ AbsObjs = {} /\ nextId = 1
    BY <1>1, <1>5, <1>7, <2>1
  <2>3. QED
    BY <2>2 DEF Abs!Init, AbsStack, AbsObjs
<1>9. StoreInv
  BY <1>1, <1>5, <1>7 DEF StoreInv, NoReq
<1>10. QED
  BY <1>8, <1>9

\* Every instruction is a step of the store.
LEMMA MutatorMoves == IInv /\ IInv' /\ StoreInv /\ Mutator => Abs!Next /\ StoreInv'
BY ConstMoves, LwriteMoves, DropMoves, DupMoves, LdMoves, LdCapturedMoves, StMoves,
   ElemMoves, StCapturedWrites, StaWrites, StringMoves, LstringMoves, BarrayMoves,
   SexpMoves, ClosureMoves DEF Mutator

\* Every step of the collector is none, but for the object that the builtin
\* builds in the end.
LEMMA CollectorMoves ==
  IInv /\ IInv' /\ StoreInv /\ Collector => (Abs!Next \/ Unseen) /\ StoreInv'
<1> SUFFICES ASSUME IInv, IInv', StoreInv, Collector
             PROVE  (Abs!Next \/ Unseen) /\ StoreInv'
  OBVIOUS
<1>1. CASE Alloc \/ Retry
  BY <1>1, AllocMoves, RetryMoves
<1>2. CASE StartGc \/ MoveDone
  BY <1>2, StartGcHidden, MoveDoneHidden
<1>3. CASE MarkPhase \/ Locate \/ LocateDone \/ Grow \/ GrowFault
             \/ UpdateObject \/ UpdateRoots \/ Move
  BY <1>3, CollectorHidden
<1>4. QED
  BY <1>1, <1>2, <1>3 DEF Collector, CompactPhase

\* Every step of the model is a step of the store or leaves it as it is.
LEMMA StepMoves ==
  IInv /\ IInv' /\ StoreInv /\ [Next]_vars => [Abs!Next]_Abs!vars /\ StoreInv'
<1> SUFFICES ASSUME IInv, IInv', StoreInv, [Next]_vars
             PROVE  [Abs!Next]_Abs!vars /\ StoreInv'
  OBVIOUS
<1>1. (Abs!Next \/ Unseen) /\ StoreInv'
  BY MutatorMoves, CollectorMoves, StutterHidden DEF Next
<1>2. Unseen => UNCHANGED Abs!vars
  BY DEF Unseen, Abs!vars, AbsStack, AbsObjs
<1>3. QED
  BY <1>1, <1>2

\* Collections are invisible: the collector and the builtins implement the
\* store of objects with identity, which has neither addresses nor
\* collections and of which every step is one of the program.  The dumps of
\* FULL_INVARIANT_CHECKS (gc.c:223-236) compare the two stores around a
\* collection; here they are related at every step.
THEOREM StoreRefined == Spec => StoreImplemented
<1>1. Init => IInv /\ Abs!Init /\ StoreInv
  BY InitIInv, InitStore
<1>2. IInv /\ [Next]_vars => IInv'
  BY StepIInv
<1>3. IInv /\ IInv' /\ StoreInv /\ [Next]_vars => [Abs!Next]_Abs!vars /\ StoreInv'
  BY StepMoves
<1>4. QED
  BY <1>1, <1>2, <1>3, PTL DEF Spec, StoreImplemented, Abs!Spec
=============================================================================
