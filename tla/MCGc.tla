-------------------------------- MODULE MCGc --------------------------------
(***************************************************************************)
(* Gc for TLC.  Besides the runs from the first instruction of a program,  *)
(* a run of the collector alone starts from every full heap of a few       *)
(* objects: STA lets a program build any graph of references.              *)
(***************************************************************************)
EXTENDS Gc, Folds

CONSTANTS
  Shapes,       \* the heaps: sequences of objects, each a kind and its length
  Operand       \* number of operands on the stack above argc and argv

Array0 == [kind |-> "array", n |-> 0]
Array1 == [kind |-> "array", n |-> 1]
Array2 == [kind |-> "array", n |-> 2]
Sexp2 == [kind |-> "sexp", n |-> 2]
Closure2 == [kind |-> "closure", n |-> 2]
String1 == [kind |-> "string", n |-> 1]

HeapShapes ==
  {<<Array1, Array1, Array2>>, <<Array2, Sexp2, Array1>>,
   <<Closure2, Array1, String1, Array1>>, <<String1, Sexp2, Closure2, Array0>>,
   <<Array1, Array0, Array1, Array1>>}

SmallShapes == {<<Array1, Array1>>, <<Sexp2, Array0>>, <<String1, Closure2>>}

OffsetIn(s, i) ==
  FoldFunctionOnSet(LAMBDA o, sum : Hdr + o.n + sum, 0, s, 1..(i - 1))

\* The first word of an object that holds a reference.
FirstRef(o) == CASE o.kind = "array" -> 1
                 [] o.kind = "string" -> o.n + 1
                 [] OTHER -> 2

\* The words of a heap of shape s that hold references.
RefWords(s) == UNION {{<<i, w>> : w \in FirstRef(s[i])..s[i].n} : i \in DOMAIN s}

\* A builtin finds the heap full; its operands are all there is on the stack.
CollectorInit ==
  \E s \in Shapes :
    LET at == [i \in DOMAIN s |-> OffsetIn(s, i)]
        words == OffsetIn(s, Len(s) + 1)
        values == {Unboxed} \cup {PageWords + at[i] + Hdr : i \in DOMAIN s}
    IN /\ \E refs \in [RefWords(s) -> values] :
            mem = [a \in Range(at) |->
                     LET i == CHOOSE j \in DOMAIN s : at[j] = a
                     IN [id |-> i, kind |-> s[i].kind,
                         fields |-> [w \in 1..s[i].n |->
                                       IF w < FirstRef(s[i]) THEN 0
                                                             ELSE refs[<<i, w>>]],
                         fwd |-> 0, marked |-> FALSE, enqueued |-> FALSE]]
       /\ heap = [begin |-> PageWords, size |-> words, current |-> words]
       /\ mapped = Pages(1, words)
       /\ \E v \in [1..Operand -> values] : stack = <<0, 0>> \o v
       /\ \/ /\ extra = OperandRoots(Operand + 2, Operand)
             /\ req = [op |-> "BARRAY", n |-> Operand]
          \/ extra = <<0>> /\ req = [op |-> "STRING", n |-> 1]
       /\ phase = "alloc"
       /\ root = 0 /\ head = 0 /\ tail = 0 /\ obj = 0 /\ fld = 0
       /\ old = NoChunk /\ iter = 0 /\ free = 0
       /\ nextId = Len(s) + 1
       /\ snap = NoSnap

CollectorNext == Collector \/ (phase = "run" /\ UNCHANGED vars)

CollectorSpec == CollectorInit /\ [][CollectorNext]_vars /\ WF_vars(Collector)
=============================================================================
