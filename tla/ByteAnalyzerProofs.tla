------------------------- MODULE ByteAnalyzerProofs -------------------------
(***************************************************************************)
(* The walk of the analyzer over the bytes of a file is the walk over its  *)
(* instructions that Analyzer describes, for any files of the compiler.    *)
(***************************************************************************)
EXTENDS ByteAnalyzer, LoaderProofs

\* The proofs about Analyzer, for the walk that this one stands for.
AP == INSTANCE AnalyzerProofs WITH
  code <- absCode, entrypoints <- absEntrypoints, next <- absNext,
  visited <- absVisited, prev <- absPrev, counted <- absCounted, paired <- absPaired

---------------------------------------------------------------------------
(***************************************************************************)
(* Offsets and instructions.                                               *)
(***************************************************************************)

\* The file has N instructions, each with its place in the code.
LEMMA Placed ==
  ASSUME file \in Files
  PROVE  /\ Compiled(file) /\ Encoded(file) /\ N \in Nat \ {0}
         /\ Len(file.starts) = N + 1 /\ DOMAIN file.starts = 1..(N + 1)
         /\ Starts(file) = {file.starts[k] : k \in 1..N}
         /\ Starts(file) \subseteq Nat
<1>1. Compiled(file) /\ Encoded(file) /\ N \in Nat \ {0}
  BY FilesAssumption, ProgramsAssumption, BoundsAssumption
<1>2. Len(file.starts) = N + 1 /\ file.starts \in Seq(Nat)
  BY <1>1 DEF Encoded, Compiled
<1>3. DOMAIN file.starts = 1..(N + 1)
  BY <1>2
<1>4. Starts(file) = {file.starts[k] : k \in 1..N}
  <2>1. Len(file.starts) - 1 = N
    BY <1>1, <1>2
  <2>2. QED
    BY <2>1 DEF Starts
<1>5. \A k \in 1..N : file.starts[k] \in Nat
  BY <1>1, <1>2
<1>6. QED
  BY <1>1, <1>2, <1>3, <1>4, <1>5

\* The place of an instruction determines it.
LEMMA IndexOfStart ==
  ASSUME file \in Files, NEW k \in 1..(N + 1)
  PROVE  Index(file.starts[k]) = k - 1
<1>1. /\ Compiled(file) /\ N \in Nat \ {0}
      /\ Len(file.starts) = N + 1 /\ DOMAIN file.starts = 1..(N + 1)
  BY Placed
<1>2. file.starts \in Seq(Nat)
  BY <1>1 DEF Compiled
<1>3. \A j \in 1..(N + 1) : file.starts[j] \in Nat
  BY <1>1, <1>2
<1>4. ASSUME NEW j \in 1..(N + 1), file.starts[j] = file.starts[k] PROVE j = k
  <2>1. CASE j < k
    <3>1. file.starts[j] < file.starts[k]
      BY <1>1, <2>1, StartsIncrease
    <3>2. QED
      BY <3>1, <1>3, <1>4
  <2>2. CASE k < j
    <3>1. file.starts[k] < file.starts[j]
      BY <1>1, <2>2, StartsIncrease
    <3>2. QED
      BY <3>1, <1>3, <1>4
  <2>3. j \in Int /\ k \in Int
    BY <1>1
  <2>4. QED
    BY <2>1, <2>2, <2>3
<1>5. (CHOOSE j \in DOMAIN file.starts : file.starts[j] = file.starts[k]) = k
  BY <1>1, <1>4
<1>6. QED
  BY <1>5 DEF Index

Addr == 0..(N - 1)

\* Offsets where instructions start stand for the addresses of Analyzer.
LEMMA IndexOf ==
  ASSUME file \in Files, NEW o \in Starts(file)
  PROVE  /\ Index(o) \in Addr /\ Index(o) + 1 \in 1..N
         /\ file.starts[Index(o) + 1] = o
<1>1. N \in Nat \ {0} /\ Starts(file) = {file.starts[k] : k \in 1..N}
  BY Placed
<1>2. PICK k \in 1..N : o = file.starts[k]
  BY <1>1
<1>3. k \in 1..(N + 1) /\ k \in Int
  BY <1>1
<1>4. Index(o) = k - 1
  BY <1>2, <1>3, IndexOfStart
<1>5. k - 1 + 1 = k /\ k - 1 \in 0..(N - 1)
  BY <1>1
<1>6. QED
  BY <1>2, <1>4, <1>5 DEF Addr

\* They do so one to one.
LEMMA IndexInjective ==
  ASSUME file \in Files, NEW o \in Starts(file), NEW p \in Starts(file),
         Index(o) = Index(p)
  PROVE  o = p
<1>1. file.starts[Index(o) + 1] = o /\ file.starts[Index(p) + 1] = p
  BY IndexOf
<1>2. QED
  BY <1>1

\* The places in a set are those of the set.
Indices(S) == {Index(o) : o \in S}

\* An instruction is in a set when its address is among those of the set.
LEMMA IndexMember ==
  ASSUME file \in Files, NEW S \in SUBSET Starts(file), NEW o \in Starts(file)
  PROVE  Index(o) \in Indices(S) <=> o \in S
<1>1. ASSUME Index(o) \in Indices(S) PROVE o \in S
  <2>1. PICK p \in S : Index(p) = Index(o)
    BY <1>1 DEF Indices
  <2>2. p \in Starts(file)
    OBVIOUS
  <2>3. p = o
    BY <2>1, <2>2, IndexInjective
  <2>4. QED
    BY <2>3
<1>2. QED
  BY <1>1 DEF Indices

---------------------------------------------------------------------------
(***************************************************************************)
(* The instruction at an offset and the one of Analyzer.                   *)
(***************************************************************************)

\* The flags of the handlers, the place they visit, and the next one.
Leaves(d) == d.name \in {"JMP", "END", "FAIL"}
Controls(d) == Leaves(d) \/ d.name \in {"CJMP", "CALL", "CALLC"}
TargetOf(d) == IF d.name \in {"JMP", "CJMP", "CALL", "CLOSURE"} THEN {d.ints[1]} ELSE {}
NextOf(d) == IF Leaves(d) THEN {} ELSE {d.end}

\* What is decoded at an offset is what Analyzer has at its index.
LEMMA Abstracted ==
  ASSUME file \in Files, bf.code = file.code, NEW o \in Starts(file),
         NEW a, a = Index(o), NEW d, d = Decoded(bf, o)
  PROVE  /\ a \in Addr /\ a \in Nat
         /\ absCode[a].kind = Kind(d.name)
         /\ d.name \in {"JMP", "CJMP", "CALL", "CLOSURE"} =>
              /\ d.ints[1] \in Starts(file)
              /\ absCode[a].target = Index(d.ints[1])
         /\ d.name \notin {"JMP", "CJMP", "CALL", "CLOSURE"} => absCode[a].target = None
         /\ d.end = End(bf, o) /\ d.end = file.starts[a + 2] /\ Index(d.end) = a + 1
         /\ ~Leaves(d) => a + 1 \in Addr /\ d.end \in Starts(file)
         /\ a = N - 1 => Leaves(d)
<1>0. PICK k : k = a + 1
  OBVIOUS
<1> DEFINE i == file.program[k]
<1>1. /\ Compiled(file) /\ Encoded(file) /\ N \in Nat \ {0} /\ Len(file.starts) = N + 1
      /\ Starts(file) = {file.starts[j] : j \in 1..N}
  BY Placed
<1>2. a \in Addr /\ k \in 1..N /\ file.starts[k] = o
  BY <1>0, IndexOf
<1>3. a \in Nat /\ k \in Nat /\ k - 1 = a /\ k + 1 = a + 2 /\ k + 1 \in 1..(N + 1)
      /\ k \in 1..(Len(file.starts) - 1)
  BY <1>0, <1>1, <1>2 DEF Addr
<1> HIDE DEF i
<1>4. /\ d = Decoded(file, o) /\ End(bf, o) = file.starts[k + 1] /\ d.end = End(bf, o)
  <2>1. Decoded(bf, o) = Decoded(file, o)
    BY SameCode
  <2>2. Decoded(bf, o).end = End(bf, o)
    BY DEF Decoded
  <2>3. End(bf, o) = file.starts[k + 1]
    <3>1. PICK f, b : f = file /\ b = bf
      OBVIOUS
    <3>2. Compiled(f) /\ b.code = f.code
      BY <1>1, <3>1
    <3>3. k \in 1..(Len(f.starts) - 1) /\ f.starts[k] = o
      BY <1>2, <1>3, <3>1
    <3>4. End(b, o) = f.starts[k + 1]
      BY <3>2, <3>3, AtInstruction
    <3>5. QED
      BY <3>1, <3>4
  <2>4. QED
    BY <2>1, <2>2, <2>3
<1>5. /\ k = N => Leaves(d)
      /\ k # N => file.starts[k + 1] \in Starts(file)
      /\ d.name \in {"JMP", "CJMP", "CALL", "CLOSURE"} => d.ints[1] \in Starts(file)
  <2>1. Len(file.starts) - 1 = N
    BY <1>1
  <2>2. k = Len(file.starts) - 1 => Decoded(bf, o).name \in {"JMP", "END", "FAIL"}
    BY <1>1, <1>2, <1>3, AtInstruction
  <2>3. k # N => file.starts[k + 1] \in Starts(file)
    BY <1>1, <1>2, <1>3, <2>1, AtInstruction
  <2>4. d.name \in {"JMP", "CJMP", "CALL", "CLOSURE"} => d.ints[1] \in Starts(file)
    BY <1>1, <1>2, <1>3, AtInstruction
  <2>5. QED
    BY <2>1, <2>2, <2>3, <2>4 DEF Leaves
<1>6. Index(d.end) = a + 1
  <2>1. Index(file.starts[k + 1]) = k + 1 - 1
    BY <1>3, IndexOfStart
  <2>2. QED
    BY <2>1, <1>3, <1>4
<1>7. absCode[a] = Abstract(i)
  BY <1>0, <1>2 DEF absCode, Addr, i
<1>8. /\ FormatOf(i.opcode).name = d.name
      /\ IF d.name \in {"JMP", "CJMP", "CALL", "CLOSURE"}
           THEN i.target \in 1..N /\ d.ints[1] = file.starts[i.target]
           ELSE i.target = 0
  BY <1>1, <1>2, <1>4 DEF Encoded, i
<1>9. absCode[a].kind = Kind(d.name) /\ absCode[a].target = IF i.target = 0 THEN None ELSE i.target - 1
  BY <1>7, <1>8 DEF Abstract
<1>10. ASSUME d.name \in {"JMP", "CJMP", "CALL", "CLOSURE"}
       PROVE  absCode[a].target = Index(d.ints[1])
  <2>1. PICK t \in 1..N : t = i.target /\ d.ints[1] = file.starts[t]
    BY <1>8, <1>10
  <2>2. t \in 1..(N + 1) /\ t # 0
    BY <1>1
  <2>3. Index(d.ints[1]) = t - 1
    BY <2>1, <2>2, IndexOfStart
  <2>4. QED
    BY <2>1, <2>2, <2>3, <1>9
<1>11. d.name \notin {"JMP", "CJMP", "CALL", "CLOSURE"} => absCode[a].target = None
  BY <1>8, <1>9
<1>12. ~Leaves(d) => a + 1 \in Addr /\ d.end \in Starts(file)
  <2>1. HAVE ~Leaves(d)
  <2>2. k # N
    BY <1>5, <2>1
  <2>3. a + 1 \in Addr
    BY <1>0, <1>1, <1>2, <2>2 DEF Addr
  <2>4. QED
    BY <1>4, <1>5, <2>2, <2>3
<1>13. a = N - 1 => Leaves(d)
  BY <1>1, <1>2, <1>3, <1>5
<1>14. d.end = file.starts[a + 2]
  BY <1>3, <1>4
<1>15. QED
  BY <1>2, <1>3, <1>4, <1>5, <1>6, <1>9, <1>10, <1>11, <1>12, <1>13, <1>14
---------------------------------------------------------------------------
(***************************************************************************)
(* The two instances of Analyzer, the one of ByteAnalyzer and the one that *)
(* comes with the proofs, define the same.                                 *)
(***************************************************************************)
LEMMA SameCardinality ==
  ASSUME NEW S
  PROVE  A!Cardinality(S) = Cardinality(S) /\ AP!Cardinality(S) = Cardinality(S)
<1>1. A!Cardinality(S) = Cardinality(S)
  BY DEF A!Cardinality, Cardinality
<1>2. AP!Cardinality(S) = Cardinality(S)
  BY DEF AP!Cardinality, Cardinality
<1>3. QED
  BY <1>1, <1>2

\* The walk of the one instance is the walk of the other.
LEMMA SameWalk == (A!Init <=> AP!Init) /\ (A!Next <=> AP!Next) /\ A!vars = AP!vars
<1>1. A!Next <=> AP!Next
  BY DEF A!Next, A!Step, A!Top, A!Push, A!Popped, A!Target, A!Following, A!VisitedBefore,
    A!IsJmp, A!IsControl, A!Prev, A!Counted,
    AP!Next, AP!Step, AP!Top, AP!Push, AP!Popped, AP!Target, AP!Following, AP!VisitedBefore,
    AP!IsJmp, AP!IsControl, AP!Prev, AP!Counted
<1>2. A!Codes = AP!Codes /\ A!Addr = AP!Addr
  BY DEF A!Codes, A!Instruction, A!Addr, A!Closing, A!Targeted, A!Untargeted,
    AP!Codes, AP!Instruction, AP!Addr, AP!Closing, AP!Targeted, AP!Untargeted
<1>3. \A S : A!Orders(S) = AP!Orders(S)
  <2>1. TAKE S
  <2>2. A!Cardinality(S) = AP!Cardinality(S)
    BY SameCardinality
  <2>3. QED
    BY <2>2 DEF A!Orders, AP!Orders
<1>4. A!Init <=> AP!Init
  BY <1>2, <1>3 DEF A!Init, AP!Init
<1>5. A!vars = AP!vars
  BY DEF A!vars, AP!vars
<1>6. QED
  BY <1>1, <1>4, <1>5

---------------------------------------------------------------------------
(***************************************************************************)
(* The turn of the loop, operator by operator.                             *)
(***************************************************************************)

\* The sets that the handlers visit, and the flags, are those of Analyzer.
LEMMA SameFlow ==
  ASSUME file \in Files, bf.code = file.code, NEW o \in Starts(file),
         NEW a, a = Index(o), NEW d, d = Decoded(bf, o)
  PROVE  /\ Indices(TargetOf(d)) = AP!Target(a) /\ TargetOf(d) \subseteq Starts(file)
         /\ Indices(NextOf(d)) = AP!Following(a) /\ NextOf(d) \subseteq Starts(file)
         /\ AP!IsJmp(a) <=> Leaves(d)
         /\ AP!IsControl(a) <=> Controls(d)
<1>1. /\ absCode[a].kind = Kind(d.name)
      /\ d.name \in {"JMP", "CJMP", "CALL", "CLOSURE"} =>
           /\ d.ints[1] \in Starts(file)
           /\ absCode[a].target = Index(d.ints[1])
      /\ Index(d.end) = a + 1
      /\ ~Leaves(d) => d.end \in Starts(file)
  BY Abstracted
<1>2. PICK k : k = absCode[a].kind
  OBVIOUS
<1>3. /\ k \in {"JMP", "CJMP", "CALL", "CLOSURE"} <=>
           d.name \in {"JMP", "CJMP", "CALL", "CLOSURE"}
      /\ k \in {"JMP", "STOP"} <=> d.name \in {"JMP", "END", "FAIL"}
      /\ k \in {"JMP", "CJMP", "CALL", "CALLC", "STOP"} <=>
           d.name \in {"JMP", "END", "FAIL", "CJMP", "CALL", "CALLC"}
  BY <1>1, <1>2 DEF Kind
<1>4. AP!IsJmp(a) <=> Leaves(d)
  BY <1>2, <1>3 DEF AP!IsJmp, Leaves
<1>5. AP!IsControl(a) <=> Controls(d)
  BY <1>2, <1>3 DEF AP!IsControl, Controls, Leaves
<1>6. Indices(TargetOf(d)) = AP!Target(a) /\ TargetOf(d) \subseteq Starts(file)
  BY <1>1, <1>2, <1>3 DEF AP!Target, TargetOf, Indices
<1>7. Indices(NextOf(d)) = AP!Following(a) /\ NextOf(d) \subseteq Starts(file)
  BY <1>1, <1>4 DEF AP!Following, NextOf, Indices
<1>8. QED
  BY <1>4, <1>5, <1>6, <1>7

\* The stack of offsets, as a stack of addresses.
Mapped(s) == [i \in DOMAIN s |-> Index(s[i])]

\* visit() pushes on both.
LEMMA SamePush ==
  ASSUME file \in Files, NEW s \in Seq(Starts(file)), NEW S \in SUBSET Starts(file),
         \A x, y \in S : x = y, NEW seen \in SUBSET Starts(file)
  PROVE  /\ Push(s, S, seen) \in Seq(Starts(file))
         /\ Mapped(Push(s, S, seen)) = AP!Push(Mapped(s), Indices(S), Indices(seen))
<1>1. CASE S \subseteq seen
  <2>1. S \ seen = {}
    BY <1>1
  <2>2. SetToSeq({}) = << >>
    <3>1. Cardinality({}) = 0
      BY FS_EmptySet
    <3>2. \A f \in [1..0 -> {}] : f = << >>
      OBVIOUS
    <3>3. << >> \in [1..0 -> {}] /\ IsInjective(<< >>)
      BY DEF IsInjective
    <3>4. QED
      BY <3>1, <3>2, <3>3 DEF SetToSeq
  <2>3. Push(s, S, seen) = s
    <3>1. Push(s, S, seen) = s \o << >>
      BY <2>1, <2>2 DEF Push
    <3>2. QED
      BY <3>1, ConcatEmptySeq
  <2>4. Indices(S) \subseteq Indices(seen)
    BY <1>1 DEF Indices
  <2>5. QED
    BY <2>3, <2>4 DEF AP!Push
<1>2. CASE ~(S \subseteq seen)
  <2>1. PICK x \in S : x \notin seen
    BY <1>2
  <2>2. S = {x} /\ S \ seen = {x} /\ x \in Starts(file)
    BY <2>1
  <2>3. SetToSeq({x}) = <<x>>
    <3>1. Cardinality({x}) = 1
      BY FS_Singleton
    <3>2. \A f \in [1..1 -> {x}] : f = <<x>>
      OBVIOUS
    <3>3. <<x>> \in [1..1 -> {x}] /\ IsInjective(<<x>>)
      BY DEF IsInjective
    <3>4. QED
      BY <3>1, <3>2, <3>3 DEF SetToSeq
  <2>4. Push(s, S, seen) = s \o <<x>>
    BY <2>2, <2>3 DEF Push
  <2>5. s \o <<x>> = Append(s, x) /\ Append(s, x) \in Seq(Starts(file))
    BY <2>2
  <2>6. Indices(S) = {Index(x)}
    BY <2>2 DEF Indices
  <2>7. Index(x) \notin Indices(seen)
    BY <2>1, <2>2, IndexMember
  <2>8. ~(Indices(S) \subseteq Indices(seen)) /\ (CHOOSE y \in Indices(S) : TRUE) = Index(x)
    BY <2>6, <2>7
  <2>9. AP!Push(Mapped(s), Indices(S), Indices(seen)) = Append(Mapped(s), Index(x))
    BY <2>8 DEF AP!Push
  <2>10. Mapped(Append(s, x)) = Append(Mapped(s), Index(x))
    <3>1. /\ DOMAIN s = 1..Len(s) /\ Len(s) \in Nat
          /\ DOMAIN Append(s, x) = 1..(Len(s) + 1)
          /\ \A i \in 1..Len(s) : Append(s, x)[i] = s[i]
          /\ Append(s, x)[Len(s) + 1] = x
      BY <2>2
    <3>2. PICK m : m = Mapped(s)
      OBVIOUS
    <3>3. /\ m = [i \in 1..Len(s) |-> Index(s[i])] /\ Len(m) = Len(s)
          /\ m \in Seq({Index(o) : o \in Starts(file)})
      BY <3>1, <3>2 DEF Mapped
    <3>4. PICK y : y = Index(x)
      OBVIOUS
    <3>5. /\ Append(m, y) = [i \in 1..(Len(m) + 1) |-> IF i = Len(m) + 1 THEN y ELSE m[i]]
      BY <3>3, <2>2, <3>4
    <3>6. Mapped(Append(s, x)) = [i \in 1..(Len(s) + 1) |-> IF i = Len(s) + 1 THEN y ELSE m[i]]
      BY <3>1, <3>3, <3>4 DEF Mapped
    <3>7. QED
      BY <3>2, <3>3, <3>4, <3>5, <3>6
  <2>11. QED
    BY <2>4, <2>5, <2>9, <2>10
<1>3. QED
  BY <1>1, <1>2

---------------------------------------------------------------------------
(***************************************************************************)
(* What is recorded.                                                       *)
(***************************************************************************)
Entries == [begin : Nat, length : Int]
Hits(r, x) == {i \in DOMAIN r : r[i] = x}

\* An entry occurs a finite number of times.
LEMMA HitsFinite ==
  ASSUME NEW r \in Seq(Entries), NEW x
  PROVE  IsFiniteSet(Hits(r, x)) /\ Cardinality(Hits(r, x)) \in Nat
<1>1. IsFiniteSet(1..Len(r)) /\ DOMAIN r = 1..Len(r)
  BY FS_Interval
<1>2. Hits(r, x) \subseteq 1..Len(r)
  BY <1>1 DEF Hits
<1>3. IsFiniteSet(Hits(r, x))
  BY <1>1, <1>2, FS_Subset
<1>4. QED
  BY <1>3, FS_CardinalityType

\* One more entry is one more hit for what it is.
LEMMA HitsAppend ==
  ASSUME NEW r \in Seq(Entries), NEW y \in Entries, NEW x
  PROVE  Cardinality(Hits(Append(r, y), x)) =
           Cardinality(Hits(r, x)) + (IF x = y THEN 1 ELSE 0)
<1> DEFINE n == Len(r) + 1
<1>1. /\ n \in Nat /\ DOMAIN r = 1..(n - 1) /\ DOMAIN Append(r, y) = 1..n
      /\ Append(r, y)[n] = y /\ \A i \in 1..(n - 1) : Append(r, y)[i] = r[i]
      /\ n \notin Hits(r, x) /\ n >= 1
  BY DEF Hits
<1>2. IsFiniteSet(Hits(r, x)) /\ Cardinality(Hits(r, x)) \in Nat
  BY HitsFinite
<1> HIDE DEF n
<1>3. CASE x = y
  <2>1. Hits(Append(r, y), x) = Hits(r, x) \cup {n}
    BY <1>1, <1>3 DEF Hits
  <2>2. QED
    BY <1>1, <1>2, <1>3, <2>1, FS_AddElement
<1>4. CASE x # y
  <2>1. Hits(Append(r, y), x) = Hits(r, x)
    BY <1>1, <1>4 DEF Hits
  <2>2. QED
    BY <1>2, <1>4, <2>1
<1>5. QED
  BY <1>3, <1>4

\* An entry tells where it begins and where it ends.
LEMMA SequenceTyped ==
  ASSUME NEW b \in Nat, NEW e \in Nat, NEW c \in Nat, NEW f \in Nat
  PROVE  /\ Sequence(b, e) \in Entries
         /\ Sequence(b, e).begin = b /\ Sequence(b, e).begin + Sequence(b, e).length = e
         /\ Sequence(b, e) = Sequence(c, f) <=> b = c /\ e = f
<1>1. /\ Sequence(b, e).begin = b /\ Sequence(b, e).length = e - b
      /\ Sequence(c, f).begin = c /\ Sequence(c, f).length = f - c
      /\ Sequence(b, e) \in Entries
  BY DEF Sequence, Entries
<1>2. ASSUME Sequence(b, e) = Sequence(c, f) PROVE b = c /\ e = f
  BY <1>1, <1>2
<1>3. QED
  BY <1>1, <1>2

\* The instructions from x to before y, as an entry.
Span(x, y) == Sequence(file.starts[x + 1], file.starts[y + 1])

\* Different stretches of instructions are different entries.
LEMMA SpanInjective ==
  ASSUME file \in Files, NEW x \in 0..N, NEW y \in 0..N, NEW v \in 0..N, NEW w \in 0..N
  PROVE  /\ Span(x, y) \in Entries
         /\ Span(x, y) = Span(v, w) <=> x = v /\ y = w
<1>1. /\ Compiled(file) /\ N \in Nat \ {0} /\ DOMAIN file.starts = 1..(N + 1)
      /\ Len(file.starts) = N + 1
  BY Placed
<1>2. \A k \in 1..(N + 1) : file.starts[k] \in Nat
  <2>1. file.starts \in Seq(Nat)
    BY <1>1 DEF Compiled
  <2>2. QED
    BY <1>1, <2>1
<1>3. /\ x + 1 \in 1..(N + 1) /\ y + 1 \in 1..(N + 1)
      /\ v + 1 \in 1..(N + 1) /\ w + 1 \in 1..(N + 1)
  BY <1>1
<1>4. /\ file.starts[x + 1] \in Nat /\ file.starts[y + 1] \in Nat
      /\ file.starts[v + 1] \in Nat /\ file.starts[w + 1] \in Nat
  BY <1>2, <1>3
<1>5. ASSUME NEW j \in 0..N, NEW k \in 0..N, file.starts[j + 1] = file.starts[k + 1]
      PROVE  j = k
  <2>1. j + 1 \in 1..(N + 1) /\ k + 1 \in 1..(N + 1)
    BY <1>1
  <2>2. Index(file.starts[j + 1]) = j + 1 - 1 /\ Index(file.starts[k + 1]) = k + 1 - 1
    BY <2>1, IndexOfStart
  <2>3. QED
    BY <1>1, <1>5, <2>2
<1>6. /\ Span(x, y) \in Entries
      /\ Span(x, y) = Span(v, w) <=> /\ file.starts[x + 1] = file.starts[v + 1]
                                     /\ file.starts[y + 1] = file.starts[w + 1]
  <2>1. Span(x, y) \in Entries
    BY <1>4, SequenceTyped DEF Span
  <2>2. PICK b \in Nat, e \in Nat, c \in Nat, f \in Nat :
          /\ b = file.starts[x + 1] /\ e = file.starts[y + 1]
          /\ c = file.starts[v + 1] /\ f = file.starts[w + 1]
    BY <1>4
  <2>3. Span(x, y) = Sequence(b, e) /\ Span(v, w) = Sequence(c, f)
    BY <2>2 DEF Span
  <2>4. Sequence(b, e) = Sequence(c, f) <=> b = c /\ e = f
    BY SequenceTyped
  <2>5. QED
    BY <2>1, <2>2, <2>3, <2>4
<1>7. QED
  BY <1>5, <1>6

\* The counts that Analyzer sees are numbers of hits.
LEMMA TimesSpan == \A x, y : Times(x, y) = Cardinality(Hits(recorded, Span(x, y)))
BY DEF Times, Hits, Span

---------------------------------------------------------------------------
(***************************************************************************)
(* The invariant: the file is the one loaded, the walk is at instructions, *)
(* and what was recorded is one instruction or two that follow.            *)
(***************************************************************************)
Loaded ==
  /\ file \in Files
  /\ bf.code = file.code /\ bf.code_size = Len(file.code)
  /\ bf.stringtab_size = file.stringtab_size

Offsets ==
  /\ next \in Seq(Starts(file))
  /\ visited \subseteq Starts(file)
  /\ prev \in Starts(file) \cup {NullPtr}

IInv == Loaded /\ Offsets /\ recorded \in Seq(Entries) /\ PrintsWhole

\* What the walk of Analyzer keeps.
AbsInv == AP!IInv /\ AP!CountsExact

\* The public symbols are instructions.
LEMMA PublicsPlaced ==
  ASSUME file \in Files
  PROVE  entrypoints \subseteq Starts(file) /\ entrypoints # {} /\ IsFiniteSet(entrypoints)
<1>1. Compiled(file)
  BY Placed
<1>2. PICK T : T = [name : 0..file.stringtab_size, offset : Starts(file), isMain : BOOLEAN]
  OBVIOUS
<1>3. file.publics \in Seq(T) /\ \E i \in DOMAIN file.publics : TRUE
  BY <1>1, <1>2 DEF Compiled
<1>4. DOMAIN file.publics = 1..Len(file.publics) /\ Len(file.publics) \in Nat
      /\ \A i \in DOMAIN file.publics : file.publics[i] \in T
  BY <1>3
<1>5. \A i \in DOMAIN file.publics : file.publics[i].offset \in Starts(file)
  BY <1>2, <1>4
<1>6. IsFiniteSet(entrypoints)
  <2>1. Starts(file) \subseteq 0..(Len(file.code) - 1) /\ Len(file.code) \in Nat
    BY <1>1, Measures
  <2>2. IsFiniteSet(0..(Len(file.code) - 1))
    BY <2>1, FS_Interval
  <2>3. entrypoints \subseteq 0..(Len(file.code) - 1)
    BY <1>5, <2>1 DEF entrypoints
  <2>4. QED
    BY <2>2, <2>3, FS_Subset
<1>7. QED
  BY <1>3, <1>5, <1>6 DEF entrypoints

\* Where the walk is, in the file and for Analyzer.
LEMMA AtTop ==
  ASSUME IInv, next # << >>
  PROVE  /\ file \in Files /\ bf.code = file.code
         /\ ip \in Starts(file) /\ ip \in Nat
         /\ absNext # << >> /\ AP!Top = Index(ip)
         /\ Front(next) \in Seq(Starts(file)) /\ Mapped(Front(next)) = AP!Popped
<1>1. /\ file \in Files /\ bf.code = file.code /\ next \in Seq(Starts(file))
  BY DEF IInv, Loaded, Offsets
<1>2. PICK n : n = Len(next)
  OBVIOUS
<1>3. n \in Nat \ {0} /\ DOMAIN next = 1..n
  BY <1>1, <1>2, EmptySeq
<1>4. ip \in Starts(file)
  <2>1. ip = next[n]
    BY <1>2 DEF ip
  <2>2. n \in 1..n
    BY <1>3
  <2>3. QED
    BY <1>1, <1>2, <2>1, <2>2, ElementOfSeq
<1>5. ip \in Nat
  BY <1>1, <1>4, Placed
<1>6. PICK m : m = absNext
  OBVIOUS
<1>7. m = [i \in 1..n |-> Index(next[i])]
  BY <1>3, <1>6 DEF absNext
<1>8. Len(m) = n /\ m # << >> /\ m[Len(m)] = Index(ip)
  <2>1. Len(m) = n
    BY <1>3, <1>7
  <2>2. n \in 1..n
    BY <1>3
  <2>3. m[n] = Index(next[n])
    BY <1>7, <2>2
  <2>4. m # << >>
    BY <1>3, <2>1
  <2>5. QED
    BY <2>1, <2>3, <2>4, <1>2 DEF ip
<1>9. AP!Top = Index(ip) /\ absNext # << >>
  BY <1>6, <1>8 DEF AP!Top
<1>10. PICK k : k = n - 1 /\ k \in Nat
  BY <1>3
<1>11. Front(next) = SubSeq(next, 1, k) /\ AP!Popped = SubSeq(m, 1, k)
  BY <1>2, <1>6, <1>8, <1>10 DEF Front, AP!Popped
<1>12. /\ SubSeq(next, 1, k) = [i \in 1..k |-> next[i]]
       /\ SubSeq(m, 1, k) = [i \in 1..k |-> m[i]]
  BY <1>10
<1>13. Front(next) \in Seq(Starts(file))
  <2>1. \A i \in 1..k : next[i] \in Starts(file)
    BY <1>1, <1>2, <1>3, <1>10, ElementOfSeq
  <2>2. QED
    BY <1>10, <1>11, <1>12, <2>1
<1>14. Mapped(Front(next)) = AP!Popped
  <2>1. \A i \in 1..k : m[i] = Index(next[i])
    BY <1>3, <1>7, <1>10
  <2>2. Mapped([i \in 1..k |-> next[i]]) = [i \in 1..k |-> Index(next[i])]
    BY DEF Mapped
  <2>3. QED
    BY <1>11, <1>12, <2>1, <2>2
<1>15. QED
  BY <1>1, <1>4, <1>5, <1>9, <1>13, <1>14

---------------------------------------------------------------------------
(***************************************************************************)
(* A turn of the loop.                                                     *)
(***************************************************************************)

\* The turn, with the instruction d at o that it processes.
LEMMA Turn ==
  ASSUME Step, NEW o, o = ip, NEW d, d = Decoded(bf, o)
  PROVE  /\ next # << >> /\ Decodable(bf, o)
         /\ next' = Push(Push(Front(next), TargetOf(d), visited),
                         NextOf(d), visited \cup TargetOf(d))
         /\ visited' = (visited \cup TargetOf(d)) \cup NextOf(d)
         /\ prev' = IF Controls(d) \/ d.end \in visited \cup TargetOf(d) THEN NullPtr ELSE o
         /\ recorded' = recorded \o (<<Sequence(o, d.end)>>
                           \o IF prev # NullPtr /\ o \notin entrypoints
                                THEN <<Sequence(prev, d.end)>> ELSE << >>)
         /\ file' = file /\ bf' = bf
<1>1. /\ Current = d
      /\ IsJmp <=> Leaves(d)
      /\ IsControl <=> Controls(d)
      /\ Target = TargetOf(d)
  BY DEF Current, IsJmp, IsControl, Target, Leaves, Controls, TargetOf
<1>2. (IF IsJmp THEN {} ELSE {Current.end}) = NextOf(d)
  BY <1>1 DEF NextOf
<1>3. /\ next # << >> /\ Decodable(bf, o)
      /\ next' = Push(Push(Front(next), Target, visited), NextOf(d), visited \cup Target)
      /\ visited' = visited \cup Target \cup NextOf(d)
      /\ prev' = Prev
      /\ recorded' = recorded \o (<<Sequence(ip, Current.end)>>
                        \o IF prev # NullPtr /\ ip \notin entrypoints
                             THEN <<Sequence(prev, Current.end)>> ELSE << >>)
      /\ file' = file /\ bf' = bf
  BY <1>2, Zenon DEF Step, record
<1>4. Prev = IF Controls(d) \/ d.end \in visited \cup TargetOf(d) THEN NullPtr ELSE o
  BY <1>1 DEF Prev
<1>5. QED
  BY <1>1, <1>3, <1>4

\* Both stacks change alike.
LEMMA SameStack ==
  ASSUME IInv, Step, NEW a, a = AP!Top
  PROVE  /\ next' \in Seq(Starts(file)) /\ visited' \subseteq Starts(file)
         /\ absNext' = AP!Push(AP!Push(AP!Popped, AP!Target(a), absVisited),
                               AP!Following(a), AP!VisitedBefore(a))
         /\ absVisited' = AP!VisitedBefore(a) \cup AP!Following(a)
<1>1. PICK o, d : o = ip /\ d = Decoded(bf, o)
  OBVIOUS
<1>2. /\ next # << >>
      /\ next' = Push(Push(Front(next), TargetOf(d), visited),
                      NextOf(d), visited \cup TargetOf(d))
      /\ visited' = (visited \cup TargetOf(d)) \cup NextOf(d)
      /\ file' = file
  BY <1>1, Turn
<1>3. /\ file \in Files /\ bf.code = file.code /\ o \in Starts(file) /\ a = Index(o)
      /\ Front(next) \in Seq(Starts(file)) /\ Mapped(Front(next)) = AP!Popped
      /\ visited \subseteq Starts(file)
  BY <1>1, <1>2, AtTop DEF IInv, Offsets
<1>4. /\ Indices(TargetOf(d)) = AP!Target(a) /\ TargetOf(d) \subseteq Starts(file)
      /\ Indices(NextOf(d)) = AP!Following(a) /\ NextOf(d) \subseteq Starts(file)
  BY <1>1, <1>3, SameFlow
<1>5. /\ \A x, y \in TargetOf(d) : x = y
      /\ \A x, y \in NextOf(d) : x = y
  BY DEF TargetOf, NextOf
<1> DEFINE T == TargetOf(d)
           F == NextOf(d)
           mid == Push(Front(next), T, visited)
           seen == visited \cup T
<1>6. /\ Indices(visited) = absVisited
      /\ Indices(seen) = AP!VisitedBefore(a)
      /\ Indices(seen \cup F) = AP!VisitedBefore(a) \cup AP!Following(a)
  <2>1. Indices(visited) = absVisited
    BY DEF Indices, absVisited
  <2>2. Indices(seen) = Indices(visited) \cup Indices(T)
    BY DEF Indices
  <2>3. Indices(seen \cup F) = Indices(seen) \cup Indices(F)
    BY DEF Indices
  <2>4. QED
    BY <2>1, <2>2, <2>3, <1>4 DEF AP!VisitedBefore
<1>7. /\ mid \in Seq(Starts(file))
      /\ Mapped(mid) = AP!Push(AP!Popped, AP!Target(a), absVisited)
  <2>1. T \in SUBSET Starts(file) /\ visited \in SUBSET Starts(file) /\ \A x, y \in T : x = y
    BY <1>3, <1>4, <1>5
  <2> HIDE DEF T
  <2>2. /\ mid \in Seq(Starts(file))
        /\ Mapped(mid) = AP!Push(Mapped(Front(next)), Indices(T), Indices(visited))
    BY <2>1, <1>3, SamePush
  <2>3. Indices(T) = AP!Target(a)
    BY <1>4 DEF T
  <2>4. QED
    BY <2>2, <2>3, <1>3, <1>6
<1>8. /\ next' \in Seq(Starts(file))
      /\ Mapped(next') = AP!Push(Mapped(mid), AP!Following(a), AP!VisitedBefore(a))
  <2>1. /\ F \in SUBSET Starts(file) /\ seen \in SUBSET Starts(file)
        /\ \A x, y \in F : x = y
        /\ next' = Push(mid, F, seen)
    BY <1>2, <1>3, <1>4, <1>5
  <2>2. Indices(F) = AP!Following(a)
    BY <1>4
  <2> HIDE DEF F, seen, mid
  <2>3. /\ Push(mid, F, seen) \in Seq(Starts(file))
        /\ Mapped(Push(mid, F, seen)) = AP!Push(Mapped(mid), Indices(F), Indices(seen))
    BY <2>1, <1>3, <1>7, SamePush
  <2>4. QED
    BY <2>1, <2>2, <2>3, <1>6
<1>9. absNext' = Mapped(next') /\ absVisited' = Indices(visited')
  BY <1>2 DEF absNext, absVisited, Mapped, Indices, Index
<1>10. visited' = seen \cup F /\ visited' \subseteq Starts(file)
  BY <1>2, <1>3, <1>4
<1>11. QED
  BY <1>6, <1>7, <1>8, <1>9, <1>10

\* So do the flags and what a pair may start with.
LEMMA SamePrev ==
  ASSUME IInv, Step, NEW a, a = AP!Top
  PROVE  prev' \in Starts(file) \cup {NullPtr} /\ absPrev' = AP!Prev(a)
<1>1. PICK o, d : o = ip /\ d = Decoded(bf, o)
  OBVIOUS
<1>2. /\ next # << >> /\ file' = file
      /\ prev' = IF Controls(d) \/ d.end \in visited \cup TargetOf(d) THEN NullPtr ELSE o
  BY <1>1, Turn
<1>3. /\ file \in Files /\ bf.code = file.code /\ o \in Starts(file) /\ o \in Nat
      /\ a = Index(o) /\ visited \subseteq Starts(file)
  BY <1>1, <1>2, AtTop DEF IInv, Offsets
<1>4. /\ Indices(TargetOf(d)) = AP!Target(a) /\ TargetOf(d) \subseteq Starts(file)
      /\ AP!IsControl(a) <=> Controls(d)
  BY <1>1, <1>3, SameFlow
<1>5. Index(d.end) = a + 1 /\ (~Leaves(d) => d.end \in Starts(file))
  BY <1>1, <1>3, Abstracted
<1>6. Indices(visited \cup TargetOf(d)) = AP!VisitedBefore(a)
  <2>1. Indices(visited \cup TargetOf(d)) = Indices(visited) \cup Indices(TargetOf(d))
    BY DEF Indices
  <2>2. Indices(visited) = absVisited
    BY DEF Indices, absVisited
  <2>3. QED
    BY <2>1, <2>2, <1>4 DEF AP!VisitedBefore
<1>7. ~Controls(d) => (d.end \in visited \cup TargetOf(d) <=> a + 1 \in AP!VisitedBefore(a))
  <2>1. HAVE ~Controls(d)
  <2>2. d.end \in Starts(file)
    BY <2>1, <1>5 DEF Controls
  <2>3. PICK S \in SUBSET Starts(file) : S = visited \cup TargetOf(d)
    BY <1>3, <1>4
  <2>4. Index(d.end) \in Indices(S) <=> d.end \in S
    BY <1>3, <2>2, IndexMember
  <2>5. QED
    BY <2>3, <2>4, <1>5, <1>6
<1>8. prev' = IF AP!IsControl(a) \/ a + 1 \in AP!VisitedBefore(a) THEN NullPtr ELSE o
  BY <1>2, <1>4, <1>7
<1>9. o # NullPtr
  BY <1>3 DEF NullPtr
<1>10. absPrev' = IF prev' = NullPtr THEN None ELSE Index(prev')
  BY <1>2 DEF absPrev, Index
<1>11. QED
  BY <1>3, <1>8, <1>9, <1>10 DEF AP!Prev

\* A pending prev is the instruction before the one on top.
LEMMA PrevBefore ==
  ASSUME IInv, AbsInv, next # << >>, prev # NullPtr, NEW a, a = AP!Top
  PROVE  /\ absPrev = Index(prev) /\ absPrev \in Addr /\ absPrev # None
         /\ a = absPrev + 1 /\ absPaired[absPrev] = 0
<1>1. /\ file \in Files /\ prev \in Starts(file)
  BY DEF IInv, Loaded, Offsets
<1>2. absPrev = Index(prev) /\ Index(prev) \in Addr
  BY <1>1, IndexOf DEF absPrev
<1>3. absPrev # None
  BY <1>2, BoundsAssumption DEF Addr
<1>4. AP!Top = absPrev + 1 /\ absPaired[absPrev] = 0
  BY <1>3 DEF AbsInv, AP!IInv, AP!PrevPending
<1>5. QED
  BY <1>2, <1>3, <1>4

\* What the turn adds to the history, in the addresses of Analyzer.
LEMMA Entered ==
  ASSUME IInv, AbsInv, Step, NEW a, a = AP!Top
  PROVE  /\ a \in Addr
         /\ recorded' = recorded \o
              (<<Span(a, a + 1)>> \o IF absPrev # None /\ a \notin absEntrypoints
                                      THEN <<Span(absPrev, absPrev + 2)>> ELSE << >>)
         /\ absPrev # None => /\ absPrev \in Addr /\ absPrev + 1 = a
                              /\ absPaired[absPrev] = 0
<1>1. PICK o, d : o = ip /\ d = Decoded(bf, o)
  OBVIOUS
<1>2. /\ next # << >>
      /\ recorded' = recorded \o (<<Sequence(o, d.end)>>
                        \o IF prev # NullPtr /\ o \notin entrypoints
                             THEN <<Sequence(prev, d.end)>> ELSE << >>)
  BY <1>1, Turn
<1>3. /\ file \in Files /\ bf.code = file.code /\ o \in Starts(file) /\ a = Index(o)
  BY <1>1, <1>2, AtTop
<1>4. a \in Addr /\ a \in Nat /\ file.starts[a + 1] = o
  BY <1>3, IndexOf, BoundsAssumption DEF Addr
<1>5. d.end = file.starts[a + 2]
  BY <1>1, <1>3, Abstracted
<1>6. a \in absEntrypoints <=> o \in entrypoints
  <2>1. entrypoints \in SUBSET Starts(file)
    BY <1>3, PublicsPlaced
  <2>2. Index(o) \in Indices(entrypoints) <=> o \in entrypoints
    BY <1>3, <2>1, IndexMember
  <2>3. absEntrypoints = Indices(entrypoints)
    BY DEF absEntrypoints, Indices
  <2>4. QED
    BY <2>2, <2>3, <1>3
<1>7. CASE prev = NullPtr
  <2>1. absPrev = None
    BY <1>7 DEF absPrev
  <2>2. Span(a, a + 1) = Sequence(o, d.end)
    BY <1>4, <1>5 DEF Span
  <2>3. QED
    BY <1>2, <1>4, <1>7, <2>1, <2>2
<1>8. CASE prev # NullPtr
  <2>1. /\ absPrev = Index(prev) /\ absPrev \in Addr /\ absPrev # None
        /\ a = absPrev + 1 /\ absPaired[absPrev] = 0
    BY <1>2, <1>8, PrevBefore
  <2>2. prev \in Starts(file)
    BY <1>8 DEF IInv, Offsets
  <2>3. file.starts[absPrev + 1] = prev
    BY <1>3, <2>1, <2>2, IndexOf
  <2>4. absPrev \in Int /\ absPrev + 2 + 1 = a + 2 /\ a + 1 + 1 = a + 2
    BY <2>1, <1>4, BoundsAssumption DEF Addr
  <2>5. Span(a, a + 1) = Sequence(o, d.end) /\ Span(absPrev, absPrev + 2) = Sequence(prev, d.end)
    BY <1>4, <1>5, <2>3, <2>4 DEF Span
  <2>6. QED
    BY <1>2, <1>4, <1>6, <1>8, <2>1, <2>5
<1>9. QED
  BY <1>7, <1>8

\* A place is counted twice at most, which is below the bound of the counters.
LEMMA CountedTwice ==
  ASSUME AbsInv, NEW x \in Addr
  PROVE  absCounted[x] \in Nat /\ absCounted[x] <= 2
<1>1. /\ absCounted[x] + AP!OnStack(x) = AP!One(x \in absEntrypoints) + AP!One(x \in absVisited)
      /\ absCounted[x] \in 0..MaxCount /\ absNext \in Seq(AP!Addr)
  BY DEF AbsInv, AP!CountsExact, AP!IInv, AP!TypeOK, AP!Addr, Addr
<1>2. AP!OnStack(x) \in Nat
  <2>1. AP!Times(absNext, x) \in Nat
    BY <1>1, AP!WhereFinite, BoundsAssumption
  <2>2. AP!OnStack(x) = AP!Times(absNext, x)
    BY DEF AP!OnStack, AP!Times, AP!Where
  <2>3. QED
    BY <2>1, <2>2
<1>3. /\ AP!One(x \in absEntrypoints) \in 0..1 /\ AP!One(x \in absVisited) \in 0..1
  BY DEF AP!One
<1>4. MaxCount \in Nat
  BY BoundsAssumption
<1>5. QED
  BY <1>1, <1>2, <1>3, <1>4

\* The history has one hit more for the instruction on top, and one for the
\* pair that it ends.
LEMMA NewHits ==
  ASSUME IInv, AbsInv, Step, NEW a, a = AP!Top, NEW x \in Addr
  PROVE  /\ recorded' \in Seq(Entries)
         /\ Times(x, x + 1)' = Times(x, x + 1) + (IF x = a THEN 1 ELSE 0)
         /\ x # N - 1 =>
              Times(x, x + 2)' = Times(x, x + 2) +
                (IF absPrev # None /\ a \notin absEntrypoints /\ x = absPrev THEN 1 ELSE 0)
<1> DEFINE pairs == absPrev # None /\ a \notin absEntrypoints
<1>1. /\ file \in Files /\ recorded \in Seq(Entries) /\ N \in Nat \ {0}
  BY BoundsAssumption DEF IInv, Loaded
<1>2. /\ a \in Addr
      /\ recorded' = recorded \o (<<Span(a, a + 1)>> \o
                       IF pairs THEN <<Span(absPrev, absPrev + 2)>> ELSE << >>)
      /\ absPrev # None => absPrev \in Addr /\ absPrev + 1 = a
  BY Entered
<1>3. file' = file
  BY DEF Step
<1>4. PICK y : y = Span(a, a + 1)
  OBVIOUS
<1>5. PICK z : z = Span(absPrev, absPrev + 2)
  OBVIOUS
<1>6. PICK r : r = recorded
  OBVIOUS
<1>7. /\ a \in 0..N /\ a + 1 \in 0..N /\ x \in 0..N /\ x + 1 \in 0..N
      /\ a \in Int /\ x \in Int
      /\ x # N - 1 => x + 2 \in 0..N
      /\ pairs => /\ absPrev \in 0..N /\ absPrev + 2 \in 0..N /\ absPrev \in Int
  BY <1>1, <1>2 DEF Addr
<1> HIDE DEF pairs
<1>8. y \in Entries /\ (pairs => z \in Entries)
  BY <1>1, <1>4, <1>5, <1>7, SpanInjective
<1>9. /\ Span(x, x + 1) = y <=> x = a
      /\ x # N - 1 => Span(x, x + 2) # y
      /\ pairs => Span(x, x + 1) # z
      /\ pairs /\ x # N - 1 => (Span(x, x + 2) = z <=> x = absPrev)
  <2>1. Span(x, x + 1) = Span(a, a + 1) <=> x = a /\ x + 1 = a + 1
    BY <1>1, <1>7, SpanInjective
  <2>2. x # N - 1 => (Span(x, x + 2) = Span(a, a + 1) <=> x = a /\ x + 2 = a + 1)
    BY <1>1, <1>7, SpanInjective
  <2>3. pairs => (Span(x, x + 1) = Span(absPrev, absPrev + 2)
                    <=> x = absPrev /\ x + 1 = absPrev + 2)
    BY <1>1, <1>7, SpanInjective
  <2>4. pairs /\ x # N - 1 => (Span(x, x + 2) = Span(absPrev, absPrev + 2)
                                 <=> x = absPrev /\ x + 2 = absPrev + 2)
    BY <1>1, <1>7, SpanInjective
  <2>5. /\ ~(x = a /\ x + 2 = a + 1)
        /\ pairs => ~(x = absPrev /\ x + 1 = absPrev + 2)
    BY <1>7
  <2>6. QED
    BY <2>1, <2>2, <2>3, <2>4, <2>5, <1>4, <1>5
<1>10. Append(r, y) \in Seq(Entries)
  BY <1>1, <1>6, <1>8
<1>11. /\ Times(x, x + 1)' = Cardinality(Hits(recorded', Span(x, x + 1)))
       /\ Times(x, x + 2)' = Cardinality(Hits(recorded', Span(x, x + 2)))
       /\ Times(x, x + 1) = Cardinality(Hits(r, Span(x, x + 1)))
       /\ Times(x, x + 2) = Cardinality(Hits(r, Span(x, x + 2)))
  <2>1. /\ Times(x, x + 1) = Cardinality(Hits(r, Span(x, x + 1)))
        /\ Times(x, x + 2) = Cardinality(Hits(r, Span(x, x + 2)))
    BY <1>6, TimesSpan
  <2>2. /\ Times(x, x + 1)' = Cardinality(Hits(recorded', Span(x, x + 1)))
        /\ Times(x, x + 2)' = Cardinality(Hits(recorded', Span(x, x + 2)))
    BY <1>3 DEF Times, Hits, Span, Sequence
  <2>3. QED
    BY <2>1, <2>2
<1>12. /\ Cardinality(Hits(Append(r, y), Span(x, x + 1))) =
            Cardinality(Hits(r, Span(x, x + 1))) + (IF Span(x, x + 1) = y THEN 1 ELSE 0)
       /\ Cardinality(Hits(Append(r, y), Span(x, x + 2))) =
            Cardinality(Hits(r, Span(x, x + 2))) + (IF Span(x, x + 2) = y THEN 1 ELSE 0)
  BY <1>1, <1>6, <1>8, HitsAppend
<1>13. /\ Cardinality(Hits(r, Span(x, x + 1))) \in Nat
       /\ Cardinality(Hits(r, Span(x, x + 2))) \in Nat
  BY <1>1, <1>6, HitsFinite
<1>14. CASE pairs
  <2>1. recorded' = Append(Append(r, y), z)
    <3>1. recorded' = r \o (<<y>> \o <<z>>)
      BY <1>2, <1>4, <1>5, <1>6, <1>14 DEF pairs
    <3>2. r \o (<<y>> \o <<z>>) = Append(Append(r, y), z)
      BY <1>1, <1>6, <1>8, <1>14
    <3>3. QED
      BY <3>1, <3>2
  <2>2. recorded' \in Seq(Entries)
    BY <2>1, <1>8, <1>10, <1>14
  <2>3. /\ Cardinality(Hits(recorded', Span(x, x + 1))) =
             Cardinality(Hits(Append(r, y), Span(x, x + 1)))
               + (IF Span(x, x + 1) = z THEN 1 ELSE 0)
        /\ Cardinality(Hits(recorded', Span(x, x + 2))) =
             Cardinality(Hits(Append(r, y), Span(x, x + 2)))
               + (IF Span(x, x + 2) = z THEN 1 ELSE 0)
    <3>1. PICK q : q = Append(r, y)
      OBVIOUS
    <3>2. q \in Seq(Entries) /\ z \in Entries /\ recorded' = Append(q, z)
      BY <2>1, <1>8, <1>10, <1>14, <3>1
    <3>3. Cardinality(Hits(Append(q, z), Span(x, x + 1))) =
            Cardinality(Hits(q, Span(x, x + 1))) + (IF Span(x, x + 1) = z THEN 1 ELSE 0)
      BY <3>2, HitsAppend
    <3>4. Cardinality(Hits(Append(q, z), Span(x, x + 2))) =
            Cardinality(Hits(q, Span(x, x + 2))) + (IF Span(x, x + 2) = z THEN 1 ELSE 0)
      BY <3>2, HitsAppend
    <3>5. QED
      BY <3>1, <3>2, <3>3, <3>4
  <2>4. PICK c1 \in Nat, c2 \in Nat : /\ c1 = Cardinality(Hits(r, Span(x, x + 1)))
                                    /\ c2 = Cardinality(Hits(r, Span(x, x + 2)))
    BY <1>13
  <2>5. Times(x, x + 1)' = Times(x, x + 1) + (IF x = a THEN 1 ELSE 0)
    <3>1. Cardinality(Hits(Append(r, y), Span(x, x + 1))) = c1 + (IF x = a THEN 1 ELSE 0)
      BY <2>4, <1>9, <1>12
    <3>2. Span(x, x + 1) # z
      BY <1>9, <1>14
    <3>3. Cardinality(Hits(recorded', Span(x, x + 1))) = c1 + (IF x = a THEN 1 ELSE 0)
      BY <3>1, <3>2, <2>3, <2>4
    <3>4. QED
      BY <3>3, <2>4, <1>11
  <2>6. x # N - 1 =>
          Times(x, x + 2)' = Times(x, x + 2) + (IF x = absPrev THEN 1 ELSE 0)
    <3>1. HAVE x # N - 1
    <3>2. Cardinality(Hits(Append(r, y), Span(x, x + 2))) = c2
      BY <3>1, <2>4, <1>9, <1>12
    <3>3. Span(x, x + 2) = z <=> x = absPrev
      BY <3>1, <1>9, <1>14
    <3>4. Cardinality(Hits(recorded', Span(x, x + 2))) = c2 + (IF x = absPrev THEN 1 ELSE 0)
      BY <3>2, <3>3, <2>3
    <3>5. QED
      BY <3>4, <2>4, <1>11
  <2>7. QED
    BY <2>2, <2>5, <2>6, <1>14 DEF pairs
<1>15. CASE ~pairs
  <2>1. recorded' = Append(r, y)
    <3>1. recorded' = r \o (<<y>> \o << >>)
      BY <1>2, <1>4, <1>6, <1>15 DEF pairs
    <3>2. r \o (<<y>> \o << >>) = Append(r, y)
      BY <1>1, <1>6, <1>8
    <3>3. QED
      BY <3>1, <3>2
  <2>2. QED
    BY <2>1, <1>9, <1>10, <1>11, <1>12, <1>13, <1>15 DEF pairs
<1>16. QED
  BY <1>14, <1>15

\* The counters change alike.
LEMMA SameCounts ==
  ASSUME IInv, AbsInv, Step, NEW a, a = AP!Top
  PROVE  /\ recorded' \in Seq(Entries)
         /\ absCounted' = [absCounted EXCEPT ![a] = AP!Counted(@)]
         /\ absPaired' = IF absPrev # None /\ a \notin absEntrypoints
                           THEN [absPaired EXCEPT ![absPrev] = AP!Counted(@)] ELSE absPaired
<1> DEFINE pairs == absPrev # None /\ a \notin absEntrypoints
<1>1. /\ a \in Addr
      /\ absPrev # None => /\ absPrev \in Addr /\ absPrev + 1 = a
                           /\ absPaired[absPrev] = 0
  BY Entered
<1>2. /\ recorded' \in Seq(Entries)
      /\ \A x \in Addr :
           /\ Times(x, x + 1)' = Times(x, x + 1) + (IF x = a THEN 1 ELSE 0)
           /\ x # N - 1 =>
                Times(x, x + 2)' = Times(x, x + 2) + (IF pairs /\ x = absPrev THEN 1 ELSE 0)
  <2>1. \A x \in Addr :
           /\ recorded' \in Seq(Entries)
           /\ Times(x, x + 1)' = Times(x, x + 1) + (IF x = a THEN 1 ELSE 0)
           /\ x # N - 1 =>
                Times(x, x + 2)' = Times(x, x + 2) + (IF pairs /\ x = absPrev THEN 1 ELSE 0)
    BY NewHits
  <2>2. QED
    BY <2>1, <1>1
<1>3. /\ absCounted = [x \in Addr |-> Times(x, x + 1)]
      /\ absPaired = [x \in Addr |-> IF x = N - 1 THEN 0 ELSE Times(x, x + 2)]
      /\ absCounted' = [x \in Addr |-> Times(x, x + 1)']
      /\ absPaired' = [x \in Addr |-> IF x = N - 1 THEN 0 ELSE Times(x, x + 2)']
  BY DEF absCounted, absPaired, Addr
<1>4. \A x \in Addr : Times(x, x + 1) \in Nat /\ Times(x, x + 2) \in Nat
  BY TimesSpan, HitsFinite DEF IInv
<1>5. MaxCount \in Nat /\ MaxCount >= 3 /\ N \in Nat \ {0}
  BY BoundsAssumption
<1>6. AP!Counted(absCounted[a]) = absCounted[a] + 1
  <2>1. absCounted[a] \in Nat /\ absCounted[a] <= 2
    BY <1>1, CountedTwice
  <2>2. QED
    BY <2>1, <1>5 DEF AP!Counted
<1>7. AP!Counted(0) = 1
  BY <1>5 DEF AP!Counted
<1> HIDE DEF pairs
<1>8. absCounted' = [absCounted EXCEPT ![a] = AP!Counted(@)]
  <2>1. \A x \in Addr : absCounted'[x] = IF x = a THEN AP!Counted(absCounted[a]) ELSE absCounted[x]
    BY <1>2, <1>3, <1>4, <1>6
  <2>2. QED
    BY <1>1, <1>3, <2>1
<1>9. absPaired' = IF pairs THEN [absPaired EXCEPT ![absPrev] = AP!Counted(@)] ELSE absPaired
  <2>1. CASE pairs
    <3>1. absPrev \in Addr /\ absPrev # N - 1 /\ absPaired[absPrev] = 0
      BY <1>1, <1>5, <2>1 DEF pairs, Addr
    <3>2. \A x \in Addr : absPaired'[x] = IF x = absPrev THEN AP!Counted(absPaired[absPrev])
                                                       ELSE absPaired[x]
      BY <1>2, <1>3, <1>4, <1>7, <2>1, <3>1
    <3>3. QED
      BY <1>3, <2>1, <3>1, <3>2
  <2>2. CASE ~pairs
    BY <1>2, <1>3, <1>4, <2>2
  <2>3. QED
    BY <2>1, <2>2
<1>10. QED
  BY <1>2, <1>8, <1>9 DEF pairs

\* A turn of the loop is an iteration of Analyzer's walk.
LEMMA StepSim ==
  ASSUME IInv, AbsInv, Step
  PROVE  AP!Step
<1>1. PICK a : a = AP!Top
  OBVIOUS
<1>2. next # << >> /\ file' = file
  BY DEF Step
<1>3. absNext # << >>
  BY <1>2, AtTop
<1>4. /\ absNext' = AP!Push(AP!Push(AP!Popped, AP!Target(a), absVisited),
                            AP!Following(a), AP!VisitedBefore(a))
      /\ absVisited' = AP!VisitedBefore(a) \cup AP!Following(a)
  BY <1>1, SameStack
<1>5. absPrev' = AP!Prev(a)
  BY <1>1, SamePrev
<1>6. /\ absCounted' = [absCounted EXCEPT ![a] = AP!Counted(@)]
      /\ absPaired' = IF absPrev # None /\ a \notin absEntrypoints
                        THEN [absPaired EXCEPT ![absPrev] = AP!Counted(@)] ELSE absPaired
  BY <1>1, SameCounts
<1>7. absCode' = absCode
  BY <1>2 DEF absCode, Abstract
<1>8. absEntrypoints' = absEntrypoints
  BY <1>2 DEF absEntrypoints, entrypoints, Index
<1>9. QED
  BY <1>1, <1>3, <1>4, <1>5, <1>6, <1>7, <1>8 DEF AP!Step

\* An entry that PrintProcessor prints in one or two instructions.
Whole(s) == s.begin + s.length \in {End(bf, s.begin), End(bf, End(bf, s.begin))}

\* They are added one at a time.
LEMMA WholeAppend ==
  ASSUME NEW r \in Seq(Entries), NEW y \in Entries,
         \A i \in DOMAIN r : Whole(r[i]), Whole(y)
  PROVE  Append(r, y) \in Seq(Entries) /\ \A i \in DOMAIN Append(r, y) : Whole(Append(r, y)[i])
<1>1. /\ DOMAIN r = 1..Len(r) /\ DOMAIN Append(r, y) = 1..(Len(r) + 1) /\ Len(r) \in Nat
      /\ Append(r, y)[Len(r) + 1] = y /\ \A i \in 1..Len(r) : Append(r, y)[i] = r[i]
  OBVIOUS
<1>2. QED
  BY <1>1

\* A pair that is recorded is of neighbours.
LEMMA WholeKept ==
  ASSUME IInv, AbsInv, Step
  PROVE  PrintsWhole'
<1>1. PICK o, d : o = ip /\ d = Decoded(bf, o)
  OBVIOUS
<1>2. /\ next # << >> /\ bf' = bf
      /\ recorded' = recorded \o (<<Sequence(o, d.end)>>
                        \o IF prev # NullPtr /\ o \notin entrypoints
                             THEN <<Sequence(prev, d.end)>> ELSE << >>)
  BY <1>1, Turn
<1>3. /\ file \in Files /\ bf.code = file.code /\ o \in Starts(file) /\ o \in Nat
  BY <1>1, <1>2, AtTop
<1>4. Compiled(file)
  BY <1>3, Placed
<1>5. d.end = End(bf, o) /\ d.end \in Nat
  <2>1. d.end = End(bf, o) /\ End(bf, o) \in Int /\ o < End(bf, o)
    BY <1>1, <1>3, <1>4, AtStart
  <2>2. QED
    BY <2>1, <1>3
<1>6. PICK y, z : y = Sequence(o, d.end) /\ z = Sequence(prev, d.end)
  OBVIOUS
<1>7. Whole(y) /\ y \in Entries
  <2>1. y.begin = o /\ y.begin + y.length = d.end /\ y \in Entries
    BY <1>3, <1>5, <1>6, SequenceTyped
  <2>2. QED
    BY <2>1, <1>5 DEF Whole
<1>8. prev # NullPtr => Whole(z) /\ z \in Entries
  <2>1. HAVE prev # NullPtr
  <2>2. PICK a : a = AP!Top
    OBVIOUS
  <2>3. absPrev = Index(prev) /\ a = absPrev + 1
    BY <1>2, <2>1, <2>2, PrevBefore
  <2>4. prev \in Starts(file) /\ prev \in Nat
    BY <1>3, <2>1, Placed DEF IInv, Offsets
  <2>5. a = Index(o) /\ file.starts[a + 1] = o
    BY <1>1, <1>2, <1>3, <2>2, AtTop, IndexOf
  <2>6. End(bf, prev) = file.starts[absPrev + 2] /\ absPrev \in Nat
    <3>1. PICK e : e = Decoded(bf, prev)
      OBVIOUS
    <3>2. e.end = End(bf, prev) /\ e.end = file.starts[absPrev + 2] /\ absPrev \in Nat
      BY <1>3, <2>3, <2>4, <3>1, Abstracted
    <3>3. QED
      BY <3>2
  <2>7. End(bf, prev) = o
    BY <2>3, <2>5, <2>6
  <2>8. z.begin = prev /\ z.begin + z.length = d.end /\ z \in Entries
    BY <1>5, <1>6, <2>4, SequenceTyped
  <2>9. QED
    BY <1>5, <2>7, <2>8 DEF Whole
<1>9. PICK r : r = recorded
  OBVIOUS
<1>10. r \in Seq(Entries) /\ \A i \in DOMAIN r : Whole(r[i])
  BY <1>9 DEF IInv, PrintsWhole, Whole
<1>11. PICK q : q = Append(r, y)
  OBVIOUS
<1>12. q \in Seq(Entries) /\ \A i \in DOMAIN q : Whole(q[i])
  BY <1>7, <1>10, <1>11, WholeAppend
<1>13. CASE prev # NullPtr /\ o \notin entrypoints
  <2>1. z \in Entries /\ Whole(z)
    BY <1>8, <1>13
  <2>2. recorded' = r \o (<<y>> \o <<z>>)
    BY <1>2, <1>6, <1>9, <1>13
  <2>3. r \o (<<y>> \o <<z>>) = Append(Append(r, y), z)
    BY <1>7, <1>10, <2>1
  <2>4. \A i \in DOMAIN Append(q, z) : Whole(Append(q, z)[i])
    BY <1>12, <2>1, WholeAppend
  <2>5. QED
    BY <1>2, <1>11, <2>2, <2>3, <2>4 DEF PrintsWhole, Whole
<1>14. CASE ~(prev # NullPtr /\ o \notin entrypoints)
  <2>1. recorded' = r \o (<<y>> \o << >>)
    BY <1>2, <1>6, <1>9, <1>14
  <2>2. r \o (<<y>> \o << >>) = Append(r, y)
    BY <1>7, <1>10
  <2>3. QED
    BY <1>2, <1>11, <1>12, <2>1, <2>2 DEF PrintsWhole, Whole
<1>15. QED
  BY <1>13, <1>14

\* The invariant is kept.
LEMMA StepIInv ==
  ASSUME IInv, AbsInv, [Next]_vars
  PROVE  IInv'
<1>1. CASE Step
  <2>1. PICK a : a = AP!Top
    OBVIOUS
  <2>2. file' = file /\ bf' = bf
    BY <1>1 DEF Step
  <2>3. Loaded'
    BY <2>2 DEF IInv, Loaded
  <2>4. next' \in Seq(Starts(file)) /\ visited' \subseteq Starts(file)
    BY <1>1, <2>1, SameStack
  <2>5. prev' \in Starts(file) \cup {NullPtr}
    BY <1>1, <2>1, SamePrev
  <2>6. Offsets'
    BY <2>2, <2>4, <2>5 DEF Offsets, NullPtr
  <2>7. recorded' \in Seq(Entries)
    BY <1>1, <2>1, SameCounts
  <2>8. PrintsWhole'
    BY <1>1, WholeKept
  <2>9. QED
    BY <2>3, <2>6, <2>7, <2>8 DEF IInv, Entries
<1>2. CASE Report \/ UNCHANGED vars
  <2>1. /\ file' = file /\ bf' = bf /\ next' = next /\ visited' = visited
        /\ prev' = prev /\ recorded' = recorded
    BY <1>2 DEF Report, vars
  <2>2. QED
    BY <2>1 DEF IInv, Loaded, Offsets, NullPtr, PrintsWhole, Entries
<1>3. QED
  BY <1>1, <1>2 DEF Next

\* Between turns, Analyzer's walk stands still.
LEMMA Stutters ==
  ASSUME Report \/ UNCHANGED vars
  PROVE  UNCHANGED AP!vars
<1>1. /\ file' = file /\ next' = next /\ visited' = visited
      /\ prev' = prev /\ recorded' = recorded
  BY DEF Report, vars
<1>2. absCode' = absCode
  BY <1>1 DEF absCode, Abstract
<1>3. absEntrypoints' = absEntrypoints
  BY <1>1 DEF absEntrypoints, entrypoints, Index
<1>4. absNext' = absNext /\ absVisited' = absVisited
  BY <1>1 DEF absNext, absVisited, Index
<1>5. absPrev' = absPrev
  BY <1>1 DEF absPrev, Index, NullPtr
<1>6. absCounted' = absCounted /\ absPaired' = absPaired
  BY <1>1 DEF absCounted, absPaired, Times, Sequence
<1>7. QED
  BY <1>2, <1>3, <1>4, <1>5, <1>6 DEF AP!vars

\* What holds of Analyzer's walk holds of this one.
LEMMA StepAbsInv ==
  ASSUME IInv, AbsInv, [Next]_vars
  PROVE  AbsInv' /\ [AP!Next]_(AP!vars)
<1>1. AP!Step \/ UNCHANGED AP!vars
  BY StepSim, Stutters DEF Next
<1>2. N \in Nat \ {0} /\ None \notin Int /\ MaxCount \in Nat /\ MaxCount >= 3
  BY BoundsAssumption
<1>3. AP!Next \/ UNCHANGED AP!vars
  BY <1>1 DEF AP!Next
<1>4. AP!IInv'
  BY <1>2, <1>3, AP!StepIInv DEF AbsInv
<1>5. AP!CountsExact'
  <2>1. CASE AP!Step
    BY <1>2, <2>1, AP!StepCounts DEF AbsInv, AP!IInv
  <2>2. CASE UNCHANGED AP!vars
    BY <2>2 DEF AbsInv, AP!vars, AP!CountsExact, AP!OnStack
  <2>3. QED
    BY <1>1, <2>1, <2>2
<1>6. QED
  BY <1>3, <1>4, <1>5 DEF AbsInv

---------------------------------------------------------------------------
(***************************************************************************)
(* The start.                                                              *)
(***************************************************************************)

\* The whole file is loaded.
LEMMA InitLoaded == Init => Loaded
<1> SUFFICES ASSUME Init PROVE Loaded
  OBVIOUS
<1>1. file \in Files /\ bf \in ReadFile(file, FileSize(file))
  BY DEF Init
<1>2. Compiled(file)
  BY <1>1, Placed
<1>3. PICK n : n = FileSize(file)
  OBVIOUS
<1>4. /\ n = TablesEnd(file) + Len(file.code) /\ TablesEnd(file) \in Nat
      /\ Len(file.code) \in Nat
  BY <1>2, <1>3, Measures
<1>5. n \in 0..FileSize(file) /\ n >= TablesEnd(file)
  BY <1>3, <1>4
<1>6. bf.loaded = TRUE
  BY <1>1, <1>2, <1>3, <1>5, Loads
<1>7. Faithful(file, n, bf)
  BY <1>1, <1>2, <1>3, <1>5, <1>6, Loads
<1>8. n - TablesEnd(file) = Len(file.code)
  BY <1>4
<1>9. QED
  BY <1>1, <1>5, <1>7, <1>8 DEF Loaded, Faithful

\* The order of the public symbols has each of them once.
LEMMA InitStack ==
  ASSUME Init
  PROVE  /\ next \in [1..Cardinality(entrypoints) -> entrypoints]
         /\ \A o \in entrypoints : \E i \in DOMAIN next : next[i] = o
<1>1. /\ file \in Files /\ next \in SetToAllKPermutations(entrypoints)
      /\ Len(next) = Cardinality(entrypoints)
  BY DEF Init
<1>2. IsFiniteSet(entrypoints)
  BY <1>1, PublicsPlaced
<1>3. PICK s \in SUBSET entrypoints : next \in SetToSeqs(s)
  BY <1>1 DEF SetToAllKPermutations
<1>4. IsFiniteSet(s) /\ Cardinality(s) \in Nat
  BY <1>2, <1>3, FS_Subset, FS_CardinalityType
<1> DEFINE D == 1..Cardinality(s)
<1>5. next \in [D -> s] /\ \A i, j \in D : i # j => next[i] # next[j]
  BY <1>3 DEF SetToSeqs
<1>6. Len(next) = Cardinality(s)
  BY <1>4, <1>5
<1>7. s = entrypoints
  BY <1>1, <1>2, <1>3, <1>6, FS_Subset
<1>8. Cardinality(D) = Cardinality(s)
  BY <1>4, FS_Interval
<1> HIDE DEF D
<1>9. next \in Injection(D, s)
  BY <1>5 DEF Injection, IsInjective
<1>10. next \in Surjection(D, s)
  BY <1>4, <1>8, <1>9, FS_Injection
<1>11. QED
  BY <1>5, <1>7, <1>10 DEF Surjection, D

\* There are as many addresses of public symbols as there are symbols.
LEMMA SameNumber ==
  ASSUME file \in Files, NEW S \in SUBSET Starts(file), IsFiniteSet(S)
  PROVE  Cardinality(Indices(S)) = Cardinality(S)
<1> DEFINE f == [o \in S |-> Index(o)]
<1>1. \A o, p \in S : Index(o) = Index(p) => o = p
  BY IndexInjective
<1>2. f \in [S -> Indices(S)] /\ \A t \in Indices(S) : \E o \in S : f[o] = t
  BY DEF Indices
<1>3. IsInjective(f)
  BY <1>1 DEF IsInjective
<1>4. f \in Bijection(S, Indices(S))
  <2> HIDE DEF f
  <2>1. QED
    BY <1>2, <1>3 DEF Bijection, Injection, Surjection
<1>5. ExistsBijection(S, Indices(S))
  BY <1>4 DEF ExistsBijection
<1>6. QED
  BY <1>5, FS_Bijection

\* The instructions of a file are code for Analyzer.
LEMMA CodeTyped ==
  ASSUME file \in Files, bf.code = file.code
  PROVE  absCode \in AP!Codes
<1>1. N \in Nat \ {0} /\ N - 1 \in Addr
  BY BoundsAssumption DEF Addr
<1>2. ASSUME NEW a \in Addr
      PROVE  /\ absCode[a] \in AP!Instruction
             /\ a = N - 1 => absCode[a].kind \in AP!Closing
  <2>1. PICK k \in 1..N : k = a + 1
    BY <1>1 DEF Addr
  <2>2. PICK o \in Starts(file) : o = file.starts[k]
    BY <2>1, Placed
  <2>3. k \in 1..(N + 1) /\ k - 1 = a
    BY <1>1, <2>1 DEF Addr
  <2>4. Index(o) = a
    BY <2>2, <2>3, IndexOfStart
  <2>5. PICK d : d = Decoded(bf, o)
    OBVIOUS
  <2>6. /\ absCode[a].kind = Kind(d.name)
        /\ d.name \in {"JMP", "CJMP", "CALL", "CLOSURE"} =>
             /\ d.ints[1] \in Starts(file)
             /\ absCode[a].target = Index(d.ints[1])
        /\ d.name \notin {"JMP", "CJMP", "CALL", "CLOSURE"} => absCode[a].target = None
        /\ a = N - 1 => Leaves(d)
    BY <2>2, <2>4, <2>5, Abstracted
  <2>7. absCode[a] = [kind |-> absCode[a].kind, target |-> absCode[a].target]
    BY DEF absCode, Abstract, Addr
  <2>8. CASE d.name \in {"JMP", "CJMP", "CALL", "CLOSURE"}
    <3>1. absCode[a].kind = d.name
      BY <2>6, <2>8 DEF Kind
    <3>2. absCode[a].target \in Addr
      BY <2>6, <2>8, IndexOf
    <3>3. a = N - 1 => d.name = "JMP"
      BY <2>6, <2>8 DEF Leaves
    <3>4. absCode[a] \in AP!Instruction
      BY <2>7, <2>8, <3>1, <3>2 DEF AP!Instruction, AP!Targeted, AP!Addr, Addr
    <3>5. QED
      BY <3>1, <3>3, <3>4 DEF AP!Closing
  <2>9. CASE d.name \notin {"JMP", "CJMP", "CALL", "CLOSURE"}
    <3>1. absCode[a].target = None
      BY <2>6, <2>9
    <3>2. /\ absCode[a].kind \in {"CALLC", "STOP", "PLAIN"}
          /\ Leaves(d) => absCode[a].kind = "STOP"
      BY <2>6, <2>9 DEF Kind, Leaves
    <3>3. absCode[a] \in AP!Instruction
      BY <2>7, <3>1, <3>2 DEF AP!Instruction, AP!Untargeted
    <3>4. QED
      BY <2>6, <3>2, <3>3 DEF AP!Closing
  <2>10. QED
    BY <2>8, <2>9
<1>3. absCode \in [AP!Addr -> AP!Instruction]
  <2>1. DOMAIN absCode = Addr /\ absCode = [a \in Addr |-> absCode[a]]
    BY DEF absCode, Addr
  <2>2. QED
    BY <1>2, <2>1 DEF AP!Addr, Addr
<1>4. QED
  BY <1>1, <1>2, <1>3 DEF AP!Codes

\* The walk starts where Analyzer's does.
LEMMA InitSim == Init => AP!Init /\ IInv
<1> SUFFICES ASSUME Init PROVE AP!Init /\ IInv
  OBVIOUS
<1>1. /\ file \in Files /\ bf.code = file.code /\ Loaded
  BY InitLoaded DEF Loaded
<1>2. /\ entrypoints \subseteq Starts(file) /\ entrypoints # {}
      /\ IsFiniteSet(entrypoints)
  BY <1>1, PublicsPlaced
<1>3. PICK n \in Nat : n = Cardinality(entrypoints)
  BY <1>2, FS_CardinalityType
<1>4. /\ next \in [1..n -> entrypoints]
      /\ \A o \in entrypoints : \E i \in DOMAIN next : next[i] = o
  BY <1>3, InitStack
<1>5. absEntrypoints = Indices(entrypoints)
  BY DEF absEntrypoints, Indices
<1>6. absEntrypoints \in (SUBSET AP!Addr) \ {{}}
  <2>1. \A o \in entrypoints : Index(o) \in Addr
    BY <1>1, <1>2, IndexOf
  <2>2. QED
    BY <1>2, <1>5, <2>1 DEF Indices, AP!Addr, Addr
<1>7. absNext \in AP!Orders(absEntrypoints)
  <2>1. AP!Cardinality(absEntrypoints) = n
    BY <1>1, <1>2, <1>3, <1>5, SameNumber, SameCardinality
  <2>2. absNext = [i \in 1..n |-> Index(next[i])]
    BY <1>4 DEF absNext
  <2>3. absNext \in [1..n -> absEntrypoints]
    BY <1>4, <1>5, <2>2 DEF Indices
  <2>4. \A x \in absEntrypoints : \E i \in DOMAIN absNext : absNext[i] = x
    <3> SUFFICES ASSUME NEW x \in absEntrypoints
                 PROVE  \E i \in DOMAIN absNext : absNext[i] = x
      OBVIOUS
    <3>1. PICK o \in entrypoints : x = Index(o)
      BY DEF absEntrypoints
    <3>2. PICK i \in 1..n : next[i] = o
      BY <1>4
    <3>3. QED
      BY <2>2, <3>1, <3>2
  <2>5. QED
    BY <2>1, <2>3, <2>4 DEF AP!Orders
<1>8. absVisited = {} /\ absPrev = None
  BY DEF Init, absVisited, absPrev
<1>9. \A x, y : Times(x, y) = 0
  <2>1. DOMAIN recorded = {}
    BY DEF Init
  <2>2. \A x, y : Times(x, y) = Cardinality({})
    BY <2>1 DEF Times
  <2>3. QED
    BY <2>2, FS_EmptySet
<1>10. absCounted = [a \in AP!Addr |-> 0] /\ absPaired = [a \in AP!Addr |-> 0]
  BY <1>9 DEF absCounted, absPaired, AP!Addr
<1>11. absCode \in AP!Codes
  BY <1>1, CodeTyped
<1>12. AP!Init
  BY <1>6, <1>7, <1>8, <1>10, <1>11 DEF AP!Init
<1>13. Offsets
  <2>1. next \in Seq(Starts(file))
    BY <1>2, <1>4
  <2>2. QED
    BY <2>1 DEF Init, Offsets
<1>14. recorded \in Seq(Entries) /\ PrintsWhole
  BY DEF Init, PrintsWhole
<1>15. QED
  BY <1>1, <1>12, <1>13, <1>14 DEF IInv

\* Both invariants hold in every state of the walk.
LEMMA Invariance == Spec => [](IInv /\ AbsInv)
<1>1. N \in Nat \ {0} /\ None \notin Int /\ MaxCount \in Nat /\ MaxCount >= 3
  BY BoundsAssumption
<1>2. Init => IInv /\ AbsInv
  <2> SUFFICES ASSUME Init PROVE IInv /\ AbsInv
    OBVIOUS
  <2>1. AP!Init /\ IInv
    BY InitSim
  <2>2. AP!IInv
    BY <1>1, <2>1, AP!InitIInv
  <2>3. AP!CountsExact
    BY <1>1, <2>1, AP!InitCounts
  <2>4. QED
    BY <2>1, <2>2, <2>3 DEF AbsInv
<1>3. IInv /\ AbsInv /\ [Next]_vars => (IInv /\ AbsInv)'
  BY StepIInv, StepAbsInv
<1>4. QED
  BY <1>2, <1>3, PTL DEF Spec

---------------------------------------------------------------------------
(***************************************************************************)
(* The theorems.                                                           *)
(***************************************************************************)

\* The walk over the bytes of any file of the compiler is Analyzer's walk
\* over its instructions, and record() counts what Analyzer counts: main()
\* gets from the decoder only places where instructions start.
THEOREM AnalyzerImplemented == Spec => ImplementsAnalyzer
<1>1. Init => A!Init
  BY InitSim, SameWalk
<1>2. IInv /\ AbsInv /\ [Next]_vars => [A!Next]_(A!vars)
  <2> SUFFICES ASSUME IInv, AbsInv, [Next]_vars PROVE [A!Next]_(A!vars)
    OBVIOUS
  <2>1. AP!Next \/ UNCHANGED AP!vars
    BY StepAbsInv
  <2>2. CASE AP!Next
    BY <2>2, SameWalk
  <2>3. CASE UNCHANGED AP!vars
    BY <2>3 DEF A!vars, AP!vars
  <2>4. QED
    BY <2>1, <2>2, <2>3
<1>3. QED
  BY <1>1, <1>2, Invariance, PTL DEF Spec, ImplementsAnalyzer

\* Every sequence recorded is printed whole, as the one or two instructions
\* that it is (PrintProcessor in analyzer.cpp).
THEOREM PrintsWholeCorrect == Spec => []PrintsWhole
<1>1. IInv => PrintsWhole
  BY DEF IInv
<1>2. QED
  BY <1>1, Invariance, PTL

\* No file of the compiler makes a check of the decoder fail on the walk
\* (readByte, readInt, readString and "unexpected opcode" of processor.h).
THEOREM NeverFailsCorrect == Spec => []NeverFails
<1>1. IInv => NeverFails
  <2> SUFFICES ASSUME IInv, next # << >> PROVE Decodable(bf, ip)
    BY DEF NeverFails
  <2>1. /\ file \in Files /\ bf.code = file.code /\ ip \in Starts(file)
        /\ bf.code_size = Len(file.code) /\ bf.stringtab_size = file.stringtab_size
    BY AtTop DEF IInv, Loaded
  <2>2. Compiled(file)
    BY <2>1, Placed
  <2>3. QED
    BY <2>1, <2>2, StartDecodes
<1>2. QED
  BY <1>1, Invariance, PTL
=============================================================================
