--------------------------- MODULE AnalyzerProofs ---------------------------
(***************************************************************************)
(* What the walk of the analyzer guarantees for code of any length.        *)
(***************************************************************************)
EXTENDS Analyzer, DataLemmas

---------------------------------------------------------------------------
(***************************************************************************)
(* The stack.                                                              *)
(***************************************************************************)

Elements(s) == {s[i] : i \in DOMAIN s}

\* The elements of the stack before a pop are the top and what remains.
LEMMA PopElements ==
  ASSUME next \in Seq(Addr), next # << >>
  PROVE  /\ Top \in Addr
         /\ Popped \in Seq(Addr)
         /\ Elements(next) = Elements(Popped) \cup {Top}
<1>1. Len(next) \in Nat \ {0}
  BY EmptySeq
<1>2. Popped \in Seq(Addr) /\ Len(Popped) = Len(next) - 1
  <2>1. PICK m \in Nat : m = Len(next) - 1
    BY <1>1
  <2>2. \A i \in 1..m : next[i] \in Addr
    BY <1>1, <2>1, ElementOfSeq
  <2>3. /\ SubSeq(next, 1, m) \in Seq(Addr)
        /\ Len(SubSeq(next, 1, m)) = IF 1 <= m THEN m - 1 + 1 ELSE 0
    BY <2>2, SubSeqProperties
  <2>4. Popped = SubSeq(next, 1, m)
    BY <2>1 DEF Popped
  <2>5. QED
    BY <2>1, <2>3, <2>4
<1>3. \A i \in 1..(Len(next) - 1) : Popped[i] = next[i]
  BY <1>1 DEF Popped
<1>4. DOMAIN next = 1..Len(next) /\ DOMAIN Popped = 1..(Len(next) - 1)
  BY <1>2
<1>5. Elements(next) \subseteq Elements(Popped) \cup {Top}
  BY <1>1, <1>3, <1>4 DEF Elements, Top
<1>6. Elements(Popped) \cup {Top} \subseteq Elements(next)
  BY <1>1, <1>3, <1>4 DEF Elements, Top
<1>7. QED
  BY <1>1, <1>2, <1>5, <1>6 DEF Top

\* A push adds what had not been seen, on top.
LEMMA PushElements ==
  ASSUME NEW s \in Seq(Addr), NEW S \in SUBSET Addr, NEW seen,
         \A x, y \in S : x = y
  PROVE  /\ Push(s, S, seen) \in Seq(Addr)
         /\ Elements(Push(s, S, seen)) = Elements(s) \cup (S \ seen)
         /\ \A x \in S \ seen : Push(s, S, seen) = Append(s, x)
<1>1. CASE S \subseteq seen
  BY <1>1 DEF Push
<1>2. CASE ~(S \subseteq seen)
  <2>1. PICK x \in S : x \notin seen
    BY <1>2
  <2>2. S = {x} /\ (CHOOSE y \in S : TRUE) = x
    BY <2>1
  <2>3. Push(s, S, seen) = Append(s, x)
    BY <1>2, <2>2 DEF Push
  <2>4. /\ Append(s, x) \in Seq(Addr)
        /\ DOMAIN Append(s, x) = 1..(Len(s) + 1)
        /\ DOMAIN s = 1..Len(s) /\ Len(s) \in Nat
        /\ \A i \in 1..Len(s) : Append(s, x)[i] = s[i]
        /\ Append(s, x)[Len(s) + 1] = x
    BY <2>1
  <2>5. Elements(Append(s, x)) = Elements(s) \cup {x}
    BY <2>4 DEF Elements
  <2>6. QED
    BY <2>1, <2>2, <2>3, <2>4, <2>5
<1>3. QED
  BY <1>1, <1>2

---------------------------------------------------------------------------
(***************************************************************************)
(* Code and control.                                                       *)
(***************************************************************************)

\* What the handlers visit is where control can get.
LEMMA FlowOfStep ==
  ASSUME code \in Codes, NEW a \in Addr
  PROVE  /\ Target(a) \in SUBSET Addr /\ Following(a) \in SUBSET Addr
         /\ \A x, y \in Target(a) : x = y
         /\ \A x, y \in Following(a) : x = y
         /\ Flow[a] = Target(a) \cup Following(a)
         /\ Straight(a) <=> ~IsControl(a)
         /\ ~IsControl(a) => Following(a) = {a + 1}
         /\ \A x \in Flow[a] : x = code[a].target \/ x = a + 1
<1>1. /\ code[a] \in Instruction
      /\ code[a].kind \in {"JMP", "CJMP", "CALL", "CLOSURE", "CALLC", "STOP", "PLAIN"}
      /\ code[a].kind \in Targeted => code[a].target \in Addr
  BY DEF Codes, Instruction, Targeted, Untargeted
<1>2. a \in Int /\ 0 <= a /\ a <= N - 1 /\ N \in Nat
  BY NAssumption DEF Addr
<1>3. a = N - 1 => code[a].kind \in Closing
  BY DEF Codes
<1>4. Target(a) \in SUBSET Addr /\ \A x, y \in Target(a) : x = y
  BY <1>1 DEF Target, Targeted
<1>5. Following(a) \in SUBSET Addr /\ \A x, y \in Following(a) : x = y
  BY <1>1, <1>2, <1>3 DEF Following, IsJmp, Addr, Closing
<1>6. Flow[a] = (IF code[a].kind \in Targeted THEN {code[a].target} ELSE {})
                  \cup (IF code[a].kind \in Closing THEN {} ELSE {a + 1})
  BY DEF Flow
<1>7. Flow[a] = Target(a) \cup Following(a)
  BY <1>6 DEF Target, Following, IsJmp, Targeted, Closing
<1>8. Straight(a) <=> ~IsControl(a)
  BY <1>1 DEF Straight, IsControl
<1>9. ~IsControl(a) => Following(a) = {a + 1}
  BY DEF IsControl, Following, IsJmp
<1>10. QED
  BY <1>4, <1>5, <1>6, <1>7, <1>8, <1>9

---------------------------------------------------------------------------
(***************************************************************************)
(* The inductive invariant.                                                *)
(***************************************************************************)

\* Everything to process has been processed or is on the stack.
Agenda == Elements(next) \cup Processed = entrypoints \cup visited

\* What follows a processed instruction is visited, and only that is.
Expanded == \A a \in Processed : Flow[a] \subseteq visited
Arrived == \A x \in visited : \E a \in Processed : x \in Flow[a]

\* The walk stays within what is reachable.
Within == entrypoints \cup visited \subseteq Reach(entrypoints, Flow)

\* A pending prev is continued by the top of the stack, for the first time.
PrevPending ==
  prev # None =>
    /\ prev \in Processed /\ Straight(prev) /\ paired[prev] = 0
    /\ next # << >> /\ Top = prev + 1

\* The pairs inside a block are recorded, or the last one is about to be.
PairsSoFar ==
  \A a \in Processed :
    Straight(a) /\ a + 1 \notin entrypoints /\ Inside(a + 1) =>
      prev = a \/ paired[a] = 1

IInv == /\ TypeOK /\ Agenda /\ Expanded /\ Arrived /\ Within
        /\ PrevPending /\ PairsSound /\ PairsSoFar

\* The orders of unordered_set are stacks of exactly its elements.
LEMMA OrdersAreStacks ==
  ASSUME NEW S \in SUBSET Addr, NEW s \in Orders(S)
  PROVE  s \in Seq(Addr) /\ Elements(s) = S
<1>1. IsFiniteSet(Addr)
  BY NAssumption, FS_Interval DEF Addr
<1>2. Cardinality(S) \in Nat
  BY <1>1, FS_Subset, FS_CardinalityType
<1>3. s \in [1..Cardinality(S) -> S]
  BY DEF Orders
<1>4. s \in Seq(Addr)
  BY <1>2, <1>3
<1>5. Elements(s) = S
  BY <1>3 DEF Elements, Orders
<1>6. QED
  BY <1>4, <1>5

\* The public symbols are on the stack, and nothing has been counted.
LEMMA InitIInv == Init => IInv
<1> SUFFICES ASSUME Init PROVE IInv
  OBVIOUS
<1>1. next \in Seq(Addr) /\ Elements(next) = entrypoints
  BY OrdersAreStacks DEF Init
<1>2. Processed = {}
  BY DEF Init, Processed
<1>3. TypeOK
  BY <1>1, MaxCountAssumption DEF Init, TypeOK
<1>4. Agenda /\ Expanded /\ Arrived
  BY <1>1, <1>2 DEF Init, Agenda, Expanded, Arrived
<1>5. Within
  <2>1. DOMAIN Flow = Addr
    BY DEF Flow
  <2>2. QED
    BY <2>1, ReachContains DEF Init, Within
<1>6. PrevPending /\ PairsSound /\ PairsSoFar
  BY <1>2 DEF Init, PrevPending, PairsSound, PairsSoFar
<1>7. QED
  BY <1>3, <1>4, <1>5, <1>6 DEF IInv

\* What one iteration does to the sets the invariant speaks of.
LEMMA StepEffect ==
  ASSUME TypeOK, Step, NEW a, a = Top
  PROVE  /\ a \in Addr
         /\ TypeOK' /\ code' = code /\ entrypoints' = entrypoints /\ Flow' = Flow
         /\ Processed' = Processed \cup {a}
         /\ visited' = visited \cup Flow[a]
         /\ Elements(next') \cup {a} = Elements(next) \cup {a} \cup (Flow[a] \ visited)
         /\ prev' = Prev(a)
         /\ prev' # None => next' # << >> /\ Top' = a + 1
         /\ \A x \in Addr :
              paired'[x] = IF x = prev /\ a \notin entrypoints
                             THEN Counted(paired[x]) ELSE paired[x]
<1>1. /\ a \in Addr /\ Popped \in Seq(Addr)
      /\ Elements(next) = Elements(Popped) \cup {a}
  BY PopElements DEF Step, TypeOK
<1>2. /\ Target(a) \in SUBSET Addr /\ Following(a) \in SUBSET Addr
      /\ \A x, y \in Target(a) : x = y
      /\ \A x, y \in Following(a) : x = y
      /\ Flow[a] = Target(a) \cup Following(a)
      /\ ~IsControl(a) => Following(a) = {a + 1}
  BY <1>1, FlowOfStep DEF TypeOK
<1>3. /\ code' = code /\ entrypoints' = entrypoints
      /\ next' = Push(Push(Popped, Target(a), visited), Following(a), VisitedBefore(a))
      /\ visited' = VisitedBefore(a) \cup Following(a)
      /\ counted' = [counted EXCEPT ![a] = Counted(@)]
      /\ paired' = IF prev # None /\ a \notin entrypoints
                     THEN [paired EXCEPT ![prev] = Counted(@)] ELSE paired
      /\ prev' = Prev(a)
  BY DEF Step
<1> DEFINE mid == Push(Popped, Target(a), visited)
<1>4. mid \in Seq(Addr) /\ Elements(mid) = Elements(Popped) \cup (Target(a) \ visited)
  <2> DEFINE T == Target(a)
  <2>1. T \in SUBSET Addr /\ (\A x, y \in T : x = y) /\ Popped \in Seq(Addr)
    BY <1>1, <1>2
  <2> HIDE DEF T
  <2>2. /\ Push(Popped, T, visited) \in Seq(Addr)
        /\ Elements(Push(Popped, T, visited)) = Elements(Popped) \cup (T \ visited)
    BY <2>1, PushElements, ZenonT(60)
  <2>3. QED
    BY <2>2 DEF T
<1>5. /\ next' \in Seq(Addr)
      /\ Elements(next') = Elements(mid) \cup (Following(a) \ VisitedBefore(a))
      /\ \A x \in Following(a) \ VisitedBefore(a) : next' = Append(mid, x)
  <2> DEFINE T == Following(a)
             seen == VisitedBefore(a)
  <2>1. /\ next' = Push(mid, T, seen) /\ mid \in Seq(Addr)
        /\ T \in SUBSET Addr /\ \A x, y \in T : x = y
    BY <1>2, <1>3, <1>4
  <2> HIDE DEF T, seen, mid
  <2>2. /\ Push(mid, T, seen) \in Seq(Addr)
        /\ Elements(Push(mid, T, seen)) = Elements(mid) \cup (T \ seen)
        /\ \A x \in T \ seen : Push(mid, T, seen) = Append(mid, x)
    BY <2>1, PushElements
  <2>3. QED
    BY <2>1, <2>2 DEF T, seen
<1>6. \A n \in 0..MaxCount : Counted(n) \in 0..MaxCount /\ Counted(n) > 0
  BY MaxCountAssumption DEF Counted
<1>7. /\ counted' \in [Addr -> 0..MaxCount]
      /\ Processed' = Processed \cup {a}
  <2>1. counted' \in [Addr -> 0..MaxCount]
    BY <1>1, <1>3, <1>6 DEF TypeOK
  <2>2. \A x \in Addr : counted'[x] = IF x = a THEN Counted(counted[a]) ELSE counted[x]
    BY <1>3 DEF TypeOK
  <2>3. Counted(counted[a]) > 0
    BY <1>1, <1>6 DEF TypeOK
  <2>4. QED
    BY <1>1, <2>1, <2>2, <2>3 DEF Processed
<1>8. /\ paired' \in [Addr -> 0..MaxCount]
      /\ \A x \in Addr :
           paired'[x] = IF x = prev /\ a \notin entrypoints
                          THEN Counted(paired[x]) ELSE paired[x]
  <2>1. None \notin Addr
    BY NoneAssumption, NAssumption DEF Addr
  <2>2. CASE prev # None /\ a \notin entrypoints
    BY <1>3, <1>6, <2>2 DEF TypeOK
  <2>3. CASE ~(prev # None /\ a \notin entrypoints)
    BY <1>3, <2>1, <2>3 DEF TypeOK
  <2>4. QED
    BY <2>2, <2>3
<1>9. visited' = visited \cup Flow[a] /\ visited' \subseteq Addr
  BY <1>2, <1>3 DEF VisitedBefore, TypeOK
<1>10. Elements(next') \cup {a} = Elements(next) \cup {a} \cup (Flow[a] \ visited)
  BY <1>1, <1>2, <1>4, <1>5 DEF VisitedBefore
<1>11. prev' \in Addr \cup {None}
  BY <1>1, <1>3 DEF Prev
<1>12. prev' # None => next' # << >> /\ Top' = a + 1
  <2>1. HAVE prev' # None
  <2>2. ~IsControl(a) /\ a + 1 \notin VisitedBefore(a)
    BY <1>3, <2>1 DEF Prev
  <2>3. next' = Append(mid, a + 1) /\ a + 1 \in Addr
    BY <1>2, <1>5, <2>2
  <2>4. QED
    BY <1>4, <2>3 DEF Top
<1>13. Flow' = Flow
  BY <1>3 DEF Flow
<1>14. QED
  BY <1>1, <1>3, <1>5, <1>7, <1>8, <1>9, <1>10, <1>11, <1>12, <1>13
  DEF TypeOK

\* A turn of the loop of main() preserves the invariant.
LEMMA StepIInv == IInv /\ [Next]_vars => IInv'
<1> SUFFICES ASSUME IInv, [Next]_vars PROVE IInv'
  OBVIOUS
<1>1. CASE UNCHANGED vars
  BY <1>1 DEF IInv, vars, TypeOK, Agenda, Expanded, Arrived, Within, PrevPending,
    PairsSound, PairsSoFar, Processed, Flow, Straight, Inside, Top
<1>2. CASE Step
  <2>1. PICK a : a = Top
    OBVIOUS
  <2>2. /\ a \in Addr
        /\ TypeOK' /\ code' = code /\ entrypoints' = entrypoints /\ Flow' = Flow
        /\ Processed' = Processed \cup {a}
        /\ visited' = visited \cup Flow[a]
        /\ Elements(next') \cup {a} = Elements(next) \cup {a} \cup (Flow[a] \ visited)
        /\ prev' = Prev(a)
        /\ prev' # None => next' # << >> /\ Top' = a + 1
        /\ \A x \in Addr :
             paired'[x] = IF x = prev /\ a \notin entrypoints
                            THEN Counted(paired[x]) ELSE paired[x]
    BY <1>2, <2>1, StepEffect DEF IInv
  <2>3. /\ DOMAIN Flow = Addr /\ Flow[a] = Target(a) \cup Following(a)
        /\ Flow[a] \subseteq Addr
        /\ Straight(a) <=> ~IsControl(a)
        /\ ~IsControl(a) => Following(a) = {a + 1}
    BY <2>2, FlowOfStep DEF IInv, TypeOK, Flow
  <2>4. \A x \in Addr : Straight(x)' = Straight(x) /\ Inside(x + 1)' = Inside(x + 1)
    BY <2>2 DEF Straight, Inside
  <2>5. a \in Elements(next)
    BY <1>2, <2>1, PopElements DEF IInv, TypeOK, Step
  <2>6. None \notin Addr
    BY NoneAssumption, NAssumption DEF Addr
  <2>7. ASSUME NEW x \in Addr, x = prev, a \notin entrypoints
         PROVE  /\ paired'[x] = 1 /\ a = x + 1
                /\ x \in Processed /\ Straight(x)
    <3>1. x # None /\ prev # None
      BY <2>6, <2>7
    <3>2. /\ x \in Processed /\ Straight(x) /\ paired[x] = 0 /\ a = x + 1
      BY <2>1, <2>7, <3>1 DEF IInv, PrevPending
    <3>3. paired'[x] = Counted(0)
      BY <2>2, <2>7, <3>2
    <3>4. Counted(0) = 1
      BY MaxCountAssumption DEF Counted
    <3>5. QED
      BY <3>2, <3>3, <3>4
  <2>8. Agenda'
    BY <2>2, <2>5 DEF IInv, Agenda
  <2>9. Expanded' /\ Arrived'
    BY <2>2 DEF IInv, Expanded, Arrived
  <2>10. Within'
    <3>1. a \in Reach(entrypoints, Flow)
      BY <2>5 DEF IInv, Agenda, Within
    <3>2. Flow[a] \subseteq Reach(entrypoints, Flow)
      BY <3>1, <2>3, ReachClosed
    <3>3. QED
      BY <2>2, <3>2 DEF IInv, Within
  <2>11. PrevPending'
    <3>1. SUFFICES ASSUME prev' # None
                   PROVE  /\ prev' \in Processed' /\ Straight(prev)' /\ paired'[prev'] = 0
                          /\ next' # << >> /\ Top' = prev' + 1
      BY DEF PrevPending
    <3>2. prev' = a /\ ~IsControl(a) /\ a + 1 \notin VisitedBefore(a)
      BY <2>2, <3>1 DEF Prev
    <3>3. a \notin Processed
      BY <2>3, <3>2 DEF IInv, Expanded, VisitedBefore
    <3>4. paired[a] = 0
      <4>1. paired[a] \in 0..MaxCount /\ ~(paired[a] > 0)
        BY <2>2, <3>3 DEF IInv, PairsSound, TypeOK
      <4>2. QED
        BY <4>1, MaxCountAssumption
    <3>5. a # prev
      BY <2>6, <2>2, <3>3 DEF IInv, PrevPending
    <3>6. Straight(prev)' = Straight(a)
      BY <2>2, <3>2 DEF Straight
    <3>7. QED
      BY <2>2, <2>3, <3>1, <3>2, <3>4, <3>5, <3>6
  <2>12. PairsSound'
    <3>1. SUFFICES ASSUME NEW x \in Addr, paired'[x] > 0
                   PROVE  /\ paired'[x] = 1
                          /\ Straight(x)' /\ x + 1 \in Addr \ entrypoints'
                          /\ x \in Processed' /\ x + 1 \in Processed'
      BY DEF PairsSound
    <3>2. CASE x = prev /\ a \notin entrypoints
      BY <2>2, <2>4, <2>7, <3>2
    <3>3. CASE ~(x = prev /\ a \notin entrypoints)
      BY <2>2, <2>4, <3>1, <3>3 DEF IInv, PairsSound
    <3>4. QED
      BY <3>2, <3>3
  <2>13. PairsSoFar'
    <3>1. SUFFICES ASSUME NEW x \in Processed', Straight(x), x + 1 \notin entrypoints,
                          Inside(x + 1)
                   PROVE  prev' = x \/ paired'[x] = 1
      BY <2>2, <2>4 DEF PairsSoFar, Processed
    <3>2. CASE x \in Processed /\ prev = x
      <4>1. x \in Addr /\ a = x + 1
        BY <2>1, <2>6, <3>2 DEF IInv, PrevPending, Processed
      <4>2. QED
        BY <2>7, <3>1, <3>2, <4>1
    <3>3. CASE x \in Processed /\ prev # x
      BY <2>2, <3>1, <3>3 DEF IInv, PairsSoFar, Processed
    <3>4. CASE x \notin Processed
      <4>1. x = a
        BY <2>2, <3>1, <3>4
      <4>2. \A b \in Addr : a + 1 \in Flow[b] => b = a
        <5> SUFFICES ASSUME NEW b \in Addr, a + 1 \in Flow[b] PROVE b = a
          OBVIOUS
        <5>1. a + 1 = code[b].target \/ a + 1 = b + 1
          BY FlowOfStep DEF IInv, TypeOK
        <5>2. code[b].target # a + 1
          BY <3>1, <4>1 DEF Inside
        <5>3. a \in Int /\ b \in Int
          BY <2>2, NAssumption DEF Addr
        <5>4. QED
          BY <5>1, <5>2, <5>3
      <4>3. a + 1 \notin visited
        BY <3>4, <4>1, <4>2 DEF IInv, Arrived, Processed
      <4>4. a + 1 \notin Target(a)
        BY <2>2, <3>1, <4>1 DEF Inside, Target
      <4>5. QED
        BY <2>2, <2>3, <3>1, <4>1, <4>3, <4>4 DEF Prev, VisitedBefore
    <3>5. QED
      BY <3>2, <3>3, <3>4
  <2>14. QED
    BY <2>2, <2>8, <2>9, <2>10, <2>11, <2>12, <2>13 DEF IInv
<1>3. QED
  BY <1>1, <1>2 DEF Next

\* The invariant holds in every state of the walk.
LEMMA Invariance == Spec => []IInv
BY InitIInv, StepIInv, PTL DEF Spec

---------------------------------------------------------------------------
(***************************************************************************)
(* The theorems.                                                           *)
(***************************************************************************)

\* The walk indexes visited and decodes instructions within the code only.
THEOREM TypeCorrect == Spec => []TypeOK
<1>1. IInv => TypeOK
  BY DEF IInv
<1>2. QED
  BY <1>1, Invariance, PTL

\* What the analyzer has counted when its stack is empty is what control can
\* reach from the public symbols, for every code and every order of the walk.
THEOREM CoverageCorrect == Spec => []Coverage
<1>1. IInv => Coverage
  <2> SUFFICES ASSUME IInv, Done PROVE Processed = Reach(entrypoints, Flow)
    BY DEF Coverage
  <2>1. Processed = entrypoints \cup visited
    BY DEF IInv, Agenda, Elements, Done
  <2>2. DOMAIN Flow = Addr /\ Processed \in SUBSET Addr
    BY DEF Flow, Processed
  <2>3. Closed(Processed, Flow)
    BY <2>1 DEF IInv, Expanded, Closed
  <2>4. QED
    BY <2>1, <2>2, <2>3, ReachLeast DEF IInv, Within
<1>2. QED
  BY <1>1, Invariance, PTL

\* The pairs recorded are pairs of instructions that follow one another, each
\* counted once.
THEOREM PairsSoundCorrect == Spec => []PairsSound
<1>1. IInv => PairsSound
  BY DEF IInv
<1>2. QED
  BY <1>1, Invariance, PTL

\* No pair inside a block is missed.
THEOREM PairsCompleteCorrect == Spec => []PairsComplete
<1>1. IInv => PairsComplete
  <2> SUFFICES ASSUME IInv, Done, NEW a \in Processed,
                      Straight(a), a + 1 \notin entrypoints, Inside(a + 1)
               PROVE  paired[a] = 1
    BY DEF PairsComplete
  <2>1. a \in Addr /\ a # None
    BY NoneAssumption, NAssumption DEF Processed, Addr
  <2>2. prev # a
    BY <2>1 DEF IInv, PrevPending, Done
  <2>3. QED
    BY <2>2 DEF IInv, PairsSoFar
<1>2. QED
  BY <1>1, Invariance, PTL

---------------------------------------------------------------------------
(***************************************************************************)
(* The counts.                                                             *)
(***************************************************************************)

\* Where x is in the stack s.
Where(s, x) == {i \in DOMAIN s : s[i] = x}
Times(s, x) == Cardinality(Where(s, x))

\* An address lies on the stack a finite number of times.
LEMMA WhereFinite ==
  ASSUME NEW s \in Seq(Addr), NEW x
  PROVE  IsFiniteSet(Where(s, x)) /\ Times(s, x) \in Nat
<1>1. IsFiniteSet(1..Len(s)) /\ DOMAIN s = 1..Len(s)
  BY FS_Interval
<1>2. Where(s, x) \subseteq 1..Len(s)
  BY <1>1 DEF Where
<1>3. IsFiniteSet(Where(s, x))
  BY <1>1, <1>2, FS_Subset
<1>4. QED
  BY <1>3, FS_CardinalityType DEF Times

\* A push adds one occurrence, of what is pushed.
LEMMA TimesAppend ==
  ASSUME NEW s \in Seq(Addr), NEW y \in Addr, NEW x
  PROVE  Times(Append(s, y), x) = Times(s, x) + One(x = y)
<1> DEFINE n == Len(s) + 1
<1>1. /\ n \in Nat /\ DOMAIN s = 1..(n - 1) /\ DOMAIN Append(s, y) = 1..n
      /\ Append(s, y)[n] = y /\ \A i \in 1..(n - 1) : Append(s, y)[i] = s[i]
      /\ n \notin Where(s, x) /\ n >= 1
  BY DEF Where
<1>2. IsFiniteSet(Where(s, x)) /\ Times(s, x) \in Nat
  BY WhereFinite
<1> HIDE DEF n
<1>3. CASE x = y
  <2>1. Where(Append(s, y), x) = Where(s, x) \cup {n}
    BY <1>1, <1>3 DEF Where
  <2>2. QED
    BY <1>1, <1>2, <1>3, <2>1, FS_AddElement DEF Times, One
<1>4. CASE x # y
  <2>1. Where(Append(s, y), x) = Where(s, x)
    BY <1>1, <1>4 DEF Where
  <2>2. QED
    BY <1>2, <1>4, <2>1 DEF Times, One
<1>5. QED
  BY <1>3, <1>4

\* A pop takes one occurrence, of the top.
LEMMA TimesPopped ==
  ASSUME next \in Seq(Addr), next # << >>, NEW x
  PROVE  Times(next, x) = Times(Popped, x) + One(x = Top)
<1> DEFINE n == Len(next)
<1>1. n \in Nat \ {0} /\ DOMAIN next = 1..n
  BY EmptySeq
<1>2. /\ Top \in Addr /\ Popped \in Seq(Addr)
  BY PopElements
<1>3. /\ DOMAIN Popped = 1..(n - 1) /\ \A i \in 1..(n - 1) : Popped[i] = next[i]
      /\ Top = next[n]
  BY <1>1 DEF Popped, Top
<1>4. IsFiniteSet(Where(Popped, x)) /\ Times(Popped, x) \in Nat
  BY <1>2, WhereFinite
<1> HIDE DEF n
<1>5. n \notin Where(Popped, x)
  BY <1>1, <1>3 DEF Where
<1>6. CASE x = Top
  <2>1. Where(next, x) = Where(Popped, x) \cup {n}
    BY <1>1, <1>3, <1>6 DEF Where
  <2>2. QED
    BY <1>4, <1>5, <1>6, <2>1, FS_AddElement DEF Times, One
<1>7. CASE x # Top
  <2>1. Where(next, x) = Where(Popped, x)
    BY <1>1, <1>3, <1>7 DEF Where
  <2>2. QED
    BY <1>4, <1>7, <2>1 DEF Times, One
<1>8. QED
  BY <1>6, <1>7

\* visit() pushes what had not been marked, once.
LEMMA TimesPush ==
  ASSUME NEW s \in Seq(Addr), NEW S \in SUBSET Addr, NEW seen, NEW x \in Addr,
         \A y, z \in S : y = z
  PROVE  Times(Push(s, S, seen), x) = Times(s, x) + One(x \in S \ seen)
<1>1. Times(s, x) \in Nat
  BY WhereFinite
<1>2. CASE S \subseteq seen
  <2>1. Push(s, S, seen) = s /\ ~(x \in S \ seen)
    BY <1>2 DEF Push
  <2>2. QED
    BY <1>1, <2>1 DEF One
<1>3. CASE ~(S \subseteq seen)
  <2>1. PICK y \in S \ seen : S = {y}
    BY <1>3
  <2>2. Push(s, S, seen) = Append(s, y)
    BY <2>1, PushElements
  <2>3. Times(Append(s, y), x) = Times(s, x) + One(x = y)
    BY <2>1, TimesAppend
  <2>4. (x = y) <=> (x \in S \ seen)
    BY <2>1
  <2>5. QED
    BY <2>2, <2>3, <2>4 DEF One
<1>4. QED
  BY <1>2, <1>3

\* unordered_set gives each of its elements once.
LEMMA TimesOrders ==
  ASSUME NEW S \in SUBSET Addr, NEW s \in Orders(S), NEW x
  PROVE  Times(s, x) = One(x \in S)
<1>1. IsFiniteSet(S)
  <2>1. IsFiniteSet(Addr)
    BY NAssumption, FS_Interval DEF Addr
  <2>2. QED
    BY <2>1, FS_Subset
<1>2. Cardinality(S) \in Nat
  BY <1>1, FS_CardinalityType
<1> DEFINE D == 1..Cardinality(S)
<1>3. IsFiniteSet(D) /\ Cardinality(D) = Cardinality(S)
  BY <1>2, FS_Interval
<1>4. s \in Surjection(D, S)
  BY <1>3 DEF Orders, Surjection
<1>5. s \in Injection(D, S)
  BY <1>3, <1>4, FS_SurjSameCardinalityImpliesInj
<1> HIDE DEF D
<1>6. DOMAIN s = D /\ \A i \in D : s[i] \in S
  BY <1>4 DEF Surjection
<1>7. CASE x \in S
  <2>1. PICK i \in D : s[i] = x
    BY <1>4, <1>7 DEF Surjection
  <2>2. Where(s, x) = {i}
    <3>1. \A j \in D : s[j] = s[i] => j = i
      BY <1>5, <2>1 DEF Injection, IsInjective
    <3>2. QED
      BY <1>6, <2>1, <3>1 DEF Where
  <2>3. QED
    BY <1>7, <2>2, FS_Singleton DEF Times, One
<1>8. CASE x \notin S
  <2>1. Where(s, x) = {}
    BY <1>6, <1>8 DEF Where
  <2>2. QED
    BY <1>8, <2>1, FS_EmptySet DEF Times, One
<1>9. QED
  BY <1>7, <1>8

\* The definition of the property and the one the proof counts with agree.
LEMMA OnStackTimes == \A x : OnStack(x) = Times(next, x)
BY DEF OnStack, Times, Where

\* At first every public symbol is on the stack once.
LEMMA InitCounts == Init => CountsExact
<1> SUFFICES ASSUME Init, NEW x \in Addr
             PROVE  counted[x] + OnStack(x) = One(x \in entrypoints) + One(x \in visited)
  BY DEF CountsExact
<1>1. Times(next, x) = One(x \in entrypoints)
  BY TimesOrders DEF Init
<1>2. counted[x] = 0 /\ visited = {} /\ One(x \in entrypoints) \in Nat
  BY DEF Init, One
<1>3. QED
  BY <1>1, <1>2, OnStackTimes DEF One

\* An iteration takes one place off the stack and counts it, and puts there
\* what it marks as visited.
LEMMA StepCounts == TypeOK /\ CountsExact /\ Step => CountsExact'
<1> SUFFICES ASSUME TypeOK, CountsExact, Step, NEW x \in Addr
             PROVE  counted'[x] + OnStack(x)' = One(x \in entrypoints)' + One(x \in visited)'
  BY DEF CountsExact
<1>1. PICK a : a = Top
  OBVIOUS
<1>2. next \in Seq(Addr) /\ next # << >> /\ visited \subseteq Addr
      /\ counted \in [Addr -> 0..MaxCount]
  BY DEF Step, TypeOK
<1>3. a \in Addr /\ Popped \in Seq(Addr)
  BY <1>1, <1>2, PopElements
<1>4. /\ Target(a) \in SUBSET Addr /\ Following(a) \in SUBSET Addr
      /\ \A y, z \in Target(a) : y = z
      /\ \A y, z \in Following(a) : y = z
  BY <1>3, FlowOfStep DEF TypeOK
<1>5. /\ entrypoints' = entrypoints
      /\ next' = Push(Push(Popped, Target(a), visited), Following(a), VisitedBefore(a))
      /\ visited' = VisitedBefore(a) \cup Following(a)
      /\ counted' = [counted EXCEPT ![a] = Counted(@)]
  BY <1>1 DEF Step
<1> DEFINE mid == Push(Popped, Target(a), visited)
<1>6. mid \in Seq(Addr) /\ Times(mid, x) = Times(Popped, x) + One(x \in Target(a) \ visited)
  <2> DEFINE T == Target(a)
  <2>1. T \in SUBSET Addr /\ \A y, z \in T : y = z
    BY <1>4
  <2> HIDE DEF T
  <2>2. /\ Push(Popped, T, visited) \in Seq(Addr)
        /\ Times(Push(Popped, T, visited), x) = Times(Popped, x) + One(x \in T \ visited)
    <3>1. Push(Popped, T, visited) \in Seq(Addr)
      BY <1>3, <2>1, PushElements
    <3>2. Times(Push(Popped, T, visited), x) = Times(Popped, x) + One(x \in T \ visited)
      BY <1>3, <2>1, TimesPush
    <3>3. QED
      BY <3>1, <3>2
  <2>3. QED
    BY <2>2 DEF T
<1> HIDE DEF mid
<1>7. Times(next', x) = Times(mid, x) + One(x \in Following(a) \ VisitedBefore(a))
  <2> DEFINE T == Following(a)
             seen == VisitedBefore(a)
  <2>1. T \in SUBSET Addr /\ (\A y, z \in T : y = z) /\ next' = Push(mid, T, seen)
    BY <1>4, <1>5 DEF mid
  <2> HIDE DEF T, seen
  <2>2. Times(Push(mid, T, seen), x) = Times(mid, x) + One(x \in T \ seen)
    BY <1>6, <2>1, TimesPush
  <2>3. QED
    BY <2>1, <2>2 DEF T, seen
<1>8. Times(next, x) = Times(Popped, x) + One(x = a)
  BY <1>1, <1>2, TimesPopped
<1>9. /\ Times(next, x) \in Nat /\ Times(Popped, x) \in Nat /\ Times(mid, x) \in Nat
      /\ counted[x] \in Nat
  BY <1>2, <1>3, <1>6, WhereFinite
<1>10. counted[x] + Times(next, x) = One(x \in entrypoints) + One(x \in visited)
  BY OnStackTimes DEF CountsExact
<1>11. counted'[x] = counted[x] + One(x = a)
  <2>1. CASE x = a
    <3>1. counted[x] <= 1
      BY <1>8, <1>9, <1>10, <2>1 DEF One
    <3>2. Counted(counted[x]) = counted[x] + 1
      BY <1>9, <3>1, MaxCountAssumption DEF Counted
    <3>3. QED
      BY <1>2, <1>3, <1>5, <2>1, <3>2 DEF One
  <2>2. CASE x # a
    BY <1>2, <1>5, <1>9, <2>2 DEF One
  <2>3. QED
    BY <2>1, <2>2
<1>12. One(x \in visited') =
         One(x \in visited) + One(x \in Target(a) \ visited)
           + One(x \in Following(a) \ VisitedBefore(a))
  BY <1>5 DEF One, VisitedBefore
<1>13. /\ One(x \in visited) \in Nat /\ One(x \in Target(a) \ visited) \in Nat
       /\ One(x \in Following(a) \ VisitedBefore(a)) \in Nat /\ One(x = a) \in Nat
       /\ One(x \in entrypoints) \in Nat
  BY DEF One
<1>14. OnStack(x)' = Times(next', x)
  BY DEF OnStack, Times, Where
<1>15. counted'[x] + Times(next', x) = One(x \in entrypoints) + One(x \in visited')
  <2> DEFINE p == Times(Popped, x)
             c == counted[x]
             o == One(x = a)
             t == One(x \in Target(a) \ visited)
             f == One(x \in Following(a) \ VisitedBefore(a))
             v == One(x \in visited)
             e == One(x \in entrypoints)
  <2>1. p \in Nat /\ c \in Nat /\ o \in Nat /\ t \in Nat /\ f \in Nat /\ v \in Nat
        /\ e \in Nat
    BY <1>9, <1>13
  <2>2. /\ Times(next', x) = p + t + f /\ counted'[x] = c + o
        /\ One(x \in visited') = v + t + f
    BY <1>6, <1>7, <1>11, <1>12
  <2>3. c + (p + o) = e + v
    BY <1>8, <1>10
  <2> HIDE DEF p, c, o, t, f, v, e
  <2>4. (c + o) + (p + t + f) = e + (v + t + f)
    BY <2>1, <2>3
  <2>5. QED
    BY <2>2, <2>4 DEF e
<1>16. QED
  BY <1>5, <1>14, <1>15 DEF One

\* Every public symbol is counted once, and every visited place once more,
\* except for what is still on the stack: nothing is lost by the order of the
\* walk (analyzer.cpp, visit and the loop of main).
THEOREM CountsExactCorrect == Spec => []CountsExact
<1>1. Init => CountsExact
  BY InitCounts
<1>2. TypeOK /\ CountsExact /\ [Next]_vars => CountsExact'
  <2>1. CASE UNCHANGED vars
    BY <2>1 DEF vars, CountsExact, OnStack
  <2>2. QED
    BY <2>1, StepCounts DEF Next
<1>3. QED
  BY <1>1, <1>2, TypeCorrect, PTL DEF Spec
=============================================================================
