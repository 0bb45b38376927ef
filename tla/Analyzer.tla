------------------------------ MODULE Analyzer ------------------------------
(***************************************************************************)
(* The frequency analyzer of src/src/analyzer.cpp: it walks the code that  *)
(* is reachable from the public symbols with a worklist, and counts every  *)
(* instruction it processes and every pair of instructions that it takes   *)
(* to follow one another in a block.                                       *)
(*                                                                         *)
(* An instruction is its index; the instruction after a is a + 1.  Of its  *)
(* operands only the target matters.  Of the tables of record() the model  *)
(* keeps what each occurrence adds, by place and not yet by bytes.         *)
(***************************************************************************)
EXTENDS Integers, Sequences, FiniteSets, Reachability

CONSTANTS
  N,          \* the number of instructions of the code
  None,       \* a null prev
  MaxCount    \* bound: the counters stop there

ASSUME NAssumption == N \in Nat \ {0}
ASSUME NoneAssumption == None \notin Int
ASSUME MaxCountAssumption == MaxCount \in Nat /\ MaxCount >= 3

VARIABLES
  code,         \* file->code_ptr, decoded
  entrypoints,  \* the offsets of the public symbols
  next,         \* the stack of places to process, the top last
  visited,      \* the places visit() has marked
  prev,         \* the instruction before, when the next may continue it
  counted,      \* sequences of one instruction recorded, by place
  paired        \* sequences of two recorded, by the place of the first

vars == <<code, entrypoints, next, visited, prev, counted, paired>>

Addr == 0..(N - 1)

\* CJMP stands for CJMPz and CJMPnz, CALL and CLOSURE for any arguments, STOP
\* for END and FAIL, PLAIN for every instruction the analyzer does not handle.
Targeted == {"JMP", "CJMP", "CALL", "CLOSURE"}
Untargeted == {"CALLC", "STOP", "PLAIN"}
Instruction == [kind : Targeted, target : Addr]
                 \cup [kind : Untargeted, target : {None}]

\* Compiled code does not run off its end.
Closing == {"JMP", "STOP"}
Codes == {c \in [Addr -> Instruction] : c[N - 1].kind \in Closing}

\* What unordered_set gives when it is iterated: its elements, in any order.
Orders(S) == {s \in [1..Cardinality(S) -> S] : \A x \in S : \E i \in DOMAIN s : s[i] = x}

Init ==
  /\ code \in Codes
  /\ entrypoints \in (SUBSET Addr) \ {{}}
  /\ next \in Orders(entrypoints)
  /\ visited = {}
  /\ prev = None
  /\ counted = [a \in Addr |-> 0]
  /\ paired = [a \in Addr |-> 0]

Top == next[Len(next)]

\* The flags that the handlers leave, and the place they visit.
IsJmpUnlessEnd(a) == code[a].kind = "JMP"
IsJmp(a) == code[a].kind \in {"JMP", "STOP"}
IsControlOrClosure(a) == code[a].kind # "PLAIN"
IsControl(a) == code[a].kind \in {"JMP", "CJMP", "CALL", "CALLC", "STOP"}
TargetUnlessClosure(a) == IF code[a].kind \in {"JMP", "CJMP", "CALL"}
                            THEN {code[a].target} ELSE {}
Target(a) == IF code[a].kind \in {"JMP", "CJMP", "CALL", "CLOSURE"}
               THEN {code[a].target} ELSE {}

\* The places that processing a visits, the one after a last.
VisitedBefore(a) == visited \cup Target(a)
Following(a) == IF IsJmp(a) THEN {} ELSE {a + 1}

\* visit(): the stack s with the members of S that are not in seen on top.
PushSeen(s, S, seen) == IF S = {} THEN s ELSE Append(s, CHOOSE x \in S : TRUE)
Push(s, S, seen) == IF S \subseteq seen THEN s ELSE Append(s, CHOOSE x \in S : TRUE)

\* next.pop()
NotPopped == next
Popped == SubSeq(next, 1, Len(next) - 1)

\* The instruction that the next one may continue.
PrevIfVisited(a) == IF IsControl(a) THEN None ELSE a
Prev(a) == IF IsControl(a) \/ a + 1 \in VisitedBefore(a) THEN None ELSE a

Counted(n) == IF n < MaxCount THEN n + 1 ELSE n

\* One iteration of the loop of main().
Step ==
  /\ next # << >>
  /\ LET a == Top IN
       /\ next' = Push(Push(Popped, Target(a), visited), Following(a), VisitedBefore(a))
       /\ visited' = VisitedBefore(a) \cup Following(a)
       /\ counted' = [counted EXCEPT ![a] = Counted(@)]
       /\ paired' = IF prev # None /\ a \notin entrypoints
                      THEN [paired EXCEPT ![prev] = Counted(@)] ELSE paired
       /\ prev' = Prev(a)
  /\ UNCHANGED <<code, entrypoints>>

Done == next = << >>

Next == Step
Spec == Init /\ [][Next]_vars /\ WF_vars(Next)

---------------------------------------------------------------------------
(***************************************************************************)
(* Properties.                                                             *)
(***************************************************************************)

\* The analyzer only indexes visited within the code, and keeps its types.
TypeOK ==
  /\ code \in Codes
  /\ entrypoints \subseteq Addr
  /\ next \in Seq(Addr)
  /\ visited \subseteq Addr
  /\ prev \in Addr \cup {None}
  /\ counted \in [Addr -> 0..MaxCount]
  /\ paired \in [Addr -> 0..MaxCount]

Processed == {a \in Addr : counted[a] > 0}

\* Where control can get from a: the target of a jump or a call, the code of
\* a closure, and the place after a unless a leaves for good.
Flow == [a \in Addr |->
           (IF code[a].kind \in Targeted THEN {code[a].target} ELSE {})
             \cup (IF code[a].kind \in Closing THEN {} ELSE {a + 1})]

\* When the walk ends, the instructions counted are those that control can
\* reach from the public symbols.
Coverage == Done => Processed = Reach(entrypoints, Flow)

\* An instruction is counted, or on the stack, once for being a public symbol
\* and once for being visited: no instruction escapes the counts, whatever
\* the order of the walk.
One(b) == IF b THEN 1 ELSE 0
OnStack(a) == Cardinality({i \in DOMAIN next : next[i] = a})
CountsExact ==
  \A a \in Addr :
    counted[a] + OnStack(a) = One(a \in entrypoints) + One(a \in visited)

\* A pair is recorded at most once, its first instruction lets control go on
\* to its second, and no public symbol starts in its middle.
Straight(a) == code[a].kind \in {"PLAIN", "CLOSURE"}
PairsSound ==
  \A a \in Addr : paired[a] > 0 =>
    /\ paired[a] = 1
    /\ Straight(a) /\ a + 1 \in Addr \ entrypoints
    /\ a \in Processed /\ a + 1 \in Processed

\* No pair inside a block is missed: when no instruction names the second as
\* its target, the pair is recorded.
Inside(a) == \A b \in Addr : code[b].target # a
PairsComplete ==
  Done => \A a \in Processed :
    Straight(a) /\ a + 1 \notin entrypoints /\ Inside(a + 1) => paired[a] = 1

\* The walk ends, whatever the loops of the code.
Terminates == <>Done

\* "the frequency of one- and two-bytecode sequences" (README.md:64): every
\* instruction occurs once in the code.
CountedOnce == \A a \in Addr : counted[a] <= 1
=============================================================================
