---------------------------- MODULE ByteAnalyzer ----------------------------
(***************************************************************************)
(* The frequency analyzer of src/src/analyzer.cpp on the bytes of a whole  *)
(* file: the walk that Analyzer describes by instructions, the tables that *)
(* record() fills, and the report made of them.                            *)
(***************************************************************************)
EXTENDS CompiledFile, FiniteSets

CONSTANTS N,         \* the instructions of each file, without the last STOP
          None,      \* the prev of Analyzer at first
          MaxCount   \* bound of Analyzer

ASSUME BoundsAssumption == /\ N \in Nat \ {0} /\ None \notin Int
                           /\ MaxCount \in Nat /\ MaxCount >= 3

\* The bytes of a file are those of its program: each instruction has its
\* opcode and the place of its target.
Encoded(f) ==
  /\ Len(f.starts) = N + 1
  /\ \A k \in 1..N :
       LET i == f.program[k]
           d == Decoded(f, f.starts[k])
       IN /\ FormatOf(i.opcode).name = d.name
          /\ IF d.name \in {"JMP", "CJMP", "CALL", "CLOSURE"}
               THEN i.target \in 1..N /\ d.ints[1] = f.starts[i.target]
               ELSE i.target = 0

ASSUME ProgramsAssumption == \A f \in Files : Encoded(f)

VARIABLES file,
          bf,           \* the tables readFile returned
          next,         \* offsets to process, the top last
          visited,      \* the offsets visit() has marked
          prev,         \* an offset, or NullPtr
          shortSequences,  \* the entries in use, by index
          sequences,    \* the longer ones, in the order recorded
          report,       \* what was printed; << >> until the end
          recorded      \* history: all the calls of record()

vars == <<file, bf, next, visited, prev, shortSequences, sequences, report, recorded>>

NullPtr == -1
entrypoints == {file.publics[i].offset : i \in DOMAIN file.publics}

Init ==
  /\ file \in Files
  /\ bf \in ReadFile(file, FileSize(file))
  /\ next \in SetToAllKPermutations(entrypoints) /\ Len(next) = Cardinality(entrypoints)
  /\ visited = {}
  /\ prev = NullPtr
  /\ shortSequences = << >>
  /\ sequences = << >>
  /\ report = << >>
  /\ recorded = << >>

(***************************************************************************)
(* Two sequences of bytes [begin, begin + length) of the code.             *)
(***************************************************************************)
ByteAt(i) == Signed(bf.code[i + 1])
Sequence(begin, end) == [begin |-> begin, length |-> end - begin]

Differ(s1, s2) == {i \in 0..(Min({s1.length, s2.length}) - 1) :
                     ByteAt(s1.begin + i) # ByteAt(s2.begin + i)}
ByFirstByte(s1, s2) == LET i == Min(Differ(s1, s2))
                       IN ByteAt(s2.begin + i) - ByteAt(s1.begin + i)

\* Mutant: a sequence equals all that it starts.
comparePrefix(s1, s2) == IF Differ(s1, s2) # {} THEN ByFirstByte(s1, s2) ELSE 0

compare(s1, s2) == IF Differ(s1, s2) # {} THEN ByFirstByte(s1, s2)
                                          ELSE s2.length - s1.length

(***************************************************************************)
(* record(), on the sequences s one after the other.                       *)
(***************************************************************************)
IsShort(s) == s.length \in {1, 2}

\* Two bytes take the place 256 * second + first, and one byte its own.  All
\* of them are opcodes: those of a compiled program are below 128, so that
\* as signed bytes they name places of the vector.
ShortIndex(s) == IF s.length = 1 THEN ByteAt(s.begin)
                                 ELSE 256 * ByteAt(s.begin + 1) + ByteAt(s.begin)

CountShort(table, s) ==
  LET count == IF ShortIndex(s) \in DOMAIN table THEN table[ShortIndex(s)].count ELSE 0
  IN (ShortIndex(s) :> [seq |-> s, count |-> count + 1]) @@ table

record(s) ==
  /\ shortSequences' = FoldLeft(CountShort, shortSequences, SelectSeq(s, IsShort))
  /\ sequences' = sequences \o SelectSeq(s, LAMBDA x : ~IsShort(x))
  /\ recorded' = recorded \o s

(***************************************************************************)
(* One iteration of the loop of main().                                    *)
(***************************************************************************)
ip == next[Len(next)]
Current == Decoded(bf, ip)

\* Mutant: the place after an END is visited.
IsJmpUnlessEnd == Current.name \in {"JMP", "FAIL"}

IsJmp == Current.name \in {"JMP", "END", "FAIL"}
IsControl == IsJmp \/ Current.name \in {"CJMP", "CALL", "CALLC"}

\* Mutant: the code of a closure is not visited.
TargetUnlessClosure == IF Current.name \in {"JMP", "CJMP", "CALL"}
                         THEN {Current.ints[1]} ELSE {}

Target == IF Current.name \in {"JMP", "CJMP", "CALL", "CLOSURE"}
            THEN {Current.ints[1]} ELSE {}

\* visit(): what S adds to the stack s when seen is marked.
Push(s, S, seen) == s \o SetToSeq(S \ seen)

\* Mutant: prev stays though the next instruction is not on the stack.
PrevIfVisited == IF IsControl THEN NullPtr ELSE ip

Prev == IF IsControl \/ Current.end \in visited \cup Target THEN NullPtr ELSE ip

Step ==
  /\ next # << >>
  /\ Decodable(bf, ip)
  /\ LET following == IF IsJmp THEN {} ELSE {Current.end} IN
       /\ next' = Push(Push(Front(next), Target, visited), following, visited \cup Target)
       /\ visited' = visited \cup Target \cup following
       /\ prev' = Prev
       /\ record(<<Sequence(ip, Current.end)>>
                   \o IF prev # NullPtr /\ ip \notin entrypoints
                        THEN <<Sequence(prev, Current.end)>> ELSE << >>)
  /\ UNCHANGED <<file, bf, report>>

(***************************************************************************)
(* The report: the longer sequences sorted and squashed, the short ones in *)
(* the order of the table, and all of them by count.  std::sort may leave  *)
(* entries of one count in any order; here they stay as they were.         *)
(***************************************************************************)
Squash(idioms, s) ==
  IF idioms = << >> \/ compare(Last(idioms).seq, s) # 0
    THEN Append(idioms, [seq |-> s, count |-> 1])
    ELSE [idioms EXCEPT ![Len(idioms)].count = @ + 1]

Squashed ==
  FoldLeft(Squash, << >>, SortSeq(sequences, LAMBDA s1, s2 : compare(s1, s2) < 0))
    \o LET i == SetToSortSeq(DOMAIN shortSequences, <)
       IN [k \in DOMAIN i |-> shortSequences[i[k]]]

Report ==
  /\ next = << >>
  /\ report = << >>
  /\ report' = SortSeq(Squashed, LAMBDA i1, i2 : i1.count > i2.count)
  /\ UNCHANGED <<file, bf, next, visited, prev, shortSequences, sequences, recorded>>

Next == Step \/ Report
Spec == Init /\ [][Next]_vars

(***************************************************************************)
(* Analyzer, with an instruction's index for its offset.                   *)
(***************************************************************************)
Index(offset) == (CHOOSE k \in DOMAIN file.starts : file.starts[k] = offset) - 1

Kind(name) == IF name \in {"JMP", "CJMP", "CALL", "CLOSURE", "CALLC"} THEN name
              ELSE IF name \in {"END", "FAIL"} THEN "STOP" ELSE "PLAIN"

Abstract(i) == [kind |-> Kind(FormatOf(i.opcode).name),
                target |-> IF i.target = 0 THEN None ELSE i.target - 1]

\* How often the bytes from instruction a to before b were recorded.
Times(a, b) ==
  Cardinality({i \in DOMAIN recorded :
                 recorded[i] = Sequence(file.starts[a + 1], file.starts[b + 1])})

absCode == [a \in 0..(N - 1) |-> Abstract(file.program[a + 1])]
absEntrypoints == {Index(o) : o \in entrypoints}
absNext == [i \in DOMAIN next |-> Index(next[i])]
absVisited == {Index(o) : o \in visited}
absPrev == IF prev = NullPtr THEN None ELSE Index(prev)
absCounted == [a \in 0..(N - 1) |-> Times(a, a + 1)]
absPaired == [a \in 0..(N - 1) |-> IF a = N - 1 THEN 0 ELSE Times(a, a + 2)]

A == INSTANCE Analyzer WITH
  code <- absCode, entrypoints <- absEntrypoints, next <- absNext,
  visited <- absVisited, prev <- absPrev, counted <- absCounted, paired <- absPaired

-----------------------------------------------------------------------------
(***************************************************************************)
(* Properties.                                                             *)
(***************************************************************************)
Reported == report # << >>
BytesOf(s) == SubSeq(bf.code, s.begin + 1, s.begin + s.length)
Occurrences(bytes) == Cardinality({i \in DOMAIN recorded : BytesOf(recorded[i]) = bytes})

\* On bytes the walk is that of Analyzer on instructions: the offsets that
\* the decoder and the operands give are always those of instructions, and
\* so what is proved and checked of Analyzer's walk holds of this one.
ImplementsAnalyzer == A!Init /\ [][A!Next]_(A!vars)

\* The decoder refuses none of the places the walk gets to: no file of the
\* compiler makes the analyzer fail.
NeverFails == next # << >> => Decodable(bf, ip)

\* Every sequence of bytes that was recorded is in the report once, with the
\* number of its occurrences, whether it was counted by index or by sorting
\* and merging neighbours; the most frequent come first.
ReportExact == Reported =>
  /\ {BytesOf(report[i].seq) : i \in DOMAIN report}
       = {BytesOf(recorded[i]) : i \in DOMAIN recorded}
  /\ \A i, j \in DOMAIN report : i < j =>
       /\ BytesOf(report[i].seq) # BytesOf(report[j].seq)
       /\ report[i].count >= report[j].count
  /\ \A i \in DOMAIN report : report[i].count = Occurrences(BytesOf(report[i].seq))

\* PrintProcessor decodes a sequence once, and once more if that did not end
\* it: what was recorded ends there, since a pair is of neighbours though
\* the walk takes its places from a stack.
PrintsWhole == \A i \in DOMAIN recorded :
  LET s == recorded[i]
      once == End(bf, s.begin)
  IN s.begin + s.length \in {once, End(bf, once)}
=============================================================================
