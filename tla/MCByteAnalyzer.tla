--------------------------- MODULE MCByteAnalyzer ---------------------------
(***************************************************************************)
(* ByteAnalyzer for TLC: every program of N instructions of Alphabet, with *)
(* the first public, or the first and the third.                           *)
(***************************************************************************)
EXTENDS ByteAnalyzer, Compiler

Targets == {1, 3}
DROP == Instr(24, << >>)
DUP == Instr(25, << >>)
LD == Instr(32, <<0>>)
END == Instr(22, << >>)
CALLC == Instr(85, <<1>>)
JMP == {Branch(21, k, << >>) : k \in Targets}
CJMP == {Branch(80, k, << >>) : k \in Targets}
CALL == {Branch(86, k, <<1>>) : k \in Targets}
CLOSURE == {Capture(k, 1) : k \in Targets}

Closers == {END} \cup JMP
Alphabet == {DROP, DUP, LD, CALLC} \cup Closers \cup CJMP \cup CALL \cup CLOSURE

Programs == {p \in [1..N -> Alphabet] : p[N] \in Closers}
MCFiles == {File(p, publics, 0) : p \in Programs, publics \in {<<1>>, <<3, 1>>}}
MCGarbage == {0}
=============================================================================
