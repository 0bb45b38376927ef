------------------------------ MODULE Compiler ------------------------------
(***************************************************************************)
(* What lamac -b writes, the input of both programs (external): the        *)
(* encoding of instructions, and a file with its tables.  An instruction   *)
(* is an opcode, its integers, and the variables a closure captures; a     *)
(* target is the index of an instruction.                                  *)
(***************************************************************************)
EXTENDS Integers, Sequences, SequencesExt, FiniteSetsExt

Instr(opcode, ints) == [opcode |-> opcode, ints |-> ints, target |-> 0, locs |-> 0]
Branch(opcode, target, ints) ==
  [opcode |-> opcode, ints |-> ints, target |-> target, locs |-> 0]
Capture(target, n) ==
  [opcode |-> 84, ints |-> <<n>>, target |-> target, locs |-> n]

\* The last byte of every compiled file is a STOP.
STOP == 255

Width(i) == 1 + 4 * (Len(i.ints) + IF i.target = 0 THEN 0 ELSE 1) + 5 * i.locs

\* The offset of instruction k of program p.
OffsetOf(p, k) == FoldSet(LAMBDA j, sum : sum + Width(p[j]), 0, 1..(k - 1))

Word(n) == <<n % 256, n \div 256, 0, 0>>
Encoding(p, i) ==
  <<i.opcode>> \o (IF i.target = 0 THEN << >> ELSE Word(OffsetOf(p, i.target)))
    \o FlattenSeq([k \in DOMAIN i.ints |-> Word(i.ints[k])])
    \o FlattenSeq([k \in 1..i.locs |-> <<1>> \o Word(k - 1)])

Code(p) == Append(FlattenSeq([k \in DOMAIN p |-> Encoding(p, p[k])]), STOP)

\* The file of program p whose public symbols are the instructions in
\* publics; the last of them is main.  The program and where its instructions
\* start, the last STOP included, are kept for comparison.
File(p, publics, globals) ==
  [stringtab_size |-> 5 * Len(publics), global_area_size |-> globals,
   publics |-> [i \in DOMAIN publics |->
                  [name |-> 5 * (i - 1), offset |-> OffsetOf(p, publics[i]),
                   isMain |-> i = Len(publics)]],
   code |-> Code(p), program |-> p,
   starts |-> [k \in 1..(Len(p) + 1) |-> OffsetOf(p, k)]]
=============================================================================
