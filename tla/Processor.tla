----------------------------- MODULE Processor -----------------------------
(***************************************************************************)
(* The decoder of src/src/processor.h, which the interpreter and the       *)
(* analyzer share: the bytes an instruction takes, and the checks of       *)
(* readByte, readInt, readString and readLoc on the way.                   *)
(*                                                                         *)
(* Code is a sequence of bytes; the byte at offset i is code[i + 1].       *)
(***************************************************************************)
EXTENDS Integers, Sequences, SequencesExt

IntBytes == 4
LocBytes == 1 + IntBytes     \* a captured variable: its type and its index

(***************************************************************************)
(* The instructions by high and low half of the opcode, with the integers  *)
(* processInstruction reads.  "TEXT" has a string as its first operand;    *)
(* "STEP" stands for all that only go on to the next; the interpreter      *)
(* fails on "UNSUPPORTED" ones.                                            *)
(***************************************************************************)
Format(h, l, name, ints) == [h |-> h, l |-> l, name |-> name, ints |-> ints]

Formats ==
  {Format(0, 0..15, "STEP", 0),                    \* BINOP
   Format(1, {0}, "STEP", 1),                      \* CONST
   Format(1, {1}, "TEXT", 1),                      \* STRING
   Format(1, {2}, "TEXT", 2),                      \* SEXP
   Format(1, {4} \cup 8..11, "STEP", 0),           \* STA DROP DUP SWAP ELEM
   Format(1, {3, 7}, "UNSUPPORTED", 0),            \* STI RET
   Format(1, {5}, "JMP", 1),
   Format(1, {6}, "END", 0),
   Format(2, 0..3, "STEP", 1),                     \* LD
   Format(3, 0..3, "UNSUPPORTED", 1),              \* LDA
   Format(4, 0..3, "STEP", 1),                     \* ST
   Format(5, {0, 1}, "CJMP", 1),
   Format(5, {2, 3}, "STEP", 2),                   \* BEGIN CBEGIN
   Format(5, {4}, "CLOSURE", 2),
   Format(5, {5}, "CALLC", 1),
   Format(5, {6}, "CALL", 2),
   Format(5, {7}, "TEXT", 2),                      \* TAG
   Format(5, {8, 10}, "STEP", 1),                  \* ARRAY LINE
   Format(5, {9}, "FAIL", 2),
   Format(6, 0..6, "STEP", 0),                     \* PATT
   Format(6, 7..15, "UNSUPPORTED", 0),
   Format(7, 0..3, "STEP", 0),                     \* LREAD ... LSTRING
   Format(7, {4}, "STEP", 1),                      \* BARRAY
   Format(15, 0..15, "STEP", 0)}                   \* STOP

IsFormatOf(f, opcode) == f.h = opcode \div 16 /\ opcode % 16 \in f.l

\* "unexpected opcode", and the locations of LD, LDA and ST that readLoc
\* refuses.
Unknown == Format(-1, {}, "UNKNOWN", 0)
FormatTable == [opcode \in 0..255 |->
                  IF \E f \in Formats : IsFormatOf(f, opcode)
                    THEN CHOOSE f \in Formats : IsFormatOf(f, opcode)
                    ELSE Unknown]
FormatOf(opcode) == FormatTable[opcode]

\* The int32 at offset i.
Signed(byte) == IF byte < 128 THEN byte ELSE byte - 256
Int32(code, i) == code[i + 1] + 256 * code[i + 2] + 65536 * code[i + 3]
                    + 16777216 * Signed(code[i + 4])

(***************************************************************************)
(* bf is the bytefile: code, code_size and stringtab_size.                 *)
(***************************************************************************)

\* Mutant: only the start of the read is checked.
CanReadPast(bf, ip, w) == 0 <= ip /\ ip < bf.code_size

\* The check of readByte (w = 1) and readInt (w = 4): the last byte of the
\* code cannot be read.
CanRead(bf, ip, w) == 0 <= ip /\ ip + w < bf.code_size

\* Where the integers of an instruction end.
FixedEnd(bf, ip) == ip + 1 + IntBytes * FormatOf(bf.code[ip + 1]).ints

\* Mutant: CLOSURE leaves the bytes of what it captures to the next
\* instruction.
EndWithoutLocs(bf, ip) == FixedEnd(bf, ip)

\* Where the next instruction starts.  The handler of CLOSURE reads a
\* location for each variable it captures.
End(bf, ip) ==
  IF FormatOf(bf.code[ip + 1]).name = "CLOSURE"
    THEN LET n == Int32(bf.code, ip + 1 + IntBytes)
         IN FixedEnd(bf, ip) + LocBytes * (IF n > 0 THEN n ELSE 0)
    ELSE FixedEnd(bf, ip)

\* No read of the instruction at ip fails; reads are in order, so that the
\* last one decides.
Readable(bf, ip) ==
  /\ CanRead(bf, ip, 1)
  /\ CanRead(bf, ip, FixedEnd(bf, ip) - ip)
  /\ CanRead(bf, ip, End(bf, ip) - ip)

\* The instruction at ip.
Decoded(bf, ip) ==
  LET f == FormatOf(bf.code[ip + 1])
  IN [name |-> f.name, end |-> End(bf, ip),
      ints |-> [k \in 1..f.ints |-> Int32(bf.code, ip + 1 + IntBytes * (k - 1))]]

\* The check of readString.
StringInTable(bf, pos) == 0 <= pos /\ pos <= bf.stringtab_size

\* readLoc knows the type of every variable a closure captures.
LocsKnown(bf, ip) ==
  \A o \in FixedEnd(bf, ip)..(End(bf, ip) - 1) :
    (o - FixedEnd(bf, ip)) % LocBytes = 0 => bf.code[o + 1] \in 0..3

\* processInstruction gets to the end of the instruction, the variables that
\* the handler of CLOSURE reads included.
Decodable(bf, ip) ==
  /\ Readable(bf, ip)
  /\ LocsKnown(bf, ip)
  /\ LET d == Decoded(bf, ip) IN
       /\ d.name # "UNKNOWN"
       /\ d.name = "TEXT" => StringInTable(bf, d.ints[1])
=============================================================================
