---------------------------- MODULE CompiledFile ----------------------------
(***************************************************************************)
(* What the interpreter and the analyzer may expect of a file that lamac   *)
(* -b wrote.                                                               *)
(***************************************************************************)
EXTENDS Bytefile, Processor

CONSTANT Files          \* files of the compiler

(***************************************************************************)
(* Every instruction but the STOP that ends the file has an opcode below   *)
(* 128, its integers and, for CLOSURE, a location of a known type for each *)
(* captured variable; the next one starts after them; branches lead to     *)
(* instructions; text is in the string table; no code runs off its end.    *)
(***************************************************************************)
Starts(f) == {f.starts[k] : k \in 1..(Len(f.starts) - 1)}

InstructionOK(f, k) ==
  LET start == f.starts[k]
      i == Decoded(f, start)
      locs == IF i.name = "CLOSURE" THEN i.ints[2] ELSE 0
  IN /\ locs \in Nat
     /\ f.starts[k + 1] = FixedEnd(f, start) + LocBytes * locs
     /\ start < f.starts[k + 1]
     /\ i.name # "UNKNOWN" /\ f.code[start + 1] < 128
     /\ LocsKnown(f, start)
     /\ i.name = "TEXT" => i.ints[1] \in 0..f.stringtab_size
     /\ i.name \in {"JMP", "CJMP", "CALL", "CLOSURE"} => i.ints[1] \in Starts(f)
     /\ k = Len(f.starts) - 1 => i.name \in {"JMP", "END", "FAIL"}

Compiled(f) ==
  /\ f.stringtab_size \in Nat /\ f.global_area_size \in Nat
  /\ f.code \in Seq(0..255)
  /\ f.starts \in Seq(Nat) /\ Len(f.starts) > 1
  /\ f.starts[Len(f.starts)] = Len(f.code) - 1
  /\ \A k \in 1..(Len(f.starts) - 1) : InstructionOK(f, k)
  /\ f.publics \in Seq([name : 0..f.stringtab_size, offset : Starts(f),
                        isMain : BOOLEAN])
  /\ \E i \in DOMAIN f.publics :
       f.publics[i].isMain /\ f.publics[i].name + NameBytes <= f.stringtab_size

ASSUME FilesAssumption == \A f \in Files : Compiled(f)
=============================================================================
