----------------------------- MODULE Execution -----------------------------
(***************************************************************************)
(* The interpreter's way through the bytes of a file: main loads it with   *)
(* readFile and calls processInstruction until the instruction pointer is  *)
(* at the end of the code (src/src/main.cpp).  The call stack is reduced   *)
(* to the return addresses and the operand stack to the targets of the     *)
(* closures made so far; Interpreter has the rest of both.  The file is    *)
(* one the compiler wrote, whole or cut short at any byte.                 *)
(***************************************************************************)
EXTENDS CompiledFile

CONSTANT MaxCalls      \* bound: calls active at a time

VARIABLES file, size,   \* what the compiler wrote, and the bytes that are left
          status,       \* start, refused, run, halted, failed, stopped
          bf,           \* the tables readFile returned
          ip,           \* the instruction pointer, from code_ptr
          calls,        \* the return addresses, the oldest first
          closures      \* the targets of closures

vars == <<file, size, status, bf, ip, calls, closures>>

Init ==
  /\ file \in Files
  /\ size \in 0..FileSize(file)
  /\ status = "start"
  /\ bf = NoFile
  /\ ip = 0
  /\ calls = << >>
  /\ closures = {}

\* main: readFile, then the return address under the frame of "main".
Load ==
  /\ status = "start"
  /\ bf' \in ReadFile(file, size)
  /\ status' = IF bf'.loaded THEN "run" ELSE "refused"
  /\ ip' = IF bf'.loaded THEN bf'.entry ELSE ip
  /\ calls' = IF bf'.loaded THEN <<bf'.code_size>> ELSE calls
  /\ UNCHANGED <<file, size, closures>>

(***************************************************************************)
(* The loop.  It ends after the instruction that leaves ip at the end of   *)
(* the code.                                                               *)
(***************************************************************************)
Running == status = "run" /\ Decodable(bf, ip)
Current == Decoded(bf, ip)

MoveTo(offset) ==
  /\ ip' = offset
  /\ status' = IF offset = bf.code_size THEN "halted" ELSE "run"

Fail(how) == status' = how /\ UNCHANGED ip

\* Mutant: the end of the code is out of bounds.
InCode(offset) == 0 <= offset /\ offset < bf.code_size

\* The end of the code is where "main" returns to.
InBounds(offset) == 0 <= offset /\ offset <= bf.code_size

update_ip(offset) == IF InBounds(offset) THEN MoveTo(offset) ELSE Fail("failed")

Undecodable ==
  /\ status = "run"
  /\ ~Decodable(bf, ip)
  /\ Fail("failed")
  /\ UNCHANGED <<file, size, bf, calls, closures>>

\* All the instructions that only go on to the next.
Step ==
  /\ Running
  /\ Current.name \in {"STEP", "TEXT"}
  /\ MoveTo(Current.end)
  /\ UNCHANGED <<file, size, bf, calls, closures>>

\* FAIL, and what the interpreter does not support.
Stop ==
  /\ Running
  /\ Current.name \in {"FAIL", "UNSUPPORTED"}
  /\ Fail("stopped")
  /\ UNCHANGED <<file, size, bf, calls, closures>>

\* processJmp sets ip without the check of update_ip.
Jmp ==
  /\ Running
  /\ Current.name = "JMP"
  /\ MoveTo(Current.ints[1])
  /\ UNCHANGED <<file, size, bf, calls, closures>>

CJmp ==
  /\ Running
  /\ Current.name = "CJMP"
  /\ MoveTo(Current.end) \/ update_ip(Current.ints[1])
  /\ UNCHANGED <<file, size, bf, calls, closures>>

Closure ==
  /\ Running
  /\ Current.name = "CLOSURE"
  /\ closures' = closures \cup {Current.ints[1]}
  /\ MoveTo(Current.end)
  /\ UNCHANGED <<file, size, bf, calls>>

\* Mutant: the call returns to the end of the code, as main does.
ReturnToEnd(end) == bf.code_size

ReturnAddress(end) == end

\* CALL, to its operand, and CALLC, to the target of a closure.
Call ==
  /\ Running
  /\ Current.name \in {"CALL", "CALLC"}
  /\ Len(calls) < MaxCalls
  /\ \E target \in IF Current.name = "CALL" THEN {Current.ints[1]} ELSE closures :
       update_ip(target)
  /\ calls' = Append(calls, ReturnAddress(Current.end))
  /\ UNCHANGED <<file, size, bf, closures>>

End_ ==
  /\ Running
  /\ Current.name = "END"
  /\ update_ip(Last(calls))
  /\ calls' = Front(calls)
  /\ UNCHANGED <<file, size, bf, closures>>

Next == \/ Load \/ Undecodable \/ Step \/ Stop \/ Jmp \/ CJmp
        \/ Closure \/ Call \/ End_

Spec == Init /\ [][Next]_vars

-----------------------------------------------------------------------------
Whole == size = FileSize(file)
Present == size - TablesEnd(file)     \* the bytes of the code that are left

\* The checks of readByte and readInt keep every byte that processInstruction
\* reads within what the file has, wherever the file was cut.
ReadsInFile == Running => Current.end <= Present

\* ip and the return addresses are always where the compiler started an
\* instruction, though CLOSURE leaves part of its operands to its handler.
OnBoundary ==
  /\ status \in {"run", "failed", "stopped"} /\ size >= TablesEnd(file)
       => ip \in ToSet(file.starts)
  /\ \A k \in DOMAIN calls : calls[k] \in ToSet(file.starts) \/ k = 1

\* readFile compares the tables with the size of the file and forgets the
\* header; a file cut within its tables still never runs an instruction,
\* since code_size does count the header.
CutTablesNeverRun == size < TablesEnd(file) => ~Running

\* A whole file passes every check of the loader and the decoder.  These
\* never give the last byte of the code, which is a STOP of the compiler's.
WholeRuns == Whole => status \notin {"refused", "failed"}

\* A whole program halts where "main" returns, and nowhere else.  (One cut
\* where a branch leads halts there, with calls active.)
HaltsWithMain == Whole /\ status = "halted" => calls = << >>
=============================================================================
