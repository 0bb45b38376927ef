-------------------------- MODULE ExecutionProofs --------------------------
(***************************************************************************)
(* What the loader and the checks of the decoder guarantee for any files   *)
(* of the compiler, cut short at any byte.                                 *)
(***************************************************************************)
EXTENDS Execution, LoaderProofs

---------------------------------------------------------------------------
(***************************************************************************)
(* The inductive invariant: as long as the tables are there, the           *)
(* instruction pointer, the targets of closures and the return addresses   *)
(* are where instructions start, but for the first return address, which   *)
(* is the end of the code.                                                 *)
(***************************************************************************)
Statuses == {"start", "refused", "run", "halted", "failed", "stopped"}

Returns ==
  /\ calls \in Seq(Int)
  /\ \A k \in 2..Len(calls) : calls[k] \in Starts(file)
  /\ status = "run" => calls # << >> /\ calls[1] = bf.code_size

IInv ==
  /\ file \in Files /\ size \in 0..FileSize(file) /\ status \in Statuses
  /\ status \in {"run", "halted"} => Faithful(file, size, bf)
  /\ ip \in Int
  /\ status \in {"run", "failed", "stopped"} /\ size >= TablesEnd(file)
       => ip \in Starts(file)
  /\ closures \subseteq Starts(file)
  /\ Returns
  /\ Whole => /\ status \notin {"refused", "failed"}
              /\ status = "halted" => calls = << >>

\* Before the file is loaded there is nothing to be wrong.
LEMMA InitIInv == Init => IInv
<1> SUFFICES ASSUME Init PROVE IInv
  OBVIOUS
<1>1. /\ file \in Files /\ size \in 0..FileSize(file) /\ status = "start"
      /\ ip = 0 /\ calls = << >> /\ closures = {}
  BY DEF Init
<1>2. Returns
  <2>1. << >> \in Seq(Int) /\ Len(<< >>) = 0
    OBVIOUS
  <2>2. QED
    BY <1>1, <2>1 DEF Returns
<1>3. QED
  BY <1>1, <1>2 DEF IInv, Statuses

\* The loader leaves ip where main starts, or stops.
LEMMA LoadStep == IInv /\ Load => IInv'
<1> SUFFICES ASSUME IInv, Load PROVE IInv'
  OBVIOUS
<1>1. /\ file \in Files /\ size \in 0..FileSize(file) /\ ip \in Int
      /\ closures \subseteq Starts(file) /\ Compiled(file)
  BY FilesAssumption DEF IInv
<1>2. /\ bf' \in ReadFile(file, size)
      /\ status' = IF bf'.loaded THEN "run" ELSE "refused"
      /\ ip' = IF bf'.loaded THEN bf'.entry ELSE ip
      /\ calls' = IF bf'.loaded THEN <<bf'.code_size>> ELSE calls
      /\ file' = file /\ size' = size /\ closures' = closures
      /\ status = "start"
  BY DEF Load
<1>3. PICK b : b = bf'
  OBVIOUS
<1>4. /\ b.loaded \in BOOLEAN
      /\ b.loaded = TRUE => /\ Faithful(file, size, b)
                            /\ b.entry \in Int
                            /\ size >= TablesEnd(file) => b.entry \in Starts(file)
      /\ size = FileSize(file) => b.loaded = TRUE
  BY <1>1, <1>2, <1>3, Loads
<1>5. CASE b.loaded = TRUE
  <2>1. status' = "run" /\ ip' = b.entry /\ calls' = <<b.code_size>>
    BY <1>2, <1>3, <1>5
  <2>2. Faithful(file, size, b) /\ b.code_size \in Int
    BY <1>4, <1>5 DEF Faithful
  <2>3. Returns'
    <3>1. PICK w : w = calls'
      OBVIOUS
    <3>2. w \in Seq(Int) /\ Len(w) = 1 /\ w # << >> /\ w[1] = b.code_size
      BY <3>1, <2>1, <2>2
    <3>3. \A k \in 2..Len(w) : w[k] \in Starts(file)
      BY <3>2
    <3>4. QED
      BY <3>1, <3>2, <3>3, <1>2, <1>3 DEF Returns
  <2>4. QED
    BY <2>1, <2>2, <2>3, <1>1, <1>2, <1>3, <1>4, <1>5 DEF IInv, Statuses, Whole
<1>6. CASE b.loaded = FALSE
  <2>1. status' = "refused" /\ ip' = ip /\ calls' = calls
    BY <1>2, <1>3, <1>6
  <2>2. Returns'
    BY <1>2, <2>1 DEF IInv, Returns
  <2>3. QED
    BY <2>1, <2>2, <1>1, <1>2, <1>4, <1>6 DEF IInv, Statuses, Whole
<1>7. QED
  BY <1>4, <1>5, <1>6

\* Whatever runs is in a file whose tables are there, at the start of an
\* instruction, and reads within the file.
LEMMA Runs ==
  ASSUME IInv, Running
  PROVE  /\ Compiled(file) /\ size \in Nat /\ size >= TablesEnd(file)
         /\ TablesEnd(file) \in Nat
         /\ ip \in Starts(file)
         /\ bf.code = file.code /\ bf.code_size = size - TablesEnd(file)
         /\ bf.code_size \in Nat
         /\ Current.end \in Int /\ Current.end < bf.code_size
         /\ Current.end < Len(file.code)
         /\ Current.name \in {"JMP", "CJMP", "CALL", "CLOSURE"} =>
              Current.ints[1] \in Starts(file)
         /\ Current.name \notin {"JMP", "END", "FAIL"} => Current.end \in Starts(file)
<1>1. /\ file \in Files /\ size \in 0..FileSize(file) /\ Compiled(file) /\ ip \in Int
      /\ Faithful(file, size, bf) /\ status = "run"
  BY FilesAssumption DEF IInv, Running
<1>2. TablesEnd(file) \in Nat /\ FileSize(file) \in Nat
  BY <1>1, Measures
<1>3. /\ 0 <= ip /\ ip + 1 < bf.code_size
      /\ ip + (End(bf, ip) - ip) < bf.code_size
  BY DEF Running, Decodable, Readable, CanRead
<1>4. bf.code_size \in Int /\ bf.code = file.code
  BY <1>1 DEF Faithful
<1>5. size >= TablesEnd(file)
  <2>1. SUFFICES ASSUME size < TablesEnd(file) PROVE FALSE
    BY <1>1, <1>2
  <2>2. bf.code_size < 0
    BY <1>1, <2>1 DEF Faithful
  <2>3. QED
    BY <2>2, <1>1, <1>3, <1>4
<1>6. ip \in Starts(file) /\ bf.code_size = size - TablesEnd(file)
  BY <1>1, <1>5 DEF IInv, Faithful
<1>7. /\ End(bf, ip) \in Int
      /\ End(bf, ip) < Len(file.code)
      /\ Current.end = End(bf, ip)
      /\ Current.name \in {"JMP", "CJMP", "CALL", "CLOSURE"} =>
           Current.ints[1] \in Starts(file)
      /\ Current.name \notin {"JMP", "END", "FAIL"} => End(bf, ip) \in Starts(file)
  BY <1>1, <1>4, <1>6, AtStart DEF Current
<1>8. End(bf, ip) < bf.code_size
  BY <1>3, <1>4, <1>7, <1>1
<1>9. QED
  BY <1>1, <1>2, <1>4, <1>5, <1>6, <1>7, <1>8

\* In a whole file every instruction decodes.
LEMMA WholeDecodes ==
  ASSUME IInv, status = "run", Whole
  PROVE  Decodable(bf, ip)
<1>1. /\ file \in Files /\ size \in 0..FileSize(file) /\ Compiled(file)
      /\ Faithful(file, size, bf)
  BY FilesAssumption DEF IInv
<1>2. /\ TablesEnd(file) \in Nat /\ FileSize(file) = TablesEnd(file) + Len(file.code)
      /\ Len(file.code) \in Nat /\ file.stringtab_size \in Nat
  BY <1>1, Measures
<1>3. size = FileSize(file) /\ size >= TablesEnd(file)
  BY <1>2 DEF Whole
<1>4. /\ bf.code = file.code /\ bf.code_size = Len(file.code)
      /\ bf.stringtab_size = file.stringtab_size
  <2>1. /\ bf.code = file.code /\ bf.code_size = size - TablesEnd(file)
        /\ bf.stringtab_size = file.stringtab_size
    BY <1>1, <1>3 DEF Faithful
  <2>2. QED
    BY <2>1, <1>2, <1>3
<1>5. ip \in Starts(file)
  BY <1>3 DEF IInv
<1>6. QED
  BY <1>1, <1>4, <1>5, StartDecodes

---------------------------------------------------------------------------
(***************************************************************************)
(* The steps.                                                              *)
(***************************************************************************)

\* A step within the program leaves the return addresses as they should be.
Carried ==
  /\ file' = file /\ size' = size /\ bf' = bf
  /\ closures' \subseteq Starts(file)
  /\ calls' \in Seq(Int) /\ calls' # << >> /\ calls'[1] = bf.code_size
  /\ \A k \in 2..Len(calls') : calls'[k] \in Starts(file)

\* An instruction that ends where another starts keeps the invariant.
LEMMA Moved ==
  ASSUME IInv, Running, Carried, NEW target \in Starts(file), MoveTo(target)
  PROVE  IInv'
<1>1. /\ Compiled(file) /\ size \in Nat /\ size >= TablesEnd(file)
      /\ TablesEnd(file) \in Nat /\ bf.code_size = size - TablesEnd(file)
  BY Runs
<1>2. ip' = target /\ status' = IF target = bf.code_size THEN "halted" ELSE "run"
  BY DEF MoveTo
<1>3. /\ file \in Files /\ size \in 0..FileSize(file)
      /\ Faithful(file, size, bf)
  BY DEF IInv, Running
<1>4. /\ FileSize(file) = TablesEnd(file) + Len(file.code) /\ Len(file.code) \in Nat
      /\ target \in 0..(Len(file.code) - 1)
  BY <1>1, Measures
<1>5. Whole => status' # "halted"
  <2>1. Whole => bf.code_size = Len(file.code)
    BY <1>1, <1>4 DEF Whole
  <2>2. target # Len(file.code)
    BY <1>4
  <2>3. QED
    BY <2>1, <2>2, <1>2
<1>6. Returns'
  BY <1>2 DEF Carried, Returns
<1>7. status' \in {"run", "halted"} /\ ip' \in Starts(file) /\ ip' \in Int
  BY <1>2, <1>4
<1>8. file' = file /\ size' = size /\ bf' = bf /\ closures' \subseteq Starts(file)
      /\ (Whole' <=> Whole)
  BY DEF Carried, Whole
<1>9. QED
  BY <1>3, <1>5, <1>6, <1>7, <1>8 DEF IInv, Statuses

\* The step that gives up leaves ip where it was, and is not one of a whole
\* file.
LEMMA Failed ==
  ASSUME IInv, Running, Carried, NEW how \in {"failed", "stopped"}, Fail(how),
         Whole => how = "stopped"
  PROVE  IInv'
<1>1. status' = how /\ ip' = ip
  BY DEF Fail
<1>2. /\ file \in Files /\ size \in 0..FileSize(file) /\ ip \in Int
      /\ size >= TablesEnd(file) => ip \in Starts(file)
  BY DEF IInv, Running
<1>3. Returns'
  BY <1>1 DEF Carried, Returns
<1>4. file' = file /\ size' = size /\ bf' = bf /\ closures' \subseteq Starts(file)
      /\ (Whole' <=> Whole)
  BY DEF Carried, Whole
<1>5. status' \notin {"start", "refused", "run", "halted"} /\ status' \in Statuses
      /\ (Whole => status' # "failed")
  BY <1>1 DEF Statuses
<1>6. QED
  BY <1>1, <1>2, <1>3, <1>4, <1>5 DEF IInv

\* So does update_ip to where an instruction starts.
LEMMA Updated ==
  ASSUME IInv, Running, Carried, NEW target \in Starts(file), update_ip(target)
  PROVE  IInv'
<1>1. CASE InBounds(target)
  <2>1. MoveTo(target)
    BY <1>1 DEF update_ip
  <2>2. QED
    BY <2>1, Moved
<1>2. CASE ~InBounds(target)
  <2>1. Fail("failed")
    BY <1>2 DEF update_ip
  <2>2. Whole => InBounds(target)
    <3>1. /\ Compiled(file) /\ size \in Nat /\ TablesEnd(file) \in Nat
          /\ bf.code_size = size - TablesEnd(file)
      BY Runs
    <3>2. /\ FileSize(file) = TablesEnd(file) + Len(file.code)
          /\ Len(file.code) \in Nat /\ target \in 0..(Len(file.code) - 1)
      BY <3>1, Measures
    <3>3. HAVE Whole
    <3>4. bf.code_size = Len(file.code)
      BY <3>1, <3>2, <3>3 DEF Whole
    <3>5. 0 <= target /\ target <= Len(file.code)
      BY <3>2
    <3>6. QED
      BY <3>4, <3>5 DEF InBounds
  <2>3. QED
    BY <2>1, <2>2, <1>2, Failed
<1>3. QED
  BY <1>1, <1>2

\* Without a call or a return everything is carried.
LEMMA CarriedOver ==
  ASSUME IInv, Running, UNCHANGED <<file, size, bf, calls>>,
         closures' \subseteq Starts(file)
  PROVE  Carried
BY DEF IInv, Running, Returns, Carried

\* A read past the end of the file ends the process.
LEMMA UndecodableStep == IInv /\ Undecodable => IInv'
<1> SUFFICES ASSUME IInv, Undecodable PROVE IInv'
  OBVIOUS
<1>1. /\ status = "run" /\ ~Decodable(bf, ip) /\ status' = "failed" /\ ip' = ip
      /\ file' = file /\ size' = size /\ bf' = bf /\ calls' = calls
      /\ closures' = closures
  BY DEF Undecodable, Fail
<1>2. ~Whole
  BY <1>1, WholeDecodes
<1>3. /\ file \in Files /\ size \in 0..FileSize(file) /\ ip \in Int
      /\ size >= TablesEnd(file) => ip \in Starts(file)
      /\ closures \subseteq Starts(file)
  BY <1>1 DEF IInv
<1>4. Returns'
  BY <1>1 DEF IInv, Returns
<1>5. ~Whole'
  BY <1>1, <1>2 DEF Whole
<1>6. QED
  BY <1>1, <1>3, <1>4, <1>5 DEF IInv, Statuses

\* An instruction without a way of its own is followed by the next.
LEMMA StepStep == IInv /\ Step => IInv'
<1> SUFFICES ASSUME IInv, Step PROVE IInv'
  OBVIOUS
<1>1. /\ Running /\ Current.name \in {"STEP", "TEXT"}
      /\ UNCHANGED <<file, size, bf, calls, closures>>
  BY DEF Step
<1>2. PICK target : target = Current.end
  OBVIOUS
<1>3. MoveTo(target)
  BY <1>2 DEF Step, MoveTo
<1>4. target \in Starts(file)
  BY <1>1, <1>2, Runs
<1>5. Carried
  BY <1>1, CarriedOver DEF IInv
<1>6. QED
  BY <1>1, <1>3, <1>4, <1>5, Moved

\* FAIL and the instructions the interpreter does not support end the process.
LEMMA StopStep == IInv /\ Stop => IInv'
<1> SUFFICES ASSUME IInv, Stop PROVE IInv'
  OBVIOUS
<1>1. Running /\ Fail("stopped") /\ UNCHANGED <<file, size, bf, calls, closures>>
  BY DEF Stop
<1>2. Carried
  BY <1>1, CarriedOver DEF IInv
<1>3. QED
  BY <1>1, <1>2, Failed

\* The operand of JMP is where an instruction starts.
LEMMA JmpStep == IInv /\ Jmp => IInv'
<1> SUFFICES ASSUME IInv, Jmp PROVE IInv'
  OBVIOUS
<1>1. /\ Running /\ Current.name = "JMP"
      /\ UNCHANGED <<file, size, bf, calls, closures>>
  BY DEF Jmp
<1>2. PICK target : target = Current.ints[1]
  OBVIOUS
<1>3. MoveTo(target)
  BY <1>2 DEF Jmp, MoveTo
<1>4. target \in Starts(file)
  BY <1>1, <1>2, Runs
<1>5. Carried
  BY <1>1, CarriedOver DEF IInv
<1>6. QED
  BY <1>1, <1>3, <1>4, <1>5, Moved

\* So is the operand of CJMP, and so is what follows it.
LEMMA CJmpStep == IInv /\ CJmp => IInv'
<1> SUFFICES ASSUME IInv, CJmp PROVE IInv'
  OBVIOUS
<1>1. /\ Running /\ Current.name = "CJMP"
      /\ UNCHANGED <<file, size, bf, calls, closures>>
  BY DEF CJmp
<1>2. PICK next : next = Current.end
  OBVIOUS
<1>3. PICK target : target = Current.ints[1]
  OBVIOUS
<1>4. MoveTo(next) \/ update_ip(target)
  BY <1>2, <1>3 DEF CJmp, MoveTo, update_ip, InBounds, Fail
<1>5. next \in Starts(file) /\ target \in Starts(file)
  BY <1>1, <1>2, <1>3, Runs
<1>6. Carried
  BY <1>1, CarriedOver DEF IInv
<1>7. QED
  BY <1>1, <1>4, <1>5, <1>6, Moved, Updated

\* The closure gets the address of a function; the handler reads what is
\* captured, and stops at the next instruction.
LEMMA ClosureStep == IInv /\ Closure => IInv'
<1> SUFFICES ASSUME IInv, Closure PROVE IInv'
  OBVIOUS
<1>1. /\ Running /\ Current.name = "CLOSURE"
      /\ closures' = closures \cup {Current.ints[1]}
      /\ UNCHANGED <<file, size, bf, calls>>
  BY DEF Closure
<1>2. PICK next : next = Current.end
  OBVIOUS
<1>3. MoveTo(next)
  BY <1>2 DEF Closure, MoveTo
<1>4. next \in Starts(file) /\ Current.ints[1] \in Starts(file)
  BY <1>1, <1>2, Runs
<1>5. closures' \subseteq Starts(file)
  BY <1>1, <1>4 DEF IInv
<1>6. Carried
  BY <1>1, <1>5, CarriedOver
<1>7. QED
  BY <1>1, <1>3, <1>4, <1>6, Moved

\* A call pushes the address after it, which is the start of an instruction.
LEMMA CallStep == IInv /\ Call => IInv'
<1> SUFFICES ASSUME IInv, Call PROVE IInv'
  OBVIOUS
<1>1. /\ Running /\ Current.name \in {"CALL", "CALLC"}
      /\ calls' = Append(calls, ReturnAddress(Current.end))
      /\ UNCHANGED <<file, size, bf, closures>>
  BY DEF Call
<1>2. PICK target \in IF Current.name = "CALL" THEN {Current.ints[1]} ELSE closures :
        update_ip(target)
  BY DEF Call
<1>3. closures \subseteq Starts(file) /\ Returns /\ status = "run"
  BY <1>1 DEF IInv, Running
<1>4. target \in Starts(file)
  <2>1. Current.name = "CALL" => Current.ints[1] \in Starts(file)
    BY <1>1, Runs
  <2>2. QED
    BY <2>1, <1>2, <1>3
<1>5. PICK next : next = Current.end
  OBVIOUS
<1>6. next \in Starts(file) /\ next \in Int
  BY <1>1, <1>5, Runs
<1>7. Carried
  <2>1. PICK old : old = calls
    OBVIOUS
  <2>2. PICK new : new = Append(old, next)
    OBVIOUS
  <2>3. /\ old \in Seq(Int) /\ old # << >> /\ old[1] = bf.code_size
        /\ \A k \in 2..Len(old) : old[k] \in Starts(file)
    BY <2>1, <1>3 DEF Returns
  <2>4. Len(old) \in Nat /\ Len(old) > 0
    BY <2>3, EmptySeq
  <2>5. /\ new \in Seq(Int) /\ Len(new) = Len(old) + 1
        /\ \A k \in 1..Len(old) : new[k] = old[k]
        /\ new[Len(old) + 1] = next
    BY <2>2, <2>3, <1>6, AppendProperties
  <2>6. new # << >> /\ new[1] = bf.code_size
    BY <2>3, <2>4, <2>5
  <2>7. ASSUME NEW k \in 2..Len(new) PROVE new[k] \in Starts(file)
    <3>1. CASE k = Len(old) + 1
      BY <3>1, <2>5, <1>6
    <3>2. CASE k # Len(old) + 1
      <4>1. k \in 2..Len(old) /\ k \in 1..Len(old)
        BY <3>2, <2>4, <2>5
      <4>2. QED
        BY <4>1, <2>3, <2>5
    <3>3. QED
      BY <3>1, <3>2
  <2>8. calls' = new
    BY <1>1, <1>5, <2>1, <2>2 DEF ReturnAddress
  <2>9. QED
    BY <2>5, <2>6, <2>7, <2>8, <1>1, <1>3 DEF Carried
<1>8. QED
  BY <1>1, <1>2, <1>4, <1>7, Updated

\* The oldest return address ends the program, every other one is the start
\* of an instruction.
LEMMA EndStep == IInv /\ End_ => IInv'
<1> SUFFICES ASSUME IInv, End_ PROVE IInv'
  OBVIOUS
<1>1. /\ Running /\ update_ip(Last(calls)) /\ calls' = Front(calls)
      /\ UNCHANGED <<file, size, bf, closures>>
  BY DEF End_
<1>2. closures \subseteq Starts(file) /\ Returns /\ status = "run"
  BY <1>1 DEF IInv, Running
<1>3. PICK old : old = calls
  OBVIOUS
<1>4. /\ old \in Seq(Int) /\ old # << >> /\ old[1] = bf.code_size
      /\ \A k \in 2..Len(old) : old[k] \in Starts(file)
  BY <1>3, <1>2 DEF Returns
<1>5. PICK new : new = Front(old)
  OBVIOUS
<1>6. /\ Len(old) \in Nat \ {0} /\ Last(old) = old[Len(old)]
      /\ new \in Seq(Int) /\ Len(new) = Len(old) - 1
      /\ \A i \in 1..(Len(old) - 1) : new[i] = old[i]
  BY <1>4, <1>5, FrontLast
<1>7. CASE Len(old) = 1
  <2>1. new = << >>
    BY <1>6, <1>7, EmptySeq
  <2>2. Last(calls) = bf.code_size
    BY <1>3, <1>4, <1>6, <1>7
  <2>3. bf.code_size \in Nat
    BY <1>1, Runs
  <2>4. InBounds(Last(calls))
    BY <2>2, <2>3 DEF InBounds
  <2>5. status' = "halted" /\ ip' = bf.code_size
    BY <1>1, <2>2, <2>4 DEF update_ip, MoveTo
  <2>6. calls' = << >>
    BY <1>1, <1>3, <1>5, <2>1
  <2>7. Returns'
    <3>1. << >> \in Seq(Int) /\ Len(<< >>) = 0
      OBVIOUS
    <3>2. QED
      BY <3>1, <2>5, <2>6 DEF Returns
  <2>8. file \in Files /\ size \in 0..FileSize(file) /\ Faithful(file, size, bf)
    BY <1>2 DEF IInv
  <2>9. QED
    BY <1>1, <1>2, <2>3, <2>5, <2>6, <2>7, <2>8 DEF IInv, Statuses
<1>8. CASE Len(old) # 1
  <2>1. Len(old) \in 2..Len(old)
    BY <1>6, <1>8
  <2>2. PICK target : target = Last(calls)
    OBVIOUS
  <2>3. target \in Starts(file)
    BY <2>1, <2>2, <1>3, <1>4, <1>6
  <2>4. update_ip(target)
    BY <1>1, <2>2 DEF update_ip, InBounds, MoveTo, Fail
  <2>5. Len(new) \in Nat /\ Len(new) > 0 /\ new[1] = old[1]
    BY <1>6, <1>8
  <2>6. ASSUME NEW k \in 2..Len(new) PROVE new[k] \in Starts(file)
    <3>1. k \in 2..Len(old) /\ k \in 1..(Len(old) - 1)
      BY <1>6
    <3>2. QED
      BY <3>1, <1>4, <1>6
  <2>7. calls' = new
    BY <1>1, <1>3, <1>5
  <2>8. Carried
    <3>1. new # << >>
      BY <2>5
    <3>2. QED
      BY <3>1, <2>5, <2>6, <2>7, <1>1, <1>2, <1>4, <1>6 DEF Carried
  <2>9. QED
    BY <2>3, <2>4, <2>8, <1>1, Updated
<1>9. QED
  BY <1>7, <1>8

\* A stuttering step changes nothing the invariant speaks of.
LEMMA Stutter == IInv /\ UNCHANGED vars => IInv'
<1> SUFFICES ASSUME IInv, UNCHANGED vars PROVE IInv'
  OBVIOUS
<1>1. UNCHANGED <<file, size, status, bf, ip, calls, closures>>
  BY DEF vars
<1>2. Returns' /\ (Whole' <=> Whole)
  BY <1>1 DEF IInv, Returns, Whole
<1>3. QED
  BY <1>1, <1>2 DEF IInv

\* Every run of every file keeps the inductive invariant.
THEOREM Invariance == Spec => []IInv
<1>1. IInv /\ [Next]_vars => IInv'
  BY LoadStep, UndecodableStep, StepStep, StopStep, JmpStep, CJmpStep,
     ClosureStep, CallStep, EndStep, Stutter DEF Next
<1>2. QED
  BY <1>1, InitIInv, PTL DEF Spec

---------------------------------------------------------------------------
(***************************************************************************)
(* The properties.                                                         *)
(***************************************************************************)

\* No file of the compiler, cut short at any byte, makes processInstruction
\* read past its end.
THEOREM ReadsInFileCorrect == Spec => []ReadsInFile
<1>1. IInv => ReadsInFile
  <2> SUFFICES ASSUME IInv, Running PROVE Current.end <= Present
    BY DEF ReadsInFile
  <2>1. /\ bf.code_size = size - TablesEnd(file) /\ bf.code_size \in Nat
        /\ Current.end \in Int /\ Current.end < bf.code_size
    BY Runs
  <2>2. QED
    BY <2>1 DEF Present
<1>2. QED
  BY <1>1, Invariance, PTL

\* The instruction pointer and the return addresses stay where the compiler
\* started an instruction.
THEOREM OnBoundaryCorrect == Spec => []OnBoundary
<1>1. IInv => OnBoundary
  <2> SUFFICES ASSUME IInv PROVE OnBoundary
    OBVIOUS
  <2>1. Compiled(file)
    BY FilesAssumption DEF IInv
  <2>2. Starts(file) \subseteq ToSet(file.starts)
    <3>1. file.starts \in Seq(Nat) /\ Len(file.starts) \in Nat
      BY <2>1 DEF Compiled
    <3>2. QED
      BY <3>1 DEF Starts, ToSet
  <2>3. \A k \in DOMAIN calls : k = 1 \/ calls[k] \in Starts(file)
    <3>1. calls \in Seq(Int) /\ \A k \in 2..Len(calls) : calls[k] \in Starts(file)
      BY DEF IInv, Returns
    <3>2. QED
      BY <3>1
  <2>4. status \in {"run", "failed", "stopped"} /\ size >= TablesEnd(file)
          => ip \in Starts(file)
    BY DEF IInv
  <2>5. QED
    BY <2>2, <2>3, <2>4 DEF OnBoundary
<1>2. QED
  BY <1>1, Invariance, PTL

\* A file cut within its tables may pass the loader and yet never runs an
\* instruction.
THEOREM CutTablesCorrect == Spec => []CutTablesNeverRun
<1>1. IInv => CutTablesNeverRun
  <2> SUFFICES ASSUME IInv, Running, size < TablesEnd(file) PROVE FALSE
    BY DEF CutTablesNeverRun
  <2>1. size \in Nat /\ size >= TablesEnd(file) /\ TablesEnd(file) \in Nat
    BY Runs
  <2>2. QED
    BY <2>1
<1>2. QED
  BY <1>1, Invariance, PTL

\* The loader and the decoder pass every whole file, whatever its program.
THEOREM WholeRunsCorrect == Spec => []WholeRuns
<1>1. IInv => WholeRuns
  BY DEF IInv, WholeRuns
<1>2. QED
  BY <1>1, Invariance, PTL

\* A whole program halts only with its last call returned.
THEOREM HaltsWithMainCorrect == Spec => []HaltsWithMain
<1>1. IInv => HaltsWithMain
  BY DEF IInv, HaltsWithMain
<1>2. QED
  BY <1>1, Invariance, PTL
=============================================================================
