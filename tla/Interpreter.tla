---------------------------- MODULE Interpreter ----------------------------
(***************************************************************************)
(* The interpreter of src/src/main.cpp: the virtual stack, the call stack, *)
(* and the instructions that read and write them through frame pointers.   *)
(*                                                                         *)
(* Positions.  The stacks grow down in memory.  Here they are sequences    *)
(* that grow to the right: position 1 of vstack is the word at             *)
(* __gc_stack_bottom, position Len(vstack) is SP, and the word at address  *)
(* p has position 1 + (__gc_stack_bottom - p); likewise for cstack, whose  *)
(* position 1 is the word under cstack_bottom.                             *)
(*                                                                         *)
(* The program is whatever the compiler of Lama may emit: a function       *)
(* issues any instruction whose operands it has pushed itself, calls with  *)
(* the number of arguments the callee declares, and ends with its result   *)
(* on top.  depth is the compiler's count of the operands of every         *)
(* activation.  An instruction pointer is a function and a place in its    *)
(* code; place 0 is its BEGIN.                                             *)
(***************************************************************************)
EXTENDS Integers, Sequences, FiniteSets, SequencesExt, Functions

CONSTANTS
  Ints,         \* the unboxed values a run uses
  Zero,         \* BOX(0), and the 0 of argc and argv
  Funs,         \* the functions: nargs, nlocals and ncaptured of each
  NGlobals,     \* global_area_size
  VSTACK_SIZE,  \* 1048576 in the code
  CSTACK_SIZE,  \* 1048576 in the code
  Places,       \* bound: the places of a function that calls return to
  MaxClosures,  \* bound: closures of a run
  MaxElements,  \* bound: operands of BARRAY and SEXP
  Instrs        \* bound: the instructions a run uses

\* main is called with argc and argv and captures nothing; a case expression
\* outside the functions gives it locals.
ASSUME FunsAssumption ==
  /\ "main" \in DOMAIN Funs
  /\ Funs["main"].nargs = 2 /\ Funs["main"].ncaptured = 0
  /\ IsFiniteSet(DOMAIN Funs)
  /\ \A f \in DOMAIN Funs : Funs[f] \in [nargs : Nat, nlocals : Nat,
                                         ncaptured : Nat]
ASSUME SizesAssumption ==
  /\ NGlobals \in Nat /\ VSTACK_SIZE \in Nat /\ CSTACK_SIZE \in Nat
  /\ MaxClosures \in Nat /\ MaxElements \in Nat
  /\ Places \subseteq Nat \ {0}
  /\ VSTACK_SIZE >= NGlobals + 2 /\ CSTACK_SIZE >= 2
ASSUME IntsAssumption == Zero \in Ints

VARIABLES
  vstack,     \* the virtual stack
  cstack,     \* the call stack
  closures,   \* the closures on the heap: code and captured values
  ip,         \* state.ip
  status,     \* "run", "halted", or the failure that ended the process
  depth       \* the program's own count of its operands, per activation

vars == <<vstack, cstack, closures, ip, status, depth>>

ClosureValue(i) == [closure |-> i]
Entry(f) == [fun |-> f, place |-> 0]
CodeEnd == [fun |-> "", place |-> 0]      \* code_ptr + code_size

\* The bound checks of vstack_push and cstack_push, for n words.
OverflowLate(n) == Len(vstack) + n > VSTACK_SIZE + 1
Overflow(n) == Len(vstack) + n > VSTACK_SIZE
CallOverflow(n) == Len(cstack) + n > CSTACK_SIZE

\* verify_vstack: position 1 is not addressable.
BadSlotAtTop(p) == p <= 1 \/ p >= Len(vstack)
BadSlot(p) == p <= 1 \/ p > VSTACK_SIZE
Blame(p) == IF p <= 1 THEN "underflow" ELSE "overflow"

\* The frame on top of the call stack.
nlocals == cstack[Len(cstack)]
nargs == cstack[Len(cstack) - 1]
frame_pointer == cstack[Len(cstack) - 2]
ret_addr == cstack[Len(cstack) - 3]
is_closure == cstack[Len(cstack) - 4]

globalTooLow(i) == NGlobals - i
global(i) == NGlobals + 1 - i
argTooLow(i) == frame_pointer - (nargs - i)
arg(i) == frame_pointer - (nargs - 1 - i)
localFromArgs(i) == frame_pointer - i
local(i) == frame_pointer + nlocals - i
closure_loc == frame_pointer - nargs

\* The function whose code is running and what its code refers to.
Fun == Funs[ip.fun]
Self == closures[vstack[closure_loc].closure]

\* Main does not use its arguments: argc and argv have no name in Lama.
Locations ==
  {<<"G", i>> : i \in 0..(NGlobals - 1)} \cup {<<"L", i>> : i \in 0..(Fun.nlocals - 1)}
    \cup {<<"A", i>> : i \in IF ip.fun = "main" THEN {} ELSE 0..(Fun.nargs - 1)}
    \cup {<<"C", i>> : i \in 0..(Fun.ncaptured - 1)}

Slot(loc) == CASE loc[1] = "G" -> global(loc[2])
               [] loc[1] = "L" -> local(loc[2])
               [] loc[1] = "A" -> arg(loc[2])
               [] loc[1] = "C" -> closure_loc

Load(loc) == IF loc[1] = "C" THEN Self.captured[loc[2] + 1]
                             ELSE vstack[Slot(loc)]

Top(n) == vstack[Len(vstack) - n]
Pop(n) == SubSeq(vstack, 1, Len(vstack) - n)
IsClosure(v) == v \notin Ints

\* After __gc_init, init_vstack and the first two pushes of main().
Init ==
  /\ \E g \in [1..NGlobals -> Ints] : vstack = g \o <<Zero, Zero>>
  /\ cstack = <<FALSE, CodeEnd>>
  /\ closures = << >>
  /\ ip = Entry("main")
  /\ status = "run"
  /\ depth = <<0>>

Fail(reason) ==
  /\ status' = reason
  /\ UNCHANGED <<vstack, cstack, closures, ip, depth>>

\* The program issues an instruction on n operands of its own.
Dispatch(instr, n) ==
  /\ status = "run" /\ ip.place # 0
  /\ instr \in Instrs
  /\ Last(depth) >= n

Counted(n) == [depth EXCEPT ![Len(depth)] = n]

\* n operands are popped and vs pushed, for m operands that the program
\* counts from now on.
Rewrite(n, vs, m) ==
  IF Len(vstack) < n THEN Fail("underflow")
  ELSE IF Overflow(Len(vs) - n) THEN Fail("overflow")
  ELSE /\ vstack' = Pop(n) \o vs
       /\ depth' = Counted(m)
       /\ UNCHANGED <<cstack, closures, ip, status>>

\* The instructions that replace operands by a result, and how many.  PATT
\* stands for the patterns of one operand; what the runtime computes of the
\* operands is not modelled here, nor how it fails on them.
Arity == [CONST |-> 0, STRING |-> 0, LREAD |-> 0,
          TAG |-> 1, ARRAY |-> 1, PATT |-> 1, LWRITE |-> 1, LLENGTH |-> 1,
          BINOP |-> 2, ELEM |-> 2, PATT_STR |-> 2, STA |-> 3]

Builtin == \E instr \in DOMAIN Arity :
  /\ Dispatch(instr, Arity[instr])
  /\ \E v \in Ints : Rewrite(Arity[instr], <<v>>, Last(depth) - Arity[instr] + 1)

\* verify_vstack of the word under n operands.
Verified(n) == ~BadSlot(Len(vstack) - n)

\* BARRAY replaces its operands; SEXP first pushes the hash of its tag.
Barray == \E n \in 0..MaxElements :
  /\ Dispatch("BARRAY", n)
  /\ IF Verified(n)
       THEN \E v \in Ints : Rewrite(n, <<v>>, Last(depth) - n + 1)
       ELSE Fail(Blame(Len(vstack) - n))

Sexp == \E n \in 0..MaxElements :
  /\ Dispatch("SEXP", n)
  /\ IF ~Verified(n) THEN Fail(Blame(Len(vstack) - n))
     ELSE IF Overflow(1) THEN Fail("overflow")
     ELSE \E v \in Ints : Rewrite(n, <<v>>, Last(depth) - n + 1)

Drop == Dispatch("DROP", 1) /\ Rewrite(1, << >>, Last(depth) - 1)

Dup == Dispatch("DUP", 1) /\ Rewrite(1, <<Top(0), Top(0)>>, Last(depth) + 1)

\* SWAP pops x, then y, and pushes y, then x: the stack is as it was.
Swap == Dispatch("SWAP", 2) /\ Rewrite(2, <<Top(1), Top(0)>>, Last(depth))

\* JMP and CJMP go to a place of the function; CJMP pops its condition, and
\* may go on instead.
JumpTo(s) == ip' = [ip EXCEPT !.place = s]

Jmp == /\ Dispatch("JMP", 0)
       /\ \E s \in Places : JumpTo(s)
       /\ UNCHANGED <<vstack, cstack, closures, status, depth>>

CJmp == /\ Dispatch("CJMP", 1)
        /\ \E s \in Places \cup {ip.place} : JumpTo(s)
        /\ vstack' = Pop(1) /\ depth' = Counted(Last(depth) - 1)
        /\ UNCHANGED <<cstack, closures, status>>

\* LSTRING passes its operand and does not pop it; the program takes it that
\* the string replaces the operand.
Lstring == /\ Dispatch("LSTRING", 1)
           /\ \E v \in Ints : Rewrite(0, <<v>>, Last(depth))

Ld(loc) ==
  IF BadSlot(Slot(loc)) THEN Fail(Blame(Slot(loc)))
  ELSE Rewrite(0, <<Load(loc)>>, Last(depth) + 1)

St(loc) ==
  IF vstack = << >> THEN Fail("underflow")
  ELSE IF BadSlot(Slot(loc)) THEN Fail(Blame(Slot(loc)))
  ELSE IF loc[1] = "C"
    THEN /\ closures' = [closures EXCEPT
              ![vstack[closure_loc].closure].captured[loc[2] + 1] = Top(0)]
         /\ UNCHANGED <<vstack, cstack, ip, status, depth>>
    ELSE /\ vstack' = [vstack EXCEPT ![Slot(loc)] = Top(0)]
         /\ UNCHANGED <<cstack, closures, ip, status, depth>>

LoadName == Dispatch("LD", 0) /\ \E loc \in Locations : Ld(loc)
StoreName == Dispatch("ST", 1) /\ \E loc \in Locations : St(loc)

\* CLOSURE pushes what it captures and the address, and replaces them by the
\* closure: it needs room for all of them.
Closure ==
  /\ Dispatch("CLOSURE", 0) /\ Len(closures) < MaxClosures
  /\ \E f \in DOMAIN Funs \ {"main"} :
     \E locs \in [1..Funs[f].ncaptured -> Locations] :
        IF Overflow(Funs[f].ncaptured + 1) THEN Fail("overflow")
        ELSE IF \E i \in DOMAIN locs : BadSlot(Slot(locs[i]))
          THEN \E i \in DOMAIN locs : /\ BadSlot(Slot(locs[i]))
                                      /\ Fail(Blame(Slot(locs[i])))
        ELSE /\ closures' = Append(closures, [fun |-> f,
                               captured |-> [i \in DOMAIN locs |-> Load(locs[i])]])
             /\ vstack' = Append(vstack, ClosureValue(Len(closures) + 1))
             /\ depth' = Counted(Last(depth) + 1)
             /\ UNCHANGED <<cstack, ip, status>>

\* The transfer to function f, with n operands counted as its own.
Transfer(f, closure, n) ==
  \E s \in Places :
    IF ~Verified(Funs[f].nargs)
      THEN Fail(Blame(Len(vstack) - Funs[f].nargs))
    ELSE IF CallOverflow(2) THEN Fail("overflow")
    ELSE /\ cstack' = cstack \o <<closure, [fun |-> ip.fun, place |-> s]>>
         /\ ip' = Entry(f)
         /\ depth' = Append(Counted(Last(depth) - n), 0)
         /\ UNCHANGED <<vstack, closures, status>>

Call == \E f \in DOMAIN Funs \ {"main"} :
  /\ Funs[f].ncaptured = 0
  /\ Dispatch("CALL", Funs[f].nargs)
  /\ Transfer(f, FALSE, Funs[f].nargs)

\* CALLC takes the closure from under the arguments.
CallC == \E n \in {Funs[f].nargs : f \in DOMAIN Funs \ {"main"}} :
  /\ Dispatch("CALLC", n + 1)
  /\ LET callee == Top(n) IN
       /\ IsClosure(callee)
       /\ Funs[closures[callee.closure].fun].nargs = n
       /\ Transfer(closures[callee.closure].fun, TRUE, n + 1)

\* BEGIN and CBEGIN.
Begin ==
  /\ status = "run" /\ ip.place = 0
  /\ IF CallOverflow(3) \/ Overflow(Fun.nlocals) THEN Fail("overflow")
     ELSE /\ cstack' = cstack \o <<Len(vstack), Fun.nargs, Fun.nlocals>>
          /\ vstack' = vstack \o [i \in 1..Fun.nlocals |-> Zero]
          /\ ip' = [ip EXCEPT !.place = 1]
          /\ UNCHANGED <<closures, status, depth>>

\* SP after END: address fp + nargs + is_closure of the frame that ends.
\* (FrameStartBelow and FrameStartWithoutClosure, like the other definitions
\* that precede the one they resemble, are mistakes that the checks catch.)
FrameStartBelow == frame_pointer - nargs - 1 - (IF is_closure THEN 1 ELSE 0)
FrameStartAbove == frame_pointer - nargs + 1 - (IF is_closure THEN 1 ELSE 0)
FrameStartWithoutClosure == frame_pointer - nargs
FrameStart == frame_pointer - nargs - (IF is_closure THEN 1 ELSE 0)

\* END: SP < frame_pointer() + nlocals() tells whether there is a result.
End ==
  /\ Dispatch("END", 1) /\ Last(depth) = 1
  /\ LET returns == Len(vstack) > frame_pointer - nlocals
         rest == SubSeq(vstack, 1, FrameStart)
     IN IF returns /\ Len(vstack) = 0 THEN Fail("underflow")
        ELSE IF BadSlot(FrameStart + 2) THEN Fail(Blame(FrameStart + 2))
        ELSE IF Len(cstack) < 5 THEN Fail("underflow")
        ELSE /\ vstack' = IF returns THEN Append(rest, Top(0)) ELSE rest
             /\ cstack' = SubSeq(cstack, 1, Len(cstack) - 5)
             /\ ip' = ret_addr
             /\ IF ret_addr = CodeEnd
                  THEN status' = "halted" /\ depth' = << >>
                  ELSE LET callers == Front(depth) IN
                       /\ depth' = [callers EXCEPT ![Len(callers)] = @ + 1]
                       /\ UNCHANGED status
             /\ UNCHANGED closures

Next == \/ Builtin \/ Barray \/ Sexp \/ Jmp \/ CJmp \/ Drop \/ Dup \/ Swap \/ Lstring
        \/ LoadName \/ StoreName \/ Closure \/ Call \/ CallC \/ Begin \/ End

Spec == Init /\ [][Next]_vars

---------------------------------------------------------------------------
(***************************************************************************)
(* Properties.                                                             *)
(***************************************************************************)

Points == [fun : DOMAIN Funs \cup {""}, place : Nat]

\* The words of the call stack come in fives, from the bottom up.
WordOK(i) == CASE i % 5 = 1 -> cstack[i] \in BOOLEAN
               [] i % 5 = 2 -> cstack[i] \in Points
               [] OTHER -> cstack[i] \in Nat

Values == Ints \cup {ClosureValue(i) : i \in 1..Len(closures)}

\* Every variable of the interpreter stays in its range, and the stacks
\* within their arrays.
TypeOK ==
  /\ vstack \in Seq(Values) /\ Len(vstack) <= VSTACK_SIZE
  /\ Len(cstack) <= CSTACK_SIZE /\ \A i \in DOMAIN cstack : WordOK(i)
  /\ \A i \in DOMAIN closures :
       /\ closures[i].fun \in DOMAIN Funs
       /\ closures[i].captured \in [1..Funs[closures[i].fun].ncaptured -> Values]
  /\ ip \in Points
  /\ status \in {"run", "halted", "overflow", "underflow"}
  /\ depth \in Seq(Nat)

\* The k-th frame of the call stack.
Flag(k) == cstack[5 * k - 4]
Ret(k) == cstack[5 * k - 3]
Fp(k) == cstack[5 * k - 2]
NArgs(k) == cstack[5 * k - 1]
NLocals(k) == cstack[5 * k]
Start(k) == Fp(k) - NArgs(k) - (IF Flag(k) THEN 1 ELSE 0)

\* The frames that have passed their BEGIN; the call that has not.
Begun == Len(cstack) \div 5
Calling == Len(cstack) % 5 = 2
CallStart == Len(vstack) - Fun.nargs - (IF Flag(Begun + 1) THEN 1 ELSE 0)

LastTemp(k) == IF k < Begun THEN Start(k + 1)
               ELSE IF Calling THEN CallStart ELSE Len(vstack)
At(k) == IF k < Begun \/ Calling THEN Ret(k + 1) ELSE ip

\* The arguments of main cannot be named, so the word of argc can be the
\* first global without a compiled program noticing.
AbsFrame(k) ==
  [fun |-> At(k).fun, at |-> At(k).place,
   self |-> IF Flag(k) THEN vstack[Fp(k) - NArgs(k)] ELSE ClosureValue(0),
   args |-> IF k = 1 THEN <<Zero, Zero>>
                     ELSE SubSeq(vstack, Fp(k) - NArgs(k) + 1, Fp(k)),
   locals |-> [i \in 1..NLocals(k) |-> vstack[Fp(k) + NLocals(k) + 1 - i]],
   temps |-> SubSeq(vstack, Fp(k) + NLocals(k) + 1, LastTemp(k))]

AbsCall ==
  [fun |-> ip.fun, at |-> 0,
   self |-> IF Flag(Begun + 1) THEN vstack[CallStart + 1] ELSE ClosureValue(0),
   args |-> IF Begun = 0 THEN <<Zero, Zero>>
            ELSE SubSeq(vstack, Len(vstack) - Fun.nargs + 1, Len(vstack)),
   locals |-> << >>, temps |-> << >>]

AbsFrames == [k \in 1..Begun |-> AbsFrame(k)]
               \o (IF Calling THEN <<AbsCall>> ELSE << >>)

Machine == INSTANCE FrameMachine
             WITH frames <- AbsFrames,
                  globals <- [i \in 1..NGlobals |-> vstack[global(i - 1)]]

\* The two stacks and the frame pointers implement activation records: no
\* instruction of a function touches the arguments, locals or operands of
\* another activation, captures or globals other than the one it names, and
\* END gives the caller back its record, its place and the result.
FramesImplemented == Machine!Spec

\* LD and ST of a name do to the activation records what they do to that
\* name there: they reach the argument, local, global or captured variable
\* the instruction names, and no other.
Named(loc) == <<loc[1], loc[2] + 1>>
NamesImplemented ==
  [][status = "run" /\ status' = "run" /\ ip.place # 0 =>
       \A loc \in Locations :
         /\ Dispatch("LD", 0) /\ Ld(loc) => Machine!Load(Named(loc))
         /\ Dispatch("ST", 1) /\ St(loc) => Machine!Store(Named(loc))]_vars

\* A compiled program never runs into a check for underflow: the checks of
\* vstack_pop, verify_vstack and verify_cstack fire for lack of room alone.
NoUnderflow == status # "underflow"

\* Where the running function keeps values.
LiveSlots == (FrameStart + 1)..Len(vstack)

\* The collector scans the positions above 1, and those are all a function
\* can address: no live value hides in the word at __gc_stack_bottom.
ScannedByGc ==
  status = "run" /\ ip.place # 0 =>
    /\ \A loc \in Locations : Slot(loc) \in 2..Len(vstack)
    /\ ip.fun # "main" => LiveSlots \subseteq 2..Len(vstack)

\* The names a running function can use denote slots of their own: no two of
\* them share a word, and none lies among the operands or in the slot of the
\* closure.
NamesDistinct ==
  status = "run" /\ ip.place # 0 =>
    LET named == {loc \in Locations : loc[1] # "C"}
        operands == (Len(vstack) - Last(depth) + 1)..Len(vstack)
    IN \A loc \in named :
         /\ \A other \in named \ {loc} : Slot(loc) # Slot(other)
         /\ Slot(loc) \notin operands
         /\ is_closure => Slot(loc) # closure_loc

\* The operands of a function are those the program counts, so that the
\* closure of CALLC lies right under its arguments (main.cpp:475-482).
OperandsCounted ==
  status = "run" /\ ip.place # 0 =>
    Len(vstack) = frame_pointer + nlocals + Last(depth)

\* The two words init_vstack pushes last are argc and argv (main.cpp:96):
\* a program that does not write its arguments leaves them alone.
ArgcArgvKept ==
  vstack # << >> /\ status = "run" =>
    vstack[NGlobals + 1] = Zero /\ vstack[NGlobals + 2] = Zero

\* "Virtual stack overflow!" and "Call stack overflow!" (main.cpp:56, 66) mean
\* what they say: no program is stopped by a bounds check while both stacks
\* have room for what any one instruction pushes.
Widest == Max({1} \cup {Funs[f].nlocals : f \in DOMAIN Funs}
                  \cup {Funs[f].ncaptured + 1 : f \in DOMAIN Funs})
OverflowMeansFull ==
  status = "overflow" => Overflow(Widest) \/ CallOverflow(3)
=============================================================================
