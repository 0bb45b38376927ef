-------------------------- MODULE InterpreterProofs --------------------------
(***************************************************************************)
(* What the frame arithmetic of the interpreter guarantees for any set of  *)
(* functions, any sizes of the stacks and any sequence of instructions;    *)
(* and that the frames implement the activation records of FrameMachine.   *)
(***************************************************************************)
EXTENDS Interpreter, DataLemmas

---------------------------------------------------------------------------
(***************************************************************************)
(* The inductive invariant.                                                *)
(***************************************************************************)

Activations == 1..Len(depth)
Code(k) == IF k < Len(depth) THEN Ret(k + 1) ELSE ip
First(k) == IF k <= Begun THEN Start(k) ELSE CallStart
Limit(k) == IF k < Len(depth) THEN First(k + 1) ELSE Len(vstack)

Words == BOOLEAN \cup Points \cup Nat
ClosureType ==
  UNION {[fun : {f}, captured : [1..Funs[f].ncaptured -> Values]] :
           f \in DOMAIN Funs \ {"main"}}
TypeInv ==
  /\ TypeOK
  /\ cstack \in Seq(Words)
  /\ closures \in Seq(ClosureType)

Shape ==
  /\ Len(cstack) = 5 * Begun + (IF Calling THEN 2 ELSE 0)
  /\ Calling <=> ip.place = 0
  /\ Len(depth) = Begun + (IF Calling THEN 1 ELSE 0) /\ Len(depth) >= 1
  /\ Calling => depth[Len(depth)] = 0

MainAtBottom == Ret(1) = CodeEnd /\ Flag(1) = FALSE /\ First(1) = NGlobals

CodeOK(k) ==
  /\ Code(k).fun \in DOMAIN Funs
  /\ k < Len(depth) => Code(k).place # 0
  /\ Code(k).fun = "main" <=> k = 1

ClosureOK(k) ==
  /\ Funs[Code(k).fun].ncaptured > 0 => Flag(k)
  /\ Flag(k) => \E i \in 1..Len(closures) :
                  /\ vstack[First(k) + 1] = ClosureValue(i)
                  /\ closures[i].fun = Code(k).fun

FrameOK(k) ==
  /\ NArgs(k) = Funs[Code(k).fun].nargs
  /\ NLocals(k) = Funs[Code(k).fun].nlocals
  /\ Limit(k) >= Fp(k) + NLocals(k) + depth[k]
  /\ "LSTRING" \notin Instrs => Limit(k) = Fp(k) + NLocals(k) + depth[k]

Stacked == \A j, k \in Activations : j < k => Fp(j) + NLocals(j) <= First(k)

FrameInv ==
  /\ Shape /\ MainAtBottom /\ Stacked
  /\ \A k \in Activations : CodeOK(k) /\ ClosureOK(k)
  /\ \A k \in 1..Begun : FrameOK(k)

IInv == /\ TypeInv /\ NoUnderflow /\ OverflowMeansFull
        /\ status # "halted" => FrameInv

---------------------------------------------------------------------------
(***************************************************************************)
(* What follows from it in one state.                                      *)
(***************************************************************************)

\* What the assumption on the functions says of each of them.
LEMMA FunsTyped ==
  /\ \A f \in DOMAIN Funs : /\ Funs[f].nargs \in Nat /\ Funs[f].nlocals \in Nat
                            /\ Funs[f].ncaptured \in Nat
  /\ "main" \in DOMAIN Funs /\ Funs["main"].nargs = 2
  /\ Funs["main"].ncaptured = 0
BY FunsAssumption

\* What the assumptions on the bounds say.
LEMMA SizesTyped ==
  /\ NGlobals \in Nat /\ VSTACK_SIZE \in Nat /\ CSTACK_SIZE \in Nat
  /\ MaxClosures \in Nat /\ MaxElements \in Nat /\ Places \subseteq Nat \ {0}
  /\ VSTACK_SIZE >= NGlobals + 2 /\ CSTACK_SIZE >= 2
BY SizesAssumption

\* The words of a frame have the types of its parts.
LEMMA FrameWords ==
  ASSUME TypeInv, Shape
  PROVE  /\ Begun \in Nat /\ Len(cstack) \in Nat /\ Len(depth) \in Nat \ {0}
         /\ \A k \in Activations : Flag(k) \in BOOLEAN /\ Ret(k) \in Points
         /\ \A k \in 1..Begun : /\ k \in Activations
                                /\ Fp(k) \in Nat /\ NArgs(k) \in Nat
                                /\ NLocals(k) \in Nat
         /\ \A k \in Activations : depth[k] \in Nat /\ Code(k) \in Points
<1>1. /\ Begun \in Nat /\ Len(cstack) \in Nat /\ Len(depth) \in Nat \ {0}
      /\ DOMAIN cstack = 1..Len(cstack) /\ DOMAIN depth = 1..Len(depth)
      /\ \A i \in 1..Len(depth) : depth[i] \in Nat
      /\ ip \in Points
  BY DEF TypeInv, TypeOK, Shape, Begun
<1>2. ASSUME NEW k \in Activations
      PROVE  Flag(k) \in BOOLEAN /\ Ret(k) \in Points
  <2>1. /\ 5 * k - 4 \in 1..Len(cstack) /\ (5 * k - 4) % 5 = 1
        /\ 5 * k - 3 \in 1..Len(cstack) /\ (5 * k - 3) % 5 = 2
    BY <1>1, <1>2 DEF Activations, Shape
  <2>2. WordOK(5 * k - 4) /\ WordOK(5 * k - 3)
    BY <1>1, <2>1 DEF TypeInv, TypeOK
  <2>3. QED
    BY <2>1, <2>2 DEF WordOK, Flag, Ret
<1>3. ASSUME NEW k \in 1..Begun
      PROVE  /\ k \in Activations /\ Fp(k) \in Nat /\ NArgs(k) \in Nat
             /\ NLocals(k) \in Nat
  <2>1. /\ 5 * k - 2 \in 1..Len(cstack) /\ (5 * k - 2) % 5 = 3
        /\ 5 * k - 1 \in 1..Len(cstack) /\ (5 * k - 1) % 5 = 4
        /\ 5 * k \in 1..Len(cstack) /\ (5 * k) % 5 = 0
        /\ k \in Activations
    BY <1>1, <1>3 DEF Activations, Shape
  <2>2. WordOK(5 * k - 2) /\ WordOK(5 * k - 1) /\ WordOK(5 * k)
    BY <1>1, <2>1 DEF TypeInv, TypeOK
  <2>3. \A i : i % 5 # 1 /\ i % 5 # 2 /\ WordOK(i) => cstack[i] \in Nat
    BY DEF WordOK
  <2>4. cstack[5 * k - 2] \in Nat /\ cstack[5 * k - 1] \in Nat /\ cstack[5 * k] \in Nat
    BY <2>1, <2>2, <2>3
  <2>5. QED
    BY <2>1, <2>4 DEF Fp, NArgs, NLocals
<1>4. \A k \in Activations : depth[k] \in Nat /\ Code(k) \in Points
  <2>1. ASSUME NEW k \in Activations, k < Len(depth) PROVE k + 1 \in Activations
    BY <1>1, <2>1 DEF Activations
  <2>2. QED
    BY <1>1, <1>2, <2>1 DEF Code, Activations
<1>5. QED
  BY <1>1, <1>2, <1>3, <1>4

\* The activations lie above one another, and all above the globals.
LEMMA Layout ==
  ASSUME TypeInv, FrameInv
  PROVE  /\ \A k \in Activations : /\ First(k) \in Nat /\ NGlobals <= First(k)
                                   /\ k > 1 => NGlobals + 2 <= First(k)
                                   /\ First(k) <= Len(vstack)
         /\ \A k \in 1..Begun : /\ First(k) = Fp(k) - NArgs(k) - (IF Flag(k) THEN 1 ELSE 0)
                                /\ Limit(k) \in Nat /\ Limit(k) <= Len(vstack)
                                /\ Fp(k) + NLocals(k) <= Limit(k)
         /\ Begun > 0 => Fp(1) = NGlobals + 2
<1>1. /\ Begun \in Nat /\ Len(cstack) \in Nat /\ Len(depth) \in Nat \ {0}
      /\ \A k \in Activations : Flag(k) \in BOOLEAN /\ Ret(k) \in Points
      /\ \A k \in 1..Begun : /\ k \in Activations
                             /\ Fp(k) \in Nat /\ NArgs(k) \in Nat
                             /\ NLocals(k) \in Nat
      /\ \A k \in Activations : depth[k] \in Nat /\ Code(k) \in Points
  BY FrameWords DEF FrameInv
<1>2. Len(vstack) \in Nat
  BY DEF TypeInv, TypeOK
<1>3. Len(depth) = Begun + (IF Calling THEN 1 ELSE 0)
  BY DEF FrameInv, Shape
<1>4. \A k \in 1..Begun : First(k) = Fp(k) - NArgs(k) - (IF Flag(k) THEN 1 ELSE 0)
  BY <1>1 DEF First, Start
<1>5. Begun > 0 => Fp(1) = NGlobals + 2
  <2>1. HAVE Begun > 0
  <2>2. 1 \in 1..Begun /\ 1 \in Activations
    BY <1>1, <2>1
  <2>3. Flag(1) = FALSE /\ First(1) = NGlobals /\ Code(1).fun = "main"
    BY <2>2 DEF FrameInv, MainAtBottom, CodeOK
  <2>4. NArgs(1) = 2
    BY <2>2, <2>3, FunsTyped DEF FrameInv, FrameOK
  <2>5. QED
    BY <1>1, <1>4, <2>2, <2>3, <2>4, SizesTyped
<1>6. \A k \in 1..Begun : First(k) \in Int /\ First(k) <= Fp(k)
  BY <1>1, <1>4, SMTT(30)
<1>7. ASSUME NEW k \in Activations
      PROVE  First(k) \in Int /\ NGlobals <= First(k) /\ (k > 1 => NGlobals + 2 <= First(k))
  <2>1. First(k) \in Int
    <3>1. CASE k <= Begun
      BY <1>6, <3>1, <1>1, <1>7 DEF Activations
    <3>2. CASE ~(k <= Begun)
      <4>1. Calling /\ k = Begun + 1 /\ k = Len(depth)
        BY <1>1, <1>3, <3>2, <1>7 DEF Activations
      <4>2. Flag(Begun + 1) \in BOOLEAN /\ Code(k) = ip
        BY <1>1, <1>7, <4>1 DEF Code
      <4>3. ip.fun \in DOMAIN Funs
        BY <4>1, <4>2, <1>7 DEF FrameInv, CodeOK
      <4>4. Fun.nargs \in Nat
        BY <4>3, FunsTyped DEF Fun
      <4>5. QED
        BY <1>2, <3>2, <4>2, <4>4 DEF First, CallStart
    <3>3. QED
      BY <3>1, <3>2
  <2>2. CASE k = 1
    BY <2>1, <2>2, SizesTyped DEF FrameInv, MainAtBottom
  <2>3. CASE k > 1
    <3>1. Begun > 0 /\ 1 \in 1..Begun /\ 1 \in Activations
      BY <1>1, <1>3, <1>7, <2>3 DEF Activations
    <3>2. Fp(1) + NLocals(1) <= First(k)
      BY <1>7, <2>3, <3>1 DEF FrameInv, Stacked
    <3>3. QED
      BY <1>1, <1>5, <2>1, <2>3, <3>1, <3>2, SizesTyped
  <2>4. QED
    BY <1>1, <1>7, <2>1, <2>2, <2>3 DEF Activations
<1>8. First(Len(depth)) <= Len(vstack)
  <2>1. CASE Calling
    <3>1. Flag(Begun + 1) \in BOOLEAN /\ Code(Len(depth)) = ip /\ Len(depth) = Begun + 1
          /\ Len(depth) \in Activations
      BY <1>1, <1>3, <2>1 DEF Code, Activations
    <3>2. ip.fun \in DOMAIN Funs
      BY <3>1 DEF FrameInv, CodeOK
    <3>3. Fun.nargs \in Nat
      BY <3>2, FunsTyped DEF Fun
    <3>4. QED
      BY <1>1, <1>2, <3>1, <3>3 DEF First, CallStart
  <2>2. CASE ~Calling
    <3>1. Len(depth) = Begun /\ Begun \in 1..Begun /\ Limit(Begun) = Len(vstack)
      BY <1>1, <1>3, <2>2 DEF Limit
    <3>2. Limit(Begun) >= Fp(Begun) + NLocals(Begun) + depth[Begun]
      BY <3>1 DEF FrameInv, FrameOK
    <3>3. /\ Fp(Begun) \in Nat /\ NLocals(Begun) \in Nat /\ depth[Begun] \in Nat
          /\ First(Begun) \in Int /\ First(Begun) <= Fp(Begun)
      BY <1>1, <1>6, <3>1
    <3>4. First(Begun) <= Len(vstack)
      BY <1>2, <3>1, <3>2, <3>3
    <3>5. QED
      BY <3>1, <3>4
  <2>3. QED
    BY <2>1, <2>2
<1>9. ASSUME NEW k \in Activations PROVE First(k) <= Len(vstack)
  <2>1. CASE k < Len(depth)
    <3>1. k \in 1..Begun /\ Len(depth) \in Activations
      BY <1>1, <1>3, <1>9, <2>1 DEF Activations
    <3>2. Fp(k) + NLocals(k) <= First(Len(depth))
      BY <1>9, <2>1, <3>1 DEF FrameInv, Stacked
    <3>3. QED
      BY <1>1, <1>2, <1>6, <1>7, <1>8, <3>1, <3>2
  <2>2. QED
    BY <1>1, <1>8, <1>9, <2>1 DEF Activations
<1>10. ASSUME NEW k \in 1..Begun
       PROVE  Limit(k) \in Nat /\ Limit(k) <= Len(vstack) /\ Fp(k) + NLocals(k) <= Limit(k)
  <2>1. Limit(k) >= Fp(k) + NLocals(k) + depth[k]
    BY DEF FrameInv, FrameOK
  <2>2. Limit(k) \in Int /\ Limit(k) <= Len(vstack)
    <3>1. CASE k < Len(depth)
      <4>1. k + 1 \in Activations
        BY <1>1, <3>1 DEF Activations
      <4>2. QED
        BY <1>7, <1>9, <3>1, <4>1 DEF Limit
    <3>2. CASE ~(k < Len(depth))
      BY <1>2, <3>2 DEF Limit
    <3>3. QED
      BY <3>1, <3>2
  <2>3. QED
    BY <1>1, <2>1, <2>2, SMTT(30)
<1>11. QED
  BY <1>4, <1>5, <1>7, <1>9, <1>10, SizesTyped

\* The function that runs: its frame is the last one and all of it is there.
LEMMA Running ==
  ASSUME TypeInv, FrameInv, ip.place # 0
  PROVE  /\ Len(depth) = Begun /\ Begun \in Nat \ {0} /\ Len(cstack) = 5 * Begun
         /\ Fun \in [nargs : Nat, nlocals : Nat, ncaptured : Nat]
         /\ frame_pointer \in Nat /\ nargs = Fun.nargs /\ nlocals = Fun.nlocals
         /\ is_closure \in BOOLEAN /\ ret_addr \in Points
         /\ /\ frame_pointer = Fp(Begun) /\ nargs = NArgs(Begun) /\ nlocals = NLocals(Begun)
            /\ is_closure = Flag(Begun) /\ ret_addr = Ret(Begun)
            /\ FrameStart = First(Begun)
         /\ ip.fun \in DOMAIN Funs /\ Code(Begun) = ip
         /\ FrameStart \in Nat /\ NGlobals <= FrameStart
         /\ frame_pointer = FrameStart + nargs + (IF is_closure THEN 1 ELSE 0)
         /\ ip.fun = "main" => /\ FrameStart = NGlobals /\ is_closure = FALSE
                               /\ frame_pointer = NGlobals + 2 /\ Begun = 1
         /\ ip.fun # "main" => NGlobals + 2 <= FrameStart /\ Begun > 1
         /\ Last(depth) = depth[Begun] /\ Last(depth) \in Nat
         /\ Len(vstack) \in Nat /\ frame_pointer + nlocals + Last(depth) <= Len(vstack)
         /\ Fun.ncaptured > 0 => is_closure
         /\ is_closure => \E i \in 1..Len(closures) :
                            /\ vstack[closure_loc] = ClosureValue(i)
                            /\ closures[i].fun = ip.fun
<1>1. /\ Begun \in Nat /\ Len(cstack) \in Nat /\ Len(depth) \in Nat \ {0}
      /\ \A k \in Activations : Flag(k) \in BOOLEAN /\ Ret(k) \in Points
      /\ \A k \in 1..Begun : /\ k \in Activations
                             /\ Fp(k) \in Nat /\ NArgs(k) \in Nat
                             /\ NLocals(k) \in Nat
      /\ \A k \in Activations : depth[k] \in Nat /\ Code(k) \in Points
  BY FrameWords DEF FrameInv
<1>2. /\ Len(depth) = Begun /\ Begun \in Nat \ {0} /\ Len(cstack) = 5 * Begun
      /\ Begun \in 1..Begun /\ Begun \in Activations
  BY <1>1 DEF FrameInv, Shape, Activations
<1>3. /\ frame_pointer = Fp(Begun) /\ nargs = NArgs(Begun) /\ nlocals = NLocals(Begun)
      /\ is_closure = Flag(Begun) /\ ret_addr = Ret(Begun)
  BY <1>2 DEF frame_pointer, nargs, nlocals, is_closure, ret_addr, Fp, NArgs, NLocals,
    Flag, Ret
<1>4. Code(Begun) = ip /\ Limit(Begun) = Len(vstack) /\ First(Begun) = Start(Begun)
  BY <1>2 DEF Code, Limit, First
<1>5. FrameStart = First(Begun)
  BY <1>3, <1>4 DEF FrameStart, Start
<1>6. /\ ip.fun \in DOMAIN Funs /\ (ip.fun = "main" <=> Begun = 1)
      /\ Funs[ip.fun].ncaptured > 0 => Flag(Begun)
      /\ Flag(Begun) => \E i \in 1..Len(closures) :
                          /\ vstack[First(Begun) + 1] = ClosureValue(i)
                          /\ closures[i].fun = ip.fun
  BY <1>2, <1>4 DEF FrameInv, CodeOK, ClosureOK
<1>7. /\ NArgs(Begun) = Fun.nargs /\ NLocals(Begun) = Fun.nlocals
      /\ Len(vstack) >= Fp(Begun) + NLocals(Begun) + depth[Begun]
  BY <1>2, <1>4 DEF FrameInv, FrameOK, Fun
<1>8. Fun \in [nargs : Nat, nlocals : Nat, ncaptured : Nat]
  BY <1>6, FunsAssumption DEF Fun
<1>9. /\ First(Begun) \in Nat /\ NGlobals <= First(Begun)
      /\ Begun > 1 => NGlobals + 2 <= First(Begun)
      /\ First(Begun) = Fp(Begun) - NArgs(Begun) - (IF Flag(Begun) THEN 1 ELSE 0)
      /\ Fp(1) = NGlobals + 2
  BY <1>2, Layout
<1>10. Begun = 1 => First(Begun) = NGlobals /\ Flag(Begun) = FALSE
  BY DEF FrameInv, MainAtBottom
<1>11. Last(depth) = depth[Begun] /\ Last(depth) \in Nat
  BY <1>1, <1>2 DEF Last
<1>12. Len(vstack) \in Nat
  BY DEF TypeInv, TypeOK
<1>13. frame_pointer = FrameStart + nargs + (IF is_closure THEN 1 ELSE 0)
  BY <1>1, <1>2, <1>3, <1>5, <1>9, SMTT(30)
<1>14. is_closure => closure_loc = First(Begun) + 1
  BY <1>1, <1>2, <1>3, <1>5, <1>9 DEF closure_loc
<1>15. ip.fun = "main" => /\ FrameStart = NGlobals /\ is_closure = FALSE
                          /\ frame_pointer = NGlobals + 2 /\ Begun = 1
  BY <1>3, <1>5, <1>6, <1>9, <1>10
<1>16. Fun.ncaptured > 0 => is_closure
  BY <1>3, <1>6 DEF Fun
<1>17. is_closure => \E i \in 1..Len(closures) :
                            /\ vstack[closure_loc] = ClosureValue(i)
                            /\ closures[i].fun = ip.fun
  BY <1>3, <1>6, <1>14
<1>18. ip.fun # "main" => NGlobals + 2 <= FrameStart /\ Begun > 1
  BY <1>2, <1>5, <1>6, <1>9
<1>19. /\ frame_pointer \in Nat /\ nargs = Fun.nargs /\ nlocals = Fun.nlocals
       /\ is_closure \in BOOLEAN /\ ret_addr \in Points
  BY <1>1, <1>2, <1>3, <1>7
<1>20. frame_pointer + nlocals + Last(depth) <= Len(vstack)
  BY <1>1, <1>2, <1>3, <1>7, <1>11, <1>12
<1>21. FrameStart \in Nat /\ NGlobals <= FrameStart
  BY <1>5, <1>9
<1>22. QED
  BY <1>2, <1>3, <1>4, <1>5, <1>6, <1>8, <1>11, <1>12, <1>13, <1>15, <1>16, <1>17,
    <1>18, <1>19, <1>20, <1>21

---------------------------------------------------------------------------
(***************************************************************************)
(* The initial states, failures, and steps of a function in its own frame. *)
(***************************************************************************)

\* A closure knows its function and holds as many values as it captures.
LEMMA ClosuresTyped ==
  ASSUME closures \in Seq(ClosureType), NEW i \in DOMAIN closures
  PROVE  /\ closures[i].fun \in DOMAIN Funs \ {"main"}
         /\ closures[i].captured \in [1..Funs[closures[i].fun].ncaptured -> Values]
         /\ closures[i] \in ClosureType
BY DEF ClosureType

\* At the start main is about to begin, above the globals, argc and argv.
LEMMA InitIInv == Init => IInv
<1> SUFFICES ASSUME Init PROVE IInv
  OBVIOUS
<1>1. PICK g \in [1..NGlobals -> Ints] : vstack = g \o <<Zero, Zero>>
  BY DEF Init
<1>2. /\ cstack = <<FALSE, CodeEnd>> /\ closures = << >> /\ ip = Entry("main")
      /\ status = "run" /\ depth = <<0>>
  BY DEF Init
<1>3. vstack \in Seq(Values) /\ Len(vstack) = NGlobals + 2
  <2>1. g \in Seq(Ints) /\ Len(g) = NGlobals
    BY SizesTyped
  <2>2. <<Zero, Zero>> \in Seq(Ints) /\ Len(<<Zero, Zero>>) = 2
    BY IntsAssumption
  <2>3. vstack \in Seq(Ints) /\ Len(vstack) = NGlobals + 2
    BY <1>1, <2>1, <2>2, ConcatProperties
  <2>4. QED
    BY <2>3, SeqMonotonic DEF Values
<1>4. "main" \in DOMAIN Funs /\ CodeEnd \in Points /\ Entry("main") \in Points
  BY FunsTyped DEF CodeEnd, Points, Entry
<1>5. /\ Len(cstack) = 2 /\ Len(cstack) % 5 = 2 /\ Len(cstack) \div 5 = 0
      /\ cstack[1] = FALSE /\ cstack[2] = CodeEnd
  BY <1>2
<1>6. TypeOK
  <2>1. \A i \in DOMAIN cstack : WordOK(i)
    <3>1. DOMAIN cstack = {1, 2}
      BY <1>2
    <3>2. cstack[1] \in BOOLEAN /\ cstack[2] \in Points
      BY <1>4, <1>5
    <3>3. WordOK(1) /\ WordOK(2)
      BY <3>2 DEF WordOK
    <3>4. QED
      BY <3>1, <3>3
  <2>2. QED
    BY <1>2, <1>3, <1>4, <1>5, <2>1, SizesTyped DEF TypeOK
<1>7. TypeInv
  <2>1. cstack \in Seq(Words)
    <3>1. FALSE \in Words /\ CodeEnd \in Words
      BY <1>4 DEF Words
    <3>2. <<FALSE, CodeEnd>> \in Seq(Words)
      BY <3>1, PairInSeq
    <3>3. QED
      BY <1>2, <3>2
  <2>2. closures \in Seq(ClosureType)
    BY <1>2, EmptySeq
  <2>3. QED
    BY <1>6, <2>1, <2>2 DEF TypeInv
<1>8. /\ Begun = 0 /\ Calling /\ Len(depth) = 1 /\ depth[1] = 0 /\ Activations = {1}
      /\ Flag(1) = FALSE /\ Ret(1) = CodeEnd /\ Code(1) = ip /\ ip.fun = "main"
      /\ ip.place = 0
  BY <1>2, <1>5 DEF Begun, Calling, Activations, Flag, Ret, Code, Entry
<1>9. First(1) = NGlobals
  <2>1. Fun.nargs = 2
    BY <1>8, FunsTyped DEF Fun
  <2>2. QED
    BY <1>3, <1>8, <2>1, SizesTyped DEF First, CallStart
<1>10. Shape /\ MainAtBottom
  BY <1>5, <1>8, <1>9 DEF Shape, MainAtBottom
<1>11. Stacked /\ (\A k \in 1..Begun : FrameOK(k))
  BY <1>8 DEF Stacked
<1>12. CodeOK(1) /\ ClosureOK(1)
  BY <1>4, <1>8, FunsTyped DEF CodeOK, ClosureOK
<1>13. QED
  BY <1>2, <1>7, <1>8, <1>10, <1>11, <1>12
  DEF IInv, FrameInv, NoUnderflow, OverflowMeansFull

\* A failure for lack of room leaves everything as it was.
LEMMA FailStep ==
  ASSUME IInv, status = "run", Fail("overflow"), Overflow(Widest) \/ CallOverflow(3)
  PROVE  IInv'
<1>1. /\ vstack' = vstack /\ cstack' = cstack /\ closures' = closures /\ ip' = ip
      /\ depth' = depth /\ status' = "overflow"
  BY DEF Fail
<1>2. TypeInv'
  BY <1>1 DEF IInv, TypeInv, TypeOK, Values, Words, WordOK, ClosureType
<1>3. FrameInv'
  BY <1>1 DEF IInv, FrameInv, Shape, MainAtBottom, Stacked, CodeOK, ClosureOK, FrameOK,
    Activations, Code, First, Limit, Begun, Calling, CallStart, Start, Flag, Ret, Fp,
    NArgs, NLocals, Fun
<1>4. OverflowMeansFull' /\ NoUnderflow'
  BY <1>1 DEF OverflowMeansFull, NoUnderflow, Overflow, CallOverflow
<1>5. QED
  BY <1>1, <1>2, <1>3, <1>4 DEF IInv

\* A step of the running function that keeps to its frame: the other frames
\* end where they did, and the closures of all frames stay in their slots.
LEMMA OwnStep ==
  ASSUME IInv, status = "run", ip.place # 0,
         status' = "run", cstack' = cstack,
         ip' \in Points, ip'.fun = ip.fun, ip'.place # 0,
         NEW m \in Nat, depth' = Counted(m),
         closures' \in Seq(ClosureType'),
         \A i \in 1..Len(closures) : /\ i \in 1..Len(closures')
                                     /\ closures'[i].fun = closures[i].fun,
         vstack' \in Seq(Values'), Len(vstack') <= VSTACK_SIZE,
         frame_pointer + nlocals + m <= Len(vstack'),
         "LSTRING" \notin Instrs => Len(vstack') = frame_pointer + nlocals + m,
         \A k \in Activations : Flag(k) => vstack'[First(k) + 1] = vstack[First(k) + 1]
  PROVE  IInv'
<1>1. TypeInv /\ FrameInv
  BY DEF IInv
<1>2. /\ Len(depth) = Begun /\ Begun \in Nat \ {0} /\ Len(cstack) = 5 * Begun
      /\ frame_pointer = Fp(Begun) /\ nlocals = NLocals(Begun)
  BY <1>1, Running
<1>3. /\ Len(depth') = Len(depth) /\ depth' \in Seq(Nat) /\ depth'[Begun] = m
      /\ \A k \in 1..(Begun - 1) : depth'[k] = depth[k]
  BY <1>1, <1>2 DEF Counted, TypeInv, TypeOK
<1>4. TypeInv'
  <2>1. \A i \in DOMAIN cstack' : WordOK(i)'
    BY <1>1 DEF TypeInv, TypeOK, WordOK, Points
  <2>2. \A i \in DOMAIN closures' :
          /\ closures'[i].fun \in DOMAIN Funs
          /\ closures'[i].captured \in [1..Funs[closures'[i].fun].ncaptured -> Values']
    BY DEF ClosureType
  <2>3. TypeOK'
    BY <1>1, <1>3, <2>1, <2>2 DEF TypeInv, TypeOK
  <2>4. QED
    BY <1>1, <2>3 DEF TypeInv, Words
<1>5. /\ Begun' = Begun /\ Calling' = Calling /\ ~Calling /\ ~Calling'
      /\ Activations' = Activations /\ Activations = 1..Begun
  BY <1>1, <1>2, <1>3 DEF Begun, Calling, Activations, FrameInv, Shape
<1>6. /\ \A k \in Activations : /\ Flag(k)' = Flag(k) /\ Ret(k)' = Ret(k)
                                /\ Fp(k)' = Fp(k) /\ NArgs(k)' = NArgs(k)
                                /\ NLocals(k)' = NLocals(k) /\ Start(k)' = Start(k)
      /\ Flag(1)' = Flag(1) /\ Ret(1)' = Ret(1)
  BY DEF Flag, Ret, Fp, NArgs, NLocals, Start
<1>7. \A k \in Activations : First(k)' = First(k) /\ First(k) = Start(k)
  BY <1>5, <1>6 DEF First
<1>8. \A k \in Activations :
        /\ k < Begun => Code(k)' = Code(k) /\ Limit(k)' = Limit(k)
        /\ Code(k)'.fun = Code(k).fun
        /\ k = Begun => Code(k)' = ip' /\ Limit(k)' = Len(vstack')
  <2>1. ASSUME NEW k \in Activations, k < Begun
        PROVE  Code(k)' = Code(k) /\ Limit(k)' = Limit(k)
    <3>1. k + 1 \in Activations
      BY <1>2, <1>5, <2>1
    <3>2. QED
      BY <1>2, <1>3, <1>6, <1>7, <2>1, <3>1 DEF Code, Limit
  <2>2. ASSUME NEW k \in Activations, k = Begun
        PROVE  Code(k)' = ip' /\ Code(k) = ip /\ Limit(k)' = Len(vstack')
    BY <1>2, <1>3, <2>2 DEF Code, Limit
  <2>3. QED
    BY <1>2, <1>5, <2>1, <2>2
<1>9. Shape' /\ MainAtBottom' /\ Stacked'
  <2>1. 1 \in Activations
    BY <1>2, <1>5
  <2>2. QED
    BY <1>1, <1>2, <1>3, <1>5, <1>6, <1>7, <2>1
    DEF FrameInv, Shape, MainAtBottom, Stacked
<1>10. ASSUME NEW k \in Activations PROVE CodeOK(k)' /\ ClosureOK(k)'
  <2>1. CodeOK(k) /\ ClosureOK(k)
    BY <1>1 DEF FrameInv
  <2>2. CodeOK(k)'
    BY <1>2, <1>3, <1>5, <1>8, <2>1 DEF CodeOK
  <2>3. ClosureOK(k)'
    BY <1>6, <1>7, <1>8, <2>1 DEF ClosureOK
  <2>4. QED
    BY <2>2, <2>3
<1>11. ASSUME NEW k \in 1..Begun PROVE FrameOK(k)'
  <2>1. FrameOK(k) /\ k \in Activations
    BY <1>1, <1>5 DEF FrameInv
  <2>2. CASE k < Begun
    BY <1>3, <1>6, <1>8, <2>1, <2>2, <1>2 DEF FrameOK
  <2>3. CASE k = Begun
    BY <1>2, <1>3, <1>6, <1>8, <2>1, <2>3 DEF FrameOK
  <2>4. QED
    BY <1>2, <2>2, <2>3
<1>12. QED
  BY <1>4, <1>5, <1>9, <1>10, <1>11 DEF IInv, FrameInv, NoUnderflow, OverflowMeansFull

\* No instruction pushes more words than Widest.
LEMMA WidestBound ==
  /\ Widest \in Nat /\ Widest >= 1
  /\ \A f \in DOMAIN Funs : Funs[f].nlocals <= Widest /\ Funs[f].ncaptured + 1 <= Widest
<1> DEFINE L == {Funs[f].nlocals : f \in DOMAIN Funs}
           C == {Funs[f].ncaptured + 1 : f \in DOMAIN Funs}
           S == {1} \cup L \cup C
<1>1. IsFiniteSet(DOMAIN Funs)
  BY FunsAssumption
<1>2. IsFiniteSet(L) /\ IsFiniteSet(C)
  <2> DEFINE l == [f \in DOMAIN Funs |-> Funs[f].nlocals]
             c == [f \in DOMAIN Funs |-> Funs[f].ncaptured + 1]
  <2>1. l \in Surjection(DOMAIN Funs, L) /\ c \in Surjection(DOMAIN Funs, C)
    BY DEF Surjection
  <2>2. QED
    BY <1>1, <2>1, FS_Surjection
<1>3. IsFiniteSet(S)
  BY <1>2, FS_Singleton, FS_Union
<1>4. S \in SUBSET Nat /\ S # {}
  BY FunsTyped
<1>5. PICK m \in S : \A x \in S : x <= m
  <2> HIDE DEF S
  <2> QED BY <1>3, <1>4, FiniteMax
<1>6. Widest \in S /\ \A x \in S : x <= Widest
  <2>1. Widest = CHOOSE x \in S : \A y \in S : x >= y
    BY DEF Widest, Max
  <2>2. \E x \in S : \A y \in S : x >= y
    BY <1>4, <1>5
  <2> HIDE DEF S
  <2>3. QED
    BY <1>4, <2>1, <2>2
<1>7. QED
  BY <1>4, <1>6

\* The slots of closures lie in their frames.
LEMMA ClosureSlots ==
  ASSUME TypeInv, FrameInv, ip.place # 0, NEW k \in Activations, Flag(k)
  PROVE  /\ First(k) + 1 \in 1..frame_pointer /\ k > 1 /\ NGlobals + 2 < First(k) + 1
         /\ k < Begun => First(k) + 1 <= FrameStart
<1>1. /\ Len(depth) = Begun /\ Begun \in Nat \ {0}
      /\ frame_pointer = Fp(Begun) /\ FrameStart = First(Begun)
  BY Running
<1>2. /\ Begun \in 1..Begun /\ k \in 1..Begun /\ Begun \in Activations
      /\ \A j \in 1..Begun : Fp(j) \in Nat /\ NArgs(j) \in Nat /\ NLocals(j) \in Nat
  BY <1>1, FrameWords DEF FrameInv, Activations
<1>3. k > 1
  BY <1>2 DEF FrameInv, MainAtBottom
<1>4. /\ First(k) \in Nat /\ NGlobals + 2 <= First(k) /\ First(Begun) \in Nat
      /\ First(k) = Fp(k) - NArgs(k) - 1
      /\ First(Begun) = Fp(Begun) - NArgs(Begun) - (IF Flag(Begun) THEN 1 ELSE 0)
  BY <1>2, <1>3, Layout
<1>5. k < Begun => Fp(k) + NLocals(k) <= First(Begun)
  BY <1>2 DEF FrameInv, Stacked
<1>6. frame_pointer \in Nat /\ First(k) + 1 <= Fp(k) /\ First(Begun) <= Fp(Begun)
  <2>1. Flag(Begun) \in BOOLEAN
    BY <1>2, FrameWords DEF FrameInv
  <2>2. frame_pointer \in Nat /\ Fp(k) \in Nat /\ NArgs(k) \in Nat /\ NArgs(Begun) \in Nat
    BY <1>1, <1>2
  <2>3. First(k) + 1 <= Fp(k)
    BY <1>4, <2>2
  <2>4. First(Begun) <= Fp(Begun)
    BY <1>1, <1>4, <2>1, <2>2
  <2>5. QED
    BY <2>2, <2>3, <2>4
<1>7. CASE k = Begun
  BY <1>1, <1>3, <1>4, <1>6, <1>7, SizesTyped
<1>8. CASE k < Begun
  <2>1. Fp(k) \in Nat /\ NLocals(k) \in Nat /\ First(Begun) \in Nat /\ First(k) \in Nat
    BY <1>2, <1>4
  <2>2. Fp(k) + NLocals(k) <= First(Begun)
    BY <1>5, <1>8
  <2>3. First(k) + 1 <= Fp(k) /\ First(Begun) <= frame_pointer /\ FrameStart = First(Begun)
    BY <1>1, <1>6
  <2>4. First(k) + 1 <= FrameStart /\ FrameStart <= frame_pointer
    BY <2>1, <2>2, <2>3
  <2>5. frame_pointer \in Nat /\ NGlobals + 2 <= First(k) /\ k > 1
    BY <1>3, <1>4, <1>6
  <2>6. First(k) + 1 \in 1..frame_pointer /\ NGlobals + 2 < First(k) + 1
    BY <2>1, <2>3, <2>4, <2>5, SizesTyped
  <2>7. QED
    BY <2>4, <2>5, <2>6
<1>9. QED
  BY <1>1, <1>2, <1>7, <1>8

\* Popping takes words off the top and changes no other.
LEMMA PopTop ==
  ASSUME vstack \in Seq(Values), NEW n \in Nat, n <= Len(vstack)
  PROVE  /\ Pop(n) \in Seq(Values) /\ Len(Pop(n)) = Len(vstack) - n
         /\ \A i \in 1..(Len(vstack) - n) : Pop(n)[i] = vstack[i]
<1> DEFINE l == Len(vstack) - n
<1>1. l \in 0..Len(vstack)
  OBVIOUS
<1>2. Pop(n) = SubSeq(vstack, 1, l)
  BY DEF Pop
<1> HIDE DEF l
<1>3. /\ SubSeq(vstack, 1, l) \in Seq(Values) /\ Len(SubSeq(vstack, 1, l)) = l
      /\ \A i \in 1..l : SubSeq(vstack, 1, l)[i] = vstack[i]
  BY <1>1, PopProperties
<1>4. QED
  BY <1>2, <1>3 DEF l

\* n operands are replaced by vs.
LEMMA Replaced ==
  ASSUME vstack \in Seq(Values), NEW n \in Nat, n <= Len(vstack), NEW vs \in Seq(Values)
  PROVE  /\ Pop(n) \o vs \in Seq(Values)
         /\ Len(Pop(n) \o vs) = Len(vstack) - n + Len(vs)
         /\ \A i \in 1..(Len(vstack) - n) : (Pop(n) \o vs)[i] = vstack[i]
         /\ \A i \in 1..Len(vs) : (Pop(n) \o vs)[Len(vstack) - n + i] = vs[i]
<1> DEFINE p == Pop(n)
<1>1. /\ p \in Seq(Values) /\ Len(p) = Len(vstack) - n
      /\ \A i \in 1..(Len(vstack) - n) : p[i] = vstack[i]
  BY PopTop
<1> HIDE DEF p
<1>2. /\ p \o vs \in Seq(Values) /\ Len(p \o vs) = Len(p) + Len(vs)
      /\ \A i \in 1..(Len(p) + Len(vs)) :
           (p \o vs)[i] = IF i <= Len(p) THEN p[i] ELSE vs[i - Len(p)]
  BY <1>1, ConcatProperties
<1>3. \A i \in 1..Len(p) : (p \o vs)[i] = p[i]
  BY <1>1, <1>2
<1>4. \A i \in 1..Len(vs) : (p \o vs)[Len(p) + i] = vs[i]
  BY <1>1, <1>2
<1>5. QED
  BY <1>1, <1>2, <1>3, <1>4 DEF p

\* The instructions that replace their operands.
LEMMA RewriteStep ==
  ASSUME IInv, status = "run", ip.place # 0,
         NEW n \in Nat, NEW vs \in Seq(Values), NEW m \in Nat,
         n <= Last(depth), Len(vs) - n <= 1, m <= Last(depth) - n + Len(vs),
         "LSTRING" \notin Instrs => m = Last(depth) - n + Len(vs),
         Rewrite(n, vs, m)
  PROVE  IInv'
<1>1. TypeInv /\ FrameInv
  BY DEF IInv
<1>2. /\ Last(depth) \in Nat /\ Len(vstack) \in Nat
      /\ frame_pointer \in Nat /\ nlocals \in Nat
      /\ frame_pointer + nlocals + Last(depth) <= Len(vstack)
      /\ "LSTRING" \notin Instrs => Len(vstack) = frame_pointer + nlocals + Last(depth)
  <2>1. /\ Len(depth) = Begun /\ Begun \in Nat \ {0} /\ Last(depth) = depth[Begun]
        /\ frame_pointer = Fp(Begun) /\ nlocals = NLocals(Begun)
        /\ nlocals = Fun.nlocals /\ Fun \in [nargs : Nat, nlocals : Nat, ncaptured : Nat]
        /\ Last(depth) \in Nat /\ Len(vstack) \in Nat /\ frame_pointer \in Nat
        /\ frame_pointer + nlocals + Last(depth) <= Len(vstack)
    BY <1>1, Running
  <2>2. FrameOK(Begun) /\ Limit(Begun) = Len(vstack)
    BY <1>1, <2>1 DEF FrameInv, Limit
  <2>3. QED
    BY <2>1, <2>2 DEF FrameOK
<1>3. Len(vstack) >= n /\ Len(vs) \in Nat
  BY <1>2
<1>4. CASE Overflow(Len(vs) - n)
  <2>1. Fail("overflow")
    BY <1>3, <1>4 DEF Rewrite
  <2>2. Overflow(Widest)
    BY <1>2, <1>3, <1>4, WidestBound, SizesTyped DEF Overflow
  <2>3. QED
    BY <2>1, <2>2, FailStep
<1>5. CASE ~Overflow(Len(vs) - n)
  <2>1. /\ vstack' = Pop(n) \o vs /\ depth' = Counted(m)
        /\ cstack' = cstack /\ closures' = closures /\ ip' = ip /\ status' = "run"
    BY <1>2, <1>3, <1>5 DEF Rewrite
  <2>2. vstack \in Seq(Values)
    BY <1>1 DEF TypeInv, TypeOK
  <2>5. /\ vstack' \in Seq(Values) /\ Len(vstack') = Len(vstack) - n + Len(vs)
        /\ \A i \in 1..(Len(vstack) - n) : vstack'[i] = vstack[i]
    BY <1>3, <2>1, <2>2, Replaced
  <2>6. /\ Len(vstack') <= VSTACK_SIZE
        /\ frame_pointer + nlocals + m <= Len(vstack')
        /\ "LSTRING" \notin Instrs => Len(vstack') = frame_pointer + nlocals + m
    <3>1. Len(vstack') <= VSTACK_SIZE
      BY <1>2, <1>3, <1>5, <2>5, SizesTyped DEF Overflow
    <3>2. frame_pointer + nlocals + m <= Len(vstack')
      BY <1>2, <1>3, <2>5
    <3>3. ASSUME "LSTRING" \notin Instrs
          PROVE  Len(vstack') = frame_pointer + nlocals + m
      <4>1. Len(vstack) = frame_pointer + nlocals + Last(depth)
        BY <1>2, <3>3
      <4>2. m = Last(depth) - n + Len(vs)
        BY <3>3
      <4>3. Len(vstack') = Len(vstack) - n + Len(vs)
        BY <2>5
      <4>4. /\ Last(depth) \in Int /\ Len(vs) \in Int /\ frame_pointer \in Int
            /\ nlocals \in Int
        BY <1>2, <1>3
      <4>5. QED
        BY <4>1, <4>2, <4>3, <4>4, SMTT(30)
    <3>4. QED
      BY <3>1, <3>2, <3>3
  <2>7. \A k \in Activations : Flag(k) => vstack'[First(k) + 1] = vstack[First(k) + 1]
    <3>1. \A i \in 1..frame_pointer : i \in 1..(Len(vstack) - n)
      BY <1>2, <1>3
    <3>2. QED
      BY <1>1, <2>5, <3>1, ClosureSlots
  <2>8. /\ ip' \in Points /\ ip'.fun = ip.fun /\ ip'.place # 0
        /\ closures' \in Seq(ClosureType') /\ vstack' \in Seq(Values')
    BY <1>1, <2>1, <2>5 DEF TypeInv, TypeOK, ClosureType, Values
  <2>9. \A i \in 1..Len(closures) : i \in 1..Len(closures') /\ closures'[i].fun = closures[i].fun
    BY <2>1
  <2>10. QED
    BY <2>1, <2>6, <2>7, <2>8, <2>9, OwnStep
<1>6. QED
  BY <1>4, <1>5

---------------------------------------------------------------------------
(***************************************************************************)
(* Names and the slots they denote.                                        *)
(***************************************************************************)

\* Where the four kinds of names lead.
LEMMA LocationSlots ==
  ASSUME TypeInv, FrameInv, ip.place # 0, NEW loc \in Locations
  PROVE  \/ /\ loc[1] = "G" /\ loc[2] \in 0..(NGlobals - 1) /\ loc = <<"G", loc[2]>>
            /\ Slot(loc) = NGlobals + 1 - loc[2]
         \/ /\ loc[1] = "L" /\ loc[2] \in 0..(nlocals - 1) /\ loc = <<"L", loc[2]>>
            /\ Slot(loc) = frame_pointer + nlocals - loc[2]
         \/ /\ loc[1] = "A" /\ loc[2] \in 0..(nargs - 1) /\ loc = <<"A", loc[2]>>
            /\ ip.fun # "main" /\ Slot(loc) = frame_pointer - (nargs - 1 - loc[2])
         \/ /\ loc[1] = "C" /\ loc[2] \in 0..(Fun.ncaptured - 1) /\ loc = <<"C", loc[2]>>
            /\ is_closure /\ Slot(loc) = FrameStart + 1 /\ Slot(loc) = closure_loc
<1>1. /\ Fun \in [nargs : Nat, nlocals : Nat, ncaptured : Nat]
      /\ frame_pointer \in Nat /\ nargs = Fun.nargs /\ nlocals = Fun.nlocals
      /\ FrameStart \in Nat /\ is_closure \in BOOLEAN
      /\ frame_pointer = FrameStart + nargs + (IF is_closure THEN 1 ELSE 0)
      /\ Fun.ncaptured > 0 => is_closure
  BY Running
<1>2. CASE loc \in {<<"G", i>> : i \in 0..(NGlobals - 1)}
  BY <1>2 DEF Slot, global
<1>3. CASE loc \in {<<"L", i>> : i \in 0..(Fun.nlocals - 1)}
  BY <1>1, <1>3 DEF Slot, local
<1>4. CASE loc \in {<<"A", i>> : i \in IF ip.fun = "main" THEN {} ELSE 0..(Fun.nargs - 1)}
  BY <1>1, <1>4 DEF Slot, arg
<1>5. CASE loc \in {<<"C", i>> : i \in 0..(Fun.ncaptured - 1)}
  <2>1. PICK i \in 0..(Fun.ncaptured - 1) : loc = <<"C", i>>
    BY <1>5
  <2>2. is_closure
    BY <1>1, <2>1
  <2>3. closure_loc = FrameStart + 1
    BY <1>1, <2>2 DEF closure_loc
  <2>4. QED
    BY <2>1, <2>2, <2>3 DEF Slot
<1>6. QED
  BY <1>2, <1>3, <1>4, <1>5 DEF Locations

\* Every frame lies above the globals and the words of argc and argv.
LEMMA FrameAbove ==
  ASSUME TypeInv, FrameInv, ip.place # 0
  PROVE  FrameStart + nargs <= frame_pointer /\ NGlobals + 2 <= frame_pointer
<1>1. /\ Fun \in [nargs : Nat, nlocals : Nat, ncaptured : Nat]
      /\ frame_pointer \in Nat /\ nargs = Fun.nargs
      /\ FrameStart \in Nat /\ is_closure \in BOOLEAN
      /\ frame_pointer = FrameStart + nargs + (IF is_closure THEN 1 ELSE 0)
      /\ ip.fun = "main" => frame_pointer = NGlobals + 2
      /\ ip.fun # "main" => NGlobals + 2 <= FrameStart
  BY Running
<1>2. nargs \in Nat /\ NGlobals \in Nat
  BY <1>1, SizesTyped
<1>3. FrameStart + nargs <= frame_pointer
  <2>1. /\ frame_pointer = FrameStart + nargs + 1 \/ frame_pointer = FrameStart + nargs
        /\ frame_pointer \in Int /\ FrameStart \in Int /\ nargs \in Int
    BY <1>1, <1>2
  <2>2. QED
    BY <2>1
<1>4. CASE ip.fun = "main"
  BY <1>1, <1>2, <1>3, <1>4
<1>5. CASE ip.fun # "main"
  <2>1. NGlobals + 2 <= FrameStart /\ FrameStart \in Nat /\ frame_pointer \in Nat
    BY <1>1, <1>5
  <2>2. QED
    BY <1>2, <1>3, <2>1
<1>6. QED
  BY <1>4, <1>5

\* A name leads to a slot below the operands, and never to argc or below.
LEMMA SlotBounds ==
  ASSUME TypeInv, FrameInv, ip.place # 0, NEW loc \in Locations
  PROVE  /\ Slot(loc) \in 2..(frame_pointer + nlocals)
         /\ Slot(loc) \in 2..Len(vstack) /\ ~BadSlot(Slot(loc))
         /\ loc[1] # "G" => Slot(loc) > FrameStart
         /\ loc[1] = "G" => Slot(loc) <= NGlobals + 1
         /\ loc[1] # "C" /\ is_closure => Slot(loc) # closure_loc
<1>1. /\ Fun \in [nargs : Nat, nlocals : Nat, ncaptured : Nat]
      /\ frame_pointer \in Nat /\ nargs = Fun.nargs /\ nlocals = Fun.nlocals
      /\ FrameStart \in Nat /\ is_closure \in BOOLEAN /\ NGlobals <= FrameStart
      /\ frame_pointer = FrameStart + nargs + (IF is_closure THEN 1 ELSE 0)
      /\ Last(depth) \in Nat /\ Len(vstack) \in Nat
      /\ frame_pointer + nlocals + Last(depth) <= Len(vstack)
      /\ ip.fun = "main" => /\ FrameStart = NGlobals /\ is_closure = FALSE
                            /\ frame_pointer = NGlobals + 2
      /\ ip.fun # "main" => NGlobals + 2 <= FrameStart
  BY Running
<1>2. nargs \in Nat /\ nlocals \in Nat /\ NGlobals \in Nat /\ VSTACK_SIZE \in Nat
      /\ Len(vstack) <= VSTACK_SIZE
  BY <1>1, SizesTyped DEF TypeInv, TypeOK
<1>3. FrameStart + nargs <= frame_pointer /\ NGlobals + 2 <= frame_pointer
  BY FrameAbove
<1>4. /\ NGlobals + 2 <= frame_pointer
      /\ is_closure => /\ closure_loc = FrameStart + 1 /\ NGlobals + 2 <= FrameStart
                       /\ frame_pointer = FrameStart + nargs + 1
  <2>1. CASE ip.fun = "main"
    BY <1>1, <1>2, <2>1
  <2>2. CASE ip.fun # "main"
    <3>1. NGlobals + 2 <= FrameStart
      BY <1>1, <2>2
    <3>2. NGlobals + 2 <= frame_pointer
      BY <1>1, <1>2, <1>3, <3>1
    <3>3. ASSUME is_closure PROVE /\ closure_loc = FrameStart + 1
                                  /\ frame_pointer = FrameStart + nargs + 1
      <4>1. frame_pointer = FrameStart + nargs + 1
        BY <1>1, <3>3
      <4>2. QED
        BY <1>1, <1>2, <4>1, SMTT(30) DEF closure_loc
    <3>4. QED
      BY <3>1, <3>2, <3>3
  <2>3. QED
    BY <2>1, <2>2
<1>5. /\ Slot(loc) \in 2..(frame_pointer + nlocals)
      /\ loc[1] # "G" => Slot(loc) > FrameStart
      /\ loc[1] = "G" => Slot(loc) <= NGlobals + 1
      /\ loc[1] # "C" /\ is_closure => Slot(loc) # closure_loc
  <2> DEFINE s == Slot(loc)
             i == loc[2]
  <2>0. /\ frame_pointer \in Nat /\ FrameStart \in Nat /\ NGlobals <= FrameStart
        /\ is_closure \in BOOLEAN
    BY <1>1
  <2>1. CASE loc[1] = "G"
    <3>1. i \in 0..(NGlobals - 1) /\ s = NGlobals + 1 - i
      BY <2>1, LocationSlots
    <3> HIDE DEF s, i
    <3>2. s \in Int /\ 2 <= s /\ s <= NGlobals + 1
      BY <1>2, <3>1
    <3>3. s \in 2..(frame_pointer + nlocals)
      BY <1>2, <1>4, <2>0, <3>2
    <3>4. is_closure => s # closure_loc
      BY <1>2, <1>4, <2>0, <3>2
    <3>5. QED
      BY <2>1, <3>2, <3>3, <3>4 DEF s
  <2>2. CASE loc[1] = "L"
    <3>1. i \in 0..(nlocals - 1) /\ s = frame_pointer + nlocals - i
      BY <2>2, LocationSlots
    <3> HIDE DEF s, i
    <3>2. s \in Int /\ frame_pointer < s /\ s <= frame_pointer + nlocals
      BY <1>2, <2>0, <3>1
    <3>3. s \in 2..(frame_pointer + nlocals) /\ s > FrameStart
      BY <1>2, <1>3, <1>4, <2>0, <3>2
    <3>4. is_closure => s # closure_loc
      BY <1>2, <1>4, <2>0, <3>2
    <3>5. QED
      BY <2>2, <3>3, <3>4 DEF s
  <2>3. CASE loc[1] = "A"
    <3>1. /\ i \in 0..(nargs - 1) /\ ip.fun # "main"
          /\ s = frame_pointer - (nargs - 1 - i) /\ NGlobals + 2 <= FrameStart
      BY <1>1, <2>3, LocationSlots
    <3> HIDE DEF s, i
    <3>2. s \in Int /\ frame_pointer - nargs < s /\ s <= frame_pointer
      BY <1>2, <2>0, <3>1
    <3>3. s \in 2..(frame_pointer + nlocals) /\ s > FrameStart
      BY <1>2, <1>3, <2>0, <3>1, <3>2
    <3>4. is_closure => s # closure_loc
      BY <1>2, <1>4, <2>0, <3>2
    <3>5. QED
      BY <2>3, <3>3, <3>4 DEF s
  <2>4. CASE loc[1] = "C"
    <3>1. is_closure /\ s = FrameStart + 1
      BY <2>4, LocationSlots
    <3> HIDE DEF s, i
    <3>2. s \in 2..(frame_pointer + nlocals) /\ s > FrameStart
      BY <1>2, <1>4, <2>0, <3>1
    <3>3. QED
      BY <2>4, <3>2 DEF s
  <2>5. QED
    BY <2>1, <2>2, <2>3, <2>4, LocationSlots
<1>6. Slot(loc) \in 2..Len(vstack)
  <2>1. Slot(loc) \in Int /\ 2 <= Slot(loc) /\ Slot(loc) <= frame_pointer + nlocals
    BY <1>1, <1>2, <1>5
  <2>2. /\ frame_pointer + nlocals + Last(depth) <= Len(vstack) /\ Last(depth) \in Nat
        /\ Len(vstack) \in Nat /\ frame_pointer \in Nat
    BY <1>1
  <2>3. QED
    BY <1>2, <2>1, <2>2
<1>7. ~BadSlot(Slot(loc))
  BY <1>2, <1>6 DEF BadSlot
<1>8. QED
  BY <1>5, <1>6, <1>7

\* The closure of the running function is one of its code.
LEMMA SelfClosure ==
  ASSUME TypeInv, FrameInv, ip.place # 0, is_closure
  PROVE  \E i \in 1..Len(closures) :
           /\ vstack[closure_loc].closure = i /\ Self = closures[i]
           /\ closures[i].fun = ip.fun /\ closures[i] \in ClosureType
           /\ closures[i].captured \in [1..Fun.ncaptured -> Values]
<1>1. PICK i \in 1..Len(closures) : /\ vstack[closure_loc] = ClosureValue(i)
                                    /\ closures[i].fun = ip.fun
  BY Running
<1>2. vstack[closure_loc].closure = i
  BY <1>1 DEF ClosureValue
<1>3. Self = closures[i]
  BY <1>2 DEF Self
<1>4. closures \in Seq(ClosureType) /\ i \in DOMAIN closures
  BY DEF TypeInv
<1>5. /\ closures[i].captured \in [1..Funs[closures[i].fun].ncaptured -> Values]
      /\ closures[i] \in ClosureType
  BY <1>4, ClosuresTyped
<1>6. QED
  BY <1>1, <1>2, <1>3, <1>5 DEF Fun

\* A load finds a value: the slot it computes lies in the stack.
LEMMA LoadTyped ==
  ASSUME TypeInv, FrameInv, ip.place # 0, NEW loc \in Locations
  PROVE  Load(loc) \in Values
<1>1. CASE loc[1] = "C"
  <2>1. loc[2] \in 0..(Fun.ncaptured - 1) /\ is_closure
    BY <1>1, LocationSlots
  <2>2. Self.captured \in [1..Fun.ncaptured -> Values]
    BY <2>1, SelfClosure
  <2>3. Fun.ncaptured \in Nat
    BY Running
  <2>4. loc[2] + 1 \in 1..Fun.ncaptured
    BY <2>1, <2>3
  <2>5. QED
    BY <1>1, <2>2, <2>4 DEF Load
<1>2. CASE loc[1] # "C"
  <2>1. Slot(loc) \in 1..Len(vstack)
    BY SlotBounds, Running
  <2>2. QED
    BY <1>2, <2>1, ElementOfSeq DEF Load, TypeInv, TypeOK
<1>3. QED
  BY <1>1, <1>2

---------------------------------------------------------------------------
(***************************************************************************)
(* The instructions of a running function.                                 *)
(***************************************************************************)

\* A dispatched instruction finds its operands above two words at least.
LEMMA Dispatched ==
  ASSUME IInv, NEW instr, NEW n \in Nat, Dispatch(instr, n)
  PROVE  /\ TypeInv /\ FrameInv /\ status = "run" /\ ip.place # 0 /\ instr \in Instrs
         /\ n <= Last(depth) /\ Last(depth) \in Nat /\ Len(vstack) \in Nat
         /\ vstack \in Seq(Values) /\ n + 2 <= Len(vstack) /\ Verified(n)
<1>1. TypeInv /\ FrameInv /\ status = "run" /\ ip.place # 0 /\ instr \in Instrs
      /\ n <= Last(depth)
  BY DEF Dispatch, IInv
<1>2. /\ Last(depth) \in Nat /\ Len(vstack) \in Nat /\ frame_pointer \in Nat
      /\ nlocals \in Nat /\ frame_pointer + nlocals + Last(depth) <= Len(vstack)
      /\ FrameStart \in Nat /\ NGlobals <= FrameStart
  <2>1. /\ Fun \in [nargs : Nat, nlocals : Nat, ncaptured : Nat]
        /\ frame_pointer \in Nat /\ nlocals = Fun.nlocals
        /\ FrameStart \in Nat /\ NGlobals <= FrameStart
        /\ Last(depth) \in Nat /\ Len(vstack) \in Nat
        /\ frame_pointer + nlocals + Last(depth) <= Len(vstack)
    BY <1>1, Running
  <2>2. QED
    BY <2>1
<1>3. NGlobals + 2 <= frame_pointer
  BY <1>1, FrameAbove
<1>4. n + 2 <= Len(vstack)
  BY <1>1, <1>2, <1>3, SizesTyped
<1>5. vstack \in Seq(Values) /\ Len(vstack) <= VSTACK_SIZE
  BY <1>1 DEF TypeInv, TypeOK
<1>6. Verified(n)
  BY <1>2, <1>4, <1>5, SizesTyped DEF Verified, BadSlot
<1>7. QED
  BY <1>1, <1>2, <1>4, <1>5, <1>6

\* A push of one value.
LEMMA OneValue ==
  ASSUME NEW v \in Values
  PROVE  <<v>> \in Seq(Values) /\ Len(<<v>>) = 1
OBVIOUS

\* The operands are values.
LEMMA TopTyped ==
  ASSUME vstack \in Seq(Values), NEW n \in Nat, n < Len(vstack)
  PROVE  Top(n) \in Values /\ Top(n) = vstack[Len(vstack) - n]
<1>1. Len(vstack) - n \in 1..Len(vstack)
  OBVIOUS
<1>2. QED
  BY <1>1, ElementOfSeq DEF Top

\* RewriteStep for the instructions that leave the count exact.
LEMMA ExactStep ==
  ASSUME IInv, status = "run", ip.place # 0, Last(depth) \in Nat,
         NEW n \in Nat, NEW vs \in Seq(Values), NEW m \in Nat,
         n <= Last(depth), Len(vs) <= n + 1, m = Last(depth) - n + Len(vs),
         Rewrite(n, vs, m)
  PROVE  IInv'
<1>1. m <= Last(depth) - n + Len(vs) /\ Len(vs) - n <= 1
  OBVIOUS
<1>2. QED
  BY <1>1, RewriteStep

\* An instruction that replaces its operands by a result stays above them.
LEMMA BuiltinStep == IInv /\ Builtin => IInv'
<1> SUFFICES ASSUME IInv, Builtin PROVE IInv'
  OBVIOUS
<1>1. PICK instr \in DOMAIN Arity, v \in Ints :
        /\ Dispatch(instr, Arity[instr])
        /\ Rewrite(Arity[instr], <<v>>, Last(depth) - Arity[instr] + 1)
  BY DEF Builtin
<1> DEFINE n == Arity[instr]
<1>2. n \in Nat
  BY DEF Arity
<1> HIDE DEF n
<1>3. /\ Dispatch(instr, n) /\ Rewrite(n, <<v>>, Last(depth) - n + 1)
  BY <1>1 DEF n
<1>4. status = "run" /\ ip.place # 0 /\ n <= Last(depth) /\ Last(depth) \in Nat
  BY <1>2, <1>3, Dispatched
<1>5. v \in Values
  BY DEF Values
<1>6. <<v>> \in Seq(Values) /\ Len(<<v>>) = 1
  BY <1>5, OneValue
<1> DEFINE vs == <<v>>
           m == Last(depth) - n + 1
<1>7. /\ vs \in Seq(Values) /\ m \in Nat /\ Len(vs) <= n + 1
      /\ m = Last(depth) - n + Len(vs) /\ Rewrite(n, vs, m)
  BY <1>2, <1>3, <1>4, <1>6
<1> HIDE DEF vs, m
<1>8. QED
  BY <1>2, <1>3, <1>4, <1>7, ExactStep

\* BARRAY replaces its elements by an array.
LEMMA BarrayStep == IInv /\ Barray => IInv'
<1> SUFFICES ASSUME IInv, Barray PROVE IInv'
  OBVIOUS
<1>1. PICK n \in 0..MaxElements :
        /\ Dispatch("BARRAY", n)
        /\ IF Verified(n)
             THEN \E v \in Ints : Rewrite(n, <<v>>, Last(depth) - n + 1)
             ELSE Fail(Blame(Len(vstack) - n))
  BY DEF Barray
<1>2. n \in Nat
  BY SizesTyped
<1>3. /\ status = "run" /\ ip.place # 0 /\ n <= Last(depth) /\ Last(depth) \in Nat
      /\ Verified(n)
  BY <1>1, <1>2, Dispatched
<1>4. PICK v \in Ints : Rewrite(n, <<v>>, Last(depth) - n + 1)
  BY <1>1, <1>3
<1>5. v \in Values
  BY DEF Values
<1>6. <<v>> \in Seq(Values) /\ Len(<<v>>) = 1
  BY <1>5, OneValue
<1> DEFINE vs == <<v>>
           m == Last(depth) - n + 1
<1>7. /\ vs \in Seq(Values) /\ m \in Nat /\ Len(vs) <= n + 1
      /\ m = Last(depth) - n + Len(vs) /\ Rewrite(n, vs, m)
  BY <1>2, <1>3, <1>4, <1>6
<1> HIDE DEF vs, m
<1>8. QED
  BY <1>2, <1>3, <1>4, <1>7, ExactStep

\* SEXP pushes a word of its own and takes it off with its operands.
LEMMA SexpStep == IInv /\ Sexp => IInv'
<1> SUFFICES ASSUME IInv, Sexp PROVE IInv'
  OBVIOUS
<1>1. PICK n \in 0..MaxElements :
        /\ Dispatch("SEXP", n)
        /\ IF ~Verified(n) THEN Fail(Blame(Len(vstack) - n))
           ELSE IF Overflow(1) THEN Fail("overflow")
           ELSE \E v \in Ints : Rewrite(n, <<v>>, Last(depth) - n + 1)
  BY DEF Sexp
<1>2. n \in Nat
  BY SizesTyped
<1>3. /\ status = "run" /\ ip.place # 0 /\ n <= Last(depth) /\ Last(depth) \in Nat
      /\ Verified(n) /\ Len(vstack) \in Nat
  BY <1>1, <1>2, Dispatched
<1>4. CASE Overflow(1)
  <2>1. Fail("overflow")
    BY <1>1, <1>3, <1>4
  <2>2. Overflow(Widest)
    BY <1>3, <1>4, WidestBound, SizesTyped DEF Overflow
  <2>3. QED
    BY <1>3, <2>1, <2>2, FailStep
<1>5. CASE ~Overflow(1)
  <2>1. PICK v \in Ints : Rewrite(n, <<v>>, Last(depth) - n + 1)
    BY <1>1, <1>3, <1>5
  <2>2. v \in Values
    BY DEF Values
  <2>3. <<v>> \in Seq(Values) /\ Len(<<v>>) = 1
    BY <2>2, OneValue
  <2> DEFINE vs == <<v>>
             m == Last(depth) - n + 1
  <2>4. /\ vs \in Seq(Values) /\ m \in Nat /\ Len(vs) <= n + 1
        /\ m = Last(depth) - n + Len(vs) /\ Rewrite(n, vs, m)
    BY <1>2, <1>3, <2>1, <2>3
  <2> HIDE DEF vs, m
  <2>5. QED
    BY <1>2, <1>3, <2>4, ExactStep
<1>6. QED
  BY <1>4, <1>5

\* DROP pops an operand of the running function.
LEMMA DropStep == IInv /\ Drop => IInv'
<1> SUFFICES ASSUME IInv, Drop PROVE IInv'
  OBVIOUS
<1>1. Dispatch("DROP", 1) /\ Rewrite(1, << >>, Last(depth) - 1)
  BY DEF Drop
<1>2. status = "run" /\ ip.place # 0 /\ 1 <= Last(depth) /\ Last(depth) \in Nat
  BY <1>1, Dispatched
<1>3. << >> \in Seq(Values) /\ Len(<< >>) = 0
  BY EmptySeq
<1> DEFINE m == Last(depth) - 1
           vs == << >>
<1>4. /\ vs \in Seq(Values) /\ m \in Nat /\ Len(vs) <= 1 + 1
      /\ m = Last(depth) - 1 + Len(vs) /\ Rewrite(1, vs, m)
  BY <1>1, <1>2, <1>3
<1> HIDE DEF vs, m
<1>5. QED
  BY <1>2, <1>4, ExactStep

\* DUP pushes one more.
LEMMA DupStep == IInv /\ Dup => IInv'
<1> SUFFICES ASSUME IInv, Dup PROVE IInv'
  OBVIOUS
<1>1. Dispatch("DUP", 1) /\ Rewrite(1, <<Top(0), Top(0)>>, Last(depth) + 1)
  BY DEF Dup
<1>2. /\ status = "run" /\ ip.place # 0 /\ 1 <= Last(depth) /\ Last(depth) \in Nat
      /\ vstack \in Seq(Values) /\ 0 < Len(vstack)
  BY <1>1, Dispatched
<1>3. <<Top(0), Top(0)>> \in Seq(Values) /\ Len(<<Top(0), Top(0)>>) = 2
  BY <1>2, TopTyped, PairInSeq
<1> DEFINE vs == <<Top(0), Top(0)>>
           m == Last(depth) + 1
<1>4. /\ vs \in Seq(Values) /\ m \in Nat /\ Len(vs) <= 1 + 1
      /\ m = Last(depth) - 1 + Len(vs) /\ Rewrite(1, vs, m)
  BY <1>1, <1>2, <1>3
<1> HIDE DEF vs, m
<1>5. QED
  BY <1>2, <1>4, ExactStep

\* SWAP pops two operands and pushes two.
LEMMA SwapStep == IInv /\ Swap => IInv'
<1> SUFFICES ASSUME IInv, Swap PROVE IInv'
  OBVIOUS
<1>1. Dispatch("SWAP", 2) /\ Rewrite(2, <<Top(1), Top(0)>>, Last(depth))
  BY DEF Swap
<1>2. /\ status = "run" /\ ip.place # 0 /\ 2 <= Last(depth) /\ Last(depth) \in Nat
      /\ vstack \in Seq(Values) /\ 0 < Len(vstack) /\ 1 < Len(vstack)
  BY <1>1, Dispatched
<1>3. <<Top(1), Top(0)>> \in Seq(Values) /\ Len(<<Top(1), Top(0)>>) = 2
  BY <1>2, TopTyped, PairInSeq
<1> DEFINE vs == <<Top(1), Top(0)>>
           m == Last(depth)
<1>4. /\ vs \in Seq(Values) /\ m \in Nat /\ Len(vs) <= 2 + 1
      /\ m = Last(depth) - 2 + Len(vs) /\ Rewrite(2, vs, m)
  BY <1>1, <1>2, <1>3
<1> HIDE DEF vs, m
<1>5. QED
  BY <1>2, <1>4, ExactStep DEF m

\* LSTRING alone leaves an operand more than the program counts.
LEMMA LstringStep == IInv /\ Lstring => IInv'
<1> SUFFICES ASSUME IInv, Lstring PROVE IInv'
  OBVIOUS
<1>1. Dispatch("LSTRING", 1)
  BY DEF Lstring
<1>2. PICK v \in Ints : Rewrite(0, <<v>>, Last(depth))
  BY DEF Lstring
<1>3. /\ status = "run" /\ ip.place # 0 /\ 1 <= Last(depth) /\ Last(depth) \in Nat
      /\ "LSTRING" \in Instrs
  BY <1>1, Dispatched
<1>4. v \in Values
  BY DEF Values
<1>5. <<v>> \in Seq(Values) /\ Len(<<v>>) = 1
  BY <1>4, OneValue
<1> DEFINE vs == <<v>>
           m == Last(depth)
<1>6. /\ vs \in Seq(Values) /\ m \in Nat /\ 0 <= m /\ Len(vs) - 0 <= 1
      /\ m <= Last(depth) - 0 + Len(vs) /\ Rewrite(0, vs, m)
  BY <1>2, <1>3, <1>5
<1> HIDE DEF vs, m
<1>7. QED
  BY <1>3, <1>6, RewriteStep DEF m

\* LD pushes the value of a variable.
LEMMA LoadNameStep == IInv /\ LoadName => IInv'
<1> SUFFICES ASSUME IInv, LoadName PROVE IInv'
  OBVIOUS
<1>1. Dispatch("LD", 0)
  BY DEF LoadName
<1>2. PICK loc \in Locations : Ld(loc)
  BY DEF LoadName
<1>3. /\ TypeInv /\ FrameInv /\ status = "run" /\ ip.place # 0 /\ Last(depth) \in Nat
  BY <1>1, Dispatched
<1>4. ~BadSlot(Slot(loc)) /\ Load(loc) \in Values
  BY <1>3, SlotBounds, LoadTyped
<1>5. Rewrite(0, <<Load(loc)>>, Last(depth) + 1)
  BY <1>2, <1>4 DEF Ld
<1> DEFINE vs == <<Load(loc)>>
<1>6. vs \in Seq(Values) /\ Len(vs) = 1
  BY <1>4, OneValue
<1> DEFINE m == Last(depth) + 1
<1>7. /\ vs \in Seq(Values) /\ m \in Nat /\ Len(vs) <= 0 + 1 /\ 0 <= Last(depth)
      /\ m = Last(depth) - 0 + Len(vs) /\ Rewrite(0, vs, m)
  BY <1>3, <1>5, <1>6
<1> HIDE DEF vs, m
<1>8. QED
  BY <1>3, <1>7, ExactStep

\* Of the operands a function pushed none is lost, and none added but by
\* LSTRING.
LEMMA OperandCount ==
  ASSUME TypeInv, FrameInv, ip.place # 0, "LSTRING" \notin Instrs
  PROVE  Len(vstack) = frame_pointer + nlocals + Last(depth)
<1>1. /\ Len(depth) = Begun /\ Begun \in Nat \ {0} /\ Last(depth) = depth[Begun]
      /\ frame_pointer = Fp(Begun) /\ nlocals = NLocals(Begun)
  BY Running
<1>2. FrameOK(Begun) /\ Limit(Begun) = Len(vstack)
  BY <1>1 DEF FrameInv, Limit
<1>3. QED
  BY <1>1, <1>2 DEF FrameOK

\* The count of a function that neither pushes nor pops.
LEMMA SameCount ==
  ASSUME TypeInv, FrameInv
  PROVE  Counted(Last(depth)) = depth
<1>1. depth \in Seq(Nat) /\ Len(depth) \in Nat \ {0}
  BY FrameWords DEF TypeInv, TypeOK, FrameInv
<1>2. Last(depth) = depth[Len(depth)]
  BY DEF Last
<1>3. QED
  BY <1>1, <1>2 DEF Counted

\* JMP changes the place in the function only.
LEMMA JmpStep == IInv /\ Jmp => IInv'
<1> SUFFICES ASSUME IInv, Jmp PROVE IInv'
  OBVIOUS
<1>1. PICK s \in Places : JumpTo(s)
  BY DEF Jmp
<1>2. /\ Dispatch("JMP", 0) /\ vstack' = vstack /\ cstack' = cstack
      /\ closures' = closures /\ status' = status /\ depth' = depth
  BY DEF Jmp
<1>3. TypeInv /\ FrameInv /\ status = "run" /\ ip.place # 0 /\ Last(depth) \in Nat
  BY <1>2, Dispatched
<1>4. ip' \in Points /\ ip'.fun = ip.fun /\ ip'.place # 0
  <2>1. ip \in Points /\ s \in Nat \ {0}
    BY <1>3, SizesTyped DEF TypeInv, TypeOK
  <2>2. QED
    BY <1>1, <2>1 DEF JumpTo, Points
<1>5. /\ frame_pointer + nlocals + Last(depth) <= Len(vstack)
      /\ "LSTRING" \notin Instrs => Len(vstack) = frame_pointer + nlocals + Last(depth)
  BY <1>3, Running, OperandCount
<1>6. /\ vstack \in Seq(Values) /\ Len(vstack) <= VSTACK_SIZE
      /\ closures \in Seq(ClosureType) /\ Values' = Values /\ ClosureType' = ClosureType
  BY <1>2, <1>3 DEF TypeInv, TypeOK, Values, ClosureType
<1> DEFINE m == Last(depth)
<1>7. /\ m \in Nat /\ depth' = Counted(m)
      /\ frame_pointer + nlocals + m <= Len(vstack')
      /\ "LSTRING" \notin Instrs => Len(vstack') = frame_pointer + nlocals + m
  BY <1>2, <1>3, <1>5, SameCount
<1> HIDE DEF m
<1>8. QED
  BY <1>2, <1>3, <1>4, <1>6, <1>7, OwnStep

\* CJMP pops its condition.
LEMMA CJmpStep == IInv /\ CJmp => IInv'
<1> SUFFICES ASSUME IInv, CJmp PROVE IInv'
  OBVIOUS
<1>1. PICK s \in Places \cup {ip.place} : JumpTo(s)
  BY DEF CJmp
<1>2. /\ Dispatch("CJMP", 1) /\ vstack' = Pop(1) /\ cstack' = cstack
      /\ closures' = closures /\ status' = status /\ depth' = Counted(Last(depth) - 1)
  BY DEF CJmp
<1>3. /\ TypeInv /\ FrameInv /\ status = "run" /\ ip.place # 0 /\ Last(depth) \in Nat
      /\ 1 <= Last(depth) /\ vstack \in Seq(Values) /\ 1 <= Len(vstack)
      /\ Len(vstack) \in Nat
  BY <1>2, Dispatched
<1>4. ip' \in Points /\ ip'.fun = ip.fun /\ ip'.place # 0
  <2>1. ip \in Points /\ s \in Nat \ {0}
    BY <1>3, SizesTyped DEF TypeInv, TypeOK, Points
  <2>2. QED
    BY <1>1, <2>1 DEF JumpTo, Points
<1>5. /\ frame_pointer + nlocals + Last(depth) <= Len(vstack)
      /\ frame_pointer \in Nat /\ nlocals \in Nat
      /\ "LSTRING" \notin Instrs => Len(vstack) = frame_pointer + nlocals + Last(depth)
  <2>1. /\ frame_pointer + nlocals + Last(depth) <= Len(vstack)
        /\ Fun \in [nargs : Nat, nlocals : Nat, ncaptured : Nat]
        /\ frame_pointer \in Nat /\ nlocals = Fun.nlocals
    BY <1>3, Running
  <2>2. QED
    BY <1>3, <2>1, OperandCount
<1>6. /\ Len(vstack) <= VSTACK_SIZE
      /\ closures \in Seq(ClosureType) /\ Values' = Values /\ ClosureType' = ClosureType
  BY <1>2, <1>3 DEF TypeInv, TypeOK, Values, ClosureType
<1>7. /\ vstack' \in Seq(Values) /\ Len(vstack') = Len(vstack) - 1
      /\ \A i \in 1..(Len(vstack) - 1) : vstack'[i] = vstack[i]
  BY <1>2, <1>3, PopTop
<1> DEFINE m == Last(depth) - 1
<1>8. /\ m \in Nat /\ depth' = Counted(m) /\ Len(vstack') <= VSTACK_SIZE
      /\ frame_pointer + nlocals + m <= Len(vstack')
      /\ "LSTRING" \notin Instrs => Len(vstack') = frame_pointer + nlocals + m
  <2>1. m \in Nat /\ depth' = Counted(m)
    BY <1>2, <1>3
  <2>2. Len(vstack') <= VSTACK_SIZE
    BY <1>3, <1>6, <1>7, SizesTyped
  <2>3. frame_pointer + nlocals + m <= Len(vstack')
    BY <1>3, <1>5, <1>7
  <2>4. "LSTRING" \notin Instrs => Len(vstack') = frame_pointer + nlocals + m
    <3>1. HAVE "LSTRING" \notin Instrs
    <3>2. Len(vstack) = frame_pointer + nlocals + Last(depth)
      BY <1>5, <3>1
    <3>3. QED
      BY <1>3, <1>5, <1>7, <3>2
  <2>5. QED
    BY <2>1, <2>2, <2>3, <2>4
<1>9. \A k \in Activations : Flag(k) => vstack'[First(k) + 1] = vstack[First(k) + 1]
  <2>1. frame_pointer <= Len(vstack) - 1
    BY <1>3, <1>5
  <2>2. \A i \in 1..frame_pointer : i \in 1..(Len(vstack) - 1)
    BY <1>3, <1>5, <2>1
  <2>3. QED
    BY <1>3, <1>7, <2>2, ClosureSlots
<1> HIDE DEF m
<1>10. /\ closures' \in Seq(ClosureType') /\ vstack' \in Seq(Values')
       /\ \A i \in 1..Len(closures) : /\ i \in 1..Len(closures')
                                      /\ closures'[i].fun = closures[i].fun
  BY <1>2, <1>6, <1>7
<1>11. QED
  BY <1>2, <1>3, <1>4, <1>8, <1>9, <1>10, OwnStep

\* ST writes to a slot of the function's own or of a global, and to no
\* closure of a frame.
LEMMA StoreNameStep == IInv /\ StoreName => IInv'
<1> SUFFICES ASSUME IInv, StoreName PROVE IInv'
  OBVIOUS
<1>1. Dispatch("ST", 1)
  BY DEF StoreName
<1>2. PICK loc \in Locations : St(loc)
  BY DEF StoreName
<1>3. /\ TypeInv /\ FrameInv /\ status = "run" /\ ip.place # 0 /\ Last(depth) \in Nat
      /\ vstack \in Seq(Values) /\ 0 < Len(vstack) /\ Len(vstack) \in Nat
  BY <1>1, Dispatched
<1>4. vstack # << >> /\ ~BadSlot(Slot(loc)) /\ Slot(loc) \in 2..Len(vstack)
  BY <1>3, SlotBounds
<1>5. Top(0) \in Values
  BY <1>3, TopTyped
<1>6. /\ frame_pointer + nlocals + Last(depth) <= Len(vstack)
      /\ "LSTRING" \notin Instrs => Len(vstack) = frame_pointer + nlocals + Last(depth)
  BY <1>3, Running, OperandCount
<1>7. /\ Len(vstack) <= VSTACK_SIZE /\ closures \in Seq(ClosureType) /\ ip \in Points
  BY <1>3 DEF TypeInv, TypeOK
<1> DEFINE m == Last(depth)
<1>8. m \in Nat /\ depth = Counted(m)
  BY <1>3, SameCount
<1>9. CASE loc[1] = "C"
  <2>1. /\ closures' = [closures EXCEPT
             ![vstack[closure_loc].closure].captured[loc[2] + 1] = Top(0)]
        /\ vstack' = vstack /\ cstack' = cstack /\ ip' = ip /\ status' = status
        /\ depth' = depth
    BY <1>2, <1>4, <1>9 DEF St
  <2>2. is_closure /\ loc[2] \in 0..(Fun.ncaptured - 1) /\ Fun.ncaptured \in Nat
    BY <1>3, <1>9, LocationSlots, Running
  <2>3. PICK i \in 1..Len(closures) :
          /\ vstack[closure_loc].closure = i
          /\ closures[i].fun = ip.fun /\ closures[i] \in ClosureType
          /\ closures[i].captured \in [1..Fun.ncaptured -> Values]
    BY <1>3, <2>2, SelfClosure
  <2> DEFINE c == [closures[i] EXCEPT !.captured[loc[2] + 1] = Top(0)]
  <2>4. /\ ip.fun \in DOMAIN Funs
        /\ closures[i] \in [fun : {ip.fun}, captured : [1..Fun.ncaptured -> Values]]
    <3>1. ip.fun \in DOMAIN Funs
      BY <1>3, Running
    <3>2. closures[i] = [fun |-> closures[i].fun, captured |-> closures[i].captured]
      BY <2>3 DEF ClosureType
    <3>3. QED
      BY <2>3, <3>1, <3>2
  <2>5. c \in [fun : {ip.fun}, captured : [1..Fun.ncaptured -> Values]]
    BY <1>5, <2>2, <2>4
  <2>6. c \in ClosureType /\ c.fun = closures[i].fun
    BY <2>3, <2>4, <2>5 DEF ClosureType, Fun
  <2>7. closures' = [closures EXCEPT ![i] = c]
    BY <2>1, <2>3
  <2> HIDE DEF c
  <2>8. /\ closures' \in Seq(ClosureType) /\ Len(closures') = Len(closures)
        /\ \A j \in 1..Len(closures) : closures'[j].fun = closures[j].fun
    BY <1>7, <2>6, <2>7
  <2>9. Values' = Values /\ ClosureType' = ClosureType
    BY <2>8 DEF Values, ClosureType
  <2>10. /\ depth' = Counted(m) /\ frame_pointer + nlocals + m <= Len(vstack')
         /\ "LSTRING" \notin Instrs => Len(vstack') = frame_pointer + nlocals + m
    BY <1>6, <1>8, <2>1
  <2> HIDE DEF m
  <2>11. QED
    BY <1>3, <1>7, <1>8, <2>1, <2>8, <2>9, <2>10, OwnStep
<1>10. CASE loc[1] # "C"
  <2> DEFINE s == Slot(loc)
  <2>1. /\ vstack' = [vstack EXCEPT ![s] = Top(0)]
        /\ closures' = closures /\ cstack' = cstack /\ ip' = ip /\ status' = status
        /\ depth' = depth
    BY <1>2, <1>4, <1>10 DEF St
  <2>2. s \in 2..Len(vstack)
    BY <1>4
  <2>3. ASSUME NEW k \in Activations, Flag(k) PROVE First(k) + 1 # s
    <3>1. /\ First(k) + 1 \in 1..frame_pointer /\ NGlobals + 2 < First(k) + 1
          /\ k < Begun => First(k) + 1 <= FrameStart
      BY <1>3, <2>3, ClosureSlots
    <3>2. /\ loc[1] # "G" => s > FrameStart
          /\ loc[1] = "G" => s <= NGlobals + 1
          /\ is_closure => s # closure_loc
      BY <1>3, <1>10, SlotBounds
    <3>3. CASE k = Begun
      <4>1. is_closure /\ closure_loc = First(k) + 1
        <5>1. is_closure = Flag(Begun) /\ FrameStart = First(Begun)
          BY <1>3, Running
        <5>2. is_closure
          BY <2>3, <3>3, <5>1
        <5>3. /\ frame_pointer \in Nat /\ FrameStart \in Nat /\ nargs = Fun.nargs
              /\ Fun \in [nargs : Nat, nlocals : Nat, ncaptured : Nat]
              /\ frame_pointer = FrameStart + nargs + (IF is_closure THEN 1 ELSE 0)
          BY <1>3, Running
        <5>4. frame_pointer = FrameStart + nargs + 1 /\ nargs \in Nat
          BY <5>2, <5>3
        <5>5. QED
          BY <3>3, <5>1, <5>2, <5>3, <5>4 DEF closure_loc
      <4>2. QED
        BY <3>2, <4>1
    <3>4. CASE k # Begun
      <4>1. k < Begun /\ FrameStart \in Nat
        <5>1. Len(depth) = Begun /\ Begun \in Nat /\ FrameStart \in Nat
          BY <1>3, Running
        <5>2. QED
          BY <3>4, <5>1 DEF Activations
      <4>2. CASE loc[1] = "G"
        BY <2>2, <3>1, <3>2, <4>2, SizesTyped
      <4>3. CASE loc[1] # "G"
        BY <2>2, <3>1, <3>2, <4>1, <4>3
      <4>4. QED
        BY <4>2, <4>3
    <3>5. QED
      BY <3>3, <3>4
  <2> HIDE DEF s
  <2>4. /\ vstack' \in Seq(Values) /\ Len(vstack') = Len(vstack)
        /\ \A i : i # s => vstack'[i] = vstack[i]
    BY <1>3, <1>5, <2>1, <2>2
  <2>5. \A k \in Activations : Flag(k) => vstack'[First(k) + 1] = vstack[First(k) + 1]
    BY <2>3, <2>4
  <2>6. Values' = Values /\ ClosureType' = ClosureType
    BY <2>1 DEF Values, ClosureType
  <2>7. /\ depth' = Counted(m) /\ frame_pointer + nlocals + m <= Len(vstack')
        /\ "LSTRING" \notin Instrs => Len(vstack') = frame_pointer + nlocals + m
    BY <1>6, <1>8, <2>1, <2>4
  <2> HIDE DEF m
  <2>8. QED
    BY <1>3, <1>7, <1>8, <2>1, <2>4, <2>5, <2>6, <2>7, OwnStep
<1>11. QED
  BY <1>9, <1>10

\* CLOSURE captures the values of variables, and leaves one word.
LEMMA ClosureStep == IInv /\ Closure => IInv'
<1> SUFFICES ASSUME IInv, Closure PROVE IInv'
  OBVIOUS
<1>1. Dispatch("CLOSURE", 0)
  BY DEF Closure
<1> DEFINE Made(f, locs) ==
        IF Overflow(Funs[f].ncaptured + 1) THEN Fail("overflow")
        ELSE IF \E i \in DOMAIN locs : BadSlot(Slot(locs[i]))
          THEN \E i \in DOMAIN locs : /\ BadSlot(Slot(locs[i]))
                                      /\ Fail(Blame(Slot(locs[i])))
        ELSE /\ closures' = Append(closures, [fun |-> f,
                               captured |-> [i \in DOMAIN locs |-> Load(locs[i])]])
             /\ vstack' = Append(vstack, ClosureValue(Len(closures) + 1))
             /\ depth' = Counted(Last(depth) + 1)
             /\ UNCHANGED <<cstack, ip, status>>
<1>1a. PICK f \in DOMAIN Funs \ {"main"} :
         \E locs \in [1..Funs[f].ncaptured -> Locations] : Made(f, locs)
  BY DEF Closure
<1>2. PICK locs \in [1..Funs[f].ncaptured -> Locations] : Made(f, locs)
  BY <1>1a
<1>3. /\ TypeInv /\ FrameInv /\ status = "run" /\ ip.place # 0 /\ Last(depth) \in Nat
      /\ vstack \in Seq(Values) /\ Len(vstack) \in Nat
  BY <1>1, Dispatched
<1>4. /\ Funs[f].ncaptured \in Nat /\ DOMAIN locs = 1..Funs[f].ncaptured
      /\ \A i \in DOMAIN locs : ~BadSlot(Slot(locs[i])) /\ Load(locs[i]) \in Values
  BY <1>3, FunsTyped, SlotBounds, LoadTyped
<1>5. CASE Overflow(Funs[f].ncaptured + 1)
  <2>1. Fail("overflow")
    BY <1>2, <1>5
  <2>2. Overflow(Widest)
    BY <1>3, <1>4, <1>5, WidestBound, SizesTyped DEF Overflow
  <2>3. QED
    BY <1>3, <2>1, <2>2, FailStep
<1>6. CASE ~Overflow(Funs[f].ncaptured + 1)
  <2> DEFINE c == [fun |-> f, captured |-> [i \in DOMAIN locs |-> Load(locs[i])]]
             v == ClosureValue(Len(closures) + 1)
             m == Last(depth) + 1
  <2>1. /\ closures' = Append(closures, c) /\ vstack' = Append(vstack, v)
        /\ depth' = Counted(m) /\ cstack' = cstack /\ ip' = ip /\ status' = status
    BY <1>2, <1>4, <1>6
  <2>2. /\ Len(vstack) + 1 <= VSTACK_SIZE
        /\ closures \in Seq(ClosureType) /\ Len(closures) \in Nat /\ ip \in Points
    <3>1. Len(vstack) + 1 <= VSTACK_SIZE
      BY <1>3, <1>4, <1>6, SizesTyped DEF Overflow
    <3>2. QED
      BY <1>3, <3>1 DEF TypeInv, TypeOK
  <2>3. /\ frame_pointer + nlocals + Last(depth) <= Len(vstack)
        /\ frame_pointer \in Nat /\ nlocals \in Nat
        /\ "LSTRING" \notin Instrs => Len(vstack) = frame_pointer + nlocals + Last(depth)
    <3>1. /\ frame_pointer + nlocals + Last(depth) <= Len(vstack)
          /\ Fun \in [nargs : Nat, nlocals : Nat, ncaptured : Nat]
          /\ frame_pointer \in Nat /\ nlocals = Fun.nlocals
      BY <1>3, Running
    <3>2. QED
      BY <1>3, <3>1, OperandCount
  <2>4. c \in ClosureType
    <3>1. c \in [fun : {f}, captured : [1..Funs[f].ncaptured -> Values]]
      BY <1>4
    <3>2. QED
      BY <3>1 DEF ClosureType
  <2> HIDE DEF c
  <2>5. /\ Len(closures') = Len(closures) + 1
        /\ \A i \in 1..Len(closures) : closures'[i] = closures[i]
        /\ closures' \in Seq(ClosureType)
    BY <2>1, <2>2, <2>4, AppendProperties
  <2>6. Values \subseteq Values' /\ ClosureType \subseteq ClosureType' /\ v \in Values'
    <3>1. 1..Len(closures) \subseteq 1..Len(closures') /\ Len(closures) + 1 \in 1..Len(closures')
      BY <2>2, <2>5
    <3>2. Values \subseteq Values' /\ v \in Values'
      BY <3>1 DEF Values
    <3>3. QED
      BY <3>2 DEF ClosureType
  <2> HIDE DEF v
  <2>7. closures' \in Seq(ClosureType') /\ vstack \in Seq(Values')
    BY <1>3, <2>5, <2>6, SeqMonotonic
  <2>8. /\ vstack' \in Seq(Values') /\ Len(vstack') = Len(vstack) + 1
        /\ \A i \in 1..Len(vstack) : vstack'[i] = vstack[i]
    BY <2>1, <2>6, <2>7, AppendProperties
  <2>9. /\ m \in Nat /\ Len(vstack') <= VSTACK_SIZE
        /\ frame_pointer + nlocals + m <= Len(vstack')
        /\ "LSTRING" \notin Instrs => Len(vstack') = frame_pointer + nlocals + m
    <3>1. m \in Nat /\ Len(vstack') <= VSTACK_SIZE
      BY <1>3, <2>2, <2>8
    <3>2. frame_pointer + nlocals + m <= Len(vstack')
      BY <1>3, <2>3, <2>8
    <3>3. "LSTRING" \notin Instrs => Len(vstack') = frame_pointer + nlocals + m
      <4>1. HAVE "LSTRING" \notin Instrs
      <4>2. Len(vstack) = frame_pointer + nlocals + Last(depth)
        BY <2>3, <4>1
      <4>3. QED
        BY <1>3, <2>3, <2>8, <4>2
    <3>4. QED
      BY <3>1, <3>2, <3>3
  <2>10. \A k \in Activations : Flag(k) => vstack'[First(k) + 1] = vstack[First(k) + 1]
    <3>1. \A i \in 1..frame_pointer : i \in 1..Len(vstack)
      BY <1>3, <2>3
    <3>2. QED
      BY <1>3, <2>8, <3>1, ClosureSlots
  <2>11. \A i \in 1..Len(closures) : /\ i \in 1..Len(closures')
                                     /\ closures'[i].fun = closures[i].fun
    BY <2>2, <2>5
  <2> HIDE DEF m
  <2>12. QED
    BY <1>3, <2>1, <2>2, <2>7, <2>8, <2>9, <2>10, <2>11, OwnStep
<1>7. QED
  BY <1>5, <1>6

---------------------------------------------------------------------------
(***************************************************************************)
(* Calls, entries and returns.                                             *)
(***************************************************************************)

\* The frames below a change of the call stack are what they were.
LEMMA FramesBelow ==
  ASSUME NEW b \in Nat, \A i \in 1..(5 * b) : cstack'[i] = cstack[i]
  PROVE  \A k \in 1..b : /\ Flag(k)' = Flag(k) /\ Ret(k)' = Ret(k) /\ Fp(k)' = Fp(k)
                         /\ NArgs(k)' = NArgs(k) /\ NLocals(k)' = NLocals(k)
                         /\ Start(k)' = Start(k)
<1> TAKE k \in 1..b
<1>1. /\ 5 * k - 4 \in 1..(5 * b) /\ 5 * k - 3 \in 1..(5 * b) /\ 5 * k - 2 \in 1..(5 * b)
      /\ 5 * k - 1 \in 1..(5 * b) /\ 5 * k \in 1..(5 * b)
  OBVIOUS
<1>2. /\ Flag(k)' = Flag(k) /\ Ret(k)' = Ret(k) /\ Fp(k)' = Fp(k)
      /\ NArgs(k)' = NArgs(k) /\ NLocals(k)' = NLocals(k)
  BY <1>1 DEF Flag, Ret, Fp, NArgs, NLocals
<1>3. QED
  BY <1>2 DEF Start

\* A call: the operands passed become the bottom of an activation that has
\* not begun.
LEMMA TransferStep ==
  ASSUME IInv, status = "run", ip.place # 0,
         NEW f \in DOMAIN Funs \ {"main"}, NEW closure \in BOOLEAN, NEW n \in Nat,
         n = Funs[f].nargs + (IF closure THEN 1 ELSE 0), n <= Last(depth),
         Verified(Funs[f].nargs),
         Funs[f].ncaptured > 0 => closure,
         closure => \E i \in 1..Len(closures) :
                      /\ vstack[Len(vstack) - n + 1] = ClosureValue(i)
                      /\ closures[i].fun = f,
         Transfer(f, closure, n)
  PROVE  IInv'
<1>1. TypeInv /\ FrameInv /\ NoUnderflow /\ OverflowMeansFull
  BY DEF IInv
<1>0. PICK B \in Nat \ {0} : B = Begun
  BY <1>1, Running
<1>2. /\ Len(depth) = B /\ B \in Nat \ {0} /\ Len(cstack) = 5 * B
      /\ Last(depth) \in Nat /\ Last(depth) = depth[B] /\ Len(vstack) \in Nat
      /\ frame_pointer = Fp(B) /\ nlocals = NLocals(B) /\ ip.fun \in DOMAIN Funs
      /\ frame_pointer \in Nat /\ Code(B) = ip
      /\ frame_pointer + nlocals + Last(depth) <= Len(vstack)
  BY <1>0, <1>1, Running
<1>3. nlocals \in Nat /\ Funs[f].nargs \in Nat
  BY <1>1, FunsTyped, Running
<1>4. PICK s \in Places :
        IF ~Verified(Funs[f].nargs)
          THEN Fail(Blame(Len(vstack) - Funs[f].nargs))
        ELSE IF CallOverflow(2) THEN Fail("overflow")
        ELSE /\ cstack' = cstack \o <<closure, [fun |-> ip.fun, place |-> s]>>
             /\ ip' = Entry(f)
             /\ depth' = Append(Counted(Last(depth) - n), 0)
             /\ UNCHANGED <<vstack, closures, status>>
  BY DEF Transfer
<1>5. CASE CallOverflow(2)
  <2>1. Fail("overflow")
    BY <1>4, <1>5
  <2>2. CallOverflow(3)
    BY <1>2, <1>5, SizesTyped, SMTT(30) DEF CallOverflow
  <2>3. QED
    BY <2>1, <2>2, FailStep
<1>6. CASE ~CallOverflow(2)
  <2> DEFINE p == [fun |-> ip.fun, place |-> s]
             w == <<closure, p>>
  <2>1. /\ cstack' = cstack \o w /\ ip' = Entry(f)
        /\ depth' = Append(Counted(Last(depth) - n), 0)
        /\ vstack' = vstack /\ closures' = closures /\ status' = "run"
    BY <1>4, <1>6
  <2>2. /\ p \in Points /\ p.fun = ip.fun /\ p.place # 0
        /\ w \in Seq(Words) /\ Len(w) = 2 /\ w[1] = closure /\ w[2] = p
    <3>1. p \in Points /\ p.place # 0 /\ p.fun = ip.fun
      BY <1>2, SizesTyped DEF Points
    <3>2. closure \in Words /\ p \in Words
      BY <3>1 DEF Words
    <3> HIDE DEF p
    <3>3. QED
      BY <3>1, <3>2, PairInSeq
  <2> HIDE DEF p, w
  <2>3. /\ cstack' \in Seq(Words) /\ Len(cstack') = 5 * B + 2
        /\ \A i \in 1..(5 * B) : cstack'[i] = cstack[i]
        /\ cstack'[5 * B + 1] = closure /\ cstack'[5 * B + 2] = p
    <3>1. cstack \in Seq(Words)
      BY <1>1 DEF TypeInv
    <3>2. /\ cstack' \in Seq(Words) /\ Len(cstack') = Len(cstack) + 2
          /\ \A i \in 1..Len(cstack) : cstack'[i] = cstack[i]
          /\ \A i \in 1..2 : cstack'[Len(cstack) + i] = w[i]
      <4> DEFINE c == cstack \o w
      <4>1. /\ c \in Seq(Words) /\ Len(c) = Len(cstack) + Len(w)
            /\ \A i \in 1..Len(cstack) : c[i] = cstack[i]
            /\ \A i \in 1..Len(w) : c[Len(cstack) + i] = w[i]
        <5>1. w \in Seq(Words)
          BY <2>2
        <5> HIDE DEF c
        <5>2. c = cstack \o w
          BY DEF c
        <5>3. QED
          BY <3>1, <5>1, <5>2, Appended
      <4>2. cstack' = c
        BY <2>1
      <4> HIDE DEF c
      <4>3. QED
        BY <2>2, <4>1, <4>2
    <3>3. cstack'[Len(cstack) + 1] = closure /\ cstack'[Len(cstack) + 2] = p
      BY <2>2, <3>2
    <3>4. QED
      BY <1>2, <3>2, <3>3
  <2> DEFINE d == Counted(Last(depth) - n)
  <2>4. /\ depth' \in Seq(Nat) /\ Len(depth') = B + 1 /\ depth'[B + 1] = 0
        /\ depth'[B] = Last(depth) - n
        /\ \A k \in 1..(B - 1) : depth'[k] = depth[k]
    <3>1. depth \in Seq(Nat) /\ Last(depth) - n \in Nat
      BY <1>1, <1>2 DEF TypeInv, TypeOK
    <3>2. /\ d \in Seq(Nat) /\ Len(d) = B /\ d[B] = Last(depth) - n
          /\ \A k \in 1..(B - 1) : d[k] = depth[k]
      BY <1>2, <3>1 DEF Counted
    <3> HIDE DEF d
    <3>3. /\ Append(d, 0) \in Seq(Nat) /\ Len(Append(d, 0)) = B + 1
          /\ Append(d, 0)[B + 1] = 0 /\ \A k \in 1..B : Append(d, 0)[k] = d[k]
      BY <1>2, <3>2, AppendProperties
    <3>4. depth' = Append(d, 0)
      BY <2>1 DEF d
    <3>5. B \in 1..B /\ \A k \in 1..(B - 1) : k \in 1..B
      BY <1>2
    <3>6. QED
      BY <3>2, <3>3, <3>4, <3>5
  <2> HIDE DEF d
  <2>5. Values' = Values /\ ClosureType' = ClosureType
    BY <2>1 DEF Values, ClosureType
  <2>6. TypeInv'
    <3>1. ASSUME NEW i \in DOMAIN cstack' PROVE WordOK(i)'
      <4>1. i \in 1..(5 * B + 2) /\ i \in Nat
        BY <1>2, <2>3
      <4>2. CASE i <= 5 * B
        <5>1. WordOK(i) /\ cstack'[i] = cstack[i]
          BY <1>1, <1>2, <2>3, <4>1, <4>2 DEF TypeInv, TypeOK
        <5>2. QED
          BY <5>1 DEF WordOK, Points
      <4>3. CASE i = 5 * B + 1
        <5>1. i % 5 = 1
          BY <1>2, <4>3
        <5>2. QED
          BY <2>3, <4>3, <5>1 DEF WordOK
      <4>4. CASE i = 5 * B + 2
        <5>1. i % 5 = 2
          BY <1>2, <4>4
        <5>2. QED
          BY <2>2, <2>3, <4>4, <5>1 DEF WordOK, Points
      <4>5. QED
        BY <4>1, <4>2, <4>3, <4>4
    <3>2. Len(cstack') <= CSTACK_SIZE
      BY <1>2, <1>6, <2>3, SizesTyped DEF CallOverflow
    <3>3. ip' \in Points'
      BY <2>1 DEF Entry, Points
    <3>4. TypeOK'
      BY <1>1, <2>1, <2>4, <2>5, <3>1, <3>2, <3>3 DEF TypeInv, TypeOK
    <3>5. QED
      BY <1>1, <2>1, <2>3, <2>5, <3>4 DEF TypeInv, Words
  <2>7. /\ Begun' = B /\ Calling' /\ ip'.place = 0 /\ ip'.fun = f
        /\ Activations' = 1..(B + 1) /\ Activations = 1..B /\ B + 1 \in Nat
    <3>1. (5 * B + 2) \div 5 = B /\ (5 * B + 2) % 5 = 2
      OBVIOUS
    <3>2. Begun' = B /\ Calling'
      BY <2>3, <3>1 DEF Begun, Calling
    <3>3. ip'.place = 0 /\ ip'.fun = f
      BY <2>1 DEF Entry
    <3>4. Activations' = 1..(B + 1) /\ Activations = 1..B
      BY <1>2, <2>4 DEF Activations
    <3>5. QED
      BY <3>2, <3>3, <3>4
  <2>8. /\ \A k \in 1..B : /\ Flag(k)' = Flag(k) /\ Ret(k)' = Ret(k) /\ Fp(k)' = Fp(k)
                           /\ NArgs(k)' = NArgs(k) /\ NLocals(k)' = NLocals(k)
                           /\ Start(k)' = Start(k)
        /\ Flag(B + 1)' = closure /\ Ret(B + 1)' = p
    <3>1. 5 * (B + 1) - 4 = 5 * B + 1 /\ 5 * (B + 1) - 3 = 5 * B + 2
      BY <1>2, SMTT(30)
    <3>2. Flag(B + 1)' = closure /\ Ret(B + 1)' = p
      BY <2>3, <3>1 DEF Flag, Ret
    <3>3. QED
      BY <1>2, <2>3, <3>2, FramesBelow
  <2>9. \A k \in 1..B : First(k)' = First(k) /\ First(k) = Start(k)
    BY <1>0, <1>2, <2>7, <2>8 DEF First
  <2>10. First(B + 1)' = Len(vstack) - n
    <3>1. CallStart' = Len(vstack) - Funs[f].nargs - (IF closure THEN 1 ELSE 0)
      BY <2>1, <2>7, <2>8 DEF CallStart, Fun
    <3>2. Len(vstack) - Funs[f].nargs - (IF closure THEN 1 ELSE 0) = Len(vstack) - n
      BY <1>2, <1>3, SMTT(30)
    <3>3. ~(B + 1 <= B)
      BY <1>2
    <3>4. QED
      BY <2>7, <3>1, <3>2, <3>3 DEF First
  <2>11. /\ \A k \in 1..B : k < B => Code(k)' = Code(k) /\ Limit(k)' = Limit(k)
         /\ Code(B)' = p /\ Limit(B)' = Len(vstack) - n /\ Code(B + 1)' = ip'
    <3>1. ASSUME NEW k \in 1..B, k < B PROVE Code(k)' = Code(k) /\ Limit(k)' = Limit(k)
      <4>1. k + 1 \in 1..B /\ k < B + 1
        BY <1>2, <3>1
      <4>2. QED
        BY <1>2, <2>4, <2>8, <2>9, <3>1, <4>1 DEF Code, Limit
    <3>2. B < B + 1 /\ ~(B + 1 < B + 1)
      BY <1>2
    <3>3. QED
      BY <2>4, <2>8, <2>10, <3>1, <3>2 DEF Code, Limit
  <2>12. B \in 1..B /\ 1 \in 1..B
    BY <1>2
  <2>13. Shape' /\ MainAtBottom'
    <3>1. Shape'
      BY <1>2, <2>3, <2>4, <2>7 DEF Shape
    <3>2. MainAtBottom'
      BY <1>1, <2>8, <2>9, <2>12 DEF MainAtBottom, FrameInv
    <3>3. QED
      BY <3>1, <3>2
  <2>14. Fp(B) + NLocals(B) <= Len(vstack) - n
    BY <1>2, <1>3
  <2>15. Stacked'
    <3> SUFFICES ASSUME NEW j \in 1..(B + 1), NEW k \in 1..(B + 1), j < k
                 PROVE  Fp(j)' + NLocals(j)' <= First(k)'
      BY <2>7 DEF Stacked
    <3>1. j \in 1..B
      BY <1>2
    <3>2. CASE k \in 1..B
      <4>1. Fp(j) + NLocals(j) <= First(k)
        BY <1>1, <2>7, <3>1, <3>2 DEF FrameInv, Stacked
      <4>2. QED
        BY <2>8, <2>9, <3>1, <3>2, <4>1
    <3>3. CASE k = B + 1
      <4>1. CASE j = B
        BY <2>8, <2>10, <2>12, <2>14, <3>3, <4>1
      <4>2. CASE j # B
        <5>1. j < B
          BY <1>2, <3>1, <4>2
        <5>2. Fp(j) + NLocals(j) <= First(B)
          BY <1>1, <2>7, <2>12, <3>1, <5>1 DEF FrameInv, Stacked
        <5>3. /\ Fp(j) \in Nat /\ NLocals(j) \in Nat /\ Fp(B) \in Nat /\ NLocals(B) \in Nat
              /\ NArgs(B) \in Nat /\ Flag(B) \in BOOLEAN
          BY <1>1, <2>7, <2>12, <3>1, <1>0, FrameWords DEF FrameInv
        <5>4. First(B) \in Int /\ First(B) <= Fp(B)
          BY <2>9, <2>12, <5>3 DEF Start
        <5>5. Fp(j) + NLocals(j) <= Len(vstack) - n
          BY <1>2, <2>14, <5>2, <5>3, <5>4, SMTT(30)
        <5>6. QED
          BY <2>8, <2>10, <3>1, <3>3, <5>5
      <4>3. QED
        BY <4>1, <4>2
    <3>4. QED
      BY <3>2, <3>3
  <2>16. ASSUME NEW k \in 1..(B + 1) PROVE CodeOK(k)' /\ ClosureOK(k)'
    <3>1. CASE k \in 1..B
      <4>1. CodeOK(k) /\ ClosureOK(k)
        BY <1>1, <2>7, <3>1 DEF FrameInv
      <4>2. Code(k)'.fun = Code(k).fun
        <5>1. CASE k = B
          BY <1>2, <2>2, <2>11, <5>1
        <5>2. CASE k # B
          <6>1. k < B
            BY <1>2, <3>1, <5>2
          <6>2. QED
            BY <2>11, <3>1, <6>1
        <5>3. QED
          BY <5>1, <5>2
      <4>3. Code(k)'.place # 0
        <5>1. CASE k = B
          BY <2>2, <2>11, <5>1
        <5>2. CASE k # B
          <6>1. k < B
            BY <1>2, <3>1, <5>2
          <6>2. QED
            BY <1>2, <2>11, <3>1, <4>1, <6>1 DEF CodeOK
        <5>3. QED
          BY <5>1, <5>2
      <4>4. CodeOK(k)'
        BY <4>1, <4>2, <4>3 DEF CodeOK
      <4>5. ClosureOK(k)'
        BY <2>1, <2>8, <2>9, <3>1, <4>1, <4>2 DEF ClosureOK
      <4>6. QED
        BY <4>4, <4>5
    <3>2. CASE k = B + 1
      <4>1. Code(k)'.fun = f /\ ~(k < Len(depth')) /\ k # 1
        BY <1>2, <2>4, <2>7, <2>11, <3>2, SMTT(30)
      <4>2. CodeOK(k)'
        BY <4>1 DEF CodeOK
      <4>3. ClosureOK(k)'
        BY <2>1, <2>8, <2>10, <3>2, <4>1 DEF ClosureOK
      <4>4. QED
        BY <4>2, <4>3
    <3>3. QED
      BY <1>2, <3>1, <3>2
  <2>17. ASSUME NEW k \in 1..B PROVE FrameOK(k)'
    <3>1. FrameOK(k)
      BY <1>0, <1>1 DEF FrameInv
    <3>2. CASE k = B
      <4>1. /\ NArgs(B)' = Funs[Code(B)'.fun].nargs
            /\ NLocals(B)' = Funs[Code(B)'.fun].nlocals
        BY <1>2, <2>2, <2>8, <2>11, <2>12, <3>1, <3>2 DEF FrameOK
      <4>2. Limit(B)' >= Fp(B)' + NLocals(B)' + depth'[B]
        <5>1. Len(vstack) - n >= frame_pointer + nlocals + (Last(depth) - n)
          BY <1>2, <1>3, SMTT(30)
        <5>2. QED
          BY <1>2, <2>4, <2>8, <2>11, <2>12, <5>1
      <4>3. "LSTRING" \notin Instrs => Limit(B)' = Fp(B)' + NLocals(B)' + depth'[B]
        <5>1. HAVE "LSTRING" \notin Instrs
        <5>2. Len(vstack) = frame_pointer + nlocals + Last(depth)
          BY <1>1, <5>1, OperandCount
        <5>3. Len(vstack) - n = frame_pointer + nlocals + (Last(depth) - n)
          <6>1. /\ Len(vstack) \in Int /\ frame_pointer \in Int /\ nlocals \in Int
                /\ Last(depth) \in Int /\ n \in Int
            BY <1>2, <1>3
          <6>2. QED
            BY <5>2, <6>1
        <5>4. QED
          BY <1>2, <2>4, <2>8, <2>11, <2>12, <5>3
      <4>4. QED
        BY <3>2, <4>1, <4>2, <4>3 DEF FrameOK
    <3>3. CASE k # B
      <4>1. k < B /\ k \in 1..(B - 1)
        BY <1>2, <3>3
      <4>2. QED
        BY <2>4, <2>8, <2>11, <3>1, <4>1 DEF FrameOK
    <3>4. QED
      BY <3>2, <3>3
  <2>18. QED
    BY <2>1, <2>6, <2>7, <2>13, <2>15, <2>16, <2>17
    DEF IInv, FrameInv, NoUnderflow, OverflowMeansFull
<1>7. QED
  BY <1>5, <1>6

\* CALL leaves the arguments where the new frame expects them: the operands of
\* the caller below them stay its own.
LEMMA CallStep == IInv /\ Call => IInv'
<1> SUFFICES ASSUME IInv, Call PROVE IInv'
  OBVIOUS
<1>1. PICK f \in DOMAIN Funs \ {"main"} :
        /\ Funs[f].ncaptured = 0 /\ Dispatch("CALL", Funs[f].nargs)
        /\ Transfer(f, FALSE, Funs[f].nargs)
  BY DEF Call
<1>2. PICK n \in Nat : n = Funs[f].nargs
  BY FunsTyped
<1>3. status = "run" /\ ip.place # 0 /\ n <= Last(depth) /\ Verified(n)
  BY <1>1, <1>2, Dispatched
<1>4. Transfer(f, FALSE, n)
  BY <1>1, <1>2
<1>5. n = Funs[f].nargs + (IF FALSE THEN 1 ELSE 0)
  BY <1>2
<1>6. Verified(Funs[f].nargs) /\ ~(Funs[f].ncaptured > 0)
  BY <1>1, <1>2, <1>3
<1>7. QED
  BY <1>3, <1>4, <1>5, <1>6, TransferStep

\* CALLC: what lies under the arguments is a closure of the callee.
LEMMA CallCStep == IInv /\ CallC => IInv'
<1> SUFFICES ASSUME IInv, CallC PROVE IInv'
  OBVIOUS
<1>1. PICK a \in {Funs[f].nargs : f \in DOMAIN Funs \ {"main"}} :
        /\ Dispatch("CALLC", a + 1) /\ IsClosure(Top(a))
        /\ Funs[closures[Top(a).closure].fun].nargs = a
        /\ Transfer(closures[Top(a).closure].fun, TRUE, a + 1)
  BY DEF CallC
<1>2. a \in Nat
  BY FunsTyped
<1>3. PICK n \in Nat : n = a + 1
  BY <1>2
<1>4. /\ TypeInv /\ FrameInv /\ status = "run" /\ ip.place # 0 /\ n <= Last(depth)
      /\ Last(depth) \in Nat /\ vstack \in Seq(Values) /\ n + 2 <= Len(vstack)
      /\ Len(vstack) \in Nat
  BY <1>1, <1>3, Dispatched
<1>5. Top(a) \in Values /\ Top(a) = vstack[Len(vstack) - n + 1]
  <2>1. a < Len(vstack) /\ Len(vstack) - a = Len(vstack) - n + 1
    BY <1>2, <1>3, <1>4
  <2>2. QED
    BY <1>2, <1>4, <2>1, TopTyped
<1>6. PICK i \in 1..Len(closures) : Top(a) = ClosureValue(i)
  BY <1>1, <1>5 DEF IsClosure, Values
<1>7. Top(a).closure = i
  BY <1>6 DEF ClosureValue
<1>8. closures \in Seq(ClosureType) /\ i \in DOMAIN closures
  BY <1>4 DEF TypeInv
<1>9. PICK f \in DOMAIN Funs \ {"main"} : f = closures[i].fun
  BY <1>8, ClosuresTyped
<1>10. Funs[f].nargs = a /\ Transfer(f, TRUE, n)
  BY <1>1, <1>3, <1>7, <1>9
<1>11. Verified(Funs[f].nargs)
  BY <1>2, <1>3, <1>4, <1>10, SizesTyped DEF Verified, BadSlot, TypeInv, TypeOK
<1>12. n = Funs[f].nargs + (IF TRUE THEN 1 ELSE 0)
  BY <1>3, <1>10
<1>13. \E j \in 1..Len(closures) : /\ vstack[Len(vstack) - n + 1] = ClosureValue(j)
                                   /\ closures[j].fun = f
  BY <1>5, <1>6, <1>9
<1>14. QED
  BY <1>4, <1>10, <1>11, <1>12, <1>13, TransferStep

\* BEGIN: the words of the frame go on the call stack, and the locals on top
\* of the arguments.
LEMMA BeginStep == IInv /\ Begin => IInv'
<1> SUFFICES ASSUME IInv, Begin PROVE IInv'
  OBVIOUS
<1>1. /\ TypeInv /\ FrameInv /\ NoUnderflow /\ OverflowMeansFull
      /\ status = "run" /\ ip.place = 0
  BY DEF Begin, IInv
<1>2. PICK B \in Nat : B = Begun
  BY <1>1, FrameWords DEF FrameInv
<1>3. /\ Calling /\ Len(cstack) = 5 * B + 2 /\ Len(depth) = B + 1 /\ depth[B + 1] = 0
      /\ Activations = 1..(B + 1) /\ B + 1 \in Activations
      /\ \A k \in 1..B : k \in Activations
      /\ Len(vstack) \in Nat /\ Code(B + 1) = ip
  BY <1>1, <1>2, SMTT(30) DEF FrameInv, Shape, Activations, Code, TypeInv, TypeOK
<1>4. ip.fun \in DOMAIN Funs /\ Fun.nargs \in Nat /\ Fun.nlocals \in Nat
  <2>1. CodeOK(B + 1)
    BY <1>1, <1>3 DEF FrameInv
  <2>2. QED
    BY <1>3, <2>1, FunsTyped DEF CodeOK, Fun
<1>5. CASE CallOverflow(3) \/ Overflow(Fun.nlocals)
  <2>1. Fail("overflow")
    BY <1>1, <1>5 DEF Begin
  <2>2. CallOverflow(3) \/ Overflow(Widest)
    <3>1. Fun.nlocals <= Widest /\ Widest \in Nat
      BY <1>4, WidestBound DEF Fun
    <3>2. Overflow(Fun.nlocals) => Overflow(Widest)
      BY <1>3, <1>4, <3>1, SizesTyped DEF Overflow
    <3>3. QED
      BY <1>5, <3>2
  <2>3. QED
    BY <1>1, <2>1, <2>2, FailStep
<1>6. CASE ~(CallOverflow(3) \/ Overflow(Fun.nlocals))
  <2> DEFINE w == <<Len(vstack), Fun.nargs, Fun.nlocals>>
             z == [i \in 1..Fun.nlocals |-> Zero]
  <2>1. /\ cstack' = cstack \o w /\ vstack' = vstack \o z
        /\ ip' = [ip EXCEPT !.place = 1]
        /\ closures' = closures /\ status' = "run" /\ depth' = depth
    BY <1>1, <1>6 DEF Begin
  <2>2. /\ w \in Seq(Words) /\ Len(w) = 3
        /\ w[1] = Len(vstack) /\ w[2] = Fun.nargs /\ w[3] = Fun.nlocals
    <3>1. w \in Seq(Nat) /\ Len(w) = 3
      BY <1>3, <1>4
    <3>2. Nat \subseteq Words
      BY DEF Words
    <3>3. w \in Seq(Words)
      BY <3>1, <3>2, SeqMonotonic
    <3>4. QED
      BY <3>1, <3>3
  <2>3. z \in Seq(Values) /\ Len(z) = Fun.nlocals
    BY <1>4, IntsAssumption DEF Values
  <2> HIDE DEF w, z
  <2>4. /\ cstack' \in Seq(Words) /\ Len(cstack') = 5 * B + 5
        /\ \A i \in 1..(5 * B + 2) : cstack'[i] = cstack[i]
        /\ cstack'[5 * B + 3] = Len(vstack) /\ cstack'[5 * B + 4] = Fun.nargs
        /\ cstack'[5 * B + 5] = Fun.nlocals
    <3> DEFINE c == cstack \o w
    <3>1. cstack \in Seq(Words) /\ w \in Seq(Words)
      BY <1>1, <2>2 DEF TypeInv
    <3>2. c = cstack \o w
      OBVIOUS
    <3> HIDE DEF c
    <3>3. /\ c \in Seq(Words) /\ Len(c) = Len(cstack) + Len(w)
          /\ \A i \in 1..Len(cstack) : c[i] = cstack[i]
          /\ \A i \in 1..Len(w) : c[Len(cstack) + i] = w[i]
      BY <3>1, <3>2, Appended
    <3>4. cstack' = c
      BY <2>1, <3>2
    <3>5. /\ c[Len(cstack) + 1] = w[1] /\ c[Len(cstack) + 2] = w[2]
          /\ c[Len(cstack) + 3] = w[3]
      BY <2>2, <3>3
    <3>6. QED
      BY <1>3, <2>2, <3>3, <3>4, <3>5
  <2>5. /\ vstack' \in Seq(Values) /\ Len(vstack') = Len(vstack) + Fun.nlocals
        /\ \A i \in 1..Len(vstack) : vstack'[i] = vstack[i]
    <3>1. vstack \in Seq(Values)
      BY <1>1 DEF TypeInv, TypeOK
    <3> DEFINE v == vstack \o z
    <3>2. /\ v \in Seq(Values) /\ Len(v) = Len(vstack) + Len(z)
          /\ \A i \in 1..Len(vstack) : v[i] = vstack[i]
      <4>1. v = vstack \o z
        OBVIOUS
      <4> HIDE DEF v
      <4>2. QED
        BY <2>3, <3>1, <4>1, Appended
    <3>3. vstack' = v
      BY <2>1
    <3> HIDE DEF v
    <3>4. QED
      BY <2>3, <3>2, <3>3
  <2>6. /\ Values' = Values /\ ClosureType' = ClosureType
        /\ ip' \in Points /\ ip'.fun = ip.fun /\ ip'.place = 1
    <3>1. ip \in Points
      BY <1>1 DEF TypeInv, TypeOK
    <3>2. QED
      BY <2>1, <3>1 DEF Values, ClosureType, Points
  <2>7. TypeInv'
    <3>1. ASSUME NEW i \in DOMAIN cstack' PROVE WordOK(i)'
      <4>1. i \in 1..(5 * B + 5)
        BY <2>4
      <4>2. CASE i \in 1..(5 * B + 2)
        <5>1. WordOK(i) /\ cstack'[i] = cstack[i]
          BY <1>1, <1>3, <2>4, <4>2 DEF TypeInv, TypeOK
        <5>2. QED
          BY <5>1 DEF WordOK, Points
      <4>3. CASE i \in {5 * B + 3, 5 * B + 4, 5 * B + 5}
        <5>1. i % 5 # 1 /\ i % 5 # 2
          BY <4>3
        <5>2. cstack'[i] \in Nat
          BY <1>3, <1>4, <2>4, <4>3
        <5>3. QED
          BY <5>1, <5>2 DEF WordOK
      <4>4. QED
        BY <4>1, <4>2, <4>3
    <3>2. Len(cstack') <= CSTACK_SIZE /\ Len(vstack') <= VSTACK_SIZE
      <4>1. Len(cstack') <= CSTACK_SIZE
        BY <1>3, <1>6, <2>4, SizesTyped DEF CallOverflow
      <4>2. Len(vstack') <= VSTACK_SIZE
        BY <1>3, <1>4, <1>6, <2>5, SizesTyped DEF Overflow
      <4>3. QED
        BY <4>1, <4>2
    <3>3. ip' \in Points'
      BY <2>6 DEF Points
    <3>4. TypeOK'
      BY <1>1, <2>1, <2>5, <2>6, <3>1, <3>2, <3>3 DEF TypeInv, TypeOK
    <3>5. QED
      BY <1>1, <2>1, <2>4, <2>6, <3>4 DEF TypeInv, Words
  <2>8. /\ Begun' = B + 1 /\ ~Calling' /\ Activations' = 1..(B + 1)
    <3>1. (5 * B + 5) \div 5 = B + 1 /\ (5 * B + 5) % 5 # 2
      OBVIOUS
    <3>2. QED
      BY <1>3, <2>1, <2>4, <3>1 DEF Begun, Calling, Activations
  <2>9. /\ \A k \in 1..B : /\ Flag(k)' = Flag(k) /\ Ret(k)' = Ret(k) /\ Fp(k)' = Fp(k)
                           /\ NArgs(k)' = NArgs(k) /\ NLocals(k)' = NLocals(k)
                           /\ Start(k)' = Start(k)
        /\ Flag(B + 1)' = Flag(B + 1) /\ Ret(B + 1)' = Ret(B + 1)
        /\ Fp(B + 1)' = Len(vstack) /\ NArgs(B + 1)' = Fun.nargs
        /\ NLocals(B + 1)' = Fun.nlocals
    <3>1. /\ 5 * (B + 1) - 4 = 5 * B + 1 /\ 5 * (B + 1) - 3 = 5 * B + 2
          /\ 5 * (B + 1) - 2 = 5 * B + 3 /\ 5 * (B + 1) - 1 = 5 * B + 4
          /\ 5 * (B + 1) = 5 * B + 5
          /\ 5 * B + 1 \in 1..(5 * B + 2) /\ 5 * B + 2 \in 1..(5 * B + 2)
      OBVIOUS
    <3>2. /\ Flag(B + 1)' = Flag(B + 1) /\ Ret(B + 1)' = Ret(B + 1)
          /\ Fp(B + 1)' = Len(vstack) /\ NArgs(B + 1)' = Fun.nargs
          /\ NLocals(B + 1)' = Fun.nlocals
      BY <2>4, <3>1 DEF Flag, Ret, Fp, NArgs, NLocals
    <3>3. \A i \in 1..(5 * B) : cstack'[i] = cstack[i]
      BY <2>4
    <3>4. QED
      BY <3>2, <3>3, FramesBelow
  <2>10. \A k \in 1..(B + 1) : First(k)' = First(k)
    <3>1. ASSUME NEW k \in 1..B PROVE First(k)' = First(k)
      BY <1>2, <2>8, <2>9 DEF First
    <3>2. First(B + 1)' = First(B + 1)
      <4>1. First(B + 1) = Len(vstack) - Fun.nargs - (IF Flag(B + 1) THEN 1 ELSE 0)
        BY <1>2 DEF First, CallStart
      <4>2. First(B + 1)' = Len(vstack) - Fun.nargs - (IF Flag(B + 1) THEN 1 ELSE 0)
        BY <2>8, <2>9 DEF First, Start
      <4>3. QED
        BY <4>1, <4>2
    <3>3. QED
      BY <3>1, <3>2
  <2>11. /\ \A k \in 1..B : Code(k)' = Code(k) /\ Limit(k)' = Limit(k)
         /\ Code(B + 1)' = ip' /\ Limit(B + 1)' = Len(vstack')
    <3>1. ASSUME NEW k \in 1..B PROVE Code(k)' = Code(k) /\ Limit(k)' = Limit(k)
      <4>1. k + 1 \in 1..(B + 1) /\ k < B + 1
        BY <3>1
      <4>2. CASE k + 1 = B + 1
        <5>1. Ret(k + 1)' = Ret(k + 1) /\ First(k + 1)' = First(k + 1)
          BY <2>9, <2>10, <4>2
        <5>2. QED
          BY <1>3, <2>1, <4>1, <5>1 DEF Code, Limit
      <4>3. CASE k + 1 # B + 1
        <5>1. k + 1 \in 1..B
          BY <4>1, <4>3
        <5>2. Ret(k + 1)' = Ret(k + 1) /\ First(k + 1)' = First(k + 1)
          BY <2>9, <2>10, <4>1, <5>1
        <5>3. QED
          BY <1>3, <2>1, <4>1, <5>2 DEF Code, Limit
      <4>4. QED
        BY <4>2, <4>3
    <3>2. QED
      BY <1>3, <2>1, <3>1 DEF Code, Limit
  <2>12. Shape' /\ MainAtBottom'
    <3>1. Shape'
      <4>1. 5 * B + 5 = 5 * (B + 1) + 0 /\ B + 1 = (B + 1) + 0 /\ B + 1 >= 1
        OBVIOUS
      <4>2. /\ Len(cstack') = 5 * Begun' + 0 /\ Len(depth') = Begun' + 0
            /\ Len(depth') >= 1 /\ ~Calling' /\ ip'.place # 0
        BY <1>3, <2>1, <2>4, <2>6, <2>8, <4>1
      <4>3. QED
        BY <4>2 DEF Shape
    <3>2. Flag(1)' = Flag(1) /\ Ret(1)' = Ret(1) /\ First(1)' = First(1)
      BY <2>9, <2>10
    <3>3. QED
      BY <1>1, <3>1, <3>2 DEF MainAtBottom, FrameInv
  <2>13. Stacked'
    <3> SUFFICES ASSUME NEW j \in 1..(B + 1), NEW k \in 1..(B + 1), j < k
                 PROVE  Fp(j)' + NLocals(j)' <= First(k)'
      BY <2>8 DEF Stacked
    <3>1. j \in 1..B
      OBVIOUS
    <3>2. Fp(j) + NLocals(j) <= First(k)
      BY <1>1, <1>3, <3>1 DEF FrameInv, Stacked
    <3>3. QED
      BY <2>9, <2>10, <3>1, <3>2
  <2>14. ASSUME NEW k \in 1..(B + 1) PROVE CodeOK(k)' /\ ClosureOK(k)'
    <3>1. CodeOK(k) /\ ClosureOK(k)
      BY <1>1, <1>3 DEF FrameInv
    <3>2. Code(k)'.fun = Code(k).fun /\ (k < B + 1 => Code(k)' = Code(k))
      <4>1. k \in 1..B \/ k = B + 1
        OBVIOUS
      <4>2. QED
        BY <1>3, <2>6, <2>11, <4>1
    <3>3. CodeOK(k)'
      BY <1>3, <2>1, <3>1, <3>2 DEF CodeOK
    <3>4. Flag(k)' = Flag(k) /\ First(k)' = First(k)
      <4>1. k \in 1..B \/ k = B + 1
        OBVIOUS
      <4>2. QED
        BY <2>9, <2>10, <4>1
    <3>5. ASSUME Flag(k) PROVE vstack'[First(k) + 1] = vstack[First(k) + 1]
      <4>1. First(k) \in Nat /\ First(k) + 1 <= Len(vstack)
        <5>1. CASE k \in 1..B
          <6>1. /\ First(k) \in Nat /\ First(k) = Fp(k) - NArgs(k) - 1
                /\ Fp(k) + NLocals(k) <= Limit(k) /\ Limit(k) <= Len(vstack)
                /\ Limit(k) \in Nat
            BY <1>1, <1>2, <1>3, <3>5, <5>1, Layout
          <6>2. Fp(k) \in Nat /\ NArgs(k) \in Nat /\ NLocals(k) \in Nat
            BY <1>1, <1>2, <5>1, FrameWords DEF FrameInv
          <6>3. QED
            BY <1>3, <6>1, <6>2
        <5>2. CASE k = B + 1
          <6>1. First(k) = Len(vstack) - Fun.nargs - 1
            BY <1>2, <3>5, <5>2 DEF First, CallStart
          <6>2. First(k) \in Nat
            BY <1>1, <1>3, Layout
          <6>3. QED
            BY <1>3, <1>4, <6>1, <6>2
        <5>3. QED
          BY <5>1, <5>2
      <4>2. QED
        BY <1>3, <2>5, <4>1
    <3>6. ClosureOK(k)'
      BY <2>1, <3>1, <3>2, <3>4, <3>5 DEF ClosureOK
    <3>7. QED
      BY <3>3, <3>6
  <2>15. ASSUME NEW k \in 1..(B + 1) PROVE FrameOK(k)'
    <3>1. CASE k \in 1..B
      <4>1. FrameOK(k)
        BY <1>1, <1>2, <3>1 DEF FrameInv
      <4>2. QED
        BY <2>1, <2>9, <2>11, <3>1, <4>1 DEF FrameOK
    <3>2. CASE k = B + 1
      <4>1. NArgs(k)' = Funs[Code(k)'.fun].nargs /\ NLocals(k)' = Funs[Code(k)'.fun].nlocals
        BY <2>6, <2>9, <2>11, <3>2 DEF Fun
      <4>2. Limit(k)' = Fp(k)' + NLocals(k)' + depth'[k]
        BY <1>3, <1>4, <2>1, <2>5, <2>9, <2>11, <3>2
      <4>3. Limit(k)' \in Int
        BY <1>3, <1>4, <2>5, <2>11, <3>2
      <4>4. Limit(k)' >= Fp(k)' + NLocals(k)' + depth'[k]
        BY <4>2, <4>3
      <4>5. QED
        BY <4>1, <4>2, <4>4 DEF FrameOK
    <3>3. QED
      BY <3>1, <3>2
  <2>16. QED
    BY <2>1, <2>7, <2>8, <2>12, <2>13, <2>14, <2>15
    DEF IInv, FrameInv, NoUnderflow, OverflowMeansFull
<1>7. QED
  BY <1>5, <1>6

\* END: the frame and its operands go, and the result is an operand of the
\* caller.
LEMMA EndStep == IInv /\ End => IInv'
<1> SUFFICES ASSUME IInv, End PROVE IInv'
  OBVIOUS
<1>1. /\ TypeInv /\ FrameInv /\ NoUnderflow /\ OverflowMeansFull
      /\ status = "run" /\ ip.place # 0 /\ Last(depth) = 1
      /\ vstack \in Seq(Values) /\ Len(vstack) \in Nat /\ Len(vstack) <= VSTACK_SIZE
      /\ 0 < Len(vstack)
  <2>1. Dispatch("END", 1) /\ Last(depth) = 1
    BY DEF End
  <2>2. QED
    BY <2>1, Dispatched DEF IInv, TypeInv, TypeOK
<1>2. PICK B \in Nat \ {0} : B = Begun
  BY <1>1, Running
<1>3. /\ Len(depth) = B /\ Len(cstack) = 5 * B /\ ret_addr = Ret(B) /\ ret_addr \in Points
      /\ FrameStart = First(B) /\ FrameStart \in Nat /\ NGlobals <= FrameStart
      /\ frame_pointer \in Nat /\ frame_pointer + nlocals + 1 <= Len(vstack)
      /\ B = 1 \/ ip.fun # "main"
  BY <1>1, <1>2, Running
<1>4. nlocals \in Nat /\ FrameStart <= frame_pointer
  <2>1. /\ Fun \in [nargs : Nat, nlocals : Nat, ncaptured : Nat]
        /\ nargs = Fun.nargs /\ nlocals = Fun.nlocals
    BY <1>1, Running
  <2>2. FrameStart + nargs <= frame_pointer
    BY <1>1, FrameAbove
  <2>3. nargs \in Nat /\ nlocals \in Nat
    BY <2>1
  <2>4. QED
    BY <1>3, <2>2, <2>3
<1>5. FrameStart + 1 <= Len(vstack) /\ Len(vstack) > frame_pointer - nlocals
  BY <1>1, <1>3, <1>4
<1> DEFINE rest == SubSeq(vstack, 1, FrameStart)
<1>6. IF BadSlot(FrameStart + 2) THEN Fail(Blame(FrameStart + 2))
      ELSE /\ vstack' = Append(rest, Top(0))
           /\ cstack' = SubSeq(cstack, 1, Len(cstack) - 5)
           /\ ip' = ret_addr
           /\ IF ret_addr = CodeEnd
                THEN status' = "halted" /\ depth' = << >>
                ELSE LET callers == Front(depth) IN
                     /\ depth' = [callers EXCEPT ![Len(callers)] = @ + 1]
                     /\ UNCHANGED status
           /\ UNCHANGED closures
  <2>1. Len(vstack) # 0 /\ ~(Len(cstack) < 5)
    BY <1>1, <1>3
  <2>2. QED
    BY <1>5, <2>1 DEF End
<1>7. CASE BadSlot(FrameStart + 2)
  <2>1. ~(FrameStart + 2 <= 1) /\ FrameStart + 2 > VSTACK_SIZE
    BY <1>3, <1>7, SizesTyped DEF BadSlot
  <2>2. Fail("overflow")
    BY <1>6, <1>7, <2>1 DEF Blame
  <2>3. Overflow(Widest)
    BY <1>1, <1>3, <1>5, <2>1, WidestBound, SizesTyped DEF Overflow
  <2>4. QED
    BY <1>1, <2>2, <2>3, FailStep
<1>8. CASE ~BadSlot(FrameStart + 2)
  <2> DEFINE v == Top(0)
  <2>1. /\ vstack' = Append(rest, v) /\ cstack' = SubSeq(cstack, 1, Len(cstack) - 5)
        /\ ip' = ret_addr /\ closures' = closures
    BY <1>6, <1>8
  <2>2. v \in Values
    BY <1>1, TopTyped
  <2>3. /\ rest \in Seq(Values) /\ Len(rest) = FrameStart
        /\ \A i \in 1..FrameStart : rest[i] = vstack[i]
    <3>1. FrameStart \in 0..Len(vstack)
      BY <1>1, <1>3, <1>5
    <3>2. QED
      BY <1>1, <3>1, PopProperties
  <2> HIDE DEF rest, v
  <2>4. /\ vstack' \in Seq(Values) /\ Len(vstack') = FrameStart + 1
        /\ \A i \in 1..FrameStart : vstack'[i] = vstack[i]
    BY <2>1, <2>2, <2>3, AppendProperties
  <2>5. PICK b \in Nat : b = B - 1
    OBVIOUS
  <2>6. /\ cstack' \in Seq(Words) /\ Len(cstack') = 5 * b
        /\ \A i \in 1..(5 * b) : cstack'[i] = cstack[i]
    <3>1. cstack \in Seq(Words)
      BY <1>1 DEF TypeInv
    <3>2. Len(cstack) - 5 = 5 * b /\ 5 * b \in 0..Len(cstack)
      BY <1>3, <2>5
    <3>3. cstack' = SubSeq(cstack, 1, 5 * b)
      BY <2>1, <3>2
    <3>4. QED
      BY <3>1, <3>2, <3>3, PopProperties
  <2>7. Values' = Values /\ ClosureType' = ClosureType /\ ip' \in Points
    BY <1>3, <2>1 DEF Values, ClosureType
  <2>8. /\ \A i \in DOMAIN cstack' : WordOK(i)'
        /\ Len(cstack') <= CSTACK_SIZE /\ Len(vstack') <= VSTACK_SIZE
    <3>1. ASSUME NEW i \in DOMAIN cstack' PROVE WordOK(i)'
      <4>1. i \in 1..(5 * b)
        BY <2>6
      <4>2. WordOK(i) /\ cstack'[i] = cstack[i]
        BY <1>1, <1>3, <2>5, <2>6, <4>1 DEF TypeInv, TypeOK
      <4>3. QED
        BY <4>2 DEF WordOK, Points
    <3>2. Len(cstack) <= CSTACK_SIZE
      BY <1>1 DEF TypeInv, TypeOK
    <3>3. QED
      BY <1>1, <1>3, <1>5, <2>4, <2>5, <2>6, <3>1, <3>2, SizesTyped
  <2>9. ASSUME status' \in {"run", "halted"}, depth' \in Seq(Nat)
        PROVE  TypeInv'
    <3>1. ip' \in Points'
      BY <2>7 DEF Points
    <3>2. TypeOK'
      BY <1>1, <2>1, <2>4, <2>7, <2>8, <2>9, <3>1 DEF TypeInv, TypeOK
    <3>3. QED
      BY <1>1, <2>1, <2>6, <2>7, <3>2 DEF TypeInv, Words
  <2>10. CASE ret_addr = CodeEnd
    <3>1. status' = "halted" /\ depth' = << >>
      BY <1>6, <1>8, <2>10
    <3>2. TypeInv'
      BY <2>9, <3>1, EmptySeq
    <3>3. QED
      BY <3>1, <3>2 DEF IInv, NoUnderflow, OverflowMeansFull
  <2>11. CASE ret_addr # CodeEnd
    <3>1. b >= 1 /\ b < B /\ b \in 1..B /\ b + 1 = B
      <4>1. B # 1
        BY <1>1, <1>3, <2>11 DEF FrameInv, MainAtBottom
      <4>2. QED
        BY <2>5, <4>1
    <3>2. /\ Activations = 1..B /\ 1..B = 1..Begun
          /\ \A k \in 1..b : k \in 1..B /\ k \in Activations
      BY <1>2, <1>3, <3>1 DEF Activations
    <3>3. /\ depth' \in Seq(Nat) /\ Len(depth') = b /\ depth'[b] = depth[b] + 1
          /\ \A k \in 1..(b - 1) : depth'[k] = depth[k]
      <4> DEFINE callers == Front(depth)
      <4>1. depth' = [callers EXCEPT ![Len(callers)] = @ + 1]
        BY <1>6, <1>8, <2>11
      <4>2. depth \in Seq(Nat) /\ depth # << >>
        BY <1>1, <1>3, EmptySeq DEF TypeInv, TypeOK
      <4>3. /\ callers \in Seq(Nat) /\ Len(callers) = b
            /\ \A i \in 1..b : callers[i] = depth[i]
        BY <1>3, <2>5, <4>2, FrontLast
      <4> HIDE DEF callers
      <4>4. QED
        BY <3>1, <4>1, <4>3
    <3>4. status' = "run" /\ TypeInv'
      <4>1. status' = "run"
        BY <1>1, <1>6, <1>8, <2>11
      <4>2. QED
        BY <2>9, <3>3, <4>1
    <3>5. Begun' = b /\ ~Calling' /\ Activations' = 1..b
      <4>1. (5 * b) \div 5 = b /\ (5 * b) % 5 # 2
        OBVIOUS
      <4>2. QED
        BY <2>6, <3>3, <4>1 DEF Begun, Calling, Activations
    <3>6. \A k \in 1..b : /\ Flag(k)' = Flag(k) /\ Ret(k)' = Ret(k) /\ Fp(k)' = Fp(k)
                          /\ NArgs(k)' = NArgs(k) /\ NLocals(k)' = NLocals(k)
                          /\ Start(k)' = Start(k)
      BY <2>6, FramesBelow
    <3>7. \A k \in 1..b : First(k)' = First(k)
      BY <1>2, <3>2, <3>5, <3>6 DEF First
    <3>8. /\ \A k \in 1..b : Code(k)' = Code(k)
          /\ \A k \in 1..b : k < b => Limit(k)' = Limit(k)
          /\ Limit(b)' = FrameStart + 1 /\ Limit(b) = FrameStart
      <4>1. ASSUME NEW k \in 1..b, k < b PROVE Code(k)' = Code(k) /\ Limit(k)' = Limit(k)
        <5>1. k + 1 \in 1..b /\ k < B
          BY <3>1, <4>1
        <5>2. QED
          BY <1>3, <3>3, <3>6, <3>7, <4>1, <5>1 DEF Code, Limit
      <4>2. Code(b)' = Code(b)
        BY <1>3, <2>1, <3>1, <3>3 DEF Code
      <4>3. Limit(b)' = FrameStart + 1 /\ Limit(b) = FrameStart
        BY <1>3, <2>4, <3>1, <3>3 DEF Limit
      <4>4. ASSUME NEW k \in 1..b PROVE Code(k)' = Code(k)
        <5>1. k < b \/ k = b
          BY <3>1
        <5>2. QED
          BY <4>1, <4>2, <5>1
      <4>5. QED
        BY <4>1, <4>3, <4>4
    <3>9. CodeOK(b) /\ Code(b) = ip' /\ ip'.place # 0
      <4>1. CodeOK(b) /\ b \in Activations
        BY <1>1, <3>1, <3>2 DEF FrameInv
      <4>2. Code(b) = ip'
        BY <1>3, <2>1, <3>1 DEF Code
      <4>3. QED
        BY <1>3, <3>1, <4>1, <4>2 DEF CodeOK
    <3>10. Shape' /\ MainAtBottom'
      <4>1. /\ Len(cstack') = 5 * Begun' + 0 /\ Len(depth') = Begun' + 0
            /\ Len(depth') >= 1 /\ ~Calling' /\ ip'.place # 0
        BY <2>6, <3>1, <3>3, <3>5, <3>9
      <4>2. Shape'
        BY <4>1 DEF Shape
      <4>3. 1 \in 1..b
        BY <3>1
      <4>4. QED
        BY <1>1, <3>6, <3>7, <4>2, <4>3 DEF MainAtBottom, FrameInv
    <3>11. Stacked'
      <4> SUFFICES ASSUME NEW j \in 1..b, NEW k \in 1..b, j < k
                   PROVE  Fp(j)' + NLocals(j)' <= First(k)'
        BY <3>5 DEF Stacked
      <4>1. Fp(j) + NLocals(j) <= First(k)
        BY <1>1, <3>2 DEF FrameInv, Stacked
      <4>2. QED
        BY <3>6, <3>7, <4>1
    <3>12. ASSUME NEW k \in 1..b PROVE CodeOK(k)' /\ ClosureOK(k)'
      <4>1. CodeOK(k) /\ ClosureOK(k)
        BY <1>1, <3>2 DEF FrameInv
      <4>2. CodeOK(k)'
        BY <1>3, <3>1, <3>3, <3>8, <4>1 DEF CodeOK
      <4>3. ASSUME Flag(k) PROVE vstack'[First(k) + 1] = vstack[First(k) + 1]
        <5>1. k \in Activations /\ k < Begun
          BY <1>2, <3>1, <3>2
        <5>2. First(k) + 1 \in 1..frame_pointer /\ First(k) + 1 <= FrameStart
          BY <1>1, <4>3, <5>1, ClosureSlots
        <5>3. QED
          BY <1>3, <2>4, <5>2
      <4>4. ClosureOK(k)'
        BY <2>1, <3>6, <3>7, <3>8, <4>1, <4>3 DEF ClosureOK
      <4>5. QED
        BY <4>2, <4>4
    <3>13. ASSUME NEW k \in 1..b PROVE FrameOK(k)'
      <4>1. FrameOK(k) /\ depth[k] \in Nat /\ Fp(k) \in Nat /\ NLocals(k) \in Nat
        <5>1. FrameOK(k)
          BY <1>1, <3>2 DEF FrameInv
        <5>2. depth[k] \in Nat /\ Fp(k) \in Nat /\ NLocals(k) \in Nat
          BY <1>1, <3>2, FrameWords DEF FrameInv
        <5>3. QED
          BY <5>1, <5>2
      <4>2. CASE k < b
        <5>1. k \in 1..(b - 1)
          BY <4>2
        <5>2. QED
          BY <3>3, <3>6, <3>8, <4>1, <4>2, <5>1 DEF FrameOK
      <4>3. CASE k = b
        <5>1. /\ FrameStart >= Fp(k) + NLocals(k) + depth[k]
              /\ "LSTRING" \notin Instrs => FrameStart = Fp(k) + NLocals(k) + depth[k]
          BY <3>8, <4>1, <4>3 DEF FrameOK
        <5>2. /\ Fp(k)' = Fp(k) /\ NLocals(k)' = NLocals(k) /\ NArgs(k)' = NArgs(k)
              /\ Code(k)' = Code(k) /\ Limit(k)' = FrameStart + 1
              /\ depth'[k] = depth[k] + 1
          BY <3>3, <3>6, <3>8, <4>3
        <5>3. FrameStart + 1 >= Fp(k) + NLocals(k) + (depth[k] + 1)
          BY <1>3, <4>1, <5>1, SMTT(30)
        <5>4. "LSTRING" \notin Instrs => FrameStart + 1 = Fp(k) + NLocals(k) + (depth[k] + 1)
          <6>1. HAVE "LSTRING" \notin Instrs
          <6>2. FrameStart = Fp(k) + NLocals(k) + depth[k]
            BY <5>1, <6>1
          <6>3. QED
            BY <4>1, <6>2
        <5>5. QED
          BY <4>1, <5>2, <5>3, <5>4 DEF FrameOK
      <4>4. QED
        BY <4>2, <4>3
    <3>14. QED
      BY <3>4, <3>5, <3>10, <3>11, <3>12, <3>13
      DEF IInv, FrameInv, NoUnderflow, OverflowMeansFull
  <2>12. QED
    BY <2>10, <2>11
<1>9. QED
  BY <1>7, <1>8

---------------------------------------------------------------------------
(***************************************************************************)
(* The theorems.                                                           *)
(***************************************************************************)

\* A stuttering step changes nothing the invariant speaks of.
LEMMA Stutter == IInv /\ UNCHANGED vars => IInv'
<1> SUFFICES ASSUME IInv, UNCHANGED vars PROVE IInv'
  OBVIOUS
<1>1. /\ vstack' = vstack /\ cstack' = cstack /\ closures' = closures /\ ip' = ip
      /\ depth' = depth /\ status' = status
  BY DEF vars
<1>2. TypeInv'
  BY <1>1, ZenonT(60) DEF IInv, TypeInv, TypeOK, Values, Words, WordOK, ClosureType, Points
<1>3. FrameInv <=> FrameInv'
  BY <1>1 DEF FrameInv, Shape, MainAtBottom, Stacked, CodeOK, ClosureOK, FrameOK,
    Activations, Code, First, Limit, Begun, Calling, CallStart, Start, Flag, Ret, Fp,
    NArgs, NLocals, Fun
<1>4. OverflowMeansFull' /\ NoUnderflow'
  BY <1>1 DEF IInv, OverflowMeansFull, NoUnderflow, Overflow, CallOverflow
<1>5. QED
  BY <1>1, <1>2, <1>3, <1>4 DEF IInv

\* Every instruction preserves the invariant.
LEMMA StepIInv == IInv /\ [Next]_vars => IInv'
<1> SUFFICES ASSUME IInv, [Next]_vars PROVE IInv'
  OBVIOUS
<1>1. CASE UNCHANGED vars
  BY <1>1, Stutter
<1>2. CASE Builtin \/ Barray \/ Sexp \/ Drop \/ Dup \/ Swap \/ Lstring
  BY <1>2, BuiltinStep, BarrayStep, SexpStep, DropStep, DupStep, SwapStep, LstringStep
<1>3. CASE Jmp \/ CJmp \/ LoadName \/ StoreName \/ Closure
  BY <1>3, JmpStep, CJmpStep, LoadNameStep, StoreNameStep, ClosureStep
<1>4. CASE Call \/ CallC \/ Begin \/ End
  BY <1>4, CallStep, CallCStep, BeginStep, EndStep
<1>5. QED
  BY <1>1, <1>2, <1>3, <1>4 DEF Next

\* In every state the interpreter reaches the frames lie on the stack one above
\* the other, as the call stack records them.
THEOREM Invariance == Spec => []IInv
<1>1. QED
  BY InitIInv, StepIInv, PTL DEF Spec

\* Every variable stays in its range and both stacks within their arrays,
\* whatever instructions the program issues (main.cpp: vstack_push,
\* cstack_push and what they guard).
THEOREM TypeCorrect == Spec => []TypeOK
<1>1. IInv => TypeOK
  BY DEF IInv, TypeInv
<1>2. QED
  BY Invariance, <1>1, PTL

\* The checks for underflow of vstack_pop, verify_vstack and verify_cstack
\* never fire in a compiled program.
THEOREM NoUnderflowCorrect == Spec => []NoUnderflow
<1>1. IInv => NoUnderflow
  BY DEF IInv
<1>2. QED
  BY Invariance, <1>1, PTL

\* A program that a bounds check stops had filled one of the stacks, but for
\* the words that the widest instruction pushes.
THEOREM OverflowCorrect == Spec => []OverflowMeansFull
<1>1. IInv => OverflowMeansFull
  BY DEF IInv
<1>2. QED
  BY Invariance, <1>1, PTL

\* Whatever a function keeps, the collector scans: no name leads to the word
\* at __gc_stack_bottom, and only the frame of main reaches down to it.
THEOREM ScannedCorrect == Spec => []ScannedByGc
<1>1. IInv => ScannedByGc
  <2> SUFFICES ASSUME IInv, status = "run", ip.place # 0
               PROVE  /\ \A loc \in Locations : Slot(loc) \in 2..Len(vstack)
                      /\ ip.fun # "main" => LiveSlots \subseteq 2..Len(vstack)
    BY DEF ScannedByGc
  <2>1. TypeInv /\ FrameInv
    BY DEF IInv
  <2>2. \A loc \in Locations : Slot(loc) \in 2..Len(vstack)
    BY <2>1, SlotBounds
  <2>3. ip.fun # "main" => LiveSlots \subseteq 2..Len(vstack)
    <3>1. HAVE ip.fun # "main"
    <3>2. NGlobals + 2 <= FrameStart /\ FrameStart \in Nat /\ Len(vstack) \in Nat
      BY <2>1, <3>1, Running
    <3>3. 2 <= FrameStart + 1
      BY <3>2, SizesTyped
    <3>4. QED
      BY <3>2, <3>3 DEF LiveSlots
  <2>4. QED
    BY <2>2, <2>3
<1>2. QED
  BY Invariance, <1>1, PTL

\* Two names of a running function never denote the same word: the address
\* arithmetic of global, local and arg keeps the three areas apart.
LEMMA SlotsApart ==
  ASSUME TypeInv, FrameInv, ip.place # 0, NEW loc \in Locations, NEW other \in Locations,
         loc[1] # "C", other[1] # "C", Slot(loc) = Slot(other)
  PROVE  loc = other
<1>1. /\ Fun \in [nargs : Nat, nlocals : Nat, ncaptured : Nat]
      /\ frame_pointer \in Nat /\ nargs = Fun.nargs /\ nlocals = Fun.nlocals
      /\ FrameStart \in Nat
      /\ ip.fun = "main" => frame_pointer = NGlobals + 2
      /\ ip.fun # "main" => NGlobals + 2 <= FrameStart
  BY Running
<1>2. nargs \in Nat /\ nlocals \in Nat /\ NGlobals \in Nat
  BY <1>1, SizesTyped
<1>3. FrameStart + nargs <= frame_pointer /\ NGlobals + 2 <= frame_pointer
  BY FrameAbove
<1> DEFINE InGlobals(l) == /\ l[2] \in Int /\ l = <<"G", l[2]>>
                           /\ Slot(l) = NGlobals + 1 - l[2] /\ Slot(l) <= NGlobals + 1
           InLocals(l) == /\ l[2] \in Int /\ l = <<"L", l[2]>>
                          /\ Slot(l) = frame_pointer + nlocals - l[2]
                          /\ Slot(l) > frame_pointer
           InArgs(l) == /\ l[2] \in Int /\ l = <<"A", l[2]>>
                        /\ Slot(l) = frame_pointer - (nargs - 1 - l[2])
                        /\ Slot(l) <= frame_pointer /\ NGlobals + 2 < Slot(l)
<1>4. ASSUME NEW l \in Locations, l[1] # "C"
      PROVE  InGlobals(l) \/ InLocals(l) \/ InArgs(l)
  <2>1. CASE l[1] = "G"
    <3>1. l[2] \in 0..(NGlobals - 1) /\ l = <<"G", l[2]>> /\ Slot(l) = NGlobals + 1 - l[2]
      BY <2>1, LocationSlots
    <3>2. InGlobals(l)
      BY <1>2, <3>1
    <3>3. QED
      BY <3>2
  <2>2. CASE l[1] = "L"
    <3>1. /\ l[2] \in 0..(nlocals - 1) /\ l = <<"L", l[2]>>
          /\ Slot(l) = frame_pointer + nlocals - l[2]
      BY <2>2, LocationSlots
    <3>2. InLocals(l)
      BY <1>1, <1>2, <3>1
    <3>3. QED
      BY <3>2
  <2>3. CASE l[1] = "A"
    <3>1. /\ l[2] \in 0..(nargs - 1) /\ l = <<"A", l[2]>> /\ ip.fun # "main"
          /\ Slot(l) = frame_pointer - (nargs - 1 - l[2])
      BY <2>3, LocationSlots
    <3>2. NGlobals + 2 <= FrameStart
      BY <1>1, <3>1
    <3>3. /\ Slot(l) <= frame_pointer /\ frame_pointer - nargs < Slot(l)
          /\ frame_pointer - nargs >= NGlobals + 2
      BY <1>1, <1>2, <1>3, <3>1, <3>2
    <3>4. InArgs(l)
      BY <1>1, <1>2, <3>1, <3>3
    <3>5. QED
      BY <3>4
  <2>4. QED
    BY <1>4, <2>1, <2>2, <2>3, LocationSlots
<1>5. /\ InGlobals(loc) \/ InLocals(loc) \/ InArgs(loc)
      /\ InGlobals(other) \/ InLocals(other) \/ InArgs(other)
  BY <1>4
<1>6. CASE InGlobals(loc) /\ InGlobals(other)
  <2> DEFINE i == loc[2]
             j == other[2]
  <2>1. i \in Int /\ j \in Int /\ NGlobals + 1 - i = NGlobals + 1 - j
    BY <1>6
  <2> HIDE DEF i, j
  <2>2. i = j
    BY <1>2, <2>1
  <2>3. QED
    BY <1>6, <2>2 DEF i, j
<1>7. CASE InLocals(loc) /\ InLocals(other)
  <2> DEFINE i == loc[2]
             j == other[2]
  <2>1. i \in Int /\ j \in Int /\ frame_pointer + nlocals - i = frame_pointer + nlocals - j
    BY <1>7
  <2> HIDE DEF i, j
  <2>2. i = j
    BY <1>1, <1>2, <2>1
  <2>3. QED
    BY <1>7, <2>2 DEF i, j
<1>8. CASE InArgs(loc) /\ InArgs(other)
  <2> DEFINE i == loc[2]
             j == other[2]
  <2>1. i \in Int /\ j \in Int /\ frame_pointer - (nargs - 1 - i) = frame_pointer - (nargs - 1 - j)
    BY <1>8
  <2> HIDE DEF i, j
  <2>2. i = j
    BY <1>1, <1>2, <2>1
  <2>3. QED
    BY <1>8, <2>2 DEF i, j
<1>9. CASE (InGlobals(loc) /\ ~InGlobals(other)) \/ (InGlobals(other) /\ ~InGlobals(loc))
  BY <1>1, <1>2, <1>3, <1>5, <1>9
<1>10. CASE (InLocals(loc) /\ InArgs(other)) \/ (InArgs(loc) /\ InLocals(other))
  BY <1>1, <1>2, <1>10
<1> HIDE DEF InGlobals, InLocals, InArgs
<1>11. QED
  BY <1>5, <1>6, <1>7, <1>8, <1>9, <1>10

\* The globals, arguments and locals of an activation are slots of their own,
\* apart from each other, from the operands and from the slot of the closure.
THEOREM NamesDistinctCorrect == Spec => []NamesDistinct
<1>1. IInv => NamesDistinct
  <2> DEFINE operands == (Len(vstack) - Last(depth) + 1)..Len(vstack)
  <2> SUFFICES ASSUME IInv, status = "run", ip.place # 0,
                      NEW loc \in Locations, loc[1] # "C"
               PROVE  /\ \A other \in Locations :
                           other[1] # "C" /\ other # loc => Slot(loc) # Slot(other)
                      /\ Slot(loc) \notin operands
                      /\ is_closure => Slot(loc) # closure_loc
    BY DEF NamesDistinct
  <2>1. TypeInv /\ FrameInv
    BY DEF IInv
  <2>2. \A other \in Locations :
          other[1] # "C" /\ other # loc => Slot(loc) # Slot(other)
    BY <2>1, SlotsApart
  <2>3. Slot(loc) \in 2..(frame_pointer + nlocals) /\ (is_closure => Slot(loc) # closure_loc)
    BY <2>1, SlotBounds
  <2>4. /\ frame_pointer \in Nat /\ nlocals \in Nat /\ Last(depth) \in Nat
        /\ Len(vstack) \in Nat /\ frame_pointer + nlocals + Last(depth) <= Len(vstack)
    <3>1. /\ Fun \in [nargs : Nat, nlocals : Nat, ncaptured : Nat] /\ nlocals = Fun.nlocals
          /\ frame_pointer \in Nat /\ Last(depth) \in Nat /\ Len(vstack) \in Nat
          /\ frame_pointer + nlocals + Last(depth) <= Len(vstack)
      BY <2>1, Running
    <3>2. QED
      BY <3>1
  <2>5. Slot(loc) \notin operands
    BY <2>3, <2>4
  <2>6. QED
    BY <2>2, <2>3, <2>5
<1>2. QED
  BY Invariance, <1>1, PTL

\* Without LSTRING, which leaves its operand where it is, the operands on the
\* stack are those the program counts, after any calls and returns.
THEOREM OperandsCountedCorrect ==
  ASSUME "LSTRING" \notin Instrs
  PROVE  Spec => []OperandsCounted
<1>1. IInv => OperandsCounted
  BY OperandCount DEF IInv, OperandsCounted
<1>2. QED
  BY Invariance, <1>1, PTL

---------------------------------------------------------------------------
(***************************************************************************)
(* The activation records.  Every step of Interpreter is a step of         *)
(* FrameMachine, or leaves its records as they are.                        *)
(*                                                                         *)
(* First sequences and records.                                            *)
(***************************************************************************)

\* Sequences that agree from m to n have the same part there.
LEMMA SameStretch ==
  ASSUME NEW s, NEW t, NEW m \in Int, NEW n \in Int, \A i \in m..n : t[i] = s[i]
  PROVE  SubSeq(t, m, n) = SubSeq(s, m, n)
<1> DEFINE S == {s[i] : i \in m..n}
           a == SubSeq(s, m, n)
           b == SubSeq(t, m, n)
<1>1. \A i \in m..n : s[i] \in S /\ t[i] \in S
  OBVIOUS
<1> HIDE DEF S
<1>2. /\ a \in Seq(S) /\ Len(a) = IF m <= n THEN n - m + 1 ELSE 0
      /\ \A i \in 1..(n - m + 1) : a[i] = s[m + i - 1]
  BY <1>1, SubSeqProperties
<1>3. /\ b \in Seq(S) /\ Len(b) = IF m <= n THEN n - m + 1 ELSE 0
      /\ \A i \in 1..(n - m + 1) : b[i] = t[m + i - 1]
  BY <1>1, SubSeqProperties
<1>4. ASSUME NEW i \in 1..Len(a) PROVE a[i] = b[i]
  <2>1. i \in 1..(n - m + 1) /\ m + i - 1 \in m..n
    BY <1>2
  <2>2. QED
    BY <1>2, <1>3, <2>1
<1> HIDE DEF a, b
<1>5. a = b
  BY <1>2, <1>3, <1>4, SeqEqual
<1>6. QED
  BY <1>5 DEF a, b

\* A part of a sequence of values.
LEMMA Stretch ==
  ASSUME NEW S, NEW s \in Seq(S), NEW m \in Nat \ {0}, NEW n \in Nat,
         m <= n + 1, n <= Len(s)
  PROVE  /\ SubSeq(s, m, n) \in Seq(S) /\ Len(SubSeq(s, m, n)) = n - m + 1
         /\ \A i \in 1..(n - m + 1) : SubSeq(s, m, n)[i] = s[m + i - 1]
<1>1. \A i \in m..n : i \in 1..Len(s)
  OBVIOUS
<1>2. \A i \in m..n : s[i] \in S
  BY <1>1, ElementOfSeq
<1>3. /\ SubSeq(s, m, n) \in Seq(S)
      /\ Len(SubSeq(s, m, n)) = IF m <= n THEN n - m + 1 ELSE 0
      /\ \A i \in 1..(n - m + 1) : SubSeq(s, m, n)[i] = s[m + i - 1]
  BY <1>2, SubSeqProperties
<1>4. (IF m <= n THEN n - m + 1 ELSE 0) = n - m + 1
  OBVIOUS
<1>5. QED
  BY <1>3, <1>4

\* The last member of a sequence, and the others.
LEMMA AppendView ==
  ASSUME NEW S, NEW s \in Seq(S), NEW x \in S
  PROVE  /\ Append(s, x) \in Seq(S) /\ Append(s, x) # << >>
         /\ Len(s) \in Nat /\ Len(Append(s, x)) = Len(s) + 1
         /\ Append(s, x)[Len(s) + 1] = x
         /\ \A i \in 1..Len(s) : Append(s, x)[i] = s[i]
         /\ Machine!Front(Append(s, x)) = s /\ Front(Append(s, x)) = s
<1>1. PICK t : t = Append(s, x)
  OBVIOUS
<1>2. /\ t \in Seq(S) /\ t # << >> /\ Len(s) \in Nat /\ Len(t) = Len(s) + 1
      /\ t[Len(s) + 1] = x /\ \A i \in 1..Len(s) : t[i] = s[i]
  BY <1>1, AppendProperties
<1>3. /\ Front(t) \in Seq(S) /\ Len(Front(t)) = Len(s)
      /\ \A i \in 1..Len(s) : Front(t)[i] = t[i]
  <2>1. PICK l \in Nat : l = Len(t) /\ l - 1 = Len(s)
    BY <1>2
  <2>2. /\ Front(t) \in Seq(S) /\ Len(Front(t)) = l - 1
        /\ \A i \in 1..(l - 1) : Front(t)[i] = t[i]
    BY <1>2, <2>1, FrontLast
  <2>3. QED
    BY <2>1, <2>2
<1>4. Front(t) = s
  BY <1>2, <1>3, SeqEqual
<1>5. Machine!Front(t) = Front(t)
  BY DEF Machine!Front, Front
<1>6. QED
  BY <1>1, <1>2, <1>4, <1>5

\* An activation record, by its parts.
Record(f, s, self, args, locals, temps) ==
  [fun |-> f, at |-> s, self |-> self, args |-> args, locals |-> locals, temps |-> temps]

\* Reading and replacing the parts of a record.
LEMMA RecordParts ==
  ASSUME NEW f, NEW s, NEW self, NEW args, NEW locals, NEW temps
  PROVE  /\ Record(f, s, self, args, locals, temps).fun = f
         /\ Record(f, s, self, args, locals, temps).at = s
         /\ Record(f, s, self, args, locals, temps).self = self
         /\ Record(f, s, self, args, locals, temps).args = args
         /\ Record(f, s, self, args, locals, temps).locals = locals
         /\ Record(f, s, self, args, locals, temps).temps = temps
BY DEF Record

\* Replacing one part of a record.
LEMMA RecordChanges ==
  ASSUME NEW f, NEW s, NEW self, NEW args, NEW locals, NEW temps, NEW x
  PROVE  /\ [Record(f, s, self, args, locals, temps) EXCEPT !.at = x] =
              Record(f, x, self, args, locals, temps)
         /\ [Record(f, s, self, args, locals, temps) EXCEPT !.args = x] =
              Record(f, s, self, x, locals, temps)
         /\ [Record(f, s, self, args, locals, temps) EXCEPT !.locals = x] =
              Record(f, s, self, args, x, temps)
         /\ [Record(f, s, self, args, locals, temps) EXCEPT !.temps = x] =
              Record(f, s, self, args, locals, x)
BY DEF Record

---------------------------------------------------------------------------
(***************************************************************************)
(* The records of a state.                                                 *)
(***************************************************************************)

\* The running function, and the activations below it.
RunSelf == IF is_closure THEN vstack[closure_loc] ELSE ClosureValue(0)
RunArgs == IF Begun = 1 THEN <<Zero, Zero>>
           ELSE SubSeq(vstack, frame_pointer - nargs + 1, frame_pointer)
RunLocals == [i \in 1..nlocals |-> vstack[frame_pointer + nlocals + 1 - i]]
Operands == SubSeq(vstack, frame_pointer + nlocals + 1, Len(vstack))
RunRecord == Record(ip.fun, ip.place, RunSelf, RunArgs, RunLocals, Operands)
Below == [k \in 1..(Begun - 1) |-> AbsFrame(k)]

\* The operands hold what the instructions find on top of the stack.
LEMMA OperandsSeen ==
  ASSUME TypeInv, FrameInv, ip.place # 0
  PROVE  /\ frame_pointer \in Nat /\ nlocals \in Nat /\ Len(vstack) \in Nat
         /\ frame_pointer + nlocals <= Len(vstack)
         /\ Operands \in Seq(Values)
         /\ Len(Operands) = Len(vstack) - (frame_pointer + nlocals)
         /\ Last(depth) \in Nat /\ Last(depth) <= Len(Operands)
         /\ \A i \in 1..Len(Operands) : Operands[i] = vstack[frame_pointer + nlocals + i]
<1>1. /\ Fun \in [nargs : Nat, nlocals : Nat, ncaptured : Nat]
      /\ frame_pointer \in Nat /\ nlocals = Fun.nlocals
      /\ Last(depth) \in Nat /\ Len(vstack) \in Nat
      /\ frame_pointer + nlocals + Last(depth) <= Len(vstack)
  BY Running
<1>2. nlocals \in Nat /\ vstack \in Seq(Values)
  BY <1>1 DEF TypeInv, TypeOK
<1>3. PICK b \in Nat : b = frame_pointer + nlocals
  BY <1>1, <1>2
<1>4. PICK l \in Nat : l = Len(vstack)
  BY <1>1
<1>5. b + 1 \in Nat \ {0} /\ b + 1 <= l + 1 /\ l <= Len(vstack) /\ b <= l
  <2>1. PICK d \in Nat : d = Last(depth)
    BY <1>1
  <2>2. b + d <= l
    BY <1>1, <1>3, <1>4, <2>1
  <2>3. b <= l
    BY ONLY <2>2, b \in Nat, d \in Nat, l \in Nat
  <2>4. b + 1 \in Nat \ {0} /\ b + 1 <= l + 1
    BY ONLY <2>3, b \in Nat, l \in Nat
  <2>5. QED
    BY <1>4, <2>3, <2>4
<1>6. /\ SubSeq(vstack, b + 1, l) \in Seq(Values)
      /\ Len(SubSeq(vstack, b + 1, l)) = l - (b + 1) + 1
      /\ \A i \in 1..(l - (b + 1) + 1) : SubSeq(vstack, b + 1, l)[i] = vstack[(b + 1) + i - 1]
  BY <1>2, <1>5, Stretch
<1>7. Operands = SubSeq(vstack, b + 1, l)
  BY <1>3, <1>4 DEF Operands
<1>8. /\ l - (b + 1) + 1 = l - b
      /\ \A i \in 1..(l - b) : (b + 1) + i - 1 = b + i
  OBVIOUS
<1>9. /\ Operands \in Seq(Values) /\ Len(Operands) = l - b
      /\ \A i \in 1..Len(Operands) : Operands[i] = vstack[b + i]
  BY <1>6, <1>7, <1>8
<1>10. Last(depth) <= Len(Operands)
  <2>1. PICK d \in Nat : d = Last(depth)
    BY <1>1
  <2>2. b + d <= l
    BY <1>1, <1>3, <1>4, <2>1
  <2>3. d <= l - b
    BY <2>2
  <2>4. QED
    BY <1>9, <2>1, <2>3
<1>11. QED
  BY <1>1, <1>2, <1>3, <1>4, <1>5, <1>9, <1>10

\* While a function runs, its record is the last one.
Executing == TypeInv /\ FrameInv /\ ip.place # 0
RecordsRunning ==
  /\ Begun \in Nat \ {0} /\ Len(AbsFrames) = Begun /\ AbsFrames # << >>
  /\ AbsFrames = Append(Below, RunRecord)
  /\ AbsFrame(Begun) = RunRecord
  /\ Machine!Running = RunRecord /\ Machine!Callers = Below

\* The records of a running state.
LEMMA RunningSeen == Executing => RecordsRunning
<1> SUFFICES ASSUME TypeInv, FrameInv, ip.place # 0 PROVE RecordsRunning
  BY DEF Executing
<1>1. /\ Len(depth) = Begun /\ Begun \in Nat \ {0}
      /\ frame_pointer = Fp(Begun) /\ nargs = NArgs(Begun) /\ nlocals = NLocals(Begun)
      /\ is_closure = Flag(Begun)
  BY Running
<1>2. ~Calling
  BY DEF FrameInv, Shape
<1>3. At(Begun) = ip /\ LastTemp(Begun) = Len(vstack)
  BY <1>1, <1>2 DEF At, LastTemp
<1>4. AbsFrame(Begun) = RunRecord
  BY <1>1, <1>3 DEF AbsFrame, RunRecord, Record, RunSelf, RunArgs, RunLocals, Operands,
    closure_loc
<1>0. PICK S : S = {AbsFrame(k) : k \in 1..Begun}
  OBVIOUS
<1>5. PICK n \in Nat : n = Begun - 1
  BY <1>1
<1>6. PICK a : a = [k \in 1..Begun |-> AbsFrame(k)]
  OBVIOUS
<1>7. a \in Seq(S) /\ Len(a) = Begun /\ \A k \in 1..Begun : a[k] = AbsFrame(k)
  BY <1>0, <1>1, <1>6
<1>8. Below \in Seq(S) /\ Len(Below) = n /\ \A k \in 1..n : Below[k] = AbsFrame(k)
  <2>1. Below = [k \in 1..n |-> AbsFrame(k)]
    BY <1>5 DEF Below
  <2>2. \A k \in 1..n : AbsFrame(k) \in S
    BY <1>0, <1>1, <1>5
  <2>3. QED
    BY <2>1, <2>2
<1>9. RunRecord \in S
  BY <1>0, <1>1, <1>4
<1>10. AbsFrames = a
  <2>1. AbsFrames = a \o << >>
    BY <1>2, <1>6 DEF AbsFrames
  <2>2. QED
    BY <1>7, <2>1, ConcatEmptySeq
<1>11. PICK t, s, x : t = Append(s, x) /\ s = Below /\ x = RunRecord
  OBVIOUS
<1>12. /\ t \in Seq(S) /\ Len(t) = n + 1 /\ t # << >>
       /\ t[Len(t)] = RunRecord /\ t[n + 1] = RunRecord
       /\ Machine!Front(t) = Below
  <2>1. s \in Seq(S) /\ Len(s) = n /\ x \in S
    BY <1>8, <1>9, <1>11
  <2>2. /\ Append(s, x) \in Seq(S) /\ Append(s, x) # << >>
        /\ Len(Append(s, x)) = Len(s) + 1 /\ Append(s, x)[Len(s) + 1] = x
        /\ Machine!Front(Append(s, x)) = s
    BY ONLY <2>1, AppendView
  <2>3. QED
    BY <1>11, <2>1, <2>2
<1>13. \A k \in 1..n : t[k] = Below[k]
  BY <1>8, <1>9, <1>11, AppendProperties
<1>14. a = t
  <2>1. ASSUME NEW k \in 1..Len(a) PROVE a[k] = t[k]
    <3>1. CASE k \in 1..n
      BY <1>7, <1>8, <1>13, <2>1, <3>1
    <3>2. CASE k = n + 1
      BY <1>4, <1>5, <1>7, <1>12, <2>1, <3>2
    <3>3. k \in 1..n \/ k = n + 1
      BY <1>5, <1>7, <2>1
    <3>4. QED
      BY <3>1, <3>2, <3>3
  <2>2. Len(a) = Len(t)
    BY <1>1, <1>5, <1>7, <1>12
  <2>3. QED
    BY <1>7, <1>12, <2>1, <2>2, SeqEqual
<1>15. AbsFrames = t
  BY <1>10, <1>14
<1>16. Machine!Running = RunRecord /\ Machine!Callers = Below
  BY <1>12, <1>15 DEF Machine!Running, Machine!Callers
<1>17. QED
  BY <1>1, <1>4, <1>5, <1>11, <1>12, <1>15, <1>16 DEF RecordsRunning

\* Before its BEGIN, the record of a function is the last one and holds its
\* arguments alone.
Waiting == TypeInv /\ FrameInv /\ ip.place = 0
Callers == [k \in 1..Begun |-> AbsFrame(k)]
RecordsCalling ==
  /\ Begun \in Nat /\ Len(AbsFrames) = Begun + 1 /\ AbsFrames # << >>
  /\ AbsFrames = Append(Callers, AbsCall)
  /\ Machine!Running = AbsCall /\ Machine!Callers = Callers

\* The records of a state between a call and its BEGIN.
LEMMA CallSeen == Waiting => RecordsCalling
<1> SUFFICES ASSUME TypeInv, FrameInv, ip.place = 0 PROVE RecordsCalling
  BY DEF Waiting
<1>1. Calling /\ Begun \in Nat
  BY FrameWords DEF FrameInv, Shape
<1>2. PICK S : S = {AbsFrame(k) : k \in 1..Begun} \cup {AbsCall}
  OBVIOUS
<1>3. PICK s, x : s = Callers /\ x = AbsCall
  OBVIOUS
<1>4. s \in Seq(S) /\ Len(s) = Begun /\ x \in S
  <2>1. s = [k \in 1..Begun |-> AbsFrame(k)]
    BY <1>3 DEF Callers
  <2>2. \A k \in 1..Begun : AbsFrame(k) \in S
    BY <1>2
  <2>3. QED
    BY <1>1, <1>2, <1>3, <2>1, <2>2
<1>5. /\ Append(s, x) \in Seq(S) /\ Append(s, x) # << >> /\ Len(s) \in Nat
      /\ Len(Append(s, x)) = Len(s) + 1 /\ Append(s, x)[Len(s) + 1] = x
      /\ Machine!Front(Append(s, x)) = s
  BY ONLY <1>4, AppendView
<1>6. AbsFrames = Append(s, x)
  <2>1. AbsFrames = s \o <<x>>
    BY <1>1, <1>3 DEF AbsFrames, Callers
  <2>2. QED
    BY <1>4, <2>1, AppendIsConcat
<1>7. Machine!Running = AbsCall /\ Machine!Callers = Callers
  BY <1>3, <1>5, <1>6 DEF Machine!Running, Machine!Callers
<1>8. QED
  BY <1>1, <1>3, <1>4, <1>5, <1>6, <1>7 DEF RecordsCalling

---------------------------------------------------------------------------
(***************************************************************************)
(* What a step leaves alone.                                               *)
(***************************************************************************)

AbsGlobals == [i \in 1..NGlobals |-> vstack[global(i - 1)]]

\* What a record holds apart from its operands.
FrameSelf(k) == IF Flag(k) THEN vstack[Fp(k) - NArgs(k)] ELSE ClosureValue(0)
FrameArgs(k) == IF k = 1 THEN <<Zero, Zero>>
                ELSE SubSeq(vstack, Fp(k) - NArgs(k) + 1, Fp(k))
FrameLocals(k) == [i \in 1..NLocals(k) |-> vstack[Fp(k) + NLocals(k) + 1 - i]]

\* A record keeps its parts if its words of the call stack and its stretch of
\* the stack are what they were.
LEMMA PartsKept ==
  ASSUME TypeInv, FrameInv, NEW k \in 1..Begun,
         Flag(k)' = Flag(k), Fp(k)' = Fp(k), NArgs(k)' = NArgs(k), NLocals(k)' = NLocals(k),
         \A p \in (NGlobals + 3)..Limit(k) : vstack'[p] = vstack[p]
  PROVE  /\ Fp(k) \in Nat /\ NLocals(k) \in Nat /\ Limit(k) \in Nat
         /\ Fp(k) + NLocals(k) <= Limit(k)
         /\ LastTemp(k) = Limit(k) /\ At(k) = Code(k)
         /\ FrameSelf(k)' = FrameSelf(k) /\ FrameArgs(k)' = FrameArgs(k)
         /\ FrameLocals(k)' = FrameLocals(k)
         /\ SubSeq(vstack', Fp(k) + NLocals(k) + 1, Limit(k)) =
              SubSeq(vstack, Fp(k) + NLocals(k) + 1, Limit(k))
<1>1. /\ k \in Nat /\ Begun \in Nat /\ k \in Activations /\ Flag(k) \in BOOLEAN
      /\ Fp(k) \in Nat /\ NArgs(k) \in Nat /\ NLocals(k) \in Nat
  BY FrameWords DEF FrameInv
<1>2. LastTemp(k) = Limit(k) /\ At(k) = Code(k)
  <2>1. Len(depth) = Begun + (IF Calling THEN 1 ELSE 0)
    BY DEF FrameInv, Shape
  <2>2. CASE Calling
    BY <1>1, <2>1, <2>2 DEF LastTemp, Limit, At, Code, First
  <2>3. CASE ~Calling
    BY <1>1, <2>1, <2>3 DEF LastTemp, Limit, At, Code, First
  <2>4. QED
    BY <2>2, <2>3
<1>3. PICK f \in Nat, a \in Nat, n \in Nat, l \in Nat, g \in Nat, b \in BOOLEAN :
        /\ f = Fp(k) /\ a = NArgs(k) /\ n = NLocals(k) /\ l = Limit(k) /\ g = NGlobals
        /\ b = Flag(k)
  BY <1>1, Layout, SizesTyped
<1>4. /\ f + n <= l /\ g + 2 <= f
      /\ k # 1 => g + 2 <= f - a - (IF b THEN 1 ELSE 0)
      /\ b => k # 1
  <2>1. /\ NGlobals <= First(k) /\ (k > 1 => NGlobals + 2 <= First(k))
        /\ First(k) = Fp(k) - NArgs(k) - (IF Flag(k) THEN 1 ELSE 0)
        /\ Fp(k) + NLocals(k) <= Limit(k)
    BY <1>1, Layout
  <2>2. k = 1 => Fp(k) = NGlobals + 2 /\ Flag(k) = FALSE
    <3>1. Flag(1) = FALSE
      BY DEF FrameInv, MainAtBottom
    <3>2. Begun > 0
      BY <1>1
    <3>3. Fp(1) = NGlobals + 2
      BY <3>2, Layout
    <3>4. QED
      BY <3>1, <3>3
  <2>3. f + n <= l /\ (k # 1 => g + 2 <= f - a - (IF b THEN 1 ELSE 0)) /\ (b => k # 1)
    BY <1>1, <1>3, <2>1, <2>2
  <2>4. CASE k = 1
    BY <1>3, <2>2, <2>3, <2>4
  <2>5. CASE k # 1
    BY <2>3, <2>5
  <2>6. QED
    BY <2>3, <2>4, <2>5
<1>5. \A p \in (g + 3)..l : vstack'[p] = vstack[p]
  BY <1>3
<1>6. b => vstack'[f - a] = vstack[f - a]
  <2>1. HAVE b
  <2>2. g + 2 <= f - a - 1
    BY <1>4, <2>1
  <2>3. f - a \in (g + 3)..l
    BY <1>4, <2>2
  <2>4. QED
    BY <1>5, <2>3
<1>7. k # 1 => SubSeq(vstack', f - a + 1, f) = SubSeq(vstack, f - a + 1, f)
  <2>1. HAVE k # 1
  <2>2. g + 2 <= f - a
    BY <1>4, <2>1
  <2>3. \A i \in (f - a + 1)..f : i \in (g + 3)..l
    BY <1>4, <2>2
  <2>4. \A i \in (f - a + 1)..f : vstack'[i] = vstack[i]
    BY <1>5, <2>3
  <2>5. f - a + 1 \in Int /\ f \in Int
    OBVIOUS
  <2>6. QED
    BY <2>4, <2>5, SameStretch
<1>8. [i \in 1..n |-> vstack'[f + n + 1 - i]] = [i \in 1..n |-> vstack[f + n + 1 - i]]
  <2>1. \A i \in 1..n : f + n + 1 - i \in (g + 3)..l
    BY <1>4
  <2>2. QED
    BY <1>5, <2>1
<1>9. SubSeq(vstack', f + n + 1, l) = SubSeq(vstack, f + n + 1, l)
  <2>1. \A i \in (f + n + 1)..l : i \in (g + 3)..l
    BY <1>4
  <2>2. \A i \in (f + n + 1)..l : vstack'[i] = vstack[i]
    BY <1>5, <2>1
  <2>3. f + n + 1 \in Int /\ l \in Int
    OBVIOUS
  <2>4. QED
    BY <2>2, <2>3, SameStretch
<1>10. FrameSelf(k)' = FrameSelf(k)
  BY <1>3, <1>6 DEF FrameSelf, ClosureValue
<1>11. FrameArgs(k)' = FrameArgs(k)
  BY <1>3, <1>7 DEF FrameArgs
<1>12. FrameLocals(k)' = FrameLocals(k)
  BY <1>3, <1>8 DEF FrameLocals
<1>13. QED
  BY <1>2, <1>3, <1>4, <1>9, <1>10, <1>11, <1>12

\* An activation record, by the parts of its frame.
LEMMA FrameParts ==
  ASSUME NEW k
  PROVE  AbsFrame(k) = Record(At(k).fun, At(k).place, FrameSelf(k), FrameArgs(k),
                              FrameLocals(k),
                              SubSeq(vstack, Fp(k) + NLocals(k) + 1, LastTemp(k)))
BY DEF AbsFrame, Record, FrameSelf, FrameArgs, FrameLocals

\* With the same end and the same place it is what it was.
LEMMA RecordKept ==
  ASSUME TypeInv, FrameInv, NEW k \in 1..Begun,
         Flag(k)' = Flag(k), Fp(k)' = Fp(k), NArgs(k)' = NArgs(k), NLocals(k)' = NLocals(k),
         LastTemp(k)' = Limit(k), At(k)' = Code(k),
         \A p \in (NGlobals + 3)..Limit(k) : vstack'[p] = vstack[p]
  PROVE  AbsFrame(k)' = AbsFrame(k)
<1>1. /\ LastTemp(k) = Limit(k) /\ At(k) = Code(k)
      /\ FrameSelf(k)' = FrameSelf(k) /\ FrameArgs(k)' = FrameArgs(k)
      /\ FrameLocals(k)' = FrameLocals(k)
      /\ SubSeq(vstack', Fp(k) + NLocals(k) + 1, Limit(k)) =
           SubSeq(vstack, Fp(k) + NLocals(k) + 1, Limit(k))
  BY PartsKept
<1>2. AbsFrame(k)' = Record(At(k)'.fun, At(k)'.place, FrameSelf(k)', FrameArgs(k)',
                            FrameLocals(k)',
                            SubSeq(vstack', Fp(k)' + NLocals(k)' + 1, LastTemp(k)'))
  BY DEF AbsFrame, Record, FrameSelf, FrameArgs, FrameLocals
<1>3. QED
  BY <1>1, <1>2, FrameParts

\* An activation ends where a later one starts, or below.
LEMMA LimitBelow ==
  ASSUME TypeInv, FrameInv, NEW k \in 1..Begun, NEW j \in Activations, k < j
  PROVE  Limit(k) <= First(j)
<1>1. /\ k \in Nat /\ Begun \in Nat /\ k \in Activations /\ Len(depth) \in Nat
  BY FrameWords DEF FrameInv
<1>2. k + 1 \in Activations /\ k + 1 <= j /\ k < Len(depth) /\ j <= Len(depth) /\ j \in Nat
  BY <1>1 DEF Activations
<1>3. Limit(k) = First(k + 1)
  BY <1>2 DEF Limit
<1>4. CASE k + 1 = j
  BY <1>3, <1>4, Layout
<1>5. CASE k + 1 < j
  <2>1. k + 1 \in 1..Begun
    <3>1. Len(depth) <= Begun + 1
      BY <1>1 DEF FrameInv, Shape
    <3>2. QED
      BY <1>1, <1>2, <1>5, <3>1
  <2>2. PICK f \in Nat, n \in Nat, a \in Nat, b \in BOOLEAN :
          f = Fp(k + 1) /\ n = NLocals(k + 1) /\ a = NArgs(k + 1) /\ b = Flag(k + 1)
    BY <1>2, <2>1, FrameWords DEF FrameInv
  <2>3. First(k + 1) = f - a - (IF b THEN 1 ELSE 0)
    BY <2>1, <2>2, Layout
  <2>4. f + n <= First(j)
    BY <1>2, <1>5, <2>2 DEF FrameInv, Stacked
  <2>5. First(j) \in Nat
    BY Layout
  <2>6. QED
    BY <1>3, <2>2, <2>3, <2>4, <2>5
<1>6. QED
  BY <1>2, <1>4, <1>5

\* The activations below the running one stay as they are when its
\* instructions write only above its start or to globals.
LEMMA OwnMoves ==
  ASSUME Executing, Executing', cstack' = cstack, ip'.fun = ip.fun,
         \A p \in (NGlobals + 3)..FrameStart : vstack'[p] = vstack[p]
  PROVE  /\ frame_pointer' = frame_pointer /\ nlocals' = nlocals /\ nargs' = nargs
         /\ is_closure' = is_closure /\ closure_loc' = closure_loc /\ Begun' = Begun
         /\ AbsFrames' = Append(Below, RunRecord')
<1>1. TypeInv /\ FrameInv /\ ip.place # 0 /\ TypeInv' /\ FrameInv' /\ ip'.place # 0
  BY DEF Executing
<1>2. /\ frame_pointer' = frame_pointer /\ nlocals' = nlocals /\ nargs' = nargs
      /\ is_closure' = is_closure /\ Begun' = Begun
  BY DEF frame_pointer, nlocals, nargs, is_closure, Begun
<1>3. closure_loc' = closure_loc
  BY <1>2 DEF closure_loc
<1>4. /\ Len(depth) = Begun /\ Begun \in Nat \ {0} /\ Len(cstack) = 5 * Begun
      /\ FrameStart = First(Begun)
  BY <1>1, Running
<1>5. \A k \in 1..Begun : /\ Flag(k)' = Flag(k) /\ Ret(k)' = Ret(k) /\ Fp(k)' = Fp(k)
                          /\ NArgs(k)' = NArgs(k) /\ NLocals(k)' = NLocals(k)
                          /\ Start(k)' = Start(k)
  BY <1>4, FramesBelow
<1>6. ASSUME NEW k \in 1..(Begun - 1) PROVE AbsFrame(k)' = AbsFrame(k)
  <2>1. /\ k \in 1..Begun /\ k + 1 \in 1..Begun /\ k < Begun /\ k < Len(depth)
        /\ Begun \in Activations
    BY <1>4 DEF Activations
  <2>2. /\ Limit(k) = Start(k + 1) /\ Code(k) = Ret(k + 1)
    BY <2>1 DEF Limit, First, Code
  <2>3. LastTemp(k)' = Limit(k) /\ At(k)' = Code(k)
    BY <1>2, <1>5, <2>1, <2>2 DEF LastTemp, At
  <2>4. Limit(k) <= FrameStart
    BY <1>1, <1>4, <2>1, LimitBelow
  <2>5. \A p \in (NGlobals + 3)..Limit(k) : vstack'[p] = vstack[p]
    <3>1. NGlobals \in Nat /\ Limit(k) \in Nat /\ FrameStart \in Nat
      BY <1>1, <2>1, Layout, Running, SizesTyped
    <3>2. \A p \in (NGlobals + 3)..Limit(k) : p \in (NGlobals + 3)..FrameStart
      BY <2>4, <3>1
    <3>3. QED
      BY <3>2
  <2>6. QED
    BY <1>1, <1>5, <2>1, <2>3, <2>5, RecordKept
<1>7. Below' = Below
  <2>1. Below' = [k \in 1..(Begun - 1) |-> AbsFrame(k)']
    BY <1>2 DEF Below
  <2>2. QED
    BY <1>6, <2>1 DEF Below
<1>8. AbsFrames' = Append(Below', RunRecord')
  <2>1. RecordsRunning'
    BY RunningSeen, PTL
  <2>2. QED
    BY <2>1 DEF RecordsRunning
<1>9. QED
  BY <1>2, <1>3, <1>7, <1>8

\* An instruction that changes no more than the operands.
LEMMA OperandsMove ==
  ASSUME Executing, Executing', cstack' = cstack, ip'.fun = ip.fun,
         \A p \in 1..(frame_pointer + nlocals) : vstack'[p] = vstack[p]
  PROVE  /\ AbsGlobals' = AbsGlobals
         /\ AbsFrames' = Append(Below, Record(ip.fun, ip'.place, RunSelf, RunArgs, RunLocals,
                                              Operands'))
         /\ Operands' = SubSeq(vstack', frame_pointer + nlocals + 1, Len(vstack'))
<1>1. TypeInv /\ FrameInv /\ ip.place # 0
  BY DEF Executing
<1>2. PICK f \in Nat, n \in Nat, a \in Nat, g \in Nat, st \in Nat, b \in BOOLEAN :
        /\ f = frame_pointer /\ n = nlocals /\ a = nargs /\ g = NGlobals
        /\ st = FrameStart /\ b = is_closure
  <2>1. /\ Fun \in [nargs : Nat, nlocals : Nat, ncaptured : Nat]
        /\ frame_pointer \in Nat /\ nargs = Fun.nargs /\ nlocals = Fun.nlocals
        /\ is_closure \in BOOLEAN /\ FrameStart \in Nat
    BY <1>1, Running
  <2>2. QED
    BY <2>1, SizesTyped
<1>3. g + 2 <= f /\ st + a <= f /\ f = st + a + (IF b THEN 1 ELSE 0)
  BY <1>1, <1>2, FrameAbove, Running
<1>4. \A p \in 1..(f + n) : vstack'[p] = vstack[p]
  BY <1>2
<1>5. \A p \in (NGlobals + 3)..FrameStart : vstack'[p] = vstack[p]
  <2>1. \A p \in (g + 3)..st : p \in 1..(f + n)
    BY <1>3
  <2>2. QED
    BY <1>2, <1>4, <2>1
<1>6. /\ frame_pointer' = f /\ nlocals' = n /\ nargs' = a /\ is_closure' = b
      /\ closure_loc' = closure_loc /\ Begun' = Begun
      /\ AbsFrames' = Append(Below, RunRecord')
  BY <1>2, <1>5, OwnMoves
<1>7. AbsGlobals' = AbsGlobals
  <2>1. ASSUME NEW i \in 1..g PROVE vstack'[global(i - 1)] = vstack[global(i - 1)]
    <3>1. global(i - 1) = g + 2 - i
      BY <1>2 DEF global
    <3>2. g + 2 - i \in 1..(f + n)
      BY <1>3
    <3>3. QED
      BY <1>4, <3>1, <3>2
  <2>2. QED
    BY <1>2, <2>1 DEF AbsGlobals, global
<1>8. RunSelf' = RunSelf
  <2>1. CASE b
    <3>1. closure_loc = f - a /\ f - a \in 1..(f + n)
      BY <1>2, <1>3, <2>1 DEF closure_loc
    <3>2. QED
      BY <1>2, <1>4, <1>6, <2>1, <3>1 DEF RunSelf
  <2>2. CASE ~b
    BY <1>2, <1>6, <2>2 DEF RunSelf, ClosureValue
  <2>3. QED
    BY <2>1, <2>2
<1>9. RunArgs' = RunArgs
  <2>1. \A i \in (f - a + 1)..f : i \in 1..(f + n)
    BY <1>3
  <2>2. \A i \in (f - a + 1)..f : vstack'[i] = vstack[i]
    BY <1>4, <2>1
  <2>3. f - a + 1 \in Int /\ f \in Int
    OBVIOUS
  <2>4. SubSeq(vstack', f - a + 1, f) = SubSeq(vstack, f - a + 1, f)
    BY <2>2, <2>3, SameStretch
  <2>5. QED
    BY <1>2, <1>6, <2>4 DEF RunArgs
<1>10. RunLocals' = RunLocals
  <2>1. \A i \in 1..n : f + n + 1 - i \in 1..(f + n)
    OBVIOUS
  <2>2. [i \in 1..n |-> vstack'[f + n + 1 - i]] = [i \in 1..n |-> vstack[f + n + 1 - i]]
    BY <1>4, <2>1
  <2>3. QED
    BY <1>2, <1>6, <2>2 DEF RunLocals
<1>11. Operands' = SubSeq(vstack', f + n + 1, Len(vstack'))
  BY <1>6 DEF Operands
<1>12. RunRecord' = Record(ip.fun, ip'.place, RunSelf, RunArgs, RunLocals, Operands')
  BY <1>8, <1>9, <1>10 DEF RunRecord, Record
<1>13. QED
  BY <1>2, <1>6, <1>7, <1>11, <1>12

---------------------------------------------------------------------------
(***************************************************************************)
(* The instructions that work on operands.                                 *)
(***************************************************************************)

Unseen == AbsFrames' = AbsFrames /\ AbsGlobals' = AbsGlobals /\ closures' = closures

\* A step that leaves both stacks and the place alone leaves the records.
LEMMA StacksKept ==
  ASSUME vstack' = vstack, cstack' = cstack, ip' = ip
  PROVE  AbsFrames' = AbsFrames /\ AbsGlobals' = AbsGlobals
<1>1. /\ Begun' = Begun /\ Calling' = Calling /\ Fun' = Fun /\ NGlobals' = NGlobals
      /\ \A k : /\ Flag(k)' = Flag(k) /\ Ret(k)' = Ret(k) /\ Fp(k)' = Fp(k)
                /\ NArgs(k)' = NArgs(k) /\ NLocals(k)' = NLocals(k)
                /\ Start(k)' = Start(k)
  BY DEF Begun, Calling, Fun, Flag, Ret, Fp, NArgs, NLocals, Start
<1>2. CallStart' = CallStart
  BY <1>1 DEF CallStart
<1>3. \A k : AbsFrame(k)' = AbsFrame(k)
  <2> TAKE k
  <2>1. LastTemp(k)' = LastTemp(k) /\ At(k)' = At(k)
    BY <1>1, <1>2 DEF LastTemp, At
  <2>2. QED
    BY <1>1, <2>1 DEF AbsFrame, ClosureValue
<1>4. AbsCall' = AbsCall
  BY <1>1, <1>2 DEF AbsCall, ClosureValue
<1>5. AbsFrames' = AbsFrames
  BY <1>1, <1>3, <1>4 DEF AbsFrames
<1>6. AbsGlobals' = AbsGlobals
  BY DEF AbsGlobals, global
<1>7. QED
  BY <1>5, <1>6

\* With the closures left alone too, it shows no change.
LEMMA Hidden ==
  ASSUME vstack' = vstack, cstack' = cstack, closures' = closures, ip' = ip
  PROVE  Unseen
BY StacksKept DEF Unseen

\* A failure ends the program and shows no change.
LEMMA FailHidden == ASSUME NEW r, Fail(r) PROVE Unseen
BY Hidden DEF Fail

\* A record on top of those below the running function.
LEMMA Newest ==
  ASSUME Executing, NEW r
  PROVE  Len(Append(Below, r)) = Begun /\ Append(Below, r)[Begun] = r
<1>1. PICK b \in Nat \ {0} : b = Begun
  BY RunningSeen DEF RecordsRunning
<1>2. PICK S : S = {AbsFrame(k) : k \in 1..(b - 1)} \cup {r}
  OBVIOUS
<1>3. PICK s : s = Below
  OBVIOUS
<1>4. s = [k \in 1..(b - 1) |-> AbsFrame(k)]
  BY <1>1, <1>3 DEF Below
<1>5. s \in Seq(S) /\ Len(s) = b - 1 /\ r \in S
  BY <1>2, <1>4
<1>6. Len(Append(s, r)) = Len(s) + 1 /\ Append(s, r)[Len(s) + 1] = r
  BY ONLY <1>5, AppendView
<1>7. QED
  BY <1>1, <1>3, <1>5, <1>6

\* What an operation on operands may make of them.
Operated(T) ==
  \/ \E v \in Ints, n \in 0..Len(Operands) :
        T = Append(SubSeq(Operands, 1, Len(Operands) - n), v)
  \/ T = Operands
  \/ /\ Operands # << >>
     /\ \/ T = SubSeq(Operands, 1, Len(Operands) - 1)
        \/ T = Append(Operands, Operands[Len(Operands)])

\* Such an operation is a step of FrameMachine.
LEMMA OperateMoves ==
  ASSUME Executing, NEW s, s # 0, NEW T, Operated(T),
         AbsFrames' = Append(Below, Record(ip.fun, s, RunSelf, RunArgs, RunLocals, T)),
         AbsGlobals' = AbsGlobals, closures' = closures
  PROVE  Machine!Next
<1>1. /\ AbsFrames # << >> /\ Len(AbsFrames) = Begun
      /\ Machine!Running = RunRecord /\ Machine!Callers = Below
  BY RunningSeen DEF RecordsRunning
<1>2. PICK f, a, self, args, locals, temps :
        /\ f = ip.fun /\ a = ip.place /\ self = RunSelf /\ args = RunArgs
        /\ locals = RunLocals /\ temps = Operands
  OBVIOUS
<1>3. PICK r, g : /\ r = Record(f, a, self, args, locals, temps)
                  /\ g = Record(f, s, self, args, locals, temps)
  OBVIOUS
<1>4. Machine!Running = r /\ Machine!Running.at = ip.place
  <2>1. Machine!Running = r
    BY <1>1, <1>2, <1>3 DEF RunRecord
  <2>2. r.at = a
    BY <1>3, RecordParts
  <2>3. QED
    BY <1>2, <2>1, <2>2
<1>5. [r EXCEPT !.at = s] = g /\ g.temps = temps
      /\ \A x : [g EXCEPT !.temps = x] = Record(f, s, self, args, locals, x)
  <2>1. [r EXCEPT !.at = s] = g
    BY <1>3 DEF Record
  <2>2. g.temps = temps
    BY <1>3, RecordParts
  <2>3. \A x : [g EXCEPT !.temps = x] = Record(f, s, self, args, locals, x)
    BY <1>3 DEF Record
  <2>4. QED
    BY <2>1, <2>2, <2>3
<1>6. PICK new : new = Record(f, s, self, args, locals, T)
  OBVIOUS
<1>7. AbsFrames' = Append(Below, new) /\ new.at = s
  BY <1>2, <1>6, RecordParts
<1>8. Len(AbsFrames') = Begun /\ AbsFrames'[Begun] = new
  BY <1>7, Newest
<1>9. s \in {AbsFrames'[Len(AbsFrames)].at} \ {0} /\ Len(AbsFrames') = Len(AbsFrames)
  BY <1>1, <1>7, <1>8
<1>10. Machine!Without(g, 1) = SubSeq(temps, 1, Len(temps) - 1)
       /\ \A n : Machine!Without(g, n) = SubSeq(temps, 1, Len(temps) - n)
  BY <1>5 DEF Machine!Without
<1>11. Operands # << >> => Machine!TopOf(g, 0) = temps[Len(temps)]
  <2>1. Len(temps) \in Nat
    BY <1>2, OperandsSeen DEF Executing
  <2>2. QED
    BY <1>5, <2>1 DEF Machine!TopOf
<1>12. \/ \E v \in Ints, n \in 0..Len(g.temps) :
             AbsFrames' = Append(Below, [g EXCEPT !.temps = Append(Machine!Without(g, n), v)])
       \/ AbsFrames' = Append(Below, g)
       \/ /\ g.temps # << >>
          /\ \/ AbsFrames' = Append(Below, [g EXCEPT !.temps = Machine!Without(g, 1)])
             \/ AbsFrames' = Append(Below, [g EXCEPT !.temps = Append(@, Machine!TopOf(g, 0))])
  <2>1. CASE \E v \in Ints, n \in 0..Len(Operands) :
               T = Append(SubSeq(Operands, 1, Len(Operands) - n), v)
    <3>1. PICK v \in Ints, n \in 0..Len(temps) :
                 T = Append(SubSeq(temps, 1, Len(temps) - n), v)
      BY <1>2, <2>1
    <3>2. new = [g EXCEPT !.temps = Append(Machine!Without(g, n), v)]
      BY <1>5, <1>6, <1>10, <3>1
    <3>3. AbsFrames' = Append(Below, [g EXCEPT !.temps = Append(Machine!Without(g, n), v)])
      BY <1>7, <3>2
    <3>4. n \in 0..Len(g.temps)
      BY <1>5
    <3>5. QED
      BY <3>3, <3>4
  <2>2. CASE T = Operands
    BY <1>2, <1>3, <1>6, <1>7, <2>2
  <2>3. CASE Operands # << >> /\ T = SubSeq(Operands, 1, Len(Operands) - 1)
    <3>1. new = [g EXCEPT !.temps = Machine!Without(g, 1)]
      <4>1. PICK x : x = Machine!Without(g, 1)
        OBVIOUS
      <4>2. T = x
        BY <1>2, <1>10, <2>3, <4>1
      <4>3. new = [g EXCEPT !.temps = x]
        BY <1>5, <1>6, <4>2
      <4>4. QED
        BY <4>1, <4>3
    <3>2. AbsFrames' = Append(Below, [g EXCEPT !.temps = Machine!Without(g, 1)])
      BY <1>7, <3>1
    <3>3. g.temps # << >>
      BY <1>2, <1>5, <2>3
    <3>4. QED
      BY <3>2, <3>3
  <2>4. CASE Operands # << >> /\ T = Append(Operands, Operands[Len(Operands)])
    <3>1. new = [g EXCEPT !.temps = Append(g.temps, Machine!TopOf(g, 0))]
      <4>1. PICK x : x = Append(g.temps, Machine!TopOf(g, 0))
        OBVIOUS
      <4>2. T = x
        BY <1>2, <1>5, <1>11, <2>4, <4>1
      <4>3. new = [g EXCEPT !.temps = x]
        BY <1>5, <1>6, <4>2
      <4>4. QED
        BY <4>1, <4>3
    <3>2. AbsFrames' = Append(Below, [g EXCEPT !.temps = Append(g.temps, Machine!TopOf(g, 0))])
      BY <1>7, <3>1
    <3>3. g.temps # << >>
      BY <1>2, <1>5, <2>4
    <3>4. QED
      BY <3>2, <3>3
  <2>5. QED
    BY <2>1, <2>2, <2>3, <2>4 DEF Operated
<1>13. Machine!Operate
  <2>1. g = [Machine!Running EXCEPT !.at = s]
    BY <1>4, <1>5
  <2> DEFINE To(h) ==
        \/ \E v \in Ints, n \in 0..Len(h.temps) :
             AbsFrames' = Append(Machine!Callers,
                                 [h EXCEPT !.temps = Append(Machine!Without(h, n), v)])
        \/ AbsFrames' = Append(Machine!Callers, h)
        \/ /\ h.temps # << >>
           /\ \/ AbsFrames' = Append(Machine!Callers, [h EXCEPT !.temps = Machine!Without(h, 1)])
              \/ AbsFrames' = Append(Machine!Callers,
                                     [h EXCEPT !.temps = Append(@, Machine!TopOf(h, 0))])
  <2>2. To(g)
    BY <1>1, <1>12
  <2>3. /\ UNCHANGED <<[i \in 1..NGlobals |-> vstack[global(i - 1)]], closures>>
        /\ Len(AbsFrames') = Len(AbsFrames)
        /\ \E x \in {AbsFrames'[Len(AbsFrames)].at} \ {0} : To([Machine!Running EXCEPT !.at = x])
        => Machine!Operate
    BY DEF Machine!Operate
  <2> HIDE DEF To
  <2>4. \E x \in {AbsFrames'[Len(AbsFrames)].at} \ {0} : To([Machine!Running EXCEPT !.at = x])
    BY <1>9, <2>1, <2>2
  <2>5. UNCHANGED <<[i \in 1..NGlobals |-> vstack[global(i - 1)]], closures>>
    BY DEF AbsGlobals
  <2>6. QED
    BY <1>9, <2>3, <2>4, <2>5
<1>14. QED
  BY <1>1, <1>4, <1>13 DEF Machine!Next, Executing

\* n operands are replaced by vs, in the record as on the stack.
LEMMA Rewritten ==
  ASSUME Executing, Executing', cstack' = cstack, ip'.fun = ip.fun,
         NEW n \in Nat, n <= Last(depth), NEW vs \in Seq(Values), vstack' = Pop(n) \o vs
  PROVE  /\ AbsGlobals' = AbsGlobals
         /\ AbsFrames' = Append(Below, Record(ip.fun, ip'.place, RunSelf, RunArgs, RunLocals,
                                  SubSeq(Operands, 1, Len(Operands) - n) \o vs))
<1>1. /\ frame_pointer \in Nat /\ nlocals \in Nat /\ Len(vstack) \in Nat
      /\ frame_pointer + nlocals <= Len(vstack)
      /\ Operands \in Seq(Values)
      /\ Len(Operands) = Len(vstack) - (frame_pointer + nlocals)
      /\ Last(depth) \in Nat /\ Last(depth) <= Len(Operands)
      /\ \A i \in 1..Len(Operands) : Operands[i] = vstack[frame_pointer + nlocals + i]
  BY OperandsSeen DEF Executing
<1>2. PICK b \in Nat : b = frame_pointer + nlocals
  BY <1>1
<1>3. PICK l \in Nat : l = Len(vstack)
  BY <1>1
<1>4. PICK d \in Nat : d = Last(depth)
  BY <1>1
<1>5. PICK o \in Seq(Values) : o = Operands
  BY <1>1
<1>6. PICK k \in Nat : k = Len(vs)
  OBVIOUS
<1>7. /\ b <= l /\ Len(o) = l - b /\ n <= l - b /\ \A i \in 1..(l - b) : o[i] = vstack[b + i]
  <2>1. b <= l /\ Len(o) = l - b /\ d <= Len(o) /\ n <= d
    BY <1>1, <1>2, <1>3, <1>4, <1>5, <1>6
  <2>2. QED
    BY <1>1, <1>2, <1>3, <1>4, <1>5, <1>6, <2>1
<1>8. PICK w : w = vstack'
  OBVIOUS
<1>9. /\ w \in Seq(Values) /\ Len(w) = l - n + k
      /\ \A i \in 1..(l - n) : w[i] = vstack[i]
      /\ \A i \in 1..k : w[l - n + i] = vs[i]
  <2>1. vstack \in Seq(Values) /\ n <= Len(vstack)
    <3>1. vstack \in Seq(Values)
      BY DEF Executing, TypeInv, TypeOK
    <3>2. n <= l
      BY <1>7
    <3>3. QED
      BY <1>3, <3>1, <3>2
  <2>2. /\ Pop(n) \o vs \in Seq(Values)
        /\ Len(Pop(n) \o vs) = Len(vstack) - n + Len(vs)
        /\ \A i \in 1..(Len(vstack) - n) : (Pop(n) \o vs)[i] = vstack[i]
        /\ \A i \in 1..Len(vs) : (Pop(n) \o vs)[Len(vstack) - n + i] = vs[i]
    BY <2>1, Replaced
  <2>3. QED
    BY <1>2, <1>3, <1>4, <1>5, <1>6, <1>8, <2>2
<1>10. \A p \in 1..(frame_pointer + nlocals) : vstack'[p] = vstack[p]
  <2>1. \A p \in 1..b : p \in 1..(l - n)
    BY <1>7
  <2>2. QED
    BY <1>2, <1>3, <1>4, <1>5, <1>6, <1>8, <1>9, <2>1
<1>11. PICK a, r : a = SubSeq(w, b + 1, Len(w)) /\ r = SubSeq(o, 1, l - b - n)
  OBVIOUS
<1>12. /\ a \in Seq(Values) /\ Len(a) = l - b - n + k
      /\ \A i \in 1..(l - b - n + k) : a[i] = w[b + i]
  <2>1. PICK e \in Nat : e = Len(w) /\ e = l - n + k
    BY <1>7, <1>9
  <2>2. b + 1 \in Nat \ {0} /\ b + 1 <= e + 1 /\ e <= Len(w)
    BY <1>7, <2>1
  <2>3. /\ SubSeq(w, b + 1, e) \in Seq(Values) /\ Len(SubSeq(w, b + 1, e)) = e - (b + 1) + 1
        /\ \A i \in 1..(e - (b + 1) + 1) : SubSeq(w, b + 1, e)[i] = w[(b + 1) + i - 1]
    BY <1>9, <2>2, Stretch
  <2>4. PICK z : z = e - (b + 1) + 1
    OBVIOUS
  <2>5. z = l - b - n + k
    BY <2>1, <2>4
  <2>6. Len(a) = z /\ \A i \in 1..z : a[i] = w[(b + 1) + i - 1]
    BY <1>11, <2>1, <2>3, <2>4
  <2>7. \A i \in 1..z : (b + 1) + i - 1 = b + i
    BY <2>5
  <2>8. QED
    BY <1>11, <2>1, <2>3, <2>5, <2>6, <2>7
<1>13. /\ r \in Seq(Values) /\ Len(r) = l - b - n /\ \A i \in 1..(l - b - n) : r[i] = o[i]
  <2>1. l - b - n \in 0..Len(o)
    BY <1>7
  <2>2. QED
    BY <1>11, <2>1, PopProperties
<1>14. /\ r \o vs \in Seq(Values) /\ Len(r \o vs) = l - b - n + k
       /\ \A i \in 1..(l - b - n) : (r \o vs)[i] = r[i]
       /\ \A i \in 1..k : (r \o vs)[l - b - n + i] = vs[i]
  <2>1. r \in Seq(Values) /\ vs \in Seq(Values)
    BY <1>13
  <2>2. /\ r \o vs \in Seq(Values) /\ Len(r \o vs) = Len(r) + Len(vs)
        /\ \A i \in 1..Len(r) : (r \o vs)[i] = r[i]
        /\ \A i \in 1..Len(vs) : (r \o vs)[Len(r) + i] = vs[i]
    BY ONLY <2>1, Appended
  <2>3. QED
    BY <1>2, <1>3, <1>4, <1>5, <1>6, <1>13, <2>2
<1>15. a = r \o vs
  <2>1. ASSUME NEW i \in 1..Len(a) PROVE a[i] = (r \o vs)[i]
    <3>1. a[i] = w[b + i] /\ i \in Nat
      BY <1>12
    <3>2. CASE i <= l - b - n
      <4>1. i \in 1..(l - b - n) /\ b + i \in 1..(l - n) /\ i \in 1..(l - b)
        BY <1>7, <1>12, <3>2
      <4>2. w[b + i] = vstack[b + i] /\ o[i] = vstack[b + i]
        BY <1>7, <1>9, <4>1
      <4>3. (r \o vs)[i] = o[i]
        BY <1>13, <1>14, <4>1
      <4>4. QED
        BY <3>1, <4>2, <4>3
    <3>3. CASE ~(i <= l - b - n)
      <4>1. PICK j \in 1..k : i = l - b - n + j
        <5>1. i - (l - b - n) \in 1..k
          BY <1>7, <1>12, <3>3
        <5>2. i = l - b - n + (i - (l - b - n))
          BY <1>7, <3>1
        <5>3. QED
          BY <5>1, <5>2
      <4>2. b + i = l - n + j
        <5>1. j \in Nat
          OBVIOUS
        <5>2. QED
          BY ONLY <4>1, <5>1, l \in Nat, b \in Nat, n \in Nat
      <4>3. w[b + i] = vs[j] /\ (r \o vs)[i] = vs[j]
        BY <1>9, <1>14, <4>1, <4>2
      <4>4. QED
        BY <3>1, <4>3
    <3>4. QED
      BY <3>2, <3>3
  <2>2. Len(a) = Len(r \o vs)
    BY <1>12, <1>14
  <2>3. QED
    BY <1>12, <1>14, <2>1, <2>2, SeqEqual
<1>16. /\ AbsGlobals' = AbsGlobals
       /\ AbsFrames' = Append(Below, Record(ip.fun, ip'.place, RunSelf, RunArgs, RunLocals,
                                            Operands'))
       /\ Operands' = SubSeq(vstack', frame_pointer + nlocals + 1, Len(vstack'))
  BY <1>10, OperandsMove
<1>17. Operands' = a
  BY <1>2, <1>3, <1>4, <1>5, <1>6, <1>8, <1>11, <1>16
<1>18. r = SubSeq(Operands, 1, Len(Operands) - n)
  BY <1>2, <1>3, <1>4, <1>5, <1>6, <1>7, <1>11
<1>19. QED
  BY <1>15, <1>16, <1>17, <1>18

\* An instruction on operands fails or makes of them what Rewrite says.
LEMMA RewriteMoves ==
  ASSUME IInv, IInv', status = "run", ip.place # 0,
         NEW n \in Nat, n <= Last(depth), NEW vs \in Seq(Values), NEW m, Rewrite(n, vs, m)
  PROVE  \/ Unseen /\ status' # "run"
         \/ /\ AbsGlobals' = AbsGlobals /\ closures' = closures
            /\ AbsFrames' = Append(Below, Record(ip.fun, ip.place, RunSelf, RunArgs, RunLocals,
                                     SubSeq(Operands, 1, Len(Operands) - n) \o vs))
<1>1. CASE Len(vstack) < n
  BY <1>1, FailHidden DEF Rewrite, Fail
<1>2. CASE ~(Len(vstack) < n) /\ Overflow(Len(vs) - n)
  BY <1>2, FailHidden DEF Rewrite, Fail
<1>3. CASE ~(Len(vstack) < n) /\ ~Overflow(Len(vs) - n)
  <2>1. /\ vstack' = Pop(n) \o vs /\ cstack' = cstack /\ closures' = closures /\ ip' = ip
        /\ status' = status
    BY <1>3 DEF Rewrite
  <2>2. Executing /\ Executing'
    BY <2>1 DEF Executing, IInv
  <2>3. QED
    BY <2>1, <2>2, Rewritten
<1>4. QED
  BY <1>1, <1>2, <1>3

\* The operands below the n topmost ones.
LEMMA Lower ==
  ASSUME Executing, NEW n \in Nat, n <= Last(depth)
  PROVE  /\ Len(Operands) \in Nat /\ n <= Len(Operands) /\ Operands \in Seq(Values)
         /\ SubSeq(Operands, 1, Len(Operands) - n) \in Seq(Values)
         /\ Len(SubSeq(Operands, 1, Len(Operands) - n)) = Len(Operands) - n
         /\ \A i \in 1..(Len(Operands) - n) :
              SubSeq(Operands, 1, Len(Operands) - n)[i] = Operands[i]
<1>1. Operands \in Seq(Values) /\ Last(depth) \in Nat /\ Last(depth) <= Len(Operands)
  BY OperandsSeen DEF Executing
<1>2. PICK o \in Seq(Values) : o = Operands
  BY <1>1
<1>3. PICK l \in Nat : l = Len(o)
  BY <1>2
<1>4. n <= l
  BY <1>1, <1>2, <1>3
<1>5. l - n \in 0..Len(o)
  BY <1>3, <1>4
<1>6. /\ SubSeq(o, 1, l - n) \in Seq(Values) /\ Len(SubSeq(o, 1, l - n)) = l - n
      /\ \A i \in 1..(l - n) : SubSeq(o, 1, l - n)[i] = o[i]
  BY <1>5, PopProperties
<1>7. QED
  BY <1>2, <1>3, <1>4, <1>6

\* An instruction that replaces operands by a computed word.
LEMMA ResultMoves ==
  ASSUME IInv, IInv', status = "run", ip.place # 0,
         NEW n \in Nat, n <= Last(depth), NEW v \in Ints, NEW m, Rewrite(n, <<v>>, m)
  PROVE  Machine!Next \/ Unseen
<1>1. v \in Values /\ Executing
  BY DEF Values, Executing, IInv
<1>2. <<v>> \in Seq(Values)
  BY <1>1, OneValue
<1>3. \/ Unseen
      \/ /\ AbsGlobals' = AbsGlobals /\ closures' = closures
         /\ AbsFrames' = Append(Below, Record(ip.fun, ip.place, RunSelf, RunArgs, RunLocals,
                                  SubSeq(Operands, 1, Len(Operands) - n) \o <<v>>))
  BY <1>2, RewriteMoves
<1>4. PICK r \in Seq(Values) : r = SubSeq(Operands, 1, Len(Operands) - n)
  BY <1>1, Lower
<1>5. r \o <<v>> = Append(r, v)
  BY <1>1, AppendIsConcat
<1>6. n \in 0..Len(Operands)
  BY <1>1, Lower
<1>7. PICK T : T = Append(r, v)
  OBVIOUS
<1>8. Operated(T)
  BY <1>4, <1>6, <1>7 DEF Operated
<1>9. PICK s : s = ip.place /\ s # 0
  OBVIOUS
<1>10. CASE ~Unseen
  <2>1. /\ AbsFrames' = Append(Below, Record(ip.fun, s, RunSelf, RunArgs, RunLocals, T))
        /\ AbsGlobals' = AbsGlobals /\ closures' = closures
    BY <1>3, <1>4, <1>5, <1>7, <1>9, <1>10
  <2>2. QED
    BY <1>1, <1>8, <1>9, <2>1, OperateMoves
<1>11. QED
  BY <1>10

\* An instruction that calls a builtin puts its result in place of its operands.
LEMMA BuiltinMoves == IInv /\ IInv' /\ Builtin => Machine!Next \/ Unseen
<1> SUFFICES ASSUME IInv, IInv', Builtin PROVE Machine!Next \/ Unseen
  OBVIOUS
<1>1. PICK instr \in DOMAIN Arity, v \in Ints :
        /\ Dispatch(instr, Arity[instr])
        /\ Rewrite(Arity[instr], <<v>>, Last(depth) - Arity[instr] + 1)
  BY DEF Builtin
<1>2. PICK n \in Nat : n = Arity[instr]
  BY DEF Arity
<1>3. status = "run" /\ ip.place # 0 /\ n <= Last(depth)
  BY <1>1, <1>2, Dispatched
<1>4. PICK m : Rewrite(n, <<v>>, m)
  BY <1>1, <1>2
<1>5. QED
  BY <1>3, <1>4, ResultMoves

\* BARRAY puts an array in place of its elements.
LEMMA BarrayMoves == IInv /\ IInv' /\ Barray => Machine!Next \/ Unseen
<1> SUFFICES ASSUME IInv, IInv', Barray PROVE Machine!Next \/ Unseen
  OBVIOUS
<1>1. PICK n \in 0..MaxElements :
        /\ Dispatch("BARRAY", n)
        /\ IF Verified(n)
             THEN \E v \in Ints : Rewrite(n, <<v>>, Last(depth) - n + 1)
             ELSE Fail(Blame(Len(vstack) - n))
  BY DEF Barray
<1>2. n \in Nat
  BY SizesTyped
<1>3. status = "run" /\ ip.place # 0 /\ n <= Last(depth) /\ Verified(n)
  BY <1>1, <1>2, Dispatched
<1>4. PICK v \in Ints : Rewrite(n, <<v>>, Last(depth) - n + 1)
  BY <1>1, <1>3
<1>5. QED
  BY <1>2, <1>3, <1>4, ResultMoves

\* SEXP puts an S-expression in place of its fields.
LEMMA SexpMoves == IInv /\ IInv' /\ Sexp => Machine!Next \/ Unseen
<1> SUFFICES ASSUME IInv, IInv', Sexp PROVE Machine!Next \/ Unseen
  OBVIOUS
<1>1. PICK n \in 0..MaxElements :
        /\ Dispatch("SEXP", n)
        /\ IF ~Verified(n) THEN Fail(Blame(Len(vstack) - n))
           ELSE IF Overflow(1) THEN Fail("overflow")
           ELSE \E v \in Ints : Rewrite(n, <<v>>, Last(depth) - n + 1)
  BY DEF Sexp
<1>2. n \in Nat
  BY SizesTyped
<1>3. status = "run" /\ ip.place # 0 /\ n <= Last(depth) /\ Verified(n)
  BY <1>1, <1>2, Dispatched
<1>4. CASE Overflow(1)
  BY <1>1, <1>3, <1>4, FailHidden
<1>5. CASE ~Overflow(1)
  <2>1. PICK v \in Ints : Rewrite(n, <<v>>, Last(depth) - n + 1)
    BY <1>1, <1>3, <1>5
  <2>2. QED
    BY <1>2, <1>3, <2>1, ResultMoves
<1>6. QED
  BY <1>4, <1>5

\* LSTRING pushes a string and leaves its operand where it is.
LEMMA LstringMoves == IInv /\ IInv' /\ Lstring => Machine!Next \/ Unseen
<1> SUFFICES ASSUME IInv, IInv', Lstring PROVE Machine!Next \/ Unseen
  OBVIOUS
<1>1. Dispatch("LSTRING", 1)
  BY DEF Lstring
<1>2. PICK v \in Ints : Rewrite(0, <<v>>, Last(depth))
  BY DEF Lstring
<1>3. status = "run" /\ ip.place # 0 /\ 0 <= Last(depth)
  BY <1>1, Dispatched
<1>4. QED
  BY <1>2, <1>3, ResultMoves

\* DROP takes the topmost operand away.
LEMMA DropMoves == IInv /\ IInv' /\ Drop => Machine!Next \/ Unseen
<1> SUFFICES ASSUME IInv, IInv', Drop PROVE Machine!Next \/ Unseen
  OBVIOUS
<1>1. Dispatch("DROP", 1) /\ Rewrite(1, << >>, Last(depth) - 1)
  BY DEF Drop
<1>2. status = "run" /\ ip.place # 0 /\ 1 <= Last(depth) /\ Executing
  BY <1>1, Dispatched DEF Executing
<1>3. << >> \in Seq(Values)
  BY EmptySeq
<1>4. \/ Unseen
      \/ /\ AbsGlobals' = AbsGlobals /\ closures' = closures
         /\ AbsFrames' = Append(Below, Record(ip.fun, ip.place, RunSelf, RunArgs, RunLocals,
                                  SubSeq(Operands, 1, Len(Operands) - 1) \o << >>))
  BY <1>1, <1>2, <1>3, RewriteMoves
<1>5. PICK T \in Seq(Values) : T = SubSeq(Operands, 1, Len(Operands) - 1)
  BY <1>2, Lower
<1>6. T \o << >> = T
  BY ConcatEmptySeq
<1>7. Operands # << >>
  <2>1. Len(Operands) \in Nat /\ 1 <= Len(Operands)
    BY <1>2, Lower
  <2>2. QED
    BY <2>1
<1>8. Operated(T)
  BY <1>5, <1>7 DEF Operated
<1>9. PICK s : s = ip.place /\ s # 0
  BY <1>2
<1>10. CASE ~Unseen
  <2>1. /\ AbsFrames' = Append(Below, Record(ip.fun, s, RunSelf, RunArgs, RunLocals, T))
        /\ AbsGlobals' = AbsGlobals /\ closures' = closures
    BY <1>4, <1>5, <1>6, <1>9, <1>10
  <2>2. QED
    BY <1>2, <1>8, <1>9, <2>1, OperateMoves
<1>11. QED
  BY <1>10

\* The topmost words of the stack are operands.
LEMMA OnTop ==
  ASSUME Executing, NEW n \in Nat, n < Last(depth)
  PROVE  /\ Len(Operands) \in Nat /\ n < Len(Operands)
         /\ Top(n) = Operands[Len(Operands) - n] /\ Top(n) \in Values
<1>1. /\ frame_pointer \in Nat /\ nlocals \in Nat /\ Len(vstack) \in Nat
      /\ Operands \in Seq(Values)
      /\ Len(Operands) = Len(vstack) - (frame_pointer + nlocals)
      /\ Last(depth) \in Nat /\ Last(depth) <= Len(Operands)
      /\ \A i \in 1..Len(Operands) : Operands[i] = vstack[frame_pointer + nlocals + i]
  BY OperandsSeen DEF Executing
<1>2. PICK b \in Nat : b = frame_pointer + nlocals
  BY <1>1
<1>3. PICK l \in Nat : l = Len(vstack)
  BY <1>1
<1>4. PICK k \in Nat : k = Len(Operands)
  BY <1>1
<1>5. k = l - b /\ n < k
  BY <1>1, <1>2, <1>3, <1>4
<1>6. k - n \in 1..k /\ b + (k - n) = l - n
  BY <1>5
<1>7. Operands[k - n] = vstack[l - n]
  BY <1>1, <1>2, <1>4, <1>6
<1>8. Operands[k - n] \in Values
  BY <1>1, <1>4, <1>6, ElementOfSeq
<1>9. Top(n) = vstack[l - n]
  BY <1>3 DEF Top
<1>10. QED
  BY <1>4, <1>5, <1>7, <1>8, <1>9

\* The last member of a sequence, taken off and put on twice.
LEMMA Doubled ==
  ASSUME NEW S, NEW s \in Seq(S), s # << >>,
         NEW x, x = s[Len(s)], NEW r, r = SubSeq(s, 1, Len(s) - 1)
  PROVE  r \o <<x, x>> = Append(s, x)
<1>1. PICK l \in Nat : l = Len(s) - 1 /\ l + 1 = Len(s) /\ l \in 0..Len(s) /\ l + 1 \in 1..Len(s)
  BY EmptySeq
<1>2. x \in S /\ x = s[l + 1]
  BY <1>1, ElementOfSeq
<1>3. r \in Seq(S) /\ Len(r) = l /\ \A i \in 1..l : r[i] = s[i]
  BY <1>1, PopProperties
<1>4. PICK p : p = <<x, x>>
  OBVIOUS
<1>5. p \in Seq(S) /\ Len(p) = 2 /\ p[1] = x /\ p[2] = x
  BY <1>2, <1>4
<1>6. PICK a : a = r \o p
  OBVIOUS
<1>7. /\ a \in Seq(S) /\ Len(a) = l + 2 /\ (\A i \in 1..l : a[i] = r[i])
      /\ a[l + 1] = x /\ a[l + 2] = x
  <2>0. r \in Seq(S) /\ p \in Seq(S)
    BY <1>3, <1>5
  <2>1. /\ r \o p \in Seq(S) /\ Len(r \o p) = Len(r) + Len(p)
        /\ \A i \in 1..Len(r) : (r \o p)[i] = r[i]
        /\ \A i \in 1..Len(p) : (r \o p)[Len(r) + i] = p[i]
    BY ONLY <2>0, Appended
  <2>2. 1 \in 1..Len(p) /\ 2 \in 1..Len(p)
    BY <1>5
  <2>3. QED
    BY <1>3, <1>5, <1>6, <2>1, <2>2
<1>8. PICK b : b = Append(s, x)
  OBVIOUS
<1>9. b \in Seq(S) /\ Len(b) = l + 2 /\ b[l + 2] = x /\ \A i \in 1..(l + 1) : b[i] = s[i]
  BY <1>1, <1>2, <1>8, AppendProperties
<1>10. ASSUME NEW i \in 1..Len(a) PROVE a[i] = b[i]
  <2>1. i \in 1..l \/ i = l + 1 \/ i = l + 2
    <3>1. i \in 1..(l + 2)
      BY <1>7
    <3>2. QED
      BY ONLY <3>1, l \in Nat
  <2>2. CASE i \in 1..l
    BY <1>3, <1>7, <1>9, <2>2
  <2>3. CASE i = l + 1
    BY <1>2, <1>7, <1>9, <2>3
  <2>4. CASE i = l + 2
    BY <1>7, <1>9, <2>4
  <2>5. QED
    BY <2>1, <2>2, <2>3, <2>4
<1>11. a = b
  BY <1>7, <1>9, <1>10, SeqEqual
<1>12. QED
  BY <1>4, <1>6, <1>8, <1>11

\* The last two members, taken off and put on again.
LEMMA PutBack ==
  ASSUME NEW S, NEW s \in Seq(S), 2 <= Len(s), NEW x, x = s[Len(s) - 1],
         NEW y, y = s[Len(s)], NEW r, r = SubSeq(s, 1, Len(s) - 2)
  PROVE  r \o <<x, y>> = s
<1>1. PICK l \in Nat : l = Len(s) - 2 /\ l + 2 = Len(s) /\ l \in 0..Len(s)
  OBVIOUS
<1>2. /\ l + 1 = Len(s) - 1 /\ l + 1 \in 1..Len(s) /\ l + 2 \in 1..Len(s)
      /\ x = s[l + 1] /\ y = s[l + 2] /\ x \in S /\ y \in S
  BY <1>1, ElementOfSeq
<1>3. r \in Seq(S) /\ Len(r) = l /\ \A i \in 1..l : r[i] = s[i]
  BY <1>1, PopProperties
<1>4. PICK p : p = <<x, y>>
  OBVIOUS
<1>5. p \in Seq(S) /\ Len(p) = 2 /\ p[1] = x /\ p[2] = y
  BY <1>2, <1>4
<1>6. PICK a : a = r \o p
  OBVIOUS
<1>7. /\ a \in Seq(S) /\ Len(a) = l + 2 /\ (\A i \in 1..l : a[i] = r[i])
      /\ a[l + 1] = x /\ a[l + 2] = y
  <2>0. r \in Seq(S) /\ p \in Seq(S)
    BY <1>3, <1>5
  <2>1. /\ r \o p \in Seq(S) /\ Len(r \o p) = Len(r) + Len(p)
        /\ \A i \in 1..Len(r) : (r \o p)[i] = r[i]
        /\ \A i \in 1..Len(p) : (r \o p)[Len(r) + i] = p[i]
    BY ONLY <2>0, Appended
  <2>2. 1 \in 1..Len(p) /\ 2 \in 1..Len(p)
    BY <1>5
  <2>3. QED
    BY <1>3, <1>5, <1>6, <2>1, <2>2
<1>8. ASSUME NEW i \in 1..Len(a) PROVE a[i] = s[i]
  <2>1. i \in 1..l \/ i = l + 1 \/ i = l + 2
    <3>1. i \in 1..(l + 2)
      BY <1>7
    <3>2. QED
      BY ONLY <3>1, l \in Nat
  <2>2. QED
    BY <1>2, <1>3, <1>7, <2>1
<1>9. a = s
  BY <1>1, <1>7, <1>8, SeqEqual
<1>10. QED
  BY <1>4, <1>6, <1>9

\* DUP doubles the topmost operand.
LEMMA DupMoves == IInv /\ IInv' /\ Dup => Machine!Next \/ Unseen
<1> SUFFICES ASSUME IInv, IInv', Dup PROVE Machine!Next \/ Unseen
  OBVIOUS
<1>1. Dispatch("DUP", 1) /\ Rewrite(1, <<Top(0), Top(0)>>, Last(depth) + 1)
  BY DEF Dup
<1>2. status = "run" /\ ip.place # 0 /\ 1 <= Last(depth) /\ Last(depth) \in Nat /\ Executing
  BY <1>1, Dispatched DEF Executing
<1>3. PICK o \in Seq(Values) : o = Operands
  BY <1>2, Lower
<1>4. PICK x \in Values : x = Top(0) /\ x = o[Len(o)] /\ o # << >>
  <2>1. 0 < Last(depth)
    BY <1>2
  <2>2. /\ Len(Operands) \in Nat /\ 0 < Len(Operands)
        /\ Top(0) = Operands[Len(Operands) - 0] /\ Top(0) \in Values
    BY <1>2, <2>1, OnTop
  <2>3. QED
    BY <1>3, <2>2
<1>5. <<x, x>> \in Seq(Values)
  BY PairInSeq
<1>6. \/ Unseen
      \/ /\ AbsGlobals' = AbsGlobals /\ closures' = closures
         /\ AbsFrames' = Append(Below, Record(ip.fun, ip.place, RunSelf, RunArgs, RunLocals,
                                  SubSeq(Operands, 1, Len(Operands) - 1) \o <<x, x>>))
  BY <1>1, <1>2, <1>4, <1>5, RewriteMoves
<1>7. PICK r : r = SubSeq(o, 1, Len(o) - 1)
  OBVIOUS
<1>8. r \o <<x, x>> = Append(o, x)
  BY <1>4, <1>7, Doubled
<1>9. PICK T : T = Append(o, x)
  OBVIOUS
<1>10. Operated(T)
  BY <1>3, <1>4, <1>9 DEF Operated
<1>11. PICK s : s = ip.place /\ s # 0
  BY <1>2
<1>12. CASE ~Unseen
  <2>1. /\ AbsFrames' = Append(Below, Record(ip.fun, s, RunSelf, RunArgs, RunLocals, T))
        /\ AbsGlobals' = AbsGlobals /\ closures' = closures
    BY <1>3, <1>6, <1>7, <1>8, <1>9, <1>11, <1>12
  <2>2. QED
    BY <1>2, <1>10, <1>11, <2>1, OperateMoves
<1>13. QED
  BY <1>12

\* SWAP puts its two operands back in the order they were in.
LEMMA SwapMoves == IInv /\ IInv' /\ Swap => Machine!Next \/ Unseen
<1> SUFFICES ASSUME IInv, IInv', Swap PROVE Machine!Next \/ Unseen
  OBVIOUS
<1>1. Dispatch("SWAP", 2) /\ Rewrite(2, <<Top(1), Top(0)>>, Last(depth))
  BY DEF Swap
<1>2. status = "run" /\ ip.place # 0 /\ 2 <= Last(depth) /\ Last(depth) \in Nat /\ Executing
  BY <1>1, Dispatched DEF Executing
<1>3. PICK o \in Seq(Values) : o = Operands
  BY <1>2, Lower
<1>4. /\ Top(0) = o[Len(o)] /\ Top(1) = o[Len(o) - 1] /\ 2 <= Len(o)
      /\ Top(0) \in Values /\ Top(1) \in Values
  <2>1. 0 < Last(depth) /\ 1 < Last(depth)
    BY <1>2
  <2>2. Top(0) = Operands[Len(Operands) - 0] /\ Top(0) \in Values
    BY <1>2, <2>1, OnTop
  <2>3. /\ Len(Operands) \in Nat /\ 1 < Len(Operands)
        /\ Top(1) = Operands[Len(Operands) - 1] /\ Top(1) \in Values
    BY <1>2, <2>1, OnTop
  <2>4. QED
    BY <1>3, <2>2, <2>3
<1>5. PICK x \in Values, y \in Values : x = Top(1) /\ y = Top(0)
  BY <1>4
<1>6. <<x, y>> \in Seq(Values)
  BY PairInSeq
<1>7. \/ Unseen
      \/ /\ AbsGlobals' = AbsGlobals /\ closures' = closures
         /\ AbsFrames' = Append(Below, Record(ip.fun, ip.place, RunSelf, RunArgs, RunLocals,
                                  SubSeq(Operands, 1, Len(Operands) - 2) \o <<x, y>>))
  BY <1>1, <1>2, <1>5, <1>6, RewriteMoves
<1>8. PICK r : r = SubSeq(o, 1, Len(o) - 2)
  OBVIOUS
<1>9. r \o <<x, y>> = o
  BY <1>4, <1>5, <1>8, PutBack
<1>10. Operated(o)
  BY <1>3 DEF Operated
<1>11. PICK s : s = ip.place /\ s # 0
  BY <1>2
<1>12. CASE ~Unseen
  <2>1. /\ AbsFrames' = Append(Below, Record(ip.fun, s, RunSelf, RunArgs, RunLocals, o))
        /\ AbsGlobals' = AbsGlobals /\ closures' = closures
    BY <1>3, <1>7, <1>8, <1>9, <1>11, <1>12
  <2>2. QED
    BY <1>2, <1>10, <1>11, <2>1, OperateMoves
<1>13. QED
  BY <1>12

\* JMP goes to another place of the function.
LEMMA JmpMoves == IInv /\ IInv' /\ Jmp => Machine!Next \/ Unseen
<1> SUFFICES ASSUME IInv, IInv', Jmp PROVE Machine!Next \/ Unseen
  OBVIOUS
<1>1. PICK s \in Places : JumpTo(s)
  BY DEF Jmp
<1>2. /\ Dispatch("JMP", 0) /\ vstack' = vstack /\ cstack' = cstack
      /\ closures' = closures /\ status' = status /\ depth' = depth
  BY DEF Jmp
<1>3. TypeInv /\ FrameInv /\ status = "run" /\ ip.place # 0
  BY <1>2, Dispatched
<1>4. ip'.fun = ip.fun /\ ip'.place = s /\ s # 0
  <2>1. ip \in Points /\ s \in Nat \ {0}
    BY <1>3, SizesTyped DEF TypeInv, TypeOK
  <2>2. QED
    BY <1>1, <2>1 DEF JumpTo, Points
<1>5. Executing /\ Executing'
  BY <1>2, <1>3, <1>4 DEF Executing, IInv
<1>6. /\ AbsGlobals' = AbsGlobals
      /\ AbsFrames' = Append(Below, Record(ip.fun, ip'.place, RunSelf, RunArgs, RunLocals,
                                           Operands'))
      /\ Operands' = SubSeq(vstack', frame_pointer + nlocals + 1, Len(vstack'))
  BY <1>2, <1>4, <1>5, OperandsMove
<1>7. Operands' = Operands
  BY <1>2, <1>6 DEF Operands
<1>8. Operated(Operands)
  BY DEF Operated
<1>9. AbsFrames' = Append(Below, Record(ip.fun, s, RunSelf, RunArgs, RunLocals, Operands))
  BY <1>4, <1>6, <1>7
<1>10. QED
  BY <1>2, <1>4, <1>5, <1>6, <1>8, <1>9, OperateMoves

\* CJMP takes its operand and may go to another place of the function.
LEMMA CJmpMoves == IInv /\ IInv' /\ CJmp => Machine!Next \/ Unseen
<1> SUFFICES ASSUME IInv, IInv', CJmp PROVE Machine!Next \/ Unseen
  OBVIOUS
<1>1. PICK s \in Places \cup {ip.place} : JumpTo(s)
  BY DEF CJmp
<1>2. /\ Dispatch("CJMP", 1) /\ vstack' = Pop(1) /\ cstack' = cstack
      /\ closures' = closures /\ status' = status
  BY DEF CJmp
<1>3. /\ TypeInv /\ FrameInv /\ status = "run" /\ ip.place # 0 /\ 1 <= Last(depth)
      /\ vstack \in Seq(Values) /\ 1 <= Len(vstack) /\ Len(vstack) \in Nat
  BY <1>2, Dispatched
<1>4. ip'.fun = ip.fun /\ ip'.place = s /\ s # 0
  <2>1. ip \in Points /\ s \in Nat \ {0}
    BY <1>3, SizesTyped DEF TypeInv, TypeOK, Points
  <2>2. QED
    BY <1>1, <2>1 DEF JumpTo, Points
<1>5. Executing /\ Executing'
  BY <1>2, <1>3, <1>4 DEF Executing, IInv
<1>6. vstack' = Pop(1) \o << >> /\ << >> \in Seq(Values)
  <2>1. Pop(1) \in Seq(Values) /\ << >> \in Seq(Values)
    BY <1>3, PopTop, EmptySeq
  <2>2. QED
    BY <1>2, <2>1, ConcatEmptySeq
<1>7. /\ AbsGlobals' = AbsGlobals
      /\ AbsFrames' = Append(Below, Record(ip.fun, ip'.place, RunSelf, RunArgs, RunLocals,
                               SubSeq(Operands, 1, Len(Operands) - 1) \o << >>))
  BY <1>2, <1>3, <1>4, <1>5, <1>6, Rewritten
<1>8. PICK T \in Seq(Values) : T = SubSeq(Operands, 1, Len(Operands) - 1)
  BY <1>3, <1>5, Lower
<1>9. T \o << >> = T
  BY ConcatEmptySeq
<1>10. Operands # << >>
  <2>1. Len(Operands) \in Nat /\ 1 <= Len(Operands)
    BY <1>3, <1>5, Lower
  <2>2. QED
    BY <2>1
<1>11. Operated(T)
  BY <1>8, <1>10 DEF Operated
<1>12. AbsFrames' = Append(Below, Record(ip.fun, s, RunSelf, RunArgs, RunLocals, T))
  BY <1>4, <1>7, <1>8, <1>9
<1>13. QED
  BY <1>2, <1>4, <1>5, <1>7, <1>11, <1>12, OperateMoves

---------------------------------------------------------------------------
(***************************************************************************)
(* Names.                                                                  *)
(***************************************************************************)

\* The arguments of a function other than main are words of the stack.
Inner == Executing /\ Begun # 1
ArgsRead ==
  /\ frame_pointer \in Nat /\ nargs \in Nat /\ nargs <= frame_pointer
  /\ RunArgs \in Seq(Values) /\ Len(RunArgs) = nargs
  /\ \A i \in 1..nargs : RunArgs[i] = vstack[frame_pointer - nargs + i]

\* The arguments of a record are those the names denote.
LEMMA ArgsSeen == Inner => ArgsRead
<1> SUFFICES ASSUME Executing, Begun # 1 PROVE ArgsRead
  BY DEF Inner
<1>1. TypeInv /\ FrameInv /\ ip.place # 0
  BY DEF Executing
<1>2. /\ frame_pointer \in Nat /\ nargs \in Nat /\ FrameStart \in Nat
      /\ FrameStart + nargs <= frame_pointer
  <2>1. Fun \in [nargs : Nat, nlocals : Nat, ncaptured : Nat] /\ nargs = Fun.nargs
    BY <1>1, Running
  <2>2. nargs \in Nat
    BY <2>1
  <2>3. QED
    BY <1>1, <2>2, Running, FrameAbove
<1>3. PICK f \in Nat, a \in Nat, st \in Nat : f = frame_pointer /\ a = nargs /\ st = FrameStart
  BY <1>2
<1>4. st + a <= f
  BY <1>2, <1>3
<1>5. f <= Len(vstack)
  <2>1. /\ frame_pointer \in Nat /\ nlocals \in Nat /\ Len(vstack) \in Nat
        /\ frame_pointer + nlocals <= Len(vstack)
    BY <1>1, OperandsSeen
  <2>2. frame_pointer <= Len(vstack)
    BY <2>1
  <2>3. QED
    BY <1>3, <2>2
<1>6. PICK m \in Nat \ {0} : m = f - a + 1
  BY <1>4
<1>7. vstack \in Seq(Values) /\ m <= f + 1 /\ f <= Len(vstack)
  BY <1>1, <1>5, <1>6 DEF TypeInv, TypeOK
<1>8. /\ SubSeq(vstack, m, f) \in Seq(Values) /\ Len(SubSeq(vstack, m, f)) = f - m + 1
      /\ \A i \in 1..(f - m + 1) : SubSeq(vstack, m, f)[i] = vstack[m + i - 1]
  BY <1>7, Stretch
<1>9. PICK r : r = SubSeq(vstack, m, f)
  OBVIOUS
<1>10. RunArgs = r
  BY <1>3, <1>6, <1>9 DEF RunArgs
<1>11. f - m + 1 = a /\ \A i \in 1..a : m + i - 1 = f - a + i
  BY <1>6
<1>12. r \in Seq(Values) /\ Len(r) = a /\ \A i \in 1..a : r[i] = vstack[f - a + i]
  BY <1>8, <1>9, <1>11
<1>13. a <= f
  BY <1>4
<1>14. QED
  BY <1>3, <1>10, <1>12, <1>13 DEF ArgsRead

\* A name denotes in the record the word its slot holds.
LEMMA NamedRead ==
  ASSUME Executing, NEW loc \in Locations
  PROVE  /\ Named(loc) \in Machine!Locations(Machine!Running)
         /\ Machine!Read(Machine!Running, Named(loc)) = Load(loc)
         /\ Load(loc) \in Values
<1>1. TypeInv /\ FrameInv /\ ip.place # 0
  BY DEF Executing
<1>2. PICK r : r = Machine!Running
  OBVIOUS
<1>3. r.self = RunSelf /\ r.args = RunArgs /\ r.locals = RunLocals
  <2>1. r = Record(ip.fun, ip.place, RunSelf, RunArgs, RunLocals, Operands)
    BY <1>2, RunningSeen DEF RecordsRunning, RunRecord
  <2>2. QED
    BY <2>1 DEF Record
<1>4. PICK i : i = loc[2]
  OBVIOUS
<1>5. Named(loc) = <<loc[1], i + 1>>
  BY <1>4 DEF Named
<1>6. /\ frame_pointer \in Nat /\ nlocals \in Nat
  BY <1>1, OperandsSeen
<1>7. CASE loc[1] = "G"
  <2>1. i \in 0..(NGlobals - 1) /\ Slot(loc) = NGlobals + 1 - i
    BY <1>1, <1>4, <1>7, LocationSlots
  <2>2. /\ i + 1 \in 1..NGlobals /\ global((i + 1) - 1) = NGlobals + 1 - i
    BY <2>1, SizesTyped DEF global
  <2>3. /\ i + 1 \in DOMAIN AbsGlobals /\ AbsGlobals[i + 1] = vstack[Slot(loc)]
    BY <2>1, <2>2 DEF AbsGlobals
  <2>4. Named(loc) = <<"G", i + 1>>
    BY <1>5, <1>7
  <2>5. Named(loc) \in Machine!Locations(r)
    BY <2>3, <2>4 DEF Machine!Locations, AbsGlobals
  <2>6. Machine!Read(r, Named(loc)) = AbsGlobals[i + 1]
    BY <2>4 DEF Machine!Read, AbsGlobals
  <2>7. Load(loc) = vstack[Slot(loc)]
    BY <1>7 DEF Load
  <2>8. QED
    BY <1>1, <1>2, <2>3, <2>5, <2>6, <2>7, LoadTyped
<1>8. CASE loc[1] = "L"
  <2>1. i \in 0..(nlocals - 1) /\ Slot(loc) = frame_pointer + nlocals - i
    BY <1>1, <1>4, <1>8, LocationSlots
  <2>2. i + 1 \in 1..nlocals /\ frame_pointer + nlocals + 1 - (i + 1) = frame_pointer + nlocals - i
    BY <1>6, <2>1
  <2>3. i + 1 \in DOMAIN RunLocals /\ RunLocals[i + 1] = vstack[Slot(loc)]
    BY <2>1, <2>2 DEF RunLocals
  <2>4. Named(loc) = <<"L", i + 1>>
    BY <1>5, <1>8
  <2>5. Named(loc) \in Machine!Locations(r)
    BY <1>3, <2>3, <2>4 DEF Machine!Locations
  <2>6. Machine!Read(r, Named(loc)) = RunLocals[i + 1]
    BY <1>3, <2>4 DEF Machine!Read
  <2>7. Load(loc) = vstack[Slot(loc)]
    BY <1>8 DEF Load
  <2>8. QED
    BY <1>1, <1>2, <2>3, <2>5, <2>6, <2>7, LoadTyped
<1>9. CASE loc[1] = "A"
  <2>1. /\ i \in 0..(nargs - 1) /\ Slot(loc) = frame_pointer - (nargs - 1 - i)
        /\ ip.fun # "main"
    BY <1>1, <1>4, <1>9, LocationSlots
  <2>2. Begun # 1
    BY <1>1, <2>1, Running
  <2>3. /\ nargs \in Nat /\ RunArgs \in Seq(Values) /\ Len(RunArgs) = nargs
        /\ \A k \in 1..nargs : RunArgs[k] = vstack[frame_pointer - nargs + k]
    BY <2>2, ArgsSeen DEF ArgsRead, Inner
  <2>4. i + 1 \in 1..nargs /\ frame_pointer - nargs + (i + 1) = frame_pointer - (nargs - 1 - i)
    BY <1>6, <2>1, <2>3
  <2>5. i + 1 \in DOMAIN RunArgs /\ RunArgs[i + 1] = vstack[Slot(loc)]
    BY <2>1, <2>3, <2>4
  <2>6. Named(loc) = <<"A", i + 1>>
    BY <1>5, <1>9
  <2>7. Named(loc) \in Machine!Locations(r)
    BY <1>3, <2>5, <2>6 DEF Machine!Locations
  <2>8. Machine!Read(r, Named(loc)) = RunArgs[i + 1]
    BY <1>3, <2>6 DEF Machine!Read
  <2>9. Load(loc) = vstack[Slot(loc)]
    BY <1>9 DEF Load
  <2>10. QED
    BY <1>1, <1>2, <2>5, <2>7, <2>8, <2>9, LoadTyped
<1>10. CASE loc[1] = "C"
  <2>1. i \in 0..(Fun.ncaptured - 1) /\ is_closure /\ Fun.ncaptured \in Nat
    BY <1>1, <1>4, <1>10, LocationSlots, Running
  <2>2. PICK c \in 1..Len(closures) :
          /\ vstack[closure_loc] = ClosureValue(c) /\ closures[c].fun = ip.fun
    BY <1>1, <2>1, Running
  <2>3. /\ vstack[closure_loc].closure = c /\ Self = closures[c]
        /\ closures[c].captured \in [1..Fun.ncaptured -> Values]
    <3>1. PICK d \in 1..Len(closures) :
            /\ vstack[closure_loc].closure = d /\ Self = closures[d]
            /\ closures[d].captured \in [1..Fun.ncaptured -> Values]
      BY <1>1, <2>1, SelfClosure
    <3>2. vstack[closure_loc].closure = c
      BY <2>2 DEF ClosureValue
    <3>3. QED
      BY <3>1, <3>2
  <2>4. r.self = vstack[closure_loc] /\ r.self.closure = c
    BY <1>3, <2>1, <2>3 DEF RunSelf
  <2>5. r.self # Machine!Nobody
    <3>1. c # 0
      BY <1>1 DEF TypeInv
    <3>2. Machine!Nobody.closure = 0
      BY DEF Machine!Nobody
    <3>3. QED
      BY <2>4, <3>1, <3>2
  <2>6. Named(loc) = <<"C", i + 1>>
    BY <1>5, <1>10
  <2>7. i + 1 \in DOMAIN closures[c].captured
    BY <2>1, <2>3
  <2>8. Named(loc) \in Machine!Locations(r)
    BY <2>4, <2>5, <2>6, <2>7 DEF Machine!Locations
  <2>9. Machine!Read(r, Named(loc)) = closures[c].captured[i + 1]
    BY <2>4, <2>6 DEF Machine!Read
  <2>10. Load(loc) = closures[c].captured[i + 1]
    BY <1>4, <1>10, <2>3 DEF Load
  <2>11. QED
    BY <1>1, <1>2, <2>8, <2>9, <2>10, LoadTyped
<1>11. QED
  BY <1>1, <1>7, <1>8, <1>9, <1>10, LocationSlots

\* LD of a name loads what the name denotes.
LEMMA LdMoves ==
  ASSUME IInv, IInv', Dispatch("LD", 0), NEW loc \in Locations, Ld(loc)
  PROVE  \/ Unseen /\ status' # "run"
         \/ Machine!Load(Named(loc)) /\ Machine!Next
<1>1. /\ TypeInv /\ FrameInv /\ status = "run" /\ ip.place # 0 /\ 0 <= Last(depth)
      /\ Executing
  BY Dispatched DEF Executing
<1>2. ~BadSlot(Slot(loc))
  BY <1>1, SlotBounds
<1>3. PICK v \in Values :
        v = Load(loc) /\ v = Machine!Read(Machine!Running, Named(loc))
  BY <1>1, NamedRead
<1>4. PICK m : Rewrite(0, <<v>>, m)
  BY <1>2, <1>3 DEF Ld
<1>5. <<v>> \in Seq(Values)
  BY OneValue
<1>6. \/ Unseen /\ status' # "run"
      \/ /\ AbsGlobals' = AbsGlobals /\ closures' = closures
         /\ AbsFrames' = Append(Below, Record(ip.fun, ip.place, RunSelf, RunArgs, RunLocals,
                                  SubSeq(Operands, 1, Len(Operands) - 0) \o <<v>>))
  BY <1>1, <1>4, <1>5, RewriteMoves
<1>7. SubSeq(Operands, 1, Len(Operands) - 0) \o <<v>> = Append(Operands, v)
  <2>1. PICK o \in Seq(Values) : o = Operands
    BY <1>1, Lower
  <2>2. PICK r : r = SubSeq(o, 1, Len(o) - 0)
    OBVIOUS
  <2>3. r = o
    <3>1. /\ Len(o) \in Nat /\ r \in Seq(Values) /\ Len(r) = Len(o) - 0
          /\ \A i \in 1..(Len(o) - 0) : r[i] = o[i]
      BY <1>1, <2>1, <2>2, Lower
    <3>2. Len(r) = Len(o) /\ \A i \in 1..Len(r) : r[i] = o[i]
      BY <3>1
    <3>3. QED
      BY <3>1, <3>2, SeqEqual
  <2>4. o \o <<v>> = Append(o, v)
    BY AppendIsConcat
  <2>5. QED
    BY <2>1, <2>2, <2>3, <2>4
<1>8. CASE ~(Unseen /\ status' # "run")
  <2>1. /\ AbsGlobals' = AbsGlobals /\ closures' = closures
        /\ AbsFrames' = Append(Below, Record(ip.fun, ip.place, RunSelf, RunArgs, RunLocals,
                                             Append(Operands, v)))
    BY <1>6, <1>7, <1>8
  <2>2. PICK r : r = Machine!Running
    OBVIOUS
  <2>3. r = RunRecord /\ Machine!Callers = Below
    BY <1>1, <2>2, RunningSeen DEF RecordsRunning
  <2>4. r.temps = Operands /\ r.at = ip.place
    BY <2>3 DEF RunRecord, Record
  <2>5. [r EXCEPT !.temps = Append(Operands, v)] =
          Record(ip.fun, ip.place, RunSelf, RunArgs, RunLocals, Append(Operands, v))
    <3>1. PICK t : t = Append(Operands, v)
      OBVIOUS
    <3>2. [r EXCEPT !.temps = t] = Record(ip.fun, ip.place, RunSelf, RunArgs, RunLocals, t)
      BY <2>3 DEF RunRecord, Record
    <3>3. QED
      BY <3>1, <3>2
  <2>6. AbsFrames' = Append(Machine!Callers, [r EXCEPT !.temps = Append(r.temps, v)])
    BY <2>1, <2>3, <2>4, <2>5
  <2>7. Machine!Load(Named(loc))
    BY <1>3, <2>1, <2>2, <2>6 DEF Machine!Load, AbsGlobals
  <2>8. Machine!Next
    BY <1>1, <2>2, <2>4, <2>7, NamedRead, RunningSeen DEF Machine!Next, RecordsRunning
  <2>9. QED
    BY <2>7, <2>8
<1>9. QED
  BY <1>8

\* An LD of any name is a step of FrameMachine or a failure.
LEMMA LoadNameMoves == IInv /\ IInv' /\ LoadName => Machine!Next \/ Unseen
BY LdMoves DEF LoadName

\* A store into a slot of the stack changes the variable that the name
\* denotes and no other.
LEMMA SlotWritten ==
  ASSUME Executing, Executing', NEW loc \in Locations, loc[1] # "C", NEW v,
         vstack' = [vstack EXCEPT ![Slot(loc)] = v], cstack' = cstack, ip' = ip
  PROVE  /\ RunSelf' = RunSelf /\ Operands' = Operands
         /\ AbsGlobals' = IF loc[1] = "G" THEN [AbsGlobals EXCEPT ![loc[2] + 1] = v]
                                          ELSE AbsGlobals
         /\ RunLocals' = IF loc[1] = "L" THEN [RunLocals EXCEPT ![loc[2] + 1] = v]
                                         ELSE RunLocals
         /\ RunArgs' = IF loc[1] = "A" THEN [RunArgs EXCEPT ![loc[2] + 1] = v]
                                       ELSE RunArgs
         /\ AbsFrames' = Append(Below, RunRecord')
<1>1. TypeInv /\ FrameInv /\ ip.place # 0
  BY DEF Executing
<1>2. PICK f \in Nat, n \in Nat, a \in Nat, g \in Nat, st \in Nat, l \in Nat, b \in BOOLEAN :
        /\ f = frame_pointer /\ n = nlocals /\ a = nargs /\ g = NGlobals
        /\ st = FrameStart /\ b = is_closure /\ l = Len(vstack)
  <2>1. /\ Fun \in [nargs : Nat, nlocals : Nat, ncaptured : Nat]
        /\ frame_pointer \in Nat /\ nargs = Fun.nargs /\ nlocals = Fun.nlocals
        /\ is_closure \in BOOLEAN /\ FrameStart \in Nat /\ Len(vstack) \in Nat
    BY <1>1, Running
  <2>2. QED
    BY <2>1, SizesTyped
<1>3. /\ g + 2 <= f /\ st + a <= f /\ f + n <= l
      /\ ip.fun # "main" => g + 2 <= st /\ Begun # 1
      /\ b => f = st + a + 1
  <2>1. /\ NGlobals + 2 <= frame_pointer /\ FrameStart + nargs <= frame_pointer
        /\ frame_pointer + nlocals <= Len(vstack)
    BY <1>1, FrameAbove, OperandsSeen
  <2>2. ip.fun # "main" => NGlobals + 2 <= FrameStart /\ Begun > 1 /\ Begun \in Nat
    BY <1>1, Running
  <2>3. is_closure => frame_pointer = FrameStart + nargs + 1
    BY <1>1, Running
  <2>4. QED
    BY <1>2, <2>1, <2>2, <2>3
<1>4. PICK s, i : s = Slot(loc) /\ i = loc[2]
  OBVIOUS
<1>5. \/ loc[1] = "G" /\ i \in 0..(g - 1) /\ s = g + 1 - i
      \/ loc[1] = "L" /\ i \in 0..(n - 1) /\ s = f + n - i
      \/ loc[1] = "A" /\ i \in 0..(a - 1) /\ s = f - (a - 1 - i) /\ ip.fun # "main"
  BY <1>1, <1>2, <1>4, LocationSlots
<1>6. s \in 1..l
  BY <1>1, <1>2, <1>4, SlotBounds
<1>7. PICK w : w = vstack'
  OBVIOUS
<1>8. /\ vstack \in Seq(Values) /\ Len(w) = l
      /\ \A p \in 1..l : w[p] = IF p = s THEN v ELSE vstack[p]
  BY <1>1, <1>2, <1>4, <1>6, <1>7 DEF TypeInv, TypeOK
<1>9. \A p \in (g + 3)..st : w[p] = vstack[p]
  <2>1. loc[1] # "G" => s > st
    BY <1>3, <1>5
  <2>2. loc[1] = "G" => s < g + 3
    BY <1>5
  <2>3. \A p \in (g + 3)..st : p \in 1..l /\ p # s
    BY <1>3, <1>5, <1>6, <2>1, <2>2
  <2>4. QED
    BY <1>8, <2>3
<1>10. /\ frame_pointer' = f /\ nlocals' = n /\ nargs' = a /\ is_closure' = b
       /\ closure_loc' = closure_loc /\ Begun' = Begun
       /\ AbsFrames' = Append(Below, RunRecord')
  BY <1>2, <1>7, <1>9, OwnMoves
<1>11. RunSelf' = RunSelf
  <2>1. CASE b
    <3>1. closure_loc = f - a /\ f - a \in 1..l
      BY <1>2, <1>3, <2>1 DEF closure_loc
    <3>2. s # closure_loc
      BY <1>1, <1>2, <1>4, <2>1, SlotBounds
    <3>3. w[f - a] = vstack[f - a]
      BY <1>8, <3>1, <3>2
    <3>4. QED
      BY <1>2, <1>7, <1>10, <2>1, <3>1, <3>3 DEF RunSelf
  <2>2. CASE ~b
    BY <1>2, <1>10, <2>2 DEF RunSelf, ClosureValue
  <2>3. QED
    BY <2>1, <2>2
<1>12. Operands' = Operands
  <2>1. s <= f + n
    BY <1>3, <1>5
  <2>2. \A p \in (f + n + 1)..l : p \in 1..l /\ p # s
    BY <1>6, <2>1
  <2>3. \A p \in (f + n + 1)..l : w[p] = vstack[p]
    BY <1>8, <2>2
  <2>4. f + n + 1 \in Int /\ l \in Int
    OBVIOUS
  <2>5. SubSeq(w, f + n + 1, l) = SubSeq(vstack, f + n + 1, l)
    BY <2>3, <2>4, SameStretch
  <2>6. QED
    BY <1>2, <1>7, <1>8, <1>10, <2>5 DEF Operands
<1>13. AbsGlobals' = IF loc[1] = "G" THEN [AbsGlobals EXCEPT ![i + 1] = v] ELSE AbsGlobals
  <2>1. \A j \in 1..g : global(j - 1) = g + 2 - j /\ g + 2 - j \in 1..l
    BY <1>2, <1>3 DEF global
  <2>2. AbsGlobals = [j \in 1..g |-> vstack[g + 2 - j]]
    BY <1>2, <2>1 DEF AbsGlobals
  <2>3. AbsGlobals' = [j \in 1..g |-> w[g + 2 - j]]
    BY <1>2, <1>7, <2>1 DEF AbsGlobals, global
  <2>4. \A j \in 1..g : w[g + 2 - j] = IF g + 2 - j = s THEN v ELSE vstack[g + 2 - j]
    BY <1>8, <2>1
  <2>5. CASE loc[1] = "G"
    <3>1. i + 1 \in 1..g /\ \A j \in 1..g : g + 2 - j = s <=> j = i + 1
      BY <1>5, <2>5
    <3>2. QED
      BY <2>2, <2>3, <2>4, <2>5, <3>1
  <2>6. CASE loc[1] # "G"
    <3>1. s > g + 1
      BY <1>3, <1>5, <2>6
    <3>2. \A j \in 1..g : g + 2 - j # s
      BY <1>6, <3>1
    <3>3. QED
      BY <2>2, <2>3, <2>4, <2>6, <3>2
  <2>7. QED
    BY <2>5, <2>6
<1>14. RunLocals' = IF loc[1] = "L" THEN [RunLocals EXCEPT ![i + 1] = v] ELSE RunLocals
  <2>1. \A j \in 1..n : f + n + 1 - j \in 1..l
    BY <1>3
  <2>2. RunLocals = [j \in 1..n |-> vstack[f + n + 1 - j]]
    BY <1>2 DEF RunLocals
  <2>3. RunLocals' = [j \in 1..n |-> w[f + n + 1 - j]]
    BY <1>7, <1>10 DEF RunLocals
  <2>4. \A j \in 1..n : w[f + n + 1 - j] = IF f + n + 1 - j = s THEN v ELSE vstack[f + n + 1 - j]
    BY <1>8, <2>1
  <2>5. CASE loc[1] = "L"
    <3>1. i + 1 \in 1..n /\ \A j \in 1..n : f + n + 1 - j = s <=> j = i + 1
      BY <1>5, <2>5
    <3>2. QED
      BY <2>2, <2>3, <2>4, <2>5, <3>1
  <2>6. CASE loc[1] # "L"
    <3>1. s <= f
      BY <1>3, <1>5, <2>6
    <3>2. \A j \in 1..n : f + n + 1 - j # s
      BY <1>6, <3>1
    <3>3. QED
      BY <2>2, <2>3, <2>4, <2>6, <3>2
  <2>7. QED
    BY <2>5, <2>6
<1>15. RunArgs' = IF loc[1] = "A" THEN [RunArgs EXCEPT ![i + 1] = v] ELSE RunArgs
  <2>1. CASE Begun = 1
    <3>1. loc[1] # "A"
      BY <1>3, <1>5, <2>1
    <3>2. QED
      BY <1>10, <2>1, <3>1 DEF RunArgs
  <2>2. CASE Begun # 1
    <3>1. ArgsRead /\ ArgsRead'
      <4>1. ArgsRead
        BY <2>2, ArgsSeen DEF Inner
      <4>2. Inner'
        BY <1>10, <2>2 DEF Inner
      <4>3. Inner' => ArgsRead'
        BY ArgsSeen, PTL
      <4>4. QED
        BY <4>1, <4>2, <4>3
    <3>2. PICK r, q : r = RunArgs /\ q = RunArgs'
      OBVIOUS
    <3>3. /\ r \in Seq(Values) /\ Len(r) = a /\ \A j \in 1..a : r[j] = vstack[f - a + j]
      BY <1>2, <3>1, <3>2 DEF ArgsRead
    <3>4. /\ q \in Seq(Values') /\ Len(q) = a /\ \A j \in 1..a : q[j] = w[f - a + j]
      BY <1>7, <1>10, <3>1, <3>2 DEF ArgsRead
    <3>5. \A j \in 1..a : f - a + j \in 1..l
      BY <1>3
    <3>6. \A j \in 1..a : q[j] = IF f - a + j = s THEN v ELSE r[j]
      <4>1. ASSUME NEW j \in 1..a PROVE q[j] = IF f - a + j = s THEN v ELSE r[j]
        <5>1. q[j] = w[f - a + j] /\ r[j] = vstack[f - a + j] /\ f - a + j \in 1..l
          BY <3>3, <3>4, <3>5
        <5>2. w[f - a + j] = IF f - a + j = s THEN v ELSE vstack[f - a + j]
          BY <1>8, <5>1
        <5>3. QED
          BY ONLY <5>1, <5>2
      <4>2. QED
        BY <4>1
    <3>7. r = [j \in 1..a |-> r[j]] /\ q = [j \in 1..a |-> q[j]]
      BY <3>3, <3>4
    <3>8. CASE loc[1] = "A"
      <4>1. i + 1 \in 1..a /\ \A j \in 1..a : f - a + j = s <=> j = i + 1
        BY <1>5, <3>8
      <4>2. \A j \in 1..a : q[j] = IF j = i + 1 THEN v ELSE r[j]
        BY <3>6, <4>1
      <4>3. DOMAIN r = 1..a
        BY <3>3
      <4>4. [r EXCEPT ![i + 1] = v] = [j \in 1..a |-> IF j = i + 1 THEN v ELSE r[j]]
        BY <4>3
      <4>5. q = [r EXCEPT ![i + 1] = v]
        BY <3>7, <4>2, <4>4
      <4>6. QED
        BY <3>2, <3>8, <4>5
    <3>9. CASE loc[1] # "A"
      <4>1. CASE loc[1] = "G"
        <5>1. s <= f - a
          <6>1. ip.fun # "main"
            BY <1>1, <2>2, Running
          <6>2. g + 2 <= st
            BY <1>3, <6>1
          <6>3. QED
            BY <1>3, <1>5, <4>1, <6>2
        <5>2. \A j \in 1..a : f - a + j # s
          BY <1>6, <5>1
        <5>3. QED
          BY <3>2, <3>6, <3>7, <3>9, <5>2
      <4>2. CASE loc[1] = "L"
        <5>1. s > f
          BY <1>5, <4>2
        <5>2. \A j \in 1..a : f - a + j # s
          BY <1>6, <5>1
        <5>3. QED
          BY <3>2, <3>6, <3>7, <3>9, <5>2
      <4>3. QED
        BY <1>5, <3>9, <4>1, <4>2
    <3>10. QED
      BY <3>8, <3>9
  <2>3. QED
    BY <2>1, <2>2
<1>16. QED
  BY <1>4, <1>10, <1>11, <1>12, <1>13, <1>14, <1>15

\* ST of a name changes what the name denotes, and nothing else.
LEMMA StMoves ==
  ASSUME IInv, IInv', Dispatch("ST", 1), NEW loc \in Locations, St(loc)
  PROVE  Machine!Store(Named(loc)) /\ Machine!Next
<1>1. /\ TypeInv /\ FrameInv /\ status = "run" /\ ip.place # 0 /\ 1 <= Last(depth)
      /\ Last(depth) \in Nat /\ 1 + 2 <= Len(vstack) /\ Len(vstack) \in Nat
      /\ Executing
  BY Dispatched DEF Executing
<1>2. vstack # << >> /\ ~BadSlot(Slot(loc))
  BY <1>1, SlotBounds
<1>3. PICK r : r = Machine!Running
  OBVIOUS
<1>4. /\ r = RunRecord /\ Machine!Callers = Below /\ AbsFrames = Append(Below, RunRecord)
      /\ AbsFrames # << >>
  BY <1>1, <1>3, RunningSeen DEF RecordsRunning
<1>5. r.temps = Operands /\ r.self = RunSelf /\ r.at = ip.place
  BY <1>4 DEF RunRecord, Record
<1>6. PICK v \in Values : v = Top(0) /\ v = Machine!TopOf(r, 0) /\ r.temps # << >>
  <2>1. 0 < Last(depth)
    BY <1>1
  <2>2. /\ Len(Operands) \in Nat /\ 0 < Len(Operands)
        /\ Top(0) = Operands[Len(Operands) - 0] /\ Top(0) \in Values
    BY <1>1, <2>1, OnTop
  <2>3. Machine!TopOf(r, 0) = Operands[Len(Operands) - 0]
    BY <1>5 DEF Machine!TopOf
  <2>4. Operands # << >>
    BY <2>2
  <2>5. QED
    BY <1>5, <2>2, <2>3, <2>4
<1>7. PICK k, j : k = loc[1] /\ j = loc[2] + 1
  OBVIOUS
<1>8. Named(loc) = <<k, j>>
  BY <1>7 DEF Named
<1>9. /\ AbsGlobals' = IF k = "G" THEN [AbsGlobals EXCEPT ![j] = v] ELSE AbsGlobals
      /\ closures' = IF k = "C" THEN [closures EXCEPT ![r.self.closure].captured[j] = v]
                                ELSE closures
      /\ CASE k = "L" -> AbsFrames' = Append(Below, [r EXCEPT !.locals[j] = v])
           [] k = "A" -> AbsFrames' = Append(Below, [r EXCEPT !.args[j] = v])
           [] OTHER -> AbsFrames' = AbsFrames
  <2>1. CASE k = "C"
    <3>1. /\ closures' = [closures EXCEPT ![vstack[closure_loc].closure].captured[loc[2] + 1] =
                            Top(0)]
          /\ vstack' = vstack /\ cstack' = cstack /\ ip' = ip
      BY <1>2, <1>7, <2>1 DEF St
    <3>2. AbsFrames' = AbsFrames /\ AbsGlobals' = AbsGlobals
      BY <3>1, StacksKept
    <3>3. is_closure
      BY <1>1, <1>7, <2>1, LocationSlots
    <3>4. r.self = vstack[closure_loc]
      BY <1>5, <3>3 DEF RunSelf
    <3>5. QED
      BY <1>6, <1>7, <2>1, <3>1, <3>2, <3>4
  <2>2. CASE k # "C"
    <3>1. /\ vstack' = [vstack EXCEPT ![Slot(loc)] = v] /\ cstack' = cstack
          /\ closures' = closures /\ ip' = ip /\ status' = status
      BY <1>2, <1>6, <1>7, <2>2 DEF St
    <3>2. Executing'
      BY <1>1, <3>1 DEF Executing, IInv
    <3>3. /\ RunSelf' = RunSelf /\ Operands' = Operands
          /\ AbsGlobals' = IF k = "G" THEN [AbsGlobals EXCEPT ![j] = v] ELSE AbsGlobals
          /\ RunLocals' = IF k = "L" THEN [RunLocals EXCEPT ![j] = v] ELSE RunLocals
          /\ RunArgs' = IF k = "A" THEN [RunArgs EXCEPT ![j] = v] ELSE RunArgs
          /\ AbsFrames' = Append(Below, RunRecord')
      BY <1>1, <1>7, <2>2, <3>1, <3>2, SlotWritten
    <3>4. PICK f, at, self, args, locals, temps :
            /\ f = ip.fun /\ at = ip.place /\ self = RunSelf /\ args = RunArgs
            /\ locals = RunLocals /\ temps = Operands
      OBVIOUS
    <3>5. r = Record(f, at, self, args, locals, temps)
      BY <1>4, <3>4 DEF RunRecord
    <3>6. CASE k = "L"
      <4>1. RunRecord' = Record(f, at, self, args, [locals EXCEPT ![j] = v], temps)
        BY <3>1, <3>3, <3>4, <3>6 DEF RunRecord, Record
      <4>2. [r EXCEPT !.locals[j] = v] = Record(f, at, self, args, [locals EXCEPT ![j] = v], temps)
        BY <3>5 DEF Record
      <4>3. QED
        BY <3>1, <3>3, <3>6, <4>1, <4>2
    <3>7. CASE k = "A"
      <4>1. RunRecord' = Record(f, at, self, [args EXCEPT ![j] = v], locals, temps)
        BY <3>1, <3>3, <3>4, <3>7 DEF RunRecord, Record
      <4>2. [r EXCEPT !.args[j] = v] = Record(f, at, self, [args EXCEPT ![j] = v], locals, temps)
        BY <3>5 DEF Record
      <4>3. QED
        BY <3>1, <3>3, <3>7, <4>1, <4>2
    <3>8. CASE k # "L" /\ k # "A"
      <4>1. RunRecord' = RunRecord
        BY <3>1, <3>3, <3>8 DEF RunRecord, Record
      <4>2. AbsFrames' = AbsFrames
        BY <1>4, <3>3, <4>1
      <4>3. QED
        BY <2>2, <3>1, <3>3, <3>8, <4>2
    <3>9. QED
      BY <3>6, <3>7, <3>8
  <2>3. QED
    BY <2>1, <2>2
<1>10. Machine!Store(<<k, j>>)
  BY <1>3, <1>4, <1>6, <1>9 DEF Machine!Store, AbsGlobals
<1>11. Machine!Store(Named(loc))
  BY <1>8, <1>10
<1>12. Machine!Next
  <2>1. Named(loc) \in Machine!Locations(Machine!Running)
    BY <1>1, NamedRead
  <2>2. Machine!Running.at # 0
    BY <1>1, <1>3, <1>5
  <2>3. QED
    BY <1>4, <1>11, <2>1, <2>2 DEF Machine!Next
<1>13. QED
  BY <1>11, <1>12

\* An ST of any name is a step of FrameMachine.
LEMMA StoreNameMoves == IInv /\ IInv' /\ StoreName => Machine!Next \/ Unseen
BY StMoves DEF StoreName

\* A push is a push on the operands.
LEMMA Pushed ==
  ASSUME Executing, Executing', cstack' = cstack, ip' = ip,
         NEW x, vstack' = Append(vstack, x)
  PROVE  /\ AbsGlobals' = AbsGlobals
         /\ AbsFrames' = Append(Below, Record(ip.fun, ip.place, RunSelf, RunArgs, RunLocals,
                                              Append(Operands, x)))
<1>1. /\ frame_pointer \in Nat /\ nlocals \in Nat /\ Len(vstack) \in Nat
      /\ frame_pointer + nlocals <= Len(vstack)
      /\ Operands \in Seq(Values)
      /\ Len(Operands) = Len(vstack) - (frame_pointer + nlocals)
      /\ \A i \in 1..Len(Operands) : Operands[i] = vstack[frame_pointer + nlocals + i]
      /\ vstack \in Seq(Values)
  BY OperandsSeen DEF Executing, TypeInv, TypeOK
<1>2. PICK b \in Nat, l \in Nat : b = frame_pointer + nlocals /\ l = Len(vstack) /\ b <= l
  <2>1. frame_pointer + nlocals \in Nat
    BY <1>1
  <2>2. QED
    BY <1>1, <2>1
<1>3. PICK S : S = Values \cup {x}
  OBVIOUS
<1>4. PICK o : o = Operands
  OBVIOUS
<1>5. /\ o \in Seq(S) /\ Len(o) = l - b /\ x \in S
      /\ \A i \in 1..(l - b) : o[i] = vstack[b + i]
      /\ vstack \in Seq(S)
  <2>1. Values \subseteq S /\ x \in S
    BY <1>3
  <2>2. o \in Seq(S) /\ vstack \in Seq(S)
    BY <1>1, <1>4, <2>1, SeqMonotonic
  <2>3. QED
    BY <1>1, <1>2, <1>4, <2>1, <2>2
<1>6. PICK w : w = vstack'
  OBVIOUS
<1>7. /\ w \in Seq(S) /\ Len(w) = l + 1 /\ w[l + 1] = x
      /\ \A i \in 1..l : w[i] = vstack[i]
  BY <1>2, <1>5, <1>6, AppendProperties
<1>8. \A p \in 1..(frame_pointer + nlocals) : vstack'[p] = vstack[p]
  <2>1. \A p \in 1..b : p \in 1..l
    BY <1>2
  <2>2. QED
    BY <1>2, <1>6, <1>7, <2>1
<1>9. /\ AbsGlobals' = AbsGlobals
      /\ AbsFrames' = Append(Below, Record(ip.fun, ip'.place, RunSelf, RunArgs, RunLocals,
                                           Operands'))
      /\ Operands' = SubSeq(vstack', frame_pointer + nlocals + 1, Len(vstack'))
  BY <1>8, OperandsMove
<1>10. PICK e \in Nat, m \in Nat \ {0} : e = l + 1 /\ m = b + 1
  OBVIOUS
<1>11. PICK q : q = SubSeq(w, m, e)
  OBVIOUS
<1>12. /\ q \in Seq(S) /\ Len(q) = l + 1 - b
       /\ \A i \in 1..(l + 1 - b) : q[i] = w[b + i]
  <2>1. m <= e + 1 /\ e <= Len(w)
    BY <1>2, <1>7, <1>10
  <2>2. /\ SubSeq(w, m, e) \in Seq(S) /\ Len(SubSeq(w, m, e)) = e - m + 1
        /\ \A i \in 1..(e - m + 1) : SubSeq(w, m, e)[i] = w[m + i - 1]
    BY <1>7, <2>1, Stretch
  <2>3. e - m + 1 = l + 1 - b /\ \A i \in 1..(l + 1 - b) : m + i - 1 = b + i
    BY <1>10
  <2>4. QED
    BY <1>11, <2>2, <2>3
<1>13. PICK a : a = Append(o, x)
  OBVIOUS
<1>14. /\ a \in Seq(S) /\ Len(a) = l - b + 1 /\ a[l - b + 1] = x
       /\ \A i \in 1..(l - b) : a[i] = o[i]
  <2>1. o \in Seq(S) /\ x \in S
    BY <1>5
  <2>2. /\ Append(o, x) \in Seq(S) /\ Len(Append(o, x)) = Len(o) + 1
        /\ Append(o, x)[Len(o) + 1] = x
        /\ \A i \in 1..Len(o) : Append(o, x)[i] = o[i]
    BY ONLY <2>1, AppendView
  <2>3. QED
    BY <1>5, <1>13, <2>2
<1>15. ASSUME NEW i \in 1..Len(q) PROVE q[i] = a[i]
  <2>1. i \in 1..(l + 1 - b)
    BY <1>12
  <2>2. CASE i = l - b + 1
    <3>1. b + i = l + 1
      BY <2>2
    <3>2. QED
      BY <1>7, <1>12, <1>14, <2>1, <2>2, <3>1
  <2>3. CASE i # l - b + 1
    <3>1. i \in 1..(l - b) /\ b + i \in 1..l
      BY <1>2, <2>1, <2>3
    <3>2. QED
      BY <1>5, <1>7, <1>12, <1>14, <2>1, <3>1
  <2>4. QED
    BY <2>2, <2>3
<1>16. q = a
  <2>1. Len(q) = Len(a)
    BY <1>2, <1>12, <1>14
  <2>2. QED
    BY <1>12, <1>14, <1>15, <2>1, SeqEqual
<1>17. Operands' = Append(Operands, x)
  BY <1>2, <1>4, <1>6, <1>7, <1>9, <1>10, <1>11, <1>13, <1>16
<1>18. QED
  BY <1>9, <1>17

\* CLOSURE makes a closure of the values its names denote.
LEMMA ClosureMoves == IInv /\ IInv' /\ Closure => Machine!Next \/ Unseen
<1> SUFFICES ASSUME IInv, IInv', Closure PROVE Machine!Next \/ Unseen
  OBVIOUS
<1>1. Dispatch("CLOSURE", 0)
  BY DEF Closure
<1> DEFINE Made(f, locs) ==
        IF Overflow(Funs[f].ncaptured + 1) THEN Fail("overflow")
        ELSE IF \E i \in DOMAIN locs : BadSlot(Slot(locs[i]))
          THEN \E i \in DOMAIN locs : /\ BadSlot(Slot(locs[i]))
                                      /\ Fail(Blame(Slot(locs[i])))
        ELSE /\ closures' = Append(closures, [fun |-> f,
                               captured |-> [i \in DOMAIN locs |-> Load(locs[i])]])
             /\ vstack' = Append(vstack, ClosureValue(Len(closures) + 1))
             /\ depth' = Counted(Last(depth) + 1)
             /\ UNCHANGED <<cstack, ip, status>>
<1>2. PICK f \in DOMAIN Funs \ {"main"} :
        \E locs \in [1..Funs[f].ncaptured -> Locations] : Made(f, locs)
  BY DEF Closure
<1>3. PICK locs \in [1..Funs[f].ncaptured -> Locations] : Made(f, locs)
  BY <1>2
<1>4. TypeInv /\ FrameInv /\ status = "run" /\ ip.place # 0 /\ Executing
  BY <1>1, Dispatched DEF Executing
<1>5. /\ DOMAIN locs = 1..Funs[f].ncaptured
      /\ \A i \in DOMAIN locs : locs[i] \in Locations /\ ~BadSlot(Slot(locs[i]))
  BY <1>4, SlotBounds
<1>6. CASE Overflow(Funs[f].ncaptured + 1)
  BY <1>3, <1>6, FailHidden
<1>7. CASE ~Overflow(Funs[f].ncaptured + 1)
  <2>1. PICK x : x = ClosureValue(Len(closures) + 1)
    OBVIOUS
  <2>2. /\ closures' = Append(closures, [fun |-> f,
                         captured |-> [i \in DOMAIN locs |-> Load(locs[i])]])
        /\ vstack' = Append(vstack, x) /\ cstack' = cstack /\ ip' = ip /\ status' = status
    BY <1>3, <1>5, <1>7, <2>1
  <2> HIDE DEF Made
  <2>3. Executing'
    BY <1>4, <2>2 DEF Executing, IInv
  <2>4. /\ AbsGlobals' = AbsGlobals
        /\ AbsFrames' = Append(Below, Record(ip.fun, ip.place, RunSelf, RunArgs, RunLocals,
                                             Append(Operands, x)))
    BY <1>4, <2>2, <2>3, Pushed
  <2>5. PICK r : r = Machine!Running
    OBVIOUS
  <2>6. r = RunRecord /\ Machine!Callers = Below /\ AbsFrames # << >>
    BY <1>4, <2>5, RunningSeen DEF RecordsRunning
  <2>7. r.temps = Operands /\ r.at = ip.place
    BY <2>6 DEF RunRecord, Record
  <2>8. [r EXCEPT !.temps = Append(Operands, x)] =
          Record(ip.fun, ip.place, RunSelf, RunArgs, RunLocals, Append(Operands, x))
    <3>1. PICK t : t = Append(Operands, x)
      OBVIOUS
    <3>2. [r EXCEPT !.temps = t] = Record(ip.fun, ip.place, RunSelf, RunArgs, RunLocals, t)
      BY <2>6 DEF RunRecord, Record
    <3>3. QED
      BY <3>1, <3>2
  <2>9. AbsFrames' = Append(Machine!Callers, [r EXCEPT !.temps = Append(r.temps, x)])
    BY <2>4, <2>6, <2>7, <2>8
  <2>10. PICK named : named = [i \in DOMAIN locs |-> Named(locs[i])]
    OBVIOUS
  <2>11. /\ named \in [1..Funs[f].ncaptured -> Machine!Locations(r)]
         /\ DOMAIN named = DOMAIN locs
         /\ \A i \in DOMAIN locs : Machine!Read(r, named[i]) = Load(locs[i])
    <3>1. \A i \in DOMAIN locs : /\ Named(locs[i]) \in Machine!Locations(r)
                                 /\ Machine!Read(r, Named(locs[i])) = Load(locs[i])
      BY <1>4, <1>5, <2>5, NamedRead
    <3>2. QED
      BY <1>5, <2>10, <3>1
  <2>12. [i \in DOMAIN locs |-> Load(locs[i])] =
           [i \in DOMAIN named |-> Machine!Read(r, named[i])]
    BY <2>11
  <2>13. closures' = Append(closures, [fun |-> f,
                       captured |-> [i \in DOMAIN named |-> Machine!Read(r, named[i])]])
    BY <2>2, <2>12
  <2>14. x = Machine!ClosureValue(Len(closures) + 1)
    BY <2>1 DEF ClosureValue, Machine!ClosureValue
  <2> DEFINE To(h, i) ==
        /\ \E g \in DOMAIN Funs :
             \E caps \in [1..Funs[g].ncaptured -> Machine!Locations(h)] :
               closures' = Append(closures, [fun |-> g,
                             captured |-> [j \in DOMAIN caps |-> Machine!Read(h, caps[j])]])
        /\ AbsFrames' = Append(Machine!Callers,
                               [h EXCEPT !.temps = Append(@, Machine!ClosureValue(i))])
        /\ UNCHANGED [i_1 \in 1..NGlobals |-> vstack[global(i_1 - 1)]]
  <2>15. Machine!MakeClosure
    <3>1. To(r, Len(closures) + 1)
      <4>1. f \in DOMAIN Funs
        OBVIOUS
      <4>2. AbsFrames' = Append(Machine!Callers, [r EXCEPT !.temps = Append(r.temps,
                                               Machine!ClosureValue(Len(closures) + 1))])
        BY <2>9, <2>14
      <4>3. UNCHANGED [i_1 \in 1..NGlobals |-> vstack[global(i_1 - 1)]]
        BY <2>4 DEF AbsGlobals
      <4>4. QED
        BY <2>11, <2>13, <4>1, <4>2, <4>3
    <3>2. To(Machine!Running, Len(closures) + 1) => Machine!MakeClosure
      BY DEF Machine!MakeClosure
    <3> HIDE DEF To
    <3>3. QED
      BY <2>5, <3>1, <3>2
  <2>16. QED
    BY <1>4, <2>5, <2>6, <2>7, <2>15 DEF Machine!Next
<1>8. QED
  BY <1>6, <1>7

---------------------------------------------------------------------------
(***************************************************************************)
(* Calls, entries and returns.                                             *)
(***************************************************************************)

\* A part of what lies above b.
LEMMA PartAbove ==
  ASSUME NEW S, NEW s \in Seq(S), NEW b \in Nat, b <= Len(s),
         NEW i \in Nat \ {0}, NEW j \in Nat, i <= j + 1, j <= Len(s) - b
  PROVE  SubSeq(SubSeq(s, b + 1, Len(s)), i, j) = SubSeq(s, b + i, b + j)
<1>1. PICK l \in Nat : l = Len(s)
  OBVIOUS
<1>2. PICK t : t = SubSeq(s, b + 1, l)
  OBVIOUS
<1>3. PICK m \in Nat \ {0} : m = b + 1
  OBVIOUS
<1>4. t \in Seq(S) /\ Len(t) = l - b /\ \A k \in 1..(l - b) : t[k] = s[b + k]
  <2>1. m <= l + 1 /\ l <= Len(s) /\ s \in Seq(S)
    BY <1>1, <1>3
  <2>2. /\ SubSeq(s, m, l) \in Seq(S) /\ Len(SubSeq(s, m, l)) = l - m + 1
        /\ \A k \in 1..(l - m + 1) : SubSeq(s, m, l)[k] = s[m + k - 1]
    BY ONLY <2>1, m \in Nat \ {0}, l \in Nat, Stretch
  <2>3. l - m + 1 = l - b /\ \A k \in 1..(l - b) : m + k - 1 = b + k
    BY <1>3
  <2>4. QED
    BY <1>2, <1>3, <2>2, <2>3
<1>5. PICK x, y : x = SubSeq(t, i, j) /\ y = SubSeq(s, b + i, b + j)
  OBVIOUS
<1>6. /\ x \in Seq(S) /\ Len(x) = j - i + 1
      /\ \A k \in 1..(j - i + 1) : x[k] = t[i + k - 1]
  <2>1. j <= Len(t)
    BY <1>1, <1>4
  <2>2. t \in Seq(S) /\ i <= j + 1 /\ j <= Len(t)
    BY <1>4, <2>1
  <2>3. /\ SubSeq(t, i, j) \in Seq(S) /\ Len(SubSeq(t, i, j)) = j - i + 1
        /\ \A k \in 1..(j - i + 1) : SubSeq(t, i, j)[k] = t[i + k - 1]
    BY ONLY <2>2, i \in Nat \ {0}, j \in Nat, Stretch
  <2>4. QED
    BY <1>5, <2>3
<1>7. /\ y \in Seq(S) /\ Len(y) = j - i + 1
      /\ \A k \in 1..(j - i + 1) : y[k] = s[b + i + k - 1]
  <2>1. PICK u \in Nat \ {0}, v \in Nat : u = b + i /\ v = b + j
    OBVIOUS
  <2>2. u <= v + 1 /\ v <= Len(s)
    BY <1>1, <2>1
  <2>3. /\ SubSeq(s, u, v) \in Seq(S) /\ Len(SubSeq(s, u, v)) = v - u + 1
        /\ \A k \in 1..(v - u + 1) : SubSeq(s, u, v)[k] = s[u + k - 1]
    BY <2>2, Stretch
  <2>4. v - u + 1 = j - i + 1
    BY <2>1
  <2>5. QED
    BY <1>5, <2>1, <2>3, <2>4
<1>8. ASSUME NEW k \in 1..Len(x) PROVE x[k] = y[k]
  <2>1. k \in 1..(j - i + 1)
    BY <1>6
  <2>2. i + k - 1 \in 1..(l - b) /\ b + (i + k - 1) = b + i + k - 1
    BY <1>1, <2>1
  <2>3. t[i + k - 1] = s[b + i + k - 1]
    BY <1>4, <2>2
  <2>4. QED
    BY <1>6, <1>7, <2>1, <2>3
<1>9. Len(x) = Len(y)
  BY <1>6, <1>7
<1>10. x = y
  BY <1>6, <1>7, <1>8, <1>9, SeqEqual
<1>11. QED
  BY <1>1, <1>2, <1>5, <1>10

\* Two members added to a sequence.
LEMMA TwoMore ==
  ASSUME NEW S, NEW s \in Seq(S), NEW x \in S, NEW y \in S
  PROVE  /\ Append(Append(s, x), y) = s \o <<x, y>>
         /\ Len(s) \in Nat /\ Len(Append(Append(s, x), y)) = Len(s) + 2
         /\ Append(Append(s, x), y)[Len(s) + 1] = x
         /\ Append(Append(s, x), y)[Len(s) + 2] = y
<1>1. PICK l \in Nat : l = Len(s)
  OBVIOUS
<1>2. PICK t : t = Append(s, x)
  OBVIOUS
<1>3. t \in Seq(S) /\ Len(t) = l + 1 /\ t[l + 1] = x /\ \A k \in 1..l : t[k] = s[k]
  BY <1>1, <1>2, AppendProperties
<1>4. PICK a, p, c : a = Append(t, y) /\ p = <<x, y>> /\ c = s \o p
  OBVIOUS
<1>5. /\ a \in Seq(S) /\ Len(a) = l + 2 /\ a[l + 1] = x /\ a[l + 2] = y
      /\ \A k \in 1..l : a[k] = s[k]
  <2>1. /\ a \in Seq(S) /\ Len(a) = Len(t) + 1 /\ a[Len(t) + 1] = y
        /\ \A k \in 1..Len(t) : a[k] = t[k]
    BY <1>3, <1>4, AppendProperties
  <2>2. l + 1 \in 1..Len(t) /\ Len(t) + 1 = l + 2 /\ \A k \in 1..l : k \in 1..Len(t)
    BY <1>3
  <2>3. QED
    BY <1>3, <2>1, <2>2
<1>6. p \in Seq(S) /\ Len(p) = 2 /\ p[1] = x /\ p[2] = y
  BY <1>4
<1>7. /\ c \in Seq(S) /\ Len(c) = l + 2 /\ c[l + 1] = x /\ c[l + 2] = y
      /\ \A k \in 1..l : c[k] = s[k]
  <2>0. s \in Seq(S) /\ p \in Seq(S)
    BY <1>6
  <2>1. /\ s \o p \in Seq(S) /\ Len(s \o p) = Len(s) + Len(p)
        /\ \A i \in 1..Len(s) : (s \o p)[i] = s[i]
        /\ \A i \in 1..Len(p) : (s \o p)[Len(s) + i] = p[i]
    BY ONLY <2>0, Appended
  <2>2. 1 \in 1..Len(p) /\ 2 \in 1..Len(p)
    BY <1>6
  <2>3. QED
    BY <1>1, <1>4, <1>6, <2>1, <2>2
<1>8. ASSUME NEW k \in 1..Len(a) PROVE a[k] = c[k]
  <2>1. k \in 1..l \/ k = l + 1 \/ k = l + 2
    <3>1. k \in 1..(l + 2)
      BY <1>5
    <3>2. QED
      BY ONLY <3>1, l \in Nat
  <2>2. QED
    BY <1>5, <1>7, <2>1
<1>9. a = c
  BY <1>5, <1>7, <1>8, SeqEqual
<1>10. QED
  BY <1>1, <1>2, <1>4, <1>5, <1>9

\* A call adds two words to the call stack.
LEMMA CallWords ==
  ASSUME Executing, NEW closure, NEW p, cstack' = cstack \o <<closure, p>>
  PROVE  /\ Begun' = Begun /\ Calling'
         /\ \A k \in 1..Begun : /\ Flag(k)' = Flag(k) /\ Ret(k)' = Ret(k)
                                /\ Fp(k)' = Fp(k) /\ NArgs(k)' = NArgs(k)
                                /\ NLocals(k)' = NLocals(k) /\ Start(k)' = Start(k)
         /\ Flag(Begun + 1)' = closure /\ Ret(Begun + 1)' = p
<1>1. PICK B \in Nat \ {0} : B = Begun /\ Len(cstack) = 5 * B
  BY Running DEF Executing
<1>2. PICK S : S = Words \cup {closure, p}
  OBVIOUS
<1>3. PICK w : w = <<closure, p>>
  OBVIOUS
<1>4. w \in Seq(S) /\ Len(w) = 2 /\ w[1] = closure /\ w[2] = p
  BY <1>2, <1>3
<1>5. cstack \in Seq(S)
  <2>1. cstack \in Seq(Words) /\ Words \subseteq S
    BY <1>2 DEF Executing, TypeInv
  <2>2. QED
    BY <2>1, SeqMonotonic
<1>6. /\ cstack \o w \in Seq(S) /\ Len(cstack \o w) = Len(cstack) + Len(w)
      /\ \A i \in 1..Len(cstack) : (cstack \o w)[i] = cstack[i]
      /\ \A i \in 1..Len(w) : (cstack \o w)[Len(cstack) + i] = w[i]
  <2>1. cstack \in Seq(S) /\ w \in Seq(S)
    BY <1>4, <1>5
  <2>2. QED
    BY ONLY <2>1, Appended
<1>7. /\ Len(cstack') = 5 * B + 2
      /\ \A i \in 1..(5 * B) : cstack'[i] = cstack[i]
      /\ cstack'[5 * B + 1] = closure /\ cstack'[5 * B + 2] = p
  <2>1. 1 \in 1..Len(w) /\ 2 \in 1..Len(w)
    BY <1>4
  <2>2. QED
    BY <1>1, <1>3, <1>4, <1>6, <2>1
<1>8. (5 * B + 2) \div 5 = B /\ (5 * B + 2) % 5 = 2
  OBVIOUS
<1>9. Begun' = B /\ Calling'
  BY <1>7, <1>8 DEF Begun, Calling
<1>10. 5 * (B + 1) - 4 = 5 * B + 1 /\ 5 * (B + 1) - 3 = 5 * B + 2
  OBVIOUS
<1>11. Flag(B + 1)' = closure /\ Ret(B + 1)' = p
  BY <1>7, <1>10 DEF Flag, Ret
<1>12. \A k \in 1..B : /\ Flag(k)' = Flag(k) /\ Ret(k)' = Ret(k)
                       /\ Fp(k)' = Fp(k) /\ NArgs(k)' = NArgs(k)
                       /\ NLocals(k)' = NLocals(k) /\ Start(k)' = Start(k)
  BY <1>7, FramesBelow
<1>13. QED
  BY <1>1, <1>9, <1>11, <1>12

\* The records after the transfer to f of n operands: the caller will go on at
\* s without them, and the callee has the arguments among them.
LEMMA TransferSeen ==
  ASSUME Executing, Waiting', NEW f \in DOMAIN Funs \ {"main"},
         NEW closure \in BOOLEAN, NEW n \in Nat, n <= Last(depth),
         n = Funs[f].nargs + (IF closure THEN 1 ELSE 0), NEW s,
         cstack' = cstack \o <<closure, [fun |-> ip.fun, place |-> s]>>,
         ip' = Entry(f), vstack' = vstack
  PROVE  /\ AbsFrames' = Append(Append(Below,
                Record(ip.fun, s, RunSelf, RunArgs, RunLocals,
                       SubSeq(Operands, 1, Len(Operands) - n))), AbsCall')
         /\ AbsCall' = Record(f, 0, IF closure THEN Top(Funs[f].nargs) ELSE ClosureValue(0),
                SubSeq(Operands, Len(Operands) - Funs[f].nargs + 1, Len(Operands)),
                << >>, << >>)
         /\ AbsGlobals' = AbsGlobals
<1>1. TypeInv /\ FrameInv /\ ip.place # 0
  BY DEF Executing
<1>2. PICK a \in Nat : a = Funs[f].nargs
  BY FunsTyped
<1>3. PICK B \in Nat \ {0} : B = Begun /\ Len(depth) = B
  BY <1>1, Running
<1>4. PICK p : p = [fun |-> ip.fun, place |-> s]
  OBVIOUS
<1>5. /\ Begun' = B /\ Calling'
      /\ \A k \in 1..B : /\ Flag(k)' = Flag(k) /\ Ret(k)' = Ret(k)
                         /\ Fp(k)' = Fp(k) /\ NArgs(k)' = NArgs(k)
                         /\ NLocals(k)' = NLocals(k) /\ Start(k)' = Start(k)
      /\ Flag(B + 1)' = closure /\ Ret(B + 1)' = p
  <2>1. Executing /\ cstack' = cstack \o <<closure, p>>
    BY <1>4
  <2>2. /\ Begun' = Begun /\ Calling'
        /\ \A k \in 1..Begun : /\ Flag(k)' = Flag(k) /\ Ret(k)' = Ret(k)
                               /\ Fp(k)' = Fp(k) /\ NArgs(k)' = NArgs(k)
                               /\ NLocals(k)' = NLocals(k) /\ Start(k)' = Start(k)
        /\ Flag(Begun + 1)' = closure /\ Ret(Begun + 1)' = p
    BY <2>1, CallWords
  <2>3. QED
    BY <1>3, <2>2
<1>6. /\ frame_pointer \in Nat /\ nlocals \in Nat /\ Len(vstack) \in Nat
      /\ frame_pointer + nlocals <= Len(vstack)
      /\ Operands \in Seq(Values)
      /\ Len(Operands) = Len(vstack) - (frame_pointer + nlocals)
      /\ Last(depth) \in Nat /\ Last(depth) <= Len(Operands)
  BY <1>1, OperandsSeen
<1>7. PICK b \in Nat, l \in Nat : b = frame_pointer + nlocals /\ l = Len(vstack)
  <2>1. frame_pointer + nlocals \in Nat
    BY <1>6
  <2>2. QED
    BY <1>6, <2>1
<1>8. b <= l /\ n <= l - b /\ Len(Operands) = l - b /\ a <= n
      /\ n = a + (IF closure THEN 1 ELSE 0)
  <2>1. n = a + (IF closure THEN 1 ELSE 0)
    BY <1>2
  <2>2. PICK d \in Nat : d = Last(depth)
    BY <1>6
  <2>3. n <= d /\ d <= l - b
    BY <1>6, <1>7, <2>2
  <2>4. b <= l /\ Len(Operands) = l - b
    BY <1>6, <1>7
  <2>5. n <= l - b
    BY <2>3, <2>4
  <2>6. a <= n
    BY <2>1
  <2>7. QED
    BY <2>1, <2>4, <2>5, <2>6
<1>9. Operands = SubSeq(vstack, b + 1, l) /\ vstack \in Seq(Values)
  BY <1>1, <1>7 DEF Operands, TypeInv, TypeOK
<1>10. b <= l /\ n <= l - b /\ a <= n /\ l = Len(vstack)
  BY <1>7, <1>8
<1>11. SubSeq(Operands, 1, l - b - n) = SubSeq(vstack, b + 1, l - n)
  <2>1. PICK j \in Nat : j = l - b - n /\ b + j = l - n
    <3>1. l - b - n \in Nat /\ b + (l - b - n) = l - n
      BY ONLY <1>10, l \in Nat, b \in Nat, n \in Nat
    <3>2. QED
      BY <3>1
  <2>2. /\ vstack \in Seq(Values) /\ b \in Nat /\ j \in Nat /\ 1 \in Nat \ {0}
        /\ 1 <= j + 1 /\ j <= Len(vstack) - b /\ b <= Len(vstack)
    <3>1. j <= l - b /\ b <= l /\ 1 <= j + 1
      BY ONLY <1>10, <2>1, l \in Nat, b \in Nat, n \in Nat, j \in Nat
    <3>2. QED
      BY <1>9, <1>10, <3>1
  <2>3. SubSeq(SubSeq(vstack, b + 1, Len(vstack)), 1, j) = SubSeq(vstack, b + 1, b + j)
    BY ONLY <2>2, PartAbove
  <2>4. QED
    BY <1>7, <1>9, <2>1, <2>3
<1>12. SubSeq(Operands, l - b - a + 1, l - b) = SubSeq(vstack, l - a + 1, l)
  <2>1. PICK i \in Nat \ {0}, j \in Nat :
          i = l - b - a + 1 /\ j = l - b /\ b + i = l - a + 1 /\ b + j = l
    <3>1. l - b - a + 1 \in Nat \ {0} /\ l - b \in Nat
      BY ONLY <1>10, l \in Nat, b \in Nat, n \in Nat, a \in Nat
    <3>2. b + (l - b - a + 1) = l - a + 1 /\ b + (l - b) = l
      OBVIOUS
    <3>3. QED
      BY <3>1, <3>2
  <2>2. /\ vstack \in Seq(Values) /\ b \in Nat /\ j \in Nat /\ i \in Nat \ {0}
        /\ i <= j + 1 /\ j <= Len(vstack) - b /\ b <= Len(vstack)
    BY <1>9, <1>10, <2>1
  <2>3. SubSeq(SubSeq(vstack, b + 1, Len(vstack)), i, j) = SubSeq(vstack, b + i, b + j)
    BY ONLY <2>2, PartAbove
  <2>4. QED
    BY <1>7, <1>9, <2>1, <2>3
<1>13. CallStart' = l - n
  <2>1. Fun'.nargs = a
    BY <1>2 DEF Fun, Entry
  <2>2. CallStart' = l - a - (IF closure THEN 1 ELSE 0)
    BY <1>5, <1>7, <2>1 DEF CallStart
  <2>3. QED
    BY <1>8, <2>2
<1>14. PICK q : q = Record(f, 0, IF closure THEN Top(a) ELSE ClosureValue(0),
                           SubSeq(Operands, l - b - a + 1, l - b), << >>, << >>)
  OBVIOUS
<1>15. AbsCall' = q
  <2>1. PICK self, args : /\ self = IF closure THEN Top(a) ELSE ClosureValue(0)
                          /\ args = SubSeq(vstack, l - a + 1, l)
    OBVIOUS
  <2>2. (IF Flag(Begun + 1) THEN vstack[CallStart + 1] ELSE ClosureValue(0))' = self
    <3>1. CASE closure
      <4>1. l - n + 1 = l - a
        <5>1. n = a + 1
          BY <1>8, <3>1
        <5>2. QED
          BY ONLY <5>1, l \in Nat, a \in Nat
      <4>2. Top(a) = vstack[l - a]
        BY <1>7 DEF Top
      <4>3. QED
        BY <1>5, <1>13, <2>1, <3>1, <4>1, <4>2
    <3>2. CASE ~closure
      BY <1>5, <2>1, <3>2 DEF ClosureValue
    <3>3. QED
      BY <3>1, <3>2
  <2>3. (IF Begun = 0 THEN <<Zero, Zero>>
         ELSE SubSeq(vstack, Len(vstack) - Fun.nargs + 1, Len(vstack)))' = args
    <3>1. Fun'.nargs = a
      BY <1>2 DEF Fun, Entry
    <3>2. QED
      BY <1>3, <1>5, <1>7, <2>1, <3>1
  <2>4. ip'.fun = f
    BY DEF Entry
  <2>5. AbsCall' = [fun |-> f, at |-> 0, self |-> self, args |-> args,
                    locals |-> << >>, temps |-> << >>]
    BY <2>2, <2>3, <2>4 DEF AbsCall
  <2>6. QED
    BY <1>12, <1>14, <2>1, <2>5 DEF Record
<1>16. PICK x : x = Record(ip.fun, s, RunSelf, RunArgs, RunLocals,
                           SubSeq(Operands, 1, l - b - n))
  OBVIOUS
<1>17. AbsFrame(B)' = x
  <2>1. /\ frame_pointer = Fp(B) /\ nargs = NArgs(B) /\ nlocals = NLocals(B)
        /\ is_closure = Flag(B) /\ B \in 1..B
    <3>1. /\ frame_pointer = Fp(Begun) /\ nargs = NArgs(Begun) /\ nlocals = NLocals(Begun)
          /\ is_closure = Flag(Begun)
      BY <1>1, Running
    <3>2. B \in 1..B
      OBVIOUS
    <3>3. QED
      BY <1>3, <3>1, <3>2
  <2>2. At(B)' = p /\ LastTemp(B)' = l - n
    BY <1>3, <1>5, <1>13 DEF At, LastTemp
  <2>3. p.fun = ip.fun /\ p.place = s
    BY <1>4
  <2>4. /\ Fp(B)' = frame_pointer /\ NArgs(B)' = nargs /\ NLocals(B)' = nlocals
        /\ Flag(B)' = is_closure
    BY <1>5, <2>1
  <2>5. PICK self, args, locals : self = RunSelf /\ args = RunArgs /\ locals = RunLocals
    OBVIOUS
  <2>6. /\ (IF Flag(B) THEN vstack[Fp(B) - NArgs(B)] ELSE ClosureValue(0))' = self
        /\ (IF B = 1 THEN <<Zero, Zero>> ELSE SubSeq(vstack, Fp(B) - NArgs(B) + 1, Fp(B)))' = args
        /\ [i \in 1..NLocals(B) |-> vstack[Fp(B) + NLocals(B) + 1 - i]]' = locals
    BY <1>3, <2>4, <2>5 DEF RunSelf, RunArgs, RunLocals, closure_loc, ClosureValue
  <2>7. SubSeq(vstack, Fp(B) + NLocals(B) + 1, LastTemp(B))' =
          SubSeq(Operands, 1, l - b - n)
    BY <1>7, <1>11, <2>2, <2>4
  <2>8. QED
    BY <1>16, <2>2, <2>3, <2>5, <2>6, <2>7 DEF AbsFrame, Record
<1>18. ASSUME NEW k \in 1..(B - 1) PROVE AbsFrame(k)' = AbsFrame(k)
  <2>1. k \in 1..Begun /\ k + 1 \in 1..B /\ k < B /\ k < Len(depth) /\ k \in 1..B
    BY <1>3
  <2>2. Limit(k) = Start(k + 1) /\ Code(k) = Ret(k + 1)
    BY <1>3, <2>1 DEF Limit, First, Code
  <2>3. LastTemp(k)' = Limit(k) /\ At(k)' = Code(k)
    BY <1>5, <2>1, <2>2 DEF LastTemp, At
  <2>4. /\ Flag(k)' = Flag(k) /\ Fp(k)' = Fp(k) /\ NArgs(k)' = NArgs(k)
        /\ NLocals(k)' = NLocals(k)
    BY <1>5, <2>1
  <2>5. \A i \in (NGlobals + 3)..Limit(k) : vstack'[i] = vstack[i]
    OBVIOUS
  <2>6. QED
    BY <1>1, <2>1, <2>3, <2>4, <2>5, RecordKept
<1>19. Callers' = Append(Below, x)
  <2>1. PICK S : S = {AbsFrame(k) : k \in 1..B} \cup {x}
    OBVIOUS
  <2>2. PICK c, d : c = Callers' /\ d = Below
    OBVIOUS
  <2>3. c = [k \in 1..B |-> AbsFrame(k)']
    BY <1>5, <2>2 DEF Callers
  <2>4. d = [k \in 1..(B - 1) |-> AbsFrame(k)]
    BY <1>3, <2>2 DEF Below
  <2>5. \A k \in 1..B : c[k] = IF k = B THEN x ELSE AbsFrame(k)
    BY <1>17, <1>18, <2>3
  <2>6. c \in Seq(S) /\ Len(c) = B
    <3>1. \A k \in 1..B : c[k] \in S
      BY <2>1, <2>5
    <3>2. QED
      BY <2>3, <3>1
  <2>7. d \in Seq(S) /\ Len(d) = B - 1 /\ \A k \in 1..(B - 1) : d[k] = AbsFrame(k)
    <3>1. \A k \in 1..(B - 1) : AbsFrame(k) \in S
      BY <2>1
    <3>2. QED
      BY <2>4, <3>1
  <2>8. PICK e : e = Append(d, x)
    OBVIOUS
  <2>9. e \in Seq(S) /\ Len(e) = B /\ e[B] = x /\ \A k \in 1..(B - 1) : e[k] = d[k]
    <3>1. d \in Seq(S) /\ x \in S
      BY <2>1, <2>7
    <3>2. /\ Append(d, x) \in Seq(S) /\ Len(Append(d, x)) = Len(d) + 1
          /\ Append(d, x)[Len(d) + 1] = x
          /\ \A k \in 1..Len(d) : Append(d, x)[k] = d[k]
      BY ONLY <3>1, AppendView
    <3>3. Len(d) + 1 = B
      BY <2>7
    <3>4. QED
      BY <2>7, <2>8, <3>2, <3>3
  <2>10. ASSUME NEW k \in 1..Len(c) PROVE c[k] = e[k]
    <3>1. k \in 1..B
      BY <2>6
    <3>2. CASE k = B
      BY <2>5, <2>9, <3>1, <3>2
    <3>3. CASE k # B
      <4>1. k \in 1..(B - 1)
        BY <3>1, <3>3
      <4>2. QED
        BY <2>5, <2>7, <2>9, <3>1, <3>3, <4>1
    <3>4. QED
      BY <3>2, <3>3
  <2>11. c = e
    BY <2>6, <2>9, <2>10, SeqEqual
  <2>12. QED
    BY <2>2, <2>8, <2>11
<1>20. AbsFrames' = Append(Callers', AbsCall')
  <2>1. RecordsCalling'
    BY CallSeen, PTL
  <2>2. QED
    BY <2>1 DEF RecordsCalling
<1>21. AbsGlobals' = AbsGlobals
  BY DEF AbsGlobals, global
<1>22. QED
  BY <1>2, <1>8, <1>14, <1>15, <1>16, <1>19, <1>20, <1>21

\* A transfer is a call of FrameMachine.
LEMMA TransferMoves ==
  ASSUME IInv, IInv', status = "run", ip.place # 0,
         NEW f \in DOMAIN Funs \ {"main"}, NEW closure \in BOOLEAN, NEW n \in Nat,
         n <= Last(depth), n = Funs[f].nargs + (IF closure THEN 1 ELSE 0),
         Verified(Funs[f].nargs),
         closure => \E i \in 1..Len(closures) :
                      /\ Top(Funs[f].nargs) = ClosureValue(i)
                      /\ closures[i].fun = f,
         Transfer(f, closure, n)
  PROVE  Machine!Next \/ Unseen
<1>1. TypeInv /\ FrameInv /\ Executing
  BY DEF IInv, Executing
<1>2. PICK a \in Nat : a = Funs[f].nargs
  BY FunsTyped
<1>3. PICK s \in Places :
        IF ~Verified(Funs[f].nargs)
          THEN Fail(Blame(Len(vstack) - Funs[f].nargs))
        ELSE IF CallOverflow(2) THEN Fail("overflow")
        ELSE /\ cstack' = cstack \o <<closure, [fun |-> ip.fun, place |-> s]>>
             /\ ip' = Entry(f)
             /\ depth' = Append(Counted(Last(depth) - n), 0)
             /\ UNCHANGED <<vstack, closures, status>>
  BY DEF Transfer
<1>4. CASE CallOverflow(2)
  BY <1>3, <1>4, FailHidden
<1>5. CASE ~CallOverflow(2)
  <2>1. /\ cstack' = cstack \o <<closure, [fun |-> ip.fun, place |-> s]>>
        /\ ip' = Entry(f) /\ vstack' = vstack /\ closures' = closures /\ status' = "run"
    BY <1>3, <1>5
  <2>2. Waiting'
    BY <2>1 DEF Waiting, IInv, Entry
  <2>3. PICK k \in Nat : k = Len(Operands)
    BY <1>1, OperandsSeen
  <2>4. n <= k /\ a <= k /\ a <= n /\ Operands \in Seq(Values) /\ (closure => n = a + 1)
        /\ (~closure => n = a)
    <3>1. n <= k /\ Operands \in Seq(Values)
      BY <1>1, <2>3, Lower
    <3>2. closure => n = a + 1
      BY <1>2
    <3>3. ~closure => n = a
      BY <1>2
    <3>4. a <= n
      <4>1. n = a + 1 \/ n = a
        BY <3>2, <3>3
      <4>2. QED
        BY ONLY <4>1, a \in Nat
    <3>5. a <= k
      BY ONLY <3>1, <3>4, a \in Nat, n \in Nat, k \in Nat
    <3>6. QED
      BY <3>1, <3>2, <3>3, <3>4, <3>5
  <2>5. PICK self, args : /\ self = IF closure THEN Top(a) ELSE ClosureValue(0)
                          /\ args = SubSeq(Operands, k - a + 1, k)
    OBVIOUS
  <2>6. PICK x, c : /\ x = Record(ip.fun, s, RunSelf, RunArgs, RunLocals,
                                  SubSeq(Operands, 1, k - n))
                    /\ c = Record(f, 0, self, args, << >>, << >>)
    OBVIOUS
  <2>7. AbsFrames' = Append(Append(Below, x), c) /\ AbsGlobals' = AbsGlobals
    <3>1. /\ AbsFrames' = Append(Append(Below,
                Record(ip.fun, s, RunSelf, RunArgs, RunLocals,
                       SubSeq(Operands, 1, Len(Operands) - n))), AbsCall')
          /\ AbsCall' = Record(f, 0, IF closure THEN Top(Funs[f].nargs) ELSE ClosureValue(0),
                SubSeq(Operands, Len(Operands) - Funs[f].nargs + 1, Len(Operands)),
                << >>, << >>)
          /\ AbsGlobals' = AbsGlobals
      BY <1>1, <2>1, <2>2, TransferSeen
    <3>2. QED
      BY <1>2, <2>3, <2>5, <2>6, <3>1
  <2>8. PICK B \in Nat \ {0} : B = Begun /\ Len(AbsFrames) = B
    BY <1>1, RunningSeen DEF RecordsRunning
  <2>9. PICK r : r = Machine!Running
    OBVIOUS
  <2>10. r = RunRecord /\ Machine!Callers = Below /\ AbsFrames # << >>
    BY <1>1, <2>9, RunningSeen DEF RecordsRunning
  <2>11. r.temps = Operands /\ r.at = ip.place
    BY <2>10 DEF RunRecord, Record
  <2>12. /\ AbsFrames' = Machine!Callers \o <<x, c>> /\ Len(AbsFrames') = B + 1
         /\ AbsFrames'[B] = x /\ AbsFrames'[Len(AbsFrames')] = c
    <3>1. PICK S, d : S = {AbsFrame(j) : j \in 1..(B - 1)} \cup {x, c} /\ d = Below
      OBVIOUS
    <3>2. d = [j \in 1..(B - 1) |-> AbsFrame(j)]
      BY <2>8, <3>1 DEF Below
    <3>3. d \in Seq(S) /\ Len(d) = B - 1 /\ x \in S /\ c \in S
      <4>1. \A j \in 1..(B - 1) : AbsFrame(j) \in S
        BY <3>1
      <4>2. QED
        BY <3>1, <3>2, <4>1
    <3>4. /\ Append(Append(d, x), c) = d \o <<x, c>>
          /\ Len(Append(Append(d, x), c)) = Len(d) + 2
          /\ Append(Append(d, x), c)[Len(d) + 1] = x
          /\ Append(Append(d, x), c)[Len(d) + 2] = c
      BY ONLY <3>3, TwoMore
    <3>5. Len(d) + 2 = B + 1 /\ Len(d) + 1 = B
      BY <3>3
    <3>6. QED
      BY <2>7, <2>10, <3>1, <3>4, <3>5
  <2>13. /\ c.fun = f /\ c.self = self /\ c.args = args /\ x.at = s
         /\ c = Machine!Frame(f, self, args)
    BY <2>6 DEF Record, Machine!Frame
  <2>14. Len(args) = a
    <3>1. PICK i \in Nat \ {0} : i = k - a + 1
      <4>1. k - a + 1 \in Nat \ {0}
        BY ONLY <2>4, k \in Nat, a \in Nat
      <4>2. QED
        BY <4>1
    <3>2. Operands \in Seq(Values) /\ i <= k + 1 /\ k <= Len(Operands) /\ k - i + 1 = a
      BY <2>3, <2>4, <3>1
    <3>3. Len(SubSeq(Operands, i, k)) = k - i + 1
      BY ONLY <3>2, i \in Nat \ {0}, k \in Nat, Stretch
    <3>4. QED
      BY <2>5, <3>1, <3>2, <3>3
  <2>15. args = Machine!Topmost(r, a)
    BY <2>3, <2>5, <2>11 DEF Machine!Topmost
  <2>16. /\ closure => /\ self # Machine!Nobody /\ self = Machine!TopOf(r, a)
                       /\ f = closures[self.closure].fun
         /\ ~closure => self = Machine!Nobody
    <3>1. CASE closure
      <4>1. PICK i \in 1..Len(closures) : self = ClosureValue(i) /\ closures[i].fun = f
        BY <1>2, <2>5, <3>1
      <4>2. self.closure = i /\ i # 0
        <5>1. Len(closures) \in Nat
          BY <1>1 DEF TypeInv
        <5>2. QED
          BY <4>1, <5>1 DEF ClosureValue
      <4>3. Machine!Nobody.closure = 0
        BY DEF Machine!Nobody
      <4>4. Top(a) = Operands[k - a]
        <5>1. a < Last(depth)
          <6>1. n = a + 1 /\ Last(depth) \in Nat
            BY <1>1, <2>4, <3>1, OperandsSeen DEF Executing
          <6>2. QED
            BY ONLY <6>1, n <= Last(depth), a \in Nat
        <5>2. QED
          BY <1>1, <2>3, <5>1, OnTop
      <4>5. self = Machine!TopOf(r, a)
        BY <2>3, <2>5, <2>11, <3>1, <4>4 DEF Machine!TopOf
      <4>6. QED
        BY <3>1, <4>1, <4>2, <4>3, <4>5
    <3>2. CASE ~closure
      BY <2>5, <3>2 DEF ClosureValue, Machine!Nobody
    <3>3. QED
      BY <3>1, <3>2
  <2>17. (IF self = Machine!Nobody THEN a ELSE a + 1) = n
    BY <2>4, <2>16
  <2>18. [r EXCEPT !.at = s, !.temps = Machine!Without(r, n)] = x
    <3>1. PICK t : t = Machine!Without(r, n)
      OBVIOUS
    <3>2. t = SubSeq(Operands, 1, k - n)
      BY <2>3, <2>11, <3>1 DEF Machine!Without
    <3>3. [r EXCEPT !.at = s, !.temps = t] = [[r EXCEPT !.at = s] EXCEPT !.temps = t]
      OBVIOUS
    <3>4. [[r EXCEPT !.at = s] EXCEPT !.temps = t] =
            Record(ip.fun, s, RunSelf, RunArgs, RunLocals, t)
      <4>1. PICK g, p, ws, ar, lo, te : /\ g = ip.fun /\ p = ip.place /\ ws = RunSelf
                                        /\ ar = RunArgs /\ lo = RunLocals /\ te = Operands
        OBVIOUS
      <4>2. PICK y : y = Record(g, s, ws, ar, lo, te)
        OBVIOUS
      <4>3. r = Record(g, p, ws, ar, lo, te)
        BY <2>10, <4>1 DEF RunRecord
      <4>4. [r EXCEPT !.at = s] = y
        BY <4>2, <4>3 DEF Record
      <4>5. [y EXCEPT !.temps = t] = Record(g, s, ws, ar, lo, t)
        BY <4>2 DEF Record
      <4>6. QED
        BY <4>1, <4>4, <4>5
    <3>5. QED
      BY <2>6, <3>1, <3>2, <3>3, <3>4
  <2> DEFINE To(h, callee, m) ==
        /\ UNCHANGED <<[i \in 1..NGlobals |-> vstack[global(i - 1)]], closures>>
        /\ Len(AbsFrames') = Len(AbsFrames) + 1
        /\ callee.fun \in DOMAIN Funs /\ m = Funs[callee.fun].nargs
        /\ Len(h.temps) >= m
        /\ callee = Machine!Frame(callee.fun, callee.self, Machine!Topmost(h, m))
        /\ LET dropped == IF callee.self = Machine!Nobody THEN m ELSE m + 1 IN
             /\ Len(h.temps) >= dropped
             /\ callee.self # Machine!Nobody =>
                  /\ callee.self = Machine!TopOf(h, m)
                  /\ callee.fun = closures[callee.self.closure].fun
             /\ \E t \in {AbsFrames'[Len(AbsFrames)].at} :
                  AbsFrames' = Machine!Callers \o
                    <<[h EXCEPT !.at = t, !.temps = Machine!Without(h, dropped)], callee>>
  <2>19. To(r, c, a)
    <3>1. UNCHANGED <<[i \in 1..NGlobals |-> vstack[global(i - 1)]], closures>>
      BY <2>1, <2>7 DEF AbsGlobals
    <3>2. k >= a /\ k >= n
      BY <2>3, <2>4
    <3>3. \E t \in {AbsFrames'[Len(AbsFrames)].at} :
            AbsFrames' = Machine!Callers \o
              <<[r EXCEPT !.at = t, !.temps = Machine!Without(r, n)], c>>
      BY <2>8, <2>12, <2>13, <2>18
    <3>4. Len(AbsFrames') = Len(AbsFrames) + 1
      BY <2>8, <2>12
    <3>5. QED
      BY <1>2, <2>3, <2>11, <2>13, <2>15, <2>16, <2>17, <3>1, <3>2, <3>3, <3>4
  <2>20. To(Machine!Running, AbsFrames'[Len(AbsFrames')], Len(AbsFrames'[Len(AbsFrames')].args))
         => Machine!Call
    BY DEF Machine!Call
  <2> HIDE DEF To
  <2>21. Machine!Call
    BY <2>9, <2>12, <2>13, <2>14, <2>19, <2>20
  <2>22. QED
    BY <2>9, <2>10, <2>11, <2>21 DEF Machine!Next
<1>6. QED
  BY <1>2, <1>3, <1>4, <1>5

\* CALL transfers control to its function.
LEMMA CallMoves == IInv /\ IInv' /\ Call => Machine!Next \/ Unseen
<1> SUFFICES ASSUME IInv, IInv', Call PROVE Machine!Next \/ Unseen
  OBVIOUS
<1>1. PICK f \in DOMAIN Funs \ {"main"} :
        /\ Funs[f].ncaptured = 0 /\ Dispatch("CALL", Funs[f].nargs)
        /\ Transfer(f, FALSE, Funs[f].nargs)
  BY DEF Call
<1>2. PICK n \in Nat : n = Funs[f].nargs
  BY FunsTyped
<1>3. status = "run" /\ ip.place # 0 /\ n <= Last(depth) /\ Verified(n)
  BY <1>1, <1>2, Dispatched
<1>4. Transfer(f, FALSE, n)
  BY <1>1, <1>2
<1>5. n = Funs[f].nargs + (IF FALSE THEN 1 ELSE 0)
  BY <1>2
<1>6. Verified(Funs[f].nargs)
  BY <1>2, <1>3
<1>7. QED
  BY <1>3, <1>4, <1>5, <1>6, TransferMoves

\* CALLC transfers control to the function of the closure.
LEMMA CallCMoves == IInv /\ IInv' /\ CallC => Machine!Next \/ Unseen
<1> SUFFICES ASSUME IInv, IInv', CallC PROVE Machine!Next \/ Unseen
  OBVIOUS
<1>1. PICK a \in {Funs[f].nargs : f \in DOMAIN Funs \ {"main"}} :
        /\ Dispatch("CALLC", a + 1) /\ IsClosure(Top(a))
        /\ Funs[closures[Top(a).closure].fun].nargs = a
        /\ Transfer(closures[Top(a).closure].fun, TRUE, a + 1)
  BY DEF CallC
<1>2. a \in Nat
  BY FunsTyped
<1>3. PICK n \in Nat : n = a + 1
  BY <1>2
<1>4. /\ TypeInv /\ FrameInv /\ status = "run" /\ ip.place # 0 /\ n <= Last(depth)
      /\ Last(depth) \in Nat /\ vstack \in Seq(Values) /\ n + 2 <= Len(vstack)
      /\ Len(vstack) \in Nat
  BY <1>1, <1>3, Dispatched
<1>5. Top(a) \in Values
  <2>1. a < Len(vstack)
    BY <1>2, <1>3, <1>4
  <2>2. QED
    BY <1>2, <1>4, <2>1, TopTyped
<1>6. PICK i \in 1..Len(closures) : Top(a) = ClosureValue(i)
  BY <1>1, <1>5 DEF IsClosure, Values
<1>7. Top(a).closure = i
  BY <1>6 DEF ClosureValue
<1>8. closures \in Seq(ClosureType) /\ i \in DOMAIN closures
  BY <1>4 DEF TypeInv
<1>9. PICK f \in DOMAIN Funs \ {"main"} : f = closures[i].fun
  BY <1>8, ClosuresTyped
<1>10. Funs[f].nargs = a /\ Transfer(f, TRUE, n)
  BY <1>1, <1>3, <1>7, <1>9
<1>11. Verified(Funs[f].nargs)
  BY <1>2, <1>3, <1>4, <1>10, SizesTyped DEF Verified, BadSlot, TypeInv, TypeOK
<1>12. n = Funs[f].nargs + (IF TRUE THEN 1 ELSE 0)
  BY <1>3, <1>10
<1>13. \E j \in 1..Len(closures) : Top(Funs[f].nargs) = ClosureValue(j) /\ closures[j].fun = f
  BY <1>6, <1>9, <1>10
<1>14. QED
  BY <1>4, <1>10, <1>11, <1>12, <1>13, TransferMoves

\* BEGIN gives the record its locals, and leaves the callers theirs.
LEMMA BeginMoves == IInv /\ IInv' /\ Begin => Machine!Next \/ Unseen
<1> SUFFICES ASSUME IInv, IInv', Begin PROVE Machine!Next \/ Unseen
  OBVIOUS
<1>1. TypeInv /\ FrameInv /\ status = "run" /\ ip.place = 0 /\ Waiting
  BY DEF Begin, IInv, Waiting
<1>2. PICK B \in Nat : B = Begun
  BY <1>1, FrameWords DEF FrameInv
<1>3. /\ Calling /\ Len(cstack) = 5 * B + 2 /\ Len(depth) = B + 1 /\ Code(B + 1) = ip
  BY <1>1, <1>2, SMTT(30) DEF FrameInv, Shape, Code
<1>4. B + 1 \in Activations /\ \A k \in 1..B : k \in Activations
  BY <1>3 DEF Activations
<1>5. ip.fun \in DOMAIN Funs /\ (ip.fun = "main" <=> B + 1 = 1) /\ Flag(B + 1) \in BOOLEAN
  BY <1>1, <1>3, <1>4, FrameWords DEF FrameInv, CodeOK
<1>6. CASE CallOverflow(3) \/ Overflow(Fun.nlocals)
  BY <1>6, FailHidden DEF Begin
<1>7. CASE ~(CallOverflow(3) \/ Overflow(Fun.nlocals))
  <2>1. PICK a \in Nat, n \in Nat, l \in Nat, g \in Nat :
          a = Fun.nargs /\ n = Fun.nlocals /\ l = Len(vstack) /\ g = NGlobals
    <3>1. Fun.nargs \in Nat /\ Fun.nlocals \in Nat
      BY <1>5, FunsTyped DEF Fun
    <3>2. Len(vstack) \in Nat
      BY <1>1 DEF TypeInv, TypeOK
    <3>3. QED
      BY <3>1, <3>2, SizesTyped
  <2>2. PICK w, z : w = <<l, a, n>> /\ z = [i \in 1..n |-> Zero]
    OBVIOUS
  <2>3. /\ cstack' = cstack \o w /\ vstack' = vstack \o z
        /\ ip' = [ip EXCEPT !.place = 1]
        /\ closures' = closures /\ status' = "run" /\ depth' = depth
    BY <1>1, <1>7, <2>1, <2>2 DEF Begin
  <2>4. ip'.fun = ip.fun /\ ip'.place = 1
    <3>1. ip \in Points
      BY <1>1 DEF TypeInv, TypeOK
    <3>2. QED
      BY <2>3, <3>1 DEF Points
  <2>5. /\ Len(cstack') = 5 * B + 5
        /\ \A i \in 1..(5 * B + 2) : cstack'[i] = cstack[i]
        /\ cstack'[5 * B + 3] = l /\ cstack'[5 * B + 4] = a /\ cstack'[5 * B + 5] = n
    <3>1. w \in Seq(Words) /\ Len(w) = 3 /\ w[1] = l /\ w[2] = a /\ w[3] = n
      <4>1. l \in Words /\ a \in Words /\ n \in Words
        BY DEF Words
      <4>2. QED
        BY <2>2, <4>1
    <3>2. cstack \in Seq(Words) /\ w \in Seq(Words)
      BY <1>1, <3>1 DEF TypeInv
    <3>3. /\ Len(cstack \o w) = Len(cstack) + Len(w)
          /\ \A i \in 1..Len(cstack) : (cstack \o w)[i] = cstack[i]
          /\ \A i \in 1..Len(w) : (cstack \o w)[Len(cstack) + i] = w[i]
      BY ONLY <3>2, Appended
    <3>4. 1 \in 1..Len(w) /\ 2 \in 1..Len(w) /\ 3 \in 1..Len(w)
      BY <3>1
    <3>5. PICK c, d : c = cstack /\ d = cstack'
      OBVIOUS
    <3>6. PICK m \in Nat : m = 5 * B + 2 /\ Len(c) = m
      BY <1>3, <3>5
    <3>7. d = c \o w
      BY <2>3, <3>5
    <3>8. /\ Len(d) = m + 3 /\ \A i \in 1..m : d[i] = c[i]
          /\ d[m + 1] = l /\ d[m + 2] = a /\ d[m + 3] = n
      BY <3>1, <3>3, <3>4, <3>5, <3>6, <3>7
    <3>9. m + 1 = 5 * B + 3 /\ m + 2 = 5 * B + 4 /\ m + 3 = 5 * B + 5
      BY <3>6
    <3>10. QED
      BY <3>5, <3>6, <3>8, <3>9
  <2>6. /\ vstack \in Seq(Values) /\ Len(vstack') = l + n /\ vstack' \in Seq(Values)
        /\ \A i \in 1..l : vstack'[i] = vstack[i]
        /\ \A i \in 1..n : vstack'[l + i] = Zero
    <3>1. z \in Seq(Values) /\ Len(z) = n /\ \A i \in 1..n : z[i] = Zero
      <4>1. Zero \in Values
        BY IntsAssumption DEF Values
      <4>2. QED
        BY <2>2, <4>1
    <3>2. vstack \in Seq(Values) /\ z \in Seq(Values)
      BY <1>1, <3>1 DEF TypeInv, TypeOK
    <3>3. /\ vstack \o z \in Seq(Values) /\ Len(vstack \o z) = Len(vstack) + Len(z)
          /\ \A i \in 1..Len(vstack) : (vstack \o z)[i] = vstack[i]
          /\ \A i \in 1..Len(z) : (vstack \o z)[Len(vstack) + i] = z[i]
      BY ONLY <3>2, Appended
    <3>4. QED
      BY <2>1, <2>3, <3>1, <3>2, <3>3
  <2>7. Begun' = B + 1
    <3>1. (5 * B + 5) \div 5 = B + 1
      OBVIOUS
    <3>2. QED
      BY <2>5, <3>1 DEF Begun
  <2>8. /\ \A k \in 1..B : /\ Flag(k)' = Flag(k) /\ Ret(k)' = Ret(k) /\ Fp(k)' = Fp(k)
                           /\ NArgs(k)' = NArgs(k) /\ NLocals(k)' = NLocals(k)
                           /\ Start(k)' = Start(k)
        /\ Flag(B + 1)' = Flag(B + 1) /\ Ret(B + 1)' = Ret(B + 1)
        /\ Fp(B + 1)' = l /\ NArgs(B + 1)' = a /\ NLocals(B + 1)' = n
    <3>1. /\ 5 * (B + 1) - 4 = 5 * B + 1 /\ 5 * (B + 1) - 3 = 5 * B + 2
          /\ 5 * (B + 1) - 2 = 5 * B + 3 /\ 5 * (B + 1) - 1 = 5 * B + 4
          /\ 5 * (B + 1) = 5 * B + 5
          /\ 5 * B + 1 \in 1..(5 * B + 2) /\ 5 * B + 2 \in 1..(5 * B + 2)
      OBVIOUS
    <3>2. /\ Flag(B + 1)' = Flag(B + 1) /\ Ret(B + 1)' = Ret(B + 1)
          /\ Fp(B + 1)' = l /\ NArgs(B + 1)' = a /\ NLocals(B + 1)' = n
      BY <2>5, <3>1 DEF Flag, Ret, Fp, NArgs, NLocals
    <3>3. \A i \in 1..(5 * B) : cstack'[i] = cstack[i]
      BY <2>5
    <3>4. QED
      BY <3>2, <3>3, FramesBelow
  <2>9. PICK b \in BOOLEAN, s \in Nat : b = Flag(B + 1) /\ s = First(B + 1)
    BY <1>1, <1>4, <1>5, Layout
  <2>10. /\ s = l - a - (IF b THEN 1 ELSE 0) /\ CallStart = s
         /\ Start(B + 1)' = s
    <3>1. First(B + 1) = CallStart
      BY <1>2 DEF First
    <3>2. CallStart = l - a - (IF b THEN 1 ELSE 0)
      BY <1>2, <2>1, <2>9 DEF CallStart
    <3>3. Start(B + 1)' = l - a - (IF b THEN 1 ELSE 0)
      BY <2>8, <2>9 DEF Start
    <3>4. QED
      BY <2>9, <3>1, <3>2, <3>3
  <2>11. (b => l = s + a + 1) /\ (~b => l = s + a) /\ s + a <= l
    <3>1. b => l = s + a + 1
      BY <2>10
    <3>2. ~b => l = s + a
      BY <2>10
    <3>3. l = s + a + 1 \/ l = s + a
      BY <3>1, <3>2
    <3>4. s + a <= l
      BY ONLY <3>3, s \in Nat, a \in Nat
    <3>5. QED
      BY <3>1, <3>2, <3>4
  <2>12. g + 2 <= l
    <3>1. CASE B = 0
      <4>1. a = 2 /\ s = g
        BY <1>1, <1>5, <2>1, <2>9, <3>1, FunsTyped DEF FrameInv, MainAtBottom, Fun
      <4>2. QED
        BY ONLY <2>11, <4>1, l \in Nat, g \in Nat
    <3>2. CASE B # 0
      <4>1. g + 2 <= s
        BY <1>1, <1>4, <2>1, <2>9, <3>2, Layout
      <4>2. QED
        BY ONLY <2>11, <4>1, l \in Nat, g \in Nat, s \in Nat, a \in Nat
    <3>3. QED
      BY <3>1, <3>2
  <2>13. AbsGlobals' = AbsGlobals
    <3>1. \A i \in 1..g : global(i - 1) = g + 2 - i /\ g + 2 - i \in 1..l
      BY <2>1, <2>12 DEF global
    <3>2. \A i \in 1..g : vstack'[g + 2 - i] = vstack[g + 2 - i]
      BY <2>6, <3>1
    <3>3. QED
      BY <2>1, <3>1, <3>2 DEF AbsGlobals, global
  <2>14. ASSUME NEW k \in 1..B PROVE AbsFrame(k)' = AbsFrame(k)
    <3>1. k \in 1..Begun /\ k < B + 1 /\ k < Len(depth) /\ (k + 1 \in 1..B \/ k + 1 = B + 1)
      BY <1>2, <1>3
    <3>2. LastTemp(k)' = Start(k + 1)' /\ At(k)' = Ret(k + 1)'
      BY <2>7, <3>1 DEF LastTemp, At
    <3>3. Limit(k) = First(k + 1) /\ Code(k) = Ret(k + 1)
      BY <3>1 DEF Limit, Code
    <3>4. Ret(k + 1)' = Ret(k + 1)
      BY <2>8, <3>1
    <3>5. Start(k + 1)' = First(k + 1)
      <4>1. CASE k + 1 \in 1..B
        BY <1>2, <2>8, <4>1 DEF First
      <4>2. CASE k + 1 = B + 1
        BY <2>9, <2>10, <4>2
      <4>3. QED
        BY <3>1, <4>1, <4>2
    <3>6. LastTemp(k)' = Limit(k) /\ At(k)' = Code(k)
      BY <3>2, <3>3, <3>4, <3>5
    <3>7. /\ Flag(k)' = Flag(k) /\ Fp(k)' = Fp(k) /\ NArgs(k)' = NArgs(k)
          /\ NLocals(k)' = NLocals(k)
      BY <2>8
    <3>8. \A p \in (NGlobals + 3)..Limit(k) : vstack'[p] = vstack[p]
      <4>1. Limit(k) \in Nat /\ Limit(k) <= l
        BY <1>1, <2>1, <3>1, Layout
      <4>2. \A p \in (g + 3)..Limit(k) : p \in 1..l
        BY <4>1
      <4>3. QED
        BY <2>1, <2>6, <4>2
    <3>9. QED
      BY <1>1, <3>1, <3>6, <3>7, <3>8, RecordKept
  <2>15. Below' = Callers
    <3>1. Below' = [k \in 1..(Begun' - 1) |-> AbsFrame(k)']
      BY DEF Below
    <3>2. Begun' - 1 = B
      BY <2>7
    <3>3. QED
      BY <1>2, <2>14, <3>1, <3>2 DEF Callers
  <2>16. PICK self, args : /\ self = IF b THEN vstack[s + 1] ELSE ClosureValue(0)
                           /\ args = IF B = 0 THEN <<Zero, Zero>>
                                     ELSE SubSeq(vstack, l - a + 1, l)
    OBVIOUS
  <2>17. AbsCall = Record(ip.fun, 0, self, args, << >>, << >>)
    BY <1>2, <2>1, <2>9, <2>10, <2>16 DEF AbsCall, Record
  <2>18. Executing'
    BY <2>3, <2>4 DEF Executing, IInv
  <2>19. AbsFrames' = Append(Callers, AbsFrame(B + 1)')
    <3>1. RecordsRunning'
      BY <2>18, RunningSeen, PTL
    <3>2. AbsFrames' = Append(Below', RunRecord') /\ AbsFrame(Begun)' = RunRecord'
      BY <3>1 DEF RecordsRunning
    <3>3. AbsFrame(Begun)' = AbsFrame(B + 1)'
      BY <2>7 DEF AbsFrame, At, LastTemp, Flag, Fp, NArgs, NLocals
    <3>4. QED
      BY <2>15, <3>2, <3>3
  <2>20. PICK locals : locals = [i \in 1..n |-> Zero]
    OBVIOUS
  <2>21. AbsFrame(B + 1)' = Record(ip.fun, 1, self, args, locals, << >>)
    <3>1. At(B + 1)' = ip' /\ LastTemp(B + 1)' = l + n
      <4>1. ~Calling'
        <5>1. (5 * B + 5) % 5 # 2
          OBVIOUS
        <5>2. QED
          BY <2>5, <5>1 DEF Calling
      <4>2. QED
        BY <2>6, <2>7, <4>1 DEF At, LastTemp
    <3>2. FrameSelf(B + 1)' = self
      <4>1. CASE b
        <5>1. l - a = s + 1 /\ s + 1 \in 1..l
          BY ONLY <2>11, <4>1, l \in Nat, s \in Nat, a \in Nat
        <5>2. QED
          BY <2>6, <2>8, <2>9, <2>16, <4>1, <5>1 DEF FrameSelf
      <4>2. CASE ~b
        BY <2>8, <2>9, <2>16, <4>2 DEF FrameSelf, ClosureValue
      <4>3. QED
        BY <4>1, <4>2
    <3>3. FrameArgs(B + 1)' = args
      <4>1. CASE B = 0
        BY <2>16, <4>1 DEF FrameArgs
      <4>2. CASE B # 0
        <5>1. FrameArgs(B + 1)' = SubSeq(vstack', l - a + 1, l)
          BY <2>8, <4>2 DEF FrameArgs
        <5>2. \A i \in (l - a + 1)..l : i \in 1..l
          BY ONLY <2>11, l \in Nat, s \in Nat, a \in Nat
        <5>3. \A i \in (l - a + 1)..l : vstack'[i] = vstack[i]
          BY <2>6, <5>2
        <5>4. l - a + 1 \in Int /\ l \in Int
          OBVIOUS
        <5>5. SubSeq(vstack', l - a + 1, l) = SubSeq(vstack, l - a + 1, l)
          BY <5>3, <5>4, SameStretch
        <5>6. QED
          BY <2>16, <4>2, <5>1, <5>5
      <4>3. QED
        BY <4>1, <4>2
    <3>4. FrameLocals(B + 1)' = locals
      <4>1. FrameLocals(B + 1)' = [i \in 1..n |-> vstack'[l + n + 1 - i]]
        BY <2>8 DEF FrameLocals
      <4>2. \A i \in 1..n : n + 1 - i \in 1..n /\ l + (n + 1 - i) = l + n + 1 - i
        OBVIOUS
      <4>3. \A i \in 1..n : vstack'[l + n + 1 - i] = Zero
        BY <2>6, <4>2
      <4>4. QED
        BY <2>20, <4>1, <4>3
    <3>5. SubSeq(vstack', l + n + 1, l + n) = << >>
      <4>1. PICK e \in Nat, m \in Nat \ {0} : e = l + n /\ m = l + n + 1
        OBVIOUS
      <4>2. m <= e + 1 /\ e <= Len(vstack') /\ e - m + 1 = 0
        BY <2>6, <4>1
      <4>3. /\ SubSeq(vstack', m, e) \in Seq(Values) /\ Len(SubSeq(vstack', m, e)) = e - m + 1
        BY <2>6, <4>2, Stretch
      <4>4. SubSeq(vstack', m, e) = << >>
        BY <4>2, <4>3, EmptySeq
      <4>5. QED
        BY <4>1, <4>4
    <3>6. SubSeq(vstack, Fp(B + 1) + NLocals(B + 1) + 1, LastTemp(B + 1))' = << >>
      BY <2>8, <3>1, <3>5
    <3>7. AbsFrame(B + 1)' = Record(At(B + 1)'.fun, At(B + 1)'.place, FrameSelf(B + 1)',
                               FrameArgs(B + 1)', FrameLocals(B + 1)',
                               SubSeq(vstack, Fp(B + 1) + NLocals(B + 1) + 1, LastTemp(B + 1))')
      BY DEF AbsFrame, Record, FrameSelf, FrameArgs, FrameLocals
    <3>8. QED
      BY <2>4, <3>1, <3>2, <3>3, <3>4, <3>6, <3>7
  <2>22. PICK r : r = Machine!Running
    OBVIOUS
  <2>23. /\ r = AbsCall /\ Machine!Callers = Callers /\ AbsFrames # << >>
         /\ Len(AbsFrames) = B + 1
    BY <1>1, <1>2, <2>22, CallSeen DEF RecordsCalling
  <2>24. r.at = 0 /\ r.fun = ip.fun
    BY <2>17, <2>23 DEF Record
  <2>25. PICK y : y = Record(ip.fun, 1, self, args, locals, << >>)
    OBVIOUS
  <2>26. [r EXCEPT !.at = 1, !.locals = locals] = y
    <3>1. [r EXCEPT !.at = 1, !.locals = locals] = [[r EXCEPT !.at = 1] EXCEPT !.locals = locals]
      OBVIOUS
    <3>2. [[r EXCEPT !.at = 1] EXCEPT !.locals = locals] = y
      <4>1. PICK f, x : f = ip.fun /\ x = Record(f, 1, self, args, << >>, << >>)
        OBVIOUS
      <4>2. r = Record(f, 0, self, args, << >>, << >>)
        BY <2>17, <2>23, <4>1
      <4>3. [r EXCEPT !.at = 1] = x
        BY <4>1, <4>2 DEF Record
      <4>4. [x EXCEPT !.locals = locals] = Record(f, 1, self, args, locals, << >>)
        BY <4>1 DEF Record
      <4>5. QED
        BY <2>25, <4>1, <4>3, <4>4
    <3>3. QED
      BY <3>1, <3>2
  <2>27. AbsFrames' = Append(Callers, y) /\ y.at = 1
    BY <2>19, <2>21, <2>25 DEF Record
  <2>28. AbsFrames'[B + 1] = y
    <3>1. PICK S, c : S = {AbsFrame(k) : k \in 1..B} \cup {y} /\ c = Callers
      OBVIOUS
    <3>2. c = [k \in 1..B |-> AbsFrame(k)]
      BY <1>2, <3>1 DEF Callers
    <3>3. c \in Seq(S) /\ Len(c) = B /\ y \in S
      <4>1. \A k \in 1..B : AbsFrame(k) \in S
        BY <3>1
      <4>2. QED
        BY <3>1, <3>2, <4>1
    <3>4. Append(c, y)[Len(c) + 1] = y
      BY ONLY <3>3, AppendView
    <3>5. QED
      BY <2>27, <3>1, <3>3, <3>4
  <2>29. locals = [i \in 1..Funs[r.fun].nlocals |-> Zero]
    BY <2>1, <2>20, <2>24 DEF Fun
  <2>30. 1 \in {AbsFrames'[Len(AbsFrames)].at} \ {0}
    BY <2>23, <2>27, <2>28
  <2>31. Machine!Begin
    BY <2>3, <2>13, <2>22, <2>23, <2>24, <2>26, <2>27, <2>29, <2>30
    DEF Machine!Begin, AbsGlobals
  <2>32. QED
    BY <2>23, <2>31 DEF Machine!Next
<1>8. QED
  BY <1>6, <1>7


\* A part of a sequence that grows by one member at its end.
LEMMA PartGrown ==
  ASSUME NEW S, NEW s \in Seq(S), NEW t \in Seq(S), NEW m \in Nat \ {0}, NEW e \in Nat,
         m <= e + 1, e <= Len(s), Len(t) = e + 1, \A i \in 1..e : t[i] = s[i]
  PROVE  SubSeq(t, m, e + 1) = Append(SubSeq(s, m, e), t[e + 1])
<1>1. PICK a, b, x : a = SubSeq(s, m, e) /\ b = SubSeq(t, m, e + 1) /\ x = t[e + 1]
  OBVIOUS
<1>2. /\ a \in Seq(S) /\ Len(a) = e - m + 1
      /\ \A i \in 1..(e - m + 1) : a[i] = s[m + i - 1]
  BY <1>1, Stretch
<1>3. /\ b \in Seq(S) /\ Len(b) = e - m + 2
      /\ \A i \in 1..(e - m + 2) : b[i] = t[m + i - 1]
  <2>1. PICK n \in Nat : n = e + 1
    OBVIOUS
  <2>2. m <= n + 1 /\ n <= Len(t)
    BY <2>1
  <2>3. /\ SubSeq(t, m, n) \in Seq(S) /\ Len(SubSeq(t, m, n)) = n - m + 1
        /\ \A i \in 1..(n - m + 1) : SubSeq(t, m, n)[i] = t[m + i - 1]
    BY <2>2, Stretch
  <2>4. n - m + 1 = e - m + 2
    BY <2>1
  <2>5. QED
    BY <1>1, <2>1, <2>3, <2>4
<1>4. x \in S
  BY <1>1, ElementOfSeq
<1>5. PICK c : c = Append(a, x)
  OBVIOUS
<1>6. PICK l \in Nat : l = e - m + 1
  OBVIOUS
<1>7. /\ c \in Seq(S) /\ Len(c) = l + 1 /\ c[l + 1] = x
      /\ \A i \in 1..l : c[i] = a[i]
  <2>1. a \in Seq(S) /\ x \in S
    BY <1>2, <1>4
  <2>2. /\ Append(a, x) \in Seq(S) /\ Len(Append(a, x)) = Len(a) + 1
        /\ Append(a, x)[Len(a) + 1] = x
        /\ \A i \in 1..Len(a) : Append(a, x)[i] = a[i]
    BY ONLY <2>1, AppendProperties
  <2>3. QED
    BY <1>2, <1>5, <1>6, <2>2
<1>8. ASSUME NEW i \in 1..(l + 1) PROVE c[i] = b[i]
  <2>1. CASE i \in 1..l
    <3>1. c[i] = s[m + i - 1]
      BY <1>2, <1>6, <1>7, <2>1
    <3>2. b[i] = t[m + i - 1]
      BY <1>3, <1>6
    <3>3. m + i - 1 \in 1..e
      BY <1>6, <2>1
    <3>4. QED
      BY <3>1, <3>2, <3>3
  <2>2. CASE i = l + 1
    <3>1. b[i] = t[m + i - 1] /\ m + i - 1 = e + 1
      BY <1>3, <1>6, <2>2
    <3>2. QED
      BY <1>1, <1>7, <2>2, <3>1
  <2>3. QED
    BY <2>1, <2>2
<1>9. Len(b) = l + 1
  BY <1>3, <1>6
<1>10. b = c
  BY <1>3, <1>7, <1>8, <1>9, SeqEqual
<1>11. QED
  BY <1>1, <1>5, <1>10

\* What END does to the stacks when the room for its result is there.
Returned(b) ==
  /\ vstack' = Append(SubSeq(vstack, 1, FrameStart), Top(0))
  /\ vstack' \in Seq(Values) /\ Len(vstack') = FrameStart + 1
  /\ FrameStart + 1 <= Len(vstack)
  /\ \A i \in 1..FrameStart : vstack'[i] = vstack[i]
  /\ vstack'[FrameStart + 1] = Top(0)
  /\ Len(cstack') = 5 * b /\ \A i \in 1..(5 * b) : cstack'[i] = cstack[i]
  /\ ip' = ret_addr /\ closures' = closures
  /\ ret_addr # CodeEnd => status' = status

\* END does that, or fails.
LEMMA EndSeen ==
  ASSUME TypeInv, FrameInv, ip.place # 0, Last(depth) = 1, End, NEW b \in Nat, Begun = b + 1
  PROVE  Unseen \/ Returned(b)
<1>1. /\ Len(depth) = b + 1 /\ Len(cstack) = 5 * (b + 1)
      /\ FrameStart \in Nat /\ Len(vstack) \in Nat
      /\ frame_pointer \in Nat /\ frame_pointer + nlocals + 1 <= Len(vstack)
  BY Running
<1>2. nlocals \in Nat /\ FrameStart <= frame_pointer
  <2>1. /\ Fun \in [nargs : Nat, nlocals : Nat, ncaptured : Nat]
        /\ nargs = Fun.nargs /\ nlocals = Fun.nlocals
    BY Running
  <2>2. FrameStart + nargs <= frame_pointer
    BY FrameAbove
  <2>3. nargs \in Nat /\ nlocals \in Nat
    BY <2>1
  <2>4. QED
    BY <1>1, <2>2, <2>3
<1>3. FrameStart + 1 <= Len(vstack) /\ Len(vstack) > frame_pointer - nlocals
  BY <1>1, <1>2
<1>4. IF BadSlot(FrameStart + 2) THEN Fail(Blame(FrameStart + 2))
      ELSE /\ vstack' = Append(SubSeq(vstack, 1, FrameStart), Top(0))
           /\ cstack' = SubSeq(cstack, 1, Len(cstack) - 5)
           /\ ip' = ret_addr
           /\ ret_addr # CodeEnd => status' = status
           /\ closures' = closures
  <2>1. Len(vstack) # 0 /\ ~(Len(cstack) < 5)
    BY <1>1, <1>3
  <2>2. QED
    BY <1>3, <2>1 DEF End
<1>5. CASE BadSlot(FrameStart + 2)
  BY <1>4, <1>5, FailHidden
<1>6. CASE ~BadSlot(FrameStart + 2)
  <2>1. PICK n \in Nat : n = FrameStart
    BY <1>1
  <2>2. PICK v, rest : v = Top(0) /\ rest = SubSeq(vstack, 1, n)
    OBVIOUS
  <2>3. v \in Values /\ vstack \in Seq(Values) /\ n \in 0..Len(vstack)
    <3>1. vstack \in Seq(Values) /\ 0 < Len(vstack)
      BY <1>1, <1>3 DEF TypeInv, TypeOK
    <3>2. Top(0) \in Values
      BY <3>1, TopTyped
    <3>3. QED
      BY <1>1, <1>3, <2>1, <2>2, <3>1, <3>2
  <2>4. rest \in Seq(Values) /\ Len(rest) = n /\ \A i \in 1..n : rest[i] = vstack[i]
    BY <2>1, <2>2, <2>3, PopProperties
  <2>5. vstack' = Append(rest, v)
    BY <1>4, <1>6, <2>1, <2>2
  <2>6. /\ vstack' \in Seq(Values) /\ Len(vstack') = n + 1 /\ vstack'[n + 1] = v
        /\ \A i \in 1..n : vstack'[i] = vstack[i]
    BY <2>3, <2>4, <2>5, AppendProperties
  <2>7. Len(cstack') = 5 * b /\ \A i \in 1..(5 * b) : cstack'[i] = cstack[i]
    <3>1. cstack \in Seq(Words)
      BY DEF TypeInv
    <3>2. Len(cstack) - 5 = 5 * b /\ 5 * b \in 0..Len(cstack)
      BY <1>1
    <3>3. cstack' = SubSeq(cstack, 1, 5 * b)
      BY <1>4, <1>6, <3>2
    <3>4. QED
      BY <3>1, <3>2, <3>3, PopProperties
  <2>8. QED
    BY <1>3, <1>4, <1>6, <2>1, <2>2, <2>6, <2>7 DEF Returned
<1>7. QED
  BY <1>5, <1>6

\* The caller finds its record as it left it, with the result on top.
LEMMA CallerSeen ==
  ASSUME Executing, Executing', NEW b \in Nat \ {0}, Begun = b + 1, Returned(b)
  PROVE  /\ AbsGlobals' = AbsGlobals
         /\ \E f, s, self, args, locals, temps :
              /\ AbsFrame(b) = Record(f, s, self, args, locals, temps)
              /\ AbsFrames' = Append([k \in 1..(b - 1) |-> AbsFrame(k)],
                                Record(f, s, self, args, locals, Append(temps, Top(0))))
<1>0. PICK v : v = Top(0)
  OBVIOUS
<1>1. TypeInv /\ FrameInv /\ ip.place # 0
  BY DEF Executing
<1>2. /\ Len(depth) = b + 1 /\ Len(cstack) = 5 * (b + 1) /\ ret_addr = Ret(b + 1)
      /\ FrameStart = First(b + 1) /\ FrameStart \in Nat /\ Len(vstack) \in Nat
      /\ ip.fun = "main" => Begun = 1
      /\ ip.fun # "main" => NGlobals + 2 <= FrameStart
  BY <1>1, Running
<1>3. NGlobals + 2 <= FrameStart /\ NGlobals \in Nat
  BY <1>2, SizesTyped
<1>4. PICK n \in Nat, g \in Nat : n = FrameStart /\ g = NGlobals
  BY <1>2, <1>3
<1>5. /\ vstack' \in Seq(Values) /\ Len(vstack') = n + 1 /\ n + 1 <= Len(vstack)
      /\ (\A i \in 1..n : vstack'[i] = vstack[i]) /\ vstack'[n + 1] = v
      /\ vstack \in Seq(Values) /\ g + 2 <= n
      /\ Len(cstack') = 5 * b /\ (\A i \in 1..(5 * b) : cstack'[i] = cstack[i])
      /\ ip' = Ret(b + 1)
  <2>1. vstack \in Seq(Values)
    BY <1>1 DEF TypeInv, TypeOK
  <2>2. QED
    BY <1>0, <1>2, <1>3, <1>4, <2>1 DEF Returned
<1>6. Begun' = b /\ ~Calling'
  <2>1. (5 * b) \div 5 = b /\ (5 * b) % 5 # 2
    OBVIOUS
  <2>2. QED
    BY <1>5, <2>1 DEF Begun, Calling
<1>7. \A k \in 1..b : /\ Flag(k)' = Flag(k) /\ Ret(k)' = Ret(k) /\ Fp(k)' = Fp(k)
                      /\ NArgs(k)' = NArgs(k) /\ NLocals(k)' = NLocals(k)
                      /\ Start(k)' = Start(k)
  BY <1>5, FramesBelow
<1>8. AbsGlobals' = AbsGlobals
  <2>1. \A i \in 1..g : global(i - 1) = g + 2 - i /\ g + 2 - i \in 1..n
    BY <1>4, <1>5 DEF global
  <2>2. \A i \in 1..g : vstack'[g + 2 - i] = vstack[g + 2 - i]
    BY <1>5, <2>1
  <2>3. QED
    BY <1>4, <2>1, <2>2 DEF AbsGlobals, global
<1>9. ASSUME NEW k \in 1..b
      PROVE  /\ k \in 1..Begun /\ k < Len(depth) /\ Limit(k) \in Nat
             /\ Limit(k) <= n
             /\ \A p \in (NGlobals + 3)..Limit(k) : vstack'[p] = vstack[p]
  <2>1. k \in 1..Begun /\ k < Len(depth) /\ b + 1 \in Activations /\ k < b + 1
    BY <1>2 DEF Activations
  <2>2. Limit(k) \in Nat
    BY <1>1, <2>1, Layout
  <2>3. Limit(k) <= n
    BY <1>1, <1>2, <1>4, <2>1, LimitBelow
  <2>4. \A p \in (g + 3)..Limit(k) : p \in 1..n
    BY <2>2, <2>3
  <2>5. QED
    BY <1>4, <1>5, <2>1, <2>2, <2>3, <2>4
<1>10. ASSUME NEW k \in 1..(b - 1) PROVE AbsFrame(k)' = AbsFrame(k)
  <2>1. k \in 1..b /\ k + 1 \in 1..b /\ k < b /\ k < Begun
    OBVIOUS
  <2>2. k < Len(depth) /\ k + 1 <= Begun
    BY <1>2, <2>1
  <2>3. Limit(k) = Start(k + 1) /\ Code(k) = Ret(k + 1)
    BY <2>2 DEF Limit, First, Code
  <2>4. LastTemp(k)' = Limit(k) /\ At(k)' = Code(k)
    BY <1>6, <1>7, <2>1, <2>3 DEF LastTemp, At
  <2>5. QED
    BY <1>1, <1>7, <1>9, <2>1, <2>4, RecordKept
<1>11. Below' = [k \in 1..(b - 1) |-> AbsFrame(k)]
  <2>1. Below' = [k \in 1..(b - 1) |-> AbsFrame(k)']
    BY <1>6 DEF Below
  <2>2. QED
    BY <1>10, <2>1
<1>12. AbsFrames' = Append([k \in 1..(b - 1) |-> AbsFrame(k)], AbsFrame(b)')
  <2>1. RecordsRunning'
    BY RunningSeen, PTL
  <2>2. AbsFrames' = Append(Below', RunRecord') /\ AbsFrame(Begun)' = RunRecord'
    BY <2>1 DEF RecordsRunning
  <2>3. AbsFrame(Begun)' = AbsFrame(b)'
    BY <1>6 DEF AbsFrame, At, LastTemp, Flag, Fp, NArgs, NLocals
  <2>4. QED
    BY <1>11, <2>2, <2>3
<1>13. b \in 1..b /\ b \in 1..Begun
  OBVIOUS
<1>14. Limit(b) = n /\ Code(b) = Ret(b + 1)
  <2>1. b < Len(depth)
    BY <1>2
  <2>2. QED
    BY <1>2, <1>4, <2>1 DEF Limit, Code
<1>15. /\ Fp(b) \in Nat /\ NLocals(b) \in Nat /\ Fp(b) + NLocals(b) <= n
       /\ LastTemp(b) = n /\ At(b) = Ret(b + 1)
       /\ FrameSelf(b)' = FrameSelf(b) /\ FrameArgs(b)' = FrameArgs(b)
       /\ FrameLocals(b)' = FrameLocals(b)
  BY <1>1, <1>7, <1>9, <1>13, <1>14, PartsKept
<1>16. PICK m \in Nat \ {0} : m = Fp(b) + NLocals(b) + 1 /\ m <= n + 1
  <2>1. Fp(b) + NLocals(b) + 1 \in Nat \ {0} /\ Fp(b) + NLocals(b) + 1 <= n + 1
    BY <1>15
  <2>2. QED
    BY <2>1
<1>17. PICK f, s, self, args, locals, temps :
         /\ f = At(b).fun /\ s = At(b).place /\ self = FrameSelf(b) /\ args = FrameArgs(b)
         /\ locals = FrameLocals(b) /\ temps = SubSeq(vstack, m, n)
  OBVIOUS
<1>18. AbsFrame(b) = Record(f, s, self, args, locals, temps)
  BY <1>15, <1>16, <1>17, FrameParts
<1>19. LastTemp(b)' = n + 1 /\ At(b)' = Ret(b + 1)
  <2>1. Len(vstack') = n + 1 /\ ip' = Ret(b + 1)
    BY <1>5
  <2>2. ~(b < b)
    OBVIOUS
  <2>3. LastTemp(b)' = Len(vstack') /\ At(b)' = ip'
    BY <1>6, <2>2 DEF LastTemp, At
  <2>4. QED
    BY <2>1, <2>3
<1>20. SubSeq(vstack', m, n + 1) = Append(temps, v)
  <2>1. PICK old, new : old = vstack /\ new = vstack'
    OBVIOUS
  <2>2. /\ old \in Seq(Values) /\ new \in Seq(Values) /\ m <= n + 1 /\ Len(new) = n + 1
        /\ \A i \in 1..n : new[i] = old[i]
    BY <1>5, <1>16, <2>1
  <2>3. n <= Len(old)
    <3>1. n + 1 <= Len(old) /\ Len(old) \in Nat
      BY <1>2, <1>5, <2>1
    <3>2. QED
      BY ONLY <3>1, n \in Nat
  <2>4. SubSeq(new, m, n + 1) = Append(SubSeq(old, m, n), new[n + 1])
    BY ONLY <2>2, <2>3, n \in Nat, m \in Nat \ {0}, PartGrown
  <2>5. QED
    BY <1>5, <1>17, <2>1, <2>4
<1>21. AbsFrame(b)' = Record(At(b)'.fun, At(b)'.place, FrameSelf(b)', FrameArgs(b)',
                        FrameLocals(b)', SubSeq(vstack, Fp(b) + NLocals(b) + 1, LastTemp(b))')
  BY DEF AbsFrame, Record, FrameSelf, FrameArgs, FrameLocals
<1>22. SubSeq(vstack, Fp(b) + NLocals(b) + 1, LastTemp(b))' = Append(temps, v)
  BY <1>7, <1>13, <1>16, <1>19, <1>20
<1>23. AbsFrame(b)' = Record(f, s, self, args, locals, Append(temps, v))
  BY <1>15, <1>17, <1>19, <1>21, <1>22
<1>24. QED
  BY <1>0, <1>4, <1>8, <1>12, <1>18, <1>23

\* END gives the caller its record back, and the result.
LEMMA EndMoves == IInv /\ IInv' /\ End => Machine!Next \/ Unseen
<1> SUFFICES ASSUME IInv, IInv', End, ~Unseen PROVE Machine!Next
  OBVIOUS
<1>1. /\ TypeInv /\ FrameInv /\ Executing /\ status = "run" /\ ip.place # 0
      /\ Last(depth) = 1
  <2>1. Dispatch("END", 1) /\ Last(depth) = 1
    BY DEF End
  <2>2. QED
    BY <2>1, Dispatched DEF Executing
<1>2. PICK b \in Nat : b + 1 = Begun /\ Begun = b + 1
  <2>1. PICK B \in Nat \ {0} : B = Begun
    BY <1>1, RunningSeen DEF RecordsRunning
  <2>2. B - 1 \in Nat /\ (B - 1) + 1 = B
    OBVIOUS
  <2>3. QED
    BY <2>1, <2>2
<1>3. Returned(b)
  BY <1>1, <1>2, EndSeen
<1>4. PICK r : r = Machine!Running
  OBVIOUS
<1>5. /\ r = RunRecord /\ Machine!Callers = Below /\ AbsFrames # << >>
      /\ Len(AbsFrames) = b + 1
  BY <1>1, <1>2, <1>4, RunningSeen DEF RecordsRunning
<1>6. r.temps = Operands /\ r.at = ip.place
  BY <1>5 DEF RunRecord, Record
<1>7. Operands # << >> /\ Top(0) = Machine!TopOf(r, 0)
  <2>1. /\ Len(Operands) \in Nat /\ 0 < Len(Operands) /\ Top(0) = Operands[Len(Operands) - 0]
    BY <1>1, OnTop
  <2>2. Operands # << >>
    BY <2>1
  <2>3. QED
    BY <1>6, <2>1, <2>2 DEF Machine!TopOf
<1>8. closures' = closures
  BY <1>3 DEF Returned
<1>9. CASE b = 0
  <2>1. Begun' = 0 /\ ~Calling'
    <3>1. Len(cstack') = 0
      BY <1>3, <1>9 DEF Returned
    <3>2. QED
      BY <3>1 DEF Begun, Calling
  <2>2. AbsFrames' = << >>
    <3>1. AbsFrames' = [k \in 1..0 |-> AbsFrame(k)'] \o << >>
      BY <2>1 DEF AbsFrames
    <3>2. PICK e : e = [k \in 1..0 |-> AbsFrame(k)']
      OBVIOUS
    <3>3. e = << >>
      BY <3>2
    <3>4. QED
      BY <3>1, <3>2, <3>3
  <2>3. Len(AbsFrames) = 1
    BY <1>5, <1>9
  <2>4. Machine!End
    BY <1>4, <1>6, <1>7, <1>8, <2>2, <2>3 DEF Machine!End
  <2>5. QED
    BY <1>1, <1>4, <1>5, <1>6, <2>4 DEF Machine!Next
<1>10. CASE b # 0
  <2>1. /\ b \in Nat \ {0} /\ b < Len(depth) /\ b \in Activations /\ ret_addr = Ret(b + 1)
    <3>1. Len(depth) = b + 1 /\ ret_addr = Ret(b + 1)
      BY <1>1, <1>2, Running
    <3>2. QED
      BY <1>10, <3>1 DEF Activations
  <2>2. Code(b) = Ret(b + 1) /\ CodeOK(b)
    BY <1>1, <2>1 DEF Code, FrameInv
  <2>3. ret_addr.place # 0
    BY <2>1, <2>2 DEF CodeOK
  <2>4. ret_addr # CodeEnd
    <3>1. CodeEnd.place = 0
      BY DEF CodeEnd
    <3>2. QED
      BY <2>3, <3>1
  <2>5. status' = "run" /\ ip' = ret_addr
    BY <1>1, <1>3, <2>4 DEF Returned
  <2>6. Executing'
    BY <2>3, <2>5 DEF Executing, IInv
  <2>7. AbsGlobals' = AbsGlobals
    BY <1>1, <1>2, <1>3, <2>1, <2>6, CallerSeen
  <2>8. PICK f, s, self, args, locals, temps :
          /\ AbsFrame(b) = Record(f, s, self, args, locals, temps)
          /\ AbsFrames' = Append([k \in 1..(b - 1) |-> AbsFrame(k)],
                            Record(f, s, self, args, locals, Append(temps, Top(0))))
    BY <1>1, <1>2, <1>3, <2>1, <2>6, CallerSeen
  <2>9. PICK caller, front :
          caller = Machine!Callers[Len(Machine!Callers)] /\ front = Machine!Front(Machine!Callers)
    OBVIOUS
  <2>10. caller = AbsFrame(b) /\ front = [k \in 1..(b - 1) |-> AbsFrame(k)]
    <3>1. PICK S, d, e : /\ S = {AbsFrame(k) : k \in 1..b} /\ d = Below
                         /\ e = [k \in 1..(b - 1) |-> AbsFrame(k)]
      OBVIOUS
    <3>2. d = [k \in 1..b |-> AbsFrame(k)]
      <4>1. Begun - 1 = b
        BY <1>2
      <4>2. QED
        BY <3>1, <4>1 DEF Below
    <3>3. /\ d \in Seq(S) /\ Len(d) = b /\ d[b] = AbsFrame(b)
          /\ \A k \in 1..(b - 1) : d[k] = AbsFrame(k)
      <4>1. \A k \in 1..b : AbsFrame(k) \in S
        BY <3>1
      <4>2. QED
        BY <2>1, <3>2, <4>1
    <3>4. e \in Seq(S) /\ Len(e) = b - 1 /\ \A k \in 1..(b - 1) : e[k] = AbsFrame(k)
      <4>1. b - 1 \in Nat /\ \A k \in 1..(b - 1) : AbsFrame(k) \in S
        BY <2>1, <3>1
      <4>2. QED
        BY <3>1, <4>1
    <3>5. d # << >>
      BY <2>1, <3>3
    <3>6. /\ Front(d) \in Seq(S) /\ Len(Front(d)) = Len(d) - 1
          /\ \A i \in 1..(Len(d) - 1) : Front(d)[i] = d[i]
      BY <3>3, <3>5, FrontLast
    <3>7. PICK h : h = Front(d)
      OBVIOUS
    <3>8. h \in Seq(S) /\ Len(h) = Len(e) /\ \A i \in 1..Len(e) : h[i] = e[i]
      BY <3>3, <3>4, <3>6, <3>7
    <3>9. h = e
      BY <3>4, <3>8, SeqEqual
    <3>10. front = h /\ caller = d[b]
      BY <1>5, <2>9, <3>1, <3>3, <3>7 DEF Machine!Front, Front
    <3>11. QED
      BY <3>1, <3>3, <3>9, <3>10
  <2>11. [caller EXCEPT !.temps = Append(caller.temps, Top(0))] =
           Record(f, s, self, args, locals, Append(temps, Top(0)))
    <3>1. PICK c, t : c = caller /\ t = Append(temps, Top(0))
      OBVIOUS
    <3>2. c = Record(f, s, self, args, locals, temps)
      BY <2>8, <2>10, <3>1
    <3>3. c.temps = temps /\ [c EXCEPT !.temps = t] = Record(f, s, self, args, locals, t)
      BY <3>2 DEF Record
    <3>4. QED
      BY <3>1, <3>3
  <2>12. AbsFrames' = Append(front, [caller EXCEPT !.temps = Append(caller.temps,
                                                         Machine!TopOf(r, 0))])
    BY <1>7, <2>8, <2>10, <2>11
  <2>13. Len(AbsFrames) # 1
    BY <1>5, <1>10
  <2>14. Machine!End
    BY <1>4, <1>6, <1>7, <1>8, <2>7, <2>9, <2>12, <2>13 DEF Machine!End, AbsGlobals
  <2>15. QED
    BY <1>1, <1>4, <1>5, <1>6, <2>14 DEF Machine!Next
<1>11. QED
  BY <1>9, <1>10

---------------------------------------------------------------------------
(***************************************************************************)
(* The theorems.                                                           *)
(***************************************************************************)

\* The program starts with the record of main alone.
LEMMA InitMoves == Init => Machine!Init
<1> SUFFICES ASSUME Init PROVE Machine!Init
  OBVIOUS
<1>1. PICK g \in [1..NGlobals -> Ints] : vstack = g \o <<Zero, Zero>>
  BY DEF Init
<1>2. /\ cstack = <<FALSE, CodeEnd>> /\ closures = << >> /\ ip = Entry("main")
  BY DEF Init
<1>3. Begun = 0 /\ Calling /\ ip.fun = "main"
  <2>1. Len(cstack) = 2
    BY <1>2
  <2>2. 2 \div 5 = 0 /\ 2 % 5 = 2
    OBVIOUS
  <2>3. ip.fun = "main"
    BY <1>2 DEF Entry
  <2>4. QED
    BY <2>1, <2>2, <2>3 DEF Begun, Calling
<1>4. Flag(Begun + 1) = FALSE
  <2>1. Flag(Begun + 1) = cstack[1]
    BY <1>3 DEF Flag
  <2>2. QED
    BY <1>2, <2>1
<1>5. AbsFrames = <<Machine!Frame("main", Machine!Nobody, <<Zero, Zero>>)>>
  <2>1. AbsCall = Machine!Frame("main", Machine!Nobody, <<Zero, Zero>>)
    BY <1>3, <1>4 DEF AbsCall, ClosureValue, Machine!Frame, Machine!Nobody
  <2>2. AbsFrames = [k \in 1..0 |-> AbsFrame(k)] \o <<AbsCall>>
    BY <1>3 DEF AbsFrames
  <2>3. PICK e, c : e = [k \in 1..0 |-> AbsFrame(k)] /\ c = AbsCall
    OBVIOUS
  <2>4. e = << >>
    BY <2>3
  <2>5. << >> \o <<c>> = <<c>>
    <3>1. <<c>> \in Seq({c})
      OBVIOUS
    <3>2. QED
      BY <3>1, ConcatEmptySeq
  <2>6. QED
    BY <2>1, <2>2, <2>3, <2>4, <2>5
<1>6. ASSUME NEW k \in DOMAIN [i \in 1..NGlobals |-> vstack[global(i - 1)]]
      PROVE  [i \in 1..NGlobals |-> vstack[global(i - 1)]][k] \in Ints
  <2>1. PICK n \in Nat : n = NGlobals
    BY SizesTyped
  <2>2. k \in 1..n /\ n + 2 - k \in 1..(n + 1) /\ global(k - 1) = n + 2 - k
    BY <2>1 DEF global
  <2>3. PICK z : z = <<Zero, Zero>>
    OBVIOUS
  <2>4. /\ g \in Seq(Ints) /\ z \in Seq(Ints) /\ Len(g) = n /\ Len(z) = 2
        /\ (\A j \in 1..n : g[j] \in Ints) /\ z[1] \in Ints
    <3>1. Zero \in Ints
      BY IntsAssumption
    <3>2. QED
      BY <2>1, <2>3, <3>1
  <2>5. /\ \A j \in 1..n : vstack[j] = g[j]
        /\ vstack[n + 1] = z[1]
    <3>1. g \in Seq(Ints) /\ z \in Seq(Ints)
      BY <2>4
    <3>2. /\ \A j \in 1..Len(g) : (g \o z)[j] = g[j]
          /\ \A j \in 1..Len(z) : (g \o z)[Len(g) + j] = z[j]
      BY ONLY <3>1, Appended
    <3>3. 1 \in 1..Len(z)
      BY <2>4
    <3>4. QED
      BY <1>1, <2>3, <2>4, <3>2, <3>3
  <2>6. \A j \in 1..(n + 1) : vstack[j] \in Ints
    <3>1. ASSUME NEW j \in 1..(n + 1) PROVE vstack[j] \in Ints
      <4>1. j \in 1..n \/ j = n + 1
        OBVIOUS
      <4>2. QED
        BY <2>4, <2>5, <4>1
    <3>2. QED
      BY <3>1
  <2>7. QED
    BY <2>1, <2>2, <2>6
<1>7. QED
  BY <1>2, <1>5, <1>6 DEF Machine!Init

\* Every step of the interpreter is one of FrameMachine, or leaves the records
\* as they are.
LEMMA StepMoves == IInv /\ IInv' /\ [Next]_vars => [Machine!Next]_(Machine!vars)
<1> SUFFICES ASSUME IInv, IInv', [Next]_vars PROVE [Machine!Next]_(Machine!vars)
  OBVIOUS
<1>1. Unseen => UNCHANGED Machine!vars
  BY DEF Unseen, AbsGlobals, Machine!vars
<1>2. CASE UNCHANGED vars
  <2>1. Unseen
    BY <1>2, Hidden DEF vars
  <2>2. QED
    BY <1>1, <2>1
<1>3. CASE Next
  <2>1. Machine!Next \/ Unseen
    BY <1>3, BuiltinMoves, BarrayMoves, SexpMoves, JmpMoves, CJmpMoves, DropMoves, DupMoves,
      SwapMoves, LstringMoves, LoadNameMoves, StoreNameMoves, ClosureMoves, CallMoves,
      CallCMoves, BeginMoves, EndMoves DEF Next
  <2>2. QED
    BY <1>1, <2>1
<1>4. QED
  BY <1>2, <1>3

\* The two stacks and the frame pointers implement activation records: no
\* instruction touches the arguments, locals or operands of another function,
\* and END gives the caller back what it left (main.cpp: the frame pointers,
\* processCall, processCallC, processBegin, processEnd).
THEOREM FramesRefined == Spec => FramesImplemented
<1>1. Spec => []IInv
  BY Invariance
<1>2. QED
  BY <1>1, InitMoves, StepMoves, PTL DEF Spec, FramesImplemented, Machine!Spec

\* LD and ST reach the argument, local, global or captured variable they name
\* and no other (main.cpp: loc_addr, processLd, processSt).
THEOREM NamesRefined == Spec => NamesImplemented
<1> DEFINE Reached ==
      status = "run" /\ status' = "run" /\ ip.place # 0 =>
        \A loc \in Locations :
          /\ Dispatch("LD", 0) /\ Ld(loc) => Machine!Load(Named(loc))
          /\ Dispatch("ST", 1) /\ St(loc) => Machine!Store(Named(loc))
<1>1. IInv /\ IInv' => Reached
  BY LdMoves, StMoves
<1>2. Spec => []IInv
  BY Invariance
<1>3. NamesImplemented <=> [][Reached]_vars
  BY DEF NamesImplemented
<1> HIDE DEF Reached
<1>4. QED
  BY <1>1, <1>2, <1>3, PTL DEF Spec
=============================================================================
