--------------------------- MODULE FrameMachine ----------------------------
(***************************************************************************)
(* What the interpreter promises to a compiled program: activation records *)
(* that own their arguments, locals and operands.  A call gives the callee *)
(* a record of its own; the end of the callee gives the caller its record  *)
(* back as it was, with the result on top of its operands, and control     *)
(* where the call left it.                                                 *)
(***************************************************************************)
EXTENDS Naturals, Sequences, FiniteSets, SequencesExt

CONSTANTS
  Ints,       \* the unboxed values a run uses
  Zero,       \* the value locals start with
  Funs        \* the functions: nargs, nlocals, ncaptured

VARIABLES
  frames,     \* the activation records, the running one last
  globals,    \* the global variables
  closures    \* the closures made so far: fun and captured values

vars == <<frames, globals, closures>>

ClosureValue(i) == [closure |-> i]
Values == Ints \cup {ClosureValue(i) : i \in DOMAIN closures}
Nobody == [closure |-> 0]     \* self of a function that is not a closure

Running == frames[Len(frames)]
Callers == Front(frames)

Frame(f, self, args) ==
  [fun |-> f, at |-> 0, self |-> self, args |-> args, locals |-> << >>,
   temps |-> << >>]

TopOf(f, n) == f.temps[Len(f.temps) - n]
Without(f, n) == SubSeq(f.temps, 1, Len(f.temps) - n)
Topmost(f, n) == SubSeq(f.temps, Len(f.temps) - n + 1, Len(f.temps))

Locations(f) ==
  {<<"G", i>> : i \in DOMAIN globals} \cup {<<"L", i>> : i \in DOMAIN f.locals}
    \cup {<<"A", i>> : i \in DOMAIN f.args}
    \cup {<<"C", i>> : i \in IF f.self = Nobody THEN {}
                             ELSE DOMAIN closures[f.self.closure].captured}

Read(f, loc) ==
  CASE loc[1] = "G" -> globals[loc[2]]
    [] loc[1] = "L" -> f.locals[loc[2]]
    [] loc[1] = "A" -> f.args[loc[2]]
    [] loc[1] = "C" -> closures[f.self.closure].captured[loc[2]]

Init == /\ frames = <<Frame("main", Nobody, <<Zero, Zero>>)>>
        /\ \A i \in DOMAIN globals : globals[i] \in Ints
        /\ closures = << >>

\* BEGIN: the locals of the running function come into being.
Begin ==
  /\ Running.at = 0
  /\ \E s \in {frames'[Len(frames)].at} \ {0} :
       frames' = Append(Callers, [Running EXCEPT !.at = s,
                         !.locals = [i \in 1..Funs[Running.fun].nlocals |-> Zero]])
  /\ UNCHANGED <<globals, closures>>

\* Operands are replaced by an integer, dropped, or doubled, and control may
\* jump within the function.
Operate ==
  /\ UNCHANGED <<globals, closures>>
  /\ Len(frames') = Len(frames)
  /\ \E s \in {frames'[Len(frames)].at} \ {0} :
       LET f == [Running EXCEPT !.at = s] IN
       \/ \E v \in Ints, n \in 0..Len(f.temps) :
            frames' = Append(Callers, [f EXCEPT !.temps = Append(Without(f, n), v)])
       \/ frames' = Append(Callers, f)
       \/ /\ f.temps # << >>
          /\ \/ frames' = Append(Callers, [f EXCEPT !.temps = Without(f, 1)])
             \/ frames' = Append(Callers, [f EXCEPT !.temps = Append(@, TopOf(f, 0))])

\* The value at loc becomes an operand.
Load(loc) ==
  /\ frames' = Append(Callers, [Running EXCEPT !.temps = Append(@, Read(Running, loc))])
  /\ UNCHANGED <<globals, closures>>

\* The topmost operand becomes the value at loc, and nothing else changes.
Store(loc) ==
  LET f == Running
      v == TopOf(f, 0)
      Owned(g) == frames' = Append(Callers, g)
  IN /\ f.temps # << >>
     /\ globals' = IF loc[1] = "G" THEN [globals EXCEPT ![loc[2]] = v] ELSE globals
     /\ closures' = IF loc[1] = "C"
                      THEN [closures EXCEPT ![f.self.closure].captured[loc[2]] = v]
                      ELSE closures
     /\ CASE loc[1] = "L" -> Owned([f EXCEPT !.locals[loc[2]] = v])
          [] loc[1] = "A" -> Owned([f EXCEPT !.args[loc[2]] = v])
          [] OTHER -> UNCHANGED frames

MakeClosure ==
  LET f == Running
      i == Len(closures) + 1
  IN /\ \E g \in DOMAIN Funs :
          \E locs \in [1..Funs[g].ncaptured -> Locations(f)] :
            closures' = Append(closures, [fun |-> g,
                          captured |-> [j \in DOMAIN locs |-> Read(f, locs[j])]])
     /\ frames' = Append(Callers, [f EXCEPT !.temps = Append(@, ClosureValue(i))])
     /\ UNCHANGED globals

\* A call: control will come back to the place s of the running function.
Call ==
  LET f == Running
      callee == frames'[Len(frames')]
      n == Len(callee.args)
  IN /\ UNCHANGED <<globals, closures>>
     /\ Len(frames') = Len(frames) + 1
     /\ callee.fun \in DOMAIN Funs /\ n = Funs[callee.fun].nargs
     /\ Len(f.temps) >= n
     /\ callee = Frame(callee.fun, callee.self, Topmost(f, n))
     /\ LET dropped == IF callee.self = Nobody THEN n ELSE n + 1 IN
          /\ Len(f.temps) >= dropped
          /\ callee.self # Nobody =>
               /\ callee.self = TopOf(f, n)
               /\ callee.fun = closures[callee.self.closure].fun
          /\ \E s \in {frames'[Len(frames)].at} :
               frames' = Callers \o <<[f EXCEPT !.at = s,
                                                !.temps = Without(f, dropped)],
                                      callee>>

\* END of a function, and of main, with the result on top.  The globals end
\* with main.
End ==
  LET f == Running IN
  /\ f.temps # << >>
  /\ frames' = IF Len(frames) = 1 THEN << >>
               ELSE LET caller == Callers[Len(Callers)] IN
                    Append(Front(Callers),
                           [caller EXCEPT !.temps = Append(@, TopOf(f, 0))])
  /\ UNCHANGED closures
  /\ Len(frames) > 1 => UNCHANGED globals

Next == /\ frames # << >>
        /\ \/ Begin
           \/ Running.at # 0 /\ (\/ Operate \/ MakeClosure \/ Call \/ End
                                 \/ \E loc \in Locations(Running) : Load(loc) \/ Store(loc))

Spec == Init /\ [][Next]_vars
=============================================================================
