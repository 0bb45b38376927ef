--------------------------- MODULE MCInterpreter ---------------------------
(***************************************************************************)
(* Interpreter for TLC: programs over a few functions.                     *)
(***************************************************************************)
EXTENDS Interpreter

CONSTANTS zero, one

MCInts == {zero, one}

\* A case expression outside the functions binds a variable.
Main == [nargs |-> 2, nlocals |-> 1, ncaptured |-> 0]

\* A function with a local, and one that captures a variable.
CapturingFuns == [main |-> Main,
                  f |-> [nargs |-> 1, nlocals |-> 1, ncaptured |-> 0],
                  h |-> [nargs |-> 1, nlocals |-> 0, ncaptured |-> 1]]

\* Functions without and with several arguments and locals.
PlainFuns == [main |-> Main,
              f |-> [nargs |-> 2, nlocals |-> 2, ncaptured |-> 0],
              g |-> [nargs |-> 0, nlocals |-> 0, ncaptured |-> 0]]

\* A function of two arguments that is called as a closure.
ClosureFuns == [main |-> Main,
                f |-> [nargs |-> 2, nlocals |-> 0, ncaptured |-> 0]]
=============================================================================
