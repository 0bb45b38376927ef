---------------------------- MODULE MCExecution ----------------------------
(***************************************************************************)
(* Two programs with a function that calls itself, a closure that captures *)
(* a variable, branches forward and back, text and a failing match: one    *)
(* with "main" last, one with "main" first.                                *)
(***************************************************************************)
EXTENDS Execution, Compiler

\* Opcodes.
BEGIN(args, locals) == Instr(82, <<args, locals>>)
CBEGIN(args, locals) == Instr(83, <<args, locals>>)
END == Instr(22, << >>)
LD(type, i) == Instr(32 + type, <<i>>)
DROP == Instr(24, << >>)
TEXT(s) == Instr(17, <<s>>)
FAIL == Instr(89, <<1, 1>>)
JMP(k) == Branch(21, k, << >>)
CJMPZ(k) == Branch(80, k, << >>)
CJMPNZ(k) == Branch(81, k, << >>)
CALL(k, args) == Branch(86, k, <<args>>)
CALLC(args) == Instr(85, <<args>>)

MainLast ==
  <<BEGIN(1, 0), LD(2, 0), CJMPNZ(6), TEXT(0), JMP(8), LD(2, 0), CALL(1, 1), END,
    CBEGIN(0, 0), LD(3, 0), CJMPZ(13), FAIL, JMP(14), LD(3, 0), END,
    BEGIN(2, 0), LD(0, 0), Capture(9, 1), CALLC(0), DROP, LD(0, 0), CALL(1, 1), END>>

MainFirst ==
  <<BEGIN(2, 0), LD(0, 0), CALL(8, 1), CJMPZ(6), JMP(2), LD(0, 0), END,
    BEGIN(1, 0), Capture(13, 2), CALLC(0), DROP, END,
    CBEGIN(0, 0), LD(3, 1), END>>

MCGarbage == {-1, 0, 1, 2}
MCFiles == {File(MainLast, <<1, 16>>, 1), File(MainFirst, <<1>>, 1)}
=============================================================================
