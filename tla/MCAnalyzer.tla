----------------------------- MODULE MCAnalyzer -----------------------------
(***************************************************************************)
(* Analyzer for TLC: every code of N instructions, every set of public     *)
(* symbols, every order of theirs.                                         *)
(***************************************************************************)
EXTENDS Analyzer
=============================================================================
