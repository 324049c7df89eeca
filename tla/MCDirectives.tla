---------------------------- MODULE MCDirectives -----------------------------
(***************************************************************************)
(* Directives for TLC.  Task and session names are interchangeable in both *)
(* of its invariants.                                                      *)
(***************************************************************************)
EXTENDS Directives, TLC

Symmetry == Permutations(Task) \cup Permutations(Session)
==============================================================================
