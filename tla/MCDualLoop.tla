----------------------------- MODULE MCDualLoop ------------------------------
(***************************************************************************)
(* DualLoop for TLC.  Task and message names are interchangeable in every  *)
(* property of the safety run; liveness runs use no symmetry.              *)
(***************************************************************************)
EXTENDS DualLoop, TLC

Symmetry == Permutations(Task) \cup Permutations(Msg)
==============================================================================
