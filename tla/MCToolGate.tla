----------------------------- MODULE MCToolGate ------------------------------
(***************************************************************************)
(* ToolGate for TLC.  Nothing in the code makes the ids of calls unique:   *)
(* here the first two calls have the same id, as from a provider that      *)
(* sends none, and a third has one of its own.                             *)
(***************************************************************************)
EXTENDS ToolGate

RepeatedIds == [c \in Call |-> IF c = 2 THEN 1 ELSE c]
==============================================================================
