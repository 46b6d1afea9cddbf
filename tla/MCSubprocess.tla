---------------------------- MODULE MCSubprocess ----------------------------
(* Instances of Subprocess for TLC: a process with a hook for its status   *)
(* and a function that its output goes to.                                 *)
EXTENDS Subprocess

CONSTANTS b1, b2

MCSetups == {[calls |-> TRUE, slang |-> TRUE]}
=============================================================================
