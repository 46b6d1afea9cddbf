----------------------------- MODULE MCFileLock -----------------------------
(* Instances of FileLock for TLC: two processes of one machine, and a      *)
(* third one of another machine.                                           *)
EXTENDS FileLock, TLC

CONSTANTS p1, p2, p3, here, there

MCHost == (p1 :> here) @@ (p2 :> here) @@ (p3 :> there)
=============================================================================
