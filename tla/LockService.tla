---------------------------- MODULE LockService ----------------------------
(***************************************************************************)
(* What doc/txt/filelock.txt promises of the lock of one file: it is       *)
(* granted to one process at a time, that process has it until it gives    *)
(* it up or ends, and only then does the file become free for another.     *)
(* (Asking a user and stealing the lock on his word is left out: he        *)
(* overrides the service.)                                                 *)
(***************************************************************************)
CONSTANTS Procs, None

VARIABLES
  holder,  \* the process the file is locked by, or None
  has,     \* the processes that count on having the lock
  alive    \* alive[p]: does process p still run?

vars == <<holder, has, alive>>

Init == holder = None /\ has = {} /\ alive = [p \in Procs |-> TRUE]

Grant(p) ==
  /\ alive[p] /\ holder \in {None, p}
  /\ holder' = p /\ has' = has \cup {p}
  /\ UNCHANGED alive

GiveUp(p) ==
  /\ alive[p]
  /\ has' = has \ {p}
  /\ UNCHANGED <<holder, alive>>

Vacate ==
  /\ holder \notin has
  /\ holder' = None
  /\ UNCHANGED <<has, alive>>

End(p) ==
  /\ alive' = [alive EXCEPT ![p] = FALSE]
  /\ has' = has \ {p}
  /\ UNCHANGED holder

Next == Vacate \/ \E p \in Procs : Grant(p) \/ GiveUp(p) \/ End(p)

Spec == Init /\ [][Next]_vars
=============================================================================
