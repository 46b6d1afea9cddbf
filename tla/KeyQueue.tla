------------------------------ MODULE KeyQueue ------------------------------
(***************************************************************************)
(* What the keyboard input of JED promises to its commands (sysdep.c,      *)
(* unix.c): the keys are a queue.  A command gets the first of them; what  *)
(* it gives back is the first again; nothing is lost except with a beep,   *)
(* and only the abort character passes the keys that were typed before it. *)
(***************************************************************************)
EXTENDS Naturals, Sequences

CONSTANTS
  Typed,  \* the characters, as keymaps see them, that one key gives
  Given,  \* what programs type at once
  Abort,  \* Jed_Abort_Char
  Beep    \* the keys were dropped and the user was told

VARIABLES
  queue,  \* the characters that are owed to commands
  got     \* the last of them that a command got, or Beep

vars == <<queue, got>>

Init == queue = <<>> /\ got = Beep

(* With its eighth bit a key is two characters.                            *)
Type == \E s \in Typed : queue' = queue \o s /\ got' = got

Take == queue # <<>> /\ got' = Head(queue) /\ queue' = Tail(queue)

(* Not a key but a signal: it does not wait for its turn.                  *)
Interrupt == got' = Abort /\ UNCHANGED queue
InterruptAhead == queue' = <<Abort>> \o queue /\ UNCHANGED got

(* A command gets a key and gives it back.                                 *)
Look == \/ queue # <<>> /\ got' = Head(queue) /\ UNCHANGED queue
        \/ got' = Abort /\ queue' = <<Abort>> \o queue

(* buffer_keystring, by the command that the last key was for: keys that a *)
(* program types.                                                          *)
Inserted(q) ==
  \E n \in 0..Len(q), s \in Given :
    queue' = SubSeq(q, 1, n) \o s \o SubSeq(q, n + 1, Len(q))

Stuff ==
  \/ Inserted(queue) /\ got' \in {got, Abort}
  \/ queue # <<>> /\ got' = Head(queue) /\ Inserted(Tail(queue))

Flush ==
  \E n \in 0..Len(queue) : queue' = SubSeq(queue, n + 1, Len(queue)) /\ got' = Beep

Next ==
  \/ Type \/ Take \/ Interrupt \/ InterruptAhead
  \/ Look \/ Stuff \/ Flush

Spec == Init /\ [][Next]_vars
=============================================================================
