------------------------------ MODULE FileLock ------------------------------
(***************************************************************************)
(* The lock of one file (lock.c), the symbolic link .#FILE, and the places *)
(* of ins.c, buffer.c, file.c and cmds.c that take it and give it up, in   *)
(* several JED processes that each have a buffer attached to the file.     *)
(*                                                                         *)
(* The processes share nothing but the directory, so every system call is  *)
(* an action of its own: symlink, lstat, readlink, kill, unlink.  pc[p] is *)
(* where in jed_lock_file or jed_unlock_file process p is, for the         *)
(* command op[p]; the answers "got", "proceed", "fail" and "abort" *)
(* are the ways jed_lock_file ends: with the lock, without it (return      *)
(* value 0 both), with -1 and no error raised, with -1 and an error.       *)
(***************************************************************************)
EXTENDS Naturals, FiniteSets

CONSTANTS
  Procs,       \* the processes, each for its pid
  None,        \* no process
  Host,        \* Host[p]: the machine p runs on
  Writable,    \* the processes that may create links in the directory
  Batch,       \* the processes that run without a user
  Replies,     \* the answers users give when asked about a lock
  Ops,         \* the commands in use, a subset of AllOps
  Failures,    \* the calls that may fail, a subset of {"write", "read"}
  CanCrash,    \* may a process die without unlocking?
  MaxOps       \* bound on the number of commands

AllOps == {"edit", "touch", "flag", "region", "save", "discard", "quit"}

ASSUME NoneAssumption == None \notin Procs
ASSUME WritableAssumption == Writable \subseteq Procs
ASSUME OpsAssumption ==
  /\ Ops \subseteq AllOps
  /\ Replies \subseteq {"steal", "proceed", "abort"}
  /\ Failures \subseteq {"write", "read"} /\ CanCrash \in BOOLEAN /\ MaxOps \in Nat

Places == {"idle", "try", "look", "read", "probe", "ask", "force", "unlink", "relink",
           "got", "proceed", "fail", "abort", "unlock", "unlinkown", "exit"}

VARIABLES
  link,      \* the process that the link .#FILE names, or None: no such link
  alive,     \* alive[p]: p has not exited
  modified,  \* modified[p]: BUFFER_MODIFIED of its buffer
  pc, op,
  seen,      \* seen[p]: the owner get_lock_info found last
  held,      \* ghost: who was given the lock and has not given it up
  guarded,   \* ghost: whose buffer was modified with the lock in hand
  consent,   \* ghost: consent[p] is the owner the user of p chose to rob
  ops        \* number of commands so far

lockVars == <<link, alive, modified, pc, op, seen, held, guarded, consent, ops>>
local == <<modified, op, seen, consent>>

LockInit ==
  /\ link = None
  /\ alive = [p \in Procs |-> TRUE]
  /\ modified = [p \in Procs |-> FALSE]
  /\ pc = [p \in Procs |-> "idle"] /\ op = [p \in Procs |-> "none"]
  /\ seen = [p \in Procs |-> None]
  /\ held = {} /\ guarded = {}
  /\ consent = [p \in Procs |-> None]
  /\ ops = 0

At(p, place) == alive[p] /\ pc[p] = place
Go(p, place) == pc' = [pc EXCEPT ![p] = place]
-----------------------------------------------------------------------------
(* Commands.                                                               *)

Begin(p, o, place) ==
  /\ At(p, "idle") /\ o \in Ops /\ ops < MaxOps
  /\ op' = [op EXCEPT ![p] = o]
  /\ ops' = ops + 1
  /\ Go(p, place)
  /\ UNCHANGED <<link, alive, seen, held, consent>>

(* jed_prepare_for_modification, before a change ("edit") or before a      *)
(* command that turns out to change nothing ("touch": erase_buffer of an   *)
(* empty buffer, jed_del_newline at the end of the buffer).                *)
Prepare(p) ==
  /\ ~modified[p]
  /\ Begin(p, "edit", "try") \/ Begin(p, "touch", "try")
  /\ UNCHANGED <<modified, guarded>>

(* The S-Lang program sets the modified flag: marked first, locked then.   *)
FlagModified(p) ==
  /\ ~modified[p]
  /\ Begin(p, "flag", "try")
  /\ modified' = [modified EXCEPT ![p] = TRUE]
  /\ UNCHANGED guarded

(* Save the buffer, or write or append a region of another buffer to the   *)
(* file.                                                                   *)
WriteFile(p) ==
  /\ Begin(p, "save", "try") \/ Begin(p, "region", "try")
  /\ UNCHANGED <<modified, guarded>>

(* Mutant: marking the buffer unmodified does not unlock the file.         *)
BugDiscard(p) ==
  /\ modified[p]
  /\ Begin(p, "discard", "idle")
  /\ modified' = [modified EXCEPT ![p] = FALSE]
  /\ guarded' = guarded \ {p}

(* undo() or the S-Lang program marks the buffer unmodified.               *)
Discard(p) ==
  /\ modified[p]
  /\ Begin(p, "discard", "unlock")
  /\ modified' = [modified EXCEPT ![p] = FALSE]
  /\ guarded' = guarded \ {p}

(* jed_quit_jed: the user may have declined to save.                       *)
Quit(p) ==
  /\ Begin(p, "quit", "unlock")
  /\ UNCHANGED <<modified, guarded>>

Crash(p) ==
  /\ CanCrash /\ alive[p]
  /\ alive' = [alive EXCEPT ![p] = FALSE]
  /\ held' = held \ {p} /\ guarded' = guarded \ {p}
  /\ UNCHANGED <<link, pc, ops, local>>
-----------------------------------------------------------------------------
(* jed_lock_file.                                                          *)

(* symlink() succeeds, or is denied (then perform_lock claims success), or *)
(* finds the link there.                                                   *)
Symlink(p, exists) ==
  IF link # None THEN Go(p, exists) /\ UNCHANGED <<link, held>>
  ELSE IF p \in Writable
  THEN link' = p /\ held' = held \cup {p} /\ Go(p, "got")
  ELSE Go(p, "proceed") /\ UNCHANGED <<link, held>>

TryLock(p) ==
  /\ At(p, "try")
  /\ Symlink(p, "look")
  /\ UNCHANGED <<alive, guarded, ops, local>>

(* get_lock_info: lstat.                                                   *)
LookAtLock(p) ==
  /\ At(p, "look")
  /\ \/ Go(p, IF link = None THEN "try" ELSE "read")
     \/ "read" \in Failures /\ Go(p, "fail")
  /\ UNCHANGED <<link, alive, held, guarded, ops, local>>

(* Mutant: the lock is tried for again when it is found to be one's own.   *)
BugReadLock(p) ==
  /\ At(p, "read")
  /\ seen' = [seen EXCEPT ![p] = link]
  /\ Go(p, IF link = None THEN "fail" ELSE IF link = p THEN "try" ELSE "probe")
  /\ UNCHANGED <<link, alive, modified, op, held, guarded, consent, ops>>

(* get_lock_info: readlink, and compare_lock_info with oneself.  A link    *)
(* that has vanished since lstat, or cannot be read, ends jed_lock_file.   *)
ReadLock(p) ==
  /\ At(p, "read")
  /\ seen' = [seen EXCEPT ![p] = link]
  /\ \/ link = p /\ Go(p, "got") /\ held' = held \cup {p}
     \/ link \notin {None, p} /\ Go(p, "probe") /\ UNCHANGED held
     \/ (link = None \/ "read" \in Failures) /\ Go(p, "fail") /\ UNCHANGED held
  /\ UNCHANGED <<link, alive, modified, op, guarded, consent, ops>>

(* Mutant: what kill() returns is not looked at.                           *)
BugProbe(p) ==
  /\ At(p, "probe")
  /\ Go(p, IF Host[seen[p]] = Host[p] THEN "force"
           ELSE IF p \in Batch THEN "abort" ELSE "ask")
  /\ UNCHANGED <<link, alive, held, guarded, ops, local>>

(* kill(pid, 0) tells whether a process of the same machine exists.        *)
Probe(p) ==
  /\ At(p, "probe")
  /\ Go(p, IF Host[seen[p]] = Host[p] /\ ~alive[seen[p]] THEN "force"
           ELSE IF p \in Batch THEN "abort" ELSE "ask")
  /\ UNCHANGED <<link, alive, held, guarded, ops, local>>

AskAboutLock(p) ==
  /\ At(p, "ask")
  /\ \E a \in Replies :
       /\ Go(p, IF a = "steal" THEN "force" ELSE a)
       /\ consent' = IF a = "steal" THEN [consent EXCEPT ![p] = seen[p]]
                     ELSE consent
  /\ UNCHANGED <<link, alive, modified, op, seen, held, guarded, ops>>

(* perform_lock with force: symlink, and if the link is there unlink and   *)
(* symlink once more.                                                      *)
ForceLock(p) ==
  /\ At(p, "force")
  /\ Symlink(p, "unlink")
  /\ UNCHANGED <<alive, guarded, ops, local>>

UnlinkForeign(p) ==
  /\ At(p, "unlink")
  /\ IF p \in Writable
     THEN /\ link' = None
          /\ held' = held \ {consent[p]} /\ guarded' = guarded \ {consent[p]}
     ELSE UNCHANGED <<link, held, guarded>>
  /\ Go(p, "relink")
  /\ UNCHANGED <<alive, ops, local>>

Relink(p) ==
  /\ At(p, "relink")
  /\ IF link = None /\ p \in Writable
     THEN link' = p /\ held' = held \cup {p} /\ Go(p, "got")
     ELSE Go(p, "fail") /\ UNCHANGED <<link, held>>
  /\ UNCHANGED <<alive, guarded, ops, local>>
-----------------------------------------------------------------------------
(* What the callers do next.                                               *)

Idle(p) ==
  /\ Go(p, "idle")
  /\ op' = [op EXCEPT ![p] = "none"]
  /\ consent' = [consent EXCEPT ![p] = None]

(* Only an error stops an edit; a lock that just failed does not.          *)
EditLocked(p) ==
  /\ alive[p] /\ pc[p] \in {"got", "proceed", "fail"}
  /\ op[p] = "edit"
  /\ modified' = [modified EXCEPT ![p] = TRUE]
  /\ guarded' = IF pc[p] = "got" /\ p \in held THEN guarded \cup {p} ELSE guarded
  /\ Idle(p)
  /\ UNCHANGED <<link, alive, seen, held, ops>>

NothingToDo(p) ==
  /\ alive[p] /\ pc[p] \in {"got", "proceed", "fail", "abort"}
  /\ \/ op[p] \in {"touch", "flag"}
     \/ op[p] = "edit" /\ pc[p] = "abort"
     \/ op[p] \in {"save", "region"} /\ pc[p] \in {"fail", "abort"}
  /\ Idle(p)
  /\ UNCHANGED <<link, alive, modified, seen, held, guarded, ops>>

(* write_region_internal: an error on the way returns before the unlock.   *)
Write(p) ==
  /\ alive[p] /\ pc[p] \in {"got", "proceed"}
  /\ op[p] \in {"save", "region"}
  /\ \/ Go(p, "unlock") /\ UNCHANGED <<op, consent>>
     \/ "write" \in Failures /\ Idle(p)
  /\ UNCHANGED <<link, alive, modified, seen, held, guarded, ops>>

(* Mutant: a save does not mark the buffer unmodified.                     *)
BugUnlocked(p) ==
  /\ IF op[p] = "quit" THEN Go(p, "exit") /\ UNCHANGED <<op, consent>> ELSE Idle(p)
  /\ UNCHANGED <<modified, guarded>>

(* The end of jed_unlock_file.  A save goes on to mark the buffer          *)
(* unmodified, which unlocks once more; quitting exits.                    *)
Unlocked(p) ==
  CASE op[p] = "save" ->
         /\ modified' = [modified EXCEPT ![p] = FALSE]
         /\ guarded' = guarded \ {p}
         /\ op' = [op EXCEPT ![p] = "discard"]
         /\ Go(p, "unlock")
         /\ UNCHANGED consent
    [] op[p] = "quit" ->
         /\ Go(p, "exit")
         /\ UNCHANGED <<modified, guarded, op, consent>>
    [] OTHER ->
         /\ Idle(p)
         /\ UNCHANGED <<modified, guarded>>

(* Mutant: the link is removed whoever it names.                           *)
BugReadOwn(p) ==
  /\ At(p, "unlock")
  /\ IF link # None
     THEN Go(p, "unlinkown") /\ UNCHANGED <<op, consent, modified, guarded>>
     ELSE Unlocked(p)
  /\ held' = held \ {p}
  /\ UNCHANGED <<link, alive, seen, ops>>

(* jed_unlock_file: get_lock_info, then unlink if the link is one's own.   *)
(* One step stands for lstat and readlink: a link to oneself does not come *)
(* between the two, and for any other nothing is done.                     *)
ReadOwn(p) ==
  /\ At(p, "unlock")
  /\ \/ /\ link = p
        /\ Go(p, "unlinkown") /\ UNCHANGED <<op, consent, modified, guarded>>
     \/ (link # p \/ "read" \in Failures) /\ Unlocked(p)
  /\ held' = held \ {p}
  /\ UNCHANGED <<link, alive, seen, ops>>

UnlinkOwn(p) ==
  /\ At(p, "unlinkown")
  /\ link' = None
  /\ Unlocked(p)
  /\ UNCHANGED <<alive, seen, held, ops>>

Exit(p) ==
  /\ At(p, "exit")
  /\ alive' = [alive EXCEPT ![p] = FALSE]
  /\ guarded' = guarded \ {p}
  /\ Idle(p)
  /\ UNCHANGED <<link, modified, seen, held, ops>>
-----------------------------------------------------------------------------
Command(p) == Prepare(p) \/ FlagModified(p) \/ WriteFile(p) \/ Discard(p) \/ Quit(p)

Lock(p) ==
  \/ TryLock(p) \/ LookAtLock(p) \/ ReadLock(p) \/ Probe(p) \/ AskAboutLock(p)
  \/ ForceLock(p) \/ UnlinkForeign(p) \/ Relink(p)

Finish(p) ==
  \/ EditLocked(p) \/ NothingToDo(p) \/ Write(p)
  \/ ReadOwn(p) \/ UnlinkOwn(p) \/ Exit(p)

LockNext == \E p \in Procs : Command(p) \/ Lock(p) \/ Finish(p) \/ Crash(p)

(* A process that has begun a command runs on, and its user answers.       *)
LockSpec ==
  /\ LockInit /\ [][LockNext]_lockVars
  /\ \A p \in Procs : WF_lockVars(Lock(p) \/ Finish(p))
-----------------------------------------------------------------------------
(* Types; only a process that may create links is ever named by the link.  *)
LockTypeOK ==
  /\ link \in Procs \cup {None}
  /\ alive \in [Procs -> BOOLEAN] /\ modified \in [Procs -> BOOLEAN]
  /\ pc \in [Procs -> Places] /\ op \in [Procs -> AllOps \cup {"none"}]
  /\ seen \in [Procs -> Procs \cup {None}] /\ consent \in [Procs -> Procs \cup {None}]
  /\ held \subseteq Procs /\ guarded \subseteq Procs
  /\ ops \in Nat
  /\ \A p \in Procs : pc[p] = "probe" => seen[p] \in Procs \ {p}

(* Two processes never both have the lock: whoever was given it, and has   *)
(* neither given it up nor lost it by a theft his robber's user asked for, *)
(* is the one the link names (lock.c: symlink is what decides).            *)
MutualExclusion == \A p \in held : link = p

(* A buffer that was modified with the lock in hand stays locked until it  *)
(* is no longer modified (doc/txt/filelock.txt, and jed_lock_file's        *)
(* callers: the lock a save gives up is that of a buffer it marks          *)
(* unmodified).                                                            *)
EditIsLocked == \A p \in guarded : pc[p] = "idle" => p \in held

(* A process that runs, is between commands and has no unsaved change      *)
(* leaves the file unlocked, so that others need not ask about it.         *)
IdleHoldsNoLock ==
  \A p \in Procs : At(p, "idle") /\ ~modified[p] => link # p

(* The link implements the lock that the documentation describes.          *)
Service == INSTANCE LockService WITH holder <- link, has <- held
ServiceSpec == Service!Spec

(* An attempt to lock or unlock the file ends, once the other processes    *)
(* leave the file alone: jed_lock_file's loop does not feed itself.        *)
AttemptEnds == \A p \in Procs : pc[p] # "idle" ~> pc[p] = "idle" \/ ~alive[p]
=============================================================================
