----------------------------- MODULE Subprocess -----------------------------
(***************************************************************************)
(* Subprocesses of JED (jprocess.c): how one is started, how its output    *)
(* gets into its buffer or to a S-Lang function, and how its end is        *)
(* noticed, reported and cleared away.                                     *)
(*                                                                         *)
(* JED is one thread that a signal may interrupt between any two steps;    *)
(* the children run on their own.  The thread is a stack of frames, the    *)
(* top one first: open_process, jed_get_child_status, read_process_input   *)
(* and the S-Lang functions these call.  A frame with at = "hook" stands   *)
(* for such a function, which may kill processes and buffers as a user may *)
(* at top level.  The current buffer, what the output is, errors of S-Lang *)
(* functions and the flagging of descriptors with EIO are left out, and a  *)
(* child dies only after it has started its program.                       *)
(***************************************************************************)
EXTENDS Integers, Sequences, FiniteSets, FiniteSetsExt, SequencesExt

CONSTANTS
  MaxProcesses, \* MAX_PROCESSES, the slots of the table Processes
  MaxForks,     \* bound on the children started
  MaxOut,       \* bound on the chunks children write
  MaxStops,     \* bound on the times children are stopped
  Setups,       \* what set_process() is used for: see slot
  Buffers, None,
  HooksUpdate,  \* S-Lang functions of processes may call update()
  DropClosed    \* a buffer may be killed, or get another process, while its
                \* last one has been closed and is not cleared away yet

ASSUME SubprocessAssumption ==
  /\ MaxProcesses \in Nat \ {0} /\ MaxForks \in Nat \ {0}
  /\ Setups \subseteq [calls: BOOLEAN, slang: BOOLEAN]
  /\ MaxOut \in Nat /\ MaxStops \in Nat /\ None \notin Buffers
  /\ HooksUpdate \in BOOLEAN /\ DropClosed \in BOOLEAN

Slots == 1..MaxProcesses
Pids == 1..MaxForks
Jed == 0
NoSlot == 0

VARIABLES
  slot,   \* Processes
  tab,    \* Subprocess_Read_fds[.][1]
  num,    \* Num_Subprocesses
  flag,   \* Child_Status_Changed_Flag
  sub,    \* sub[b]: the slot b->subprocess stands for
  bufs,   \* the buffers that exist
  stack,  \* the frames of JED's thread
  chld,   \* a SIGCHLD is pending
  handling, \* child_signal_handler runs
  usr,    \* SIGUSR1 and SigUsr_Flag of JED and of its children
  proc,   \* the children, as the system has them
  told    \* ghost: the flags the hook of a child was last given

vars == <<slot, tab, num, flag, sub, bufs, stack, chld, handling, usr, proc, told>>

(* flags: "gone" is 0, "exited" is PROCESS_EXITED or PROCESS_SIGNALLED.    *)
(* open: rd is a descriptor; calls: a status_change_fun is set; slang:     *)
(* output_type is PROCESS_USE_SLANG.                                       *)
Flags == {"gone", "running", "stopped", "exited"}
Process == [pid: Pids \cup {0}, flags: Flags, changed: Nat, open: BOOLEAN,
            buffer: Buffers \cup {None}, calls: BOOLEAN, slang: BOOLEAN]
FreeSlot == [pid |-> 0, flags |-> "gone", changed |-> 0, open |-> FALSE,
             buffer |-> None, calls |-> FALSE, slang |-> FALSE]

(* news: waitpid would return a status.  out: chunks written; pipe: those  *)
(* JED has not read; got: those that reached the buffer or the function.   *)
States == {"none", "waiting", "doze", "suspended", "ready", "running", "stopped", "dead"}
Child == [st: States, news: BOOLEAN, stops: Nat, out: Nat, pipe: Nat, got: Nat]

Frame(at, s, b, v) == [at |-> at, s |-> s, b |-> b, v |-> v]
Top == Head(stack)
At(at) == stack # <<>> /\ Top.at = at /\ ~handling
Goto(at) == stack' = [stack EXCEPT ![1].at = at]
Pop == stack' = Tail(stack)
Push(frame) == stack' = <<frame>> \o stack

NewChild == [st |-> "none", news |-> FALSE, stops |-> 0, out |-> 0, pipe |-> 0, got |-> 0]
NewSignal == [flag |-> FALSE, pend |-> FALSE, blocked |-> FALSE]

Init ==
  /\ slot = [s \in Slots |-> FreeSlot]
  /\ tab = [i \in 0..(MaxProcesses - 1) |-> NoSlot] /\ num = 0 /\ flag = 0
  /\ sub = [b \in Buffers |-> NoSlot] /\ bufs = Buffers
  /\ stack = <<>> /\ chld = FALSE /\ handling = FALSE
  /\ usr = [q \in Pids \cup {Jed} |-> NewSignal]
  /\ proc = [p \in Pids |-> NewChild]
  /\ told = [p \in Pids |-> "gone"]

(* Where a user's command, or a S-Lang function, may act.                  *)
Idle == stack = <<>> /\ ~handling
InCommand == Idle \/ At("hook")
-----------------------------------------------------------------------------
(* The children and the signals.                                           *)

Change(p, st) ==
  /\ proc' = [proc EXCEPT ![p].st = st, ![p].news = (st # "running"),
                          ![p].stops = IF st = "stopped" THEN @ + 1 ELSE @]
  /\ chld' = TRUE

Total(f(_)) == FoldSet(LAMBDA p, n : n + f(p), 0, Pids)
Stops(p) == proc[p].stops
Out(p) == proc[p].out

Exit(p) ==
  /\ proc[p].st = "running" /\ Change(p, "dead")
  /\ UNCHANGED <<slot, tab, num, flag, sub, bufs, stack, handling, usr, told>>

Stop(p) ==
  /\ proc[p].st = "running" /\ Total(Stops) < MaxStops /\ Change(p, "stopped")
  /\ UNCHANGED <<slot, tab, num, flag, sub, bufs, stack, handling, usr, told>>

Continue(p) ==
  /\ proc[p].st = "stopped" /\ Change(p, "running")
  /\ UNCHANGED <<slot, tab, num, flag, sub, bufs, stack, handling, usr, told>>

Write(p) ==
  /\ proc[p].st = "running" /\ Total(Out) < MaxOut
  /\ proc' = [proc EXCEPT ![p].out = @ + 1, ![p].pipe = @ + 1]
  /\ UNCHANGED <<slot, tab, num, flag, sub, bufs, stack, chld, handling, usr, told>>

(* SIGCHLD: child_signal_handler looks at every slot with a pid until a    *)
(* round finds nothing; the thread stands still.                           *)
HandlerStarts ==
  /\ chld /\ ~handling
  /\ chld' = FALSE /\ handling' = TRUE
  /\ UNCHANGED <<slot, tab, num, flag, sub, bufs, stack, usr, proc, told>>

Waitable(s) == slot[s].pid # 0 /\ proc[slot[s].pid].news

Collect(s) ==
  /\ handling /\ Waitable(s)
  /\ slot' = [slot EXCEPT ![s].changed = @ + 1, ![s].flags =
                IF proc[slot[s].pid].st = "dead" THEN "exited" ELSE "stopped"]
  /\ proc' = [proc EXCEPT ![slot[s].pid].news = FALSE]
  /\ UNCHANGED <<tab, num, flag, sub, bufs, stack, chld, handling, usr, told>>

(* Any handler ends sigsuspend.                                            *)
Wake == stack' = IF stack # <<>> /\ Top.at = "suspended"
                 THEN [stack EXCEPT ![1].at = "test"] ELSE stack

HandlerEnds ==
  /\ handling /\ \A s \in Slots : ~Waitable(s)
  /\ handling' = FALSE /\ flag' = flag + 1 /\ Wake
  /\ UNCHANGED <<slot, tab, num, sub, bufs, chld, usr, proc, told>>

(* sigusr_handler.                                                         *)
Taken(q) == [usr EXCEPT ![q].flag = TRUE, ![q].pend = FALSE]

SigUsrToJed ==
  /\ usr[Jed].pend /\ ~handling
  /\ ~usr[Jed].blocked \/ At("suspended")
  /\ usr' = Taken(Jed) /\ Wake
  /\ UNCHANGED <<slot, tab, num, flag, sub, bufs, chld, handling, proc, told>>

SigUsrToChild(p) ==
  /\ usr[p].pend
  /\ ~usr[p].blocked \/ proc[p].st = "suspended"
  /\ usr' = Taken(p)
  /\ proc' = [proc EXCEPT ![p].st = IF @ = "suspended" THEN "waiting" ELSE @]
  /\ UNCHANGED <<slot, tab, num, flag, sub, bufs, stack, chld, handling, told>>
-----------------------------------------------------------------------------
(* Starting a child.                                                       *)

(* Mutant: SIGUSR1 is not blocked.                                         *)
BugInitSync(u) == [u EXCEPT !.flag = FALSE]

(* init_child_parent_sync.                                                 *)
InitSync(u) == [u EXCEPT !.flag = FALSE, !.blocked = TRUE]

FreeSlots == {s \in Slots : slot[s].flags = "gone"}
Unused == {p \in Pids : proc[p].st = "none"}
Closing(b) == \E s \in Slots : slot[s].buffer = b /\ sub[b] # s

(* open_process as far as fork(), which the child returns from as well.    *)
Open(b) ==
  /\ Idle /\ b \in bufs /\ sub[b] = NoSlot /\ FreeSlots # {} /\ Unused # {}
  /\ DropClosed \/ ~Closing(b)
  /\ LET p == Min(Unused)
         s == Min(FreeSlots)
     IN /\ slot' = [slot EXCEPT ![s] = FreeSlot]
        /\ usr' = [usr EXCEPT ![Jed] = InitSync(@),
                              ![p] = [InitSync(usr[Jed]) EXCEPT !.pend = FALSE]]
        /\ proc' = [proc EXCEPT ![p].st = "waiting"]
        /\ Push(Frame("pid", s, b, p))
  /\ UNCHANGED <<tab, num, flag, sub, bufs, chld, handling, told>>

SetPid ==
  /\ At("pid") /\ Goto("enter")
  /\ slot' = [slot EXCEPT ![Top.s].pid = Top.v]
  /\ UNCHANGED <<tab, num, flag, sub, bufs, chld, handling, usr, proc, told>>

(* From p->flags = PROCESS_RUNNING to the output type.                     *)
EnterProcess ==
  /\ At("enter") /\ Goto("go")
  /\ slot' = [slot EXCEPT ![Top.s].flags = "running", ![Top.s].open = TRUE,
                          ![Top.s].buffer = Top.b]
  /\ tab' = [tab EXCEPT ![num] = Top.s] /\ num' = num + 1
  /\ sub' = [sub EXCEPT ![Top.b] = Top.s]
  /\ UNCHANGED <<flag, bufs, chld, handling, usr, proc, told>>

(* tell_child_to_go.                                                       *)
TellChild ==
  /\ At("go") /\ Goto("test")
  /\ usr' = [usr EXCEPT ![Jed].flag = FALSE, ![Top.v].pend = TRUE]
  /\ UNCHANGED <<slot, tab, num, flag, sub, bufs, chld, handling, proc, told>>

AwaitChild ==
  /\ At("test")
  /\ IF usr[Jed].flag
     THEN Goto("set") /\ usr' = [usr EXCEPT ![Jed].blocked = FALSE]
     ELSE Goto("doze") /\ UNCHANGED usr
  /\ UNCHANGED <<slot, tab, num, flag, sub, bufs, chld, handling, proc, told>>

(* sigsuspend, with SIGUSR1 let through.                                   *)
Suspend ==
  /\ At("doze") /\ Goto("suspended")
  /\ UNCHANGED <<slot, tab, num, flag, sub, bufs, chld, handling, usr, proc, told>>

(* jed_set_process, which the S-Lang function that opens a process calls   *)
(* for "signal" and "output" before it returns.                            *)
SetProcess ==
  /\ At("set") /\ Pop
  /\ \E set \in Setups :
       slot' = [slot EXCEPT ![Top.s].calls = set.calls, ![Top.s].slang = set.slang]
  /\ UNCHANGED <<tab, num, flag, sub, bufs, chld, handling, usr, proc, told>>

WaitForParent(p) ==
  /\ proc[p].st = "waiting"
  /\ proc' = [proc EXCEPT ![p].st = IF usr[p].flag THEN "ready" ELSE "doze"]
  /\ UNCHANGED <<slot, tab, num, flag, sub, bufs, stack, chld, handling, usr, told>>

SuspendChild(p) ==
  /\ proc[p].st = "doze"
  /\ proc' = [proc EXCEPT ![p].st = "suspended"]
  /\ UNCHANGED <<slot, tab, num, flag, sub, bufs, stack, chld, handling, usr, told>>

TellParent(p) ==
  /\ proc[p].st = "ready"
  /\ usr' = [usr EXCEPT ![p].flag = FALSE, ![p].blocked = FALSE, ![Jed].pend = TRUE]
  /\ proc' = [proc EXCEPT ![p].st = "running"]
  /\ UNCHANGED <<slot, tab, num, flag, sub, bufs, stack, chld, handling, told>>
-----------------------------------------------------------------------------
(* Commands.                                                               *)

(* kill(): SIGKILL, which no child survives.                               *)
Killed(p) ==
  IF proc[p].st \in {"running", "stopped"}
  THEN proc' = [proc EXCEPT ![p].st = "dead", ![p].news = TRUE] /\ chld' = TRUE
  ELSE UNCHANGED <<proc, chld>>

CloseProcess(s) ==
  /\ InCommand /\ slot[s].flags # "gone" /\ slot[s].open
  /\ slot' = [slot EXCEPT ![s].open = FALSE]
  /\ sub' = IF slot[s].buffer = None THEN sub ELSE [sub EXCEPT ![slot[s].buffer] = NoSlot]
  /\ Killed(slot[s].pid)
  /\ UNCHANGED <<tab, num, flag, bufs, stack, handling, usr, told>>

Locked(b) == \E i \in DOMAIN stack : stack[i].at = "read" /\ stack[i].b = b

(* Mutant: the slot keeps its pointer to the buffer.                       *)
BugKillProcess(s) == [slot EXCEPT ![s].open = FALSE]

(* jed_kill_process.                                                       *)
KillProcess(s) == [slot EXCEPT ![s].open = FALSE, ![s].buffer = None]

(* kill_buffer_cmd and delete_buffer; a locked buffer is only erased.      *)
KillBuffer(b) ==
  /\ InCommand /\ b \in bufs /\ ~Locked(b)
  /\ DropClosed \/ ~Closing(b)
  /\ bufs' = bufs \ {b}
  /\ IF sub[b] = NoSlot THEN UNCHANGED <<slot, proc, chld>>
     ELSE slot' = KillProcess(sub[b]) /\ Killed(slot[sub[b]].pid)
  /\ UNCHANGED <<tab, num, flag, sub, stack, handling, usr, told>>
-----------------------------------------------------------------------------
(* Reading (read_process_input).                                           *)

ReadFrame(s) == Frame("read", s, slot[s].buffer, 0)
Ready(s) == slot[s].open /\ proc[slot[s].pid].pipe > 0
Selected == {tab[i] : i \in {k \in DOMAIN tab : k < num}}

(* sys_input_pending, from the loop that waits for a key.                  *)
SelectInput(s) ==
  /\ Idle /\ s \in Selected \cap Slots /\ Ready(s)
  /\ Push(ReadFrame(s))
  /\ UNCHANGED <<slot, tab, num, flag, sub, bufs, chld, handling, usr, proc, told>>

(* One chunk; a process without a buffer gets its output thrown away.      *)
ReadChunk ==
  /\ At("read") /\ Ready(Top.s)
  /\ LET p == slot[Top.s].pid
         keep == slot[Top.s].buffer # None
     IN /\ proc' = [proc EXCEPT ![p].pipe = @ - 1, ![p].got = IF keep THEN @ + 1 ELSE @]
        /\ IF keep /\ slot[Top.s].slang THEN Push(Frame("hook", 0, None, 0))
           ELSE UNCHANGED stack
  /\ UNCHANGED <<slot, tab, num, flag, sub, bufs, chld, handling, usr, told>>

ReadEnds ==
  /\ At("read") /\ ~Ready(Top.s) /\ Pop
  /\ UNCHANGED <<slot, tab, num, flag, sub, bufs, chld, handling, usr, proc, told>>

HookReturns ==
  /\ At("hook") /\ Pop
  /\ UNCHANGED <<slot, tab, num, flag, sub, bufs, chld, handling, usr, proc, told>>
-----------------------------------------------------------------------------
(* Noticing a change of status (jed_get_child_status).                     *)

(* update(), and the load of Child_Status_Changed_Flag--.                  *)
Update ==
  /\ Idle \/ (HooksUpdate /\ At("hook"))
  /\ flag # 0
  /\ Push(Frame("store", 0, None, flag))
  /\ UNCHANGED <<slot, tab, num, flag, sub, bufs, chld, handling, usr, proc, told>>

StoreFlag ==
  /\ At("store") /\ Goto("input")
  /\ flag' = Top.v - 1
  /\ UNCHANGED <<slot, tab, num, sub, bufs, chld, handling, usr, proc, told>>

(* get_process_input: what select() found ready.                           *)
InputFirst ==
  /\ At("input")
  /\ \/ \E s \in Selected \cap Slots : Ready(s) /\ Push(ReadFrame(s))
     \/ stack' = [stack EXCEPT ![1].at = "scan", ![1].s = 1]
  /\ UNCHANGED <<slot, tab, num, flag, sub, bufs, chld, handling, usr, proc, told>>

(* Mutant: every process counts as changed.                                *)
BugHasNews(s) == slot[s].flags # "gone"

HasNews(s) == slot[s].flags # "gone" /\ slot[s].changed # 0
NextSlot == [stack EXCEPT ![1].at = "scan", ![1].s = @ + 1]

(* Mutant: the output is not read before the end is reported.              *)
BugDrain == [stack EXCEPT ![1].at = "count"]

(* The output that is left comes before the report.                        *)
Drain == <<ReadFrame(Top.s)>> \o [stack EXCEPT ![1].at = "count"]

(* Mutant: the flag is reset after the slots were looked at.               *)
BugScan ==
  /\ At("scan")
  /\ stack' = IF Top.s \notin Slots THEN Tail(stack)
              ELSE IF HasNews(Top.s) THEN Drain ELSE NextSlot
  /\ flag' = IF Top.s \notin Slots THEN 0 ELSE flag
  /\ UNCHANGED <<slot, tab, num, sub, bufs, chld, handling, usr, proc, told>>

Scan ==
  /\ At("scan")
  /\ stack' = IF Top.s \notin Slots THEN Tail(stack)
              ELSE IF HasNews(Top.s) THEN Drain ELSE NextSlot
  /\ UNCHANGED <<slot, tab, num, flag, sub, bufs, chld, handling, usr, proc, told>>

(* p->status_changed--: a load and a store.                                *)
LoadChanged ==
  /\ At("count")
  /\ stack' = [stack EXCEPT ![1].at = "changed", ![1].v = slot[Top.s].changed]
  /\ UNCHANGED <<slot, tab, num, flag, sub, bufs, chld, handling, usr, proc, told>>

StoreChanged ==
  /\ At("changed") /\ Goto("report")
  /\ slot' = [slot EXCEPT ![Top.s].changed = Top.v - 1]
  /\ UNCHANGED <<tab, num, flag, sub, bufs, chld, handling, usr, proc, told>>

(* Mutant: nothing is reported of a process that was closed.               *)
BugCalled(p) == p.calls /\ p.buffer # None /\ p.open

Called(p) == p.calls /\ p.buffer # None

(* call_slang_status_change_hook.                                          *)
Report ==
  /\ At("report")
  /\ LET p == slot[Top.s]
         after == [stack EXCEPT ![1].at = "reap"]
     IN IF Called(p)
        THEN /\ stack' = <<Frame("hook", 0, None, 0)>> \o after
             /\ told' = [told EXCEPT ![p.pid] = p.flags]
        ELSE stack' = after /\ UNCHANGED told
  /\ UNCHANGED <<slot, tab, num, flag, sub, bufs, chld, handling, usr, proc>>

Alive(s) == slot[s].flags \in {"running", "stopped"}

(* The index of slot s, or of the first entry out of use if it has none.   *)
Entry(s) ==
  Min({i \in DOMAIN tab : i < num /\ tab[i] = s} \cup {IF num < 0 THEN 0 ELSE num})
Shifted(i) == [k \in DOMAIN tab |-> IF k >= i /\ k < num - 1 THEN tab[k + 1] ELSE tab[k]]

(* Mutant: a process that was only stopped is cleared away too.            *)
BugKept(s) == FALSE

Kept(s) == Alive(s)

(* Mutant: the buffer is not told that its process is gone.                *)
BugDetached(s) == sub

Detached(s) ==
  IF slot[s].buffer = None THEN sub ELSE [sub EXCEPT ![slot[s].buffer] = NoSlot]

(* get_process_status, the hook done.                                      *)
Reap ==
  /\ At("reap") /\ stack' = NextSlot
  /\ IF Kept(Top.s) THEN UNCHANGED <<slot, sub, tab, num>>
     ELSE /\ slot' = [slot EXCEPT ![Top.s] = FreeSlot]
          /\ sub' = Detached(Top.s)
          /\ tab' = Shifted(Entry(Top.s)) /\ num' = num - 1
  /\ UNCHANGED <<flag, bufs, chld, handling, usr, proc, told>>
-----------------------------------------------------------------------------
ChildStart ==
  \E p \in Pids : SigUsrToChild(p) \/ WaitForParent(p) \/ SuspendChild(p) \/ TellParent(p)
Handler == HandlerStarts \/ HandlerEnds \/ SigUsrToJed \/ \E s \in Slots : Collect(s)
Thread ==
  \/ SetPid \/ EnterProcess \/ TellChild \/ AwaitChild \/ Suspend \/ SetProcess
  \/ ReadChunk \/ ReadEnds \/ HookReturns
  \/ StoreFlag \/ InputFirst \/ Scan \/ LoadChanged \/ StoreChanged \/ Report \/ Reap

Next ==
  \/ ChildStart \/ Handler \/ Thread \/ Update
  \/ \E p \in Pids : Exit(p) \/ Stop(p) \/ Continue(p) \/ Write(p)
  \/ \E b \in Buffers : Open(b) \/ KillBuffer(b)
  \/ \E s \in Slots : CloseProcess(s) \/ SelectInput(s)

(* The system delivers signals and runs the children; JED runs on, its     *)
(* S-Lang functions return, and the loop that waits for keys calls         *)
(* update() after every signal.  Nothing is assumed of the programs the    *)
(* children run, nor of the user.                                          *)
Fairness == /\ WF_vars(ChildStart) /\ WF_vars(Handler)
            /\ WF_vars(Thread) /\ WF_vars(Update)

Spec == Init /\ [][Next]_vars /\ Fairness
-----------------------------------------------------------------------------
(* Properties.                                                             *)

Frames == {"pid", "enter", "go", "test", "doze", "suspended", "set", "read", "hook", "store",
           "input", "scan", "count", "changed", "report", "reap"}

TypeOK ==
  /\ slot \in [Slots -> Process] /\ proc \in [Pids -> Child]
  /\ tab \in [0..(MaxProcesses - 1) -> Slots \cup {NoSlot}] /\ num \in 0..MaxProcesses
  /\ flag \in Nat
  /\ sub \in [Buffers -> Slots \cup {NoSlot}] /\ bufs \subseteq Buffers
  /\ \A i \in DOMAIN stack : stack[i].at \in Frames
  /\ usr \in [Pids \cup {Jed} -> [flag: BOOLEAN, pend: BOOLEAN, blocked: BOOLEAN]]
  /\ told \in [Pids -> Flags] /\ chld \in BOOLEAN /\ handling \in BOOLEAN

(* Whatever signals arrive while slots are taken and cleared, the first    *)
(* Num_Subprocesses descriptors are those of the slots in use, each once   *)
(* (open_process, get_process_status): no child that runs, or whose end is *)
(* still to be fetched, is without a slot, and no entry is counted that    *)
(* nobody clears.                                                          *)
TableMatches ==
  /\ Selected = Slots \ FreeSlots
  /\ \A p \in Pids : proc[p].st = "running" \/ proc[p].news =>
       \E s \in Selected : slot[s].pid = p
  /\ num = Cardinality(Selected)

(* A buffer and its process point at each other for as long as both are    *)
(* there and the process has not been closed: a buffer never has two, and  *)
(* never that of a slot already cleared.                                   *)
Attached ==
  /\ \A b \in bufs : sub[b] # NoSlot =>
       slot[sub[b]].flags # "gone" /\ slot[sub[b]].buffer = b /\ slot[sub[b]].open
  /\ \A s \in Slots : slot[s].open => sub[slot[s].buffer] = s

(* No slot keeps a pointer to a buffer that is gone; jprocess.c:383 counts *)
(* on jed_kill_process being called for every buffer that goes.            *)
PointersLive == \A s \in Slots : slot[s].buffer \in bufs \cup {None}

(* The table of processes, the descriptors and the buffers agree, and no   *)
(* entry of it outlives what it points to.                                 *)
TablesSound == TypeOK /\ TableMatches /\ Attached /\ PointersLive

Freed(s) == slot[s].pid # 0 /\ slot'[s].pid = 0
Served(s) == slot[s].buffer # None /\ proc[slot[s].pid].stops = 0

(* When a process that still has its buffer, and was never stopped, is     *)
(* cleared away, its hook has been told of its end, and all it ever wrote  *)
(* has been delivered, unless it was closed (jed_get_child_status).        *)
EndReported ==
  [][\A s \in Slots : Freed(s) /\ Served(s) =>
       /\ slot[s].calls => told[slot[s].pid] = "exited"
       /\ slot[s].open => proc[slot[s].pid].got = proc[slot[s].pid].out]_vars

(* However SIGUSR1 and SIGCHLD arrive, open_process returns: neither side  *)
(* of its handshake sleeps through the other's signal.                     *)
OpenReturns ==
  LET Opening == stack # <<>> /\ Top.at \in {"pid", "enter", "go", "test", "doze", "suspended"}
  IN Opening ~> ~Opening

(* No end of a child is lost, although Child_Status_Changed_Flag and       *)
(* status_changed are counted without blocking SIGCHLD: its slot is        *)
(* cleared some time.                                                      *)
EndNoticed ==
  \A p \in Pids : proc[p].st = "dead" ~> \A s \in Slots : slot[s].pid # p
=============================================================================
