-------------------------- MODULE SubprocessProofs --------------------------
(***************************************************************************)
(* Proofs about Subprocess, for any number of slots, children and buffers, *)
(* chunks of output and stops.                                             *)
(***************************************************************************)
EXTENDS Subprocess, FiniteSetTheorems, SequenceTheorems, WellFoundedInduction, TLAPS

(* S-Lang functions of processes do not call update(), and no buffer is    *)
(* dropped between kill_process() and the end of its process.              *)
Careful == HooksUpdate = FALSE /\ DropClosed = FALSE

-----------------------------------------------------------------------------
(* The inductive invariant.                                                *)

FrameType == [at: Frames, s: Nat, b: Buffers \cup {None}, v: Nat]

Types == TypeOK /\ stack \in Seq(FrameType)

(* open_process runs alone; jed_get_child_status is called by nothing that *)
(* is in a frame, and calls read_process_input and the hook; a hook calls  *)
(* nothing.  What is read before the report is the process reported.       *)
OpenAts == {"pid", "enter", "go", "test", "doze", "suspended", "set"}
ScanAts == {"store", "input", "scan", "count", "changed", "report", "reap"}
ReportAts == {"count", "changed", "report", "reap"}

Shape ==
  \A i \in 1..Len(stack) :
    /\ stack[i].at \in OpenAts => Len(stack) = 1
    /\ stack[i].at \in ScanAts => i = Len(stack)
    /\ stack[i].at = "hook" => i = 1
    /\ stack[i].at = "count" /\ i > 1
         => stack[i - 1].at = "read" /\ stack[i - 1].s = stack[i].s

(* What has been read from a buffer that will be cleared, and told.        *)
Drained(s) == slot[s].open /\ proc[slot[s].pid].stops = 0 => proc[slot[s].pid].pipe = 0
EndTold(s) == slot[s].calls /\ Served(s) => told[slot[s].pid] = "exited"

(* A frame f that reports is at a slot in use, which stays in use.  If it  *)
(* is on top, or has read what there was, nothing is left to be read.      *)
FrameSound(f, top) ==
  /\ f.at = "read" => f.s \in Slots
  /\ f.at = "store" => f.v >= 1
  /\ f.at \in ReportAts =>
       /\ f.s \in Slots /\ slot[f.s].flags # "gone"
       /\ proc[slot[f.s].pid].stops = 0 => slot[f.s].flags = "exited"
       /\ f.at = "count" => slot[f.s].changed >= 1
       /\ f.at = "changed" => f.v >= 1
       /\ f.at # "count" \/ top => Drained(f.s)
       /\ f.at = "reap" => EndTold(f.s)

Reporting == \A i \in 1..Len(stack) : FrameSound(stack[i], i = 1)

Unstarted == {"none", "waiting", "doze", "suspended", "ready"}

(* The child that is being started does nothing before it is told to go,   *)
(* and until it has entered the table nothing points to its slot.          *)
Opening ==
  stack # <<>> /\ stack[1].at \in OpenAts =>
    LET f == stack[1]
    IN /\ f.s \in Slots /\ f.v \in Pids
       /\ f.at \in {"pid", "enter", "go"} =>
            /\ proc[f.v].st \in {"waiting", "doze", "suspended"}
            /\ ~usr[f.v].flag /\ ~usr[f.v].pend
       /\ f.at \in {"pid", "enter"} =>
            /\ f.b \in bufs /\ sub[f.b] = NoSlot /\ \A s \in Slots : slot[s].buffer # f.b
       /\ f.at = "pid" => slot[f.s] = FreeSlot
       /\ f.at = "enter" => slot[f.s] = [FreeSlot EXCEPT !.pid = f.v]
       /\ f.at \notin {"pid", "enter"} => slot[f.s].flags # "gone"

(* stack[1] is about to give the child p a slot.                           *)
Awaited(p) == stack # <<>> /\ stack[1].at \in {"pid", "enter"} /\ stack[1].v = p
Housed(p) == \E s \in Slots : slot[s].flags # "gone" /\ slot[s].pid = p

ChildSound(p) ==
  /\ proc[p].st \in Unstarted =>
       ~proc[p].news /\ proc[p].stops = 0 /\ proc[p].out = 0 /\ proc[p].pipe = 0 /\ proc[p].got = 0
  /\ proc[p].news => proc[p].st \in {"stopped", "dead"}
  /\ proc[p].st = "stopped" => proc[p].stops # 0
  /\ proc[p].st # "none" /\ (proc[p].st # "dead" \/ proc[p].news) => Housed(p) \/ Awaited(p)

SlotSound(s) ==
  /\ slot[s].flags # "gone" => slot[s].pid # 0
  /\ slot[s].pid # 0 => proc[slot[s].pid].st # "none"
  /\ slot[s].flags = "gone" =>
       /\ slot[s] = [FreeSlot EXCEPT !.pid = slot[s].pid]
       /\ slot[s].pid # 0 => stack # <<>> /\ stack[1].at = "enter" /\ stack[1].s = s
  /\ slot[s].flags = "exited" => proc[slot[s].pid].st = "dead" /\ ~proc[slot[s].pid].news
  /\ slot[s].changed # 0 /\ proc[slot[s].pid].stops = 0 => slot[s].flags = "exited"
  /\ slot[s].open =>
       proc[slot[s].pid].out = proc[slot[s].pid].got + proc[slot[s].pid].pipe

(* The table has every slot in use once.                                   *)
Used == Slots \ FreeSlots
TableSound ==
  /\ Selected = Used /\ num = Cardinality(Used)
  /\ \A i, j \in DOMAIN tab : i < num /\ j < num /\ tab[i] = tab[j] => i = j

BuffersSound ==
  /\ Attached /\ PointersLive
  /\ \A s \in Slots : slot[s].open => slot[s].buffer # None
  /\ \A s, t \in Slots : slot[s].buffer = slot[t].buffer /\ slot[s].buffer # None => s = t

SubInv ==
  /\ Types /\ Shape /\ Reporting /\ Opening
  /\ \A p \in Pids : ChildSound(p)
  /\ \A s \in Slots : SlotSound(s)
  /\ TableSound /\ BuffersSound

-----------------------------------------------------------------------------
(* The stack of frames.                                                    *)

LEMMA TopFrame ==
  ASSUME NEW st \in Seq(FrameType), st # <<>>
  PROVE  /\ Len(st) \in Nat \ {0} /\ Head(st) = st[1] /\ DOMAIN st = 1..Len(st)
         /\ \A i \in 1..Len(st) : st[i] \in FrameType
         /\ st[1] \in FrameType
  <1>1. Len(st) \in Nat \ {0} /\ DOMAIN st = 1..Len(st)
    BY EmptySeq
  <1>2. \A i \in 1..Len(st) : st[i] \in FrameType
    BY <1>1, ElementOfSeq
  <1> QED
    BY <1>1, <1>2

LEMMA Pushing ==
  ASSUME NEW st \in Seq(FrameType), NEW f \in FrameType
  PROVE  /\ <<f>> \o st \in Seq(FrameType)
         /\ Len(<<f>> \o st) = Len(st) + 1
         /\ (<<f>> \o st)[1] = f
         /\ \A i \in 1..Len(st) : (<<f>> \o st)[i + 1] = st[i]
         /\ \A i \in 2..(Len(st) + 1) : (<<f>> \o st)[i] = st[i - 1]
  <1>1. <<f>> \in Seq(FrameType) /\ Len(<<f>>) = 1 /\ <<f>>[1] = f
    OBVIOUS
  <1>2. Len(st) \in Nat
    OBVIOUS
  <1> QED
    BY <1>1, <1>2, ConcatProperties

LEMMA Popping ==
  ASSUME NEW st \in Seq(FrameType), st # <<>>
  PROVE  /\ Tail(st) \in Seq(FrameType)
         /\ Len(Tail(st)) = Len(st) - 1
         /\ \A i \in 1..(Len(st) - 1) : Tail(st)[i] = st[i + 1]
  BY TopFrame

(* The frame on top changes to f.                                          *)
LEMMA Going ==
  ASSUME NEW st \in Seq(FrameType), st # <<>>, NEW f \in FrameType, NEW new,
         new = [st EXCEPT ![1] = f]
  PROVE  /\ new \in Seq(FrameType) /\ Len(new) = Len(st) /\ new # <<>>
         /\ new[1] = f
         /\ \A i \in 2..Len(st) : new[i] = st[i]
  <1>1. Len(st) \in Nat \ {0} /\ DOMAIN st = 1..Len(st) /\ \A i \in 1..Len(st) : st[i] \in FrameType
    BY TopFrame
  <1>2. new = [i \in 1..Len(st) |-> IF i = 1 THEN f ELSE st[i]]
    BY <1>1
  <1>3. new \in Seq(FrameType)
    BY <1>1, <1>2, SeqDef
  <1> QED
    BY <1>1, <1>2, <1>3

(* One frame comes on top of the stack, goes, or changes.                  *)
PushedBy(f) ==
  /\ Len(stack') = Len(stack) + 1 /\ stack' # <<>>
  /\ stack'[1] = f
  /\ \A i \in 2..(Len(stack) + 1) : stack'[i] = stack[i - 1]
Popped ==
  /\ Len(stack') = Len(stack) - 1
  /\ \A i \in 1..(Len(stack) - 1) : stack'[i] = stack[i + 1]
MovedTo(f) ==
  /\ Len(stack') = Len(stack) /\ stack' # <<>>
  /\ stack'[1] = f
  /\ \A i \in 2..Len(stack) : stack'[i] = stack[i]

LEMMA PushStep ==
  ASSUME Types, NEW f \in FrameType, Push(f)
  PROVE  stack' \in Seq(FrameType) /\ PushedBy(f)
  <1>1. Len(stack) \in Nat
    BY DEF Types
  <1> QED
    BY <1>1, Pushing DEF Types, Push, PushedBy

LEMMA PopStep ==
  ASSUME Types, stack # <<>>, Pop
  PROVE  stack' \in Seq(FrameType) /\ Popped
  BY Popping DEF Types, Pop, Popped

LEMMA MoveStep ==
  ASSUME Types, stack # <<>>, NEW f \in FrameType, stack' = [stack EXCEPT ![1] = f]
  PROVE  stack' \in Seq(FrameType) /\ MovedTo(f)
  BY Going DEF Types, MovedTo

LEMMA GoStep ==
  ASSUME Types, stack # <<>>, NEW at \in Frames, Goto(at)
  PROVE  stack' \in Seq(FrameType) /\ MovedTo([stack[1] EXCEPT !.at = at])
  <1>1. stack[1] \in FrameType
    BY TopFrame DEF Types
  <1>2. [stack[1] EXCEPT !.at = at] \in FrameType
    BY <1>1 DEF FrameType
  <1>3. stack' = [stack EXCEPT ![1] = [stack[1] EXCEPT !.at = at]]
    BY DEF Goto
  <1> QED
    BY <1>2, <1>3, MoveStep

-----------------------------------------------------------------------------
(* What most steps leave as it is.                                         *)

(* The slots in use stay in use by the same process; its end is not        *)
(* forgotten, what it wrote is not more, and what the hook was told stays. *)
Gentle ==
  /\ told' = told
  /\ \A s \in Slots : slot[s].flags # "gone" =>
       /\ slot'[s].flags # "gone" /\ slot'[s].pid = slot[s].pid
       /\ slot[s].flags = "exited" => slot'[s].flags = "exited"
       /\ slot'[s].changed >= slot[s].changed
       /\ slot'[s].open => slot[s].open
       /\ slot'[s].calls => slot[s].calls
       /\ slot'[s].buffer # None => slot[s].buffer # None
  /\ \A p \in Pids :
       /\ proc'[p].stops = 0 => proc[p].stops = 0
       /\ proc[p].st = "dead" /\ proc[p].pipe = 0 => proc'[p].pipe = 0

LEMMA FramesKept ==
  ASSUME SubInv, Types', Gentle
  PROVE  \A f \in FrameType, top \in BOOLEAN : FrameSound(f, top) => FrameSound(f, top)'
  <1> SUFFICES ASSUME NEW f \in FrameType, NEW top \in BOOLEAN, FrameSound(f, top)
               PROVE  FrameSound(f, top)'
    OBVIOUS
  <1>1. CASE f.at \notin ReportAts
    BY <1>1 DEF FrameSound
  <1>2. CASE f.at \in ReportAts
    <2> DEFINE s == f.s
               p == slot[s].pid
    <2>1. s \in Slots /\ slot[s].flags # "gone"
      BY <1>2 DEF FrameSound
    <2>2. p \in Pids /\ slot'[s].flags # "gone" /\ slot'[s].pid = p
      BY <2>1 DEF SubInv, Types, TypeOK, SlotSound, Gentle, Process
    <2>3. /\ slot[s].flags = "exited" => slot'[s].flags = "exited"
          /\ slot'[s].changed >= slot[s].changed
          /\ slot'[s].open => slot[s].open
          /\ slot'[s].calls => slot[s].calls
          /\ slot'[s].buffer # None => slot[s].buffer # None
          /\ proc'[p].stops = 0 => proc[p].stops = 0
          /\ proc[p].st = "dead" /\ proc[p].pipe = 0 => proc'[p].pipe = 0
          /\ told' = told
      BY <2>1, <2>2 DEF Gentle
    <2>4. slot[s].flags = "exited" => proc[p].st = "dead"
      BY <2>1 DEF SubInv, SlotSound
    <2>5. slot[s].changed \in Nat /\ slot'[s].changed \in Nat
      BY <2>1 DEF SubInv, Types, TypeOK, Process
    <2> HIDE DEF p
    <2>6. Drained(s) /\ (proc[p].stops = 0 => slot[s].flags = "exited") => Drained(s)'
      BY <2>2, <2>3, <2>4 DEF Drained, p
    <2>7. EndTold(s) => EndTold(s)'
      BY <2>2, <2>3 DEF EndTold, Served, p
    <2>8. /\ proc[p].stops = 0 => slot[s].flags = "exited"
          /\ f.at = "count" => slot[s].changed >= 1
          /\ f.at # "count" \/ top => Drained(s)
          /\ f.at = "reap" => EndTold(s)
          /\ f.at = "changed" => f.v >= 1
      BY <1>2 DEF FrameSound, p
    <2>9. /\ proc'[slot'[s].pid].stops = 0 => slot'[s].flags = "exited"
          /\ f.at = "count" => slot'[s].changed >= 1
      BY <2>2, <2>3, <2>5, <2>8
    <2> QED
      BY <1>2, <2>1, <2>2, <2>6, <2>7, <2>8, <2>9 DEF FrameSound, ReportAts
  <1> QED
    BY <1>1, <1>2

LEMMA ReportingPush ==
  ASSUME SubInv, Types', Gentle, NEW f \in FrameType, PushedBy(f), FrameSound(f, TRUE)'
  PROVE  Reporting'
  <1>1. Len(stack) \in Nat /\ \A i \in 1..Len(stack) : stack[i] \in FrameType
    BY ElementOfSeq DEF SubInv, Types
  <1>2. ASSUME NEW i \in 1..Len(stack')
        PROVE  FrameSound(stack[i], i = 1)'
    <2>1. CASE i = 1
      BY <2>1 DEF PushedBy
    <2>2. CASE i # 1
      <3>1. i - 1 \in 1..Len(stack) /\ stack'[i] = stack[i - 1]
        BY <1>1, <2>2 DEF PushedBy
      <3>2. FrameSound(stack[i - 1], i - 1 = 1)
        BY <3>1 DEF SubInv, Reporting
      <3>3. FrameSound(stack[i - 1], FALSE)
        BY <3>2 DEF FrameSound
      <3>4. \A g \in FrameType : FrameSound(g, FALSE) => FrameSound(g, FALSE)'
        BY FramesKept
      <3> QED
        BY <1>1, <2>2, <3>1, <3>3, <3>4
    <2> QED
      BY <2>1, <2>2
  <1> QED
    BY <1>2 DEF Reporting

LEMMA ReportingMove ==
  ASSUME SubInv, Types', Gentle, stack # <<>>, NEW f \in FrameType, MovedTo(f), FrameSound(f, TRUE)'
  PROVE  Reporting'
  <1>1. Len(stack) \in Nat /\ \A i \in 1..Len(stack) : stack[i] \in FrameType
    BY ElementOfSeq DEF SubInv, Types
  <1>2. ASSUME NEW i \in 1..Len(stack')
        PROVE  FrameSound(stack[i], i = 1)'
    <2>1. CASE i = 1
      BY <2>1 DEF MovedTo
    <2>2. CASE i # 1
      <3>1. i \in 1..Len(stack) /\ stack'[i] = stack[i]
        BY <1>1, <2>2 DEF MovedTo
      <3>2. FrameSound(stack[i], FALSE)
        BY <2>2, <3>1 DEF SubInv, Reporting
      <3>4. \A g \in FrameType : FrameSound(g, FALSE) => FrameSound(g, FALSE)'
        BY FramesKept
      <3> QED
        BY <1>1, <2>2, <3>1, <3>2, <3>4
    <2> QED
      BY <2>1, <2>2
  <1> QED
    BY <1>2 DEF Reporting

(* The frame below the one that goes may be one that has been waiting for  *)
(* the output to be read.                                                  *)
LEMMA ReportingPop ==
  ASSUME SubInv, Types', Gentle, stack # <<>>, Popped,
         Len(stack) > 1 /\ stack[2].at = "count" => Drained(stack[2].s)
  PROVE  Reporting'
  <1>1. Len(stack) \in Nat /\ \A i \in 1..Len(stack) : stack[i] \in FrameType
    BY ElementOfSeq DEF SubInv, Types
  <1>2. ASSUME NEW i \in 1..Len(stack')
        PROVE  FrameSound(stack[i], i = 1)'
    <2>1. i + 1 \in 1..Len(stack) /\ stack'[i] = stack[i + 1] /\ i \in Nat \ {0}
      BY <1>1 DEF Popped
    <2>2. FrameSound(stack[i + 1], i + 1 = 1) /\ (i + 1 = 1) = FALSE
      BY <2>1 DEF SubInv, Reporting
    <2>3. FrameSound(stack[i + 1], FALSE)
      BY <2>2
    <2>4. FrameSound(stack[i + 1], i = 1)
      BY <2>1, <2>3 DEF FrameSound
    <2>5. \A g \in FrameType, top \in BOOLEAN : FrameSound(g, top) => FrameSound(g, top)'
      BY FramesKept
    <2>6. \A g \in FrameType : FrameSound(g, i = 1) => FrameSound(g, i = 1)'
      BY <2>5
    <2> QED
      BY <1>1, <2>1, <2>4, <2>6
  <1> QED
    BY <1>2 DEF Reporting

LEMMA ReportingStays ==
  ASSUME SubInv, Types', Gentle, stack' = stack
  PROVE  Reporting'
  <1>1. \A i \in 1..Len(stack) : stack[i] \in FrameType
    BY ElementOfSeq DEF SubInv, Types
  <1>2. ASSUME NEW i \in 1..Len(stack)
        PROVE  FrameSound(stack[i], i = 1)'
    <2>1. FrameSound(stack[i], i = 1)
      BY DEF SubInv, Reporting
    <2>2. \A g \in FrameType : FrameSound(g, i = 1) => FrameSound(g, i = 1)'
      BY FramesKept
    <2> QED
      BY <1>1, <2>1, <2>2
  <1> QED
    BY <1>2 DEF Reporting

LEMMA ShapePush ==
  ASSUME SubInv, NEW f \in FrameType, PushedBy(f),
         f.at \in OpenAts \cup ScanAts => stack = <<>>,
         stack # <<>> => /\ stack[1].at \notin OpenAts /\ stack[1].at # "hook"
                         /\ stack[1].at = "count" => f.at = "read" /\ f.s = stack[1].s
  PROVE  Shape'
  <1>1. /\ Len(stack) \in Nat /\ (stack # <<>> <=> Len(stack) # 0)
        /\ \A i \in 1..Len(stack) : stack[i] \in FrameType
    BY ElementOfSeq, EmptySeq DEF SubInv, Types
  <1>2. Len(stack') = Len(stack) + 1 /\ stack'[1] = f
    BY DEF PushedBy
  <1>3. ASSUME NEW i \in 2..Len(stack')
        PROVE  /\ i - 1 \in 1..Len(stack) /\ stack'[i] = stack[i - 1]
               /\ i > 2 => stack'[i - 1] = stack[i - 2] /\ i - 2 \in 1..Len(stack)
    BY <1>1, <1>2 DEF PushedBy
  <1>4. ASSUME NEW i \in 2..Len(stack')
        PROVE  /\ stack'[i].at \notin OpenAts /\ stack'[i].at # "hook"
               /\ stack'[i].at \in ScanAts => i = Len(stack')
               /\ stack'[i].at = "count" => stack'[i - 1].at = "read" /\ stack'[i - 1].s = stack'[i].s
    <2>1. CASE i = 2
      BY <1>1, <1>2, <1>3, <2>1 DEF SubInv, Shape, OpenAts
    <2>2. CASE i > 2
      BY <1>1, <1>2, <1>3, <2>2 DEF SubInv, Shape
    <2> QED
      BY <2>1, <2>2
  <1>5. /\ f.at \in OpenAts => Len(stack') = 1
        /\ f.at \in ScanAts => 1 = Len(stack')
    BY <1>1, <1>2
  <1> QED
    BY <1>1, <1>2, <1>4, <1>5 DEF Shape

LEMMA ShapePop ==
  ASSUME SubInv, stack # <<>>, Popped
  PROVE  Shape'
  <1>1. Len(stack) \in Nat
    BY DEF SubInv, Types
  <1>2. ASSUME NEW i \in 1..Len(stack')
        PROVE  /\ i + 1 \in 2..Len(stack) /\ stack'[i] = stack[i + 1]
               /\ i > 1 => stack'[i - 1] = stack[i]
    BY <1>1 DEF Popped
  <1>3. ASSUME NEW i \in 1..Len(stack')
        PROVE  /\ stack'[i].at \in OpenAts => Len(stack') = 1
               /\ stack'[i].at \in ScanAts => i = Len(stack')
               /\ stack'[i].at = "hook" => i = 1
               /\ stack'[i].at = "count" /\ i > 1
                    => stack'[i - 1].at = "read" /\ stack'[i - 1].s = stack'[i].s
    <2>1. i + 1 \in 1..Len(stack) /\ stack'[i] = stack[i + 1] /\ Len(stack') = Len(stack) - 1
      BY <1>1, <1>2 DEF Popped
    <2>2. i > 1 => stack'[i - 1] = stack[i]
      BY <1>2
    <2> HIDE <1>2
    <2> QED
      BY <1>1, <2>1, <2>2 DEF SubInv, Shape
  <1> QED
    BY <1>3 DEF Shape

(* A frame goes on to where frames of its kind get.                        *)
LEMMA ShapeMove ==
  ASSUME SubInv, stack # <<>>, NEW f \in FrameType, MovedTo(f),
         f.at \in OpenAts => stack[1].at \in OpenAts,
         f.at \in ScanAts => stack[1].at \in ScanAts,
         f.at \notin {"hook"},
         stack[1].at # "read"
  PROVE  Shape'
  <1>1. Len(stack) \in Nat \ {0}
    BY EmptySeq DEF SubInv, Types
  <1>2. Len(stack') = Len(stack) /\ stack'[1] = f /\ \A i \in 2..Len(stack) : stack'[i] = stack[i]
    BY DEF MovedTo
  <1>3. ASSUME NEW i \in 1..Len(stack')
        PROVE  /\ stack'[i].at \in OpenAts => Len(stack') = 1
               /\ stack'[i].at \in ScanAts => i = Len(stack')
               /\ stack'[i].at = "hook" => i = 1
               /\ stack'[i].at = "count" /\ i > 1
                    => stack'[i - 1].at = "read" /\ stack'[i - 1].s = stack'[i].s
    <2>1. CASE i = 1
      BY <1>1, <1>2, <2>1 DEF SubInv, Shape
    <2>2. CASE i = 2
      BY <1>1, <1>2, <2>2 DEF SubInv, Shape
    <2>3. CASE i > 2
      BY <1>1, <1>2, <2>3 DEF SubInv, Shape
    <2> QED
      BY <2>1, <2>2, <2>3
  <1> QED
    BY <1>3 DEF Shape

-----------------------------------------------------------------------------
(* Steps of children and of frames, which leave the tables alone.          *)

(* A child goes on: it is not started twice nor does it come back, its     *)
(* news are fetched while it has a slot, and what it wrote is kept.        *)
ChildGoes(p) ==
  /\ proc'[p].stops = 0 => proc[p].stops = 0
  /\ proc[p].st = "dead" /\ proc[p].pipe = 0 => proc'[p].pipe = 0
  /\ proc'[p].st \in Unstarted => proc[p].st \in Unstarted /\ proc'[p] = [proc[p] EXCEPT !.st = proc'[p].st]
  /\ proc'[p].st = "none" => proc[p].st = "none"
  /\ proc'[p].news => proc'[p].st \in {"stopped", "dead"}
  /\ proc'[p].st = "stopped" => proc'[p].stops # 0
  /\ proc'[p].st # "none" /\ (proc'[p].st # "dead" \/ proc'[p].news)
       => proc[p].st # "none" /\ (proc[p].st # "dead" \/ proc[p].news)
  /\ proc[p].st = "dead" => proc'[p].st = "dead"
  /\ proc[p].out = proc[p].got + proc[p].pipe => proc'[p].out = proc'[p].got + proc'[p].pipe

(* It does not go on before it is told to.                                 *)
ChildWaits(p) ==
  proc[p].st \in {"waiting", "doze", "suspended"} /\ ~usr[p].flag /\ ~usr[p].pend
    => proc'[p].st \in {"waiting", "doze", "suspended"} /\ ~usr'[p].flag /\ ~usr'[p].pend

ChildStep(p) == ChildGoes(p) /\ ChildWaits(p)

OpenerKept ==
  stack # <<>> /\ stack[1].at \in {"pid", "enter"} => stack' # <<>> /\ stack'[1] = stack[1]

LEMMA QuietGentle ==
  ASSUME SubInv, UNCHANGED <<slot, told>>, \A p \in Pids : ChildGoes(p)
  PROVE  Gentle
  <1>1. slot' = slot /\ told' = told
    OBVIOUS
  <1>2. \A s \in Slots : slot'[s].changed >= slot[s].changed
    BY <1>1 DEF SubInv, Types, TypeOK, Process
  <1>3. \A p \in Pids :
          /\ proc'[p].stops = 0 => proc[p].stops = 0
          /\ proc[p].st = "dead" /\ proc[p].pipe = 0 => proc'[p].pipe = 0
    BY DEF ChildGoes
  <1> QED
    BY <1>1, <1>2, <1>3 DEF Gentle

(* Nobody's end is fetched but by Collect, which is no such step.          *)
LEMMA Quiet ==
  ASSUME SubInv, Types', Shape', Reporting', Opening',
         UNCHANGED <<slot, tab, num, sub, bufs>>,
         \A p \in Pids : ChildGoes(p),
         OpenerKept
  PROVE  SubInv'
  <1>1. ASSUME NEW p \in Pids
        PROVE  ChildSound(p)'
    <2>1. ChildSound(p) /\ ChildGoes(p)
      BY DEF SubInv
    <2>2. (Housed(p) => Housed(p)') /\ (Awaited(p) => Awaited(p)')
      BY DEF Housed, Awaited, OpenerKept
    <2>3. proc[p] \in Child /\ proc'[p] \in Child
      BY DEF SubInv, Types, TypeOK
    <2>4. proc'[p].st \in Unstarted =>
            ~proc'[p].news /\ proc'[p].stops = 0 /\ proc'[p].out = 0 /\ proc'[p].pipe = 0 /\ proc'[p].got = 0
      BY <2>1, <2>3 DEF ChildSound, ChildGoes, Child
    <2> QED
      BY <2>1, <2>2, <2>4 DEF ChildSound, ChildGoes
  <1>2. ASSUME NEW s \in Slots
        PROVE  SlotSound(s)'
    <2>1. SlotSound(s) /\ slot'[s] = slot[s] /\ slot[s].pid \in Pids \cup {0}
      BY DEF SubInv, Types, TypeOK, Process
    <2>2. CASE slot[s].pid = 0
      BY <2>1, <2>2 DEF SlotSound, FreeSlot
    <2>3. CASE slot[s].pid # 0
      <3> DEFINE p == slot[s].pid
      <3>1. p \in Pids /\ ChildGoes(p) /\ slot'[s].pid = p
        BY <2>1, <2>3
      <3> HIDE DEF p
      <3>2. slot[s].flags = "exited" => proc'[p].st = "dead" /\ ~proc'[p].news
        BY <2>1, <3>1 DEF SlotSound, ChildGoes, p
      <3> QED
        BY <2>1, <2>3, <3>1, <3>2 DEF SlotSound, ChildGoes, OpenerKept, p
    <2> QED
      BY <2>2, <2>3
  <1>3. TableSound'
    BY DEF SubInv, TableSound, Selected, Used, FreeSlots
  <1>4. BuffersSound'
    BY DEF SubInv, BuffersSound, Attached, PointersLive
  <1> QED
    BY <1>1, <1>2, <1>3, <1>4 DEF SubInv

LEMMA QuietStays ==
  ASSUME SubInv, Types', UNCHANGED <<slot, tab, num, sub, bufs, stack, told>>,
         \A p \in Pids : ChildStep(p)
  PROVE  SubInv'
  <1>0. \A p \in Pids : ChildGoes(p)
    BY DEF ChildStep
  <1>1. Gentle
    BY <1>0, QuietGentle
  <1>2. Shape' /\ OpenerKept
    BY DEF SubInv, Shape, OpenerKept
  <1>3. Reporting'
    BY <1>1, ReportingStays
  <1>4. Opening'
    <2> SUFFICES ASSUME stack' # <<>>, stack'[1].at \in OpenAts
                 PROVE  LET f == stack'[1]
                        IN /\ f.s \in Slots /\ f.v \in Pids
                           /\ f.at \in {"pid", "enter", "go"} =>
                                /\ proc'[f.v].st \in {"waiting", "doze", "suspended"}
                                /\ ~usr'[f.v].flag /\ ~usr'[f.v].pend
                           /\ f.at \in {"pid", "enter"} =>
                                /\ f.b \in bufs' /\ sub'[f.b] = NoSlot
                                /\ \A s \in Slots : slot'[s].buffer # f.b
                           /\ f.at = "pid" => slot'[f.s] = FreeSlot
                           /\ f.at = "enter" => slot'[f.s] = [FreeSlot EXCEPT !.pid = f.v]
                           /\ f.at \notin {"pid", "enter"} => slot'[f.s].flags # "gone"
      BY DEF Opening
    <2>1. stack # <<>> /\ stack[1].at \in OpenAts /\ stack' = stack
      OBVIOUS
    <2>2. stack[1].v \in Pids /\ ChildStep(stack[1].v)
      BY <2>1 DEF SubInv, Opening
    <2> QED
      BY <2>1, <2>2 DEF SubInv, Opening, ChildStep, ChildGoes, ChildWaits
  <1> QED
    BY <1>0, <1>2, <1>3, <1>4, Quiet

LEMMA ChildStutters ==
  ASSUME NEW p \in Pids, proc'[p] = proc[p], usr'[p] = usr[p], SubInv
  PROVE  ChildStep(p)
  <1>1. proc[p] \in Child /\ ChildSound(p)
    BY DEF SubInv, Types, TypeOK
  <1>2. proc'[p] = [proc[p] EXCEPT !.st = proc'[p].st]
    BY <1>1 DEF Child
  <1> QED
    BY <1>1, <1>2 DEF ChildStep, ChildGoes, ChildWaits, ChildSound

-----------------------------------------------------------------------------
(* The children and the handlers.                                          *)

LEMMA Changing ==
  ASSUME SubInv, NEW p \in Pids, NEW st \in {"dead", "stopped", "running"}, Change(p, st),
         st = "running" => proc[p].st = "stopped", st # "running" => proc[p].st = "running",
         UNCHANGED <<slot, tab, num, flag, sub, bufs, stack, handling, usr, told>>
  PROVE  SubInv'
  <1>1. proc[p] \in Child /\ ChildSound(p) /\ \A q \in Pids : proc[q] \in Child
    BY DEF SubInv, Types, TypeOK
  <1>2. /\ proc' = [proc EXCEPT ![p] = [proc[p] EXCEPT !.st = st, !.news = (st # "running"),
                                     !.stops = IF st = "stopped" THEN @ + 1 ELSE @]]
        /\ chld' = TRUE
    BY DEF Change
  <1>3. proc'[p] = [proc[p] EXCEPT !.st = st, !.news = (st # "running"),
                                   !.stops = IF st = "stopped" THEN @ + 1 ELSE @]
        /\ \A q \in Pids \ {p} : proc'[q] = proc[q]
    BY <1>2 DEF SubInv, Types, TypeOK
  <1> DEFINE c == proc[p]
             n == IF st = "stopped" THEN c.stops + 1 ELSE c.stops
             news == st # "running"
  <1>8. /\ c.stops \in Nat /\ c.news \in BOOLEAN /\ c.out \in Nat /\ c.pipe \in Nat /\ c.got \in Nat
        /\ n \in Nat /\ n >= c.stops /\ (st = "stopped" => n # 0)
    BY <1>1 DEF Child
  <1>9. news \in BOOLEAN
    OBVIOUS
  <1>10. proc'[p] = [st |-> st, news |-> news, stops |-> n,
                     out |-> c.out, pipe |-> c.pipe, got |-> c.got]
    BY <1>1, <1>3 DEF Child
  <1>11. st \notin Unstarted /\ c.st \in {"running", "stopped"} /\ (news => st # "running")
    BY DEF Unstarted
  <1> HIDE DEF n, news
  <1>4. proc'[p] \in Child
    BY <1>8, <1>9, <1>10 DEF Child, States
  <1>5. Types'
    BY <1>2, <1>4 DEF SubInv, Types, TypeOK
  <1>6. ChildStep(p)
    BY <1>1, <1>8, <1>9, <1>10, <1>11 DEF ChildStep, ChildGoes, ChildWaits
  <1>7. \A q \in Pids : ChildStep(q)
    BY <1>3, <1>6, ChildStutters
  <1> QED
    BY <1>5, <1>7, QuietStays

LEMMA ExitStep ==
  ASSUME SubInv, NEW p \in Pids, Exit(p)
  PROVE  SubInv'
  BY Changing DEF Exit

LEMMA StopStep ==
  ASSUME SubInv, NEW p \in Pids, Stop(p)
  PROVE  SubInv'
  BY Changing DEF Stop

LEMMA ContinueStep ==
  ASSUME SubInv, NEW p \in Pids, Continue(p)
  PROVE  SubInv'
  BY Changing DEF Continue

(* A child, or the sender of a signal to it, does something; what its slot *)
(* says is not concerned.                                                  *)
Usr == [flag: BOOLEAN, pend: BOOLEAN, blocked: BOOLEAN]
OnlyChild(p) ==
  /\ proc' \in [Pids -> Child] /\ usr' \in [Pids \cup {Jed} -> Usr]
  /\ \A q \in Pids \ {p} : proc'[q] = proc[q] /\ usr'[q] = usr[q]
  /\ UNCHANGED <<slot, tab, num, flag, sub, bufs, stack, chld, handling, told>>

LEMMA ChildActs ==
  ASSUME SubInv, NEW p \in Pids, OnlyChild(p), ChildStep(p)
  PROVE  SubInv'
  <1>1. Types'
    BY DEF SubInv, Types, TypeOK, OnlyChild, Usr
  <1>2. \A q \in Pids : ChildStep(q)
    BY ChildStutters DEF OnlyChild
  <1> QED
    BY <1>1, <1>2, QuietStays DEF OnlyChild

LEMMA ChildUpdates ==
  ASSUME SubInv, NEW p \in Pids, NEW new \in Child, proc' = [proc EXCEPT ![p] = new],
         UNCHANGED usr \/ \E u, j \in Usr : usr' = [usr EXCEPT ![p] = u, ![Jed] = j],
         UNCHANGED <<slot, tab, num, flag, sub, bufs, stack, chld, handling, told>>
  PROVE  OnlyChild(p) /\ proc'[p] = new
  <1>1. proc \in [Pids -> Child] /\ usr \in [Pids \cup {Jed} -> Usr] /\ Jed \notin Pids
    BY DEF SubInv, Types, TypeOK, Usr, Pids, Jed
  <1>2. usr' \in [Pids \cup {Jed} -> Usr] /\ \A q \in Pids \ {p} : usr'[q] = usr[q]
    <2>1. CASE UNCHANGED usr
      BY <1>1, <2>1
    <2>2. ASSUME NEW u \in Usr, NEW j \in Usr, usr' = [usr EXCEPT ![p] = u, ![Jed] = j]
          PROVE  usr' \in [Pids \cup {Jed} -> Usr] /\ \A q \in Pids \ {p} : usr'[q] = usr[q]
      BY <1>1, <2>2
    <2> QED
      BY <2>1, <2>2
  <1> QED
    BY <1>1, <1>2 DEF OnlyChild

(* A child that is being started changes its state only.                   *)
LEMMA ChildGoesOn ==
  ASSUME SubInv, NEW p \in Pids, NEW st \in States, OnlyChild(p),
         proc'[p] = [proc[p] EXCEPT !.st = st],
         proc[p].st \in {"waiting", "doze", "suspended", "ready"},
         \/ st = "running" /\ proc[p].st = "ready"
         \/ st = "ready" /\ usr[p].flag
         \/ st \in {"doze", "suspended"} /\ usr' = usr
  PROVE  SubInv'
  <1> DEFINE c == proc[p]
  <1>1. c \in Child /\ ChildSound(p)
    BY DEF SubInv, Types, TypeOK
  <1>4. c.st \in Unstarted /\ c.st # "stopped"
    BY DEF Unstarted
  <1>5. proc'[p].st = st /\ proc'[p].news = c.news /\ proc'[p].stops = c.stops
        /\ proc'[p].out = c.out /\ proc'[p].pipe = c.pipe /\ proc'[p].got = c.got
    BY <1>1 DEF Child
  <1>7. ~c.news /\ c.stops = 0 /\ c.st # "dead" /\ c.st # "none"
    BY <1>1, <1>4 DEF ChildSound
  <1>8. ChildStep(p)
    BY <1>1, <1>4, <1>5, <1>7 DEF ChildStep, ChildGoes, ChildWaits
  <1> QED
    BY <1>8, ChildActs

LEMMA ChildTypes ==
  ASSUME SubInv, NEW p \in Pids
  PROVE  /\ proc[p] \in Child /\ ChildSound(p) /\ usr[p] \in Usr /\ usr[Jed] \in Usr
         /\ \A st \in States : [proc[p] EXCEPT !.st = st] \in Child
  BY DEF SubInv, Types, TypeOK, Usr, Child

LEMMA WaitForParentStep ==
  ASSUME SubInv, NEW p \in Pids, WaitForParent(p)
  PROVE  SubInv'
  <1> DEFINE st == IF usr[p].flag THEN "ready" ELSE "doze"
  <1>1. st \in States /\ ((st = "ready" /\ usr[p].flag) \/ st = "doze")
    BY DEF States
  <1>2. proc' = [proc EXCEPT ![p] = [proc[p] EXCEPT !.st = st]] /\ proc[p].st = "waiting" /\ usr' = usr
        /\ UNCHANGED <<slot, tab, num, flag, sub, bufs, stack, chld, handling, told>>
    BY DEF WaitForParent
  <1> HIDE DEF st
  <1>3. OnlyChild(p) /\ proc'[p] = [proc[p] EXCEPT !.st = st]
    BY <1>1, <1>2, ChildTypes, ChildUpdates
  <1> QED
    BY <1>1, <1>2, <1>3, ChildGoesOn

LEMMA SuspendChildStep ==
  ASSUME SubInv, NEW p \in Pids, SuspendChild(p)
  PROVE  SubInv'
  <1>1. proc' = [proc EXCEPT ![p] = [proc[p] EXCEPT !.st = "suspended"]] /\ proc[p].st = "doze"
        /\ usr' = usr
        /\ UNCHANGED <<slot, tab, num, flag, sub, bufs, stack, chld, handling, told>>
    BY DEF SuspendChild
  <1>2. "suspended" \in States
    BY DEF States
  <1>3. OnlyChild(p) /\ proc'[p] = [proc[p] EXCEPT !.st = "suspended"]
    BY <1>1, <1>2, ChildTypes, ChildUpdates
  <1> QED
    BY <1>1, <1>2, <1>3, ChildGoesOn

LEMMA TellParentStep ==
  ASSUME SubInv, NEW p \in Pids, TellParent(p)
  PROVE  SubInv'
  <1> DEFINE u == [usr[p] EXCEPT !.flag = FALSE, !.blocked = FALSE]
             j == [usr[Jed] EXCEPT !.pend = TRUE]
  <1>1. p # Jed /\ usr \in [Pids \cup {Jed} -> Usr]
    BY DEF Pids, Jed, SubInv, Types, TypeOK, Usr
  <1>2. u \in Usr /\ j \in Usr
    BY ChildTypes DEF Usr
  <1>3. usr' = [usr EXCEPT ![p] = u, ![Jed] = j]
    BY <1>1 DEF TellParent
  <1>4. "running" \in States
    BY DEF States
  <1>5. proc' = [proc EXCEPT ![p] = [proc[p] EXCEPT !.st = "running"]] /\ proc[p].st = "ready"
        /\ UNCHANGED <<slot, tab, num, flag, sub, bufs, stack, chld, handling, told>>
    BY DEF TellParent
  <1> HIDE DEF u, j
  <1>6. OnlyChild(p) /\ proc'[p] = [proc[p] EXCEPT !.st = "running"]
    BY <1>2, <1>3, <1>4, <1>5, ChildTypes, ChildUpdates
  <1> QED
    BY <1>4, <1>5, <1>6, ChildGoesOn

LEMMA SigUsrToChildStep ==
  ASSUME SubInv, NEW p \in Pids, SigUsrToChild(p)
  PROVE  SubInv'
  <1> DEFINE u == [usr[p] EXCEPT !.flag = TRUE, !.pend = FALSE]
             new == [proc[p] EXCEPT !.st = IF @ = "suspended" THEN "waiting" ELSE @]
  <1>1. p # Jed /\ usr \in [Pids \cup {Jed} -> Usr]
    BY DEF Pids, Jed, SubInv, Types, TypeOK, Usr
  <1>2. u \in Usr /\ usr[Jed] \in Usr
    BY ChildTypes DEF Usr
  <1>11. [usr EXCEPT ![p].flag = TRUE, ![p].pend = FALSE] = [usr EXCEPT ![p] = u]
    BY <1>1
  <1>3. usr' = [usr EXCEPT ![p] = u, ![Jed] = usr[Jed]]
    BY <1>1, <1>11 DEF SigUsrToChild, Taken
  <1>4. proc[p] \in Child /\ ChildSound(p) /\ usr[p].pend
    BY ChildTypes DEF SigUsrToChild
  <1>5. new \in Child
    BY <1>4 DEF Child, States
  <1>6. proc' = [proc EXCEPT ![p] = new]
        /\ UNCHANGED <<slot, tab, num, flag, sub, bufs, stack, chld, handling, told>>
    BY DEF SigUsrToChild
  <1>7. proc'[p] = new
    BY <1>6 DEF SubInv, Types, TypeOK
  <1>8. /\ proc'[p].news = proc[p].news /\ proc'[p].stops = proc[p].stops
        /\ proc'[p].out = proc[p].out /\ proc'[p].pipe = proc[p].pipe /\ proc'[p].got = proc[p].got
        /\ proc'[p] = [proc[p] EXCEPT !.st = proc'[p].st]
        /\ proc[p].st = "suspended" => proc'[p].st = "waiting"
        /\ proc[p].st # "suspended" => proc'[p].st = proc[p].st
    BY <1>4, <1>7 DEF Child
  <1>9. ChildStep(p)
    BY <1>4, <1>8 DEF ChildStep, ChildGoes, ChildWaits, ChildSound, Unstarted
  <1> HIDE DEF u, new
  <1>10. OnlyChild(p)
    BY <1>2, <1>3, <1>5, <1>6, ChildUpdates
  <1> QED
    BY <1>9, <1>10, ChildActs

LEMMA WriteStep ==
  ASSUME SubInv, NEW p \in Pids, Write(p)
  PROVE  SubInv'
  <1> DEFINE c == proc[p]
             new == [c EXCEPT !.out = c.out + 1, !.pipe = c.pipe + 1]
  <1>1. c \in Child /\ ChildSound(p) /\ c.st = "running"
    BY ChildTypes DEF Write
  <1>2. c.out \in Nat /\ c.pipe \in Nat /\ c.got \in Nat /\ c.out + 1 \in Nat /\ c.pipe + 1 \in Nat
    BY <1>1 DEF Child
  <1>3. new \in Child
    BY <1>1, <1>2 DEF Child
  <1>4. proc' = [proc EXCEPT ![p] = new]
        /\ UNCHANGED <<slot, tab, num, flag, sub, bufs, stack, chld, handling, usr, told>>
    BY DEF Write
  <1>5. proc'[p] = new
    BY <1>4 DEF SubInv, Types, TypeOK
  <1>6. /\ proc'[p].news = c.news /\ proc'[p].stops = c.stops /\ proc'[p].st = "running"
        /\ proc'[p].out = c.out + 1 /\ proc'[p].pipe = c.pipe + 1 /\ proc'[p].got = c.got
    BY <1>1, <1>5 DEF Child
  <1>7. ChildStep(p)
    BY <1>1, <1>2, <1>6 DEF ChildStep, ChildGoes, ChildWaits, ChildSound, Unstarted
  <1> HIDE DEF new
  <1>8. OnlyChild(p)
    BY <1>3, <1>4, ChildUpdates
  <1> QED
    BY <1>7, <1>8, ChildActs

LEMMA HandlerStartsStep ==
  ASSUME SubInv, HandlerStarts
  PROVE  SubInv'
  <1>1. Types'
    BY DEF HandlerStarts, SubInv, Types, TypeOK
  <1>2. \A p \in Pids : ChildStep(p)
    BY ChildStutters DEF HandlerStarts
  <1> QED
    BY <1>1, <1>2, QuietStays DEF HandlerStarts

LEMMA FrameAts ==
  ASSUME NEW st \in Seq(FrameType)
  PROVE  \A i \in DOMAIN st : st[i].at \in Frames
  <1>1. DOMAIN st = 1..Len(st)
    OBVIOUS
  <1>2. \A i \in 1..Len(st) : st[i] \in FrameType
    BY ElementOfSeq
  <1> QED
    BY <1>1, <1>2 DEF FrameType

-----------------------------------------------------------------------------
(* Starting a child.                                                       *)

(* open_process goes on, its child told to go.                             *)
LEMMA OpenerMoves ==
  ASSUME SubInv, stack # <<>>, stack[1].at \in {"go", "test", "doze", "suspended"},
         NEW at \in {"test", "doze", "suspended", "set"}, Goto(at),
         UNCHANGED <<slot, tab, num, sub, bufs, proc, told>>,
         usr' \in [Pids \cup {Jed} -> Usr], flag' \in Nat, chld' \in BOOLEAN, handling' \in BOOLEAN
  PROVE  SubInv'
  <1>0. stack[1] \in FrameType /\ at \in Frames
    BY TopFrame DEF SubInv, Types, Frames
  <1> PICK f \in FrameType : f = [stack[1] EXCEPT !.at = at]
    BY <1>0 DEF FrameType
  <1>1. stack' \in Seq(FrameType) /\ MovedTo(f)
    BY <1>0, GoStep DEF SubInv
  <1>2. Types'
    BY <1>1, FrameAts DEF SubInv, Types, TypeOK, Usr
  <1>3. \A p \in Pids : ChildGoes(p)
    <2> SUFFICES ASSUME NEW p \in Pids
                 PROVE  ChildGoes(p)
      OBVIOUS
    <2>1. proc[p] \in Child /\ ChildSound(p)
      BY ChildTypes
    <2>2. proc'[p] = [proc[p] EXCEPT !.st = proc'[p].st]
      BY <2>1 DEF Child
    <2> QED
      BY <2>1, <2>2 DEF ChildGoes, ChildSound
  <1>4. f.at = at /\ f.s = stack[1].s /\ f.v = stack[1].v
    BY <1>0 DEF FrameType
  <1>5. Shape'
    BY <1>1, <1>4, ShapeMove DEF OpenAts, ScanAts
  <1>6. FrameSound(f, TRUE)'
    BY <1>4 DEF FrameSound, ReportAts
  <1>7. Reporting'
    BY <1>1, <1>2, <1>3, <1>6, QuietGentle, ReportingMove
  <1>8. Opening'
    BY <1>1, <1>4 DEF SubInv, Opening, MovedTo, OpenAts
  <1> QED
    BY <1>2, <1>3, <1>5, <1>7, <1>8, Quiet DEF OpenerKept

LEMMA TellChildStep ==
  ASSUME SubInv, TellChild
  PROVE  SubInv'
  <1>1. stack # <<>> /\ stack[1].at = "go"
    BY TopFrame DEF TellChild, At, Top, SubInv, Types
  <1>2. usr \in [Pids \cup {Jed} -> Usr] /\ flag \in Nat /\ chld \in BOOLEAN /\ handling \in BOOLEAN
    BY DEF SubInv, Types, TypeOK, Usr
  <1>3. usr' \in [Pids \cup {Jed} -> Usr]
    <2>1. Jed \in Pids \cup {Jed}
      OBVIOUS
    <2>2. [usr EXCEPT ![Jed].flag = FALSE] \in [Pids \cup {Jed} -> Usr]
      BY <1>2, <2>1 DEF Usr
    <2> QED
      BY <1>2, <2>2 DEF TellChild, Usr
  <1> QED
    BY <1>1, <1>2, <1>3, OpenerMoves DEF TellChild

LEMMA AwaitChildStep ==
  ASSUME SubInv, AwaitChild
  PROVE  SubInv'
  <1>1. stack # <<>> /\ stack[1].at = "test"
    BY TopFrame DEF AwaitChild, At, Top, SubInv, Types
  <1>2. usr \in [Pids \cup {Jed} -> Usr] /\ flag \in Nat /\ chld \in BOOLEAN /\ handling \in BOOLEAN
    BY DEF SubInv, Types, TypeOK, Usr
  <1>3. usr' \in [Pids \cup {Jed} -> Usr]
    BY <1>2 DEF AwaitChild, Usr
  <1>4. Goto("set") \/ Goto("doze")
    BY DEF AwaitChild
  <1> QED
    BY <1>1, <1>2, <1>3, <1>4, OpenerMoves DEF AwaitChild

LEMMA SuspendStep ==
  ASSUME SubInv, Suspend
  PROVE  SubInv'
  <1>1. stack # <<>> /\ stack[1].at = "doze"
    BY TopFrame DEF Suspend, At, Top, SubInv, Types
  <1>2. usr \in [Pids \cup {Jed} -> Usr] /\ flag \in Nat /\ chld \in BOOLEAN /\ handling \in BOOLEAN
    BY DEF SubInv, Types, TypeOK, Usr
  <1> QED
    BY <1>1, <1>2, OpenerMoves DEF Suspend

LEMMA WakeStep ==
  ASSUME SubInv, Wake, UNCHANGED <<slot, tab, num, sub, bufs, proc, told>>,
         usr' \in [Pids \cup {Jed} -> Usr], \A p \in Pids : usr'[p] = usr[p],
         flag' \in Nat, chld' \in BOOLEAN, handling' \in BOOLEAN
  PROVE  SubInv'
  <1>1. CASE stack # <<>> /\ Top.at = "suspended"
    <2>1. stack[1].at = "suspended" /\ Goto("test")
      BY <1>1, TopFrame DEF Wake, Goto, Top, SubInv, Types
    <2> QED
      BY <1>1, <2>1, OpenerMoves
  <1>2. CASE ~(stack # <<>> /\ Top.at = "suspended")
    <2>1. stack' = stack
      BY <1>2 DEF Wake
    <2>2. Types'
      BY <2>1 DEF SubInv, Types, TypeOK, Usr
    <2>3. \A p \in Pids : ChildStep(p)
      BY ChildStutters
    <2> QED
      BY <2>1, <2>2, <2>3, QuietStays
  <1> QED
    BY <1>1, <1>2

LEMMA HandlerEndsStep ==
  ASSUME SubInv, HandlerEnds
  PROVE  SubInv'
  <1>1. usr \in [Pids \cup {Jed} -> Usr] /\ flag \in Nat /\ chld \in BOOLEAN
    BY DEF SubInv, Types, TypeOK, Usr
  <1>2. /\ Wake /\ UNCHANGED <<slot, tab, num, sub, bufs, proc, told>>
        /\ usr' = usr /\ chld' = chld /\ handling' = FALSE /\ flag' = flag + 1
    BY DEF HandlerEnds
  <1>3. flag' \in Nat
    BY <1>1, <1>2
  <1> QED
    BY <1>1, <1>2, <1>3, WakeStep

LEMMA SigUsrToJedStep ==
  ASSUME SubInv, SigUsrToJed
  PROVE  SubInv'
  <1>1. usr \in [Pids \cup {Jed} -> Usr] /\ flag \in Nat /\ chld \in BOOLEAN /\ handling \in BOOLEAN
        /\ Jed \notin Pids
    BY DEF SubInv, Types, TypeOK, Usr, Pids, Jed
  <1> DEFINE u == [usr[Jed] EXCEPT !.flag = TRUE, !.pend = FALSE]
  <1>2. u \in Usr
    BY <1>1 DEF Usr
  <1>3. [usr EXCEPT ![Jed].flag = TRUE, ![Jed].pend = FALSE] = [usr EXCEPT ![Jed] = u]
    BY <1>1
  <1>4. usr' = [usr EXCEPT ![Jed] = u]
    BY <1>3 DEF SigUsrToJed, Taken
  <1> HIDE DEF u
  <1>5. usr' \in [Pids \cup {Jed} -> Usr] /\ \A p \in Pids : usr'[p] = usr[p]
    BY <1>1, <1>2, <1>4
  <1> QED
    BY <1>1, <1>5, WakeStep DEF SigUsrToJed

(* What steps that change a slot keep of the tables.                       *)
LEMMA TableKept ==
  ASSUME SubInv, UNCHANGED <<tab, num>>,
         \A s \in Slots : slot'[s].flags = "gone" <=> slot[s].flags = "gone"
  PROVE  TableSound'
  <1>1. FreeSlots' = FreeSlots
    BY DEF FreeSlots
  <1> QED
    BY <1>1 DEF SubInv, TableSound, Selected, Used

LEMMA BuffersKept ==
  ASSUME SubInv, UNCHANGED <<sub, bufs>>,
         \A s \in Slots : /\ slot'[s].flags = "gone" <=> slot[s].flags = "gone"
                          /\ slot'[s].buffer = slot[s].buffer /\ (slot'[s].open <=> slot[s].open)
  PROVE  BuffersSound'
  <1>1. \A b \in bufs : sub[b] # NoSlot => sub[b] \in Slots
    BY DEF SubInv, Types, TypeOK
  <1> QED
    BY <1>1 DEF SubInv, BuffersSound, Attached, PointersLive

LEMMA ChildrenKept ==
  ASSUME SubInv, Types', Gentle, \A p \in Pids : ChildGoes(p),
         \A p \in Pids : Awaited(p) => Awaited(p)' \/ Housed(p)'
  PROVE  \A p \in Pids : ChildSound(p)'
  <1> SUFFICES ASSUME NEW p \in Pids
               PROVE  ChildSound(p)'
    OBVIOUS
  <1>1. ChildSound(p) /\ ChildGoes(p)
    BY DEF SubInv
  <1>2. Housed(p) => Housed(p)'
    BY DEF Housed, Gentle
  <1>3. proc[p] \in Child /\ proc'[p] \in Child
    BY DEF SubInv, Types, TypeOK
  <1>4. proc'[p].st \in Unstarted =>
          ~proc'[p].news /\ proc'[p].stops = 0 /\ proc'[p].out = 0 /\ proc'[p].pipe = 0 /\ proc'[p].got = 0
    BY <1>1, <1>3 DEF ChildSound, ChildGoes, Child
  <1> QED
    BY <1>1, <1>2, <1>4 DEF ChildSound, ChildGoes

LEMMA ChildrenStutter ==
  ASSUME SubInv, proc' = proc
  PROVE  \A p \in Pids : ChildGoes(p)
  <1> SUFFICES ASSUME NEW p \in Pids
               PROVE  ChildGoes(p)
    OBVIOUS
  <1>1. proc[p] \in Child /\ ChildSound(p)
    BY ChildTypes
  <1>2. proc'[p] = [proc[p] EXCEPT !.st = proc'[p].st]
    BY <1>1 DEF Child
  <1> QED
    BY <1>1, <1>2 DEF ChildGoes, ChildSound

LEMMA TopType ==
  ASSUME SubInv, stack # <<>>
  PROVE  /\ Top = stack[1] /\ stack[1] \in FrameType /\ Len(stack) \in Nat \ {0}
         /\ stack[1].at \in Frames /\ stack[1].s \in Nat /\ stack[1].v \in Nat
         /\ stack[1].b \in Buffers \cup {None}
  <1>1. Head(stack) = stack[1] /\ stack[1] \in FrameType /\ Len(stack) \in Nat \ {0}
    BY TopFrame DEF SubInv, Types
  <1> QED
    BY <1>1 DEF Top, FrameType

LEMMA SlotTypes ==
  ASSUME SubInv, NEW s \in Slots
  PROVE  slot[s] \in Process /\ SlotSound(s)
         /\ slot[s].pid \in Pids \cup {0} /\ slot[s].flags \in Flags /\ slot[s].changed \in Nat
         /\ slot[s].open \in BOOLEAN /\ slot[s].buffer \in Buffers \cup {None}
         /\ slot[s].calls \in BOOLEAN /\ slot[s].slang \in BOOLEAN
  BY DEF SubInv, Types, TypeOK, Process

LEMMA SetPidStep ==
  ASSUME SubInv, SetPid
  PROVE  SubInv'
  <1>1. /\ stack # <<>> /\ Goto("enter") /\ Top = stack[1] /\ stack[1].at = "pid"
        /\ stack[1] \in FrameType
        /\ UNCHANGED <<tab, num, flag, sub, bufs, chld, handling, usr, proc, told>>
    BY TopType DEF SetPid, At
  <1> PICK f \in FrameType : f = [stack[1] EXCEPT !.at = "enter"]
    BY <1>1 DEF FrameType, Frames
  <1> DEFINE t == stack[1].s
             v == stack[1].v
  <1>2. f.at = "enter" /\ f.s = t /\ f.v = v /\ f.b = stack[1].b
    BY <1>1 DEF FrameType
  <1>3. stack' \in Seq(FrameType) /\ MovedTo(f)
    <2>1. "enter" \in Frames
      BY DEF Frames
    <2> QED
      BY <1>1, <2>1, GoStep DEF SubInv
  <1>4. /\ t \in Slots /\ v \in Pids /\ slot[t] = FreeSlot
        /\ proc[v].st \in {"waiting", "doze", "suspended"} /\ ~usr[v].flag /\ ~usr[v].pend
        /\ stack[1].b \in bufs /\ sub[stack[1].b] = NoSlot /\ \A s \in Slots : slot[s].buffer # stack[1].b
    BY <1>1 DEF SubInv, Opening, OpenAts
  <1>5. slot' = [slot EXCEPT ![t] = [FreeSlot EXCEPT !.pid = v]]
    <2>1. slot' = [slot EXCEPT ![t] = [slot[t] EXCEPT !.pid = v]]
      BY <1>1 DEF SetPid
    <2>2. [slot[t] EXCEPT !.pid = v] = [FreeSlot EXCEPT !.pid = v]
      BY <1>4 DEF FreeSlot
    <2> QED
      BY <2>1, <2>2
  <1>6. slot'[t] = [FreeSlot EXCEPT !.pid = v] /\ \A s \in Slots \ {t} : slot'[s] = slot[s]
    BY <1>4, <1>5 DEF SubInv, Types, TypeOK
  <1>7. [FreeSlot EXCEPT !.pid = v] \in Process
    BY <1>4 DEF FreeSlot, Process, Flags
  <1>8. Types'
    BY <1>1, <1>3, <1>4, <1>5, <1>7, FrameAts DEF SubInv, Types, TypeOK
  <1> HIDE DEF t, v
  <1>9. /\ slot[t].flags = "gone" /\ slot[t].buffer = None /\ ~slot[t].open
        /\ slot'[t].flags = "gone" /\ slot'[t].buffer = None /\ ~slot'[t].open
        /\ slot'[t].pid = v /\ slot'[t].changed = 0
    BY <1>4, <1>6 DEF FreeSlot
  <1>10. TableSound' /\ BuffersSound'
    BY <1>1, <1>6, <1>9, TableKept, BuffersKept
  <1>11. Gentle
    <2>1. \A s \in Slots : slot[s].changed \in Nat
      BY SlotTypes
    <2> QED
      BY <1>1, <1>6, <1>9, <2>1 DEF Gentle
  <1>12. Reporting' /\ Shape'
    <2>1. FrameSound(f, TRUE)'
      BY <1>2 DEF FrameSound, ReportAts
    <2>2. Shape'
      BY <1>1, <1>2, <1>3, ShapeMove DEF OpenAts, ScanAts
    <2> QED
      BY <1>1, <1>3, <1>8, <1>11, <2>1, <2>2, ReportingMove
  <1>13. Opening'
    <2>1. stack'[1] = f /\ f.at = "enter" /\ f.s = t /\ f.v = v /\ f.b = stack[1].b
      BY <1>2, <1>3 DEF MovedTo
    <2>2. f.b # None
      BY <1>4, <2>1, SubprocessAssumption DEF SubInv, Types, TypeOK
    <2>3. \A s \in Slots : slot'[s].buffer # f.b
      <3>1. \A s \in Slots : slot[s].buffer # f.b
        BY ONLY <1>4, <2>1
      <3> SUFFICES ASSUME NEW s \in Slots
                   PROVE  slot'[s].buffer # f.b
        OBVIOUS
      <3>2. CASE s = t
        BY <1>9, <2>2, <3>2
      <3>3. CASE s # t
        BY ONLY <1>6, <3>1, <3>3
      <3> QED
        BY <3>2, <3>3
    <2>4. proc' = proc /\ usr' = usr /\ bufs' = bufs /\ sub' = sub
      BY <1>1
    <2> QED
      BY <1>4, <1>6, <2>1, <2>3, <2>4 DEF Opening
  <1>14. \A p \in Pids : ChildSound(p)'
    <2>1. \A p \in Pids : Awaited(p) => Awaited(p)'
      BY <1>2, <1>3 DEF Awaited, MovedTo, v
    <2> QED
      BY <1>1, <1>8, <1>11, <2>1, ChildrenStutter, ChildrenKept
  <1>15. ASSUME NEW s \in Slots
         PROVE  SlotSound(s)'
    <2>1. CASE s = t
      BY <1>1, <1>2, <1>3, <1>4, <1>6, <1>9, <2>1 DEF SlotSound, MovedTo
    <2>2. CASE s # t
      BY <1>1, <1>6, <2>2, SlotTypes DEF SlotSound
    <2> QED
      BY <2>1, <2>2
  <1> QED
    BY <1>8, <1>10, <1>12, <1>13, <1>14, <1>15 DEF SubInv

(* The least number of a set is in it.                                     *)
LEMMA NatMin ==
  ASSUME NEW S, S \subseteq Nat, S # {}
  PROVE  Min(S) \in S /\ \A x \in S : Min(S) <= x
  <1> DEFINE R == {ss \in Nat \X Nat : ss[1] < ss[2]}
  <1>0. IsWellFoundedOn(R, Nat)
    BY NatLessThanWellFounded DEF OpToRel
  <1>1. PICK n \in S : \A m \in S : <<m, n>> \notin R
    BY <1>0, WFMin
  <1>2. ASSUME NEW m \in S
        PROVE  n <= m
    <2>1. m \in Nat /\ n \in Nat /\ <<m, n>> \in Nat \X Nat /\ <<m, n>>[1] = m /\ <<m, n>>[2] = n
      OBVIOUS
    <2>2. ~(m < n)
      BY <1>1, <2>1, Zenon
    <2> QED
      BY <2>1, <2>2
  <1>3. \E x \in S : \A y \in S : x <= y
    BY <1>2
  <1> QED
    BY <1>3 DEF Min

(* Not all slots are in use as long as one is not.                         *)
LEMMA UsedCount ==
  ASSUME SubInv
  PROVE  /\ IsFiniteSet(Used) /\ Cardinality(Used) \in Nat
         /\ \A t \in Slots : t \notin Used => Cardinality(Used) < MaxProcesses
  <1>1. IsFiniteSet(Slots) /\ Cardinality(Slots) = MaxProcesses
    BY FS_Interval, SubprocessAssumption DEF Slots
  <1>2. IsFiniteSet(Used) /\ Cardinality(Used) \in Nat
    BY <1>1, FS_Subset, FS_CardinalityType DEF Used
  <1>3. ASSUME NEW t \in Slots, t \notin Used
        PROVE  Cardinality(Used) < MaxProcesses
    <2>1. Used \subseteq Slots /\ Used # Slots
      BY <1>3 DEF Used
    <2>2. Cardinality(Used) <= MaxProcesses /\ Cardinality(Used) # MaxProcesses
      BY <1>1, <2>1, FS_Subset
    <2> QED
      BY <1>2, <2>2, SubprocessAssumption
  <1> QED
    BY <1>2, <1>3

LEMMA EnterProcessStep ==
  ASSUME SubInv, EnterProcess
  PROVE  SubInv'
  <1>1. /\ stack # <<>> /\ Goto("go") /\ Top = stack[1] /\ stack[1].at = "enter"
        /\ stack[1] \in FrameType
        /\ UNCHANGED <<flag, bufs, chld, handling, usr, proc, told>>
    BY TopType DEF EnterProcess, At
  <1> PICK f \in FrameType : f = [stack[1] EXCEPT !.at = "go"]
    BY <1>1 DEF FrameType, Frames
  <1> DEFINE t == stack[1].s
             v == stack[1].v
             b == stack[1].b
             new == [FreeSlot EXCEPT !.pid = v, !.flags = "running", !.open = TRUE, !.buffer = b]
  <1>2. f.at = "go" /\ f.s = t /\ f.v = v /\ f.b = b
    BY <1>1 DEF FrameType
  <1>3. stack' \in Seq(FrameType) /\ MovedTo(f)
    <2>1. "go" \in Frames
      BY DEF Frames
    <2> QED
      BY <1>1, <2>1, GoStep DEF SubInv
  <1>4. /\ t \in Slots /\ v \in Pids /\ slot[t] = [FreeSlot EXCEPT !.pid = v]
        /\ proc[v].st \in {"waiting", "doze", "suspended"} /\ ~usr[v].flag /\ ~usr[v].pend
        /\ b \in bufs /\ sub[b] = NoSlot /\ \A s \in Slots : slot[s].buffer # b
    BY <1>1 DEF SubInv, Opening, OpenAts
  <1>5. slot' = [slot EXCEPT ![t] = new]
    <2>1. slot' = [slot EXCEPT ![t] = [slot[t] EXCEPT !.flags = "running", !.open = TRUE, !.buffer = b]]
      BY <1>1, <1>4 DEF EnterProcess, SubInv, Types, TypeOK
    <2>2. [slot[t] EXCEPT !.flags = "running", !.open = TRUE, !.buffer = b] = new
      BY <1>4 DEF FreeSlot
    <2> QED
      BY <2>1, <2>2
  <1>6. b \in Buffers /\ b # None
    BY <1>4, SubprocessAssumption DEF SubInv, Types, TypeOK
  <1>7. /\ new \in Process /\ new.flags = "running" /\ new.open /\ new.buffer = b /\ new.pid = v
        /\ new.changed = 0
    BY <1>4, <1>6 DEF FreeSlot, Process, Flags
  <1> HIDE DEF new
  <1>8. slot'[t] = new /\ \A s \in Slots \ {t} : slot'[s] = slot[s]
    BY <1>4, <1>5 DEF SubInv, Types, TypeOK
  <1>9. slot[t].flags = "gone" /\ slot[t].buffer = None /\ ~slot[t].open
    BY <1>4 DEF FreeSlot
  <1>10. /\ tab' = [tab EXCEPT ![num] = t] /\ num' = num + 1 /\ sub' = [sub EXCEPT ![b] = t]
    BY <1>1 DEF EnterProcess
  <1>11. num \in 0..(MaxProcesses - 1) /\ num = Cardinality(Used) /\ t \notin Used
    <2>1. t \notin Used
      BY <1>4, <1>9 DEF Used, FreeSlots
    <2>2. Cardinality(Used) < MaxProcesses /\ Cardinality(Used) \in Nat
      BY <1>4, <2>1, UsedCount
    <2> QED
      BY <2>1, <2>2, SubprocessAssumption DEF SubInv, TableSound
  <1> HIDE DEF t, v, b
  <1>12. /\ tab'[num] = t /\ \A i \in DOMAIN tab \ {num} : tab'[i] = tab[i]
         /\ DOMAIN tab = 0..(MaxProcesses - 1) /\ DOMAIN tab' = DOMAIN tab
    BY <1>10, <1>11 DEF SubInv, Types, TypeOK
  <1>13. Types'
    <2>1. tab' \in [0..(MaxProcesses - 1) -> Slots \cup {NoSlot}]
      BY <1>4, <1>10 DEF SubInv, Types, TypeOK
    <2>2. num' \in 0..MaxProcesses
      BY <1>10, <1>11, SubprocessAssumption
    <2>3. sub' \in [Buffers -> Slots \cup {NoSlot}]
      BY <1>4, <1>10 DEF SubInv, Types, TypeOK
    <2>4. slot' \in [Slots -> Process]
      BY <1>5, <1>7 DEF SubInv, Types, TypeOK
    <2> QED
      BY <1>1, <1>3, <2>1, <2>2, <2>3, <2>4, FrameAts DEF SubInv, Types, TypeOK
  <1>14. TableSound'
    <2>1. FreeSlots' = FreeSlots \ {t} /\ Used' = Used \cup {t}
      BY <1>4, <1>7, <1>8 DEF FreeSlots, Used
    <2>2. Selected = Used /\ \A i, j \in DOMAIN tab : i < num /\ j < num /\ tab[i] = tab[j] => i = j
      BY DEF SubInv, TableSound
    <2>3. Selected' = Selected \cup {t}
      <3>1. \A i \in DOMAIN tab : i < num + 1 <=> i < num \/ i = num
        BY <1>11, <1>12
      <3> QED
        BY <1>10, <1>11, <1>12, <3>1 DEF Selected
    <2>4. Cardinality(Used') = num + 1
      BY <1>11, <2>1, UsedCount, FS_AddElement
    <2>5. \A i \in DOMAIN tab : i < num => tab[i] # t
      BY <1>11, <2>2 DEF Selected
    <2>6. \A i, j \in DOMAIN tab' : i < num' /\ j < num' /\ tab'[i] = tab'[j] => i = j
      BY <1>10, <1>11, <1>12, <2>2, <2>5
    <2> QED
      BY <1>10, <2>1, <2>2, <2>3, <2>4, <2>6 DEF TableSound
  <1>15. BuffersSound'
    <2>1. sub'[b] = t /\ \A c \in Buffers \ {b} : sub'[c] = sub[c]
      BY <1>6, <1>10 DEF SubInv, Types, TypeOK
    <2>2. \A c \in bufs : c \in Buffers /\ (sub[c] # NoSlot => sub[c] \in Slots)
      BY DEF SubInv, Types, TypeOK
    <2>3. Attached'
      <3>1. ASSUME NEW c \in bufs, sub'[c] # NoSlot
            PROVE  slot'[sub'[c]].flags # "gone" /\ slot'[sub'[c]].buffer = c /\ slot'[sub'[c]].open
        <4>1. CASE c = b
          BY <1>7, <1>8, <2>1, <4>1
        <4>2. CASE c # b
          <5>1. sub'[c] = sub[c] /\ sub[c] \in Slots
            BY <2>1, <2>2, <3>1, <4>2
          <5>2. slot[sub[c]].flags # "gone" /\ slot[sub[c]].buffer = c /\ slot[sub[c]].open
            BY <3>1, <5>1 DEF SubInv, BuffersSound, Attached
          <5> QED
            BY <1>8, <1>9, <5>1, <5>2
        <4> QED
          BY <4>1, <4>2
      <3>2. ASSUME NEW s \in Slots, slot'[s].open
            PROVE  sub'[slot'[s].buffer] = s
        <4>1. CASE s = t
          BY <1>7, <1>8, <2>1, <4>1
        <4>2. CASE s # t
          <5>1. slot[s].open /\ slot'[s] = slot[s]
            BY <1>8, <3>2, <4>2
          <5>2. sub[slot[s].buffer] = s /\ slot[s].buffer # None /\ slot[s].buffer \in Buffers
            BY <5>1, SlotTypes DEF SubInv, BuffersSound, Attached
          <5> QED
            BY <1>4, <2>1, <5>1, <5>2
        <4> QED
          BY <4>1, <4>2
      <3> QED
        BY <1>1, <3>1, <3>2 DEF Attached
    <2>4. PointersLive'
      BY <1>1, <1>4, <1>7, <1>8 DEF SubInv, BuffersSound, PointersLive
    <2>5. \A s \in Slots : slot'[s].open => slot'[s].buffer # None
      BY <1>6, <1>7, <1>8 DEF SubInv, BuffersSound
    <2>6. \A s, u \in Slots : slot'[s].buffer = slot'[u].buffer /\ slot'[s].buffer # None => s = u
      BY <1>4, <1>7, <1>8 DEF SubInv, BuffersSound
    <2> QED
      BY <2>3, <2>4, <2>5, <2>6 DEF BuffersSound
  <1>16. Gentle
    <2>1. \A s \in Slots : slot[s].changed \in Nat
      BY SlotTypes
    <2> QED
      BY <1>1, <1>8, <1>9, <2>1 DEF Gentle
  <1>17. Reporting' /\ Shape'
    <2>1. FrameSound(f, TRUE)'
      BY <1>2 DEF FrameSound, ReportAts
    <2>2. Shape'
      BY <1>1, <1>2, <1>3, ShapeMove DEF OpenAts, ScanAts
    <2> QED
      BY <1>1, <1>3, <1>13, <1>16, <2>1, <2>2, ReportingMove
  <1>18. Opening'
    <2>1. stack'[1] = f
      BY <1>3 DEF MovedTo
    <2>2. proc' = proc /\ usr' = usr
      BY <1>1
    <2> QED
      BY <1>2, <1>4, <1>7, <1>8, <2>1, <2>2 DEF Opening
  <1>19. \A p \in Pids : ChildSound(p)'
    <2>1. \A p \in Pids : Awaited(p) => Housed(p)'
      BY <1>4, <1>7, <1>8 DEF Awaited, Housed, v
    <2> QED
      BY <1>1, <1>13, <1>16, <2>1, ChildrenStutter, ChildrenKept
  <1>20. ASSUME NEW s \in Slots
         PROVE  SlotSound(s)'
    <2>1. CASE s = t
      <3>1. /\ slot'[s].flags = "running" /\ slot'[s].pid = v /\ slot'[s].changed = 0 /\ proc' = proc
        BY <1>1, <1>7, <1>8, <2>1
      <3>2. v # 0 /\ proc[v].st # "none" /\ proc[v].out = 0 /\ proc[v].got = 0 /\ proc[v].pipe = 0
        BY <1>4, ChildTypes DEF ChildSound, Unstarted, Pids
      <3> QED
        BY <3>1, <3>2 DEF SlotSound
    <2>2. CASE s # t
      BY <1>1, <1>8, <2>2, SlotTypes DEF SlotSound, t
    <2> QED
      BY <2>1, <2>2
  <1> QED
    BY <1>13, <1>14, <1>15, <1>17, <1>18, <1>19, <1>20 DEF SubInv

LEMMA SetProcessStep ==
  ASSUME SubInv, SetProcess
  PROVE  SubInv'
  <1>1. /\ stack # <<>> /\ Pop /\ Top = stack[1] /\ stack[1].at = "set"
        /\ UNCHANGED <<tab, num, flag, sub, bufs, chld, handling, usr, proc, told>>
    BY TopType DEF SetProcess, At
  <1> DEFINE t == stack[1].s
  <1>2. t \in Slots /\ slot[t].flags # "gone" /\ Len(stack) = 1
    BY <1>1, TopType DEF SubInv, Opening, Shape, OpenAts
  <1>3. stack' = <<>> /\ stack' \in Seq(FrameType)
    BY <1>1, <1>2, PopStep, EmptySeq DEF SubInv, Popped
  <1>15. \E calls, slang \in BOOLEAN :
           slot' = [slot EXCEPT ![t] = [slot[t] EXCEPT !.calls = calls, !.slang = slang]]
    <2>1. PICK set \in Setups : slot' = [slot EXCEPT ![t].calls = set.calls, ![t].slang = set.slang]
      BY <1>1 DEF SetProcess
    <2>2. set.calls \in BOOLEAN /\ set.slang \in BOOLEAN
      BY SubprocessAssumption
    <2>3. slot' = [slot EXCEPT ![t] = [slot[t] EXCEPT !.calls = set.calls, !.slang = set.slang]]
      BY <1>2, <2>1 DEF SubInv, Types, TypeOK
    <2> USE <2>2
    <2> WITNESS set.calls \in BOOLEAN, set.slang \in BOOLEAN
    <2> QED
      BY <2>3
  <1>4. PICK calls \in BOOLEAN, slang \in BOOLEAN :
          slot' = [slot EXCEPT ![t] = [slot[t] EXCEPT !.calls = calls, !.slang = slang]]
    BY <1>15
  <1>16. PICK new : new = [slot[t] EXCEPT !.calls = calls, !.slang = slang]
    OBVIOUS
  <1>5. /\ new \in Process /\ new.pid = slot[t].pid /\ new.flags = slot[t].flags
        /\ new.changed = slot[t].changed /\ new.open = slot[t].open /\ new.buffer = slot[t].buffer
    <2>1. slot[t] \in Process
      BY <1>2, SlotTypes
    <2> HIDE DEF t
    <2> QED
      BY ONLY <1>16, <2>1 DEF Process
  <1>6. slot' = [slot EXCEPT ![t] = new]
    BY <1>4, <1>16
  <1>7. slot'[t] = new /\ \A s \in Slots \ {t} : slot'[s] = slot[s]
    BY <1>2, <1>6 DEF SubInv, Types, TypeOK
  <1>8. /\ slot'[t].pid = slot[t].pid /\ slot'[t].flags = slot[t].flags
        /\ slot'[t].changed = slot[t].changed /\ slot'[t].open = slot[t].open
        /\ slot'[t].buffer = slot[t].buffer
    BY <1>5, <1>7
  <1>9. Types'
    BY <1>1, <1>3, <1>5, <1>6, FrameAts DEF SubInv, Types, TypeOK
  <1> HIDE DEF t
  <1>10. \A s \in Slots : /\ slot'[s].pid = slot[s].pid /\ slot'[s].flags = slot[s].flags
                          /\ slot'[s].changed = slot[s].changed /\ slot'[s].open = slot[s].open
                          /\ slot'[s].buffer = slot[s].buffer
    BY <1>7, <1>8
  <1>11. TableSound' /\ BuffersSound'
    BY <1>1, <1>10, TableKept, BuffersKept
  <1>12. Shape' /\ Reporting' /\ Opening'
    <2>1. Len(stack') = 0
      BY <1>3
    <2> QED
      BY <1>3, <2>1 DEF Shape, Reporting, Opening
  <1>13. ASSUME NEW p \in Pids
         PROVE  ChildSound(p)'
    <2>1. ~Awaited(p) /\ (Housed(p) => Housed(p)')
      BY <1>1, <1>10 DEF Awaited, Housed
    <2>2. ChildSound(p) /\ proc' = proc
      BY <1>1, ChildTypes
    <2> QED
      BY <2>1, <2>2 DEF ChildSound
  <1>14. ASSUME NEW s \in Slots
         PROVE  SlotSound(s)'
    <2>1. CASE s = t
      <3>1. /\ slot'[s].pid = slot[s].pid /\ slot'[s].flags = slot[s].flags
            /\ slot'[s].changed = slot[s].changed /\ slot'[s].open = slot[s].open
            /\ slot[s].flags # "gone" /\ SlotSound(s) /\ proc' = proc
        BY <1>1, <1>2, <1>10, <2>1, SlotTypes
      <3> QED
        BY <3>1 DEF SlotSound
    <2>2. CASE s # t
      BY <1>1, <1>7, <2>2, SlotTypes DEF SlotSound
    <2> QED
      BY <2>1, <2>2
  <1> QED
    BY <1>9, <1>11, <1>12, <1>13, <1>14 DEF SubInv

LEMMA OpenStep ==
  ASSUME SubInv, Careful, NEW b \in Buffers, Open(b)
  PROVE  SubInv'
  <1>1. /\ stack = <<>> /\ b \in bufs /\ sub[b] = NoSlot /\ ~Closing(b)
        /\ UNCHANGED <<tab, num, flag, sub, bufs, chld, handling, told>>
    BY DEF Open, Idle, Careful
  <1> DEFINE v == Min(Unused)
             t == Min(FreeSlots)
  <1>2. v \in Unused /\ t \in FreeSlots
    <2>1. Unused # {} /\ FreeSlots # {} /\ Unused \subseteq Nat /\ FreeSlots \subseteq Nat
      BY DEF Open, Unused, FreeSlots, Pids, Slots
    <2> QED
      BY <2>1, NatMin
  <1>3. v \in Pids /\ t \in Slots /\ proc[v].st = "none" /\ slot[t].flags = "gone"
    BY <1>2 DEF Unused, FreeSlots
  <1>4. slot[t] = FreeSlot
    BY <1>1, <1>3, SlotTypes DEF SlotSound, FreeSlot
  <1>5. /\ slot' = [slot EXCEPT ![t] = FreeSlot]
        /\ usr' = [usr EXCEPT ![Jed] = InitSync(usr[Jed]), ![v] = [InitSync(usr[Jed]) EXCEPT !.pend = FALSE]]
        /\ proc' = [proc EXCEPT ![v] = [proc[v] EXCEPT !.st = "waiting"]]
        /\ Push(Frame("pid", t, b, v))
    BY DEF Open
  <1> HIDE DEF v, t
  <1>6. slot' = slot
    BY <1>3, <1>4, <1>5 DEF SubInv, Types, TypeOK
  <1> PICK f \in FrameType : f = Frame("pid", t, b, v)
    <2>1. t \in Nat /\ v \in Nat /\ "pid" \in Frames
      BY <1>3 DEF Frames, Slots, Pids
    <2>2. Frame("pid", t, b, v) \in FrameType
      BY <2>1 DEF Frame, FrameType
    <2> QED
      BY <2>2
  <1>7. f.at = "pid" /\ f.s = t /\ f.b = b /\ f.v = v
    BY DEF Frame
  <1>8. stack' \in Seq(FrameType) /\ PushedBy(f) /\ stack' # <<>> /\ stack'[1] = f
    BY <1>5, PushStep DEF SubInv, PushedBy
  <1>9. /\ proc'[v] = [proc[v] EXCEPT !.st = "waiting"] /\ \A p \in Pids \ {v} : proc'[p] = proc[p]
        /\ proc'[v] \in Child /\ proc' \in [Pids -> Child]
    BY <1>3, <1>5, ChildTypes DEF SubInv, Types, TypeOK, States
  <1>10. usr' \in [Pids \cup {Jed} -> Usr] /\ ~usr'[v].flag /\ ~usr'[v].pend
    <2>1. usr \in [Pids \cup {Jed} -> Usr] /\ v # Jed
      BY <1>3 DEF SubInv, Types, TypeOK, Usr, Pids, Jed
    <2>2. /\ InitSync(usr[Jed]) \in Usr /\ [InitSync(usr[Jed]) EXCEPT !.pend = FALSE] \in Usr
          /\ [InitSync(usr[Jed]) EXCEPT !.pend = FALSE].flag = FALSE
          /\ [InitSync(usr[Jed]) EXCEPT !.pend = FALSE].pend = FALSE
      BY <2>1 DEF InitSync, Usr
    <2> QED
      BY <1>3, <1>5, <2>1, <2>2
  <1>11. Types'
    BY <1>1, <1>6, <1>8, <1>9, <1>10, FrameAts DEF SubInv, Types, TypeOK, Usr
  <1>12. Shape' /\ Reporting'
    <2>1. Len(stack) = 0 /\ Len(stack') = 1
      BY <1>1, <1>8 DEF PushedBy
    <2> QED
      BY <1>7, <1>8, <2>1 DEF Shape, Reporting, FrameSound, OpenAts, ScanAts, ReportAts
  <1>13. \A s \in Slots : slot'[s].buffer # b
    BY <1>1, <1>6 DEF Closing, Slots, NoSlot
  <1>14. Opening'
    <2>1. proc'[v].st = "waiting"
      BY <1>3, <1>9, ChildTypes DEF Child
    <2>2. sub' = sub /\ bufs' = bufs
      BY <1>1
    <2> QED
      BY <1>1, <1>3, <1>4, <1>6, <1>7, <1>8, <1>10, <1>13, <2>1, <2>2 DEF Opening
  <1>15. TableSound' /\ BuffersSound'
    BY <1>1, <1>6, TableKept, BuffersKept
  <1>16. ASSUME NEW p \in Pids
         PROVE  ChildSound(p)'
    <2>1. CASE p = v
      <3>1. /\ proc'[p].st = "waiting" /\ proc'[p].news = proc[p].news /\ proc'[p].stops = proc[p].stops
            /\ proc'[p].out = proc[p].out /\ proc'[p].pipe = proc[p].pipe /\ proc'[p].got = proc[p].got
        BY <1>9, <2>1, ChildTypes DEF Child
      <3>2. Awaited(p)'
        BY <1>7, <1>8, <2>1 DEF Awaited
      <3> QED
        BY <1>3, <2>1, <3>1, <3>2, ChildTypes DEF ChildSound, Unstarted
    <2>2. CASE p # v
      <3>1. proc'[p] = proc[p] /\ ~Awaited(p) /\ (Housed(p) => Housed(p)')
        BY <1>1, <1>6, <1>9, <2>2 DEF Awaited, Housed
      <3> QED
        BY <3>1, ChildTypes DEF ChildSound
    <2> QED
      BY <2>1, <2>2
  <1>17. ASSUME NEW s \in Slots
         PROVE  SlotSound(s)'
    <2>1. slot'[s] = slot[s] /\ SlotSound(s) /\ (slot[s].pid = 0 \/ slot[s].pid \in Pids \ {v})
      BY <1>3, <1>6, SlotTypes DEF SlotSound
    <2>2. CASE slot[s].pid = 0
      BY <2>1, <2>2 DEF SlotSound, FreeSlot
    <2>3. CASE slot[s].pid # 0
      <3>1. proc'[slot[s].pid] = proc[slot[s].pid]
        BY <1>9, <2>1, <2>3
      <3> QED
        BY <1>1, <2>1, <2>3, <3>1 DEF SlotSound
    <2> QED
      BY <2>2, <2>3
  <1> QED
    BY <1>11, <1>12, <1>14, <1>15, <1>16, <1>17 DEF SubInv

-----------------------------------------------------------------------------
(* Collecting and killing.                                                 *)

LEMMA CollectStep ==
  ASSUME SubInv, NEW s \in Slots, Collect(s)
  PROVE  SubInv'
  <1> DEFINE p == slot[s].pid
  <1>1. p \in Pids /\ proc[p].news /\ ChildSound(p) /\ proc[p] \in Child
        /\ UNCHANGED <<tab, num, flag, sub, bufs, stack, chld, handling, usr, told>>
    BY SlotTypes, ChildTypes DEF Collect, Waitable
  <1>2. proc[p].st \in {"stopped", "dead"} /\ (proc[p].st = "stopped" => proc[p].stops # 0)
    BY <1>1 DEF ChildSound
  <1>3. slot[s].flags # "gone" /\ slot[s].flags # "exited"
    <2>1. slot[s].flags # "exited"
      BY <1>1, SlotTypes DEF SlotSound
    <2>2. ASSUME slot[s].flags = "gone"
          PROVE  FALSE
      <3>1. p # 0
        BY <1>1 DEF Pids
      <3>2. stack # <<>> /\ stack[1].at = "enter" /\ stack[1].s = s
        BY <2>2, <3>1, SlotTypes DEF SlotSound
      <3>3. slot[s] = [FreeSlot EXCEPT !.pid = stack[1].v] /\ proc[stack[1].v].st \in {"waiting", "doze", "suspended"}
        BY <3>2 DEF SubInv, Opening, OpenAts
      <3>4. p = stack[1].v
        BY <3>3 DEF FreeSlot
      <3> QED
        BY <1>2, <3>3, <3>4
    <2> QED
      BY <2>1, <2>2
  <1> PICK fl \in Flags : fl = IF proc[p].st = "dead" THEN "exited" ELSE "stopped"
    BY DEF Flags
  <1>4. fl # "gone" /\ (fl = "exited" <=> proc[p].st = "dead")
    OBVIOUS
  <1> DEFINE new == [slot[s] EXCEPT !.changed = @ + 1, !.flags = fl]
  <1>5. new \in Process /\ slot' = [slot EXCEPT ![s] = new]
    <2>1. slot[s] \in Process /\ slot[s].changed + 1 \in Nat
      BY SlotTypes
    <2>2. new \in Process
      BY <2>1 DEF Process
    <2>3. slot' = [slot EXCEPT ![s] = [slot[s] EXCEPT !.changed = @ + 1, !.flags = fl]]
      BY DEF Collect, SubInv, Types, TypeOK
    <2> QED
      BY <2>2, <2>3
  <1>6. slot'[s] = new /\ \A t \in Slots \ {s} : slot'[t] = slot[t]
    BY <1>5 DEF SubInv, Types, TypeOK
  <1>7. /\ slot'[s].pid = p /\ slot'[s].flags = fl /\ slot'[s].changed = slot[s].changed + 1
        /\ slot'[s].open = slot[s].open /\ slot'[s].buffer = slot[s].buffer
        /\ slot'[s].calls = slot[s].calls
    <2>1. slot[s] \in Process
      BY SlotTypes
    <2> QED
      BY <1>6, <2>1 DEF Process
  <1>8. /\ proc' = [proc EXCEPT ![p] = [proc[p] EXCEPT !.news = FALSE]]
        /\ [proc[p] EXCEPT !.news = FALSE] \in Child
    BY <1>1 DEF Collect, Child
  <1>9. /\ \A q \in Pids \ {p} : proc'[q] = proc[q]
        /\ proc'[p] = [proc[p] EXCEPT !.news = FALSE]
    BY <1>1, <1>8 DEF SubInv, Types, TypeOK
  <1>10. /\ proc'[p].st = proc[p].st /\ ~proc'[p].news /\ proc'[p].stops = proc[p].stops
         /\ proc'[p].out = proc[p].out /\ proc'[p].pipe = proc[p].pipe /\ proc'[p].got = proc[p].got
    BY <1>1, <1>9 DEF Child
  <1>11. Types'
    BY <1>1, <1>5, <1>8 DEF SubInv, Types, TypeOK
  <1> HIDE DEF new, p
  <1>12. TableSound' /\ BuffersSound'
    BY <1>1, <1>3, <1>4, <1>6, <1>7, TableKept, BuffersKept
  <1>13. Gentle
    <2>1. \A t \in Slots : slot[t].changed \in Nat
      BY SlotTypes
    <2>2. \A q \in Pids : proc'[q].stops = proc[q].stops /\ proc'[q].pipe = proc[q].pipe
      BY <1>9, <1>10
    <2> QED
      BY <1>1, <1>3, <1>4, <1>6, <1>7, <2>1, <2>2 DEF Gentle, p
  <1>14. Reporting' /\ Shape'
    BY <1>1, <1>11, <1>13, ReportingStays DEF SubInv, Shape
  <1>15. Opening'
    <2> SUFFICES ASSUME stack # <<>>, stack[1].at \in OpenAts
                 PROVE  Opening'
      BY <1>1 DEF Opening
    <2> DEFINE t == stack[1].s
               v == stack[1].v
    <2>1. t \in Slots /\ v \in Pids /\ stack' = stack
      BY <1>1 DEF SubInv, Opening
    <2>2. proc'[v].st = proc[v].st
      BY <1>9, <1>10, <2>1
    <2>3. \A u \in Slots : slot'[u].buffer = slot[u].buffer
      BY <1>6, <1>7
    <2>4. stack[1].at \in {"pid", "enter"} => slot'[t] = slot[t]
      <3>1. stack[1].at \in {"pid", "enter"} => slot[t].flags = "gone"
        BY DEF SubInv, Opening, OpenAts, FreeSlot
      <3> QED
        BY <1>3, <1>6, <2>1, <3>1
    <2>5. stack[1].at \notin {"pid", "enter"} => slot'[t].flags # "gone"
      BY <1>4, <1>6, <1>7, <2>1 DEF SubInv, Opening
    <2> QED
      BY <1>1, <2>1, <2>2, <2>3, <2>4, <2>5 DEF SubInv, Opening
  <1>16. \A q \in Pids : ChildSound(q)'
    <2>1. ChildGoes(p)
      <3>1. proc[p].st \notin Unstarted /\ proc[p].st # "none"
        BY <1>2 DEF Unstarted
      <3> QED
        BY <1>1, <1>2, <1>10, <3>1 DEF ChildGoes
    <2>2. ASSUME NEW q \in Pids \ {p}
          PROVE  ChildGoes(q)
      BY <1>1, <1>9, ChildStutters DEF ChildStep
    <2>3. \A q \in Pids : Awaited(q) => Awaited(q)'
      BY <1>1 DEF Awaited
    <2> QED
      BY <1>11, <1>13, <2>1, <2>2, <2>3, ChildrenKept
  <1>17. ASSUME NEW t \in Slots
         PROVE  SlotSound(t)'
    <2>1. CASE t = s
      <3>1. p # 0 /\ SlotSound(s) /\ proc[p].st # "none"
        BY <1>1, <1>2, SlotTypes DEF Pids
      <3>2. slot[s].open => proc'[p].out = proc'[p].got + proc'[p].pipe
        BY <1>10, <3>1 DEF SlotSound, p
      <3>3. slot'[t].open = slot[s].open /\ slot'[t].flags = fl /\ slot'[t].pid = p
        BY <1>7, <2>1
      <3>4. slot'[t].changed # 0 /\ proc'[p].stops = 0 => fl = "exited"
        BY <1>2, <1>4, <1>10
      <3> QED
        BY <1>4, <1>10, <3>1, <3>2, <3>3, <3>4 DEF SlotSound
    <2>2. CASE t # s
      <3>1. slot'[t] = slot[t] /\ SlotSound(t) /\ slot[t].pid \in Pids \cup {0}
        BY <1>6, <2>2, SlotTypes
      <3>2. slot[t].pid # 0 => /\ proc'[slot[t].pid].st = proc[slot[t].pid].st
                               /\ proc'[slot[t].pid].news => proc[slot[t].pid].news
                               /\ proc'[slot[t].pid].stops = proc[slot[t].pid].stops
                               /\ proc'[slot[t].pid].out = proc[slot[t].pid].out
                               /\ proc'[slot[t].pid].pipe = proc[slot[t].pid].pipe
                               /\ proc'[slot[t].pid].got = proc[slot[t].pid].got
        BY <1>9, <1>10, <3>1
      <3>3. CASE slot[t].pid = 0
        BY <3>1, <3>3 DEF SlotSound, FreeSlot
      <3>4. CASE slot[t].pid # 0
        BY <1>1, <3>1, <3>2, <3>4 DEF SlotSound
      <3> QED
        BY <3>3, <3>4
    <2> QED
      BY <2>1, <2>2
  <1> QED
    BY <1>11, <1>12, <1>14, <1>15, <1>16, <1>17 DEF SubInv

LEMMA SlotKept ==
  ASSUME SubInv, NEW s \in Slots, slot'[s] = slot[s], OpenerKept,
         slot[s].pid # 0 => ChildGoes(slot[s].pid)
  PROVE  SlotSound(s)'
  <1>1. SlotSound(s)
    BY SlotTypes
  <1>2. CASE slot[s].pid = 0
    BY <1>1, <1>2 DEF SlotSound, FreeSlot
  <1>3. CASE slot[s].pid # 0
    <2> DEFINE p == slot[s].pid
    <2>1. ChildGoes(p) /\ slot'[s].pid = p
      BY <1>3
    <2> HIDE DEF p
    <2>2. slot[s].flags = "exited" => proc'[p].st = "dead" /\ ~proc'[p].news
      BY <1>1, <2>1 DEF SlotSound, ChildGoes, p
    <2> QED
      BY <1>1, <1>3, <2>1, <2>2 DEF SlotSound, ChildGoes, OpenerKept, p
  <1> QED
    BY <1>2, <1>3

(* A killed child has news of its end; it need not have been alive.        *)
LEMMA KilledStep ==
  ASSUME SubInv, NEW p \in Pids, Killed(p)
  PROVE  /\ proc' \in [Pids -> Child] /\ chld' \in BOOLEAN
         /\ \A q \in Pids : ChildGoes(q)
  <1> DEFINE new == [proc[p] EXCEPT !.st = "dead", !.news = TRUE]
  <1>1. CASE proc[p].st \in {"running", "stopped"}
    <2>1. proc' = [proc EXCEPT ![p] = new] /\ chld' = TRUE
      BY <1>1 DEF Killed
    <2>2. proc[p] \in Child /\ ChildSound(p)
      BY ChildTypes
    <2>3. new \in Child
      BY <2>2 DEF Child, States
    <2>4. proc'[p] = new /\ \A q \in Pids \ {p} : proc'[q] = proc[q]
      BY <2>1 DEF SubInv, Types, TypeOK
    <2>5. /\ proc'[p].st = "dead" /\ proc'[p].news /\ proc'[p].stops = proc[p].stops
          /\ proc'[p].out = proc[p].out /\ proc'[p].pipe = proc[p].pipe /\ proc'[p].got = proc[p].got
      BY <2>2, <2>4 DEF Child
    <2>6. ChildGoes(p)
      BY <1>1, <2>2, <2>5 DEF ChildGoes, ChildSound, Unstarted
    <2> HIDE DEF new
    <2>7. ASSUME NEW q \in Pids \ {p}
          PROVE  ChildGoes(q)
      <3>1. proc[q] \in Child /\ ChildSound(q) /\ proc'[q] = proc[q]
        BY <2>4, ChildTypes
      <3>2. proc'[q] = [proc[q] EXCEPT !.st = proc'[q].st]
        BY <3>1 DEF Child
      <3> QED
        BY <3>1, <3>2 DEF ChildGoes, ChildSound
    <2> QED
      BY <2>1, <2>3, <2>6, <2>7 DEF SubInv, Types, TypeOK
  <1>2. CASE proc[p].st \notin {"running", "stopped"}
    <2>1. proc' = proc /\ chld' = chld
      BY <1>2 DEF Killed
    <2> QED
      BY <2>1, ChildrenStutter DEF SubInv, Types, TypeOK
  <1> QED
    BY <1>1, <1>2

(* A process is closed at top level or by a hook, with or without its      *)
(* buffer.                                                                 *)
LEMMA SlotCloses ==
  ASSUME SubInv, NEW s \in Slots, slot[s].flags # "gone",
         NEW b \in {slot[s].buffer, None},
         slot' = [slot EXCEPT ![s] = [slot[s] EXCEPT !.open = FALSE, !.buffer = b]],
         Killed(slot[s].pid),
         UNCHANGED <<tab, num, flag, stack, handling, usr, told>>,
         sub' \in [Buffers -> Slots \cup {NoSlot}], bufs' \subseteq Buffers,
         stack # <<>> => stack[1].at = "hook",
         BuffersSound'
  PROVE  SubInv'
  <1>1. slot[s] \in Process /\ slot[s].pid \in Pids /\ SlotSound(s)
    BY SlotTypes DEF SlotSound
  <1>2. /\ proc' \in [Pids -> Child] /\ chld' \in BOOLEAN
        /\ \A q \in Pids : ChildGoes(q)
    BY <1>1, KilledStep
  <1>3. [slot[s] EXCEPT !.open = FALSE, !.buffer = b] \in Process
    BY <1>1 DEF Process
  <1>4. Types'
    BY <1>2, <1>3 DEF SubInv, Types, TypeOK
  <1>5. /\ slot'[s] = [slot[s] EXCEPT !.open = FALSE, !.buffer = b]
        /\ \A t \in Slots \ {s} : slot'[t] = slot[t]
    BY DEF SubInv, Types, TypeOK
  <1>6. /\ slot'[s].pid = slot[s].pid /\ slot'[s].flags = slot[s].flags
        /\ slot'[s].changed = slot[s].changed /\ slot'[s].calls = slot[s].calls
        /\ ~slot'[s].open /\ slot'[s].buffer = b
    <2>1. slot[s] \in Process /\ slot'[s] = [slot[s] EXCEPT !.open = FALSE, !.buffer = b]
      BY <1>1, <1>5
    <2> QED
      BY ONLY <2>1 DEF Process
  <1>7. Gentle
    <2>1. \A t \in Slots : slot[t].changed \in Nat
      BY SlotTypes
    <2>2. \A q \in Pids : /\ proc'[q].stops = 0 => proc[q].stops = 0
                          /\ proc[q].st = "dead" /\ proc[q].pipe = 0 => proc'[q].pipe = 0
      BY <1>2 DEF ChildGoes
    <2> QED
      BY <1>5, <1>6, <2>1, <2>2 DEF Gentle
  <1>8. TableSound'
    BY <1>5, <1>6, TableKept
  <1>9. Shape' /\ Reporting'
    BY <1>4, <1>7, ReportingStays DEF SubInv, Shape
  <1>10. Opening' /\ OpenerKept /\ \A p \in Pids : ~Awaited(p)
    BY DEF Opening, OpenAts, OpenerKept, Awaited
  <1>11. \A p \in Pids : ChildSound(p)'
    BY <1>2, <1>4, <1>7, <1>10, ChildrenKept
  <1>12. ASSUME NEW t \in Slots
         PROVE  SlotSound(t)'
    <2>1. CASE t = s
      <3> DEFINE p == slot[s].pid
      <3>1. /\ slot'[t].pid = p /\ slot'[t].flags = slot[s].flags /\ slot'[t].changed = slot[s].changed
            /\ ~slot'[t].open /\ p # 0 /\ ChildGoes(p)
        BY <1>1, <1>2, <1>6, <2>1 DEF Pids
      <3> HIDE DEF p
      <3> QED
        BY <1>1, <3>1 DEF SlotSound, ChildGoes, p
    <2>2. CASE t # s
      <3>1. slot[t].pid # 0 => ChildGoes(slot[t].pid)
        BY <1>2, SlotTypes
      <3> QED
        BY <1>5, <1>10, <2>2, <3>1, SlotKept
    <2> QED
      BY <2>1, <2>2
  <1> QED
    BY <1>4, <1>8, <1>9, <1>10, <1>11, <1>12 DEF SubInv

LEMMA InCommandTop ==
  ASSUME SubInv, InCommand
  PROVE  stack # <<>> => stack[1].at = "hook"
  BY TopType DEF InCommand, Idle, At

LEMMA BuffersUse ==
  ASSUME SubInv
  PROVE  /\ \A b \in bufs : sub[b] # NoSlot =>
              /\ sub[b] \in Slots /\ slot[sub[b]].flags # "gone"
              /\ slot[sub[b]].buffer = b /\ slot[sub[b]].open
         /\ \A s \in Slots :
              /\ slot[s].open => /\ sub[slot[s].buffer] = s /\ slot[s].buffer # None
                                 /\ slot[s].buffer \in Buffers
              /\ slot[s].buffer \in bufs \cup {None}
         /\ \A s, t \in Slots : slot[s].buffer = slot[t].buffer /\ slot[s].buffer # None => s = t
         /\ bufs \subseteq Buffers
  <1>1. \A b \in bufs : sub[b] # NoSlot => sub[b] \in Slots
    BY DEF SubInv, Types, TypeOK
  <1> QED
    BY <1>1, SlotTypes DEF SubInv, Types, TypeOK, BuffersSound, Attached, PointersLive

LEMMA CloseProcessStep ==
  ASSUME SubInv, NEW s \in Slots, CloseProcess(s)
  PROVE  SubInv'
  <1> DEFINE b == slot[s].buffer
  <1>1. slot[s] \in Process /\ slot[s].open /\ b # None /\ b \in Buffers
    BY SlotTypes, BuffersUse DEF CloseProcess
  <1>2. slot' = [slot EXCEPT ![s] = [slot[s] EXCEPT !.open = FALSE, !.buffer = b]]
    <2>1. [slot[s] EXCEPT !.open = FALSE, !.buffer = b] = [slot[s] EXCEPT !.open = FALSE]
      BY <1>1 DEF Process
    <2>2. slot' = [slot EXCEPT ![s] = [slot[s] EXCEPT !.open = FALSE]]
      BY DEF CloseProcess
    <2> QED
      BY <2>1, <2>2
  <1>3. /\ slot'[s] = [slot[s] EXCEPT !.open = FALSE, !.buffer = b]
        /\ \A t \in Slots \ {s} : slot'[t] = slot[t]
    BY <1>2 DEF SubInv, Types, TypeOK
  <1>4. slot'[s].buffer = b /\ ~slot'[s].open
    BY <1>1, <1>3 DEF Process
  <1>5. sub' = [sub EXCEPT ![b] = NoSlot] /\ bufs' = bufs
    BY <1>1 DEF CloseProcess
  <1> HIDE DEF b
  <1>6. sub'[b] = NoSlot /\ (\A c \in Buffers \ {b} : sub'[c] = sub[c])
        /\ sub' \in [Buffers -> Slots \cup {NoSlot}]
    BY <1>1, <1>5 DEF SubInv, Types, TypeOK
  <1>7. BuffersSound'
    <2>1. ASSUME NEW c \in bufs, sub'[c] # NoSlot
          PROVE  slot'[sub'[c]].flags # "gone" /\ slot'[sub'[c]].buffer = c /\ slot'[sub'[c]].open
      <3>1. c # b /\ sub'[c] = sub[c]
        BY <1>6, <2>1, BuffersUse
      <3>2. sub[c] \in Slots \ {s}
        BY <2>1, <3>1, BuffersUse DEF b
      <3> QED
        BY <1>3, <2>1, <3>1, <3>2, BuffersUse
    <2>2. ASSUME NEW t \in Slots, slot'[t].open
          PROVE  sub'[slot'[t].buffer] = t /\ slot'[t].buffer # None
      <3>1. t # s /\ slot'[t] = slot[t]
        BY <1>3, <1>4, <2>2
      <3>2. slot[t].buffer \in Buffers \ {b}
        BY <1>1, <2>2, <3>1, BuffersUse DEF b
      <3> QED
        BY <1>6, <2>2, <3>1, <3>2, BuffersUse
    <2>3. \A t \in Slots : slot'[t].buffer = slot[t].buffer
      BY <1>3, <1>4 DEF b
    <2> QED
      BY <1>5, <2>1, <2>2, <2>3, BuffersUse DEF BuffersSound, Attached, PointersLive
  <1> QED
    BY <1>2, <1>5, <1>6, <1>7, SlotCloses, InCommandTop DEF CloseProcess, SubInv, Types, TypeOK, b

LEMMA KillBufferStep ==
  ASSUME SubInv, Careful, NEW b \in Buffers, KillBuffer(b)
  PROVE  SubInv'
  <1>1. b \in bufs /\ ~Closing(b) /\ bufs' = bufs \ {b} /\ (stack # <<>> => stack[1].at = "hook")
        /\ UNCHANGED <<tab, num, flag, sub, stack, handling, usr, told>>
    BY InCommandTop DEF KillBuffer, Careful
  <1>2. \A s \in Slots : slot[s].buffer = b => sub[b] = s
    BY <1>1 DEF Closing
  <1>3. bufs' \subseteq Buffers /\ sub' \in [Buffers -> Slots \cup {NoSlot}]
    BY <1>1 DEF SubInv, Types, TypeOK
  <1>4. CASE sub[b] = NoSlot
    <2>1. slot' = slot /\ proc' = proc /\ chld' = chld
      BY <1>4 DEF KillBuffer
    <2>2. Types'
      BY <1>1, <1>3, <2>1 DEF SubInv, Types, TypeOK
    <2>3. Gentle
      BY <1>1, <2>1, ChildrenStutter, QuietGentle
    <2>4. BuffersSound'
      <3>1. \A s \in Slots : slot[s].buffer # b
        BY <1>2, <1>4 DEF Slots, NoSlot
      <3> QED
        BY <1>1, <2>1, <3>1, BuffersUse DEF BuffersSound, Attached, PointersLive
    <2>5. Opening' /\ OpenerKept /\ \A p \in Pids : ~Awaited(p)
      BY <1>1 DEF Opening, OpenAts, OpenerKept, Awaited
    <2>6. Reporting' /\ Shape' /\ TableSound'
      BY <1>1, <2>1, <2>2, <2>3, ReportingStays, TableKept DEF SubInv, Shape
    <2>7. \A p \in Pids : ChildSound(p)'
      BY <2>1, <2>2, <2>3, <2>5, ChildrenStutter, ChildrenKept
    <2>8. \A s \in Slots : SlotSound(s)'
      BY <2>1, <2>5, ChildrenStutter, SlotKept, SlotTypes
    <2> QED
      BY <2>2, <2>4, <2>5, <2>6, <2>7, <2>8 DEF SubInv
  <1>5. CASE sub[b] # NoSlot
    <2> DEFINE s == sub[b]
    <2>1. s \in Slots /\ slot[s].flags # "gone" /\ slot[s].buffer = b /\ slot[s] \in Process
      BY <1>1, <1>5, BuffersUse, SlotTypes
    <2>2. slot' = [slot EXCEPT ![s] = [slot[s] EXCEPT !.open = FALSE, !.buffer = None]] /\ Killed(slot[s].pid)
      BY <1>5, <2>1 DEF KillBuffer, KillProcess, SubInv, Types, TypeOK
    <2> HIDE DEF s
    <2>3. /\ slot'[s] = [slot[s] EXCEPT !.open = FALSE, !.buffer = None]
          /\ \A t \in Slots \ {s} : slot'[t] = slot[t]
      BY <2>1, <2>2 DEF SubInv, Types, TypeOK
    <2>4. slot'[s].buffer = None /\ ~slot'[s].open
      BY <2>1, <2>3 DEF Process
    <2>6. \A t \in Slots \ {s} : slot'[t] = slot[t]
      BY <2>3
    <2>5. BuffersSound'
      <3>1. ASSUME NEW c \in bufs', sub'[c] # NoSlot
            PROVE  slot'[sub'[c]].flags # "gone" /\ slot'[sub'[c]].buffer = c /\ slot'[sub'[c]].open
        <4>1. c \in bufs /\ c # b /\ sub'[c] = sub[c] /\ sub[c] \in Slots /\ slot[sub[c]].buffer = c
          BY <1>1, <3>1, BuffersUse
        <4>2. sub[c] # s
          BY <2>1, <4>1
        <4> QED
          BY <2>3, <3>1, <4>1, <4>2, BuffersUse
      <3>2. ASSUME NEW t \in Slots, slot'[t].open
            PROVE  sub'[slot'[t].buffer] = t /\ slot'[t].buffer # None
        <4>1. t # s /\ slot'[t] = slot[t] /\ slot[t].open /\ sub' = sub
          BY <1>1, <2>4, <2>6, <3>2
        <4> QED
          BY <4>1, BuffersUse
      <3>3. ASSUME NEW t \in Slots
            PROVE  slot'[t].buffer \in bufs' \cup {None}
        <4>1. CASE t = s
          BY <2>4, <4>1
        <4>2. CASE t # s
          BY <1>1, <1>2, <2>6, <4>2, BuffersUse DEF s
        <4> QED
          BY <4>1, <4>2
      <3>4. ASSUME NEW t \in Slots, NEW u \in Slots,
                   slot'[t].buffer = slot'[u].buffer, slot'[t].buffer # None
            PROVE  t = u
        BY <2>4, <2>6, <3>4, BuffersUse
      <3> QED
        BY <3>1, <3>2, <3>3, <3>4 DEF BuffersSound, Attached, PointersLive
    <2> QED
      BY <1>1, <1>3, <2>1, <2>2, <2>5, SlotCloses
  <1> QED
    BY <1>4, <1>5

-----------------------------------------------------------------------------
(* Reading and scanning.                                                   *)

LEMMA OnlyStack ==
  ASSUME SubInv, stack' \in Seq(FrameType), flag' \in Nat,
         UNCHANGED <<slot, tab, num, sub, bufs, chld, handling, usr, proc, told>>,
         Shape', Reporting',
         stack # <<>> => stack[1].at \notin OpenAts,
         stack' # <<>> => stack'[1].at \notin OpenAts
  PROVE  SubInv'
  <1>1. Types'
    BY FrameAts DEF SubInv, Types, TypeOK
  <1>2. Opening' /\ OpenerKept
    BY DEF Opening, OpenerKept, OpenAts
  <1> QED
    BY <1>1, <1>2, ChildrenStutter, Quiet

LEMMA StackGentle ==
  ASSUME SubInv, stack' \in Seq(FrameType), flag' \in Nat,
         UNCHANGED <<slot, tab, num, sub, bufs, chld, handling, usr, proc, told>>
  PROVE  Gentle /\ Types'
  BY ChildrenStutter, QuietGentle, FrameAts DEF SubInv, Types, TypeOK

LEMMA ReadFrameSound ==
  ASSUME SubInv, NEW s \in Slots
  PROVE  \E f \in FrameType : f = ReadFrame(s) /\ f.at = "read" /\ f.s = s
  <1>1. s \in Nat /\ slot[s].buffer \in Buffers \cup {None} /\ "read" \in Frames
    BY SlotTypes DEF Slots, Frames
  <1>2. ReadFrame(s) \in FrameType /\ ReadFrame(s).at = "read" /\ ReadFrame(s).s = s
    BY <1>1 DEF ReadFrame, Frame, FrameType
  <1> QED
    BY <1>2

LEMMA FrameOf ==
  ASSUME NEW at \in Frames, NEW v \in Nat
  PROVE  \E f \in FrameType : f = Frame(at, 0, None, v) /\ f.at = at /\ f.v = v
  <1>1. Frame(at, 0, None, v) \in FrameType /\ Frame(at, 0, None, v).at = at /\ Frame(at, 0, None, v).v = v
    BY DEF Frame, FrameType
  <1> QED
    BY <1>1

(* read_process_input is called at top level, or by jed_get_child_status   *)
(* before it looks at the slots.                                           *)
LEMMA StartReading ==
  ASSUME SubInv, NEW s \in Slots, stack # <<>> => stack[1].at = "input", Push(ReadFrame(s)),
         UNCHANGED <<slot, tab, num, flag, sub, bufs, chld, handling, usr, proc, told>>
  PROVE  SubInv'
  <1>1. PICK f \in FrameType : f = ReadFrame(s) /\ f.at = "read" /\ f.s = s
    BY ReadFrameSound
  <1>2. stack' \in Seq(FrameType) /\ PushedBy(f) /\ stack' # <<>> /\ stack'[1] = f
    BY <1>1, PushStep DEF SubInv, PushedBy
  <1>3. flag' \in Nat
    BY DEF SubInv, Types, TypeOK
  <1>4. Gentle /\ Types'
    BY <1>2, <1>3, StackGentle
  <1>5. FrameSound(f, TRUE)'
    BY <1>1 DEF FrameSound, ReportAts
  <1>6. Reporting'
    BY <1>2, <1>4, <1>5, ReportingPush
  <1>7. Shape'
    BY <1>1, <1>2, ShapePush DEF OpenAts, ScanAts
  <1> QED
    BY <1>1, <1>2, <1>3, <1>6, <1>7, OnlyStack DEF OpenAts

LEMMA SelectInputStep ==
  ASSUME SubInv, NEW s \in Slots, SelectInput(s)
  PROVE  SubInv'
  BY StartReading DEF SelectInput, Idle

LEMMA ReadEndsStep ==
  ASSUME SubInv, ReadEnds
  PROVE  SubInv'
  <1>1. /\ stack # <<>> /\ Top = stack[1] /\ stack[1].at = "read" /\ Pop /\ ~Ready(stack[1].s)
        /\ Len(stack) \in Nat \ {0}
        /\ UNCHANGED <<slot, tab, num, flag, sub, bufs, chld, handling, usr, proc, told>>
    BY TopType DEF ReadEnds, At
  <1>2. stack' \in Seq(FrameType) /\ Popped
    BY <1>1, PopStep DEF SubInv
  <1>3. flag' \in Nat
    BY <1>1 DEF SubInv, Types, TypeOK
  <1>4. Gentle /\ Types'
    BY <1>1, <1>2, <1>3, StackGentle
  <1>5. Len(stack) > 1 /\ stack[2].at = "count" => Drained(stack[2].s)
    <2> SUFFICES ASSUME Len(stack) > 1, stack[2].at = "count"
                 PROVE  Drained(stack[2].s)
      OBVIOUS
    <2> DEFINE s == stack[1].s
    <2>1. 2 \in 1..Len(stack) /\ 1 \in 1..Len(stack)
      BY <1>1
    <2>2. stack[2].s = s
      BY <2>1 DEF SubInv, Shape
    <2>3. s \in Slots
      BY <1>1, <2>1 DEF SubInv, Reporting, FrameSound
    <2>4. slot[s].open => slot[s].pid \in Pids
      BY <2>3, SlotTypes DEF SlotSound, FreeSlot
    <2>5. slot[s].open => proc[slot[s].pid].pipe \in Nat
      BY <2>4, ChildTypes DEF Child
    <2> QED
      BY <1>1, <2>2, <2>5 DEF Ready, Drained
  <1>6. Reporting' /\ Shape'
    BY <1>1, <1>2, <1>4, <1>5, ReportingPop, ShapePop
  <1>7. stack' # <<>> => stack'[1].at \notin OpenAts
    <2> SUFFICES ASSUME stack' # <<>>
                 PROVE  stack'[1].at \notin OpenAts
      OBVIOUS
    <2>1. Len(stack') \in Nat \ {0}
      BY <1>2, EmptySeq
    <2>2. Len(stack) > 1 /\ stack'[1] = stack[2]
      BY <1>1, <1>2, <2>1 DEF Popped
    <2> QED
      BY <1>1, <2>2 DEF SubInv, Shape
  <1> QED
    BY <1>1, <1>2, <1>3, <1>6, <1>7, OnlyStack DEF OpenAts

LEMMA HookReturnsStep ==
  ASSUME SubInv, HookReturns
  PROVE  SubInv'
  <1>1. /\ stack # <<>> /\ stack[1].at = "hook" /\ Pop /\ Len(stack) \in Nat \ {0}
        /\ UNCHANGED <<slot, tab, num, flag, sub, bufs, chld, handling, usr, proc, told>>
    BY TopType DEF HookReturns, At
  <1>2. stack' \in Seq(FrameType) /\ Popped
    BY <1>1, PopStep DEF SubInv
  <1>3. flag' \in Nat
    BY <1>1 DEF SubInv, Types, TypeOK
  <1>4. Gentle /\ Types'
    BY <1>1, <1>2, <1>3, StackGentle
  <1>5. Len(stack) > 1 /\ stack[2].at = "count" => Drained(stack[2].s)
    BY <1>1 DEF SubInv, Shape
  <1>6. Reporting' /\ Shape'
    BY <1>1, <1>2, <1>4, <1>5, ReportingPop, ShapePop
  <1>7. stack' # <<>> => stack'[1].at \notin OpenAts
    <2> SUFFICES ASSUME stack' # <<>>
                 PROVE  stack'[1].at \notin OpenAts
      OBVIOUS
    <2>1. Len(stack') \in Nat \ {0}
      BY <1>2, EmptySeq
    <2>2. Len(stack) > 1 /\ stack'[1] = stack[2]
      BY <1>1, <1>2, <2>1 DEF Popped
    <2> QED
      BY <1>1, <2>2 DEF SubInv, Shape
  <1> QED
    BY <1>1, <1>2, <1>3, <1>6, <1>7, OnlyStack DEF OpenAts

LEMMA UpdateStep ==
  ASSUME SubInv, Careful, Update
  PROVE  SubInv'
  <1>1. /\ stack = <<>> /\ flag # 0 /\ flag \in Nat /\ Push(Frame("store", 0, None, flag))
        /\ UNCHANGED <<slot, tab, num, flag, sub, bufs, chld, handling, usr, proc, told>>
    BY DEF Update, Careful, Idle, SubInv, Types, TypeOK
  <1>2. "store" \in Frames
    BY DEF Frames
  <1>3. PICK f \in FrameType : f = Frame("store", 0, None, flag) /\ f.at = "store" /\ f.v = flag
    BY <1>1, <1>2, FrameOf
  <1>4. stack' \in Seq(FrameType) /\ PushedBy(f) /\ stack' # <<>> /\ stack'[1] = f
    BY <1>1, <1>3, PushStep DEF SubInv, PushedBy
  <1>5. Gentle /\ Types'
    BY <1>1, <1>4, StackGentle
  <1>6. FrameSound(f, TRUE)'
    BY <1>1, <1>3 DEF FrameSound, ReportAts
  <1>7. Reporting' /\ Shape'
    BY <1>1, <1>3, <1>4, <1>5, <1>6, ReportingPush, ShapePush DEF OpenAts, ScanAts
  <1> QED
    BY <1>1, <1>3, <1>4, <1>7, OnlyStack DEF OpenAts

LEMMA ScanMoves ==
  ASSUME SubInv, stack # <<>>, stack[1].at \in ScanAts,
         NEW f \in FrameType, f.at \in ScanAts, FrameSound(f, TRUE),
         stack' = [stack EXCEPT ![1] = f], flag' \in Nat,
         UNCHANGED <<slot, tab, num, sub, bufs, chld, handling, usr, proc, told>>
  PROVE  SubInv'
  <1>1. stack' \in Seq(FrameType) /\ MovedTo(f)
    BY MoveStep DEF SubInv
  <1>2. Gentle /\ Types'
    BY <1>1, StackGentle
  <1>3. FrameSound(f, TRUE)'
    BY <1>2, FramesKept
  <1>4. Reporting' /\ Shape'
    BY <1>1, <1>2, <1>3, ReportingMove, ShapeMove DEF OpenAts, ScanAts
  <1>5. stack[1].at \notin OpenAts /\ stack'[1] = f /\ f.at \notin OpenAts
    BY <1>1 DEF OpenAts, ScanAts, MovedTo
  <1> QED
    BY <1>1, <1>4, <1>5, OnlyStack

(* What the frame on top becomes.                                          *)
LEMMA MovingAt ==
  ASSUME SubInv, stack # <<>>, NEW at \in Frames
  PROVE  \E f \in FrameType :
           /\ f.at = at /\ f.s = stack[1].s /\ f.v = stack[1].v
           /\ [stack EXCEPT ![1].at = at] = [stack EXCEPT ![1] = f]
  <1>1. stack[1] \in FrameType /\ DOMAIN stack = 1..Len(stack) /\ Len(stack) \in Nat \ {0}
    BY TopFrame DEF SubInv, Types
  <1> DEFINE f == [stack[1] EXCEPT !.at = at]
  <1>2. f \in FrameType /\ f.at = at /\ f.s = stack[1].s /\ f.v = stack[1].v
        /\ [stack EXCEPT ![1].at = at] = [stack EXCEPT ![1] = f]
    BY <1>1 DEF FrameType
  <1> HIDE DEF f
  <1> QED
    BY <1>2

LEMMA MovingTo ==
  ASSUME SubInv, stack # <<>>, NEW at \in Frames, NEW s \in Nat,
         stack' = [stack EXCEPT ![1].at = at, ![1].s = s]
  PROVE  \E f \in FrameType : f.at = at /\ f.s = s /\ stack' = [stack EXCEPT ![1] = f]
  <1>1. stack[1] \in FrameType /\ DOMAIN stack = 1..Len(stack) /\ Len(stack) \in Nat \ {0}
    BY TopFrame DEF SubInv, Types
  <1> DEFINE f == [stack[1] EXCEPT !.at = at, !.s = s]
  <1>2. f \in FrameType /\ f.at = at /\ f.s = s /\ stack' = [stack EXCEPT ![1] = f]
    BY <1>1 DEF FrameType
  <1> HIDE DEF f
  <1> QED
    BY <1>2

LEMMA MovingWith ==
  ASSUME SubInv, stack # <<>>, NEW at \in Frames, NEW v \in Nat,
         stack' = [stack EXCEPT ![1].at = at, ![1].v = v]
  PROVE  \E f \in FrameType :
           f.at = at /\ f.s = stack[1].s /\ f.v = v /\ stack' = [stack EXCEPT ![1] = f]
  <1>1. stack[1] \in FrameType /\ DOMAIN stack = 1..Len(stack) /\ Len(stack) \in Nat \ {0}
    BY TopFrame DEF SubInv, Types
  <1> DEFINE f == [stack[1] EXCEPT !.at = at, !.v = v]
  <1>2. f \in FrameType /\ f.at = at /\ f.s = stack[1].s /\ f.v = v
        /\ stack' = [stack EXCEPT ![1] = f]
    BY <1>1 DEF FrameType
  <1> HIDE DEF f
  <1> QED
    BY <1>2

LEMMA StoreFlagStep ==
  ASSUME SubInv, StoreFlag
  PROVE  SubInv'
  <1>1. /\ stack # <<>> /\ Top = stack[1] /\ stack[1].at = "store" /\ stack[1].v \in Nat
        /\ 1 \in 1..Len(stack) /\ Goto("input") /\ flag' = stack[1].v - 1
        /\ UNCHANGED <<slot, tab, num, sub, bufs, chld, handling, usr, proc, told>>
    BY TopType DEF StoreFlag, At
  <1>2. flag' \in Nat
    BY <1>1 DEF SubInv, Reporting, FrameSound
  <1>3. "input" \in Frames
    BY DEF Frames
  <1>4. PICK f \in FrameType : f.at = "input" /\ stack' = [stack EXCEPT ![1] = f]
    BY <1>1, <1>3, MovingAt DEF Goto
  <1>5. FrameSound(f, TRUE)
    BY <1>4 DEF FrameSound, ReportAts
  <1> QED
    BY <1>1, <1>2, <1>4, <1>5, ScanMoves DEF ScanAts

LEMMA ScanNext ==
  ASSUME SubInv, stack # <<>>, stack[1].at \in ScanAts, NEW s \in Nat,
         stack' = [stack EXCEPT ![1].at = "scan", ![1].s = s],
         UNCHANGED <<slot, tab, num, flag, sub, bufs, chld, handling, usr, proc, told>>
  PROVE  SubInv'
  <1>1. "scan" \in Frames
    BY DEF Frames
  <1>2. PICK f \in FrameType : f.at = "scan" /\ stack' = [stack EXCEPT ![1] = f]
    BY <1>1, MovingTo
  <1>3. FrameSound(f, TRUE)
    BY <1>2 DEF FrameSound, ReportAts
  <1>4. flag' \in Nat
    BY DEF SubInv, Types, TypeOK
  <1> QED
    BY <1>2, <1>3, <1>4, ScanMoves DEF ScanAts

LEMMA InputFirstStep ==
  ASSUME SubInv, InputFirst
  PROVE  SubInv'
  <1>1. /\ stack # <<>> /\ stack[1].at = "input"
        /\ UNCHANGED <<slot, tab, num, flag, sub, bufs, chld, handling, usr, proc, told>>
    BY TopType DEF InputFirst, At
  <1>2. CASE \E s \in Selected \cap Slots : Ready(s) /\ Push(ReadFrame(s))
    BY <1>1, <1>2, StartReading
  <1>3. CASE stack' = [stack EXCEPT ![1].at = "scan", ![1].s = 1]
    BY <1>1, <1>3, ScanNext DEF ScanAts
  <1> QED
    BY <1>2, <1>3 DEF InputFirst

LEMMA LoadChangedStep ==
  ASSUME SubInv, LoadChanged
  PROVE  SubInv'
  <1> DEFINE s == stack[1].s
  <1>1. /\ stack # <<>> /\ Top = stack[1] /\ stack[1].at = "count" /\ 1 \in 1..Len(stack)
        /\ stack' = [stack EXCEPT ![1].at = "changed", ![1].v = slot[s].changed]
        /\ UNCHANGED <<slot, tab, num, flag, sub, bufs, chld, handling, usr, proc, told>>
    <2>1. stack # <<>> /\ Top.at = "count"
      BY DEF LoadChanged, At
    <2>2. Top = stack[1] /\ 1 \in 1..Len(stack)
      BY <2>1, TopType
    <2> QED
      BY <2>1, <2>2 DEF LoadChanged
  <1>2. /\ s \in Slots /\ slot[s].flags # "gone" /\ slot[s].changed >= 1 /\ Drained(s)
        /\ proc[slot[s].pid].stops = 0 => slot[s].flags = "exited"
    BY <1>1 DEF SubInv, Reporting, FrameSound, ReportAts
  <1>3. slot[s].changed \in Nat /\ "changed" \in Frames
    BY <1>2, SlotTypes DEF Frames
  <1>4. PICK f \in FrameType : /\ f.at = "changed" /\ f.s = s /\ f.v = slot[s].changed
                               /\ stack' = [stack EXCEPT ![1] = f]
    BY <1>1, <1>3, MovingWith
  <1> HIDE DEF s
  <1>5. FrameSound(f, TRUE)
    BY <1>2, <1>4 DEF FrameSound, ReportAts
  <1>6. flag' \in Nat
    BY <1>1 DEF SubInv, Types, TypeOK
  <1> QED
    BY <1>1, <1>4, <1>5, <1>6, ScanMoves DEF ScanAts

(* A frame is covered by another one.                                      *)
LEMMA CoverStep ==
  ASSUME SubInv, Len(stack) = 1, NEW f \in FrameType, NEW g \in FrameType,
         stack' = <<g>> \o [stack EXCEPT ![1] = f]
  PROVE  stack' \in Seq(FrameType) /\ Len(stack') = 2 /\ stack'[1] = g /\ stack'[2] = f
         /\ stack' # <<>>
  <1>1. stack # <<>> /\ stack \in Seq(FrameType)
    BY DEF SubInv, Types
  <1>2. PICK st : st = [stack EXCEPT ![1] = f]
    OBVIOUS
  <1>3. st \in Seq(FrameType) /\ Len(st) = 1 /\ st[1] = f
    BY <1>1, <1>2, Going
  <1>4. stack' = <<g>> \o st
    BY <1>2
  <1>5. /\ <<g>> \o st \in Seq(FrameType) /\ Len(<<g>> \o st) = Len(st) + 1
        /\ (<<g>> \o st)[1] = g
        /\ \A i \in 2..(Len(st) + 1) : (<<g>> \o st)[i] = st[i - 1]
    BY <1>3, Pushing
  <1>6. (<<g>> \o st)[2] = st[1]
    BY <1>3, <1>5
  <1>7. Len(stack') = 2
    BY <1>3, <1>4, <1>5
  <1>8. stack' # <<>>
    BY ONLY <1>7
  <1>9. stack'[1] = g /\ stack'[2] = f /\ stack' \in Seq(FrameType)
    BY ONLY <1>3, <1>4, <1>5, <1>6
  <1> QED
    BY ONLY <1>7, <1>8, <1>9

LEMMA ScanStep ==
  ASSUME SubInv, Scan
  PROVE  SubInv'
  <1> DEFINE s == stack[1].s
  <1>1. /\ stack # <<>> /\ Top = stack[1] /\ stack[1].at = "scan" /\ s \in Nat
        /\ 1 \in 1..Len(stack) /\ Len(stack) \in Nat
        /\ UNCHANGED <<slot, tab, num, flag, sub, bufs, chld, handling, usr, proc, told>>
    BY TopType DEF Scan, At
  <1>2. Len(stack) = 1
    BY <1>1 DEF SubInv, Shape, ScanAts
  <1>3. flag' \in Nat
    BY <1>1 DEF SubInv, Types, TypeOK
  <1>4. CASE s \notin Slots
    <2>1. Pop
      BY <1>1, <1>4 DEF Scan, Pop
    <2>2. stack' = <<>> /\ stack' \in Seq(FrameType) /\ Len(stack') = 0
      BY <1>1, <1>2, <2>1, PopStep, EmptySeq DEF SubInv, Popped
    <2>3. Shape' /\ Reporting'
      BY <2>2 DEF Shape, Reporting
    <2> QED
      BY <1>1, <1>3, <2>2, <2>3, OnlyStack DEF OpenAts
  <1>5. CASE s \in Slots /\ HasNews(s)
    <2>1. stack' = <<ReadFrame(s)>> \o [stack EXCEPT ![1].at = "count"] /\ "count" \in Frames
      BY <1>1, <1>5 DEF Scan, Drain, Frames
    <2>2. PICK f \in FrameType : f.at = "count" /\ f.s = s
                                 /\ [stack EXCEPT ![1].at = "count"] = [stack EXCEPT ![1] = f]
      BY <1>1, <2>1, MovingAt
    <2>3. PICK g \in FrameType : g = ReadFrame(s) /\ g.at = "read" /\ g.s = s
      BY <1>5, ReadFrameSound
    <2>4. stack' \in Seq(FrameType) /\ Len(stack') = 2 /\ stack'[1] = g /\ stack'[2] = f
      BY <1>2, <2>1, <2>2, <2>3, CoverStep
    <2>5. Shape'
      BY <2>2, <2>3, <2>4 DEF Shape, OpenAts, ScanAts
    <2> HIDE DEF s
    <2>6. /\ slot[s].flags # "gone" /\ slot[s].changed >= 1
          /\ proc[slot[s].pid].stops = 0 => slot[s].flags = "exited"
      <3>1. slot[s].flags # "gone" /\ slot[s].changed # 0 /\ slot[s].changed \in Nat /\ SlotSound(s)
        BY <1>5, SlotTypes DEF HasNews
      <3> QED
        BY <3>1 DEF SlotSound
    <2>7. FrameSound(f, FALSE)'
      BY <1>1, <1>5, <2>2, <2>6 DEF FrameSound, ReportAts
    <2>8. FrameSound(g, TRUE)'
      BY <1>5, <2>3 DEF FrameSound, ReportAts
    <2>9. Reporting'
      <3> SUFFICES ASSUME NEW i \in 1..Len(stack')
                   PROVE  FrameSound(stack[i], i = 1)'
        BY DEF Reporting
      <3>1. CASE i = 1
        BY <2>4, <2>8, <3>1
      <3>2. CASE i = 2
        BY <2>4, <2>7, <3>2 DEF FrameSound
      <3> QED
        BY <2>4, <3>1, <3>2
    <2> QED
      BY <1>1, <1>3, <2>3, <2>4, <2>5, <2>9, OnlyStack DEF OpenAts
  <1>6. CASE s \in Slots /\ ~HasNews(s)
    <2>1. stack' = [stack EXCEPT ![1].at = "scan", ![1].s = s + 1]
      BY <1>1, <1>6 DEF Scan, NextSlot
    <2>2. s + 1 \in Nat
      BY <1>1
    <2> QED
      BY <1>1, <2>1, <2>2, ScanNext DEF ScanAts
  <1> QED
    BY <1>4, <1>5, <1>6

LEMMA ReadChunkStep ==
  ASSUME SubInv, ReadChunk
  PROVE  SubInv'
  <1> DEFINE s == stack[1].s
             p == slot[s].pid
             new == [proc[p] EXCEPT !.pipe = proc[p].pipe - 1, !.got = proc[p].got + 1]
  <1>1. /\ stack # <<>> /\ Top = stack[1] /\ stack[1].at = "read" /\ Ready(s) /\ 1 \in 1..Len(stack)
        /\ UNCHANGED <<slot, tab, num, flag, sub, bufs, chld, handling, usr, told>>
    BY TopType DEF ReadChunk, At
  <1>2. s \in Slots
    BY <1>1 DEF SubInv, Reporting, FrameSound
  <1>3. slot[s].open /\ p \in Pids /\ slot[s].buffer # None
    <2>1. slot[s].open /\ SlotSound(s) /\ p \in Pids \cup {0}
      BY <1>1, <1>2, SlotTypes DEF Ready
    <2>2. slot[s].flags = "gone" => ~slot[s].open
      BY <2>1 DEF SlotSound, FreeSlot
    <2>3. p # 0
      BY <2>1, <2>2 DEF SlotSound
    <2> QED
      BY <1>2, <2>1, <2>3, BuffersUse
  <1>4. /\ proc[p] \in Child /\ ChildSound(p) /\ proc[p].pipe > 0
        /\ proc[p].pipe \in Nat /\ proc[p].got \in Nat /\ proc[p].out \in Nat
    BY <1>1, <1>3, ChildTypes DEF Ready, Child
  <1>5. proc' = [proc EXCEPT ![p] = new]
    <2>1. proc' = [proc EXCEPT ![p].pipe = @ - 1, ![p].got = @ + 1]
      BY <1>1, <1>3 DEF ReadChunk
    <2> QED
      BY <1>3, <2>1 DEF SubInv, Types, TypeOK
  <1>6. stack' = stack \/ Push(Frame("hook", 0, None, 0))
    BY DEF ReadChunk
  <1>7. proc[p].pipe - 1 \in Nat /\ proc[p].got + 1 \in Nat
    BY <1>4
  <1> HIDE DEF p, s
  <1>8. new \in Child
    BY <1>4, <1>7 DEF Child
  <1>9. proc'[p] = new /\ proc' \in [Pids -> Child] /\ \A q \in Pids \ {p} : proc'[q] = proc[q]
    BY <1>3, <1>5, <1>8 DEF SubInv, Types, TypeOK
  <1>10. /\ proc'[p].st = proc[p].st /\ proc'[p].news = proc[p].news /\ proc'[p].stops = proc[p].stops
         /\ proc'[p].out = proc[p].out /\ proc'[p].pipe = proc[p].pipe - 1
         /\ proc'[p].got = proc[p].got + 1
    BY <1>4, <1>9 DEF Child
  <1> HIDE DEF new
  <1>11. ChildGoes(p)
    BY <1>4, <1>10 DEF ChildGoes, ChildSound
  <1>12. \A q \in Pids : ChildGoes(q)
    BY <1>1, <1>9, <1>11, ChildStutters DEF ChildStep
  <1>13. Gentle
    BY <1>1, <1>12, QuietGentle
  <1>14. CASE stack' = stack
    <2>1. Types'
      BY <1>1, <1>9, <1>14 DEF SubInv, Types, TypeOK
    <2>2. Shape' /\ Reporting'
      BY <1>13, <1>14, <2>1, ReportingStays DEF SubInv, Shape
    <2>3. Opening' /\ OpenerKept
      BY <1>1, <1>14 DEF Opening, OpenerKept, OpenAts
    <2> QED
      BY <1>1, <1>12, <2>1, <2>2, <2>3, Quiet
  <1>15. CASE Push(Frame("hook", 0, None, 0))
    <2>1. "hook" \in Frames /\ 0 \in Nat
      BY DEF Frames
    <2>2. PICK f \in FrameType : f = Frame("hook", 0, None, 0) /\ f.at = "hook"
      BY <2>1, FrameOf
    <2>3. stack' \in Seq(FrameType) /\ PushedBy(f) /\ stack' # <<>> /\ stack'[1] = f
      BY <1>15, <2>2, PushStep DEF SubInv, PushedBy
    <2>4. Types'
      BY <1>1, <1>9, <2>3, FrameAts DEF SubInv, Types, TypeOK
    <2>5. FrameSound(f, TRUE)'
      BY <2>2 DEF FrameSound, ReportAts
    <2>6. Shape'
      BY <1>1, <2>2, <2>3, ShapePush DEF OpenAts, ScanAts
    <2>7. Reporting'
      BY <1>13, <2>3, <2>4, <2>5, ReportingPush
    <2>8. Opening' /\ OpenerKept
      BY <1>1, <2>2, <2>3 DEF Opening, OpenerKept, OpenAts
    <2> QED
      BY <1>1, <1>12, <2>4, <2>6, <2>7, <2>8, Quiet
  <1> QED
    BY <1>6, <1>14, <1>15

(* In a scan there is no other frame.                                      *)
LEMMA ScanAlone ==
  ASSUME SubInv, stack # <<>>, stack[1].at \in ScanAts
  PROVE  Len(stack) = 1 /\ FrameSound(stack[1], TRUE)
  <1>1. 1 \in 1..Len(stack) /\ Len(stack) \in Nat
    BY TopType
  <1>2. FrameSound(stack[1], 1 = 1)
    BY <1>1 DEF SubInv, Reporting
  <1> QED
    BY <1>1, <1>2 DEF SubInv, Shape

LEMMA OneFrame ==
  ASSUME Len(stack') = 1, NEW f \in FrameType, stack'[1] = f, FrameSound(f, TRUE)',
         f.at \in ScanAts
  PROVE  Reporting' /\ Shape'
  <1>1. ASSUME NEW i \in 1..Len(stack')
        PROVE  i = 1 /\ stack'[i] = f
    BY <1>1
  <1>2. ASSUME NEW i \in 1..Len(stack')
        PROVE  FrameSound(stack[i], i = 1)'
    BY <1>1 DEF FrameSound
  <1>3. f.at # "hook" /\ f.at \notin OpenAts
    BY DEF ScanAts, OpenAts
  <1>4. Shape'
    BY <1>1, <1>3 DEF Shape
  <1> QED
    BY <1>2, <1>4 DEF Reporting

LEMMA StoreChangedStep ==
  ASSUME SubInv, StoreChanged
  PROVE  SubInv'
  <1> DEFINE v == stack[1].v
  <1>1. stack # <<>> /\ Top = stack[1] /\ stack[1].at = "changed" /\ v \in Nat
        /\ UNCHANGED <<tab, num, flag, sub, bufs, chld, handling, usr, proc, told>>
    BY TopType DEF StoreChanged, At
  <1>2. Len(stack) = 1 /\ FrameSound(stack[1], TRUE)
    BY <1>1, ScanAlone DEF ScanAts
  <1> PICK s \in Slots : s = stack[1].s
    BY <1>1, <1>2 DEF FrameSound, ReportAts
  <1>3. /\ slot[s].flags # "gone" /\ v >= 1 /\ Drained(s)
        /\ proc[slot[s].pid].stops = 0 => slot[s].flags = "exited"
    BY <1>1, <1>2 DEF FrameSound, ReportAts
  <1>4. stack' = [stack EXCEPT ![1].at = "report"] /\ "report" \in Frames
    BY DEF StoreChanged, Goto, Frames
  <1>5. PICK f \in FrameType : f.at = "report" /\ f.s = s /\ stack' = [stack EXCEPT ![1] = f]
    BY <1>1, <1>4, MovingAt
  <1>6. stack' \in Seq(FrameType) /\ Len(stack') = 1 /\ stack'[1] = f /\ stack' # <<>>
    BY <1>1, <1>2, <1>5, MoveStep DEF SubInv, MovedTo
  <1>7. slot' = [slot EXCEPT ![s] = [slot[s] EXCEPT !.changed = v - 1]] /\ v - 1 \in Nat
    BY <1>1, <1>3 DEF StoreChanged
  <1> HIDE DEF v
  <1>8. /\ slot'[s] = [slot[s] EXCEPT !.changed = v - 1]
        /\ \A t \in Slots \ {s} : slot'[t] = slot[t]
        /\ slot' \in [Slots -> Process]
    <2>1. [slot[s] EXCEPT !.changed = v - 1] \in Process
      BY <1>3, <1>7, SlotTypes DEF Process
    <2> QED
      BY <1>3, <1>7, <2>1 DEF SubInv, Types, TypeOK
  <1>9. /\ slot'[s].pid = slot[s].pid /\ slot'[s].flags = slot[s].flags
        /\ slot'[s].open = slot[s].open /\ slot'[s].buffer = slot[s].buffer
    <2>1. slot[s] \in Process /\ slot'[s] = [slot[s] EXCEPT !.changed = v - 1]
      BY <1>3, <1>8, SlotTypes
    <2> QED
      BY ONLY <2>1 DEF Process
  <1>10. Types'
    BY <1>1, <1>6, <1>8, FrameAts DEF SubInv, Types, TypeOK
  <1>11. TableSound' /\ BuffersSound'
    BY <1>1, <1>8, <1>9, TableKept, BuffersKept
  <1>12. Shape' /\ Reporting'
    <2>1. Drained(s)'
      BY <1>1, <1>3, <1>9 DEF Drained
    <2>2. FrameSound(f, TRUE)'
      BY <1>1, <1>3, <1>5, <1>9, <2>1 DEF FrameSound, ReportAts
    <2> QED
      BY <1>5, <1>6, <2>2, OneFrame DEF ScanAts
  <1>13. Opening' /\ OpenerKept /\ \A p \in Pids : ~Awaited(p)
    BY <1>1, <1>5, <1>6 DEF Opening, OpenerKept, OpenAts, Awaited
  <1>14. ASSUME NEW p \in Pids
         PROVE  ChildSound(p)'
    <2>1. ASSUME Housed(p)
          PROVE  Housed(p)'
      <3>1. PICK t \in Slots : slot[t].flags # "gone" /\ slot[t].pid = p
        BY <2>1 DEF Housed
      <3>2. t # s => slot'[t] = slot[t]
        BY <1>8
      <3>3. slot'[t].flags # "gone" /\ slot'[t].pid = p
        BY <3>1, <3>2, <1>9
      <3> QED
        BY <3>3 DEF Housed
    <2>2. ChildSound(p) /\ proc' = proc
      BY <1>1, ChildTypes
    <2> QED
      BY <1>13, <2>1, <2>2 DEF ChildSound
  <1>15. ASSUME NEW t \in Slots
         PROVE  SlotSound(t)'
    <2>1. CASE t = s
      <3>1. /\ slot'[t].pid = slot[s].pid /\ slot'[t].flags = slot[s].flags
            /\ slot'[t].open = slot[s].open /\ SlotSound(s) /\ proc' = proc
        BY <1>1, <1>3, <1>9, <2>1, SlotTypes
      <3> QED
        BY <1>3, <3>1 DEF SlotSound
    <2>2. CASE t # s
      BY <1>1, <1>8, <1>13, <2>2, ChildrenStutter, SlotKept, SlotTypes
    <2> QED
      BY <2>1, <2>2
  <1> QED
    BY <1>10, <1>11, <1>12, <1>13, <1>14, <1>15 DEF SubInv

LEMMA ReportStep ==
  ASSUME SubInv, Report
  PROVE  SubInv'
  <1>1. stack # <<>> /\ Top = stack[1] /\ stack[1].at = "report"
        /\ UNCHANGED <<slot, tab, num, flag, sub, bufs, chld, handling, usr, proc>>
    BY TopType DEF Report, At
  <1>2. Len(stack) = 1 /\ FrameSound(stack[1], TRUE)
    BY <1>1, ScanAlone DEF ScanAts
  <1> PICK s \in Slots : s = stack[1].s
    BY <1>1, <1>2 DEF FrameSound, ReportAts
  <1>3. /\ slot[s].flags # "gone" /\ Drained(s)
        /\ proc[slot[s].pid].stops = 0 => slot[s].flags = "exited"
    BY <1>1, <1>2 DEF FrameSound, ReportAts
  <1>4. slot[s].pid \in Pids /\ slot[s].flags \in Flags
    BY <1>3, SlotTypes DEF SlotSound
  <1>5. "reap" \in Frames /\ "hook" \in Frames /\ 0 \in Nat
    BY DEF Frames
  <1>6. PICK f \in FrameType : /\ f.at = "reap" /\ f.s = s
                               /\ [stack EXCEPT ![1].at = "reap"] = [stack EXCEPT ![1] = f]
    BY <1>1, <1>5, MovingAt
  <1>7. told \in [Pids -> Flags] /\ flag' \in Nat
    BY <1>1 DEF SubInv, Types, TypeOK
  <1>8. /\ f.at = "reap" /\ f.s = s /\ EndTold(s)' => FrameSound(f, TRUE)'
        /\ f.at = "reap" /\ f.s = s /\ EndTold(s)' => FrameSound(f, FALSE)'
    <2>1. Drained(s)'
      BY <1>1, <1>3 DEF Drained
    <2> QED
      BY <1>1, <1>3, <2>1 DEF FrameSound, ReportAts
  <1>9. \A p \in Pids : ChildGoes(p)
    BY <1>1, ChildrenStutter
  <1>10. CASE Called(slot[s])
    <2>1. /\ stack' = <<Frame("hook", 0, None, 0)>> \o [stack EXCEPT ![1].at = "reap"]
          /\ told' = [told EXCEPT ![slot[s].pid] = slot[s].flags]
      BY <1>1, <1>10 DEF Report
    <2>2. PICK g \in FrameType : g = Frame("hook", 0, None, 0) /\ g.at = "hook"
      BY <1>5, FrameOf
    <2>3. stack' \in Seq(FrameType) /\ Len(stack') = 2 /\ stack'[1] = g /\ stack'[2] = f /\ stack' # <<>>
      BY <1>2, <1>6, <2>1, <2>2, CoverStep
    <2>4. told' \in [Pids -> Flags] /\ told'[slot[s].pid] = slot[s].flags
      BY <1>4, <1>7, <2>1
    <2>5. Types'
      BY <1>1, <2>3, <2>4, FrameAts DEF SubInv, Types, TypeOK
    <2>6. EndTold(s)'
      BY <1>1, <1>3, <2>4 DEF EndTold, Served
    <2>7. FrameSound(f, FALSE)'
      BY <1>6, <1>8, <2>6
    <2>8. FrameSound(g, TRUE)'
      BY <2>2 DEF FrameSound, ReportAts
    <2>9. Reporting'
      <3> SUFFICES ASSUME NEW i \in 1..Len(stack')
                   PROVE  FrameSound(stack[i], i = 1)'
        BY DEF Reporting
      <3>1. CASE i = 1
        BY <2>3, <2>8, <3>1
      <3>2. CASE i = 2
        BY <2>3, <2>7, <3>2 DEF FrameSound
      <3> QED
        BY <2>3, <3>1, <3>2
    <2>10. Shape'
      BY <1>6, <2>2, <2>3 DEF Shape, OpenAts, ScanAts
    <2>11. Opening' /\ OpenerKept
      BY <1>1, <2>2, <2>3 DEF Opening, OpenerKept, OpenAts
    <2> QED
      BY <1>1, <1>9, <2>5, <2>9, <2>10, <2>11, Quiet
  <1>11. CASE ~Called(slot[s])
    <2>1. stack' = [stack EXCEPT ![1].at = "reap"] /\ told' = told
      BY <1>1, <1>11 DEF Report
    <2>2. stack' \in Seq(FrameType) /\ Len(stack') = 1 /\ stack'[1] = f /\ stack' # <<>>
      BY <1>1, <1>2, <1>6, <2>1, MoveStep DEF SubInv, MovedTo
    <2>3. Types'
      BY <1>1, <2>1, <2>2, FrameAts DEF SubInv, Types, TypeOK
    <2>4. EndTold(s)'
      BY <1>1, <1>11, <2>1 DEF EndTold, Served, Called
    <2>5. Reporting' /\ Shape'
      BY <1>6, <1>8, <2>2, <2>4, OneFrame DEF ScanAts
    <2>6. Opening' /\ OpenerKept
      BY <1>1, <1>6, <2>2 DEF Opening, OpenerKept, OpenAts
    <2> QED
      BY <1>1, <1>9, <2>3, <2>5, <2>6, Quiet
  <1> QED
    BY <1>10, <1>11

(* The entry of a slot in use, and what is left without it.                *)
LEMMA EntryOf ==
  ASSUME SubInv, NEW s \in Used
  PROVE  /\ Entry(s) \in DOMAIN tab /\ Entry(s) < num /\ tab[Entry(s)] = s
         /\ \A i \in DOMAIN tab : i < num /\ tab[i] = s => i = Entry(s)
  <1>1. /\ Selected = Used /\ num \in Nat /\ DOMAIN tab \subseteq Nat
        /\ \A i, j \in DOMAIN tab : i < num /\ j < num /\ tab[i] = tab[j] => i = j
    BY DEF SubInv, TableSound, Types, TypeOK
  <1>2. PICK e \in DOMAIN tab : e < num /\ tab[e] = s
    BY <1>1 DEF Selected
  <1>3. e \in Nat /\ (IF num < 0 THEN 0 ELSE num) = num
    BY <1>1
  <1> DEFINE S == {i \in DOMAIN tab : i < num /\ tab[i] = s} \cup {num}
  <1>4. Entry(s) = Min(S)
    BY <1>3 DEF Entry
  <1>5. S \subseteq Nat /\ S # {} /\ e \in S
    BY <1>1, <1>2
  <1>6. Min(S) \in S /\ Min(S) <= e
    BY <1>5, NatMin
  <1>7. Min(S) # num /\ Min(S) \in DOMAIN tab /\ tab[Min(S)] = s /\ Min(S) < num
    BY <1>1, <1>2, <1>3, <1>6
  <1> HIDE DEF S
  <1> QED
    BY <1>1, <1>4, <1>7

LEMMA ShiftedTable ==
  ASSUME SubInv, NEW s \in Used, tab' = Shifted(Entry(s)), num' = num - 1,
         Used' = Used \ {s}
  PROVE  /\ tab' \in [0..(MaxProcesses - 1) -> Slots \cup {NoSlot}] /\ num' \in 0..MaxProcesses
         /\ TableSound'
  <1> DEFINE e == Entry(s)
             old(k) == IF k >= e THEN k + 1 ELSE k
  <1>1. /\ num \in 0..MaxProcesses /\ DOMAIN tab = 0..(MaxProcesses - 1) /\ MaxProcesses \in Nat
        /\ Selected = Used /\ num = Cardinality(Used)
        /\ \A i, j \in DOMAIN tab : i < num /\ j < num /\ tab[i] = tab[j] => i = j
        /\ tab \in [0..(MaxProcesses - 1) -> Slots \cup {NoSlot}]
    BY SubprocessAssumption DEF SubInv, TableSound, Types, TypeOK
  <1>2. e \in DOMAIN tab /\ e < num /\ tab[e] = s /\ \A i \in DOMAIN tab : i < num /\ tab[i] = s => i = e
    BY EntryOf
  <1>3. tab' = [k \in DOMAIN tab |-> IF k >= e /\ k < num - 1 THEN tab[k + 1] ELSE tab[k]]
    BY DEF Shifted
  <1> HIDE DEF e
  <1>4. num' \in 0..MaxProcesses
    BY <1>1, <1>2
  <1>5. tab' \in [0..(MaxProcesses - 1) -> Slots \cup {NoSlot}] /\ DOMAIN tab' = DOMAIN tab
    <2>1. \A k \in DOMAIN tab : k < num - 1 => k + 1 \in DOMAIN tab
      BY <1>1
    <2> QED
      BY <1>1, <1>3, <2>1
  <1>6. ASSUME NEW k \in DOMAIN tab, k < num - 1
        PROVE  /\ old(k) \in DOMAIN tab /\ old(k) < num /\ old(k) # e /\ tab'[k] = tab[old(k)]
    BY <1>1, <1>2, <1>3, <1>6
  <1>7. \A i, j \in DOMAIN tab' : i < num' /\ j < num' /\ tab'[i] = tab'[j] => i = j
    <2> SUFFICES ASSUME NEW i \in DOMAIN tab, NEW j \in DOMAIN tab, i < num - 1, j < num - 1,
                        tab'[i] = tab'[j]
                 PROVE  i = j
      BY <1>5
    <2>1. old(i) = old(j)
      BY <1>1, <1>6
    <2> QED
      BY <1>1, <1>2, <2>1
  <1>8. Selected' = Used \ {s}
    <2>1. ASSUME NEW x \in Selected'
          PROVE  x \in Used \ {s}
      <3>1. PICK k \in DOMAIN tab : k < num - 1 /\ x = tab'[k]
        BY <1>5 DEF Selected
      <3>2. old(k) \in DOMAIN tab /\ old(k) < num /\ old(k) # e /\ x = tab[old(k)]
        BY <1>6, <3>1
      <3> HIDE DEF old
      <3>3. x \in Selected
        BY <3>2 DEF Selected
      <3> QED
        BY <1>1, <1>2, <3>2, <3>3
    <2>2. ASSUME NEW x \in Used \ {s}
          PROVE  x \in Selected'
      <3>1. PICK i \in DOMAIN tab : i < num /\ x = tab[i]
        BY <1>1 DEF Selected
      <3>2. i # e
        BY <1>2, <3>1
      <3> DEFINE k == IF i > e THEN i - 1 ELSE i
      <3>3. k \in DOMAIN tab /\ k < num - 1 /\ old(k) = i
        BY <1>1, <1>2, <3>1, <3>2
      <3>4. tab'[k] = x
        BY <1>6, <3>1, <3>3
      <3> HIDE DEF k, old
      <3> QED
        BY <1>5, <3>3, <3>4 DEF Selected
    <2> QED
      BY <2>1, <2>2
  <1>9. num' = Cardinality(Used')
    <2>1. IsFiniteSet(Used) /\ s \in Used
      BY UsedCount
    <2> QED
      BY <1>1, <2>1, FS_RemoveElement
  <1> QED
    BY <1>4, <1>5, <1>7, <1>8, <1>9 DEF TableSound

LEMMA FreeSlotPid == [FreeSlot EXCEPT !.pid = 0] = FreeSlot
  <1>1. FreeSlot \in Process /\ FreeSlot.pid = 0
    BY DEF FreeSlot, Process, Flags
  <1>2. \A r \in Process : r.pid = 0 => [r EXCEPT !.pid = 0] = r
    BY DEF Process
  <1> QED
    BY <1>1, <1>2

LEMMA ReapStep ==
  ASSUME SubInv, Reap
  PROVE  SubInv'
  <1>1. stack # <<>> /\ Top = stack[1] /\ stack[1].at = "reap" /\ stack[1].s \in Nat
        /\ stack' = [stack EXCEPT ![1].at = "scan", ![1].s = stack[1].s + 1]
        /\ UNCHANGED <<flag, bufs, chld, handling, usr, proc, told>>
    <2>1. stack # <<>> /\ Top.at = "reap"
      BY DEF Reap, At
    <2>2. Top = stack[1] /\ stack[1].s \in Nat
      BY <2>1, TopType
    <2>3. stack' = [stack EXCEPT ![1].at = "scan", ![1].s = @ + 1]
      BY DEF Reap, NextSlot
    <2> QED
      BY <2>1, <2>2, <2>3 DEF Reap
  <1>2. Len(stack) = 1 /\ FrameSound(stack[1], TRUE)
    BY <1>1, ScanAlone DEF ScanAts
  <1> PICK s \in Slots : s = stack[1].s
    BY <1>1, <1>2 DEF FrameSound, ReportAts
  <1>3. slot[s].flags # "gone"
    BY <1>1, <1>2 DEF FrameSound, ReportAts
  <1>4. CASE Kept(s)
    <2>1. UNCHANGED <<slot, sub, tab, num>> /\ stack[1].s + 1 \in Nat
      BY <1>1, <1>4 DEF Reap
    <2> QED
      BY <1>1, <2>1, ScanNext DEF ScanAts
  <1>5. CASE ~Kept(s)
    <2> DEFINE p == slot[s].pid
               b == slot[s].buffer
    <2>1. /\ slot' = [slot EXCEPT ![s] = FreeSlot] /\ sub' = Detached(s)
          /\ tab' = Shifted(Entry(s)) /\ num' = num - 1
      BY <1>1, <1>5 DEF Reap
    <2>2. slot[s].flags = "exited" /\ p \in Pids /\ proc[p].st = "dead" /\ ~proc[p].news
      BY <1>3, <1>5, SlotTypes DEF Kept, Alive, SlotSound, Flags
    <2>3. FreeSlot \in Process
      BY DEF FreeSlot, Process, Flags
    <2>4. slot' \in [Slots -> Process] /\ slot'[s] = FreeSlot /\ \A t \in Slots \ {s} : slot'[t] = slot[t]
      BY <2>1, <2>3 DEF SubInv, Types, TypeOK
    <2>5. /\ slot'[s].flags = "gone" /\ slot'[s].pid = 0 /\ slot'[s].changed = 0
          /\ ~slot'[s].open /\ slot'[s].buffer = None
      BY <2>4 DEF FreeSlot
    <2>6. s \in Used /\ Used' = Used \ {s}
      <3>1. FreeSlots' = FreeSlots \cup {s}
        BY <2>4, <2>5 DEF FreeSlots
      <3> QED
        BY <1>3, <3>1 DEF Used, FreeSlots
    <2>7. /\ tab' \in [0..(MaxProcesses - 1) -> Slots \cup {NoSlot}] /\ num' \in 0..MaxProcesses
          /\ TableSound'
      BY <2>1, <2>6, ShiftedTable
    <2> HIDE DEF p, b
    <2>8. /\ sub' \in [Buffers -> Slots \cup {NoSlot}]
          /\ \A c \in Buffers : c = b => sub'[c] = NoSlot
          /\ \A c \in Buffers : c # b => sub'[c] = sub[c]
      <3>1. b \in Buffers \cup {None} /\ None \notin Buffers /\ sub \in [Buffers -> Slots \cup {NoSlot}]
        BY SlotTypes, SubprocessAssumption DEF b, SubInv, Types, TypeOK
      <3>2. CASE b = None
        BY <2>1, <3>1, <3>2 DEF Detached, b
      <3>3. CASE b # None
        <4>1. sub' = [sub EXCEPT ![b] = NoSlot]
          BY <2>1, <3>3 DEF Detached, b
        <4> QED
          BY <3>1, <3>3, <4>1
      <3> QED
        BY <3>2, <3>3
    <2>9. stack' \in Seq(FrameType) /\ Len(stack') = 1 /\ stack' # <<>> /\ stack'[1].at = "scan"
          /\ Reporting' /\ Shape'
      <3>1. "scan" \in Frames /\ stack[1].s + 1 \in Nat
        BY <1>1 DEF Frames
      <3>2. PICK f \in FrameType : f.at = "scan" /\ stack' = [stack EXCEPT ![1] = f]
        BY <1>1, <3>1, MovingTo
      <3>3. stack' \in Seq(FrameType) /\ Len(stack') = 1 /\ stack'[1] = f /\ stack' # <<>>
        BY <1>1, <1>2, <3>2, MoveStep DEF SubInv, MovedTo
      <3>4. FrameSound(f, TRUE)'
        BY <3>2 DEF FrameSound, ReportAts
      <3> QED
        BY <3>2, <3>3, <3>4, OneFrame DEF ScanAts
    <2>10. Types'
      BY <1>1, <2>4, <2>7, <2>8, <2>9, FrameAts DEF SubInv, Types, TypeOK
    <2>11. BuffersSound'
      <3>1. ASSUME NEW c \in bufs, sub'[c] # NoSlot
            PROVE  slot'[sub'[c]].flags # "gone" /\ slot'[sub'[c]].buffer = c /\ slot'[sub'[c]].open
        <4>1. c # b /\ sub'[c] = sub[c]
          BY <2>8, <3>1, BuffersUse
        <4>2. sub[c] \in Slots \ {s}
          BY <3>1, <4>1, BuffersUse DEF b
        <4> QED
          BY <2>4, <3>1, <4>1, <4>2, BuffersUse
      <3>2. ASSUME NEW t \in Slots, slot'[t].open
            PROVE  sub'[slot'[t].buffer] = t /\ slot'[t].buffer # None
        <4>1. t # s /\ slot'[t] = slot[t]
          BY <2>4, <2>5, <3>2
        <4>2. slot[t].buffer \in Buffers /\ slot[t].buffer # b
          BY <3>2, <4>1, BuffersUse DEF b
        <4> QED
          BY <2>8, <3>2, <4>1, <4>2, BuffersUse
      <3>3. ASSUME NEW t \in Slots
            PROVE  slot'[t].buffer = None \/ (slot'[t].buffer = slot[t].buffer /\ t # s)
        <4>1. CASE t = s
          BY <2>5, <4>1
        <4>2. CASE t # s
          BY <2>4, <4>2
        <4> QED
          BY <4>1, <4>2
      <3> QED
        BY <1>1, <3>1, <3>2, <3>3, BuffersUse DEF BuffersSound, Attached, PointersLive
    <2>12. Opening' /\ OpenerKept
      BY <1>1, <2>9 DEF Opening, OpenerKept, OpenAts
    <2>13. ASSUME NEW q \in Pids
           PROVE  ChildSound(q)'
      <3>1. ~Awaited(q) /\ ChildSound(q) /\ proc' = proc
        BY <1>1, ChildTypes DEF Awaited
      <3>2. CASE q = p
        BY <2>2, <3>1, <3>2 DEF ChildSound, Unstarted, p
      <3>3. CASE q # p
        <4>1. Housed(q) => Housed(q)'
          BY <2>4, <3>3 DEF Housed, p
        <4> QED
          BY <3>1, <4>1 DEF ChildSound
      <3> QED
        BY <3>2, <3>3
    <2>14. ASSUME NEW t \in Slots
           PROVE  SlotSound(t)'
      <3>1. CASE t = s
        <4>1. [FreeSlot EXCEPT !.pid = 0] = FreeSlot
          BY FreeSlotPid
        <4> QED
          BY <2>4, <2>5, <3>1, <4>1 DEF SlotSound
      <3>2. CASE t # s
        BY <1>1, <2>4, <2>12, <3>2, ChildrenStutter, SlotKept, SlotTypes
      <3> QED
        BY <3>1, <3>2
    <2> QED
      BY <2>7, <2>9, <2>10, <2>11, <2>12, <2>13, <2>14 DEF SubInv
  <1> QED
    BY <1>4, <1>5

-----------------------------------------------------------------------------
LEMMA SubInvInit == Init => SubInv
  <1> SUFFICES ASSUME Init
               PROVE  SubInv
    OBVIOUS
  <1>1. /\ slot = [s \in Slots |-> FreeSlot] /\ proc = [p \in Pids |-> NewChild]
        /\ tab = [i \in 0..(MaxProcesses - 1) |-> NoSlot] /\ num = 0 /\ flag = 0
        /\ sub = [b \in Buffers |-> NoSlot] /\ bufs = Buffers
        /\ stack = <<>> /\ chld = FALSE /\ handling = FALSE
        /\ usr = [q \in Pids \cup {Jed} |-> NewSignal] /\ told = [p \in Pids |-> "gone"]
    BY DEF Init
  <1>2. Types
    <2>1. FreeSlot \in Process /\ NewChild \in Child /\ "gone" \in Flags /\ MaxProcesses \in Nat
          /\ NewSignal \in [flag: BOOLEAN, pend: BOOLEAN, blocked: BOOLEAN]
      BY SubprocessAssumption DEF FreeSlot, Process, Flags, NewChild, Child, States, NewSignal
    <2>2. \A i \in DOMAIN stack : stack[i].at \in Frames
      BY <1>1
    <2>3. stack \in Seq(FrameType)
      BY <1>1
    <2>4. slot \in [Slots -> Process] /\ proc \in [Pids -> Child]
          /\ tab \in [0..(MaxProcesses - 1) -> Slots \cup {NoSlot}]
          /\ sub \in [Buffers -> Slots \cup {NoSlot}] /\ told \in [Pids -> Flags]
      BY <1>1, <2>1
    <2>5. usr \in [Pids \cup {Jed} -> [flag: BOOLEAN, pend: BOOLEAN, blocked: BOOLEAN]]
      BY <1>1, <2>1
    <2>6. num \in 0..MaxProcesses
      BY <1>1, <2>1
    <2>7. flag \in Nat /\ bufs \subseteq Buffers
      BY <1>1
    <2>8. chld \in BOOLEAN /\ handling \in BOOLEAN
      BY <1>1
    <2> QED
      BY <2>2, <2>3, <2>4, <2>5, <2>6, <2>7, <2>8 DEF Types, TypeOK
  <1>3. Shape /\ Reporting /\ Opening
    <2>1. Len(stack) = 0
      BY <1>1
    <2> QED
      BY <1>1, <2>1 DEF Shape, Reporting, Opening
  <1>4. \A s \in Slots : slot[s] = FreeSlot /\ slot[s].flags = "gone" /\ slot[s].pid = 0
                         /\ slot[s].changed = 0 /\ ~slot[s].open /\ slot[s].buffer = None
    BY <1>1 DEF FreeSlot
  <1>5. \A p \in Pids : ChildSound(p)
    BY <1>1 DEF ChildSound, NewChild
  <1>6. ASSUME NEW s \in Slots
        PROVE  SlotSound(s)
    <2>1. [FreeSlot EXCEPT !.pid = 0] = FreeSlot
      BY FreeSlotPid
    <2> QED
      BY <1>4, <2>1 DEF SlotSound
  <1>7. TableSound
    <2>1. FreeSlots = Slots /\ Used = {}
      BY <1>4 DEF FreeSlots, Used
    <2>2. Selected = {}
      BY <1>1 DEF Selected
    <2>3. \A i \in DOMAIN tab : ~(i < num)
      BY <1>1
    <2> QED
      BY <1>1, <2>1, <2>2, <2>3, FS_EmptySet DEF TableSound
  <1>8. BuffersSound
    BY <1>1, <1>4 DEF BuffersSound, Attached, PointersLive
  <1> QED
    BY <1>2, <1>3, <1>5, <1>6, <1>7, <1>8 DEF SubInv

LEMMA SubInvNext ==
  ASSUME Careful, SubInv, [Next]_vars
  PROVE  SubInv'
  <1>1. CASE ChildStart
    BY <1>1, SigUsrToChildStep, WaitForParentStep, SuspendChildStep, TellParentStep DEF ChildStart
  <1>2. CASE Handler
    BY <1>2, HandlerStartsStep, HandlerEndsStep, SigUsrToJedStep, CollectStep DEF Handler
  <1>3. CASE Thread
    BY <1>3, SetPidStep, EnterProcessStep, TellChildStep, AwaitChildStep, SuspendStep, SetProcessStep,
       ReadChunkStep, ReadEndsStep, HookReturnsStep, StoreFlagStep, InputFirstStep, ScanStep,
       LoadChangedStep, StoreChangedStep, ReportStep, ReapStep DEF Thread
  <1>4. CASE Update
    BY <1>4, UpdateStep
  <1>5. CASE \E p \in Pids : Exit(p) \/ Stop(p) \/ Continue(p) \/ Write(p)
    BY <1>5, ExitStep, StopStep, ContinueStep, WriteStep
  <1>6. CASE \E b \in Buffers : Open(b) \/ KillBuffer(b)
    BY <1>6, OpenStep, KillBufferStep
  <1>7. CASE \E s \in Slots : CloseProcess(s) \/ SelectInput(s)
    BY <1>7, CloseProcessStep, SelectInputStep
  <1>8. CASE UNCHANGED vars
    <2>1. UNCHANGED <<slot, tab, num, flag, sub, bufs, stack, chld, handling, usr, proc, told>>
      BY <1>8 DEF vars
    <2>2. Types' /\ \A p \in Pids : ChildStep(p)
      BY <2>1, ChildStutters DEF SubInv, Types, TypeOK
    <2> QED
      BY <2>1, <2>2, QuietStays
  <1> QED
    BY <1>1, <1>2, <1>3, <1>4, <1>5, <1>6, <1>7, <1>8 DEF Next

(* Nothing but the end of jed_get_child_status takes a slot from a process.*)
LEMMA FreedByReap ==
  ASSUME SubInv, [Next]_vars, NEW s \in Slots, Freed(s)
  PROVE  Reap /\ stack # <<>> /\ stack[1].at = "reap" /\ stack[1].s = s
  <1>1. slot[s].pid # 0 /\ slot'[s].pid = 0 /\ slot[s] \in Process /\ SlotSound(s)
        /\ slot \in [Slots -> Process]
    BY SlotTypes DEF Freed, SubInv, Types, TypeOK
  <1>2. slot' # slot
    BY <1>1
  <1>3. ~ChildStart
    BY <1>2 DEF ChildStart, SigUsrToChild, WaitForParent, SuspendChild, TellParent
  <1>4. ~Handler
    <2>1. ~(HandlerStarts \/ HandlerEnds \/ SigUsrToJed)
      BY <1>2 DEF HandlerStarts, HandlerEnds, SigUsrToJed
    <2>2. ASSUME NEW t \in Slots, Collect(t)
          PROVE  FALSE
      <3>1. PICK n, fl : slot' = [slot EXCEPT ![t].changed = n, ![t].flags = fl]
        BY <2>2 DEF Collect
      <3>2. slot'[s].pid = slot[s].pid
        BY ONLY <1>1, <3>1 DEF Process
      <3> QED
        BY <1>1, <3>2
    <2> QED
      BY <2>1, <2>2 DEF Handler
  <1>5. ~(Update \/ \E p \in Pids : Exit(p) \/ Stop(p) \/ Continue(p) \/ Write(p))
    BY <1>2 DEF Update, Exit, Stop, Continue, Write
  <1>6. ASSUME NEW b \in Buffers, Open(b)
        PROVE  FALSE
    <2>1. stack = <<>> /\ \E t : slot' = [slot EXCEPT ![t] = FreeSlot]
      BY <1>6 DEF Open, Idle
    <2>2. slot[s].flags = "gone"
      <3> SUFFICES ASSUME slot[s].flags # "gone"
                   PROVE  FALSE
        OBVIOUS
      <3>1. slot' = [slot EXCEPT ![Min(FreeSlots)] = FreeSlot] /\ FreeSlots # {} /\ FreeSlots \subseteq Nat
        BY <1>6 DEF Open, FreeSlots, Slots
      <3>2. Min(FreeSlots) # s
        BY <3>1, NatMin DEF FreeSlots
      <3> QED
        BY <1>1, <3>1, <3>2
    <2> QED
      BY <1>1, <2>1, <2>2 DEF SlotSound
  <1>7. ASSUME NEW t \in Slots, CloseProcess(t) \/ SelectInput(t)
        PROVE  FALSE
    <2>1. CloseProcess(t)
      BY <1>2, <1>7 DEF SelectInput
    <2>2. \A r \in Process : [r EXCEPT !.open = FALSE].pid = r.pid
      BY DEF Process
    <2>3. slot'[s] = slot[s] \/ slot'[s] = [slot[s] EXCEPT !.open = FALSE]
      BY <1>1, <2>1 DEF CloseProcess
    <2> QED
      BY <1>1, <2>2, <2>3
  <1>8. ASSUME NEW b \in Buffers, KillBuffer(b)
        PROVE  FALSE
    <2>1. \A r \in Process : [r EXCEPT !.open = FALSE, !.buffer = None].pid = r.pid
      BY DEF Process
    <2>2. slot' = KillProcess(sub[b])
      BY <1>2, <1>8 DEF KillBuffer
    <2>3. slot'[s] = slot[s] \/ slot'[s] = [slot[s] EXCEPT !.open = FALSE, !.buffer = None]
      BY <1>1, <2>2 DEF KillProcess
    <2> QED
      BY <1>1, <2>1, <2>3
  <1>9. ~(\/ TellChild \/ AwaitChild \/ Suspend \/ ReadChunk \/ ReadEnds \/ HookReturns
          \/ StoreFlag \/ InputFirst \/ Scan \/ LoadChanged \/ Report)
    BY <1>2 DEF TellChild, AwaitChild, Suspend, ReadChunk, ReadEnds, HookReturns,
                StoreFlag, InputFirst, Scan, LoadChanged, Report
  <1>10. ASSUME SetPid
         PROVE  FALSE
    <2>1. stack # <<>> /\ stack[1].at = "pid" /\ Top = stack[1]
      BY <1>10, TopType DEF SetPid, At
    <2>2. stack[1].v # 0
      BY <2>1 DEF SubInv, Opening, OpenAts, Pids
    <2>3. PICK v, t : v # 0 /\ slot' = [slot EXCEPT ![t].pid = v]
      BY <1>10, <2>1, <2>2 DEF SetPid
    <2>4. slot'[s].pid # 0
      BY ONLY <1>1, <2>3 DEF Process
    <2> QED
      BY <1>1, <2>4
  <1>11. ASSUME EnterProcess
         PROVE  FALSE
    <2>1. PICK b, t : slot' = [slot EXCEPT ![t].flags = "running", ![t].open = TRUE, ![t].buffer = b]
      BY <1>11 DEF EnterProcess
    <2>2. slot'[s].pid = slot[s].pid
      BY ONLY <1>1, <2>1 DEF Process
    <2> QED
      BY <1>1, <2>2
  <1>12. ASSUME SetProcess
         PROVE  FALSE
    <2>1. PICK c, l, t : slot' = [slot EXCEPT ![t].calls = c, ![t].slang = l]
      BY <1>12 DEF SetProcess
    <2>2. slot'[s].pid = slot[s].pid
      BY ONLY <1>1, <2>1 DEF Process
    <2> QED
      BY <1>1, <2>2
  <1>13. ASSUME StoreChanged
         PROVE  FALSE
    <2>1. PICK n, t : slot' = [slot EXCEPT ![t].changed = n]
      BY <1>13 DEF StoreChanged
    <2>2. slot'[s].pid = slot[s].pid
      BY ONLY <1>1, <2>1 DEF Process
    <2> QED
      BY <1>1, <2>2
  <1>14. Reap
    BY <1>2, <1>3, <1>4, <1>5, <1>6, <1>7, <1>8, <1>9, <1>10, <1>11, <1>12, <1>13 DEF Next, Thread, vars
  <1>15. stack # <<>> /\ Top = stack[1] /\ stack[1].at = "reap"
    BY <1>14, TopType DEF Reap, At
  <1>16. slot' = slot \/ slot' = [slot EXCEPT ![stack[1].s] = FreeSlot]
    BY <1>14, <1>15 DEF Reap
  <1>17. s = stack[1].s
    BY <1>1, <1>2, <1>16
  <1> QED
    BY <1>14, <1>15, <1>17

LEMMA EndReportedStep ==
  ASSUME SubInv, [Next]_vars, NEW s \in Slots, Freed(s), Served(s)
  PROVE  /\ slot[s].calls => told[slot[s].pid] = "exited"
         /\ slot[s].open => proc[slot[s].pid].got = proc[slot[s].pid].out
  <1>1. stack # <<>> /\ stack[1].at = "reap" /\ stack[1].s = s
    BY FreedByReap
  <1>2. Drained(s) /\ EndTold(s)
    BY <1>1, ScanAlone DEF FrameSound, ReportAts, ScanAts
  <1>3. slot[s].pid \in Pids /\ SlotSound(s)
    BY SlotTypes DEF Freed
  <1>4. slot[s].open => proc[slot[s].pid].pipe = 0
                        /\ proc[slot[s].pid].out = proc[slot[s].pid].got + proc[slot[s].pid].pipe
    BY <1>2, <1>3 DEF Drained, Served, SlotSound
  <1>5. proc[slot[s].pid].got \in Nat
    BY <1>3, ChildTypes DEF Child
  <1> QED
    BY <1>2, <1>4, <1>5 DEF EndTold

(* TablesSound, the descriptors, the slots and the buffers' pointers in    *)
(* step while processes start, end, are closed and lose their buffers      *)
(* (open_process, get_process_status, jed_kill_process).                   *)
THEOREM SubprocessTablesSound ==
  ASSUME Careful
  PROVE  Spec => []TablesSound
  <1>1. ASSUME SubInv
        PROVE  TablesSound
    <2>1. ASSUME NEW p \in Pids, proc[p].st = "running" \/ proc[p].news
          PROVE  \E s \in Selected : slot[s].pid = p
      <3>1. Housed(p) \/ Awaited(p)
        BY <1>1, <2>1, ChildTypes DEF ChildSound, Unstarted
      <3>2. ~Awaited(p)
        <4>1. Awaited(p) => proc[p].st \in {"waiting", "doze", "suspended"}
          BY <1>1 DEF SubInv, Opening, OpenAts, Awaited
        <4>2. ChildSound(p)
          BY <1>1, ChildTypes
        <4> QED
          BY <2>1, <4>1, <4>2 DEF ChildSound
      <3>3. PICK s \in Slots : slot[s].flags # "gone" /\ slot[s].pid = p
        BY <3>1, <3>2 DEF Housed
      <3>4. s \in Selected
        BY <1>1, <3>3 DEF SubInv, TableSound, Used, FreeSlots
      <3> QED
        BY <3>3, <3>4
    <2> QED
      BY <1>1, <2>1 DEF SubInv, Types, TablesSound, TableMatches, TableSound, Used, BuffersSound
  <1> QED
    BY <1>1, SubInvInit, SubInvNext, PTL DEF Spec

(* EndReported, a process is cleared away only after its end was told and  *)
(* its output delivered (jed_get_child_status).                            *)
THEOREM SubprocessEndReported ==
  ASSUME Careful
  PROVE  Spec => EndReported
  <1>1. SubInv /\ [Next]_vars =>
          [\A s \in Slots : Freed(s) /\ Served(s) =>
             /\ slot[s].calls => told[slot[s].pid] = "exited"
             /\ slot[s].open => proc[slot[s].pid].got = proc[slot[s].pid].out]_vars
    BY EndReportedStep
  <1> QED
    BY <1>1, SubInvInit, SubInvNext, PTL DEF Spec, EndReported

=============================================================================
