-------------------------------- MODULE Undo --------------------------------
(***************************************************************************)
(* The undo ring of one buffer (undo.c) together with the editing          *)
(* primitives that write it (ins.c, line.c) and the commands that read it. *)
(*                                                                         *)
(* Undo_Type is the record `undo': a ring of MaxUndos objects, the oldest  *)
(* (first), the newest (last) and the next one that undo() will revert     *)
(* (current; None is the NULL pointer).  Pointers are indices of the ring. *)
(*                                                                         *)
(* The editor is single threaded, so a command runs to its end before the  *)
(* next one.  Its loops are cut at their iterations: `ins' holds the bytes *)
(* jed_insert_nbytes has still to insert, `nl' tells that jed_quick_insert *)
(* has put the newline of the current segment and not yet the bytes before *)
(* it, `del' counts the bytes jed_generic_del_nbytes has still to delete   *)
(* and `seg' those of the record_deletion call in progress.  `pc' is the   *)
(* place in undo(): "idle" outside it, "loop" at the head of its do loop,  *)
(* "apply" while the object's change is being made.  Undo_In_Progress is   *)
(* pc # "idle".                                                            *)
(***************************************************************************)
EXTENDS UndoText

CONSTANTS
  MaxUndos,   \* MAX_UNDOS: objects of the ring (10000)
  BufSize,    \* bytes an object can hold (8)
  MergeMax,   \* an insertion object longer than this is not extended (32)
  None,       \* the NULL pointer
  InitText,   \* the text the file was read with
  Inserts,    \* the texts commands insert
  Deletes,    \* the byte counts commands delete
  Commands,   \* the commands in use, a subset of AllCommands
  Denials,    \* may jed_prepare_for_modification refuse a change?
  MaxLen,     \* bound on the length of the text
  MaxCmds     \* bound on the number of commands that change something

AllCommands == {"move", "insert", "delete", "erase", "position", "undo",
                "save", "quit", "toggle_undo"}

ASSUME MaxUndosAssumption == MaxUndos \in Nat \ {0}
ASSUME BufSizeAssumption == BufSize \in Nat \ {0}
ASSUME MergeMaxAssumption == MergeMax \in Nat
ASSUME NoneAssumption == None \notin Nat
ASSUME TextAssumption ==
  /\ InitText \in Text
  /\ Inserts \subseteq Text
  /\ Deletes \subseteq Nat
ASSUME CommandsAssumption == Commands \subseteq AllCommands /\ Denials \in BOOLEAN

Slots == 0..(MaxUndos - 1)
Kinds == {"none", "CDELETE", "CINSERT", "NLINSERT", "POSITION"}

(* Undo_Object_Type.  type is split into its kind and its two flags; buf   *)
(* holds the misc bytes of a deletion.                                     *)
Buffer == {b \in Text : Len(b) <= BufSize}
UndoObject ==
  [kind: Kinds, bd: BOOLEAN, unch: BOOLEAN,
   line: Nat, point: Nat, misc: Nat, buf: Buffer]

(* An object whose type is 0: no other field of it is ever read.           *)
Blank == [kind |-> "none", bd |-> FALSE, unch |-> FALSE,
          line |-> 0, point |-> 0, misc |-> 0, buf |-> <<>>]

(* The ring and its three pointers.                                        *)
Undo_Type ==
  [ring: [Slots -> UndoObject], first: Slots, last: Slots,
   current: Slots \cup {None}]

VARIABLES
  text,      \* the bytes of the buffer
  pos,       \* the cursor: how many bytes are before it
  modified,  \* BUFFER_MODIFIED
  enabled,   \* UNDO_ENABLED
  undo,      \* the Undo_Type of the buffer
  unch,      \* Undo_Buf_Unch_Flag
  pc, ins, nl, del, seg,
  error,     \* the last message of undo()
  disk,      \* ghost: the text as last read from or written to the file
  was,       \* ghost: was[i] is the text before the change object i records
  trusted,   \* ghost: the ring has recorded, and undo() reverted, every change
  cmds       \* number of bounded commands so far

vars == <<text, pos, modified, enabled, undo, unch, pc, ins, nl, del, seg,
          error, disk, was, trusted, cmds>>

InProgress == pc # "idle"
Working == ins # <<>> \/ del > 0
Ready == pc = "idle" /\ ~Working
LastKind == undo.ring[undo.last].kind

NoUndo == [ring |-> [i \in Slots |-> Blank], first |-> 0, last |-> 0,
           current |-> None]

Init ==
  /\ text = InitText /\ pos = 0
  /\ modified = FALSE /\ enabled = TRUE
  /\ undo = NoUndo /\ unch = FALSE
  /\ pc = "idle" /\ ins = <<>> /\ nl = FALSE /\ del = 0 /\ seg = 0
  /\ error = "none"
  /\ disk = InitText
  /\ was = [i \in Slots |-> InitText]
  /\ trusted = TRUE
  /\ cmds = 0
-----------------------------------------------------------------------------
(* The ring.                                                               *)

Succ(i) == IF i = MaxUndos - 1 THEN 0 ELSE i + 1
(* Mutant: undo() does not step back.                                      *)
BugPred(i) == i

Pred(i) == IF i = 0 THEN MaxUndos - 1 ELSE i - 1

(* Mutant: First_Undo stays at the object that is overwritten.             *)
BugPrepareNext(u) ==
  LET l == Succ(u.last)
  IN [ring    |-> [u.ring EXCEPT ![l] = Blank],
      first   |-> u.first,
      last    |-> l,
      current |-> IF l = u.current THEN None ELSE u.current]

PrepareNext(u) ==
  LET l == Succ(u.last)
  IN [ring    |-> [u.ring EXCEPT ![l] = Blank],
      first   |-> IF l = u.first THEN Succ(u.first) ELSE u.first,
      last    |-> l,
      current |-> IF l = u.current THEN None ELSE u.current]

(* Every recorder but record_deletion leaves a used object for a new one.  *)
Fresh(u) == IF u.ring[u.last].kind = "none" THEN u ELSE PrepareNext(u)

(* Mutant: undo() follows the objects it appends.                          *)
BugSetCurrent(u) == [u EXCEPT !.current = u.last]

SetCurrent(u) == IF InProgress THEN u ELSE [u EXCEPT !.current = u.last]

Put(u, r) == [u EXCEPT !.ring[u.last] = r]

Object(kind, misc, flag) ==
  [kind |-> kind, bd |-> FALSE, unch |-> flag, line |-> LineOf(text, pos),
   point |-> PointOf(text, pos), misc |-> misc, buf |-> <<>>]

(* Mutant: an insertion on the same line extends the last object wherever  *)
(* on the line it is.                                                      *)
BugRecordInsertion(n, flag) ==
  LET u == IF flag THEN Fresh(undo) ELSE undo
      r == u.ring[u.last]
      joins == /\ r.kind = "CINSERT"
               /\ r.line = LineOf(text, pos)
               /\ r.misc <= MergeMax
  IN IF joins
     THEN SetCurrent(Put(u, [r EXCEPT !.misc = @ + n]))
     ELSE LET v == Fresh(u) IN SetCurrent(Put(v, Object("CINSERT", n, flag)))

(* record_insertion of n bytes at the cursor, flag being the value of      *)
(* Undo_Buf_Unch_Flag.                                                     *)
RecordInsertion(n, flag) ==
  LET u == IF flag THEN Fresh(undo) ELSE undo
      r == u.ring[u.last]
      joins == /\ r.kind = "CINSERT"
               /\ r.line = LineOf(text, pos)
               /\ r.point + r.misc = PointOf(text, pos)
               /\ r.misc <= MergeMax
  IN IF joins
     THEN SetCurrent(Put(u, [r EXCEPT !.misc = @ + n]))
     ELSE LET v == Fresh(u) IN SetCurrent(Put(v, Object("CINSERT", n, flag)))

RecordNewline(flag) ==
  LET u == Fresh(undo) IN SetCurrent(Put(u, Object("NLINSERT", 0, flag)))

(* One turn of record_deletion's loop: how many bytes go into the last     *)
(* object, and the ring it leaves.                                         *)
Joins ==
  LET r == undo.ring[undo.last]
  IN \/ r.kind = "none"
     \/ /\ r.kind = "CDELETE"
        /\ r.line = LineOf(text, pos)
        /\ r.point = PointOf(text, pos)

DeletionFits ==
  LET room == BufSize - Len(undo.ring[undo.last].buf)
  IN IF Joins THEN IF seg <= room THEN seg ELSE room ELSE 0

Filled(n) ==
  LET r == undo.ring[undo.last]
      bytes == r.buf \o BytesAt(text, pos, n)
  IN [kind |-> "CDELETE", bd |-> r.bd, unch |-> r.unch \/ unch,
      line |-> LineOf(text, pos), point |-> PointOf(text, pos),
      misc |-> Len(bytes), buf |-> bytes]

RecordDeletion(n) ==
  LET u == IF Joins THEN Put(undo, Filled(n)) ELSE undo
  IN IF n = seg THEN SetCurrent(u) ELSE PrepareNext(u)

(* The ghost: a new object starts from text t.                             *)
Snapshot(t) ==
  was' = IF undo'.last = undo.last THEN was
         ELSE [was EXCEPT ![undo'.last] = t]
-----------------------------------------------------------------------------
(* The editing primitives.  jed_update_marks notes whether the buffer was  *)
(* modified and marks it so.                                               *)

UpdateMarks ==
  /\ unch' = IF enabled THEN ~modified ELSE unch
  /\ modified' = TRUE

(* jed_quick_insert puts the newline that ends a segment first, goes back  *)
(* over it, puts the bytes before it and goes down.  Splitting the line    *)
(* and storing the newline byte update the marks once each, so the second  *)
(* update clears the flag that the record has just used.                   *)
InsertNewline ==
  /\ ins # <<>> /\ ~nl
  /\ Len(Run(ins)) < Len(ins)
  /\ unch' = IF enabled THEN FALSE ELSE unch
  /\ modified' = TRUE
  /\ text' = InsertAt(text, pos, <<NL>>)
  /\ undo' = IF enabled THEN RecordNewline(~modified) ELSE undo
  /\ trusted' = (trusted /\ enabled)
  /\ Snapshot(text)
  /\ IF Run(ins) = <<>>
     THEN ins' = Tail(ins) /\ pos' = pos + 1 /\ UNCHANGED nl
     ELSE nl' = TRUE /\ UNCHANGED <<ins, pos>>
  /\ UNCHANGED <<enabled, pc, del, seg, error, disk, cmds>>

InsertRun ==
  LET s == Run(ins)
      skip == Len(s) + (IF nl THEN 1 ELSE 0)
  IN /\ ins # <<>>
     /\ nl \/ Len(s) = Len(ins)
     /\ UpdateMarks
     /\ text' = InsertAt(text, pos, s)
     /\ undo' = IF enabled THEN RecordInsertion(Len(s), unch') ELSE undo
     /\ trusted' = (trusted /\ enabled)
     /\ Snapshot(text)
     /\ pos' = pos + skip
     /\ ins' = BytesAt(ins, skip, Len(ins) - skip)
     /\ nl' = FALSE
     /\ UNCHANGED <<enabled, pc, del, seg, error, disk, cmds>>

(* Mutant: the count is not cut at the end of the line.                    *)
BugDeleteSegment ==
  /\ del > 0 /\ seg = 0
  /\ seg' = del /\ UpdateMarks
  /\ UNCHANGED <<text, pos, enabled, undo, pc, ins, nl, del, error, disk, was, cmds, trusted>>

(* jed_del_nbytes up to the end of the line, or jed_del_newline at it, for *)
(* jed_generic_del_nbytes, which gives up at the end of the buffer.        *)
DeleteSegment ==
  /\ del > 0 /\ seg = 0
  /\ IF pos = Len(text)
     THEN del' = 0 /\ UNCHANGED <<seg, unch, modified>>
     ELSE LET n == ToEol(text, pos)
          IN /\ seg' = IF n = 0 THEN 1 ELSE IF n < del THEN n ELSE del
             /\ UpdateMarks
             /\ UNCHANGED del
  /\ UNCHANGED <<text, pos, enabled, undo, pc, ins, nl, error, disk, was, cmds, trusted>>

DeleteBytes ==
  LET n == IF enabled THEN DeletionFits ELSE seg
  IN /\ seg > 0
     /\ text' = RemoveAt(text, pos, n)
     /\ undo' = IF enabled THEN RecordDeletion(n) ELSE undo
     /\ unch' = IF enabled /\ Joins THEN FALSE ELSE unch
     /\ trusted' = (trusted /\ enabled)
     /\ Snapshot(text')
     /\ seg' = seg - n
     /\ del' = del - n
     /\ UNCHANGED <<pos, modified, enabled, pc, ins, nl, error, disk, cmds>>

(* jed_prepare_for_modification asks before the first change of a buffer   *)
(* whose file has changed on disk or is locked by another process; the     *)
(* answer may be no.  undo() ignores the -1 this yields.                   *)
Refused ==
  /\ Denials /\ ~modified
  /\ Working /\ seg = 0 /\ ~nl
  /\ ins' = <<>> /\ del' = 0
  /\ trusted' = (trusted /\ ~InProgress)
  /\ UNCHANGED <<text, pos, modified, enabled, undo, unch, pc, nl, seg,
                 error, disk, was, cmds>>

Work == InsertNewline \/ InsertRun \/ DeleteSegment \/ DeleteBytes \/ Refused
-----------------------------------------------------------------------------
(* The commands.                                                           *)

Command(c) == Ready /\ c \in Commands

Counted == cmds < MaxCmds /\ cmds' = cmds + 1

(* Any cursor motion.                                                      *)
Move ==
  /\ Command("move")
  /\ pos' \in 0..Len(text)
  /\ UNCHANGED <<text, modified, enabled, undo, unch, pc, ins, nl, del, seg,
                 error, disk, was, cmds, trusted>>

(* jed_insert_nbytes.                                                      *)
Insert ==
  /\ Command("insert") /\ Counted
  /\ ins' \in Inserts
  /\ Len(text) + Len(ins') <= MaxLen
  /\ UNCHANGED <<text, pos, modified, enabled, undo, unch, pc, nl, del, seg,
                 error, disk, was, trusted>>

(* jed_generic_del_nbytes.                                                 *)
Delete ==
  /\ Command("delete") /\ Counted
  /\ del' \in Deletes
  /\ UNCHANGED <<text, pos, modified, enabled, undo, unch, pc, ins, nl, seg,
                 error, disk, was, trusted>>

(* erase_buffer updates the marks once for every line it frees and once    *)
(* for the bytes of the first line, and drops the ring.                    *)
EraseBuffer ==
  /\ Command("erase") /\ Counted
  /\ text' = <<>> /\ pos' = 0
  /\ modified' = (modified \/ text # <<>>)
  /\ unch' = IF ~enabled \/ text = <<>> THEN unch
             ELSE ~modified /\ MaxLineNum(text) = 1
  /\ undo' = NoUndo
  /\ trusted' = TRUE
  /\ was' = [i \in Slots |-> <<>>]
  /\ UNCHANGED <<enabled, pc, ins, nl, del, seg, error, disk>>

(* The intrinsic set_undo_position.                                        *)
UndoRecordPosition ==
  /\ Command("position") /\ Counted
  /\ enabled
  /\ undo' = SetCurrent(Put(Fresh(undo), Object("POSITION", 0, unch)))
  /\ Snapshot(text)
  /\ UNCHANGED <<text, pos, modified, enabled, unch, pc, ins, nl, del, seg,
                 error, disk, trusted>>

(* do_jed marks the boundary before it reads the next key.                 *)
MarkUndoBoundary ==
  /\ Ready /\ enabled
  /\ LastKind # "none"
  /\ undo' = [undo EXCEPT !.ring[undo.last].bd = TRUE]
  /\ UNCHANGED <<text, pos, modified, enabled, unch, pc, ins, nl, del, seg,
                 error, disk, was, cmds, trusted>>

(* kbd_quit: from here on undo() reverts what it has done.                 *)
Quit ==
  /\ Command("quit")
  /\ undo' = SetCurrent(undo)
  /\ UNCHANGED <<text, pos, modified, enabled, unch, pc, ins, nl, del, seg,
                 error, disk, was, cmds, trusted>>

(* A successful save: write_file_with_backup clears BUFFER_MODIFIED, then  *)
(* update_undo_unchanged.                                                  *)
Save ==
  /\ Command("save")
  /\ disk' = text
  /\ modified' = FALSE
  /\ undo' = IF ~enabled THEN undo
             ELSE [undo EXCEPT !.ring = [i \in Slots |-> [@[i] EXCEPT !.unch = FALSE]],
                               !.current = undo.last]
  /\ UNCHANGED <<text, pos, enabled, unch, pc, ins, nl, del, seg, error, was,
                 cmds, trusted>>

(* The S-Lang command toggle_undo.                                         *)
ToggleUndo ==
  /\ Command("toggle_undo") /\ Counted
  /\ enabled' = ~enabled
  /\ UNCHANGED <<text, pos, modified, undo, unch, pc, ins, nl, del, seg,
                 error, disk, was, trusted>>
-----------------------------------------------------------------------------
(* undo().                                                                 *)

MoreUndoInfo == undo.current # None /\ undo.ring[undo.current].kind # "none"

UndoBegin ==
  /\ Command("undo") /\ Counted
  /\ enabled /\ MoreUndoInfo
  /\ pc' = "loop" /\ error' = "none"
  /\ UNCHANGED <<text, pos, modified, enabled, undo, unch, ins, nl, del, seg,
                 disk, was, trusted>>

(* Mutant: the end of the buffer counts as outside.                        *)
BugOutside(r) == r.line >= MaxLineNum(text)

Outside(r) ==
  \/ r.line > MaxLineNum(text)
  \/ r.line = MaxLineNum(text) /\ r.kind = "NLINSERT"

UndoStops(msg) == pc' = "idle" /\ error' = msg

(* The head of the loop: find the place of the change and start to revert  *)
(* it.  jed_del_nbytes stops at the end of the line; jed_del_wchar deletes *)
(* one character unless the buffer ends here.                              *)
UndoObjectAt ==
  LET r == undo.ring[undo.current]
      p == LineStart(text, r.line) + r.point
  IN /\ pc = "loop"
     /\ IF Outside(r)
        THEN UndoStops("outside") /\ UNCHANGED <<pos, ins, del>>
        ELSE IF r.point > LineLen(text, r.line)
        THEN UndoStops("internal") /\ pos' = LineStart(text, r.line)
             /\ UNCHANGED <<ins, del>>
        ELSE /\ pc' = "apply" /\ UNCHANGED error
             /\ pos' = p
             /\ ins' = IF r.kind = "CDELETE" THEN r.buf ELSE <<>>
             /\ del' = CASE r.kind = "CINSERT" ->
                              IF r.misc < ToEol(text, p) THEN r.misc ELSE ToEol(text, p)
                         [] r.kind = "NLINSERT" -> IF p = Len(text) THEN 0 ELSE 1
                         [] OTHER -> 0
     /\ UNCHANGED <<text, modified, enabled, undo, unch, nl, seg, disk, was, cmds, trusted>>

(* The tail of the loop: the recorded objects may have overwritten the one *)
(* just reverted.                                                          *)
UndoNext ==
  LET r == undo.ring[undo.current]
      prev == Pred(undo.current)
  IN /\ pc = "apply" /\ ~Working
     /\ IF undo.current = None
        THEN pc' = "idle" /\ UNCHANGED <<undo, modified>>
        ELSE /\ modified' = (modified /\ ~r.unch)
             /\ undo' = [undo EXCEPT !.current =
                           IF @ = undo.first THEN None ELSE prev]
             /\ pc' = IF \/ undo.current = undo.first
                         \/ undo.ring[prev].bd
                         \/ undo.ring[prev].kind = "none"
                      THEN "idle" ELSE "loop"
     /\ UNCHANGED <<text, pos, enabled, unch, ins, nl, del, seg, error, disk,
                    was, cmds, trusted>>
-----------------------------------------------------------------------------
Edit == Move \/ Insert \/ Delete \/ EraseBuffer \/ UndoRecordPosition
Control == MarkUndoBoundary \/ Quit \/ Save \/ ToggleUndo
UndoStep == UndoObjectAt \/ UndoNext

Next == Work \/ Edit \/ Control \/ UndoBegin \/ UndoStep

(* A command that has begun runs on: nothing else can use the processor.   *)
Spec == Init /\ [][Next]_vars /\ WF_vars(Work \/ UndoStep)
-----------------------------------------------------------------------------
(* Types.  No object holds more bytes than its buffer, and the bytes that  *)
(* record_deletion has still to read are in the text.  A command inserts   *)
(* or deletes, not both at once, and has nothing left to do when undo()    *)
(* looks at an object; the newline put ahead of its segment is there.      *)
TypeOK ==
  /\ text \in Text
  /\ pos \in 0..Len(text)
  /\ modified \in BOOLEAN /\ enabled \in BOOLEAN /\ unch \in BOOLEAN
  /\ undo \in Undo_Type
  /\ pc \in {"idle", "loop", "apply"}
  /\ ins \in Text /\ nl \in BOOLEAN
  /\ del \in Nat /\ seg \in 0..del /\ pos + seg <= Len(text)
  /\ ins = <<>> \/ del = 0
  /\ pc = "loop" => ~Working
  /\ nl => Len(Run(ins)) < Len(ins) /\ pos < Len(text)
  /\ error \in {"none", "outside", "internal"}
  /\ disk \in Text
  /\ was \in [Slots -> Text] /\ trusted \in BOOLEAN
  /\ cmds \in Nat

(* The objects from First_Undo to Last_Undo, around the end of the ring.   *)
InWindow(u, i) ==
  IF u.first <= u.last THEN u.first <= i /\ i <= u.last
  ELSE u.first <= i \/ i <= u.last

RingSound(u) ==
  /\ \A i \in Slots : InWindow(u, i) /\ i # u.last => u.ring[i].kind # "none"
  /\ u.current # None => InWindow(u, u.current)
  /\ \A i \in Slots :
       u.ring[i].kind = "CDELETE" => Len(u.ring[i].buf) = u.ring[i].misc

(* However often the ring wraps, in the middle of a deletion or of undo()  *)
(* itself, the objects from First_Undo to Last_Undo are all in use (the    *)
(* last may be blank), Current_Undo is NULL or one of them, the count of a *)
(* deletion is that of its bytes, and undo() never looks at a NULL or a    *)
(* blank object (undo.c: prepare_next_undo and the end of undo's loop).    *)
RingOK ==
  /\ RingSound(undo)
  /\ pc = "loop" => MoreUndoInfo

(* What undo.c relies on when it takes an object for what it is: the above *)
(* and that no object overruns its buffer, and no deletion the text.       *)
UndoSound == TypeOK /\ RingOK

(* The text after the change object i records: what the next one found.    *)
After(i) == IF i = undo.last THEN text ELSE was[Succ(i)]

(* The text that reverting object r makes of t, if r fits t.               *)
Reverts(r, t, u) ==
  LET p == LineStart(t, r.line) + r.point
  IN /\ r.line <= MaxLineNum(t)
     /\ LineOf(t, p) = r.line
     /\ CASE r.kind = "CDELETE" -> u = InsertAt(t, p, r.buf)
          [] r.kind = "CINSERT" -> r.misc <= ToEol(t, p) /\ u = RemoveAt(t, p, r.misc)
          [] r.kind = "NLINSERT" -> t[p + 1] = NL /\ u = RemoveAt(t, p, 1)
          [] r.kind = "POSITION" -> u = t

(* Every object in the window, merged from several changes or not, cut     *)
(* from one long deletion or not, takes the text after its changes back to *)
(* the text before the first of them: the line, point, count and bytes it  *)
(* holds are those of the text it will be applied to (undo.c: the merging  *)
(* conditions of record_insertion and record_deletion).  It holds as long  *)
(* as recording is on and nobody refuses a change of undo() itself, and    *)
(* again once the buffer has been erased.                                  *)
RecordsInvert ==
  trusted =>
    \A i \in Slots :
      InWindow(undo, i) /\ undo.ring[i].kind # "none" =>
        Reverts(undo.ring[i], After(i), was[i])

(* undo() walks back through the history of the buffer: whenever it is     *)
(* about to revert an object the text is the one that object left, also    *)
(* after edits that follow an undo, after redo and after the ring has      *)
(* wrapped; and once reverted it is the text from before.  So no object    *)
(* points past the end of its line, nor outside a buffer that is not       *)
(* narrowed (undo.c: undo and the two checks at the head of its loop).     *)
UndoRetracesHistory ==
  trusted =>
    LET r == undo.ring[undo.current]
    IN /\ pc = "loop" => ~Outside(r) /\ r.point <= LineLen(text, r.line)
       /\ undo.current # None /\ ~Working =>
            text = IF pc = "apply" THEN was[undo.current] ELSE After(undo.current)

(* BUFFER_MODIFIED is clear only when the text is the file's: saving and   *)
(* undoing all changes are the ways to clear it (doc/txt/filelock.txt).    *)
(* It does not hold: a deletion that joins an object made before the last  *)
(* save brings the flag of that save with it (undo.c:100).                 *)
UnmodifiedMeansSaved == Ready /\ ~modified => text = disk

(* undo() ends, though reverting an object appends new ones to the ring it *)
(* walks (undo.c: the do loop of undo).                                    *)
UndoTerminates == pc # "idle" ~> pc = "idle"
=============================================================================
