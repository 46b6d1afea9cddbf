------------------------------- MODULE Display -------------------------------
(***************************************************************************)
(* The screen of JED as a cache of the text (screen.c).                    *)
(*                                                                         *)
(* JScreen has an entry for every row: the address of the line drawn there *)
(* and whether it has changed since.  An update walks the windows and      *)
(* draws the rows whose entry differs from the line that belongs there or  *)
(* is marked.  The address of a freed line is used again for a new one.    *)
(* While Suspend_Screen_Update is set nothing is marked, and the next      *)
(* update has to draw everything.  An update gives up as soon as there is  *)
(* input.                                                                  *)
(*                                                                         *)
(* A function of the code is an operator from an editor to an editor.      *)
(* Between two keys an S-Lang function may call any number of them.  The   *)
(* minibuffer, the menu bar, hidden lines, the highlighted region and the  *)
(* [EOB] mark are left out; No_Screen_Update is never set by any code.     *)
(***************************************************************************)
EXTENDS Naturals, Sequences, FiniteSets, FiniteSetsExt, SequencesExt

CONSTANTS
  Buffers,      \* the buffers a user works with
  Lines,        \* addresses of lines
  None,         \* NULL
  Heights,      \* the heights a screen may have
  MaxSteps,     \* bound on the steps of commands between two waits for a key
  MaxText,      \* bound on the lines of a buffer
  MaxWindows,   \* bound on the windows (the model has at most two)
  WantsHScroll, \* WANTS: does the current line scroll sideways (Wants_HScroll > 0)?
  Lapses        \* what users do that the code is not prepared for

(* "typeahead": type on while a command that has suspended the updates is  *)
(* still running.  "redraw": let an S-Lang function call redraw after it   *)
(* has moved the cursor out of a window that is not marked as touched      *)
(* (nothing is while updates are suspended).                               *)
AllLapses == {"typeahead", "redraw"}

Blank == "blank"  \* on the screen: an empty row
Old == "old"      \* on the screen: what no line's text is any more

ASSUME DisplayAssumption ==
  /\ {None, Blank, Old} \cap Lines = {} /\ Lines # {} /\ Buffers # {}
  /\ Heights \subseteq Nat /\ \A h \in Heights : h >= 5   \* jed_get_screen_size
  /\ {MaxText, MaxSteps} \subseteq Nat \ {0} /\ MaxWindows \in {1, 2}
  /\ WantsHScroll \in BOOLEAN /\ Lapses \subseteq AllLapses

Ids == 1..MaxWindows
Window == [id: Ids, sy: Nat, rows: Nat, buf: Buffers, beg: Lines, mark: Lines,
           trashed: BOOLEAN]
(* One JScreen entry, and (shown) what the terminal shows in that row.     *)
Row == [line: Lines \cup {None}, mod: BOOLEAN, shown: Lines \cup {Blank, Old}]

VARIABLES
  ed,    \* the editor
  pc,    \* what it does: "idle" (waiting for a key), "command" (running one),
         \* "callback" (running an S-Lang function of a process, while it waits)
  home,  \* the buffer to go back to at the end of the callback
  plain, \* ghost: the command has only changed or moved along its line
  steps  \* the steps of commands since JED last waited, for their bound

vars == <<ed, pc, home, plain, steps>>

(* ed.ring: JWindow and the windows after it.  text[b]: the lines of b,    *)
(* none if there is no such buffer.  at[b]: its current line, CLine if b   *)
(* is cbuf.  motion: Cursor_Motion is not 0.  last: the line that set_hscroll *)
(* marked when it was called last.  astray (ghost): has a window been      *)
(* drawn without the line of the cursor?                                   *)
Editor(h) ==
  [ring: Seq(Window), height: Heights, screen: [0..h - 1 -> Row],
   text: [Buffers -> Seq(Lines)], cbuf: Buffers, at: [Buffers -> Lines \cup {None}],
   suspend: BOOLEAN, motion: BOOLEAN, last: Lines \cup {None}, astray: BOOLEAN]

JWindow(e) == e.ring[1]
CLine(e) == e.at[e.cbuf]
Text(e) == e.text[e.cbuf]
Live(e) == {b \in Buffers : e.text[b] # <<>>}
LinesOf(e, b) == {e.text[b][i] : i \in DOMAIN e.text[b]}
Place(t, l) == CHOOSE i \in DOMAIN t : t[i] = l
FreeLines(e) == Lines \ UNION {LinesOf(e, b) : b \in Buffers}
FreeId(e) == Min(Ids \ {e.ring[i].id : i \in DOMAIN e.ring})
RowsOf(w) == w.sy .. (w.sy + w.rows - 1)
-----------------------------------------------------------------------------
(* Marking what has to be drawn.                                           *)

Marked(e, rows) ==
  [e EXCEPT !.screen = [r \in DOMAIN @ |-> IF r \in rows THEN [@[r] EXCEPT !.mod = TRUE] ELSE @[r]]]

Forgotten(e, rows) ==
  [e EXCEPT !.screen = [r \in DOMAIN @ |-> IF r \in rows THEN [@[r] EXCEPT !.line = None] ELSE @[r]]]

Trashed(e, ks) ==
  [e EXCEPT !.ring = [k \in DOMAIN @ |-> IF k \in ks THEN [@[k] EXCEPT !.trashed = TRUE] ELSE @[k]]]

TouchWindow(e) == IF e.suspend THEN e ELSE Trashed(Marked(e, RowsOf(JWindow(e))), {1})

WindowRows(e) == UNION {RowsOf(e.ring[k]) : k \in DOMAIN e.ring}

TouchScreen(e) ==
  IF e.suspend THEN e ELSE Trashed(Marked(e, WindowRows(e)), DOMAIN e.ring)

(* touch_window_hard, for each of the windows ks.                          *)
TouchWindowHard(e, ks) ==
  LET rows == UNION {RowsOf(e.ring[k]) : k \in ks}
  IN Trashed(Forgotten(Marked(e, rows), rows), ks)

(* The windows that show b.                                                *)
Showing(e, b) == {k \in DOMAIN e.ring : e.ring[k].buf = b}

(* touch_screen_for_buffer.                                                *)
TouchScreenForBuffer(e, b) == TouchWindowHard(e, Showing(e, b))

(* The rows of the windows that have the address l.                        *)
RowsWith(e, l) == {r \in WindowRows(e) : e.screen[r].line = l}

(* Mutant: only the window in use is searched for the line.                *)
BugRegisterChange(e, l) ==
  IF e.suspend THEN e
  ELSE Trashed(Marked(e, {r \in RowsOf(JWindow(e)) : e.screen[r].line = l}), {1})

(* register_change, as jed_update_marks calls it for l, unless updates are *)
(* suspended: the line changed,                                            *)
RegisterChange(e, l) ==
  LET at == RowsWith(e, l)
  IN IF e.suspend THEN e
     ELSE Trashed(Marked(e, at), {k \in DOMAIN e.ring : k = 1 \/ RowsOf(e.ring[k]) \cap at # {}})

(* and if l is deleted.                                                    *)
RegisterDeletion(e, l) ==
  IF e.suspend THEN e ELSE Forgotten(RegisterChange(e, l), RowsWith(e, l))

(* The lines ls are no longer what the terminal shows for them.            *)
Outdated(e, ls) ==
  [e EXCEPT !.screen = [r \in DOMAIN @ |->
    IF @[r].shown \in ls THEN [@[r] EXCEPT !.shown = Old] ELSE @[r]]]
-----------------------------------------------------------------------------
(* The edits, each of the current buffer.                                  *)

(* CINSERT and CDELETE.                                                    *)
Changed(e, l) == RegisterChange(Outdated([e EXCEPT !.motion = FALSE], {l}), l)

(* Mutant: only the windows' cursors, not the lines they begin with.        *)
BugMarksMoved(e, ls, l) ==
  [e EXCEPT !.ring = [k \in DOMAIN @ |->
    IF @[k].buf = e.cbuf /\ @[k].mark \in ls THEN [@[k] EXCEPT !.mark = l] ELSE @[k]]]

Moved(w, ls, l) == [w EXCEPT !.mark = IF @ \in ls THEN l ELSE @, !.beg = IF @ \in ls THEN l ELSE @]

(* The marks at lines of ls go to l, of the windows that show the buffer.  *)
MarksMoved(e, ls, l) ==
  [e EXCEPT !.ring = [k \in DOMAIN @ |-> IF @[k].buf = e.cbuf THEN Moved(@[k], ls, l) ELSE @[k]]]

(* split_line, for a window: its marks on the line that is split go to the *)
(* new one if they are behind the point (with the names in marks, begs).   *)
Carried(e, w, new, marks, begs) ==
  LET Behind(m, ids) == w.buf = e.cbuf /\ m = CLine(e) /\ w.id \in ids
  IN [w EXCEPT !.mark = IF Behind(@, marks) THEN new ELSE @,
               !.beg = IF Behind(@, begs) THEN new ELSE @]

(* jed_insert_newline: split_line puts the text after the point on a new   *)
(* line; then the newline.                                                 *)
InsertNewline(e, new, marks, begs) ==
  LET l == CLine(e)
      i == Place(Text(e), l)
      f == [e EXCEPT !.text[e.cbuf] = InsertAt(@, i + 1, new),
                     !.at[e.cbuf] = new,
                     !.ring = [k \in DOMAIN @ |-> Carried(e, @[k], new, marks, begs)]]
  IN Changed(f, l)

(* jed_del_newline and splice_line: the next line is freed.                *)
DelNewline(e) ==
  LET l == CLine(e)
      i == Place(Text(e), l)
      n == Text(e)[i + 1]
      f == RegisterDeletion(MarksMoved(Changed(e, l), {n}, l), n)
  IN Outdated([f EXCEPT !.text[e.cbuf] = RemoveAt(@, i + 1)], {n})

(* Mutant: the windows that show the buffer are not touched in spite of    *)
(* Suspend_Screen_Update, which is not set either.                         *)
BugEraseBuffer(e) ==
  LET first == Text(e)[1]
      f == MarksMoved([e EXCEPT !.motion = FALSE], LinesOf(e, e.cbuf), first)
  IN Outdated([f EXCEPT !.text[e.cbuf] = <<first>>, !.at[e.cbuf] = first], LinesOf(e, e.cbuf))

(* erase_buffer: all lines but the first are freed.                        *)
EraseBuffer(e) ==
  LET first == Text(e)[1]
      f == MarksMoved([e EXCEPT !.suspend = TRUE, !.motion = FALSE], LinesOf(e, e.cbuf), first)
      g == [f EXCEPT !.text[e.cbuf] = <<first>>, !.at[e.cbuf] = first]
  IN TouchScreenForBuffer(Outdated(g, LinesOf(e, e.cbuf)), e.cbuf)
-----------------------------------------------------------------------------
(* Windows and buffers (window.c, ledit.c).                                *)

(* switch_to_buffer, of a buffer that is made with the line new if need be *)
SetBuffer(e, b, new) ==
  IF b \in Live(e) THEN [e EXCEPT !.cbuf = b]
  ELSE [e EXCEPT !.cbuf = b, !.text[b] = <<new>>, !.at[b] = new]

WindowBuffer(e, b) ==
  [TouchWindow(e) EXCEPT !.ring[1] =
    [@ EXCEPT !.buf = b, !.beg = e.at[b], !.mark = e.at[b], !.trashed = TRUE]]

(* kill_buffer_cmd, when the other one takes b's place in the windows,     *)
(* whose rows window_buffer marks once more.                               *)
KillBufferCmd(e, b, other) ==
  LET f == [TouchScreenForBuffer(e, b) EXCEPT !.ring = [k \in DOMAIN @ |->
             IF @[k].buf = b THEN [@[k] EXCEPT !.buf = other, !.beg = e.at[other], !.mark = e.at[other]]
             ELSE @[k]]]
  IN Outdated([f EXCEPT !.text[b] = <<>>, !.at[b] = None,
                        !.cbuf = IF @ = b THEN other ELSE @], LinesOf(e, b))

(* The next window becomes JWindow.                                        *)
NextWindow(e) ==
  LET this == JWindow(e)
  IN [e EXCEPT !.ring = Append(Tail(@), [this EXCEPT !.mark = e.at[this.buf]])]

OtherWindow(e) ==
  LET f == NextWindow(e)
      w == JWindow(f)
  IN IF Len(e.ring) = 1 THEN [f EXCEPT !.cbuf = w.buf]
     ELSE [f EXCEPT !.cbuf = w.buf, !.at[w.buf] = w.mark]

(* Is JWindow the window with this row?  (The loop of split_window counts  *)
(* rows from 1.)                                                           *)
HasRow(e, r) == JWindow(e).buf = e.cbuf /\ r \in RowsOf(JWindow(e))

SplitWindow(e) ==
  LET w == JWindow(e)
      n == w.rows \div 2
      l == e.at[w.buf]
      new == [id |-> FreeId(e), sy |-> w.sy + n + 1, rows |-> w.rows - n - 1, buf |-> w.buf,
              beg |-> l, mark |-> l, trashed |-> FALSE]
      f == [e EXCEPT !.ring = <<[w EXCEPT !.rows = n, !.beg = l], new>> \o Tail(@), !.cbuf = w.buf]
      g == TouchWindow(OtherWindow(f))
      found == {r \in w.sy .. (e.height - 3) : g.screen[r].line = CLine(g)}
  IN IF found = {} \/ HasRow(g, Min(found)) THEN g
     ELSE LET h == OtherWindow(g)
          IN IF Len(g.ring) = 1 \/ HasRow(h, Min(found)) THEN h ELSE OtherWindow(h)

OneWindow(e) ==
  LET f == TouchWindowHard(e, DOMAIN e.ring \ Showing(e, JWindow(e).buf))
  IN TouchWindow([f EXCEPT !.ring = <<[Head(@) EXCEPT !.sy = 0, !.rows = e.height - 2]>>])

(* delete_window, when there are two.                                      *)
DeleteWindow(e) ==
  LET this == JWindow(e)
      f == OtherWindow(e)
      w == JWindow(f)
  IN TouchWindow([f EXCEPT !.ring = <<[w EXCEPT !.rows = @ + this.rows + 1,
                                                !.sy = IF this.sy < @ THEN this.sy ELSE @]>>])
-----------------------------------------------------------------------------
(* Which line is drawn first.                                              *)

(* jed_find_top_to_recenter.                                               *)
FindTopToRecenter(e) ==
  LET i == Place(Text(e), CLine(e))
      n == JWindow(e).rows \div 2
  IN Text(e)[IF i > n THEN i - n ELSE 1]

(* Mutant: an entry of the screen is taken for the top although the        *)
(* current line is not below it.                                           *)
BugFindTop(e) ==
  LET top == e.screen[JWindow(e).sy].line
  IN IF top \in LinesOf(e, e.cbuf) THEN top ELSE FindTopToRecenter(e)

(* find_top: the entry of the first row may be the address of a line that  *)
(* was freed, or that belongs to another place or buffer now.              *)
FindTop(e) ==
  LET t == Text(e)
      w == JWindow(e)
      i == Place(t, CLine(e))
      top == e.screen[w.sy].line
      bottom == e.screen[w.sy + w.rows - 1].line
      above == {j \in DOMAIN t : j <= i /\ j > i - w.rows /\ t[j] = top}
  IN IF w.rows <= 1 THEN CLine(e)
     ELSE IF top # None /\ above # {} THEN top
     ELSE IF top # None /\ i < Len(t) /\ t[i + 1] = top THEN CLine(e)
     ELSE IF top # None /\ i > 1 /\ t[i - 1] = bottom /\ i >= w.rows THEN t[i - w.rows + 1]
     ELSE FindTopToRecenter(e)

(* recenter: put the current line on the n-th row (for n = 0 see           *)
(* RecenterAll).                                                           *)
Recenter(e, n) ==
  LET w == JWindow(e)
      i == Place(Text(e), CLine(e))
      k == IF n > w.rows THEN w.rows \div 2 ELSE n
      l == Text(e)[IF i < k THEN 1 ELSE i - k + 1]
      f == Trashed(e, {1})
  IN IF e.cbuf # w.buf THEN f
     ELSE [f EXCEPT !.screen[w.sy].line = l, !.screen[w.sy].mod = TRUE]
-----------------------------------------------------------------------------
(* Drawing.                                                                *)

(* In a window with n rows, is l on the screen when top comes first?       *)
OnScreen(t, top, l, n) == Place(t, l) \in Place(t, top) .. (Place(t, top) + n - 1)

(* display_line, where it is needed, in the rows of JWindow from the line  *)
(* top on.                                                                 *)
Draw(e, top) ==
  LET w == JWindow(e)
      t == Text(e)
      i == Place(t, top)
      Due(r) == IF i + r - w.sy \in DOMAIN t THEN t[i + r - w.sy] ELSE None
      Drawn(r) == [line |-> Due(r), mod |-> FALSE,
                   shown |-> IF Due(r) = None THEN Blank ELSE Due(r)]
      Needed(r) == r \in RowsOf(w) /\ (e.screen[r].mod \/ e.screen[r].line # Due(r))
  IN [e EXCEPT !.ring[1].beg = top,
               !.astray = @ \/ ~OnScreen(t, top, CLine(e), w.rows),
               !.screen = [r \in DOMAIN @ |-> IF Needed(r) THEN Drawn(r) ELSE @[r]]]

(* The windows in turn, until there is input (after the stop-th).          *)
DrawWindows(e, top, stop) ==
  LET Done(f) == OtherWindow([f EXCEPT !.ring[1].trashed = FALSE])
      Stopping(f) == Trashed(f, {1})
      first == Draw(e, IF top # None THEN top ELSE FindTop(e))
      other == Done(first)
      both == Draw(other, FindTop(other))
  IN IF stop = 1 THEN Stopping(first)
     ELSE IF Len(e.ring) = 1 THEN other
     ELSE IF stop = 2 THEN Stopping(OtherWindow(both)) ELSE Done(both)

(* What an update finds: force, its argument; input: is there some before  *)
(* it begins; stop: the window after which there is some (0: before the    *)
(* first, or a macro or a count is at work); quick: is the user content    *)
(* with the status line (it shows line numbers or the time).  An update    *)
(* hook of the buffer comes to the step Suspend before the update.         *)
Undisturbed == [force |-> TRUE, input |-> FALSE, stop |-> MaxWindows + 1, quick |-> FALSE]
Busy == [force |-> FALSE, input |-> TRUE, stop |-> 0, quick |-> FALSE]
Stopped(e) == [force: {FALSE}, input: {FALSE}, quick: {FALSE},
               stop: 0..Len(e.ring) \cup {MaxWindows + 1}]
Quick == [Undisturbed EXCEPT !.force = FALSE, !.quick = TRUE]

(* update_1.                                                               *)
Update1(e, top, c) ==
  LET f == [e EXCEPT !.ring[1].mark = CLine(e)]
  IN IF e.cbuf # JWindow(e).buf \/ (c.stop = 0 /\ ~c.force) THEN e
     ELSE IF ~JWindow(e).trashed /\ (e.motion \/ (c.quick /\ ~c.force /\ Len(e.ring) = 1)) THEN f
     ELSE DrawWindows(f, top, IF c.force \/ c.stop > Len(e.ring) THEN Len(e.ring) + 1 ELSE c.stop)

(* Mutant: the flag is cleared without drawing everything.                 *)
BugResumed(e) == [e EXCEPT !.suspend = FALSE]

Resumed(e) == IF e.suspend THEN TouchScreen([e EXCEPT !.suspend = FALSE]) ELSE e

(* set_hscroll: the line that scrolled sideways before, and the current.   *)
SetHScroll(e) ==
  LET f == IF e.last = None THEN e ELSE RegisterChange(e, e.last)
  IN IF WantsHScroll THEN [RegisterChange(f, CLine(e)) EXCEPT !.last = CLine(e)] ELSE e

(* update.                                                                 *)
Update(e, top, c) ==
  IF c.input /\ ~c.force THEN Trashed(e, {1})
  ELSE Update1(SetHScroll(Resumed(e)), top, c)

(* jed_redraw_screen: the terminal is cleared.                             *)
RedrawScreen(e, c) ==
  LET f == [e EXCEPT !.screen = [r \in DOMAIN @ |-> [@[r] EXCEPT !.shown = Blank, !.mod = TRUE]]]
      g == Trashed(f, DOMAIN f.ring)
  IN IF JWindow(e).trashed THEN Update(Forgotten(g, RowsOf(JWindow(e))), None, c)
     ELSE Update(g, JWindow(e).beg, c)

(* jed_resize_display: the bottom window takes or gives the rows, or the   *)
(* top window becomes the only one; JScreen is made anew.                  *)
Resized(e, h) ==
  LET bottom == CHOOSE k \in DOMAIN e.ring : e.ring[k].rows + e.ring[k].sy + 2 = e.height
      top == CHOOSE k \in DOMAIN e.ring : e.ring[k].sy = 0
      f == IF h > e.ring[bottom].sy + 3 THEN [e EXCEPT !.ring[bottom].rows = h - 2 - e.ring[bottom].sy]
           ELSE [OneWindow(IF top = 1 THEN e ELSE OtherWindow(e)) EXCEPT !.ring[1].rows = h - 2]
  IN Trashed([f EXCEPT !.height = h,
       !.screen = [r \in 0..h - 1 |-> [line |-> None, mod |-> TRUE, shown |-> Blank]]], DOMAIN f.ring)
-----------------------------------------------------------------------------
(* sys_getkey draws what has not been drawn before it waits.               *)
Waiting(e) == IF JWindow(e).trashed THEN Update(e, None, Undisturbed) ELSE e

Init ==
  /\ pc = "idle" /\ plain = TRUE /\ home = None /\ steps = 0
  /\ \E h \in Heights, b \in Buffers, l \in Lines :
       ed = Waiting(
             [ring |-> <<[id |-> 1, sy |-> 0, rows |-> h - 2, buf |-> b, beg |-> l, mark |-> l,
                          trashed |-> TRUE]>>,
              height |-> h,
              screen |-> [r \in 0..h - 1 |-> [line |-> None, mod |-> TRUE, shown |-> Blank]],
              text |-> [c \in Buffers |-> IF c = b THEN <<l>> ELSE <<>>],
              cbuf |-> b, at |-> [c \in Buffers |-> IF c = b THEN l ELSE None],
              suspend |-> FALSE, motion |-> FALSE, last |-> None, astray |-> FALSE])

Key == pc = "idle" /\ pc' = "command" /\ UNCHANGED <<ed, home, plain, steps>>

(* A process has written something: read_process_input selects its buffer, *)
(* calls its S-Lang function, and goes back to the current buffer.  That   *)
(* function is taken to leave the windows and their buffers alone.         *)
Callback ==
  /\ pc = "idle" /\ pc' = "callback" /\ home' = ed.cbuf
  /\ UNCHANGED <<ed, plain, steps>>

EndCallback ==
  /\ pc = "callback" /\ pc' = "idle" /\ home' = None /\ plain' = TRUE /\ steps' = 0
  /\ ed' = Waiting(Trashed(TouchScreen([ed EXCEPT !.cbuf = home]), {1}))

(* SIGWINCH while JED waits.                                               *)
Resize(h, c) ==
  /\ pc = "idle" /\ h # ed.height
  /\ ed' = Waiting(RedrawScreen(Resized(ed, h), c))
  /\ UNCHANGED <<pc, home, plain, steps>>

(* The end of do_jed and of the main loop's body.  A key function returns  *)
(* 0 only if all it did is on the line; after an error the display is      *)
(* updated first with everything touched.                                  *)
Ended(e, ret, error, c) ==
  LET f == IF ret THEN Trashed(e, {1}) ELSE e
      g == IF f.cbuf = JWindow(f).buf THEN f
           ELSE WindowBuffer([f EXCEPT !.cbuf = JWindow(f).buf], JWindow(f).buf)
      h == Update1(TouchScreen(SetHScroll(Resumed(g))), None, Undisturbed)
      skipped == ~error /\ c.quick /\ ~JWindow(g).trashed /\ Len(g.ring) = 1 /\ ~g.suspend
  IN IF skipped THEN g ELSE Update(IF error THEN h ELSE g, None, c)

(* jed and do_jed: the command ends, and the main loop begins again.  With *)
(* input there is nothing to wait for.                                     *)
EndCommand(ret, error, c) ==
  LET e == [Ended(ed, ret, error, c) EXCEPT !.suspend = FALSE]
  IN /\ pc = "command"
     /\ ret \/ (plain /\ ~error)
     /\ c.input /\ ed.suspend => "typeahead" \in Lapses
     /\ \/ c.stop > Len(ed.ring) /\ pc' = "idle" /\ steps' = 0 /\ ed' = Waiting(e)
        \/ steps < MaxSteps /\ ed' = e /\ UNCHANGED <<pc, steps>>
     /\ plain' = TRUE /\ UNCHANGED home

(* A step of a command or a callback.                                      *)
Runs ==
  /\ pc \in {"command", "callback"} /\ steps < MaxSteps /\ steps' = steps + 1
  /\ UNCHANGED <<pc, home>>
Does(e) == Runs /\ ed' = e /\ plain' = FALSE

Edit == Runs /\ ed' = Changed(ed, CLine(ed)) /\ UNCHANGED plain

MoveAlongLine ==
  /\ Runs /\ UNCHANGED plain
  /\ ed' = [ed EXCEPT !.motion = TRUE]

MoveTo(l) ==
  /\ l \in LinesOf(ed, ed.cbuf) \ {CLine(ed)}
  /\ \E m \in {ed.motion, TRUE} : Does([ed EXCEPT !.at[ed.cbuf] = l, !.motion = m])

Split(new, marks, begs) ==
  /\ Len(Text(ed)) < MaxText /\ new \in FreeLines(ed)
  /\ Does(InsertNewline(ed, new, marks, begs))

Join == Place(Text(ed), CLine(ed)) < Len(Text(ed)) /\ Does(DelNewline(ed))
Erase == Does(EraseBuffer(ed))
Suspend == Does([ed EXCEPT !.suspend = TRUE])
TouchAll == Does(TouchScreen(ed))
TouchOne == Does(TouchWindow(ed))

Set(b, new) ==
  /\ new \in FreeLines(ed) \/ b \in Live(ed)
  /\ Does(SetBuffer(ed, b, new))

SetInWindow(b) == b \in Live(ed) /\ Does(WindowBuffer([ed EXCEPT !.cbuf = b], b))

Kill(b, other) ==
  /\ {b, other} \subseteq Live(ed) /\ b # other
  /\ Does(KillBufferCmd(ed, b, other))

Other == Does(OtherWindow(ed))
SplitTheWindow == Len(ed.ring) < MaxWindows /\ JWindow(ed).rows >= 5 /\ Does(SplitWindow(ed))
One == Len(ed.ring) > 1 /\ Does(OneWindow(ed))
Delete == Len(ed.ring) = 2 /\ Does(DeleteWindow(ed))
RecenterOn(n) == Does(Recenter(ed, n))
UpdateNow(c) == Does(Update(ed, None, c))

Redraw(c) ==
  LET w == JWindow(ed)
      kept == ~w.trashed /\ w.buf = ed.cbuf
  IN /\ kept /\ ~OnScreen(Text(ed), w.beg, CLine(ed), w.rows) => "redraw" \in Lapses
     /\ Does(RedrawScreen(ed, c))

(* recenter(0): the window begins before the current line, of whatever     *)
(* buffer that is; but since it is trashed, jed_redraw_screen does not     *)
(* look at where it begins.                                                *)
RecenterAll(c) ==
  Does(RedrawScreen([Trashed(ed, {1}) EXCEPT !.ring[1].beg = FindTopToRecenter(ed)], c))

TextStep ==
  \/ Edit \/ Join \/ Erase \/ Suspend
  \/ \E l \in Lines : MoveTo(l)
  \/ \E new \in Lines, marks, begs \in SUBSET {ed.ring[k].id : k \in Showing(ed, ed.cbuf)} :
       Split(new, marks, begs)
  \/ \E b \in Buffers, new \in Lines : Set(b, new)

ScreenStep ==
  \/ MoveAlongLine \/ TouchAll \/ TouchOne
  \/ \E b \in Buffers : SetInWindow(b)
  \/ \E b, other \in Buffers : Kill(b, other)
  \/ Other \/ SplitTheWindow \/ One \/ Delete
  \/ \E n \in {1, JWindow(ed).rows, JWindow(ed).rows + 1} : RecenterOn(n)
  \/ \E c \in Stopped(ed) \cup {Busy, Quick, Undisturbed} : UpdateNow(c)
  \/ \E c \in Stopped(ed) \cup {Busy} : Redraw(c) \/ RecenterAll(c)

Next ==
  \/ Key \/ Callback \/ EndCallback
  \/ \E h \in Heights, c \in Stopped(ed) \cup {Busy} : Resize(h, c)
  \/ \E c \in Stopped(ed) \cup {Busy} : EndCommand(TRUE, FALSE, c) \/ EndCommand(TRUE, TRUE, c)
  \/ \E c \in Stopped(ed) \cup {Busy, Quick} : EndCommand(FALSE, FALSE, c)
  \/ TextStep
  \/ pc = "command" /\ ScreenStep

Spec == Init /\ [][Next]_vars
-----------------------------------------------------------------------------
(* Types; the windows cover the screen without its last row, a status line *)
(* below each; their cursors are lines of their buffers, and so are the    *)
(* lines they begin with unless they are to be drawn anew.                 *)
TypeOK ==
  /\ ed \in Editor(ed.height) /\ pc \in {"idle", "command", "callback"}
  /\ home \in Buffers \cup {None} /\ plain \in BOOLEAN /\ steps \in 0..MaxSteps
  /\ \A k \in DOMAIN ed.ring :
       /\ ed.ring[k].mark \in LinesOf(ed, ed.ring[k].buf)
       /\ ed.ring[k].trashed \/ ed.ring[k].beg \in LinesOf(ed, ed.ring[k].buf)
       /\ ed.ring[k].sy + ed.ring[k].rows < ed.height - 1

(* While JED waits for a key every window shows consecutive lines of its   *)
(* buffer as they are now, and nothing below the end of the text; the line *)
(* of the cursor, or in the other windows that of their mark, is among     *)
(* them.                                                                   *)
LinesShown ==
  pc = "idle" =>
    \A k \in DOMAIN ed.ring :
      LET w == ed.ring[k]
          t == ed.text[w.buf]
          cursor == IF k = 1 THEN ed.at[w.buf] ELSE w.mark
      IN \E top \in DOMAIN t :
           /\ OnScreen(t, t[top], cursor, w.rows)
           /\ \A i \in 0..w.rows - 1 :
                ed.screen[w.sy + i].shown = IF top + i \in DOMAIN t THEN t[top + i] ELSE Blank

(* No window is ever drawn without the line of its cursor.                 *)
(* mark_window_attributes relies on it when it looks for the row of that   *)
(* line, and marks the rows from there on (screen.c:1109).                 *)
CursorInWindow == ~ed.astray

(* What update() and do_jed promise the user, whatever was suspended,      *)
(* skipped or interrupted since the last wait.                             *)
ScreenShowsText == LinesShown /\ CursorInWindow

(* A row that is not marked shows the text of the line whose address its   *)
(* entry holds, if there is such a line (again), whatever has been freed   *)
(* and made since it was drawn: unless an update is owed anyway.           *)
UnmarkedIsCurrent ==
  \A r \in WindowRows(ed) :
    LET s == ed.screen[r]
    IN ~ed.suspend /\ ~s.mod /\ (s.line = None \/ s.line \notin FreeLines(ed))
         => s.shown = (IF s.line = None THEN Blank ELSE s.line)

(* What the windows and the screen say of the text is true.                *)
CacheSound == TypeOK /\ UnmarkedIsCurrent
=============================================================================
