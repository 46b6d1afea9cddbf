------------------------------ MODULE Windows ------------------------------
(***************************************************************************)
(* The windows of JED (window.c), the buffers they show, and the           *)
(* minibuffer (ledit.c, misc.c).                                           *)
(*                                                                         *)
(* The windows are linked in a ring.  Here the ring is the sequence of its *)
(* windows from JWindow on, so that other_window turns it by one.  The     *)
(* minibuffer's window is in the ring only while something is read from    *)
(* it, right before the window from which that began; it is always on the  *)
(* last row of the screen.  A function of the code is an operator from an  *)
(* editor to an editor: they call each other.  Between two keys an S-Lang  *)
(* function may make any number of these calls; then do_jed selects the    *)
(* buffer of JWindow again.                                                *)
(***************************************************************************)
EXTENDS Naturals, Sequences, FiniteSets, FiniteSetsExt, SequencesExt

CONSTANTS
  Files,       \* the names of buffers that users and programs use
  Scratch,     \* "*scratch*"
  Completions, \* "*Completions*", which is buried
  Mini,        \* " <mini>", which is internal
  None,
  Heights,     \* the heights a screen may have
  MaxWindows,  \* bound on the windows, the minibuffer's not counted
  Lapses       \* what users do that the code is not prepared for

(* "across": enlarge_window moves every window between JWindow and the one *)
(* it takes a row from, the minibuffer's too when it is linked between     *)
(* them.  "mini": select another buffer in the minibuffer's window; on     *)
(* exit the code erases the current buffer, which it takes for the         *)
(* minibuffer.  "listed": delete the buffer whose name                     *)
(* Last_Completion_Buffer points to.                                       *)
AllLapses == {"across", "mini", "listed"}

ASSUME WindowsAssumption ==
  /\ Cardinality({Scratch, Completions, Mini, None}) = 4
  /\ Files \cap {Scratch, Completions, Mini, None} = {}
  /\ Heights \subseteq Nat /\ \A h \in Heights : h >= 5   \* jed_get_screen_size
  /\ MaxWindows \in Nat \ {0} /\ Lapses \subseteq AllLapses

Buffers == Files \cup {Scratch, Completions, Mini}
Ids == 1..MaxWindows
MiniId == 0
Window == [id: Ids \cup {MiniId}, sy: Nat, rows: Nat, buf: Buffers]

VARIABLES
  ed,     \* the editor
  quiet   \* ghost: what was on the screen when the reading began, if since
          \* then there were only the minibuffer's own commands

vars == <<ed, quiet>>

(* ed.ring: JWindow and the windows after it.  ed.spare: JMiniWindow while *)
(* it is not in the ring.  height: Jed_Num_Screen_Rows, top: Top_Window_SY. *)
(* live: the buffers there are; cbuf: CBuf.                                *)
(* reading: MiniBuffer is not NULL, then action, target and  *)
(* start are Mini_Info.action_window, current_window and start_buffer.     *)
(* listed, wins: Last_Completion_Buffer and Last_Completion_Windows.       *)
Editor ==
  [ring: Seq(Window), spare: Window, height: Heights, top: {0, 1},
   live: SUBSET Buffers, cbuf: Buffers,
   reading: BOOLEAN, action: Ids \cup {None}, target: Ids \cup {None},
   start: Buffers \cup {None}, listed: Buffers \cup {None}, wins: Nat]

JWindow(e) == e.ring[1]
InMiniWindow(e) == JWindow(e).id = MiniId
NumWindows(e) == Len(e.ring)
Visible(e, b) == \E i \in DOMAIN e.ring : e.ring[i].buf = b

(* alloc_window: the address of a freed window is used again.              *)
FreeId(e) == Min(Ids \ {e.ring[i].id : i \in DOMAIN e.ring})
-----------------------------------------------------------------------------
(* Selecting windows and buffers.                                          *)

(* The ring as its k-th window sees it.                                    *)
Turned(r, k) == SubSeq(r, k, Len(r)) \o SubSeq(r, 1, k - 1)

(* other_window until JWindow is the k-th window: at least one step, and   *)
(* each selects the window's buffer.                                       *)
Select(e, k) == [e EXCEPT !.ring = Turned(@, k), !.cbuf = e.ring[k].buf]

OtherWindow(e) == Select(e, IF NumWindows(e) = 1 THEN 1 ELSE 2)

(* other_window while JWindow is none of the windows of ks.                *)
SelectFirst(e, ks) == IF 1 \in ks THEN e ELSE Select(e, Min(ks))

IndexOfId(e, id) == {k \in DOMAIN e.ring : e.ring[k].id = id}

(* find_buffer, make_buffer, switch_to_buffer.                             *)
SetBuffer(e, b) == [e EXCEPT !.cbuf = b, !.live = @ \cup {b}]

WindowBuffer(e, b) == [e EXCEPT !.ring[1].buf = b]

SwitchToBufferCmd(e, b) == WindowBuffer(SetBuffer(e, b), b)
-----------------------------------------------------------------------------
(* The geometry of the windows (window.c).                                 *)

(* The current line is found on row number row of the screen (0: nowhere)  *)
(* and the window with that row is selected.                               *)
Follow(e, row) ==
  LET at == {k \in DOMAIN e.ring : /\ e.ring[k].sy < row
                                   /\ e.ring[k].sy + e.ring[k].rows >= row}
  IN IF at = {} THEN Select(e, 1) ELSE SelectFirst(e, at)

SplitWindow(e, row) ==
  LET w == JWindow(e)
      n == w.rows \div 2
      new == [id |-> FreeId(e), sy |-> w.sy + n + 1, rows |-> w.rows - n - 1,
              buf |-> w.buf]
      f == [e EXCEPT !.ring = <<[w EXCEPT !.rows = n], new>> \o Tail(@)]
  IN IF w.rows < 5 THEN e ELSE Follow(Select(f, 2), IF row > w.sy THEN row ELSE 0)

(* free_window, of all windows that r has no more.                         *)
Freed(e, r) ==
  LET ids == {r[i].id : i \in DOMAIN r}
  IN [e EXCEPT !.ring = r, !.action = IF @ \in ids THEN @ ELSE None]

OneWindow(e) ==
  LET mini == IF IndexOfId(e, MiniId) = {} THEN <<>>
              ELSE <<e.ring[Min(IndexOfId(e, MiniId))]>>
      all == [JWindow(e) EXCEPT !.sy = e.top, !.rows = e.height - 2 - e.top]
  IN IF InMiniWindow(e) THEN e ELSE Freed(e, <<all>> \o mini)

(* while (w->rows <= min) w = w->next                                      *)
Spares(w) == w.rows > 2

(* The windows that can give away a row, JWindow after all others.  When   *)
(* there is none the loop of enlarge_window does not end.                  *)
Donors(e) == {k \in 2..NumWindows(e) : Spares(e.ring[k])}
CanEnlarge(e) == Donors(e) # {} \/ Spares(JWindow(e)) \/ InMiniWindow(e) \/ NumWindows(e) = 1

EnlargeWindow(e) ==
  LET k == Min(Donors(e))
      above == e.ring[k].sy < JWindow(e).sy
      Moved(i) == IF above THEN IF i > k \/ i = 1 THEN e.ring[i].sy - 1 ELSE e.ring[i].sy
                  ELSE IF i \in 2..k THEN e.ring[i].sy + 1 ELSE e.ring[i].sy
      Rows(i) == IF i = 1 THEN e.ring[i].rows + 1
                 ELSE IF i = k THEN e.ring[i].rows - 1 ELSE e.ring[i].rows
  IN IF InMiniWindow(e) \/ Donors(e) = {} THEN e
     ELSE [e EXCEPT !.ring =
            [i \in DOMAIN @ |-> [@[i] EXCEPT !.sy = Moved(i), !.rows = Rows(i)]]]

(* Is the minibuffer's window among those that EnlargeWindow moves?        *)
Across(e) ==
  /\ ~InMiniWindow(e) /\ Donors(e) # {}
  /\ LET k == Min(Donors(e))
         m == IndexOfId(e, MiniId)
     IN \E i \in m : IF e.ring[k].sy < JWindow(e).sy THEN i > k ELSE i < k
-----------------------------------------------------------------------------
(* Mutant: the window below keeps its place on the screen.                 *)
BugDeleteWindow(e) ==
  LET this == JWindow(e)
      below == {k \in DOMAIN e.ring : e.ring[k].sy = this.sy + this.rows + 1}
      f == SelectFirst(e, below)
      r == RemoveAt(f.ring, Min(IndexOfId(f, this.id)))
  IN IF below = {} \/ NumWindows(e) = 1 THEN e
     ELSE Freed(f, [r EXCEPT ![1].rows = @ + this.rows + 1])

(* The window below takes the rows of this one, or the one above if this   *)
(* is the bottom window.                                                   *)
DeleteWindow(e) ==
  LET this == JWindow(e)
      end == this.sy + this.rows + 2
      bottom == end = e.height
      to == IF bottom
            THEN {k \in DOMAIN e.ring : e.ring[k].sy + e.ring[k].rows + 1 = this.sy}
            ELSE {k \in DOMAIN e.ring : e.ring[k].sy + 1 = end}
      f == SelectFirst(e, to)
      r == RemoveAt(f.ring, Min(IndexOfId(f, this.id)))
  IN IF NumWindows(e) = 1 \/ (e.reading /\ (InMiniWindow(e) \/ NumWindows(e) = 2)) THEN e
     ELSE Freed(f, [r EXCEPT ![1].rows = @ + this.rows + 1,
                             ![1].sy = IF bottom THEN @ ELSE this.sy])

(* Mutant: the bottom window always takes or gives the rows.               *)
BugAdjustWindows(e, h) ==
  LET bottom == CHOOSE k \in DOMAIN e.ring : e.ring[k].rows + e.ring[k].sy + 2 = e.height
  IN [e EXCEPT !.ring[bottom].rows = @ + h - e.height]

(* adjust_windows: the bottom window takes or gives the rows; if it would  *)
(* keep one only, the top window becomes the only one.                     *)
AdjustWindows(e, h) ==
  LET bottom == CHOOSE k \in DOMAIN e.ring : e.ring[k].rows + e.ring[k].sy + 2 = e.height
      rows == h - 2 - e.ring[bottom].sy
      tops == {k \in DOMAIN e.ring : e.ring[k].sy = e.top}
  IN IF h > 2 + e.ring[bottom].sy + 1 THEN [e EXCEPT !.ring[bottom].rows = rows]
     ELSE [OneWindow(SelectFirst(e, tops)) EXCEPT !.ring[1].rows = h - 2 - e.top]

(* Mutant: the minibuffer's window is moved only while it is not linked.   *)
BugResized(e, h) ==
  LET f == IF h = e.height THEN e ELSE AdjustWindows(e, h)
  IN [f EXCEPT !.height = h, !.spare.sy = h - 1]

(* jed_update_window_sizes, and alloc_display sets the height.             *)
Resized(e, h) ==
  LET f == IF h = e.height THEN e ELSE AdjustWindows(e, h)
  IN [f EXCEPT !.height = h, !.spare.sy = h - 1,
               !.ring = [i \in DOMAIN @ |->
                 IF @[i].id = MiniId THEN [@[i] EXCEPT !.sy = h - 1] ELSE @[i]]]

EnableMenuBar(e, on) ==
  LET Top(f) == CHOOSE k \in DOMAIN f.ring : f.ring[k].sy = f.top
      small == e.ring[Top(e)].rows < 3
      f == IF on /\ small THEN OneWindow(e) ELSE e
      k == IF on /\ small THEN 1 ELSE Top(f)
  IN IF on = (e.top = 1) THEN e
     ELSE IF on THEN IF f.ring[k].rows < 3 THEN f
                     ELSE [f EXCEPT !.top = 1, !.ring[k].sy = 1, !.ring[k].rows = @ - 1]
     ELSE [f EXCEPT !.top = 0, !.ring[k].sy = 0, !.ring[k].rows = @ + 1]
-----------------------------------------------------------------------------
(* Buffers in windows (ledit.c).                                           *)

(* The first one, or after n of them have become visible the next, in the  *)
(* order in which the ring of buffers has them from kill on (which is left *)
(* open).                                                                  *)
FindNonVisible(e, kill, order, n) ==
  LET fit == {i \in DOMAIN order : /\ order[i] \in e.live \ {kill}
                                   /\ ~Visible(e, order[i])}
      next == {i \in fit : Cardinality({j \in fit : j < i}) = n}
  IN IF next = {} THEN Scratch ELSE order[Min(next)]

(* Mutant: only the first window that shows kill gets another buffer.      *)
BugReplaced(e, kill, order) ==
  LET w == CHOOSE i \in DOMAIN e.ring : e.ring[i].buf = kill \/ i = Len(e.ring)
      b == FindNonVisible(e, kill, order, 0)
  IN [ring |-> [e.ring EXCEPT ![w].buf = IF @ = kill THEN b ELSE @], buf |-> b]

(* Every window that shows kill, from JWindow on, gets a buffer that no    *)
(* window shows yet; buf is the buffer that the next one would get.        *)
Replaced(e, kill, order) ==
  LET New(i) == FindNonVisible(e, kill, order,
                               Cardinality({j \in 1..(i - 1) : e.ring[j].buf = kill}))
  IN [ring |-> [i \in DOMAIN e.ring |->
                 IF e.ring[i].buf = kill THEN [e.ring[i] EXCEPT !.buf = New(i)] ELSE e.ring[i]],
      buf |-> New(Len(e.ring) + 1)]

(* kill_buffer_cmd of a buffer that is not modified, or that the user lets *)
(* go; delete_buffer.                                                      *)
KillBufferCmd(e, kill, order) ==
  LET new == Replaced(e, kill, order)
  IN IF kill \in {Mini, Scratch} THEN e
     ELSE [e EXCEPT !.ring = new.ring,
                    !.cbuf = IF @ = kill THEN new.buf ELSE @,
                    !.live = @ \ {kill}]

(* Mutant: JWindow is taken as well.                                       *)
BugOthers(e, action) ==
  {k \in DOMAIN e.ring : e.ring[k].id # MiniId /\ (action # None => e.ring[k].id # action)}

(* The windows that are not in use.                                        *)
Others(e, action) ==
  {k \in DOMAIN e.ring : /\ e.ring[k].id # MiniId
                         /\ IF action = None THEN k # 1 ELSE e.ring[k].id # action}

(* pop_to_buffer: the first window that shows b, or else the last one that *)
(* is not the window in use, or else a new one.                            *)
PopToBuffer(e, b, row) ==
  LET f == SetBuffer(e, b)
      action == IF e.reading THEN e.action ELSE None
      shows == {k \in DOMAIN e.ring : e.ring[k].id # MiniId /\ e.ring[k].buf = b}
      others == Others(e, action)
      g == SplitWindow(IF action = None THEN f ELSE SelectFirst(f, IndexOfId(f, action)), row)
      differ == {k \in 2..NumWindows(g) : g.ring[k].buf = JWindow(g).buf}
      h == IF shows # {} THEN SelectFirst(f, shows)
           ELSE IF others # {} THEN SelectFirst(f, {Max(others)})
           ELSE Select(g, IF differ = {} THEN 1 ELSE Min(differ))
  IN [ed |-> [h EXCEPT !.cbuf = b, !.ring[1].buf = b], name |-> h.cbuf]
-----------------------------------------------------------------------------
(* The minibuffer (misc.c, ledit.c).                                       *)

(* other_window until JWindow is the minibuffer's window.                  *)
SelectMinibuffer(e) ==
  IF InMiniWindow(e) THEN e ELSE SelectFirst(e, IndexOfId(e, MiniId))

(* create_minibuffer: JMiniWindow is linked before JWindow.                *)
CreateMinibuffer(e) ==
  [e EXCEPT !.ring = <<[e.spare EXCEPT !.buf = Mini]>> \o @,
            !.cbuf = Mini, !.reading = TRUE, !.action = JWindow(e).id]

(* read_from_minibuffer_1 up to its loop.  Called while something is read  *)
(* already, it selects the minibuffer and gives up.                        *)
ReadFromMinibuffer(e) ==
  LET f == [e EXCEPT !.target = IF InMiniWindow(e) THEN None ELSE JWindow(e).id]
  IN IF e.reading THEN SelectMinibuffer(f)
     ELSE [CreateMinibuffer(f) EXCEPT
             !.start = IF InMiniWindow(e) THEN None ELSE e.cbuf]

(* Mutant: the window that showed the completions is not given back.       *)
BugExitMinibuffer(e, row, order) ==
  LET f == KillBufferCmd(PopToBuffer(e, Completions, row).ed, Completions, order)
      g == IF e.wins = 1 THEN OneWindow(f) ELSE f
  IN IF e.listed = None THEN e
     ELSE [SelectMinibuffer(g) EXCEPT !.listed = None, !.wins = 0]

(* exit_minibuffer.                                                        *)
ExitMinibuffer(e, row, order) ==
  LET f == SwitchToBufferCmd(PopToBuffer(e, Completions, row).ed, e.listed)
      g == KillBufferCmd(f, Completions, order)
      h == IF e.wins = 1 THEN OneWindow(g) ELSE g
  IN IF e.listed = None THEN e
     ELSE [SelectMinibuffer(h) EXCEPT !.listed = None, !.wins = 0]

(* read_from_minibuffer_1 after its loop: the minibuffer's window leaves   *)
(* the ring, and the window and the buffer it was called from are selected *)
(* if they are still there.  (action and target are not read again before  *)
(* they are set.)                                                          *)
LeaveMinibuffer(e) ==
  LET r == Tail(e.ring)
      f == [e EXCEPT !.ring = r, !.spare = Head(e.ring), !.cbuf = r[1].buf,
                     !.reading = FALSE, !.start = None, !.action = None, !.target = None]
      at == IndexOfId(f, e.target)
      g == IF e.target = None THEN f
           ELSE SelectFirst(f, IF at = {} THEN {Len(r)} ELSE at)
  IN IF e.start \in e.live THEN [g EXCEPT !.cbuf = e.start] ELSE g

(* mini_complete: the completions go to their buffer, and if there are     *)
(* several it is shown; at the end the minibuffer is selected again.       *)
MiniComplete(e, several, row) ==
  LET f == SetBuffer(e, Completions)
      p == PopToBuffer(f, Completions, row)
      g == IF several /\ e.listed = None
           THEN [p.ed EXCEPT !.listed = p.name, !.wins = NumWindows(f) - 1]
           ELSE f
  IN Select(g, Min(IndexOfId(g, MiniId)))
-----------------------------------------------------------------------------
Init ==
  /\ quiet = None
  /\ \E h \in Heights :
       LET w == [id |-> 1, sy |-> 1, rows |-> h - 3, buf |-> Scratch]
           m == [id |-> MiniId, sy |-> h - 1, rows |-> 1, buf |-> Mini]
       IN ed = [ring |-> <<w>>, spare |-> m, height |-> h, top |-> 1,
             live |-> {Scratch, Mini}, cbuf |-> Scratch,
             reading |-> FALSE, action |-> None, target |-> None, start |-> None,
             listed |-> None, wins |-> 0]

(* Where jed_find_line_on_screen may find the line: in any window but the  *)
(* minibuffer's, or nowhere (0).                                           *)
FoundRows(e) == {0} \cup {e.ring[i].sy + 1 : i \in DOMAIN e.ring \ IndexOfId(e, MiniId)}

CanSplit(e) == Cardinality({i \in DOMAIN e.ring : e.ring[i].id # MiniId}) < MaxWindows

(* The orders of the buffers that are neither internal nor buried.         *)
Orders == SetToSeqs(Files)

(* What the screen shows, from JWindow on, and the buffer in use.          *)
View(e) ==
  [windows |-> [i \in DOMAIN e.ring |->
                 [sy |-> e.ring[i].sy, rows |-> e.ring[i].rows, buf |-> e.ring[i].buf]],
   cbuf |-> e.cbuf]

(* A command that is not one of the minibuffer.                            *)
Becomes(e) == ed' = e /\ quiet' = None

Split == CanSplit(ed) /\ \E row \in FoundRows(ed) : Becomes(SplitWindow(ed, row))
Other == Becomes(OtherWindow(ed))
One == Becomes(OneWindow(ed))
Enlarge ==
  /\ CanEnlarge(ed)
  /\ "across" \in Lapses \/ ~Across(ed)
  /\ Becomes(EnlargeWindow(ed))
Delete == Becomes(DeleteWindow(ed))
Resize(h) == Becomes(Resized(ed, h))
MenuBar(on) == Becomes(EnableMenuBar(ed, on))

(* setbuf and sw2buf.                                                      *)
Setbuf(b) == Becomes(SetBuffer(ed, b))
Sw2buf(b) ==
  /\ InMiniWindow(ed) => "mini" \in Lapses
  /\ Becomes(SwitchToBufferCmd(ed, b))

(* pop2buf.                                                                *)
Pop2buf(b) ==
  /\ CanSplit(ed)
  /\ \E row \in FoundRows(ed) : Becomes(PopToBuffer(ed, b, row).ed)

(* delbuf.  (When a user who is asked about a modified buffer says no, it  *)
(* stays selected, as after setbuf.)                                       *)
Delbuf(b) ==
  /\ b \in ed.live
  /\ "listed" \in Lapses \/ b # ed.listed
  /\ \E order \in Orders : Becomes(KillBufferCmd(ed, b, order))

Read ==
  /\ ed' = ReadFromMinibuffer(ed)
  /\ quiet' = IF ed.reading THEN None ELSE View(ed)

(* A key in the minibuffer: its own commands, and RETURN or ^G.  At the    *)
(* end of the reading the current buffer is erased.                        *)
Complete(several) ==
  /\ InMiniWindow(ed) /\ ed.cbuf = Mini /\ CanSplit(ed)
  /\ \E row \in FoundRows(ed) : ed' = MiniComplete(ed, several, row)
  /\ UNCHANGED quiet
Exit ==
  /\ InMiniWindow(ed) /\ ed.cbuf = JWindow(ed).buf
  /\ ed.listed # None => CanSplit(ed)
  /\ \E row \in FoundRows(ed), order \in Orders :
       ed' = LeaveMinibuffer(ExitMinibuffer(ed, row, order))
  /\ quiet' = None

(* do_jed, after the command: the buffer of JWindow is selected again.     *)
EndOfKey ==
  /\ ed.cbuf # JWindow(ed).buf
  /\ Becomes(SwitchToBufferCmd(ed, IF JWindow(ed).buf \in ed.live
                                   THEN JWindow(ed).buf ELSE Scratch))

Next ==
  \/ Split \/ Other \/ One \/ Enlarge \/ Delete
  \/ \E h \in Heights : Resize(h)
  \/ \E on \in BOOLEAN : MenuBar(on)
  \/ \E b \in Files : Setbuf(b)
  \/ \E b \in Files \cup {Scratch} : Sw2buf(b) \/ Pop2buf(b)
  \/ \E b \in Files \cup {Completions} : Delbuf(b)
  \/ Read \/ \E several \in BOOLEAN : Complete(several)
  \/ Exit \/ EndOfKey

Spec == Init /\ [][Next]_vars
-----------------------------------------------------------------------------
(* Every variable keeps its type: no window has less than no rows, and     *)
(* nothing is lost from a list (window.c, ledit.c).                        *)
TypeOK == ed \in Editor

Plain(e) == {i \in DOMAIN e.ring : e.ring[i].id # MiniId}
Bottom(e, w) == w.sy + w.rows + 2 = e.height

(* The place in the ring of the window after the i-th, and of the next but *)
(* for the minibuffer's, of which the ring has one at most (MiniInPlace).  *)
After(e, i) == IF i = Len(e.ring) THEN 1 ELSE i + 1
NextPlain(e, i) ==
  IF After(e, i) \in Plain(e) THEN After(e, i) ELSE After(e, After(e, i))

(* The windows but the minibuffer's share the screen from the row below    *)
(* the menu bar to the one above the last, each followed by its status     *)
(* line, in the order of the ring; none has less than two rows.            *)
(* delete_window, enlarge_window, adjust_windows and enable_menu_bar walk  *)
(* the ring until a window at some row turns up: else they never stop.     *)
Tiled(e) ==
  /\ \A i \in Plain(e) :
       LET w == e.ring[i]
       IN /\ w.rows >= 2
          /\ e.ring[NextPlain(e, i)].sy = IF Bottom(e, w) THEN e.top ELSE w.sy + w.rows + 1
  /\ \E b \in Plain(e) : \A i \in Plain(e) : Bottom(e, e.ring[i]) <=> i = b

(* While something is read, and only then, the minibuffer's window is in   *)
(* the ring, once; it has the last row of the screen and shows the         *)
(* minibuffer, so that what is erased when the reading ends is the         *)
(* minibuffer (window.h:29, misc.c:430).                                   *)
MiniInPlace ==
  LET m == IF ed.reading THEN {ed.ring[k] : k \in IndexOfId(ed, MiniId)} ELSE {ed.spare}
  IN /\ Cardinality(IndexOfId(ed, MiniId)) = IF ed.reading THEN 1 ELSE 0
     /\ \A w \in m : w.sy = ed.height - 1 /\ w.rows = 1 /\ w.buf = Mini

(* No window and no pointer leads to a buffer that has been deleted:       *)
(* kill_buffer_cmd takes care of them all (buffer.c:1051).                 *)
BuffersLive(e) ==
  /\ \A i \in DOMAIN e.ring : e.ring[i].buf \in e.live
  /\ e.cbuf \in e.live
  /\ e.listed \in e.live \cup {None}

(* In whatever order windows were split, deleted and resized, and buffers  *)
(* shown and killed: the windows tile the screen and show live buffers.    *)
ScreenSound == TypeOK /\ Tiled(ed) /\ BuffersLive(ed)

(* "All that is guaranteed is that the current window will continue to     *)
(* display the same buffer before and after the call to pop2buf"           *)
(* (buffer.tm:172), where there is another window, or room for one, of     *)
(* which then either half may go on to show it, and nothing is being read. *)
PopKeepsCurrent ==
  [][(\E b \in Files \cup {Scratch} : Pop2buf(b))
     /\ ~ed.reading /\ (NumWindows(ed) > 1 \/ JWindow(ed).rows >= 5)
     => (\E w \in ToSet(ed'.ring) :
           w.buf = JWindow(ed).buf /\ (NumWindows(ed) > 1 => w.id = JWindow(ed).id))]_vars

(* Reading from the minibuffer, with completions shown or not, leaves no   *)
(* trace: at the end the screen and the current buffer are those of the    *)
(* beginning, when nothing but the minibuffer's own commands was used      *)
(* (exit_minibuffer, read_from_minibuffer_1).                              *)
ReadLeavesNoTrace == [][Exit /\ quiet # None => View(ed') = quiet]_vars
=============================================================================
