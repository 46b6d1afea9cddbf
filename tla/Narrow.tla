------------------------------- MODULE Narrow -------------------------------
(***************************************************************************)
(* Editing a buffer that may be narrowed: the commands of paste.c on the   *)
(* line list of LineList.  narrow hides all lines but those of the region, *)
(* by cutting the list; narrow_to_region first sets the region apart with  *)
(* two newlines that widen takes out again.  push_narrow and pop_narrow    *)
(* save and restore the narrowings as pairs of marks.                      *)
(*                                                                         *)
(* buf is the buffer; buf.user[1] is a mark an S-Lang program holds,       *)
(* buf.window the position of another window that shows the buffer.        *)
(***************************************************************************)
EXTENDS LineList, Integers

CONSTANTS
  InitText,  \* the lines of the buffer at first
  Inserts,   \* what may be inserted: sequences with a newline at most at the end
  Deletes,   \* how many bytes a command deletes
  MaxText,   \* bound on the length of the text
  MaxNarrow, \* bound on the narrowings, and on the saved ones
  MaxCmds    \* bound on the commands

ASSUME NarrowAssumption ==
  /\ InitText \in Seq(Seq(Chars \cup {NL})) /\ Len(InitText) \in 1..MaxLines
  /\ Deletes \subseteq Nat \ {0}
  /\ \A s \in Inserts : /\ s \in Seq(Chars \cup {NL}) /\ s # <<>>
                        /\ \A i \in 1..(Len(s) - 1) : s[i] # NL
  /\ MaxText \in Nat /\ MaxNarrow \in Nat /\ MaxCmds \in Nat
  /\ MaxLines >= MaxText + 2 + 2 * MaxNarrow   \* so that NewLine finds one

VARIABLES
  buf,   \* the buffer
  doc,   \* ghost: the text with marks that buf stands for, Doc(buf)
  cmds   \* number of commands so far

vars == <<buf, doc, cmds>>

-----------------------------------------------------------------------------
(* Narrowing.                                                              *)

(* The lines from l on, along next.                                        *)
Chain(b, l) ==
  LET from[k \in LineIds \cup {Null}] ==
        IF k = Null THEN <<>> ELSE <<k>> \o from[b.heap[k].next]
  IN from[l]

(* Put the mark before the point; both are in the buffer then.             *)
CheckRegion(b) ==
  LET mark == Head(b.marks)
      before == IF mark.line = b.line THEN mark.point <= b.point
                ELSE b.line \in ToSet(Chain(b, mark.line))
  IN IF before THEN b ELSE ExchangePointMark(b)

(* Mutant: windows are not touched.                                        *)
BugTouchWindows(b) == DropMark(b)

(* touch_windows: a window whose place is hidden now gets the point's; the *)
(* mark at the top of the buffer goes.                                     *)
TouchWindows(b) ==
  LET visible == b.window.line \in ToSet(Chain(b, Head(b.marks).line))
  IN DropMark([b EXCEPT !.window = IF visible THEN @ ELSE JedInitMark(b)])

(* The list is cut above line beg, the nup + 1st, and below the current    *)
(* line, which loses its newline.                                          *)
CutLines(b, beg, nup) ==
  LET nt == [nup |-> nup, ndown |-> b.max - b.linenum,
             beg |-> b.heap[beg].prev, end |-> b.heap[b.line].next,
             beg1 |-> b.beg, end1 |-> b.end, is_region |-> FALSE]
      chop == [b.heap EXCEPT ![b.line].data = SubSeq(@, 1, Eol(b, b.line))]
  IN [b EXCEPT !.max = b.linenum - nup, !.linenum = b.linenum - nup,
               !.nup = @ + nt.nup, !.ndown = @ + nt.ndown,
               !.narrow = <<nt>> \o @, !.beg = beg, !.end = b.line,
               !.heap = SetPrev(SetNext(chop, b.line, Null), beg, Null)]

(* From the mark (the spot is at the end of the region) to the point.      *)
NarrowToLines(b) ==
  LET Cut2(top) == CutLines(PopSpot(top), top.line, top.linenum - 1)
      Top(region) == JedPushMark(JedPopMark(PushSpot(region)))
  IN TouchWindows(PopSpot(Cut2(Top(CheckRegion(PushSpot(b))))))

NarrowLinesAsRegion(b) == [NarrowToLines(b) EXCEPT !.narrow[1].is_region = TRUE]

(* Mutant: one spot of an empty region stays on the list.                  *)
BugNarrowToRegion(b) ==
  LET Empty(at) ==
        NarrowLinesAsRegion(JedUp(JedInsertNewline(JedPushMark(
          JedInsertNewline(PopSpot(at))))))
      Nonempty(at) ==
        PopSpot(NarrowLinesAsRegion(JedUp(JedInsertNewline(PopSpot(JedPushMark(
          JedInsertNewline(at)))))))
      From(c, at) ==
        IF at.line = c.line /\ at.point = c.point THEN Empty(at) ELSE Nonempty(at)
      Region(c) == From(c, JedPopMark(PushSpot(c)))
  IN Region(CheckRegion(PushSpot(b)))

(* narrow_to_region: the newline above the region first, then the one      *)
(* below it; an empty region is a case of its own.                         *)
NarrowToRegion(b) ==
  LET Empty(at) ==
        NarrowLinesAsRegion(JedUp(JedInsertNewline(JedPushMark(
          JedInsertNewline(PopSpot(PopSpot(at)))))))
      Nonempty(at) ==
        PopSpot(NarrowLinesAsRegion(JedUp(JedInsertNewline(PopSpot(JedPushMark(
          JedInsertNewline(at)))))))
      From(c, at) ==
        IF at.line = c.line /\ at.point = c.point THEN Empty(at) ELSE Nonempty(at)
      Region(c) == From(c, JedPopMark(PushSpot(c)))
  IN Region(CheckRegion(PushSpot(b)))

(* The last line gets its newline back unless it is the last of all.       *)
EndWithNewline(b, nt) ==
  IF nt.end = Null \/ LineHasNewline(b, b.line) THEN b ELSE JedInsByte(b, NL)

(* The list is joined again to the lines around nt.                        *)
Joined(b, nt) ==
  SetPrev(SetNext(SetNext(SetPrev(b.heap, nt.end, b.end), nt.beg, b.beg),
                  b.end, nt.end), b.beg, nt.beg)

(* Mutant: the lines below are not counted in again.                       *)
BugUncut(b, nt) ==
  [b EXCEPT !.heap = Joined(b, nt),
            !.beg = nt.beg1, !.end = IF nt.end # Null THEN nt.end1 ELSE @,
            !.max = @ + nt.nup, !.linenum = @ + nt.nup,
            !.nup = @ - nt.nup, !.ndown = @ - nt.ndown, !.narrow = Tail(@)]

Uncut(b, nt) ==
  [b EXCEPT !.heap = Joined(b, nt),
            !.beg = nt.beg1, !.end = IF nt.end # Null THEN nt.end1 ELSE @,
            !.max = @ + nt.ndown + nt.nup, !.linenum = @ + nt.nup,
            !.nup = @ - nt.nup, !.ndown = @ - nt.ndown, !.narrow = Tail(@)]

WidenBufferLines(b) ==
  LET nt == Head(b.narrow)
  IN Uncut(PopSpot(EndWithNewline(Eob(PushSpot(b)), nt)), nt)

(* A narrowing to a region leaves with the newlines it came with, the      *)
(* lower one first.                                                        *)
WidenBuffer(b) ==
  CASE b.narrow = <<>> -> b
    [] b.narrow # <<>> /\ ~Head(b.narrow).is_region -> WidenBufferLines(b)
    [] OTHER -> PopSpot(JedDelWchar(JedUp(PopSpot(JedDelWchar(
                  WidenBufferLines(Eob(PushSpot(Bob(PushSpot(b))))))))))

WidenWholeBuffer(b) ==
  FoldLeft(LAMBDA c, i : WidenBuffer(c), b, [i \in DOMAIN b.narrow |-> i])

(* Narrow to the pairs of marks, the outermost first.                      *)
RestoreSavedNarrow(b) ==
  LET Region(c, i) ==
        JedGotoMark(JedPushMark(JedGotoMark(c, Head(c.saved).beg[i])),
                    Head(c.saved).end[i])
      Step(c, i) ==
        IF Head(c.saved).end[i].region THEN NarrowToRegion(Region(c, i))
        ELSE NarrowToLines(Region(c, i))
  IN PopSpot(FoldLeft(Step, WidenWholeBuffer(PushSpot(b)),
                      [i \in DOMAIN Head(b.saved).beg |-> i]))

(* Each narrowing becomes a pair of marks and is lifted, the innermost     *)
(* first; then all are put back.                                           *)
JedPushNarrow(b) ==
  LET SaveEnds(c, region) ==
        [Eob(c) EXCEPT
           !.saved[1].beg = <<JedInitMark(Bob(c))>> \o @,
           !.saved[1].end = <<[JedInitMark(Eob(c)) EXCEPT !.region = region]>> \o @]
      Step(c, i) == WidenBuffer(SaveEnds(c, Head(c.narrow).is_region))
      pushed == [PushSpot(b) EXCEPT !.saved = <<[beg |-> <<>>, end |-> <<>>]>> \o @]
  IN PopSpot(RestoreSavedNarrow(
       FoldLeft(Step, pushed, [i \in DOMAIN b.narrow |-> i])))

JedPopNarrow(b) == [RestoreSavedNarrow(b) EXCEPT !.saved = Tail(@)]
-----------------------------------------------------------------------------
(* The text with marks that a buffer stands for.                           *)

(* All lines, hidden or not.                                               *)
AllLines(b) ==
  LET above[k \in LineIds \cup {Null}] ==
        IF k = Null THEN <<>> ELSE Append(above[b.heap[k].prev], k)
  IN FoldLeft(LAMBDA seq, nt : above[nt.beg] \o seq \o Chain(b, nt.end),
              Chain(b, b.beg), b.narrow)

(* The numbers of the first and the last line of every narrowing.          *)
Levels(b) ==
  LET Step(s, nt) ==
        [first |-> s.first - nt.nup, last |-> s.last + nt.ndown,
         seq |-> Append(s.seq, [first |-> s.first, last |-> s.last,
                                region |-> nt.is_region])]
  IN FoldLeft(Step, [first |-> b.nup + 1, last |-> b.nup + b.max, seq |-> <<>>],
              b.narrow).seq

(* The lines as they are in the text: a narrowing has taken the newline    *)
(* from its last line, and a narrowing to a region stands between two      *)
(* newlines that are not of the text.                                      *)
TextLines(b, lines, levels) ==
  LET joints == UNION {{i.first - 1, i.last} : i \in {j \in ToSet(levels) : j.region}}
      Text(k) == SubSeq(Data(b, lines[k]), 1, Eol(b, lines[k]))
                   \o IF k = Len(lines) \/ k \in joints THEN <<>> ELSE <<NL>>
  IN FoldLeft(LAMBDA seq, k : Append(seq, Text(k)), <<>>, [k \in DOMAIN lines |-> k])

(* The offset of the p-th byte of line n in the text.                      *)
Offset(lines, n, p) ==
  FoldLeft(LAMBDA sum, l : sum + Len(l), p, SubSeq(lines, 1, n - 1))

DocOf(b, lines, levels) ==
  LET At(m) == Offset(lines, m.n, m.point)
      Eot(n) == Offset(lines, n, Len(SelectSeq(lines[n], LAMBDA c : c # NL)))
  IN [text |-> FlattenSeq(lines),
      point |-> At(JedInitMark(b)),
      mark |-> IF b.marks = <<>> THEN -1 ELSE At(Head(b.marks)),
      user |-> At(b.user[1]),
      window |-> At(b.window),
      bounds |-> [i \in DOMAIN levels |->
                   [lo |-> Offset(lines, levels[i].first, 0), hi |-> Eot(levels[i].last),
                    region |-> levels[i].region]],
      saved |-> [k \in DOMAIN b.saved |-> [i \in DOMAIN b.saved[k].beg |->
                  [lo |-> At(b.saved[k].beg[i]), hi |-> At(b.saved[k].end[i]),
                   region |-> b.saved[k].end[i].region]]]]

Doc(b) == DocOf(b, TextLines(b, AllLines(b), Levels(b)), Levels(b))
-----------------------------------------------------------------------------
(* Commands.                                                               *)

(* read_file, and the marks at the start of the buffer.                    *)
Init ==
  LET K == Len(InitText)
      start == [line |-> 1, point |-> 0, n |-> 1, region |-> FALSE]
  IN /\ buf = [heap |-> [l \in LineIds |->
                 IF l > K THEN FreeLine
                 ELSE [data |-> InitText[l], prev |-> l - 1,
                       next |-> IF l = K THEN Null ELSE l + 1]],
               beg |-> 1, end |-> K, line |-> 1, point |-> 0, linenum |-> 1,
               max |-> K, nup |-> 0, ndown |-> 0, narrow |-> <<>>,
               spots |-> <<>>, marks |-> <<>>, user |-> <<start>>,
               window |-> start, saved |-> <<>>]
     /\ doc = Doc(buf) /\ cmds = 0
Command(b) == cmds < MaxCmds /\ cmds' = cmds + 1 /\ buf' = b /\ doc' = Doc(b)

Insert == \E s \in Inserts : Len(doc.text) < MaxText /\ Command(JedQuickInsert(buf, s))
Delete == \E n \in Deletes : Command(JedGenericDelNbytes(buf, n))
Erase == Command(EraseBuffer(buf))

(* Any motion: the point goes to a place of the visible text.              *)
Move ==
  \E k \in 1..buf.max :
    LET l == Chain(buf, buf.beg)[k]
    IN \E p \in 0..Eol(buf, l) :
         Command([buf EXCEPT !.line = l, !.point = p, !.linenum = k])

SetMark == buf.marks = <<>> /\ Command(JedPushMark(buf))
MoveUserMark == Command([buf EXCEPT !.user[1] = JedInitMark(buf)])
OtherWindow == Command([buf EXCEPT !.window = JedInitMark(buf)])

NarrowLines ==
  /\ buf.marks # <<>> /\ Len(buf.narrow) < MaxNarrow
  /\ Command(NarrowToLines(buf))

NarrowRegion ==
  /\ buf.marks # <<>> /\ Len(buf.narrow) < MaxNarrow
  /\ Command(NarrowToRegion(buf))

Exchange == buf.marks # <<>> /\ Command(ExchangePointMark(buf))

Widen == buf.narrow # <<>> /\ Command(WidenBuffer(buf))
WidenAll == buf.narrow # <<>> /\ Command(WidenWholeBuffer(buf))
PushNarrow == Len(buf.saved) < MaxNarrow /\ Command(JedPushNarrow(buf))
PopNarrow == buf.saved # <<>> /\ Command(JedPopNarrow(buf))

Next ==
  \/ Insert \/ Delete \/ Erase \/ Move \/ SetMark \/ MoveUserMark \/ OtherWindow
  \/ Exchange \/ NarrowLines \/ NarrowRegion \/ Widen \/ WidenAll
  \/ PushNarrow \/ PopNarrow

Spec == Init /\ [][Next]_vars
-----------------------------------------------------------------------------
(* Properties.                                                             *)

Marks(b) == ToSet(b.marks) \cup ToSet(b.user) \cup {b.window}
              \cup UNION {ToSet(s.beg) \cup ToSet(s.end) : s \in ToSet(b.saved)}

TypeOK ==
  /\ buf.heap \in [LineIds -> Line]
  /\ {buf.beg, buf.end, buf.line} \subseteq LineIds
  /\ {buf.point, buf.linenum, buf.max, buf.nup, buf.ndown} \subseteq Nat
  /\ Marks(buf) \subseteq Mark
  /\ buf.spots = <<>>
  /\ Len(buf.narrow) <= MaxNarrow /\ Len(buf.saved) <= MaxNarrow
  /\ cmds \in Nat

(* The lines from beg to end are linked both ways, each is one line of     *)
(* text (a newline at its end and nowhere else, but for the last), and     *)
(* Max_LineNum, LineNum and the point are those of that list.              *)
ListSound(b) ==
  LET chain == Chain(b, b.beg)
  IN /\ Len(chain) = b.max /\ chain[b.max] = b.end
     /\ b.heap[b.beg].prev = Null
     /\ \A k \in 2..b.max : b.heap[chain[k]].prev = chain[k - 1]
     /\ \A k \in 1..b.max : LineHasNewline(b, chain[k]) = (k < b.max)
     /\ \A k \in 1..b.max : \A p \in 1..Eol(b, chain[k]) : Data(b, chain[k])[p] # NL
     /\ b.linenum \in 1..b.max /\ chain[b.linenum] = b.line
     /\ b.point <= Eol(b, b.line)

(* However the buffer was edited while it was narrowed, it is a sound list *)
(* at every level, and with all restrictions lifted no line is lost, and   *)
(* every mark, of hidden lines too, has the number of the line it points   *)
(* at and a point on it (paste.c: widen_buffer; ins.c: the *_update_marks  *)
(* functions).                                                             *)
LinesSound ==
  LET MarksSound(wide, chain) ==
        /\ \A m \in Marks(wide) : /\ m.n \in 1..wide.max /\ chain[m.n] = m.line
                                  /\ m.point <= Eol(wide, m.line)
        /\ Cardinality({l \in LineIds : buf.heap[l] # FreeLine})
             <= Len(chain) + 2 * Len(buf.narrow)
      WholeSound(wide) ==
        /\ ListSound(wide) /\ wide.nup = 0 /\ wide.ndown = 0
        /\ MarksSound(wide, Chain(wide, wide.beg))
  IN ListSound(buf) /\ ListSound(WidenBuffer(buf)) /\ WholeSound(WidenWholeBuffer(buf))

(* The other window is never left showing hidden lines (touch_windows).    *)
WindowShowsText == buf.window.n \in (buf.nup + 1)..(buf.nup + buf.max)

(* The buffer and the window on it are sound, narrowed or not.             *)
BufferSound == TypeOK /\ LinesSound /\ WindowShowsText

Text == INSTANCE MarkedText WITH NoMark <- -1, FirstText <- FlattenSeq(InitText)

(* Narrowed or not, by lines or by region, nested or saved and restored,   *)
(* every command does to the text, the point and the marks what MarkedText *)
(* says: hidden text is out of reach and comes back as it was, and no mark *)
(* leaves its place.                                                       *)
TextSpec == Text!Spec
=============================================================================
