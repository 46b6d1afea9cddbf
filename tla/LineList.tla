------------------------------ MODULE LineList ------------------------------
(***************************************************************************)
(* The text of a buffer as JED keeps it: a doubly linked list of lines     *)
(* (buffer.c, line.c), with marks that name a line, a point in it and its  *)
(* number (paste.c), and the primitives that change the text and bring     *)
(* every mark up to date (ins.c).                                          *)
(*                                                                         *)
(* A buffer is a record; a function of the code that changes the current   *)
(* buffer is an operator from a buffer to a buffer.  Lists (spots, marks,  *)
(* narrowings) are sequences with the head of the list first.  The buffer  *)
(* may be changed (not READ_ONLY, no read-only lines), so that no          *)
(* primitive fails.                                                        *)
(***************************************************************************)
EXTENDS Naturals, Sequences, SequencesExt

CONSTANTS
  Chars,    \* the characters other than newline
  NL,       \* the newline
  MaxLines  \* bound on the lines of the list

ASSUME LineListAssumption == NL \notin Chars /\ MaxLines \in Nat \ {0}

Null == 0
LineIds == 1..MaxLines
Line == [data: Seq(Chars \cup {NL}), next: LineIds \cup {Null}, prev: LineIds \cup {Null}]
FreeLine == [data |-> <<>>, next |-> Null, prev |-> Null]

(* region: the flag NARROW_REGION_MARK.                                    *)
Mark == [line: LineIds, point: Nat, n: Nat, region: BOOLEAN]

Data(b, l) == b.heap[l].data
LineHasNewline(b, l) == Data(b, l) # <<>> /\ Last(Data(b, l)) = NL
Eol(b, l) == IF LineHasNewline(b, l) THEN Len(Data(b, l)) - 1 ELSE Len(Data(b, l))
-----------------------------------------------------------------------------
(* Moving the point (buffer.c).                                            *)

Bob(b) == [b EXCEPT !.line = b.beg, !.point = 0, !.linenum = 1]
Eob(b) == [b EXCEPT !.line = b.end, !.point = Eol(b, b.end), !.linenum = b.max]
Bol(b) == [b EXCEPT !.point = 0]
EolOf(b) == [b EXCEPT !.point = Eol(b, b.line)]
Eobp(b) == b.line = b.end /\ b.point = Eol(b, b.line)

(* One line up or down; jed_up never meets an empty line, as only the last *)
(* one can be empty (LinesSound).                                          *)
JedUp(b) ==
  LET prev == b.heap[b.line].prev
  IN IF prev = Null THEN b
     ELSE EolOf([b EXCEPT !.line = prev, !.linenum = @ - 1])

JedDown(b) ==
  LET next == b.heap[b.line].next
  IN IF next = Null THEN b
     ELSE Bol([b EXCEPT !.line = next, !.linenum = @ + 1])
-----------------------------------------------------------------------------
(* Marks (paste.c).                                                        *)

JedInitMark(b) ==
  [line |-> b.line, point |-> b.point, n |-> b.linenum + b.nup, region |-> FALSE]

PushSpot(b) == [b EXCEPT !.spots = <<JedInitMark(b)>> \o @]
JedPushMark(b) == [b EXCEPT !.marks = <<JedInitMark(b)>> \o @]

(* A mark outside of the narrowing leads to the nearer end of the buffer.  *)
JedGotoMark(b, m) ==
  IF m.n <= b.nup THEN Bob(b)
  ELSE IF m.n > b.nup + b.max THEN Eob(b)
  ELSE [b EXCEPT !.line = m.line, !.point = m.point, !.linenum = m.n - b.nup]

DropSpot(b) == [b EXCEPT !.spots = Tail(@)]
DropMark(b) == [b EXCEPT !.marks = Tail(@)]
PopSpot(b) == DropSpot(JedGotoMark(b, Head(b.spots)))
JedPopMark(b) == DropMark(JedGotoMark(b, Head(b.marks)))

ExchangePointMark(b) ==
  [JedGotoMark(b, Head(b.marks)) EXCEPT !.marks[1] =
     [JedInitMark(b) EXCEPT !.region = b.marks[1].region]]

(* jed_update_marks: every mark of the buffer and of the windows that show *)
(* it goes through Upd.                                                    *)
JedUpdateMarks(b, Upd(_)) ==
  LET All(ms) == FoldLeft(LAMBDA done, m : Append(done, Upd(m)), <<>>, ms)
      Saved(done, s) == Append(done, [beg |-> All(s.beg), end |-> All(s.end)])
  IN [b EXCEPT !.spots = All(@), !.marks = All(@), !.user = All(@),
               !.window = Upd(@), !.saved = FoldLeft(Saved, <<>>, @)]

Behind(b, m) == m.line = b.line /\ m.point > b.point
AbsNum(b) == b.linenum + b.nup

(* Mutant: a mark at the point moves as well.                              *)
BugCInsert(b, n) ==
  LET Upd(m) == IF m.line = b.line /\ m.point >= b.point
                THEN [m EXCEPT !.point = @ + n] ELSE m
  IN JedUpdateMarks(b, Upd)

CInsert(b, n) ==
  LET Upd(m) == IF Behind(b, m) THEN [m EXCEPT !.point = @ + n] ELSE m
  IN JedUpdateMarks(b, Upd)

CDelete(b, n) ==
  LET Upd(m) == IF ~Behind(b, m) THEN m
                ELSE [m EXCEPT !.point = IF @ < b.point + n THEN b.point ELSE @ - n]
  IN JedUpdateMarks(b, Upd)

NLInsert(b) ==
  LET next == b.heap[b.line].next
      Moved(m) ==
        IF Behind(b, m)
        THEN [m EXCEPT !.line = next,
                       !.point = IF @ - b.point > Len(Data(b, next))
                                 THEN Len(Data(b, next)) ELSE @ - b.point]
        ELSE m
      Upd(m) == [Moved(m) EXCEPT !.n =
                   IF AbsNum(b) < m.n \/ (AbsNum(b) = m.n /\ m.point > b.point)
                   THEN @ + 1 ELSE @]
  IN JedUpdateMarks(b, Upd)

(* Mutant: the line numbers are those of the lines below only.             *)
BugNLDelete(b) ==
  LET Upd(m) ==
        [m EXCEPT !.line = IF @ = b.line THEN b.heap[b.line].prev ELSE @,
                  !.point = IF m.line = b.line THEN @ + b.point ELSE @,
                  !.n = IF AbsNum(b) < m.n THEN @ - 1 ELSE @]
  IN JedUpdateMarks(b, Upd)

NLDelete(b) ==
  LET Upd(m) ==
        [m EXCEPT !.line = IF @ = b.line THEN b.heap[b.line].prev ELSE @,
                  !.point = IF m.line = b.line THEN @ + b.point ELSE @,
                  !.n = IF AbsNum(b) <= m.n THEN @ - 1 ELSE @]
  IN JedUpdateMarks(b, Upd)

LDelete(b) ==
  LET prev == b.heap[b.line].prev
      Upd(m) ==
        [m EXCEPT !.line = IF @ # b.line THEN @ ELSE IF prev # Null THEN prev ELSE b.beg,
                  !.point = IF m.line = b.line THEN 0 ELSE @,
                  !.n = IF AbsNum(b) <= m.n THEN @ - 1 ELSE @]
  IN JedUpdateMarks(b, Upd)
-----------------------------------------------------------------------------
(* Lines of the list (buffer.c).                                           *)

InUse(b) == {l \in LineIds : b.heap[l] # FreeLine} \cup {b.beg, b.end, b.line}
NewLine(b) == CHOOSE l \in LineIds \ InUse(b) : \A k \in LineIds \ InUse(b) : l <= k

SetNext(heap, l, k) == IF l = Null THEN heap ELSE [heap EXCEPT ![l].next = k]
SetPrev(heap, l, k) == IF l = Null THEN heap ELSE [heap EXCEPT ![l].prev = k]

(* Line l, a free one, goes after the current line.                        *)
LinkAfter(b, l, data) ==
  LET next == b.heap[b.line].next
      new == [data |-> data, next |-> next, prev |-> b.line]
  IN SetPrev([b.heap EXCEPT ![b.line].next = l, ![l] = new], next, l)

(* Mutant: make_line does not move the end of the buffer.                  *)
BugMakeLine(b, data) ==
  [b EXCEPT !.heap = LinkAfter(b, NewLine(b), data), !.line = NewLine(b),
            !.max = @ + 1, !.linenum = @ + 1]

(* make_line: a new line after the current one, and the current one.       *)
MakeLine(b, data) ==
  [b EXCEPT !.heap = LinkAfter(b, NewLine(b), data),
            !.end = IF b.line = b.end THEN NewLine(b) ELSE @,
            !.line = NewLine(b), !.max = @ + 1, !.linenum = @ + 1]

(* delete_line: not the top line.                                          *)
DeleteLine(b) ==
  LET prev == b.heap[b.line].prev
      next == b.heap[b.line].next
  IN [b EXCEPT !.heap = SetPrev([@ EXCEPT ![prev].next = next, ![b.line] = FreeLine],
                                next, prev),
               !.end = IF next = Null THEN prev ELSE @,
               !.line = prev, !.linenum = @ - 1, !.max = @ - 1]

SplitLine(b) ==
  LET data == Data(b, b.line)
      made == MakeLine(b, SubSeq(data, b.point + 1, Len(data)))
  IN NLInsert([made EXCEPT !.line = b.line, !.linenum = b.linenum,
                           !.heap[b.line].data = SubSeq(data, 1, b.point)])

SpliceLine(b) ==
  LET next == b.heap[b.line].next
      joined == [PushSpot(b) EXCEPT !.heap[b.line].data =
                   SubSeq(@, 1, b.point) \o Data(b, next)]
  IN PopSpot(DeleteLine(NLDelete([JedDown(joined) EXCEPT !.point = b.point])))
-----------------------------------------------------------------------------
(* Changing the text (ins.c).                                              *)

InsertData(b, s) ==
  [b EXCEPT !.heap[b.line].data = SubSeq(@, 1, b.point) \o s
                                  \o SubSeq(@, b.point + 1, Len(@))]

Forward(b, n) == [b EXCEPT !.point = @ + n]

JedInsByte(b, c) == Forward(CInsert(InsertData(b, <<c>>), 1), 1)

JedInsertNewline(b) == JedDown(JedInsByte(SplitLine(b), NL))

InsertRun(b, s) ==
  IF s = <<>> THEN b ELSE Forward(CInsert(InsertData(b, s), Len(s)), Len(s))

(* At most one newline, at the end of s: the line is split first.          *)
JedQuickInsert(b, s) ==
  IF Last(s) = NL
  THEN JedDown(InsertRun(JedUp(JedInsertNewline(b)), Front(s)))
  ELSE InsertRun(b, s)

Cut(b, n) ==
  [b EXCEPT !.heap[b.line].data = SubSeq(@, 1, b.point)
                                  \o SubSeq(@, b.point + n + 1, Len(@))]

JedDelNbytes(b, n) == IF n = 0 THEN b ELSE Cut(CDelete(b, n), n)

(* Not at the end of the buffer.                                           *)
JedDelNewline(b) ==
  LET Chop(at) == [CDelete(at, 1) EXCEPT !.heap[at.line].data = Front(@)]
  IN SpliceLine(Chop(EolOf(b)))

(* jed_generic_del_nbytes: up to the end of the line, then the newline,    *)
(* until n bytes are gone or the end of the buffer is reached.             *)
JedGenericDelNbytes(b, n) ==
  LET Room(c) == Eol(c, c.line) - c.point
      Rest(c, k) ==   \* at the end of a line, k bytes to go
        IF k = 0 \/ c.line = c.end THEN [b |-> c, n |-> 0]
        ELSE [b |-> JedDelNewline(c), n |-> k - 1]
      Step(s, i) ==
        LET dn == IF s.n < Room(s.b) THEN s.n ELSE Room(s.b)
        IN IF s.n = 0 THEN s ELSE Rest(JedDelNbytes(s.b, dn), s.n - dn)
  IN FoldLeft(Step, [b |-> b, n |-> n], [i \in 1..n |-> i]).b

JedDelWchar(b) ==
  JedGenericDelNbytes(b, IF b.point = Eol(b, b.line) THEN Len(Data(b, b.line)) - b.point
                         ELSE 1)

(* erase_buffer: the visible lines but the first go one by one.            *)
EraseBuffer(b) ==
  LET Free(c, this) ==
        [c EXCEPT !.line = c.heap[this].next, !.max = @ - 1, !.heap[this] = FreeLine]
      Step(c, i) ==
        Free(LDelete([c EXCEPT !.heap[c.beg].next = c.heap[c.line].next,
                               !.heap[c.line].prev = c.beg]), c.line)
      Empty(c) ==
        [CDelete(c, Len(Data(c, c.beg))) EXCEPT !.heap[c.beg].data = <<>>, !.end = c.beg]
  IN Empty(Bob(FoldLeft(Step, [Bob(b) EXCEPT !.line = b.heap[b.beg].next, !.linenum = 2],
                        [i \in 1..(b.max - 1) |-> i])))
=============================================================================
