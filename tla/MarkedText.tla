----------------------------- MODULE MarkedText -----------------------------
(***************************************************************************)
(* What an editor of text with marks promises, whatever its lines look     *)
(* like: a text, a point and marks that are offsets into it, and a stack   *)
(* of restrictions (narrowings), each an interval of offsets.              *)
(*                                                                         *)
(* Commands act within the innermost interval.  A mark stays between the   *)
(* same two characters as long as both are there; text inserted at a mark  *)
(* comes after it.  Restrictions never change the text, and lifting one    *)
(* gives back what it hid.                                                 *)
(***************************************************************************)
EXTENDS Naturals, Sequences, SequencesExt

CONSTANTS
  NL,         \* the newline
  FirstText,  \* the text at first
  Inserts,    \* what may be inserted
  NoMark      \* no mark is set

(* doc.text: the whole text; the offsets doc.point, doc.mark (NoMark: not  *)
(* set), doc.user (a program's mark) and doc.window (another window's      *)
(* place); doc.bounds: the intervals, the innermost first; doc.saved: the  *)
(* stacks that push_narrow saved, each with the outermost first.           *)
VARIABLE doc

Init ==
  doc = [text |-> FirstText, point |-> 0, mark |-> NoMark, user |-> 0,
         window |-> 0, bounds |-> <<>>, saved |-> <<>>]

Limits(d, is) ==
  IF is = <<>> THEN [lo |-> 0, hi |-> Len(d.text), region |-> FALSE] ELSE Head(is)
Clip(q, i) == IF q < i.lo THEN i.lo ELSE IF q > i.hi THEN i.hi ELSE q

(* The start and the end of the line of text t that q is on, within i.     *)
BolIn(t, q, i) ==
  CHOOSE p \in i.lo..q : /\ p = i.lo \/ t[p] = NL
                         /\ \A r \in (p + 1)..q : t[r] # NL
EolIn(t, q, i) ==
  CHOOSE p \in q..i.hi : /\ p = i.hi \/ t[p + 1] = NL
                         /\ \A r \in (q + 1)..p : t[r] # NL
-----------------------------------------------------------------------------
(* The text t, and the point p in it; every mark goes through Upd, every   *)
(* interval keeps its start and grows by n (with n < 0: shrinks).          *)
Changed(d, t, p, Upd(_), Grown(_)) ==
  [d EXCEPT !.text = t, !.point = p,
            !.mark = IF @ = NoMark THEN @ ELSE Upd(@),
            !.user = Upd(@), !.window = Upd(@),
            !.bounds = [i \in DOMAIN @ |-> [@[i] EXCEPT !.hi = Grown(@)]],
            !.saved = [k \in DOMAIN @ |-> [i \in DOMAIN @[k] |->
                        [@[k][i] EXCEPT !.lo = Upd(@), !.hi = Upd(@)]]]]

Inserted(d, s) ==
  LET Upd(q) == IF q > d.point THEN q + Len(s) ELSE q
      Grown(q) == q + Len(s)
  IN Changed(d, SubSeq(d.text, 1, d.point) \o s
                  \o SubSeq(d.text, d.point + 1, Len(d.text)),
             d.point + Len(s), Upd, Grown)

(* n characters from offset p on go.                                       *)
Removed(d, p, n) ==
  LET Upd(q) == IF q <= p THEN q ELSE IF q < p + n THEN p ELSE q - n
      Shrunk(q) == q - n
  IN Changed(d, SubSeq(d.text, 1, p) \o SubSeq(d.text, p + n + 1, Len(d.text)),
             p, Upd, Shrunk)

(* The interval from a to z, or the lines it touches, within i.            *)
Interval(d, a, z, region, i) ==
  LET lo == Clip(a, i)
      hi == Clip(z, i)
  IN [lo |-> IF region THEN lo ELSE BolIn(d.text, lo, i),
      hi |-> IF region THEN hi ELSE EolIn(d.text, hi, i),
      region |-> region]

(* What a window may show under the restrictions is: something visible.    *)
Shown(d, is) ==
  {[d EXCEPT !.bounds = is, !.window = w] : w \in Limits(d, is).lo..Limits(d, is).hi}

(* From mark to point.                                                     *)
Narrowed(d, region) ==
  LET in == Limits(d, d.bounds)
      q == Clip(d.mark, in)
      a == IF q < d.point THEN q ELSE d.point
      z == IF q < d.point THEN d.point ELSE q
  IN Shown([d EXCEPT !.mark = NoMark],
           <<Interval(d, a, z, region, in)>> \o d.bounds)

Pushed(d) == Shown([d EXCEPT !.saved = <<Reverse(d.bounds)>> \o @], d.bounds)

(* The saved narrowings, wherever editing has moved their ends.            *)
Popped(d) ==
  LET Step(is, s) == <<Interval(d, s.lo, s.hi, s.region, Limits(d, is))>> \o is
      is == FoldLeft(Step, <<>>, Head(d.saved))
  IN Shown([d EXCEPT !.saved = Tail(@), !.point = Clip(@, Limits(d, is))], is)
-----------------------------------------------------------------------------
Edit(d) ==
  LET in == Limits(d, d.bounds)
  IN \/ \E s \in Inserts : doc' = Inserted(d, s)
     \/ \E n \in 1..(in.hi - d.point) : doc' = Removed(d, d.point, n)
     \/ doc' = Removed(d, in.lo, in.hi - in.lo)
     \/ \E p \in in.lo..in.hi : doc' = [d EXCEPT !.point = p]

(* A mark outside of the interval leads to the nearer end of it.           *)
Remember(d) ==
  \/ d.mark # NoMark
     /\ doc' = [d EXCEPT !.point = Clip(d.mark, Limits(d, d.bounds)), !.mark = d.point]
  \/ doc' = [d EXCEPT !.mark = d.point]
  \/ doc' = [d EXCEPT !.user = d.point]
  \/ doc' = [d EXCEPT !.window = d.point]

Confine(d) ==
  \/ d.mark # NoMark /\ \E region \in BOOLEAN : doc' \in Narrowed(d, region)
  \/ d.bounds # <<>> /\ doc' = [d EXCEPT !.bounds = Tail(@)]
  \/ doc' = [d EXCEPT !.bounds = <<>>]
  \/ doc' \in Pushed(d)
  \/ d.saved # <<>> /\ doc' \in Popped(d)

Next == \E d \in {doc} : Edit(d) \/ Remember(d) \/ Confine(d)

Spec == Init /\ [][Next]_doc
=============================================================================
