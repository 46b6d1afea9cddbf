----------------------------- MODULE MCDisplay -----------------------------
(* Instances of Display for TLC, with up to two buffers.                   *)
EXTENDS Display

(* Nothing tells the addresses of lines, the buffers or the names of the   *)
(* windows from each other: a line is known by where it comes first in the *)
(* text of the current buffer, that of the other, and on the screen.  What *)
(* is set before it is read again is left out: the mark of JWindow, and    *)
(* where a window begins that is drawn anew anyway.  (The last component   *)
(* is always TRUE; comparing the editor makes TLC store it evaluated.)    *)
View ==
  LET Buf(b) == IF b = ed.cbuf THEN 1 ELSE IF b = None THEN 0 ELSE 2
      other == IF Buffers = {ed.cbuf} THEN <<>> ELSE ed.text[CHOOSE b \in Buffers : b # ed.cbuf]
      rows == [i \in 1..ed.height - 1 |-> ed.screen[i - 1].line]
      shown == [i \in 1..ed.height - 1 |-> ed.screen[i - 1].shown]
      order == Text(ed) \o other \o rows \o shown \o <<ed.last>>
      Name(l) == IF l \in Lines THEN CHOOSE i \in DOMAIN order : order[i] = l ELSE l
      ViewOf(k) == LET w == ed.ring[k]
                   IN <<w.sy, w.rows, w.trashed, Buf(w.buf), IF k = 1 THEN 0 ELSE Name(w.mark),
                        IF w.trashed THEN 0 ELSE Name(w.beg)>>
  IN <<pc, plain, steps, Buf(home), Len(Text(ed)), Len(other), ed.suspend, ed.motion, ed.astray,
       [k \in DOMAIN ed.ring |-> ViewOf(k)], Name(ed.last), Name(CLine(ed)),
       [i \in DOMAIN rows |-> <<Name(rows[i]), Name(shown[i]), ed.screen[i - 1].mod>>],
       {Name(ed.at[b]) : b \in Buffers \ {ed.cbuf}}, ed = ed>>
=============================================================================
