------------------------------ MODULE UndoText ------------------------------
(***************************************************************************)
(* The text of one JED buffer, seen the way undo.c sees it.                *)
(*                                                                         *)
(* The C code keeps the text as a doubly linked list of lines, each of     *)
(* which (but the last) ends in a newline byte, and addresses a byte by a  *)
(* line number (LineNum, from 1) and an offset in that line (Point, from   *)
(* 0).  Here the text is the flat sequence of its bytes and the cursor is  *)
(* the number of bytes before it.  The operators below convert between the *)
(* two; every one of them counts bytes, so that its value is a natural     *)
(* number bounded by the length of the text whatever the text is.          *)
(***************************************************************************)
EXTENDS Naturals, Sequences, FiniteSets

CONSTANTS
  Chars,   \* the bytes other than newline
  NL       \* the newline byte

ASSUME NewlineIsNoChar == NL \notin Chars

Byte == Chars \cup {NL}
Text == Seq(Byte)

(* LineNum of a cursor with p bytes before it: one more than the newlines  *)
(* that precede it.                                                        *)
LineOf(t, p) == 1 + Cardinality({i \in 1..p : t[i] = NL})

(* Point of that cursor: the bytes since the last newline.                 *)
PointOf(t, p) == Cardinality({i \in 1..p : \A j \in i..p : t[j] # NL})

(* Max_LineNum: a text of n newlines has n + 1 lines.                      *)
MaxLineNum(t) == LineOf(t, Len(t))

(* The cursor that goto_line leaves: at the bytes of the earlier lines.    *)
LineStart(t, l) == Cardinality({i \in 1..Len(t) : LineOf(t, i - 1) < l})

(* CLine->len, the newline byte included.                                  *)
LineLen(t, l) == Cardinality({i \in 1..Len(t) : LineOf(t, i - 1) = l})

(* The bytes between the cursor and the end of its line, newline excluded: *)
(* what jed_del_nbytes may delete.                                         *)
ToEol(t, p) == Cardinality({i \in (p+1)..Len(t) : \A j \in (p+1)..i : t[j] # NL})

InsertAt(t, p, s) ==
  [i \in 1..(Len(t) + Len(s)) |->
     IF i <= p THEN t[i]
     ELSE IF i <= p + Len(s) THEN s[i - p] ELSE t[i - Len(s)]]

RemoveAt(t, p, n) ==
  [i \in 1..(Len(t) - n) |-> IF i <= p THEN t[i] ELSE t[i + n]]

BytesAt(t, p, n) == [i \in 1..n |-> t[p + i]]

(* The bytes of s before its first newline: a segment of jed_insert_nbytes *)
Run(s) == BytesAt(s, 0, ToEol(s, 0))
=============================================================================
