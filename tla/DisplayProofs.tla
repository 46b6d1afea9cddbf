---------------------------- MODULE DisplayProofs ----------------------------
(***************************************************************************)
(* Proofs about Display, for any buffers, lines, heights and bounds, and   *)
(* one window or two.                                                      *)
(*                                                                         *)
(* DisplayInv is inductive.  It says more than CacheSound: where updates   *)
(* are not suspended, a row that is not marked holds the address of a line *)
(* of the buffer its window shows, never that of a line that is gone.  For *)
(* an address that is in no text may be that of a new line next.  Sound is *)
(* that of an editor, and each function of the code is shown to keep it.   *)
(*                                                                         *)
(* ShownInv goes with it and says when the windows show their texts: while *)
(* JED waits; and during a command that stays on its line, unless it has   *)
(* marked the window in use to be drawn.                                   *)
(***************************************************************************)
EXTENDS Display, FiniteSetTheorems, SequenceTheorems, TLAPS

(* A row that is not marked shows the line whose address it holds, one of  *)
(* ls.                                                                     *)
Current(s, ls) ==
  ~s.mod => IF s.line = None THEN s.shown = Blank ELSE s.line \in ls /\ s.shown = s.line

Stacked(v, w, h) ==
  v.sy = 0 /\ v.rows >= 2 /\ w.rows >= 2 /\ w.sy = v.rows + 1 /\ w.sy + w.rows + 2 = h

(* One window, or two, on the whole screen but its last row.               *)
Tiled(ring, h) ==
  \/ Len(ring) = 1 /\ ring[1].sy = 0 /\ ring[1].rows = h - 2
  \/ Len(ring) = 2 /\ MaxWindows = 2
     /\ (Stacked(ring[1], ring[2], h) \/ Stacked(ring[2], ring[1], h))

Shape(e) == e.height \in Heights /\ e \in Editor(e.height) /\ Tiled(e.ring, e.height)

Injective(t) == \A i, j \in DOMAIN t : t[i] = t[j] => i = j

(* A line is in one buffer and at one place in it; so are the cursors.     *)
Texts(e) ==
  /\ \A b \in Buffers : Injective(e.text[b])
  /\ \A b, c \in Buffers : b # c => LinesOf(e, b) \cap LinesOf(e, c) = {}
  /\ \A b \in Buffers : IF b \in Live(e) THEN e.at[b] \in LinesOf(e, b) ELSE e.at[b] = None
  /\ e.cbuf \in Live(e)

Views(e) ==
  \A k \in DOMAIN e.ring :
    /\ e.ring[k].mark \in LinesOf(e, e.ring[k].buf)
    /\ e.ring[k].trashed \/ e.ring[k].beg \in LinesOf(e, e.ring[k].buf)

Clean(e) ==
  ~e.suspend => \A k \in DOMAIN e.ring : \A r \in RowsOf(e.ring[k]) :
                  Current(e.screen[r], LinesOf(e, e.ring[k].buf))

Loose(e) == Shape(e) /\ Texts(e) /\ Views(e)

Sound(e) == Loose(e) /\ Clean(e)

(* v is the window w, marked to be drawn anew or not.                      *)
SameView(v, w) ==
  /\ v.id = w.id /\ v.sy = w.sy /\ v.rows = w.rows /\ v.buf = w.buf
  /\ v.beg = w.beg /\ v.mark = w.mark /\ (w.trashed => v.trashed)

(* f is e with more of it to be drawn.                                     *)
Touched(e, f) ==
  /\ f \in Editor(e.height) /\ f.height = e.height
  /\ f.text = e.text /\ f.cbuf = e.cbuf /\ f.at = e.at /\ f.suspend = e.suspend
  /\ Len(f.ring) = Len(e.ring)
  /\ \A k \in DOMAIN e.ring : SameView(f.ring[k], e.ring[k])
  /\ ~e.suspend => \A k \in DOMAIN e.ring : \A r \in RowsOf(e.ring[k]) :
                     f.screen[r].mod \/ f.screen[r] = e.screen[r]

-----------------------------------------------------------------------------
(* Windows and rows.                                                       *)

LEMMA HeightsAre == ASSUME NEW h \in Heights PROVE h \in Nat /\ h >= 5
  BY DisplayAssumption

LEMMA WindowsAre == MaxWindows \in {1, 2}
  BY DisplayAssumption

LEMMA RingIs ==
  ASSUME NEW e, Shape(e)
  PROVE  /\ Len(e.ring) \in {1, 2} /\ Len(e.ring) <= MaxWindows /\ DOMAIN e.ring = 1..Len(e.ring)
         /\ 1 \in DOMAIN e.ring /\ e.ring \in Seq(Window)
         /\ \A k \in DOMAIN e.ring : e.ring[k] \in Window
         /\ e.height \in Nat /\ e.height >= 5
<1>1. e.ring \in Seq(Window)
  BY DEF Shape, Editor
<1>2. Len(e.ring) \in {1, 2} /\ Len(e.ring) <= MaxWindows
  <2>1. Tiled(e.ring, e.height)
    BY DEF Shape
  <2> DEFINE n == Len(e.ring)
  <2>2. n = 1 \/ (n = 2 /\ MaxWindows = 2)
    BY <2>1 DEF Tiled
  <2> HIDE DEF n
  <2>3. n \in {1, 2} /\ n <= MaxWindows
    BY <2>2, WindowsAre
  <2> QED
    BY <2>3 DEF n
<1>3. DOMAIN e.ring = 1..Len(e.ring) /\ 1 \in DOMAIN e.ring
  BY <1>1, <1>2
<1>4. \A k \in DOMAIN e.ring : e.ring[k] \in Window
  BY <1>1, <1>3, ElementOfSeq
<1>5. e.height \in Nat /\ e.height >= 5
  BY HeightsAre DEF Shape
<1> QED
  BY <1>1, <1>2, <1>3, <1>4, <1>5

(* The windows are above the last row, of two rows at least, and apart.    *)
LEMMA RowsAre ==
  ASSUME NEW e, Shape(e)
  PROVE  /\ \A k \in DOMAIN e.ring :
              /\ e.ring[k].sy \in Nat /\ e.ring[k].rows \in Nat /\ e.ring[k].rows >= 2
              /\ e.ring[k].sy + e.ring[k].rows < e.height - 1
              /\ RowsOf(e.ring[k]) \subseteq 0..(e.height - 1)
              /\ e.ring[k].sy \in RowsOf(e.ring[k])
              /\ e.ring[k].sy + e.ring[k].rows - 1 \in RowsOf(e.ring[k])
         /\ \A k, l \in DOMAIN e.ring : k # l => RowsOf(e.ring[k]) \cap RowsOf(e.ring[l]) = {}
<1> DEFINE h == e.height
<1>1. /\ Len(e.ring) \in {1, 2} /\ DOMAIN e.ring = 1..Len(e.ring)
      /\ \A k \in DOMAIN e.ring : e.ring[k] \in Window
      /\ h \in Nat /\ h >= 5
  BY RingIs
<1>2. \A k \in DOMAIN e.ring : e.ring[k].sy \in Nat /\ e.ring[k].rows \in Nat
  BY <1>1 DEF Window
<1>3. Tiled(e.ring, h)
  BY DEF Shape
<1> HIDE DEF h
<1>4. ASSUME NEW k \in DOMAIN e.ring
      PROVE  e.ring[k].rows >= 2 /\ e.ring[k].sy + e.ring[k].rows < h - 1
  <2>1. CASE Len(e.ring) = 1
    BY <1>1, <1>2, <1>3, <2>1 DEF Tiled
  <2>2. CASE Len(e.ring) = 2
    <3>1. k = 1 \/ k = 2
      BY <1>1, <2>2
    <3> QED
      BY <1>1, <1>2, <1>3, <2>2, <3>1 DEF Tiled, Stacked
  <2> QED
    BY <1>1, <2>1, <2>2
<1>5. ASSUME NEW k \in DOMAIN e.ring
      PROVE  /\ RowsOf(e.ring[k]) \subseteq 0..(h - 1)
             /\ e.ring[k].sy \in RowsOf(e.ring[k])
             /\ e.ring[k].sy + e.ring[k].rows - 1 \in RowsOf(e.ring[k])
  <2> DEFINE y == e.ring[k].sy
             p == e.ring[k].rows
  <2>1. y \in Nat /\ p \in Nat /\ h \in Nat /\ p >= 2 /\ y + p < h - 1
    BY <1>1, <1>2, <1>4
  <2>2. RowsOf(e.ring[k]) = y..y + p - 1
    BY DEF RowsOf
  <2> HIDE DEF y, p
  <2>3. y..y + p - 1 \subseteq 0..h - 1 /\ y \in y..y + p - 1 /\ y + p - 1 \in y..y + p - 1
    BY ONLY <2>1
  <2> QED
    BY <2>2, <2>3 DEF y, p
<1>6. ASSUME NEW k \in DOMAIN e.ring, NEW l \in DOMAIN e.ring, k # l
      PROVE  RowsOf(e.ring[k]) \cap RowsOf(e.ring[l]) = {}
  <2>1. Len(e.ring) = 2 /\ ((k = 1 /\ l = 2) \/ (k = 2 /\ l = 1))
    BY <1>1, <1>6
  <2>2. Stacked(e.ring[1], e.ring[2], h) \/ Stacked(e.ring[2], e.ring[1], h)
    BY <1>3, <2>1 DEF Tiled
  <2>3. RowsOf(e.ring[1]) \cap RowsOf(e.ring[2]) = {}
    BY <1>1, <1>2, <2>1, <2>2 DEF Stacked, RowsOf
  <2> QED
    BY <2>1, <2>3
<1> QED
  BY <1>2, <1>4, <1>5, <1>6 DEF h

LEMMA TouchedShape ==
  ASSUME NEW e, Shape(e), NEW f, Touched(e, f)
  PROVE  Shape(f) /\ DOMAIN f.ring = DOMAIN e.ring
<1>1. /\ e.height \in Heights /\ Tiled(e.ring, e.height) /\ DOMAIN e.ring = 1..Len(e.ring)
      /\ Len(e.ring) \in {1, 2}
  BY RingIs DEF Shape
<1>2. DOMAIN f.ring = DOMAIN e.ring
  <2>1. f.ring \in Seq(Window)
    BY DEF Touched, Editor
  <2> QED
    BY <1>1, <2>1 DEF Touched
<1>3. Tiled(f.ring, f.height)
  <2>1. CASE Len(e.ring) = 1
    <3>1. 1 \in DOMAIN e.ring
      BY <1>1, <2>1
    <3> QED
      BY <1>1, <2>1, <3>1 DEF Touched, Tiled, SameView
  <2>2. CASE Len(e.ring) = 2
    <3>1. 1 \in DOMAIN e.ring /\ 2 \in DOMAIN e.ring
      BY <1>1, <2>2
    <3>2. SameView(f.ring[1], e.ring[1]) /\ SameView(f.ring[2], e.ring[2]) /\ Len(f.ring) = 2 /\ f.height = e.height
      BY <2>2, <3>1 DEF Touched
    <3> QED
      BY <1>1, <2>2, <3>2 DEF Tiled, Stacked, SameView
  <2> QED
    BY <1>1, <2>1, <2>2
<1> QED
  BY <1>1, <1>2, <1>3 DEF Touched, Shape

LEMMA TouchedLoose ==
  ASSUME NEW e, Loose(e), NEW f, Touched(e, f)
  PROVE  Loose(f) /\ DOMAIN f.ring = DOMAIN e.ring /\ \A b : LinesOf(f, b) = LinesOf(e, b)
<1>1. Shape(f) /\ DOMAIN f.ring = DOMAIN e.ring
  BY TouchedShape DEF Loose
<1>2. \A b : LinesOf(f, b) = LinesOf(e, b)
  BY DEF Touched, LinesOf
<1>3. Texts(f)
  BY <1>2 DEF Loose, Texts, Live, Touched
<1>4. Views(f)
  BY <1>1, <1>2 DEF Loose, Views, Touched, SameView
<1> QED
  BY <1>1, <1>2, <1>3, <1>4 DEF Loose

LEMMA TouchedSound ==
  ASSUME NEW e, Sound(e), NEW f, Touched(e, f)
  PROVE  Sound(f)
<1>1. Loose(f) /\ DOMAIN f.ring = DOMAIN e.ring /\ \A b : LinesOf(f, b) = LinesOf(e, b)
  BY TouchedLoose DEF Sound
<1>2. Clean(f)
  <2> SUFFICES ASSUME ~f.suspend, NEW k \in DOMAIN f.ring, NEW r \in RowsOf(f.ring[k])
               PROVE  Current(f.screen[r], LinesOf(f, f.ring[k].buf))
    BY DEF Clean
  <2>1. k \in DOMAIN e.ring /\ ~e.suspend /\ SameView(f.ring[k], e.ring[k])
    BY <1>1 DEF Touched
  <2>2. r \in RowsOf(e.ring[k]) /\ f.ring[k].buf = e.ring[k].buf
    BY <2>1 DEF RowsOf, SameView
  <2>3. f.screen[r].mod \/ f.screen[r] = e.screen[r]
    BY <2>1, <2>2 DEF Touched
  <2>4. Current(e.screen[r], LinesOf(e, e.ring[k].buf))
    BY <2>1, <2>2 DEF Sound, Clean
  <2> QED
    BY <1>1, <2>2, <2>3, <2>4 DEF Current
<1> QED
  BY <1>1, <1>2 DEF Sound

LEMMA TouchedTwice ==
  ASSUME NEW e, NEW f, NEW g, Touched(e, f), Touched(f, g), DOMAIN f.ring = DOMAIN e.ring
  PROVE  Touched(e, g)
<1>1. \A k \in DOMAIN e.ring : SameView(g.ring[k], e.ring[k]) /\ RowsOf(f.ring[k]) = RowsOf(e.ring[k])
  BY DEF Touched, SameView, RowsOf
<1>2. ASSUME ~e.suspend, NEW k \in DOMAIN e.ring, NEW r \in RowsOf(e.ring[k])
      PROVE  g.screen[r].mod \/ g.screen[r] = e.screen[r]
  BY <1>1, <1>2 DEF Touched
<1> QED
  BY <1>1, <1>2 DEF Touched


-----------------------------------------------------------------------------
(* Editors with other rows or windows.                                     *)

LEMMA MapIsSeq ==
  ASSUME NEW S, NEW n \in Nat, NEW g \in [1..n -> S]
  PROVE  g \in Seq(S) /\ Len(g) = n /\ DOMAIN g = 1..n
  BY SeqDef

(* All but the windows and the rows.                                       *)
SameRest(e, f) ==
  /\ f.height = e.height /\ f.text = e.text /\ f.cbuf = e.cbuf /\ f.at = e.at
  /\ f.suspend = e.suspend /\ f.motion = e.motion /\ f.last = e.last /\ f.astray = e.astray

WithScreen(e, s) == [e EXCEPT !.screen = s]
WithRing(e, s) == [e EXCEPT !.ring = s]

LEMMA WithScreenIs ==
  ASSUME NEW h, NEW e \in Editor(h), NEW s \in [0..h - 1 -> Row]
  PROVE  /\ WithScreen(e, s) \in Editor(h)
         /\ WithScreen(e, s).screen = s /\ WithScreen(e, s).ring = e.ring /\ SameRest(e, WithScreen(e, s))
  BY DEF Editor, WithScreen, SameRest

LEMMA WithRingIs ==
  ASSUME NEW h, NEW e \in Editor(h), NEW s \in Seq(Window)
  PROVE  /\ WithRing(e, s) \in Editor(h)
         /\ WithRing(e, s).ring = s /\ WithRing(e, s).screen = e.screen /\ SameRest(e, WithRing(e, s))
  BY DEF Editor, WithRing, SameRest

-----------------------------------------------------------------------------
(* Marking.                                                                *)

LEMMA MarkedIs ==
  ASSUME NEW h, NEW e \in Editor(h), NEW rows
  PROVE  /\ Marked(e, rows) \in Editor(h) /\ Marked(e, rows).ring = e.ring /\ SameRest(e, Marked(e, rows))
         /\ \A r \in 0..h - 1 : Marked(e, rows).screen[r] =
              IF r \in rows THEN [e.screen[r] EXCEPT !.mod = TRUE] ELSE e.screen[r]
<1> DEFINE s == [r \in DOMAIN e.screen |-> IF r \in rows THEN [e.screen[r] EXCEPT !.mod = TRUE] ELSE e.screen[r]]
<1>1. e.screen \in [0..h - 1 -> Row] /\ DOMAIN e.screen = 0..h - 1
  BY DEF Editor
<1>2. ASSUME NEW r \in 0..h - 1 PROVE s[r] \in Row
  <2>1. e.screen[r] \in Row
    BY <1>1
  <2>2. [e.screen[r] EXCEPT !.mod = TRUE] \in Row
    BY <2>1 DEF Row
  <2> QED
    BY <1>1, <2>1, <2>2
<1>3. s \in [0..h - 1 -> Row]
  BY <1>1, <1>2
<1>4. \A r \in 0..h - 1 : s[r] = IF r \in rows THEN [e.screen[r] EXCEPT !.mod = TRUE] ELSE e.screen[r]
  BY <1>1
<1>5. Marked(e, rows) = WithScreen(e, s)
  BY DEF Marked, WithScreen
<1> HIDE DEF s
<1>6. /\ WithScreen(e, s) \in Editor(h) /\ WithScreen(e, s).ring = e.ring /\ SameRest(e, WithScreen(e, s))
      /\ WithScreen(e, s).screen = s
  BY ONLY <1>3, e \in Editor(h), WithScreenIs
<1> QED
  BY ONLY <1>4, <1>5, <1>6

LEMMA ForgottenIs ==
  ASSUME NEW h, NEW e \in Editor(h), NEW rows
  PROVE  /\ Forgotten(e, rows) \in Editor(h) /\ Forgotten(e, rows).ring = e.ring /\ SameRest(e, Forgotten(e, rows))
         /\ \A r \in 0..h - 1 : Forgotten(e, rows).screen[r] =
              IF r \in rows THEN [e.screen[r] EXCEPT !.line = None] ELSE e.screen[r]
<1> DEFINE s == [r \in DOMAIN e.screen |-> IF r \in rows THEN [e.screen[r] EXCEPT !.line = None] ELSE e.screen[r]]
<1>1. e.screen \in [0..h - 1 -> Row] /\ DOMAIN e.screen = 0..h - 1
  BY DEF Editor
<1>2. ASSUME NEW r \in 0..h - 1 PROVE s[r] \in Row
  <2>1. e.screen[r] \in Row
    BY <1>1
  <2>2. [e.screen[r] EXCEPT !.line = None] \in Row
    BY <2>1 DEF Row
  <2> QED
    BY <1>1, <2>1, <2>2
<1>3. s \in [0..h - 1 -> Row]
  BY <1>1, <1>2
<1>4. \A r \in 0..h - 1 : s[r] = IF r \in rows THEN [e.screen[r] EXCEPT !.line = None] ELSE e.screen[r]
  BY <1>1
<1>5. Forgotten(e, rows) = WithScreen(e, s)
  BY DEF Forgotten, WithScreen
<1> HIDE DEF s
<1>6. /\ WithScreen(e, s) \in Editor(h) /\ WithScreen(e, s).ring = e.ring /\ SameRest(e, WithScreen(e, s))
      /\ WithScreen(e, s).screen = s
  BY ONLY <1>3, e \in Editor(h), WithScreenIs
<1> QED
  BY ONLY <1>4, <1>5, <1>6

LEMMA OutdatedIs ==
  ASSUME NEW h, NEW e \in Editor(h), NEW ls
  PROVE  /\ Outdated(e, ls) \in Editor(h) /\ Outdated(e, ls).ring = e.ring /\ SameRest(e, Outdated(e, ls))
         /\ \A r \in 0..h - 1 : Outdated(e, ls).screen[r] =
              IF e.screen[r].shown \in ls THEN [e.screen[r] EXCEPT !.shown = Old] ELSE e.screen[r]
<1> DEFINE s == [r \in DOMAIN e.screen |->
                  IF e.screen[r].shown \in ls THEN [e.screen[r] EXCEPT !.shown = Old] ELSE e.screen[r]]
<1>1. e.screen \in [0..h - 1 -> Row] /\ DOMAIN e.screen = 0..h - 1
  BY DEF Editor
<1>2. ASSUME NEW r \in 0..h - 1 PROVE s[r] \in Row
  <2>1. e.screen[r] \in Row
    BY <1>1
  <2>2. [e.screen[r] EXCEPT !.shown = Old] \in Row
    BY <2>1 DEF Row
  <2> QED
    BY <1>1, <2>1, <2>2
<1>3. s \in [0..h - 1 -> Row]
  BY <1>1, <1>2
<1>4. \A r \in 0..h - 1 : s[r] = IF e.screen[r].shown \in ls THEN [e.screen[r] EXCEPT !.shown = Old] ELSE e.screen[r]
  BY <1>1
<1>5. Outdated(e, ls) = WithScreen(e, s)
  BY DEF Outdated, WithScreen
<1> HIDE DEF s
<1>6. /\ WithScreen(e, s) \in Editor(h) /\ WithScreen(e, s).ring = e.ring /\ SameRest(e, WithScreen(e, s))
      /\ WithScreen(e, s).screen = s
  BY ONLY <1>3, e \in Editor(h), WithScreenIs
<1> QED
  BY ONLY <1>4, <1>5, <1>6


-----------------------------------------------------------------------------
(* Flags.                                                                  *)

LEMMA TrashedIs ==
  ASSUME NEW h, NEW e \in Editor(h), NEW ks
  PROVE  /\ Trashed(e, ks) \in Editor(h) /\ Trashed(e, ks).screen = e.screen /\ SameRest(e, Trashed(e, ks))
         /\ Len(Trashed(e, ks).ring) = Len(e.ring) /\ DOMAIN Trashed(e, ks).ring = DOMAIN e.ring
         /\ \A k \in DOMAIN e.ring : SameView(Trashed(e, ks).ring[k], e.ring[k])
<1> DEFINE s == [k \in DOMAIN e.ring |-> IF k \in ks THEN [e.ring[k] EXCEPT !.trashed = TRUE] ELSE e.ring[k]]
           n == Len(e.ring)
<1>1. e.ring \in Seq(Window)
  BY DEF Editor
<1>2. n \in Nat /\ DOMAIN e.ring = 1..n
  BY <1>1
<1>3. ASSUME NEW k \in 1..n PROVE s[k] \in Window /\ SameView(s[k], e.ring[k])
  <2>1. e.ring[k] \in Window
    BY <1>1, ElementOfSeq
  <2>2. [e.ring[k] EXCEPT !.trashed = TRUE] \in Window /\ SameView([e.ring[k] EXCEPT !.trashed = TRUE], e.ring[k])
    BY <2>1 DEF Window, SameView
  <2>3. SameView(e.ring[k], e.ring[k])
    BY DEF SameView
  <2>4. s[k] = IF k \in ks THEN [e.ring[k] EXCEPT !.trashed = TRUE] ELSE e.ring[k]
    BY <1>2
  <2> HIDE DEF s
  <2> QED
    BY ONLY <2>1, <2>2, <2>3, <2>4
<1>4. s \in [1..n -> Window]
  BY <1>2, <1>3
<1>5. Trashed(e, ks) = WithRing(e, s)
  BY DEF Trashed, WithRing
<1> HIDE DEF s, n
<1>6. s \in Seq(Window) /\ Len(s) = n /\ DOMAIN s = 1..n
  BY <1>2, <1>4, MapIsSeq
<1>7. /\ WithRing(e, s) \in Editor(h) /\ WithRing(e, s).ring = s /\ WithRing(e, s).screen = e.screen
      /\ SameRest(e, WithRing(e, s))
  BY ONLY <1>6, e \in Editor(h), WithRingIs
<1>8. /\ Trashed(e, ks) \in Editor(h) /\ Trashed(e, ks).screen = e.screen /\ SameRest(e, Trashed(e, ks))
      /\ Trashed(e, ks).ring = s
  BY ONLY <1>5, <1>7
<1> QED
  BY <1>2, <1>3, <1>6, <1>8 DEF n

(* Several changes one after the other.                                    *)
LEMMA TouchedThen ==
  ASSUME NEW e, Shape(e), NEW f, Touched(e, f), NEW g, Touched(f, g)
  PROVE  Touched(e, g)
  BY TouchedShape, TouchedTwice

LEMMA SoundShape == ASSUME NEW e, Sound(e) PROVE Shape(e) /\ e \in Editor(e.height) /\ Texts(e) /\ Views(e) /\ Clean(e)
  BY DEF Sound, Loose, Shape

LEMMA ShapeEditor == ASSUME NEW e, Shape(e) PROVE e \in Editor(e.height)
  BY DEF Shape

LEMMA TouchedSelf == ASSUME NEW e, Shape(e) PROVE Touched(e, e)
  BY ShapeEditor DEF Touched, SameView

LEMMA TrashedTouched == ASSUME NEW e, Shape(e), NEW ks PROVE Touched(e, Trashed(e, ks))
<1>1. e \in Editor(e.height)
  BY DEF Shape
<1>2. /\ Trashed(e, ks) \in Editor(e.height) /\ Trashed(e, ks).screen = e.screen /\ SameRest(e, Trashed(e, ks))
      /\ Len(Trashed(e, ks).ring) = Len(e.ring) /\ DOMAIN Trashed(e, ks).ring = DOMAIN e.ring
      /\ \A k \in DOMAIN e.ring : SameView(Trashed(e, ks).ring[k], e.ring[k])
  BY <1>1, TrashedIs
<1> QED
  BY <1>2 DEF Touched, SameRest

LEMMA TrashedTrashes ==
  ASSUME NEW e, Shape(e), NEW ks, 1 \in ks
  PROVE  JWindow(Trashed(e, ks)).trashed
<1> DEFINE v == TRUE
           s == [k \in DOMAIN e.ring |-> IF k \in ks THEN [e.ring[k] EXCEPT !.trashed = v] ELSE e.ring[k]]
           f == WithRing(e, s)
<1>1. v /\ f = Trashed(e, ks)
  BY DEF Trashed, WithRing
<1> HIDE DEF v
<1>2. e \in Editor(e.height) /\ 1 \in DOMAIN e.ring /\ e.ring[1] \in Window
  BY ShapeEditor, RingIs
<1>3. s[1].trashed = v
  BY <1>2 DEF Window
<1>4. f.ring = s
  BY <1>2 DEF WithRing, Editor
<1> QED
  BY <1>1, <1>3, <1>4 DEF JWindow

(* Other rows of the same windows, each as it was or marked.               *)
LEMMA RowsTouched ==
  ASSUME NEW e, Shape(e), NEW f \in Editor(e.height), f.ring = e.ring, SameRest(e, f),
         ~e.suspend => \A k \in DOMAIN e.ring : \A r \in RowsOf(e.ring[k]) :
                         f.screen[r].mod \/ f.screen[r] = e.screen[r]
  PROVE  Touched(e, f)
  BY DEF Touched, SameRest, SameView

LEMMA RowIs ==
  ASSUME NEW e, Shape(e), NEW k \in DOMAIN e.ring, NEW r \in RowsOf(e.ring[k])
  PROVE  r \in 0..e.height - 1 /\ e.screen[r] \in Row
<1>1. r \in 0..e.height - 1
  BY RowsAre
<1> QED
  BY <1>1 DEF Shape, Editor

LEMMA MarkedTouched == ASSUME NEW e, Shape(e), NEW rows PROVE Touched(e, Marked(e, rows))
<1>1. e \in Editor(e.height)
  BY DEF Shape
<1>2. /\ Marked(e, rows) \in Editor(e.height) /\ Marked(e, rows).ring = e.ring /\ SameRest(e, Marked(e, rows))
      /\ \A r \in 0..e.height - 1 : Marked(e, rows).screen[r] =
           IF r \in rows THEN [e.screen[r] EXCEPT !.mod = TRUE] ELSE e.screen[r]
  BY ONLY <1>1, MarkedIs
<1>3. ASSUME NEW k \in DOMAIN e.ring, NEW r \in RowsOf(e.ring[k])
      PROVE  Marked(e, rows).screen[r].mod \/ Marked(e, rows).screen[r] = e.screen[r]
  <2>1. r \in 0..e.height - 1 /\ e.screen[r] \in Row
    BY RowIs
  <2>2. [e.screen[r] EXCEPT !.mod = TRUE].mod
    BY <2>1 DEF Row
  <2> QED
    BY <1>2, <2>1, <2>2
<1> QED
  BY <1>2, <1>3, RowsTouched

LEMMA TouchWindowTouched == ASSUME NEW e, Shape(e) PROVE Touched(e, TouchWindow(e))
<1> DEFINE f == Marked(e, RowsOf(JWindow(e)))
<1>1. Touched(e, f)
  BY MarkedTouched
<1>2. Shape(f)
  BY <1>1, TouchedShape
<1>3. Touched(f, Trashed(f, {1}))
  BY <1>2, TrashedTouched
<1>4. Touched(e, Trashed(f, {1}))
  BY <1>1, <1>3, TouchedThen
<1> QED
  BY <1>4, TouchedSelf DEF TouchWindow

LEMMA TouchScreenTouched == ASSUME NEW e, Shape(e) PROVE Touched(e, TouchScreen(e))
<1> DEFINE f == Marked(e, WindowRows(e))
<1>1. Touched(e, f)
  BY MarkedTouched
<1>2. Shape(f)
  BY <1>1, TouchedShape
<1>3. Touched(f, Trashed(f, DOMAIN e.ring))
  BY <1>2, TrashedTouched
<1>4. Touched(e, Trashed(f, DOMAIN e.ring))
  BY <1>1, <1>3, TouchedThen
<1> QED
  BY <1>4, TouchedSelf DEF TouchScreen


LEMMA MarkedMarks ==
  ASSUME NEW e, Shape(e), NEW rows, NEW r \in rows, r \in 0..e.height - 1
  PROVE  Marked(e, rows).screen[r].mod
<1>1. e \in Editor(e.height) /\ e.screen[r] \in Row
  BY DEF Shape, Editor
<1>2. Marked(e, rows).screen[r] = [e.screen[r] EXCEPT !.mod = TRUE]
  BY <1>1, MarkedIs
<1> QED
  BY <1>1, <1>2 DEF Row

LEMMA TouchWindowMarks ==
  ASSUME NEW e, Shape(e), ~e.suspend, NEW r \in RowsOf(JWindow(e))
  PROVE  TouchWindow(e).screen[r].mod
<1> DEFINE f == Marked(e, RowsOf(JWindow(e)))
<1>1. r \in 0..e.height - 1
  BY RingIs, RowIs DEF JWindow
<1>2. f.screen[r].mod
  BY <1>1, MarkedMarks
<1>3. f \in Editor(e.height)
  BY MarkedIs, ShapeEditor
<1> HIDE DEF f
<1>4. Trashed(f, {1}).screen = f.screen
  BY <1>3, TrashedIs
<1> QED
  BY <1>2, <1>4 DEF TouchWindow, f

LEMMA TouchScreenMarks ==
  ASSUME NEW e, Shape(e), ~e.suspend, NEW k \in DOMAIN e.ring, NEW r \in RowsOf(e.ring[k])
  PROVE  TouchScreen(e).screen[r].mod
<1> DEFINE f == Marked(e, WindowRows(e))
<1>1. r \in 0..e.height - 1 /\ r \in WindowRows(e)
  BY RowIs DEF WindowRows
<1>2. f.screen[r].mod
  BY <1>1, MarkedMarks
<1>3. f \in Editor(e.height)
  BY MarkedIs, ShapeEditor
<1> HIDE DEF f
<1>4. Trashed(f, DOMAIN e.ring).screen = f.screen
  BY <1>3, TrashedIs
<1> QED
  BY <1>2, <1>4 DEF TouchScreen, f

(* Rows that are marked and forgotten.                                     *)
LEMMA ForgottenTouched ==
  ASSUME NEW e, Shape(e), NEW rows,
         ~e.suspend => \A r \in rows \cap (0..e.height - 1) : e.screen[r].mod
  PROVE  /\ Touched(e, Forgotten(e, rows))
         /\ \A r \in 0..e.height - 1 : Forgotten(e, rows).screen[r].mod = e.screen[r].mod
         /\ \A r \in 0..e.height - 1 : r \notin rows => Forgotten(e, rows).screen[r] = e.screen[r]
<1>1. e \in Editor(e.height) /\ \A r \in 0..e.height - 1 : e.screen[r] \in Row
  BY DEF Shape, Editor
<1>2. /\ Forgotten(e, rows) \in Editor(e.height) /\ Forgotten(e, rows).ring = e.ring /\ SameRest(e, Forgotten(e, rows))
      /\ \A r \in 0..e.height - 1 : Forgotten(e, rows).screen[r] =
           IF r \in rows THEN [e.screen[r] EXCEPT !.line = None] ELSE e.screen[r]
  BY ONLY <1>1, ForgottenIs
<1>3. \A r \in 0..e.height - 1 : [e.screen[r] EXCEPT !.line = None].mod = e.screen[r].mod
  BY <1>1 DEF Row
<1>4. \A r \in 0..e.height - 1 : Forgotten(e, rows).screen[r].mod = e.screen[r].mod
  BY ONLY <1>2, <1>3
<1>5. ASSUME ~e.suspend, NEW k \in DOMAIN e.ring, NEW r \in RowsOf(e.ring[k])
      PROVE  Forgotten(e, rows).screen[r].mod \/ Forgotten(e, rows).screen[r] = e.screen[r]
  <2>1. r \in 0..e.height - 1
    BY RowIs
  <2> QED
    BY <1>2, <1>4, <1>5, <2>1
<1>6. Touched(e, Forgotten(e, rows))
  BY <1>2, <1>5, RowsTouched
<1> QED
  BY <1>2, <1>4, <1>6

LEMMA TouchWindowHardTouched ==
  ASSUME NEW e, Shape(e), NEW ks
  PROVE  /\ Touched(e, TouchWindowHard(e, ks))
         /\ \A k \in ks \cap DOMAIN e.ring : \A r \in RowsOf(e.ring[k]) : TouchWindowHard(e, ks).screen[r].mod
<1> DEFINE rows == UNION {RowsOf(e.ring[k]) : k \in ks}
           f == Marked(e, rows)
           g == Forgotten(f, rows)
<1>1. Touched(e, f)
  BY MarkedTouched
<1>2. Shape(f) /\ f.height = e.height
  BY <1>1, TouchedShape DEF Touched
<1>3. \A r \in rows \cap (0..f.height - 1) : f.screen[r].mod
  BY <1>2, MarkedMarks
<1> HIDE DEF rows, f
<1>4. /\ Touched(f, g)
      /\ \A r \in 0..f.height - 1 : g.screen[r].mod = f.screen[r].mod
  BY <1>2, <1>3, ForgottenTouched
<1> HIDE DEF g
<1>5. Touched(e, g) /\ Shape(g)
  BY <1>1, <1>2, <1>4, TouchedThen, TouchedShape
<1>6. Touched(e, Trashed(g, ks)) /\ Trashed(g, ks).screen = g.screen
  BY <1>5, TrashedTouched, TouchedThen, TrashedIs, ShapeEditor
<1>7. ASSUME NEW k \in ks \cap DOMAIN e.ring, NEW r \in RowsOf(e.ring[k])
      PROVE  g.screen[r].mod
  <2>1. r \in 0..f.height - 1
    BY <1>2, RowIs
  <2>2. r \in rows
    BY DEF rows
  <2> QED
    BY <1>3, <1>4, <2>1, <2>2
<1> QED
  BY <1>6, <1>7 DEF TouchWindowHard, f, g, rows

LEMMA RegisterChangeTouched ==
  ASSUME NEW e, Shape(e), NEW l
  PROVE  /\ Touched(e, RegisterChange(e, l))
         /\ ~e.suspend => \A k \in DOMAIN e.ring : \A r \in RowsOf(e.ring[k]) :
                            IF e.screen[r].line = l THEN RegisterChange(e, l).screen[r].mod
                            ELSE RegisterChange(e, l).screen[r] = e.screen[r]
<1> DEFINE at == RowsWith(e, l)
           f == Marked(e, at)
           ks == {k \in DOMAIN e.ring : k = 1 \/ RowsOf(e.ring[k]) \cap at # {}}
<1>1. Touched(e, f)
  BY MarkedTouched
<1>2. Shape(f) /\ f.height = e.height
  BY <1>1, TouchedShape DEF Touched
<1>3. ASSUME NEW k \in DOMAIN e.ring, NEW r \in RowsOf(e.ring[k])
      PROVE  IF e.screen[r].line = l THEN f.screen[r].mod ELSE f.screen[r] = e.screen[r]
  <2>1. r \in 0..e.height - 1 /\ r \in WindowRows(e)
    BY RowIs DEF WindowRows
  <2>2. r \in at <=> e.screen[r].line = l
    BY <2>1 DEF RowsWith
  <2>3. f.screen[r] = IF r \in at THEN [e.screen[r] EXCEPT !.mod = TRUE] ELSE e.screen[r]
    BY <2>1, ShapeEditor, MarkedIs
  <2> QED
    BY <2>1, <2>2, <2>3, MarkedMarks
<1> HIDE DEF at, f, ks
<1>4. Touched(e, Trashed(f, ks)) /\ Trashed(f, ks).screen = f.screen
  BY <1>1, <1>2, TrashedTouched, TouchedThen, TrashedIs, ShapeEditor
<1>5. ~e.suspend => RegisterChange(e, l) = Trashed(f, ks)
  BY DEF RegisterChange, f, ks, at
<1>6. e.suspend => RegisterChange(e, l) = e
  BY DEF RegisterChange
<1>7. Touched(e, e)
  BY TouchedSelf
<1> QED
  BY <1>3, <1>4, <1>5, <1>6, <1>7

LEMMA RegisterDeletionTouched ==
  ASSUME NEW e, Shape(e), NEW l
  PROVE  /\ Touched(e, RegisterDeletion(e, l))
         /\ ~e.suspend => \A k \in DOMAIN e.ring : \A r \in RowsOf(e.ring[k]) :
                            IF e.screen[r].line = l THEN RegisterDeletion(e, l).screen[r].mod
                            ELSE RegisterDeletion(e, l).screen[r] = e.screen[r]
<1>1. CASE e.suspend
  BY <1>1, TouchedSelf DEF RegisterDeletion
<1>2. CASE ~e.suspend
  <2> DEFINE at == RowsWith(e, l)
             f == RegisterChange(e, l)
             g == Forgotten(f, at)
  <2>1. Touched(e, f)
    BY RegisterChangeTouched
  <2>2. Shape(f) /\ f.height = e.height /\ DOMAIN f.ring = DOMAIN e.ring
    BY <2>1, TouchedShape DEF Touched
  <2>3. \A k \in DOMAIN e.ring : \A r \in RowsOf(e.ring[k]) :
          IF e.screen[r].line = l THEN f.screen[r].mod ELSE f.screen[r] = e.screen[r]
    BY <1>2, RegisterChangeTouched
  <2>4. \A r \in at : \E k \in DOMAIN e.ring : r \in RowsOf(e.ring[k]) /\ e.screen[r].line = l
    BY DEF RowsWith, WindowRows
  <2> HIDE DEF at, f
  <2>5. \A r \in at \cap (0..f.height - 1) : f.screen[r].mod
    BY <2>3, <2>4
  <2>6. /\ Touched(f, g)
        /\ \A r \in 0..f.height - 1 : g.screen[r].mod = f.screen[r].mod
        /\ \A r \in 0..f.height - 1 : r \notin at => g.screen[r] = f.screen[r]
    BY <2>2, <2>5, ForgottenTouched
  <2> HIDE DEF g
  <2>7. Touched(e, g)
    BY <2>1, <2>6, TouchedThen
  <2>8. ASSUME NEW k \in DOMAIN e.ring, NEW r \in RowsOf(e.ring[k])
        PROVE  IF e.screen[r].line = l THEN g.screen[r].mod ELSE g.screen[r] = e.screen[r]
    <3>1. r \in 0..f.height - 1
      BY <2>2, RowIs
    <3>2. e.screen[r].line # l => r \notin at
      BY <2>4
    <3> QED
      BY <2>3, <2>6, <3>1, <3>2
  <2> QED
    BY <1>2, <2>7, <2>8 DEF RegisterDeletion, f, g, at
<1> QED
  BY <1>1, <1>2

(* Outdated lines, none of them in a row that is not marked.               *)
LEMMA OutdatedTouched ==
  ASSUME NEW e, Shape(e), NEW ls,
         ~e.suspend => \A k \in DOMAIN e.ring : \A r \in RowsOf(e.ring[k]) :
                         e.screen[r].mod \/ e.screen[r].shown \notin ls
  PROVE  Touched(e, Outdated(e, ls))
<1>1. e \in Editor(e.height) /\ \A r \in 0..e.height - 1 : e.screen[r] \in Row
  BY DEF Shape, Editor
<1>2. /\ Outdated(e, ls) \in Editor(e.height) /\ Outdated(e, ls).ring = e.ring /\ SameRest(e, Outdated(e, ls))
      /\ \A r \in 0..e.height - 1 : Outdated(e, ls).screen[r] =
           IF e.screen[r].shown \in ls THEN [e.screen[r] EXCEPT !.shown = Old] ELSE e.screen[r]
  BY ONLY <1>1, OutdatedIs
<1>3. \A r \in 0..e.height - 1 : [e.screen[r] EXCEPT !.shown = Old].mod = e.screen[r].mod
  BY <1>1 DEF Row
<1>5. ASSUME ~e.suspend, NEW k \in DOMAIN e.ring, NEW r \in RowsOf(e.ring[k])
      PROVE  Outdated(e, ls).screen[r].mod \/ Outdated(e, ls).screen[r] = e.screen[r]
  <2>1. r \in 0..e.height - 1
    BY RowIs
  <2> QED
    BY <1>2, <1>3, <1>5, <2>1
<1> QED
  BY <1>2, <1>5, RowsTouched


-----------------------------------------------------------------------------
(* One field changed.                                                      *)

LEMMA TextIs ==
  ASSUME NEW e, Shape(e), Texts(e)
  PROVE  /\ e.cbuf \in Buffers /\ Text(e) \in Seq(Lines) /\ CLine(e) \in LinesOf(e, e.cbuf) /\ CLine(e) \in Lines
         /\ \A b \in Buffers : e.text[b] \in Seq(Lines) /\ LinesOf(e, b) \subseteq Lines
<1>1. e.cbuf \in Buffers /\ e.text \in [Buffers -> Seq(Lines)]
  BY DEF Shape, Editor
<1>2. \A b \in Buffers : e.text[b] \in Seq(Lines)
  BY <1>1
<1>3. ASSUME NEW b \in Buffers PROVE LinesOf(e, b) \subseteq Lines
  <2>1. e.text[b] \in Seq(Lines) /\ DOMAIN e.text[b] = 1..Len(e.text[b])
    BY <1>2
  <2> QED
    BY <2>1, ElementOfSeq DEF LinesOf
<1>4. CLine(e) \in LinesOf(e, e.cbuf)
  BY <1>1 DEF Texts, CLine
<1> QED
  BY <1>1, <1>2, <1>3, <1>4 DEF Text

LEMMA SmallFieldsTouched ==
  ASSUME NEW e, Shape(e)
  PROVE  /\ \A v \in BOOLEAN : Touched(e, [e EXCEPT !.motion = v])
         /\ \A v \in Lines \cup {None} : Touched(e, [e EXCEPT !.last = v])
<1>1. e \in Editor(e.height)
  BY DEF Shape
<1>2. ASSUME NEW v \in BOOLEAN PROVE Touched(e, [e EXCEPT !.motion = v])
  <2> DEFINE f == [e EXCEPT !.motion = v]
  <2>1. /\ f \in Editor(e.height) /\ f.ring = e.ring /\ f.screen = e.screen
        /\ f.height = e.height /\ f.text = e.text /\ f.cbuf = e.cbuf /\ f.at = e.at /\ f.suspend = e.suspend
    BY <1>1 DEF Editor
  <2> HIDE DEF f
  <2>2. Touched(e, f)
    BY <2>1 DEF Touched, SameView
  <2> QED
    BY <2>2 DEF f
<1>3. ASSUME NEW v \in Lines \cup {None} PROVE Touched(e, [e EXCEPT !.last = v])
  <2> DEFINE f == [e EXCEPT !.last = v]
  <2>1. /\ f \in Editor(e.height) /\ f.ring = e.ring /\ f.screen = e.screen
        /\ f.height = e.height /\ f.text = e.text /\ f.cbuf = e.cbuf /\ f.at = e.at /\ f.suspend = e.suspend
    BY <1>1 DEF Editor
  <2> HIDE DEF f
  <2>2. Touched(e, f)
    BY <2>1 DEF Touched, SameView
  <2> QED
    BY <2>2 DEF f
<1> QED
  BY <1>2, <1>3

LEMMA SetHScrollTouched == ASSUME NEW e, Shape(e), Texts(e) PROVE Touched(e, SetHScroll(e))
<1> DEFINE f == IF e.last = None THEN e ELSE RegisterChange(e, e.last)
           g == RegisterChange(f, CLine(e))
           l == CLine(e)
<1>1. Touched(e, f) /\ Shape(f)
  BY RegisterChangeTouched, TouchedSelf, TouchedShape
<1>2. Touched(f, g)
  BY <1>1, RegisterChangeTouched
<1> HIDE DEF f, g
<1>3. Touched(e, g) /\ Shape(g)
  BY <1>1, <1>2, TouchedThen, TouchedShape
<1>4. l \in Lines \cup {None}
  BY TextIs
<1> HIDE DEF l
<1>5. Touched(g, [g EXCEPT !.last = l])
  BY <1>3, <1>4, SmallFieldsTouched
<1>6. Touched(e, [g EXCEPT !.last = l])
  BY <1>3, <1>5, TouchedThen
<1> QED
  BY <1>6, TouchedSelf DEF SetHScroll, f, g, l

(* CINSERT and CDELETE: no row that shows the line is left unmarked.       *)
LEMMA ChangedTouched == ASSUME NEW e, Sound(e), NEW l \in Lines PROVE Touched(e, Changed(e, l))
<1> DEFINE v == FALSE
<1>0. v \in BOOLEAN
  OBVIOUS
<1> DEFINE f == [e EXCEPT !.motion = v]
           g == Outdated(f, {l})
           h == RegisterChange(g, l)
<1>1. Shape(e) /\ Clean(e) /\ e \in Editor(e.height)
  BY SoundShape
<1> HIDE DEF v
<1>2. /\ f \in Editor(e.height) /\ f.ring = e.ring /\ f.screen = e.screen
      /\ f.height = e.height /\ f.text = e.text /\ f.cbuf = e.cbuf /\ f.at = e.at /\ f.suspend = e.suspend
  BY <1>0, <1>1 DEF Editor
<1> HIDE DEF f
<1>3. /\ g \in Editor(e.height) /\ g.ring = e.ring
      /\ g.height = e.height /\ g.text = e.text /\ g.cbuf = e.cbuf /\ g.at = e.at /\ g.suspend = e.suspend
      /\ \A r \in 0..e.height - 1 : g.screen[r] =
           IF e.screen[r].shown \in {l} THEN [e.screen[r] EXCEPT !.shown = Old] ELSE e.screen[r]
  BY <1>2, OutdatedIs DEF SameRest
<1> HIDE DEF g
<1>4. Shape(g)
  BY <1>1, <1>3 DEF Shape
<1>5. /\ Touched(g, h)
      /\ ~g.suspend => \A k \in DOMAIN g.ring : \A r \in RowsOf(g.ring[k]) :
                         IF g.screen[r].line = l THEN h.screen[r].mod ELSE h.screen[r] = g.screen[r]
  BY <1>4, RegisterChangeTouched
<1> HIDE DEF h
<1>6. ASSUME ~e.suspend, NEW k \in DOMAIN e.ring, NEW r \in RowsOf(e.ring[k])
      PROVE  h.screen[r].mod \/ h.screen[r] = e.screen[r]
  <2>1. r \in 0..e.height - 1 /\ e.screen[r] \in Row
    BY <1>1, RowIs
  <2>2. IF g.screen[r].line = l THEN h.screen[r].mod ELSE h.screen[r] = g.screen[r]
    BY <1>3, <1>5, <1>6
  <2>3. Current(e.screen[r], LinesOf(e, e.ring[k].buf))
    BY <1>1, <1>6 DEF Clean
  <2>4. CASE e.screen[r].shown = l
    <3>1. g.screen[r] = [e.screen[r] EXCEPT !.shown = Old]
      BY <1>3, <2>1, <2>4
    <3>2. g.screen[r].mod = e.screen[r].mod /\ g.screen[r].line = e.screen[r].line
      BY <2>1, <3>1 DEF Row
    <3>3. e.screen[r].mod \/ e.screen[r].line = l
      BY <2>3, <2>4, DisplayAssumption DEF Current
    <3> QED
      BY <2>2, <3>2, <3>3
  <2>5. CASE e.screen[r].shown # l
    BY <1>3, <2>1, <2>2, <2>5
  <2> QED
    BY <2>4, <2>5
<1>7. Touched(e, h)
  BY <1>3, <1>5, <1>6 DEF Touched
<1> QED
  BY <1>7 DEF Changed, f, g, h, v

LEMMA ResumedSound ==
  ASSUME NEW e, Sound(e)
  PROVE  /\ Sound(Resumed(e)) /\ ~Resumed(e).suspend /\ Len(Resumed(e).ring) = Len(e.ring)
         /\ Resumed(e).cbuf = e.cbuf /\ Resumed(e).at = e.at /\ Resumed(e).text = e.text
         /\ Resumed(e).height = e.height /\ \A k \in DOMAIN e.ring : SameView(Resumed(e).ring[k], e.ring[k])
<1>1. CASE ~e.suspend
  BY <1>1 DEF Resumed, SameView
<1>2. CASE e.suspend
  <2> DEFINE v == FALSE
  <2>0. v \in BOOLEAN /\ ~v
    OBVIOUS
  <2> DEFINE f == [e EXCEPT !.suspend = v]
             g == TouchScreen(f)
  <2> HIDE DEF v
  <2>0a. e \in Editor(e.height)
    BY SoundShape
  <2>1. /\ f \in Editor(e.height) /\ f.ring = e.ring /\ f.screen = e.screen
        /\ f.height = e.height /\ f.text = e.text /\ f.cbuf = e.cbuf /\ f.at = e.at /\ ~f.suspend
    BY <2>0, <2>0a DEF Editor
  <2> HIDE DEF f
  <2>2. Loose(f)
    <3>1. Shape(e) /\ Texts(e) /\ Views(e)
      BY SoundShape
    <3>2. \A b : LinesOf(f, b) = LinesOf(e, b)
      BY <2>1 DEF LinesOf
    <3>3. Shape(f)
      BY <2>1, <3>1 DEF Shape
    <3>4. Texts(f) /\ Views(f)
      BY <2>1, <3>1, <3>2 DEF Texts, Live, Views
    <3> QED
      BY <3>3, <3>4 DEF Loose
  <2>3. Touched(f, g)
    BY <2>2, TouchScreenTouched DEF Loose
  <2>4. \A k \in DOMAIN f.ring : \A r \in RowsOf(f.ring[k]) : g.screen[r].mod
    BY <2>1, <2>2, TouchScreenMarks DEF Loose
  <2> HIDE DEF g
  <2>5. Loose(g) /\ DOMAIN g.ring = DOMAIN f.ring
    BY <2>2, <2>3, TouchedLoose
  <2>6. Clean(g)
    BY <2>3, <2>4, <2>5 DEF Clean, Current, Touched, SameView, RowsOf
  <2>7. Resumed(e) = g
    BY <1>2 DEF Resumed, f, g, v
  <2> QED
    BY <2>1, <2>3, <2>5, <2>6, <2>7 DEF Sound, Touched
<1> QED
  BY <1>1, <1>2


-----------------------------------------------------------------------------
(* Sequences of lines.                                                     *)

LEMMA PartIs ==
  ASSUME NEW S, NEW t \in Seq(S), NEW m \in Nat, NEW n \in 0..Len(t), m >= 1
  PROVE  /\ SubSeq(t, m, n) \in Seq(S) /\ Len(SubSeq(t, m, n)) = (IF m <= n THEN n - m + 1 ELSE 0)
         /\ \A j \in 1..Len(SubSeq(t, m, n)) : SubSeq(t, m, n)[j] = t[m + j - 1]
<1>1. Len(t) \in Nat
  OBVIOUS
<1>2. \A j \in m..n : t[j] \in S
  BY <1>1, ElementOfSeq
<1> QED
  BY <1>1, <1>2, SubSeqProperties

(* u is t with x at j.                                                     *)
IsInserted(S, u, t, j, x) ==
  /\ u \in Seq(S) /\ Len(u) = Len(t) + 1
  /\ \A m \in 1..Len(t) + 1 : u[m] = IF m < j THEN t[m] ELSE IF m = j THEN x ELSE t[m - 1]

LEMMA InsertAtIs ==
  ASSUME NEW S, NEW t \in Seq(S), NEW j \in 1..Len(t) + 1, NEW x \in S
  PROVE  IsInserted(S, InsertAt(t, j, x), t, j, x)
<1> DEFINE n == Len(t)
           p == SubSeq(t, 1, j - 1)
           q == SubSeq(t, j, n)
           r == p \o <<x>>
<1>1. n \in Nat /\ j \in Nat /\ j >= 1 /\ j <= n + 1
  OBVIOUS
<1>2. p \in Seq(S) /\ Len(p) = j - 1 /\ \A m \in 1..j - 1 : p[m] = t[m]
  <2>1. 1 \in Nat /\ j - 1 \in 0..Len(t) /\ 1 >= 1
    BY <1>1
  <2>2. /\ p \in Seq(S) /\ Len(p) = (IF 1 <= j - 1 THEN j - 1 - 1 + 1 ELSE 0)
        /\ \A m \in 1..Len(p) : p[m] = t[1 + m - 1]
    BY ONLY <2>1, t \in Seq(S), PartIs
  <2> HIDE DEF p
  <2> QED
    BY <1>1, <2>2
<1>3. q \in Seq(S) /\ Len(q) = n - j + 1 /\ \A m \in 1..n - j + 1 : q[m] = t[j + m - 1]
  <2>1. j \in Nat /\ n \in 0..Len(t) /\ j >= 1
    BY <1>1
  <2>2. /\ q \in Seq(S) /\ Len(q) = (IF j <= n THEN n - j + 1 ELSE 0)
        /\ \A m \in 1..Len(q) : q[m] = t[j + m - 1]
    BY ONLY <2>1, t \in Seq(S), PartIs
  <2> HIDE DEF q, n
  <2> QED
    BY <1>1, <2>2
<1>4. InsertAt(t, j, x) = r \o q
  BY DEF InsertAt
<1> HIDE DEF p, q, n
<1>5. r \in Seq(S) /\ Len(r) = j /\ \A m \in 1..j : r[m] = IF m < j THEN t[m] ELSE x
  <2>1. <<x>> \in Seq(S) /\ Len(<<x>>) = 1 /\ <<x>>[1] = x
    OBVIOUS
  <2>2. /\ p \o <<x>> \in Seq(S) /\ Len(p \o <<x>>) = Len(p) + 1
        /\ \A m \in 1..Len(p) + 1 : (p \o <<x>>)[m] = IF m <= Len(p) THEN p[m] ELSE <<x>>[m - Len(p)]
    BY ONLY <1>2, <2>1, ConcatProperties
  <2>3. /\ r \in Seq(S) /\ Len(r) = j - 1 + 1
        /\ \A m \in 1..j - 1 + 1 : r[m] = IF m <= j - 1 THEN p[m] ELSE <<x>>[m - (j - 1)]
    BY ONLY <1>2, <2>2
  <2> HIDE DEF r
  <2> QED
    BY <1>1, <1>2, <2>1, <2>3
<1> HIDE DEF r
<1>6. /\ r \o q \in Seq(S) /\ Len(r \o q) = Len(r) + Len(q)
      /\ \A m \in 1..Len(r) + Len(q) : (r \o q)[m] = IF m <= Len(r) THEN r[m] ELSE q[m - Len(r)]
  BY ONLY <1>3, <1>5, ConcatProperties
<1>7. /\ r \o q \in Seq(S) /\ Len(r \o q) = j + (n - j + 1)
      /\ \A m \in 1..j + (n - j + 1) : (r \o q)[m] = IF m <= j THEN r[m] ELSE q[m - j]
  BY ONLY <1>3, <1>5, <1>6
<1> DEFINE u == r \o q
<1> HIDE DEF u
<1>8. u \in Seq(S) /\ Len(u) = n + 1 /\ \A m \in 1..n + 1 : u[m] = IF m <= j THEN r[m] ELSE q[m - j]
  BY <1>1, <1>7 DEF u
<1>9. ASSUME NEW m \in 1..n + 1 PROVE u[m] = IF m < j THEN t[m] ELSE IF m = j THEN x ELSE t[m - 1]
  <2>1. CASE m <= j
    BY <1>1, <1>5, <1>8, <2>1
  <2>2. CASE m > j
    <3>1. m - j \in 1..n - j + 1
      BY <1>1, <2>2
    <3>2. q[m - j] = t[j + (m - j) - 1] /\ j + (m - j) - 1 = m - 1
      BY <1>1, <1>3, <3>1
    <3> QED
      BY <1>1, <1>8, <2>2, <3>2
  <2> QED
    BY <1>1, <2>1, <2>2
<1> QED
  BY <1>4, <1>8, <1>9 DEF u, n, IsInserted

LEMMA RemoveAtIs ==
  ASSUME NEW S, NEW t \in Seq(S), NEW j \in 1..Len(t)
  PROVE  /\ RemoveAt(t, j) \in Seq(S) /\ Len(RemoveAt(t, j)) = Len(t) - 1
         /\ \A m \in 1..Len(t) - 1 : RemoveAt(t, j)[m] = IF m < j THEN t[m] ELSE t[m + 1]
<1> DEFINE n == Len(t)
           p == SubSeq(t, 1, j - 1)
           q == SubSeq(t, j + 1, n)
<1>1. n \in Nat /\ j \in Nat /\ j >= 1 /\ j <= n
  OBVIOUS
<1>2. p \in Seq(S) /\ Len(p) = j - 1 /\ \A m \in 1..j - 1 : p[m] = t[m]
  <2>1. 1 \in Nat /\ j - 1 \in 0..Len(t) /\ 1 >= 1
    BY <1>1
  <2>2. /\ p \in Seq(S) /\ Len(p) = (IF 1 <= j - 1 THEN j - 1 - 1 + 1 ELSE 0)
        /\ \A m \in 1..Len(p) : p[m] = t[1 + m - 1]
    BY ONLY <2>1, t \in Seq(S), PartIs
  <2> HIDE DEF p
  <2> QED
    BY <1>1, <2>2
<1>3. q \in Seq(S) /\ Len(q) = n - j /\ \A m \in 1..n - j : q[m] = t[j + m]
  <2> DEFINE k == j + 1
  <2>1. k \in Nat /\ n \in 0..Len(t) /\ k >= 1 /\ k = j + 1
    BY <1>1
  <2> HIDE DEF k
  <2>2. /\ SubSeq(t, k, n) \in Seq(S) /\ Len(SubSeq(t, k, n)) = (IF k <= n THEN n - k + 1 ELSE 0)
        /\ \A m \in 1..Len(SubSeq(t, k, n)) : SubSeq(t, k, n)[m] = t[k + m - 1]
    BY ONLY <2>1, t \in Seq(S), PartIs
  <2>3. q = SubSeq(t, k, n)
    BY DEF k
  <2> HIDE DEF q, n
  <2>4. q \in Seq(S) /\ Len(q) = n - j /\ \A m \in 1..n - j : q[m] = t[k + m - 1] /\ k + m - 1 = j + m
    BY <1>1, <2>1, <2>2, <2>3
  <2> QED
    BY <2>4
<1>4. RemoveAt(t, j) = p \o q
  BY DEF RemoveAt
<1> HIDE DEF p, q, n
<1>6. /\ p \o q \in Seq(S) /\ Len(p \o q) = Len(p) + Len(q)
      /\ \A m \in 1..Len(p) + Len(q) : (p \o q)[m] = IF m <= Len(p) THEN p[m] ELSE q[m - Len(p)]
  BY ONLY <1>2, <1>3, ConcatProperties
<1>7. /\ p \o q \in Seq(S) /\ Len(p \o q) = j - 1 + (n - j)
      /\ \A m \in 1..j - 1 + (n - j) : (p \o q)[m] = IF m <= j - 1 THEN p[m] ELSE q[m - (j - 1)]
  BY ONLY <1>2, <1>3, <1>6
<1> DEFINE u == p \o q
<1> HIDE DEF u
<1>8. u \in Seq(S) /\ Len(u) = n - 1 /\ \A m \in 1..n - 1 : u[m] = IF m <= j - 1 THEN p[m] ELSE q[m - (j - 1)]
  BY <1>1, <1>7 DEF u
<1>9. ASSUME NEW m \in 1..n - 1 PROVE u[m] = IF m < j THEN t[m] ELSE t[m + 1]
  <2>1. CASE m < j
    BY <1>1, <1>2, <1>8, <2>1
  <2>2. CASE m >= j
    <3>1. m - (j - 1) \in 1..n - j
      BY <1>1, <2>2
    <3>2. q[m - (j - 1)] = t[j + (m - (j - 1))] /\ j + (m - (j - 1)) = m + 1
      BY <1>1, <1>3, <3>1
    <3> QED
      BY <1>1, <1>8, <2>2, <3>2
  <2> QED
    BY <1>1, <2>1, <2>2
<1> QED
  BY <1>4, <1>8, <1>9 DEF u, n


-----------------------------------------------------------------------------
(* Other texts, and windows moved along them.                              *)

LinesIn(t) == {t[i] : i \in DOMAIN t}

WithText(e, t, a) == [e EXCEPT !.text = t, !.at = a]

LEMMA WithTextIs ==
  ASSUME NEW h, NEW e \in Editor(h), NEW t \in [Buffers -> Seq(Lines)], NEW a \in [Buffers -> Lines \cup {None}]
  PROVE  /\ WithText(e, t, a) \in Editor(h) /\ WithText(e, t, a).text = t /\ WithText(e, t, a).at = a
         /\ WithText(e, t, a).ring = e.ring /\ WithText(e, t, a).screen = e.screen
         /\ WithText(e, t, a).height = e.height /\ WithText(e, t, a).cbuf = e.cbuf
         /\ WithText(e, t, a).suspend = e.suspend
  BY DEF Editor, WithText

(* t is a text for b, with the cursor at l.                                *)
Fits(e, b, t, l) ==
  /\ Injective(t) /\ \A c \in Buffers : c # b => LinesIn(t) \cap LinesOf(e, c) = {}
  /\ IF t = <<>> THEN l = None ELSE l \in LinesIn(t)

HasText(e, f, b, t, l) ==
  /\ f.text = [e.text EXCEPT ![b] = t] /\ f.at = [e.at EXCEPT ![b] = l]
  /\ f.cbuf \in Buffers /\ f.text[f.cbuf] # <<>>

LEMMA NewText ==
  ASSUME NEW e, Shape(e), Texts(e), NEW b \in Buffers, NEW t \in Seq(Lines), NEW l \in Lines \cup {None},
         Fits(e, b, t, l), NEW f, HasText(e, f, b, t, l)
  PROVE  /\ Texts(f) /\ LinesOf(f, b) = LinesIn(t) /\ \A c \in Buffers : c # b => LinesOf(f, c) = LinesOf(e, c)
<1>1. e.text \in [Buffers -> Seq(Lines)] /\ e.at \in [Buffers -> Lines \cup {None}]
  BY DEF Shape, Editor
<1>2. /\ f.text[b] = t /\ f.at[b] = l
      /\ \A c \in Buffers : c # b => f.text[c] = e.text[c] /\ f.at[c] = e.at[c]
  BY <1>1 DEF HasText
<1>3. LinesOf(f, b) = LinesIn(t) /\ \A c \in Buffers : c # b => LinesOf(f, c) = LinesOf(e, c)
  BY <1>2 DEF LinesOf, LinesIn
<1>4. \A c \in Buffers : Injective(f.text[c])
  BY <1>2 DEF Texts, Fits
<1>5. ASSUME NEW c \in Buffers, NEW d \in Buffers, c # d PROVE LinesOf(f, c) \cap LinesOf(f, d) = {}
  <2>1. CASE c = b
    BY <1>3, <1>5, <2>1 DEF Fits
  <2>2. CASE d = b
    <3>1. LinesIn(t) \cap LinesOf(e, c) = {}
      BY <1>5, <2>2 DEF Fits
    <3>2. LinesOf(f, c) = LinesOf(e, c) /\ LinesOf(f, d) = LinesIn(t)
      BY <1>3, <1>5, <2>2
    <3> QED
      BY <3>1, <3>2
  <2>3. CASE c # b /\ d # b
    BY <1>3, <1>5, <2>3 DEF Texts
  <2> QED
    BY <2>1, <2>2, <2>3
<1>6. ASSUME NEW c \in Buffers PROVE IF c \in Live(f) THEN f.at[c] \in LinesOf(f, c) ELSE f.at[c] = None
  <2>1. CASE c = b
    BY <1>2, <1>3, <2>1 DEF Live, Fits
  <2>2. CASE c # b
    <3>1. c \in Live(f) <=> c \in Live(e)
      BY <1>2, <2>2 DEF Live
    <3> QED
      BY <1>2, <1>3, <2>2, <3>1 DEF Texts
  <2> QED
    BY <2>1, <2>2
<1>7. f.cbuf \in Live(f)
  BY DEF Live, HasText
<1> QED
  BY <1>3, <1>4, <1>5, <1>6, <1>7 DEF Texts

(* No buffer of e is gone in f.                                            *)
Saves(e, f) == \A c \in Live(e) : c \in Live(f)

LEMMA SavesIs ==
  ASSUME NEW e, Shape(e), NEW f, Texts(f), f.cbuf = e.cbuf, NEW t, f.text = [e.text EXCEPT ![e.cbuf] = t]
  PROVE  Saves(e, f)
<1>1. e.text \in [Buffers -> Seq(Lines)]
  BY DEF Shape, Editor
<1>2. ASSUME NEW c \in Live(e) PROVE c \in Live(f)
  <2>1. CASE c = e.cbuf
    BY <2>1 DEF Texts
  <2>2. CASE c # e.cbuf
    BY <1>1, <1>2, <2>2 DEF Live
  <2> QED
    BY <2>1, <2>2
<1> QED
  BY <1>2 DEF Saves

LEMMA SavesTouched ==
  ASSUME NEW e, NEW f, Saves(e, f), NEW g, Touched(f, g)
  PROVE  Saves(e, g)
  BY DEF Saves, Touched, Live

(* The rooms of the windows are the same.                                  *)
SameRooms(e, f) ==
  /\ f \in Editor(e.height) /\ f.height = e.height
  /\ Len(f.ring) = Len(e.ring) /\ DOMAIN f.ring = DOMAIN e.ring
  /\ \A k \in DOMAIN e.ring : f.ring[k].sy = e.ring[k].sy /\ f.ring[k].rows = e.ring[k].rows

LEMMA SameRoomsShape ==
  ASSUME NEW e, Shape(e), NEW f, SameRooms(e, f)
  PROVE  Shape(f) /\ \A k \in DOMAIN e.ring : RowsOf(f.ring[k]) = RowsOf(e.ring[k])
<1>1. /\ e.height \in Heights /\ Tiled(e.ring, e.height) /\ DOMAIN e.ring = 1..Len(e.ring)
      /\ Len(e.ring) \in {1, 2}
  BY RingIs DEF Shape
<1>2. Tiled(f.ring, f.height)
  <2>1. CASE Len(e.ring) = 1
    <3>1. 1 \in DOMAIN e.ring
      BY <1>1, <2>1
    <3> QED
      BY <1>1, <2>1, <3>1 DEF SameRooms, Tiled
  <2>2. CASE Len(e.ring) = 2
    <3>1. 1 \in DOMAIN e.ring /\ 2 \in DOMAIN e.ring
      BY <1>1, <2>2
    <3>2. /\ f.ring[1].sy = e.ring[1].sy /\ f.ring[1].rows = e.ring[1].rows
          /\ f.ring[2].sy = e.ring[2].sy /\ f.ring[2].rows = e.ring[2].rows
          /\ Len(f.ring) = 2 /\ f.height = e.height
      BY <2>2, <3>1 DEF SameRooms
    <3> QED
      BY <1>1, <2>2, <3>2 DEF Tiled, Stacked
  <2> QED
    BY <1>1, <2>1, <2>2
<1> QED
  BY <1>1, <1>2 DEF SameRooms, Shape, RowsOf

(* Texts with all their lines and more, shown on the same rows.            *)
LEMMA GrownSound ==
  ASSUME NEW e, Sound(e), NEW f, SameRooms(e, f), f.screen = e.screen, f.suspend = e.suspend,
         Texts(f), Views(f), \A k \in DOMAIN e.ring : f.ring[k].buf = e.ring[k].buf,
         \A b \in Buffers : LinesOf(e, b) \subseteq LinesOf(f, b)
  PROVE  Sound(f)
<1>1. Shape(e) /\ Clean(e)
  BY SoundShape
<1>2. Shape(f) /\ \A k \in DOMAIN e.ring : RowsOf(f.ring[k]) = RowsOf(e.ring[k])
  BY <1>1, SameRoomsShape
<1>3. \A k \in DOMAIN e.ring : e.ring[k].buf \in Buffers
  BY <1>1, RingIs DEF Window
<1>4. Clean(f)
  <2> SUFFICES ASSUME ~f.suspend, NEW k \in DOMAIN f.ring, NEW r \in RowsOf(f.ring[k])
               PROVE  Current(f.screen[r], LinesOf(f, f.ring[k].buf))
    BY DEF Clean
  <2>1. k \in DOMAIN e.ring /\ r \in RowsOf(e.ring[k]) /\ f.ring[k].buf = e.ring[k].buf
    BY <1>2 DEF SameRooms
  <2>2. Current(e.screen[r], LinesOf(e, e.ring[k].buf))
    BY <1>1, <2>1 DEF Clean
  <2>3. LinesOf(e, e.ring[k].buf) \subseteq LinesOf(f, f.ring[k].buf)
    BY <1>3, <2>1
  <2> QED
    BY <2>2, <2>3 DEF Current
<1> QED
  BY <1>2, <1>4 DEF Sound, Loose

(* Where a line of a text is.                                              *)
LEMMA PlaceIs ==
  ASSUME NEW t \in Seq(Lines), NEW l \in LinesIn(t)
  PROVE  Place(t, l) \in DOMAIN t /\ t[Place(t, l)] = l /\ DOMAIN t = 1..Len(t) /\ Len(t) \in Nat
<1>1. \E i \in DOMAIN t : t[i] = l
  BY DEF LinesIn
<1>2. Place(t, l) \in DOMAIN t /\ t[Place(t, l)] = l
  BY <1>1 DEF Place
<1> QED
  BY <1>2

(* Where the cursor is.                                                    *)
LEMMA CursorIs ==
  ASSUME NEW e, Shape(e), Texts(e)
  PROVE  /\ Place(Text(e), CLine(e)) \in DOMAIN Text(e) /\ Text(e)[Place(Text(e), CLine(e))] = CLine(e)
         /\ DOMAIN Text(e) = 1..Len(Text(e)) /\ Len(Text(e)) \in Nat
         /\ \A i \in DOMAIN Text(e) : Text(e)[i] \in LinesOf(e, e.cbuf) /\ Text(e)[i] \in Lines
<1>1. Text(e) \in Seq(Lines) /\ CLine(e) \in LinesIn(Text(e)) /\ LinesOf(e, e.cbuf) = LinesIn(Text(e))
      /\ LinesOf(e, e.cbuf) \subseteq Lines
  BY TextIs DEF Text, LinesOf, LinesIn
<1>2. \A i \in DOMAIN Text(e) : Text(e)[i] \in LinesOf(e, e.cbuf)
  BY <1>1 DEF LinesIn
<1> QED
  BY <1>1, <1>2, PlaceIs

-----------------------------------------------------------------------------
(* Typing a newline.                                                       *)

LEMMA InsertedText ==
  ASSUME NEW t \in Seq(Lines), Injective(t), NEW j \in 1..Len(t) + 1, NEW x \in Lines \ LinesIn(t)
  PROVE  /\ InsertAt(t, j, x) \in Seq(Lines) /\ Injective(InsertAt(t, j, x)) /\ InsertAt(t, j, x) # <<>>
         /\ LinesIn(InsertAt(t, j, x)) = LinesIn(t) \cup {x}
<1> DEFINE n == Len(t)
           u == InsertAt(t, j, x)
<1>1. n \in Nat /\ DOMAIN t = 1..n /\ j \in 1..n + 1 /\ x \in Lines
  OBVIOUS
<1>2. u \in Seq(Lines) /\ Len(u) = n + 1 /\ \A m \in 1..n + 1 : u[m] = IF m < j THEN t[m] ELSE IF m = j THEN x ELSE t[m - 1]
  <2>1. j \in 1..Len(t) + 1 /\ x \in Lines
    OBVIOUS
  <2>2. IsInserted(Lines, InsertAt(t, j, x), t, j, x)
    BY ONLY <2>1, t \in Seq(Lines), InsertAtIs
  <2> QED
    BY ONLY <2>2 DEF IsInserted
<1> HIDE DEF n, u
<1>3. DOMAIN u = 1..n + 1 /\ u # <<>>
  BY <1>1, <1>2
<1>4. \A m \in 1..n : t[m] # x
  BY <1>1 DEF LinesIn
<1>5. ASSUME NEW a \in 1..n + 1, NEW b \in 1..n + 1, u[a] = u[b] PROVE a = b
  <2> DEFINE Old1(m) == IF m < j THEN m ELSE m - 1
  <2>1. \A m \in 1..n + 1 : m # j => Old1(m) \in 1..n /\ u[m] = t[Old1(m)]
    BY <1>1, <1>2
  <2>2. u[j] = x
    BY <1>1, <1>2
  <2>3. CASE a = j \/ b = j
    BY <1>1, <1>4, <1>5, <2>1, <2>2, <2>3
  <2>4. CASE a # j /\ b # j
    <3>1. Old1(a) = Old1(b)
      BY <1>1, <1>5, <2>1, <2>4 DEF Injective
    <3> QED
      BY <1>1, <2>4, <3>1
  <2> QED
    BY <2>3, <2>4
<1>6. LinesIn(u) \subseteq LinesIn(t) \cup {x}
  <2> SUFFICES ASSUME NEW m \in 1..n + 1 PROVE u[m] \in LinesIn(t) \cup {x}
    BY <1>3 DEF LinesIn
  <2>1. CASE m < j
    BY <1>1, <1>2, <2>1 DEF LinesIn
  <2>2. CASE m = j
    BY <1>2, <2>2
  <2>3. CASE m > j
    <3>1. m - 1 \in DOMAIN t /\ u[m] = t[m - 1]
      BY <1>1, <1>2, <2>3
    <3> QED
      BY <3>1 DEF LinesIn
  <2> QED
    BY <1>1, <2>1, <2>2, <2>3
<1>7. x \in LinesIn(u)
  BY <1>1, <1>2, <1>3 DEF LinesIn
<1>8. ASSUME NEW m \in 1..n PROVE t[m] \in LinesIn(u)
  <2>1. CASE m < j
    <3>1. m \in 1..n + 1 /\ u[m] = t[m]
      BY <1>1, <1>2, <2>1
    <3> QED
      BY <1>3, <3>1 DEF LinesIn
  <2>2. CASE m >= j
    <3>1. m + 1 \in 1..n + 1 /\ u[m + 1] = t[m]
      BY <1>1, <1>2, <2>2
    <3> QED
      BY <1>3, <3>1 DEF LinesIn
  <2> QED
    BY <1>1, <2>1, <2>2
<1>9. LinesIn(t) \subseteq LinesIn(u)
  BY <1>1, <1>8 DEF LinesIn
<1>10. Injective(u)
  BY <1>3, <1>5 DEF Injective
<1> QED
  BY <1>2, <1>3, <1>6, <1>7, <1>9, <1>10 DEF u

LEMMA RemovedText ==
  ASSUME NEW t \in Seq(Lines), Injective(t), NEW j \in 1..Len(t)
  PROVE  /\ RemoveAt(t, j) \in Seq(Lines) /\ Injective(RemoveAt(t, j))
         /\ LinesIn(RemoveAt(t, j)) = LinesIn(t) \ {t[j]}
<1> DEFINE n == Len(t)
           u == RemoveAt(t, j)
           From(m) == IF m < j THEN m ELSE m + 1
<1>1. n \in Nat /\ DOMAIN t = 1..n /\ j \in 1..n
  OBVIOUS
<1>2. u \in Seq(Lines) /\ Len(u) = n - 1 /\ \A m \in 1..n - 1 : u[m] = IF m < j THEN t[m] ELSE t[m + 1]
  BY RemoveAtIs
<1> HIDE DEF n, u
<1>3. DOMAIN u = 1..n - 1
  BY <1>1, <1>2
<1>4. \A m \in 1..n - 1 : From(m) \in 1..n /\ From(m) # j /\ u[m] = t[From(m)]
  BY <1>1, <1>2
<1>5. Injective(u)
  <2> SUFFICES ASSUME NEW a \in 1..n - 1, NEW b \in 1..n - 1, u[a] = u[b] PROVE a = b
    BY <1>3 DEF Injective
  <2>1. From(a) = From(b)
    BY <1>1, <1>4 DEF Injective
  <2> QED
    BY <1>1, <2>1
<1>6. ASSUME NEW m \in 1..n - 1 PROVE u[m] \in LinesIn(t) \ {t[j]}
  <2>1. From(m) \in DOMAIN t /\ From(m) # j /\ j \in DOMAIN t
    BY <1>1, <1>4
  <2>2. t[From(m)] # t[j]
    BY <2>1 DEF Injective
  <2> HIDE DEF From
  <2>3. t[From(m)] \in LinesIn(t)
    BY <2>1 DEF LinesIn
  <2> QED
    BY <1>4, <2>2, <2>3
<1>7. ASSUME NEW m \in 1..n, m # j PROVE t[m] \in LinesIn(u)
  <2>1. CASE m < j
    BY <1>1, <1>2, <1>3, <2>1 DEF LinesIn
  <2>2. CASE m > j
    <3>1. m - 1 \in 1..n - 1 /\ u[m - 1] = t[m]
      BY <1>1, <1>2, <2>2
    <3> QED
      BY <1>3, <3>1 DEF LinesIn
  <2> QED
    BY <1>1, <1>7, <2>1, <2>2
<1>8. LinesIn(u) \subseteq LinesIn(t) \ {t[j]}
  BY <1>3, <1>6 DEF LinesIn
<1>9. LinesIn(t) \ {t[j]} \subseteq LinesIn(u)
  BY <1>1, <1>7 DEF LinesIn
<1> QED
  BY <1>2, <1>5, <1>8, <1>9 DEF u


(* Another place of a window in its text.                                  *)
LEMMA MovedIs ==
  ASSUME NEW w \in Window, NEW ls, NEW l \in Lines
  PROVE  /\ Moved(w, ls, l) \in Window /\ Moved(w, ls, l).sy = w.sy /\ Moved(w, ls, l).rows = w.rows
         /\ Moved(w, ls, l).buf = w.buf /\ Moved(w, ls, l).trashed = w.trashed
         /\ Moved(w, ls, l).mark = IF w.mark \in ls THEN l ELSE w.mark
         /\ Moved(w, ls, l).beg = IF w.beg \in ls THEN l ELSE w.beg
  BY DEF Window, Moved

LEMMA MarksMovedIs ==
  ASSUME NEW e, Shape(e), NEW ls, NEW l \in Lines
  PROVE  /\ SameRooms(e, MarksMoved(e, ls, l)) /\ SameRest(e, MarksMoved(e, ls, l)) /\ MarksMoved(e, ls, l).screen = e.screen
         /\ \A k \in DOMAIN e.ring :
              LET v == MarksMoved(e, ls, l).ring[k]
                  w == e.ring[k]
              IN /\ v.buf = w.buf /\ v.trashed = w.trashed
                 /\ v.mark = IF w.buf = e.cbuf /\ w.mark \in ls THEN l ELSE w.mark
                 /\ v.beg = IF w.buf = e.cbuf /\ w.beg \in ls THEN l ELSE w.beg
<1> DEFINE n == Len(e.ring)
           s == [k \in DOMAIN e.ring |-> IF e.ring[k].buf = e.cbuf THEN Moved(e.ring[k], ls, l) ELSE e.ring[k]]
<1>1. n \in Nat /\ DOMAIN e.ring = 1..n /\ \A k \in 1..n : e.ring[k] \in Window
  BY RingIs
<1>2. ASSUME NEW k \in 1..n
      PROVE  /\ s[k] \in Window /\ s[k].sy = e.ring[k].sy /\ s[k].rows = e.ring[k].rows
             /\ s[k].buf = e.ring[k].buf /\ s[k].trashed = e.ring[k].trashed
             /\ s[k].mark = IF e.ring[k].buf = e.cbuf /\ e.ring[k].mark \in ls THEN l ELSE e.ring[k].mark
             /\ s[k].beg = IF e.ring[k].buf = e.cbuf /\ e.ring[k].beg \in ls THEN l ELSE e.ring[k].beg
  <2>1. e.ring[k] \in Window
    BY <1>1
  <2>2. s[k] = IF e.ring[k].buf = e.cbuf THEN Moved(e.ring[k], ls, l) ELSE e.ring[k]
    BY <1>1
  <2> HIDE DEF s
  <2> QED
    BY ONLY <2>1, <2>2, l \in Lines, MovedIs
<1>3. s \in [1..n -> Window]
  BY <1>1, <1>2
<1>4. MarksMoved(e, ls, l) = WithRing(e, s)
  BY DEF MarksMoved, WithRing
<1> HIDE DEF s
<1>5. s \in Seq(Window) /\ Len(s) = n /\ DOMAIN s = 1..n
  BY <1>1, <1>3, MapIsSeq
<1>6. e \in Editor(e.height)
  BY ShapeEditor
<1>7. /\ WithRing(e, s) \in Editor(e.height) /\ WithRing(e, s).ring = s /\ WithRing(e, s).screen = e.screen
      /\ SameRest(e, WithRing(e, s))
  BY ONLY <1>5, <1>6, WithRingIs
<1> DEFINE f == MarksMoved(e, ls, l)
<1>8. f \in Editor(e.height) /\ f.ring = s /\ f.screen = e.screen /\ SameRest(e, f) /\ f.height = e.height
  BY <1>4, <1>7 DEF SameRest
<1> HIDE DEF f
<1>9. SameRooms(e, f)
  BY <1>1, <1>2, <1>5, <1>8 DEF SameRooms
<1> QED
  BY <1>1, <1>2, <1>8, <1>9 DEF f

LEMMA CarriedIs ==
  ASSUME NEW e, NEW w \in Window, NEW new \in Lines, NEW marks, NEW begs
  PROVE  LET v == Carried(e, w, new, marks, begs)
         IN /\ v \in Window /\ v.sy = w.sy /\ v.rows = w.rows /\ v.buf = w.buf /\ v.trashed = w.trashed
            /\ v.mark = w.mark \/ (w.buf = e.cbuf /\ v.mark = new)
            /\ v.beg = w.beg \/ (w.buf = e.cbuf /\ v.beg = new)
<1> DEFINE m == IF w.buf = e.cbuf /\ w.mark = CLine(e) /\ w.id \in marks THEN new ELSE w.mark
           b == IF w.buf = e.cbuf /\ w.beg = CLine(e) /\ w.id \in begs THEN new ELSE w.beg
           v == [w EXCEPT !.mark = m, !.beg = b]
<1>1. m \in Lines /\ b \in Lines
  BY DEF Window
<1>2. (m = w.mark \/ (w.buf = e.cbuf /\ m = new)) /\ (b = w.beg \/ (w.buf = e.cbuf /\ b = new))
  OBVIOUS
<1>3. Carried(e, w, new, marks, begs) = v
  BY DEF Carried
<1> HIDE DEF m, b
<1>4. /\ v \in Window /\ v.sy = w.sy /\ v.rows = w.rows /\ v.buf = w.buf /\ v.trashed = w.trashed
      /\ v.mark = m /\ v.beg = b
  BY <1>1 DEF Window
<1> QED
  BY <1>2, <1>3, <1>4

LEMMA InsertNewlineSound ==
  ASSUME NEW e, Sound(e), NEW new \in FreeLines(e), NEW marks, NEW begs
  PROVE  Sound(InsertNewline(e, new, marks, begs)) /\ Saves(e, InsertNewline(e, new, marks, begs))
<1> DEFINE l == CLine(e)
           i == Place(Text(e), l)
           u == InsertAt(Text(e), i + 1, new)
           t == [e.text EXCEPT ![e.cbuf] = u]
           a == [e.at EXCEPT ![e.cbuf] = new]
           n == Len(e.ring)
           s == [k \in DOMAIN e.ring |-> Carried(e, e.ring[k], new, marks, begs)]
           g == WithRing(e, s)
           f == WithText(g, t, a)
<1>1. Shape(e) /\ Texts(e) /\ Views(e) /\ Clean(e) /\ e \in Editor(e.height)
  BY SoundShape
<1>2. new \in Lines /\ \A b \in Buffers : new \notin LinesOf(e, b)
  BY DEF FreeLines
<1>3. e.cbuf \in Buffers /\ Text(e) \in Seq(Lines) /\ l \in Lines /\ l \in LinesOf(e, e.cbuf) /\ Text(e) = e.text[e.cbuf]
  BY <1>1, TextIs DEF Text
<1>4. e.text \in [Buffers -> Seq(Lines)] /\ e.at \in [Buffers -> Lines \cup {None}]
  BY <1>1 DEF Editor
<1>5. LinesOf(e, e.cbuf) = LinesIn(Text(e)) /\ Injective(Text(e))
  BY <1>1, <1>3 DEF LinesOf, LinesIn, Texts
<1>6. i + 1 \in 1..Len(Text(e)) + 1
  BY <1>1, CursorIs
<1>7. u \in Seq(Lines) /\ Injective(u) /\ u # <<>> /\ LinesIn(u) = LinesIn(Text(e)) \cup {new}
  <2>1. new \in Lines \ LinesIn(Text(e))
    BY <1>2, <1>3, <1>5
  <2> QED
    BY ONLY <1>3, <1>5, <1>6, <2>1, InsertedText
<1> HIDE DEF u, i
<1>8. t \in [Buffers -> Seq(Lines)] /\ a \in [Buffers -> Lines \cup {None}]
  BY <1>2, <1>3, <1>4, <1>7
<1>9. t[e.cbuf] # <<>>
  BY <1>3, <1>4, <1>7
<1>10. n \in Nat /\ DOMAIN e.ring = 1..n /\ \A k \in 1..n : e.ring[k] \in Window
  BY <1>1, RingIs
<1>11. ASSUME NEW k \in 1..n
       PROVE  /\ s[k] \in Window /\ s[k].sy = e.ring[k].sy /\ s[k].rows = e.ring[k].rows
              /\ s[k].buf = e.ring[k].buf /\ s[k].trashed = e.ring[k].trashed
              /\ s[k].mark = e.ring[k].mark \/ (e.ring[k].buf = e.cbuf /\ s[k].mark = new)
              /\ s[k].beg = e.ring[k].beg \/ (e.ring[k].buf = e.cbuf /\ s[k].beg = new)
  <2>1. e.ring[k] \in Window
    BY <1>10
  <2>2. s[k] = Carried(e, e.ring[k], new, marks, begs)
    BY <1>10
  <2> HIDE DEF s
  <2> QED
    BY ONLY <1>2, <2>1, <2>2, CarriedIs
<1>12. s \in [1..n -> Window]
  BY <1>10, <1>11
<1> HIDE DEF s, t, a
<1>13. s \in Seq(Window) /\ Len(s) = n /\ DOMAIN s = 1..n
  BY <1>10, <1>12, MapIsSeq
<1>14. g \in Editor(e.height) /\ g.ring = s /\ g.screen = e.screen /\ SameRest(e, g)
  BY ONLY <1>1, <1>13, WithRingIs
<1> HIDE DEF g
<1>15. /\ f \in Editor(e.height) /\ f.text = t /\ f.at = a /\ f.ring = s /\ f.screen = e.screen
       /\ f.height = e.height /\ f.cbuf = e.cbuf /\ f.suspend = e.suspend
  <2>1. /\ f \in Editor(e.height) /\ f.text = t /\ f.at = a /\ f.ring = g.ring /\ f.screen = g.screen
        /\ f.height = g.height /\ f.cbuf = g.cbuf /\ f.suspend = g.suspend
    BY ONLY <1>8, <1>14, WithTextIs
  <2> QED
    BY <1>14, <2>1 DEF SameRest
<1> HIDE DEF f
<1>16. SameRooms(e, f)
  BY <1>10, <1>11, <1>13, <1>15 DEF SameRooms
<1>17. /\ Texts(f) /\ LinesOf(f, e.cbuf) = LinesIn(u)
       /\ \A c \in Buffers : c # e.cbuf => LinesOf(f, c) = LinesOf(e, c)
  <2>1. \A c \in Buffers : c # e.cbuf => LinesIn(u) \cap LinesOf(e, c) = {}
    BY <1>1, <1>2, <1>3, <1>5, <1>7 DEF Texts
  <2>2. IF u = <<>> THEN new = None ELSE new \in LinesIn(u)
    BY <1>7
  <2>3. f.text = [e.text EXCEPT ![e.cbuf] = u] /\ f.at = [e.at EXCEPT ![e.cbuf] = new] /\ f.cbuf \in Buffers
        /\ f.text[f.cbuf] # <<>>
    BY <1>3, <1>9, <1>15 DEF t, a
  <2>4. new \in Lines \cup {None}
    BY <1>2
  <2> QED
    <3>1. Fits(e, e.cbuf, u, new) /\ HasText(e, f, e.cbuf, u, new)
      BY <1>7, <2>1, <2>2, <2>3 DEF Fits, HasText
    <3> QED
      BY ONLY <1>1, <1>3, <1>7, <2>4, <3>1, NewText
<1>18. \A b \in Buffers : LinesOf(e, b) \subseteq LinesOf(f, b)
  BY <1>5, <1>7, <1>17
<1>19. Views(f)
  <2> SUFFICES ASSUME NEW k \in 1..n
               PROVE  f.ring[k].mark \in LinesOf(f, f.ring[k].buf) /\ (f.ring[k].trashed \/ f.ring[k].beg \in LinesOf(f, f.ring[k].buf))
    BY <1>13, <1>15 DEF Views
  <2>1. e.ring[k].mark \in LinesOf(e, e.ring[k].buf) /\ (e.ring[k].trashed \/ e.ring[k].beg \in LinesOf(e, e.ring[k].buf)) /\ e.ring[k].buf \in Buffers
    BY <1>1, <1>10 DEF Views, Window
  <2>2. LinesOf(e, e.ring[k].buf) \subseteq LinesOf(f, f.ring[k].buf) /\ f.ring[k] = s[k]
    BY <1>11, <1>15, <1>18, <2>1
  <2>3. f.ring[k].buf = e.cbuf => new \in LinesOf(f, f.ring[k].buf)
    BY <1>7, <1>17
  <2> QED
    BY <1>11, <2>1, <2>2, <2>3
<1>20. Sound(f)
  BY <1>10, <1>11, <1>15, <1>16, <1>17, <1>18, <1>19, GrownSound
<1>21. Sound(Changed(f, l)) /\ Saves(e, Changed(f, l))
  <2>1. Saves(e, f)
    BY <1>1, <1>15, <1>17, SavesIs DEF t
  <2>2. Touched(f, Changed(f, l))
    BY <1>3, <1>20, ChangedTouched
  <2> QED
    BY <1>20, <2>1, <2>2, SavesTouched, TouchedSound
<1>22. f = [e EXCEPT !.text[e.cbuf] = InsertAt(@, i + 1, new), !.at[e.cbuf] = new,
                     !.ring = [k \in DOMAIN @ |-> Carried(e, @[k], new, marks, begs)]]
  BY <1>1, <1>3 DEF f, g, s, t, a, u, WithText, WithRing, Editor
<1> QED
  BY <1>21, <1>22 DEF InsertNewline, i


(* Texts of which no row that is not marked shows a line that is gone.     *)
LEMMA ShrunkSound ==
  ASSUME NEW e, Sound(e), NEW f, SameRooms(e, f), f.screen = e.screen, f.suspend = e.suspend,
         Texts(f), Views(f), \A k \in DOMAIN e.ring : f.ring[k].buf = e.ring[k].buf,
         ~e.suspend => \A k \in DOMAIN e.ring : \A r \in RowsOf(e.ring[k]) :
           e.screen[r].mod \/ e.screen[r].line = None \/ e.screen[r].line \in LinesOf(f, e.ring[k].buf)
  PROVE  Sound(f)
<1>1. Shape(e) /\ Clean(e)
  BY SoundShape
<1>2. Shape(f) /\ \A k \in DOMAIN e.ring : RowsOf(f.ring[k]) = RowsOf(e.ring[k])
  BY <1>1, SameRoomsShape
<1>3. Clean(f)
  <2> SUFFICES ASSUME ~f.suspend, NEW k \in DOMAIN f.ring, NEW r \in RowsOf(f.ring[k])
               PROVE  Current(f.screen[r], LinesOf(f, f.ring[k].buf))
    BY DEF Clean
  <2>1. k \in DOMAIN e.ring /\ r \in RowsOf(e.ring[k]) /\ f.ring[k].buf = e.ring[k].buf
    BY <1>2 DEF SameRooms
  <2>2. Current(e.screen[r], LinesOf(e, e.ring[k].buf))
    BY <1>1, <2>1 DEF Clean
  <2> QED
    BY <2>1, <2>2 DEF Current
<1> QED
  BY <1>2, <1>3 DEF Sound, Loose

(* Lines of no text any more are in no row that is not marked.             *)
LEMMA OutdatedSound ==
  ASSUME NEW e, Sound(e), NEW ls \in SUBSET Lines, \A b \in Buffers : LinesOf(e, b) \cap ls = {}
  PROVE  Touched(e, Outdated(e, ls)) /\ Sound(Outdated(e, ls))
<1>1. Shape(e) /\ Clean(e)
  BY SoundShape
<1>2. ASSUME ~e.suspend, NEW k \in DOMAIN e.ring, NEW r \in RowsOf(e.ring[k])
      PROVE  e.screen[r].mod \/ e.screen[r].shown \notin ls
  <2>1. Current(e.screen[r], LinesOf(e, e.ring[k].buf))
    BY <1>1, <1>2 DEF Clean
  <2>2. e.ring[k].buf \in Buffers
    BY <1>1, RingIs DEF Window
  <2>3. Blank \notin ls
    BY DisplayAssumption
  <2> QED
    BY <2>1, <2>2, <2>3 DEF Current
<1>3. Touched(e, Outdated(e, ls))
  BY <1>1, <1>2, OutdatedTouched
<1> QED
  BY <1>3, TouchedSound

(* Windows whose places at the line n are put at l, in the same text.      *)
LEMMA MarksMovedSound ==
  ASSUME NEW e, Sound(e), NEW n, n \in LinesOf(e, e.cbuf), NEW l \in LinesOf(e, e.cbuf), l # n
  PROVE  /\ Sound(MarksMoved(e, {n}, l))
         /\ \A k \in DOMAIN e.ring :
              /\ MarksMoved(e, {n}, l).ring[k].mark # n
              /\ MarksMoved(e, {n}, l).ring[k].trashed \/ MarksMoved(e, {n}, l).ring[k].beg # n
<1> DEFINE f == MarksMoved(e, {n}, l)
<1>1. Shape(e) /\ Texts(e) /\ Views(e)
  BY SoundShape
<1>2. l \in Lines /\ e.cbuf \in Buffers
  BY <1>1, TextIs
<1>3. /\ SameRooms(e, f) /\ SameRest(e, f) /\ f.screen = e.screen
      /\ \A k \in DOMAIN e.ring :
           /\ f.ring[k].buf = e.ring[k].buf /\ f.ring[k].trashed = e.ring[k].trashed
           /\ f.ring[k].mark = IF e.ring[k].buf = e.cbuf /\ e.ring[k].mark \in {n} THEN l ELSE e.ring[k].mark
           /\ f.ring[k].beg = IF e.ring[k].buf = e.cbuf /\ e.ring[k].beg \in {n} THEN l ELSE e.ring[k].beg
  BY ONLY <1>1, <1>2, MarksMovedIs
<1> HIDE DEF f
<1>4. \A c : LinesOf(f, c) = LinesOf(e, c)
  BY <1>3 DEF SameRest, LinesOf
<1>5. Texts(f)
  BY <1>1, <1>3, <1>4 DEF Texts, SameRest, Live
<1>6. Views(f)
  <2> SUFFICES ASSUME NEW k \in DOMAIN e.ring
               PROVE  f.ring[k].mark \in LinesOf(f, f.ring[k].buf) /\ (f.ring[k].trashed \/ f.ring[k].beg \in LinesOf(f, f.ring[k].buf))
    BY <1>3 DEF Views, SameRooms
  <2>1. /\ e.ring[k].mark \in LinesOf(e, e.ring[k].buf) /\ (e.ring[k].trashed \/ e.ring[k].beg \in LinesOf(e, e.ring[k].buf))
        /\ e.ring[k].buf \in Buffers
    BY <1>1, RingIs DEF Views, Window
  <2> QED
    BY <1>3, <1>4, <2>1
<1>7. Sound(f)
  BY <1>3, <1>4, <1>5, <1>6, GrownSound DEF SameRest
<1>8. ASSUME NEW k \in DOMAIN e.ring
      PROVE  f.ring[k].mark # n /\ (f.ring[k].trashed \/ f.ring[k].beg # n)
  <2>1. /\ e.ring[k].mark \in LinesOf(e, e.ring[k].buf) /\ (e.ring[k].trashed \/ e.ring[k].beg \in LinesOf(e, e.ring[k].buf))
        /\ e.ring[k].buf \in Buffers
    BY <1>1, RingIs DEF Views, Window
  <2>2. e.ring[k].buf # e.cbuf => n \notin LinesOf(e, e.ring[k].buf)
    BY <1>1, <1>2, <2>1 DEF Texts
  <2> QED
    BY <1>3, <2>1, <2>2
<1> QED
  BY <1>7, <1>8 DEF f

LEMMA DelNewlineSound ==
  ASSUME NEW e, Sound(e), Place(Text(e), CLine(e)) < Len(Text(e))
  PROVE  Sound(DelNewline(e)) /\ Saves(e, DelNewline(e))
<1> DEFINE l == CLine(e)
           i == Place(Text(e), l)
           j == i + 1
           n == Text(e)[j]
           c == Changed(e, l)
           m == MarksMoved(c, {n}, l)
           f == RegisterDeletion(m, n)
           u == RemoveAt(Text(e), j)
           t == [f.text EXCEPT ![e.cbuf] = u]
           g == WithText(f, t, f.at)
<1>1. Shape(e) /\ Texts(e)
  BY SoundShape
<1>2. e.cbuf \in Buffers /\ Text(e) \in Seq(Lines) /\ l \in Lines /\ l \in LinesOf(e, e.cbuf) /\ Text(e) = e.text[e.cbuf]
  BY <1>1, TextIs DEF Text
<1>3. LinesOf(e, e.cbuf) = LinesIn(Text(e)) /\ Injective(Text(e))
  BY <1>1, <1>2 DEF LinesOf, LinesIn, Texts
<1>4. /\ j \in 1..Len(Text(e)) /\ j \in DOMAIN Text(e) /\ i \in DOMAIN Text(e) /\ Text(e)[i] = l /\ i # j
      /\ n \in LinesOf(e, e.cbuf) /\ n \in Lines
  BY <1>1, CursorIs
<1>5. l # n
  BY <1>3, <1>4 DEF Injective
<1> HIDE DEF i, j
<1>6. Touched(e, c) /\ Sound(c)
  BY <1>2, ChangedTouched, TouchedSound
<1>7. c.text = e.text /\ c.at = e.at /\ c.cbuf = e.cbuf
  BY <1>6 DEF Touched
<1> HIDE DEF c
<1>8. \A b : LinesOf(c, b) = LinesOf(e, b)
  BY <1>7 DEF LinesOf
<1>9. /\ Sound(m) /\ m.text = e.text /\ m.at = e.at /\ m.cbuf = e.cbuf /\ DOMAIN m.ring = DOMAIN c.ring
      /\ \A k \in DOMAIN m.ring : m.ring[k].mark # n /\ (m.ring[k].trashed \/ m.ring[k].beg # n)
  <2>1. l \in LinesOf(c, c.cbuf) /\ n \in LinesOf(c, c.cbuf) /\ Shape(c)
    BY <1>2, <1>4, <1>6, <1>7, <1>8, SoundShape
  <2>2. Sound(m) /\ \A k \in DOMAIN c.ring : m.ring[k].mark # n /\ (m.ring[k].trashed \/ m.ring[k].beg # n)
    BY <1>2, <1>5, <1>6, <2>1, MarksMovedSound
  <2>3. SameRest(c, m) /\ SameRooms(c, m)
    BY ONLY <1>2, <2>1, MarksMovedIs
  <2> QED
    BY <1>7, <2>2, <2>3 DEF SameRest, SameRooms
<1> HIDE DEF m
<1>10. /\ Touched(m, f) /\ Sound(f)
       /\ ~m.suspend => \A k \in DOMAIN m.ring : \A r \in RowsOf(m.ring[k]) :
                          IF m.screen[r].line = n THEN f.screen[r].mod ELSE f.screen[r] = m.screen[r]
  <2>1. Shape(m)
    BY <1>9, SoundShape
  <2> QED
    BY <1>9, <2>1, RegisterDeletionTouched, TouchedSound
<1>11. /\ f.text = e.text /\ f.at = e.at /\ f.cbuf = e.cbuf /\ f.suspend = m.suspend /\ DOMAIN f.ring = DOMAIN m.ring
       /\ \A k \in DOMAIN m.ring : SameView(f.ring[k], m.ring[k])
  BY <1>9, <1>10, TouchedLoose DEF Touched, Sound
<1> HIDE DEF f
<1>12. /\ Shape(f) /\ Texts(f) /\ Views(f) /\ Clean(f) /\ f \in Editor(f.height)
       /\ \A b : LinesOf(f, b) = LinesOf(e, b)
  BY <1>10, <1>11, SoundShape DEF LinesOf
<1>13. u \in Seq(Lines) /\ Injective(u) /\ LinesIn(u) = LinesIn(Text(e)) \ {n}
  BY ONLY <1>2, <1>3, <1>4, RemovedText
<1> HIDE DEF u
<1>14. f.text \in [Buffers -> Seq(Lines)] /\ f.at \in [Buffers -> Lines \cup {None}]
  BY <1>12 DEF Editor
<1>15. t \in [Buffers -> Seq(Lines)] /\ t[e.cbuf] = u
  BY <1>2, <1>13, <1>14
<1> HIDE DEF t
<1>16. /\ g \in Editor(f.height) /\ g.text = t /\ g.at = f.at
       /\ g.ring = f.ring /\ g.screen = f.screen /\ g.height = f.height /\ g.cbuf = f.cbuf /\ g.suspend = f.suspend
  BY ONLY <1>12, <1>14, <1>15, WithTextIs
<1> HIDE DEF g
<1>17. SameRooms(f, g)
  BY <1>16 DEF SameRooms
<1>18. /\ Texts(g) /\ LinesOf(g, e.cbuf) = LinesIn(u)
       /\ \A b \in Buffers : b # e.cbuf => LinesOf(g, b) = LinesOf(f, b)
  <2>1. \A b \in Buffers : b # e.cbuf => LinesIn(u) \cap LinesOf(f, b) = {}
    BY <1>1, <1>2, <1>3, <1>12, <1>13 DEF Texts
  <2>2. l \in LinesIn(u)
    BY <1>2, <1>3, <1>5, <1>13
  <2>3. u # <<>>
    BY <2>2 DEF LinesIn
  <2>4. f.at = [f.at EXCEPT ![e.cbuf] = l]
    BY <1>2, <1>11, <1>14 DEF CLine
  <2>5. Fits(f, e.cbuf, u, l)
    BY <1>13, <2>1, <2>2, <2>3 DEF Fits
  <2>6. HasText(f, g, e.cbuf, u, l)
    BY <1>2, <1>11, <1>15, <1>16, <2>3, <2>4 DEF HasText, t
  <2>7. l \in Lines \cup {None}
    BY <1>2
  <2> QED
    BY ONLY <1>2, <1>12, <1>13, <2>5, <2>6, <2>7, NewText
<1>19. Views(g)
  <2> SUFFICES ASSUME NEW k \in DOMAIN f.ring
               PROVE  f.ring[k].mark \in LinesOf(g, f.ring[k].buf) /\ (f.ring[k].trashed \/ f.ring[k].beg \in LinesOf(g, f.ring[k].buf))
    BY <1>16 DEF Views
  <2>1. /\ f.ring[k].mark \in LinesOf(f, f.ring[k].buf) /\ (f.ring[k].trashed \/ f.ring[k].beg \in LinesOf(f, f.ring[k].buf))
        /\ f.ring[k].buf \in Buffers
    BY <1>12, RingIs DEF Views, Window
  <2>2. f.ring[k].mark # n /\ (f.ring[k].trashed \/ f.ring[k].beg # n)
    BY <1>9, <1>11 DEF SameView
  <2> QED
    BY <1>3, <1>12, <1>13, <1>18, <2>1, <2>2
<1>20. ASSUME ~f.suspend, NEW k \in DOMAIN f.ring, NEW r \in RowsOf(f.ring[k])
       PROVE  f.screen[r].mod \/ f.screen[r].line = None \/ f.screen[r].line \in LinesOf(g, f.ring[k].buf)
  <2>1. RowsOf(f.ring[k]) = RowsOf(m.ring[k]) /\ k \in DOMAIN m.ring
    BY <1>11 DEF SameView, RowsOf
  <2>2. f.screen[r].mod \/ f.screen[r].line # n
    BY <1>10, <1>11, <1>20, <2>1
  <2>3. Current(f.screen[r], LinesOf(f, f.ring[k].buf))
    BY <1>12, <1>20 DEF Clean
  <2>4. f.ring[k].buf \in Buffers
    BY <1>12, RingIs DEF Window
  <2> QED
    BY <1>3, <1>12, <1>13, <1>18, <2>2, <2>3, <2>4 DEF Current
<1>21. Sound(g)
  BY <1>10, <1>16, <1>17, <1>18, <1>19, <1>20, ShrunkSound
<1>22. Sound(Outdated(g, {n})) /\ Saves(e, Outdated(g, {n}))
  <2>1. \A b \in Buffers : LinesOf(g, b) \cap {n} = {}
    BY <1>1, <1>2, <1>4, <1>12, <1>13, <1>18 DEF Texts
  <2>2. Touched(g, Outdated(g, {n})) /\ Sound(Outdated(g, {n}))
    BY <1>4, <1>21, <2>1, OutdatedSound
  <2>3. g.text = [e.text EXCEPT ![e.cbuf] = u] /\ g.cbuf = e.cbuf
    BY <1>11, <1>16 DEF t
  <2>4. Saves(e, g)
    BY ONLY <1>1, <1>18, <2>3, SavesIs
  <2> QED
    BY <2>2, <2>4, SavesTouched
<1>23. g = [f EXCEPT !.text[e.cbuf] = RemoveAt(@, j)]
  <2>1. f.text[e.cbuf] = Text(e)
    BY <1>2, <1>11
  <2> QED
    BY <1>12, <2>1 DEF g, t, u, WithText, Editor
<1> QED
  BY <1>22, <1>23 DEF DelNewline, i, j, c, m, f


-----------------------------------------------------------------------------
(* The other changes of texts and of the buffer in use.                    *)

WithTalk(e, b, v, m) == [e EXCEPT !.cbuf = b, !.suspend = v, !.motion = m]

(* f is e with b in use, and its updates suspended if v.                   *)
SameButTalk(e, f, b, v) ==
  /\ f.text = e.text /\ f.at = e.at /\ f.ring = e.ring /\ f.screen = e.screen
  /\ f.height = e.height /\ f.cbuf = b /\ f.suspend = v

(* The buffer in use and the flags are of no account for the rows, unless  *)
(* the updates are no longer suspended.                                    *)
LEMMA WithTalkSound ==
  ASSUME NEW e, Sound(e), NEW b \in Live(e), NEW v \in BOOLEAN, NEW m \in BOOLEAN, e.suspend => v
  PROVE  Sound(WithTalk(e, b, v, m)) /\ SameButTalk(e, WithTalk(e, b, v, m), b, v)
<1> DEFINE f == WithTalk(e, b, v, m)
<1>1. Shape(e) /\ Texts(e) /\ Views(e) /\ Clean(e) /\ e \in Editor(e.height) /\ b \in Buffers
  BY SoundShape DEF Live
<1>2. /\ f \in Editor(e.height) /\ f.text = e.text /\ f.at = e.at /\ f.ring = e.ring /\ f.screen = e.screen
      /\ f.height = e.height /\ f.cbuf = b /\ f.suspend = v
  BY <1>1 DEF Editor, WithTalk
<1> HIDE DEF f
<1>3. \A c : LinesOf(f, c) = LinesOf(e, c)
  BY <1>2 DEF LinesOf
<1>4. Shape(f)
  BY <1>1, <1>2 DEF Shape
<1>5. Texts(f) /\ Views(f)
  BY <1>1, <1>2, <1>3 DEF Texts, Views, Live
<1>6. Clean(f)
  BY <1>1, <1>2, <1>3 DEF Clean
<1> QED
  BY <1>2, <1>4, <1>5, <1>6 DEF f, Sound, Loose, SameButTalk

LEMMA MoveSound ==
  ASSUME NEW e, Sound(e), NEW l \in LinesOf(e, e.cbuf), NEW m \in BOOLEAN
  PROVE  Sound([e EXCEPT !.at[e.cbuf] = l, !.motion = m])
<1> DEFINE a == [e.at EXCEPT ![e.cbuf] = l]
           v == e.suspend
           d == WithTalk(e, e.cbuf, v, m)
           f == WithText(d, e.text, a)
<1>1. Shape(e) /\ Texts(e) /\ Views(e) /\ e \in Editor(e.height) /\ v \in BOOLEAN
  BY SoundShape DEF Editor
<1>2. e.cbuf \in Buffers /\ e.cbuf \in Live(e) /\ l \in Lines /\ e.text[e.cbuf] \in Seq(Lines)
  BY <1>1, TextIs DEF Texts
<1>3. e.text \in [Buffers -> Seq(Lines)] /\ a \in [Buffers -> Lines \cup {None}]
  BY <1>1, <1>2 DEF Editor
<1>4. /\ Sound(d) /\ d.text = e.text /\ d.at = e.at /\ d.ring = e.ring /\ d.screen = e.screen
      /\ d.height = e.height /\ d.cbuf = e.cbuf /\ d.suspend = v
  BY <1>1, <1>2, WithTalkSound DEF SameButTalk
<1> HIDE DEF d, a
<1>5. d \in Editor(e.height)
  BY <1>4, SoundShape
<1>6. /\ f \in Editor(e.height) /\ f.text = e.text /\ f.at = a /\ f.ring = d.ring /\ f.screen = d.screen
      /\ f.height = d.height /\ f.cbuf = d.cbuf /\ f.suspend = d.suspend
  BY ONLY <1>3, <1>5, WithTextIs
<1> HIDE DEF f
<1>7. SameRooms(d, f)
  BY <1>4, <1>6 DEF SameRooms
<1>8. \A b : LinesOf(f, b) = LinesOf(e, b)
  BY <1>6 DEF LinesOf
<1>9. Texts(f)
  <2>1. e.text[e.cbuf] # <<>> /\ LinesOf(e, e.cbuf) = LinesIn(e.text[e.cbuf])
    BY <1>2 DEF Live, LinesOf, LinesIn
  <2>2. Fits(e, e.cbuf, e.text[e.cbuf], l)
    BY <1>1, <1>2, <2>1 DEF Fits, Texts
  <2>3. e.text = [e.text EXCEPT ![e.cbuf] = e.text[e.cbuf]]
    BY <1>3
  <2>4. HasText(e, f, e.cbuf, e.text[e.cbuf], l)
    BY <1>2, <1>4, <1>6, <2>1, <2>3 DEF HasText, a
  <2>5. l \in Lines \cup {None}
    BY <1>2
  <2> QED
    BY ONLY <1>1, <1>2, <2>2, <2>4, <2>5, NewText
<1>10. Views(f)
  BY <1>1, <1>4, <1>6, <1>8 DEF Views
<1>11. Sound(f)
  BY <1>4, <1>6, <1>7, <1>8, <1>9, <1>10, GrownSound DEF LinesOf
<1>12. f = [e EXCEPT !.at[e.cbuf] = l, !.motion = m]
  BY <1>1 DEF f, d, a, WithText, WithTalk, Editor
<1> QED
  BY <1>11, <1>12

LEMMA SetBufferSound ==
  ASSUME NEW e, Sound(e), NEW b \in Buffers, NEW new, new \in FreeLines(e) \/ b \in Live(e)
  PROVE  /\ Sound(SetBuffer(e, b, new)) /\ \A c \in Live(e) : c \in Live(SetBuffer(e, b, new))
         /\ SetBuffer(e, b, new).ring = e.ring
<1>1. Shape(e) /\ Texts(e) /\ Views(e) /\ e \in Editor(e.height)
  BY SoundShape
<1>2. CASE b \in Live(e)
  <2> DEFINE v == e.suspend
             m == e.motion
             f == WithTalk(e, b, v, m)
  <2>1. v \in BOOLEAN /\ m \in BOOLEAN
    BY <1>1 DEF Editor
  <2>2. Sound(f) /\ f.text = e.text /\ f.ring = e.ring
    BY <1>2, <2>1, WithTalkSound DEF SameButTalk
  <2>3. f = [e EXCEPT !.cbuf = b]
    BY <1>1 DEF WithTalk, Editor
  <2> HIDE DEF f
  <2> QED
    BY <1>2, <2>2, <2>3 DEF SetBuffer, Live
<1>3. CASE b \notin Live(e)
  <2> DEFINE u == <<new>>
             t == [e.text EXCEPT ![b] = u]
             a == [e.at EXCEPT ![b] = new]
             g == WithText(e, t, a)
             f == [g EXCEPT !.cbuf = b]
  <2>1. new \in Lines /\ \A c \in Buffers : new \notin LinesOf(e, c)
    BY <1>3 DEF FreeLines
  <2>2. u \in Seq(Lines) /\ LinesIn(u) = {new} /\ Injective(u) /\ u # <<>>
    <3>1. DOMAIN <<new>> = {1} /\ <<new>>[1] = new
      OBVIOUS
    <3>2. <<new>> \in Seq(Lines) /\ <<new>> # <<>>
      BY <2>1
    <3> QED
      BY <3>1, <3>2 DEF LinesIn, Injective
  <2> HIDE DEF u
  <2>3. e.text \in [Buffers -> Seq(Lines)] /\ e.at \in [Buffers -> Lines \cup {None}] /\ e.text[b] = <<>>
    BY <1>1, <1>3 DEF Editor, Live
  <2>4. t \in [Buffers -> Seq(Lines)] /\ a \in [Buffers -> Lines \cup {None}] /\ t[b] = u
    BY <2>1, <2>2, <2>3
  <2> HIDE DEF t, a
  <2>5. /\ g \in Editor(e.height) /\ g.text = t /\ g.at = a /\ g.ring = e.ring /\ g.screen = e.screen
        /\ g.height = e.height /\ g.suspend = e.suspend
    BY ONLY <1>1, <2>4, WithTextIs
  <2> HIDE DEF g
  <2>6. /\ f \in Editor(e.height) /\ f.text = t /\ f.at = a /\ f.ring = e.ring /\ f.screen = e.screen
        /\ f.height = e.height /\ f.suspend = e.suspend /\ f.cbuf = b
    BY <2>5 DEF Editor
  <2> HIDE DEF f
  <2>7. SameRooms(e, f)
    BY <2>6 DEF SameRooms
  <2>8. /\ Texts(f) /\ LinesOf(f, b) = LinesIn(u)
        /\ \A c \in Buffers : c # b => LinesOf(f, c) = LinesOf(e, c)
    <3>1. Fits(e, b, u, new)
      BY <2>1, <2>2 DEF Fits
    <3>2. HasText(e, f, b, u, new)
      BY <2>2, <2>4, <2>6 DEF HasText, t, a
    <3>3. new \in Lines \cup {None}
      BY <2>1
    <3> QED
      BY ONLY <1>1, b \in Buffers, <2>2, <3>1, <3>2, <3>3, NewText
  <2>9. \A c \in Buffers : LinesOf(e, c) \subseteq LinesOf(f, c)
    <3>1. LinesOf(e, b) = {}
      BY <2>3 DEF LinesOf
    <3> QED
      BY <2>8, <3>1
  <2>10. Views(f)
    <3>1. \A k \in DOMAIN e.ring : e.ring[k].buf \in Buffers
      BY <1>1, RingIs DEF Window
    <3> QED
      BY <1>1, <2>6, <2>9, <3>1 DEF Views
  <2>11. Sound(f)
    BY <2>6, <2>7, <2>8, <2>9, <2>10, GrownSound
  <2>12. \A c \in Live(e) : c \in Live(f)
    BY <1>3, <2>3, <2>6 DEF Live, t
  <2>13. f = [e EXCEPT !.cbuf = b, !.text[b] = <<new>>, !.at[b] = new]
    BY <1>1 DEF f, g, t, a, u, WithText, Editor
  <2> QED
    BY <1>3, <2>6, <2>11, <2>12, <2>13 DEF SetBuffer
<1> QED
  BY <1>2, <1>3

(* erase_buffer: as the updates are suspended, only the windows matter.    *)
LEMMA EraseBufferSound == ASSUME NEW e, Sound(e) PROVE Sound(EraseBuffer(e)) /\ Saves(e, EraseBuffer(e))
<1> DEFINE b == e.cbuf
           first == Text(e)[1]
           v == TRUE
           w == FALSE
           ls == LinesOf(e, b)
           d == WithTalk(e, b, v, w)
           f == MarksMoved(d, ls, first)
           u == <<first>>
           t == [f.text EXCEPT ![b] = u]
           a == [f.at EXCEPT ![b] = first]
           g == WithText(f, t, a)
<1>0. v \in BOOLEAN /\ w \in BOOLEAN /\ v = TRUE
  OBVIOUS
<1>1. Shape(e) /\ Texts(e) /\ Views(e) /\ e \in Editor(e.height)
  BY SoundShape
<1>2. b \in Buffers /\ b \in Live(e) /\ Text(e) = e.text[b] /\ Text(e) # <<>> /\ Text(e) \in Seq(Lines)
  BY <1>1, TextIs DEF Texts, Live, Text
<1>3. first \in Lines /\ first \in ls
  <2>1. 1 \in DOMAIN Text(e)
    BY <1>2
  <2> QED
    BY <1>1, <2>1, CursorIs
<1> HIDE DEF v, w
<1>4. /\ Sound(d) /\ d.text = e.text /\ d.at = e.at /\ d.ring = e.ring /\ d.cbuf = b /\ d.suspend = v
  <2>1. e.suspend => v
    BY <1>0
  <2>2. Sound(d) /\ SameButTalk(e, d, b, v)
    BY ONLY <1>0, <1>2, <2>1, Sound(e), WithTalkSound
  <2> QED
    BY ONLY <2>2 DEF SameButTalk
<1> HIDE DEF d
<1>5. Shape(d) /\ Texts(d) /\ d \in Editor(d.height) /\ \A c : LinesOf(d, c) = LinesOf(e, c)
  BY <1>4, SoundShape DEF LinesOf
<1>6. /\ SameRooms(d, f) /\ SameRest(d, f)
      /\ \A k \in DOMAIN d.ring :
           /\ f.ring[k].buf = d.ring[k].buf /\ f.ring[k].trashed = d.ring[k].trashed
           /\ f.ring[k].mark = IF d.ring[k].buf = d.cbuf /\ d.ring[k].mark \in ls THEN first ELSE d.ring[k].mark
           /\ f.ring[k].beg = IF d.ring[k].buf = d.cbuf /\ d.ring[k].beg \in ls THEN first ELSE d.ring[k].beg
  BY ONLY <1>3, <1>5, MarksMovedIs
<1> HIDE DEF f
<1>7. /\ f \in Editor(d.height) /\ f.text = e.text /\ f.at = e.at /\ f.cbuf = b /\ f.suspend = v /\ f.height = d.height
  BY <1>4, <1>6 DEF SameRest, SameRooms
<1>8. f.text \in [Buffers -> Seq(Lines)] /\ f.at \in [Buffers -> Lines \cup {None}]
  BY <1>7 DEF Editor
<1>9. u \in Seq(Lines) /\ LinesIn(u) = {first} /\ Injective(u) /\ u # <<>>
  <2>1. DOMAIN <<first>> = {1} /\ <<first>>[1] = first
    OBVIOUS
  <2>2. <<first>> \in Seq(Lines) /\ <<first>> # <<>>
    BY <1>3
  <2> QED
    BY <2>1, <2>2 DEF LinesIn, Injective
<1> HIDE DEF u
<1> HIDE DEF first
<1>10. t \in [Buffers -> Seq(Lines)] /\ a \in [Buffers -> Lines \cup {None}] /\ t[b] = u
  BY <1>2, <1>3, <1>8, <1>9
<1> HIDE DEF t, a
<1>11. /\ g \in Editor(d.height) /\ g.text = t /\ g.at = a /\ g.ring = f.ring
       /\ g.height = f.height /\ g.cbuf = f.cbuf /\ g.suspend = f.suspend
  BY ONLY <1>7, <1>10, WithTextIs
<1> HIDE DEF g
<1>12. SameRooms(d, g)
  BY <1>6, <1>7, <1>11 DEF SameRooms
<1>13. /\ Texts(g) /\ LinesOf(g, b) = LinesIn(u)
       /\ \A c \in Buffers : c # b => LinesOf(g, c) = LinesOf(e, c)
  <2>1. Fits(e, b, u, first)
    BY <1>1, <1>2, <1>3, <1>9 DEF Fits, Texts
  <2>2. HasText(e, g, b, u, first)
    BY <1>2, <1>7, <1>9, <1>10, <1>11 DEF HasText, t, a
  <2>3. first \in Lines \cup {None}
    BY <1>3
  <2> QED
    BY ONLY <1>1, <1>2, <1>9, <2>1, <2>2, <2>3, NewText
<1>14. Views(g)
  <2> SUFFICES ASSUME NEW k \in DOMAIN d.ring
               PROVE  f.ring[k].mark \in LinesOf(g, f.ring[k].buf) /\ (f.ring[k].trashed \/ f.ring[k].beg \in LinesOf(g, f.ring[k].buf))
    BY <1>6, <1>11 DEF Views, SameRooms
  <2>1. /\ e.ring[k].mark \in LinesOf(e, e.ring[k].buf) /\ (e.ring[k].trashed \/ e.ring[k].beg \in LinesOf(e, e.ring[k].buf))
        /\ e.ring[k].buf \in Buffers /\ d.ring[k] = e.ring[k]
    BY <1>1, <1>4, RingIs DEF Views, Window
  <2>2. CASE e.ring[k].buf = b
    BY <1>4, <1>6, <1>9, <1>13, <2>1, <2>2
  <2>3. CASE e.ring[k].buf # b
    BY <1>4, <1>6, <1>13, <2>1, <2>3
  <2> QED
    BY <2>2, <2>3
<1>15. Loose(g) /\ Shape(g)
  BY <1>5, <1>12, <1>13, <1>14, SameRoomsShape DEF Loose
<1> DEFINE h == Outdated(g, ls)
           i == TouchWindowHard(h, Showing(h, b))
<1>16. Touched(g, h)
  BY <1>0, <1>7, <1>11, <1>15, OutdatedTouched
<1> HIDE DEF h
<1>17. Loose(h) /\ Shape(h)
  BY <1>15, <1>16, TouchedLoose, TouchedShape
<1>18. Touched(h, i)
  BY <1>17, TouchWindowHardTouched
<1> HIDE DEF i
<1>19. Loose(i) /\ i.suspend = v
  BY <1>7, <1>11, <1>16, <1>17, <1>18, TouchedLoose DEF Touched
<1>20. Sound(i) /\ Saves(e, i)
  <2>1. Saves(e, g)
    BY <1>1, <1>7, <1>11, <1>13, SavesIs DEF t
  <2> QED
    BY <1>0, <1>16, <1>18, <1>19, <2>1, SavesTouched DEF Sound, Clean
<1>21. d = [e EXCEPT !.suspend = TRUE, !.motion = FALSE]
  BY <1>1 DEF d, v, w, WithTalk, Editor
<1>22. g = [f EXCEPT !.text[b] = <<first>>, !.at[b] = first]
  BY <1>7 DEF g, t, a, u, WithText, Editor
<1> QED
  BY <1>20, <1>21, <1>22 DEF EraseBuffer, TouchScreenForBuffer, i, h, f, first


-----------------------------------------------------------------------------
(* Windows with other buffers.                                             *)

(* Windows of the same text within the rows of those that were there.      *)
LEMMA WithinSound ==
  ASSUME NEW e, Sound(e), NEW f \in Editor(e.height), f.height = e.height, Tiled(f.ring, f.height),
         f.screen = e.screen, f.suspend = e.suspend, Texts(f), Views(f), f.text = e.text,
         \A k \in DOMAIN f.ring : \E j \in DOMAIN e.ring :
           RowsOf(f.ring[k]) \subseteq RowsOf(e.ring[j]) /\ f.ring[k].buf = e.ring[j].buf
  PROVE  Sound(f)
<1>1. Shape(e) /\ Clean(e) /\ e.height \in Heights
  BY SoundShape DEF Shape
<1>2. Shape(f)
  BY <1>1 DEF Shape
<1>3. \A b : LinesOf(f, b) = LinesOf(e, b)
  BY DEF LinesOf
<1>4. Clean(f)
  <2> SUFFICES ASSUME ~f.suspend, NEW k \in DOMAIN f.ring, NEW r \in RowsOf(f.ring[k])
               PROVE  Current(f.screen[r], LinesOf(f, f.ring[k].buf))
    BY DEF Clean
  <2>1. PICK j \in DOMAIN e.ring : RowsOf(f.ring[k]) \subseteq RowsOf(e.ring[j]) /\ f.ring[k].buf = e.ring[j].buf
    OBVIOUS
  <2>2. Current(e.screen[r], LinesOf(e, e.ring[j].buf))
    BY <1>1, <2>1 DEF Clean
  <2> QED
    BY <1>3, <2>1, <2>2
<1> QED
  BY <1>2, <1>4 DEF Sound, Loose

LEMMA LiveIs ==
  ASSUME NEW e, Shape(e), Texts(e)
  PROVE  /\ \A b \in Buffers : \A l \in LinesOf(e, b) : b \in Live(e) /\ l \in Lines
         /\ \A b \in Live(e) : b \in Buffers /\ e.at[b] \in LinesOf(e, b) /\ e.at[b] \in Lines
<1>1. \A b \in Buffers : \A l \in LinesOf(e, b) : b \in Live(e) /\ l \in Lines
  BY TextIs DEF LinesOf, Live
<1>2. \A b \in Live(e) : b \in Buffers /\ e.at[b] \in LinesOf(e, b)
  BY DEF Live, Texts
<1> QED
  BY <1>1, <1>2

LEMMA WindowIs ==
  ASSUME NEW e, Loose(e), NEW k \in DOMAIN e.ring
  PROVE  /\ e.ring[k] \in Window /\ e.ring[k].buf \in Live(e)
         /\ e.ring[k].mark \in LinesOf(e, e.ring[k].buf) /\ (e.ring[k].trashed \/ e.ring[k].beg \in LinesOf(e, e.ring[k].buf))
         /\ e.ring[k].sy \in Nat /\ e.ring[k].rows \in Nat
<1>1. Shape(e) /\ Texts(e) /\ Views(e)
  BY DEF Loose
<1>2. e.ring[k] \in Window
  BY <1>1, RingIs
<1>3. e.ring[k].buf \in Buffers /\ e.ring[k].sy \in Nat /\ e.ring[k].rows \in Nat
  BY <1>2 DEF Window
<1>4. e.ring[k].mark \in LinesOf(e, e.ring[k].buf) /\ (e.ring[k].trashed \/ e.ring[k].beg \in LinesOf(e, e.ring[k].buf))
  BY <1>1 DEF Views
<1> QED
  BY <1>1, <1>2, <1>3, <1>4, LiveIs

Shows(w, b, l) == [w EXCEPT !.buf = b, !.beg = l, !.mark = l]

LEMMA ShowsIs ==
  ASSUME NEW w \in Window, NEW b \in Buffers, NEW l \in Lines
  PROVE  /\ Shows(w, b, l) \in Window /\ Shows(w, b, l).sy = w.sy /\ Shows(w, b, l).rows = w.rows
         /\ Shows(w, b, l).buf = b /\ Shows(w, b, l).mark = l /\ Shows(w, b, l).beg = l
         /\ Shows(w, b, l).trashed = w.trashed
  BY DEF Window, Shows

(* Windows that show another buffer where all rows are marked.             *)
LEMMA ReshownSound ==
  ASSUME NEW e, Sound(e), NEW f, SameRooms(e, f), f.screen = e.screen, f.suspend = e.suspend,
         Texts(f), Views(f),
         ~e.suspend => \A k \in DOMAIN e.ring :
           \/ f.ring[k].buf = e.ring[k].buf /\ LinesOf(f, e.ring[k].buf) = LinesOf(e, e.ring[k].buf)
           \/ \A r \in RowsOf(e.ring[k]) : e.screen[r].mod
  PROVE  Sound(f)
<1>1. Shape(e) /\ Clean(e)
  BY SoundShape
<1>2. Shape(f) /\ \A k \in DOMAIN e.ring : RowsOf(f.ring[k]) = RowsOf(e.ring[k])
  BY <1>1, SameRoomsShape
<1>3. Clean(f)
  <2> SUFFICES ASSUME ~f.suspend, NEW k \in DOMAIN f.ring, NEW r \in RowsOf(f.ring[k])
               PROVE  Current(f.screen[r], LinesOf(f, f.ring[k].buf))
    BY DEF Clean
  <2>1. k \in DOMAIN e.ring /\ r \in RowsOf(e.ring[k])
    BY <1>2 DEF SameRooms
  <2>2. Current(e.screen[r], LinesOf(e, e.ring[k].buf))
    BY <1>1, <2>1 DEF Clean
  <2> QED
    BY <2>1, <2>2 DEF Current
<1> QED
  BY <1>2, <1>3 DEF Sound, Loose

LEMMA WindowBufferSound ==
  ASSUME NEW e, Sound(e), NEW b \in Live(e)
  PROVE  /\ Sound(WindowBuffer(e, b)) /\ WindowBuffer(e, b).suspend = e.suspend /\ WindowBuffer(e, b).cbuf = e.cbuf
         /\ JWindow(WindowBuffer(e, b)).buf = b /\ Len(WindowBuffer(e, b).ring) = Len(e.ring)
<1> DEFINE l == e.at[b]
           d == TouchWindow(e)
           n == Len(d.ring)
           w == d.ring[1]
           x == [w EXCEPT !.buf = b, !.beg = l, !.mark = l, !.trashed = TRUE]
           s == [d.ring EXCEPT ![1] = x]
           f == WithRing(d, s)
<1>1. Loose(e) /\ Shape(e) /\ Texts(e) /\ b \in Buffers /\ l \in Lines /\ l \in LinesOf(e, b)
  BY SoundShape, LiveIs DEF Sound
<1>2. Touched(e, d) /\ Sound(d)
  BY <1>1, TouchWindowTouched, TouchedSound
<1>3. ~e.suspend => \A r \in RowsOf(JWindow(e)) : d.screen[r].mod
  BY <1>1, TouchWindowMarks
<1> HIDE DEF l, d
<1>4. /\ d.text = e.text /\ d.at = e.at /\ d.cbuf = e.cbuf /\ d.suspend = e.suspend /\ n = Len(e.ring)
      /\ \A c : LinesOf(d, c) = LinesOf(e, c)
  BY <1>2 DEF Touched, LinesOf
<1>5. Shape(d) /\ Texts(d) /\ Views(d) /\ d \in Editor(d.height)
  BY <1>2, SoundShape
<1>6. n \in Nat /\ DOMAIN d.ring = 1..n /\ 1 \in 1..n /\ \A k \in 1..n : d.ring[k] \in Window
  BY <1>5, RingIs
<1>7. /\ x \in Window /\ x.sy = w.sy /\ x.rows = w.rows /\ x.buf = b /\ x.beg = l /\ x.mark = l
  <2>1. w \in Window
    BY <1>6
  <2> QED
    BY <1>1, <2>1 DEF Window
<1> HIDE DEF x
<1>8. \A k \in 1..n : s[k] = IF k = 1 THEN x ELSE d.ring[k]
  BY <1>6
<1>9. s \in [1..n -> Window]
  BY <1>6, <1>7
<1> HIDE DEF s
<1>10. s \in Seq(Window) /\ Len(s) = n /\ DOMAIN s = 1..n
  BY <1>6, <1>9, MapIsSeq
<1>11. f \in Editor(d.height) /\ f.ring = s /\ f.screen = d.screen /\ SameRest(d, f)
  BY ONLY <1>5, <1>10, WithRingIs
<1> HIDE DEF f
<1>12. SameRooms(d, f)
  <2>1. \A k \in 1..n : s[k].sy = d.ring[k].sy /\ s[k].rows = d.ring[k].rows
    BY <1>7, <1>8
  <2> QED
    BY <1>6, <1>10, <1>11, <2>1 DEF SameRooms, SameRest
<1>13. \A c : LinesOf(f, c) = LinesOf(e, c)
  BY <1>4, <1>11 DEF LinesOf, SameRest
<1>14. Texts(f)
  BY <1>4, <1>5, <1>11, <1>13 DEF Texts, Live, SameRest
<1>15. Views(f)
  <2> SUFFICES ASSUME NEW k \in 1..n
               PROVE  s[k].mark \in LinesOf(e, s[k].buf) /\ (s[k].trashed \/ s[k].beg \in LinesOf(e, s[k].buf))
    BY <1>10, <1>11, <1>13 DEF Views
  <2>1. CASE k = 1
    BY <1>1, <1>7, <1>8, <2>1
  <2>2. CASE k # 1
    BY <1>4, <1>5, <1>6, <1>8, <2>2 DEF Views
  <2> QED
    BY <2>1, <2>2
<1>16. ASSUME ~d.suspend, NEW k \in DOMAIN d.ring
       PROVE  \/ f.ring[k].buf = d.ring[k].buf /\ LinesOf(f, d.ring[k].buf) = LinesOf(d, d.ring[k].buf)
              \/ \A r \in RowsOf(d.ring[k]) : d.screen[r].mod
  <2>1. CASE k = 1
    <3>1. 1 \in DOMAIN e.ring
      BY <1>1, RingIs
    <3>2. RowsOf(d.ring[1]) = RowsOf(JWindow(e))
      BY <1>2, <3>1 DEF Touched, SameView, RowsOf, JWindow
    <3> QED
      BY <1>3, <1>4, <1>16, <2>1, <3>2
  <2>2. CASE k # 1
    BY <1>4, <1>6, <1>8, <1>11, <1>13, <1>16, <2>2
  <2> QED
    BY <2>1, <2>2
<1>17. Sound(f)
  BY <1>2, <1>11, <1>12, <1>14, <1>15, <1>16, ReshownSound DEF SameRest
<1>18. f = WindowBuffer(e, b)
  BY <1>5 DEF f, s, x, d, l, WithRing, WindowBuffer, Editor
<1>19. JWindow(f).buf = b /\ Len(f.ring) = Len(e.ring) /\ f.suspend = e.suspend /\ f.cbuf = e.cbuf
  BY <1>4, <1>6, <1>7, <1>8, <1>10, <1>11 DEF JWindow, SameRest
<1> QED
  BY <1>17, <1>18, <1>19

LEMMA KillBufferCmdSound ==
  ASSUME NEW e, Sound(e), NEW b \in Live(e), NEW other \in Live(e), other # b
  PROVE  Sound(KillBufferCmd(e, b, other))
<1> DEFINE l == e.at[other]
           d == TouchWindowHard(e, Showing(e, b))
           n == Len(d.ring)
           s == [k \in DOMAIN d.ring |-> IF d.ring[k].buf = b THEN Shows(d.ring[k], other, l) ELSE d.ring[k]]
           f == WithRing(d, s)
           u == <<>>
           c == IF e.cbuf = b THEN other ELSE e.cbuf
           t == [f.text EXCEPT ![b] = u]
           a == [f.at EXCEPT ![b] = None]
           g == WithText(f, t, a)
           h == [g EXCEPT !.cbuf = c]
<1>1. Loose(e) /\ Shape(e) /\ Texts(e) /\ b \in Buffers /\ other \in Buffers /\ l \in Lines /\ l \in LinesOf(e, other)
  BY SoundShape, LiveIs DEF Sound
<1>2. Touched(e, d) /\ Sound(d) /\ \A k \in Showing(e, b) \cap DOMAIN e.ring : \A r \in RowsOf(e.ring[k]) : d.screen[r].mod
  BY <1>1, TouchWindowHardTouched, TouchedSound
<1> HIDE DEF l, d
<1>3. /\ d.text = e.text /\ d.at = e.at /\ d.cbuf = e.cbuf /\ d.suspend = e.suspend /\ n = Len(e.ring)
      /\ \A i : LinesOf(d, i) = LinesOf(e, i)
  BY <1>2 DEF Touched, LinesOf
<1>4. Shape(d) /\ Texts(d) /\ Views(d) /\ d \in Editor(d.height) /\ DOMAIN d.ring = DOMAIN e.ring
  BY <1>1, <1>2, SoundShape, TouchedShape
<1>5. n \in Nat /\ DOMAIN d.ring = 1..n /\ \A k \in 1..n : d.ring[k] \in Window
  BY <1>4, RingIs
<1>6. ASSUME NEW k \in 1..n
      PROVE  /\ s[k] \in Window /\ s[k].sy = d.ring[k].sy /\ s[k].rows = d.ring[k].rows
             /\ d.ring[k].buf = b => s[k].buf = other /\ s[k].mark = l /\ s[k].beg = l
             /\ d.ring[k].buf # b => s[k] = d.ring[k]
  <2>1. d.ring[k] \in Window
    BY <1>5
  <2>2. LET v == Shows(d.ring[k], other, l)
        IN v \in Window /\ v.sy = d.ring[k].sy /\ v.rows = d.ring[k].rows /\ v.buf = other /\ v.mark = l /\ v.beg = l
    BY ONLY <1>1, <2>1, ShowsIs
  <2>3. s[k] = IF d.ring[k].buf = b THEN Shows(d.ring[k], other, l) ELSE d.ring[k]
    BY <1>5
  <2> HIDE DEF s
  <2> QED
    BY ONLY <2>1, <2>2, <2>3
<1>7. s \in [1..n -> Window]
  BY <1>5, <1>6
<1> HIDE DEF s
<1>8. s \in Seq(Window) /\ Len(s) = n /\ DOMAIN s = 1..n
  BY <1>5, <1>7, MapIsSeq
<1>9. f \in Editor(d.height) /\ f.ring = s /\ f.screen = d.screen /\ SameRest(d, f)
  BY ONLY <1>4, <1>8, WithRingIs
<1> HIDE DEF f
<1>10. f.text = e.text /\ f.at = e.at /\ f.cbuf = e.cbuf /\ f.suspend = e.suspend /\ f.height = d.height
  BY <1>3, <1>9 DEF SameRest
<1>11. f.text \in [Buffers -> Seq(Lines)] /\ f.at \in [Buffers -> Lines \cup {None}]
  BY <1>9 DEF Editor
<1>12. u \in Seq(Lines) /\ LinesIn(u) = {} /\ Injective(u) /\ u = <<>>
  BY DEF LinesIn, Injective
<1> HIDE DEF u
<1>13. t \in [Buffers -> Seq(Lines)] /\ a \in [Buffers -> Lines \cup {None}]
  BY <1>1, <1>11, <1>12
<1>14. t[c] # <<>> /\ c \in Buffers /\ c # b
  <2>1. e.cbuf \in Live(e)
    BY <1>1 DEF Texts
  <2> QED
    BY <1>1, <1>10, <1>11, <2>1 DEF Live
<1> HIDE DEF c, t, a
<1>15. /\ g \in Editor(d.height) /\ g.text = t /\ g.at = a /\ g.ring = f.ring /\ g.screen = f.screen
       /\ g.height = f.height /\ g.suspend = f.suspend
  BY ONLY <1>9, <1>13, WithTextIs
<1> HIDE DEF g
<1>16. /\ h \in Editor(d.height) /\ h.text = t /\ h.at = a /\ h.ring = s /\ h.screen = d.screen
       /\ h.height = d.height /\ h.suspend = d.suspend /\ h.cbuf = c
  BY <1>3, <1>9, <1>10, <1>14, <1>15 DEF Editor
<1> HIDE DEF h
<1>17. /\ Texts(h) /\ LinesOf(h, b) = {}
       /\ \A i \in Buffers : i # b => LinesOf(h, i) = LinesOf(e, i)
  <2>1. Fits(e, b, u, None)
    BY <1>12 DEF Fits
  <2>2. HasText(e, h, b, u, None)
    BY <1>10, <1>14, <1>16 DEF HasText, t, a
  <2>3. None \in Lines \cup {None} /\ u \in Seq(Lines)
    BY <1>12
  <2>4. Texts(h) /\ LinesOf(h, b) = LinesIn(u) /\ \A i \in Buffers : i # b => LinesOf(h, i) = LinesOf(e, i)
    BY ONLY <1>1, <2>1, <2>2, <2>3, NewText
  <2> QED
    BY <1>12, <2>4
<1>18. SameRooms(d, h)
  BY <1>5, <1>6, <1>8, <1>16 DEF SameRooms
<1>19. Views(h)
  <2> SUFFICES ASSUME NEW k \in 1..n
               PROVE  s[k].mark \in LinesOf(h, s[k].buf) /\ (s[k].trashed \/ s[k].beg \in LinesOf(h, s[k].buf))
    BY <1>8, <1>16 DEF Views
  <2>1. CASE d.ring[k].buf = b
    BY <1>1, <1>6, <1>17, <2>1
  <2>2. CASE d.ring[k].buf # b
    <3>1. d.ring[k].buf \in Buffers
      BY <1>5 DEF Window
    <3>2. d.ring[k].mark \in LinesOf(e, d.ring[k].buf) /\ (d.ring[k].trashed \/ d.ring[k].beg \in LinesOf(e, d.ring[k].buf))
      BY <1>3, <1>4, <1>5 DEF Views
    <3> QED
      BY <1>6, <1>17, <2>2, <3>1, <3>2
  <2> QED
    BY <2>1, <2>2
<1>20. ASSUME ~d.suspend, NEW k \in DOMAIN d.ring
       PROVE  \/ h.ring[k].buf = d.ring[k].buf /\ LinesOf(h, d.ring[k].buf) = LinesOf(d, d.ring[k].buf)
              \/ \A r \in RowsOf(d.ring[k]) : d.screen[r].mod
  <2>1. CASE d.ring[k].buf = b
    <3>1. k \in DOMAIN e.ring /\ SameView(d.ring[k], e.ring[k])
      BY <1>2, <1>4 DEF Touched
    <3>2. k \in Showing(e, b) /\ RowsOf(d.ring[k]) = RowsOf(e.ring[k])
      BY <2>1, <3>1 DEF Showing, SameView, RowsOf
    <3> QED
      BY <1>2, <3>1, <3>2
  <2>2. CASE d.ring[k].buf # b
    <3>1. d.ring[k].buf \in Buffers
      BY <1>5 DEF Window
    <3> QED
      BY <1>3, <1>5, <1>6, <1>16, <1>17, <2>2, <3>1
  <2> QED
    BY <2>1, <2>2
<1>21. Sound(h)
  BY <1>2, <1>16, <1>17, <1>18, <1>19, <1>20, ReshownSound
<1>22. Sound(Outdated(h, LinesOf(e, b)))
  <2>1. LinesOf(e, b) \in SUBSET Lines
    BY <1>1, TextIs
  <2>2. \A i \in Buffers : LinesOf(h, i) \cap LinesOf(e, b) = {}
    BY <1>1, <1>17 DEF Texts
  <2> QED
    BY <1>21, <2>1, <2>2, OutdatedSound
<1>23. h = [f EXCEPT !.text[b] = <<>>, !.at[b] = None, !.cbuf = IF @ = b THEN other ELSE @]
  BY <1>9, <1>10 DEF h, g, t, a, u, c, WithText, Editor
<1>24. f = [d EXCEPT !.ring = [k \in DOMAIN @ |->
             IF @[k].buf = b THEN [@[k] EXCEPT !.buf = other, !.beg = l, !.mark = l] ELSE @[k]]]
  BY DEF f, s, WithRing, Shows
<1> QED
  BY <1>22, <1>23, <1>24 DEF KillBufferCmd, TouchScreenForBuffer, d, l


-----------------------------------------------------------------------------
(* Going to, making and deleting windows.                                  *)

LEMMA PairIs ==
  ASSUME NEW v \in Window, NEW w \in Window
  PROVE  /\ <<v>> \in Seq(Window) /\ Len(<<v>>) = 1 /\ DOMAIN <<v>> = {1} /\ <<v>>[1] = v
         /\ <<v, w>> \in Seq(Window) /\ Len(<<v, w>>) = 2 /\ DOMAIN <<v, w>> = {1, 2}
         /\ <<v, w>>[1] = v /\ <<v, w>>[2] = w
  OBVIOUS

LEMMA TurnedIs ==
  ASSUME NEW s \in Seq(Window), Len(s) \in {1, 2}, NEW v \in Window
  PROVE  /\ Append(Tail(s), v) \in Seq(Window) /\ Len(Append(Tail(s), v)) = Len(s)
         /\ DOMAIN Append(Tail(s), v) = 1..Len(s)
         /\ Append(Tail(s), v)[Len(s)] = v /\ (Len(s) = 2 => Append(Tail(s), v)[1] = s[2])
<1> DEFINE t == Tail(s)
           n == Len(s)
<1>1. n \in {1, 2} /\ s # <<>>
  OBVIOUS
<1>2. t \in Seq(Window) /\ Len(t) = n - 1 /\ \A i \in 1..n - 1 : t[i] = s[i + 1]
  BY <1>1, HeadTailProperties
<1> HIDE DEF t, n
<1> DEFINE r == Append(t, v)
<1>3. r \in Seq(Window) /\ Len(r) = Len(t) + 1 /\ (\A i \in 1..Len(t) : r[i] = t[i]) /\ r[Len(t) + 1] = v
  BY <1>2, AppendProperties
<1> HIDE DEF r
<1>4. r \in Seq(Window) /\ Len(r) = n /\ DOMAIN r = 1..n /\ r[n] = v
  BY <1>1, <1>2, <1>3
<1>5. n = 2 => r[1] = s[2]
  BY <1>1, <1>2, <1>3
<1> QED
  BY <1>4, <1>5 DEF r, t, n

(* What other_window promises.                                             *)
Turned(e, f) ==
  /\ Sound(f) /\ f.height = e.height /\ f.screen = e.screen /\ f.suspend = e.suspend /\ f.text = e.text
  /\ Len(f.ring) = Len(e.ring) /\ f.cbuf = JWindow(f).buf /\ (Len(e.ring) = 2 => JWindow(f) = e.ring[2])

LEMMA OtherWindowSound == ASSUME NEW e, Sound(e) PROVE Turned(e, OtherWindow(e))
<1> DEFINE v == JWindow(e)
           b == v.buf
           l == e.at[b]
           x == [v EXCEPT !.mark = l]
           s == Append(Tail(e.ring), x)
           f == WithRing(e, s)
           n == Len(e.ring)
<1>1. Loose(e) /\ Shape(e) /\ Texts(e) /\ Views(e) /\ e \in Editor(e.height)
  BY SoundShape DEF Sound
<1>2. n \in {1, 2} /\ DOMAIN e.ring = 1..n /\ 1 \in DOMAIN e.ring /\ e.ring \in Seq(Window) /\ e.ring # <<>>
  BY <1>1, RingIs
<1>3. v \in Window /\ v = e.ring[1] /\ v = Head(e.ring) /\ b \in Live(e) /\ (v.trashed \/ v.beg \in LinesOf(e, b))
  BY <1>1, <1>2, WindowIs DEF JWindow
<1>4. b \in Buffers /\ l \in LinesOf(e, b) /\ l \in Lines
  BY <1>1, <1>3, LiveIs
<1>5. x \in Window /\ x.sy = v.sy /\ x.rows = v.rows /\ x.buf = b /\ x.beg = v.beg /\ x.mark = l
      /\ x.trashed = v.trashed
  BY <1>3, <1>4 DEF Window
<1> HIDE DEF v, x, l
<1>6. s \in Seq(Window) /\ Len(s) = n /\ DOMAIN s = 1..n /\ s[n] = x /\ (n = 2 => s[1] = e.ring[2])
  BY ONLY <1>2, <1>5, TurnedIs
<1>11. NextWindow(e) = f
  BY DEF NextWindow, f, s, x, l, v, WithRing
<1> HIDE DEF s, f
<1>8. Tiled(e.ring, e.height) /\ (n = 2 => e.ring[2] \in Window)
  BY <1>1, <1>2, RingIs DEF Shape
<1>9. CASE n = 1
  <2> DEFINE g == [f EXCEPT !.cbuf = b]
  <2>1. s \in Seq(Window) /\ Len(s) = 1 /\ DOMAIN s = {1} /\ s[1] = x
    BY <1>6, <1>9
  <2>2. f \in Editor(e.height) /\ f.ring = s /\ f.screen = e.screen /\ SameRest(e, f)
    BY ONLY <1>1, <2>1, WithRingIs DEF f
  <2>3. /\ g \in Editor(e.height) /\ g.ring = s /\ g.screen = e.screen /\ g.height = e.height
        /\ g.text = e.text /\ g.at = e.at /\ g.suspend = e.suspend /\ g.cbuf = b
    BY <1>4, <2>2 DEF SameRest, Editor
  <2> HIDE DEF g
  <2>4. \A c : LinesOf(g, c) = LinesOf(e, c)
    BY <2>3 DEF LinesOf
  <2>5. Texts(g)
    BY <1>1, <1>3, <2>3, <2>4 DEF Texts, Live
  <2>6. Views(g)
    BY <1>3, <1>4, <1>5, <2>1, <2>3, <2>4 DEF Views
  <2>7. Tiled(g.ring, g.height)
    BY <1>3, <1>5, <1>8, <1>9, <2>1, <2>3 DEF Tiled
  <2>8. \A k \in DOMAIN g.ring : \E j \in DOMAIN e.ring : RowsOf(g.ring[k]) \subseteq RowsOf(e.ring[j]) /\ g.ring[k].buf = e.ring[j].buf
    BY <1>2, <1>3, <1>5, <2>1, <2>3 DEF RowsOf
  <2>9. Sound(g)
    BY <2>3, <2>5, <2>6, <2>7, <2>8, WithinSound
  <2>10. g = OtherWindow(e)
    <3>1. JWindow(f).buf = b
      BY <1>5, <2>1, <2>2 DEF JWindow
    <3> QED
      BY <1>9, <1>11, <3>1 DEF OtherWindow, g
  <2>11. Turned(e, g)
    BY <1>5, <1>9, <2>1, <2>3, <2>9 DEF Turned, JWindow
  <2> QED
    BY <2>10, <2>11
<1>10. CASE n = 2
  <2> DEFINE w == e.ring[2]
             c == w.buf
             m == w.mark
             a == [e.at EXCEPT ![c] = m]
             h == WithText(f, e.text, a)
             g == [h EXCEPT !.cbuf = c]
  <2>1. s \in Seq(Window) /\ Len(s) = 2 /\ DOMAIN s = {1, 2} /\ s[1] = w /\ s[2] = x
    BY <1>6, <1>10
  <2>2. f \in Editor(e.height) /\ f.ring = s /\ f.screen = e.screen /\ SameRest(e, f)
    BY ONLY <1>1, <2>1, WithRingIs DEF f
  <2>3. /\ w \in Window /\ c \in Live(e) /\ m \in LinesOf(e, c) /\ (w.trashed \/ w.beg \in LinesOf(e, c))
        /\ 2 \in DOMAIN e.ring
    BY <1>1, <1>2, <1>10, WindowIs
  <2>4. c \in Buffers /\ m \in Lines /\ e.text[c] # <<>> /\ e.text[c] \in Seq(Lines)
    BY <1>1, <2>3, LiveIs, TextIs DEF Live
  <2>5. e.text \in [Buffers -> Seq(Lines)] /\ a \in [Buffers -> Lines \cup {None}]
    BY <1>1, <2>4 DEF Editor
  <2> HIDE DEF a
  <2>6. /\ h \in Editor(e.height) /\ h.text = e.text /\ h.at = a /\ h.ring = f.ring /\ h.screen = f.screen
        /\ h.height = f.height /\ h.suspend = f.suspend
    BY ONLY <2>2, <2>5, WithTextIs
  <2> HIDE DEF h
  <2>7. /\ g \in Editor(e.height) /\ g.ring = s /\ g.screen = e.screen /\ g.height = e.height
        /\ g.text = e.text /\ g.at = a /\ g.suspend = e.suspend /\ g.cbuf = c
    BY <2>2, <2>4, <2>6 DEF SameRest, Editor
  <2> HIDE DEF g
  <2>8. \A i : LinesOf(g, i) = LinesOf(e, i)
    BY <2>7 DEF LinesOf
  <2>9. Texts(g)
    <3>1. LinesOf(e, c) = LinesIn(e.text[c])
      BY DEF LinesOf, LinesIn
    <3>2. Fits(e, c, e.text[c], m)
      BY <1>1, <2>3, <2>4, <3>1 DEF Fits, Texts
    <3>3. e.text = [e.text EXCEPT ![c] = e.text[c]]
      BY <2>5
    <3>4. HasText(e, g, c, e.text[c], m)
      BY <2>4, <2>7, <3>3 DEF HasText, a
    <3>5. m \in Lines \cup {None}
      BY <2>4
    <3> QED
      BY ONLY <1>1, <2>4, <3>2, <3>4, <3>5, NewText
  <2>10. Views(g)
    BY <1>3, <1>4, <1>5, <2>1, <2>3, <2>7, <2>8 DEF Views
  <2>11. Tiled(g.ring, g.height)
    <3>1. Stacked(v, w, e.height) \/ Stacked(w, v, e.height)
      BY <1>3, <1>8, <1>10 DEF Tiled
    <3>2. Stacked(x, w, e.height) \/ Stacked(w, x, e.height)
      BY <1>5, <3>1 DEF Stacked
    <3> QED
      BY <1>8, <1>10, <2>1, <2>7, <3>2 DEF Tiled
  <2>12. ASSUME NEW k \in DOMAIN g.ring
         PROVE  \E j \in DOMAIN e.ring : RowsOf(g.ring[k]) \subseteq RowsOf(e.ring[j]) /\ g.ring[k].buf = e.ring[j].buf
    <3>1. CASE k = 1
      BY <2>1, <2>3, <2>7, <3>1 DEF RowsOf
    <3>2. CASE k = 2
      BY <1>2, <1>3, <1>5, <2>1, <2>7, <3>2 DEF RowsOf
    <3> QED
      BY <2>1, <2>7, <3>1, <3>2
  <2>13. Sound(g)
    BY <2>7, <2>9, <2>10, <2>11, <2>12, WithinSound
  <2>14. g = OtherWindow(e)
    <3>1. OtherWindow(e) = [f EXCEPT !.cbuf = JWindow(f).buf, !.at[JWindow(f).buf] = JWindow(f).mark]
      BY <1>10, <1>11 DEF OtherWindow
    <3>2. JWindow(f) = w
      BY <2>1, <2>2 DEF JWindow
    <3>3. g = [f EXCEPT !.cbuf = c, !.at[c] = m]
      BY <2>2 DEF g, h, a, WithText, Editor, SameRest
    <3> QED
      BY <3>1, <3>2, <3>3
  <2>15. Turned(e, g)
    BY <1>10, <2>1, <2>7, <2>13 DEF Turned, JWindow
  <2> QED
    BY <2>14, <2>15
<1> QED
  BY <1>2, <1>9, <1>10

LEMMA SplitWindowSound ==
  ASSUME NEW e, Sound(e), Len(e.ring) < MaxWindows, JWindow(e).rows >= 5
  PROVE  Sound(SplitWindow(e))
<1> DEFINE w == JWindow(e)
           n == w.rows \div 2
           l == e.at[w.buf]
           id == FreeId(e)
           x == [w EXCEPT !.rows = n, !.beg = l]
           new == [id |-> id, sy |-> w.sy + n + 1, rows |-> w.rows - n - 1, buf |-> w.buf,
                   beg |-> l, mark |-> l, trashed |-> FALSE]
           s == <<x, new>>
           f == WithRing(e, s)
           g == [f EXCEPT !.cbuf = w.buf]
<1>1. Loose(e) /\ Shape(e) /\ Texts(e) /\ Views(e) /\ e \in Editor(e.height)
  BY SoundShape DEF Sound
<1>2. Len(e.ring) = 1 /\ MaxWindows = 2 /\ DOMAIN e.ring = {1} /\ e.ring \in Seq(Window)
  <2>1. Len(e.ring) \in {1, 2} /\ DOMAIN e.ring = 1..Len(e.ring) /\ e.ring \in Seq(Window)
    BY <1>1, RingIs
  <2> DEFINE i == Len(e.ring)
  <2> HIDE DEF i
  <2>2. i \in {1, 2} /\ i < MaxWindows
    BY <2>1 DEF i
  <2>3. i = 1 /\ MaxWindows = 2
    BY ONLY <2>2, WindowsAre
  <2> QED
    BY <2>1, <2>3 DEF i
<1>3. w \in Window /\ w = e.ring[1] /\ w.buf \in Live(e) /\ w.mark \in LinesOf(e, w.buf)
  BY <1>1, <1>2, WindowIs DEF JWindow
<1>4. w.buf \in Buffers /\ l \in LinesOf(e, w.buf) /\ l \in Lines /\ w.sy = 0 /\ w.rows = e.height - 2 /\ w.rows \in Nat
  <2>1. Tiled(e.ring, e.height)
    BY <1>1 DEF Shape
  <2>2. w.sy = 0 /\ w.rows = e.height - 2
    BY <1>2, <1>3, <2>1 DEF Tiled
  <2> QED
    BY <1>1, <1>3, <2>2, LiveIs DEF Window
<1>5. id \in Ids
  <2> DEFINE used == {e.ring[i].id : i \in DOMAIN e.ring}
             j == e.ring[1].id
  <2>1. used = {j} /\ Ids = {1, 2}
    BY <1>2 DEF Ids
  <2> HIDE DEF j, used
  <2>2. \E a \in Ids \ used : \A b \in Ids \ used : a <= b
    <3>1. CASE j = 1
      <4>1. Ids \ used = {2}
        BY <2>1, <3>1
      <4> QED
        BY <4>1
    <3>2. CASE j # 1
      <4>1. 1 \in Ids \ used /\ \A b \in Ids \ used : 1 <= b
        BY ONLY <2>1, <3>2
      <4> QED
        BY <4>1
    <3> QED
      BY <3>1, <3>2
  <2>3. Min(Ids \ used) \in Ids \ used
    BY <2>2 DEF Min
  <2> QED
    BY <2>3 DEF FreeId, used
<1> HIDE DEF l, id
<1> DEFINE p == w.rows
<1>6. p \in Nat /\ p >= 5 /\ n = p \div 2
  BY <1>4
<1> HIDE DEF n, p
<1>7. n \in Nat /\ n >= 2 /\ p - n - 1 \in Nat /\ p - n - 1 >= 2 /\ n < p
  BY <1>6
<1>8. x \in Window /\ x.sy = 0 /\ x.rows = n /\ x.buf = w.buf /\ x.beg = l /\ x.mark = w.mark
  BY <1>3, <1>4, <1>7 DEF Window
<1>9. new \in Window /\ new.sy = n + 1 /\ new.rows = p - n - 1 /\ new.buf = w.buf /\ new.beg = l /\ new.mark = l
  <2>1. w.sy + n + 1 = n + 1 /\ n + 1 \in Nat
    BY <1>4, <1>7
  <2>2. w.rows - n - 1 \in Nat /\ w.buf \in Buffers /\ FALSE \in BOOLEAN
    BY <1>4, <1>7 DEF p
  <2> HIDE DEF w
  <2> QED
    BY <1>4, <1>5, <2>1, <2>2 DEF Window, p
<1> HIDE DEF x, new
<1>10. s \in Seq(Window) /\ Len(s) = 2 /\ DOMAIN s = {1, 2} /\ s[1] = x /\ s[2] = new
  BY ONLY <1>8, <1>9, PairIs
<1>11. f \in Editor(e.height) /\ f.ring = s /\ f.screen = e.screen /\ SameRest(e, f)
  BY ONLY <1>1, <1>10, WithRingIs
<1> HIDE DEF f
<1>12. /\ g \in Editor(e.height) /\ g.ring = s /\ g.screen = e.screen /\ g.height = e.height
       /\ g.text = e.text /\ g.at = e.at /\ g.suspend = e.suspend /\ g.cbuf = w.buf
  BY <1>4, <1>11 DEF SameRest, Editor
<1> HIDE DEF g
<1>13. \A c : LinesOf(g, c) = LinesOf(e, c)
  BY <1>12 DEF LinesOf
<1>14. Texts(g)
  BY <1>1, <1>3, <1>12, <1>13 DEF Texts, Live
<1>15. Views(g)
  BY <1>3, <1>4, <1>8, <1>9, <1>10, <1>12, <1>13 DEF Views
<1>16. Tiled(g.ring, g.height)
  <2>1. e.height = p + 2
    BY <1>1, <1>4, <1>6, RingIs DEF p
  <2>2. Stacked(x, new, e.height)
    BY <1>6, <1>7, <1>8, <1>9, <2>1 DEF Stacked
  <2> QED
    BY <1>2, <1>10, <1>12, <2>2 DEF Tiled
<1>17. ASSUME NEW k \in DOMAIN g.ring
       PROVE  \E j \in DOMAIN e.ring : RowsOf(g.ring[k]) \subseteq RowsOf(e.ring[j]) /\ g.ring[k].buf = e.ring[j].buf
  <2>1. RowsOf(e.ring[1]) = 0..0 + p - 1
    BY <1>3, <1>4 DEF RowsOf, p
  <2>2. RowsOf(x) = 0..0 + n - 1
    BY <1>8 DEF RowsOf
  <2>3. RowsOf(new) = n + 1..n + 1 + (p - n - 1) - 1
    BY <1>9 DEF RowsOf
  <2>4. RowsOf(x) \subseteq RowsOf(e.ring[1]) /\ RowsOf(new) \subseteq RowsOf(e.ring[1])
    BY <1>6, <1>7, <2>1, <2>2, <2>3
  <2> QED
    BY <1>2, <1>3, <1>8, <1>9, <1>10, <1>12, <2>4
<1>18. Sound(g)
  BY <1>12, <1>14, <1>15, <1>16, <1>17, WithinSound
<1> DEFINE h == TouchWindow(OtherWindow(g))
<1>19. Sound(h)
  <2>1. Sound(OtherWindow(g))
    BY <1>18, OtherWindowSound DEF Turned
  <2> QED
    BY <2>1, SoundShape, TouchWindowTouched, TouchedSound
<1>20. g = [e EXCEPT !.ring = <<[w EXCEPT !.rows = n, !.beg = l], new>> \o Tail(@), !.cbuf = w.buf]
  <2>1. Tail(e.ring) = <<>>
    <3>1. e.ring # <<>>
      BY <1>2, EmptySeq
    <3>2. Tail(e.ring) \in Seq(Window) /\ Len(Tail(e.ring)) = 0
      BY <1>2, <3>1, HeadTailProperties
    <3> QED
      BY <3>2, EmptySeq
  <2>2. s \o Tail(e.ring) = s
    BY <1>10, <2>1, ConcatEmptySeq
  <2> HIDE DEF s
  <2>3. g = [e EXCEPT !.ring = s \o Tail(@), !.cbuf = w.buf]
    BY <1>1, <2>2 DEF g, f, WithRing
  <2> QED
    BY <2>3 DEF s, x
<1>21. Sound(OtherWindow(h)) /\ Sound(OtherWindow(OtherWindow(h)))
  BY <1>19, OtherWindowSound DEF Turned
<1>22. SplitWindow(e) \in {h, OtherWindow(h), OtherWindow(OtherWindow(h))}
  BY <1>20 DEF SplitWindow, h, new, n, l, id
<1> QED
  BY <1>19, <1>21, <1>22

(* One window on the whole screen, all of its rows marked.                 *)
LEMMA AloneSound ==
  ASSUME NEW e, Loose(e), NEW w \in Window, w.sy = 0, w.rows = e.height - 2,
         w.mark \in LinesOf(e, w.buf), w.trashed \/ w.beg \in LinesOf(e, w.buf)
  PROVE  /\ Sound(TouchWindow(WithRing(e, <<w>>))) /\ TouchWindow(WithRing(e, <<w>>)).suspend = e.suspend
         /\ Len(TouchWindow(WithRing(e, <<w>>)).ring) = 1 /\ TouchWindow(WithRing(e, <<w>>)).height = e.height
<1> DEFINE s == <<w>>
           f == WithRing(e, s)
           g == TouchWindow(f)
<1>1. Shape(e) /\ Texts(e) /\ Views(e) /\ e \in Editor(e.height) /\ e.height \in Heights
  BY DEF Loose, Shape
<1>2. s \in Seq(Window) /\ Len(s) = 1 /\ DOMAIN s = {1} /\ s[1] = w
  BY PairIs
<1> HIDE DEF s
<1>3. f \in Editor(e.height) /\ f.ring = s /\ f.screen = e.screen /\ SameRest(e, f)
  BY ONLY <1>1, <1>2, WithRingIs
<1> HIDE DEF f
<1>4. f.height = e.height /\ f.text = e.text /\ f.at = e.at /\ f.cbuf = e.cbuf /\ f.suspend = e.suspend
      /\ \A c : LinesOf(f, c) = LinesOf(e, c)
  BY <1>3 DEF SameRest, LinesOf
<1>5. Shape(f)
  BY <1>1, <1>2, <1>3, <1>4 DEF Shape, Tiled
<1>6. Texts(f) /\ Views(f)
  BY <1>1, <1>2, <1>3, <1>4 DEF Texts, Live, Views
<1>7. Loose(f)
  BY <1>5, <1>6 DEF Loose
<1>8. Touched(f, g)
  BY <1>5, TouchWindowTouched
<1>9. ~f.suspend => \A r \in RowsOf(JWindow(f)) : g.screen[r].mod
  BY <1>5, TouchWindowMarks
<1> HIDE DEF g
<1>10. Loose(g) /\ DOMAIN g.ring = {1} /\ g.suspend = e.suspend /\ g.height = e.height /\ Len(g.ring) = 1
       /\ SameView(g.ring[1], f.ring[1])
  BY <1>2, <1>3, <1>4, <1>7, <1>8, TouchedLoose DEF Touched
<1>11. RowsOf(g.ring[1]) = RowsOf(JWindow(f))
  BY <1>10 DEF SameView, RowsOf, JWindow
<1>12. Clean(g)
  BY <1>4, <1>9, <1>10, <1>11 DEF Clean, Current
<1> QED
  BY <1>10, <1>12 DEF Sound, g, f, s

LEMMA OneWindowSound ==
  ASSUME NEW e, Sound(e)
  PROVE  Sound(OneWindow(e)) /\ OneWindow(e).suspend = e.suspend /\ Len(OneWindow(e).ring) = 1 /\ OneWindow(e).height = e.height
<1> DEFINE f == TouchWindowHard(e, DOMAIN e.ring \ Showing(e, JWindow(e).buf))
           v == f.ring[1]
           h == e.height
           w == [v EXCEPT !.sy = 0, !.rows = h - 2]
<1>1. Shape(e) /\ Loose(e)
  BY SoundShape DEF Sound
<1>2. Touched(e, f)
  BY <1>1, TouchWindowHardTouched
<1> HIDE DEF f
<1>3. Loose(f) /\ Shape(f) /\ f.height = h /\ f.suspend = e.suspend
  BY <1>1, <1>2, TouchedLoose DEF Touched, Loose
<1>4. h \in Nat /\ h >= 5 /\ 1 \in DOMAIN f.ring /\ f.ring \in Seq(Window) /\ f.ring # <<>>
  BY <1>1, <1>3, RingIs
<1>5. v \in Window /\ v.mark \in LinesOf(f, v.buf) /\ (v.trashed \/ v.beg \in LinesOf(f, v.buf)) /\ v = Head(f.ring)
  BY <1>3, <1>4, WindowIs
<1> HIDE DEF h, v
<1>6. w \in Window /\ w.sy = 0 /\ w.rows = h - 2 /\ w.mark = v.mark /\ w.beg = v.beg /\ w.buf = v.buf
      /\ w.trashed = v.trashed
  <2>1. h - 2 \in Nat /\ 0 \in Nat
    BY <1>4
  <2> QED
    BY <1>5, <2>1 DEF Window
<1> HIDE DEF w
<1> DEFINE g == TouchWindow(WithRing(f, <<w>>))
<1>7. Sound(g) /\ g.suspend = f.suspend /\ Len(g.ring) = 1 /\ g.height = f.height
  BY <1>3, <1>5, <1>6, AloneSound
<1>8. g = OneWindow(e)
  BY <1>5 DEF OneWindow, f, w, h, WithRing
<1> QED
  BY <1>3, <1>7, <1>8 DEF h

LEMMA DeleteWindowSound == ASSUME NEW e, Sound(e), Len(e.ring) = 2 PROVE Sound(DeleteWindow(e))
<1> DEFINE this == JWindow(e)
           f == OtherWindow(e)
           v == f.ring[1]
           r == v.rows + this.rows + 1
           y == IF this.sy < v.sy THEN this.sy ELSE v.sy
           h == e.height
           w == [v EXCEPT !.rows = r, !.sy = y]
<1>1. Shape(e) /\ Loose(e)
  BY SoundShape DEF Sound
<1>2. Turned(e, f)
  BY OtherWindowSound
<1>3. Loose(f) /\ Shape(f) /\ f.height = h /\ Len(f.ring) = 2
  BY <1>2 DEF Turned, Sound, Loose
<1>4. h \in Nat /\ 1 \in DOMAIN f.ring /\ f.ring \in Seq(Window) /\ f.ring # <<>>
  BY <1>1, <1>3, RingIs
<1>5. v \in Window /\ v.mark \in LinesOf(f, v.buf) /\ (v.trashed \/ v.beg \in LinesOf(f, v.buf)) /\ v = Head(f.ring)
      /\ v.sy \in Nat /\ v.rows \in Nat
  BY <1>3, <1>4, WindowIs
<1>6. /\ this = e.ring[1] /\ v.sy = e.ring[2].sy /\ v.rows = e.ring[2].rows
  BY <1>2 DEF Turned, JWindow
<1> HIDE DEF f, v
<1>7. r = h - 2 /\ y = 0 /\ r \in Nat
  <2> DEFINE a == this.sy
             b == this.rows
             c == v.sy
             d == v.rows
  <2>1. Stacked(e.ring[1], e.ring[2], h) \/ Stacked(e.ring[2], e.ring[1], h)
    BY <1>1 DEF Shape, Tiled
  <2>2. a \in Nat /\ b \in Nat /\ c \in Nat /\ d \in Nat /\ h \in Nat
    BY <1>1, <1>4, <1>5, <1>6, RingIs, WindowIs
  <2>3. (a = 0 /\ c = b + 1 /\ c + d + 2 = h) \/ (c = 0 /\ a = d + 1 /\ a + b + 2 = h)
    BY <1>6, <2>1 DEF Stacked
  <2>4. r = d + b + 1 /\ y = IF a < c THEN a ELSE c
    OBVIOUS
  <2> HIDE DEF a, b, c, d, h, r, y
  <2> QED
    BY ONLY <2>2, <2>3, <2>4
<1> HIDE DEF r, y, h
<1>8. w \in Window /\ w.sy = 0 /\ w.rows = h - 2 /\ w.mark = v.mark /\ w.beg = v.beg /\ w.buf = v.buf
      /\ w.trashed = v.trashed
  BY <1>5, <1>7 DEF Window
<1> HIDE DEF w
<1> DEFINE g == TouchWindow(WithRing(f, <<w>>))
<1>9. Sound(g)
  BY <1>3, <1>5, <1>8, AloneSound
<1>10. g = DeleteWindow(e)
  BY DEF DeleteWindow, JWindow, f, w, r, y, v, WithRing
<1> QED
  BY <1>9, <1>10


-----------------------------------------------------------------------------
(* The line that is drawn first.                                           *)

LEMMA FindTopToRecenterIs ==
  ASSUME NEW e, Shape(e), Texts(e)
  PROVE  FindTopToRecenter(e) \in LinesOf(e, e.cbuf)
<1> DEFINE t == Text(e)
           i == Place(t, CLine(e))
           n == JWindow(e).rows \div 2
           j == IF i > n THEN i - n ELSE 1
<1>1. i \in DOMAIN t /\ DOMAIN t = 1..Len(t) /\ Len(t) \in Nat /\ \A k \in DOMAIN t : t[k] \in LinesOf(e, e.cbuf)
  BY CursorIs
<1>2. JWindow(e).rows \in Nat
  BY RingIs, RowsAre DEF JWindow
<1>3. n \in Nat
  BY <1>2
<1>4. FindTopToRecenter(e) = t[j]
  BY DEF FindTopToRecenter
<1> HIDE DEF n, i, t
<1>5. j \in DOMAIN t
  BY <1>1, <1>3
<1> HIDE DEF j
<1> QED
  BY <1>1, <1>4, <1>5

LEMMA FindTopIs ==
  ASSUME NEW e, Shape(e), Texts(e)
  PROVE  FindTop(e) \in LinesOf(e, e.cbuf)
<1> DEFINE t == Text(e)
           n == JWindow(e).rows
           i == Place(t, CLine(e))
           top == e.screen[JWindow(e).sy].line
           above == {j \in DOMAIN t : j <= i /\ j > i - n /\ t[j] = top}
<1>1. i \in DOMAIN t /\ DOMAIN t = 1..Len(t) /\ Len(t) \in Nat /\ \A k \in DOMAIN t : t[k] \in LinesOf(e, e.cbuf)
  BY CursorIs
<1>2. n \in Nat
  BY RingIs, RowsAre DEF JWindow
<1>3. CLine(e) \in LinesOf(e, e.cbuf) /\ FindTopToRecenter(e) \in LinesOf(e, e.cbuf)
  BY TextIs, FindTopToRecenterIs
<1>4. above # {} => top \in LinesOf(e, e.cbuf)
  BY <1>1
<1>5. n > 1 /\ i >= n => t[i - n + 1] \in LinesOf(e, e.cbuf)
  <2> HIDE DEF i, n, t
  <2>1. n > 1 /\ i >= n => i - n + 1 \in DOMAIN t
    BY <1>1, <1>2
  <2> QED
    BY <1>1, <2>1
<1>6. \/ FindTop(e) = CLine(e) \/ FindTop(e) = FindTopToRecenter(e)
      \/ FindTop(e) = top /\ above # {}
      \/ n > 1 /\ FindTop(e) = t[i - n + 1] /\ i >= n
  <2>1. (n <= 1) \/ n > 1
    BY <1>2
  <2> QED
    BY <2>1 DEF FindTop
<1> QED
  BY <1>3, <1>4, <1>5, <1>6

(* The row above all of the window is marked.                              *)
LEMMA RecenterSound == ASSUME NEW e, Sound(e), NEW n \in Nat \ {0} PROVE Sound(Recenter(e, n))
<1> DEFINE w == JWindow(e)
           t == Text(e)
           i == Place(t, CLine(e))
           p == w.rows
           y == w.sy
           k == IF n > p THEN p \div 2 ELSE n
           j == IF i < k THEN 1 ELSE i - k + 1
           l == t[j]
           v == TRUE
           f == Trashed(e, {1})
           x == [f.screen[y] EXCEPT !.line = l, !.mod = v]
           s == [f.screen EXCEPT ![y] = x]
           g == WithScreen(f, s)
<1>1. Shape(e) /\ Texts(e) /\ Clean(e) /\ e \in Editor(e.height)
  BY SoundShape
<1>2. i \in DOMAIN t /\ DOMAIN t = 1..Len(t) /\ Len(t) \in Nat /\ \A m \in DOMAIN t : t[m] \in Lines
  BY <1>1, CursorIs
<1>3. p \in Nat /\ p >= 2 /\ y \in RowsOf(w) /\ y \in 0..e.height - 1
  BY <1>1, RingIs, RowsAre DEF JWindow
<1>4. l \in Lines
  <2> HIDE DEF p, i, t
  <2>1. k \in Nat /\ k >= 1
    BY <1>3
  <2> HIDE DEF k
  <2>2. j \in DOMAIN t
    BY <1>2, <2>1
  <2> HIDE DEF j
  <2> QED
    BY <1>2, <2>2
<1>5. Touched(e, f) /\ Shape(f) /\ Sound(f) /\ f \in Editor(e.height) /\ f.height = e.height
  BY <1>1, TrashedTouched, TouchedSound, TouchedShape DEF Touched
<1>6. f.screen = e.screen
  BY <1>1, TrashedIs
<1>7. v \in BOOLEAN /\ v
  OBVIOUS
<1> HIDE DEF v, l
<1>8. f.screen \in [0..e.height - 1 -> Row] /\ f.screen[y] \in Row
  BY <1>3, <1>5 DEF Editor
<1>9. x \in Row /\ x.mod = v
  BY <1>4, <1>7, <1>8 DEF Row
<1>10. s \in [0..e.height - 1 -> Row] /\ \A r \in 0..e.height - 1 : s[r] = IF r = y THEN x ELSE f.screen[r]
  BY <1>3, <1>8, <1>9
<1> HIDE DEF x, s, y, f
<1>11. g \in Editor(e.height) /\ g.screen = s /\ g.ring = f.ring /\ SameRest(f, g)
  BY ONLY <1>5, <1>10, WithScreenIs
<1>12. ASSUME NEW m \in DOMAIN f.ring, NEW r \in RowsOf(f.ring[m])
       PROVE  g.screen[r].mod \/ g.screen[r] = f.screen[r]
  <2>1. r \in 0..e.height - 1
    BY <1>5, <1>12, RowIs
  <2> QED
    BY <1>7, <1>9, <1>10, <1>11, <2>1
<1>13. Touched(f, g)
  BY <1>5, <1>11, <1>12, RowsTouched
<1>14. Sound(g)
  BY <1>5, <1>13, TouchedSound
<1>15. g = [f EXCEPT !.screen[y].line = l, !.screen[y].mod = v]
  <2>1. s = [f.screen EXCEPT ![y].line = l, ![y].mod = v]
    BY <1>3, <1>8 DEF s, x
  <2> QED
    BY <2>1 DEF g, WithScreen
<1>16. Recenter(e, n) \in {f, g}
  BY <1>15 DEF Recenter, f, l, y, v
<1> QED
  BY <1>5, <1>14, <1>16


-----------------------------------------------------------------------------
(* Drawing.                                                                *)

WithDrawing(e, ring, screen, v) == [e EXCEPT !.ring = ring, !.astray = v, !.screen = screen]

LEMMA WithDrawingIs ==
  ASSUME NEW h, NEW e \in Editor(h), NEW s \in Seq(Window), NEW t \in [0..h - 1 -> Row], NEW v \in BOOLEAN
  PROVE  /\ WithDrawing(e, s, t, v) \in Editor(h)
         /\ WithDrawing(e, s, t, v).ring = s /\ WithDrawing(e, s, t, v).screen = t
         /\ WithDrawing(e, s, t, v).height = e.height /\ WithDrawing(e, s, t, v).text = e.text
         /\ WithDrawing(e, s, t, v).at = e.at /\ WithDrawing(e, s, t, v).cbuf = e.cbuf
         /\ WithDrawing(e, s, t, v).suspend = e.suspend
  BY DEF Editor, WithDrawing

(* JWindow begins with a line of its buffer.                               *)
Begun(e) == JWindow(e).beg \in LinesOf(e, JWindow(e).buf)

(* What drawing keeps.                                                     *)
Kept(e, f) ==
  /\ Sound(f) /\ f.height = e.height /\ f.suspend = e.suspend /\ f.text = e.text
  /\ Len(f.ring) = Len(e.ring) /\ f.cbuf = e.cbuf /\ JWindow(f).buf = JWindow(e).buf
  /\ Begun(f)

LEMMA DrawKeeps ==
  ASSUME NEW e, Sound(e), e.cbuf = JWindow(e).buf, NEW top \in LinesOf(e, e.cbuf)
  PROVE  Kept(e, Draw(e, top))
<1> DEFINE w == JWindow(e)
           t == Text(e)
           b == e.cbuf
           i == Place(t, top)
           Due(r) == IF i + r - w.sy \in DOMAIN t THEN t[i + r - w.sy] ELSE None
           Drawn(r) == [line |-> Due(r), mod |-> FALSE, shown |-> IF Due(r) = None THEN Blank ELSE Due(r)]
           Needed(r) == r \in RowsOf(w) /\ (e.screen[r].mod \/ e.screen[r].line # Due(r))
           x == [w EXCEPT !.beg = top]
           s == [e.ring EXCEPT ![1] = x]
           d == [r \in DOMAIN e.screen |-> IF Needed(r) THEN Drawn(r) ELSE e.screen[r]]
           v == e.astray \/ ~OnScreen(t, top, CLine(e), w.rows)
           n == Len(e.ring)
           f == WithDrawing(e, s, d, v)
<1>1. Loose(e) /\ Shape(e) /\ Texts(e) /\ Views(e) /\ Clean(e) /\ e \in Editor(e.height)
  BY SoundShape DEF Sound
<1>2. b \in Buffers /\ t \in Seq(Lines) /\ DOMAIN t = 1..Len(t) /\ top \in Lines
      /\ \A j \in DOMAIN t : t[j] \in LinesOf(e, b) /\ t[j] \in Lines
  BY <1>1, CursorIs, TextIs
<1>3. /\ n \in {1, 2} /\ DOMAIN e.ring = 1..n /\ 1 \in DOMAIN e.ring /\ e.ring \in Seq(Window)
      /\ \A k \in DOMAIN e.ring : e.ring[k] \in Window
  BY <1>1, RingIs
<1>4. w = e.ring[1] /\ w \in Window
  BY <1>3 DEF JWindow
<1>5. None \notin Lines
  BY DisplayAssumption
<1>6. ASSUME NEW r PROVE Due(r) = None \/ (Due(r) \in LinesOf(e, b) /\ Due(r) \in Lines)
  BY <1>2
<1> HIDE DEF Due
<1>7. ASSUME NEW r PROVE Drawn(r) \in Row /\ Current(Drawn(r), LinesOf(e, b))
  <2>1. Due(r) \in Lines \cup {None} /\ (IF Due(r) = None THEN Blank ELSE Due(r)) \in Lines \cup {Blank, Old}
    BY <1>6
  <2>2. Drawn(r) \in Row
    BY <2>1 DEF Row
  <2>3. Current(Drawn(r), LinesOf(e, b))
    BY <1>6 DEF Current
  <2> QED
    BY <2>2, <2>3
<1> HIDE DEF Drawn
<1>8. e.screen \in [0..e.height - 1 -> Row] /\ DOMAIN e.screen = 0..e.height - 1
  BY <1>1 DEF Editor
<1>9. d \in [0..e.height - 1 -> Row] /\ \A r \in 0..e.height - 1 : d[r] = IF Needed(r) THEN Drawn(r) ELSE e.screen[r]
  BY <1>7, <1>8
<1>10. x \in Window /\ x.sy = w.sy /\ x.rows = w.rows /\ x.buf = w.buf /\ x.mark = w.mark /\ x.beg = top
       /\ x.trashed = w.trashed
  BY <1>2, <1>4 DEF Window
<1>11. /\ s \in Seq(Window) /\ Len(s) = n /\ DOMAIN s = DOMAIN e.ring
       /\ \A k \in DOMAIN e.ring : s[k] = IF k = 1 THEN x ELSE e.ring[k]
  BY <1>3, <1>10
<1>12. v \in BOOLEAN
  OBVIOUS
<1>13. f = Draw(e, top)
  BY <1>4 DEF Draw, WithDrawing, Drawn, Due, JWindow
<1> HIDE DEF x, s, d, v
<1>14. /\ f \in Editor(e.height) /\ f.ring = s /\ f.screen = d /\ f.height = e.height
       /\ f.text = e.text /\ f.at = e.at /\ f.cbuf = e.cbuf /\ f.suspend = e.suspend
  BY ONLY <1>1, <1>9, <1>11, <1>12, WithDrawingIs
<1> HIDE DEF f
<1>15. \A c : LinesOf(f, c) = LinesOf(e, c)
  BY <1>14 DEF LinesOf
<1>16. ASSUME NEW k \in DOMAIN e.ring
       PROVE  /\ f.ring[k].sy = e.ring[k].sy /\ f.ring[k].rows = e.ring[k].rows /\ f.ring[k].buf = e.ring[k].buf
              /\ f.ring[k].mark = e.ring[k].mark
              /\ f.ring[k].trashed \/ f.ring[k].beg \in LinesOf(e, e.ring[k].buf)
  BY <1>1, <1>4, <1>10, <1>11, <1>14 DEF Views
<1>17. SameRooms(e, f)
  BY <1>11, <1>14, <1>16 DEF SameRooms
<1>18. Shape(f) /\ \A k \in DOMAIN e.ring : RowsOf(f.ring[k]) = RowsOf(e.ring[k])
  BY <1>1, <1>17, SameRoomsShape
<1>19. Texts(f)
  BY <1>1, <1>14, <1>15 DEF Texts, Live
<1>20. Views(f)
  BY <1>1, <1>11, <1>14, <1>15, <1>16 DEF Views
<1>21. Clean(f)
  <2> SUFFICES ASSUME ~f.suspend, NEW k \in DOMAIN f.ring, NEW r \in RowsOf(f.ring[k])
               PROVE  Current(f.screen[r], LinesOf(f, f.ring[k].buf))
    BY DEF Clean
  <2>1. k \in DOMAIN e.ring /\ r \in RowsOf(e.ring[k]) /\ ~e.suspend
    BY <1>11, <1>14, <1>18
  <2>2. r \in 0..e.height - 1
    BY <1>1, <2>1, RowIs
  <2>3. LinesOf(f, f.ring[k].buf) = LinesOf(e, e.ring[k].buf)
    BY <1>15, <1>16, <2>1
  <2>4. Current(e.screen[r], LinesOf(e, e.ring[k].buf))
    BY <1>1, <2>1 DEF Clean
  <2>5. CASE ~Needed(r)
    BY <1>9, <1>14, <2>2, <2>3, <2>4, <2>5
  <2>6. CASE Needed(r)
    <3>1. k = 1
      BY <1>1, <1>3, <1>4, <2>1, <2>6, RowsAre
    <3>2. f.screen[r] = Drawn(r) /\ LinesOf(e, e.ring[k].buf) = LinesOf(e, b)
      BY <1>4, <1>9, <1>14, <2>2, <2>6, <3>1
    <3> QED
      BY <1>7, <2>3, <3>2
  <2> QED
    BY <2>5, <2>6
<1>22. Sound(f)
  BY <1>18, <1>19, <1>20, <1>21 DEF Sound, Loose
<1>23. Begun(f)
  BY <1>3, <1>4, <1>10, <1>11, <1>14, <1>15 DEF Begun, JWindow
<1>24. Kept(e, f)
  BY <1>3, <1>4, <1>11, <1>14, <1>16, <1>22, <1>23 DEF Kept, JWindow
<1> QED
  BY <1>13, <1>24


(* JWindow shows the buffer in use.                                        *)
InUse(e) == Sound(e) /\ e.cbuf = JWindow(e).buf

Stays(e, f) ==
  /\ f.height = e.height /\ f.suspend = e.suspend /\ f.text = e.text /\ Len(f.ring) = Len(e.ring)

LEMMA StaysThen ==
  ASSUME NEW e, NEW f, NEW g, Stays(e, f), Stays(f, g)
  PROVE  Stays(e, g)
  BY DEF Stays

LEMMA TouchedInUse ==
  ASSUME NEW e, Sound(e), NEW f, Touched(e, f)
  PROVE  Sound(f) /\ Stays(e, f) /\ JWindow(f).buf = JWindow(e).buf /\ f.cbuf = e.cbuf
<1>1. Sound(f) /\ 1 \in DOMAIN e.ring
  BY TouchedSound, SoundShape, RingIs
<1> QED
  BY <1>1 DEF Touched, Stays, SameView, JWindow

LEMMA UntrashedSound ==
  ASSUME NEW e, Sound(e), Begun(e), NEW v \in BOOLEAN
  PROVE  Sound([e EXCEPT !.ring[1].trashed = v]) /\ Stays(e, [e EXCEPT !.ring[1].trashed = v])
<1> DEFINE w == e.ring[1]
           x == [w EXCEPT !.trashed = v]
           s == [e.ring EXCEPT ![1] = x]
           n == Len(e.ring)
           f == WithRing(e, s)
<1>1. n \in {1, 2} /\ DOMAIN e.ring = 1..n /\ 1 \in DOMAIN e.ring /\ e.ring \in Seq(Window) /\ w \in Window
      /\ e \in Editor(e.height)
      /\ Shape(e) /\ Texts(e) /\ Views(e)
  BY RingIs, ShapeEditor, SoundShape
<1>2. x \in Window /\ x.sy = w.sy /\ x.rows = w.rows /\ x.buf = w.buf /\ x.mark = w.mark /\ x.beg = w.beg
  BY <1>1 DEF Window
<1>3. /\ s \in Seq(Window) /\ Len(s) = n /\ DOMAIN s = DOMAIN e.ring
      /\ \A k \in DOMAIN e.ring : s[k] = IF k = 1 THEN x ELSE e.ring[k]
  BY <1>1, <1>2
<1>4. f = [e EXCEPT !.ring[1].trashed = v]
  BY DEF WithRing
<1> HIDE DEF x, s
<1>5. f \in Editor(e.height) /\ f.ring = s /\ f.screen = e.screen /\ SameRest(e, f)
  BY ONLY <1>1, <1>3, WithRingIs
<1> HIDE DEF f
<1>6. \A c : LinesOf(f, c) = LinesOf(e, c)
  BY <1>5 DEF LinesOf, SameRest
<1>7. SameRooms(e, f) /\ \A k \in DOMAIN e.ring : f.ring[k].buf = e.ring[k].buf
  BY <1>2, <1>3, <1>5 DEF SameRooms, SameRest
<1>8. Texts(f)
  BY <1>1, <1>5, <1>6 DEF Texts, Live, SameRest
<1>9. Views(f)
  BY <1>1, <1>2, <1>3, <1>5, <1>6 DEF Views, Begun, JWindow
<1>10. Sound(f)
  BY <1>5, <1>6, <1>7, <1>8, <1>9, GrownSound DEF SameRest
<1>11. Stays(e, f)
  BY <1>3, <1>5 DEF Stays, SameRest
<1> QED
  BY <1>4, <1>10, <1>11

(* The window has been drawn; the next one.                                *)
Next1(e) == OtherWindow([e EXCEPT !.ring[1].trashed = FALSE])

LEMMA Next1InUse ==
  ASSUME NEW e, Sound(e), Begun(e)
  PROVE  InUse(Next1(e)) /\ Stays(e, Next1(e))
<1> DEFINE v == FALSE
           d == [e EXCEPT !.ring[1].trashed = v]
           f == OtherWindow(d)
<1>1. v \in BOOLEAN
  OBVIOUS
<1>2. f = Next1(e)
  BY DEF Next1
<1> HIDE DEF v
<1>3. Sound(d) /\ Stays(e, d)
  BY <1>1, UntrashedSound
<1> HIDE DEF d
<1>4. Turned(d, f)
  BY <1>3, OtherWindowSound
<1> HIDE DEF f
<1> QED
  BY <1>2, <1>3, <1>4 DEF Turned, InUse, Stays

LEMMA DrawInUse ==
  ASSUME NEW e, InUse(e), NEW top \in LinesOf(e, e.cbuf)
  PROVE  InUse(Draw(e, top)) /\ Stays(e, Draw(e, top)) /\ Begun(Draw(e, top))
  BY DrawKeeps DEF InUse, Kept, Stays

LEMMA StoppingInUse ==
  ASSUME NEW e, InUse(e), NEW ks
  PROVE  InUse(Trashed(e, ks)) /\ Stays(e, Trashed(e, ks))
<1>1. Sound(e) /\ Touched(e, Trashed(e, ks))
  BY TrashedTouched, SoundShape DEF InUse
<1> QED
  BY <1>1, TouchedInUse DEF InUse

LEMMA DrawWindowsInUse ==
  ASSUME NEW e, InUse(e), NEW top \in LinesOf(e, e.cbuf) \cup {None}, NEW stop
  PROVE  InUse(DrawWindows(e, top, stop)) /\ Stays(e, DrawWindows(e, top, stop))
<1> DEFINE l == IF top # None THEN top ELSE FindTop(e)
           first == Draw(e, l)
           other == Next1(first)
           m == FindTop(other)
           both == Draw(other, m)
           third == OtherWindow(both)
<1>1. l \in LinesOf(e, e.cbuf)
  <2>1. Sound(e)
    BY DEF InUse
  <2>2. FindTop(e) \in LinesOf(e, e.cbuf)
    BY <2>1, FindTopIs, SoundShape
  <2> QED
    BY <2>2
<1> HIDE DEF l
<1>2. InUse(first) /\ Stays(e, first) /\ Begun(first)
  BY <1>1, DrawInUse
<1> HIDE DEF first
<1>3. InUse(other) /\ Stays(e, other)
  BY <1>2, Next1InUse, StaysThen DEF InUse
<1> HIDE DEF other
<1>4. m \in LinesOf(other, other.cbuf)
  BY <1>3, FindTopIs, SoundShape DEF InUse
<1> HIDE DEF m
<1>5. InUse(both) /\ Stays(e, both) /\ Begun(both)
  BY <1>3, <1>4, DrawInUse, StaysThen
<1> HIDE DEF both
<1>6. InUse(third) /\ Stays(both, third)
  BY <1>5, OtherWindowSound DEF InUse, Turned, Stays
<1> HIDE DEF third
<1>7. InUse(third) /\ Stays(e, third)
  BY <1>5, <1>6, StaysThen
<1>8. InUse(Trashed(first, {1})) /\ Stays(e, Trashed(first, {1}))
  BY <1>2, StoppingInUse, StaysThen
<1>9. InUse(Trashed(third, {1})) /\ Stays(e, Trashed(third, {1}))
  BY <1>7, StoppingInUse, StaysThen
<1>10. InUse(Next1(both)) /\ Stays(e, Next1(both))
  BY <1>5, Next1InUse, StaysThen DEF InUse
<1>11. DrawWindows(e, top, stop) \in {Trashed(first, {1}), other, Trashed(third, {1}), Next1(both)}
  BY DEF DrawWindows, Next1, first, other, both, third, l, m
<1> QED
  BY <1>3, <1>8, <1>9, <1>10, <1>11


-----------------------------------------------------------------------------
(* An update.                                                              *)

LEMMA CursorMarkedInUse ==
  ASSUME NEW e, InUse(e)
  PROVE  /\ InUse([e EXCEPT !.ring[1].mark = CLine(e)]) /\ Stays(e, [e EXCEPT !.ring[1].mark = CLine(e)])
         /\ [e EXCEPT !.ring[1].mark = CLine(e)].cbuf = e.cbuf
<1> DEFINE w == e.ring[1]
           l == CLine(e)
           x == [w EXCEPT !.mark = l]
           s == [e.ring EXCEPT ![1] = x]
           n == Len(e.ring)
           f == WithRing(e, s)
<1>1. Sound(e) /\ Loose(e) /\ Shape(e) /\ Texts(e) /\ Views(e) /\ e \in Editor(e.height)
  BY SoundShape DEF Sound, InUse
<1>2. n \in {1, 2} /\ DOMAIN e.ring = 1..n /\ 1 \in DOMAIN e.ring /\ e.ring \in Seq(Window) /\ w \in Window
      /\ w.buf = e.cbuf
  BY <1>1, RingIs DEF InUse, JWindow
<1>3. l \in LinesOf(e, e.cbuf) /\ l \in Lines
  BY <1>1, TextIs
<1>4. f = [e EXCEPT !.ring[1].mark = CLine(e)]
  BY DEF WithRing
<1> HIDE DEF l
<1>5. x \in Window /\ x.sy = w.sy /\ x.rows = w.rows /\ x.buf = w.buf /\ x.beg = w.beg /\ x.mark = l
      /\ x.trashed = w.trashed
  BY <1>2, <1>3 DEF Window
<1>6. /\ s \in Seq(Window) /\ Len(s) = n /\ DOMAIN s = DOMAIN e.ring
      /\ \A k \in DOMAIN e.ring : s[k] = IF k = 1 THEN x ELSE e.ring[k]
  BY <1>2, <1>5
<1> HIDE DEF x, s
<1>7. f \in Editor(e.height) /\ f.ring = s /\ f.screen = e.screen /\ SameRest(e, f)
  BY ONLY <1>1, <1>6, WithRingIs
<1> HIDE DEF f
<1>8. f.height = e.height /\ f.text = e.text /\ f.at = e.at /\ f.cbuf = e.cbuf /\ f.suspend = e.suspend
      /\ \A c : LinesOf(f, c) = LinesOf(e, c)
  BY <1>7 DEF SameRest, LinesOf
<1>9. \A k \in DOMAIN e.ring : /\ f.ring[k].sy = e.ring[k].sy /\ f.ring[k].rows = e.ring[k].rows
                               /\ f.ring[k].buf = e.ring[k].buf /\ f.ring[k].beg = e.ring[k].beg
                               /\ f.ring[k].trashed = e.ring[k].trashed
                               /\ (f.ring[k].mark = e.ring[k].mark \/ (k = 1 /\ f.ring[k].mark = l))
  BY <1>5, <1>6, <1>7
<1>10. SameRooms(e, f)
  BY <1>6, <1>7, <1>8, <1>9 DEF SameRooms
<1>11. Texts(f)
  BY <1>1, <1>8 DEF Texts, Live
<1>12. Views(f)
  BY <1>1, <1>2, <1>3, <1>6, <1>7, <1>8, <1>9 DEF Views
<1>13. Sound(f)
  BY <1>1, <1>7, <1>8, <1>9, <1>10, <1>11, <1>12, GrownSound
<1>14. JWindow(f).buf = e.cbuf
  BY <1>2, <1>9 DEF JWindow
<1>15. InUse(f) /\ Stays(e, f) /\ f.cbuf = e.cbuf
  BY <1>6, <1>7, <1>8, <1>13, <1>14 DEF InUse, Stays
<1> QED
  BY <1>4, <1>15

LEMMA Update1Sound ==
  ASSUME NEW e, Sound(e), NEW top \in LinesOf(e, JWindow(e).buf) \cup {None}, NEW c
  PROVE  Sound(Update1(e, top, c)) /\ Stays(e, Update1(e, top, c))
<1> DEFINE f == [e EXCEPT !.ring[1].mark = CLine(e)]
           stop == IF c.force \/ c.stop > Len(e.ring) THEN Len(e.ring) + 1 ELSE c.stop
           g == DrawWindows(f, top, stop)
<1>1. CASE e.cbuf # JWindow(e).buf
  BY <1>1 DEF Update1, Stays
<1>2. CASE e.cbuf = JWindow(e).buf
  <2>1. InUse(e)
    BY <1>2 DEF InUse
  <2>2. InUse(f) /\ Stays(e, f) /\ f.cbuf = e.cbuf
    BY <2>1, CursorMarkedInUse
  <2>3. Update1(e, top, c) \in {e, f, g}
    BY DEF Update1
  <2> HIDE DEF f, stop
  <2>4. top \in LinesOf(f, f.cbuf) \cup {None}
    BY <1>2, <2>2 DEF Stays, LinesOf
  <2>5. InUse(g) /\ Stays(f, g)
    BY <2>2, <2>4, DrawWindowsInUse
  <2> HIDE DEF g
  <2>6. Stays(e, g) /\ Stays(e, e)
    BY <2>2, <2>5, StaysThen DEF Stays
  <2> QED
    BY <2>2, <2>3, <2>5, <2>6 DEF InUse
<1> QED
  BY <1>1, <1>2

LEMMA UpdateSound ==
  ASSUME NEW e, Sound(e), NEW top \in LinesOf(e, JWindow(e).buf) \cup {None}, NEW c
  PROVE  /\ Sound(Update(e, top, c)) /\ Update(e, top, c).height = e.height
         /\ ~e.suspend \/ ~c.input \/ c.force => ~Update(e, top, c).suspend
<1> DEFINE f == Resumed(e)
           g == SetHScroll(f)
           h == Update1(g, top, c)
           q == Trashed(e, {1})
<1>1. Sound(f) /\ ~f.suspend /\ f.text = e.text /\ f.height = e.height /\ JWindow(f).buf = JWindow(e).buf
  BY ResumedSound, SoundShape, RingIs DEF SameView, JWindow
<1> HIDE DEF f
<1>2. Touched(f, g)
  BY <1>1, SoundShape, SetHScrollTouched
<1>3. Sound(g) /\ Stays(f, g) /\ JWindow(g).buf = JWindow(f).buf
  BY <1>1, <1>2, TouchedInUse
<1> HIDE DEF g
<1>4. top \in LinesOf(g, JWindow(g).buf) \cup {None}
  BY <1>1, <1>3 DEF Stays, LinesOf
<1>5. Sound(h) /\ Stays(g, h)
  BY <1>3, <1>4, Update1Sound
<1> HIDE DEF h
<1>6. Sound(h) /\ h.height = e.height /\ ~h.suspend
  BY <1>1, <1>3, <1>5 DEF Stays
<1>7. Touched(e, q)
  BY SoundShape, TrashedTouched
<1>8. Sound(q) /\ q.height = e.height /\ q.suspend = e.suspend
  BY <1>7, TouchedInUse DEF Stays
<1>9. Update(e, top, c) = IF c.input /\ ~c.force THEN q ELSE h
  BY DEF Update, f, g, h
<1> HIDE DEF q
<1> QED
  BY <1>6, <1>8, <1>9

(* The terminal is empty, and every row marked.                            *)
ClearedScreen(e) == [e EXCEPT !.screen = [r \in DOMAIN @ |-> [@[r] EXCEPT !.shown = Blank, !.mod = TRUE]]]

LEMMA ClearedTouched ==
  ASSUME NEW e, Shape(e)
  PROVE  Touched(e, ClearedScreen(e)) /\ \A r \in 0..e.height - 1 : ClearedScreen(e).screen[r].mod
<1> DEFINE v == TRUE
           s == [r \in DOMAIN e.screen |-> [e.screen[r] EXCEPT !.shown = Blank, !.mod = v]]
           f == WithScreen(e, s)
<1>1. v \in BOOLEAN /\ v
  OBVIOUS
<1>2. f = ClearedScreen(e)
  BY DEF ClearedScreen, WithScreen
<1> HIDE DEF v
<1>3. e \in Editor(e.height) /\ e.screen \in [0..e.height - 1 -> Row] /\ DOMAIN e.screen = 0..e.height - 1
  BY ShapeEditor DEF Editor
<1>4. ASSUME NEW r \in 0..e.height - 1 PROVE s[r] \in Row /\ s[r].mod
  <2>1. e.screen[r] \in Row /\ s[r] = [e.screen[r] EXCEPT !.shown = Blank, !.mod = v]
    BY <1>3
  <2> HIDE DEF s
  <2> QED
    BY <1>1, <2>1 DEF Row
<1>5. s \in [0..e.height - 1 -> Row]
  BY <1>3, <1>4
<1> HIDE DEF s
<1>6. f \in Editor(e.height) /\ f.screen = s /\ f.ring = e.ring /\ SameRest(e, f)
  BY ONLY <1>3, <1>5, WithScreenIs
<1> HIDE DEF f
<1>7. ASSUME NEW k \in DOMAIN e.ring, NEW r \in RowsOf(e.ring[k])
      PROVE  f.screen[r].mod \/ f.screen[r] = e.screen[r]
  BY <1>4, <1>6, RowIs
<1>8. Touched(e, f)
  BY <1>6, <1>7, RowsTouched
<1> QED
  BY <1>2, <1>4, <1>6, <1>8

LEMMA RedrawScreenSound ==
  ASSUME NEW e, Sound(e), NEW c
  PROVE  Sound(RedrawScreen(e, c)) /\ RedrawScreen(e, c).height = e.height
<1> DEFINE f == ClearedScreen(e)
           g == Trashed(f, DOMAIN f.ring)
           h == Forgotten(g, RowsOf(JWindow(e)))
           top == JWindow(e).beg
<1>1. Shape(e) /\ Views(e) /\ e \in Editor(e.height) /\ 1 \in DOMAIN e.ring
  BY SoundShape, RingIs
<1>2. Touched(e, f) /\ \A r \in 0..e.height - 1 : f.screen[r].mod
  BY <1>1, ClearedTouched
<1>3. RedrawScreen(e, c) = IF JWindow(e).trashed THEN Update(h, None, c) ELSE Update(g, top, c)
  BY DEF RedrawScreen, ClearedScreen
<1> HIDE DEF f
<1>4. Shape(f) /\ f \in Editor(f.height) /\ f.height = e.height
  BY <1>1, <1>2, TouchedShape, ShapeEditor DEF Touched
<1>5. Touched(f, g) /\ g.screen = f.screen
  BY <1>4, TrashedTouched, TrashedIs
<1> HIDE DEF g
<1>6. Touched(e, g) /\ Shape(g) /\ g.height = e.height
  BY <1>1, <1>2, <1>4, <1>5, TouchedThen, TouchedShape DEF Touched
<1>7. Touched(g, h)
  BY <1>2, <1>5, <1>6, ForgottenTouched
<1> HIDE DEF h
<1>8. Touched(e, h)
  BY <1>1, <1>6, <1>7, TouchedThen
<1>9. Sound(g) /\ Stays(e, g) /\ JWindow(g).buf = JWindow(e).buf
  BY <1>6, TouchedInUse
<1>10. Sound(h) /\ Stays(e, h)
  BY <1>8, TouchedInUse
<1>11. /\ ~JWindow(e).trashed => top \in LinesOf(g, JWindow(g).buf) \cup {None}
       /\ None \in LinesOf(h, JWindow(h).buf) \cup {None}
  BY <1>1, <1>9 DEF Views, JWindow, Stays, LinesOf
<1> HIDE DEF top
<1>12. Sound(Update(h, None, c)) /\ Update(h, None, c).height = h.height
  BY <1>10, <1>11, UpdateSound
<1>13. ~JWindow(e).trashed => Sound(Update(g, top, c)) /\ Update(g, top, c).height = g.height
  BY <1>9, <1>11, UpdateSound
<1> QED
  BY <1>3, <1>9, <1>10, <1>12, <1>13 DEF Stays


-----------------------------------------------------------------------------
(* The end of a command, and another height of the screen.                 *)

(* JWindow begins elsewhere, and is to be drawn.                           *)
Rebegun(e, l) == [Trashed(e, {1}) EXCEPT !.ring[1].beg = l]

LEMMA RebegunSound ==
  ASSUME NEW e, Sound(e), NEW l \in Lines
  PROVE  /\ Sound(Rebegun(e, l)) /\ JWindow(Rebegun(e, l)).trashed
         /\ Rebegun(e, l).astray = Trashed(e, {1}).astray
<1> DEFINE d == Trashed(e, {1})
           w == d.ring[1]
           x == [w EXCEPT !.beg = l]
           s == [d.ring EXCEPT ![1] = x]
           n == Len(d.ring)
           f == WithRing(d, s)
<1>1. Shape(e) /\ 1 \in {1}
  BY SoundShape
<1>2. Sound(d) /\ JWindow(d).trashed
  BY <1>1, TrashedTouched, TouchedSound, TrashedTrashes
<1> HIDE DEF d
<1>3. n \in {1, 2} /\ DOMAIN d.ring = 1..n /\ 1 \in DOMAIN d.ring /\ d.ring \in Seq(Window) /\ w \in Window
      /\ d \in Editor(d.height) /\ Shape(d) /\ Texts(d) /\ Views(d)
  BY <1>2, RingIs, ShapeEditor, SoundShape
<1>4. x \in Window /\ x.sy = w.sy /\ x.rows = w.rows /\ x.buf = w.buf /\ x.mark = w.mark /\ x.trashed
  BY <1>2, <1>3 DEF Window, JWindow
<1>5. /\ s \in Seq(Window) /\ Len(s) = n /\ DOMAIN s = DOMAIN d.ring
      /\ \A k \in DOMAIN d.ring : s[k] = IF k = 1 THEN x ELSE d.ring[k]
  BY <1>3, <1>4
<1>6. f = Rebegun(e, l)
  BY DEF WithRing, Rebegun, d
<1>7. f.astray = d.astray
  BY <1>3 DEF WithRing, Editor
<1> HIDE DEF x, s
<1>8. f \in Editor(d.height) /\ f.ring = s /\ f.screen = d.screen /\ SameRest(d, f)
  BY ONLY <1>3, <1>5, WithRingIs
<1> HIDE DEF f
<1>9. \A c : LinesOf(f, c) = LinesOf(d, c)
  BY <1>8 DEF LinesOf, SameRest
<1>10. SameRooms(d, f) /\ \A k \in DOMAIN d.ring : f.ring[k].buf = d.ring[k].buf
  BY <1>4, <1>5, <1>8 DEF SameRooms, SameRest
<1>11. Texts(f)
  BY <1>3, <1>8, <1>9 DEF Texts, Live, SameRest
<1>12. Views(f)
  BY <1>3, <1>4, <1>5, <1>8, <1>9 DEF Views
<1>13. Sound(f)
  BY <1>2, <1>8, <1>9, <1>10, <1>11, <1>12, GrownSound DEF SameRest
<1> QED
  BY <1>3, <1>4, <1>5, <1>6, <1>7, <1>8, <1>13 DEF JWindow, d

LEMMA WaitingSound == ASSUME NEW e, Sound(e) PROVE Sound(Waiting(e)) /\ Waiting(e).height = e.height
<1>1. None \in LinesOf(e, JWindow(e).buf) \cup {None}
  OBVIOUS
<1>2. \A c : Sound(Update(e, None, c)) /\ Update(e, None, c).height = e.height
  BY <1>1, UpdateSound
<1> QED
  BY <1>2 DEF Waiting

LEMMA InOwnBuffer ==
  ASSUME NEW e, Sound(e), NEW b \in Live(e)
  PROVE  /\ Sound([e EXCEPT !.cbuf = b]) /\ [e EXCEPT !.cbuf = b].suspend = e.suspend
         /\ Live([e EXCEPT !.cbuf = b]) = Live(e) /\ [e EXCEPT !.cbuf = b].ring = e.ring
         /\ [e EXCEPT !.cbuf = b].height = e.height
<1> DEFINE f == WithTalk(e, b, e.suspend, e.motion)
           v == e.suspend
           m == e.motion
<1>1. e \in Editor(e.height)
  BY SoundShape
<1>2. v \in BOOLEAN /\ m \in BOOLEAN
  BY <1>1 DEF Editor
<1>3. f = [e EXCEPT !.cbuf = b]
  BY <1>1 DEF WithTalk, Editor
<1>4. f = WithTalk(e, b, v, m)
  OBVIOUS
<1>5. v = e.suspend
  OBVIOUS
<1> HIDE DEF f, v, m
<1>6. Sound(f) /\ SameButTalk(e, f, b, v)
  BY <1>2, <1>4, <1>5, WithTalkSound
<1>7. Sound(f) /\ f.suspend = e.suspend /\ f.ring = e.ring /\ f.height = e.height /\ Live(f) = Live(e)
  BY <1>5, <1>6 DEF SameButTalk, Live
<1> QED
  BY <1>3, <1>7

LEMMA EndedSound ==
  ASSUME NEW e, Sound(e), NEW ret, NEW error, NEW c, c.input => ~e.suspend
  PROVE  Sound(Ended(e, ret, error, c)) /\ ~Ended(e, ret, error, c).suspend
<1> DEFINE f == IF ret THEN Trashed(e, {1}) ELSE e
           b == JWindow(f).buf
           d == [f EXCEPT !.cbuf = b]
           g == IF f.cbuf = b THEN f ELSE WindowBuffer(d, b)
           p == Resumed(g)
           q == SetHScroll(p)
           r == TouchScreen(q)
           h == Update1(r, None, Undisturbed)
           u == IF error THEN h ELSE g
<1>1. Sound(f) /\ f.suspend = e.suspend
  <2>1. Touched(e, Trashed(e, {1})) /\ Touched(e, e)
    BY SoundShape, TrashedTouched, TouchedSelf
  <2>2. Touched(e, f)
    BY <2>1
  <2> QED
    BY <2>2, TouchedInUse DEF Stays
<1> DEFINE skipped == ~error /\ c.quick /\ ~JWindow(g).trashed /\ Len(g.ring) = 1 /\ ~g.suspend
<1>2. Ended(e, ret, error, c) = IF skipped THEN g ELSE Update(u, None, c)
  BY DEF Ended
<1>3. skipped => ~g.suspend
  OBVIOUS
<1> HIDE DEF f, skipped
<1>4. b \in Live(f)
  BY <1>1, RingIs, WindowIs, SoundShape DEF JWindow, Sound
<1> HIDE DEF b
<1>5. Sound(d) /\ d.suspend = f.suspend /\ Live(d) = Live(f)
  BY <1>1, <1>4, InOwnBuffer
<1> HIDE DEF d
<1>6. Sound(WindowBuffer(d, b)) /\ WindowBuffer(d, b).suspend = d.suspend
  BY <1>4, <1>5, WindowBufferSound
<1>7. Sound(g) /\ g.suspend = e.suspend
  BY <1>1, <1>5, <1>6
<1> HIDE DEF g
<1>8. Sound(p) /\ ~p.suspend
  BY <1>7, ResumedSound
<1> HIDE DEF p
<1>9. Touched(p, q)
  BY <1>8, SoundShape, SetHScrollTouched
<1>10. Sound(q) /\ q.suspend = p.suspend
  BY <1>8, <1>9, TouchedInUse DEF Stays
<1> HIDE DEF q
<1>11. Touched(q, r)
  BY <1>10, SoundShape, TouchScreenTouched
<1>12. Sound(r) /\ r.suspend = q.suspend
  BY <1>10, <1>11, TouchedInUse DEF Stays
<1> HIDE DEF r
<1>13. None \in LinesOf(r, JWindow(r).buf) \cup {None}
  OBVIOUS
<1>14. Sound(h) /\ h.suspend = r.suspend
  BY <1>12, <1>13, Update1Sound DEF Stays
<1> HIDE DEF h
<1>15. Sound(u) /\ (c.input => ~u.suspend)
  BY <1>7, <1>8, <1>10, <1>12, <1>14
<1> HIDE DEF u
<1>16. None \in LinesOf(u, JWindow(u).buf) \cup {None}
  OBVIOUS
<1>17. Sound(Update(u, None, c)) /\ ~Update(u, None, c).suspend
  BY <1>15, <1>16, UpdateSound
<1> QED
  BY <1>2, <1>3, <1>7, <1>17

-----------------------------------------------------------------------------
(* A screen made anew.                                                     *)

Fresh(h) == [r \in 0..h - 1 |-> [line |-> None, mod |-> TRUE, shown |-> Blank]]

LEMMA FreshIs ==
  ASSUME NEW h
  PROVE  Fresh(h) \in [0..h - 1 -> Row] /\ \A r \in 0..h - 1 : Fresh(h)[r].mod
<1> DEFINE v == TRUE
           x == [line |-> None, mod |-> v, shown |-> Blank]
<1>1. v \in BOOLEAN /\ v
  OBVIOUS
<1>2. Fresh(h) = [r \in 0..h - 1 |-> x]
  BY DEF Fresh
<1> HIDE DEF v
<1>3. x \in Row /\ x.mod
  BY <1>1 DEF Row
<1> HIDE DEF x
<1> QED
  BY <1>2, <1>3

WithRoom(e, s, h) == [e EXCEPT !.ring = s, !.height = h, !.screen = Fresh(h)]

LEMMA WithRoomIs ==
  ASSUME NEW k, NEW e \in Editor(k), NEW s \in Seq(Window), NEW h \in Heights
  PROVE  /\ WithRoom(e, s, h) \in Editor(h) /\ WithRoom(e, s, h).ring = s /\ WithRoom(e, s, h).height = h
         /\ WithRoom(e, s, h).screen = Fresh(h) /\ WithRoom(e, s, h).text = e.text
         /\ WithRoom(e, s, h).at = e.at /\ WithRoom(e, s, h).cbuf = e.cbuf
<1> DEFINE t == Fresh(h)
<1>1. t \in [0..h - 1 -> Row]
  BY FreshIs
<1> HIDE DEF t
<1> DEFINE f == [e EXCEPT !.ring = s, !.height = h, !.screen = t]
<1>2. /\ f \in Editor(h) /\ f.ring = s /\ f.height = h
      /\ f.screen = t /\ f.text = e.text /\ f.at = e.at /\ f.cbuf = e.cbuf
  BY <1>1 DEF Editor
<1> HIDE DEF f
<1> QED
  BY <1>2 DEF WithRoom, f, t

LEMMA WithRoomSound ==
  ASSUME NEW e, Loose(e), NEW h \in Heights, NEW s \in Seq(Window), Tiled(s, h),
         \A k \in DOMAIN s : s[k].mark \in LinesOf(e, s[k].buf) /\ (s[k].trashed \/ s[k].beg \in LinesOf(e, s[k].buf))
  PROVE  Sound(WithRoom(e, s, h)) /\ WithRoom(e, s, h).height = h
<1> DEFINE f == WithRoom(e, s, h)
<1>1. Texts(e) /\ e \in Editor(e.height)
  BY DEF Loose, Shape
<1>2. /\ f \in Editor(h) /\ f.ring = s /\ f.height = h /\ f.screen = Fresh(h)
      /\ f.text = e.text /\ f.at = e.at /\ f.cbuf = e.cbuf
  BY ONLY <1>1, h \in Heights, s \in Seq(Window), WithRoomIs
<1> HIDE DEF f
<1>3. \A c : LinesOf(f, c) = LinesOf(e, c)
  BY <1>2 DEF LinesOf
<1>4. Shape(f)
  BY <1>2 DEF Shape
<1>5. Texts(f) /\ Views(f)
  BY <1>1, <1>2, <1>3 DEF Texts, Views, Live
<1>6. \A r \in 0..h - 1 : f.screen[r].mod
  BY <1>2, FreshIs
<1>7. Clean(f)
  BY <1>2, <1>4, <1>6, RowIs DEF Clean, Current
<1> QED
  BY <1>2, <1>4, <1>5, <1>7 DEF Sound, Loose, f

Taller(e, bottom, h) == [e.ring EXCEPT ![bottom].rows = h - 2 - e.ring[bottom].sy]

LEMMA TallerIs ==
  ASSUME NEW e, Shape(e), NEW h \in Heights, NEW bottom \in DOMAIN e.ring,
         e.ring[bottom].rows + e.ring[bottom].sy + 2 = e.height, h > e.ring[bottom].sy + 3
  PROVE  /\ Taller(e, bottom, h) \in Seq(Window) /\ DOMAIN Taller(e, bottom, h) = DOMAIN e.ring
         /\ Tiled(Taller(e, bottom, h), h)
         /\ \A k \in DOMAIN e.ring : /\ Taller(e, bottom, h)[k].mark = e.ring[k].mark
                                     /\ Taller(e, bottom, h)[k].beg = e.ring[k].beg
                                     /\ Taller(e, bottom, h)[k].buf = e.ring[k].buf
                                     /\ Taller(e, bottom, h)[k].trashed = e.ring[k].trashed
<1> DEFINE w == e.ring[bottom]
           y == w.sy
           p == w.rows
           m == h - 2 - y
           x == [w EXCEPT !.rows = m]
           s == [e.ring EXCEPT ![bottom] = x]
           n == Len(e.ring)
           q == e.height
<1>1. /\ n \in {1, 2} /\ DOMAIN e.ring = 1..n /\ e.ring \in Seq(Window)
      /\ \A k \in DOMAIN e.ring : e.ring[k] \in Window
  BY RingIs
<1>2. y \in Nat /\ p \in Nat /\ h \in Nat /\ p + y + 2 = q /\ h > y + 3
  BY <1>1, HeightsAre DEF Window
<1>3. m \in Nat /\ m >= 2 /\ y + m + 2 = h
  <2> HIDE DEF y
  <2> QED
    BY <1>2
<1> HIDE DEF m
<1>4. x \in Window /\ x.rows = m /\ x.sy = y /\ x.mark = w.mark /\ x.beg = w.beg /\ x.buf = w.buf
      /\ x.trashed = w.trashed
  BY <1>1, <1>3 DEF Window
<1>5. Taller(e, bottom, h) = s
  BY DEF Taller, m
<1> HIDE DEF x
<1>6. /\ s \in Seq(Window) /\ Len(s) = n /\ DOMAIN s = DOMAIN e.ring
      /\ \A k \in DOMAIN e.ring : s[k] = IF k = bottom THEN x ELSE e.ring[k]
  BY <1>1, <1>4
<1> HIDE DEF s
<1>7. \A k \in DOMAIN e.ring : /\ s[k].mark = e.ring[k].mark /\ s[k].beg = e.ring[k].beg
                               /\ s[k].buf = e.ring[k].buf /\ s[k].trashed = e.ring[k].trashed
  BY <1>4, <1>6
<1>8. Tiled(e.ring, q)
  BY DEF Shape
<1>9. CASE n = 1
  <2>1. bottom = 1
    BY <1>1, <1>9
  <2>2. y = 0
    BY <1>8, <1>9, <2>1 DEF Tiled
  <2>3. m = h - 2
    BY <1>2, <2>2 DEF m
  <2>4. s[1].sy = 0 /\ s[1].rows = h - 2
    BY <1>4, <1>6, <2>1, <2>2, <2>3
  <2>5. Tiled(s, h)
    BY <1>6, <1>9, <2>4 DEF Tiled
  <2> QED
    BY <1>5, <1>6, <1>7, <2>5
<1>10. CASE n = 2
  <2>1. bottom \in {1, 2} /\ {1, 2} \subseteq DOMAIN e.ring
    BY <1>1, <1>10
  <2>2. MaxWindows = 2 /\ (Stacked(e.ring[1], e.ring[2], q) \/ Stacked(e.ring[2], e.ring[1], q))
    BY <1>8, <1>10 DEF Tiled
  <2>3. ASSUME NEW v \in Window, NEW a \in Window, Stacked(v, a, q) PROVE v.rows + v.sy + 2 # q
    <3>1. v.rows \in Nat /\ a.rows \in Nat /\ v.sy = 0 /\ a.sy = v.rows + 1 /\ a.sy + a.rows + 2 = q
      BY <2>3 DEF Stacked, Window
    <3> QED
      BY <3>1
  <2>4. ASSUME NEW v \in Window, Stacked(v, w, q) PROVE Stacked(v, x, h)
    BY <1>2, <1>3, <1>4, <2>4 DEF Stacked, Window
  <2>5. CASE bottom = 2
    <3>1. ~Stacked(e.ring[2], e.ring[1], q)
      BY <1>1, <1>2, <2>1, <2>3, <2>5
    <3>2. Stacked(e.ring[1], x, h)
      BY <1>1, <2>1, <2>2, <2>4, <2>5, <3>1
    <3>3. Tiled(s, h)
      BY <1>6, <1>10, <2>1, <2>2, <2>5, <3>2 DEF Tiled
    <3> QED
      BY <1>5, <1>6, <1>7, <3>3
  <2>6. CASE bottom = 1
    <3>1. ~Stacked(e.ring[1], e.ring[2], q)
      BY <1>1, <1>2, <2>1, <2>3, <2>6
    <3>2. Stacked(e.ring[2], x, h)
      BY <1>1, <2>1, <2>2, <2>4, <2>6, <3>1
    <3>3. Tiled(s, h)
      BY <1>6, <1>10, <2>1, <2>2, <2>6, <3>2 DEF Tiled
    <3> QED
      BY <1>5, <1>6, <1>7, <3>3
  <2> QED
    BY <2>1, <2>5, <2>6
<1> QED
  BY <1>1, <1>9, <1>10


LEMMA BottomIs ==
  ASSUME NEW e, Shape(e)
  PROVE  \E k \in DOMAIN e.ring : e.ring[k].rows + e.ring[k].sy + 2 = e.height
<1> DEFINE n == Len(e.ring)
           q == e.height
<1>1. /\ n \in {1, 2} /\ DOMAIN e.ring = 1..n /\ q \in Nat /\ q >= 5
      /\ \A k \in DOMAIN e.ring : e.ring[k] \in Window
  BY RingIs
<1>2. \A k \in DOMAIN e.ring : e.ring[k].sy \in Nat /\ e.ring[k].rows \in Nat
  BY <1>1 DEF Window
<1>3. Tiled(e.ring, q)
  BY DEF Shape
<1> HIDE DEF q
<1>4. CASE n = 1
  <2>1. 1 \in DOMAIN e.ring /\ e.ring[1].sy = 0 /\ e.ring[1].rows = q - 2
    BY <1>1, <1>3, <1>4 DEF Tiled
  <2>2. e.ring[1].rows + e.ring[1].sy + 2 = q
    BY <1>1, <2>1
  <2> QED
    BY <2>1, <2>2 DEF q
<1>5. CASE n = 2
  <2>1. 1 \in DOMAIN e.ring /\ 2 \in DOMAIN e.ring
    BY <1>1, <1>5
  <2>2. Stacked(e.ring[1], e.ring[2], q) \/ Stacked(e.ring[2], e.ring[1], q)
    BY <1>3, <1>5 DEF Tiled
  <2>3. e.ring[1].rows + e.ring[1].sy + 2 = q \/ e.ring[2].rows + e.ring[2].sy + 2 = q
    BY <1>1, <1>2, <2>1, <2>2 DEF Stacked
  <2> QED
    BY <2>1, <2>3 DEF q
<1> QED
  BY <1>1, <1>4, <1>5

LEMMA TallerSound ==
  ASSUME NEW e, Sound(e), NEW h \in Heights, NEW bottom \in DOMAIN e.ring,
         e.ring[bottom].rows + e.ring[bottom].sy + 2 = e.height, h > e.ring[bottom].sy + 3
  PROVE  Sound(WithRoom(e, Taller(e, bottom, h), h)) /\ WithRoom(e, Taller(e, bottom, h), h).height = h
<1> DEFINE s == Taller(e, bottom, h)
<1>1. Loose(e) /\ Shape(e) /\ Views(e)
  BY SoundShape DEF Sound
<1>2. /\ s \in Seq(Window) /\ DOMAIN s = DOMAIN e.ring /\ Tiled(s, h)
      /\ \A k \in DOMAIN e.ring : /\ s[k].mark = e.ring[k].mark /\ s[k].beg = e.ring[k].beg
                                 /\ s[k].buf = e.ring[k].buf /\ s[k].trashed = e.ring[k].trashed
  BY <1>1, TallerIs
<1> HIDE DEF s
<1>3. \A k \in DOMAIN s : s[k].mark \in LinesOf(e, s[k].buf) /\ (s[k].trashed \/ s[k].beg \in LinesOf(e, s[k].buf))
  BY <1>1, <1>2 DEF Views
<1>4. Sound(WithRoom(e, s, h)) /\ WithRoom(e, s, h).height = h
  BY <1>1, <1>2, <1>3, WithRoomSound
<1> QED
  BY <1>4 DEF s

Sole(e, h) == [e.ring EXCEPT ![1].rows = h - 2]

LEMMA SoleSound ==
  ASSUME NEW e, Sound(e), Len(e.ring) = 1, NEW h \in Heights
  PROVE  Sound(WithRoom(e, Sole(e, h), h)) /\ WithRoom(e, Sole(e, h), h).height = h
<1> DEFINE w == e.ring[1]
           m == h - 2
           x == [w EXCEPT !.rows = m]
           s == [e.ring EXCEPT ![1] = x]
<1>1. Loose(e) /\ Shape(e) /\ Views(e)
  BY SoundShape DEF Sound
<1>2. DOMAIN e.ring = {1} /\ e.ring \in Seq(Window) /\ w \in Window
  <2>1. DOMAIN e.ring = 1..1 /\ e.ring \in Seq(Window)
    BY <1>1, RingIs
  <2> QED
    BY <2>1, <1>1, RingIs
<1>3. m \in Nat
  BY HeightsAre
<1>4. w.sy = 0
  BY <1>1 DEF Shape, Tiled
<1> HIDE DEF m
<1>5. x \in Window /\ x.rows = m /\ x.sy = 0 /\ x.mark = w.mark /\ x.beg = w.beg /\ x.buf = w.buf
      /\ x.trashed = w.trashed
  BY <1>2, <1>3, <1>4 DEF Window
<1>6. s = Sole(e, h)
  BY DEF Sole, m
<1> HIDE DEF x
<1>7. s \in Seq(Window) /\ Len(s) = 1 /\ DOMAIN s = {1} /\ s[1] = x
  BY <1>2, <1>5
<1> HIDE DEF s
<1>8. Tiled(s, h)
  BY <1>5, <1>7 DEF Tiled, m
<1>9. \A k \in DOMAIN s : s[k].mark \in LinesOf(e, s[k].buf) /\ (s[k].trashed \/ s[k].beg \in LinesOf(e, s[k].buf))
  BY <1>1, <1>2, <1>5, <1>7 DEF Views
<1>10. Sound(WithRoom(e, s, h)) /\ WithRoom(e, s, h).height = h
  BY <1>1, <1>7, <1>8, <1>9, WithRoomSound
<1> QED
  BY <1>6, <1>10

(* SIGWINCH: whichever window takes or gives the rows.                     *)
LEMMA ResizedSound ==
  ASSUME NEW e, Sound(e), NEW h \in Heights
  PROVE  Sound(Resized(e, h)) /\ Resized(e, h).height = h
<1> DEFINE bottom == CHOOSE k \in DOMAIN e.ring : e.ring[k].rows + e.ring[k].sy + 2 = e.height
           top == CHOOSE k \in DOMAIN e.ring : e.ring[k].sy = 0
           o == OneWindow(IF top = 1 THEN e ELSE OtherWindow(e))
           tall == [e EXCEPT !.ring[bottom].rows = h - 2 - e.ring[bottom].sy]
           sole == [o EXCEPT !.ring[1].rows = h - 2]
           f == IF h > e.ring[bottom].sy + 3 THEN tall ELSE sole
           g == [f EXCEPT !.height = h,
                  !.screen = [r \in 0..h - 1 |-> [line |-> None, mod |-> TRUE, shown |-> Blank]]]
<1>1. bottom \in DOMAIN e.ring /\ e.ring[bottom].rows + e.ring[bottom].sy + 2 = e.height
  BY BottomIs, SoundShape
<1>2. Sound(o) /\ Len(o.ring) = 1
  <2>1. Sound(IF top = 1 THEN e ELSE OtherWindow(e))
    BY OtherWindowSound DEF Turned
  <2> QED
    BY <2>1, OneWindowSound
<1>3. Resized(e, h) = Trashed(g, DOMAIN f.ring)
  BY DEF Resized
<1> HIDE DEF o, bottom
<1>4. e \in Editor(e.height) /\ o \in Editor(o.height)
  BY <1>2, SoundShape
<1>5. ASSUME h > e.ring[bottom].sy + 3 PROVE Sound(g) /\ g.height = h
  <2>1. g = WithRoom(e, Taller(e, bottom, h), h)
    BY <1>4, <1>5 DEF WithRoom, Taller, Fresh, Editor
  <2> QED
    BY <1>1, <1>5, <2>1, TallerSound
<1>6. ASSUME ~(h > e.ring[bottom].sy + 3) PROVE Sound(g) /\ g.height = h
  <2>1. g = WithRoom(o, Sole(o, h), h)
    BY <1>4, <1>6 DEF WithRoom, Sole, Fresh, Editor
  <2> QED
    BY <1>2, <2>1, SoleSound
<1>7. Sound(g) /\ g.height = h
  BY <1>5, <1>6
<1> DEFINE ks == DOMAIN f.ring
<1>8. Resized(e, h) = Trashed(g, ks)
  BY <1>3
<1> HIDE DEF g, ks
<1>9. Touched(g, Trashed(g, ks))
  BY <1>7, TrashedTouched, SoundShape
<1>10. Sound(Trashed(g, ks)) /\ Trashed(g, ks).height = g.height
  BY <1>7, <1>9, TouchedInUse DEF Stays
<1> QED
  BY <1>7, <1>8, <1>10


-----------------------------------------------------------------------------
(* The invariant.                                                          *)

Control ==
  /\ pc \in {"idle", "command", "callback"} /\ home \in Buffers \cup {None}
  /\ plain \in BOOLEAN /\ steps \in 0..MaxSteps

(* The editor is sound, and a callback can go back to its buffer.          *)
DisplayInv == Sound(ed) /\ Control /\ (pc = "callback" => home \in Live(ed))

(* What JED begins with: a buffer and a window that has not been drawn.    *)
LEMMA InitIs ==
  ASSUME Init
  PROVE  \E e : /\ ed = Waiting(e) /\ Sound(e) /\ e.cbuf = JWindow(e).buf
               /\ JWindow(e).trashed /\ ~e.suspend /\ ~e.astray
<1>1. PICK h \in Heights, b \in Buffers, l \in Lines :
        ed = Waiting(
             [ring |-> <<[id |-> 1, sy |-> 0, rows |-> h - 2, buf |-> b, beg |-> l, mark |-> l,
                          trashed |-> TRUE]>>,
              height |-> h,
              screen |-> [r \in 0..h - 1 |-> [line |-> None, mod |-> TRUE, shown |-> Blank]],
              text |-> [c \in Buffers |-> IF c = b THEN <<l>> ELSE <<>>],
              cbuf |-> b, at |-> [c \in Buffers |-> IF c = b THEN l ELSE None],
              suspend |-> FALSE, motion |-> FALSE, last |-> None, astray |-> FALSE])
  BY DEF Init
<1> DEFINE v == TRUE
           n == FALSE
           i == 1
           y == 0
           p == h - 2
           w == [id |-> i, sy |-> y, rows |-> p, buf |-> b, beg |-> l, mark |-> l, trashed |-> v]
           s == <<w>>
           u == <<l>>
           z == <<>>
           t == [c \in Buffers |-> IF c = b THEN u ELSE z]
           a == [c \in Buffers |-> IF c = b THEN l ELSE None]
           d == Fresh(h)
           e == [ring |-> s, height |-> h, screen |-> d, text |-> t, cbuf |-> b, at |-> a,
                 suspend |-> n, motion |-> n, last |-> None, astray |-> n]
<1>2. ed = Waiting(e)
  BY <1>1 DEF Fresh
<1>3. h \in Nat /\ h >= 5 /\ v \in BOOLEAN /\ n \in BOOLEAN /\ v /\ ~n /\ i \in Ids /\ y \in Nat
  BY HeightsAre, WindowsAre DEF Ids
<1>4. p \in Nat
  BY <1>3
<1> HIDE DEF v, n, i, p
<1>5. w \in Window /\ w.sy = 0 /\ w.rows = p /\ w.buf = b /\ w.mark = l /\ w.beg = l /\ w.trashed = v
  <2> HIDE DEF y
  <2>1. w \in Window /\ w.sy = y /\ w.rows = p /\ w.buf = b /\ w.mark = l /\ w.beg = l /\ w.trashed = v
    BY <1>3, <1>4 DEF Window
  <2> QED
    BY <2>1 DEF y
<1> HIDE DEF w
<1>6. s \in Seq(Window) /\ Len(s) = 1 /\ DOMAIN s = {1} /\ s[1] = w
  BY <1>5, PairIs
<1> HIDE DEF s
<1>7. u \in Seq(Lines) /\ LinesIn(u) = {l} /\ Injective(u) /\ u # <<>> /\ z \in Seq(Lines) /\ LinesIn(z) = {} /\ Injective(z)
  <2>1. DOMAIN <<l>> = {1} /\ <<l>>[1] = l
    OBVIOUS
  <2>2. <<l>> \in Seq(Lines) /\ <<l>> # <<>> /\ z \in Seq(Lines) /\ DOMAIN z = {}
    OBVIOUS
  <2> QED
    BY <2>1, <2>2 DEF LinesIn, Injective
<1>8. z = <<>>
  OBVIOUS
<1> HIDE DEF u, z
<1>9. /\ t \in [Buffers -> Seq(Lines)] /\ a \in [Buffers -> Lines \cup {None}] /\ t[b] = u /\ a[b] = l
      /\ \A c \in Buffers : c # b => t[c] = z /\ a[c] = None
  BY <1>7
<1>10. d \in [0..h - 1 -> Row]
  BY FreshIs
<1> HIDE DEF t, a, d
<1>11. /\ e \in Editor(h) /\ e.ring = s /\ e.height = h /\ e.screen = d /\ e.text = t /\ e.at = a /\ e.cbuf = b
       /\ e.suspend = n /\ e.astray = n
  BY <1>3, <1>6, <1>9, <1>10 DEF Editor
<1> HIDE DEF e
<1>12. Shape(e)
  BY <1>5, <1>6, <1>11 DEF Shape, Tiled, p
<1>13. LinesOf(e, b) = {l} /\ \A c \in Buffers : c # b => LinesOf(e, c) = {}
  <2>1. \A c : LinesOf(e, c) = LinesIn(e.text[c])
    BY DEF LinesOf, LinesIn
  <2>2. e.text[b] = u /\ \A c \in Buffers : c # b => e.text[c] = z
    BY <1>9, <1>11
  <2> QED
    BY ONLY <1>7, <2>1, <2>2
<1>14. Texts(e)
  <2>1. \A c \in Buffers : c \in Live(e) <=> c = b
    BY <1>7, <1>8, <1>9, <1>11 DEF Live
  <2>2. \A c \in Buffers : Injective(e.text[c])
    BY <1>7, <1>9, <1>11
  <2>3. \A c, f \in Buffers : c # f => LinesOf(e, c) \cap LinesOf(e, f) = {}
    BY <1>13
  <2>4. \A c \in Buffers : IF c \in Live(e) THEN e.at[c] \in LinesOf(e, c) ELSE e.at[c] = None
    BY <1>9, <1>11, <1>13, <2>1
  <2> QED
    BY <1>11, <2>1, <2>2, <2>3, <2>4 DEF Texts
<1>15. Views(e)
  BY <1>5, <1>6, <1>11, <1>13 DEF Views
<1>16. Clean(e)
  <2>1. \A r \in 0..h - 1 : e.screen[r].mod
    BY <1>11, FreshIs DEF d
  <2> QED
    BY <1>11, <1>12, <2>1, RowIs DEF Clean, Current
<1>17. Sound(e)
  BY <1>12, <1>14, <1>15, <1>16 DEF Sound, Loose
<1>18. e.cbuf = JWindow(e).buf /\ JWindow(e).trashed /\ ~e.suspend /\ ~e.astray
  BY <1>3, <1>5, <1>6, <1>11 DEF JWindow
<1> QED
  BY <1>2, <1>17, <1>18

LEMMA DisplayInit == Init => DisplayInv
<1> SUFFICES ASSUME Init PROVE DisplayInv
  OBVIOUS
<1>1. Sound(ed)
  BY InitIs, WaitingSound
<1>2. Control /\ pc # "callback"
  BY DisplayAssumption DEF Init, Control
<1> QED
  BY <1>1, <1>2 DEF DisplayInv

(* A step of a command or a callback.                                      *)
LEMMA RunsInv ==
  ASSUME DisplayInv, Runs, plain' \in BOOLEAN, Sound(ed'), pc = "callback" => Saves(ed, ed')
  PROVE  DisplayInv'
<1>1. Control'
  BY DisplayAssumption DEF DisplayInv, Control, Runs
<1> QED
  BY <1>1 DEF DisplayInv, Saves, Runs

LEMMA DoesInv ==
  ASSUME DisplayInv, NEW e, Does(e), Sound(e), pc = "callback" => Saves(ed, e)
  PROVE  DisplayInv'
  BY RunsInv DEF Does

LEMMA SavesSelf == ASSUME NEW e, NEW f, f.text = e.text PROVE Saves(e, f)
  BY DEF Saves, Live

(* The steps that a callback takes too.                                    *)
LEMMA TextStepInv == ASSUME DisplayInv, TextStep PROVE DisplayInv'
<1>1. Sound(ed) /\ Shape(ed) /\ Texts(ed) /\ ed \in Editor(ed.height) /\ plain \in BOOLEAN
  BY SoundShape DEF DisplayInv, Control
<1>2. CASE Edit
  <2>1. Touched(ed, Changed(ed, CLine(ed)))
    BY <1>1, TextIs, ChangedTouched
  <2>2. Sound(ed') /\ Saves(ed, ed')
    BY <1>1, <1>2, <2>1, TouchedSound, SavesSelf DEF Edit, Touched
  <2> QED
    BY <1>1, <1>2, <2>2, RunsInv DEF Edit
<1>3. CASE Join
  BY <1>1, <1>3, DelNewlineSound, DoesInv DEF Join
<1>4. CASE Erase
  BY <1>1, <1>4, EraseBufferSound, DoesInv DEF Erase
<1>5. CASE Suspend
  <2> DEFINE v == TRUE
             m == ed.motion
             b == ed.cbuf
             f == WithTalk(ed, b, v, m)
  <2>1. v \in BOOLEAN /\ m \in BOOLEAN /\ b \in Live(ed) /\ (ed.suspend => v)
    BY <1>1 DEF Editor, Texts
  <2>2. f = [ed EXCEPT !.suspend = TRUE]
    BY <1>1 DEF WithTalk, Editor
  <2> HIDE DEF v, m, b
  <2>3. Sound(f) /\ SameButTalk(ed, f, b, v)
    BY <1>1, <2>1, WithTalkSound
  <2> HIDE DEF f
  <2>4. Saves(ed, f)
    BY <2>3, SavesSelf DEF SameButTalk
  <2> QED
    BY <1>5, <2>2, <2>3, <2>4, DoesInv DEF Suspend
<1>6. ASSUME NEW l \in Lines, MoveTo(l) PROVE DisplayInv'
  <2>1. PICK m \in {ed.motion, TRUE} : Does([ed EXCEPT !.at[ed.cbuf] = l, !.motion = m])
    BY <1>6 DEF MoveTo
  <2>2. m \in BOOLEAN /\ l \in LinesOf(ed, ed.cbuf)
    BY <1>1, <1>6 DEF Editor, MoveTo
  <2> DEFINE f == [ed EXCEPT !.at[ed.cbuf] = l, !.motion = m]
  <2>3. f.text = ed.text
    BY <1>1 DEF Editor
  <2>4. Sound(f)
    BY <1>1, <2>2, MoveSound
  <2>5. Does(f)
    BY <2>1
  <2> HIDE DEF f
  <2>6. Saves(ed, f)
    BY <2>3, SavesSelf
  <2> QED
    BY <2>4, <2>5, <2>6, DoesInv
<1>7. ASSUME NEW new \in Lines, NEW marks, NEW begs, Split(new, marks, begs) PROVE DisplayInv'
  BY <1>1, <1>7, InsertNewlineSound, DoesInv DEF Split
<1>8. ASSUME NEW b \in Buffers, NEW new \in Lines, Set(b, new) PROVE DisplayInv'
  <2>1. Sound(SetBuffer(ed, b, new)) /\ Saves(ed, SetBuffer(ed, b, new))
    BY <1>1, <1>8, SetBufferSound DEF Set, Saves
  <2> QED
    BY <1>8, <2>1, DoesInv DEF Set
<1> QED
  BY <1>2, <1>3, <1>4, <1>5, <1>6, <1>7, <1>8 DEF TextStep

(* The steps of a command only.                                            *)
LEMMA ScreenStepInv == ASSUME DisplayInv, pc = "command", ScreenStep PROVE DisplayInv'
<1>1. Sound(ed) /\ Shape(ed) /\ Texts(ed) /\ ed \in Editor(ed.height) /\ plain \in BOOLEAN
  BY SoundShape DEF DisplayInv, Control
<1>2. CASE MoveAlongLine
  <2> DEFINE v == TRUE
             f == [ed EXCEPT !.motion = v]
  <2>1. v \in BOOLEAN /\ ed' = f
    BY <1>2 DEF MoveAlongLine
  <2> HIDE DEF v
  <2>2. Touched(ed, f)
    BY <1>1, <2>1, SmallFieldsTouched
  <2> HIDE DEF f
  <2>3. Sound(ed')
    BY <1>1, <2>1, <2>2, TouchedSound
  <2> QED
    BY <1>1, <1>2, <2>3, RunsInv DEF MoveAlongLine
<1>3. CASE TouchAll
  BY <1>1, <1>3, TouchScreenTouched, TouchedSound, DoesInv DEF TouchAll
<1>4. CASE TouchOne
  BY <1>1, <1>4, TouchWindowTouched, TouchedSound, DoesInv DEF TouchOne
<1>5. ASSUME NEW b \in Buffers, SetInWindow(b) PROVE DisplayInv'
  <2> DEFINE f == [ed EXCEPT !.cbuf = b]
             g == WindowBuffer(f, b)
  <2>1. b \in Live(ed) /\ Does(g)
    BY <1>5 DEF SetInWindow
  <2>2. Sound(f) /\ b \in Live(f)
    BY <1>1, <2>1, InOwnBuffer
  <2> HIDE DEF f
  <2>3. Sound(g)
    BY <2>2, WindowBufferSound
  <2> HIDE DEF g
  <2> QED
    BY <2>1, <2>3, DoesInv
<1>6. ASSUME NEW b \in Buffers, NEW other \in Buffers, Kill(b, other) PROVE DisplayInv'
  BY <1>1, <1>6, KillBufferCmdSound, DoesInv DEF Kill
<1>7. CASE Other
  BY <1>1, <1>7, OtherWindowSound, DoesInv DEF Other, Turned
<1>8. CASE SplitTheWindow
  BY <1>1, <1>8, SplitWindowSound, DoesInv DEF SplitTheWindow
<1>9. CASE One
  BY <1>1, <1>9, OneWindowSound, DoesInv DEF One
<1>10. CASE Delete
  BY <1>1, <1>10, DeleteWindowSound, DoesInv DEF Delete
<1>11. ASSUME NEW n \in {1, JWindow(ed).rows, JWindow(ed).rows + 1}, RecenterOn(n) PROVE DisplayInv'
  <2>1. JWindow(ed).rows \in Nat /\ JWindow(ed).rows >= 2
    BY <1>1, RingIs, RowsAre DEF JWindow
  <2>2. n \in Nat \ {0}
    BY <2>1
  <2> QED
    BY <1>1, <1>11, <2>2, RecenterSound, DoesInv DEF RecenterOn
<1>12. ASSUME NEW c, UpdateNow(c) PROVE DisplayInv'
  <2>1. None \in LinesOf(ed, JWindow(ed).buf) \cup {None}
    OBVIOUS
  <2>2. Sound(Update(ed, None, c))
    BY <1>1, <2>1, UpdateSound
  <2> QED
    BY <1>12, <2>2, DoesInv DEF UpdateNow
<1>13. ASSUME NEW c, Redraw(c) PROVE DisplayInv'
  BY <1>1, <1>13, RedrawScreenSound, DoesInv DEF Redraw
<1>14. ASSUME NEW c, RecenterAll(c) PROVE DisplayInv'
  <2> DEFINE e == Rebegun(ed, FindTopToRecenter(ed))
  <2>1. Sound(e)
    BY <1>1, FindTopToRecenterIs, TextIs, RebegunSound
  <2>2. Does(RedrawScreen(e, c))
    BY <1>14 DEF RecenterAll, Rebegun
  <2> HIDE DEF e
  <2>3. Sound(RedrawScreen(e, c))
    BY <2>1, RedrawScreenSound
  <2> QED
    BY <2>2, <2>3, DoesInv
<1> QED
  BY <1>2, <1>3, <1>4, <1>5, <1>6, <1>7, <1>8, <1>9, <1>10, <1>11, <1>12, <1>13, <1>14 DEF ScreenStep

LEMMA EndCallbackInv == ASSUME DisplayInv, EndCallback PROVE DisplayInv'
<1> DEFINE d == [ed EXCEPT !.cbuf = home]
           e == TouchScreen(d)
           f == Trashed(e, {1})
<1>1. Sound(ed) /\ home \in Live(ed)
  BY DEF DisplayInv, EndCallback
<1>2. Sound(d)
  BY <1>1, InOwnBuffer
<1>3. ed' = Waiting(f)
  BY DEF EndCallback
<1> HIDE DEF d
<1>4. Sound(e)
  BY <1>2, SoundShape, TouchScreenTouched, TouchedSound
<1> HIDE DEF e
<1>5. Sound(f)
  BY <1>4, SoundShape, TrashedTouched, TouchedSound
<1> HIDE DEF f
<1>6. Sound(ed')
  BY <1>3, <1>5, WaitingSound
<1>7. Control' /\ pc' # "callback"
  BY DisplayAssumption DEF EndCallback, Control
<1> QED
  BY <1>6, <1>7 DEF DisplayInv

(* No update is suspended between two commands, and none was given up with *)
(* the updates suspended, but for typeahead.                               *)
LEMMA EndCommandInv ==
  ASSUME DisplayInv, "typeahead" \notin Lapses, NEW ret, NEW error, NEW c, EndCommand(ret, error, c)
  PROVE  DisplayInv'
<1> DEFINE d == Ended(ed, ret, error, c)
           e == [d EXCEPT !.suspend = FALSE]
<1>1. Sound(ed) /\ (c.input => ~ed.suspend) /\ Control
  BY DEF DisplayInv, EndCommand
<1>2. Sound(d) /\ ~d.suspend
  BY <1>1, EndedSound
<1>3. /\ pc = "command" /\ ed' \in {e, Waiting(e)} /\ plain' \in BOOLEAN /\ home' = home
      /\ pc' \in {"idle", "command"} /\ steps' \in {0, steps}
  BY DEF EndCommand
<1> HIDE DEF d
<1>4. e = d
  <2>1. d \in Editor(d.height)
    BY <1>2, SoundShape
  <2> QED
    BY <1>2, <2>1 DEF Editor
<1> HIDE DEF e
<1>5. Sound(ed')
  BY <1>2, <1>3, <1>4, WaitingSound
<1>6. Control' /\ pc' # "callback"
  BY <1>1, <1>3, DisplayAssumption DEF Control
<1> QED
  BY <1>5, <1>6 DEF DisplayInv

LEMMA ResizeInv ==
  ASSUME DisplayInv, NEW h \in Heights, NEW c, Resize(h, c)
  PROVE  DisplayInv'
<1> DEFINE d == Resized(ed, h)
           e == RedrawScreen(d, c)
<1>1. Sound(d)
  BY ResizedSound DEF DisplayInv
<1> HIDE DEF d
<1>2. Sound(e)
  BY <1>1, RedrawScreenSound
<1>3. ed' = Waiting(e) /\ pc = "idle" /\ UNCHANGED <<pc, home, plain, steps>>
  BY DEF Resize, e, d
<1> HIDE DEF e
<1>4. Sound(ed')
  BY <1>2, <1>3, WaitingSound
<1> QED
  BY <1>3, <1>4 DEF DisplayInv, Control

LEMMA DisplayNext == ASSUME DisplayInv, "typeahead" \notin Lapses, [Next]_vars PROVE DisplayInv'
<1>1. CASE Key
  BY <1>1 DEF Key, DisplayInv, Control
<1>2. CASE Callback
  <2>1. ed.cbuf \in Live(ed) /\ ed.cbuf \in Buffers
    BY SoundShape DEF DisplayInv, Texts, Live
  <2> QED
    BY <1>2, <2>1 DEF Callback, DisplayInv, Control
<1>3. CASE EndCallback
  BY <1>3, EndCallbackInv
<1>4. ASSUME NEW h \in Heights, NEW c, Resize(h, c) PROVE DisplayInv'
  BY <1>4, ResizeInv
<1>5. ASSUME NEW ret, NEW error, NEW c, EndCommand(ret, error, c) PROVE DisplayInv'
  BY <1>5, EndCommandInv
<1>6. CASE TextStep
  BY <1>6, TextStepInv
<1>7. CASE pc = "command" /\ ScreenStep
  BY <1>7, ScreenStepInv
<1>8. CASE UNCHANGED vars
  <2>1. ed' = ed /\ pc' = pc /\ home' = home /\ plain' = plain /\ steps' = steps
    BY <1>8 DEF vars
  <2>2. Sound(ed') /\ Control' /\ (pc' = "callback" => home' \in Live(ed'))
    BY <2>1 DEF DisplayInv, Control
  <2> QED
    BY <2>2 DEF DisplayInv
<1>9. ASSUME NEW c, EndCommand(TRUE, FALSE, c) \/ EndCommand(TRUE, TRUE, c) \/ EndCommand(FALSE, FALSE, c)
      PROVE  DisplayInv'
  BY <1>5, <1>9
<1> QED
  BY <1>1, <1>2, <1>3, <1>4, <1>6, <1>7, <1>8, <1>9 DEF Next

LEMMA DisplayInvSound == DisplayInv => CacheSound
<1> SUFFICES ASSUME DisplayInv PROVE CacheSound
  OBVIOUS
<1>1. Shape(ed) /\ Views(ed) /\ Clean(ed) /\ ed \in Editor(ed.height)
  BY SoundShape DEF DisplayInv
<1>2. TypeOK
  <2>1. \A k \in DOMAIN ed.ring : /\ ed.ring[k].mark \in LinesOf(ed, ed.ring[k].buf)
                                  /\ ed.ring[k].trashed \/ ed.ring[k].beg \in LinesOf(ed, ed.ring[k].buf)
    BY <1>1 DEF Views
  <2>2. \A k \in DOMAIN ed.ring : ed.ring[k].sy + ed.ring[k].rows < ed.height - 1
    BY <1>1, RowsAre
  <2> QED
    BY <1>1, <2>1, <2>2 DEF TypeOK, DisplayInv, Control
<1>3. UnmarkedIsCurrent
  BY <1>1 DEF UnmarkedIsCurrent, WindowRows, Clean, Current
<1> QED
  BY <1>2, <1>3 DEF CacheSound

(* As long as no one types on while a command that has suspended the       *)
(* updates is running, what the windows and the screen say of the text is  *)
(* true (screen.c, window.c): the windows cover the screen, their cursors  *)
(* are lines of their buffers, the line a window begins with is one unless *)
(* it is to be drawn anew (recenter may take it from another buffer), and a *)
(* row of a window that is not marked, and no update owed, shows the line  *)
(* whose address it holds as it is now. So it is with any number of buffers *)
(* and lines, however many of them are freed and made again between two    *)
(* updates, and at any height.                                             *)
THEOREM DisplayCacheSound == ASSUME "typeahead" \notin Lapses PROVE Spec => []CacheSound
<1>1. Init => DisplayInv
  BY DisplayInit
<1>2. DisplayInv /\ [Next]_vars => DisplayInv'
  BY DisplayNext
<1>3. DisplayInv => CacheSound
  BY DisplayInvSound
<1> QED
  BY <1>1, <1>2, <1>3, PTL DEF Spec

-----------------------------------------------------------------------------
(* What a step that draws nothing leaves of e, and whether it goes astray. *)

(* f is astray if e is.                                                    *)
SameAstray(e, f) == "astray" \in DOMAIN e => "astray" \in DOMAIN f /\ f.astray = e.astray

LEMMA AstrayThen == ASSUME NEW e, NEW f, NEW g, SameAstray(e, f), SameAstray(f, g) PROVE SameAstray(e, g)
  BY DEF SameAstray

LEMMA FieldsAstray ==
  ASSUME NEW e, NEW v
  PROVE  /\ SameAstray(e, [e EXCEPT !.ring = v]) /\ SameAstray(e, [e EXCEPT !.screen = v])
         /\ SameAstray(e, [e EXCEPT !.cbuf = v]) /\ SameAstray(e, [e EXCEPT !.suspend = v])
         /\ SameAstray(e, [e EXCEPT !.text = v]) /\ SameAstray(e, [e EXCEPT !.at = v])
         /\ SameAstray(e, [e EXCEPT !.motion = v]) /\ SameAstray(e, [e EXCEPT !.last = v])
         /\ SameAstray(e, [e EXCEPT !.height = v])
  BY DEF SameAstray

LEMMA MarkingAstray ==
  ASSUME NEW e
  PROVE  /\ \A rows : SameAstray(e, Marked(e, rows)) /\ SameAstray(e, Forgotten(e, rows))
         /\ \A ks : SameAstray(e, Trashed(e, ks))
         /\ \A ls : SameAstray(e, Outdated(e, ls))
  BY FieldsAstray DEF Marked, Forgotten, Trashed, Outdated

LEMMA TouchesAstray ==
  ASSUME NEW e
  PROVE  /\ SameAstray(e, TouchWindow(e)) /\ SameAstray(e, TouchScreen(e))
         /\ \A ks : SameAstray(e, TouchWindowHard(e, ks))
         /\ \A l : SameAstray(e, RegisterChange(e, l)) /\ SameAstray(e, RegisterDeletion(e, l))
         /\ SameAstray(e, SetHScroll(e)) /\ SameAstray(e, Resumed(e))
<1>1. \A f : SameAstray(f, f)
  BY DEF SameAstray
<1>2. \A f : SameAstray(f, TouchWindow(f)) /\ SameAstray(f, TouchScreen(f))
  BY MarkingAstray, AstrayThen DEF TouchWindow, TouchScreen, SameAstray
<1>3. \A ks : SameAstray(e, TouchWindowHard(e, ks))
  BY MarkingAstray, AstrayThen DEF TouchWindowHard
<1>4. \A f, l : SameAstray(f, RegisterChange(f, l))
  BY <1>1, MarkingAstray, AstrayThen DEF RegisterChange
<1>5. \A l : SameAstray(e, RegisterDeletion(e, l))
  BY <1>1, <1>4, MarkingAstray, AstrayThen DEF RegisterDeletion
<1>6. SameAstray(e, SetHScroll(e))
  BY <1>1, <1>4, FieldsAstray, AstrayThen DEF SetHScroll
<1>7. SameAstray(e, Resumed(e))
  BY <1>1, <1>2, FieldsAstray, AstrayThen DEF Resumed
<1> QED
  BY <1>2, <1>3, <1>4, <1>5, <1>6, <1>7

LEMMA OtherAstray ==
  ASSUME NEW e
  PROVE  SameAstray(e, OtherWindow(e))
<1>1. SameAstray(e, NextWindow(e))
  BY FieldsAstray DEF NextWindow
<1>2. \A f, c, a, m : SameAstray(f, [f EXCEPT !.cbuf = c, !.at[a] = m])
  BY DEF SameAstray
<1>3. \A f, c : SameAstray(f, [f EXCEPT !.cbuf = c])
  BY DEF SameAstray
<1> QED
  BY <1>1, <1>2, <1>3, AstrayThen DEF OtherWindow

(* The steps of commands that draw nothing.                                *)
LEMMA ChangesAstray ==
  ASSUME NEW e
  PROVE  /\ \A l : SameAstray(e, Changed(e, l))
         /\ \A new, marks, begs : SameAstray(e, InsertNewline(e, new, marks, begs))
         /\ SameAstray(e, DelNewline(e)) /\ SameAstray(e, EraseBuffer(e))
         /\ \A b, new : SameAstray(e, SetBuffer(e, b, new))
<1>1. \A f, l : SameAstray(f, Changed(f, l))
  BY FieldsAstray, MarkingAstray, TouchesAstray, AstrayThen DEF Changed
<1>2. ASSUME NEW new, NEW marks, NEW begs PROVE SameAstray(e, InsertNewline(e, new, marks, begs))
  <2> DEFINE l == CLine(e)
             i == Place(Text(e), l)
             f == [e EXCEPT !.text[e.cbuf] = InsertAt(@, i + 1, new),
                     !.at[e.cbuf] = new,
                     !.ring = [k \in DOMAIN @ |-> Carried(e, @[k], new, marks, begs)]]
  <2>1. SameAstray(e, f)
    BY DEF SameAstray
  <2>2. InsertNewline(e, new, marks, begs) = Changed(f, l)
    BY DEF InsertNewline
  <2> HIDE DEF f, l
  <2> QED
    BY <1>1, <2>1, <2>2, AstrayThen
<1>3. SameAstray(e, DelNewline(e))
  <2> DEFINE l == CLine(e)
             i == Place(Text(e), l)
             n == Text(e)[i + 1]
             d == Changed(e, l)
             m == MarksMoved(d, {n}, l)
             f == RegisterDeletion(m, n)
             g == [f EXCEPT !.text[e.cbuf] = RemoveAt(@, i + 1)]
  <2>1. SameAstray(e, d)
    BY <1>1
  <2>2. SameAstray(d, m)
    BY FieldsAstray DEF MarksMoved
  <2>3. SameAstray(m, f)
    BY TouchesAstray
  <2>4. SameAstray(f, g)
    BY DEF SameAstray
  <2>5. SameAstray(g, Outdated(g, {n}))
    BY MarkingAstray
  <2>6. DelNewline(e) = Outdated(g, {n})
    BY DEF DelNewline
  <2> HIDE DEF l, i, n, d, m, f, g
  <2> QED
    BY <2>1, <2>2, <2>3, <2>4, <2>5, <2>6, AstrayThen
<1>4. SameAstray(e, EraseBuffer(e))
  <2> DEFINE first == Text(e)[1]
             d == [e EXCEPT !.suspend = TRUE, !.motion = FALSE]
             f == MarksMoved(d, LinesOf(e, e.cbuf), first)
             g == [f EXCEPT !.text[e.cbuf] = <<first>>, !.at[e.cbuf] = first]
             o == Outdated(g, LinesOf(e, e.cbuf))
  <2>1. SameAstray(e, d)
    BY DEF SameAstray
  <2>2. SameAstray(d, f)
    BY FieldsAstray DEF MarksMoved
  <2>3. SameAstray(f, g)
    BY DEF SameAstray
  <2>4. SameAstray(g, o)
    BY MarkingAstray
  <2>5. SameAstray(o, TouchScreenForBuffer(o, e.cbuf))
    BY TouchesAstray DEF TouchScreenForBuffer
  <2>6. EraseBuffer(e) = TouchScreenForBuffer(o, e.cbuf)
    BY DEF EraseBuffer
  <2> HIDE DEF first, d, f, g, o
  <2> QED
    BY <2>1, <2>2, <2>3, <2>4, <2>5, <2>6, AstrayThen
<1>5. ASSUME NEW b, NEW new PROVE SameAstray(e, SetBuffer(e, b, new))
  BY DEF SetBuffer, SameAstray
<1> QED
  BY <1>1, <1>2, <1>3, <1>4, <1>5

LEMMA WindowsAstray ==
  ASSUME NEW e
  PROVE  /\ \A b : SameAstray(e, WindowBuffer(e, b))
         /\ \A b, other : SameAstray(e, KillBufferCmd(e, b, other))
         /\ SameAstray(e, SplitWindow(e)) /\ SameAstray(e, OneWindow(e)) /\ SameAstray(e, DeleteWindow(e))
         /\ \A n : SameAstray(e, Recenter(e, n))
<1>1. ASSUME NEW b PROVE SameAstray(e, WindowBuffer(e, b))
  <2> DEFINE f == TouchWindow(e)
             g == [f EXCEPT !.ring[1] = [@ EXCEPT !.buf = b, !.beg = e.at[b], !.mark = e.at[b], !.trashed = TRUE]]
  <2>1. SameAstray(e, f)
    BY TouchesAstray
  <2>2. SameAstray(f, g)
    BY DEF SameAstray
  <2>3. WindowBuffer(e, b) = g
    BY DEF WindowBuffer
  <2> HIDE DEF f, g
  <2> QED
    BY <2>1, <2>2, <2>3, AstrayThen
<1>2. ASSUME NEW b, NEW other PROVE SameAstray(e, KillBufferCmd(e, b, other))
  <2> DEFINE d == TouchScreenForBuffer(e, b)
             f == [d EXCEPT !.ring = [k \in DOMAIN @ |->
             IF @[k].buf = b THEN [@[k] EXCEPT !.buf = other, !.beg = e.at[other], !.mark = e.at[other]]
             ELSE @[k]]]
             g == [f EXCEPT !.text[b] = <<>>, !.at[b] = None,
                        !.cbuf = IF @ = b THEN other ELSE @]
  <2>1. SameAstray(e, d)
    BY TouchesAstray DEF TouchScreenForBuffer
  <2>2. SameAstray(d, f)
    BY FieldsAstray
  <2>3. SameAstray(f, g)
    BY DEF SameAstray
  <2>4. SameAstray(g, Outdated(g, LinesOf(e, b)))
    BY MarkingAstray
  <2>5. KillBufferCmd(e, b, other) = Outdated(g, LinesOf(e, b))
    BY DEF KillBufferCmd
  <2> HIDE DEF d, f, g
  <2> QED
    BY <2>1, <2>2, <2>3, <2>4, <2>5, AstrayThen
<1>3. SameAstray(e, SplitWindow(e))
  <2> DEFINE w == JWindow(e)
             n == w.rows \div 2
             l == e.at[w.buf]
             new == [id |-> FreeId(e), sy |-> w.sy + n + 1, rows |-> w.rows - n - 1, buf |-> w.buf,
                     beg |-> l, mark |-> l, trashed |-> FALSE]
             s == <<[w EXCEPT !.rows = n, !.beg = l], new>> \o Tail(e.ring)
             f == [e EXCEPT !.ring = s, !.cbuf = w.buf]
             o == OtherWindow(f)
             g == TouchWindow(o)
             h == OtherWindow(g)
  <2>1. SameAstray(e, f)
    BY DEF SameAstray
  <2>2. SplitWindow(e) \in {g, h, OtherWindow(h)}
    BY DEF SplitWindow
  <2> HIDE DEF f
  <2>3. SameAstray(f, o)
    BY OtherAstray
  <2> HIDE DEF o
  <2>4. SameAstray(o, g)
    BY TouchesAstray
  <2> HIDE DEF g
  <2>5. SameAstray(g, h)
    BY OtherAstray
  <2> HIDE DEF h
  <2>6. SameAstray(h, OtherWindow(h))
    BY OtherAstray
  <2> QED
    BY <2>1, <2>2, <2>3, <2>4, <2>5, <2>6, AstrayThen
<1>4. SameAstray(e, OneWindow(e))
  <2> DEFINE f == TouchWindowHard(e, DOMAIN e.ring \ Showing(e, JWindow(e).buf))
             g == [f EXCEPT !.ring = <<[Head(@) EXCEPT !.sy = 0, !.rows = e.height - 2]>>]
  <2>1. SameAstray(e, f)
    BY TouchesAstray
  <2>2. SameAstray(f, g)
    BY FieldsAstray
  <2>3. SameAstray(g, TouchWindow(g))
    BY TouchesAstray
  <2>4. OneWindow(e) = TouchWindow(g)
    BY DEF OneWindow
  <2> HIDE DEF f, g
  <2> QED
    BY <2>1, <2>2, <2>3, <2>4, AstrayThen
<1>5. SameAstray(e, DeleteWindow(e))
  <2> DEFINE f == OtherWindow(e)
             s == <<[JWindow(f) EXCEPT !.rows = @ + JWindow(e).rows + 1,
                                       !.sy = IF JWindow(e).sy < @ THEN JWindow(e).sy ELSE @]>>
             g == [f EXCEPT !.ring = s]
  <2>1. SameAstray(e, f)
    BY OtherAstray
  <2>2. SameAstray(f, g)
    BY FieldsAstray
  <2>3. SameAstray(g, TouchWindow(g))
    BY TouchesAstray
  <2>4. DeleteWindow(e) = TouchWindow(g)
    BY DEF DeleteWindow
  <2> HIDE DEF f, s, g
  <2> QED
    BY <2>1, <2>2, <2>3, <2>4, AstrayThen
<1>6. ASSUME NEW n PROVE SameAstray(e, Recenter(e, n))
  <2> DEFINE w == JWindow(e)
             i == Place(Text(e), CLine(e))
             k == IF n > w.rows THEN w.rows \div 2 ELSE n
             l == Text(e)[IF i < k THEN 1 ELSE i - k + 1]
             f == Trashed(e, {1})
             g == [f EXCEPT !.screen[w.sy].line = l, !.screen[w.sy].mod = TRUE]
  <2>1. SameAstray(e, f)
    BY MarkingAstray
  <2>2. Recenter(e, n) \in {f, g}
    BY DEF Recenter
  <2> HIDE DEF w, l, f
  <2>3. SameAstray(f, g)
    BY DEF SameAstray
  <2> HIDE DEF g
  <2> QED
    BY <2>1, <2>2, <2>3, AstrayThen
<1> QED
  BY <1>1, <1>2, <1>3, <1>4, <1>5, <1>6

-----------------------------------------------------------------------------
(* Where find_top puts the top of a window, and what drawing it shows.     *)

(* The rows of w show the lines of t from some place on, l among them, and *)
(* nothing below the end.                                                  *)
InView(s, w, t, l) ==
  \E i \in DOMAIN t :
    /\ OnScreen(t, t[i], l, w.rows)
    /\ \A r \in RowsOf(w) : s[r].shown = IF i + r - w.sy \in DOMAIN t THEN t[i + r - w.sy] ELSE Blank

FrontShown(e) == InView(e.screen, JWindow(e), e.text[JWindow(e).buf], e.at[JWindow(e).buf])

OthersShown(e) ==
  \A k \in DOMAIN e.ring :
    k # 1 => InView(e.screen, e.ring[k], e.text[e.ring[k].buf], e.ring[k].mark)

AllShown(e) == FrontShown(e) /\ OthersShown(e)

LEMMA InViewSame ==
  ASSUME NEW s, NEW w, NEW t, NEW l, InView(s, w, t, l), NEW u, NEW x, x.sy = w.sy, x.rows = w.rows,
         \A r \in RowsOf(w) : u[r].shown = s[r].shown
  PROVE  InView(u, x, t, l)
<1>1. RowsOf(x) = RowsOf(w)
  BY DEF RowsOf
<1> QED
  BY <1>1 DEF InView

LEMMA PlaceOf ==
  ASSUME NEW t, Injective(t), NEW j \in DOMAIN t
  PROVE  Place(t, t[j]) = j
  BY DEF Place, Injective

(* The line of the cursor is in the window when the j-th line comes first. *)
Reaches(e, j) ==
  /\ j \in DOMAIN Text(e) /\ j <= Place(Text(e), CLine(e))
  /\ Place(Text(e), CLine(e)) <= j + JWindow(e).rows - 1

LEMMA ReachesIs ==
  ASSUME NEW e, Shape(e), Texts(e), NEW j, Reaches(e, j)
  PROVE  OnScreen(Text(e), Text(e)[j], CLine(e), JWindow(e).rows)
<1> DEFINE t == Text(e)
           i == Place(t, CLine(e))
           n == JWindow(e).rows
<1>1. i \in DOMAIN t /\ DOMAIN t = 1..Len(t) /\ Len(t) \in Nat
  BY CursorIs
<1>2. Injective(t)
  BY TextIs DEF Texts, Text
<1>3. Place(t, t[j]) = j
  BY <1>2, PlaceOf DEF Reaches
<1>4. n \in Nat
  BY RingIs, RowsAre DEF JWindow
<1>5. j \in DOMAIN t /\ j <= i /\ i <= j + n - 1
  BY DEF Reaches
<1>6. i \in j .. (j + n - 1)
  <2> HIDE DEF i, n, t
  <2> QED
    BY <1>1, <1>4, <1>5
<1> QED
  BY <1>3, <1>6 DEF OnScreen

LEMMA FindTopToRecenterReaches ==
  ASSUME NEW e, Shape(e), Texts(e)
  PROVE  \E j : Reaches(e, j) /\ FindTopToRecenter(e) = Text(e)[j]
<1> DEFINE t == Text(e)
           i == Place(t, CLine(e))
           n == JWindow(e).rows
           m == n \div 2
           j == IF i > m THEN i - m ELSE 1
<1>1. i \in DOMAIN t /\ DOMAIN t = 1..Len(t) /\ Len(t) \in Nat
  BY CursorIs
<1>2. n \in Nat /\ n >= 2
  BY RingIs, RowsAre DEF JWindow
<1>3. FindTopToRecenter(e) = t[j]
  BY DEF FindTopToRecenter
<1> HIDE DEF n, i, t
<1>4. m \in Nat /\ m <= n - 1
  BY <1>2
<1> HIDE DEF m
<1>5. j \in DOMAIN t /\ j <= i /\ i <= j + n - 1
  BY <1>1, <1>2, <1>4
<1> HIDE DEF j
<1>6. Reaches(e, j)
  BY <1>5 DEF Reaches, i, n, t
<1> QED
  BY <1>3, <1>6 DEF t

LEMMA FindTopReaches ==
  ASSUME NEW e, Shape(e), Texts(e)
  PROVE  \E j : Reaches(e, j) /\ FindTop(e) = Text(e)[j]
<1> DEFINE t == Text(e)
           n == JWindow(e).rows
           i == Place(t, CLine(e))
           top == e.screen[JWindow(e).sy].line
           above == {j \in DOMAIN t : j <= i /\ j > i - n /\ t[j] = top}
<1>1. i \in DOMAIN t /\ DOMAIN t = 1..Len(t) /\ Len(t) \in Nat /\ t[i] = CLine(e)
  BY CursorIs
<1>2. n \in Nat /\ n >= 2
  BY RingIs, RowsAre DEF JWindow
<1>3. \/ FindTop(e) = CLine(e) \/ FindTop(e) = FindTopToRecenter(e)
      \/ FindTop(e) = top /\ above # {}
      \/ n > 1 /\ FindTop(e) = t[i - n + 1] /\ i >= n
  <2>1. (n <= 1) \/ n > 1
    BY <1>2
  <2> QED
    BY <2>1 DEF FindTop
<1>4. CASE FindTop(e) = CLine(e)
  <2> HIDE DEF i, n, t
  <2>1. i \in DOMAIN t /\ i <= i /\ i <= i + n - 1
    BY <1>1, <1>2
  <2>2. Reaches(e, i)
    BY <2>1 DEF Reaches, i, n, t
  <2> QED
    BY <1>1, <1>4, <2>2 DEF t
<1>5. CASE FindTop(e) = FindTopToRecenter(e)
  BY <1>5, FindTopToRecenterReaches
<1>6. CASE FindTop(e) = top /\ above # {}
  <2>1. PICK j \in DOMAIN t : j <= i /\ j > i - n /\ t[j] = top
    BY <1>6
  <2> HIDE DEF i, n, t, top
  <2>2. i <= j + n - 1
    BY <1>1, <1>2, <2>1
  <2>3. Reaches(e, j)
    BY <2>1, <2>2 DEF Reaches, i, n, t
  <2> QED
    BY <1>6, <2>1, <2>3 DEF t
<1>7. CASE n > 1 /\ FindTop(e) = t[i - n + 1] /\ i >= n
  <2> DEFINE j == i - n + 1
  <2>1. FindTop(e) = t[j]
    BY <1>7
  <2> HIDE DEF i, n, t
  <2>2. j \in DOMAIN t /\ j <= i /\ i <= j + n - 1
    BY <1>1, <1>2, <1>7
  <2> HIDE DEF j
  <2>3. Reaches(e, j)
    BY <2>2 DEF Reaches, i, n, t
  <2> QED
    BY <2>1, <2>3 DEF t
<1> QED
  BY <1>3, <1>4, <1>5, <1>6, <1>7

LEMMA FindTopOnScreen ==
  ASSUME NEW e, Shape(e), Texts(e)
  PROVE  OnScreen(Text(e), FindTop(e), CLine(e), JWindow(e).rows)
  BY FindTopReaches, ReachesIs

(* The window in use has been drawn, and the others are as they were.      *)
Drew(e, f) ==
  /\ FrontShown(f) /\ (OthersShown(e) => OthersShown(f))
  /\ f.astray = e.astray

LEMMA DrawShows ==
  ASSUME NEW e, InUse(e), ~e.suspend, NEW top \in LinesOf(e, e.cbuf),
         OnScreen(Text(e), top, CLine(e), JWindow(e).rows)
  PROVE  Drew(e, Draw(e, top))
<1> DEFINE w == JWindow(e)
           t == Text(e)
           b == e.cbuf
           i == Place(t, top)
           Due(r) == IF i + r - w.sy \in DOMAIN t THEN t[i + r - w.sy] ELSE None
           Drawn(r) == [line |-> Due(r), mod |-> FALSE, shown |-> IF Due(r) = None THEN Blank ELSE Due(r)]
           Needed(r) == r \in RowsOf(w) /\ (e.screen[r].mod \/ e.screen[r].line # Due(r))
           x == [w EXCEPT !.beg = top]
           s == [e.ring EXCEPT ![1] = x]
           d == [r \in DOMAIN e.screen |-> IF Needed(r) THEN Drawn(r) ELSE e.screen[r]]
           v == e.astray \/ ~OnScreen(t, top, CLine(e), w.rows)
           n == Len(e.ring)
           f == Draw(e, top)
<1>1. /\ Sound(e) /\ Shape(e) /\ Texts(e) /\ Clean(e) /\ e \in Editor(e.height)
      /\ e.cbuf = JWindow(e).buf
  BY SoundShape DEF Sound, InUse
<1>2. b \in Buffers /\ t \in Seq(Lines) /\ DOMAIN t = 1..Len(t)
      /\ \A j \in DOMAIN t : t[j] \in LinesOf(e, b) /\ t[j] \in Lines
  BY <1>1, CursorIs, TextIs
<1>3. n \in {1, 2} /\ DOMAIN e.ring = 1..n /\ 1 \in DOMAIN e.ring /\ e.ring[1] \in Window
  BY <1>1, RingIs
<1>4. w = e.ring[1] /\ w \in Window /\ w.buf = b
  BY <1>1, <1>3 DEF JWindow
<1>5. i \in DOMAIN t /\ t[i] = top
  <2>1. top \in LinesIn(t)
    BY DEF LinesOf, LinesIn, Text
  <2> QED
    BY ONLY <1>2, <2>1, PlaceIs
<1>6. None \notin Lines
  BY DisplayAssumption
<1>7. ASSUME NEW r
      PROVE  Drawn(r).shown = IF i + r - w.sy \in DOMAIN t THEN t[i + r - w.sy] ELSE Blank
  <2>1. Drawn(r).shown = IF Due(r) = None THEN Blank ELSE Due(r)
    OBVIOUS
  <2>2. i + r - w.sy \in DOMAIN t => t[i + r - w.sy] # None
    BY <1>2, <1>6
  <2> QED
    BY <2>1, <2>2
<1>8. DOMAIN e.screen = 0..e.height - 1 /\ e.astray \in BOOLEAN
  BY <1>1 DEF Editor
<1>9. x.sy = w.sy /\ x.rows = w.rows /\ x.buf = w.buf /\ x.mark = w.mark
  BY <1>4 DEF Window
<1>10. DOMAIN s = DOMAIN e.ring /\ \A k \in DOMAIN e.ring : s[k] = IF k = 1 THEN x ELSE e.ring[k]
  BY <1>3
<1>11. /\ f.ring = s /\ f.screen = d /\ f.text = e.text /\ f.at = e.at /\ f.astray = v
  <2> DEFINE g == WithDrawing(e, s, d, v)
  <2>1. f = g
    BY <1>4 DEF Draw, WithDrawing, JWindow
  <2> HIDE DEF s, d, v, f
  <2>2. g.ring = s /\ g.screen = d /\ g.text = e.text /\ g.at = e.at /\ g.astray = v
    BY <1>1 DEF WithDrawing, Editor
  <2> QED
    BY <2>1, <2>2
<1>12. f.astray = e.astray
  BY <1>8, <1>11
<1>13. JWindow(f) = x
  BY <1>3, <1>10, <1>11 DEF JWindow
<1> HIDE DEF f, x, s, Drawn, i, v
<1>14. ASSUME NEW r \in RowsOf(w)
       PROVE  f.screen[r].shown = IF i + r - w.sy \in DOMAIN t THEN t[i + r - w.sy] ELSE Blank
  <2>1. r \in 0..e.height - 1 /\ Current(e.screen[r], LinesOf(e, b))
    BY <1>1, <1>3, <1>4, RowIs DEF Clean
  <2>2. CASE Needed(r)
    BY <1>7, <1>8, <1>11, <2>1, <2>2
  <2>3. CASE ~Needed(r)
    <3>1. f.screen[r] = e.screen[r] /\ ~e.screen[r].mod /\ e.screen[r].line = Due(r)
      BY <1>8, <1>11, <2>1, <2>3
    <3>2. i + r - w.sy \in DOMAIN t => t[i + r - w.sy] # None
      BY <1>2, <1>6
    <3> QED
      BY <2>1, <3>1, <3>2 DEF Current
  <2> QED
    BY <2>2, <2>3
<1>15. InView(f.screen, w, t, CLine(e))
  BY <1>5, <1>14 DEF InView
<1>16. InView(f.screen, x, t, CLine(e))
  BY ONLY <1>9, <1>15, InViewSame
<1>17. FrontShown(f)
  <2>1. f.text[JWindow(f).buf] = t /\ f.at[JWindow(f).buf] = CLine(e)
    BY <1>4, <1>9, <1>11, <1>13 DEF Text, CLine
  <2> QED
    BY <1>13, <1>16, <2>1 DEF FrontShown
<1>18. ASSUME OthersShown(e) PROVE OthersShown(f)
  <2> SUFFICES ASSUME NEW k \in DOMAIN f.ring, k # 1
               PROVE  InView(f.screen, f.ring[k], f.text[f.ring[k].buf], f.ring[k].mark)
    BY DEF OthersShown
  <2>1. k \in DOMAIN e.ring /\ f.ring[k] = e.ring[k]
    BY <1>10, <1>11
  <2>2. InView(e.screen, e.ring[k], e.text[e.ring[k].buf], e.ring[k].mark)
    BY <1>18, <2>1 DEF OthersShown
  <2>3. RowsOf(e.ring[k]) \cap RowsOf(w) = {}
    BY <1>1, <1>3, <1>4, <2>1, RowsAre
  <2>4. ASSUME NEW r \in RowsOf(e.ring[k]) PROVE f.screen[r].shown = e.screen[r].shown
    <3>1. r \in 0..e.height - 1 /\ r \notin RowsOf(w)
      BY <1>1, <2>1, <2>3, RowIs
    <3> QED
      BY <1>8, <1>11, <3>1
  <2>5. InView(f.screen, e.ring[k], e.text[e.ring[k].buf], e.ring[k].mark)
    BY <2>2, <2>4, InViewSame
  <2> QED
    BY <1>11, <2>1, <2>5
<1> QED
  BY <1>12, <1>17, <1>18 DEF Drew, f

-----------------------------------------------------------------------------
(* What is not the window in use shows its text as before.                 *)

LEMMA AstrayIs ==
  ASSUME NEW e, Sound(e), NEW f, SameAstray(e, f)
  PROVE  f.astray = e.astray
<1>1. e \in Editor(e.height)
  BY SoundShape
<1>2. "astray" \in DOMAIN e
  BY <1>1 DEF Editor
<1> QED
  BY <1>2 DEF SameAstray

(* Where other_window puts the window in use, and the cursor.              *)
LEMMA OtherWindowIs ==
  ASSUME NEW e, Sound(e), NEW n, n = Len(e.ring)
  PROVE  /\ OtherWindow(e).ring[n].sy = JWindow(e).sy /\ OtherWindow(e).ring[n].rows = JWindow(e).rows
         /\ OtherWindow(e).ring[n].buf = JWindow(e).buf
         /\ OtherWindow(e).ring[n].mark = e.at[JWindow(e).buf]
         /\ IF n = 1 THEN OtherWindow(e).at = e.at
            ELSE OtherWindow(e).at[JWindow(OtherWindow(e)).buf] = JWindow(OtherWindow(e)).mark
<1> DEFINE v == JWindow(e)
           l == e.at[v.buf]
           x == [v EXCEPT !.mark = l]
           s == Append(Tail(e.ring), x)
           f == WithRing(e, s)
           g == OtherWindow(e)
<1>1. Loose(e) /\ Shape(e) /\ Texts(e) /\ e \in Editor(e.height)
  BY SoundShape DEF Sound
<1>2. n \in {1, 2} /\ n = Len(e.ring) /\ 1 \in DOMAIN e.ring /\ e.ring \in Seq(Window) /\ v \in Window /\ v.buf \in Live(e)
  BY <1>1, RingIs, WindowIs DEF JWindow
<1>3. l \in Lines
  BY <1>1, <1>2, LiveIs
<1>4. x \in Window /\ x.sy = v.sy /\ x.rows = v.rows /\ x.buf = v.buf /\ x.mark = l
  BY <1>2, <1>3 DEF Window
<1> HIDE DEF v, x, l
<1>5. s \in Seq(Window) /\ Len(s) = n /\ s[n] = x /\ DOMAIN s = 1..n
  BY ONLY <1>2, <1>4, TurnedIs
<1>6. NextWindow(e) = f
  BY DEF NextWindow, f, s, x, l, v, WithRing
<1> HIDE DEF s
<1>7. f \in Editor(e.height) /\ f.ring = s /\ f.at = e.at
  BY <1>1, <1>5, WithRingIs DEF SameRest
<1>8. Turned(e, g)
  BY OtherWindowSound
<1> HIDE DEF f
<1>9. CASE n = 1
  <2>1. g = [f EXCEPT !.cbuf = JWindow(f).buf]
    BY <1>6, <1>9 DEF OtherWindow
  <2> HIDE DEF g
  <2>2. g.ring = s /\ g.at = e.at
    BY <1>7, <2>1 DEF Editor
  <2> QED
    BY <1>4, <1>5, <1>9, <2>2 DEF g, l, v
<1>10. CASE n # 1
  <2> DEFINE c == JWindow(f).buf
             m == JWindow(f).mark
  <2>1. g = [f EXCEPT !.cbuf = c, !.at[c] = m]
    BY <1>6, <1>10 DEF OtherWindow
  <2>2. JWindow(f) \in Window
    BY <1>2, <1>5, <1>7, <1>10 DEF JWindow
  <2>3. c \in Buffers /\ f.at \in [Buffers -> Lines \cup {None}]
    BY <1>7, <2>2 DEF Editor, Window
  <2> HIDE DEF g, c, m
  <2>4. g.ring = s /\ g.at = [f.at EXCEPT ![c] = m]
    BY <1>7, <2>1 DEF Editor
  <2>5. JWindow(g) = JWindow(f)
    BY <1>7, <2>4 DEF JWindow
  <2>6. g.at[JWindow(g).buf] = JWindow(g).mark
    BY <2>3, <2>4, <2>5 DEF c, m
  <2> QED
    BY <1>4, <1>5, <1>10, <2>4, <2>6 DEF g, l, v
<1> QED
  BY <1>9, <1>10

(* The window drawn is the last one then.                                  *)
LEMMA OtherWindowShows ==
  ASSUME NEW e, Sound(e), FrontShown(e)
  PROVE  /\ OthersShown(OtherWindow(e)) /\ (OthersShown(e) => FrontShown(OtherWindow(e)))
         /\ OtherWindow(e).astray = e.astray
<1> DEFINE f == OtherWindow(e)
           n == Len(e.ring)
           v == JWindow(e)
           x == f.ring[n]
<1>1. Turned(e, f)
  BY OtherWindowSound
<1>2. x.sy = v.sy /\ x.rows = v.rows /\ x.buf = v.buf /\ x.mark = e.at[v.buf]
      /\ (IF n = 1 THEN f.at = e.at ELSE f.at[JWindow(f).buf] = JWindow(f).mark)
  BY OtherWindowIs
<1>3. f.astray = e.astray
  BY OtherAstray, AstrayIs
<1> HIDE DEF f
<1>4. n \in {1, 2} /\ DOMAIN e.ring = 1..n /\ DOMAIN f.ring = 1..n /\ f.screen = e.screen /\ f.text = e.text
  BY <1>1, SoundShape, RingIs DEF Turned
<1>5. InView(e.screen, v, e.text[v.buf], e.at[v.buf])
  BY DEF FrontShown
<1> HIDE DEF v, x
<1>6. InView(f.screen, x, f.text[x.buf], x.mark)
  <2>1. InView(e.screen, x, e.text[v.buf], e.at[v.buf])
    BY <1>2, <1>5, InViewSame
  <2> QED
    BY <1>2, <1>4, <2>1
<1>7. OthersShown(f)
  <2> SUFFICES ASSUME NEW k \in DOMAIN f.ring, k # 1
               PROVE  InView(f.screen, f.ring[k], f.text[f.ring[k].buf], f.ring[k].mark)
    BY DEF OthersShown
  <2>1. f.ring[k] = x
    BY <1>4 DEF x
  <2> QED
    BY <1>6, <2>1
<1>8. ASSUME OthersShown(e) PROVE FrontShown(f)
  <2>1. CASE n = 1
    <3>1. JWindow(f) = x /\ f.at[x.buf] = x.mark
      BY <1>2, <2>1 DEF JWindow, x
    <3> QED
      BY <1>6, <3>1 DEF FrontShown
  <2>2. CASE n = 2
    <3>1. JWindow(f) = e.ring[2] /\ 2 \in DOMAIN e.ring
      BY <1>1, <1>4, <2>2 DEF Turned
    <3>2. InView(e.screen, e.ring[2], e.text[e.ring[2].buf], e.ring[2].mark)
      BY <1>8, <3>1 DEF OthersShown
    <3>3. f.at[JWindow(f).buf] = JWindow(f).mark
      BY <1>2, <2>2
    <3> QED
      BY <1>4, <3>1, <3>2, <3>3 DEF FrontShown
  <2> QED
    BY <1>4, <2>1, <2>2
<1> QED
  BY <1>3, <1>7, <1>8 DEF f

(* Windows of the same rooms, texts and cursors, on the same rows.         *)
SameViews(e, f) ==
  /\ f.text = e.text /\ f.at = e.at /\ f.screen = e.screen /\ 1 \in DOMAIN e.ring /\ DOMAIN f.ring = DOMAIN e.ring
  /\ \A k \in DOMAIN e.ring :
       /\ f.ring[k].sy = e.ring[k].sy /\ f.ring[k].rows = e.ring[k].rows /\ f.ring[k].buf = e.ring[k].buf
       /\ k = 1 \/ f.ring[k].mark = e.ring[k].mark

LEMMA SameViewsShow ==
  ASSUME NEW e, NEW f, SameViews(e, f)
  PROVE  (FrontShown(e) => FrontShown(f)) /\ (OthersShown(e) => OthersShown(f))
<1>1. ASSUME FrontShown(e) PROVE FrontShown(f)
  <2>1. InView(e.screen, JWindow(e), e.text[JWindow(e).buf], e.at[JWindow(e).buf])
    BY <1>1 DEF FrontShown
  <2>2. JWindow(f).sy = JWindow(e).sy /\ JWindow(f).rows = JWindow(e).rows /\ JWindow(f).buf = JWindow(e).buf
    BY DEF SameViews, JWindow
  <2>3. InView(e.screen, JWindow(f), e.text[JWindow(e).buf], e.at[JWindow(e).buf])
    BY <2>1, <2>2, InViewSame
  <2> QED
    BY <2>2, <2>3 DEF FrontShown, SameViews
<1>2. ASSUME OthersShown(e), NEW k \in DOMAIN f.ring, k # 1
      PROVE  InView(f.screen, f.ring[k], f.text[f.ring[k].buf], f.ring[k].mark)
  <2>1. k \in DOMAIN e.ring
    BY DEF SameViews
  <2>2. InView(e.screen, e.ring[k], e.text[e.ring[k].buf], e.ring[k].mark)
    BY <1>2, <2>1 DEF OthersShown
  <2>3. f.ring[k].sy = e.ring[k].sy /\ f.ring[k].rows = e.ring[k].rows /\ f.ring[k].buf = e.ring[k].buf
        /\ f.ring[k].mark = e.ring[k].mark
    BY <1>2, <2>1 DEF SameViews
  <2>4. InView(e.screen, f.ring[k], e.text[e.ring[k].buf], e.ring[k].mark)
    BY <2>2, <2>3, InViewSame
  <2> QED
    BY <2>3, <2>4 DEF SameViews
<1> QED
  BY <1>1, <1>2 DEF OthersShown

-----------------------------------------------------------------------------
(* An update draws the other windows first.                                *)

LEMMA WithRingShows ==
  ASSUME NEW e, Shape(e), NEW x \in Window, NEW s, s = [e.ring EXCEPT ![1] = x],
         x.sy = JWindow(e).sy, x.rows = JWindow(e).rows, x.buf = JWindow(e).buf
  PROVE  SameViews(e, WithRing(e, s)) /\ WithRing(e, s).astray = e.astray
<1> DEFINE f == WithRing(e, s)
<1>1. e \in Editor(e.height) /\ e.ring \in Seq(Window) /\ 1 \in DOMAIN e.ring /\ DOMAIN e.ring = 1..Len(e.ring)
  BY ShapeEditor, RingIs
<1>2. /\ s \in Seq(Window) /\ DOMAIN s = DOMAIN e.ring
      /\ \A k \in DOMAIN e.ring : s[k] = IF k = 1 THEN x ELSE e.ring[k]
  BY <1>1
<1>3. f.ring = s /\ f.screen = e.screen /\ SameRest(e, f)
  BY ONLY <1>1, <1>2, WithRingIs
<1> HIDE DEF f
<1>4. ASSUME NEW k \in DOMAIN e.ring
      PROVE  /\ f.ring[k].sy = e.ring[k].sy /\ f.ring[k].rows = e.ring[k].rows /\ f.ring[k].buf = e.ring[k].buf
             /\ k = 1 \/ f.ring[k].mark = e.ring[k].mark
  BY <1>2, <1>3 DEF JWindow
<1>5. SameViews(e, f) /\ f.astray = e.astray
  BY <1>1, <1>2, <1>3, <1>4 DEF SameViews, SameRest
<1> QED
  BY <1>5 DEF f

LEMMA Next1Shows ==
  ASSUME NEW e, Sound(e), Begun(e), FrontShown(e)
  PROVE  /\ OthersShown(Next1(e)) /\ (OthersShown(e) => FrontShown(Next1(e)))
         /\ Next1(e).astray = e.astray
<1> DEFINE v == FALSE
           x == [e.ring[1] EXCEPT !.trashed = v]
           s == [e.ring EXCEPT ![1] = x]
           d == WithRing(e, s)
<1>1. v \in BOOLEAN /\ Shape(e) /\ e.ring[1] \in Window
  BY SoundShape, RingIs
<1>2. d = [e EXCEPT !.ring[1].trashed = v]
  BY DEF WithRing
<1>3. Next1(e) = OtherWindow(d)
  BY <1>2 DEF Next1
<1> HIDE DEF v
<1>4. x \in Window /\ x.sy = JWindow(e).sy /\ x.rows = JWindow(e).rows /\ x.buf = JWindow(e).buf
  BY <1>1 DEF Window, JWindow
<1>5. Sound(d)
  BY <1>1, <1>2, UntrashedSound
<1> HIDE DEF x
<1>6. SameViews(e, d) /\ d.astray = e.astray
  BY <1>1, <1>4, WithRingShows
<1> HIDE DEF d
<1>7. Sound(d) /\ FrontShown(d) /\ (OthersShown(e) => OthersShown(d))
  BY <1>5, <1>6, SameViewsShow
<1> QED
  BY <1>3, <1>6, <1>7, OtherWindowShows

(* The first line to be drawn, if it is given, is one from which the line  *)
(* of the cursor is reached.                                               *)
TopFits(e, top) ==
  /\ top \in LinesOf(e, JWindow(e).buf) \cup {None}
  /\ top # None /\ e.cbuf = JWindow(e).buf => OnScreen(Text(e), top, CLine(e), JWindow(e).rows)

(* JWindow shows the buffer in use, and unless it is to be drawn, every    *)
(* window shows its text.                                                  *)
Fit(e) == e.cbuf = JWindow(e).buf /\ (JWindow(e).trashed \/ AllShown(e))

(* Drawing all the windows, or giving it up.                               *)
LEMMA DrawWindowsShow ==
  ASSUME NEW e, InUse(e), ~e.suspend, NEW top, TopFits(e, top), NEW stop
  PROVE  /\ DrawWindows(e, top, stop).astray = e.astray /\ Fit(DrawWindows(e, top, stop))
         /\ stop = Len(e.ring) + 1 => AllShown(DrawWindows(e, top, stop))
<1> DEFINE l == IF top # None THEN top ELSE FindTop(e)
           first == Draw(e, l)
           other == Next1(first)
           m == FindTop(other)
           both == Draw(other, m)
           third == OtherWindow(both)
           last == Next1(both)
<1>1. Sound(e) /\ Shape(e) /\ Texts(e) /\ e.cbuf = JWindow(e).buf
  BY SoundShape DEF InUse
<1>2. l \in LinesOf(e, e.cbuf) /\ OnScreen(Text(e), l, CLine(e), JWindow(e).rows)
  BY <1>1, FindTopIs, FindTopOnScreen DEF TopFits
<1>3. DrawWindows(e, top, stop) =
        IF stop = 1 THEN Trashed(first, {1})
        ELSE IF Len(e.ring) = 1 THEN other
        ELSE IF stop = 2 THEN Trashed(third, {1}) ELSE last
  BY DEF DrawWindows, Next1
<1> HIDE DEF l
<1>4. InUse(first) /\ Stays(e, first) /\ Drew(e, first) /\ Begun(first)
  BY <1>2, DrawInUse, DrawShows
<1> HIDE DEF first
<1>5. InUse(other) /\ Stays(e, other) /\ OthersShown(other) /\ other.astray = e.astray
      /\ (OthersShown(first) => FrontShown(other))
  BY <1>4, Next1InUse, Next1Shows, StaysThen DEF InUse, Drew
<1> HIDE DEF other
<1>6. m \in LinesOf(other, other.cbuf) /\ OnScreen(Text(other), m, CLine(other), JWindow(other).rows)
      /\ ~other.suspend
  BY <1>5, SoundShape, FindTopIs, FindTopOnScreen DEF InUse, Stays
<1> HIDE DEF m
<1>7. InUse(both) /\ Stays(e, both) /\ Drew(other, both) /\ Begun(both)
  BY <1>5, <1>6, DrawInUse, DrawShows, StaysThen
<1> HIDE DEF both
<1>8. FrontShown(both) /\ OthersShown(both) /\ both.astray = e.astray /\ Sound(both)
  BY <1>5, <1>7 DEF Drew, InUse
<1>9. InUse(third) /\ third.astray = e.astray
  BY <1>8, OtherWindowSound, OtherWindowShows DEF InUse, Turned
<1> HIDE DEF third
<1>10. InUse(last) /\ AllShown(last) /\ last.astray = e.astray
  BY <1>7, <1>8, Next1InUse, Next1Shows DEF AllShown
<1> HIDE DEF last
<1>11. ASSUME Len(e.ring) = 1 PROVE AllShown(other)
  <2>1. DOMAIN first.ring = {1}
    BY <1>4, <1>11, RingIs, SoundShape DEF InUse, Stays
  <2>2. OthersShown(first)
    BY <2>1 DEF OthersShown
  <2> QED
    BY <1>5, <2>2 DEF AllShown
<1>12. ASSUME NEW g, InUse(g), g.astray = e.astray
       PROVE  Trashed(g, {1}).astray = e.astray /\ Fit(Trashed(g, {1}))
  <2>1. InUse(Trashed(g, {1})) /\ JWindow(Trashed(g, {1})).trashed
    BY <1>12, StoppingInUse, TrashedTrashes, SoundShape DEF InUse
  <2>2. Trashed(g, {1}).astray = g.astray
    BY <1>12, MarkingAstray, AstrayIs DEF InUse
  <2> QED
    BY <1>12, <2>1, <2>2 DEF Fit, InUse
<1>13. Len(e.ring) \in {1, 2}
  BY <1>1, RingIs
<1>14. first.astray = e.astray
  BY <1>4 DEF Drew
<1>15. CASE stop = 1
  BY <1>3, <1>4, <1>12, <1>13, <1>14, <1>15
<1>16. CASE stop # 1 /\ Len(e.ring) = 1
  BY <1>3, <1>5, <1>11, <1>16 DEF Fit, InUse
<1>17. CASE stop = 2 /\ Len(e.ring) = 2
  BY <1>3, <1>9, <1>12, <1>17
<1>18. CASE stop \notin {1, 2} /\ Len(e.ring) = 2
  BY <1>3, <1>10, <1>18 DEF Fit, InUse
<1> QED
  BY <1>13, <1>15, <1>16, <1>17, <1>18

-----------------------------------------------------------------------------
(* update: the window in use, and what is drawn only if no key waits.      *)

(* f is e with the window in use to be drawn, or e itself.                 *)
Onward(e, f) ==
  /\ f.text = e.text /\ f.at = e.at /\ f.cbuf = e.cbuf /\ f.astray = e.astray
  /\ SameView(JWindow(f), JWindow(e))
  /\ f = e \/ JWindow(f).trashed

LEMMA OnwardFits ==
  ASSUME NEW e, NEW f, Onward(e, f)
  PROVE  /\ Fit(e) => Fit(f)
         /\ \A top : TopFits(e, top) => TopFits(f, top)
         /\ e.cbuf = JWindow(e).buf => f.cbuf = JWindow(f).buf
<1>1. ASSUME Fit(e) PROVE Fit(f)
  BY <1>1 DEF Onward, Fit, SameView
<1>2. ASSUME NEW top, TopFits(e, top) PROVE TopFits(f, top)
  BY <1>2 DEF Onward, TopFits, SameView, LinesOf, Text, CLine
<1>3. e.cbuf = JWindow(e).buf => f.cbuf = JWindow(f).buf
  BY DEF Onward, SameView
<1> QED
  BY <1>1, <1>2, <1>3

LEMMA OnwardThen == ASSUME NEW e, NEW f, NEW g, Onward(e, f), Onward(f, g) PROVE Onward(e, g)
  BY DEF Onward, SameView

LEMMA OnwardSelf == ASSUME NEW e PROVE Onward(e, e)
  BY DEF Onward, SameView

LEMMA TouchedOnward ==
  ASSUME NEW e, Sound(e), NEW f, Touched(e, f), SameAstray(e, f), f = e \/ JWindow(f).trashed
  PROVE  Onward(e, f)
<1>1. f.astray = e.astray /\ 1 \in DOMAIN e.ring
  BY AstrayIs, SoundShape, RingIs
<1> QED
  BY <1>1 DEF Onward, Touched, JWindow

LEMMA TrashedOnward ==
  ASSUME NEW e, Sound(e), NEW ks, 1 \in ks
  PROVE  Onward(e, Trashed(e, ks))
  BY SoundShape, TrashedTouched, TrashedTrashes, MarkingAstray, TouchedOnward

LEMMA TouchScreenOnward == ASSUME NEW e, Sound(e) PROVE Onward(e, TouchScreen(e))
<1>1. Shape(e) /\ Touched(e, TouchScreen(e)) /\ SameAstray(e, TouchScreen(e)) /\ 1 \in DOMAIN e.ring
  BY SoundShape, TouchScreenTouched, TouchesAstray, RingIs
<1>2. TouchScreen(e) = e \/ JWindow(TouchScreen(e)).trashed
  <2> DEFINE f == Marked(e, WindowRows(e))
  <2>1. Shape(f) /\ f.ring = e.ring
    BY <1>1, MarkedTouched, MarkedIs, TouchedShape, ShapeEditor
  <2> HIDE DEF f
  <2>2. JWindow(Trashed(f, DOMAIN e.ring)).trashed
    BY <1>1, <2>1, TrashedTrashes
  <2> QED
    BY <2>2 DEF TouchScreen, f
<1> QED
  BY <1>1, <1>2, TouchedOnward

LEMMA RegisterChangeTrashes ==
  ASSUME NEW e, Shape(e), ~e.suspend, NEW l
  PROVE  JWindow(RegisterChange(e, l)).trashed
<1> DEFINE at == RowsWith(e, l)
           f == Marked(e, at)
           ks == {k \in DOMAIN e.ring : k = 1 \/ RowsOf(e.ring[k]) \cap at # {}}
<1>1. Shape(f) /\ f.ring = e.ring /\ 1 \in ks
  BY MarkedTouched, MarkedIs, TouchedShape, ShapeEditor, RingIs
<1>2. RegisterChange(e, l) = Trashed(f, ks)
  BY DEF RegisterChange
<1> HIDE DEF f, ks
<1> QED
  BY <1>1, <1>2, TrashedTrashes

LEMMA SetHScrollOnward == ASSUME NEW e, Sound(e), ~e.suspend PROVE Onward(e, SetHScroll(e))
<1> DEFINE f == IF e.last = None THEN e ELSE RegisterChange(e, e.last)
           g == RegisterChange(f, CLine(e))
           h == [g EXCEPT !.last = CLine(e)]
<1>1. Shape(e) /\ Texts(e) /\ Touched(e, SetHScroll(e)) /\ SameAstray(e, SetHScroll(e))
  BY SoundShape, SetHScrollTouched, TouchesAstray
<1>2. Shape(f) /\ ~f.suspend
  BY <1>1, RegisterChangeTouched, TouchedShape DEF Touched
<1>3. SetHScroll(e) = IF WantsHScroll THEN h ELSE e
  BY DEF SetHScroll
<1> HIDE DEF f
<1>4. JWindow(g).trashed /\ Touched(f, g)
  BY <1>2, RegisterChangeTrashes, RegisterChangeTouched
<1>5. g \in Editor(g.height)
  BY <1>2, <1>4, TouchedShape, ShapeEditor
<1> HIDE DEF g
<1>6. h.ring = g.ring
  BY <1>5 DEF Editor
<1>7. SetHScroll(e) = e \/ JWindow(SetHScroll(e)).trashed
  BY <1>3, <1>4, <1>6 DEF JWindow
<1> QED
  BY <1>1, <1>7, TouchedOnward

LEMMA ResumedOnward == ASSUME NEW e, Sound(e) PROVE Onward(e, Resumed(e))
<1>1. CASE ~e.suspend
  BY <1>1, OnwardSelf DEF Resumed
<1>2. CASE e.suspend
  <2> DEFINE v == FALSE
             d == [e EXCEPT !.suspend = v]
             f == Resumed(e)
  <2>1. ~v /\ v \in BOOLEAN /\ e \in Editor(e.height) /\ 1 \in DOMAIN e.ring
    BY SoundShape, RingIs
  <2>2. f = TouchScreen(d)
    BY <1>2 DEF Resumed
  <2> HIDE DEF v
  <2>3. d \in Editor(d.height) /\ ~d.suspend /\ d.height = e.height /\ d.ring = e.ring
    BY <2>1 DEF Editor
  <2>4. Shape(d)
    BY <2>3, SoundShape DEF Shape
  <2> HIDE DEF d
  <2>5. JWindow(f).trashed
    <3> DEFINE g == Marked(d, WindowRows(d))
    <3>1. Shape(g) /\ g.ring = d.ring
      BY <2>3, <2>4, MarkedTouched, MarkedIs, TouchedShape
    <3>2. f = Trashed(g, DOMAIN d.ring)
      BY <2>2, <2>3 DEF TouchScreen
    <3> HIDE DEF g
    <3> QED
      BY <2>1, <2>3, <3>1, <3>2, TrashedTrashes
  <2>6. f.cbuf = e.cbuf /\ f.at = e.at /\ f.text = e.text /\ SameView(JWindow(f), JWindow(e))
    BY <2>1, ResumedSound DEF JWindow
  <2>7. f.astray = e.astray
    BY TouchesAstray, AstrayIs
  <2> QED
    BY <2>5, <2>6, <2>7 DEF Onward
<1> QED
  BY <1>1, <1>2

(* What an update promises: whatever it draws has the line of the cursor,  *)
(* and if it is forced it is drawn.                                        *)
Updated(e, f, force) ==
  /\ f.astray = e.astray
  /\ Fit(e) => Fit(f) /\ (force => AllShown(f))

LEMMA Update1Shows ==
  ASSUME NEW e, Sound(e), ~e.suspend, NEW top, TopFits(e, top), NEW c
  PROVE  Updated(e, Update1(e, top, c), c.force)
<1> DEFINE x == [e.ring[1] EXCEPT !.mark = CLine(e)]
           s == [e.ring EXCEPT ![1] = x]
           f == WithRing(e, s)
           stop == IF c.force \/ c.stop > Len(e.ring) THEN Len(e.ring) + 1 ELSE c.stop
           g == DrawWindows(f, top, stop)
           u == Update1(e, top, c)
<1>0. f = [e EXCEPT !.ring[1].mark = CLine(e)]
  BY DEF WithRing
<1>1. CASE e.cbuf # JWindow(e).buf
  BY <1>1 DEF Update1, Updated, Fit
<1>2. CASE e.cbuf = JWindow(e).buf
  <2>1. InUse(e) /\ Shape(e) /\ Texts(e) /\ e \in Editor(e.height)
    BY <1>2, SoundShape DEF InUse
  <2>2. InUse(f) /\ Stays(e, f) /\ f.cbuf = e.cbuf
    BY <1>0, <2>1, CursorMarkedInUse
  <2>3. \/ u = e /\ ~c.force
        \/ u = f /\ ~JWindow(e).trashed
        \/ u = g
    BY <1>0, <1>2 DEF Update1
  <2>4. c.force => stop = Len(e.ring) + 1
    OBVIOUS
  <2>5. e.ring[1] \in Window /\ CLine(e) \in Lines
    BY <2>1, RingIs, TextIs
  <2>6. x \in Window /\ x.sy = JWindow(e).sy /\ x.rows = JWindow(e).rows /\ x.buf = JWindow(e).buf
    BY <2>5 DEF Window, JWindow
  <2> HIDE DEF x, stop, u
  <2>7. SameViews(e, f) /\ f.astray = e.astray
    BY <2>1, <2>6, WithRingShows
  <2> HIDE DEF f
  <2>8. ~f.suspend /\ Len(f.ring) = Len(e.ring)
    BY <2>2 DEF Stays
  <2>9. TopFits(f, top)
    <3>1. f.text = e.text /\ f.at = e.at /\ JWindow(f).buf = JWindow(e).buf /\ JWindow(f).rows = JWindow(e).rows
      BY <2>7 DEF SameViews, JWindow
    <3> QED
      BY <2>2, <3>1 DEF TopFits, LinesOf, Text, CLine
  <2>10. g.astray = e.astray /\ Fit(g) /\ (c.force => AllShown(g))
    <3>1. DrawWindows(f, top, stop).astray = f.astray /\ Fit(DrawWindows(f, top, stop))
          /\ (stop = Len(f.ring) + 1 => AllShown(DrawWindows(f, top, stop)))
      BY <2>2, <2>8, <2>9, DrawWindowsShow
    <3> QED
      BY <2>4, <2>7, <2>8, <3>1
  <2> HIDE DEF g
  <2>11. ASSUME Fit(e), ~JWindow(e).trashed PROVE Fit(f) /\ AllShown(f)
    <3>1. AllShown(f)
      BY <2>7, <2>11, SameViewsShow DEF Fit, AllShown
    <3> QED
      BY <2>2, <3>1 DEF Fit, InUse
  <2> QED
    BY <2>3, <2>7, <2>10, <2>11 DEF Updated, u
<1> QED
  BY <1>1, <1>2

LEMMA UpdateShows ==
  ASSUME NEW e, Sound(e), NEW top, TopFits(e, top), NEW c
  PROVE  Updated(e, Update(e, top, c), c.force)
<1> DEFINE f == Resumed(e)
           g == SetHScroll(f)
           h == Update1(g, top, c)
           q == Trashed(e, {1})
<1>1. Sound(f) /\ ~f.suspend /\ Onward(e, f)
  BY ResumedSound, ResumedOnward
<1> HIDE DEF f
<1>2. Touched(f, g) /\ Onward(f, g)
  BY <1>1, SoundShape, SetHScrollTouched, SetHScrollOnward
<1>3. Sound(g) /\ ~g.suspend
  BY <1>1, <1>2, TouchedInUse DEF Stays
<1> HIDE DEF g
<1>4. Onward(e, g)
  BY <1>1, <1>2, OnwardThen
<1>5. TopFits(g, top) /\ (Fit(e) => Fit(g)) /\ g.astray = e.astray
  BY <1>4, OnwardFits DEF Onward
<1>6. Updated(g, h, c.force)
  BY <1>3, <1>5, Update1Shows
<1> HIDE DEF h
<1>7. Updated(e, h, c.force)
  BY <1>5, <1>6 DEF Updated
<1>8. Onward(e, q)
  BY TrashedOnward
<1>9. q.astray = e.astray /\ (Fit(e) => Fit(q))
  BY <1>8, OnwardFits DEF Onward
<1>10. Update(e, top, c) = IF c.input /\ ~c.force THEN q ELSE h
  BY DEF Update, f, g, h
<1> HIDE DEF q
<1> QED
  BY <1>7, <1>9, <1>10 DEF Updated

LEMMA NothingFits == ASSUME NEW e PROVE TopFits(e, None)
  BY DEF TopFits

(* sys_getkey draws what is left to draw.                                  *)
LEMMA WaitingShows ==
  ASSUME NEW e, Sound(e), Fit(e)
  PROVE  Fit(Waiting(e)) /\ AllShown(Waiting(e)) /\ Waiting(e).astray = e.astray
<1> DEFINE c == Undisturbed
           u == Update(e, None, c)
<1>1. c.force
  BY DEF Undisturbed
<1>2. Waiting(e) = IF JWindow(e).trashed THEN u ELSE e
  BY DEF Waiting
<1> HIDE DEF c
<1>3. Updated(e, u, c.force)
  BY NothingFits, UpdateShows
<1> QED
  BY <1>1, <1>2, <1>3 DEF Updated, Fit

-----------------------------------------------------------------------------
(* What an update leaves of the windows and of the buffer in use.          *)

HasFocus(e) ==
  "ring" \in DOMAIN e /\ "cbuf" \in DOMAIN e /\ 1 \in DOMAIN e.ring /\ "buf" \in DOMAIN e.ring[1]

(* The window in use shows the same buffer, and the same buffer is in use. *)
SameFocus(e, f) == HasFocus(e) => HasFocus(f) /\ f.ring[1].buf = e.ring[1].buf /\ f.cbuf = e.cbuf

LEMMA FocusThen == ASSUME NEW e, NEW f, NEW g, SameFocus(e, f), SameFocus(f, g) PROVE SameFocus(e, g)
  BY DEF SameFocus

LEMMA FocusIs ==
  ASSUME NEW e, Sound(e), NEW f, SameFocus(e, f)
  PROVE  JWindow(f).buf = JWindow(e).buf /\ f.cbuf = e.cbuf
<1>1. e \in Editor(e.height) /\ 1 \in DOMAIN e.ring /\ e.ring[1] \in Window
  BY SoundShape, RingIs
<1>2. HasFocus(e)
  BY <1>1 DEF Editor, Window, HasFocus
<1> QED
  BY <1>2 DEF SameFocus, JWindow

LEMMA FieldsFocus ==
  ASSUME NEW e, NEW v
  PROVE  /\ SameFocus(e, [e EXCEPT !.screen = v]) /\ SameFocus(e, [e EXCEPT !.suspend = v])
         /\ SameFocus(e, [e EXCEPT !.motion = v]) /\ SameFocus(e, [e EXCEPT !.last = v])
  BY DEF SameFocus, HasFocus

LEMMA MarkingFocus ==
  ASSUME NEW e
  PROVE  /\ \A rows : SameFocus(e, Marked(e, rows)) /\ SameFocus(e, Forgotten(e, rows))
         /\ \A ks : SameFocus(e, Trashed(e, ks))
         /\ \A ls : SameFocus(e, Outdated(e, ls))
<1>1. ASSUME NEW ks PROVE SameFocus(e, Trashed(e, ks))
  <2> DEFINE s == [k \in DOMAIN e.ring |-> IF k \in ks THEN [e.ring[k] EXCEPT !.trashed = TRUE] ELSE e.ring[k]]
             f == [e EXCEPT !.ring = s]
  <2>1. Trashed(e, ks) = f
    BY DEF Trashed
  <2>2. SUFFICES ASSUME HasFocus(e) PROVE HasFocus(f) /\ f.ring[1].buf = e.ring[1].buf /\ f.cbuf = e.cbuf
    BY <2>1 DEF SameFocus
  <2>3. 1 \in DOMAIN s /\ "buf" \in DOMAIN s[1] /\ s[1].buf = e.ring[1].buf
    BY <2>2 DEF HasFocus
  <2> HIDE DEF s
  <2>4. f.ring = s /\ f.cbuf = e.cbuf /\ DOMAIN f = DOMAIN e
    BY <2>2 DEF HasFocus
  <2> HIDE DEF f
  <2> QED
    BY <2>2, <2>3, <2>4 DEF HasFocus
<1> QED
  BY <1>1, FieldsFocus DEF Marked, Forgotten, Outdated

LEMMA MarksMovedFocus ==
  ASSUME NEW e, NEW ls, NEW l
  PROVE  SameFocus(e, MarksMoved(e, ls, l))
<1> DEFINE s == [k \in DOMAIN e.ring |-> IF e.ring[k].buf = e.cbuf THEN Moved(e.ring[k], ls, l) ELSE e.ring[k]]
           f == [e EXCEPT !.ring = s]
<1>1. MarksMoved(e, ls, l) = f
  BY DEF MarksMoved
<1>2. SUFFICES ASSUME HasFocus(e) PROVE HasFocus(f) /\ f.ring[1].buf = e.ring[1].buf /\ f.cbuf = e.cbuf
  BY <1>1 DEF SameFocus
<1>3. 1 \in DOMAIN s /\ "buf" \in DOMAIN s[1] /\ s[1].buf = e.ring[1].buf
  BY <1>2 DEF HasFocus, Moved
<1> HIDE DEF s
<1>4. f.ring = s /\ f.cbuf = e.cbuf /\ DOMAIN f = DOMAIN e
  BY <1>2 DEF HasFocus
<1> HIDE DEF f
<1> QED
  BY <1>2, <1>3, <1>4 DEF HasFocus

LEMMA TouchesFocus ==
  ASSUME NEW e
  PROVE  /\ SameFocus(e, TouchWindow(e))
         /\ \A ks : SameFocus(e, TouchWindowHard(e, ks))
         /\ \A l : SameFocus(e, RegisterChange(e, l)) /\ SameFocus(e, RegisterDeletion(e, l))
<1>1. \A f : SameFocus(f, f)
  BY DEF SameFocus
<1>2. SameFocus(e, TouchWindow(e))
  BY <1>1, MarkingFocus, FocusThen DEF TouchWindow
<1>3. \A ks : SameFocus(e, TouchWindowHard(e, ks))
  BY MarkingFocus, FocusThen DEF TouchWindowHard
<1>4. \A f, l : SameFocus(f, RegisterChange(f, l))
  BY <1>1, MarkingFocus, FocusThen DEF RegisterChange
<1>5. \A l : SameFocus(e, RegisterDeletion(e, l))
  BY <1>1, <1>4, MarkingFocus, FocusThen DEF RegisterDeletion
<1> QED
  BY <1>2, <1>3, <1>4, <1>5

(* The steps of a callback leave the window in use and its buffer alone.   *)
LEMMA ChangesFocus ==
  ASSUME NEW e
  PROVE  /\ \A l : SameFocus(e, Changed(e, l))
         /\ \A new, marks, begs : SameFocus(e, InsertNewline(e, new, marks, begs))
         /\ SameFocus(e, DelNewline(e)) /\ SameFocus(e, EraseBuffer(e))
<1>1. \A f, l : SameFocus(f, Changed(f, l))
  BY FieldsFocus, MarkingFocus, TouchesFocus, FocusThen DEF Changed
<1>2. ASSUME NEW new, NEW marks, NEW begs PROVE SameFocus(e, InsertNewline(e, new, marks, begs))
  <2> DEFINE l == CLine(e)
             i == Place(Text(e), l)
             s == [k \in DOMAIN e.ring |-> Carried(e, e.ring[k], new, marks, begs)]
             f == [e EXCEPT !.text[e.cbuf] = InsertAt(@, i + 1, new), !.at[e.cbuf] = new, !.ring = s]
  <2>1. SameFocus(e, f)
    <3>1. SUFFICES ASSUME HasFocus(e) PROVE HasFocus(f) /\ f.ring[1].buf = e.ring[1].buf /\ f.cbuf = e.cbuf
      BY DEF SameFocus
    <3>2. 1 \in DOMAIN s /\ "buf" \in DOMAIN s[1] /\ s[1].buf = e.ring[1].buf
      BY <3>1 DEF HasFocus, Carried
    <3> HIDE DEF s
    <3>3. f.ring = s /\ f.cbuf = e.cbuf /\ DOMAIN f = DOMAIN e
      BY <3>1 DEF HasFocus
    <3> HIDE DEF f
    <3> QED
      BY <3>1, <3>2, <3>3 DEF HasFocus
  <2>2. InsertNewline(e, new, marks, begs) = Changed(f, l)
    BY DEF InsertNewline
  <2> HIDE DEF f, l
  <2> QED
    BY <1>1, <2>1, <2>2, FocusThen
<1>3. SameFocus(e, DelNewline(e))
  <2> DEFINE l == CLine(e)
             i == Place(Text(e), l)
             n == Text(e)[i + 1]
             d == Changed(e, l)
             m == MarksMoved(d, {n}, l)
             f == RegisterDeletion(m, n)
             g == [f EXCEPT !.text[e.cbuf] = RemoveAt(@, i + 1)]
  <2>1. SameFocus(e, d)
    BY <1>1
  <2>2. SameFocus(d, m)
    BY MarksMovedFocus
  <2>3. SameFocus(m, f)
    BY TouchesFocus
  <2>4. SameFocus(f, g)
    BY DEF SameFocus, HasFocus
  <2>5. SameFocus(g, Outdated(g, {n}))
    BY MarkingFocus
  <2>6. DelNewline(e) = Outdated(g, {n})
    BY DEF DelNewline
  <2> HIDE DEF l, i, n, d, m, f, g
  <2> QED
    BY <2>1, <2>2, <2>3, <2>4, <2>5, <2>6, FocusThen
<1>4. SameFocus(e, EraseBuffer(e))
  <2> DEFINE first == Text(e)[1]
             d == [e EXCEPT !.suspend = TRUE, !.motion = FALSE]
             f == MarksMoved(d, LinesOf(e, e.cbuf), first)
             g == [f EXCEPT !.text[e.cbuf] = <<first>>, !.at[e.cbuf] = first]
             o == Outdated(g, LinesOf(e, e.cbuf))
  <2>1. SameFocus(e, d)
    BY DEF SameFocus, HasFocus
  <2>2. SameFocus(d, f)
    BY MarksMovedFocus
  <2>3. SameFocus(f, g)
    BY DEF SameFocus, HasFocus
  <2>4. SameFocus(g, o)
    BY MarkingFocus
  <2>5. SameFocus(o, TouchScreenForBuffer(o, e.cbuf))
    BY TouchesFocus DEF TouchScreenForBuffer
  <2>6. EraseBuffer(e) = TouchScreenForBuffer(o, e.cbuf)
    BY DEF EraseBuffer
  <2> HIDE DEF first, d, f, g, o
  <2> QED
    BY <2>1, <2>2, <2>3, <2>4, <2>5, <2>6, FocusThen
<1> QED
  BY <1>1, <1>2, <1>3, <1>4

LEMMA OneWindowFocus == ASSUME NEW e PROVE SameFocus(e, OneWindow(e))
<1> DEFINE ks == DOMAIN e.ring \ Showing(e, JWindow(e).buf)
           f == TouchWindowHard(e, ks)
           h == e.height - 2
           w == [Head(f.ring) EXCEPT !.sy = 0, !.rows = h]
           s == <<w>>
           g == [f EXCEPT !.ring = s]
<1>1. SameFocus(e, f)
  BY TouchesFocus
<1>2. OneWindow(e) = TouchWindow(g)
  BY DEF OneWindow
<1>3. SameFocus(g, TouchWindow(g))
  BY TouchesFocus
<1> HIDE DEF f, h
<1>4. SameFocus(f, g)
  <2>1. SUFFICES ASSUME HasFocus(f) PROVE HasFocus(g) /\ g.ring[1].buf = f.ring[1].buf /\ g.cbuf = f.cbuf
    BY DEF SameFocus
  <2>2. Head(f.ring) = f.ring[1]
    OBVIOUS
  <2>3. "buf" \in DOMAIN w /\ w.buf = f.ring[1].buf
    BY <2>1, <2>2 DEF HasFocus
  <2> HIDE DEF w
  <2>4. DOMAIN s = {1} /\ s[1] = w
    OBVIOUS
  <2> HIDE DEF s
  <2>5. g.ring = s /\ g.cbuf = f.cbuf /\ DOMAIN g = DOMAIN f
    BY <2>1 DEF HasFocus
  <2> HIDE DEF g
  <2> QED
    BY <2>1, <2>3, <2>4, <2>5 DEF HasFocus
<1> HIDE DEF g
<1> QED
  BY <1>1, <1>2, <1>3, <1>4, FocusThen

-----------------------------------------------------------------------------
(* A redraw of the whole screen.                                           *)

LEMMA RedrawScreenShows ==
  ASSUME NEW e, Sound(e), NEW c, JWindow(e).trashed \/ TopFits(e, JWindow(e).beg)
  PROVE  /\ Updated(e, RedrawScreen(e, c), c.force)
         /\ ~e.suspend => ~RedrawScreen(e, c).suspend
<1> DEFINE f == ClearedScreen(e)
           g == Trashed(f, DOMAIN f.ring)
           h == Forgotten(g, RowsOf(JWindow(e)))
           top == JWindow(e).beg
           u == Update(h, None, c)
           v == Update(g, top, c)
<1>1. Shape(e) /\ Views(e) /\ e \in Editor(e.height) /\ 1 \in DOMAIN e.ring
  BY SoundShape, RingIs
<1>2. Touched(e, f) /\ \A r \in 0..e.height - 1 : f.screen[r].mod
  BY <1>1, ClearedTouched
<1>3. RedrawScreen(e, c) = IF JWindow(e).trashed THEN u ELSE v
  BY DEF RedrawScreen, ClearedScreen
<1>4. SameAstray(e, f)
  BY FieldsAstray DEF ClearedScreen
<1> HIDE DEF f
<1>5. Shape(f) /\ f \in Editor(f.height) /\ f.height = e.height /\ 1 \in DOMAIN f.ring
  BY <1>1, <1>2, TouchedShape, ShapeEditor, RingIs DEF Touched
<1>6. Touched(f, g) /\ g.screen = f.screen /\ JWindow(g).trashed /\ SameAstray(f, g)
  BY <1>5, TrashedTouched, TrashedIs, TrashedTrashes, MarkingAstray
<1> HIDE DEF g
<1>7. Touched(e, g) /\ Shape(g) /\ g \in Editor(g.height) /\ g.height = e.height
  BY <1>1, <1>2, <1>5, <1>6, TouchedThen, TouchedShape, ShapeEditor DEF Touched
<1>8. Touched(g, h) /\ h.ring = g.ring /\ SameAstray(g, h)
  <2> DEFINE rows == RowsOf(JWindow(e))
  <2>1. \A r \in rows \cap (0..g.height - 1) : g.screen[r].mod
    BY <1>2, <1>6, <1>7
  <2> HIDE DEF rows
  <2>2. Touched(g, Forgotten(g, rows))
    BY <1>7, <2>1, ForgottenTouched
  <2>3. Forgotten(g, rows).ring = g.ring /\ SameAstray(g, Forgotten(g, rows))
    BY <1>7, ForgottenIs, MarkingAstray
  <2> QED
    BY <2>2, <2>3 DEF rows
<1> HIDE DEF h
<1>9. Touched(e, h)
  BY <1>1, <1>7, <1>8, TouchedThen
<1>10. JWindow(h).trashed /\ SameAstray(e, g) /\ SameAstray(e, h)
  BY <1>4, <1>6, <1>8, AstrayThen DEF JWindow
<1>11. Onward(e, g) /\ Onward(e, h)
  BY <1>6, <1>7, <1>9, <1>10, TouchedOnward
<1>12. Sound(g) /\ Sound(h) /\ g.suspend = e.suspend /\ h.suspend = e.suspend
  BY <1>7, <1>9, TouchedInUse DEF Stays
<1>13. /\ Fit(e) => Fit(g) /\ Fit(h)
       /\ g.astray = e.astray /\ h.astray = e.astray
  BY <1>11, OnwardFits DEF Onward
<1>14. Updated(h, u, c.force) /\ (~h.suspend => ~u.suspend)
  <2>1. TopFits(h, None)
    BY NothingFits
  <2>2. None \in LinesOf(h, JWindow(h).buf) \cup {None}
    OBVIOUS
  <2> QED
    BY <1>12, <2>1, <2>2, UpdateShows, UpdateSound
<1>15. ASSUME ~JWindow(e).trashed PROVE Updated(g, v, c.force) /\ (~g.suspend => ~v.suspend)
  <2>1. TopFits(e, top)
    BY <1>15
  <2> HIDE DEF top
  <2>2. TopFits(g, top)
    BY <1>11, <2>1, OnwardFits
  <2>3. top \in LinesOf(g, JWindow(g).buf) \cup {None}
    BY <2>2 DEF TopFits
  <2> QED
    BY <1>12, <2>2, <2>3, UpdateShows, UpdateSound
<1> HIDE DEF u, v
<1>16. CASE JWindow(e).trashed
  BY <1>3, <1>12, <1>13, <1>14, <1>16 DEF Updated
<1>17. CASE ~JWindow(e).trashed
  BY <1>3, <1>12, <1>13, <1>15, <1>17 DEF Updated
<1> QED
  BY <1>16, <1>17

(* Whichever window takes or gives the rows, all of them are to be drawn.  *)
LEMMA ResizedFits ==
  ASSUME NEW e, Sound(e), e.cbuf = JWindow(e).buf, NEW h \in Heights
  PROVE  /\ Fit(Resized(e, h)) /\ JWindow(Resized(e, h)).trashed
         /\ Resized(e, h).astray = e.astray /\ Resized(e, h).suspend = e.suspend
<1> DEFINE bottom == CHOOSE k \in DOMAIN e.ring : e.ring[k].rows + e.ring[k].sy + 2 = e.height
           top == CHOOSE k \in DOMAIN e.ring : e.ring[k].sy = 0
           q == IF top = 1 THEN e ELSE OtherWindow(e)
           o == OneWindow(q)
           tall == [e EXCEPT !.ring[bottom].rows = h - 2 - e.ring[bottom].sy]
           sole == [o EXCEPT !.ring[1].rows = h - 2]
           f == IF h > e.ring[bottom].sy + 3 THEN tall ELSE sole
           d == Fresh(h)
           g == [f EXCEPT !.height = h, !.screen = d]
           ks == DOMAIN f.ring
<1>1. bottom \in DOMAIN e.ring /\ e.ring[bottom].rows + e.ring[bottom].sy + 2 = e.height
  BY BottomIs, SoundShape
<1>2. Sound(q) /\ q.cbuf = JWindow(q).buf /\ q.suspend = e.suspend /\ q.astray = e.astray
  BY OtherWindowSound, OtherAstray, AstrayIs DEF Turned
<1> HIDE DEF q
<1>3. Sound(o) /\ Len(o.ring) = 1 /\ o.cbuf = JWindow(o).buf /\ o.suspend = e.suspend /\ o.astray = e.astray
  BY <1>2, OneWindowSound, OneWindowFocus, FocusIs, WindowsAstray, AstrayIs
<1>4. Resized(e, h) = Trashed(g, ks)
  BY DEF Resized, Fresh, q
<1> HIDE DEF o, bottom
<1>5. /\ e \in Editor(e.height) /\ e.ring \in Seq(Window) /\ 1 \in DOMAIN e.ring
      /\ o \in Editor(o.height) /\ o.ring \in Seq(Window) /\ 1 \in DOMAIN o.ring
  BY <1>3, SoundShape, RingIs
<1> HIDE DEF d
<1>6. ASSUME h > e.ring[bottom].sy + 3
      PROVE  Sound(g) /\ g.cbuf = JWindow(g).buf /\ g.suspend = e.suspend /\ g.astray = e.astray /\ ks = DOMAIN g.ring
  <2>1. g = WithRoom(e, Taller(e, bottom, h), h)
    BY <1>5, <1>6 DEF WithRoom, Taller, d, Editor
  <2>2. Sound(g)
    BY <1>1, <1>6, <2>1, TallerSound
  <2>3. g.cbuf = e.cbuf /\ g.suspend = e.suspend /\ g.astray = e.astray /\ g.ring = Taller(e, bottom, h)
    BY <1>5, <2>1 DEF WithRoom, Editor
  <2>4. f.ring = Taller(e, bottom, h)
    BY <1>5, <1>6 DEF Taller, Editor
  <2>5. Taller(e, bottom, h)[1].buf = e.ring[1].buf
    BY <1>1, <1>5, <1>6, SoundShape, TallerIs
  <2> QED
    BY <2>2, <2>3, <2>4, <2>5 DEF JWindow
<1>7. ASSUME ~(h > e.ring[bottom].sy + 3)
      PROVE  Sound(g) /\ g.cbuf = JWindow(g).buf /\ g.suspend = e.suspend /\ g.astray = e.astray /\ ks = DOMAIN g.ring
  <2>1. g = WithRoom(o, Sole(o, h), h)
    BY <1>5, <1>7 DEF WithRoom, Sole, d, Editor
  <2>2. Sound(g)
    BY <1>3, <2>1, SoleSound
  <2>3. g.cbuf = o.cbuf /\ g.suspend = o.suspend /\ g.astray = o.astray /\ g.ring = Sole(o, h)
    BY <1>5, <2>1 DEF WithRoom, Editor
  <2>4. f.ring = Sole(o, h)
    BY <1>5, <1>7 DEF Sole, Editor
  <2>5. Sole(o, h)[1].buf = o.ring[1].buf
    <3>1. o.ring[1] \in Window
      BY <1>5
    <3> QED
      BY <1>5, <3>1 DEF Sole, Window
  <2> QED
    BY <1>3, <2>2, <2>3, <2>4, <2>5 DEF JWindow
<1>8. Sound(g) /\ g.cbuf = JWindow(g).buf /\ g.suspend = e.suspend /\ g.astray = e.astray /\ 1 \in ks
  BY <1>6, <1>7, SoundShape, RingIs
<1> HIDE DEF g, ks
<1>9. Onward(g, Trashed(g, ks)) /\ JWindow(Trashed(g, ks)).trashed /\ Trashed(g, ks).suspend = g.suspend
  BY <1>8, TrashedOnward, TrashedTrashes, TrashedTouched, SoundShape DEF Touched
<1>10. Trashed(g, ks).cbuf = JWindow(Trashed(g, ks)).buf /\ Trashed(g, ks).astray = g.astray
  BY <1>8, <1>9, OnwardFits DEF Onward
<1> QED
  BY <1>4, <1>8, <1>9, <1>10 DEF Fit

-----------------------------------------------------------------------------
(* Callbacks, and commands that end.                                       *)

LEMMA WindowBufferFits ==
  ASSUME NEW e, Sound(e), NEW b \in Live(e), e.cbuf = b
  PROVE  Fit(WindowBuffer(e, b)) /\ WindowBuffer(e, b).astray = e.astray
<1> DEFINE v == TRUE
           d == TouchWindow(e)
           l == e.at[b]
           x == [d.ring[1] EXCEPT !.buf = b, !.beg = l, !.mark = l, !.trashed = v]
           f == [d EXCEPT !.ring[1] = x]
<1>1. f = WindowBuffer(e, b) /\ v
  BY DEF WindowBuffer
<1>2. Shape(d)
  BY SoundShape, TouchWindowTouched, TouchedShape
<1> HIDE DEF v, d
<1>3. d \in Editor(d.height) /\ 1 \in DOMAIN d.ring /\ d.ring[1] \in Window
  BY <1>2, ShapeEditor, RingIs
<1>4. x.trashed = v
  BY <1>3 DEF Window
<1> HIDE DEF x
<1>5. f.ring[1] = x
  BY <1>3 DEF Editor
<1>6. JWindow(f).trashed
  BY <1>1, <1>4, <1>5 DEF JWindow
<1>7. JWindow(f).buf = b /\ f.cbuf = b
  BY <1>1, WindowBufferSound
<1>8. f.astray = e.astray
  BY <1>1, WindowsAstray, AstrayIs
<1> QED
  BY <1>1, <1>6, <1>7, <1>8 DEF Fit

(* After a command the window in use shows the buffer in use again, and if *)
(* the command has not only changed its line the window is to be drawn.    *)
LEMMA EndedShows ==
  ASSUME NEW e, Sound(e), NEW ret, NEW error, NEW c, ret \/ Fit(e)
  PROVE  Fit(Ended(e, ret, error, c)) /\ Ended(e, ret, error, c).astray = e.astray
<1> DEFINE f == IF ret THEN Trashed(e, {1}) ELSE e
           b == JWindow(f).buf
           d == [f EXCEPT !.cbuf = b]
           g == IF f.cbuf = b THEN f ELSE WindowBuffer(d, b)
           p == Resumed(g)
           q == SetHScroll(p)
           r == TouchScreen(q)
           h == Update1(r, None, Undisturbed)
           u == IF error THEN h ELSE g
           skipped == ~error /\ c.quick /\ ~JWindow(g).trashed /\ Len(g.ring) = 1 /\ ~g.suspend
<1>1. Ended(e, ret, error, c) = IF skipped THEN g ELSE Update(u, None, c)
  BY DEF Ended
<1> HIDE DEF skipped
<1>2. Sound(f) /\ f.astray = e.astray /\ (f.cbuf = b => Fit(f))
  <2>1. CASE ret
    <3>1. Onward(e, f) /\ Sound(f) /\ JWindow(f).trashed
      BY <2>1, SoundShape, TrashedOnward, TrashedTouched, TouchedSound, TrashedTrashes
    <3> QED
      BY <3>1 DEF Onward, Fit
  <2>2. CASE ~ret
    BY <2>2
  <2> QED
    BY <2>1, <2>2
<1> HIDE DEF f
<1>3. b \in Live(f)
  BY <1>2, RingIs, WindowIs, SoundShape DEF JWindow, Sound
<1> HIDE DEF b
<1>4. Sound(d) /\ b \in Live(d) /\ d.cbuf = b /\ d.astray = f.astray
  <2>1. d.cbuf = b
    BY <1>2, SoundShape DEF Editor
  <2>2. d.astray = f.astray
    BY <1>2, FieldsAstray, AstrayIs
  <2> QED
    BY <1>2, <1>3, <2>1, <2>2, InOwnBuffer
<1> HIDE DEF d
<1>5. Sound(g) /\ Fit(g) /\ g.astray = e.astray
  BY <1>2, <1>4, WindowBufferSound, WindowBufferFits
<1> HIDE DEF g
<1>6. Sound(p) /\ ~p.suspend /\ Onward(g, p)
  BY <1>5, ResumedSound, ResumedOnward
<1> HIDE DEF p
<1>7. Touched(p, q) /\ Onward(p, q)
  BY <1>6, SoundShape, SetHScrollTouched, SetHScrollOnward
<1>8. Sound(q) /\ ~q.suspend
  BY <1>6, <1>7, TouchedInUse DEF Stays
<1> HIDE DEF q
<1>9. Touched(q, r) /\ Onward(q, r)
  BY <1>8, SoundShape, TouchScreenTouched, TouchScreenOnward
<1>10. Sound(r) /\ ~r.suspend
  BY <1>8, <1>9, TouchedInUse DEF Stays
<1> HIDE DEF r
<1>11. Onward(g, r)
  BY <1>6, <1>7, <1>9, OnwardThen
<1>12. Fit(r) /\ r.astray = e.astray
  BY <1>5, <1>11, OnwardFits DEF Onward
<1>13. TopFits(r, None) /\ None \in LinesOf(r, JWindow(r).buf) \cup {None}
  BY NothingFits
<1>14. Sound(h) /\ Updated(r, h, Undisturbed.force)
  BY <1>10, <1>13, Update1Sound, Update1Shows
<1> HIDE DEF h
<1>15. Sound(u) /\ Fit(u) /\ u.astray = e.astray
  BY <1>5, <1>12, <1>14 DEF Updated
<1> HIDE DEF u
<1>16. TopFits(u, None)
  BY NothingFits
<1>17. Updated(u, Update(u, None, c), c.force)
  BY <1>15, <1>16, UpdateShows
<1> QED
  BY <1>1, <1>5, <1>15, <1>17 DEF Updated

LEMMA ChangedOnward == ASSUME NEW e, Sound(e), ~e.suspend, NEW l \in Lines PROVE Onward(e, Changed(e, l))
<1> DEFINE v == FALSE
           f == [e EXCEPT !.motion = v]
           g == Outdated(f, {l})
<1>1. v \in BOOLEAN
  OBVIOUS
<1>2. Changed(e, l) = RegisterChange(g, l)
  BY DEF Changed
<1> HIDE DEF v
<1>3. Shape(f) /\ f \in Editor(f.height) /\ ~f.suspend
  BY <1>1, SoundShape, SmallFieldsTouched, TouchedShape, ShapeEditor DEF Touched
<1> HIDE DEF f
<1>4. g \in Editor(f.height) /\ g.ring = f.ring /\ g.height = f.height /\ ~g.suspend
  BY <1>3, OutdatedIs DEF SameRest
<1> HIDE DEF g
<1>5. Shape(g)
  BY <1>3, <1>4 DEF Shape
<1>6. JWindow(Changed(e, l)).trashed
  BY <1>2, <1>4, <1>5, RegisterChangeTrashes
<1> QED
  BY <1>6, ChangedTouched, ChangesAstray, TouchedOnward

LEMMA WaitingResumes == ASSUME NEW e, Sound(e), JWindow(e).trashed \/ ~e.suspend PROVE ~Waiting(e).suspend
<1> DEFINE c == Undisturbed
<1>1. c.force
  BY DEF Undisturbed
<1>2. Waiting(e) = IF JWindow(e).trashed THEN Update(e, None, c) ELSE e
  BY DEF Waiting
<1> HIDE DEF c
<1>3. None \in LinesOf(e, JWindow(e).buf) \cup {None}
  OBVIOUS
<1>4. ~Update(e, None, c).suspend
  BY <1>1, <1>3, UpdateSound
<1> QED
  BY <1>2, <1>4

-----------------------------------------------------------------------------
(* The invariant of what is shown, and the steps that keep it.             *)

(* While JED waits the windows show their texts.  While a command only     *)
(* changes its line or moves along it they still do, or JWindow is to be   *)
(* drawn.  And a callback goes back to the buffer of JWindow.              *)
ShownInv ==
  /\ ~ed.astray
  /\ plain => ~ed.suspend /\ Fit(ed)
  /\ pc = "idle" => plain /\ AllShown(ed)
  /\ pc = "callback" => home = JWindow(ed).buf

LEMMA ShownInit == Init => ShownInv
<1> SUFFICES ASSUME Init PROVE ShownInv
  OBVIOUS
<1>1. PICK e : /\ ed = Waiting(e) /\ Sound(e) /\ e.cbuf = JWindow(e).buf
               /\ JWindow(e).trashed /\ ~e.suspend /\ ~e.astray
  BY InitIs
<1>2. Fit(e)
  BY <1>1 DEF Fit
<1>3. Fit(ed) /\ AllShown(ed) /\ ~ed.astray /\ ~ed.suspend
  BY <1>1, <1>2, WaitingShows, WaitingResumes
<1> QED
  BY <1>3 DEF ShownInv, Init

(* A step that need not leave the screen as it should be.                  *)
LEMMA DoesShown ==
  ASSUME DisplayInv, ShownInv, NEW e, Does(e), e.astray = ed.astray,
         pc = "callback" => JWindow(e).buf = JWindow(ed).buf
  PROVE  ShownInv'
  BY DEF ShownInv, Does, Runs

LEMMA TextStepShown == ASSUME DisplayInv, ShownInv, TextStep PROVE ShownInv'
<1>1. Sound(ed) /\ Shape(ed) /\ Texts(ed) /\ ed \in Editor(ed.height) /\ 1 \in DOMAIN ed.ring /\ CLine(ed) \in Lines
  BY SoundShape, RingIs, TextIs DEF DisplayInv
<1>2. ASSUME NEW e, Does(e), SameAstray(ed, e), SameFocus(ed, e) PROVE ShownInv'
  BY <1>1, <1>2, AstrayIs, FocusIs, DoesShown
<1>3. CASE Edit
  <2> DEFINE f == Changed(ed, CLine(ed))
  <2>1. Touched(ed, f) /\ SameAstray(ed, f)
    BY <1>1, ChangedTouched, ChangesAstray
  <2>2. plain => ~f.suspend /\ Fit(f)
    BY <1>1, <2>1, ChangedOnward, OnwardFits DEF Touched, ShownInv
  <2>3. ed' = f /\ plain' = plain /\ pc' = pc /\ home' = home /\ pc # "idle"
    BY <1>3 DEF Edit, Runs
  <2> HIDE DEF f
  <2>4. f.astray = ed.astray /\ JWindow(f).buf = JWindow(ed).buf
    BY <1>1, <2>1, AstrayIs DEF Touched, SameView, JWindow
  <2> QED
    BY <2>2, <2>3, <2>4 DEF ShownInv
<1>4. CASE Join
  BY <1>2, <1>4, ChangesAstray, ChangesFocus DEF Join
<1>5. CASE Erase
  BY <1>2, <1>5, ChangesAstray, ChangesFocus DEF Erase
<1>6. CASE Suspend
  <2> DEFINE f == [ed EXCEPT !.suspend = TRUE]
  <2>1. SameAstray(ed, f) /\ SameFocus(ed, f)
    BY FieldsAstray, FieldsFocus
  <2>2. Does(f)
    BY <1>6 DEF Suspend
  <2> HIDE DEF f
  <2> QED
    BY <1>2, <2>1, <2>2
<1>7. ASSUME NEW l \in Lines, MoveTo(l) PROVE ShownInv'
  <2>1. PICK m \in {ed.motion, TRUE} : Does([ed EXCEPT !.at[ed.cbuf] = l, !.motion = m])
    BY <1>7 DEF MoveTo
  <2> DEFINE f == [ed EXCEPT !.at[ed.cbuf] = l, !.motion = m]
  <2>2. SameAstray(ed, f) /\ SameFocus(ed, f)
    BY DEF SameAstray, SameFocus, HasFocus
  <2>3. Does(f)
    BY <2>1
  <2> HIDE DEF f
  <2> QED
    BY <1>2, <2>2, <2>3
<1>8. ASSUME NEW new \in Lines, NEW marks, NEW begs, Split(new, marks, begs) PROVE ShownInv'
  BY <1>2, <1>8, ChangesAstray, ChangesFocus DEF Split
<1>9. ASSUME NEW b \in Buffers, NEW new \in Lines, Set(b, new) PROVE ShownInv'
  <2> DEFINE f == SetBuffer(ed, b, new)
  <2>1. f.ring = ed.ring /\ f.astray = ed.astray
    BY <1>1, <1>9, SetBufferSound, ChangesAstray, AstrayIs DEF Set
  <2>2. Does(f)
    BY <1>9 DEF Set
  <2> HIDE DEF f
  <2> QED
    BY <2>1, <2>2, DoesShown DEF JWindow
<1> QED
  BY <1>3, <1>4, <1>5, <1>6, <1>7, <1>8, <1>9 DEF TextStep

LEMMA ScreenStepShown ==
  ASSUME DisplayInv, ShownInv, "redraw" \notin Lapses, pc = "command", ScreenStep
  PROVE  ShownInv'
<1>1. Sound(ed) /\ Shape(ed) /\ Texts(ed) /\ Views(ed) /\ ed \in Editor(ed.height) /\ 1 \in DOMAIN ed.ring
  BY SoundShape, RingIs DEF DisplayInv
<1>2. ASSUME NEW e, Does(e), e.astray = ed.astray PROVE ShownInv'
  BY <1>2, DoesShown
<1>3. ASSUME NEW e, Does(e), SameAstray(ed, e) PROVE ShownInv'
  BY <1>1, <1>2, <1>3, AstrayIs
<1>4. CASE MoveAlongLine
  <2> DEFINE v == TRUE
             f == [ed EXCEPT !.motion = v]
  <2>1. ed' = f
    BY <1>4 DEF MoveAlongLine
  <2> HIDE DEF v
  <2>2. /\ f.ring = ed.ring /\ f.text = ed.text /\ f.at = ed.at /\ f.screen = ed.screen
        /\ f.cbuf = ed.cbuf /\ f.suspend = ed.suspend /\ f.astray = ed.astray
    BY <1>1 DEF Editor
  <2> HIDE DEF f
  <2>3. SameViews(ed, f)
    BY <1>1, <2>2 DEF SameViews
  <2>4. Fit(ed) => Fit(f)
    BY <2>2, <2>3, SameViewsShow DEF Fit, AllShown, JWindow
  <2> QED
    BY <1>4, <2>1, <2>2, <2>4 DEF ShownInv, MoveAlongLine, Runs
<1>5. CASE TouchAll \/ TouchOne
  BY <1>3, <1>5, TouchesAstray DEF TouchAll, TouchOne
<1>6. ASSUME NEW b \in Buffers, SetInWindow(b) PROVE ShownInv'
  <2> DEFINE f == [ed EXCEPT !.cbuf = b]
             g == WindowBuffer(f, b)
  <2>1. Does(g)
    BY <1>6 DEF SetInWindow
  <2>2. SameAstray(ed, f)
    BY FieldsAstray
  <2> HIDE DEF f
  <2>3. SameAstray(f, g)
    BY WindowsAstray
  <2> HIDE DEF g
  <2> QED
    BY <1>3, <2>1, <2>2, <2>3, AstrayThen
<1>7. ASSUME NEW b \in Buffers, NEW other \in Buffers, Kill(b, other) PROVE ShownInv'
  BY <1>3, <1>7, WindowsAstray DEF Kill
<1>8. CASE Other \/ SplitTheWindow \/ One \/ Delete
  BY <1>3, <1>8, WindowsAstray, OtherAstray DEF Other, SplitTheWindow, One, Delete
<1>9. ASSUME NEW n, RecenterOn(n) PROVE ShownInv'
  BY <1>3, <1>9, WindowsAstray DEF RecenterOn
<1>10. ASSUME NEW c, UpdateNow(c) PROVE ShownInv'
  <2>1. Updated(ed, Update(ed, None, c), c.force)
    BY <1>1, NothingFits, UpdateShows
  <2> QED
    BY <1>2, <1>10, <2>1 DEF UpdateNow, Updated
<1>11. ASSUME NEW e, Sound(e), e.astray = ed.astray, JWindow(e).trashed \/ TopFits(e, JWindow(e).beg),
              NEW c, Does(RedrawScreen(e, c))
       PROVE  ShownInv'
  <2> DEFINE f == RedrawScreen(e, c)
  <2>1. Updated(e, f, c.force)
    BY <1>11, RedrawScreenShows
  <2>2. Does(f)
    BY <1>11
  <2> HIDE DEF f
  <2> QED
    BY <1>2, <1>11, <2>1, <2>2 DEF Updated
<1>12. ASSUME NEW c, Redraw(c) PROVE ShownInv'
  <2>1. JWindow(ed).trashed \/ TopFits(ed, JWindow(ed).beg)
    <3> SUFFICES ASSUME ~JWindow(ed).trashed PROVE TopFits(ed, JWindow(ed).beg)
      OBVIOUS
    <3>1. JWindow(ed).buf = ed.cbuf => OnScreen(Text(ed), JWindow(ed).beg, CLine(ed), JWindow(ed).rows)
      BY <1>12 DEF Redraw
    <3>2. JWindow(ed).beg \in LinesOf(ed, JWindow(ed).buf)
      BY <1>1 DEF Views, JWindow
    <3> QED
      BY <3>1, <3>2 DEF TopFits
  <2>2. Does(RedrawScreen(ed, c))
    BY <1>12 DEF Redraw
  <2> QED
    BY <1>1, <1>11, <2>1, <2>2
<1>13. ASSUME NEW c, RecenterAll(c) PROVE ShownInv'
  <2> DEFINE e == Rebegun(ed, FindTopToRecenter(ed))
  <2>1. FindTopToRecenter(ed) \in Lines /\ Trashed(ed, {1}).astray = ed.astray
    BY <1>1, FindTopToRecenterIs, TextIs, MarkingAstray, AstrayIs
  <2>2. Sound(e) /\ JWindow(e).trashed /\ e.astray = ed.astray
    BY <1>1, <2>1, RebegunSound
  <2>3. Does(RedrawScreen(e, c))
    BY <1>13 DEF RecenterAll, Rebegun
  <2> HIDE DEF e
  <2> QED
    BY <1>11, <2>2, <2>3
<1> QED
  BY <1>4, <1>5, <1>6, <1>7, <1>8, <1>9, <1>10, <1>12, <1>13 DEF ScreenStep

LEMMA EndCallbackShown == ASSUME DisplayInv, ShownInv, EndCallback PROVE ShownInv'
<1> DEFINE d == [ed EXCEPT !.cbuf = home]
           e == TouchScreen(d)
           f == Trashed(e, {1})
<1>1. Sound(ed) /\ home \in Live(ed) /\ home = JWindow(ed).buf /\ ~ed.astray /\ ed \in Editor(ed.height)
  BY SoundShape DEF DisplayInv, ShownInv, EndCallback
<1>2. Sound(d) /\ d.ring = ed.ring
  BY <1>1, InOwnBuffer
<1>3. ed' = Waiting(f) /\ pc' = "idle" /\ plain'
  BY DEF EndCallback
<1>4. d.cbuf = home /\ d.astray = ed.astray
  BY <1>1 DEF Editor
<1> HIDE DEF d
<1>5. Sound(e) /\ Onward(d, e)
  BY <1>2, SoundShape, TouchScreenTouched, TouchedSound, TouchScreenOnward
<1> HIDE DEF e
<1>6. Sound(f) /\ Onward(e, f) /\ JWindow(f).trashed
  BY <1>5, SoundShape, TrashedTouched, TouchedSound, TrashedOnward, TrashedTrashes
<1> HIDE DEF f
<1>7. Onward(d, f)
  BY <1>5, <1>6, OnwardThen
<1>8. Fit(f) /\ f.astray = ed.astray
  BY <1>1, <1>2, <1>4, <1>6, <1>7, OnwardFits DEF Onward, Fit, JWindow
<1>9. Fit(ed') /\ AllShown(ed') /\ ~ed'.astray /\ ~ed'.suspend
  BY <1>1, <1>3, <1>6, <1>8, WaitingShows, WaitingResumes
<1> QED
  BY <1>3, <1>9 DEF ShownInv

LEMMA EndCommandShown ==
  ASSUME DisplayInv, ShownInv, "typeahead" \notin Lapses, NEW ret, NEW error, NEW c, EndCommand(ret, error, c)
  PROVE  ShownInv'
<1> DEFINE d == Ended(ed, ret, error, c)
           e == [d EXCEPT !.suspend = FALSE]
<1>1. Sound(ed) /\ (c.input => ~ed.suspend) /\ (ret \/ Fit(ed)) /\ ~ed.astray
  BY DEF DisplayInv, ShownInv, EndCommand
<1>2. Sound(d) /\ ~d.suspend /\ Fit(d) /\ ~d.astray
  BY <1>1, EndedSound, EndedShows
<1>3. \/ pc' = "idle" /\ ed' = Waiting(e)
      \/ pc' = "command" /\ ed' = e
  BY DEF EndCommand
<1>4. plain'
  BY DEF EndCommand
<1> HIDE DEF d
<1>5. e = d
  <2>1. d \in Editor(d.height)
    BY <1>2, SoundShape
  <2> QED
    BY <1>2, <2>1 DEF Editor
<1> HIDE DEF e
<1>6. CASE pc' = "idle" /\ ed' = Waiting(e)
  <2>1. Fit(ed') /\ AllShown(ed') /\ ~ed'.astray /\ ~ed'.suspend
    BY <1>2, <1>5, <1>6, WaitingShows, WaitingResumes
  <2> QED
    BY <1>4, <1>6, <2>1 DEF ShownInv
<1>7. CASE pc' = "command" /\ ed' = e
  BY <1>2, <1>5, <1>7 DEF ShownInv
<1> QED
  BY <1>3, <1>6, <1>7

LEMMA ResizeShown ==
  ASSUME DisplayInv, ShownInv, NEW h \in Heights, NEW c, Resize(h, c)
  PROVE  ShownInv'
<1> DEFINE d == Resized(ed, h)
           e == RedrawScreen(d, c)
<1>1. Sound(ed) /\ ed.cbuf = JWindow(ed).buf /\ ~ed.suspend /\ ~ed.astray
  BY DEF DisplayInv, ShownInv, Resize, Fit
<1>2. Sound(d) /\ Fit(d) /\ JWindow(d).trashed /\ ~d.astray /\ ~d.suspend
  BY <1>1, ResizedSound, ResizedFits
<1>3. ed' = Waiting(e) /\ pc = "idle" /\ UNCHANGED <<pc, home, plain, steps>>
  BY DEF Resize
<1> HIDE DEF d
<1>4. Sound(e) /\ Updated(d, e, c.force) /\ ~e.suspend
  BY <1>2, RedrawScreenSound, RedrawScreenShows
<1>5. Fit(e) /\ ~e.astray
  BY <1>2, <1>4 DEF Updated
<1> HIDE DEF e
<1>6. Fit(ed') /\ AllShown(ed') /\ ~ed'.astray /\ ~ed'.suspend
  BY <1>3, <1>4, <1>5, WaitingShows, WaitingResumes
<1> QED
  BY <1>3, <1>6 DEF ShownInv

LEMMA ShownNext ==
  ASSUME DisplayInv, ShownInv, "typeahead" \notin Lapses, "redraw" \notin Lapses, [Next]_vars
  PROVE  ShownInv'
<1>1. CASE Key
  <2>1. ed' = ed /\ plain' = plain /\ pc' = "command"
    BY <1>1 DEF Key
  <2> QED
    BY <2>1 DEF ShownInv
<1>2. CASE Callback
  <2>1. ed' = ed /\ plain' = plain /\ pc = "idle" /\ pc' = "callback" /\ home' = ed.cbuf
    BY <1>2 DEF Callback
  <2> QED
    BY <2>1 DEF ShownInv, Fit
<1>3. CASE EndCallback
  BY <1>3, EndCallbackShown
<1>4. ASSUME NEW h \in Heights, NEW c, Resize(h, c) PROVE ShownInv'
  BY <1>4, ResizeShown
<1>5. ASSUME NEW ret, NEW error, NEW c, EndCommand(ret, error, c) PROVE ShownInv'
  BY <1>5, EndCommandShown
<1>6. CASE TextStep
  BY <1>6, TextStepShown
<1>7. CASE pc = "command" /\ ScreenStep
  BY <1>7, ScreenStepShown
<1>8. CASE UNCHANGED vars
  <2>1. ed' = ed /\ pc' = pc /\ home' = home /\ plain' = plain
    BY <1>8 DEF vars
  <2> QED
    BY <2>1 DEF ShownInv
<1>9. ASSUME NEW c, EndCommand(TRUE, FALSE, c) \/ EndCommand(TRUE, TRUE, c) \/ EndCommand(FALSE, FALSE, c)
      PROVE  ShownInv'
  BY <1>5, <1>9
<1> QED
  BY <1>1, <1>2, <1>3, <1>4, <1>6, <1>7, <1>8, <1>9 DEF Next

(* InView, said of the rows counted from the first one of the window.      *)
(* InView with the rows of w counted from its first one.                   *)
Displayed(s, w, t, l) ==
  \E top \in DOMAIN t :
    /\ OnScreen(t, t[top], l, w.rows)
    /\ \A i \in 0..w.rows - 1 :
         s[w.sy + i].shown = IF top + i \in DOMAIN t THEN t[top + i] ELSE Blank

LEMMA InViewIs ==
  ASSUME NEW s, NEW w, w.sy \in Nat, w.rows \in Nat, NEW n \in Nat, NEW t, DOMAIN t = 1..n, NEW l, InView(s, w, t, l)
  PROVE  Displayed(s, w, t, l)
<1>1. PICK top \in DOMAIN t :
        /\ OnScreen(t, t[top], l, w.rows)
        /\ \A r \in RowsOf(w) : s[r].shown = IF top + r - w.sy \in DOMAIN t THEN t[top + r - w.sy] ELSE Blank
  BY DEF InView
<1>2. ASSUME NEW i \in 0..w.rows - 1
      PROVE  s[w.sy + i].shown = IF top + i \in DOMAIN t THEN t[top + i] ELSE Blank
  <2> DEFINE r == w.sy + i
  <2>1. r \in RowsOf(w) /\ top + r - w.sy = top + i
    BY DEF RowsOf
  <2> HIDE DEF r
  <2>2. s[r].shown = IF top + r - w.sy \in DOMAIN t THEN t[top + r - w.sy] ELSE Blank
    BY <1>1, <2>1
  <2> QED
    BY <2>1, <2>2 DEF r
<1> QED
  BY <1>1, <1>2 DEF Displayed

LEMMA ShownInvShows == DisplayInv /\ ShownInv => ScreenShowsText
<1> SUFFICES ASSUME DisplayInv, ShownInv PROVE ScreenShowsText
  OBVIOUS
<1>1. Sound(ed) /\ Loose(ed) /\ Shape(ed) /\ Texts(ed) /\ 1 \in DOMAIN ed.ring
  BY SoundShape, RingIs DEF DisplayInv, Sound
<1>2. ASSUME pc = "idle", NEW k \in DOMAIN ed.ring
      PROVE  LET w == ed.ring[k]
                 t == ed.text[w.buf]
                 cursor == IF k = 1 THEN ed.at[w.buf] ELSE w.mark
             IN \E top \in DOMAIN t :
                  /\ OnScreen(t, t[top], cursor, w.rows)
                  /\ \A i \in 0..w.rows - 1 :
                       ed.screen[w.sy + i].shown = IF top + i \in DOMAIN t THEN t[top + i] ELSE Blank
  <2> DEFINE w == ed.ring[k]
             t == ed.text[w.buf]
             cursor == IF k = 1 THEN ed.at[w.buf] ELSE w.mark
             n == Len(t)
  <2>1. FrontShown(ed) /\ OthersShown(ed)
    BY <1>2 DEF ShownInv, AllShown
  <2>2. InView(ed.screen, w, t, cursor)
    BY <2>1 DEF FrontShown, OthersShown, JWindow
  <2>3. w.buf \in Buffers /\ w.sy \in Nat /\ w.rows \in Nat
    BY <1>1, <1>2, WindowIs DEF Live
  <2>4. t \in Seq(Lines)
    BY <1>1, <2>3, TextIs
  <2>5. n \in Nat /\ DOMAIN t = 1..n
    BY <2>4
  <2> HIDE DEF w, t, cursor, n
  <2>6. Displayed(ed.screen, w, t, cursor)
    BY ONLY <2>2, <2>3, <2>5, InViewIs
  <2> QED
    BY <2>6 DEF Displayed, w, t, cursor
<1>3. LinesShown
  BY <1>2 DEF LinesShown
<1>4. CursorInWindow
  BY DEF ShownInv, CursorInWindow
<1> QED
  BY <1>3, <1>4 DEF ScreenShowsText

(* As long as no one types on while a command that has suspended the       *)
(* updates is running, and no S-Lang function asks for a redraw after it   *)
(* has moved the cursor off a window that is not marked to be drawn (none  *)
(* is marked while updates are suspended), JED waits for a key (sys_getkey) *)
(* only with the truth on the screen: update (screen.c) has drawn each     *)
(* window, the lines from its beg on as they are now, the line of the      *)
(* cursor among them and rows past the end blank.  find_top always comes to *)
(* a top that has the cursor in view, and the rows do_jed and update_1 skip *)
(* are those that already show the line they should.                       *)
THEOREM DisplayShowsText ==
  ASSUME "typeahead" \notin Lapses, "redraw" \notin Lapses
  PROVE  Spec => []ScreenShowsText
<1>1. Init => DisplayInv /\ ShownInv
  BY DisplayInit, ShownInit
<1>2. (DisplayInv /\ ShownInv) /\ [Next]_vars => (DisplayInv /\ ShownInv)'
  BY DisplayNext, ShownNext
<1>3. DisplayInv /\ ShownInv => ScreenShowsText
  BY ShownInvShows
<1> QED
  BY <1>1, <1>2, <1>3, PTL DEF Spec
=============================================================================
