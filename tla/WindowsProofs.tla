--------------------------- MODULE WindowsProofs ---------------------------
(***************************************************************************)
(* Proofs about Windows: the windows tile the screen and show live         *)
(* buffers, the minibuffer stays in its place, and pop_to_buffer keeps     *)
(* what JWindow shows in view, for any buffers, heights of the screen and  *)
(* number of windows.                                                      *)
(***************************************************************************)
EXTENDS Windows, FiniteSetTheorems, SequenceTheorems, WellFoundedInduction, TLAPS

(***************************************************************************)
(* Rings.                                                                  *)
(***************************************************************************)

Ring(r) == /\ r \in Seq(Window)
           /\ \A i, j \in DOMAIN r : r[i].id = r[j].id => i = j

(* Plain, After, NextPlain, Bottom and Tiled, of a ring.                   *)
Plains(r) == {i \in DOMAIN r : r[i].id # MiniId}
Succ(r, i) == IF i = Len(r) THEN 1 ELSE i + 1
Below(r, i) == IF Succ(r, i) \in Plains(r) THEN Succ(r, i) ELSE Succ(r, Succ(r, i))
AtBottom(w, h) == w.sy + w.rows + 2 = h
Tiling(r, h, t) ==
  /\ \A i \in Plains(r) :
       /\ r[i].rows >= 2
       /\ r[Below(r, i)].sy = IF AtBottom(r[i], h) THEN t ELSE r[i].sy + r[i].rows + 1
  /\ \E b \in Plains(r) : \A i \in Plains(r) : AtBottom(r[i], h) <=> i = b

(* The end of window v is above the beginning of w.                        *)
Over(v, w) == v.sy + v.rows < w.sy

(* The place i of a ring counted from the place after b on.                *)
Rank(r, b, i) == IF i <= b THEN i + Len(r) ELSE i

(* Tiled says of an editor what Tiling says of its ring.                   *)
LEMMA TiledIsTiling ==
  ASSUME NEW e PROVE Tiled(e) <=> Tiling(e.ring, e.height, e.top)
  <1>1. Plain(e) = Plains(e.ring)
    BY DEF Plain, Plains
  <1>2. \A i : After(e, i) = Succ(e.ring, i)
    BY DEF After, Succ
  <1>3. \A i : NextPlain(e, i) = Below(e.ring, i)
    BY <1>1, <1>2, Zenon DEF NextPlain, Below
  <1>4. \A w : Bottom(e, w) <=> AtBottom(w, e.height)
    BY DEF Bottom, AtBottom
  <1> QED
    BY <1>1, <1>3, <1>4 DEF Tiled, Tiling

(* The fields of a window; the minibuffer's has an identity of its own.    *)
LEMMA WindowType ==
  /\ \A w \in Window : /\ w.id \in Ids \cup {MiniId} /\ w.id \in Int /\ w.sy \in Nat
                       /\ w.rows \in Nat /\ w.buf \in Buffers
  /\ MiniId \notin Ids
  BY WindowsAssumption DEF Window, Ids, MiniId

(* The least number of a set is in it.                                     *)
LEMMA NatMin ==
  ASSUME NEW S, S \subseteq Nat, S # {}
  PROVE  Min(S) \in S /\ \A x \in S : Min(S) <= x
  <1> DEFINE R == {ss \in Nat \X Nat : ss[1] < ss[2]}
  <1>0. IsWellFoundedOn(R, Nat)
    BY NatLessThanWellFounded DEF OpToRel
  <1>1. PICK n \in S : \A m \in S : <<m, n>> \notin R
    BY <1>0, WFMin
  <1>2. ASSUME NEW m \in S
        PROVE  n <= m
    <2>1. m \in Nat /\ n \in Nat /\ <<m, n>> \in Nat \X Nat /\ <<m, n>>[1] = m /\ <<m, n>>[2] = n
      OBVIOUS
    <2>2. ~(m < n)
      BY <1>1, <2>1, Zenon
    <2> QED
      BY <2>1, <2>2
  <1>3. \E x \in S : \A y \in S : x <= y
    BY <1>2
  <1> QED
    BY <1>3 DEF Min

(* Places in a ring: after each there is one, the minibuffer's is one at   *)
(* most, and below a window there is a window.                             *)
LEMMA RingFacts ==
  ASSUME NEW r, Ring(r)
  PROVE  /\ Len(r) \in Nat /\ DOMAIN r = 1..Len(r)
         /\ \A i \in DOMAIN r : /\ r[i] \in Window /\ r[i].sy \in Nat /\ r[i].rows \in Nat
                                /\ r[i].id \in Int /\ r[i].buf \in Buffers
         /\ \A i \in DOMAIN r : Succ(r, i) \in DOMAIN r
         /\ \A i \in DOMAIN r \ Plains(r), j \in DOMAIN r \ Plains(r) : i = j
         /\ \A i \in Plains(r) : i \in DOMAIN r /\ Below(r, i) \in Plains(r)
  <1>1. Len(r) \in Nat /\ DOMAIN r = 1..Len(r) /\ \A i \in DOMAIN r : r[i] \in Window
    BY DEF Ring
  <1>2. \A i \in DOMAIN r : /\ r[i].sy \in Nat /\ r[i].rows \in Nat
                            /\ r[i].id \in Int /\ r[i].buf \in Buffers
    BY <1>1, WindowType
  <1>3. \A i \in DOMAIN r : Succ(r, i) \in DOMAIN r
    BY <1>1 DEF Succ
  <1>4. \A i \in DOMAIN r \ Plains(r), j \in DOMAIN r \ Plains(r) : i = j
    BY DEF Ring, Plains
  <1>5. ASSUME NEW i \in Plains(r)
        PROVE  i \in DOMAIN r /\ Below(r, i) \in Plains(r)
    <2>1. i \in DOMAIN r /\ Succ(r, i) \in DOMAIN r /\ Succ(r, Succ(r, i)) \in DOMAIN r
      BY <1>3 DEF Plains
    <2>2. CASE Succ(r, i) \in Plains(r)
      BY <2>1, <2>2 DEF Below
    <2>3. CASE Succ(r, i) \notin Plains(r)
      <3>1. Succ(r, Succ(r, i)) # Succ(r, i)
        BY ONLY <1>1, <2>1, <2>3, i \in Plains(r) DEF Succ
      <3> QED
        BY <1>4, <2>1, <2>3, <3>1 DEF Below
    <2> QED
      BY <2>2, <2>3
  <1> QED
    BY <1>1, <1>2, <1>3, <1>4, <1>5

(* In a tiling the windows from the one after the bottom window on, round  *)
(* the ring, come down the screen.                                         *)
LEMMA RingDescends ==
  ASSUME NEW r, Ring(r), NEW h \in Nat, NEW t \in Nat, Tiling(r, h, t),
         NEW b \in Plains(r), \A i \in Plains(r) : AtBottom(r[i], h) <=> i = b,
         NEW i \in Plains(r), NEW j \in Plains(r), Rank(r, b, i) < Rank(r, b, j)
  PROVE  Over(r[i], r[j])
  <1> DEFINE n == Len(r)
             Pos(q) == IF q > n THEN q - n ELSE q
             S == {q \in (b + 1)..(b + n) : /\ Rank(r, b, i) < q /\ Pos(q) \in Plains(r)
                                            /\ ~Over(r[i], r[Pos(q)])}
  <1>0. n \in Nat /\ DOMAIN r = 1..n /\ b \in 1..n /\ i \in 1..n /\ j \in 1..n
    BY RingFacts
  <1>1. \A x \in Plains(r) : Rank(r, b, x) \in (b + 1)..(b + n) /\ Pos(Rank(r, b, x)) = x
    BY <1>0, RingFacts DEF Rank
  <1>2. \A q \in (b + 1)..(b + n) : Pos(q) \in 1..n /\ Rank(r, b, Pos(q)) = q
    BY <1>0 DEF Rank
  <1>3. \A q \in (b + 1)..(b + n) : q - 1 >= b + 1 => Succ(r, Pos(q - 1)) = Pos(q)
    BY <1>0 DEF Succ
  <1>4. \A x \in Plains(r) : r[x].sy \in Nat /\ r[x].rows \in Nat
    BY RingFacts
  <1> HIDE DEF n
  <1>5. ASSUME S # {} PROVE FALSE
    <2>1. S \subseteq Nat
      BY <1>0
    <2> DEFINE q == Min(S)
    <2>2. q \in S /\ \A x \in S : q <= x
      BY <1>5, <2>1, NatMin
    <2>3. /\ q \in (b + 1)..(b + n) /\ Rank(r, b, i) < q /\ Pos(q) \in Plains(r)
          /\ ~Over(r[i], r[Pos(q)])
      BY <2>2
    <2> HIDE DEF q, S
    <2>4. Rank(r, b, i) \in (b + 1)..(b + n) /\ Pos(Rank(r, b, i)) = i
      BY <1>1
    <2>5. /\ q - 1 \in (b + 1)..(b + n) /\ Rank(r, b, i) <= q - 1
          /\ Succ(r, Pos(q - 1)) = Pos(q) /\ Pos(q - 1) \in 1..n
      <3>1. q - 1 \in (b + 1)..(b + n) /\ Rank(r, b, i) <= q - 1 /\ q - 1 >= b + 1
        BY <1>0, <2>3, <2>4
      <3> QED
        BY <1>2, <1>3, <2>3, <3>1
    <2>6. ASSUME NEW p \in (b + 1)..(b + n), Rank(r, b, i) <= p, p < q, Pos(p) \in Plains(r),
                 Below(r, Pos(p)) = Pos(q)
          PROVE  FALSE
      <3>1. Pos(p) # b
        <4>1. Rank(r, b, Pos(p)) = p /\ p < b + n
          BY <1>0, <1>2, <2>3, <2>6
        <4>2. Rank(r, b, b) = b + n
          BY <1>0 DEF Rank, n
        <4> QED
          BY <1>0, <4>1, <4>2
      <3>2. r[Pos(q)].sy = r[Pos(p)].sy + r[Pos(p)].rows + 1
        BY <2>6, <3>1 DEF Tiling
      <3>3. p = Rank(r, b, i) \/ Over(r[i], r[Pos(p)])
        BY <1>0, <2>2, <2>3, <2>4, <2>6 DEF S
      <3>4. Over(r[i], r[Pos(q)])
        <4>1. CASE p = Rank(r, b, i)
          BY <1>4, <2>3, <2>4, <3>2, <4>1 DEF Over
        <4>2. CASE Over(r[i], r[Pos(p)])
          BY <1>4, <2>3, <2>6, <3>2, <4>2 DEF Over
        <4> QED
          BY <3>3, <4>1, <4>2
      <3> QED
        BY <2>3, <3>4
    <2>7. CASE Pos(q - 1) \in Plains(r)
      BY <1>0, <2>3, <2>5, <2>6, <2>7 DEF Below
    <2>8. CASE Pos(q - 1) \notin Plains(r)
      <3>1. q - 1 # Rank(r, b, i)
        BY <2>4, <2>8
      <3>2. /\ q - 2 \in (b + 1)..(b + n) /\ Rank(r, b, i) <= q - 2 /\ (q - 1) - 1 = q - 2
            /\ (q - 1) - 1 >= b + 1
        BY <1>0, <2>3, <2>4, <2>5, <3>1
      <3>3. Pos(q - 2) \in 1..n /\ Succ(r, Pos(q - 2)) = Pos(q - 1)
        BY <1>2, <1>3, <2>5, <3>2
      <3>4. Pos(q - 2) # Pos(q - 1)
        BY <1>0, <2>3, <2>5, <3>2
      <3>5. Pos(q - 2) \in Plains(r)
        BY <1>0, <2>5, <2>8, <3>3, <3>4, RingFacts
      <3>6. Below(r, Pos(q - 2)) = Pos(q)
        BY <2>5, <2>8, <3>3 DEF Below
      <3> QED
        BY <1>0, <2>3, <2>6, <3>2, <3>5, <3>6
    <2> QED
      BY <2>7, <2>8
  <1> QED
    BY <1>1, <1>5

(* In a tiling there are a bottom and a top window, one below the other in *)
(* the ring, and of any two windows one is over the other.                 *)
LEMMA RingLayout ==
  ASSUME NEW r, Ring(r), NEW h \in Nat, NEW t \in Nat, Tiling(r, h, t)
  PROVE  \E b \in Plains(r) :
           /\ \A i \in Plains(r) : AtBottom(r[i], h) <=> i = b
           /\ \A i, j \in Plains(r) : Rank(r, b, i) < Rank(r, b, j) => Over(r[i], r[j])
           /\ \A i, j \in Plains(r) : i # j => Over(r[i], r[j]) \/ Over(r[j], r[i])
           /\ \A i \in Plains(r) : i # b => Over(r[i], r[b])
           /\ r[Below(r, b)].sy = t
           /\ \A i \in Plains(r) : i # Below(r, b) => Over(r[Below(r, b)], r[i])
  <1>1. PICK b \in Plains(r) : \A i \in Plains(r) : AtBottom(r[i], h) <=> i = b
    BY DEF Tiling
  <1>2. \A i, j \in Plains(r) : Rank(r, b, i) < Rank(r, b, j) => Over(r[i], r[j])
    BY <1>1, RingDescends
  <1> DEFINE n == Len(r)
  <1>3. /\ n \in Nat /\ DOMAIN r = 1..n /\ b \in 1..n
        /\ \A i \in Plains(r) : i \in 1..n /\ Below(r, i) \in Plains(r)
    BY RingFacts
  <1>8. /\ \A i : Rank(r, b, i) = IF i <= b THEN i + n ELSE i
        /\ \A i : Succ(r, i) = IF i = n THEN 1 ELSE i + 1
    BY DEF Rank, Succ
  <1> HIDE DEF n
  <1>4. \A i, j \in Plains(r) : i # j => Rank(r, b, i) < Rank(r, b, j) \/ Rank(r, b, j) < Rank(r, b, i)
    BY <1>3, <1>8
  <1>5. \A i \in Plains(r) : i # b => Rank(r, b, i) < Rank(r, b, b)
    BY <1>3, <1>8
  <1>6. \A i \in Plains(r) : i # Below(r, b) => Rank(r, b, Below(r, b)) < Rank(r, b, i)
    <2>1. \A i \in DOMAIN r : i \notin Plains(r) => \A j \in DOMAIN r : j \notin Plains(r) => i = j
      BY RingFacts
    <2>2. b \in 1..n /\ n \in Nat /\ Below(r, b) \in 1..n
      BY <1>3
    <2>3. ASSUME NEW i \in Plains(r), i # Below(r, b)
          PROVE  Rank(r, b, Below(r, b)) < Rank(r, b, i)
      <3>1. i \in 1..n
        BY <1>3
      <3>2. CASE Succ(r, b) \in Plains(r)
        <4>1. Below(r, b) = Succ(r, b)
          BY <3>2 DEF Below
        <4> QED
          BY ONLY <1>8, <2>2, <2>3, <3>1, <4>1
      <3>3. CASE Succ(r, b) \notin Plains(r)
        <4>1. Below(r, b) = Succ(r, Succ(r, b)) /\ i # Succ(r, b)
          BY <2>3, <3>3 DEF Below
        <4> QED
          BY ONLY <1>8, <2>2, <2>3, <3>1, <4>1
      <3> QED
        BY <3>2, <3>3
    <2> QED
      BY <2>3
  <1>7. r[Below(r, b)].sy = t
    BY <1>1 DEF Tiling
  <1> QED
    BY <1>1, <1>2, <1>3, <1>4, <1>5, <1>6, <1>7

-----------------------------------------------------------------------------
(* Turning the ring.                                                       *)

From(n, k, i) == IF i + k - 1 <= n THEN i + k - 1 ELSE i + k - 1 - n
To(n, k, i) == IF i >= k THEN i - k + 1 ELSE i + n - k + 1

(* other_window: each window of the turned ring is one of the ring, and    *)
(* the other way round.                                                    *)
LEMMA TurnedAt ==
  ASSUME NEW S, NEW r \in Seq(S), NEW k \in DOMAIN r
  PROVE  /\ Turned(r, k) \in Seq(S)
         /\ Len(Turned(r, k)) = Len(r) /\ DOMAIN Turned(r, k) = DOMAIN r
         /\ \A i \in DOMAIN r : /\ From(Len(r), k, i) \in DOMAIN r
                                /\ Turned(r, k)[i] = r[From(Len(r), k, i)]
         /\ \A i \in DOMAIN r : /\ To(Len(r), k, i) \in DOMAIN r
                                /\ From(Len(r), k, To(Len(r), k, i)) = i
  <1> DEFINE n == Len(r)
             a == SubSeq(r, k, n)
             z == SubSeq(r, 1, k - 1)
  <1>1. n \in Nat /\ DOMAIN r = 1..n /\ k \in 1..n
    OBVIOUS
  <1>2. a \in Seq(S) /\ Len(a) = n - k + 1 /\ \A i \in 1..(n - k + 1) : a[i] = r[k + i - 1]
    <2>1. a \in Seq(S) /\ Len(a) = n - k + 1
      BY <1>1
    <2> QED
      BY <1>1, <2>1
  <1>3. z \in Seq(S) /\ Len(z) = k - 1 /\ \A i \in 1..(k - 1) : z[i] = r[i]
    <2>1. z \in Seq(S) /\ Len(z) = k - 1
      BY <1>1
    <2> QED
      BY <1>1, <2>1
  <1>4. Turned(r, k) = a \o z
    BY DEF Turned
  <1> HIDE DEF a, z, n
  <1>5. /\ a \o z \in Seq(S) /\ Len(a \o z) = n
        /\ \A i \in 1..n : (a \o z)[i] = IF i <= Len(a) THEN a[i] ELSE z[i - Len(a)]
    <2>0. a \in Seq(S) /\ z \in Seq(S)
      BY <1>2, <1>3
    <2>1. a \o z \in Seq(S) /\ Len(a \o z) = Len(a) + Len(z)
      BY ONLY <2>0
    <2>2. \A i \in 1..(Len(a) + Len(z)) : (a \o z)[i] = IF i <= Len(a) THEN a[i] ELSE z[i - Len(a)]
      BY ONLY <2>0
    <2>3. Len(a) + Len(z) = n
      BY ONLY <1>1, <1>2, <1>3
    <2> QED
      BY <2>1, <2>2, <2>3
  <1>6. ASSUME NEW i \in 1..n
        PROVE  From(n, k, i) \in 1..n /\ Turned(r, k)[i] = r[From(n, k, i)]
    <2>1. (a \o z)[i] = IF i <= n - k + 1 THEN a[i] ELSE z[i - (n - k + 1)]
      BY <1>2, <1>5
    <2>2. CASE i <= n - k + 1
      <3>1. From(n, k, i) = k + i - 1 /\ k + i - 1 \in 1..n /\ i \in 1..(n - k + 1)
        BY ONLY <1>1, <2>2, i \in 1..n DEF From
      <3> QED
        BY <1>2, <1>4, <2>1, <2>2, <3>1
    <2>3. CASE ~(i <= n - k + 1)
      <3>1. i - (n - k + 1) \in 1..(k - 1) /\ From(n, k, i) = i - (n - k + 1)
        BY <1>1, <2>3 DEF From
      <3> QED
        BY <1>1, <1>3, <1>4, <2>1, <2>3, <3>1
    <2> QED
      BY <2>2, <2>3
  <1>7. ASSUME NEW i \in 1..n
        PROVE  To(n, k, i) \in 1..n /\ From(n, k, To(n, k, i)) = i
    BY <1>1 DEF From, To
  <1>8. DOMAIN (a \o z) = 1..Len(a \o z)
    BY <1>5
  <1> QED
    BY <1>1, <1>4, <1>5, <1>6, <1>7, <1>8 DEF n

(* A turned ring tiles the screen as the ring does.                        *)
LEMMA TurnedTiling ==
  ASSUME NEW r, Ring(r), NEW k \in DOMAIN r
  PROVE  /\ Ring(Turned(r, k))
         /\ \A h, t \in Nat : Tiling(r, h, t) => Tiling(Turned(r, k), h, t)
  <1> DEFINE n == Len(r)
             s == Turned(r, k)
             F(i) == From(n, k, i)
  <1>1. n \in Nat /\ DOMAIN r = 1..n /\ k \in 1..n /\ r \in Seq(Window)
    BY RingFacts DEF Ring
  <1>2. /\ s \in Seq(Window) /\ Len(s) = n /\ DOMAIN s = 1..n
        /\ \A i \in 1..n : F(i) \in 1..n /\ s[i] = r[F(i)]
        /\ \A i \in 1..n : To(n, k, i) \in 1..n /\ F(To(n, k, i)) = i
    <2>1. \A S, q : q \in Seq(S) =>
            \A j \in DOMAIN q :
              /\ Turned(q, j) \in Seq(S)
              /\ Len(Turned(q, j)) = Len(q) /\ DOMAIN Turned(q, j) = DOMAIN q
              /\ \A i \in DOMAIN q : /\ From(Len(q), j, i) \in DOMAIN q
                                     /\ Turned(q, j)[i] = q[From(Len(q), j, i)]
              /\ \A i \in DOMAIN q : /\ To(Len(q), j, i) \in DOMAIN q
                                     /\ From(Len(q), j, To(Len(q), j, i)) = i
      BY TurnedAt
    <2> HIDE DEF F
    <2>2. /\ s \in Seq(Window) /\ Len(s) = n /\ DOMAIN s = DOMAIN r
          /\ \A i \in DOMAIN r : F(i) \in DOMAIN r /\ s[i] = r[F(i)]
          /\ \A i \in DOMAIN r : To(n, k, i) \in DOMAIN r /\ F(To(n, k, i)) = i
      BY <1>1, <2>1, Zenon DEF F
    <2> HIDE DEF s, n
    <2> QED
      BY ONLY <1>1, <2>2
  <1>8. /\ \A i : Succ(r, i) = IF i = n THEN 1 ELSE i + 1
        /\ \A i : Succ(s, i) = IF i = n THEN 1 ELSE i + 1
    BY <1>2 DEF Succ
  <1> HIDE DEF n, s
  <1>3. \A i, j \in 1..n : F(i) = F(j) => i = j
    BY <1>1 DEF From
  <1>4. \A i \in 1..n : Succ(s, i) \in 1..n /\ F(Succ(s, i)) = Succ(r, F(i))
    <2>1. \A i \in 1..n : Succ(s, i) \in 1..n /\ F(Succ(s, i)) = (IF F(i) = n THEN 1 ELSE F(i) + 1)
      BY ONLY <1>1, <1>8 DEF From
    <2> QED
      BY <1>8, <2>1
  <1> HIDE DEF F
  <1>5. Ring(s)
    <2>1. \A i, j \in 1..n : r[i].id = r[j].id => i = j
      BY <1>1 DEF Ring
    <2>2. ASSUME NEW i \in 1..n, NEW j \in 1..n, s[i].id = s[j].id
          PROVE  i = j
      <3>1. s[i] = r[F(i)] /\ s[j] = r[F(j)] /\ F(i) \in 1..n /\ F(j) \in 1..n
        BY <1>2
      <3>2. F(i) = F(j)
        BY <2>1, <2>2, <3>1
      <3> QED
        BY <1>3, <3>2
    <2> QED
      BY <1>2, <2>2 DEF Ring
  <1>6. \A i \in 1..n : i \in Plains(s) <=> F(i) \in Plains(r)
    BY <1>1, <1>2 DEF Plains
  <1>7. ASSUME NEW i \in 1..n
        PROVE  F(Below(s, i)) = Below(r, F(i)) /\ Below(s, i) \in 1..n
    <2> DEFINE j == Succ(s, i)
    <2>1. j \in 1..n /\ F(j) = Succ(r, F(i)) /\ (j \in Plains(s) <=> F(j) \in Plains(r))
      BY <1>4, <1>6
    <2>2. Succ(s, j) \in 1..n /\ F(Succ(s, j)) = Succ(r, F(j))
      BY <1>4, <2>1
    <2> QED
      BY <2>1, <2>2, Zenon DEF Below
  <1>9. ASSUME NEW h \in Nat, NEW t \in Nat, Tiling(r, h, t)
        PROVE  Tiling(s, h, t)
    <2>1. ASSUME NEW i \in Plains(s)
          PROVE  /\ s[i].rows >= 2
                 /\ s[Below(s, i)].sy = IF AtBottom(s[i], h) THEN t ELSE s[i].sy + s[i].rows + 1
      <3>1. i \in 1..n /\ F(i) \in Plains(r) /\ s[i] = r[F(i)]
        BY <1>2, <1>6, <2>1 DEF Plains
      <3>2. s[Below(s, i)] = r[Below(r, F(i))]
        BY <1>2, <1>7, <3>1
      <3> QED
        BY <1>9, <3>1, <3>2 DEF Tiling
    <2>2. \E b \in Plains(s) : \A i \in Plains(s) : AtBottom(s[i], h) <=> i = b
      <3>1. PICK b \in Plains(r) : \A i \in Plains(r) : AtBottom(r[i], h) <=> i = b
        BY <1>9 DEF Tiling
      <3>2. b \in 1..n
        BY <1>1 DEF Plains
      <3>3. To(n, k, b) \in 1..n /\ F(To(n, k, b)) = b /\ To(n, k, b) \in Plains(s)
        BY <1>2, <1>6, <3>2
      <3>4. ASSUME NEW i \in Plains(s)
            PROVE  AtBottom(s[i], h) <=> i = To(n, k, b)
        <4>1. i \in 1..n /\ F(i) \in Plains(r) /\ s[i] = r[F(i)]
          BY <1>2, <1>6, <3>4 DEF Plains
        <4> QED
          BY <1>3, <3>1, <3>3, <4>1
      <3> QED
        BY <3>3, <3>4
    <2> QED
      BY <2>1, <2>2 DEF Tiling
  <1> QED
    BY <1>5, <1>9 DEF s

(* The window after i comes next down the screen, except after the bottom  *)
(* window, where the top window comes.                                     *)
LEMMA BelowIsNext ==
  ASSUME NEW r, Ring(r), NEW b \in Plains(r)
  PROVE  /\ \A i \in Plains(r) : i # b =>
              /\ Rank(r, b, i) < Rank(r, b, Below(r, i))
              /\ \A x \in Plains(r) : Rank(r, b, i) < Rank(r, b, x)
                                        => Rank(r, b, Below(r, i)) <= Rank(r, b, x)
         /\ \A x \in Plains(r) : Rank(r, b, Below(r, b)) <= Rank(r, b, x)
  <1> DEFINE n == Len(r)
             m == CHOOSE i \in DOMAIN r : i \notin Plains(r)
  <1>1. /\ n \in Nat /\ DOMAIN r = 1..n
        /\ \A i \in Plains(r) : i \in 1..n /\ Below(r, i) \in Plains(r)
        /\ \A i \in 1..n : i \notin Plains(r) => i = m
    BY RingFacts
  <1>2. /\ \A i : Rank(r, b, i) = IF i <= b THEN i + n ELSE i
        /\ \A i : Succ(r, i) = IF i = n THEN 1 ELSE i + 1
    BY DEF Rank, Succ
  <1> HIDE DEF n, m
  <1>3. ASSUME NEW i \in Plains(r)
        PROVE  \/ Below(r, i) = (IF i = n THEN 1 ELSE i + 1)
               \/ /\ (IF i = n THEN 1 ELSE i + 1) = m /\ m \notin Plains(r)
                  /\ Below(r, i) = (IF m = n THEN 1 ELSE m + 1)
    BY <1>1, <1>2 DEF Below
  <1>4. ASSUME NEW i \in Plains(r), i # b
        PROVE  Rank(r, b, i) < Rank(r, b, Below(r, i))
    <2>1. i \in 1..n /\ b \in 1..n
      BY <1>1
    <2>2. i \in 1..n /\ b \in 1..n /\ n \in Nat /\ Below(r, i) \in 1..n
      BY <1>1
    <2>3. m \notin Plains(r) => b # m
      OBVIOUS
    <2> QED
      BY ONLY <1>2, <1>3, <1>4, <2>2, <2>3
  <1>5. ASSUME NEW i \in Plains(r), NEW x \in Plains(r), i # b, Rank(r, b, i) < Rank(r, b, x)
        PROVE  Rank(r, b, Below(r, i)) <= Rank(r, b, x)
    <2>2. i \in 1..n /\ b \in 1..n /\ x \in 1..n /\ n \in Nat /\ Below(r, i) \in 1..n
      BY <1>1
    <2>3. m \notin Plains(r) => b # m /\ x # m
      OBVIOUS
    <2> QED
      BY ONLY <1>2, <1>3, <1>5, <2>2, <2>3
  <1>6. ASSUME NEW x \in Plains(r)
        PROVE  Rank(r, b, Below(r, b)) <= Rank(r, b, x)
    <2>2. b \in 1..n /\ x \in 1..n /\ n \in Nat /\ Below(r, b) \in 1..n
      BY <1>1
    <2>3. m \notin Plains(r) => b # m /\ x # m
      OBVIOUS
    <2> QED
      BY ONLY <1>2, <1>3, <2>2, <2>3
  <1> QED
    BY <1>4, <1>5, <1>6

(* What a window shows does not matter.                                    *)
LEMMA SameShape ==
  ASSUME NEW r, Ring(r), NEW s, s \in Seq(Window), Len(s) = Len(r),
         \A i \in DOMAIN r : s[i].id = r[i].id /\ s[i].sy = r[i].sy /\ s[i].rows = r[i].rows
  PROVE  /\ Ring(s) /\ Plains(s) = Plains(r)
         /\ \A h, t \in Nat : Tiling(r, h, t) => Tiling(s, h, t)
  <1>1. DOMAIN s = DOMAIN r
    BY DEF Ring
  <1>2. Ring(s)
    BY <1>1 DEF Ring
  <1>3. Plains(s) = Plains(r)
    BY <1>1 DEF Plains
  <1>4. \A i : Below(s, i) = Below(r, i)
    BY <1>3 DEF Below, Succ
  <1>5. \A i \in Plains(r) : i \in DOMAIN r /\ Below(r, i) \in DOMAIN r
    BY RingFacts
  <1>6. \A h : \A i \in Plains(r) : AtBottom(s[i], h) <=> AtBottom(r[i], h)
    BY <1>5 DEF AtBottom
  <1>7. ASSUME NEW h \in Nat, NEW t \in Nat, Tiling(r, h, t)
        PROVE  Tiling(s, h, t)
    <2>1. ASSUME NEW i \in Plains(r)
          PROVE  /\ s[i].rows >= 2
                 /\ s[Below(s, i)].sy = IF AtBottom(s[i], h) THEN t ELSE s[i].sy + s[i].rows + 1
      <3>1. /\ s[i].rows = r[i].rows /\ s[i].sy = r[i].sy
            /\ s[Below(s, i)].sy = r[Below(r, i)].sy
        BY <1>4, <1>5
      <3>2. /\ r[i].rows >= 2
            /\ r[Below(r, i)].sy = IF AtBottom(r[i], h) THEN t ELSE r[i].sy + r[i].rows + 1
        BY <1>7 DEF Tiling
      <3> QED
        BY <1>6, <3>1, <3>2
    <2>2. \E b \in Plains(r) : \A i \in Plains(r) : AtBottom(s[i], h) <=> i = b
      BY <1>6, <1>7 DEF Tiling
    <2> QED
      BY <1>3, <2>1, <2>2 DEF Tiling
  <1> QED
    BY <1>2, <1>3, <1>7

(* split_window: window 1 becomes two.                                     *)
LEMMA SplitTiling ==
  ASSUME NEW r, Ring(r), NEW h \in Nat, NEW t \in Nat, Tiling(r, h, t), 1 \in Plains(r),
         NEW s, s \in Seq(Window), Len(s) = Len(r) + 1, NEW m \in Nat,
         m >= 2, r[1].rows >= m + 3,
         s[1].id = r[1].id, s[1].sy = r[1].sy, s[1].rows = m,
         s[2].id # MiniId, \A i \in DOMAIN r : r[i].id # s[2].id,
         s[2].sy = r[1].sy + m + 1, s[2].rows = r[1].rows - m - 1,
         \A i \in 3..Len(s) : s[i] = r[i - 1]
  PROVE  Ring(s) /\ Tiling(s, h, t)
  <1> DEFINE n == Len(r)
             O(i) == IF i = 1 THEN 1 ELSE i - 1
             M(i) == IF i = 1 THEN 1 ELSE i + 1
  <1>1. n \in Nat /\ DOMAIN r = 1..n /\ 1 \in 1..n /\ Len(s) = n + 1 /\ DOMAIN s = 1..(n + 1)
    BY RingFacts DEF Plains
  <1>2. /\ \A i : Succ(r, i) = IF i = n THEN 1 ELSE i + 1
        /\ \A i : Succ(s, i) = IF i = n + 1 THEN 1 ELSE i + 1
    BY <1>1 DEF Succ
  <1>3. \A i \in 1..n : r[i].sy \in Nat /\ r[i].rows \in Nat
    BY <1>1, RingFacts
  <1> HIDE DEF n
  <1>15. /\ r[1].sy \in Nat /\ r[1].rows \in Nat /\ s[1].sy = r[1].sy /\ s[1].rows = m
         /\ m \in Nat /\ m >= 2 /\ r[1].rows >= m + 3 /\ s[2].sy = r[1].sy + m + 1
         /\ s[2].rows = r[1].rows - m - 1
    BY <1>1, <1>3
  <1>16. r[1].sy + r[1].rows + 2 <= h
    <2>1. PICK b \in Plains(r) : /\ \A j \in Plains(r) : AtBottom(r[j], h) <=> j = b
                                 /\ \A j \in Plains(r) : j # b => Over(r[j], r[b])
      BY RingLayout
    <2>2. b \in 1..n /\ r[b].sy \in Nat /\ r[b].rows \in Nat /\ AtBottom(r[b], h)
      BY <1>1, <1>3, <2>1 DEF Plains
    <2>3. b = 1 \/ Over(r[1], r[b])
      BY <2>1
    <2> QED
      BY ONLY <1>15, <2>2, <2>3, h \in Nat DEF Over, AtBottom
  <1>17. ~AtBottom(s[1], h)
    BY ONLY <1>15, <1>16, h \in Nat DEF AtBottom
  <1>18. AtBottom(s[2], h) <=> AtBottom(r[1], h)
    BY ONLY <1>15, h \in Nat DEF AtBottom
  <1>4. \A i \in 3..(n + 1) : s[i] = r[i - 1] /\ i - 1 \in 2..n
    BY <1>1
  <1>5. Ring(s)
    <2>1. ASSUME NEW i \in 1..(n + 1), NEW j \in 1..(n + 1), s[i].id = s[j].id
          PROVE  i = j
      <3>0. \A x, y \in 1..n : r[x].id = r[y].id => x = y
        BY <1>1 DEF Ring
      <3>1. i = 2 \/ (O(i) \in 1..n /\ s[i].id = r[O(i)].id)
        BY <1>1, <1>4
      <3>2. j = 2 \/ (O(j) \in 1..n /\ s[j].id = r[O(j)].id)
        BY <1>1, <1>4
      <3>3. CASE i = 2 \/ j = 2
        BY <1>1, <2>1, <3>1, <3>2, <3>3
      <3>4. CASE i # 2 /\ j # 2
        <4>1. O(i) = O(j)
          BY <2>1, <3>0, <3>1, <3>2, <3>4
        <4> QED
          BY <3>4, <4>1
      <3> QED
        BY <3>3, <3>4
    <2> QED
      BY <1>1, <2>1 DEF Ring
  <1>6. \A i \in 1..(n + 1) : i \in Plains(s) <=> i = 2 \/ O(i) \in Plains(r)
    <2>1. 1 \in Plains(s) /\ 2 \in Plains(s)
      BY <1>1 DEF Plains
    <2>2. \A i \in 3..(n + 1) : i \in Plains(s) <=> i - 1 \in Plains(r)
      BY <1>1, <1>4 DEF Plains
    <2> QED
      BY <1>1, <2>1, <2>2
  <1>7. \A i \in 1..n : /\ M(i) \in 1..(n + 1) /\ O(M(i)) = i /\ M(i) # 2
                        /\ M(i) \in Plains(s) <=> i \in Plains(r)
    BY <1>1, <1>6
  <1>8. \A i \in 2..(n + 1) : /\ O(i) \in 1..n
                              /\ Succ(s, i) = M(Succ(r, O(i))) /\ Succ(r, O(i)) \in 1..n
    BY <1>1, <1>2
  <1>9. ASSUME NEW i \in 2..(n + 1)
        PROVE  /\ Below(s, i) = M(Below(r, O(i)))
               /\ O(i) \in Plains(r) => Below(r, O(i)) \in 1..n
    <2>1. O(i) \in 1..n /\ Succ(r, O(i)) \in 1..n /\ Succ(s, i) = M(Succ(r, O(i)))
      BY <1>8
    <2>2. CASE Succ(r, O(i)) \in Plains(r)
      BY <1>7, <2>1, <2>2 DEF Below
    <2>3. CASE Succ(r, O(i)) \notin Plains(r)
      <3>1. Succ(s, i) \notin Plains(s) /\ Succ(s, i) \in 1..(n + 1)
        BY <1>7, <2>1, <2>3
      <3>2. Succ(r, O(i)) # 1
        BY <2>3
      <3>3. Succ(s, i) \in 2..(n + 1) /\ O(Succ(s, i)) = Succ(r, O(i))
        BY <1>1, <2>1, <3>1, <3>2
      <3>4. Succ(s, Succ(s, i)) = M(Succ(r, Succ(r, O(i))))
        BY <1>8, <3>3
      <3> QED
        BY <2>3, <3>1, <3>4, RingFacts, <1>1 DEF Below
    <2> QED
      BY <2>2, <2>3
  <1>10. Below(s, 1) = 2
    BY <1>1, <1>2, <1>6 DEF Below
  <1> HIDE DEF O, M
  <1>11. \A i \in 1..n : s[M(i)].sy = r[i].sy
    BY <1>1, <1>4 DEF M
  <1>12. \A i \in Plains(r) : i \in 1..n /\ Below(r, i) \in 1..n
    BY <1>1, RingFacts
  <1>13. ASSUME NEW i \in Plains(s)
         PROVE  /\ s[i].rows >= 2
                /\ s[Below(s, i)].sy = IF AtBottom(s[i], h) THEN t ELSE s[i].sy + s[i].rows + 1
    <2>0. i \in 1..(n + 1)
      BY <1>1 DEF Plains
    <2>1. CASE i = 1
      BY <1>10, <1>15, <1>17, <2>1
    <2>2. CASE i = 2
      <3>2. s[Below(s, 2)].sy = r[Below(r, 1)].sy
        BY <1>1, <1>9, <1>11, <1>12 DEF O
      <3>3. r[Below(r, 1)].sy = IF AtBottom(r[1], h) THEN t ELSE r[1].sy + r[1].rows + 1
        BY DEF Tiling
      <3> QED
        BY ONLY <1>15, <1>18, <2>2, <3>2, <3>3
    <2>3. CASE i \in 3..(n + 1)
      <3>1. s[i] = r[i - 1] /\ O(i) = i - 1 /\ i - 1 \in Plains(r)
        BY <1>4, <1>6, <2>3 DEF O
      <3>2. s[Below(s, i)].sy = r[Below(r, i - 1)].sy
        BY <1>1, <1>9, <1>11, <1>12, <2>3, <3>1
      <3> QED
        BY <3>1, <3>2 DEF Tiling
    <2> QED
      BY <1>1, <2>0, <2>1, <2>2, <2>3
  <1>14. \E b \in Plains(s) : \A i \in Plains(s) : AtBottom(s[i], h) <=> i = b
    <2>1. PICK b \in Plains(r) : /\ \A j \in Plains(r) : AtBottom(r[j], h) <=> j = b
                                 /\ \A j \in Plains(r) : j # b => Over(r[j], r[b])
      BY RingLayout
    <2>2. ~AtBottom(s[1], h)
      BY <1>17
    <2>3. AtBottom(s[2], h) <=> AtBottom(r[1], h)
      BY <1>18
    <2>4. \A i \in 3..(n + 1) : i \in Plains(s) => i - 1 \in Plains(r) /\ s[i] = r[i - 1]
      BY <1>4, <1>6 DEF O
    <2>5. /\ b + 1 \in 2..(n + 1) /\ b \in 1..n
          /\ b + 1 \in Plains(s)
      BY <1>1, <1>6, <1>12 DEF O
    <2>6. ASSUME NEW i \in Plains(s)
          PROVE  AtBottom(s[i], h) <=> i = b + 1
      <3>1. i \in 1..(n + 1)
        BY <1>1 DEF Plains
      <3>2. CASE i = 1
        BY <2>2, <2>5, <3>2
      <3>3. CASE i = 2
        BY <2>1, <2>3, <2>5, <3>3
      <3>4. CASE i \in 3..(n + 1)
        BY <2>1, <2>4, <2>5, <2>6, <3>4
      <3> QED
        BY <3>1, <3>2, <3>3, <3>4
    <2> QED
      BY <2>5, <2>6
  <1> QED
    BY <1>5, <1>13, <1>14 DEF Tiling

(* The windows keep their order; what the rows are is said of each place.  *)
LEMMA Reshaped ==
  ASSUME NEW r, Ring(r), NEW s, s \in Seq(Window), Len(s) = Len(r),
         \A i \in DOMAIN r : s[i].id = r[i].id
  PROVE  /\ Ring(s) /\ Plains(s) = Plains(r)
         /\ \A i : Below(s, i) = Below(r, i)
  <1>1. DOMAIN s = DOMAIN r
    BY DEF Ring
  <1>2. Ring(s)
    BY <1>1 DEF Ring
  <1>3. Plains(s) = Plains(r)
    BY <1>1 DEF Plains
  <1>4. \A i : Below(s, i) = Below(r, i)
    BY <1>3 DEF Below, Succ
  <1> QED
    BY <1>2, <1>3, <1>4

(* one_window.                                                             *)
LEMMA OneTiling ==
  ASSUME NEW r, Ring(r), 1 \in Plains(r), \A i \in Plains(r) : i = 1, Len(r) \in {1, 2},
         NEW h \in Nat, NEW t \in Nat, r[1].rows >= 2, r[1].sy = t, AtBottom(r[1], h)
  PROVE  Tiling(r, h, t)
  <1>1. Len(r) \in Nat /\ DOMAIN r = 1..Len(r) /\ \A i \in Plains(r) : Below(r, i) \in Plains(r)
    BY RingFacts
  <1>2. Below(r, 1) = 1
    BY <1>1
  <1> QED
    BY <1>2 DEF Tiling

(* The bottom window takes the rows of a screen of another height.         *)
LEMMA ResizedTiling ==
  ASSUME NEW r, Ring(r), NEW h \in Nat, NEW t \in Nat, Tiling(r, h, t),
         NEW b \in Plains(r), AtBottom(r[b], h),
         NEW k \in Nat, k > 2 + r[b].sy + 1,
         NEW s, s \in Seq(Window), Len(s) = Len(r), \A i \in DOMAIN r : s[i].id = r[i].id,
         \A i \in Plains(r) : /\ s[i].sy = r[i].sy
                              /\ s[i].rows = IF i = b THEN k - 2 - r[b].sy ELSE r[i].rows
  PROVE  Ring(s) /\ Tiling(s, k, t)
  <1>1. Ring(s) /\ Plains(s) = Plains(r) /\ \A i : Below(s, i) = Below(r, i)
    BY Reshaped
  <1>2. /\ \A i \in Plains(r) : Below(r, i) \in Plains(r)
        /\ \A i \in Plains(r) : r[i].sy \in Nat /\ r[i].rows \in Nat
    BY RingFacts
  <1>3. \A i \in Plains(r) : /\ AtBottom(r[i], h) <=> i = b
                             /\ i # b => Over(r[i], r[b])
    BY RingLayout
  <1>4. ASSUME NEW i \in Plains(r)
        PROVE  AtBottom(s[i], k) <=> i = b
    <2>1. /\ r[i].sy \in Nat /\ r[i].rows \in Nat /\ r[b].sy \in Nat /\ k \in Nat
          /\ s[i].sy = r[i].sy /\ s[i].rows = IF i = b THEN k - 2 - r[b].sy ELSE r[i].rows
          /\ i # b => Over(r[i], r[b])
          /\ k > 2 + r[b].sy + 1
      BY <1>2, <1>3
    <2> QED
      BY ONLY <2>1 DEF AtBottom, Over
  <1>5. ASSUME NEW i \in Plains(r)
        PROVE  /\ s[i].rows >= 2
               /\ s[Below(s, i)].sy = IF AtBottom(s[i], k) THEN t ELSE s[i].sy + s[i].rows + 1
    <2>1. /\ r[i].rows >= 2
          /\ r[Below(r, i)].sy = IF i = b THEN t ELSE r[i].sy + r[i].rows + 1
      BY <1>3 DEF Tiling
    <2>2. s[Below(s, i)].sy = r[Below(r, i)].sy
      BY <1>1, <1>2
    <2>3. /\ s[i].sy = r[i].sy /\ s[i].rows = IF i = b THEN k - 2 - r[b].sy ELSE r[i].rows
          /\ r[b].sy \in Nat /\ k \in Nat /\ k > 2 + r[b].sy + 1
      BY <1>2
    <2> QED
      BY ONLY <1>4, <2>1, <2>2, <2>3, i \in Plains(r)
  <1> QED
    BY <1>1, <1>4, <1>5 DEF Tiling

(* The top window gives or gets the row of the menu bar.                   *)
LEMMA MenuTiling ==
  ASSUME NEW r, Ring(r), NEW h \in Nat, NEW t \in Nat, Tiling(r, h, t),
         NEW k \in Plains(r), r[k].sy = t,
         NEW s, s \in Seq(Window), Len(s) = Len(r), \A i \in DOMAIN r : s[i].id = r[i].id,
         s[k].rows >= 2, t + r[k].rows = s[k].sy + s[k].rows,
         \A i \in Plains(r) : i # k => s[i].sy = r[i].sy /\ s[i].rows = r[i].rows
  PROVE  Ring(s) /\ Tiling(s, h, s[k].sy)
  <1> DEFINE u == s[k].sy
             m == s[k].rows
  <1>0. u \in Nat /\ m \in Nat
    <2>1. k \in DOMAIN s
      BY RingFacts DEF Plains
    <2> QED
      BY <2>1, WindowType
  <1> HIDE DEF u, m
  <1>1. Ring(s) /\ Plains(s) = Plains(r) /\ \A i : Below(s, i) = Below(r, i)
    BY Reshaped
  <1>2. /\ \A i \in Plains(r) : Below(r, i) \in Plains(r)
        /\ \A i \in Plains(r) : r[i].sy \in Nat /\ r[i].rows \in Nat
    BY RingFacts
  <1>3. PICK b \in Plains(r) :
          /\ \A i \in Plains(r) : AtBottom(r[i], h) <=> i = b
          /\ r[Below(r, b)].sy = t
          /\ \A i \in Plains(r) : i # Below(r, b) => Over(r[Below(r, b)], r[i])
    BY RingLayout
  <1>4. Below(r, b) = k
    <2>1. Below(r, b) \in Plains(r)
      BY <1>2
    <2>2. ASSUME k # Below(r, b) PROVE FALSE
      <3>1. Over(r[Below(r, b)], r[k])
        BY <1>3, <2>2
      <3>2. r[Below(r, b)].rows \in Nat /\ r[Below(r, b)].sy = t
        BY <1>2, <1>3, <2>1
      <3>3. r[k].sy = t /\ t \in Nat
        OBVIOUS
      <3> QED
        BY ONLY <3>1, <3>2, <3>3 DEF Over
    <2> QED
      BY <2>2
  <1>5. ASSUME NEW i \in Plains(r)
        PROVE  /\ AtBottom(s[i], h) <=> AtBottom(r[i], h)
               /\ s[i].rows >= 2 /\ s[i].sy + s[i].rows = r[i].sy + r[i].rows
    <2>0. t + r[k].rows = u + m /\ m >= 2
      BY DEF u, m
    <2>1. /\ i = k => s[i].sy = u /\ s[i].rows = m
          /\ i # k => s[i].sy = r[i].sy /\ s[i].rows = r[i].rows
          /\ r[i].sy \in Nat /\ r[i].rows \in Nat /\ r[i].rows >= 2 /\ u \in Nat /\ m \in Nat /\ m >= 2
          /\ i = k => r[i].sy = t
          /\ t + r[k].rows = u + m /\ t \in Nat
      BY <1>0, <1>2, <2>0 DEF Tiling, u, m
    <2> QED
      BY ONLY <2>1, h \in Nat DEF AtBottom
  <1>6. ASSUME NEW i \in Plains(r), i # b
        PROVE  Below(r, i) # k
    <2>1. r[Below(r, i)].sy = r[i].sy + r[i].rows + 1 /\ r[i].sy \in Nat /\ r[i].rows \in Nat
      BY <1>2, <1>3, <1>6 DEF Tiling
    <2>2. r[i].sy >= t
      <3>1. CASE i = k
        BY <3>1
      <3>2. CASE i # k
        <4>1. Over(r[k], r[i]) /\ r[k].sy = t /\ r[k].rows \in Nat /\ r[i].sy \in Nat
          BY <1>2, <1>3, <1>4, <3>2
        <4> QED
          BY ONLY <4>1, t \in Nat DEF Over
      <3> QED
        BY <3>1, <3>2
    <2>3. r[k].sy = t
      OBVIOUS
    <2> QED
      BY <2>1, <2>2, <2>3
  <1>7. ASSUME NEW i \in Plains(r)
        PROVE  s[Below(s, i)].sy = IF AtBottom(s[i], h) THEN u ELSE s[i].sy + s[i].rows + 1
    <2>1. r[Below(r, i)].sy = IF i = b THEN t ELSE r[i].sy + r[i].rows + 1
      BY <1>3 DEF Tiling
    <2>2. s[Below(s, i)].sy = IF Below(r, i) = k THEN u ELSE r[Below(r, i)].sy
      BY <1>1, <1>2 DEF u
    <2>3. AtBottom(s[i], h) <=> i = b
      BY <1>3, <1>5
    <2>4. Below(r, i) = k <=> i = b
      BY <1>4, <1>6
    <2>5. s[i].sy + s[i].rows = r[i].sy + r[i].rows
      BY <1>5
    <2>6. s[i].sy + s[i].rows + 1 = r[i].sy + r[i].rows + 1
      BY <2>5
    <2> QED
      BY ONLY <2>1, <2>2, <2>3, <2>4, <2>6
  <1>8. \E c \in Plains(r) : \A i \in Plains(r) : AtBottom(s[i], h) <=> i = c
    BY <1>3, <1>5
  <1>9. \A i \in Plains(r) : s[i].rows >= 2
    BY <1>5
  <1> QED
    BY <1>1, <1>7, <1>8, <1>9 DEF Tiling, u

(* A window above window 1, after it in the ring, is above all from there  *)
(* on to window 1: the bottom window comes before it in the ring.  One     *)
(* that is below it is below all from window 1 on.                         *)
LEMMA EnlargeOrder ==
  ASSUME NEW r, Ring(r), NEW h \in Nat, NEW t \in Nat, Tiling(r, h, t), 1 \in Plains(r),
         NEW k \in Plains(r), k # 1
  PROVE  \E b \in Plains(r) :
           /\ \A i \in Plains(r) : AtBottom(r[i], h) <=> i = b
           /\ \A i \in Plains(r) : i # b => Over(r[i], r[b])
           /\ r[k].sy < r[1].sy => b < k /\ \A i \in Plains(r) : i > k \/ i = 1 => r[i].sy >= 1
           /\ ~(r[k].sy < r[1].sy) => k <= b
           /\ r[Below(r, b)].sy = t
           /\ \A i \in Plains(r) : Rank(r, b, Below(r, b)) <= Rank(r, b, i)
           /\ \A i \in Plains(r) : i # b =>
                /\ r[Below(r, i)].sy = r[i].sy + r[i].rows + 1
                /\ Rank(r, b, i) < Rank(r, b, Below(r, i))
                /\ \A x \in Plains(r) : Rank(r, b, i) < Rank(r, b, x)
                                          => Rank(r, b, Below(r, i)) <= Rank(r, b, x)
  <1>1. PICK b \in Plains(r) :
           /\ \A i \in Plains(r) : AtBottom(r[i], h) <=> i = b
           /\ \A i, j \in Plains(r) : Rank(r, b, i) < Rank(r, b, j) => Over(r[i], r[j])
           /\ \A i, j \in Plains(r) : i # j => Over(r[i], r[j]) \/ Over(r[j], r[i])
           /\ \A i \in Plains(r) : i # b => Over(r[i], r[b])
           /\ r[Below(r, b)].sy = t
    BY RingLayout
  <1>2. /\ Len(r) \in Nat /\ 1 \in 1..Len(r) /\ b \in 1..Len(r) /\ k \in 1..Len(r)
        /\ \A i \in Plains(r) : i \in 1..Len(r) /\ r[i].sy \in Nat /\ r[i].rows \in Nat
    BY RingFacts
  <1>3. ASSUME r[k].sy < r[1].sy
        PROVE  b < k /\ \A i \in Plains(r) : i > k \/ i = 1 => r[i].sy >= 1
    <2>1. b < k
      <3>1. ASSUME k <= b PROVE FALSE
        <4>1. Rank(r, b, 1) < Rank(r, b, k)
          BY ONLY <1>2, <3>1, k # 1 DEF Rank
        <4>2. Over(r[1], r[k]) /\ r[1].sy \in Nat /\ r[k].sy \in Nat /\ r[1].rows \in Nat
          BY <1>1, <1>2, <4>1
        <4> QED
          BY ONLY <1>3, <4>2 DEF Over
      <3> QED
        BY ONLY <1>2, <3>1
    <2>2. ASSUME NEW i \in Plains(r), i > k \/ i = 1
          PROVE  r[i].sy >= 1
      <3>1. i \in 1..Len(r)
        BY <1>2
      <3>2. Rank(r, b, k) < Rank(r, b, i)
        BY ONLY <1>2, <2>1, <2>2, <3>1 DEF Rank
      <3>3. Over(r[k], r[i]) /\ r[i].sy \in Nat /\ r[k].sy \in Nat /\ r[k].rows \in Nat
        BY <1>1, <1>2, <3>2
      <3> QED
        BY ONLY <3>3 DEF Over
    <2> QED
      BY <2>1, <2>2
  <1>4. ASSUME ~(r[k].sy < r[1].sy)
        PROVE  k <= b
    <2>1. ASSUME b < k PROVE FALSE
      <3>1. Rank(r, b, k) < Rank(r, b, 1)
        BY ONLY <1>2, <2>1 DEF Rank
      <3>2. Over(r[k], r[1]) /\ r[1].sy \in Nat /\ r[k].sy \in Nat /\ r[k].rows \in Nat
        BY <1>1, <1>2, <3>1
      <3> QED
        BY ONLY <1>4, <3>2 DEF Over
    <2> QED
      BY ONLY <1>2, <2>1
  <1>5. \A i \in Plains(r) : i # b => r[Below(r, i)].sy = r[i].sy + r[i].rows + 1
    BY <1>1 DEF Tiling
  <1> QED
    BY <1>1, <1>3, <1>4, <1>5, BelowIsNext

(* enlarge_window: window k gives a row to window 1.                       *)
LEMMA EnlargeTiling ==
  ASSUME NEW r, Ring(r), NEW h \in Nat, NEW t \in Nat, Tiling(r, h, t), 1 \in Plains(r),
         NEW k \in Plains(r), k # 1, r[k].rows > 2,
         NEW s, s \in Seq(Window), Len(s) = Len(r), \A i \in DOMAIN r : s[i].id = r[i].id,
         \A i \in Plains(r) :
           /\ s[i].rows = IF i = 1 THEN r[i].rows + 1 ELSE IF i = k THEN r[i].rows - 1 ELSE r[i].rows
           /\ s[i].sy = IF r[k].sy < r[1].sy
                        THEN IF i > k \/ i = 1 THEN r[i].sy - 1 ELSE r[i].sy
                        ELSE IF i \in 2..k THEN r[i].sy + 1 ELSE r[i].sy
  PROVE  Ring(s) /\ Tiling(s, h, t)
  <1>1. Ring(s) /\ Plains(s) = Plains(r) /\ \A i : Below(s, i) = Below(r, i)
    BY Reshaped
  <1>2. PICK b \in Plains(r) :
           /\ \A i \in Plains(r) : AtBottom(r[i], h) <=> i = b
           /\ \A i \in Plains(r) : i # b => Over(r[i], r[b])
           /\ r[k].sy < r[1].sy => b < k /\ \A i \in Plains(r) : i > k \/ i = 1 => r[i].sy >= 1
           /\ ~(r[k].sy < r[1].sy) => k <= b
           /\ r[Below(r, b)].sy = t
           /\ \A i \in Plains(r) : Rank(r, b, Below(r, b)) <= Rank(r, b, i)
           /\ \A i \in Plains(r) : i # b =>
                /\ r[Below(r, i)].sy = r[i].sy + r[i].rows + 1
                /\ Rank(r, b, i) < Rank(r, b, Below(r, i))
                /\ \A x \in Plains(r) : Rank(r, b, i) < Rank(r, b, x)
                                          => Rank(r, b, Below(r, i)) <= Rank(r, b, x)
    BY EnlargeOrder
  <1> DEFINE n == Len(r)
             R(i) == IF i <= b THEN i + n ELSE i
             up == r[k].sy < r[1].sy
  <1>3. /\ n \in Nat /\ 1 \in 1..n /\ b \in 1..n /\ k \in 1..n /\ k # 1
        /\ \A i : Rank(r, b, i) = R(i)
        /\ \A i \in Plains(r) : /\ i \in 1..n /\ r[i].sy \in Nat /\ r[i].rows \in Nat
                                /\ r[i].rows >= 2 /\ Below(r, i) \in Plains(r)
    BY RingFacts DEF Rank, Tiling
  <1>4. r[b].sy + r[b].rows + 2 = h /\ r[b].rows >= 2 /\ r[b].sy \in Nat /\ r[b].rows \in Nat
    BY <1>2, <1>3 DEF AtBottom
  <1> HIDE DEF n, up
  <1>5. ASSUME NEW i \in Plains(r)
        PROVE  s[i].rows >= 2 /\ (AtBottom(s[i], h) <=> i = b)
    <2>1. /\ r[i].sy \in Nat /\ r[i].rows \in Nat /\ r[i].rows >= 2 /\ i \in 1..n
          /\ i = k => r[i].rows > 2
          /\ i # b => Over(r[i], r[b])
          /\ AtBottom(r[i], h) <=> i = b
          /\ up => b < k
          /\ ~up => k <= b
      BY <1>2, <1>3 DEF up
    <2>2. /\ s[i].rows = IF i = 1 THEN r[i].rows + 1 ELSE IF i = k THEN r[i].rows - 1 ELSE r[i].rows
          /\ s[i].sy = IF up THEN IF i > k \/ i = 1 THEN r[i].sy - 1 ELSE r[i].sy
                       ELSE IF i \in 2..k THEN r[i].sy + 1 ELSE r[i].sy
      BY DEF up
    <2> QED
      BY ONLY <1>3, <1>4, <2>1, <2>2, h \in Nat DEF AtBottom, Over
  <1>6. ASSUME NEW i \in Plains(r)
        PROVE  s[Below(r, i)].sy = IF i = b THEN t ELSE s[i].sy + s[i].rows + 1
    <2> DEFINE j == Below(r, i)
    <2>1. /\ i \in 1..n /\ j \in 1..n /\ r[j].sy \in Nat /\ r[i].sy \in Nat /\ r[i].rows \in Nat
          /\ up => b < k
          /\ ~up => k <= b
      BY <1>2, <1>3 DEF up
    <2>2. /\ s[i].rows = IF i = 1 THEN r[i].rows + 1 ELSE IF i = k THEN r[i].rows - 1 ELSE r[i].rows
          /\ s[i].sy = IF up THEN IF i > k \/ i = 1 THEN r[i].sy - 1 ELSE r[i].sy
                       ELSE IF i \in 2..k THEN r[i].sy + 1 ELSE r[i].sy
          /\ s[j].sy = IF up THEN IF j > k \/ j = 1 THEN r[j].sy - 1 ELSE r[j].sy
                       ELSE IF j \in 2..k THEN r[j].sy + 1 ELSE r[j].sy
      BY <1>3 DEF up
    <2>3. CASE i = b
      <3>1. r[j].sy = t /\ R(j) <= R(k) /\ R(j) <= R(1)
        BY <1>2, <1>3, <2>3
      <3> HIDE DEF j
      <3> QED
        BY ONLY <1>3, <2>1, <2>2, <2>3, <3>1 DEF j
    <2>4. CASE i # b
      <3>0. /\ r[j].sy = r[i].sy + r[i].rows + 1
            /\ Rank(r, b, i) < Rank(r, b, j)
            /\ \A x \in Plains(r) : Rank(r, b, i) < Rank(r, b, x)
                                     => Rank(r, b, j) <= Rank(r, b, x)
        BY <1>2, <2>4, Zenon
      <3>00. \A x : Rank(r, b, x) = R(x)
        BY <1>3
      <3>1. /\ r[j].sy = r[i].sy + r[i].rows + 1
            /\ R(i) < R(j)
            /\ R(i) < R(k) => R(j) <= R(k)
            /\ R(i) < R(1) => R(j) <= R(1)
        <4>1. Rank(r, b, i) < Rank(r, b, k) => Rank(r, b, j) <= Rank(r, b, k)
          BY <3>0, Zenon
        <4>2. Rank(r, b, i) < Rank(r, b, 1) => Rank(r, b, j) <= Rank(r, b, 1)
          BY <3>0, Zenon
        <4>3. /\ Rank(r, b, i) = R(i) /\ Rank(r, b, j) = R(j)
              /\ Rank(r, b, k) = R(k) /\ Rank(r, b, 1) = R(1)
          BY <3>00, Zenon
        <4> HIDE DEF R, j
        <4> QED
          BY ONLY <3>0, <4>1, <4>2, <4>3
      <3> HIDE DEF j
      <3> QED
        BY ONLY <1>3, <2>1, <2>2, <2>4, <3>1 DEF j
    <2> QED
      BY <2>3, <2>4
  <1>7. ASSUME NEW i \in Plains(r)
        PROVE  s[Below(s, i)].sy = IF AtBottom(s[i], h) THEN t ELSE s[i].sy + s[i].rows + 1
    <2>1. Below(s, i) = Below(r, i) /\ (AtBottom(s[i], h) <=> i = b)
      BY <1>1, <1>5
    <2>2. s[Below(r, i)].sy = IF i = b THEN t ELSE s[i].sy + s[i].rows + 1
      BY <1>6
    <2> QED
      BY ONLY <2>1, <2>2
  <1>8. \E c \in Plains(r) : \A i \in Plains(r) : AtBottom(s[i], h) <=> i = c
    BY <1>5
  <1>9. \A i \in Plains(r) : s[i].rows >= 2
    BY <1>5
  <1> QED
    BY <1>1, <1>7, <1>8, <1>9 DEF Tiling

(* A ring without its c-th window, whose rows window 1 has taken, which is *)
(* the one below or, if the c-th was the bottom window, the one above.     *)
Skip(c, i) == IF i < c THEN i ELSE i + 1
Back(c, i) == IF i < c THEN i ELSE i - 1

(* A window taken out of the ring, the rows of which go to the one above   *)
(* it or below it: the others still tile the screen (delete_window).       *)
LEMMA MergeTiling ==
  ASSUME NEW r, Ring(r), NEW h \in Nat, NEW t \in Nat, Tiling(r, h, t), 1 \in Plains(r),
         NEW c \in Plains(r), c # 1,
         IF AtBottom(r[c], h) THEN Below(r, 1) = c ELSE Below(r, c) = 1,
         NEW s, s \in Seq(Window), Len(s) = Len(r) - 1,
         \A i \in DOMAIN s : i # 1 => s[i] = r[Skip(c, i)],
         s[1].id = r[1].id, s[1].rows = r[1].rows + r[c].rows + 1,
         s[1].sy = IF AtBottom(r[c], h) THEN r[1].sy ELSE r[c].sy
  PROVE  Ring(s) /\ Tiling(s, h, t)
  <1> DEFINE n == Len(r)
             m == IF \E i \in DOMAIN r : i \notin Plains(r)
                  THEN CHOOSE i \in DOMAIN r : i \notin Plains(r) ELSE 0
             N(k, x, i) == LET a == IF i = k THEN 1 ELSE i + 1   \* what Below is
                           IN IF a # x THEN a ELSE IF x = k THEN 1 ELSE x + 1
             m2 == IF m = 0 THEN 0 ELSE Back(c, m)
  <1>1. /\ n \in Nat /\ DOMAIN r = 1..n /\ 1 \in 1..n /\ c \in 2..n
        /\ \A i \in Plains(r) : i \in 1..n /\ Below(r, i) \in Plains(r) /\ r[i].sy \in Nat
                                /\ r[i].rows \in Nat /\ r[i].rows >= 2
        /\ \A i, j \in 1..n : (i \notin Plains(r) /\ j \notin Plains(r)) => i = j
    <2>1. n \in Nat /\ DOMAIN r = 1..n /\ \A i \in Plains(r) : i \in 1..n
      BY RingFacts
    <2>2. \A i \in Plains(r) : Below(r, i) \in Plains(r) /\ r[i].sy \in Nat /\ r[i].rows \in Nat
      BY RingFacts
    <2>3. \A i \in Plains(r) : r[i].rows >= 2
      BY DEF Tiling
    <2>4. \A i, j \in 1..n : (i \notin Plains(r) /\ j \notin Plains(r)) => i = j
      BY RingFacts
    <2>5. 1 \in 1..n /\ c \in 1..n
      BY <2>1
    <2>6. c \in 2..n
      BY ONLY <2>1, <2>5, c # 1
    <2> QED
      BY <2>1, <2>2, <2>3, <2>4, <2>5, <2>6
  <1>2. DOMAIN s = 1..(n - 1) /\ Len(s) = n - 1
    BY <1>1
  <1>3. m \in 0..n /\ \A i \in 1..n : i \in Plains(r) <=> i # m
    <2>1. CASE \E i \in DOMAIN r : i \notin Plains(r)
      <3>1. m \in DOMAIN r /\ m \notin Plains(r)
        BY <2>1, Zenon
      <3> HIDE DEF m, n
      <3>2. m \in 1..n
        BY <1>1, <3>1
      <3>3. \A i \in 1..n : i \in Plains(r) <=> i # m
        BY <1>1, <3>1, <3>2, Zenon
      <3> QED
        BY ONLY <1>1, <3>2, <3>3
    <2>2. CASE ~(\E i \in DOMAIN r : i \notin Plains(r))
      <3>1. m = 0
        BY <2>2, Zenon
      <3> HIDE DEF m, n
      <3>2. \A i \in 1..n : i \in Plains(r)
        BY <1>1, <2>2, Zenon
      <3> QED
        BY ONLY <1>1, <3>1, <3>2
    <2> QED
      BY <2>1, <2>2
  <1>4. m # 1 /\ m # c
    BY <1>1, <1>3
  <1>5. \A i \in Plains(r) : Below(r, i) = N(n, m, i)
    <2>1. ASSUME NEW i \in Plains(r)
          PROVE  Below(r, i) = N(n, m, i)
      <3>1. i \in 1..n /\ Succ(r, i) = IF i = n THEN 1 ELSE i + 1
        BY <1>1 DEF Succ
      <3>2. Succ(r, i) \in 1..n /\ (Succ(r, i) \in Plains(r) <=> Succ(r, i) # m)
        <4>1. n \in Nat
          BY <1>1
        <4> HIDE DEF n, m
        <4>2. Succ(r, i) \in 1..n
          BY ONLY <3>1, <4>1
        <4> QED
          BY <1>3, <4>2
      <3>3. Succ(r, m) = IF m = n THEN 1 ELSE m + 1
        BY DEF Succ, n
      <3>4. Below(r, i) = IF Succ(r, i) # m THEN Succ(r, i) ELSE Succ(r, m)
        BY <3>2 DEF Below
      <3> HIDE DEF n, m
      <3> QED
        BY ONLY <3>1, <3>3, <3>4
    <2> QED
      BY <2>1
  <1> HIDE DEF n, m
  <1>6. \A i \in 1..(n - 1) : Skip(c, i) \in 1..n /\ Skip(c, i) # c /\ Back(c, Skip(c, i)) = i
    BY <1>1 DEF Skip, Back
  <1>7. \A j \in 1..n : j # c => Back(c, j) \in 1..(n - 1) /\ Skip(c, Back(c, j)) = j
    BY <1>1 DEF Skip, Back
  <1>18. Skip(c, 1) = 1 /\ 1 \in 1..(n - 1)
    BY ONLY <1>1 DEF Skip
  <1>8. \A i \in 1..(n - 1) : s[i].id = r[Skip(c, i)].id
    <2>1. ASSUME NEW i \in 1..(n - 1)
          PROVE  s[i].id = r[Skip(c, i)].id
      <3>1. CASE i = 1
        BY <1>18, <3>1
      <3>2. CASE i # 1
        BY <1>2, <3>2
      <3> QED
        BY <3>1, <3>2
    <2> QED
      BY <2>1
  <1>9. Ring(s)
    <2>1. \A i, j \in 1..n : r[i].id = r[j].id => i = j
      BY <1>1 DEF Ring
    <2>2. ASSUME NEW i \in 1..(n - 1), NEW j \in 1..(n - 1), s[i].id = s[j].id
          PROVE  i = j
      <3>1. Skip(c, i) = Skip(c, j)
        BY <1>6, <1>8, <2>1, <2>2
      <3> QED
        BY <1>6, <3>1
    <2> QED
      BY <1>2, <2>2 DEF Ring
  <1>10. \A i \in 1..(n - 1) : i \in Plains(s) <=> Skip(c, i) \in Plains(r)
    BY <1>1, <1>2, <1>6, <1>8 DEF Plains
  <1>11. \A i \in 1..(n - 1) : i \in Plains(s) <=> i # m2
    <2>1. ASSUME NEW i \in 1..(n - 1)
          PROVE  Skip(c, i) # m <=> i # m2
      <3>1. n \in Nat /\ c \in 2..n /\ m \in 0..n /\ m # c /\ i \in 1..(n - 1)
        BY <1>1, <1>3, <1>4
      <3> QED
        BY ONLY <3>1 DEF Skip, Back
    <2> QED
      BY <1>3, <1>6, <1>10, <2>1
  <1>12. \A i \in Plains(s) : i \in 1..(n - 1) /\ Below(s, i) = N(n - 1, m2, i)
    <2>1. ASSUME NEW i \in Plains(s)
          PROVE  i \in 1..(n - 1) /\ Below(s, i) = N(n - 1, m2, i)
      <3>1. i \in 1..(n - 1) /\ Succ(s, i) = IF i = n - 1 THEN 1 ELSE i + 1
        BY <1>2 DEF Succ, Plains
      <3>2. Succ(s, i) \in 1..(n - 1) /\ (Succ(s, i) \in Plains(s) <=> Succ(s, i) # m2)
        BY <1>1, <1>11, <3>1
      <3>3. m2 = n - 1 => Succ(s, m2) = 1
        BY <1>2 DEF Succ
      <3>4. m2 # n - 1 => Succ(s, m2) = m2 + 1
        BY <1>2 DEF Succ
      <3> HIDE DEF m2
      <3> QED
        BY <3>1, <3>2, <3>3, <3>4 DEF Below
    <2> QED
      BY <2>1
  <1>13. ASSUME NEW i \in Plains(s)
         PROVE  /\ i \in 1..(n - 1) /\ Skip(c, i) \in Plains(r)
                /\ Below(r, Skip(c, i)) = c => Below(s, i) = Back(c, Below(r, c))
                /\ Below(r, Skip(c, i)) # c => Below(s, i) = Back(c, Below(r, Skip(c, i)))
    <2> DEFINE o == Skip(c, i)
    <2>1. i \in 1..(n - 1) /\ o \in Plains(r) /\ i # m2
      BY <1>10, <1>11, <1>12
    <2>2. Below(s, i) = N(n - 1, m2, i) /\ Below(r, o) = N(n, m, o) /\ Below(r, c) = N(n, m, c)
      BY <1>5, <1>12, <2>1
    <2>3. o = (IF i < c THEN i ELSE i + 1) /\ o # m
      BY <1>1, <1>3, <2>1 DEF Skip
    <2>4. \A j : Back(c, j) = IF j < c THEN j ELSE j - 1
      BY DEF Back
    <2> HIDE DEF o
    <2>5. n \in Nat /\ c \in 2..n /\ m \in 0..n /\ m # 1 /\ m # c /\ m2 = IF m = 0 THEN 0 ELSE Back(c, m)
      BY <1>1, <1>3, <1>4
    <2> HIDE DEF m2
    <2>6. /\ N(n, m, o) = c => N(n - 1, m2, i) = Back(c, N(n, m, c))
          /\ N(n, m, o) # c => N(n - 1, m2, i) = Back(c, N(n, m, o))
      BY ONLY <2>1, <2>3, <2>4, <2>5
    <2> QED
      BY <2>1, <2>2, <2>6 DEF o
  <1>14. ASSUME NEW i \in Plains(r), NEW j \in Plains(r), Below(r, i) = Below(r, j)
         PROVE  i = j
    <2>1. i \in 1..n /\ j \in 1..n /\ i # m /\ j # m /\ m \in 0..n /\ n \in Nat
      BY <1>1, <1>3
    <2>2. N(n, m, i) = N(n, m, j)
      BY <1>5, <1>14
    <2> QED
      BY ONLY <2>1, <2>2
  <1> HIDE DEF N, m2
  <1>15. \A x \in Plains(r) : x # c /\ x # 1 =>
            /\ Back(c, x) \in 1..(n - 1) /\ Back(c, x) # 1 /\ s[Back(c, x)] = r[x]
    <2>1. ASSUME NEW x \in Plains(r), x # c, x # 1
          PROVE  Back(c, x) \in 1..(n - 1) /\ Back(c, x) # 1 /\ s[Back(c, x)] = r[x]
      <3>1. Back(c, x) \in 1..(n - 1) /\ Skip(c, Back(c, x)) = x
        BY <1>1, <1>7, <2>1
      <3>2. Back(c, x) # 1
        BY <1>18, <2>1, <3>1
      <3> QED
        BY <1>2, <3>1, <3>2
    <2> QED
      BY <2>1
  <1>16. Back(c, 1) = 1
    BY <1>1 DEF Back
  <1>17. \A i \in Plains(s) : i # 1 => s[i] = r[Skip(c, i)] /\ Skip(c, i) # 1 /\ Skip(c, i) # c
                                       /\ Skip(c, i) \in Plains(r)
    <2>1. ASSUME NEW i \in Plains(s), i # 1
          PROVE  /\ s[i] = r[Skip(c, i)] /\ Skip(c, i) # 1 /\ Skip(c, i) # c
                 /\ Skip(c, i) \in Plains(r)
      <3>1. i \in 1..(n - 1) /\ Skip(c, i) \in Plains(r) /\ Skip(c, i) # c
        BY <1>6, <1>10, <1>12
      <3>2. Skip(c, i) # 1
        BY <1>6, <1>16, <2>1, <3>1
      <3> QED
        BY <1>2, <2>1, <3>1, <3>2
    <2> QED
      BY <2>1
  <1>24. 1 \in Plains(s)
    BY <1>10, <1>18
  <1>19. PICK b \in Plains(r) : \A i \in Plains(r) : AtBottom(r[i], h) <=> i = b
    BY RingLayout
  <1>20. /\ r[1].sy \in Nat /\ r[1].rows \in Nat /\ r[c].sy \in Nat /\ r[c].rows \in Nat
         /\ r[1].rows >= 2 /\ s[1].rows = r[1].rows + r[c].rows + 1
         /\ s[1].sy = IF AtBottom(r[c], h) THEN r[1].sy ELSE r[c].sy
    BY <1>1
  <1>21. \A i \in Plains(r) : r[Below(r, i)].sy = IF i = b THEN t ELSE r[i].sy + r[i].rows + 1
    BY <1>19 DEF Tiling
  <1>22. CASE ~AtBottom(r[c], h)
    <2>1. Below(r, c) = 1 /\ c # b /\ s[1].sy = r[c].sy
      BY <1>19, <1>22
    <2>2. r[1].sy = r[c].sy + r[c].rows + 1
      BY <1>21, <2>1
    <2>3. AtBottom(s[1], h) <=> AtBottom(r[1], h)
      BY ONLY <1>20, <2>1, <2>2, h \in Nat DEF AtBottom
    <2>4. s[1].sy + s[1].rows + 1 = r[1].sy + r[1].rows + 1
      BY ONLY <1>20, <2>1, <2>2
    <2>5. ASSUME NEW i \in Plains(s)
          PROVE  /\ s[i].rows >= 2
                 /\ AtBottom(s[i], h) <=> Skip(c, i) = b
                 /\ s[Below(s, i)].sy = IF AtBottom(s[i], h) THEN t ELSE s[i].sy + s[i].rows + 1
      <3> DEFINE o == Skip(c, i)
      <3>1. o \in Plains(r) /\ o # c
        BY <1>6, <1>13
      <3>2. /\ AtBottom(s[i], h) <=> AtBottom(r[o], h)
            /\ s[i].rows >= 2
            /\ s[i].sy + s[i].rows + 1 = r[o].sy + r[o].rows + 1
        <4>1. CASE i = 1
          <5>1. s[1].rows >= 2
            BY ONLY <1>20
          <5> QED
            BY <1>18, <2>3, <2>4, <4>1, <5>1
        <4>2. CASE i # 1
          BY <1>1, <1>17, <4>2
        <4> QED
          BY <4>1, <4>2
      <3>3. s[Below(s, i)].sy = r[Below(r, o)].sy
        <4>1. CASE Below(r, o) = c
          <5>1. Below(s, i) = 1
            BY <1>13, <1>16, <2>1, <4>1
          <5> QED
            BY <2>1, <4>1, <5>1
        <4>2. CASE Below(r, o) # c
          <5>1. Below(r, o) # 1
            BY <1>14, <2>1, <3>1
          <5>2. Below(r, o) \in Plains(r)
            BY <1>1, <3>1
          <5> QED
            BY <1>13, <1>15, <4>2, <5>1, <5>2
        <4> QED
          BY <4>1, <4>2
      <3>4. AtBottom(s[i], h) <=> o = b
        BY <1>19, <3>1, <3>2
      <3>5. r[Below(r, o)].sy = IF o = b THEN t ELSE r[o].sy + r[o].rows + 1
        BY <1>21, <3>1
      <3> HIDE DEF o
      <3>6. s[Below(s, i)].sy = IF AtBottom(s[i], h) THEN t ELSE s[i].sy + s[i].rows + 1
        BY ONLY <3>2, <3>3, <3>4, <3>5
      <3> QED
        BY <3>2, <3>4, <3>6 DEF o
    <2>6. \E d \in Plains(s) : \A i \in Plains(s) : AtBottom(s[i], h) <=> i = d
      <3>1. b \in 1..n /\ b # c
        BY <1>1, <2>1
      <3>2. Back(c, b) \in 1..(n - 1) /\ Skip(c, Back(c, b)) = b
        BY <1>7, <3>1
      <3>3. Back(c, b) \in Plains(s)
        BY <1>10, <3>2
      <3>4. ASSUME NEW i \in Plains(s)
            PROVE  AtBottom(s[i], h) <=> i = Back(c, b)
        BY <1>6, <1>13, <2>5, <3>2
      <3> QED
        BY <3>3, <3>4
    <2> QED
      BY <1>9, <2>5, <2>6 DEF Tiling
  <1>23. CASE AtBottom(r[c], h)
    <2>1. Below(r, 1) = c /\ c = b /\ s[1].sy = r[1].sy
      BY <1>19, <1>23
    <2>2. r[c].sy = r[1].sy + r[1].rows + 1
      BY <1>21, <2>1
    <2>3. AtBottom(s[1], h)
      BY ONLY <1>20, <1>23, <2>1, <2>2, h \in Nat DEF AtBottom
    <2>4. ASSUME NEW i \in Plains(s), i # 1
          PROVE  /\ s[i].rows >= 2
                 /\ ~AtBottom(s[i], h)
                 /\ s[Below(s, i)].sy = s[i].sy + s[i].rows + 1
      <3> DEFINE o == Skip(c, i)
      <3>1. o \in Plains(r) /\ o # c /\ o # 1 /\ s[i] = r[o]
        BY <1>17, <2>4
      <3>2. s[i].rows >= 2 /\ ~AtBottom(s[i], h)
        BY <1>1, <1>19, <2>1, <3>1
      <3>3. Below(r, o) # c /\ Below(r, o) \in Plains(r)
        BY <1>1, <1>14, <2>1, <3>1
      <3>4. s[Below(s, i)].sy = r[Below(r, o)].sy
        <4>1. Below(s, i) = Back(c, Below(r, o))
          BY <1>13, <3>3
        <4>2. CASE Below(r, o) = 1
          BY <1>16, <2>1, <4>1, <4>2
        <4>3. CASE Below(r, o) # 1
          BY <1>15, <3>3, <4>1, <4>3
        <4> QED
          BY <4>2, <4>3
      <3> QED
        BY <1>21, <2>1, <3>1, <3>2, <3>4
    <2>5. s[1].rows >= 2
      BY ONLY <1>20
    <2>6. s[Below(s, 1)].sy = t
      <3>1. Below(s, 1) = Back(c, Below(r, c))
        BY <1>13, <1>18, <1>24, <2>1
      <3>2. r[Below(r, c)].sy = t /\ Below(r, c) \in Plains(r)
        BY <1>1, <1>21, <2>1
      <3>3. Below(r, c) # c
        <4>1. ASSUME Below(r, c) = c PROVE FALSE
          <5>1. c = 1
            BY <1>14, <2>1, <4>1
          <5> QED
            BY <5>1
        <4> QED
          BY <4>1
      <3>4. CASE Below(r, c) = 1
        BY <1>16, <2>1, <3>1, <3>2, <3>4
      <3>5. CASE Below(r, c) # 1
        BY <1>15, <3>1, <3>2, <3>3, <3>5
      <3> QED
        BY <3>4, <3>5
    <2> QED
      BY <1>9, <1>24, <2>3, <2>4, <2>5, <2>6 DEF Tiling
  <1> QED
    BY <1>22, <1>23

-----------------------------------------------------------------------------
(* The invariant.                                                          *)

HasMini(r) == \E i \in DOMAIN r : r[i].id = MiniId
MiniLast(r, h) == \A i \in DOMAIN r : r[i].id = MiniId => r[i].sy = h - 1 /\ r[i].rows = 1
Shown(r) == {r[i].buf : i \in DOMAIN r}
Own(r) == \A i \in DOMAIN r : r[i].id = MiniId <=> r[i].buf = Mini

(* The ring is the tiling of the screen by the windows, with the           *)
(* minibuffer's on the last row while there is a reading; what is shown or *)
(* in use is there.                                                        *)
Sound(e) ==
  /\ e \in Editor
  /\ Ring(e.ring) /\ Tiling(e.ring, e.height, e.top)
  /\ e.reading <=> HasMini(e.ring)
  /\ MiniLast(e.ring, e.height)
  /\ e.spare.id = MiniId /\ e.spare.sy = e.height - 1 /\ e.spare.rows = 1
  /\ {Scratch, Mini} \subseteq e.live /\ Shown(e.ring) \subseteq e.live /\ e.cbuf \in e.live

(* The minibuffer's window, and no other, shows the minibuffer.            *)
MiniOwn(e) ==
  /\ Own(e.ring)
  /\ e.spare.buf = Mini /\ e.listed # Mini

Keeps(e, f) == Sound(f) /\ (MiniOwn(e) => MiniOwn(f))

(* No buffer comes to be shown or in use.                                  *)
NoneNew(e, f) ==
  Shown(f.ring) \subseteq Shown(e.ring) /\ f.cbuf \in Shown(e.ring) \cup {e.cbuf}

(* All but the ring, the current buffer and the window in use.             *)
Rest(e, f) ==
  /\ f \in Editor /\ f.height = e.height /\ f.top = e.top /\ f.spare = e.spare
  /\ f.live = e.live /\ f.reading = e.reading /\ f.target = e.target /\ f.start = e.start
  /\ f.listed = e.listed /\ f.wins = e.wins

(* The fields of an editor.                                                *)
LEMMA EditorType ==
  ASSUME NEW e \in Editor
  PROVE  /\ e.ring \in Seq(Window) /\ e.spare \in Window /\ e.height \in Heights
         /\ e.height \in Nat /\ e.height >= 5 /\ e.top \in {0, 1} /\ e.top \in Nat
         /\ e.live \subseteq Buffers /\ e.cbuf \in Buffers /\ e.reading \in BOOLEAN
         /\ e.action \in Ids \cup {None} /\ e.target \in Ids \cup {None}
         /\ e.start \in Buffers \cup {None} /\ e.listed \in Buffers \cup {None} /\ e.wins \in Nat
  <1>1. /\ e.ring \in Seq(Window) /\ e.spare \in Window /\ e.height \in Heights
        /\ e.top \in {0, 1} /\ e.live \in SUBSET Buffers /\ e.cbuf \in Buffers
        /\ e.reading \in BOOLEAN /\ e.action \in Ids \cup {None} /\ e.target \in Ids \cup {None}
        /\ e.start \in Buffers \cup {None} /\ e.listed \in Buffers \cup {None} /\ e.wins \in Nat
    BY DEF Editor
  <1>2. e.height \in Nat /\ e.height >= 5
    BY <1>1, WindowsAssumption
  <1>3. e.top \in Nat
    BY ONLY <1>1
  <1> QED
    BY ONLY <1>1, <1>2, <1>3

(* What there is in a sound ring.                                          *)
LEMMA SoundRing ==
  ASSUME NEW e, Sound(e)
  PROVE  /\ e \in Editor /\ e.ring \in Seq(Window) /\ Len(e.ring) \in Nat
         /\ DOMAIN e.ring = 1..Len(e.ring) /\ 1 \in DOMAIN e.ring /\ Plains(e.ring) # {}
         /\ Plains(e.ring) \subseteq DOMAIN e.ring
         /\ \A i \in DOMAIN e.ring : e.ring[i] \in Window /\ e.ring[i].buf \in Buffers
         /\ \A i \in DOMAIN e.ring : e.ring[i].buf \in e.live
  <1>1. e \in Editor /\ Ring(e.ring)
    BY DEF Sound
  <1>2. /\ Len(e.ring) \in Nat /\ DOMAIN e.ring = 1..Len(e.ring)
        /\ \A i \in DOMAIN e.ring : e.ring[i] \in Window /\ e.ring[i].buf \in Buffers
    BY <1>1, RingFacts
  <1>3. Plains(e.ring) # {}
    BY DEF Sound, Tiling
  <1>4. PICK k \in Plains(e.ring) : TRUE
    BY <1>3
  <1>5. k \in 1..Len(e.ring)
    BY <1>2 DEF Plains
  <1>6. 1 \in DOMAIN e.ring
    BY <1>2, <1>5
  <1>7. \A i \in DOMAIN e.ring : e.ring[i].buf \in e.live
    BY DEF Sound, Shown
  <1>8. Plains(e.ring) \subseteq DOMAIN e.ring
    BY DEF Plains
  <1> QED
    BY <1>1, <1>2, <1>3, <1>6, <1>7, <1>8, EditorType

(* What is said of each window of a ring holds of windows among them.      *)
LEMMA AmongWindows ==
  ASSUME NEW r, NEW s, \A i \in DOMAIN s : \E j \in DOMAIN r : s[i] = r[j]
  PROVE  /\ \A h : MiniLast(r, h) => MiniLast(s, h)
         /\ Shown(s) \subseteq Shown(r)
         /\ HasMini(s) => HasMini(r)
         /\ Own(r) => Own(s)
  <1>1. ASSUME NEW h, MiniLast(r, h), NEW i \in DOMAIN s, s[i].id = MiniId
        PROVE  s[i].sy = h - 1 /\ s[i].rows = 1
    <2>1. PICK j \in DOMAIN r : s[i] = r[j]
      OBVIOUS
    <2>2. r[j].id = MiniId => r[j].sy = h - 1 /\ r[j].rows = 1
      BY <1>1 DEF MiniLast
    <2> QED
      BY <1>1, <2>1, <2>2, Zenon
  <1>2. Shown(s) \subseteq Shown(r)
    BY Zenon DEF Shown
  <1>3. HasMini(s) => HasMini(r)
    BY Zenon DEF HasMini
  <1>4. ASSUME Own(r), NEW i \in DOMAIN s
        PROVE  s[i].id = MiniId <=> s[i].buf = Mini
    <2>1. PICK j \in DOMAIN r : s[i] = r[j]
      OBVIOUS
    <2>2. r[j].id = MiniId <=> r[j].buf = Mini
      BY <1>4 DEF Own
    <2> QED
      BY <2>1, <2>2, Zenon
  <1>5. \A h : MiniLast(r, h) => MiniLast(s, h)
    BY <1>1 DEF MiniLast
  <1>6. Own(r) => Own(s)
    BY <1>4, Zenon DEF Own
  <1> QED
    BY <1>2, <1>3, <1>5, <1>6

(* One change after the other.                                             *)
LEMMA NoneNewChain ==
  ASSUME NEW e, NEW f, NEW g, NoneNew(e, f), NoneNew(f, g) PROVE NoneNew(e, g)
  <1>1. /\ Shown(f.ring) \subseteq Shown(e.ring) /\ f.cbuf \in Shown(e.ring) \cup {e.cbuf}
        /\ Shown(g.ring) \subseteq Shown(f.ring) /\ g.cbuf \in Shown(f.ring) \cup {f.cbuf}
    BY DEF NoneNew
  <1> QED
    BY ONLY <1>1 DEF NoneNew

(* Windows with the same buffers.                                          *)
LEMMA SameShown ==
  ASSUME NEW r, NEW s, DOMAIN s \subseteq DOMAIN r, \A i \in DOMAIN s : s[i].buf = r[i].buf
  PROVE  Shown(s) \subseteq Shown(r)
  BY Zenon DEF Shown

LEMMA AmongShown ==
  ASSUME NEW r, NEW s, \A i \in DOMAIN s : \E j \in DOMAIN r : s[i].buf = r[j].buf
  PROVE  Shown(s) \subseteq Shown(r)
  <1> SUFFICES ASSUME NEW i \in DOMAIN s PROVE s[i].buf \in Shown(r)
    BY DEF Shown
  <1>1. PICK j \in DOMAIN r : s[i].buf = r[j].buf
    OBVIOUS
  <1> QED
    BY <1>1 DEF Shown

(* A change that leaves the rest alone.                                    *)
LEMMA RestSound ==
  ASSUME NEW e, Sound(e), NEW f, f \in Editor, f.height = e.height, f.top = e.top,
         f.spare = e.spare, f.reading = e.reading, {Scratch, Mini} \subseteq f.live,
         Ring(f.ring), Tiling(f.ring, e.height, e.top), MiniLast(f.ring, e.height),
         HasMini(f.ring) <=> HasMini(e.ring), Shown(f.ring) \subseteq f.live, f.cbuf \in f.live
  PROVE  Sound(f)
  BY DEF Sound

-----------------------------------------------------------------------------
(* Selecting windows.                                                      *)

(* other_window until the k-th window is JWindow.                          *)
LEMMA SelectKeeps ==
  ASSUME NEW e, Sound(e), NEW k \in DOMAIN e.ring
  PROVE  LET f == Select(e, k)
         IN /\ Keeps(e, f) /\ Rest(e, f) /\ f.action = e.action
            /\ f.cbuf = e.ring[k].buf
            /\ f.ring = Turned(e.ring, k) /\ Len(f.ring) = Len(e.ring)
            /\ f.ring[1] = e.ring[k] /\ DOMAIN f.ring = DOMAIN e.ring
            /\ \A i \in DOMAIN f.ring : \E j \in DOMAIN e.ring : f.ring[i] = e.ring[j]
            /\ \A i \in DOMAIN e.ring : \E j \in DOMAIN f.ring : e.ring[i] = f.ring[j]
  <1> DEFINE f == Select(e, k)
             s == Turned(e.ring, k)
  <1>1. /\ e \in Editor /\ e.ring \in Seq(Window) /\ e.ring[k].buf \in Buffers
        /\ Len(e.ring) \in Nat /\ DOMAIN e.ring = 1..Len(e.ring) /\ 1 \in DOMAIN e.ring
        /\ k \in 1..Len(e.ring) /\ e.ring[k].buf \in e.live
    BY SoundRing
  <1>2. /\ s \in Seq(Window) /\ Len(s) = Len(e.ring) /\ DOMAIN s = DOMAIN e.ring
        /\ \A i \in DOMAIN e.ring : /\ From(Len(e.ring), k, i) \in DOMAIN e.ring
                                    /\ s[i] = e.ring[From(Len(e.ring), k, i)]
        /\ \A i \in DOMAIN e.ring : /\ To(Len(e.ring), k, i) \in DOMAIN e.ring
                                    /\ From(Len(e.ring), k, To(Len(e.ring), k, i)) = i
    BY <1>1, TurnedAt
  <1>3. \A i \in DOMAIN e.ring : \E j \in DOMAIN e.ring : s[j] = e.ring[i]
    BY <1>2
  <1>4. s[1] = e.ring[k]
    <2>1. From(Len(e.ring), k, 1) = k
      BY ONLY <1>1 DEF From
    <2> QED
      BY <1>1, <1>2, <2>1
  <1>5. Ring(s) /\ Tiling(s, e.height, e.top)
    <2>1. Ring(e.ring) /\ Tiling(e.ring, e.height, e.top) /\ e.height \in Nat /\ e.top \in Nat
      BY <1>1, EditorType DEF Sound
    <2> QED
      BY <2>1, TurnedTiling
  <1>6. \A i \in DOMAIN s : \E j \in DOMAIN e.ring : s[i] = e.ring[j]
    BY <1>2, Zenon
  <1>7. \A i \in DOMAIN e.ring : \E j \in DOMAIN s : e.ring[i] = s[j]
    BY <1>2, <1>3, Zenon
  <1> HIDE DEF s
  <1>9. f = [e EXCEPT !.ring = s, !.cbuf = e.ring[k].buf]
    BY DEF Select, s
  <1>10. /\ Rest(e, f) /\ f.action = e.action /\ f.ring = s /\ f.cbuf = e.ring[k].buf
    BY ONLY <1>1, <1>2, <1>9 DEF Rest, Editor
  <1> HIDE DEF f
  <1>11. Sound(f)
    <2>1. /\ f \in Editor /\ f.height = e.height /\ f.top = e.top
          /\ f.spare = e.spare /\ f.reading = e.reading /\ e.live = f.live /\ f.cbuf \in f.live
      BY <1>1, <1>10 DEF Rest
    <2>2. /\ MiniLast(e.ring, e.height) /\ Shown(e.ring) \subseteq e.live
          /\ {Scratch, Mini} \subseteq e.live
      BY DEF Sound
    <2>3. (HasMini(s) <=> HasMini(e.ring)) /\ MiniLast(s, e.height) /\ Shown(s) \subseteq e.live
      BY <1>6, <1>7, <2>2, AmongWindows
    <2> QED
      BY <1>5, <1>10, <2>1, <2>2, <2>3, RestSound
  <1>12. MiniOwn(e) => MiniOwn(f)
    <2>1. f.spare = e.spare /\ f.listed = e.listed
      BY <1>10 DEF Rest
    <2>2. Own(e.ring) => Own(s)
      BY <1>6, AmongWindows
    <2> QED
      BY <1>10, <2>1, <2>2 DEF MiniOwn
  <1>13. Keeps(e, f)
    BY <1>11, <1>12 DEF Keeps
  <1>14. /\ f.ring = Turned(e.ring, k) /\ Len(f.ring) = Len(e.ring)
         /\ f.ring[1] = e.ring[k] /\ DOMAIN f.ring = DOMAIN e.ring
         /\ \A i \in DOMAIN f.ring : \E j \in DOMAIN e.ring : f.ring[i] = e.ring[j]
         /\ \A i \in DOMAIN e.ring : \E j \in DOMAIN f.ring : e.ring[i] = f.ring[j]
    <2>1. f.ring = s /\ s = Turned(e.ring, k)
      BY <1>10 DEF s
    <2>2. Len(f.ring) = Len(e.ring) /\ DOMAIN f.ring = DOMAIN e.ring
      BY <1>2, <2>1
    <2>3. f.ring[1] = e.ring[k]
      BY <1>4, <2>1
    <2>4. \A i \in DOMAIN f.ring : \E j \in DOMAIN e.ring : f.ring[i] = e.ring[j]
      BY <1>6, <2>1
    <2>5. \A i \in DOMAIN e.ring : \E j \in DOMAIN f.ring : e.ring[i] = f.ring[j]
      BY <1>7, <2>1
    <2> QED
      BY <2>1, <2>2, <2>3, <2>4, <2>5, Zenon
  <1> QED
    BY ONLY <1>10, <1>13, <1>14 DEF f

(* other_window until JWindow is one of several windows.                   *)
LEMMA SelectFirstKeeps ==
  ASSUME NEW e, Sound(e), NEW ks, ks \subseteq DOMAIN e.ring, ks # {}
  PROVE  LET f == SelectFirst(e, ks)
         IN /\ Keeps(e, f) /\ Rest(e, f) /\ f.action = e.action
            /\ Len(f.ring) = Len(e.ring) /\ DOMAIN f.ring = DOMAIN e.ring
            /\ \E k \in ks : f.ring[1] = e.ring[k]
            /\ 1 \in ks => f = e
            /\ 1 \notin ks => f.cbuf = f.ring[1].buf /\ f = Select(e, Min(ks)) /\ Min(ks) \in ks
            /\ \A i \in DOMAIN f.ring : \E j \in DOMAIN e.ring : f.ring[i] = e.ring[j]
            /\ \A i \in DOMAIN e.ring : \E j \in DOMAIN f.ring : e.ring[i] = f.ring[j]
  <1>1. e \in Editor /\ Len(e.ring) \in Nat /\ DOMAIN e.ring = 1..Len(e.ring)
    BY SoundRing
  <1>2. CASE 1 \in ks
    <2>1. SelectFirst(e, ks) = e
      BY <1>2 DEF SelectFirst
    <2>2. Rest(e, e)
      BY <1>1 DEF Rest
    <2> QED
      BY <1>2, <2>1, <2>2 DEF Keeps
  <1>3. CASE 1 \notin ks
    <2>1. SelectFirst(e, ks) = Select(e, Min(ks))
      BY <1>3 DEF SelectFirst
    <2>2. ks \subseteq Nat
      BY <1>1
    <2>3. Min(ks) \in ks /\ Min(ks) \in DOMAIN e.ring
      BY <2>2, NatMin
    <2> DEFINE m == Min(ks)
               f == Select(e, m)
    <2> HIDE DEF m, f
    <2>4. /\ Keeps(e, f) /\ Rest(e, f) /\ f.action = e.action
          /\ f.cbuf = e.ring[m].buf /\ Len(f.ring) = Len(e.ring)
          /\ f.ring[1] = e.ring[m] /\ DOMAIN f.ring = DOMAIN e.ring
          /\ \A i \in DOMAIN f.ring : \E j \in DOMAIN e.ring : f.ring[i] = e.ring[j]
          /\ \A i \in DOMAIN e.ring : \E j \in DOMAIN f.ring : e.ring[i] = f.ring[j]
      BY <2>3, SelectKeeps DEF m, f
    <2>5. SelectFirst(e, ks) = f /\ m = Min(ks) /\ m \in ks
      BY <2>1, <2>3 DEF m, f
    <2>6. f.cbuf = f.ring[1].buf /\ f = Select(e, Min(ks))
      BY <2>4 DEF m, f
    <2>7. \E k \in ks : f.ring[1] = e.ring[k]
      BY <2>4, <2>5, Zenon
    <2> DEFINE g == SelectFirst(e, ks)
    <2>8. g = f
      BY <2>5
    <2> HIDE DEF g
    <2>9. /\ Keeps(e, g) /\ Rest(e, g) /\ g.action = e.action
          /\ Len(g.ring) = Len(e.ring) /\ DOMAIN g.ring = DOMAIN e.ring
          /\ \E k \in ks : g.ring[1] = e.ring[k]
          /\ g.cbuf = g.ring[1].buf /\ g = Select(e, Min(ks)) /\ Min(ks) \in ks
          /\ \A i \in DOMAIN g.ring : \E j \in DOMAIN e.ring : g.ring[i] = e.ring[j]
          /\ \A i \in DOMAIN e.ring : \E j \in DOMAIN g.ring : e.ring[i] = g.ring[j]
      BY <2>4, <2>5, <2>6, <2>7, <2>8
    <2> QED
      BY <1>3, <2>9 DEF g
  <1> QED
    BY <1>2, <1>3

(* Selecting a window shows nothing new.                                   *)
LEMMA SelectShows ==
  ASSUME NEW e, Sound(e), NEW k \in DOMAIN e.ring
  PROVE  NoneNew(e, Select(e, k))
  <1> DEFINE f == Select(e, k)
  <1>1. /\ f.cbuf = e.ring[k].buf
        /\ \A i \in DOMAIN f.ring : \E j \in DOMAIN e.ring : f.ring[i] = e.ring[j]
    BY SelectKeeps
  <1> HIDE DEF f
  <1>2. Shown(f.ring) \subseteq Shown(e.ring)
    BY <1>1, AmongWindows
  <1>3. f.cbuf \in Shown(e.ring)
    BY <1>1 DEF Shown
  <1>4. NoneNew(e, f)
    BY <1>2, <1>3 DEF NoneNew
  <1> QED
    BY <1>4 DEF f

LEMMA SelectFirstShows ==
  ASSUME NEW e, Sound(e), NEW ks, ks \subseteq DOMAIN e.ring, ks # {}
  PROVE  NoneNew(e, SelectFirst(e, ks))
  <1>1. CASE 1 \in ks
    <2>1. SelectFirst(e, ks) = e
      BY <1>1 DEF SelectFirst
    <2> QED
      BY <2>1 DEF NoneNew
  <1>2. CASE 1 \notin ks
    <2>1. SelectFirst(e, ks) = Select(e, Min(ks))
      BY <1>2 DEF SelectFirst
    <2>2. Min(ks) \in DOMAIN e.ring
      BY SoundRing, NatMin
    <2> QED
      BY <2>1, <2>2, SelectShows
  <1> QED
    BY <1>1, <1>2

-----------------------------------------------------------------------------
(* Showing buffers.                                                        *)

(* Windows that only show other buffers.                                   *)
LEMMA RebufSound ==
  ASSUME NEW e, Sound(e), NEW f, f \in Editor, f.height = e.height, f.top = e.top,
         f.spare = e.spare, f.reading = e.reading, {Scratch, Mini} \subseteq f.live,
         Len(f.ring) = Len(e.ring),
         \A i \in DOMAIN e.ring : /\ f.ring[i].id = e.ring[i].id /\ f.ring[i].sy = e.ring[i].sy
                                  /\ f.ring[i].rows = e.ring[i].rows /\ f.ring[i].buf \in f.live,
         f.cbuf \in f.live
  PROVE  Sound(f)
  <1>1. /\ Ring(e.ring) /\ f.ring \in Seq(Window) /\ e.height \in Nat /\ e.top \in Nat
        /\ Tiling(e.ring, e.height, e.top) /\ MiniLast(e.ring, e.height)
    <2>1. e \in Editor /\ Ring(e.ring) /\ Tiling(e.ring, e.height, e.top) /\ MiniLast(e.ring, e.height)
      BY DEF Sound
    <2> QED
      BY <2>1, EditorType
  <1>2. DOMAIN f.ring = DOMAIN e.ring
    BY <1>1, SoundRing
  <1>3. Ring(f.ring) /\ Tiling(f.ring, e.height, e.top)
    <2> DEFINE r == e.ring
               s == f.ring
    <2>1. /\ Ring(r) /\ s \in Seq(Window) /\ Len(s) = Len(r)
          /\ \A i \in DOMAIN r : s[i].id = r[i].id /\ s[i].sy = r[i].sy /\ s[i].rows = r[i].rows
      BY <1>1
    <2> HIDE DEF r, s
    <2>2. Ring(s) /\ \A h, t \in Nat : Tiling(r, h, t) => Tiling(s, h, t)
      BY <2>1, SameShape
    <2> QED
      BY <1>1, <2>2 DEF r, s
  <1>4. \A i \in DOMAIN e.ring : /\ f.ring[i].id = e.ring[i].id /\ f.ring[i].sy = e.ring[i].sy
                                 /\ f.ring[i].rows = e.ring[i].rows /\ f.ring[i].buf \in f.live
    OBVIOUS
  <1>5. HasMini(f.ring) <=> HasMini(e.ring)
    BY <1>2, <1>4, Zenon DEF HasMini
  <1>6. MiniLast(f.ring, e.height)
    <2>1. ASSUME NEW i \in DOMAIN f.ring, f.ring[i].id = MiniId
          PROVE  f.ring[i].sy = e.height - 1 /\ f.ring[i].rows = 1
      <3>1. i \in DOMAIN e.ring /\ e.ring[i].id = MiniId
        BY <1>2, <1>4, <2>1
      <3>2. e.ring[i].sy = e.height - 1 /\ e.ring[i].rows = 1
        BY <1>1, <3>1 DEF MiniLast
      <3> QED
        BY <1>4, <3>1, <3>2
    <2> QED
      BY <2>1 DEF MiniLast
  <1>7. Shown(f.ring) \subseteq f.live
    BY <1>2, <1>4 DEF Shown
  <1> QED
    BY <1>3, <1>5, <1>6, <1>7, RestSound

(* switch_to_buffer, of a buffer that is made if need be.                  *)
LEMMA SetBufferKeeps ==
  ASSUME NEW e, Sound(e), NEW b, b \in Buffers
  PROVE  LET f == SetBuffer(e, b)
         IN /\ Keeps(e, f) /\ f.ring = e.ring /\ f.height = e.height /\ f.top = e.top
            /\ f.spare = e.spare /\ f.live = e.live \cup {b} /\ f.cbuf = b
            /\ f.reading = e.reading /\ f.action = e.action /\ f.target = e.target
            /\ f.start = e.start /\ f.listed = e.listed /\ f.wins = e.wins
  <1> DEFINE f == SetBuffer(e, b)
  <1>1. e \in Editor
    BY DEF Sound
  <1>2. f \in Editor
    BY <1>1 DEF SetBuffer, Editor
  <1>3. /\ f.ring = e.ring /\ f.height = e.height /\ f.top = e.top
        /\ f.spare = e.spare /\ f.live = e.live \cup {b} /\ f.cbuf = b
        /\ f.reading = e.reading /\ f.action = e.action /\ f.target = e.target
        /\ f.start = e.start /\ f.listed = e.listed /\ f.wins = e.wins
    BY <1>1 DEF SetBuffer, Editor
  <1> HIDE DEF f
  <1>4. Sound(f)
    BY <1>2, <1>3 DEF Sound
  <1>5. MiniOwn(e) => MiniOwn(f)
    BY <1>3 DEF MiniOwn
  <1> QED
    BY <1>3, <1>4, <1>5 DEF Keeps, f

(* JWindow shows another buffer, not in the minibuffer's window.           *)
LEMMA WindowBufferKeeps ==
  ASSUME NEW e, Sound(e), NEW b, b \in e.live
  PROVE  LET f == WindowBuffer(e, b)
         IN /\ Sound(f) /\ f.height = e.height /\ f.top = e.top
            /\ f.spare = e.spare /\ f.live = e.live /\ f.cbuf = e.cbuf
            /\ f.reading = e.reading /\ f.action = e.action /\ f.target = e.target
            /\ f.start = e.start /\ f.listed = e.listed /\ f.wins = e.wins
            /\ Len(f.ring) = Len(e.ring) /\ f.ring[1].buf = b
            /\ \A i \in DOMAIN e.ring : f.ring[i].id = e.ring[i].id
            /\ f.ring[1].sy = e.ring[1].sy /\ f.ring[1].rows = e.ring[1].rows
            /\ \A i \in DOMAIN e.ring : i # 1 => f.ring[i] = e.ring[i]
            /\ MiniOwn(e) /\ b # Mini /\ ~InMiniWindow(e) => MiniOwn(f)
            /\ e.ring[1].buf = b => f = e
  <1> DEFINE f == WindowBuffer(e, b)
             w == [e.ring[1] EXCEPT !.buf = b]
  <1>1. /\ e \in Editor /\ e.ring \in Seq(Window) /\ 1 \in DOMAIN e.ring /\ e.ring[1] \in Window
        /\ b \in Buffers /\ Len(e.ring) \in Nat /\ DOMAIN e.ring = 1..Len(e.ring)
        /\ \A i \in DOMAIN e.ring : e.ring[i] \in Window /\ e.ring[i].buf \in e.live
    BY SoundRing, EditorType
  <1>2. w \in Window /\ w.id = e.ring[1].id /\ w.sy = e.ring[1].sy /\ w.rows = e.ring[1].rows /\ w.buf = b
    BY ONLY <1>1 DEF Window
  <1>3. f = [e EXCEPT !.ring = [e.ring EXCEPT ![1] = w]]
    BY DEF WindowBuffer
  <1>4. /\ [e.ring EXCEPT ![1] = w] \in Seq(Window) /\ Len([e.ring EXCEPT ![1] = w]) = Len(e.ring)
        /\ \A i \in DOMAIN e.ring : [e.ring EXCEPT ![1] = w][i] = IF i = 1 THEN w ELSE e.ring[i]
        /\ DOMAIN [e.ring EXCEPT ![1] = w] = DOMAIN e.ring
    <2> HIDE DEF w
    <2> QED
      BY <1>1, <1>2
  <1>5. e.ring[1].buf = b => w = e.ring[1]
    BY ONLY <1>1 DEF Window
  <1> HIDE DEF w, f
  <1>6. e.ring[1].buf = b => f = e
    <2>1. ASSUME e.ring[1].buf = b PROVE [e.ring EXCEPT ![1] = w] = e.ring
      BY <1>1, <1>5, <2>1
    <2> QED
      BY <1>1, <1>3, <2>1 DEF Editor
  <1>7. /\ f \in Editor /\ f.ring = [e.ring EXCEPT ![1] = w] /\ f.height = e.height
        /\ f.top = e.top /\ f.spare = e.spare /\ f.live = e.live /\ f.cbuf = e.cbuf
        /\ f.reading = e.reading /\ f.action = e.action /\ f.target = e.target
        /\ f.start = e.start /\ f.listed = e.listed /\ f.wins = e.wins
    BY ONLY <1>1, <1>3, <1>4 DEF Editor
  <1>8. /\ Len(f.ring) = Len(e.ring) /\ DOMAIN f.ring = DOMAIN e.ring
        /\ \A i \in DOMAIN e.ring : f.ring[i] = IF i = 1 THEN w ELSE e.ring[i]
    BY <1>4, <1>7
  <1>9. \A i \in DOMAIN e.ring : /\ f.ring[i].id = e.ring[i].id /\ f.ring[i].sy = e.ring[i].sy
                                 /\ f.ring[i].rows = e.ring[i].rows /\ f.ring[i].buf \in f.live
    BY <1>1, <1>2, <1>7, <1>8
  <1>10. Sound(f)
    <2>1. {Scratch, Mini} \subseteq e.live /\ e.cbuf \in e.live
      BY DEF Sound
    <2> QED
      BY <1>7, <1>8, <1>9, <2>1, RebufSound
  <1>11. ASSUME MiniOwn(e), b # Mini, ~InMiniWindow(e)
         PROVE  MiniOwn(f)
    <2>1. ASSUME NEW i \in DOMAIN f.ring
          PROVE  f.ring[i].id = MiniId <=> f.ring[i].buf = Mini
      <3>1. e.ring[i].id = MiniId <=> e.ring[i].buf = Mini
        BY <1>8, <1>11 DEF MiniOwn, Own
      <3>2. e.ring[1].id # MiniId
        BY <1>11 DEF InMiniWindow, JWindow
      <3> QED
        BY <1>2, <1>8, <1>11, <3>1, <3>2
    <2>2. Own(f.ring)
      BY <2>1, Zenon DEF Own
    <2> QED
      BY <1>7, <1>11, <2>2 DEF MiniOwn
  <1> QED
    BY ONLY <1>1, <1>2, <1>6, <1>7, <1>8, <1>9, <1>10, <1>11 DEF f

-----------------------------------------------------------------------------
(* split_window.                                                           *)

Room(r) == \E x \in Ids : \A i \in DOMAIN r : r[i].id # x

(* A new window is none of those there are.                                *)
LEMMA FreeIdFresh ==
  ASSUME NEW e, Room(e.ring)
  PROVE  FreeId(e) \in Ids /\ \A i \in DOMAIN e.ring : e.ring[i].id # FreeId(e)
  <1> DEFINE S == Ids \ {e.ring[i].id : i \in DOMAIN e.ring}
  <1>1. S # {}
    BY DEF Room
  <1>2. S \subseteq Nat
    BY WindowsAssumption DEF Ids
  <1>3. Min(S) \in S
    BY <1>1, <1>2, NatMin
  <1> QED
    BY <1>3 DEF FreeId

(* Below the bound there is a window left to be made.                      *)
LEMMA CanSplitRoom ==
  ASSUME NEW e, Sound(e), CanSplit(e) PROVE Room(e.ring)
  <1> DEFINE P == {i \in DOMAIN e.ring : e.ring[i].id # MiniId}
  <1>1. Cardinality(P) < MaxWindows
    BY DEF CanSplit
  <1>2. IsFiniteSet(P) /\ Cardinality(P) \in Nat
    <2>1. Len(e.ring) \in Nat /\ DOMAIN e.ring = 1..Len(e.ring)
      BY SoundRing
    <2>2. IsFiniteSet(1..Len(e.ring))
      <3> DEFINE n == Len(e.ring)
      <3>1. n \in Int /\ 1 \in Int
        BY <2>1
      <3> HIDE DEF n
      <3>2. IsFiniteSet(1..n)
        BY <3>1, FS_Interval
      <3> QED
        BY <3>2 DEF n
    <2>3. P \in SUBSET (1..Len(e.ring))
      BY <2>1
    <2>4. IsFiniteSet(P)
      BY <2>2, <2>3, FS_Subset
    <2> QED
      BY <2>4, FS_CardinalityType
  <1>3. MaxWindows \in Nat /\ Cardinality(Ids) = MaxWindows
    <2>1. MaxWindows \in Nat \ {0}
      BY WindowsAssumption
    <2> QED
      BY <2>1, FS_Interval DEF Ids
  <1>4. ASSUME ~Room(e.ring) PROVE FALSE
    <2> DEFINE f == [x \in Ids |-> CHOOSE i \in DOMAIN e.ring : e.ring[i].id = x]
    <2>1. \A x \in Ids : f[x] \in DOMAIN e.ring /\ e.ring[f[x]].id = x
      BY <1>4 DEF Room
    <2>2. \A x \in Ids : f[x] \in P
      BY <2>1, WindowType
    <2> HIDE DEF P
    <2>3. f \in [Ids -> P]
      BY <2>2
    <2>4. \A x, y \in Ids : f[x] = f[y] => x = y
      BY <2>1
    <2> HIDE DEF f
    <2>5. f \in Injection(Ids, P)
      BY <2>3, <2>4 DEF Injection, IsInjective
    <2>6. Cardinality(Ids) <= Cardinality(P)
      BY <1>2, <2>5, FS_Injection
    <2> QED
      BY <1>1, <1>2, <1>3, <2>6
  <1> QED
    BY <1>4

(* The window with the current line is selected; it is not the             *)
(* minibuffer's.                                                           *)
LEMMA FollowKeeps ==
  ASSUME NEW e, Sound(e), NEW row, row \in Nat, row < e.height, ~InMiniWindow(e)
  PROVE  LET f == Follow(e, row)
         IN /\ Keeps(e, f) /\ Rest(e, f) /\ f.action = e.action /\ ~InMiniWindow(f)
            /\ Len(f.ring) = Len(e.ring)
            /\ \A i \in DOMAIN f.ring : \E j \in DOMAIN e.ring : f.ring[i] = e.ring[j]
  <1> DEFINE at == {k \in DOMAIN e.ring : e.ring[k].sy < row /\ e.ring[k].sy + e.ring[k].rows >= row}
  <1>1. 1 \in DOMAIN e.ring
    BY SoundRing
  <1>2. CASE at = {}
    <2>1. Follow(e, row) = Select(e, 1)
      BY <1>2 DEF Follow
    <2> DEFINE f == Select(e, 1)
    <2> HIDE DEF f
    <2>2. /\ Keeps(e, f) /\ Rest(e, f) /\ f.action = e.action /\ f.ring[1] = e.ring[1]
          /\ Len(f.ring) = Len(e.ring)
          /\ \A i \in DOMAIN f.ring : \E j \in DOMAIN e.ring : f.ring[i] = e.ring[j]
      BY <1>1, SelectKeeps DEF f
    <2>3. ~InMiniWindow(f)
      BY <2>2 DEF InMiniWindow, JWindow
    <2>4. Follow(e, row) = f
      BY <2>1 DEF f
    <2> QED
      BY <2>2, <2>3, <2>4, Zenon
  <1>3. CASE at # {}
    <2> DEFINE f == SelectFirst(e, at)
    <2>1. Follow(e, row) = f
      BY <1>3 DEF Follow
    <2>2. at \subseteq DOMAIN e.ring
      OBVIOUS
    <2>3. \A k \in at : e.ring[k].id # MiniId
      <3>1. ASSUME NEW k \in at, e.ring[k].id = MiniId
            PROVE  FALSE
        <4>1. k \in DOMAIN e.ring /\ e.ring[k].sy < row /\ e.ring[k].sy + e.ring[k].rows >= row
          OBVIOUS
        <4>2. e.ring[k].sy = e.height - 1 /\ e.ring[k].rows = 1
          BY <3>1, <4>1 DEF Sound, MiniLast
        <4>3. e.height \in Nat
          BY EditorType DEF Sound
        <4> QED
          BY ONLY <4>1, <4>2, <4>3, row \in Nat, row < e.height
      <3> QED
        BY <3>1
    <2> HIDE DEF at
    <2>4. /\ Keeps(e, f) /\ Rest(e, f) /\ f.action = e.action
          /\ \E k \in at : f.ring[1] = e.ring[k]
          /\ Len(f.ring) = Len(e.ring)
          /\ \A i \in DOMAIN f.ring : \E j \in DOMAIN e.ring : f.ring[i] = e.ring[j]
      BY <1>3, <2>2, SelectFirstKeeps
    <2>5. ~InMiniWindow(f)
      BY <2>3, <2>4 DEF InMiniWindow, JWindow
    <2> HIDE DEF f
    <2> QED
      BY <2>1, <2>4, <2>5, Zenon
  <1> QED
    BY <1>2, <1>3

LEMMA FollowShows ==
  ASSUME NEW e, Sound(e), NEW row PROVE NoneNew(e, Follow(e, row))
  <1> DEFINE at == {k \in DOMAIN e.ring : e.ring[k].sy < row /\ e.ring[k].sy + e.ring[k].rows >= row}
  <1>1. Follow(e, row) = IF at = {} THEN Select(e, 1) ELSE SelectFirst(e, at)
    BY DEF Follow
  <1>2. 1 \in DOMAIN e.ring /\ at \subseteq DOMAIN e.ring
    BY SoundRing
  <1> HIDE DEF at
  <1> QED
    BY <1>1, <1>2, SelectShows, SelectFirstShows

(* split_window; the halves of an only window both show its buffer.        *)
LEMMA SplitKeeps ==
  ASSUME NEW e, Sound(e), NEW row, row \in Nat, row < e.height, ~InMiniWindow(e), Room(e.ring)
  PROVE  LET f == SplitWindow(e, row)
         IN /\ Keeps(e, f) /\ Rest(e, f) /\ f.action = e.action /\ ~InMiniWindow(f)
            /\ NoneNew(e, f)
            /\ (Len(e.ring) = 1 /\ JWindow(e).rows >= 5)
                 => (Len(f.ring) = 2 /\ \A i \in DOMAIN f.ring : f.ring[i].buf = e.ring[1].buf)
  <1>1. CASE JWindow(e).rows < 5
    <2>1. SplitWindow(e, row) = e
      BY <1>1 DEF SplitWindow
    <2>2. Rest(e, e)
      BY DEF Sound, Rest
    <2>3. ~(JWindow(e).rows >= 5)
      <3>1. JWindow(e).rows \in Nat
        BY SoundRing, WindowType DEF JWindow
      <3> QED
        BY ONLY <1>1, <3>1
    <2> QED
      BY <2>1, <2>2, <2>3 DEF Keeps, NoneNew
  <1>2. CASE ~(JWindow(e).rows < 5)
    <2> DEFINE r == e.ring
               w == r[1]
               n == w.rows \div 2
               one == [w EXCEPT !.rows = n]
               new == [id |-> FreeId(e), sy |-> w.sy + n + 1, rows |-> w.rows - n - 1,
                       buf |-> w.buf]
               s == <<one, new>> \o Tail(r)
               f == [e EXCEPT !.ring = s]
               to == IF row > w.sy THEN row ELSE 0
    <2>1. SplitWindow(e, row) = Follow(Select(f, 2), to)
      BY <1>2 DEF SplitWindow, JWindow
    <2>2. /\ e \in Editor /\ r \in Seq(Window) /\ 1 \in DOMAIN r /\ w \in Window
          /\ Len(r) \in Nat /\ DOMAIN r = 1..Len(r)
          /\ \A i \in DOMAIN r : r[i] \in Window /\ r[i].buf \in e.live
          /\ Ring(r) /\ Tiling(r, e.height, e.top) /\ MiniLast(r, e.height)
          /\ w.id # MiniId
      <3>1. /\ e \in Editor /\ r \in Seq(Window) /\ 1 \in DOMAIN r
            /\ Len(r) \in Nat /\ DOMAIN r = 1..Len(r)
            /\ \A i \in DOMAIN r : r[i] \in Window
            /\ \A i \in DOMAIN r : r[i].buf \in e.live
        BY SoundRing
      <3>2. Ring(r) /\ Tiling(r, e.height, e.top) /\ MiniLast(r, e.height)
        BY DEF Sound
      <3>3. w.id # MiniId
        BY DEF InMiniWindow, JWindow
      <3> QED
        BY <3>1, <3>2, <3>3
    <2>3. /\ w.sy \in Nat /\ w.rows \in Nat /\ w.rows >= 5 /\ w.id \in Ids \cup {MiniId}
          /\ w.buf \in Buffers
      BY <1>2, <2>2, WindowType DEF JWindow
    <2>4. n \in Nat /\ n >= 2 /\ w.rows >= n + 3
      BY ONLY <2>3
    <2>5. FreeId(e) \in Ids /\ \A i \in DOMAIN r : r[i].id # FreeId(e)
      BY FreeIdFresh
    <2> HIDE DEF n
    <2>6. /\ one \in Window /\ one.id = w.id /\ one.sy = w.sy /\ one.rows = n /\ one.buf = w.buf
      BY ONLY <2>2, <2>4 DEF Window
    <2>7. /\ new \in Window /\ new.id = FreeId(e) /\ new.sy = w.sy + n + 1
          /\ new.rows = w.rows - n - 1 /\ new.buf = w.buf
      BY ONLY <2>3, <2>4, <2>5 DEF Window
    <2> HIDE DEF one, new
    <2>8. /\ s \in Seq(Window) /\ Len(s) = Len(r) + 1 /\ DOMAIN s = 1..(Len(r) + 1)
          /\ s[1] = one /\ s[2] = new /\ \A i \in 3..Len(s) : s[i] = r[i - 1]
      <3> HIDE DEF r
      <3>1. <<one, new>> \in Seq(Window) /\ Len(<<one, new>>) = 2
        BY <2>6, <2>7
      <3>2. r # <<>>
        BY <2>2
      <3>3. /\ Tail(r) \in Seq(Window) /\ Len(Tail(r)) = Len(r) - 1
            /\ \A i \in 1..(Len(r) - 1) : Tail(r)[i] = r[i + 1]
        BY <2>2, <3>2
      <3>4. s \in Seq(Window) /\ Len(s) = Len(r) + 1
        BY <2>2, <3>1, <3>3
      <3>5. s[1] = one /\ s[2] = new
        BY <3>1, <3>3
      <3>6. \A i \in 3..Len(s) : s[i] = r[i - 1]
        <4>1. ASSUME NEW i \in 3..Len(s) PROVE s[i] = r[i - 1]
          <5>1. s[i] = Tail(r)[i - 2] /\ i - 2 \in 1..(Len(r) - 1)
            BY <2>2, <3>1, <3>3, <3>4
          <5> QED
            BY <3>3, <5>1
        <4> QED
          BY <4>1
      <3> QED
        BY <3>4, <3>5, <3>6
    <2> HIDE DEF s
    <2>9. e.height \in Nat /\ e.top \in Nat
      BY <2>2, EditorType
    <2>10. 1 \in Plains(r)
      BY <2>2 DEF Plains
    <2>11. Ring(s) /\ Tiling(s, e.height, e.top)
      <3> HIDE DEF r
      <3>1. /\ s[1].id = r[1].id /\ s[1].sy = r[1].sy /\ s[1].rows = n
            /\ s[2].sy = r[1].sy + n + 1 /\ s[2].rows = r[1].rows - n - 1
            /\ n \in Nat /\ n >= 2 /\ r[1].rows >= n + 3
        BY <2>4, <2>6, <2>7, <2>8
      <3>2. s[2].id # MiniId /\ \A i \in DOMAIN r : r[i].id # s[2].id
        BY <2>5, <2>7, <2>8, WindowType
      <3>3. /\ s \in Seq(Window) /\ Len(s) = Len(r) + 1 /\ \A i \in 3..Len(s) : s[i] = r[i - 1]
            /\ Ring(r) /\ Tiling(r, e.height, e.top)
        BY <2>2, <2>8
      <3> HIDE DEF w
      <3> QED
        BY <2>9, <2>10, <3>1, <3>2, <3>3, SplitTiling
    <2>12. \A i \in DOMAIN s : s[i] = one \/ s[i] = new \/ \E j \in DOMAIN r : s[i] = r[j]
      <3>1. ASSUME NEW i \in DOMAIN s, i # 1, i # 2
            PROVE  i - 1 \in DOMAIN r /\ s[i] = r[i - 1]
        BY ONLY <2>2, <2>8, <3>1
      <3> QED
        BY <2>8, <3>1
    <2>13. \A i \in DOMAIN r : i = 1 \/ \E j \in DOMAIN s : s[j] = r[i]
      <3>1. ASSUME NEW i \in DOMAIN r, i # 1
            PROVE  i + 1 \in 3..Len(s) /\ s[i + 1] = r[i]
        BY ONLY <2>2, <2>8, <3>1
      <3> QED
        BY <2>8, <3>1
    <2>14. HasMini(s) <=> HasMini(r)
      <3>1. one.id # MiniId /\ new.id # MiniId
        BY <2>2, <2>5, <2>6, <2>7, WindowType
      <3> QED
        BY <2>2, <2>12, <2>13, <3>1, Zenon DEF HasMini
    <2>15. MiniLast(s, e.height)
      <3>1. one.id # MiniId /\ new.id # MiniId
        BY <2>2, <2>5, <2>6, <2>7, WindowType
      <3>2. ASSUME NEW i \in DOMAIN s, s[i].id = MiniId
            PROVE  s[i].sy = e.height - 1 /\ s[i].rows = 1
        <4>1. PICK j \in DOMAIN r : s[i] = r[j]
          BY <2>12, <3>1, <3>2
        <4>2. r[j].id = MiniId => r[j].sy = e.height - 1 /\ r[j].rows = 1
          BY <2>2 DEF MiniLast
        <4> QED
          BY <3>2, <4>1, <4>2, Zenon
      <3> QED
        BY <3>2 DEF MiniLast
    <2>16. Shown(s) \subseteq e.live
      <3>1. \A i \in DOMAIN s : s[i].buf \in e.live
        <4>1. one.buf \in e.live /\ new.buf \in e.live
          BY <2>2, <2>6, <2>7
        <4>2. \A i \in DOMAIN r : r[i].buf \in e.live
          BY <2>2
        <4> QED
          BY <2>12, <4>1, <4>2, Zenon
      <3> QED
        BY <3>1 DEF Shown
    <2>17. Rest(e, f) /\ f.ring = s /\ f.action = e.action /\ f.cbuf = e.cbuf
      BY ONLY <2>2, <2>8 DEF Rest, Editor
    <2> HIDE DEF f
    <2>18. Sound(f)
      <3>1. {Scratch, Mini} \subseteq e.live /\ e.cbuf \in e.live
        BY DEF Sound
      <3>2. /\ f \in Editor /\ f.height = e.height /\ f.top = e.top
            /\ f.spare = e.spare /\ f.reading = e.reading /\ f.live = e.live
        BY <2>17 DEF Rest
      <3> QED
        BY <2>11, <2>14, <2>15, <2>16, <2>17, <3>1, <3>2, RestSound
    <2>19. MiniOwn(e) => MiniOwn(f)
      <3>1. ASSUME MiniOwn(e), NEW i \in DOMAIN s
            PROVE  s[i].id = MiniId <=> s[i].buf = Mini
        <4>1. \A j \in DOMAIN r : r[j].id = MiniId <=> r[j].buf = Mini
          BY <3>1 DEF MiniOwn, Own
        <4>2. one.id # MiniId /\ new.id # MiniId /\ w.buf # Mini
          BY <2>2, <2>5, <2>6, <2>7, <4>1, WindowType
        <4> QED
          BY <2>6, <2>7, <2>12, <4>1, <4>2, Zenon
      <3>2. f.spare = e.spare /\ f.listed = e.listed
        BY <2>17 DEF Rest
      <3>3. MiniOwn(e) => Own(s)
        BY <3>1, Zenon DEF Own
      <3> QED
        BY <2>17, <3>2, <3>3 DEF MiniOwn
    <2> DEFINE g == Select(f, 2)
    <2>20. 2 \in DOMAIN f.ring
      BY <2>2, <2>8, <2>17
    <2> HIDE DEF g
    <2>21. /\ Keeps(f, g) /\ Rest(f, g) /\ g.action = f.action /\ g.ring[1] = f.ring[2]
           /\ Len(g.ring) = Len(f.ring)
           /\ \A i \in DOMAIN g.ring : \E j \in DOMAIN f.ring : g.ring[i] = f.ring[j]
      BY <2>18, <2>20, SelectKeeps DEF g
    <2>22. ~InMiniWindow(g)
      BY <2>5, <2>7, <2>8, <2>17, <2>21, WindowType DEF InMiniWindow, JWindow
    <2>23. g.height = e.height /\ to \in Nat /\ to < g.height
      <3>1. g.height = e.height
        BY <2>17, <2>21 DEF Rest
      <3> QED
        BY ONLY <2>9, <3>1, EditorType, row \in Nat, row < e.height
    <2> DEFINE x == Follow(g, to)
    <2> HIDE DEF to
    <2>24. /\ Keeps(g, x) /\ Rest(g, x) /\ x.action = g.action /\ ~InMiniWindow(x)
           /\ Len(x.ring) = Len(g.ring)
           /\ \A i \in DOMAIN x.ring : \E j \in DOMAIN g.ring : x.ring[i] = g.ring[j]
      <3>1. Sound(g)
        BY <2>21 DEF Keeps
      <3> QED
        BY ONLY <2>22, <2>23, <3>1, FollowKeeps DEF x
    <2>25. SplitWindow(e, row) = x
      BY <2>1 DEF x, g
    <2> HIDE DEF x
    <2>26. Keeps(e, x)
      BY <2>19, <2>21, <2>24 DEF Keeps
    <2>27. Rest(e, x)
      BY <2>17, <2>21, <2>24 DEF Rest
    <2>28. ASSUME Len(r) = 1
           PROVE  Len(x.ring) = 2 /\ \A i \in DOMAIN x.ring : x.ring[i].buf = r[1].buf
      <3>1. Len(s) = 2 /\ \A i \in DOMAIN s : s[i].buf = r[1].buf
        BY <2>6, <2>7, <2>8, <2>28
      <3>2. Len(x.ring) = 2
        BY <2>17, <2>21, <2>24, <3>1
      <3>3. \A i \in DOMAIN x.ring : \E j \in DOMAIN s : x.ring[i] = s[j]
        BY <2>17, <2>21, <2>24, Zenon
      <3>4. \A i \in DOMAIN x.ring : x.ring[i].buf = r[1].buf
        BY <3>1, <3>3, Zenon
      <3> QED
        BY <3>2, <3>4
    <2>29. x.action = e.action
      BY <2>17, <2>21, <2>24
    <2>30. (Len(e.ring) = 1 /\ JWindow(e).rows >= 5)
             => (Len(x.ring) = 2 /\ \A i \in DOMAIN x.ring : x.ring[i].buf = e.ring[1].buf)
      BY <2>28
    <2>31. NoneNew(e, x)
      <3>1. \A i \in DOMAIN s : \E j \in DOMAIN r : s[i].buf = r[j].buf
        BY <2>2, <2>6, <2>7, <2>12, Zenon
      <3>5. Shown(s) \subseteq Shown(r)
        BY ONLY <3>1, AmongShown
      <3>2. NoneNew(e, f)
        BY <2>17, <3>5 DEF NoneNew
      <3>3. NoneNew(f, g) /\ Sound(g)
        BY <2>18, <2>20, <2>21, SelectShows DEF g, Keeps
      <3>4. NoneNew(g, x)
        BY <3>3, FollowShows DEF x
      <3> QED
        BY <3>2, <3>3, <3>4, NoneNewChain
    <2> HIDE DEF r
    <2> QED
      BY <2>24, <2>25, <2>26, <2>27, <2>29, <2>30, <2>31, Zenon
  <1> QED
    BY <1>1, <1>2

-----------------------------------------------------------------------------
(* one_window.                                                             *)

(* free_window leaves all but the ring and the window in use as it was.    *)
LEMMA FreedRest ==
  ASSUME NEW e, e \in Editor, NEW r, r \in Seq(Window)
  PROVE  Rest(e, Freed(e, r)) /\ Freed(e, r).ring = r /\ Freed(e, r).cbuf = e.cbuf
  <1> DEFINE a == IF e.action \in {r[i].id : i \in DOMAIN r} THEN e.action ELSE None
  <1>1. Freed(e, r) = [e EXCEPT !.ring = r, !.action = a]
    BY DEF Freed
  <1>2. a \in Ids \cup {None}
    BY EditorType
  <1> HIDE DEF a
  <1> QED
    BY ONLY <1>1, <1>2, e \in Editor, r \in Seq(Window) DEF Rest, Editor

(* one_window outside the minibuffer's: JWindow gets the whole screen.     *)
LEMMA OneWindowKeeps ==
  ASSUME NEW e, Sound(e), ~InMiniWindow(e)
  PROVE  LET f == OneWindow(e)
         IN /\ Keeps(e, f) /\ Rest(e, f) /\ f.cbuf = e.cbuf
            /\ f.ring[1].id = e.ring[1].id /\ f.ring[1].buf = e.ring[1].buf
            /\ f.ring[1].sy = e.top /\ f.ring[1].rows = e.height - 2 - e.top
            /\ Plains(f.ring) = {1} /\ Len(f.ring) \in {1, 2}
            /\ NoneNew(e, f)
  <1> DEFINE r == e.ring
             M == IndexOfId(e, MiniId)
             mini == IF M = {} THEN <<>> ELSE <<r[Min(M)]>>
             all == [r[1] EXCEPT !.sy = e.top, !.rows = e.height - 2 - e.top]
             s == <<all>> \o mini
             f == Freed(e, s)
  <1>1. OneWindow(e) = f
    BY DEF OneWindow, JWindow
  <1>2. /\ e \in Editor /\ r \in Seq(Window) /\ 1 \in DOMAIN r /\ r[1] \in Window
        /\ Len(r) \in Nat /\ DOMAIN r = 1..Len(r)
        /\ \A i \in DOMAIN r : r[i] \in Window
        /\ \A i \in DOMAIN r : r[i].buf \in e.live
        /\ e.height \in Nat /\ e.height >= 5 /\ e.top \in {0, 1} /\ e.top \in Nat
    BY SoundRing, EditorType
  <1>3. r[1].id # MiniId
    BY DEF InMiniWindow, JWindow
  <1>4. /\ all \in Window /\ all.id = r[1].id /\ all.sy = e.top
        /\ all.rows = e.height - 2 - e.top /\ all.buf = r[1].buf
    <2>1. e.height - 2 - e.top \in Nat
      BY ONLY <1>2
    <2> QED
      BY ONLY <1>2, <2>1 DEF Window
  <1>5. M # {} => Min(M) \in DOMAIN r /\ r[Min(M)].id = MiniId /\ r[Min(M)] \in Window
    <2>1. M \subseteq Nat /\ \A i \in M : i \in DOMAIN r /\ r[i].id = MiniId
      BY <1>2 DEF IndexOfId
    <2>2. M # {} => Min(M) \in M
      BY <2>1, NatMin
    <2> QED
      BY <1>2, <2>1, <2>2
  <1>6. M = {} <=> ~HasMini(r)
    BY DEF IndexOfId, HasMini
  <1> DEFINE v == r[Min(M)]
  <1> HIDE DEF all, v, M
  <1>7. /\ s \in Seq(Window) /\ Len(s) = IF M = {} THEN 1 ELSE 2
        /\ s[1] = all /\ (M # {} => s[2] = v)
    <2>1. CASE M = {}
      <3>1. s = <<all>> \o <<>>
        BY <2>1
      <3> QED
        BY <1>4, <2>1, <3>1
    <2>2. CASE M # {}
      <3>1. s = <<all>> \o <<v>> /\ v \in Window
        BY <1>5, <2>2 DEF v
      <3> QED
        BY <1>4, <2>2, <3>1
    <2> QED
      BY <2>1, <2>2
  <1> HIDE DEF s, f
  <1>8. DOMAIN s = 1..Len(s) /\ \A i \in DOMAIN s : s[i] = all \/ (M # {} /\ i = 2 /\ s[i] = v)
    <2>1. DOMAIN s = 1..Len(s) /\ Len(s) \in {1, 2}
      <3>1. s \in Seq(Window) /\ Len(s) = IF M = {} THEN 1 ELSE 2
        BY <1>7
      <3>2. Len(s) \in {1, 2}
        BY <3>1
      <3>3. DOMAIN s = 1..Len(s)
        <4>1. s \in Seq(Window)
          BY <3>1
        <4> QED
          BY ONLY <4>1
      <3> QED
        BY <3>2, <3>3
    <2>2. ASSUME NEW i \in DOMAIN s
          PROVE  s[i] = all \/ (M # {} /\ i = 2 /\ s[i] = v)
      <3>1. i = 1 \/ (i = 2 /\ Len(s) = 2)
        BY ONLY <2>1, i \in DOMAIN s
      <3> QED
        BY <1>7, <3>1
    <2> QED
      BY <2>1, <2>2
  <1>9. M # {} => v.id = MiniId /\ v \in Window /\ \E j \in DOMAIN r : v = r[j]
    BY <1>5, Zenon DEF v
  <1>10. Ring(s) /\ Plains(s) = {1} /\ Len(s) \in {1, 2}
    <2>1. \A i \in DOMAIN s : s[i].id = MiniId <=> i = 2
      BY <1>3, <1>4, <1>7, <1>8, <1>9
    <2>2. 1 \in DOMAIN s /\ Len(s) \in {1, 2} /\ \A i \in DOMAIN s : i = 1 \/ i = 2
      BY <1>7, <1>8
    <2>3. Plains(s) = {1}
      BY <2>1, <2>2 DEF Plains
    <2>4. \A i, j \in DOMAIN s : s[i].id = s[j].id => i = j
      BY <2>1, <2>2
    <2> QED
      BY <1>7, <2>2, <2>3, <2>4 DEF Ring
  <1>11. Tiling(s, e.height, e.top)
    <2>1. s[1].rows >= 2 /\ s[1].sy = e.top /\ AtBottom(s[1], e.height)
      <3>1. s[1].sy = e.top /\ s[1].rows = e.height - 2 - e.top
        BY <1>4, <1>7
      <3>2. e.height \in Nat /\ e.height >= 5 /\ e.top \in Nat /\ (e.top = 0 \/ e.top = 1)
        BY <1>2
      <3>3. e.height - 2 - e.top >= 2 /\ (e.height - 2 - e.top) + e.top + 2 = e.height
        BY ONLY <3>2
      <3>4. s[1].sy + s[1].rows + 2 = e.height
        BY ONLY <3>1, <3>2
      <3> QED
        BY ONLY <3>1, <3>3, <3>4 DEF AtBottom
    <2>2. 1 \in Plains(s) /\ \A i \in Plains(s) : i = 1
      BY <1>10
    <2> QED
      BY <1>2, <1>10, <2>1, <2>2, OneTiling
  <1>12. MiniLast(s, e.height)
    <2>1. ASSUME NEW i \in DOMAIN s, s[i].id = MiniId
          PROVE  s[i].sy = e.height - 1 /\ s[i].rows = 1
      <3>1. M # {} /\ s[i] = v
        BY <1>3, <1>4, <1>8, <2>1
      <3>2. PICK j \in DOMAIN r : v = r[j]
        BY <1>9, <3>1
      <3>3. r[j].id = MiniId => r[j].sy = e.height - 1 /\ r[j].rows = 1
        BY DEF Sound, MiniLast
      <3> QED
        BY <2>1, <3>1, <3>2, <3>3, Zenon
    <2> QED
      BY <2>1 DEF MiniLast
  <1>13. Shown(s) \subseteq e.live
    <2>1. \A i \in DOMAIN s : s[i].buf \in e.live
      <3>1. M # {} => v.buf \in e.live
        BY <1>2, <1>9, Zenon
      <3>2. all.buf \in e.live
        BY <1>2, <1>4
      <3> QED
        BY <1>8, <3>1, <3>2, Zenon
    <2> QED
      BY <2>1 DEF Shown
  <1>14. HasMini(s) <=> HasMini(r)
    <2>1. HasMini(s) <=> M # {}
      <3>1. ASSUME HasMini(s) PROVE M # {}
        BY <1>3, <1>4, <1>8, <3>1 DEF HasMini
      <3>2. ASSUME M # {} PROVE HasMini(s)
        BY <1>7, <1>8, <1>9, <3>2 DEF HasMini
      <3> QED
        BY <3>1, <3>2
    <2> QED
      BY <1>6, <2>1
  <1>15. Rest(e, f) /\ f.ring = s /\ f.cbuf = e.cbuf
    BY <1>2, <1>7, FreedRest DEF f
  <1>16. Sound(f)
    <2>1. {Scratch, Mini} \subseteq e.live /\ e.cbuf \in e.live
      BY DEF Sound
    <2>2. /\ f \in Editor /\ f.height = e.height /\ f.top = e.top
          /\ f.spare = e.spare /\ f.reading = e.reading /\ f.live = e.live
      BY <1>15 DEF Rest
    <2> QED
      BY <1>10, <1>11, <1>12, <1>13, <1>14, <1>15, <2>1, <2>2, RestSound
  <1>17. MiniOwn(e) => MiniOwn(f)
    <2>1. ASSUME MiniOwn(e), NEW i \in DOMAIN s
          PROVE  s[i].id = MiniId <=> s[i].buf = Mini
      <3>1. \A j \in DOMAIN r : r[j].id = MiniId <=> r[j].buf = Mini
        BY <2>1 DEF MiniOwn, Own
      <3>2. all.id = MiniId <=> all.buf = Mini
        BY <1>2, <1>4, <3>1
      <3>3. M # {} => (v.id = MiniId <=> v.buf = Mini)
        BY <1>9, <3>1
      <3> QED
        BY <1>8, <3>2, <3>3, Zenon
    <2>2. f.spare = e.spare /\ f.listed = e.listed
      BY <1>15 DEF Rest
    <2>3. MiniOwn(e) => Own(s)
      BY <2>1, Zenon DEF Own
    <2> QED
      BY <1>15, <2>2, <2>3 DEF MiniOwn
  <1>18. Keeps(e, f)
    BY <1>16, <1>17 DEF Keeps
  <1>19. /\ f.ring[1].id = e.ring[1].id /\ f.ring[1].buf = e.ring[1].buf
         /\ f.ring[1].sy = e.top /\ f.ring[1].rows = e.height - 2 - e.top
         /\ Plains(f.ring) = {1} /\ Len(f.ring) \in {1, 2}
    BY <1>4, <1>7, <1>10, <1>15
  <1>20. NoneNew(e, f)
    <2>1. \A i \in DOMAIN s : \E j \in DOMAIN r : s[i].buf = r[j].buf
      BY <1>2, <1>4, <1>8, <1>9, Zenon
    <2>2. Shown(s) \subseteq Shown(r)
      BY ONLY <2>1, AmongShown
    <2> QED
      BY <1>15, <2>2 DEF NoneNew
  <1> QED
    BY <1>1, <1>15, <1>18, <1>19, <1>20

-----------------------------------------------------------------------------
(* enlarge_window.                                                         *)

(* A function on the numbers up to n is a sequence.                        *)
LEMMA FunctionIsSeq ==
  ASSUME NEW S, NEW n, n \in Nat, NEW f, f \in [1..n -> S]
  PROVE  f \in Seq(S) /\ Len(f) = n
  OBVIOUS

(* A ring of the same windows, in other rows: the minibuffer's is as it    *)
(* was.                                                                    *)
LEMMA RowsKeep ==
  ASSUME NEW e, Sound(e), NEW f, f \in Editor, f.height = e.height, f.spare = e.spare,
         f.live = e.live, f.reading = e.reading, f.listed = e.listed, f.cbuf = e.cbuf,
         Ring(f.ring), Tiling(f.ring, f.height, f.top), Len(f.ring) = Len(e.ring),
         \A i \in DOMAIN e.ring :
           /\ f.ring[i].id = e.ring[i].id /\ f.ring[i].buf = e.ring[i].buf
           /\ e.ring[i].id = MiniId => f.ring[i] = e.ring[i]
  PROVE  Keeps(e, f)
  <1>1. DOMAIN f.ring = DOMAIN e.ring
    BY SoundRing DEF Ring
  <1> DEFINE r == e.ring
             s == f.ring
  <1> HIDE DEF r, s
  <1>2. /\ DOMAIN s = DOMAIN r
        /\ \A i \in DOMAIN r : s[i].id = r[i].id /\ s[i].buf = r[i].buf
        /\ \A i \in DOMAIN r : r[i].id = MiniId => s[i] = r[i]
    BY <1>1 DEF r, s
  <1>3. HasMini(s) <=> HasMini(r)
    BY <1>2, Zenon DEF HasMini
  <1>4. MiniLast(s, e.height)
    <2>1. MiniLast(r, e.height)
      BY DEF Sound, r
    <2> QED
      BY ONLY <1>2, <2>1, Zenon DEF MiniLast
  <1>5. Shown(s) \subseteq e.live
    <2>1. Shown(r) \subseteq e.live
      BY DEF Sound, r
    <2> QED
      BY <1>2, <2>1 DEF Shown
  <1>6. Own(r) => Own(s)
    BY <1>2, Zenon DEF Own
  <1>7. Sound(f)
    BY <1>3, <1>4, <1>5 DEF Sound, r, s
  <1>8. MiniOwn(e) => MiniOwn(f)
    BY <1>6 DEF MiniOwn, r, s
  <1> QED
    BY <1>7, <1>8 DEF Keeps

(* enlarge_window, not across the minibuffer's.                            *)
LEMMA EnlargeKeeps ==
  ASSUME NEW e, Sound(e), ~Across(e)
  PROVE  LET f == EnlargeWindow(e)
         IN /\ Keeps(e, f) /\ Rest(e, f) /\ f.cbuf = e.cbuf /\ f.action = e.action
            /\ NoneNew(e, f)
  <1>1. CASE InMiniWindow(e) \/ Donors(e) = {}
    <2>1. EnlargeWindow(e) = e
      BY <1>1 DEF EnlargeWindow
    <2>2. Rest(e, e)
      BY DEF Sound, Rest
    <2> QED
      BY <2>1, <2>2 DEF Keeps, NoneNew
  <1>2. CASE ~InMiniWindow(e) /\ Donors(e) # {}
    <2> DEFINE r == e.ring
               k == Min(Donors(e))
               above == r[k].sy < r[1].sy
               Moved(i) == IF above THEN IF i > k \/ i = 1 THEN r[i].sy - 1 ELSE r[i].sy
                           ELSE IF i \in 2..k THEN r[i].sy + 1 ELSE r[i].sy
               Rows(i) == IF i = 1 THEN r[i].rows + 1
                          ELSE IF i = k THEN r[i].rows - 1 ELSE r[i].rows
               W(i) == [r[i] EXCEPT !.sy = Moved(i), !.rows = Rows(i)]
               s == [i \in DOMAIN r |-> W(i)]
               f == [e EXCEPT !.ring = s]
    <2>1. EnlargeWindow(e) = f
      BY <1>2 DEF EnlargeWindow, JWindow
    <2>2. /\ e \in Editor /\ r \in Seq(Window) /\ 1 \in DOMAIN r
          /\ Len(r) \in Nat /\ DOMAIN r = 1..Len(r)
          /\ \A i \in DOMAIN r : r[i] \in Window
          /\ Ring(r) /\ Tiling(r, e.height, e.top) /\ MiniLast(r, e.height)
          /\ e.height \in Nat /\ e.top \in Nat
      BY SoundRing, EditorType DEF Sound
    <2>3. k \in 2..Len(r) /\ r[k].rows > 2
      <3>1. Donors(e) \subseteq Nat
        BY <2>2 DEF Donors, NumWindows
      <3>2. k \in Donors(e)
        BY <1>2, <3>1, NatMin
      <3> QED
        BY <3>2 DEF Donors, NumWindows, Spares
    <2>4. k \in Plains(r) /\ k # 1 /\ 1 \in Plains(r)
      <3>1. k \in DOMAIN r
        BY <2>2, <2>3
      <3>2. r[k].id # MiniId
        BY <2>2, <2>3, <3>1 DEF MiniLast
      <3>3. r[1].id # MiniId
        BY <1>2 DEF InMiniWindow, JWindow
      <3>4. k # 1
        BY <2>3
      <3> QED
        BY <2>2, <3>1, <3>2, <3>3, <3>4 DEF Plains
    <2>5. \A i \in DOMAIN r : r[i].id = MiniId => ~(IF above THEN i > k ELSE i < k)
      <3>1. \A i \in IndexOfId(e, MiniId) : ~(IF above THEN i > k ELSE i < k)
        BY <1>2 DEF Across, JWindow
      <3> QED
        BY <3>1 DEF IndexOfId
    <2>6. above => \A i \in Plains(r) : i > k \/ i = 1 => r[i].sy >= 1
      <3> HIDE DEF k, r
      <3>1. \E b \in Plains(r) : r[k].sy < r[1].sy => b < k /\ \A i \in Plains(r) : i > k \/ i = 1 => r[i].sy >= 1
        BY <2>2, <2>4, EnlargeOrder
      <3> QED
        BY <3>1
    <2>7. \A i \in DOMAIN r : Rows(i) \in Nat /\ Moved(i) \in Nat
      <3>1. ASSUME NEW i \in DOMAIN r
            PROVE  Rows(i) \in Nat /\ Moved(i) \in Nat
        <4>1. r[i].sy \in Nat /\ r[i].rows \in Nat
          BY <2>2, WindowType
        <4>2. i = k => r[i].rows > 2
          BY <2>3
        <4>3. above /\ (i > k \/ i = 1) => r[i].sy >= 1
          <5>1. above /\ i > k => r[i].id # MiniId
            BY <2>5
          <5>2. i = 1 => r[i].id # MiniId
            BY <2>4 DEF Plains
          <5>3. r[i].id # MiniId => i \in Plains(r)
            BY DEF Plains
          <5> QED
            BY <2>6, <5>1, <5>2, <5>3
        <4> HIDE DEF r, k
        <4> QED
          BY ONLY <4>1, <4>2, <4>3
      <3> QED
        BY <3>1
    <2>8. \A i \in DOMAIN r : W(i) \in Window /\ W(i).id = r[i].id /\ W(i).sy = Moved(i)
                              /\ W(i).rows = Rows(i) /\ W(i).buf = r[i].buf
      <3>1. ASSUME NEW i \in DOMAIN r
            PROVE  /\ W(i) \in Window /\ W(i).id = r[i].id /\ W(i).sy = Moved(i)
                   /\ W(i).rows = Rows(i) /\ W(i).buf = r[i].buf
        <4>1. Moved(i) \in Nat /\ Rows(i) \in Nat /\ r[i] \in Window
          BY <2>2, <2>7
        <4> HIDE DEF Moved, Rows, r
        <4> QED
          BY ONLY <4>1 DEF Window
      <3> QED
        BY <3>1
    <2>9. \A i \in DOMAIN r : r[i].id = MiniId => W(i) = r[i]
      <3>1. ASSUME NEW i \in DOMAIN r, r[i].id = MiniId
            PROVE  W(i) = r[i]
        <4>1. Moved(i) = r[i].sy /\ Rows(i) = r[i].rows
          <5>1. i # 1 /\ i # k
            BY <2>4, <3>1 DEF Plains
          <5>2. ~(IF above THEN i > k ELSE i < k) /\ k \in 2..Len(r) /\ i \in 1..Len(r) /\ Len(r) \in Nat
            BY <2>2, <2>3, <2>5, <3>1
          <5> HIDE DEF k, above
          <5> QED
            BY ONLY <5>1, <5>2
        <4>2. r[i] \in Window
          BY <2>2
        <4> HIDE DEF Moved, Rows, r
        <4> QED
          BY ONLY <4>1, <4>2 DEF Window
      <3> QED
        BY <3>1
    <2> HIDE DEF W
    <2>10. s \in Seq(Window) /\ Len(s) = Len(r) /\ \A i \in DOMAIN r : s[i] = W(i)
      <3>1. s \in [1..Len(r) -> Window]
        BY <2>2, <2>8
      <3> DEFINE n == Len(r)
      <3> HIDE DEF s, n
      <3>2. s \in Seq(Window) /\ Len(s) = n
        BY <2>2, <3>1, FunctionIsSeq DEF n
      <3> QED
        BY <3>2 DEF n, s
    <2> HIDE DEF s
    <2>11. Ring(s) /\ Tiling(s, e.height, e.top)
      <3>1. \A i \in DOMAIN r : s[i].id = r[i].id
        BY <2>8, <2>10
      <3>2. \A i \in Plains(r) :
              /\ s[i].rows = IF i = 1 THEN r[i].rows + 1 ELSE IF i = k THEN r[i].rows - 1 ELSE r[i].rows
              /\ s[i].sy = IF r[k].sy < r[1].sy
                           THEN IF i > k \/ i = 1 THEN r[i].sy - 1 ELSE r[i].sy
                           ELSE IF i \in 2..k THEN r[i].sy + 1 ELSE r[i].sy
        BY <2>8, <2>10 DEF Plains
      <3> HIDE DEF r, k
      <3> QED
        BY <2>2, <2>3, <2>4, <2>10, <3>1, <3>2, EnlargeTiling
    <2>12. Rest(e, f) /\ f.ring = s /\ f.action = e.action /\ f.cbuf = e.cbuf
      BY ONLY <2>2, <2>10 DEF Rest, Editor
    <2> HIDE DEF f
    <2>13. Keeps(e, f)
      <3>1. /\ f \in Editor /\ f.height = e.height /\ f.top = e.top
            /\ f.spare = e.spare /\ f.reading = e.reading /\ f.live = e.live /\ f.listed = e.listed
        BY <2>12 DEF Rest
      <3>2. \A i \in DOMAIN e.ring :
              /\ f.ring[i].id = e.ring[i].id /\ f.ring[i].buf = e.ring[i].buf
              /\ e.ring[i].id = MiniId => f.ring[i] = e.ring[i]
        BY <2>8, <2>9, <2>10, <2>12
      <3>3. Ring(f.ring) /\ Tiling(f.ring, f.height, f.top) /\ Len(f.ring) = Len(e.ring)
        BY <2>10, <2>11, <2>12, <3>1
      <3> QED
        BY <2>12, <3>1, <3>2, <3>3, RowsKeep
    <2>14. NoneNew(e, f)
      <3>1. DOMAIN s \subseteq DOMAIN r /\ \A i \in DOMAIN s : s[i].buf = r[i].buf
        BY <2>8, <2>10
      <3>2. Shown(s) \subseteq Shown(r)
        BY ONLY <3>1, SameShown
      <3> QED
        BY <2>12, <3>2 DEF NoneNew
    <2> QED
      BY <2>1, <2>12, <2>13, <2>14
  <1> QED
    BY <1>1, <1>2

-----------------------------------------------------------------------------
(* delete_window.                                                          *)

(* What RemoveAt leaves, place by place.                                   *)
LEMMA RemoveAtAt ==
  ASSUME NEW S, NEW r, r \in Seq(S), NEW c, c \in DOMAIN r
  PROVE  /\ RemoveAt(r, c) \in Seq(S) /\ Len(RemoveAt(r, c)) = Len(r) - 1
         /\ \A i \in 1..(Len(r) - 1) : RemoveAt(r, c)[i] = r[Skip(c, i)]
  <1> DEFINE n == Len(r)
             a == SubSeq(r, 1, c - 1)
             z == SubSeq(r, c + 1, n)
  <1>1. n \in Nat /\ DOMAIN r = 1..n /\ c \in 1..n
    OBVIOUS
  <1>2. a \in Seq(S) /\ Len(a) = c - 1 /\ \A i \in 1..(c - 1) : a[i] = r[i]
    <2>1. a \in Seq(S) /\ Len(a) = c - 1
      BY <1>1
    <2> QED
      BY <1>1, <2>1
  <1>3. z \in Seq(S) /\ Len(z) = n - c /\ \A i \in 1..(n - c) : z[i] = r[c + i]
    <2>1. z \in Seq(S) /\ Len(z) = n - c
      BY <1>1
    <2> QED
      BY <1>1, <2>1
  <1>4. RemoveAt(r, c) = a \o z
    BY DEF RemoveAt
  <1> HIDE DEF a, z, n
  <1>5. /\ a \o z \in Seq(S) /\ Len(a \o z) = n - 1
        /\ \A i \in 1..(n - 1) : (a \o z)[i] = IF i <= Len(a) THEN a[i] ELSE z[i - Len(a)]
    <2>0. a \in Seq(S) /\ z \in Seq(S)
      BY <1>2, <1>3
    <2>1. a \o z \in Seq(S) /\ Len(a \o z) = Len(a) + Len(z)
      BY ONLY <2>0
    <2>2. \A i \in 1..(Len(a) + Len(z)) : (a \o z)[i] = IF i <= Len(a) THEN a[i] ELSE z[i - Len(a)]
      BY <1>2, <1>3
    <2>3. Len(a) + Len(z) = n - 1
      BY ONLY <1>1, <1>2, <1>3
    <2> QED
      BY <2>1, <2>2, <2>3
  <1>6. ASSUME NEW i \in 1..(n - 1)
        PROVE  RemoveAt(r, c)[i] = r[Skip(c, i)]
    <2>1. (a \o z)[i] = IF i <= c - 1 THEN a[i] ELSE z[i - (c - 1)]
      BY <1>2, <1>5
    <2>2. CASE i <= c - 1
      <3>1. Skip(c, i) = i /\ i \in 1..(c - 1)
        BY ONLY <1>1, <2>2, i \in 1..(n - 1) DEF Skip
      <3> QED
        BY <1>2, <1>4, <2>1, <2>2, <3>1
    <2>3. CASE ~(i <= c - 1)
      <3>1. i - (c - 1) \in 1..(n - c) /\ Skip(c, i) = c + (i - (c - 1))
        BY ONLY <1>1, <2>3, i \in 1..(n - 1) DEF Skip
      <3> QED
        BY <1>3, <1>4, <2>1, <2>3, <3>1
    <2> QED
      BY <2>2, <2>3
  <1> QED
    BY <1>4, <1>5, <1>6 DEF n

(* Two windows that begin at the same row are one.                         *)
LEMMA SameRow ==
  ASSUME NEW r, Ring(r), NEW h, h \in Nat, NEW t, t \in Nat, Tiling(r, h, t),
         NEW i, i \in Plains(r), NEW j, j \in Plains(r), r[i].sy = r[j].sy
  PROVE  i = j
  <1>1. i # j => Over(r[i], r[j]) \/ Over(r[j], r[i])
    BY RingLayout
  <1>2. r[i].sy \in Nat /\ r[j].sy \in Nat /\ r[i].rows \in Nat /\ r[j].rows \in Nat
    BY RingFacts
  <1> QED
    BY ONLY <1>1, <1>2, r[i].sy = r[j].sy DEF Over

(* There is a window above the bottom window.                              *)
LEMMA BottomHasAbove ==
  ASSUME NEW r, Ring(r), NEW h, h \in Nat, NEW t, t \in Nat, Tiling(r, h, t),
         1 \in Plains(r), AtBottom(r[1], h), Len(r) # 1, HasMini(r) => Len(r) # 2
  PROVE  \E i \in Plains(r) : i # 1 /\ r[i].sy + r[i].rows + 1 = r[1].sy
  <1> DEFINE n == Len(r)
  <1>1. n \in Nat /\ DOMAIN r = 1..n /\ 1 \in 1..n /\ n # 1
    BY RingFacts DEF Plains
  <1>2. \A i \in Plains(r) : AtBottom(r[i], h) <=> i = 1
    BY DEF Tiling
  <1>3. \A i \in Plains(r) : i # 1 => r[Below(r, i)].sy = r[i].sy + r[i].rows + 1
    BY <1>2 DEF Tiling
  <1>4. \A i : Succ(r, i) = IF i = n THEN 1 ELSE i + 1
    BY DEF Succ
  <1> HIDE DEF n
  <1>5. CASE n \in Plains(r)
    <2>1. Below(r, n) = 1
      BY <1>4 DEF Below
    <2> QED
      BY <1>1, <1>3, <1>5, <2>1
  <1>6. CASE n \notin Plains(r)
    <2>1. n \in DOMAIN r
      BY ONLY <1>1
    <2>2. r[n].id = MiniId
      BY <1>6, <2>1 DEF Plains
    <2>3. HasMini(r)
      BY <2>1, <2>2 DEF HasMini
    <2>4. n # 2
      BY <2>3 DEF n
    <2>5. n - 1 \in 1..n /\ n - 1 # n /\ n - 1 # 1 /\ (n - 1) + 1 = n
      BY ONLY <1>1, <2>4
    <2>6. n - 1 \in Plains(r)
      BY <1>1, <1>6, <2>1, <2>5, RingFacts
    <2>7. Succ(r, n - 1) = n /\ Succ(r, n) = 1
      BY <1>4, <2>5
    <2>8. Below(r, n - 1) = 1
      BY <1>6, <2>7 DEF Below
    <2> QED
      BY <1>3, <2>5, <2>6, <2>8
  <1> QED
    BY <1>5, <1>6

(* delete_window, at the bottom of the screen or above it.                 *)
LEMMA DeleteKeeps ==
  ASSUME NEW e, Sound(e)
  PROVE  LET f == DeleteWindow(e)
         IN Keeps(e, f) /\ Rest(e, f) /\ f.cbuf \in e.live /\ NoneNew(e, f)
  <1> DEFINE r == e.ring
             this == r[1]
             end == this.sy + this.rows + 2
             bottom == end = e.height
             to == IF bottom THEN {k \in DOMAIN r : r[k].sy + r[k].rows + 1 = this.sy}
                   ELSE {k \in DOMAIN r : r[k].sy + 1 = end}
             f == SelectFirst(e, to)
             g == f.ring
             c == Min(IndexOfId(f, this.id))
             q == RemoveAt(g, c)
             one == [q[1] EXCEPT !.rows = @ + this.rows + 1, !.sy = IF bottom THEN @ ELSE this.sy]
             s == [q EXCEPT ![1] = one]
             x == Freed(f, s)
  <1>1. CASE NumWindows(e) = 1 \/ (e.reading /\ (InMiniWindow(e) \/ NumWindows(e) = 2))
    <2>1. DeleteWindow(e) = e
      BY <1>1 DEF DeleteWindow
    <2>2. Rest(e, e) /\ e.cbuf \in e.live
      BY DEF Sound, Rest
    <2> QED
      BY <2>1, <2>2 DEF Keeps, NoneNew
  <1>2. CASE ~(NumWindows(e) = 1 \/ (e.reading /\ (InMiniWindow(e) \/ NumWindows(e) = 2)))
    <2>1. DeleteWindow(e) = Freed(f, [q EXCEPT ![1].rows = @ + this.rows + 1,
                                                ![1].sy = IF bottom THEN @ ELSE this.sy])
      BY <1>2 DEF DeleteWindow, JWindow
    <2>2. /\ e \in Editor /\ r \in Seq(Window) /\ 1 \in DOMAIN r /\ this \in Window
          /\ Len(r) \in Nat /\ DOMAIN r = 1..Len(r)
          /\ \A i \in DOMAIN r : r[i] \in Window /\ r[i].sy \in Nat /\ r[i].rows \in Nat
          /\ Ring(r) /\ Tiling(r, e.height, e.top) /\ MiniLast(r, e.height)
          /\ e.height \in Nat /\ e.top \in Nat /\ Len(r) # 1
          /\ this.sy \in Nat /\ this.rows \in Nat
      <3>1. /\ e \in Editor /\ r \in Seq(Window) /\ 1 \in DOMAIN r
            /\ Len(r) \in Nat /\ DOMAIN r = 1..Len(r)
            /\ e.height \in Nat /\ e.top \in Nat
        BY SoundRing, EditorType
      <3>2. Ring(r) /\ Tiling(r, e.height, e.top) /\ MiniLast(r, e.height)
        BY DEF Sound
      <3>3. \A i \in DOMAIN r : r[i] \in Window /\ r[i].sy \in Nat /\ r[i].rows \in Nat
        BY <3>2, RingFacts
      <3>4. Len(r) # 1
        BY <1>2 DEF NumWindows
      <3> QED
        BY <3>1, <3>2, <3>3, <3>4
    <2>3. this.id # MiniId /\ 1 \in Plains(r) /\ (HasMini(r) => Len(r) # 2)
      <3>1. e.reading <=> HasMini(r)
        BY DEF Sound
      <3>2. this.id # MiniId
        BY <1>2, <2>2, <3>1 DEF InMiniWindow, JWindow, HasMini
      <3>3. HasMini(r) => Len(r) # 2
        BY <1>2, <3>1 DEF NumWindows
      <3> QED
        BY <2>2, <3>2, <3>3 DEF Plains
    <2>4. \A k \in to : k \in Plains(r) /\ k # 1
      <3>1. ASSUME NEW k \in to
            PROVE  k \in Plains(r) /\ k # 1
        <4>1. /\ k \in DOMAIN r /\ r[k].sy \in Nat /\ r[k].rows \in Nat
              /\ IF bottom THEN r[k].sy + r[k].rows + 1 = this.sy ELSE r[k].sy + 1 = end
          BY <2>2
        <4>2. r[k].id = MiniId => r[k].sy = e.height - 1 /\ r[k].rows = 1
          BY <2>2, <4>1 DEF MiniLast
        <4>3. r[k].id # MiniId
          <5>1. e.height \in Nat /\ this.sy \in Nat /\ this.rows \in Nat
            BY <2>2
          <5> HIDE DEF this
          <5> QED
            BY ONLY <4>1, <4>2, <5>1
        <4>4. k # 1
          <5>1. this.sy \in Nat /\ this.rows \in Nat /\ this = r[1]
            BY <2>2
          <5> HIDE DEF this, r
          <5> QED
            BY ONLY <4>1, <5>1
        <4> QED
          BY <4>1, <4>3, <4>4 DEF Plains
      <3> QED
        BY <3>1
    <2>5. to # {}
      <3>1. CASE bottom
        <4>1. AtBottom(r[1], e.height)
          BY <3>1 DEF AtBottom
        <4> HIDE DEF r
        <4>2. \E i \in Plains(r) : i # 1 /\ r[i].sy + r[i].rows + 1 = r[1].sy
          BY <2>2, <2>3, <4>1, BottomHasAbove
        <4>3. PICK i \in Plains(r) : r[i].sy + r[i].rows + 1 = r[1].sy
          BY <4>2
        <4>4. i \in to
          BY <3>1, <4>3 DEF Plains
        <4> QED
          BY <4>4
      <3>2. CASE ~bottom
        <4>1. ~AtBottom(r[1], e.height)
          BY <3>2 DEF AtBottom
        <4>2. r[Below(r, 1)].sy = this.sy + this.rows + 1
          BY <2>2, <2>3, <4>1 DEF Tiling
        <4>3. Below(r, 1) \in DOMAIN r
          <5> HIDE DEF r
          <5> QED
            BY <2>2, <2>3, RingFacts
        <4>4. r[Below(r, 1)].sy + 1 = end
          BY <2>2, <4>2
        <4>5. Below(r, 1) \in to
          BY <3>2, <4>3, <4>4
        <4> QED
          BY <4>5
      <3> QED
        BY <3>1, <3>2
    <2>6. /\ \A k \in to : IF bottom THEN r[k].sy + r[k].rows + 1 = this.sy ELSE r[k].sy + 1 = end
          /\ to \subseteq DOMAIN r /\ 1 \notin to
      BY <2>4 DEF Plains
    <2> DEFINE a == Min(to)
    <2> HIDE DEF to
    <2>7. /\ Keeps(e, f) /\ Rest(e, f) /\ f.ring = Turned(r, a)
          /\ Len(g) = Len(r) /\ DOMAIN g = DOMAIN r
          /\ (\E k \in to : g[1] = r[k])
          /\ f.cbuf = g[1].buf
          /\ (\A i \in DOMAIN g : \E j \in DOMAIN r : g[i] = r[j])
          /\ (\A i \in DOMAIN r : \E j \in DOMAIN g : r[i] = g[j])
      <3>1. a \in to /\ f = Select(e, a) /\ a \in DOMAIN r
        BY <2>5, <2>6, SelectFirstKeeps
      <3> HIDE DEF a, f
      <3>2. /\ Keeps(e, f) /\ Rest(e, f) /\ f.ring = Turned(r, a)
            /\ Len(f.ring) = Len(r) /\ DOMAIN f.ring = DOMAIN r
            /\ f.ring[1] = r[a] /\ f.cbuf = r[a].buf
        BY <3>1, SelectKeeps
      <3>3. /\ (\A i \in DOMAIN f.ring : \E j \in DOMAIN r : f.ring[i] = r[j])
            /\ (\A i \in DOMAIN r : \E j \in DOMAIN f.ring : r[i] = f.ring[j])
        BY <3>1, SelectKeeps
      <3> QED
        BY <3>1, <3>2, <3>3
    <2> HIDE DEF f
    <2>8. /\ Ring(g) /\ Tiling(g, e.height, e.top) /\ g \in Seq(Window)
          /\ MiniLast(g, e.height) /\ Shown(g) \subseteq e.live
          /\ Len(g) \in Nat /\ DOMAIN g = 1..Len(g) /\ f \in Editor
          /\ \A i \in DOMAIN g : g[i] \in Window /\ g[i].sy \in Nat /\ g[i].rows \in Nat
      <3>1. Sound(f) /\ f.height = e.height /\ f.top = e.top /\ f.live = e.live
        BY <2>7 DEF Keeps, Rest
      <3>2. /\ Ring(g) /\ Tiling(g, e.height, e.top) /\ MiniLast(g, e.height)
            /\ Shown(g) \subseteq e.live /\ f \in Editor
        BY <3>1 DEF Sound
      <3>3. /\ g \in Seq(Window) /\ Len(g) \in Nat /\ DOMAIN g = 1..Len(g)
        BY <3>1, SoundRing
      <3>4. \A i \in DOMAIN g : g[i] \in Window /\ g[i].sy \in Nat /\ g[i].rows \in Nat
        <4> HIDE DEF g
        <4> QED
          BY <3>2, RingFacts
      <3> QED
        BY <3>2, <3>3, <3>4
    <2>9. /\ g[1].id # MiniId /\ 1 \in Plains(g) /\ g[1].id # this.id /\ g[1] \in Window
          /\ g[1].sy \in Nat /\ g[1].rows \in Nat
          /\ IF bottom THEN g[1].sy + g[1].rows + 1 = this.sy ELSE g[1].sy + 1 = end
      <3>1. PICK k \in to : g[1] = r[k]
        BY <2>7
      <3>2. k \in Plains(r) /\ k # 1 /\ k \in DOMAIN r
        BY <2>4, <2>6
      <3>3. r[k].id # MiniId /\ r[k].id # this.id
        BY <2>2, <3>2 DEF Plains, Ring
      <3>4. 1 \in DOMAIN g
        BY <2>2, <2>7
      <3>5. IF bottom THEN r[k].sy + r[k].rows + 1 = this.sy ELSE r[k].sy + 1 = end
        BY <2>6
      <3> QED
        BY <2>8, <3>1, <3>3, <3>4, <3>5 DEF Plains
    <2>10. c \in Plains(g) /\ c # 1 /\ g[c] = this
      <3>1. PICK j \in DOMAIN g : r[1] = g[j]
        BY <2>2, <2>7
      <3>2. IndexOfId(f, this.id) = {j}
        <4>1. \A i \in DOMAIN g : g[i].id = g[j].id => i = j
          BY <2>8 DEF Ring
        <4> QED
          BY <3>1, <4>1 DEF IndexOfId
      <3>3. c = j
        <4>1. {j} \subseteq Nat /\ {j} # {}
          BY <2>8
        <4>2. Min({j}) \in {j}
          BY <4>1, NatMin
        <4> QED
          BY <3>2, <4>2
      <3>4. g[c] = this /\ c \in DOMAIN g
        BY <3>1, <3>3
      <3> HIDE DEF g, c, this
      <3> QED
        BY <2>3, <2>9, <3>4 DEF Plains
    <2> HIDE DEF c
    <2>11. c \in 2..Len(g) /\ c \in DOMAIN g
      <3>1. c \in DOMAIN g
        BY <2>10 DEF Plains
      <3> QED
        BY <2>8, <2>10, <3>1
    <2>12. /\ q \in Seq(Window) /\ Len(q) = Len(g) - 1
           /\ \A i \in 1..(Len(g) - 1) : q[i] = g[Skip(c, i)]
      <3> HIDE DEF g
      <3>1. g \in Seq(Window) /\ c \in DOMAIN g
        BY <2>8, <2>11
      <3> QED
        BY ONLY <3>1, RemoveAtAt
    <2>13. q[1] = g[1] /\ 1 \in DOMAIN q /\ DOMAIN q = 1..(Len(g) - 1)
      <3> DEFINE n == Len(g)
      <3>0. n \in Nat /\ c \in 2..n /\ Len(q) = n - 1 /\ q \in Seq(Window)
        BY <2>8, <2>11, <2>12
      <3>1. Skip(c, 1) = 1 /\ 1 \in 1..(n - 1)
        <4> HIDE DEF n
        <4> QED
          BY ONLY <3>0 DEF Skip
      <3>2. DOMAIN q = 1..(n - 1)
        <4> HIDE DEF n, q
        <4> QED
          BY ONLY <3>0
      <3> QED
        BY <2>12, <3>1, <3>2
    <2>14. /\ one \in Window /\ one.id = g[1].id /\ one.buf = g[1].buf
           /\ one.rows = g[1].rows + this.rows + 1
           /\ one.sy = IF bottom THEN g[1].sy ELSE this.sy
      <3> DEFINE w == g[1]
                 y == IF bottom THEN w.sy ELSE this.sy
                 m == w.rows + this.rows + 1
      <3>1. one = [w EXCEPT !.rows = m, !.sy = y]
        BY <2>13
      <3>2. w \in Window /\ y \in Nat /\ m \in Nat
        <4>1. /\ this.sy \in Nat /\ this.rows \in Nat /\ w \in Window /\ w.sy \in Nat
              /\ w.rows \in Nat
          BY <2>2, <2>9
        <4> HIDE DEF this, w, bottom
        <4> QED
          BY ONLY <4>1
      <3> HIDE DEF w, y, m, one
      <3>3. one \in Window /\ one.id = w.id /\ one.buf = w.buf /\ one.rows = m /\ one.sy = y
        BY ONLY <3>1, <3>2 DEF Window
      <3> QED
        BY <3>3 DEF w, y, m
    <2>15. DeleteWindow(e) = x
      <3> HIDE DEF q
      <3>1. [q EXCEPT ![1].rows = @ + this.rows + 1, ![1].sy = IF bottom THEN @ ELSE this.sy] = s
        <4> HIDE DEF bottom, this
        <4>1. q[1] \in Window
          BY <2>9, <2>13
        <4> QED
          BY ONLY <2>13, <4>1 DEF Window
      <3> QED
        BY <2>1, <3>1
    <2> HIDE DEF one, q
    <2>16. /\ s \in Seq(Window) /\ Len(s) = Len(g) - 1 /\ DOMAIN s = 1..(Len(g) - 1) /\ s[1] = one
           /\ \A i \in DOMAIN s : i # 1 => s[i] = g[Skip(c, i)]
      BY <2>12, <2>13, <2>14
    <2> HIDE DEF s
    <2>17. IF AtBottom(g[c], e.height) THEN Below(g, 1) = c ELSE Below(g, c) = 1
      <3> HIDE DEF g
      <3>0. Below(g, 1) \in Plains(g) /\ Below(g, c) \in Plains(g)
        BY <2>8, <2>9, <2>10, RingFacts
      <3>1. CASE bottom
        <4>1. AtBottom(g[c], e.height)
          BY <2>10, <3>1 DEF AtBottom
        <4>2. ~AtBottom(g[1], e.height)
          BY <2>8, <2>9, <2>10, <4>1 DEF Tiling
        <4>3. g[Below(g, 1)].sy = g[1].sy + g[1].rows + 1
          BY <2>8, <2>9, <4>2 DEF Tiling
        <4>4. g[Below(g, 1)].sy = g[c].sy
          BY <2>9, <2>10, <3>1, <4>3
        <4>5. Below(g, 1) = c
          BY <2>2, <2>8, <2>10, <3>0, <4>4, SameRow
        <4> QED
          BY <4>1, <4>5
      <3>2. CASE ~bottom
        <4>1. ~AtBottom(g[c], e.height)
          BY <2>10, <3>2 DEF AtBottom
        <4>2. g[Below(g, c)].sy = this.sy + this.rows + 1
          BY <2>8, <2>10, <4>1 DEF Tiling
        <4>3. g[Below(g, c)].sy = g[1].sy
          <5>1. g[1].sy + 1 = this.sy + this.rows + 2 /\ g[1].sy \in Nat
            BY <2>9, <3>2
          <5>2. this.sy \in Nat /\ this.rows \in Nat
            BY <2>2
          <5> HIDE DEF this
          <5> QED
            BY ONLY <4>2, <5>1, <5>2
        <4>4. Below(g, c) = 1
          BY <2>2, <2>8, <2>9, <3>0, <4>3, SameRow
        <4> QED
          BY <4>1, <4>4
      <3> QED
        BY <3>1, <3>2
    <2>18. Ring(s) /\ Tiling(s, e.height, e.top)
      <3>1. bottom <=> AtBottom(g[c], e.height)
        BY <2>10 DEF AtBottom
      <3>2. /\ s[1].id = g[1].id /\ s[1].rows = g[1].rows + g[c].rows + 1
            /\ s[1].sy = IF AtBottom(g[c], e.height) THEN g[1].sy ELSE g[c].sy
        BY <2>10, <2>14, <2>16, <3>1
      <3> HIDE DEF g
      <3> QED
        BY <2>2, <2>8, <2>9, <2>10, <2>16, <2>17, <3>2, MergeTiling
    <2>19. \A i \in DOMAIN s : i = 1 \/ \E j \in DOMAIN g : s[i] = g[j]
      <3>1. ASSUME NEW i \in DOMAIN s, i # 1
            PROVE  Skip(c, i) \in DOMAIN g
        <4> DEFINE n == Len(g)
        <4>1. i \in 1..(n - 1) /\ n \in Nat /\ DOMAIN g = 1..n
          BY <2>8, <2>16
        <4>2. Skip(c, i) \in 1..n
          <5>1. c \in 2..n
            BY <2>11
          <5> HIDE DEF n
          <5> QED
            BY ONLY <4>1, <5>1 DEF Skip
        <4> QED
          BY <4>1, <4>2
      <3> QED
        BY <2>16, <3>1
    <2>20. \A i \in DOMAIN g : i = 1 \/ i = c \/ \E j \in DOMAIN s : s[j] = g[i]
      <3>1. ASSUME NEW i \in DOMAIN g, i # 1, i # c
            PROVE  Back(c, i) \in DOMAIN s /\ Back(c, i) # 1 /\ Skip(c, Back(c, i)) = i
        <4> DEFINE n == Len(g)
        <4>1. i \in 1..n /\ n \in Nat /\ DOMAIN s = 1..(n - 1)
          BY <2>8, <2>16
        <4>2. Back(c, i) \in 1..(n - 1) /\ Back(c, i) # 1 /\ Skip(c, Back(c, i)) = i
          <5>1. c \in 2..n
            BY <2>11
          <5> HIDE DEF n
          <5> QED
            BY ONLY <3>1, <4>1, <5>1 DEF Skip, Back
        <4> QED
          BY <4>1, <4>2
      <3> QED
        BY <2>16, <3>1
    <2>21. HasMini(s) <=> HasMini(r)
      <3>1. one.id # MiniId /\ g[c].id # MiniId /\ g[1].id # MiniId
        BY <2>3, <2>9, <2>10, <2>14
      <3>2. HasMini(s) <=> HasMini(g)
        <4>1. HasMini(s) => HasMini(g)
          BY <2>16, <2>19, <3>1, Zenon DEF HasMini
        <4>2. HasMini(g) => HasMini(s)
          BY <2>20, <3>1, Zenon DEF HasMini
        <4> QED
          BY <4>1, <4>2
      <3>3. HasMini(g) <=> HasMini(r)
        BY <2>7, AmongWindows
      <3> QED
        BY <3>2, <3>3
    <2>22. MiniLast(s, e.height)
      <3>1. one.id # MiniId
        BY <2>9, <2>14
      <3>2. ASSUME NEW i \in DOMAIN s, s[i].id = MiniId
            PROVE  s[i].sy = e.height - 1 /\ s[i].rows = 1
        <4>1. PICK j \in DOMAIN g : s[i] = g[j]
          BY <2>16, <2>19, <3>1, <3>2
        <4>2. g[j].id = MiniId => g[j].sy = e.height - 1 /\ g[j].rows = 1
          BY <2>8 DEF MiniLast
        <4> QED
          BY <3>2, <4>1, <4>2, Zenon
      <3> QED
        BY <3>2 DEF MiniLast
    <2>23. Shown(s) \subseteq e.live
      <3>1. \A i \in DOMAIN g : g[i].buf \in e.live
        BY <2>8 DEF Shown
      <3>2. one.buf \in e.live
        BY <2>2, <2>7, <2>14, <3>1
      <3>3. \A i \in DOMAIN s : s[i].buf \in e.live
        BY <2>16, <2>19, <3>1, <3>2, Zenon
      <3> QED
        BY <3>3 DEF Shown
    <2>24. Rest(e, x) /\ x.ring = s /\ x.cbuf = f.cbuf
      <3>1. Rest(f, x) /\ x.ring = s /\ x.cbuf = f.cbuf
        BY <2>8, <2>16, FreedRest
      <3> QED
        BY <2>7, <3>1 DEF Rest
    <2> HIDE DEF x
    <2>25. f.cbuf \in e.live
      <3>1. Sound(f) /\ f.live = e.live
        BY <2>7 DEF Keeps, Rest
      <3> QED
        BY <3>1 DEF Sound
    <2>26. Sound(x)
      <3>1. {Scratch, Mini} \subseteq e.live
        BY DEF Sound
      <3>2. /\ x \in Editor /\ x.height = e.height /\ x.top = e.top
            /\ x.spare = e.spare /\ x.reading = e.reading /\ x.live = e.live
        BY <2>24 DEF Rest
      <3> QED
        BY <2>18, <2>21, <2>22, <2>23, <2>24, <2>25, <3>1, <3>2, RestSound
    <2>27. MiniOwn(e) => MiniOwn(x)
      <3>1. ASSUME MiniOwn(e), NEW i \in DOMAIN s
            PROVE  s[i].id = MiniId <=> s[i].buf = Mini
        <4>0. MiniOwn(f)
          BY <2>7, <3>1 DEF Keeps
        <4>1. \A j \in DOMAIN g : g[j].id = MiniId <=> g[j].buf = Mini
          BY <4>0 DEF MiniOwn, Own
        <4>2. one.id = MiniId <=> one.buf = Mini
          <5>1. 1 \in DOMAIN g
            BY <2>2, <2>7
          <5> QED
            BY <2>14, <4>1, <5>1, Zenon
        <4> QED
          BY <2>16, <2>19, <4>1, <4>2, Zenon
      <3>2. x.spare = e.spare /\ x.listed = e.listed
        BY <2>24 DEF Rest
      <3>3. MiniOwn(e) => Own(s)
        BY <3>1, Zenon DEF Own
      <3> QED
        BY <2>24, <3>2, <3>3 DEF MiniOwn
    <2>28. NoneNew(e, x)
      <3>1. \A i \in DOMAIN s : \E j \in DOMAIN g : s[i].buf = g[j].buf
        BY <2>2, <2>7, <2>14, <2>16, <2>19, Zenon
      <3>4. Shown(s) \subseteq Shown(g)
        BY ONLY <3>1, AmongShown
      <3>2. NoneNew(f, x)
        BY <2>24, <3>4 DEF NoneNew
      <3>3. NoneNew(e, f)
        BY <2>5, <2>6, SelectFirstShows DEF f
      <3> QED
        BY <3>2, <3>3, NoneNewChain
    <2> QED
      BY <2>15, <2>24, <2>25, <2>26, <2>27, <2>28 DEF Keeps
  <1> QED
    BY <1>1, <1>2

-----------------------------------------------------------------------------
(* jed_update_window_sizes.                                                *)

MiniAt(r, h) == [i \in DOMAIN r |-> IF r[i].id = MiniId THEN [r[i] EXCEPT !.sy = h - 1] ELSE r[i]]

(* The minibuffer's window on the last row of a screen with h rows.        *)
LEMMA MiniAtFacts ==
  ASSUME NEW r, Ring(r), NEW h, h \in Nat, h >= 1
  PROVE  /\ MiniAt(r, h) \in Seq(Window) /\ Len(MiniAt(r, h)) = Len(r)
         /\ DOMAIN MiniAt(r, h) = DOMAIN r /\ Ring(MiniAt(r, h)) /\ Plains(MiniAt(r, h)) = Plains(r)
         /\ \A i \in DOMAIN r : /\ MiniAt(r, h)[i].id = r[i].id /\ MiniAt(r, h)[i].buf = r[i].buf
                                /\ MiniAt(r, h)[i].rows = r[i].rows
         /\ \A i \in DOMAIN r : r[i].id = MiniId => MiniAt(r, h)[i].sy = h - 1
         /\ \A i \in Plains(r) : MiniAt(r, h)[i] = r[i]
  <1> DEFINE s == MiniAt(r, h)
             n == Len(r)
             W(i) == IF r[i].id = MiniId THEN [r[i] EXCEPT !.sy = h - 1] ELSE r[i]
  <1>1. n \in Nat /\ DOMAIN r = 1..n /\ r \in Seq(Window) /\ \A i \in DOMAIN r : r[i] \in Window
    BY RingFacts DEF Ring
  <1>2. \A i \in DOMAIN r : /\ W(i) \in Window /\ W(i).id = r[i].id /\ W(i).buf = r[i].buf
                            /\ W(i).rows = r[i].rows
                            /\ (r[i].id = MiniId => W(i).sy = h - 1)
                            /\ (r[i].id # MiniId => W(i) = r[i])
    <2>1. ASSUME NEW i \in DOMAIN r
          PROVE  /\ W(i) \in Window /\ W(i).id = r[i].id /\ W(i).buf = r[i].buf
                 /\ W(i).rows = r[i].rows
                 /\ (r[i].id = MiniId => W(i).sy = h - 1)
                 /\ (r[i].id # MiniId => W(i) = r[i])
      <3>1. r[i] \in Window /\ h - 1 \in Nat
        BY <1>1
      <3> DEFINE w == r[i]
      <3> HIDE DEF w
      <3>2. w \in Window /\ W(i) = IF w.id = MiniId THEN [w EXCEPT !.sy = h - 1] ELSE w
        BY <3>1 DEF w
      <3> HIDE DEF W
      <3>3. /\ W(i) \in Window /\ W(i).id = w.id /\ W(i).buf = w.buf /\ W(i).rows = w.rows
            /\ (w.id = MiniId => W(i).sy = h - 1)
            /\ (w.id # MiniId => W(i) = w)
        <4>1. CASE w.id = MiniId
          <5>1. W(i) = [w EXCEPT !.sy = h - 1]
            BY <3>2, <4>1
          <5> QED
            BY ONLY <3>1, <3>2, <4>1, <5>1 DEF Window
        <4>2. CASE w.id # MiniId
          BY <3>2, <4>2
        <4> QED
          BY <4>1, <4>2
      <3> QED
        BY <3>3 DEF w
    <2> QED
      BY <2>1
  <1>3. s = [i \in 1..n |-> W(i)]
    BY <1>1 DEF MiniAt
  <1> HIDE DEF W, s
  <1>4. s \in Seq(Window) /\ Len(s) = n
    <2>1. s \in [1..n -> Window]
      BY <1>1, <1>2, <1>3
    <2> HIDE DEF n
    <2> QED
      BY <1>1, <2>1, FunctionIsSeq
  <1>5. DOMAIN s = DOMAIN r /\ \A i \in DOMAIN r : s[i] = W(i)
    BY <1>1, <1>3
  <1>6. \A i \in DOMAIN r : s[i].id = r[i].id
    BY <1>2, <1>5
  <1>7. Ring(s) /\ Plains(s) = Plains(r)
    <2> HIDE DEF n
    <2> QED
      BY <1>4, <1>6, Reshaped DEF n
  <1> QED
    BY <1>2, <1>4, <1>5, <1>7 DEF s, Plains

Moved(f, h) == [f EXCEPT !.height = h, !.spare.sy = h - 1, !.ring = MiniAt(@, h)]

(* The parts of the invariant that another height of the screen does not   *)
(* touch.                                                                  *)
LEMMA MovedKeeps ==
  ASSUME NEW e, Sound(e), NEW h, h \in Heights, NEW f, f \in Editor, Ring(f.ring),
         f.top = e.top, f.spare = e.spare, f.live = e.live, f.reading = e.reading,
         f.listed = e.listed, f.cbuf \in e.live, HasMini(f.ring) <=> HasMini(e.ring),
         MiniLast(f.ring, e.height), Shown(f.ring) \subseteq e.live,
         MiniOwn(e) => Own(f.ring), Tiling(MiniAt(f.ring, h), h, e.top),
         f.start = e.start, NoneNew(e, f)
  PROVE  LET g == Moved(f, h)
         IN /\ Keeps(e, g) /\ g.live = e.live /\ g.listed = e.listed /\ g.height = h
            /\ g.top = e.top /\ g.reading = e.reading /\ g.start = e.start /\ NoneNew(e, g)
  <1> DEFINE g == Moved(f, h)
             r == f.ring
             s == MiniAt(r, h)
             m == [f.spare EXCEPT !.sy = h - 1]
  <1>1. h \in Nat /\ h >= 5
    BY WindowsAssumption
  <1>2. f.spare \in Window /\ f.top \in {0, 1}
    BY EditorType
  <1>3. m \in Window /\ m.sy = h - 1 /\ m.id = f.spare.id /\ m.rows = f.spare.rows /\ m.buf = f.spare.buf
    <2>1. h - 1 \in Nat
      BY <1>1
    <2> DEFINE w == f.spare
    <2> HIDE DEF w
    <2>2. w \in Window /\ m = [w EXCEPT !.sy = h - 1]
      BY <1>2 DEF w
    <2> HIDE DEF m
    <2>3. m \in Window /\ m.sy = h - 1 /\ m.id = w.id /\ m.rows = w.rows /\ m.buf = w.buf
      BY ONLY <2>1, <2>2 DEF Window
    <2> QED
      BY <2>3 DEF w
  <1>4. g = [f EXCEPT !.height = h, !.spare = m, !.ring = s]
    BY DEF Moved
  <1> HIDE DEF m, s, g
  <1>5. /\ s \in Seq(Window) /\ DOMAIN s = DOMAIN r /\ Ring(s)
        /\ \A i \in DOMAIN r : s[i].id = r[i].id /\ s[i].buf = r[i].buf /\ s[i].rows = r[i].rows
        /\ \A i \in DOMAIN r : r[i].id = MiniId => s[i].sy = h - 1
    <2> HIDE DEF r
    <2>1. Ring(r) /\ h >= 1
      BY <1>1 DEF r
    <2>2. /\ s \in Seq(Window) /\ DOMAIN s = DOMAIN r /\ Ring(s)
          /\ \A i \in DOMAIN r : /\ s[i].id = r[i].id /\ s[i].buf = r[i].buf
                                 /\ s[i].rows = r[i].rows
          /\ \A i \in DOMAIN r : r[i].id = MiniId => s[i].sy = h - 1
      BY <1>1, <2>1, MiniAtFacts DEF s
    <2> QED
      BY <2>2
  <1>6. /\ g \in Editor /\ g.height = h /\ g.spare = m /\ g.ring = s /\ g.top = f.top
        /\ g.live = f.live /\ g.reading = f.reading /\ g.listed = f.listed /\ g.cbuf = f.cbuf
        /\ g.start = f.start
    BY ONLY <1>3, <1>4, <1>5, f \in Editor, h \in Heights DEF Editor
  <1>7. HasMini(s) <=> HasMini(r)
    BY <1>5, Zenon DEF HasMini
  <1>8. MiniLast(s, h)
    <2>1. ASSUME NEW i \in DOMAIN s, s[i].id = MiniId
          PROVE  s[i].sy = h - 1 /\ s[i].rows = 1
      <3>1. i \in DOMAIN r /\ r[i].id = MiniId
        BY <1>5, <2>1
      <3>2. r[i].rows = 1
        BY <3>1 DEF MiniLast
      <3> QED
        BY <1>5, <3>1, <3>2
    <2> QED
      BY <2>1 DEF MiniLast
  <1>9. Shown(s) \subseteq e.live
    <2>1. \A i \in DOMAIN r : r[i].buf \in e.live
      BY DEF Shown
    <2>2. \A i \in DOMAIN s : s[i].buf \in e.live
      BY <1>5, <2>1
    <2> QED
      BY <2>2 DEF Shown
  <1>10. Own(r) => Own(s)
    BY <1>5, Zenon DEF Own
  <1>11. Tiling(s, h, e.top)
    BY DEF s
  <1>12. Sound(g)
    <2>1. /\ e.reading <=> HasMini(e.ring)
          /\ e.spare.id = MiniId /\ e.spare.rows = 1 /\ {Scratch, Mini} \subseteq e.live
      BY DEF Sound
    <2> QED
      BY <1>3, <1>5, <1>6, <1>7, <1>8, <1>9, <1>11, <2>1 DEF Sound
  <1>13. MiniOwn(e) => MiniOwn(g)
    BY <1>3, <1>6, <1>10 DEF MiniOwn
  <1>14. NoneNew(e, g)
    <2>1. Shown(s) \subseteq Shown(r)
      BY <1>5, SameShown
    <2>2. NoneNew(f, g)
      BY <1>6, <2>1 DEF NoneNew
    <2> QED
      BY <2>2, NoneNewChain
  <1> QED
    BY <1>6, <1>12, <1>13, <1>14 DEF Keeps, g

(* jed_update_window_sizes.                                                *)
LEMMA ResizedKeeps ==
  ASSUME NEW e, Sound(e), NEW h, h \in Heights
  PROVE  LET g == Resized(e, h)
         IN /\ Keeps(e, g) /\ g.live = e.live /\ g.listed = e.listed
            /\ g.reading = e.reading /\ g.start = e.start /\ NoneNew(e, g)
  <1> DEFINE r == e.ring
             bottom == CHOOSE k \in DOMAIN r : r[k].rows + r[k].sy + 2 = e.height
             tops == {k \in DOMAIN r : r[k].sy = e.top}
             rows == h - 2 - r[bottom].sy
  <1>1. /\ h \in Nat /\ h >= 5 /\ e.height \in Nat /\ e.top \in Nat /\ e.top \in {0, 1}
        /\ e.height >= 5 /\ e \in Editor /\ r \in Seq(Window) /\ 1 \in DOMAIN r
        /\ Len(r) \in Nat /\ DOMAIN r = 1..Len(r)
    BY SoundRing, EditorType, WindowsAssumption
  <1>2. /\ Ring(r) /\ Tiling(r, e.height, e.top) /\ MiniLast(r, e.height) /\ Shown(r) \subseteq e.live
        /\ e.cbuf \in e.live
    BY DEF Sound
  <1>3. \A i \in DOMAIN r : r[i] \in Window /\ r[i].sy \in Nat /\ r[i].rows \in Nat
    <2> HIDE DEF r
    <2> QED
      BY <1>2, RingFacts
  <1>4. PICK b \in Plains(r) :
           /\ \A i \in Plains(r) : AtBottom(r[i], e.height) <=> i = b
           /\ r[Below(r, b)].sy = e.top
    <2> HIDE DEF r
    <2> QED
      BY <1>1, <1>2, RingLayout
  <1>5. b \in DOMAIN r /\ r[b].id # MiniId
    BY DEF Plains
  <1>6. bottom = b
    <2>1. ASSUME NEW k \in DOMAIN r, r[k].rows + r[k].sy + 2 = e.height
          PROVE  k = b
      <3>1. r[k].id # MiniId
        <4>1. r[k].id = MiniId => r[k].sy = e.height - 1 /\ r[k].rows = 1
          BY <1>2 DEF MiniLast
        <4> QED
          BY ONLY <1>1, <2>1, <4>1
      <3>2. k \in Plains(r) /\ AtBottom(r[k], e.height)
        BY <1>3, <2>1, <3>1 DEF Plains, AtBottom
      <3> QED
        BY <1>4, <3>2
    <2>2. r[b].rows + r[b].sy + 2 = e.height
      <3>1. AtBottom(r[b], e.height) /\ r[b].rows \in Nat /\ r[b].sy \in Nat
        BY <1>3, <1>4, <1>5
      <3> QED
        BY ONLY <1>1, <3>1 DEF AtBottom
    <2> QED
      BY <1>5, <2>1, <2>2
  <1> DEFINE f == IF h = e.height THEN e ELSE AdjustWindows(e, h)
  <1>7. Resized(e, h) = Moved(f, h)
    BY DEF Resized, Moved, MiniAt
  <1>8. CASE h = e.height
    <2>1. f = e
      BY <1>8
    <2> DEFINE s == MiniAt(r, h)
    <2>2. Tiling(s, h, e.top)
      <3>0. Ring(r) /\ h >= 1
        BY <1>1, <1>2
      <3> HIDE DEF r
      <3>1. /\ s \in Seq(Window) /\ Len(s) = Len(r) /\ \A i \in Plains(r) : s[i] = r[i]
            /\ \A i \in DOMAIN r : s[i].id = r[i].id
        BY <1>1, <3>0, MiniAtFacts
      <3>2. /\ h > 2 + r[b].sy + 1 /\ AtBottom(r[b], e.height)
            /\ r[b].rows = h - 2 - r[b].sy
        <4>1. r[b].rows >= 2 /\ AtBottom(r[b], e.height) /\ r[b].sy \in Nat /\ r[b].rows \in Nat
          BY <1>2, <1>3, <1>4, <1>5 DEF Tiling
        <4>2. /\ r[b].sy + r[b].rows + 2 = h \/ r[b].rows + r[b].sy + 2 = h
              /\ h \in Nat
          BY ONLY <1>1, <1>8, <4>1 DEF AtBottom
        <4>3. h > 2 + r[b].sy + 1
          BY ONLY <4>1, <4>2
        <4>4. r[b].rows = h - 2 - r[b].sy
          BY ONLY <4>1, <4>2
        <4> QED
          BY ONLY <4>1, <4>3, <4>4
      <3>3. \A i \in Plains(r) : /\ s[i].sy = r[i].sy
                                 /\ s[i].rows = IF i = b THEN h - 2 - r[b].sy ELSE r[i].rows
        BY <3>1, <3>2
      <3> HIDE DEF s
      <3> QED
        BY <1>1, <1>2, <3>1, <3>2, <3>3, ResizedTiling
    <2>3. MiniOwn(e) => Own(e.ring)
      BY DEF MiniOwn
    <2>4. NoneNew(e, e)
      BY DEF NoneNew
    <2>5. LET g == Moved(e, h)
          IN /\ Keeps(e, g) /\ g.live = e.live /\ g.listed = e.listed
             /\ g.reading = e.reading /\ g.start = e.start /\ NoneNew(e, g)
      BY <1>1, <1>2, <2>2, <2>3, <2>4, MovedKeeps
    <2> QED
      BY <1>7, <2>1, <2>5
  <1>9. CASE h # e.height /\ h > 2 + r[bottom].sy + 1
    <2> DEFINE w == r[b]
               v == [w EXCEPT !.rows = h - 2 - w.sy]
               q == [r EXCEPT ![b] = v]
               x == [e EXCEPT !.ring = q]
    <2>1. f = x
      <3>1. AdjustWindows(e, h) = [e EXCEPT !.ring[bottom].rows = rows]
        BY <1>9 DEF AdjustWindows
      <3>2. [e EXCEPT !.ring[bottom].rows = rows] = x
        BY <1>6
      <3> QED
        BY <1>9, <3>1, <3>2
    <2>2. /\ w \in Window /\ w.sy \in Nat /\ w.rows \in Nat /\ h > 2 + w.sy + 1
          /\ h - 2 - w.sy \in Nat
      <3>1. w \in Window /\ w.sy \in Nat /\ w.rows \in Nat /\ h > 2 + w.sy + 1
        BY <1>3, <1>5, <1>6, <1>9
      <3> HIDE DEF w
      <3> QED
        BY ONLY <1>1, <3>1
    <2>3. v \in Window /\ v.id = w.id /\ v.sy = w.sy /\ v.rows = h - 2 - w.sy /\ v.buf = w.buf
      <3> HIDE DEF w
      <3> QED
        BY ONLY <2>2 DEF Window
    <2> HIDE DEF v
    <2>4. /\ q \in Seq(Window) /\ Len(q) = Len(r) /\ DOMAIN q = DOMAIN r
          /\ \A i \in DOMAIN r : q[i] = IF i = b THEN v ELSE r[i]
      <3> HIDE DEF r
      <3> QED
        BY <1>1, <1>5, <2>3
    <2> HIDE DEF q
    <2>5. /\ x \in Editor /\ x.ring = q /\ x.top = e.top /\ x.spare = e.spare /\ x.live = e.live
          /\ x.reading = e.reading /\ x.listed = e.listed /\ x.cbuf = e.cbuf
          /\ x.start = e.start
      BY ONLY <1>1, <2>4 DEF Editor
    <2> HIDE DEF x
    <2>6. \A i \in DOMAIN r : q[i].id = r[i].id /\ q[i].buf = r[i].buf
      BY <2>3, <2>4
    <2>7. Ring(q) /\ Plains(q) = Plains(r)
      <3> HIDE DEF r
      <3> QED
        BY <1>2, <2>4, <2>6, Reshaped
    <2>8. HasMini(q) <=> HasMini(r)
      BY <2>4, <2>6, Zenon DEF HasMini
    <2>9. MiniLast(q, e.height)
      <3>1. \A i \in DOMAIN r : r[i].id = MiniId => q[i] = r[i]
        BY <1>5, <2>4
      <3> QED
        BY <1>2, <2>4, <2>6, <3>1, Zenon DEF MiniLast
    <2>10. Shown(q) \subseteq e.live
      <3>1. \A i \in DOMAIN r : r[i].buf \in e.live
        BY <1>2 DEF Shown
      <3>2. \A i \in DOMAIN q : q[i].buf \in e.live
        BY <2>4, <2>6, <3>1
      <3> QED
        BY <3>2 DEF Shown
    <2>11. MiniOwn(e) => Own(q)
      <3>1. MiniOwn(e) => Own(r)
        BY DEF MiniOwn
      <3>2. Own(r) => Own(q)
        BY <2>4, <2>6, Zenon DEF Own
      <3> QED
        BY <3>1, <3>2
    <2> DEFINE s == MiniAt(q, h)
    <2>12. Tiling(s, h, e.top)
      <3>1. /\ s \in Seq(Window) /\ Len(s) = Len(q) /\ \A i \in Plains(q) : s[i] = q[i]
            /\ \A i \in DOMAIN q : s[i].id = q[i].id
        <4>1. h \in Nat /\ h >= 1
          BY <1>1
        <4> HIDE DEF q
        <4> QED
          BY ONLY <2>7, <4>1, MiniAtFacts
      <3>2. h > 2 + r[b].sy + 1 /\ AtBottom(r[b], e.height)
        BY <1>4, <2>2
      <3>3. \A i \in Plains(r) : /\ s[i].sy = r[i].sy
                                 /\ s[i].rows = IF i = b THEN h - 2 - r[b].sy ELSE r[i].rows
        BY <2>3, <2>4, <2>7, <3>1 DEF Plains
      <3>4. Len(s) = Len(r) /\ \A i \in DOMAIN r : s[i].id = r[i].id
        BY <2>4, <2>6, <3>1
      <3>5. /\ Ring(r) /\ e.height \in Nat /\ e.top \in Nat /\ Tiling(r, e.height, e.top)
            /\ b \in Plains(r) /\ h \in Nat
        BY <1>1, <1>2, <1>4
      <3> HIDE DEF s, r
      <3> QED
        BY ONLY <3>1, <3>2, <3>3, <3>4, <3>5, ResizedTiling
    <2>13. NoneNew(e, x)
      <3>1. Shown(q) \subseteq Shown(r)
        BY <2>4, <2>6, SameShown
      <3> QED
        BY <2>5, <3>1 DEF NoneNew
    <2>14. LET g == Moved(x, h)
           IN /\ Keeps(e, g) /\ g.live = e.live /\ g.listed = e.listed
             /\ g.reading = e.reading /\ g.start = e.start /\ NoneNew(e, g)
      BY <1>1, <1>2, <2>5, <2>7, <2>8, <2>9, <2>10, <2>11, <2>12, <2>13, MovedKeeps
    <2> QED
      BY <1>7, <2>1, <2>14
  <1>10. CASE h # e.height /\ ~(h > 2 + r[bottom].sy + 1)
    <2> DEFINE k == SelectFirst(e, tops)
               o == OneWindow(k)
               w == o.ring[1]
               v == [w EXCEPT !.rows = h - 2 - e.top]
               q == [o.ring EXCEPT ![1] = v]
               x == [o EXCEPT !.ring = q]
    <2>1. f = x
      <3>1. AdjustWindows(e, h) = [o EXCEPT !.ring[1].rows = h - 2 - e.top]
        BY <1>10 DEF AdjustWindows
      <3> QED
        BY <1>10, <3>1
    <2>2. tops # {} /\ tops \subseteq DOMAIN r /\ \A i \in tops : r[i].id # MiniId
      <3>1. Below(r, b) \in Plains(r)
        <4> HIDE DEF r
        <4> QED
          BY <1>2, RingFacts
      <3>2. Below(r, b) \in tops
        BY <1>4, <3>1 DEF Plains
      <3>3. ASSUME NEW i \in tops, r[i].id = MiniId
            PROVE  FALSE
        <4>1. r[i].sy = e.height - 1 /\ r[i].sy = e.top
          BY <1>2, <3>3 DEF MiniLast
        <4> QED
          BY ONLY <1>1, <4>1
      <3> QED
        BY <3>2, <3>3
    <2> HIDE DEF tops
    <2>3. Keeps(e, k) /\ Rest(e, k) /\ ~InMiniWindow(k) /\ NoneNew(e, k)
      <3>1. Keeps(e, k) /\ Rest(e, k) /\ \E i \in tops : k.ring[1] = r[i]
        BY <2>2, SelectFirstKeeps
      <3>2. ~InMiniWindow(k)
        BY <2>2, <3>1 DEF InMiniWindow, JWindow
      <3>3. NoneNew(e, k)
        BY <2>2, SelectFirstShows
      <3> QED
        BY <3>1, <3>2, <3>3
    <2> HIDE DEF k
    <2>4. /\ Keeps(k, o) /\ Rest(k, o) /\ o.cbuf = k.cbuf /\ o.ring[1].id = k.ring[1].id
          /\ o.ring[1].sy = k.top /\ Plains(o.ring) = {1} /\ Len(o.ring) \in {1, 2}
          /\ NoneNew(k, o)
      BY <2>3, OneWindowKeeps DEF Keeps
    <2> HIDE DEF o
    <2>5. /\ Sound(o) /\ (MiniOwn(e) => MiniOwn(o)) /\ o \in Editor /\ o.height = e.height
          /\ o.top = e.top /\ o.spare = e.spare /\ o.live = e.live /\ o.reading = e.reading
          /\ o.listed = e.listed /\ o.start = e.start
      BY <2>3, <2>4 DEF Keeps, Rest
    <2>6. /\ o.ring \in Seq(Window) /\ 1 \in DOMAIN o.ring /\ DOMAIN o.ring = 1..Len(o.ring)
          /\ Len(o.ring) \in Nat
          /\ w \in Window /\ w.sy = e.top /\ w.id # MiniId /\ h - 2 - e.top \in Nat
          /\ \A i \in DOMAIN o.ring : o.ring[i].buf \in e.live
      <3>1. /\ o.ring \in Seq(Window) /\ 1 \in DOMAIN o.ring /\ DOMAIN o.ring = 1..Len(o.ring)
            /\ Len(o.ring) \in Nat
            /\ \A i \in DOMAIN o.ring : o.ring[i].buf \in e.live
        BY <2>5, SoundRing
      <3>2. w \in Window
        BY <2>5, <3>1, SoundRing
      <3>3. w.sy = e.top /\ w.id # MiniId
        BY <2>3, <2>4 DEF Rest, InMiniWindow, JWindow
      <3>4. h - 2 - e.top \in Nat
        BY ONLY <1>1
      <3> QED
        BY <3>1, <3>2, <3>3, <3>4
    <2>7. v \in Window /\ v.id = w.id /\ v.sy = w.sy /\ v.rows = h - 2 - e.top /\ v.buf = w.buf
      <3> HIDE DEF w
      <3> QED
        BY ONLY <2>6 DEF Window
    <2> HIDE DEF v
    <2>8. /\ q \in Seq(Window) /\ Len(q) = Len(o.ring) /\ DOMAIN q = DOMAIN o.ring
          /\ \A i \in DOMAIN o.ring : q[i] = IF i = 1 THEN v ELSE o.ring[i]
      <3> DEFINE p == o.ring
      <3>1. p \in Seq(Window) /\ v \in Window /\ 1 \in DOMAIN p /\ q = [p EXCEPT ![1] = v]
        BY <2>6, <2>7
      <3> HIDE DEF p, q
      <3>2. /\ q \in Seq(Window) /\ Len(q) = Len(p) /\ DOMAIN q = DOMAIN p
            /\ \A i \in DOMAIN p : q[i] = IF i = 1 THEN v ELSE p[i]
        BY ONLY <3>1
      <3> QED
        BY <3>2 DEF p
    <2> HIDE DEF q
    <2>9. /\ x \in Editor /\ x.ring = q /\ x.top = e.top /\ x.spare = e.spare /\ x.live = e.live
          /\ x.reading = e.reading /\ x.listed = e.listed /\ x.cbuf = o.cbuf
          /\ x.start = e.start
      BY ONLY <2>5, <2>8 DEF Editor
    <2> HIDE DEF x
    <2>10. \A i \in DOMAIN o.ring : q[i].id = o.ring[i].id /\ q[i].buf = o.ring[i].buf
      BY <2>7, <2>8
    <2>11. Ring(q) /\ Plains(q) = {1} /\ Len(q) \in {1, 2}
      <3>1. Ring(o.ring)
        BY <2>5 DEF Sound
      <3> DEFINE p == o.ring
      <3>2. Ring(p) /\ q \in Seq(Window) /\ Len(q) = Len(p) /\ \A i \in DOMAIN p : q[i].id = p[i].id
        BY <2>8, <2>10, <3>1
      <3> HIDE DEF p
      <3>3. Ring(q) /\ Plains(q) = Plains(p)
        BY <3>2, Reshaped
      <3> QED
        BY <2>4, <2>8, <3>3 DEF p
    <2>12. HasMini(q) <=> HasMini(e.ring)
      <3>1. HasMini(q) <=> HasMini(o.ring)
        BY <2>8, <2>10, Zenon DEF HasMini
      <3>2. HasMini(o.ring) <=> HasMini(e.ring)
        BY <2>5 DEF Sound
      <3> QED
        BY <3>1, <3>2
    <2>13. MiniLast(q, e.height)
      <3>1. \A i \in DOMAIN o.ring : o.ring[i].id = MiniId => q[i] = o.ring[i]
        BY <2>6, <2>8
      <3>2. MiniLast(o.ring, e.height)
        BY <2>5 DEF Sound
      <3> QED
        BY <2>8, <2>10, <3>1, <3>2, Zenon DEF MiniLast
    <2>14. Shown(q) \subseteq e.live
      <3>1. \A i \in DOMAIN q : q[i].buf \in e.live
        BY <2>6, <2>8, <2>10
      <3> QED
        BY <3>1 DEF Shown
    <2>15. MiniOwn(e) => Own(q)
      <3>1. MiniOwn(e) => Own(o.ring)
        BY <2>5 DEF MiniOwn
      <3>2. Own(o.ring) => Own(q)
        BY <2>8, <2>10, Zenon DEF Own
      <3> QED
        BY <3>1, <3>2
    <2> DEFINE s == MiniAt(q, h)
    <2>16. Tiling(s, h, e.top)
      <3>1. /\ s \in Seq(Window) /\ Len(s) = Len(q) /\ \A i \in Plains(q) : s[i] = q[i]
            /\ Ring(s) /\ Plains(s) = Plains(q)
        <4>1. Ring(q) /\ h \in Nat /\ h >= 1
          BY <1>1, <2>11
        <4> QED
          BY ONLY <4>1, MiniAtFacts
      <3>2. s[1] = v /\ Plains(s) = {1} /\ Len(s) \in {1, 2}
        <4>1. 1 \in Plains(q) /\ q[1] = v
          BY <2>6, <2>8, <2>11
        <4> HIDE DEF s
        <4> QED
          BY <2>11, <3>1, <4>1
      <3>3. s[1].rows >= 2 /\ s[1].sy = e.top /\ AtBottom(s[1], h)
        <4>1. v.sy = e.top /\ v.rows = h - 2 - e.top
          BY <2>6, <2>7
        <4> QED
          BY ONLY <1>1, <3>2, <4>1 DEF AtBottom
      <3>4. 1 \in Plains(s) /\ \A i \in Plains(s) : i = 1
        BY <3>2
      <3> HIDE DEF s
      <3> QED
        BY <1>1, <3>1, <3>2, <3>3, <3>4, OneTiling
    <2>17. o.cbuf \in e.live
      BY <2>5 DEF Sound
    <2>18. NoneNew(e, x)
      <3>1. Shown(q) \subseteq Shown(o.ring)
        BY <2>8, <2>10, SameShown
      <3>2. NoneNew(o, x)
        BY <2>9, <3>1 DEF NoneNew
      <3> QED
        BY <2>3, <2>4, <3>2, NoneNewChain
    <2>19. LET g == Moved(x, h)
           IN /\ Keeps(e, g) /\ g.live = e.live /\ g.listed = e.listed
             /\ g.reading = e.reading /\ g.start = e.start /\ NoneNew(e, g)
      BY <2>9, <2>11, <2>12, <2>13, <2>14, <2>15, <2>16, <2>17, <2>18, MovedKeeps
    <2> QED
      BY <1>7, <2>1, <2>19
  <1> QED
    BY <1>8, <1>9, <1>10

-----------------------------------------------------------------------------
(* enable_menu_bar.                                                        *)

MenuAt(e, k, u, m) ==
  [e EXCEPT !.top = u,
            !.ring = [e.ring EXCEPT ![k] = [e.ring[k] EXCEPT !.sy = u, !.rows = m]]]

(* The top window gives a row to the menu bar or takes it back.            *)
LEMMA MenuAtKeeps ==
  ASSUME NEW e, Sound(e), NEW k, k \in Plains(e.ring), e.ring[k].sy = e.top,
         NEW u, u \in {0, 1}, NEW m, m \in Nat, m >= 2, e.top + e.ring[k].rows = u + m
  PROVE  LET f == MenuAt(e, k, u, m)
         IN /\ Keeps(e, f) /\ f.live = e.live /\ f.listed = e.listed
            /\ f.reading = e.reading /\ f.start = e.start /\ NoneNew(e, f)
  <1> DEFINE r == e.ring
             w == r[k]
             v == [w EXCEPT !.sy = u, !.rows = m]
             s == [r EXCEPT ![k] = v]
             f == MenuAt(e, k, u, m)
  <1>1. /\ e \in Editor /\ r \in Seq(Window) /\ e.height \in Nat /\ e.top \in Nat /\ u \in Nat
        /\ k \in DOMAIN r /\ w \in Window /\ w.id # MiniId
        /\ Ring(r) /\ Tiling(r, e.height, e.top)
    <2>1. e \in Editor /\ Ring(r) /\ Tiling(r, e.height, e.top)
      BY DEF Sound
    <2>2. k \in DOMAIN r /\ w.id # MiniId
      BY DEF Plains
    <2>3. r \in Seq(Window) /\ w \in Window
      BY <2>2, SoundRing
    <2>4. e.height \in Nat /\ e.top \in Nat /\ u \in Nat
      BY <2>1, EditorType
    <2> QED
      BY <2>1, <2>2, <2>3, <2>4
  <1>2. v \in Window /\ v.id = w.id /\ v.sy = u /\ v.rows = m /\ v.buf = w.buf
    <2>1. w \in Window /\ u \in Nat /\ m \in Nat
      BY <1>1
    <2> HIDE DEF w
    <2> QED
      BY ONLY <2>1 DEF Window
  <1>3. f = [e EXCEPT !.top = u, !.ring = s]
    BY DEF MenuAt
  <1> HIDE DEF v, f
  <1>4. /\ s \in Seq(Window) /\ Len(s) = Len(r) /\ DOMAIN s = DOMAIN r
        /\ \A i \in DOMAIN r : s[i] = IF i = k THEN v ELSE r[i]
    <2>1. r \in Seq(Window) /\ k \in DOMAIN r /\ v \in Window
      BY <1>1, <1>2
    <2> HIDE DEF r
    <2> QED
      BY ONLY <2>1
  <1> HIDE DEF s
  <1>5. /\ f \in Editor /\ f.ring = s /\ f.top = u /\ f.height = e.height /\ f.spare = e.spare
        /\ f.live = e.live /\ f.reading = e.reading /\ f.listed = e.listed /\ f.cbuf = e.cbuf
        /\ f.start = e.start
    BY ONLY <1>1, <1>3, <1>4, u \in {0, 1} DEF Editor
  <1>6. \A i \in DOMAIN r : /\ s[i].id = r[i].id /\ s[i].buf = r[i].buf
                            /\ (r[i].id = MiniId => s[i] = r[i])
    BY <1>1, <1>2, <1>4
  <1>7. Ring(s) /\ Tiling(s, e.height, u)
    <2>1. \A i \in DOMAIN r : s[i].id = r[i].id
      BY <1>6
    <2>2. /\ s[k].sy = u /\ s[k].rows = m
          /\ \A i \in Plains(r) : i # k => s[i].sy = r[i].sy /\ s[i].rows = r[i].rows
      BY <1>1, <1>2, <1>4 DEF Plains
    <2>3. /\ k \in Plains(r) /\ r[k].sy = e.top /\ e.top + r[k].rows = s[k].sy + s[k].rows
          /\ s[k].rows >= 2
      BY <2>2
    <2>4. /\ Ring(r) /\ Tiling(r, e.height, e.top) /\ e.height \in Nat /\ e.top \in Nat
          /\ u \in Nat /\ s \in Seq(Window) /\ Len(s) = Len(r)
      BY <1>1, <1>4
    <2> HIDE DEF r
    <2> QED
      BY ONLY <2>1, <2>2, <2>3, <2>4, MenuTiling
  <1>8. Keeps(e, f)
    <2>1. Ring(f.ring) /\ Tiling(f.ring, f.height, f.top) /\ Len(f.ring) = Len(e.ring)
      BY <1>4, <1>5, <1>7
    <2>2. \A i \in DOMAIN e.ring :
            /\ f.ring[i].id = e.ring[i].id /\ f.ring[i].buf = e.ring[i].buf
            /\ e.ring[i].id = MiniId => f.ring[i] = e.ring[i]
      BY <1>5, <1>6
    <2> QED
      BY <1>5, <2>1, <2>2, RowsKeep
  <1>9. NoneNew(e, f)
    <2>1. Shown(s) \subseteq Shown(r)
      BY <1>4, <1>6, SameShown
    <2> QED
      BY <1>5, <2>1 DEF NoneNew
  <1> QED
    BY <1>5, <1>8, <1>9 DEF f

(* A window is at the top, and it is not the minibuffer's.                 *)
LEMMA TopWindow ==
  ASSUME NEW e, Sound(e)
  PROVE  LET k == CHOOSE i \in DOMAIN e.ring : e.ring[i].sy = e.top
         IN /\ k \in Plains(e.ring) /\ e.ring[k].sy = e.top
            /\ e.ring[k].rows \in Nat /\ e.ring[k].rows >= 2
  <1> DEFINE r == e.ring
             k == CHOOSE i \in DOMAIN r : r[i].sy = e.top
  <1>1. /\ Ring(r) /\ Tiling(r, e.height, e.top) /\ MiniLast(r, e.height)
        /\ e.height \in Nat /\ e.height >= 5 /\ e.top \in {0, 1} /\ e.top \in Nat
    <2>1. e \in Editor /\ Ring(r) /\ Tiling(r, e.height, e.top) /\ MiniLast(r, e.height)
      BY DEF Sound
    <2> QED
      BY <2>1, EditorType
  <1> HIDE DEF r
  <1>2. \E i \in Plains(r) : r[i].sy = e.top
    <2>1. PICK b \in Plains(r) : r[Below(r, b)].sy = e.top
      BY <1>1, RingLayout
    <2>2. Below(r, b) \in Plains(r)
      BY <1>1, RingFacts
    <2> QED
      BY <2>1, <2>2
  <1>3. k \in DOMAIN r /\ r[k].sy = e.top
    BY <1>2 DEF Plains
  <1> HIDE DEF k
  <1>4. r[k].id # MiniId
    <2>1. r[k].id = MiniId => r[k].sy = e.height - 1
      BY <1>1, <1>3 DEF MiniLast
    <2> QED
      BY ONLY <1>1, <1>3, <2>1
  <1>5. k \in Plains(r)
    BY <1>3, <1>4 DEF Plains
  <1>6. r[k].rows \in Nat /\ r[k].rows >= 2
    BY <1>1, <1>3, <1>5, RingFacts DEF Tiling
  <1> QED
    BY <1>3, <1>5, <1>6 DEF k, r

(* enable_menu_bar.                                                        *)
LEMMA MenuBarKeeps ==
  ASSUME NEW e, Sound(e), NEW on, on \in BOOLEAN
  PROVE  LET f == EnableMenuBar(e, on)
         IN /\ Keeps(e, f) /\ f.live = e.live /\ f.listed = e.listed
            /\ f.reading = e.reading /\ f.start = e.start /\ NoneNew(e, f)
  <1> DEFINE Top(f) == CHOOSE i \in DOMAIN f.ring : f.ring[i].sy = f.top
             small == e.ring[Top(e)].rows < 3
             f == IF on /\ small THEN OneWindow(e) ELSE e
             k == IF on /\ small THEN 1 ELSE Top(f)
             x == IF on THEN IF f.ring[k].rows < 3 THEN f
                             ELSE [f EXCEPT !.top = 1, !.ring[k].sy = 1, !.ring[k].rows = @ - 1]
                  ELSE [f EXCEPT !.top = 0, !.ring[k].sy = 0, !.ring[k].rows = @ + 1]
  <1>1. EnableMenuBar(e, on) = IF on = (e.top = 1) THEN e ELSE x
    BY DEF EnableMenuBar
  <1>2. Keeps(e, e) /\ NoneNew(e, e)
    BY DEF Keeps, NoneNew
  <1>3. e.top \in {0, 1} /\ e.height \in Nat /\ e.height >= 5
    BY EditorType DEF Sound
  <1>4. Top(e) \in Plains(e.ring) /\ e.ring[Top(e)].sy = e.top
        /\ e.ring[Top(e)].rows \in Nat /\ e.ring[Top(e)].rows >= 2
    BY TopWindow
  <1>5. CASE on = (e.top = 1)
    BY <1>1, <1>2, <1>5
  <1>6. CASE ~(on = (e.top = 1)) /\ ~on
    <2>1. f = e /\ k = Top(e)
      BY <1>6
    <2> DEFINE j == Top(e)
               m == e.ring[j].rows + 1
    <2>2. EnableMenuBar(e, on) = [e EXCEPT !.top = 0, !.ring[j].sy = 0, !.ring[j].rows = @ + 1]
      BY <1>1, <1>6, <2>1
    <2>3. j \in Plains(e.ring) /\ e.ring[j].sy = e.top /\ e.ring[j].rows \in Nat
          /\ e.ring[j].rows >= 2
      BY <1>4
    <2> HIDE DEF j
    <2>4. e.top = 1
      BY <1>3, <1>6
    <2>5. m \in Nat /\ m >= 2 /\ e.top + e.ring[j].rows = 0 + m
      BY ONLY <2>3, <2>4
    <2>6. EnableMenuBar(e, on) = MenuAt(e, j, 0, m)
      <3>1. /\ e \in Editor /\ j \in DOMAIN e.ring /\ e.ring \in Seq(Window)
            /\ e.ring[j] \in Window
        BY <2>3, SoundRing DEF Plains
      <3>2. [e EXCEPT !.top = 0, !.ring[j].sy = 0, !.ring[j].rows = @ + 1] = MenuAt(e, j, 0, m)
        BY ONLY <3>1 DEF MenuAt, Editor, Window
      <3> QED
        BY <2>2, <3>2, Zenon
    <2> HIDE DEF m
    <2> QED
      BY <2>3, <2>5, <2>6, MenuAtKeeps
  <1>7. CASE ~(on = (e.top = 1)) /\ on
    <2>1. e.top = 0
      BY <1>3, <1>7
    <2>2. /\ Keeps(e, f) /\ f.live = e.live /\ f.listed = e.listed /\ f.top = e.top
          /\ f.reading = e.reading /\ f.start = e.start /\ NoneNew(e, f)
          /\ f.ring[k].rows \in Nat
          /\ ~(f.ring[k].rows < 3) => k \in Plains(f.ring) /\ f.ring[k].sy = f.top
      <3>1. CASE ~small
        BY <1>2, <1>4, <3>1
      <3>2. CASE small /\ InMiniWindow(e)
        <4>1. f = e /\ k = 1
          BY <1>7, <3>2 DEF OneWindow
        <4>2. e.ring[1].rows = 1
          <5>1. 1 \in DOMAIN e.ring
            BY SoundRing
          <5> QED
            BY <3>2, <5>1 DEF Sound, MiniLast, InMiniWindow, JWindow
        <4> HIDE DEF f, k
        <4> QED
          BY <1>2, <4>1, <4>2
      <3>3. CASE small /\ ~InMiniWindow(e)
        <4>1. f = OneWindow(e) /\ k = 1
          BY <1>7, <3>3
        <4> HIDE DEF f, k
        <4>2. /\ Keeps(e, f) /\ Rest(e, f) /\ f.ring[1].sy = e.top
              /\ f.ring[1].rows = e.height - 2 - e.top /\ Plains(f.ring) = {1}
              /\ NoneNew(e, f)
          BY <3>3, <4>1, OneWindowKeeps
        <4>3. f.ring[1].rows \in Nat
          BY ONLY <1>3, <4>2
        <4> QED
          BY <4>1, <4>2, <4>3 DEF Rest
      <3> QED
        BY <3>1, <3>2, <3>3
    <2> HIDE DEF f, k
    <2>3. CASE f.ring[k].rows < 3
      <3>1. EnableMenuBar(e, on) = f
        BY <1>1, <1>7, <2>3
      <3> QED
        BY <2>2, <3>1
    <2>4. CASE ~(f.ring[k].rows < 3)
      <3> DEFINE m == f.ring[k].rows - 1
      <3>1. EnableMenuBar(e, on) = [f EXCEPT !.top = 1, !.ring[k].sy = 1, !.ring[k].rows = @ - 1]
        BY <1>1, <1>7, <2>4
      <3>2. m \in Nat /\ m >= 2 /\ f.top + f.ring[k].rows = 1 + m
        BY ONLY <2>1, <2>2, <2>4
      <3>3. Sound(f) /\ k \in Plains(f.ring) /\ f.ring[k].sy = f.top
        BY <2>2, <2>4 DEF Keeps
      <3>4. EnableMenuBar(e, on) = MenuAt(f, k, 1, m)
        <4>1. /\ f \in Editor /\ k \in DOMAIN f.ring /\ f.ring \in Seq(Window)
              /\ f.ring[k] \in Window
          BY <3>3, SoundRing DEF Plains
        <4>2. [f EXCEPT !.top = 1, !.ring[k].sy = 1, !.ring[k].rows = @ - 1] = MenuAt(f, k, 1, m)
          BY ONLY <4>1 DEF MenuAt, Editor, Window
        <4> QED
          BY <3>1, <4>2, Zenon
      <3> HIDE DEF m
      <3> DEFINE y == MenuAt(f, k, 1, m)
      <3>5. /\ Keeps(f, y) /\ y.live = f.live /\ y.listed = f.listed
            /\ y.reading = f.reading /\ y.start = f.start /\ NoneNew(f, y)
        BY <3>2, <3>3, MenuAtKeeps
      <3> HIDE DEF y
      <3>6. NoneNew(e, y)
        BY <2>2, <3>5, NoneNewChain
      <3> QED
        BY <2>2, <3>4, <3>5, <3>6 DEF Keeps, y
    <2> QED
      BY <2>3, <2>4
  <1> QED
    BY <1>5, <1>6, <1>7

-----------------------------------------------------------------------------
(* kill_buffer_cmd.                                                        *)

(* The buffers with a name of their own are not one another, and no file   *)
(* is one of them.                                                         *)
LEMMA BuffersDiffer ==
  /\ Scratch # Mini /\ Completions # Mini /\ Scratch # Completions
  /\ None \notin Files \cup {Scratch, Completions, Mini}
  /\ Mini \notin Files /\ Scratch \notin Files /\ Completions \notin Files
  <1>1. Files \cap {Scratch, Completions, Mini, None} = {}
    BY WindowsAssumption
  <1>2. Cardinality({Scratch, Completions, Mini, None}) = 4
    BY WindowsAssumption
  <1>3. \A x, y, z : IsFiniteSet({x, y, z}) /\ Cardinality({x, y, z}) <= 3
    <2>1. ASSUME NEW x, NEW y, NEW z
          PROVE  IsFiniteSet({x, y, z}) /\ Cardinality({x, y, z}) <= 3
      <3>1. IsFiniteSet({x}) /\ Cardinality({x}) = 1
        BY FS_Singleton
      <3>2. /\ IsFiniteSet({x} \cup {y})
            /\ Cardinality({x} \cup {y}) = IF y \in {x} THEN Cardinality({x}) ELSE Cardinality({x}) + 1
        BY <3>1, FS_AddElement
      <3>3. /\ IsFiniteSet(({x} \cup {y}) \cup {z})
            /\ Cardinality(({x} \cup {y}) \cup {z})
                 = IF z \in {x} \cup {y} THEN Cardinality({x} \cup {y})
                   ELSE Cardinality({x} \cup {y}) + 1
        BY <3>2, FS_AddElement
      <3>4. ({x} \cup {y}) \cup {z} = {x, y, z}
        OBVIOUS
      <3> QED
        BY <3>1, <3>2, <3>3, <3>4
    <2> QED
      BY <2>1
  <1>4. ASSUME NEW x, NEW y, NEW z, {Scratch, Completions, Mini, None} = {x, y, z}
        PROVE  FALSE
    <2>1. Cardinality({x, y, z}) = 4
      BY <1>2, <1>4, Zenon
    <2>2. Cardinality({x, y, z}) <= 3
      BY <1>3, Zenon
    <2> DEFINE n == Cardinality({x, y, z})
    <2> HIDE DEF n
    <2>3. n = 4 /\ n <= 3
      BY <2>1, <2>2 DEF n
    <2> QED
      BY ONLY <2>3
  <1>5. Scratch # Mini
    <2>1. Scratch = Mini => {Scratch, Completions, Mini, None} = {Scratch, Completions, None}
      OBVIOUS
    <2> QED
      BY <1>4, <2>1
  <1>6. Completions # Mini
    <2>1. Completions = Mini => {Scratch, Completions, Mini, None} = {Scratch, Completions, None}
      OBVIOUS
    <2> QED
      BY <1>4, <2>1
  <1>7. Scratch # Completions
    <2>1. Scratch = Completions => {Scratch, Completions, Mini, None} = {Scratch, Mini, None}
      OBVIOUS
    <2> QED
      BY <1>4, <2>1
  <1>8. None \notin {Scratch, Completions, Mini}
    <2>1. None \in {Scratch, Completions, Mini}
            => {Scratch, Completions, Mini, None} = {Scratch, Completions, Mini}
      OBVIOUS
    <2> QED
      BY <1>4, <2>1
  <1> QED
    BY <1>1, <1>5, <1>6, <1>7, <1>8

(* Only files are looked for.                                              *)
LEMMA OrdersAreOfFiles ==
  ASSUME NEW order, order \in Orders
  PROVE  DOMAIN order \subseteq Nat /\ \A i \in DOMAIN order : order[i] \in Files
  <1>1. PICK n : order \in [1..n -> Files]
    BY DEF Orders, SetToSeqs
  <1> QED
    BY <1>1

(* find_non_visible_buffer: a live buffer, or *scratch*.                   *)
LEMMA FindNonVisibleFits ==
  ASSUME NEW e, NEW kill, NEW order, order \in Orders, NEW n
  PROVE  LET b == FindNonVisible(e, kill, order, n)
         IN b = Scratch \/ (b \in e.live \ {kill} /\ b \in Files)
  <1> DEFINE fit == {i \in DOMAIN order : order[i] \in e.live \ {kill} /\ ~Visible(e, order[i])}
             next == {i \in fit : Cardinality({j \in fit : j < i}) = n}
  <1>1. FindNonVisible(e, kill, order, n) = IF next = {} THEN Scratch ELSE order[Min(next)]
    BY DEF FindNonVisible
  <1>2. \A i \in next : i \in DOMAIN order /\ order[i] \in e.live \ {kill}
    OBVIOUS
  <1> HIDE DEF next
  <1>3. next \subseteq Nat
    BY <1>2, OrdersAreOfFiles
  <1>4. next # {} => Min(next) \in next
    BY <1>3, NatMin
  <1> QED
    BY <1>1, <1>2, <1>4, OrdersAreOfFiles

(* kill_buffer_cmd and delete_buffer: no window is left with the buffer    *)
(* that goes.                                                              *)
LEMMA KillKeeps ==
  ASSUME NEW e, NEW kill, NEW order, Sound(e), kill \notin {Mini, Scratch}, order \in Orders
  PROVE  LET f == KillBufferCmd(e, kill, order)
         IN /\ Keeps(e, f) /\ f.live = e.live \ {kill} /\ f.listed = e.listed
            /\ f.reading = e.reading /\ f.ring[1].id = e.ring[1].id
            /\ f.height = e.height /\ f.wins = e.wins /\ f.start = e.start
            /\ f.top = e.top /\ f.target = e.target
            /\ \A i \in DOMAIN f.ring : i \in DOMAIN e.ring /\ f.ring[i].buf \in {e.ring[i].buf, Scratch} \cup Files
            /\ f.cbuf \in {e.cbuf, Scratch} \cup Files
            /\ (\A i \in DOMAIN e.ring : e.ring[i].buf # kill) => f.ring = e.ring
  <1> DEFINE r == e.ring
             N(i) == FindNonVisible(e, kill, order,
                                    Cardinality({j \in 1..(i - 1) : e.ring[j].buf = kill}))
             W(i) == IF r[i].buf = kill THEN [r[i] EXCEPT !.buf = N(i)] ELSE r[i]
             s == [i \in DOMAIN r |-> W(i)]
             c == IF e.cbuf = kill THEN N(Len(r) + 1) ELSE e.cbuf
             f == [e EXCEPT !.ring = s, !.cbuf = c, !.live = @ \ {kill}]
  <1>1. KillBufferCmd(e, kill, order) = f
    BY DEF KillBufferCmd, Replaced
  <1>2. /\ e \in Editor /\ r \in Seq(Window) /\ Len(r) \in Nat /\ DOMAIN r = 1..Len(r)
        /\ 1 \in DOMAIN r /\ e.live \subseteq Buffers /\ e.cbuf \in e.live
        /\ \A i \in DOMAIN r : r[i] \in Window
        /\ \A i \in DOMAIN r : r[i].buf \in e.live
        /\ {Scratch, Mini} \subseteq e.live
    BY SoundRing, EditorType DEF Sound
  <1>3. \A i : /\ N(i) \in e.live \ {kill} /\ N(i) # Mini /\ N(i) \in Buffers
              /\ N(i) \in {Scratch} \cup Files
    <2>1. \A i : N(i) = Scratch \/ (N(i) \in e.live \ {kill} /\ N(i) \in Files)
      BY FindNonVisibleFits
    <2>2. Scratch # Mini /\ Mini \notin Files
      BY BuffersDiffer
    <2> HIDE DEF N
    <2> QED
      BY <1>2, <2>1, <2>2
  <1> HIDE DEF N
  <1>4. \A i \in DOMAIN r : /\ W(i) \in Window /\ W(i).id = r[i].id /\ W(i).sy = r[i].sy
                            /\ W(i).rows = r[i].rows /\ W(i).buf \in e.live \ {kill}
                            /\ (W(i).buf = Mini <=> r[i].buf = Mini)
                            /\ W(i).buf \in {r[i].buf, Scratch} \cup Files
                            /\ r[i].buf # kill => W(i) = r[i]
    <2>1. ASSUME NEW i \in DOMAIN r
          PROVE  /\ W(i) \in Window /\ W(i).id = r[i].id /\ W(i).sy = r[i].sy
                 /\ W(i).rows = r[i].rows /\ W(i).buf \in e.live \ {kill}
                 /\ (W(i).buf = Mini <=> r[i].buf = Mini)
                 /\ W(i).buf \in {r[i].buf, Scratch} \cup Files
                 /\ r[i].buf # kill => W(i) = r[i]
      <3> DEFINE w == r[i]
      <3>1. w \in Window /\ w.buf \in e.live /\ W(i) = IF w.buf = kill THEN [w EXCEPT !.buf = N(i)] ELSE w
        BY <1>2
      <3>2. /\ N(i) \in e.live \ {kill} /\ N(i) # Mini /\ N(i) \in Buffers /\ kill # Mini
            /\ N(i) \in {Scratch} \cup Files
        BY <1>3
      <3> HIDE DEF w, W
      <3>3. CASE w.buf = kill
        <4>1. W(i) = [w EXCEPT !.buf = N(i)]
          BY <3>1, <3>3
        <4>2. W(i) \in Window /\ W(i).id = w.id /\ W(i).sy = w.sy /\ W(i).rows = w.rows /\ W(i).buf = N(i)
          BY ONLY <3>1, <3>2, <4>1 DEF Window
        <4> QED
          BY <3>2, <3>3, <4>2 DEF w
      <3>4. CASE w.buf # kill
        BY <3>1, <3>4 DEF w
      <3> QED
        BY <3>3, <3>4
    <2> QED
      BY <2>1
  <1>5. c \in e.live \ {kill} /\ c \in Buffers /\ c \in {e.cbuf, Scratch} \cup Files
    BY <1>2, <1>3
  <1> HIDE DEF W, c
  <1>6. s \in Seq(Window) /\ Len(s) = Len(r) /\ \A i \in DOMAIN r : s[i] = W(i)
    <2>1. s \in [1..Len(r) -> Window]
      BY <1>2, <1>4
    <2> DEFINE n == Len(r)
    <2> HIDE DEF s, n
    <2>2. s \in Seq(Window) /\ Len(s) = n
      BY <1>2, <2>1, FunctionIsSeq DEF n
    <2> QED
      BY <2>2 DEF n, s
  <1> HIDE DEF s
  <1>7. /\ f \in Editor /\ f.ring = s /\ f.cbuf = c /\ f.live = e.live \ {kill}
        /\ f.height = e.height /\ f.top = e.top /\ f.spare = e.spare /\ f.reading = e.reading
        /\ f.listed = e.listed /\ f.wins = e.wins /\ f.start = e.start /\ f.target = e.target
    BY ONLY <1>2, <1>5, <1>6 DEF Editor
  <1> HIDE DEF f
  <1>8. \A i \in DOMAIN e.ring : /\ f.ring[i].id = e.ring[i].id /\ f.ring[i].sy = e.ring[i].sy
                                 /\ f.ring[i].rows = e.ring[i].rows /\ f.ring[i].buf \in f.live
    BY <1>4, <1>6, <1>7
  <1>9. Sound(f)
    <2>1. {Scratch, Mini} \subseteq f.live /\ f.cbuf \in f.live /\ Len(f.ring) = Len(e.ring)
      BY <1>2, <1>5, <1>6, <1>7
    <2> QED
      BY <1>7, <1>8, <2>1, RebufSound
  <1>10. MiniOwn(e) => MiniOwn(f)
    <2>1. DOMAIN f.ring = DOMAIN r
      BY <1>2, <1>6, <1>7
    <2>2. ASSUME MiniOwn(e), NEW i \in DOMAIN f.ring
          PROVE  f.ring[i].id = MiniId <=> f.ring[i].buf = Mini
      <3>1. r[i].id = MiniId <=> r[i].buf = Mini
        BY <2>1, <2>2 DEF MiniOwn, Own
      <3> QED
        BY <1>4, <1>6, <1>7, <2>1, <3>1
    <2>3. MiniOwn(e) => Own(f.ring)
      BY <2>2, Zenon DEF Own
    <2> QED
      BY <1>7, <2>3 DEF MiniOwn
  <1>11. DOMAIN s = DOMAIN r
    BY <1>2, <1>6
  <1>12. \A i \in DOMAIN f.ring : i \in DOMAIN e.ring /\ f.ring[i].buf \in {e.ring[i].buf, Scratch} \cup Files
    BY <1>4, <1>6, <1>7, <1>11
  <1>13. (\A i \in DOMAIN e.ring : e.ring[i].buf # kill) => f.ring = e.ring
    <2>1. ASSUME \A i \in DOMAIN e.ring : e.ring[i].buf # kill
          PROVE  \A i \in 1..Len(r) : s[i] = r[i]
      BY <1>2, <1>4, <1>6, <2>1
    <2>2. s \in Seq(Window) /\ r \in Seq(Window) /\ Len(s) = Len(r)
      BY <1>2, <1>6
    <2>3. (\A i \in 1..Len(r) : s[i] = r[i]) => s = r
      <3> HIDE DEF r
      <3> QED
        BY ONLY <2>2
    <2> QED
      BY <1>7, <2>1, <2>3
  <1> QED
    BY <1>1, <1>2, <1>5, <1>7, <1>8, <1>9, <1>10, <1>12, <1>13 DEF Keeps

-----------------------------------------------------------------------------
(* pop_to_buffer.                                                          *)

(* The greatest number of a bounded set is in it.                          *)
LEMMA NatMax ==
  ASSUME NEW n, n \in Nat, NEW S, S \subseteq 1..n, S # {}
  PROVE  Max(S) \in S /\ \A x \in S : Max(S) >= x
  <1> DEFINE T == {n - x : x \in S}
  <1>1. T \subseteq Nat /\ T # {}
    <2>1. \A x \in S : n - x \in Nat
      <3>1. ASSUME NEW x \in S PROVE n - x \in Nat
        <4>1. x \in 1..n
          OBVIOUS
        <4> QED
          BY ONLY <4>1, n \in Nat
      <3> QED
        BY <3>1
    <2> QED
      BY <2>1
  <1>2. Min(T) \in T /\ \A x \in T : Min(T) <= x
    BY <1>1, NatMin
  <1>3. PICK m \in S : Min(T) = n - m
    BY <1>2
  <1>4. ASSUME NEW x \in S PROVE m >= x
    <2>1. n - x \in T
      OBVIOUS
    <2>2. n - m <= n - x
      BY <1>2, <1>3, <2>1
    <2>3. x \in Nat /\ m \in Nat
      OBVIOUS
    <2> QED
      BY ONLY <2>2, <2>3, n \in Nat
  <1>5. \E y \in S : \A x \in S : y >= x
    BY <1>4
  <1> QED
    BY <1>5 DEF Max

(* Selecting one of several windows that are not the minibuffer's.         *)
LEMMA PopSelects ==
  ASSUME NEW e, Sound(e), NEW ks, ks \subseteq Plains(e.ring), ks # {}
  PROVE  LET h == SelectFirst(e, ks)
         IN /\ Keeps(e, h) /\ Rest(e, h) /\ ~InMiniWindow(h) /\ NoneNew(e, h)
            /\ (1 \in ks => h = e)
            /\ (1 \notin ks => /\ h.cbuf = h.ring[1].buf
                               /\ \E j \in DOMAIN h.ring : j # 1 /\ h.ring[j] = e.ring[1])
            /\ \E k \in ks : h.ring[1] = e.ring[k]
  <1> DEFINE h == SelectFirst(e, ks)
  <1>1. ks \subseteq DOMAIN e.ring /\ \A k \in ks : e.ring[k].id # MiniId
    BY DEF Plains
  <1>2. /\ Keeps(e, h) /\ Rest(e, h)
        /\ \E k \in ks : h.ring[1] = e.ring[k]
        /\ (1 \in ks => h = e)
        /\ (1 \notin ks => h.cbuf = h.ring[1].buf)
        /\ \A i \in DOMAIN e.ring : \E j \in DOMAIN h.ring : e.ring[i] = h.ring[j]
        /\ NoneNew(e, h)
    BY <1>1, SelectFirstKeeps, SelectFirstShows
  <1> HIDE DEF h
  <1>3. ~InMiniWindow(h)
    BY <1>1, <1>2 DEF InMiniWindow, JWindow
  <1>4. ASSUME 1 \notin ks
        PROVE  \E j \in DOMAIN h.ring : j # 1 /\ h.ring[j] = e.ring[1]
    <2>1. 1 \in DOMAIN e.ring
      BY SoundRing
    <2>2. PICK j \in DOMAIN h.ring : e.ring[1] = h.ring[j]
      BY <1>2, <2>1
    <2>3. PICK k \in ks : h.ring[1] = e.ring[k]
      BY <1>2
    <2>4. e.ring[k].id # e.ring[1].id
      BY <1>1, <1>4, <2>1, <2>3 DEF Sound, Ring
    <2>5. j # 1
      BY <2>2, <2>3, <2>4
    <2> QED
      BY <2>2, <2>5
  <1> QED
    BY <1>2, <1>3, <1>4 DEF h

(* Splitting the window in use, there being no other.                      *)
PopSplit(e, action, row) ==
  LET g == SplitWindow(IF action = None THEN e
                       ELSE SelectFirst(e, IndexOfId(e, action)), row)
      differ == {k \in 2..NumWindows(g) : g.ring[k].buf = JWindow(g).buf}
  IN Select(g, IF differ = {} THEN 1 ELSE Min(differ))

(* ... where it has been split, and the half with the same buffer is       *)
(* taken.                                                                  *)
LEMMA PopSplits ==
  ASSUME NEW e, Sound(e), NEW row, row \in Nat, row < e.height, Room(e.ring),
         NEW action, action \in Ids \cup {None}, Others(e, action) = {}
  PROVE  LET h == PopSplit(e, action, row)
         IN /\ Keeps(e, h) /\ Rest(e, h) /\ h.cbuf = h.ring[1].buf /\ NoneNew(e, h)
            /\ MiniOwn(e) => ~InMiniWindow(h)
            /\ (action = None /\ ~HasMini(e.ring))
                 => /\ Len(e.ring) = 1
                    /\ JWindow(e).rows >= 5
                         => (2 \in DOMAIN h.ring /\ h.ring[2].buf = e.ring[1].buf)
  <1> DEFINE f == IF action = None THEN e ELSE SelectFirst(e, IndexOfId(e, action))
             g == SplitWindow(f, row)
             differ == {k \in 2..NumWindows(g) : g.ring[k].buf = JWindow(g).buf}
             m == IF differ = {} THEN 1 ELSE Min(differ)
             h == Select(g, m)
  <1>1. PICK p \in Plains(e.ring) : TRUE
    BY SoundRing
  <1>2. p \in DOMAIN e.ring /\ e.ring[p].id # MiniId /\ 1 \in DOMAIN e.ring
    BY SoundRing DEF Plains
  <1>3. /\ Keeps(e, f) /\ Rest(e, f) /\ ~InMiniWindow(f)
        /\ \A i \in DOMAIN f.ring : \E j \in DOMAIN e.ring : f.ring[i] = e.ring[j]
        /\ action = None => f = e
        /\ NoneNew(e, f)
    <2>1. CASE action = None
      <3>1. f = e
        BY <2>1
      <3>2. p = 1
        BY <1>2, <2>1 DEF Others
      <3>3. ~InMiniWindow(e)
        BY <1>2, <3>2 DEF InMiniWindow, JWindow
      <3>4. Rest(e, e) /\ Keeps(e, e) /\ NoneNew(e, e)
        BY DEF Sound, Rest, Keeps, NoneNew
      <3> HIDE DEF f
      <3> QED
        BY <3>1, <3>3, <3>4
    <2>2. CASE action # None
      <3> DEFINE ks == IndexOfId(e, action)
      <3>1. p \in ks
        BY <1>2, <2>2 DEF Others, IndexOfId
      <3>2. ks \subseteq Plains(e.ring) /\ ks \subseteq DOMAIN e.ring
        BY <2>2, WindowType DEF IndexOfId, Plains
      <3>3. f = SelectFirst(e, ks)
        BY <2>2
      <3> HIDE DEF ks, f
      <3>4. Keeps(e, f) /\ Rest(e, f) /\ ~InMiniWindow(f) /\ NoneNew(e, f)
        BY <3>1, <3>2, <3>3, PopSelects
      <3>5. \A i \in DOMAIN f.ring : \E j \in DOMAIN e.ring : f.ring[i] = e.ring[j]
        BY <3>1, <3>2, <3>3, SelectFirstKeeps
      <3> QED
        BY <2>2, <3>4, <3>5
    <2> QED
      BY <2>1, <2>2
  <1> HIDE DEF f
  <1>4. Room(f.ring)
    <2>1. PICK x \in Ids : \A j \in DOMAIN e.ring : e.ring[j].id # x
      BY DEF Room
    <2>2. \A i \in DOMAIN f.ring : f.ring[i].id # x
      BY <1>3, <2>1, Zenon
    <2> QED
      BY <2>2 DEF Room
  <1>5. Sound(f) /\ row < f.height
    BY <1>3 DEF Keeps, Rest
  <1>6. /\ Keeps(f, g) /\ Rest(f, g) /\ ~InMiniWindow(g)
        /\ (Len(f.ring) = 1 /\ JWindow(f).rows >= 5)
             => (Len(g.ring) = 2 /\ \A i \in DOMAIN g.ring : g.ring[i].buf = f.ring[1].buf)
        /\ NoneNew(f, g)
    BY <1>3, <1>4, <1>5, SplitKeeps
  <1> HIDE DEF g
  <1>7. Sound(g)
    BY <1>6 DEF Keeps
  <1>8. m \in DOMAIN g.ring /\ (g.ring[m].buf = g.ring[1].buf)
    <2>1. 1 \in DOMAIN g.ring /\ Len(g.ring) \in Nat /\ DOMAIN g.ring = 1..Len(g.ring)
      BY <1>7, SoundRing
    <2>2. differ \subseteq Nat /\ \A k \in differ : k \in DOMAIN g.ring /\ g.ring[k].buf = g.ring[1].buf
      BY <2>1 DEF NumWindows, JWindow
    <2> HIDE DEF differ
    <2>3. differ # {} => Min(differ) \in differ
      BY <2>2, NatMin
    <2> QED
      BY <2>1, <2>2, <2>3
  <1> HIDE DEF m
  <1>9. /\ Keeps(g, h) /\ Rest(g, h) /\ h.cbuf = g.ring[m].buf /\ h.ring[1] = g.ring[m]
        /\ Len(h.ring) = Len(g.ring)
        /\ \A i \in DOMAIN h.ring : \E j \in DOMAIN g.ring : h.ring[i] = g.ring[j]
        /\ NoneNew(g, h)
    BY <1>7, <1>8, SelectKeeps, SelectShows
  <1> HIDE DEF h
  <1>10. Keeps(e, h)
    BY <1>3, <1>6, <1>9 DEF Keeps
  <1>11. Rest(e, h)
    BY <1>3, <1>6, <1>9 DEF Rest
  <1>12. h.cbuf = h.ring[1].buf
    BY <1>9
  <1>13. ASSUME MiniOwn(e) PROVE ~InMiniWindow(h)
    <2>1. Own(g.ring)
      BY <1>3, <1>6, <1>13 DEF Keeps, MiniOwn
    <2>2. g.ring[1].id # MiniId /\ 1 \in DOMAIN g.ring
      BY <1>6, <1>7, SoundRing DEF InMiniWindow, JWindow
    <2>3. g.ring[1].buf # Mini
      BY <2>1, <2>2 DEF Own
    <2>4. g.ring[m].id # MiniId
      BY <1>8, <2>1, <2>3 DEF Own
    <2> QED
      BY <1>9, <2>4 DEF InMiniWindow, JWindow
  <1>14. ASSUME action = None, ~HasMini(e.ring)
         PROVE  /\ Len(e.ring) = 1
                /\ JWindow(e).rows >= 5
                     => (2 \in DOMAIN h.ring /\ h.ring[2].buf = e.ring[1].buf)
    <2>1. Len(e.ring) \in Nat /\ DOMAIN e.ring = 1..Len(e.ring)
      BY SoundRing
    <2>2. \A k \in DOMAIN e.ring : k = 1
      BY <1>14 DEF Others, HasMini
    <2>3. Len(e.ring) = 1
      <3>1. Len(e.ring) \in DOMAIN e.ring
        BY <1>2, <2>1
      <3> QED
        BY <2>2, <3>1
    <2>4. ASSUME JWindow(e).rows >= 5
          PROVE  2 \in DOMAIN h.ring /\ h.ring[2].buf = e.ring[1].buf
      <3>1. f = e
        BY <1>3, <1>14
      <3>2. Len(g.ring) = 2 /\ \A i \in DOMAIN g.ring : g.ring[i].buf = e.ring[1].buf
        BY <1>6, <2>3, <2>4, <3>1
      <3>3. Len(h.ring) = 2
        BY <1>9, <3>2
      <3>4. 2 \in DOMAIN h.ring
        <4>1. Sound(h)
          BY <1>10 DEF Keeps
        <4>2. DOMAIN h.ring = 1..Len(h.ring)
          BY <4>1, SoundRing
        <4> QED
          BY <3>3, <4>2
      <3> QED
        BY <1>9, <3>2, <3>4, Zenon
    <2> QED
      BY <2>3, <2>4
  <1>15. PopSplit(e, action, row) = h
    BY DEF PopSplit, h, m, g, f
  <1>16. NoneNew(e, h)
    BY <1>3, <1>6, <1>9, NoneNewChain
  <1> QED
    BY <1>10, <1>11, <1>12, <1>13, <1>14, <1>15, <1>16

(* The window that was chosen shows the buffer.                            *)
LEMMA PopEnds ==
  ASSUME NEW h, Sound(h), NEW b, b \in h.live
  PROVE  LET q == [h EXCEPT !.cbuf = b, !.ring[1].buf = b]
         IN /\ Sound(q) /\ q.ring[1].buf = b
            /\ (MiniOwn(h) /\ ~InMiniWindow(h) /\ b # Mini) => MiniOwn(q) /\ ~InMiniWindow(q)
            /\ q.live = h.live /\ q.reading = h.reading /\ q.height = h.height
            /\ q.listed = h.listed /\ q.wins = h.wins /\ q.start = h.start /\ q.top = h.top /\ q.cbuf = b
            /\ DOMAIN q.ring = DOMAIN h.ring
            /\ \A i \in DOMAIN h.ring : i # 1 => q.ring[i] = h.ring[i]
            /\ q.ring[1].id = h.ring[1].id
  <1> DEFINE g == SetBuffer(h, b)
             q == WindowBuffer(g, b)
  <1>1. /\ h \in Editor /\ b \in Buffers /\ h.live \cup {b} = h.live /\ 1 \in DOMAIN h.ring
        /\ DOMAIN h.ring = 1..Len(h.ring)
    BY SoundRing, EditorType
  <1>2. [h EXCEPT !.cbuf = b, !.ring[1].buf = b] = q
    BY <1>1 DEF SetBuffer, WindowBuffer, Editor
  <1>3. /\ Keeps(h, g) /\ g.ring = h.ring /\ g.live = h.live /\ g.reading = h.reading
        /\ g.height = h.height /\ g.listed = h.listed /\ g.wins = h.wins
        /\ g.start = h.start /\ g.top = h.top /\ g.cbuf = b
    <2> HIDE DEF g
    <2>1. /\ Keeps(h, g) /\ g.ring = h.ring /\ g.live = h.live \cup {b} /\ g.reading = h.reading
          /\ g.height = h.height /\ g.listed = h.listed /\ g.wins = h.wins
          /\ g.start = h.start /\ g.top = h.top /\ g.cbuf = b
      BY <1>1, SetBufferKeeps DEF g
    <2> QED
      BY <1>1, <2>1
  <1> HIDE DEF g
  <1>4. Sound(g) /\ b \in g.live
    BY <1>3 DEF Keeps
  <1>5. /\ Sound(q) /\ q.live = g.live /\ q.reading = g.reading /\ q.height = g.height
        /\ q.listed = g.listed /\ q.wins = g.wins /\ Len(q.ring) = Len(g.ring)
        /\ q.ring[1].buf = b /\ q.start = g.start /\ q.top = g.top /\ q.cbuf = g.cbuf
        /\ \A i \in DOMAIN g.ring : q.ring[i].id = g.ring[i].id
        /\ \A i \in DOMAIN g.ring : i # 1 => q.ring[i] = g.ring[i]
        /\ (MiniOwn(g) /\ b # Mini /\ ~InMiniWindow(g)) => MiniOwn(q)
    BY <1>4, WindowBufferKeeps
  <1> HIDE DEF q
  <1>6. DOMAIN q.ring = DOMAIN h.ring
    BY <1>1, <1>3, <1>5, SoundRing
  <1>7. q.ring[1].id = h.ring[1].id
    BY <1>1, <1>3, <1>5
  <1>8. ASSUME MiniOwn(h), ~InMiniWindow(h), b # Mini
        PROVE  MiniOwn(q) /\ ~InMiniWindow(q)
    <2>1. ~InMiniWindow(g) /\ ~InMiniWindow(q)
      BY <1>3, <1>7, <1>8 DEF InMiniWindow, JWindow
    <2> QED
      BY <1>3, <1>5, <1>8, <2>1 DEF Keeps
  <1>9. /\ q.live = h.live /\ q.reading = h.reading /\ q.height = h.height
        /\ q.listed = h.listed /\ q.wins = h.wins /\ q.start = h.start /\ q.top = h.top /\ q.cbuf = b
        /\ \A i \in DOMAIN h.ring : i # 1 => q.ring[i] = h.ring[i]
    BY <1>3, <1>5
  <1> QED
    BY <1>2, <1>5, <1>6, <1>7, <1>8, <1>9

(* pop_to_buffer keeps what is sound; where nothing is read and another    *)
(* window is or can be, some window goes on to show what JWindow showed.   *)
LEMMA PopKeeps ==
  ASSUME NEW e, Sound(e), NEW b, b \in Buffers, b # Mini,
         NEW row, row \in Nat, row < e.height, Room(e.ring)
  PROVE  LET p == PopToBuffer(e, b, row)
         IN /\ Keeps(e, p.ed)
            /\ MiniOwn(e) => ~InMiniWindow(p.ed) /\ p.name # Mini
            /\ p.name \in p.ed.live /\ p.ed.live = e.live \cup {b}
            /\ p.ed.reading = e.reading /\ p.ed.height = e.height /\ p.ed.start = e.start
            /\ p.ed.top = e.top /\ p.ed.listed = e.listed /\ p.ed.wins = e.wins
            /\ p.ed.cbuf = b /\ p.ed.ring[1].buf = b
            /\ \A i \in DOMAIN p.ed.ring : i # 1 => p.ed.ring[i].buf \in Shown(e.ring)
            /\ InMiniWindow(e) => p.name \in Shown(e.ring)
            /\ (~e.reading /\ (Len(e.ring) > 1 \/ JWindow(e).rows >= 5))
                 => \E j \in DOMAIN p.ed.ring :
                      /\ p.ed.ring[j].buf = e.ring[1].buf
                      /\ Len(e.ring) > 1 => p.ed.ring[j].id = e.ring[1].id
  <1> DEFINE f == SetBuffer(e, b)
             action == IF e.reading THEN e.action ELSE None
             shows == {k \in DOMAIN e.ring : e.ring[k].id # MiniId /\ e.ring[k].buf = b}
             others == Others(e, action)
             s == PopSplit(f, action, row)
             h == IF shows # {} THEN SelectFirst(f, shows)
                  ELSE IF others # {} THEN SelectFirst(f, {Max(others)}) ELSE s
             q == [h EXCEPT !.cbuf = b, !.ring[1].buf = b]
             Goes(x) == \E j \in DOMAIN x.ring :
                          /\ j # 1 \/ x.ring[1].buf = b
                          /\ x.ring[j].buf = e.ring[1].buf
                          /\ Len(e.ring) > 1 => x.ring[j].id = e.ring[1].id
             Free == ~e.reading /\ (Len(e.ring) > 1 \/ JWindow(e).rows >= 5)
             Good(x) == /\ Keeps(f, x) /\ Rest(f, x) /\ x.cbuf \in {b, x.ring[1].buf}
                        /\ MiniOwn(f) => ~InMiniWindow(x)
                        /\ Free => Goes(x)
                        /\ NoneNew(f, x) /\ (InMiniWindow(e) => x.cbuf = x.ring[1].buf)
  <1>1. PopToBuffer(e, b, row) = [ed |-> q, name |-> h.cbuf]
    BY DEF PopToBuffer, PopSplit
  <1>2. /\ Keeps(e, f) /\ f.ring = e.ring /\ f.height = e.height /\ f.live = e.live \cup {b}
        /\ f.cbuf = b /\ f.reading = e.reading /\ f.action = e.action
        /\ f.listed = e.listed /\ f.wins = e.wins /\ f.start = e.start /\ f.top = e.top
    BY SetBufferKeeps
  <1>3. e \in Editor /\ 1 \in DOMAIN e.ring /\ Len(e.ring) \in Nat /\ DOMAIN e.ring = 1..Len(e.ring)
    BY SoundRing
  <1>4. action \in Ids \cup {None} /\ (~e.reading => action = None)
    BY <1>3, EditorType
  <1>5. ~e.reading => ~HasMini(e.ring)
    BY DEF Sound
  <1>6. shows \subseteq Plains(f.ring) /\ others \subseteq Plains(f.ring) /\ others \subseteq 1..Len(e.ring)
    BY <1>2, <1>3 DEF Plains, Others
  <1>7. others = Others(f, action)
    BY <1>2 DEF Others
  <1> HIDE DEF f, action
  <1>8. Sound(f) /\ row < f.height /\ Room(f.ring)
    BY <1>2 DEF Keeps
  <1>9. ASSUME NEW ks, ks \subseteq Plains(f.ring), ks # {},
               1 \in ks => e.reading \/ e.ring[1].buf = b
        PROVE  Good(SelectFirst(f, ks))
    <2> DEFINE x == SelectFirst(f, ks)
    <2>1. /\ Keeps(f, x) /\ Rest(f, x) /\ ~InMiniWindow(x) /\ NoneNew(f, x)
          /\ (1 \in ks => x = f)
          /\ (1 \notin ks => /\ x.cbuf = x.ring[1].buf
                             /\ \E j \in DOMAIN x.ring : j # 1 /\ x.ring[j] = f.ring[1])
      BY <1>8, <1>9, PopSelects
    <2> HIDE DEF x
    <2>2. x.cbuf \in {b, x.ring[1].buf}
      BY <1>2, <2>1
    <2>3. ASSUME Free PROVE Goes(x)
      <3>1. CASE 1 \in ks
        BY <1>2, <1>3, <1>9, <2>1, <2>3, <3>1
      <3>2. CASE 1 \notin ks
        BY <1>2, <2>1, <3>2
      <3> QED
        BY <3>1, <3>2
    <2>4. InMiniWindow(e) => x.cbuf = x.ring[1].buf
      <3>1. InMiniWindow(e) => 1 \notin ks
        BY <1>2, <1>9 DEF InMiniWindow, JWindow, Plains
      <3> QED
        BY <2>1, <3>1
    <2> QED
      BY <2>1, <2>2, <2>3, <2>4 DEF x
  <1>10. Good(h)
    <2>1. CASE shows # {}
      <3>1. 1 \in shows => e.ring[1].buf = b
        OBVIOUS
      <3>2. h = SelectFirst(f, shows)
        BY <2>1
      <3> HIDE DEF shows, h, Good
      <3> QED
        BY <1>6, <1>9, <2>1, <3>1, <3>2
    <2>2. CASE shows = {} /\ others # {}
      <3>1. h = SelectFirst(f, {Max(others)})
        BY <2>2
      <3>2. Max(others) \in others
        BY <1>3, <1>6, <2>2, NatMax
      <3>3. 1 \in {Max(others)} => e.reading
        BY <1>4, <3>2 DEF Others
      <3>4. {Max(others)} \subseteq Plains(f.ring)
        BY <1>6, <3>2
      <3> DEFINE ks == {Max(others)}
      <3> HIDE DEF ks, others, shows, h, Good
      <3>5. ks # {}
        BY DEF ks
      <3>6. ks \subseteq Plains(f.ring) /\ (1 \in ks => e.reading) /\ h = SelectFirst(f, ks)
        BY <3>1, <3>3, <3>4 DEF ks
      <3> QED
        BY <1>9, <3>5, <3>6
    <2>3. CASE shows = {} /\ others = {}
      <3>1. h = s
        BY <2>3
      <3>2. /\ Keeps(f, s) /\ Rest(f, s) /\ s.cbuf = s.ring[1].buf /\ NoneNew(f, s)
            /\ MiniOwn(f) => ~InMiniWindow(s)
            /\ (action = None /\ ~HasMini(f.ring))
                 => /\ Len(f.ring) = 1
                    /\ JWindow(f).rows >= 5
                         => (2 \in DOMAIN s.ring /\ s.ring[2].buf = f.ring[1].buf)
        <4>1. Others(f, action) = {}
          BY <1>7, <2>3
        <4> HIDE DEF others, shows, h, Good
        <4> QED
          BY <1>4, <1>8, <4>1, PopSplits
      <3> HIDE DEF s
      <3>3. ASSUME Free PROVE Goes(s)
        <4>1. action = None /\ ~HasMini(f.ring)
          BY <1>2, <1>4, <1>5, <3>3
        <4>2. Len(e.ring) = 1
          BY <1>2, <3>2, <4>1
        <4>3. JWindow(f).rows >= 5
          BY <1>2, <3>3, <4>2 DEF JWindow
        <4>4. 2 \in DOMAIN s.ring /\ s.ring[2].buf = e.ring[1].buf
          BY <1>2, <3>2, <4>1, <4>3
        <4> QED
          BY <4>2, <4>4
      <3> QED
        BY <3>1, <3>2, <3>3
    <2> QED
      BY <2>1, <2>2, <2>3
  <1> HIDE DEF h
  <1>11. Sound(h) /\ h.live = e.live \cup {b} /\ b \in h.live
    BY <1>2, <1>10 DEF Keeps, Rest
  <1>12. /\ Sound(q) /\ q.ring[1].buf = b
         /\ (MiniOwn(h) /\ ~InMiniWindow(h) /\ b # Mini) => MiniOwn(q) /\ ~InMiniWindow(q)
         /\ q.live = h.live /\ q.reading = h.reading /\ q.height = h.height
         /\ q.listed = h.listed /\ q.wins = h.wins /\ q.start = h.start /\ q.top = h.top /\ q.cbuf = b
         /\ DOMAIN q.ring = DOMAIN h.ring
         /\ \A i \in DOMAIN h.ring : i # 1 => q.ring[i] = h.ring[i]
         /\ q.ring[1].id = h.ring[1].id
    BY <1>11, PopEnds
  <1> HIDE DEF q
  <1>13. MiniOwn(e) => MiniOwn(h) /\ ~InMiniWindow(h)
    BY <1>2, <1>10 DEF Keeps
  <1>14. MiniOwn(e) => MiniOwn(q) /\ ~InMiniWindow(q)
    BY <1>12, <1>13
  <1>15. MiniOwn(e) => h.cbuf # Mini
    <2>1. ASSUME MiniOwn(e) PROVE h.ring[1].buf # Mini
      <3>1. Own(h.ring) /\ h.ring[1].id # MiniId
        BY <1>13, <2>1 DEF MiniOwn, InMiniWindow, JWindow
      <3>2. 1 \in DOMAIN h.ring
        BY <1>11, SoundRing
      <3> QED
        BY <3>1, <3>2 DEF Own
    <2> QED
      BY <1>10, <2>1
  <1>16. h.cbuf \in q.live
    BY <1>11, <1>12 DEF Sound
  <1>17. /\ q.live = e.live \cup {b} /\ q.reading = e.reading /\ q.height = e.height
         /\ q.listed = e.listed /\ q.wins = e.wins /\ q.start = e.start /\ q.top = e.top
    BY <1>2, <1>10, <1>11, <1>12 DEF Rest
  <1>18. ASSUME Free
         PROVE  \E j \in DOMAIN q.ring :
                  /\ q.ring[j].buf = e.ring[1].buf
                  /\ Len(e.ring) > 1 => q.ring[j].id = e.ring[1].id
    <2>1. PICK j \in DOMAIN h.ring :
                  /\ j # 1 \/ h.ring[1].buf = b
                  /\ h.ring[j].buf = e.ring[1].buf
                  /\ Len(e.ring) > 1 => h.ring[j].id = e.ring[1].id
      BY <1>10, <1>18
    <2>2. q.ring[j].buf = h.ring[j].buf /\ q.ring[j].id = h.ring[j].id /\ j \in DOMAIN q.ring
      BY <1>12, <2>1
    <2> QED
      BY <2>1, <2>2
  <1>19. Keeps(e, q)
    BY <1>12, <1>14 DEF Keeps
  <1> DEFINE p == PopToBuffer(e, b, row)
  <1>20. p.ed = q /\ p.name = h.cbuf
    BY <1>1
  <1> HIDE DEF p
  <1>21. Shown(h.ring) \subseteq Shown(e.ring)
    BY <1>2, <1>10 DEF NoneNew
  <1>22. \A i \in DOMAIN q.ring : i # 1 => q.ring[i].buf \in Shown(e.ring)
    <2>1. ASSUME NEW i \in DOMAIN q.ring, i # 1 PROVE q.ring[i].buf \in Shown(e.ring)
      <3>1. i \in DOMAIN h.ring /\ q.ring[i] = h.ring[i]
        BY <1>12, <2>1
      <3>2. h.ring[i].buf \in Shown(h.ring)
        BY <3>1 DEF Shown
      <3> QED
        BY <1>21, <3>1, <3>2
    <2> QED
      BY <2>1
  <1>23. InMiniWindow(e) => h.cbuf \in Shown(e.ring)
    <2>1. 1 \in DOMAIN h.ring
      BY <1>11, SoundRing
    <2>2. h.ring[1].buf \in Shown(h.ring)
      BY <2>1 DEF Shown
    <2> QED
      BY <1>10, <1>21, <2>2
  <1> QED
    BY <1>12, <1>14, <1>15, <1>16, <1>17, <1>18, <1>19, <1>20, <1>22, <1>23 DEF p

(* A line is found in a window, above its status line.                     *)
LEMMA FoundRowFits ==
  ASSUME NEW e, Sound(e), NEW row \in FoundRows(e)
  PROVE  row \in Nat /\ row < e.height
  <1> DEFINE r == e.ring
  <1>1. /\ Ring(r) /\ Tiling(r, e.height, e.top) /\ e.height \in Nat /\ e.height >= 5 /\ e.top \in Nat
        /\ \A i \in DOMAIN r : r[i] \in Window
    BY SoundRing, EditorType DEF Sound
  <1>2. CASE row = 0
    BY ONLY <1>1, <1>2
  <1>3. CASE row # 0
    <2>1. PICK i \in DOMAIN r : row = r[i].sy + 1 /\ r[i].id # MiniId
      BY <1>3 DEF FoundRows, IndexOfId
    <2>2. i \in Plains(r) /\ r[i].sy \in Nat /\ r[i].rows \in Nat /\ r[i].rows >= 2
      BY <1>1, <2>1, WindowType DEF Plains, Tiling
    <2> HIDE DEF r
    <2>3. PICK b \in Plains(r) :
             /\ \A k \in Plains(r) : AtBottom(r[k], e.height) <=> k = b
             /\ \A k \in Plains(r) : k # b => Over(r[k], r[b])
      BY <1>1, RingLayout
    <2>4. r[b].sy \in Nat /\ r[b].rows \in Nat /\ r[b].sy + r[b].rows + 2 = e.height
      BY <1>1, <2>3, WindowType DEF Plains, AtBottom
    <2>5. r[i].sy <= r[b].sy
      <3>1. CASE i = b
        BY <2>2, <3>1
      <3>2. CASE i # b
        <4>1. r[i].sy + r[i].rows < r[b].sy
          BY <2>2, <2>3, <3>2 DEF Over
        <4> QED
          BY ONLY <2>2, <2>4, <4>1
      <3> QED
        BY <3>1, <3>2
    <2> QED
      BY ONLY <1>1, <2>1, <2>2, <2>4, <2>5
  <1> QED
    BY <1>2, <1>3

-----------------------------------------------------------------------------
(* The minibuffer's window before the others: it changes nothing of how    *)
(* they share the screen.                                                  *)
LEMMA LinkTiling ==
  ASSUME NEW r, r \in Seq(Window), NEW s, s \in Seq(Window), Len(s) = Len(r) + 1, Len(r) >= 1,
         s[1].id = MiniId, \A i \in DOMAIN r : s[i + 1] = r[i] /\ r[i].id # MiniId
  PROVE  /\ Ring(r) <=> Ring(s)
         /\ \A h, t \in Nat : Tiling(r, h, t) <=> Tiling(s, h, t)
  <1> DEFINE n == Len(r)
  <1>1. n \in Nat /\ n >= 1 /\ DOMAIN r = 1..n /\ DOMAIN s = 1..(n + 1) /\ Len(s) = n + 1
    BY ONLY r \in Seq(Window), s \in Seq(Window), Len(s) = Len(r) + 1, Len(r) >= 1
  <1>2. \A i \in 1..n : s[i + 1] = r[i] /\ r[i].id # MiniId
    BY <1>1
  <1> HIDE DEF n
  <1>3. Plains(r) = 1..n
    BY <1>1, <1>2 DEF Plains
  <1>4. \A j \in 1..(n + 1) : j # 1 => j - 1 \in 1..n /\ s[j] = r[j - 1]
    <2>1. ASSUME NEW j \in 1..(n + 1), j # 1
          PROVE  j - 1 \in 1..n /\ s[j] = r[j - 1]
      <3>1. j - 1 \in 1..n /\ (j - 1) + 1 = j
        BY ONLY <1>1, <2>1
      <3> QED
        BY <1>2, <3>1
    <2> QED
      BY <2>1
  <1>5. \A i \in 1..n : i + 1 \in 1..(n + 1) /\ i + 1 # 1
    BY <1>1
  <1>6. Plains(s) = 2..(n + 1)
    <2>1. ASSUME NEW j \in 1..(n + 1) PROVE s[j].id # MiniId <=> j # 1
      BY <1>2, <1>4
    <2>2. \A j : j \in Plains(s) <=> j \in 1..(n + 1) /\ j # 1
      BY <1>1, <2>1 DEF Plains
    <2>3. \A j : j \in 2..(n + 1) <=> j \in 1..(n + 1) /\ j # 1
      BY ONLY <1>1
    <2> QED
      BY <2>2, <2>3
  <1>7. \A i \in 1..n : Below(s, i + 1) = Below(r, i) + 1 /\ Below(r, i) \in 1..n
    <2>1. ASSUME NEW i \in 1..n
          PROVE  Below(s, i + 1) = Below(r, i) + 1 /\ Below(r, i) \in 1..n
      <3>1. Succ(r, i) = (IF i = n THEN 1 ELSE i + 1) /\ Succ(r, i) \in 1..n
        <4>1. n = Len(r)
          BY DEF n
        <4>2. Succ(r, i) = IF i = n THEN 1 ELSE i + 1
          BY <4>1 DEF Succ
        <4> QED
          BY <1>1, <4>2
      <3>2. Below(r, i) = Succ(r, i)
        BY <1>3, <3>1 DEF Below
      <3>3. CASE i = n
        <4>1. Succ(s, i + 1) = 1 /\ Succ(s, 1) = 2
          BY <1>1, <3>3 DEF Succ
        <4>2. 1 \notin Plains(s)
          BY <1>6
        <4>3. Below(s, i + 1) = 2
          BY <4>1, <4>2 DEF Below
        <4> QED
          BY <3>1, <3>2, <3>3, <4>3
      <3>4. CASE i # n
        <4>1. Succ(s, i + 1) = i + 2
          BY <1>1, <3>4 DEF Succ
        <4>2. i + 2 \in Plains(s)
          BY <1>1, <1>6, <3>4
        <4>3. Below(s, i + 1) = i + 2
          BY <4>1, <4>2 DEF Below
        <4> QED
          BY <3>1, <3>2, <3>4, <4>3
      <3> QED
        BY <3>3, <3>4
    <2> QED
      BY <2>1
  <1>8. Ring(r) => Ring(s)
    <2>1. ASSUME Ring(r), NEW i \in 1..(n + 1), NEW j \in 1..(n + 1), s[i].id = s[j].id
          PROVE  i = j
      <3>1. CASE i = 1 \/ j = 1
        BY <1>2, <1>4, <2>1, <3>1
      <3>2. CASE i # 1 /\ j # 1
        <4>1. i - 1 \in 1..n /\ j - 1 \in 1..n /\ r[i - 1].id = r[j - 1].id
          BY <1>4, <2>1, <3>2
        <4>2. i - 1 = j - 1
          BY <1>1, <2>1, <4>1 DEF Ring
        <4> QED
          BY ONLY <1>1, <4>2, i \in 1..(n + 1), j \in 1..(n + 1)
      <3> QED
        BY <3>1, <3>2
    <2> QED
      BY <1>1, <2>1 DEF Ring
  <1>9. Ring(s) => Ring(r)
    <2>1. ASSUME Ring(s), NEW i \in 1..n, NEW j \in 1..n, r[i].id = r[j].id
          PROVE  i = j
      <3>1. i + 1 = j + 1
        BY <1>1, <1>2, <1>5, <2>1 DEF Ring
      <3> QED
        BY ONLY <1>1, <3>1, i \in 1..n, j \in 1..n
    <2> QED
      BY <1>1, <2>1 DEF Ring
  <1>10. ASSUME NEW h \in Nat, NEW t \in Nat
         PROVE  Tiling(r, h, t) <=> Tiling(s, h, t)
    <2> DEFINE P(q, i) == /\ q[i].rows >= 2
                          /\ q[Below(q, i)].sy
                               = IF AtBottom(q[i], h) THEN t ELSE q[i].sy + q[i].rows + 1
    <2>1. \A i \in 1..n : P(s, i + 1) <=> P(r, i)
      <3>1. ASSUME NEW i \in 1..n PROVE P(s, i + 1) <=> P(r, i)
        <4>1. Below(s, i + 1) = Below(r, i) + 1 /\ Below(r, i) \in 1..n
          BY <1>7
        <4>2. s[i + 1] = r[i] /\ s[Below(s, i + 1)] = r[Below(r, i)]
          BY <1>2, <4>1
        <4> QED
          BY <4>2, Zenon
      <3> HIDE DEF P
      <3> QED
        BY <3>1
    <2>2. \A i \in 1..n : AtBottom(s[i + 1], h) <=> AtBottom(r[i], h)
      BY <1>2
    <2>3. (\A i \in Plains(r) : P(r, i)) <=> (\A i \in Plains(s) : P(s, i))
      <3>1. ASSUME \A i \in 1..n : P(r, i), NEW j \in 2..(n + 1) PROVE P(s, j)
        <4>1. j - 1 \in 1..n /\ (j - 1) + 1 = j
          BY ONLY <1>1, j \in 2..(n + 1)
        <4> HIDE DEF P
        <4>2. P(s, (j - 1) + 1)
          BY <2>1, <3>1, <4>1
        <4> QED
          BY <4>1, <4>2
      <3>2. ASSUME \A i \in 2..(n + 1) : P(s, i), NEW i \in 1..n PROVE P(r, i)
        <4>1. i + 1 \in 2..(n + 1)
          BY ONLY <1>1, i \in 1..n
        <4> HIDE DEF P
        <4> QED
          BY <2>1, <3>2, <4>1
      <3> HIDE DEF P
      <3> QED
        BY <1>3, <1>6, <3>1, <3>2
    <2>4. (\E b \in Plains(r) : \A i \in Plains(r) : AtBottom(r[i], h) <=> i = b)
            <=> (\E b \in Plains(s) : \A i \in Plains(s) : AtBottom(s[i], h) <=> i = b)
      <3>1. ASSUME NEW b \in 1..n, \A i \in 1..n : AtBottom(r[i], h) <=> i = b
            PROVE  b + 1 \in 2..(n + 1) /\ \A j \in 2..(n + 1) : AtBottom(s[j], h) <=> j = b + 1
        <4>1. ASSUME NEW j \in 2..(n + 1)
              PROVE  AtBottom(s[j], h) <=> j = b + 1
          <5>1. j - 1 \in 1..n /\ (j - 1) + 1 = j
            BY ONLY <1>1, j \in 2..(n + 1)
          <5>2. AtBottom(s[j], h) <=> AtBottom(r[j - 1], h)
            BY <2>2, <5>1
          <5>3. (j - 1 = b) <=> (j = b + 1)
            BY ONLY <1>1, j \in 2..(n + 1), b \in 1..n
          <5> QED
            BY <3>1, <5>1, <5>2, <5>3
        <4> QED
          BY <1>1, <4>1
      <3>2. ASSUME NEW b \in 2..(n + 1), \A j \in 2..(n + 1) : AtBottom(s[j], h) <=> j = b
            PROVE  b - 1 \in 1..n /\ \A i \in 1..n : AtBottom(r[i], h) <=> i = b - 1
        <4>1. ASSUME NEW i \in 1..n
              PROVE  AtBottom(r[i], h) <=> i = b - 1
          <5>1. i + 1 \in 2..(n + 1)
            BY ONLY <1>1, i \in 1..n
          <5>2. (i + 1 = b) <=> (i = b - 1)
            BY ONLY <1>1, i \in 1..n, b \in 2..(n + 1)
          <5> QED
            BY <2>2, <3>2, <5>1, <5>2
        <4> QED
          BY <1>1, <4>1
      <3> DEFINE A(i) == AtBottom(r[i], h)
                 B(j) == AtBottom(s[j], h)
      <3> HIDE DEF A, B
      <3>3. (\E b \in Plains(r) : \A i \in Plains(r) : A(i) <=> i = b)
              => (\E b \in Plains(s) : \A j \in Plains(s) : B(j) <=> j = b)
        BY <1>3, <1>6, <3>1 DEF A, B
      <3>4. (\E b \in Plains(s) : \A j \in Plains(s) : B(j) <=> j = b)
              => (\E b \in Plains(r) : \A i \in Plains(r) : A(i) <=> i = b)
        <4>1. ASSUME NEW b \in Plains(s), \A j \in Plains(s) : B(j) <=> j = b
              PROVE  \E c \in Plains(r) : \A i \in Plains(r) : A(i) <=> i = c
          <5>1. b \in 2..(n + 1) /\ \A j \in 2..(n + 1) : AtBottom(s[j], h) <=> j = b
            BY <1>6, <4>1 DEF B
          <5> DEFINE c == b - 1
          <5>2. c \in 1..n /\ \A i \in 1..n : AtBottom(r[i], h) <=> i = c
            BY <3>2, <5>1
          <5> HIDE DEF c
          <5>3. c \in Plains(r) /\ \A i \in Plains(r) : A(i) <=> i = c
            BY <1>3, <5>2 DEF A
          <5> QED
            BY <5>3
        <4> QED
          BY <4>1
      <3> QED
        BY <3>3, <3>4, Zenon DEF A, B
    <2> HIDE DEF P
    <2>5. Tiling(r, h, t) <=> /\ \A i \in Plains(r) : P(r, i)
                              /\ \E b \in Plains(r) : \A i \in Plains(r) : AtBottom(r[i], h) <=> i = b
      BY DEF Tiling, P
    <2>6. Tiling(s, h, t) <=> /\ \A i \in Plains(s) : P(s, i)
                              /\ \E b \in Plains(s) : \A i \in Plains(s) : AtBottom(s[i], h) <=> i = b
      BY DEF Tiling, P
    <2> QED
      BY <2>3, <2>4, <2>5, <2>6, Zenon
  <1> QED
    BY <1>8, <1>9, <1>10

-----------------------------------------------------------------------------
(* The minibuffer.                                                         *)

(* The fields that no window depends on.                                   *)
LEMMA NotedKeeps ==
  ASSUME NEW e, Sound(e), NEW f, f \in Editor, f.ring = e.ring, f.height = e.height,
         f.top = e.top, f.spare = e.spare, f.live = e.live, f.reading = e.reading,
         f.cbuf \in e.live
  PROVE  Sound(f) /\ (MiniOwn(e) /\ f.listed # Mini => MiniOwn(f))
  BY DEF Sound, MiniOwn

(* While something is read the minibuffer's window can be selected.        *)
LEMMA SelectMinibufferKeeps ==
  ASSUME NEW e, Sound(e), e.reading
  PROVE  LET f == SelectMinibuffer(e)
         IN /\ Keeps(e, f) /\ Rest(e, f) /\ InMiniWindow(f)
  <1> DEFINE M == IndexOfId(e, MiniId)
  <1>1. CASE InMiniWindow(e)
    <2>1. SelectMinibuffer(e) = e
      BY <1>1 DEF SelectMinibuffer
    <2>2. Keeps(e, e) /\ Rest(e, e)
      BY DEF Keeps, Rest, Sound
    <2> QED
      BY <1>1, <2>1, <2>2
  <1>2. CASE ~InMiniWindow(e)
    <2> DEFINE f == SelectFirst(e, M)
    <2>1. SelectMinibuffer(e) = f
      BY <1>2 DEF SelectMinibuffer
    <2>2. HasMini(e.ring)
      BY DEF Sound
    <2>3. M # {} /\ M \subseteq DOMAIN e.ring /\ \A k \in M : e.ring[k].id = MiniId
      BY <2>2 DEF HasMini, IndexOfId
    <2> HIDE DEF M
    <2>4. Keeps(e, f) /\ Rest(e, f) /\ \E k \in M : f.ring[1] = e.ring[k]
      BY <2>3, SelectFirstKeeps
    <2> HIDE DEF f
    <2>5. InMiniWindow(f)
      BY <2>3, <2>4 DEF InMiniWindow, JWindow
    <2> QED
      BY <2>1, <2>4, <2>5
  <1> QED
    BY <1>1, <1>2

(* create_minibuffer.                                                      *)
LEMMA CreateKeeps ==
  ASSUME NEW e, Sound(e), ~e.reading
  PROVE  LET f == CreateMinibuffer(e)
         IN /\ Keeps(e, f) /\ f.live = e.live /\ f.listed = e.listed
  <1> DEFINE m == [e.spare EXCEPT !.buf = Mini]
             r == e.ring
             s == <<m>> \o r
             f == CreateMinibuffer(e)
  <1>1. /\ e \in Editor /\ r \in Seq(Window) /\ Len(r) \in Nat /\ DOMAIN r = 1..Len(r)
        /\ 1 \in DOMAIN r /\ e.spare \in Window /\ Mini \in Buffers
        /\ e.height \in Nat /\ e.top \in Nat /\ r[1] \in Window
    BY SoundRing, EditorType DEF Buffers
  <1>2. m \in Window /\ m.id = MiniId /\ m.sy = e.height - 1 /\ m.rows = 1 /\ m.buf = Mini
    <2>1. e.spare.id = MiniId /\ e.spare.sy = e.height - 1 /\ e.spare.rows = 1
      BY DEF Sound
    <2> QED
      BY ONLY <1>1, <2>1 DEF Window
  <1>3. \A i \in DOMAIN r : r[i].id # MiniId
    BY DEF Sound, HasMini
  <1> HIDE DEF m
  <1>4. /\ s \in Seq(Window) /\ Len(s) = Len(r) + 1 /\ s[1] = m /\ \A i \in DOMAIN r : s[i + 1] = r[i]
    <2>1. s \in Seq(Window) /\ Len(s) = Len(r) + 1 /\ s[1] = m
      BY <1>1, <1>2
    <2>2. ASSUME NEW i \in DOMAIN r PROVE s[i + 1] = r[i]
      BY <1>1, <1>2
    <2> QED
      BY <2>1, <2>2
  <1> HIDE DEF s
  <1>5. \A j \in DOMAIN s : j = 1 \/ \E i \in DOMAIN r : s[j] = r[i]
    <2>1. ASSUME NEW j \in DOMAIN s, j # 1 PROVE \E i \in DOMAIN r : s[j] = r[i]
      <3>1. j \in 1..(Len(r) + 1)
        BY <1>4
      <3>2. j - 1 \in 1..Len(r) /\ (j - 1) + 1 = j
        BY ONLY <1>1, <2>1, <3>1
      <3> QED
        BY <1>1, <1>4, <3>2
    <2> QED
      BY <2>1
  <1>6. r[1].id \in Ids
    BY <1>1, <1>3, WindowType
  <1>7. f = [e EXCEPT !.ring = s, !.cbuf = Mini, !.reading = TRUE, !.action = r[1].id]
    BY DEF CreateMinibuffer, JWindow, s, m
  <1> HIDE DEF r
  <1>8. /\ f \in Editor /\ f.ring = s /\ f.height = e.height /\ f.top = e.top
        /\ f.spare = e.spare /\ f.live = e.live /\ f.cbuf = Mini /\ f.reading = TRUE
        /\ f.listed = e.listed
    BY ONLY <1>1, <1>4, <1>6, <1>7 DEF Editor
  <1>9. Ring(s) /\ Tiling(s, e.height, e.top)
    <2>1. Ring(r) /\ Tiling(r, e.height, e.top)
      BY DEF Sound, r
    <2>2. Len(r) >= 1
      BY ONLY <1>1
    <2> QED
      BY <1>1, <1>2, <1>3, <1>4, <2>1, <2>2, LinkTiling DEF r
  <1>10. HasMini(s)
    <2>1. 1 \in DOMAIN s
      BY <1>1, <1>4
    <2> QED
      BY <1>2, <1>4, <2>1 DEF HasMini
  <1>11. MiniLast(s, e.height)
    <2>1. ASSUME NEW j \in DOMAIN s, s[j].id = MiniId PROVE s[j] = m
      BY <1>3, <1>4, <1>5, <2>1 DEF r
    <2> QED
      BY <1>2, <2>1 DEF MiniLast
  <1>12. Shown(s) \subseteq e.live /\ Mini \in e.live
    <2>1. Mini \in e.live /\ \A i \in DOMAIN r : r[i].buf \in e.live
      BY DEF Sound, Shown, r
    <2> QED
      BY <1>2, <1>4, <1>5, <2>1 DEF Shown
  <1>13. Sound(f)
    BY <1>8, <1>9, <1>10, <1>11, <1>12 DEF Sound
  <1>14. ASSUME MiniOwn(e) PROVE MiniOwn(f)
    <2>1. \A i \in DOMAIN r : r[i].buf # Mini /\ r[i].id # MiniId
      BY <1>3, <1>14 DEF MiniOwn, Own, r
    <2>2. \A j \in DOMAIN s : s[j].id = MiniId <=> s[j].buf = Mini
      <3>1. ASSUME NEW j \in DOMAIN s PROVE s[j].id = MiniId <=> s[j].buf = Mini
        BY <1>2, <1>4, <1>5, <2>1
      <3> QED
        BY <3>1
    <2>3. Own(s)
      BY <2>2 DEF Own
    <2> QED
      BY <1>8, <1>14, <2>3 DEF MiniOwn
  <1> HIDE DEF f
  <1> QED
    BY <1>8, <1>13, <1>14 DEF Keeps, f

(* read_from_minibuffer_1 up to its loop.                                  *)
LEMMA ReadKeeps ==
  ASSUME NEW e, Sound(e)
  PROVE  LET f == ReadFromMinibuffer(e)
         IN /\ Keeps(e, f) /\ f.live = e.live /\ f.listed = e.listed
  <1> DEFINE t == IF InMiniWindow(e) THEN None ELSE JWindow(e).id
             f == [e EXCEPT !.target = t]
             s == IF InMiniWindow(e) THEN None ELSE e.cbuf
             g == CreateMinibuffer(f)
             h == [g EXCEPT !.start = s]
  <1>1. e \in Editor /\ e.ring[1] \in Window /\ e.cbuf \in Buffers /\ e.cbuf \in e.live
    BY SoundRing, EditorType DEF Sound
  <1>2. t \in Ids \cup {None}
    BY <1>1, WindowType DEF InMiniWindow, JWindow
  <1>3. s \in Buffers \cup {None}
    BY <1>1
  <1> HIDE DEF t, s
  <1>4. /\ f \in Editor /\ f.ring = e.ring /\ f.height = e.height /\ f.top = e.top
        /\ f.spare = e.spare /\ f.live = e.live /\ f.reading = e.reading /\ f.cbuf = e.cbuf
        /\ f.listed = e.listed
    BY ONLY <1>1, <1>2 DEF Editor
  <1>5. ReadFromMinibuffer(e) = IF e.reading THEN SelectMinibuffer(f) ELSE h
    BY DEF ReadFromMinibuffer, t, s
  <1> HIDE DEF f
  <1>6. Keeps(e, f)
    <2>1. MiniOwn(e) => f.listed # Mini
      BY <1>4 DEF MiniOwn
    <2> QED
      BY <1>1, <1>4, <2>1, NotedKeeps DEF Keeps
  <1>7. Sound(f)
    BY <1>6 DEF Keeps
  <1>8. CASE e.reading
    <2> DEFINE k == SelectMinibuffer(f)
    <2>1. Keeps(f, k) /\ Rest(f, k)
      BY <1>4, <1>7, <1>8, SelectMinibufferKeeps
    <2> HIDE DEF k
    <2>2. ReadFromMinibuffer(e) = k
      BY <1>5, <1>8 DEF k
    <2> QED
      BY <1>4, <1>6, <2>1, <2>2 DEF Keeps, Rest
  <1>9. CASE ~e.reading
    <2>1. Keeps(f, g) /\ g.live = f.live /\ g.listed = f.listed
      BY <1>4, <1>7, <1>9, CreateKeeps
    <2> HIDE DEF g
    <2>2. Sound(g)
      BY <2>1 DEF Keeps
    <2>3. g \in Editor /\ g.cbuf \in g.live
      BY <2>2 DEF Sound
    <2>4. /\ h \in Editor /\ h.ring = g.ring /\ h.height = g.height /\ h.top = g.top
          /\ h.spare = g.spare /\ h.live = g.live /\ h.reading = g.reading /\ h.cbuf = g.cbuf
          /\ h.listed = g.listed
      BY ONLY <1>3, <2>3 DEF Editor
    <2> HIDE DEF h
    <2>5. Keeps(g, h)
      <3>1. MiniOwn(g) => h.listed # Mini
        BY <2>4 DEF MiniOwn
      <3> QED
        BY <2>2, <2>3, <2>4, <3>1, NotedKeeps DEF Keeps
    <2>6. Keeps(e, h)
      BY <1>6, <2>1, <2>5 DEF Keeps
    <2>7. h.live = e.live /\ h.listed = e.listed
      BY <1>4, <2>1, <2>4
    <2>8. ReadFromMinibuffer(e) = h
      BY <1>5, <1>9
    <2> QED
      BY <2>6, <2>7, <2>8
  <1> QED
    BY <1>8, <1>9

(* read_from_minibuffer_1 after its loop.                                  *)
LEMMA LeaveKeeps ==
  ASSUME NEW e, Sound(e), InMiniWindow(e)
  PROVE  LET f == LeaveMinibuffer(e)
         IN /\ Keeps(e, f) /\ f.live = e.live /\ f.listed = e.listed
            /\ f.start = None /\ f.reading = FALSE
            /\ Shown(f.ring) \subseteq Shown(e.ring) /\ f.cbuf \in Shown(e.ring) \cup {e.start}
            /\ e.start \in e.live => f.cbuf = e.start
            /\ e.target = e.ring[2].id \/ Len(e.ring) = 2
                 => /\ Len(f.ring) = Len(e.ring) - 1
                    /\ \A i \in DOMAIN f.ring : f.ring[i] = e.ring[i + 1]
  <1> DEFINE s == e.ring
             r == Tail(s)
             f == [e EXCEPT !.ring = r, !.spare = Head(s), !.cbuf = r[1].buf,
                            !.reading = FALSE, !.start = None, !.action = None, !.target = None]
             at == IndexOfId(f, e.target)
             ks == IF at = {} THEN {Len(r)} ELSE at
             g == IF e.target = None THEN f ELSE SelectFirst(f, ks)
             h == IF e.start \in e.live THEN [g EXCEPT !.cbuf = e.start] ELSE g
  <1>1. /\ e \in Editor /\ s \in Seq(Window) /\ Len(s) \in Nat /\ DOMAIN s = 1..Len(s)
        /\ 1 \in DOMAIN s /\ Ring(s) /\ e.height \in Nat /\ e.top \in Nat
        /\ \A i \in DOMAIN s : s[i] \in Window /\ s[i].buf \in e.live
        /\ s[1].id = MiniId
    BY SoundRing, EditorType DEF Sound, InMiniWindow, JWindow
  <1>2. Len(s) >= 2
    <2>1. PICK p \in Plains(s) : TRUE
      BY SoundRing
    <2>2. p \in DOMAIN s /\ p # 1
      BY <1>1 DEF Plains
    <2> QED
      BY ONLY <1>1, <2>2
  <1> HIDE DEF s
  <1>3. /\ r \in Seq(Window) /\ Len(r) = Len(s) - 1 /\ DOMAIN r = 1..Len(r) /\ Len(r) \in Nat
        /\ Head(s) = s[1] /\ \A i \in 1..(Len(s) - 1) : r[i] = s[i + 1]
    <2>1. s # <<>>
      BY <1>2
    <2>2. r \in Seq(Window) /\ Len(r) = Len(s) - 1
      BY <1>1, <2>1
    <2>3. DOMAIN r = 1..Len(r) /\ Len(r) \in Nat
      <3> HIDE DEF r
      <3> QED
        BY ONLY <2>2
    <2>4. Head(s) = s[1] /\ \A i \in 1..(Len(s) - 1) : r[i] = s[i + 1]
      BY <1>1, <2>1
    <2> QED
      BY <2>2, <2>3, <2>4
  <1> HIDE DEF r
  <1>4. \A i \in DOMAIN r : /\ i + 1 \in DOMAIN s /\ r[i] = s[i + 1] /\ r[i] \in Window
                            /\ r[i].id # MiniId /\ r[i].buf \in e.live
    <2>1. ASSUME NEW i \in DOMAIN r
          PROVE  i + 1 \in DOMAIN s /\ i + 1 # 1 /\ r[i] = s[i + 1]
      <3>1. i \in 1..(Len(s) - 1)
        BY <1>3
      <3>2. i + 1 \in 1..Len(s) /\ i + 1 # 1
        BY ONLY <1>1, <3>1
      <3> QED
        BY <1>1, <1>3, <3>1, <3>2
    <2>2. \A i \in DOMAIN s : s[i].id = s[1].id => i = 1
      BY <1>1 DEF Ring
    <2> QED
      BY <1>1, <2>1, <2>2
  <1>5. Len(s) = Len(r) + 1 /\ Len(r) >= 1 /\ 1 \in DOMAIN r
    BY ONLY <1>1, <1>2, <1>3
  <1>6. Ring(r) /\ Tiling(r, e.height, e.top)
    <2>1. Tiling(s, e.height, e.top)
      BY DEF Sound, s
    <2> QED
      BY <1>1, <1>3, <1>4, <1>5, <2>1, LinkTiling
  <1>7. /\ f \in Editor /\ f.ring = r /\ f.spare = s[1] /\ f.cbuf = r[1].buf /\ f.reading = FALSE
        /\ f.height = e.height /\ f.top = e.top /\ f.live = e.live /\ f.listed = e.listed
        /\ f.start = None
    <2>1. r[1].buf \in Buffers /\ s[1] \in Window
      BY <1>1, <1>4, <1>5, EditorType
    <2> QED
      BY ONLY <1>1, <1>3, <2>1 DEF Editor
  <1>8. LeaveMinibuffer(e) = h
    BY DEF LeaveMinibuffer, r, s
  <1> HIDE DEF f
  <1>9. Sound(f)
    <2>1. ~HasMini(r) /\ MiniLast(r, e.height)
      BY <1>4 DEF HasMini, MiniLast
    <2>2. s[1].sy = e.height - 1 /\ s[1].rows = 1
      BY <1>1 DEF Sound, MiniLast, s
    <2>3. Shown(r) \subseteq e.live /\ r[1].buf \in e.live
      BY <1>4, <1>5 DEF Shown
    <2>4. {Scratch, Mini} \subseteq e.live
      BY DEF Sound
    <2> QED
      BY <1>1, <1>6, <1>7, <2>1, <2>2, <2>3, <2>4 DEF Sound
  <1>10. ASSUME MiniOwn(e) PROVE MiniOwn(f)
    <2>1. \A i \in DOMAIN s : s[i].id = MiniId <=> s[i].buf = Mini
      BY <1>10 DEF MiniOwn, Own, s
    <2>2. ASSUME NEW i \in DOMAIN r
          PROVE  r[i].id = MiniId <=> r[i].buf = Mini
      <3> i + 1 \in DOMAIN s /\ r[i] = s[i + 1]
        BY <1>4
      <3> QED
        BY <2>1
    <2>3. Own(r) /\ s[1].buf = Mini
      BY <1>1, <2>1, <2>2 DEF Own
    <2> QED
      BY <1>7, <1>10, <2>3 DEF MiniOwn
  <1>11. /\ Keeps(f, g) /\ g.live = f.live /\ g.listed = f.listed
         /\ g.start = f.start /\ g.reading = f.reading /\ NoneNew(f, g)
         /\ (e.target = r[1].id \/ Len(r) = 1 => g = f)
    <2>1. CASE e.target = None
      <3>1. g = f
        BY <2>1
      <3> HIDE DEF g
      <3> QED
        BY <1>9, <3>1 DEF Keeps, NoneNew
    <2>2. CASE e.target # None
      <3>1. g = SelectFirst(f, ks)
        BY <2>2
      <3>2. ks \subseteq DOMAIN f.ring /\ ks # {}
        <4>1. Len(r) \in DOMAIN r
          BY ONLY <1>3, <1>5
        <4> QED
          BY <1>7, <4>1 DEF IndexOfId
      <3>3. e.target = r[1].id \/ Len(r) = 1 => 1 \in ks
        <4>1. ASSUME e.target = r[1].id PROVE 1 \in ks
          BY <1>5, <1>7, <4>1 DEF IndexOfId
        <4>2. ASSUME Len(r) = 1 PROVE 1 \in ks
          <5>1. DOMAIN r = 1..1
            BY ONLY <1>3, <4>2
          <5> QED
            BY <1>7, <3>2, <5>1
        <4> QED
          BY <4>1, <4>2
      <3> HIDE DEF ks, g
      <3>4. /\ Keeps(f, g) /\ Rest(f, g) /\ (1 \in ks => g = f)
        BY <1>9, <3>1, <3>2, SelectFirstKeeps
      <3>5. NoneNew(f, g)
        BY <1>9, <3>1, <3>2, SelectFirstShows
      <3> QED
        BY <3>3, <3>4, <3>5 DEF Rest
    <2> QED
      BY <2>1, <2>2
  <1> HIDE DEF g
  <1>12. Sound(g)
    BY <1>11 DEF Keeps
  <1>13. /\ Keeps(g, h) /\ h.live = g.live /\ h.listed = g.listed
         /\ h.ring = g.ring /\ h.start = g.start /\ h.reading = g.reading
         /\ h.cbuf = IF e.start \in e.live THEN e.start ELSE g.cbuf
    <2>1. CASE e.start \in e.live
      <3>1. g \in Editor /\ e.start \in Buffers /\ h = [g EXCEPT !.cbuf = e.start]
        BY <1>1, <1>12, <2>1, EditorType DEF Sound
      <3> HIDE DEF h
      <3>2. /\ h \in Editor /\ h.ring = g.ring /\ h.height = g.height /\ h.top = g.top
            /\ h.spare = g.spare /\ h.live = g.live /\ h.reading = g.reading
            /\ h.cbuf = e.start /\ h.listed = g.listed /\ h.start = g.start
        BY ONLY <3>1 DEF Editor
      <3>3. h.cbuf \in g.live
        BY <1>7, <1>11, <2>1, <3>2
      <3>4. MiniOwn(g) => h.listed # Mini
        BY <3>2 DEF MiniOwn
      <3> QED
        BY <1>12, <2>1, <3>2, <3>3, <3>4, NotedKeeps DEF Keeps
    <2>2. CASE e.start \notin e.live
      <3>1. h = g
        BY <2>2
      <3> HIDE DEF h
      <3> QED
        BY <1>12, <2>2, <3>1 DEF Keeps
    <2> QED
      BY <2>1, <2>2
  <1> HIDE DEF h
  <1>14. Keeps(e, h)
    BY <1>9, <1>10, <1>11, <1>13 DEF Keeps
  <1>15. /\ h.live = e.live /\ h.listed = e.listed /\ h.start = None /\ h.reading = FALSE
         /\ (e.start \in e.live => h.cbuf = e.start)
    BY <1>7, <1>11, <1>13
  <1>16. Shown(r) \subseteq Shown(s)
    BY <1>4, Zenon DEF Shown
  <1>17. r[1].buf \in Shown(r)
    BY <1>5 DEF Shown
  <1>18. Shown(h.ring) \subseteq Shown(s) /\ h.cbuf \in Shown(s) \cup {e.start}
    BY <1>7, <1>11, <1>13, <1>16, <1>17 DEF NoneNew
  <1>19. ASSUME e.target = s[2].id \/ Len(s) = 2
         PROVE  Len(h.ring) = Len(s) - 1 /\ \A i \in DOMAIN h.ring : h.ring[i] = s[i + 1]
    <2>1. r[1] = s[2]
      BY <1>4, <1>5
    <2>2. e.target = r[1].id \/ Len(r) = 1
      BY <1>1, <1>3, <1>5, <1>19, <2>1
    <2>3. h.ring = r
      BY <1>7, <1>11, <1>13, <2>2
    <2> QED
      BY <1>3, <1>4, <2>3
  <1> QED
    BY <1>8, <1>14, <1>15, <1>18, <1>19 DEF s

(* switch_to_buffer_cmd.                                                   *)
LEMMA SwitchKeeps ==
  ASSUME NEW e, Sound(e), NEW b, b \in Buffers
  PROVE  LET f == SwitchToBufferCmd(e, b)
         IN /\ Sound(f) /\ f.live = e.live \cup {b} /\ f.listed = e.listed
            /\ f.reading = e.reading /\ f.height = e.height /\ f.wins = e.wins
            /\ f.top = e.top /\ f.start = e.start /\ f.target = e.target /\ f.cbuf = b /\ f.ring[1].buf = b
            /\ f.ring[1].sy = e.ring[1].sy /\ f.ring[1].rows = e.ring[1].rows
            /\ f.ring[1].id = e.ring[1].id /\ Len(f.ring) = Len(e.ring)
            /\ \A i \in DOMAIN e.ring : i # 1 => f.ring[i] = e.ring[i]
            /\ (MiniOwn(e) /\ (e.ring[1].buf = b \/ (b # Mini /\ ~InMiniWindow(e)))) => MiniOwn(f)
  <1> DEFINE g == SetBuffer(e, b)
             f == WindowBuffer(g, b)
  <1>1. /\ Keeps(e, g) /\ g.ring = e.ring /\ g.height = e.height /\ g.live = e.live \cup {b}
        /\ g.reading = e.reading /\ g.listed = e.listed /\ g.wins = e.wins
        /\ g.top = e.top /\ g.start = e.start /\ g.target = e.target /\ g.cbuf = b
    BY SetBufferKeeps
  <1> HIDE DEF g
  <1>2. Sound(g) /\ b \in g.live /\ 1 \in DOMAIN g.ring
    BY <1>1, SoundRing DEF Keeps
  <1>3. /\ Sound(f) /\ f.live = g.live /\ f.reading = g.reading /\ f.height = g.height
        /\ f.listed = g.listed /\ f.wins = g.wins
        /\ f.top = g.top /\ f.start = g.start /\ f.target = g.target /\ f.cbuf = g.cbuf /\ f.ring[1].buf = b
        /\ Len(f.ring) = Len(g.ring) /\ f.ring[1].sy = g.ring[1].sy /\ f.ring[1].rows = g.ring[1].rows
        /\ \A i \in DOMAIN g.ring : i # 1 => f.ring[i] = g.ring[i]
        /\ \A i \in DOMAIN g.ring : f.ring[i].id = g.ring[i].id
        /\ (MiniOwn(g) /\ b # Mini /\ ~InMiniWindow(g)) => MiniOwn(f)
        /\ (g.ring[1].buf = b => f = g)
    BY <1>2, WindowBufferKeeps
  <1>4. SwitchToBufferCmd(e, b) = f
    BY DEF SwitchToBufferCmd, g
  <1> HIDE DEF f
  <1>5. InMiniWindow(g) <=> InMiniWindow(e)
    BY <1>1 DEF InMiniWindow, JWindow
  <1>6. (MiniOwn(e) /\ (e.ring[1].buf = b \/ (b # Mini /\ ~InMiniWindow(e)))) => MiniOwn(f)
    BY <1>1, <1>3, <1>5 DEF Keeps
  <1>7. f.ring[1].id = e.ring[1].id
    BY <1>1, <1>2, <1>3
  <1> QED
    BY <1>1, <1>3, <1>4, <1>6, <1>7

(* In the minibuffer's window something is being read.                     *)
LEMMA InMiniReads ==
  ASSUME NEW e, Sound(e), InMiniWindow(e) PROVE e.reading = TRUE
  <1>1. HasMini(e.ring)
    BY SoundRing DEF InMiniWindow, JWindow, HasMini
  <1>2. e.reading \in BOOLEAN
    BY EditorType DEF Sound
  <1> QED
    BY <1>1, <1>2 DEF Sound

(* exit_minibuffer ends in the minibuffer's window, the completions gone.  *)
LEMMA ExitKeeps ==
  ASSUME NEW e, Sound(e), InMiniWindow(e), e.listed # None => CanSplit(e),
         NEW row \in FoundRows(e), NEW order, order \in Orders
  PROVE  LET f == ExitMinibuffer(e, row, order)
         IN /\ Keeps(e, f) /\ InMiniWindow(f) /\ f.listed = None
            /\ e.listed = None => f = e
            /\ e.listed # None => Completions \notin f.live
  <1>1. CASE e.listed = None
    <2>1. ExitMinibuffer(e, row, order) = e
      BY <1>1 DEF ExitMinibuffer
    <2> QED
      BY <1>1, <2>1 DEF Keeps
  <1>2. CASE e.listed # None
    <2> DEFINE b == e.listed
               p == PopToBuffer(e, Completions, row)
               q == p.ed
               f == SwitchToBufferCmd(q, b)
               g == KillBufferCmd(f, Completions, order)
               h == IF e.wins = 1 THEN OneWindow(g) ELSE g
               x == SelectMinibuffer(h)
               y == [x EXCEPT !.listed = None, !.wins = 0]
    <2>1. ExitMinibuffer(e, row, order) = y
      BY <1>2 DEF ExitMinibuffer
    <2>2. row \in Nat /\ row < e.height /\ Room(e.ring)
      BY <1>2, FoundRowFits, CanSplitRoom
    <2>3. Completions \in Buffers /\ Completions \notin {Mini, Scratch}
      BY BuffersDiffer DEF Buffers
    <2>4. b \in Buffers /\ e.reading = TRUE /\ (MiniOwn(e) => b # Mini)
      BY <1>2, InMiniReads, EditorType DEF Sound, MiniOwn
    <2> HIDE DEF b
    <2>5. Keeps(e, q) /\ (MiniOwn(e) => ~InMiniWindow(q)) /\ q.reading = e.reading
      <3>1. /\ Keeps(e, p.ed)
            /\ MiniOwn(e) => ~InMiniWindow(p.ed) /\ p.name # Mini
            /\ p.ed.reading = e.reading
        <4> HIDE DEF p
        <4> QED
          BY <2>2, <2>3, PopKeeps DEF p
      <3>2. q = p.ed
        OBVIOUS
      <3> HIDE DEF p, q
      <3> QED
        BY <3>1, <3>2
    <2> HIDE DEF q
    <2>6. Sound(q)
      BY <2>5 DEF Keeps
    <2>7. Sound(f) /\ f.reading = q.reading /\ (MiniOwn(q) /\ b # Mini /\ ~InMiniWindow(q) => MiniOwn(f))
      BY <2>4, <2>6, SwitchKeeps
    <2>8. Keeps(e, f)
      BY <2>4, <2>5, <2>7 DEF Keeps
    <2> HIDE DEF f
    <2>9. Keeps(f, g) /\ g.reading = f.reading /\ g.live = f.live \ {Completions}
      <3>1. Sound(f)
        BY <2>7
      <3> HIDE DEF g
      <3>2. Keeps(f, g)
        BY <2>3, <3>1, KillKeeps DEF g
      <3>3. g.reading = f.reading /\ g.live = f.live \ {Completions}
        BY <2>3, <3>1, KillKeeps DEF g
      <3> QED
        BY <3>2, <3>3
    <2> HIDE DEF g
    <2>10. Keeps(e, g) /\ g.reading = TRUE /\ Sound(g)
      BY <2>4, <2>5, <2>7, <2>8, <2>9 DEF Keeps
    <2>11. Keeps(g, h) /\ h.reading = g.reading /\ h.live = g.live
      <3>1. CASE e.wins = 1 /\ ~InMiniWindow(g)
        <4>1. h = OneWindow(g)
          BY <3>1
        <4> HIDE DEF h
        <4>2. Keeps(g, h) /\ Rest(g, h)
          BY <2>10, <3>1, <4>1, OneWindowKeeps
        <4> QED
          BY <4>2 DEF Rest
      <3>2. CASE ~(e.wins = 1 /\ ~InMiniWindow(g))
        <4>1. h = g
          BY <3>2 DEF OneWindow
        <4> HIDE DEF h
        <4> QED
          BY <2>10, <4>1 DEF Keeps
      <3> QED
        BY <3>1, <3>2
    <2> HIDE DEF h
    <2>12. Sound(h) /\ h.reading
      BY <2>10, <2>11 DEF Keeps
    <2>13. Keeps(h, x) /\ InMiniWindow(x) /\ x.live = h.live
      BY <2>12, SelectMinibufferKeeps DEF Rest
    <2> HIDE DEF x
    <2>14. Sound(x)
      BY <2>13 DEF Keeps
    <2>15. x \in Editor /\ x.cbuf \in x.live
      BY <2>14 DEF Sound
    <2>16. /\ y \in Editor /\ y.ring = x.ring /\ y.height = x.height /\ y.top = x.top
           /\ y.spare = x.spare /\ y.live = x.live /\ y.reading = x.reading /\ y.cbuf = x.cbuf
           /\ y.listed = None
      BY ONLY <2>15 DEF Editor
    <2> HIDE DEF y
    <2>17. Keeps(x, y) /\ InMiniWindow(y)
      <3>1. None # Mini
        BY BuffersDiffer
      <3>2. Sound(y) /\ (MiniOwn(x) => MiniOwn(y))
        BY <2>14, <2>15, <2>16, <3>1, NotedKeeps
      <3> QED
        BY <2>13, <2>16, <3>2 DEF Keeps, InMiniWindow, JWindow
    <2>18. Keeps(e, y)
      BY <2>10, <2>11, <2>13, <2>17 DEF Keeps
    <2>19. Completions \notin y.live
      BY <2>9, <2>11, <2>13, <2>16
    <2> QED
      BY <1>2, <2>1, <2>16, <2>17, <2>18, <2>19
  <1> QED
    BY <1>1, <1>2

(* mini_complete.                                                          *)
LEMMA CompleteKeeps ==
  ASSUME NEW e, Sound(e), InMiniWindow(e), CanSplit(e), NEW row \in FoundRows(e),
         NEW several, several \in BOOLEAN
  PROVE  LET f == MiniComplete(e, several, row)
         IN /\ Keeps(e, f)
            /\ e.listed \in e.live \cup {None} => f.listed \in f.live \cup {None}
  <1> DEFINE f == SetBuffer(e, Completions)
             p == PopToBuffer(f, Completions, row)
             q == p.ed
             n == NumWindows(f) - 1
             g == IF several /\ e.listed = None
                  THEN [q EXCEPT !.listed = p.name, !.wins = n] ELSE f
             h == Select(g, Min(IndexOfId(g, MiniId)))
  <1>1. MiniComplete(e, several, row) = h
    BY DEF MiniComplete
  <1>2. row \in Nat /\ row < e.height /\ Room(e.ring) /\ e.reading = TRUE
    BY FoundRowFits, CanSplitRoom, InMiniReads
  <1>3. Completions \in Buffers /\ Completions # Mini
    BY BuffersDiffer DEF Buffers
  <1>4. /\ Keeps(e, f) /\ f.ring = e.ring /\ f.height = e.height
        /\ f.live = e.live \cup {Completions} /\ f.reading = e.reading /\ f.listed = e.listed
    BY <1>3, SetBufferKeeps
  <1> HIDE DEF f
  <1>5. Sound(f) /\ row < f.height /\ Room(f.ring)
    BY <1>2, <1>4 DEF Keeps
  <1>6. n \in Nat
    <2>1. Len(f.ring) \in Nat /\ DOMAIN f.ring = 1..Len(f.ring) /\ 1 \in DOMAIN f.ring
      BY <1>5, SoundRing
    <2> QED
      BY ONLY <2>1 DEF NumWindows
  <1>7. /\ Keeps(f, q) /\ (MiniOwn(f) => p.name # Mini)
        /\ p.name \in q.live /\ q.reading = f.reading
    <2>1. /\ Keeps(f, p.ed)
          /\ MiniOwn(f) => ~InMiniWindow(p.ed) /\ p.name # Mini
          /\ p.name \in p.ed.live /\ p.ed.reading = f.reading
      <3> HIDE DEF p
      <3> QED
        BY <1>2, <1>3, <1>5, PopKeeps DEF p
    <2>2. q = p.ed
      OBVIOUS
    <2> HIDE DEF p, q
    <2> QED
      BY <2>1, <2>2
  <1> HIDE DEF p, q, n
  <1>8. /\ Keeps(e, g) /\ g.reading = TRUE
        /\ e.listed \in e.live \cup {None} => g.listed \in g.live \cup {None}
    <2>1. CASE several /\ e.listed = None
      <3> DEFINE y == [q EXCEPT !.listed = p.name, !.wins = n]
      <3>1. g = y
        BY <2>1
      <3>2. Sound(q)
        BY <1>7 DEF Keeps
      <3>3. q \in Editor /\ q.cbuf \in q.live /\ p.name \in Buffers
        BY <1>7, <3>2, EditorType DEF Sound
      <3>4. /\ y \in Editor /\ y.ring = q.ring /\ y.height = q.height /\ y.top = q.top
            /\ y.spare = q.spare /\ y.live = q.live /\ y.reading = q.reading /\ y.cbuf = q.cbuf
            /\ y.listed = p.name
        BY ONLY <1>6, <3>3 DEF Editor
      <3> HIDE DEF y, g
      <3>5. Sound(y) /\ (MiniOwn(q) /\ y.listed # Mini => MiniOwn(y))
        BY <3>2, <3>3, <3>4, NotedKeeps
      <3>6. Keeps(e, y)
        BY <1>4, <1>7, <3>4, <3>5 DEF Keeps
      <3> QED
        BY <1>2, <1>4, <1>7, <3>1, <3>4, <3>6
    <2>2. CASE ~(several /\ e.listed = None)
      <3>1. g = f
        BY <2>2
      <3> HIDE DEF g
      <3> QED
        BY <1>2, <1>4, <3>1
    <2> QED
      BY <2>1, <2>2
  <1> HIDE DEF g
  <1>9. Sound(g)
    BY <1>8 DEF Keeps
  <1>10. Min(IndexOfId(g, MiniId)) \in DOMAIN g.ring
    <2> DEFINE M == IndexOfId(g, MiniId)
    <2>1. HasMini(g.ring)
      BY <1>8, <1>9 DEF Sound
    <2>2. Len(g.ring) \in Nat /\ DOMAIN g.ring = 1..Len(g.ring)
      BY <1>9, SoundRing
    <2>3. M # {} /\ M \subseteq DOMAIN g.ring /\ M \subseteq Nat
      BY <2>1, <2>2 DEF HasMini, IndexOfId
    <2> QED
      BY <2>3, NatMin
  <1>11. Keeps(g, h) /\ Rest(g, h)
    BY <1>9, <1>10, SelectKeeps
  <1> HIDE DEF h
  <1>12. Keeps(e, h)
    BY <1>8, <1>11 DEF Keeps
  <1>13. e.listed \in e.live \cup {None} => h.listed \in h.live \cup {None}
    BY <1>8, <1>11 DEF Rest
  <1> QED
    BY <1>1, <1>12, <1>13

-----------------------------------------------------------------------------
(* Each step keeps what is sound.                                          *)

Listed(e) == e.listed \in e.live \cup {None}

(* other_window.                                                           *)
LEMMA OtherKeeps ==
  ASSUME NEW e, Sound(e)
  PROVE  Keeps(e, OtherWindow(e)) /\ Rest(e, OtherWindow(e))
  <1> DEFINE k == IF NumWindows(e) = 1 THEN 1 ELSE 2
  <1>1. Len(e.ring) \in Nat /\ DOMAIN e.ring = 1..Len(e.ring) /\ 1 \in DOMAIN e.ring
    BY SoundRing
  <1>2. k \in DOMAIN e.ring
    <2> DEFINE n == Len(e.ring)
    <2>1. n \in Nat /\ 1 \in 1..n
      BY <1>1
    <2> HIDE DEF n
    <2>2. (IF n = 1 THEN 1 ELSE 2) \in 1..n
      BY <2>1
    <2> QED
      BY <1>1, <2>2 DEF NumWindows, n
  <1>3. OtherWindow(e) = Select(e, k)
    BY DEF OtherWindow
  <1> HIDE DEF k
  <1> QED
    BY <1>2, <1>3, SelectKeeps

(* split_window, in the minibuffer's window too, which is too small.       *)
LEMMA SplitStep ==
  ASSUME NEW e, Sound(e), CanSplit(e), NEW row \in FoundRows(e)
  PROVE  Keeps(e, SplitWindow(e, row)) /\ Rest(e, SplitWindow(e, row))
  <1>1. CASE ~InMiniWindow(e)
    <2>1. row \in Nat /\ row < e.height /\ Room(e.ring)
      BY FoundRowFits, CanSplitRoom
    <2> QED
      BY <1>1, <2>1, SplitKeeps
  <1>2. CASE InMiniWindow(e)
    <2>1. JWindow(e).rows = 1
      BY <1>2, SoundRing DEF Sound, MiniLast, InMiniWindow, JWindow
    <2>2. SplitWindow(e, row) = e
      BY <2>1 DEF SplitWindow
    <2> QED
      BY <2>2 DEF Keeps, Rest, Sound
  <1> QED
    BY <1>1, <1>2

(* one_window, in the minibuffer's window too.                             *)
LEMMA OneStep ==
  ASSUME NEW e, Sound(e)
  PROVE  Keeps(e, OneWindow(e)) /\ Rest(e, OneWindow(e))
  <1>1. CASE ~InMiniWindow(e)
    BY <1>1, OneWindowKeeps
  <1>2. CASE InMiniWindow(e)
    <2>1. OneWindow(e) = e
      BY <1>2 DEF OneWindow
    <2> QED
      BY <2>1 DEF Keeps, Rest, Sound
  <1> QED
    BY <1>1, <1>2

(* do_jed selects the buffer of JWindow again: it is there.                *)
LEMMA EndOfKeyStep ==
  ASSUME NEW e, Sound(e)
  PROVE  LET f == SwitchToBufferCmd(e, IF JWindow(e).buf \in e.live THEN JWindow(e).buf ELSE Scratch)
         IN Keeps(e, f) /\ f.live = e.live /\ f.listed = e.listed
  <1> DEFINE b == JWindow(e).buf
             f == SwitchToBufferCmd(e, b)
  <1>1. b \in Buffers /\ b \in e.live /\ b = e.ring[1].buf
    BY SoundRing DEF JWindow
  <1> HIDE DEF b
  <1>2. Sound(f) /\ f.live = e.live \cup {b} /\ f.listed = e.listed /\ (MiniOwn(e) => MiniOwn(f))
    BY <1>1, SwitchKeeps
  <1>3. SwitchToBufferCmd(e, IF JWindow(e).buf \in e.live THEN JWindow(e).buf ELSE Scratch) = f
    BY <1>1 DEF b
  <1> HIDE DEF f
  <1> QED
    BY <1>1, <1>2, <1>3 DEF Keeps

(* What every step keeps, as long as enlarge_window never moves the        *)
(* minibuffer's window.                                                    *)
LEMMA StepKeeps ==
  ASSUME "across" \notin Lapses, Sound(ed), [Next]_vars
  PROVE  /\ Sound(ed')
         /\ ("listed" \notin Lapses /\ Listed(ed)) => Listed(ed')
         /\ ("mini" \notin Lapses /\ MiniOwn(ed)) => MiniOwn(ed')
  <1> DEFINE Goes == /\ Sound(ed')
                     /\ ("listed" \notin Lapses /\ Listed(ed)) => Listed(ed')
                     /\ ("mini" \notin Lapses /\ MiniOwn(ed)) => MiniOwn(ed')
  <1>1. ASSUME NEW f, Keeps(ed, f), f.live = ed.live, f.listed = ed.listed, ed' = f
        PROVE  Goes
    BY <1>1 DEF Keeps, Listed
  <1>2. ASSUME NEW f, Keeps(ed, f), Rest(ed, f), ed' = f
        PROVE  Goes
    BY <1>2 DEF Keeps, Listed, Rest
  <1> SUFFICES Goes
    OBVIOUS
  <1> HIDE DEF Goes
  <1>3. CASE Split
    <2>1. PICK row \in FoundRows(ed) : CanSplit(ed) /\ ed' = SplitWindow(ed, row)
      BY <1>3 DEF Split, Becomes
    <2> QED
      BY <1>2, <2>1, SplitStep
  <1>4. CASE Other
    BY <1>2, <1>4, OtherKeeps DEF Other, Becomes
  <1>5. CASE One
    BY <1>2, <1>5, OneStep DEF One, Becomes
  <1>6. CASE Enlarge
    <2>1. ~Across(ed) /\ ed' = EnlargeWindow(ed)
      BY <1>6 DEF Enlarge, Becomes
    <2>2. Keeps(ed, EnlargeWindow(ed)) /\ Rest(ed, EnlargeWindow(ed))
      BY <2>1, EnlargeKeeps
    <2> QED
      BY <1>2, <2>1, <2>2
  <1>7. CASE Delete
    <2>1. Keeps(ed, DeleteWindow(ed)) /\ Rest(ed, DeleteWindow(ed))
      BY DeleteKeeps
    <2> QED
      BY <1>2, <1>7, <2>1 DEF Delete, Becomes
  <1>8. ASSUME NEW h \in Heights, Resize(h) PROVE Goes
    <2> DEFINE f == Resized(ed, h)
    <2>1. Keeps(ed, f) /\ f.live = ed.live /\ f.listed = ed.listed
      BY ResizedKeeps
    <2>2. ed' = f
      BY <1>8 DEF Resize, Becomes
    <2> HIDE DEF f
    <2> QED
      BY <1>1, <2>1, <2>2
  <1>9. ASSUME NEW on \in BOOLEAN, MenuBar(on) PROVE Goes
    <2> DEFINE f == EnableMenuBar(ed, on)
    <2>1. Keeps(ed, f) /\ f.live = ed.live /\ f.listed = ed.listed
      BY MenuBarKeeps
    <2>2. ed' = f
      BY <1>9 DEF MenuBar, Becomes
    <2> HIDE DEF f
    <2> QED
      BY <1>1, <2>1, <2>2
  <1>10. ASSUME NEW b \in Files, Setbuf(b) PROVE Goes
    <2> DEFINE f == SetBuffer(ed, b)
    <2>1. b \in Buffers
      BY DEF Buffers
    <2>2. Keeps(ed, f) /\ f.live = ed.live \cup {b} /\ f.listed = ed.listed
      BY <2>1, SetBufferKeeps
    <2>3. ed' = f
      BY <1>10 DEF Setbuf, Becomes
    <2> HIDE DEF f
    <2> QED
      BY <2>2, <2>3 DEF Goes, Keeps, Listed
  <1>11. ASSUME NEW b \in Files \cup {Scratch}, Sw2buf(b) PROVE Goes
    <2> DEFINE f == SwitchToBufferCmd(ed, b)
    <2>1. b \in Buffers /\ b # Mini
      BY BuffersDiffer DEF Buffers
    <2>2. /\ Sound(f) /\ f.live = ed.live \cup {b} /\ f.listed = ed.listed
          /\ (MiniOwn(ed) /\ ~InMiniWindow(ed)) => MiniOwn(f)
      BY <2>1, SwitchKeeps
    <2>3. ed' = f /\ (InMiniWindow(ed) => "mini" \in Lapses)
      BY <1>11 DEF Sw2buf, Becomes
    <2> HIDE DEF f
    <2> QED
      BY <2>2, <2>3 DEF Goes, Listed
  <1>12. ASSUME NEW b \in Files \cup {Scratch}, Pop2buf(b) PROVE Goes
    <2>1. PICK row \in FoundRows(ed) : CanSplit(ed) /\ ed' = PopToBuffer(ed, b, row).ed
      BY <1>12 DEF Pop2buf, Becomes
    <2>2. b \in Buffers /\ b # Mini
      BY BuffersDiffer DEF Buffers
    <2>3. row \in Nat /\ row < ed.height /\ Room(ed.ring)
      BY <2>1, FoundRowFits, CanSplitRoom
    <2> DEFINE p == PopToBuffer(ed, b, row)
               f == p.ed
    <2>4. Keeps(ed, p.ed) /\ p.ed.live = ed.live \cup {b} /\ p.ed.listed = ed.listed
      <3> HIDE DEF p
      <3> QED
        BY <2>2, <2>3, PopKeeps DEF p
    <2>5. f = p.ed
      OBVIOUS
    <2>6. ed' = f
      BY <2>1
    <2> HIDE DEF p, f
    <2> QED
      BY <2>4, <2>5, <2>6 DEF Goes, Keeps, Listed
  <1>13. ASSUME NEW b \in Files \cup {Completions}, Delbuf(b) PROVE Goes
    <2>1. PICK order \in Orders : /\ "listed" \in Lapses \/ b # ed.listed
                                  /\ ed' = KillBufferCmd(ed, b, order)
      BY <1>13 DEF Delbuf, Becomes
    <2> DEFINE f == KillBufferCmd(ed, b, order)
    <2>2. b \notin {Mini, Scratch}
      BY BuffersDiffer
    <2>3. Keeps(ed, f) /\ f.live = ed.live \ {b} /\ f.listed = ed.listed
      BY <2>2, KillKeeps
    <2> HIDE DEF f
    <2>4. ed' = f
      BY <2>1 DEF f
    <2> QED
      BY <2>1, <2>3, <2>4 DEF Goes, Keeps, Listed
  <1>14. CASE Read
    <2> DEFINE f == ReadFromMinibuffer(ed)
    <2>1. Keeps(ed, f) /\ f.live = ed.live /\ f.listed = ed.listed
      BY ReadKeeps
    <2>2. ed' = f
      BY <1>14 DEF Read
    <2> HIDE DEF f
    <2> QED
      BY <1>1, <2>1, <2>2
  <1>15. ASSUME NEW several \in BOOLEAN, Complete(several) PROVE Goes
    <2>1. PICK row \in FoundRows(ed) : /\ InMiniWindow(ed) /\ CanSplit(ed)
                                       /\ ed' = MiniComplete(ed, several, row)
      BY <1>15 DEF Complete
    <2> DEFINE f == MiniComplete(ed, several, row)
    <2>2. /\ Keeps(ed, f)
          /\ ed.listed \in ed.live \cup {None} => f.listed \in f.live \cup {None}
      BY <2>1, CompleteKeeps
    <2>3. ed' = f
      BY <2>1
    <2> HIDE DEF f
    <2> QED
      BY <2>2, <2>3 DEF Goes, Keeps, Listed
  <1>16. CASE Exit
    <2>1. PICK row \in FoundRows(ed), order \in Orders :
             /\ InMiniWindow(ed) /\ (ed.listed # None => CanSplit(ed))
             /\ ed' = LeaveMinibuffer(ExitMinibuffer(ed, row, order))
      BY <1>16 DEF Exit
    <2> DEFINE g == ExitMinibuffer(ed, row, order)
               f == LeaveMinibuffer(g)
    <2>2. Keeps(ed, g) /\ InMiniWindow(g) /\ g.listed = None
      BY <2>1, ExitKeeps
    <2> HIDE DEF g
    <2>3. Keeps(g, f) /\ f.listed = g.listed
      BY <2>2, LeaveKeeps DEF Keeps
    <2> HIDE DEF f
    <2>4. ed' = f
      BY <2>1 DEF f, g
    <2> QED
      BY <2>2, <2>3, <2>4 DEF Goes, Keeps, Listed
  <1>17. CASE EndOfKey
    <2> DEFINE f == SwitchToBufferCmd(ed, IF JWindow(ed).buf \in ed.live THEN JWindow(ed).buf
                                          ELSE Scratch)
    <2>1. Keeps(ed, f) /\ f.live = ed.live /\ f.listed = ed.listed
      BY EndOfKeyStep
    <2>2. ed' = f
      BY <1>17 DEF EndOfKey, Becomes
    <2> HIDE DEF f
    <2> QED
      BY <1>1, <2>1, <2>2
  <1>18. CASE UNCHANGED vars
    <2>1. ed' = ed
      BY <1>18 DEF vars
    <2> QED
      BY <2>1 DEF Goes, Listed
  <1> QED
    BY <1>3, <1>4, <1>5, <1>6, <1>7, <1>8, <1>9, <1>10, <1>11, <1>12, <1>13, <1>14, <1>15,
       <1>16, <1>17, <1>18 DEF Next

(* The screen at the start.                                                *)
LEMMA InitSound ==
  ASSUME Init
  PROVE  Sound(ed) /\ Listed(ed) /\ MiniOwn(ed)
  <1>1. PICK h \in Heights :
          LET w == [id |-> 1, sy |-> 1, rows |-> h - 3, buf |-> Scratch]
              m == [id |-> MiniId, sy |-> h - 1, rows |-> 1, buf |-> Mini]
          IN ed = [ring |-> <<w>>, spare |-> m, height |-> h, top |-> 1,
                   live |-> {Scratch, Mini}, cbuf |-> Scratch,
                   reading |-> FALSE, action |-> None, target |-> None, start |-> None,
                   listed |-> None, wins |-> 0]
    BY DEF Init
  <1> DEFINE w == [id |-> 1, sy |-> 1, rows |-> h - 3, buf |-> Scratch]
             m == [id |-> MiniId, sy |-> h - 1, rows |-> 1, buf |-> Mini]
             r == <<w>>
  <1>2. h \in Nat /\ h >= 5 /\ h - 3 \in Nat /\ h - 1 \in Nat
    BY WindowsAssumption
  <1>3. Scratch \in Buffers /\ Mini \in Buffers /\ Scratch # Mini /\ None # Mini
    BY BuffersDiffer DEF Buffers
  <1>4. 1 \in Ids /\ 1 # MiniId
    BY WindowsAssumption DEF Ids, MiniId
  <1>5. /\ w \in Window /\ w.id = 1 /\ w.sy = 1 /\ w.rows = h - 3 /\ w.buf = Scratch
    BY ONLY <1>2, <1>3, <1>4 DEF Window
  <1>6. /\ m \in Window /\ m.id = MiniId /\ m.sy = h - 1 /\ m.rows = 1 /\ m.buf = Mini
    BY ONLY <1>2, <1>3 DEF Window
  <1>7. ed = [ring |-> r, spare |-> m, height |-> h, top |-> 1,
              live |-> {Scratch, Mini}, cbuf |-> Scratch,
              reading |-> FALSE, action |-> None, target |-> None, start |-> None,
              listed |-> None, wins |-> 0]
    BY <1>1
  <1> HIDE DEF w, m
  <1>8. r \in Seq(Window) /\ Len(r) = 1 /\ DOMAIN r = {1} /\ r[1] = w
    BY <1>5
  <1> HIDE DEF r
  <1>9. /\ ed \in Editor /\ ed.ring = r /\ ed.spare = m /\ ed.height = h /\ ed.top = 1
        /\ ed.live = {Scratch, Mini} /\ ed.cbuf = Scratch /\ ed.reading = FALSE
        /\ ed.listed = None
    BY ONLY <1>3, <1>6, <1>7, <1>8, h \in Heights DEF Editor
  <1>10. Ring(r) /\ Tiling(r, h, 1)
    <2>1. Plains(r) = {1}
      BY <1>4, <1>5, <1>8 DEF Plains
    <2>2. Below(r, 1) = 1
      BY <1>8, <2>1 DEF Below, Succ
    <2>3. AtBottom(w, h) /\ w.rows >= 2
      <3>1. 1 + (h - 3) + 2 = h /\ h - 3 >= 2
        BY ONLY <1>2
      <3> QED
        BY <1>5, <3>1 DEF AtBottom
    <2>4. Ring(r)
      BY <1>8 DEF Ring
    <2> QED
      BY <1>5, <1>8, <2>1, <2>2, <2>3, <2>4 DEF Tiling
  <1>11. ~HasMini(r) /\ MiniLast(r, h) /\ Shown(r) = {Scratch} /\ Own(r)
    BY <1>3, <1>4, <1>5, <1>8 DEF HasMini, MiniLast, Shown, Own
  <1>12. Sound(ed)
    BY <1>6, <1>9, <1>10, <1>11 DEF Sound
  <1> QED
    BY <1>3, <1>6, <1>9, <1>11, <1>12 DEF Listed, MiniOwn

(* What is sound is what the run checks.                                   *)
LEMMA SoundScreen ==
  ASSUME Sound(ed), Listed(ed) PROVE ScreenSound
  <1>1. ed \in Editor /\ Tiled(ed)
    BY TiledIsTiling DEF Sound
  <1>2. BuffersLive(ed)
    BY SoundRing DEF BuffersLive, Sound, Listed
  <1> QED
    BY <1>1, <1>2 DEF ScreenSound, TypeOK

(* The minibuffer is in its place.                                         *)
LEMMA OwnInPlace ==
  ASSUME Sound(ed), MiniOwn(ed) PROVE MiniInPlace
  <1> DEFINE K == IndexOfId(ed, MiniId)
             m == IF ed.reading THEN {ed.ring[k] : k \in K} ELSE {ed.spare}
  <1>1. CASE ed.reading
    <2>1. PICK k \in DOMAIN ed.ring : ed.ring[k].id = MiniId
      BY <1>1 DEF Sound, HasMini
    <2>2. K = {k}
      BY <2>1 DEF IndexOfId, Sound, Ring
    <2>3. Cardinality(K) = 1
      BY <2>2, FS_Singleton
    <2>4. m = {ed.ring[k]}
      BY <1>1, <2>2
    <2>5. ed.ring[k].sy = ed.height - 1 /\ ed.ring[k].rows = 1 /\ ed.ring[k].buf = Mini
      BY <2>1 DEF Sound, MiniLast, MiniOwn, Own
    <2>6. \A w \in m : w.sy = ed.height - 1 /\ w.rows = 1 /\ w.buf = Mini
      BY <2>4, <2>5
    <2> QED
      BY <1>1, <2>3, <2>6 DEF MiniInPlace
  <1>2. CASE ~ed.reading
    <2>1. K = {}
      BY <1>2 DEF IndexOfId, Sound, HasMini
    <2>2. Cardinality(K) = 0
      BY <2>1, FS_EmptySet
    <2>3. \A w \in m : w.sy = ed.height - 1 /\ w.rows = 1 /\ w.buf = Mini
      BY <1>2 DEF Sound, MiniOwn
    <2> QED
      BY <1>2, <2>2, <2>3 DEF MiniInPlace
  <1> QED
    BY <1>1, <1>2

-----------------------------------------------------------------------------
(* Where the completions are.                                              *)

(* Only while something is read are they listed, and only then does a      *)
(* window show them; the reading did not begin in their buffer.            *)
Tidy(e) ==
  /\ e.start # Completions /\ e.listed # Completions
  /\ ~e.reading => e.listed = None
  /\ e.listed = None => Completions \notin Shown(e.ring) \cup {e.cbuf}

(* A command that shows nothing new.                                       *)
LEMMA TidyKept ==
  ASSUME NEW e, NEW f, Tidy(e), NoneNew(e, f), f.start = e.start, f.listed = e.listed,
         f.reading = e.reading
  PROVE  Tidy(f)
  BY DEF Tidy, NoneNew

(* Another buffer in the window or in use.                                 *)
LEMMA TidyOther ==
  ASSUME NEW e, NEW f, Tidy(e), Sound(f), f.start = e.start, f.listed = e.listed,
         f.reading = e.reading, NEW b, b # Completions, f.cbuf \in {b, e.cbuf},
         \A i \in DOMAIN f.ring : f.ring[i].buf \in Shown(e.ring) \cup {b}
  PROVE  Tidy(f)
  <1>1. Shown(f.ring) \subseteq Shown(e.ring) \cup {b}
    BY DEF Shown
  <1> QED
    BY <1>1 DEF Tidy

(* setbuf, sw2buf and pop2buf.                                             *)
LEMMA SetBufferTidy ==
  ASSUME NEW e, Sound(e), Tidy(e), NEW b, b \in Buffers, b # Completions
  PROVE  Tidy(SetBuffer(e, b))
  <1> DEFINE f == SetBuffer(e, b)
  <1>1. /\ f.ring = e.ring /\ f.cbuf = b /\ f.reading = e.reading
        /\ f.start = e.start /\ f.listed = e.listed
    BY SetBufferKeeps
  <1> HIDE DEF f
  <1>2. Tidy(f)
    BY <1>1 DEF Tidy
  <1> QED
    BY <1>2 DEF f

LEMMA SwitchTidy ==
  ASSUME NEW e, Sound(e), Tidy(e), NEW b, b \in Buffers, b # Completions
  PROVE  Tidy(SwitchToBufferCmd(e, b))
  <1> DEFINE f == SwitchToBufferCmd(e, b)
  <1>1. /\ Sound(f) /\ f.listed = e.listed /\ f.reading = e.reading /\ f.start = e.start
        /\ f.cbuf = b /\ f.ring[1].buf = b /\ Len(f.ring) = Len(e.ring)
        /\ \A i \in DOMAIN e.ring : i # 1 => f.ring[i] = e.ring[i]
    BY SwitchKeeps
  <1> HIDE DEF f
  <1>2. DOMAIN f.ring = DOMAIN e.ring
    BY <1>1, SoundRing
  <1>3. \A i \in DOMAIN f.ring : f.ring[i].buf \in Shown(e.ring) \cup {b}
    BY <1>1, <1>2 DEF Shown
  <1>4. Tidy(f)
    BY <1>1, <1>3, TidyOther
  <1> QED
    BY <1>4 DEF f

LEMMA PopTidy ==
  ASSUME NEW e, Sound(e), Tidy(e), NEW b, b \in Buffers, b # Mini, b # Completions,
         NEW row, row \in Nat, row < e.height, Room(e.ring)
  PROVE  Tidy(PopToBuffer(e, b, row).ed)
  <1> DEFINE p == PopToBuffer(e, b, row)
             f == p.ed
  <1>1. /\ Keeps(e, p.ed) /\ p.ed.reading = e.reading /\ p.ed.start = e.start
        /\ p.ed.listed = e.listed /\ p.ed.cbuf = b /\ p.ed.ring[1].buf = b
        /\ \A i \in DOMAIN p.ed.ring : i # 1 => p.ed.ring[i].buf \in Shown(e.ring)
    <2> HIDE DEF p
    <2> QED
      BY PopKeeps DEF p
  <1>2. f = p.ed
    OBVIOUS
  <1> HIDE DEF p, f
  <1>3. \A i \in DOMAIN f.ring : f.ring[i].buf \in Shown(e.ring) \cup {b}
    BY <1>1, <1>2
  <1>4. Tidy(f)
    BY <1>1, <1>2, <1>3, TidyOther DEF Keeps
  <1> QED
    BY <1>4 DEF f, p

(* delbuf.                                                                 *)
LEMMA KillTidy ==
  ASSUME NEW e, Sound(e), Tidy(e), NEW b, b \notin {Mini, Scratch}, NEW order, order \in Orders
  PROVE  Tidy(KillBufferCmd(e, b, order))
  <1> DEFINE f == KillBufferCmd(e, b, order)
  <1>1. /\ f.listed = e.listed /\ f.reading = e.reading /\ f.start = e.start
        /\ \A i \in DOMAIN f.ring : i \in DOMAIN e.ring /\ f.ring[i].buf \in {e.ring[i].buf, Scratch} \cup Files
        /\ f.cbuf \in {e.cbuf, Scratch} \cup Files
    BY KillKeeps
  <1> HIDE DEF f
  <1>2. Completions \notin {Scratch} \cup Files
    BY BuffersDiffer
  <1>3. Completions \notin Shown(e.ring) => Completions \notin Shown(f.ring)
    BY <1>1, <1>2 DEF Shown
  <1>4. Tidy(f)
    BY <1>1, <1>2, <1>3 DEF Tidy
  <1> QED
    BY <1>4 DEF f

(* The beginning of a reading, and an attempt at another.                  *)
LEMMA ReadTidy ==
  ASSUME NEW e, Sound(e), Tidy(e) PROVE Tidy(ReadFromMinibuffer(e))
  <1> DEFINE t == IF InMiniWindow(e) THEN None ELSE JWindow(e).id
             f == [e EXCEPT !.target = t]
             s == IF InMiniWindow(e) THEN None ELSE e.cbuf
             g == CreateMinibuffer(f)
             h == [g EXCEPT !.start = s]
  <1>1. e \in Editor /\ e.ring[1] \in Window /\ e.cbuf \in Buffers /\ e.cbuf \in e.live
        /\ e.ring \in Seq(Window)
    BY SoundRing, EditorType DEF Sound
  <1>2. t \in Ids \cup {None}
    BY <1>1, WindowType DEF InMiniWindow, JWindow
  <1>3. Completions # Mini /\ Completions # None
    BY BuffersDiffer
  <1> HIDE DEF t
  <1>4. /\ f \in Editor /\ f.ring = e.ring /\ f.height = e.height /\ f.top = e.top
        /\ f.spare = e.spare /\ f.live = e.live /\ f.reading = e.reading /\ f.cbuf = e.cbuf
        /\ f.listed = e.listed /\ f.start = e.start
    BY ONLY <1>1, <1>2 DEF Editor
  <1>5. ReadFromMinibuffer(e) = IF e.reading THEN SelectMinibuffer(f) ELSE h
    BY DEF ReadFromMinibuffer, t
  <1> HIDE DEF f
  <1>6. Sound(f) /\ Tidy(f)
    <2>1. f.cbuf \in e.live
      BY <1>1, <1>4
    <2> QED
      BY <1>4, <2>1, NotedKeeps DEF Tidy
  <1>7. CASE e.reading
    <2> DEFINE M == IndexOfId(f, MiniId)
    <2>1. NoneNew(f, SelectMinibuffer(f))
      <3>1. M # {} /\ M \subseteq DOMAIN f.ring
        BY <1>4, <1>6, <1>7 DEF Sound, HasMini, IndexOfId
      <3> HIDE DEF M
      <3>2. NoneNew(f, SelectFirst(f, M))
        BY <1>6, <3>1, SelectFirstShows
      <3>3. NoneNew(f, f)
        BY DEF NoneNew
      <3> QED
        BY <3>2, <3>3 DEF SelectMinibuffer, M
    <2> DEFINE x == SelectMinibuffer(f)
    <2>2. Rest(f, x)
      BY <1>4, <1>6, <1>7, SelectMinibufferKeeps
    <2> HIDE DEF x
    <2>3. Tidy(x)
      BY <1>6, <2>1, <2>2, TidyKept DEF Rest, x
    <2> QED
      BY <1>5, <1>7, <2>3 DEF x
  <1>8. CASE ~e.reading
    <2>1. e.listed = None /\ Completions \notin Shown(e.ring) \cup {e.cbuf}
      BY <1>8 DEF Tidy
    <2>2. s # Completions
      BY <1>3, <2>1
    <2>3. Keeps(f, g) /\ g.listed = None
      BY <1>4, <1>6, <1>8, <2>1, CreateKeeps
    <2>4. Completions \notin Shown(g.ring) \cup {g.cbuf}
      <3> DEFINE m == [f.spare EXCEPT !.buf = Mini]
      <3>1. g = [f EXCEPT !.ring = <<m>> \o f.ring, !.cbuf = Mini, !.reading = TRUE, !.action = JWindow(f).id]
        BY DEF CreateMinibuffer
      <3>2. f.spare \in Window /\ Mini \in Buffers
        BY <1>4, EditorType DEF Buffers
      <3>3. m \in Window /\ m.buf = Mini
        BY ONLY <3>2 DEF Window
      <3> HIDE DEF m
      <3> DEFINE r == f.ring
                 q == <<m>> \o r
      <3>4. r \in Seq(Window)
        BY <1>1, <1>4
      <3> HIDE DEF r
      <3>5. \A i \in DOMAIN q : q[i] = m \/ \E j \in DOMAIN r : q[i] = r[j]
        <4>1. ASSUME NEW i \in DOMAIN q, i # 1 PROVE i - 1 \in DOMAIN r /\ q[i] = r[i - 1]
          BY ONLY <3>3, <3>4, <4>1
        <4>2. q[1] = m
          BY ONLY <3>3, <3>4
        <4> QED
          BY <4>1, <4>2
      <3>6. g.ring = q /\ g.cbuf = Mini
        <4> HIDE DEF q, g
        <4>1. g = [f EXCEPT !.ring = q, !.cbuf = Mini, !.reading = TRUE, !.action = JWindow(f).id]
          BY <3>1 DEF q, r
        <4> QED
          BY ONLY <1>4, <4>1 DEF Editor
      <3> HIDE DEF q, g
      <3>7. \A i \in DOMAIN q : q[i].buf # Completions
        <4>1. \A j \in DOMAIN r : r[j].buf # Completions
          BY <1>4, <2>1 DEF Shown, r
        <4> QED
          BY <1>3, <3>3, <3>5, <4>1, Zenon
      <3> QED
        BY <1>3, <3>6, <3>7 DEF Shown
    <2> HIDE DEF g, s
    <2>5. g \in Editor /\ s \in Buffers \cup {None}
      BY <1>1, <2>3 DEF Keeps, Sound, s
    <2>6. h.ring = g.ring /\ h.cbuf = g.cbuf /\ h.start = s /\ h.listed = g.listed
      BY ONLY <2>5 DEF Editor
    <2> HIDE DEF h
    <2>7. Tidy(h)
      BY <1>3, <2>2, <2>3, <2>4, <2>6 DEF Tidy
    <2> QED
      BY <1>5, <1>8, <2>7
  <1> QED
    BY <1>7, <1>8

-----------------------------------------------------------------------------
(* Where the minibuffer's own commands leave the windows.                  *)

(* The minibuffer's window is in the ring once, so that it is found.       *)
LEMMA MiniFound ==
  ASSUME NEW e, Sound(e), NEW k, k \in DOMAIN e.ring, e.ring[k].id = MiniId
  PROVE  IndexOfId(e, MiniId) = {k} /\ Min(IndexOfId(e, MiniId)) = k
  <1>1. Len(e.ring) \in Nat /\ DOMAIN e.ring = 1..Len(e.ring)
    BY SoundRing
  <1>2. IndexOfId(e, MiniId) = {k}
    BY DEF IndexOfId, Sound, Ring
  <1>3. {k} \subseteq Nat /\ {k} # {}
    BY <1>1
  <1>4. Min({k}) \in {k}
    BY <1>3, NatMin
  <1> QED
    BY <1>2, <1>4

(* From the window after it, the minibuffer's is the last to come.         *)
LEMMA SelectSecond ==
  ASSUME NEW e, Sound(e), Len(e.ring) >= 2
  PROVE  LET f == Select(e, 2)
         IN /\ Keeps(e, f) /\ Rest(e, f) /\ f.action = e.action
            /\ Len(f.ring) = Len(e.ring)
            /\ \A i \in DOMAIN f.ring :
                 f.ring[i] = e.ring[IF i = Len(e.ring) THEN 1 ELSE i + 1]
  <1> DEFINE f == Select(e, 2)
             n == Len(e.ring)
  <1>1. e.ring \in Seq(Window) /\ n \in Nat /\ DOMAIN e.ring = 1..n /\ n >= 2
    BY SoundRing
  <1> HIDE DEF n
  <1>2. 2 \in DOMAIN e.ring
    BY ONLY <1>1
  <1>3. /\ Keeps(e, f) /\ Rest(e, f) /\ f.action = e.action
        /\ f.ring = Turned(e.ring, 2) /\ Len(f.ring) = Len(e.ring)
        /\ DOMAIN f.ring = DOMAIN e.ring
    BY <1>2, SelectKeeps
  <1>4. \A i \in DOMAIN e.ring : Turned(e.ring, 2)[i] = e.ring[From(n, 2, i)]
    BY <1>1, <1>2, TurnedAt DEF n
  <1>5. \A i \in 1..n : From(n, 2, i) = IF i = n THEN 1 ELSE i + 1
    BY ONLY <1>1 DEF From
  <1> HIDE DEF f
  <1>6. \A i \in DOMAIN f.ring : f.ring[i] = e.ring[IF i = n THEN 1 ELSE i + 1]
    BY <1>1, <1>3, <1>4, <1>5
  <1> QED
    BY <1>3, <1>6 DEF f, n

(* Already selected, it stays where it is.                                 *)
LEMMA SelectItself ==
  ASSUME NEW e, Sound(e)
  PROVE  LET f == Select(e, 1)
         IN /\ Keeps(e, f) /\ Rest(e, f) /\ f.action = e.action
            /\ f.cbuf = e.ring[1].buf /\ f.ring = e.ring
  <1> DEFINE f == Select(e, 1)
             n == Len(e.ring)
  <1>1. e.ring \in Seq(Window) /\ n \in Nat /\ DOMAIN e.ring = 1..n /\ 1 \in DOMAIN e.ring
    BY SoundRing
  <1> HIDE DEF n
  <1>2. /\ Keeps(e, f) /\ Rest(e, f) /\ f.action = e.action /\ f.cbuf = e.ring[1].buf
        /\ f.ring = Turned(e.ring, 1) /\ Len(f.ring) = Len(e.ring)
        /\ DOMAIN f.ring = DOMAIN e.ring
    BY <1>1, SelectKeeps
  <1>3. \A i \in DOMAIN e.ring : Turned(e.ring, 1)[i] = e.ring[From(n, 1, i)]
    BY <1>1, TurnedAt DEF n
  <1>4. \A i \in 1..n : From(n, 1, i) = i
    BY ONLY <1>1 DEF From
  <1> HIDE DEF f
  <1>5. f.ring = e.ring
    <2>1. f.ring \in Seq(Window)
      BY <1>2, SoundRing DEF Keeps
    <2>2. \A i \in 1..Len(e.ring) : f.ring[i] = e.ring[i]
      BY <1>1, <1>2, <1>3, <1>4
    <2> QED
      BY ONLY <1>1, <1>2, <2>1, <2>2
  <1> QED
    BY <1>2, <1>5 DEF f

Showing(e, b) == {k \in DOMAIN e.ring : e.ring[k].id # MiniId /\ e.ring[k].buf = b}

(* pop_to_buffer, called in the minibuffer's window, where the k-th window *)
(* is the one to show the buffer: the ring turns to it.                    *)
TurnsTo(e, b, k, p) ==
  /\ p.name = e.ring[k].buf
  /\ p.ed.start = e.start /\ p.ed.target = e.target /\ p.ed.top = e.top
  /\ p.ed.height = e.height /\ p.ed.listed = e.listed /\ p.ed.wins = e.wins
  /\ p.ed.action = e.action /\ Len(p.ed.ring) = Len(e.ring)
  /\ p.ed.ring[1] = [e.ring[k] EXCEPT !.buf = b]
  /\ \A i \in DOMAIN e.ring : i # 1 => p.ed.ring[i] = e.ring[From(Len(e.ring), k, i)]

LEMMA PopAt ==
  ASSUME NEW e, Sound(e), InMiniWindow(e), NEW b, b \in Buffers, NEW row,
         NEW k, k \in DOMAIN e.ring, k # 1,
         \/ Showing(e, b) = {k}
         \/ Showing(e, b) = {} /\ Others(e, e.action) # {} /\ Max(Others(e, e.action)) = k,
         NEW p, p = PopToBuffer(e, b, row)
  PROVE  TurnsTo(e, b, k, p)
  <1> DEFINE f == SetBuffer(e, b)
             h == Select(f, k)
             q == [h EXCEPT !.cbuf = b, !.ring[1].buf = b]
             n == Len(e.ring)
  <1>1. /\ Sound(f) /\ f.ring = e.ring /\ f.height = e.height /\ f.top = e.top
        /\ f.cbuf = b /\ f.action = e.action /\ f.target = e.target
        /\ f.start = e.start /\ f.listed = e.listed /\ f.wins = e.wins
    BY SetBufferKeeps DEF Keeps
  <1>2. /\ e.reading = TRUE /\ n \in Nat /\ DOMAIN e.ring = 1..n /\ k \in 1..n
        /\ e.ring \in Seq(Window) /\ 1 \in DOMAIN e.ring
    BY InMiniReads, SoundRing
  <1>3. p = [ed |-> q, name |-> h.cbuf]
    <2>1. SelectFirst(f, {k}) = h
      <3>1. {k} \subseteq Nat /\ {k} # {}
        BY <1>2
      <3>2. Min({k}) \in {k}
        BY <3>1, NatMin
      <3> QED
        BY <3>2 DEF SelectFirst
    <2> DEFINE action == IF e.reading THEN e.action ELSE None
               s == PopSplit(f, action, row)
               g == IF Showing(e, b) # {} THEN SelectFirst(f, Showing(e, b))
                    ELSE IF Others(e, action) # {} THEN SelectFirst(f, {Max(Others(e, action))})
                    ELSE s
    <2>4. p = [ed |-> [g EXCEPT !.cbuf = b, !.ring[1].buf = b], name |-> g.cbuf]
      BY DEF PopToBuffer, PopSplit, Showing
    <2>5. action = e.action
      BY <1>2
    <2> HIDE DEF action, s
    <2>2. CASE Showing(e, b) = {k}
      <3>1. g = h
        BY <2>1, <2>2
      <3> HIDE DEF g, h
      <3> QED
        BY <2>4, <3>1
    <2>3. CASE Showing(e, b) = {} /\ Others(e, e.action) # {} /\ Max(Others(e, e.action)) = k
      <3>1. g = h
        BY <2>1, <2>3, <2>5
      <3> HIDE DEF g, h
      <3> QED
        BY <2>4, <3>1
    <2> QED
      BY <2>2, <2>3
  <1>4. p.ed = q /\ p.name = h.cbuf
    BY <1>3
  <1> HIDE DEF f, n
  <1>5. /\ Keeps(f, h) /\ Rest(f, h) /\ h.action = f.action /\ h.cbuf = f.ring[k].buf
        /\ h.ring = Turned(f.ring, k) /\ Len(h.ring) = Len(f.ring) /\ h.ring[1] = f.ring[k]
        /\ DOMAIN h.ring = DOMAIN f.ring
    <2>1. Sound(f) /\ k \in DOMAIN f.ring
      BY <1>1
    <2> QED
      BY <2>1, SelectKeeps
  <1>6. \A i \in DOMAIN e.ring : Turned(e.ring, k)[i] = e.ring[From(n, k, i)]
    BY <1>2, TurnedAt DEF n
  <1> HIDE DEF h
  <1>7. h \in Editor /\ h.ring \in Seq(Window) /\ 1 \in DOMAIN h.ring /\ h.ring[1] \in Window
    BY <1>5, SoundRing DEF Keeps
  <1>8. /\ q.start = h.start /\ q.target = h.target /\ q.top = h.top /\ q.height = h.height
        /\ q.listed = h.listed /\ q.wins = h.wins /\ q.action = h.action
        /\ q.ring = [h.ring EXCEPT ![1] = [h.ring[1] EXCEPT !.buf = b]]
    BY ONLY <1>7 DEF Editor
  <1> HIDE DEF q
  <1>9. /\ Len(q.ring) = Len(h.ring) /\ q.ring[1] = [h.ring[1] EXCEPT !.buf = b]
        /\ \A i \in DOMAIN h.ring : i # 1 => q.ring[i] = h.ring[i]
    <2> DEFINE w == [h.ring[1] EXCEPT !.buf = b]
               r == h.ring
    <2>1. w \in Window
      BY ONLY <1>7, b \in Buffers DEF Window
    <2>2. r \in Seq(Window) /\ 1 \in DOMAIN r /\ q.ring = [r EXCEPT ![1] = w]
      BY <1>7, <1>8
    <2> HIDE DEF w, r
    <2>3. /\ Len(q.ring) = Len(r) /\ q.ring[1] = w
          /\ \A i \in DOMAIN r : i # 1 => q.ring[i] = r[i]
      BY ONLY <2>1, <2>2
    <2> QED
      BY <2>3 DEF w, r
  <1>10. \A i \in DOMAIN e.ring : i # 1 => q.ring[i] = e.ring[From(n, k, i)]
    BY <1>1, <1>5, <1>6, <1>9
  <1>11. /\ q.start = e.start /\ q.target = e.target /\ q.top = e.top /\ q.height = e.height
         /\ q.listed = e.listed /\ q.wins = e.wins /\ q.action = e.action
    BY <1>1, <1>5, <1>8 DEF Rest
  <1>12. Len(q.ring) = Len(e.ring) /\ q.ring[1] = [e.ring[k] EXCEPT !.buf = b]
    BY <1>1, <1>5, <1>9
  <1>13. h.cbuf = e.ring[k].buf
    BY <1>1, <1>5
  <1> QED
    BY <1>4, <1>10, <1>11, <1>12, <1>13 DEF n, TurnsTo

-----------------------------------------------------------------------------
(* A reading that is not disturbed.                                        *)

Seen(w) == [sy |-> w.sy, rows |-> w.rows, buf |-> w.buf]
SeenWindow == [sy: Nat, rows: Nat, buf: Buffers]

(* No completions are shown: behind the minibuffer's window are the        *)
(* windows of the beginning.                                               *)
Same(e, W) ==
  /\ Len(e.ring) = Len(W) + 1
  /\ e.target = e.ring[2].id /\ e.action = e.ring[2].id
  /\ \A i \in DOMAIN W : W[i] = Seen(e.ring[i + 1])

(* They are shown in the last of several windows ...                       *)
Lent(e, W) ==
  /\ Len(W) >= 2 /\ Len(e.ring) = Len(W) + 1 /\ e.target = e.ring[2].id
  /\ \A i \in DOMAIN W :
       IF i = Len(W)
       THEN /\ e.ring[i + 1].buf = Completions
            /\ W[i] = [sy |-> e.ring[i + 1].sy, rows |-> e.ring[i + 1].rows, buf |-> e.listed]
       ELSE W[i] = Seen(e.ring[i + 1]) /\ e.ring[i + 1].buf # Completions

(* ... or in the only one, which has been split if it is large enough.     *)
Halved(e, W) ==
  /\ Len(W) = 1 /\ W[1] = [sy |-> e.top, rows |-> e.height - 2 - e.top, buf |-> e.listed]
  /\ \E k \in DOMAIN e.ring : \A i \in DOMAIN e.ring : e.ring[i].buf = Completions <=> i = k

Undisturbed(e, v) ==
  /\ v \in [windows: Seq(SeenWindow), cbuf: Buffers]
  /\ InMiniWindow(e) /\ e.start = v.cbuf /\ e.start \in e.live
  /\ IF e.listed = None THEN Same(e, v.windows)
     ELSE IF e.wins = 1 THEN Halved(e, v.windows) ELSE Lent(e, v.windows)

(* Selecting the minibuffer again after it was not necessary.              *)
LEMMA CompleteStays ==
  ASSUME NEW e, Sound(e), InMiniWindow(e), NEW several, NEW row, ~(several /\ e.listed = None)
  PROVE  LET f == MiniComplete(e, several, row)
         IN /\ f.ring = e.ring /\ f.cbuf = e.ring[1].buf /\ f.live = e.live \cup {Completions}
            /\ f.height = e.height /\ f.top = e.top /\ f.reading = e.reading
            /\ f.start = e.start /\ f.target = e.target /\ f.listed = e.listed
            /\ f.wins = e.wins /\ f.action = e.action
  <1> DEFINE f == SetBuffer(e, Completions)
             k == Min(IndexOfId(f, MiniId))
             g == Select(f, 1)
             h == MiniComplete(e, several, row)
  <1>1. Completions \in Buffers
    BY DEF Buffers
  <1>2. /\ Sound(f) /\ f.ring = e.ring /\ f.height = e.height /\ f.top = e.top
        /\ f.live = e.live \cup {Completions}
        /\ f.reading = e.reading /\ f.action = e.action /\ f.target = e.target
        /\ f.start = e.start /\ f.listed = e.listed /\ f.wins = e.wins
    BY <1>1, SetBufferKeeps DEF Keeps
  <1>3. h = Select(f, k)
    BY DEF MiniComplete
  <1> HIDE DEF f, h
  <1>4. 1 \in DOMAIN f.ring /\ f.ring[1].id = MiniId
    BY <1>2, SoundRing DEF InMiniWindow, JWindow
  <1>5. k = 1
    BY <1>2, <1>4, MiniFound
  <1>6. h = g
    BY <1>3, <1>5
  <1>7. Rest(f, g) /\ g.action = f.action /\ g.cbuf = f.ring[1].buf /\ g.ring = f.ring
    BY <1>2, SelectItself
  <1> HIDE DEF g
  <1>8. /\ h.ring = e.ring /\ h.cbuf = e.ring[1].buf /\ h.live = e.live \cup {Completions}
        /\ h.height = e.height /\ h.top = e.top /\ h.reading = e.reading
        /\ h.start = e.start /\ h.target = e.target /\ h.listed = e.listed
        /\ h.wins = e.wins /\ h.action = e.action
    BY <1>2, <1>6, <1>7 DEF Rest
  <1> QED
    BY <1>8 DEF h

LEMMA StaysUndisturbed ==
  ASSUME NEW e, NEW v, Undisturbed(e, v), NEW f, f.ring = e.ring, e.live \subseteq f.live,
         f.height = e.height, f.top = e.top, f.start = e.start, f.target = e.target,
         f.listed = e.listed, f.wins = e.wins, f.action = e.action
  PROVE  Undisturbed(f, v)
  BY DEF Undisturbed, Same, Lent, Halved, InMiniWindow, JWindow

(* What is seen of a window.                                               *)
LEMMA SeenType ==
  ASSUME NEW w, w \in Window
  PROVE  /\ Seen(w) \in SeenWindow /\ Seen(w).sy = w.sy /\ Seen(w).rows = w.rows
         /\ Seen(w).buf = w.buf
         /\ \A b \in Buffers : LET u == [w EXCEPT !.buf = b]
                               IN /\ u \in Window /\ u.id = w.id /\ u.buf = b
                                  /\ Seen(u) = [sy |-> w.sy, rows |-> w.rows, buf |-> b]
  BY DEF Seen, SeenWindow, Window

(* The reading begins.                                                     *)
LEMMA ReadUndisturbed ==
  ASSUME NEW e, Sound(e), ~e.reading, e.listed = None
  PROVE  Undisturbed(ReadFromMinibuffer(e), View(e))
  <1> DEFINE r == e.ring
             f == [e EXCEPT !.target = r[1].id]
             m == [f.spare EXCEPT !.buf = Mini]
             g == [f EXCEPT !.ring = <<m>> \o r, !.cbuf = Mini, !.reading = TRUE, !.action = r[1].id]
             h == [g EXCEPT !.start = e.cbuf]
             W == [i \in DOMAIN r |-> Seen(r[i])]
  <1>1. /\ e \in Editor /\ r \in Seq(Window) /\ 1 \in DOMAIN r /\ r[1] \in Window
        /\ Len(r) \in Nat /\ DOMAIN r = 1..Len(r) /\ \A i \in DOMAIN r : r[i] \in Window
        /\ e.cbuf \in Buffers /\ e.cbuf \in e.live
    BY SoundRing, EditorType DEF Sound
  <1>2. ~InMiniWindow(e) /\ r[1].id # MiniId /\ r[1].id \in Ids
    BY <1>1, InMiniReads, WindowType DEF InMiniWindow, JWindow
  <1>3. ReadFromMinibuffer(e) = h
    <2>1. f.ring = r
      BY <1>1 DEF Editor
    <2> QED
      BY <1>2, <2>1 DEF ReadFromMinibuffer, CreateMinibuffer, JWindow
  <1>4. View(e) = [windows |-> W, cbuf |-> e.cbuf]
    BY DEF View, Seen
  <1> HIDE DEF r
  <1>5. W \in Seq(SeenWindow) /\ Len(W) = Len(r) /\ DOMAIN W = 1..Len(r)
        /\ \A i \in DOMAIN W : W[i] = Seen(r[i])
    <2>1. W \in [1..Len(r) -> SeenWindow]
      BY <1>1, SeenType
    <2>2. DOMAIN W = 1..Len(r)
      BY <1>1
    <2>3. \A i \in DOMAIN W : W[i] = Seen(r[i])
      OBVIOUS
    <2> HIDE DEF W
    <2> QED
      BY <1>1, <2>1, <2>2, <2>3, FunctionIsSeq
  <1> HIDE DEF W
  <1>6. f \in Editor /\ f.spare = e.spare /\ f.target = r[1].id /\ f.listed = e.listed /\ f.live = e.live
    BY ONLY <1>1, <1>2 DEF Editor
  <1> HIDE DEF f
  <1>7. m \in Window /\ m.id = MiniId
    <2>1. f.spare \in Window /\ Mini \in Buffers /\ f.spare.id = MiniId
      BY <1>6, EditorType DEF Buffers, Sound
    <2> QED
      BY ONLY <2>1 DEF Window
  <1> HIDE DEF m
  <1> DEFINE q == <<m>> \o r
  <1>8. /\ q \in Seq(Window) /\ Len(q) = Len(r) + 1 /\ q[1] = m
        /\ \A i \in 1..Len(r) : q[i + 1] = r[i]
    BY ONLY <1>1, <1>7
  <1>9. h.ring = q /\ h.action = r[1].id /\ h.target = r[1].id /\ h.listed = None /\ h.live = e.live
        /\ h.start = e.cbuf
    <2> HIDE DEF q
    <2>1. g = [f EXCEPT !.ring = q, !.cbuf = Mini, !.reading = TRUE, !.action = r[1].id]
      BY DEF q
    <2>2. h = [f EXCEPT !.ring = q, !.cbuf = Mini, !.reading = TRUE, !.action = r[1].id, !.start = e.cbuf]
      BY ONLY <1>6, <2>1 DEF Editor
    <2> HIDE DEF g, h
    <2> QED
      BY ONLY <1>6, <2>2, e.listed = None DEF Editor
  <1> HIDE DEF q, h, g
  <1>10. q[2] = r[1]
    BY <1>1, <1>8
  <1>11. Same(h, W)
    <2>1. \A i \in DOMAIN W : W[i] = Seen(h.ring[i + 1])
      BY <1>5, <1>8, <1>9
    <2> QED
      BY <1>5, <1>8, <1>9, <1>10, <2>1 DEF Same
  <1> DEFINE v == [windows |-> W, cbuf |-> e.cbuf]
  <1>12. v \in [windows: Seq(SeenWindow), cbuf: Buffers] /\ v.windows = W /\ v.cbuf = e.cbuf
    BY <1>1, <1>5
  <1> HIDE DEF v
  <1>13. InMiniWindow(h) /\ h.start = v.cbuf /\ h.start \in h.live /\ h.listed = None
    BY <1>1, <1>7, <1>8, <1>9, <1>12 DEF InMiniWindow, JWindow
  <1>14. Undisturbed(h, v)
    BY <1>11, <1>12, <1>13 DEF Undisturbed
  <1> QED
    BY <1>3, <1>4, <1>14 DEF v


(* mini_complete while no completions are shown yet.                       *)
Listing(e, p) == [p.ed EXCEPT !.listed = p.name, !.wins = NumWindows(e) - 1]

Lists(e, s, p, g, h) ==
  /\ Sound(s) /\ InMiniWindow(s) /\ s.ring = e.ring
  /\ s.height = e.height /\ s.top = e.top /\ s.action = e.action
  /\ s.target = e.target /\ s.start = e.start
  /\ Sound(g) /\ g.ring = p.ed.ring /\ g.reading /\ g.listed = p.name
  /\ g.wins = Len(e.ring) - 1 /\ g.action = p.ed.action
  /\ g.height = e.height /\ g.top = e.top /\ g.target = p.ed.target
  /\ g.start = e.start /\ e.live \subseteq g.live
  /\ ~InMiniWindow(g) /\ g.ring[1].buf = Completions
  /\ \A i \in DOMAIN g.ring : i # 1 => g.ring[i].buf \in Shown(e.ring)
  /\ p.name \in Shown(e.ring) \ {Mini}
  /\ h = Select(g, Min(IndexOfId(g, MiniId)))

LEMMA CompleteLists ==
  ASSUME NEW e, Sound(e), MiniOwn(e), InMiniWindow(e), CanSplit(e), e.listed = None,
         NEW row \in FoundRows(e), NEW s, s = SetBuffer(e, Completions),
         NEW p, p = PopToBuffer(s, Completions, row), NEW g, g = Listing(s, p),
         NEW several, several, NEW h, h = MiniComplete(e, several, row)
  PROVE  Lists(e, s, p, g, h)
  <1>1. Completions \in Buffers /\ Completions # Mini
    BY BuffersDiffer DEF Buffers
  <1>2. row \in Nat /\ row < e.height /\ Room(e.ring) /\ e.reading = TRUE
    BY FoundRowFits, CanSplitRoom, InMiniReads
  <1>3. /\ Keeps(e, s) /\ s.ring = e.ring /\ s.height = e.height /\ s.top = e.top
        /\ s.live = e.live \cup {Completions}
        /\ s.reading = e.reading /\ s.action = e.action /\ s.target = e.target
        /\ s.start = e.start /\ s.listed = e.listed
    BY <1>1, SetBufferKeeps
  <1>4. h = Select(g, Min(IndexOfId(g, MiniId)))
    <2> DEFINE y == IF several /\ e.listed = None
                    THEN [p.ed EXCEPT !.listed = p.name, !.wins = NumWindows(s) - 1] ELSE s
    <2>1. h = Select(y, Min(IndexOfId(y, MiniId)))
      BY DEF MiniComplete
    <2>2. y = g
      BY DEF Listing
    <2> QED
      BY <2>1, <2>2
  <1>5. Sound(s) /\ MiniOwn(s) /\ InMiniWindow(s) /\ row < s.height /\ Room(s.ring)
    BY <1>2, <1>3 DEF Keeps, InMiniWindow, JWindow
  <1>6. /\ Keeps(s, p.ed) /\ ~InMiniWindow(p.ed) /\ p.name # Mini
        /\ p.name \in p.ed.live /\ p.ed.live = s.live \cup {Completions}
        /\ p.ed.reading = s.reading /\ p.ed.height = s.height /\ p.ed.start = s.start
        /\ p.ed.top = s.top /\ p.ed.ring[1].buf = Completions
        /\ \A i \in DOMAIN p.ed.ring : i # 1 => p.ed.ring[i].buf \in Shown(s.ring)
        /\ p.name \in Shown(s.ring)
    BY <1>1, <1>2, <1>5, PopKeeps
  <1>7. g = [p.ed EXCEPT !.listed = p.name, !.wins = NumWindows(s) - 1]
    BY DEF Listing
  <1>8. NumWindows(s) - 1 \in Nat /\ NumWindows(s) = Len(e.ring)
    <2>1. Len(e.ring) \in Nat /\ 1 \in 1..Len(e.ring)
      BY SoundRing
    <2>2. Len(e.ring) - 1 \in Nat
      BY ONLY <2>1
    <2> QED
      BY <1>3, <2>2 DEF NumWindows
  <1>9. Sound(p.ed)
    BY <1>6 DEF Keeps
  <1>10. p.ed \in Editor /\ p.name \in Buffers /\ p.ed.cbuf \in p.ed.live
    BY <1>6, <1>9, EditorType DEF Sound
  <1>11. /\ g \in Editor /\ g.ring = p.ed.ring /\ g.height = p.ed.height /\ g.top = p.ed.top
         /\ g.spare = p.ed.spare /\ g.live = p.ed.live /\ g.reading = p.ed.reading
         /\ g.cbuf = p.ed.cbuf /\ g.listed = p.name /\ g.wins = NumWindows(s) - 1
         /\ g.target = p.ed.target /\ g.start = p.ed.start /\ g.action = p.ed.action
    BY ONLY <1>7, <1>8, <1>10 DEF Editor
  <1>12. Sound(g)
    BY <1>9, <1>10, <1>11, NotedKeeps
  <1>13. /\ g.reading /\ g.wins = Len(e.ring) - 1 /\ g.height = e.height /\ g.top = e.top
         /\ g.start = e.start /\ e.live \subseteq g.live /\ g.ring[1].buf = Completions
    BY <1>2, <1>3, <1>6, <1>8, <1>11
  <1>14. ~InMiniWindow(g)
    BY <1>6, <1>11 DEF InMiniWindow, JWindow
  <1>15. \A i \in DOMAIN g.ring : i # 1 => g.ring[i].buf \in Shown(e.ring)
    BY <1>3, <1>6, <1>11
  <1>16. p.name \in Shown(e.ring) \ {Mini}
    BY <1>3, <1>6
  <1> QED
    BY <1>3, <1>4, <1>5, <1>11, <1>12, <1>13, <1>14, <1>15, <1>16 DEF Lists

(* Several windows: the last one shows the completions.                    *)
LEMMA CompleteLends ==
  ASSUME NEW e, Sound(e), MiniOwn(e), InMiniWindow(e), CanSplit(e), e.listed = None,
         NEW row \in FoundRows(e), NEW several, several, NEW W, W \in Seq(SeenWindow), Same(e, W), Len(W) >= 2,
         Completions \notin Shown(e.ring)
  PROVE  LET h == MiniComplete(e, several, row)
         IN /\ InMiniWindow(h) /\ h.start = e.start /\ e.live \subseteq h.live
            /\ h.listed # None /\ h.wins # 1 /\ Lent(h, W)
  <1> DEFINE s == SetBuffer(e, Completions)
             p == PopToBuffer(s, Completions, row)
             g == Listing(s, p)
             h == MiniComplete(e, several, row)
             n == Len(W)
             k == n + 1
             O == Others(s, s.action)
  <1>1. /\ Sound(s) /\ InMiniWindow(s) /\ s.ring = e.ring /\ s.action = e.action
        /\ s.target = e.target
        /\ Sound(g) /\ g.ring = p.ed.ring /\ g.listed = p.name
        /\ g.wins = Len(e.ring) - 1 /\ g.target = p.ed.target
        /\ g.start = e.start /\ e.live \subseteq g.live
        /\ p.name \in Shown(e.ring)
        /\ h = Select(g, Min(IndexOfId(g, MiniId)))
    <2> HIDE DEF s, p, g, h
    <2>1. s = SetBuffer(e, Completions) /\ p = PopToBuffer(s, Completions, row)
          /\ g = Listing(s, p) /\ h = MiniComplete(e, several, row)
      BY DEF s, p, g, h
    <2>2. Lists(e, s, p, g, h)
      BY <2>1, CompleteLists
    <2> QED
      BY <2>2 DEF Lists
  <1> HIDE DEF s, g, h
  <1>2. /\ n \in Nat /\ n >= 2 /\ DOMAIN W = 1..n /\ Len(e.ring) = n + 1
        /\ DOMAIN e.ring = 1..(n + 1) /\ e.ring[1].id = MiniId
        /\ e.action = e.ring[2].id /\ e.target = e.ring[2].id
        /\ \A i \in 1..n : W[i] = Seen(e.ring[i + 1])
    BY SoundRing DEF Same, InMiniWindow, JWindow
  <1> HIDE DEF n
  <1>3. 1 \in 1..(n + 1) /\ 2 \in 1..(n + 1) /\ k \in 1..(n + 1) /\ k # 1 /\ k # 2
    BY ONLY <1>2
  <1>4. k \in O /\ O \subseteq 1..(n + 1)
    <2>1. e.ring[k].id # MiniId /\ e.ring[k].id # e.ring[2].id
      <3>1. /\ k \in DOMAIN e.ring /\ 1 \in DOMAIN e.ring /\ 2 \in DOMAIN e.ring
            /\ k # 1 /\ k # 2 /\ e.ring[1].id = MiniId
        BY <1>2, <1>3
      <3>2. \A i, j \in DOMAIN e.ring : e.ring[i].id = e.ring[j].id => i = j
        BY DEF Sound, Ring
      <3> HIDE DEF k
      <3> QED
        BY ONLY <3>1, <3>2
    <2>2. k \in DOMAIN s.ring /\ DOMAIN s.ring = 1..(n + 1) /\ s.ring[k] = e.ring[k]
          /\ s.action = e.ring[2].id
      BY <1>1, <1>2, <1>3
    <2> HIDE DEF k
    <2> QED
      BY <1>3, <2>1, <2>2 DEF Others
  <1>5. O # {} /\ Max(O) = k
    <2>1. n + 1 \in Nat
      BY ONLY <1>2
    <2> HIDE DEF O
    <2>2. Max(O) \in O /\ Max(O) >= k
      BY <1>4, <2>1, NatMax
    <2> DEFINE m == Max(O)
    <2>4. m \in 1..(n + 1) /\ m >= n + 1
      BY <1>4, <2>2
    <2> HIDE DEF m
    <2>5. m = n + 1
      BY ONLY <1>2, <2>4
    <2>3. Max(O) = k
      BY <2>5 DEF m
    <2> QED
      BY <1>4, <2>3
  <1>6. Showing(s, Completions) = {}
    BY <1>1 DEF Showing, Shown
  <1>7. Completions \in Buffers
    BY DEF Buffers
  <1> HIDE DEF O
  <1>8. /\ p.name = s.ring[k].buf /\ p.ed.target = s.target
        /\ Len(p.ed.ring) = Len(s.ring)
        /\ p.ed.ring[1] = [s.ring[k] EXCEPT !.buf = Completions]
        /\ \A i \in DOMAIN s.ring : i # 1 => p.ed.ring[i] = s.ring[From(Len(s.ring), k, i)]
    <2>1. k \in DOMAIN s.ring
      BY <1>1, <1>2, <1>3
    <2>3. k # 1
      BY <1>3
    <2>4. p = PopToBuffer(s, Completions, row)
      OBVIOUS
    <2> HIDE DEF p, k
    <2>2. Others(s, s.action) # {} /\ Max(Others(s, s.action)) = k
      BY <1>5 DEF O
    <2>5. TurnsTo(s, Completions, k, p)
      BY <1>1, <1>6, <1>7, <2>1, <2>2, <2>3, <2>4, PopAt
    <2> QED
      BY <2>5 DEF TurnsTo
  <1> HIDE DEF p
  <1>9. \A i \in 2..(n + 1) : From(n + 1, k, i) = i - 1
    BY ONLY <1>2 DEF From
  <1>10. /\ Len(g.ring) = n + 1 /\ g.ring[1] = [e.ring[n + 1] EXCEPT !.buf = Completions]
         /\ \A i \in 2..(n + 1) : g.ring[i] = e.ring[i - 1]
    <2>1. ASSUME NEW i \in 2..(n + 1) PROVE g.ring[i] = e.ring[i - 1]
      <3>1. i \in 1..(n + 1) /\ i # 1
        BY ONLY <1>2
      <3>2. From(n + 1, k, i) = i - 1
        BY <1>9
      <3> HIDE DEF k
      <3>4. s.ring = e.ring /\ g.ring = p.ed.ring /\ i \in DOMAIN s.ring /\ Len(s.ring) = n + 1
        BY <1>1, <1>2, <3>1
      <3>5. p.ed.ring[i] = s.ring[From(Len(s.ring), k, i)]
        BY <1>8, <3>1, <3>4
      <3> QED
        BY ONLY <3>2, <3>4, <3>5
    <2>2. Len(g.ring) = n + 1
      BY <1>1, <1>2, <1>8
    <2>3. g.ring[1] = [e.ring[n + 1] EXCEPT !.buf = Completions]
      BY <1>1, <1>8
    <2> QED
      BY <2>1, <2>2, <2>3
  <1>11. g.ring[2] = e.ring[1]
    <2>1. 2 \in 2..(n + 1) /\ 2 - 1 = 1
      BY ONLY <1>2
    <2> QED
      BY <1>10, <2>1
  <1>12. DOMAIN g.ring = 1..(n + 1)
    BY <1>1, <1>10, SoundRing
  <1>13. Min(IndexOfId(g, MiniId)) = 2
    BY <1>1, <1>2, <1>3, <1>11, <1>12, MiniFound
  <1> DEFINE x == Select(g, 2)
  <1>14. /\ Rest(g, x) /\ Len(x.ring) = n + 1 /\ DOMAIN x.ring = 1..(n + 1)
         /\ \A i \in 1..(n + 1) : x.ring[i] = g.ring[IF i = n + 1 THEN 1 ELSE i + 1]
    <2>1. Len(g.ring) >= 2
      BY ONLY <1>2, <1>10
    <2>2. /\ Keeps(g, x) /\ Rest(g, x) /\ Len(x.ring) = Len(g.ring)
          /\ \A i \in DOMAIN x.ring : x.ring[i] = g.ring[IF i = Len(g.ring) THEN 1 ELSE i + 1]
      BY <1>1, <2>1, SelectSecond
    <2> HIDE DEF x
    <2>3. DOMAIN x.ring = 1..(n + 1)
      BY <1>10, <2>2, SoundRing DEF Keeps
    <2> QED
      BY <1>10, <2>2, <2>3
  <1>15. h = x
    BY <1>1, <1>13
  <1> HIDE DEF x
  <1>16. /\ x.ring[n + 1] = [e.ring[n + 1] EXCEPT !.buf = Completions]
         /\ \A i \in 1..n : x.ring[i] = e.ring[i]
    <2>1. ASSUME NEW i \in 1..n PROVE x.ring[i] = e.ring[i]
      <3>1. i \in 1..(n + 1) /\ i # n + 1 /\ i + 1 \in 2..(n + 1) /\ (i + 1) - 1 = i
        BY ONLY <1>2
      <3>2. x.ring[i] = g.ring[i + 1]
        BY <1>14, <3>1
      <3> QED
        BY <1>10, <3>1, <3>2
    <2>2. x.ring[n + 1] = g.ring[1]
      BY <1>3, <1>14
    <2> QED
      BY <1>10, <2>1, <2>2
  <1>17. e.ring[n + 1] \in Window /\ \A i \in 1..(n + 1) : e.ring[i].buf # Completions
    BY <1>2, <1>3, SoundRing DEF Shown
  <1>18. x.listed = e.ring[n + 1].buf
    BY <1>1, <1>8, <1>14 DEF Rest
  <1>19. /\ x.ring[n + 1].buf = Completions /\ x.ring[n + 1].sy = e.ring[n + 1].sy
         /\ x.ring[n + 1].rows = e.ring[n + 1].rows
    BY ONLY <1>7, <1>16, <1>17 DEF Window
  <1>20. \A i \in DOMAIN W :
           IF i = Len(W)
           THEN /\ x.ring[i + 1].buf = Completions
                /\ W[i] = [sy |-> x.ring[i + 1].sy, rows |-> x.ring[i + 1].rows, buf |-> x.listed]
           ELSE W[i] = Seen(x.ring[i + 1]) /\ x.ring[i + 1].buf # Completions
    <2>1. ASSUME NEW i \in 1..n, i # n
          PROVE  W[i] = Seen(x.ring[i + 1]) /\ x.ring[i + 1].buf # Completions
      <3>1. i + 1 \in 1..n /\ i + 1 \in 1..(n + 1)
        BY ONLY <1>2, <2>1
      <3>2. x.ring[i + 1] = e.ring[i + 1]
        BY <1>16, <3>1
      <3> QED
        BY <1>2, <1>17, <3>1, <3>2
    <2>2. n \in 1..n
      BY ONLY <1>2
    <2>3. W[n] = [sy |-> x.ring[n + 1].sy, rows |-> x.ring[n + 1].rows, buf |-> x.listed]
      BY <1>2, <1>18, <1>19, <2>2 DEF Seen
    <2> QED
      BY <1>2, <1>19, <2>1, <2>3 DEF n
  <1>21. x.target = x.ring[2].id
    <2>1. 2 \in 1..n
      BY ONLY <1>2
    <2>2. x.ring[2] = e.ring[2]
      BY <1>16, <2>1
    <2> QED
      BY <1>1, <1>2, <1>8, <1>14, <2>2 DEF Rest
  <1>22. Lent(x, W)
    BY <1>2, <1>14, <1>20, <1>21 DEF Lent, n
  <1>23. InMiniWindow(x)
    <2>1. 1 \in 1..n
      BY ONLY <1>2
    <2> QED
      BY <1>2, <1>16, <2>1 DEF InMiniWindow, JWindow
  <1>24. x.wins # 1
    <2>1. x.wins = (n + 1) - 1
      BY <1>1, <1>2, <1>14 DEF Rest
    <2> QED
      BY ONLY <1>2, <2>1
  <1>25. x.listed # None
    BY <1>3, <1>2, <1>18, SoundRing, BuffersDiffer DEF Buffers
  <1>26. x.start = e.start /\ e.live \subseteq x.live
    BY <1>1, <1>14 DEF Rest
  <1> QED
    BY <1>15, <1>22, <1>23, <1>24, <1>25, <1>26 DEF h


(* The only window shares the screen with the minibuffer's alone.          *)
LEMMA OnlyWindow ==
  ASSUME NEW e, Sound(e), InMiniWindow(e), Len(e.ring) = 2
  PROVE  e.ring[2].sy = e.top /\ e.ring[2].rows = e.height - 2 - e.top
  <1> DEFINE r == e.ring
  <1>1. /\ r \in Seq(Window) /\ Len(r) = 2 /\ DOMAIN r = 1..2 /\ r[1].id = MiniId
        /\ r[2] \in Window /\ Ring(r) /\ Tiling(r, e.height, e.top)
        /\ e.height \in Nat /\ e.top \in Nat /\ Plains(r) # {}
    BY SoundRing, EditorType DEF Sound, InMiniWindow, JWindow
  <1> HIDE DEF r
  <1>2. Plains(r) = {2}
    BY <1>1 DEF Plains
  <1>3. PICK b \in Plains(r) : /\ \A i \in Plains(r) : AtBottom(r[i], e.height) <=> i = b
                               /\ r[Below(r, b)].sy = e.top
    BY <1>1, RingLayout
  <1>4. b = 2 /\ Below(r, 2) = 2
    BY <1>1, <1>2, <1>3, RingFacts
  <1>5. AtBottom(r[2], e.height) /\ r[2].sy = e.top
    BY <1>2, <1>3, <1>4
  <1>6. r[2].rows \in Nat
    BY <1>1, WindowType
  <1>7. e.top + r[2].rows + 2 = e.height
    BY <1>5 DEF AtBottom
  <1>8. r[2].rows = e.height - 2 - e.top
    BY ONLY <1>1, <1>6, <1>7
  <1> QED
    BY <1>5, <1>8 DEF r

(* One window: it or its half shows the completions.                       *)
LEMMA CompleteHalves ==
  ASSUME NEW e, Sound(e), MiniOwn(e), InMiniWindow(e), CanSplit(e), e.listed = None,
         NEW row \in FoundRows(e), NEW several, several,
         NEW W, W \in Seq(SeenWindow), Same(e, W), Len(W) = 1,
         Completions \notin Shown(e.ring)
  PROVE  LET h == MiniComplete(e, several, row)
         IN /\ InMiniWindow(h) /\ h.start = e.start /\ e.live \subseteq h.live
            /\ h.listed # None /\ h.wins = 1 /\ Halved(h, W)
  <1> DEFINE s == SetBuffer(e, Completions)
             p == PopToBuffer(s, Completions, row)
             g == Listing(s, p)
             h == MiniComplete(e, several, row)
             k == Min(IndexOfId(g, MiniId))
  <1>1. Lists(e, s, p, g, h)
    <2> HIDE DEF s, p, g, h
    <2>1. s = SetBuffer(e, Completions) /\ p = PopToBuffer(s, Completions, row)
          /\ g = Listing(s, p) /\ h = MiniComplete(e, several, row)
      BY DEF s, p, g, h
    <2> QED
      BY <2>1, CompleteLists
  <1> HIDE DEF s, p, g, h
  <1>2. /\ Sound(g) /\ g.reading /\ g.listed = p.name /\ g.wins = Len(e.ring) - 1
        /\ g.height = e.height /\ g.top = e.top /\ g.start = e.start /\ e.live \subseteq g.live
        /\ g.ring[1].buf = Completions
        /\ \A i \in DOMAIN g.ring : i # 1 => g.ring[i].buf \in Shown(e.ring)
        /\ p.name \in Shown(e.ring) \ {Mini} /\ h = Select(g, k)
    BY <1>1 DEF Lists
  <1>3. Len(e.ring) = 2 /\ W[1] = Seen(e.ring[2])
    <2>1. 1 \in DOMAIN W
      BY Len(W) = 1
    <2> QED
      BY <2>1 DEF Same
  <1>4. DOMAIN e.ring = 1..2 /\ e.ring[1].buf = Mini
    BY <1>3, SoundRing DEF MiniOwn, Own, InMiniWindow, JWindow
  <1>5. p.name = e.ring[2].buf
    BY <1>2, <1>4 DEF Shown
  <1>6. p.name # None
    BY <1>4, <1>5, SoundRing, BuffersDiffer DEF Buffers
  <1>7. W[1] = [sy |-> e.top, rows |-> e.height - 2 - e.top, buf |-> g.listed]
    BY <1>2, <1>3, <1>5, OnlyWindow DEF Seen
  <1>8. k \in DOMAIN g.ring /\ g.ring[k].id = MiniId
    <2>1. PICK m \in DOMAIN g.ring : g.ring[m].id = MiniId
      BY <1>2 DEF Sound, HasMini
    <2> QED
      BY <1>2, <2>1, MiniFound
  <1> HIDE DEF k
  <1> DEFINE x == Select(g, k)
  <1>9. /\ Keeps(g, x) /\ Rest(g, x) /\ x.ring[1] = g.ring[k] /\ Len(x.ring) = Len(g.ring)
        /\ \A i \in DOMAIN x.ring : \E j \in DOMAIN g.ring : x.ring[i] = g.ring[j]
        /\ \A i \in DOMAIN g.ring : \E j \in DOMAIN x.ring : g.ring[i] = x.ring[j]
    <2>1. Sound(g) /\ k \in DOMAIN g.ring
      BY <1>2, <1>8
    <2> QED
      BY <2>1, SelectKeeps
  <1>10. h = x
    BY <1>2
  <1> HIDE DEF x
  <1>11. PICK c \in DOMAIN x.ring : g.ring[1] = x.ring[c]
    BY <1>2, <1>9, SoundRing
  <1>12. \A i \in DOMAIN x.ring : x.ring[i].buf = Completions <=> i = c
    <2>1. x.ring[c].buf = Completions
      BY <1>2, <1>11
    <2>2. ASSUME NEW i \in DOMAIN x.ring, x.ring[i].buf = Completions PROVE i = c
      <3>1. PICK j \in DOMAIN g.ring : x.ring[i] = g.ring[j]
        BY <1>9
      <3>2. j = 1
        BY <1>2, <2>2, <3>1
      <3>3. x.ring[i].id = x.ring[c].id
        BY <1>11, <3>1, <3>2
      <3> QED
        BY <1>9, <3>3 DEF Keeps, Sound, Ring
    <2> QED
      BY <2>1, <2>2
  <1>13. x.wins = 1
    <2>1. x.wins = 2 - 1
      BY <1>2, <1>3, <1>9 DEF Rest
    <2> QED
      BY <2>1
  <1>14. Halved(x, W)
    BY <1>2, <1>7, <1>9, <1>12 DEF Halved, Rest
  <1>15. InMiniWindow(x) /\ x.start = e.start /\ e.live \subseteq x.live /\ x.listed # None
    BY <1>2, <1>6, <1>8, <1>9 DEF Rest, InMiniWindow, JWindow
  <1> QED
    BY <1>10, <1>13, <1>14, <1>15 DEF h

(* mini_complete disturbs nothing, and what it shows is tidied away later. *)
LEMMA CompleteUndisturbed ==
  ASSUME NEW e, Sound(e), MiniOwn(e), InMiniWindow(e), CanSplit(e), Tidy(e),
         NEW row \in FoundRows(e), NEW several \in BOOLEAN, NEW v, Undisturbed(e, v)
  PROVE  Undisturbed(MiniComplete(e, several, row), v)
  <1> DEFINE h == MiniComplete(e, several, row)
             W == v.windows
  <1>1. CASE ~(several /\ e.listed = None)
    <2>1. /\ h.ring = e.ring /\ h.live = e.live \cup {Completions}
          /\ h.height = e.height /\ h.top = e.top
          /\ h.start = e.start /\ h.target = e.target /\ h.listed = e.listed
          /\ h.wins = e.wins /\ h.action = e.action
      BY <1>1, CompleteStays
    <2> HIDE DEF h
    <2>2. e.live \subseteq h.live
      BY <2>1
    <2>3. Undisturbed(h, v)
      BY <2>1, <2>2, StaysUndisturbed
    <2> QED
      BY <2>3 DEF h
  <1>2. CASE several /\ e.listed = None
    <2>1. /\ W \in Seq(SeenWindow) /\ Same(e, W) /\ Completions \notin Shown(e.ring)
          /\ v \in [windows: Seq(SeenWindow), cbuf: Buffers]
          /\ e.start = v.cbuf /\ e.start \in e.live
      BY <1>2 DEF Undisturbed, Tidy
    <2>2. Len(W) = 1 \/ Len(W) >= 2
      <3>1. Len(W) \in Nat /\ Len(e.ring) = Len(W) + 1
        BY <2>1 DEF Same
      <3>2. Len(W) # 0
        <4>1. ASSUME Len(W) = 0 PROVE FALSE
          <5>1. PICK i \in Plains(e.ring) : TRUE
            BY SoundRing
          <5>2. DOMAIN e.ring = 1..1
            BY <3>1, <4>1, SoundRing
          <5>3. i = 1
            BY <5>1, <5>2 DEF Plains
          <5> QED
            BY <5>1, <5>3 DEF Plains, InMiniWindow, JWindow
        <4> QED
          BY <4>1
      <3> DEFINE n == Len(W)
      <3>3. n \in Nat /\ n # 0
        BY <3>1, <3>2
      <3> HIDE DEF n
      <3>4. n = 1 \/ n >= 2
        BY ONLY <3>3
      <3> QED
        BY <3>4 DEF n
    <2> HIDE DEF W, h
    <2>3. CASE Len(W) = 1
      <3>1. /\ InMiniWindow(h) /\ h.start = e.start /\ e.live \subseteq h.live
            /\ h.listed # None /\ h.wins = 1 /\ Halved(h, W)
        BY <1>2, <2>1, <2>3, CompleteHalves DEF h
      <3>2. Undisturbed(h, v)
        BY <2>1, <3>1 DEF Undisturbed, W
      <3> QED
        BY <3>2 DEF h
    <2>4. CASE Len(W) >= 2
      <3>1. /\ InMiniWindow(h) /\ h.start = e.start /\ e.live \subseteq h.live
            /\ h.listed # None /\ h.wins # 1 /\ Lent(h, W)
        BY <1>2, <2>1, <2>4, CompleteLends DEF h
      <3>2. Undisturbed(h, v)
        BY <2>1, <3>1 DEF Undisturbed, W
      <3> QED
        BY <3>2 DEF h
    <2> QED
      BY <2>2, <2>3, <2>4
  <1> QED
    BY <1>1, <1>2

LEMMA CompleteTidy ==
  ASSUME NEW e, Sound(e), MiniOwn(e), InMiniWindow(e), CanSplit(e), Tidy(e),
         NEW row \in FoundRows(e), NEW several \in BOOLEAN
  PROVE  Tidy(MiniComplete(e, several, row))
  <1> DEFINE h == MiniComplete(e, several, row)
  <1>1. CASE ~(several /\ e.listed = None)
    <2>1. /\ h.ring = e.ring /\ h.cbuf = e.ring[1].buf /\ h.start = e.start
          /\ h.listed = e.listed /\ h.reading = e.reading
      BY <1>1, CompleteStays
    <2> HIDE DEF h
    <2>2. e.ring[1].buf \in Shown(e.ring)
      BY SoundRing DEF Shown
    <2>3. Tidy(h)
      BY <2>1, <2>2, TidyKept DEF NoneNew
    <2> QED
      BY <2>3 DEF h
  <1>2. CASE several /\ e.listed = None
    <2> DEFINE s == SetBuffer(e, Completions)
               p == PopToBuffer(s, Completions, row)
               g == Listing(s, p)
               k == Min(IndexOfId(g, MiniId))
    <2>1. Lists(e, s, p, g, h)
      <3> HIDE DEF s, p, g, h
      <3>1. s = SetBuffer(e, Completions) /\ p = PopToBuffer(s, Completions, row)
            /\ g = Listing(s, p) /\ h = MiniComplete(e, several, row)
        BY DEF s, p, g, h
      <3> QED
        BY <1>2, <3>1, CompleteLists
    <2> HIDE DEF s, p, g, h
    <2>2. /\ Sound(g) /\ g.reading /\ g.listed = p.name /\ g.start = e.start
          /\ p.name \in Shown(e.ring) \ {Mini} /\ h = Select(g, k)
      BY <2>1 DEF Lists
    <2>3. k \in DOMAIN g.ring
      <3>1. PICK m \in DOMAIN g.ring : g.ring[m].id = MiniId
        BY <2>2 DEF Sound, HasMini
      <3> QED
        BY <2>2, <3>1, MiniFound
    <2> HIDE DEF k
    <2>4. Rest(g, Select(g, k))
      BY <2>2, <2>3, SelectKeeps
    <2>5. h.listed = p.name /\ h.start = e.start /\ h.reading
      BY <2>2, <2>4 DEF Rest
    <2>6. Completions \notin Shown(e.ring) /\ e.start # Completions
      BY <1>2 DEF Tidy
    <2>7. p.name # None
      BY <2>2, SoundRing, BuffersDiffer DEF Shown, Buffers
    <2>8. Tidy(h)
      BY <2>2, <2>5, <2>6, <2>7 DEF Tidy
    <2> QED
      BY <2>8 DEF h
  <1> QED
    BY <1>1, <1>2


(* exit_minibuffer: the window that shows the completions gets its buffer  *)
(* back, and no other window is touched when they are killed.              *)
TakesBack(e, k, g) ==
  /\ Sound(g) /\ MiniOwn(g) /\ ~InMiniWindow(g) /\ g.reading
  /\ g.height = e.height /\ g.top = e.top /\ g.start = e.start /\ g.target = e.target
  /\ e.live \ {Completions} \subseteq g.live
  /\ Len(g.ring) = Len(e.ring)
  /\ g.ring[1].sy = e.ring[k].sy /\ g.ring[1].rows = e.ring[k].rows
  /\ g.ring[1].id = e.ring[k].id /\ g.ring[1].buf = e.listed
  /\ \A i \in DOMAIN e.ring : i # 1 => g.ring[i] = e.ring[From(Len(e.ring), k, i)]

LEMMA ExitTakesBack ==
  ASSUME NEW e, Sound(e), MiniOwn(e), InMiniWindow(e), CanSplit(e),
         e.listed # None, e.listed # Completions,
         NEW row \in FoundRows(e), NEW order, order \in Orders,
         NEW k, k \in DOMAIN e.ring, \A i \in DOMAIN e.ring : e.ring[i].buf = Completions <=> i = k,
         NEW p, p = PopToBuffer(e, Completions, row),
         NEW f, f = SwitchToBufferCmd(p.ed, e.listed),
         NEW g, g = KillBufferCmd(f, Completions, order)
  PROVE  TakesBack(e, k, g)
  <1> DEFINE n == Len(e.ring)
             q == p.ed
  <1>1. Completions \in Buffers /\ Completions \notin {Mini, Scratch}
    BY BuffersDiffer DEF Buffers
  <1>2. row \in Nat /\ row < e.height /\ Room(e.ring) /\ e.reading = TRUE
    BY FoundRowFits, CanSplitRoom, InMiniReads
  <1>3. /\ n \in Nat /\ DOMAIN e.ring = 1..n /\ k \in 1..n /\ 1 \in 1..n
        /\ e.ring[1].id = MiniId /\ e.ring[k] \in Window
    BY SoundRing DEF InMiniWindow, JWindow
  <1>4. k # 1 /\ e.ring[k].id # MiniId
    <2>1. e.ring[k].buf = Completions
      OBVIOUS
    <2>2. e.ring[k].id # MiniId
      BY <1>1, <2>1 DEF MiniOwn, Own
    <2> QED
      BY <1>3, <2>2
  <1>5. Showing(e, Completions) = {k}
    BY <1>4 DEF Showing
  <1>6. TurnsTo(e, Completions, k, p)
    BY <1>1, <1>4, <1>5, PopAt
  <1>7. /\ Keeps(e, q) /\ ~InMiniWindow(q) /\ q.live = e.live \cup {Completions}
        /\ q.reading = e.reading
    BY <1>1, <1>2, PopKeeps
  <1>8. /\ q.start = e.start /\ q.target = e.target /\ q.top = e.top /\ q.height = e.height
        /\ Len(q.ring) = n /\ q.ring[1] = [e.ring[k] EXCEPT !.buf = Completions]
        /\ \A i \in DOMAIN e.ring : i # 1 => q.ring[i] = e.ring[From(n, k, i)]
    BY <1>6 DEF TurnsTo
  <1>9. f = SwitchToBufferCmd(q, e.listed)
    OBVIOUS
  <1> HIDE DEF q
  <1>10. Sound(q) /\ MiniOwn(q) /\ e.listed \in Buffers /\ e.listed # Mini
    BY <1>7, EditorType DEF Keeps, Sound, MiniOwn
  <1>11. DOMAIN q.ring = 1..n
    BY <1>8, <1>10, SoundRing
  <1>12. /\ Sound(f) /\ f.live = q.live \cup {e.listed}
         /\ f.reading = q.reading /\ f.height = q.height
         /\ f.top = q.top /\ f.start = q.start /\ f.target = q.target /\ f.ring[1].buf = e.listed
         /\ f.ring[1].sy = q.ring[1].sy /\ f.ring[1].rows = q.ring[1].rows
         /\ f.ring[1].id = q.ring[1].id /\ Len(f.ring) = Len(q.ring)
         /\ \A i \in DOMAIN q.ring : i # 1 => f.ring[i] = q.ring[i]
         /\ MiniOwn(f)
    BY <1>7, <1>9, <1>10, SwitchKeeps
  <1>13. DOMAIN f.ring = 1..n
    BY <1>8, <1>12, SoundRing
  <1>14. \A i \in 2..n : From(n, k, i) \in 1..n /\ From(n, k, i) # k
    BY ONLY <1>3 DEF From
  <1>15. \A i \in DOMAIN f.ring : i # 1 => f.ring[i] = e.ring[From(n, k, i)]
    BY <1>3, <1>8, <1>11, <1>12, <1>13
  <1>16. \A i \in DOMAIN f.ring : f.ring[i].buf # Completions
    <2>1. ASSUME NEW i \in 1..n, i # 1 PROVE f.ring[i].buf # Completions
      <3>1. i \in 2..n
        BY ONLY <1>3, <2>1
      <3>2. From(n, k, i) \in DOMAIN e.ring /\ From(n, k, i) # k
        BY <1>3, <1>14, <3>1
      <3> QED
        BY <1>13, <1>15, <2>1, <3>2
    <2> QED
      BY <1>12, <1>13, <2>1
  <1>17. /\ Keeps(f, g) /\ g.live = f.live \ {Completions} /\ g.reading = f.reading
         /\ g.height = f.height /\ g.start = f.start /\ g.top = f.top /\ g.target = f.target
         /\ g.ring = f.ring
    BY <1>1, <1>12, <1>16, KillKeeps
  <1>18. q.ring[1].sy = e.ring[k].sy /\ q.ring[1].rows = e.ring[k].rows /\ q.ring[1].id = e.ring[k].id
    BY ONLY <1>1, <1>3, <1>8 DEF Window
  <1>19. Sound(g) /\ MiniOwn(g) /\ g.reading
    BY <1>2, <1>7, <1>12, <1>17 DEF Keeps
  <1>20. ~InMiniWindow(g)
    BY <1>4, <1>12, <1>17, <1>18 DEF InMiniWindow, JWindow
  <1>21. e.live \ {Completions} \subseteq g.live
    BY <1>7, <1>12, <1>17
  <1>22. /\ g.height = e.height /\ g.top = e.top /\ g.start = e.start /\ g.target = e.target
         /\ Len(g.ring) = Len(e.ring)
         /\ g.ring[1].sy = e.ring[k].sy /\ g.ring[1].rows = e.ring[k].rows
         /\ g.ring[1].id = e.ring[k].id /\ g.ring[1].buf = e.listed
    BY <1>8, <1>12, <1>17, <1>18
  <1>23. \A i \in DOMAIN e.ring : i # 1 => g.ring[i] = e.ring[From(n, k, i)]
    BY <1>3, <1>13, <1>15, <1>17
  <1> QED
    BY <1>19, <1>20, <1>21, <1>22, <1>23 DEF TakesBack, n

(* read_from_minibuffer_1 after its loop, as it is seen.                   *)
LEMMA LeaveViews ==
  ASSUME NEW e, Sound(e), InMiniWindow(e), NEW v,
         v \in [windows: Seq(SeenWindow), cbuf: Buffers],
         e.start = v.cbuf, e.start \in e.live, Len(e.ring) = Len(v.windows) + 1,
         e.target = e.ring[2].id \/ Len(e.ring) = 2,
         \A i \in DOMAIN v.windows : v.windows[i] = Seen(e.ring[i + 1])
  PROVE  View(LeaveMinibuffer(e)) = v
  <1> DEFINE f == LeaveMinibuffer(e)
             W == v.windows
  <1>1. /\ Keeps(e, f) /\ f.cbuf = e.start /\ Len(f.ring) = Len(e.ring) - 1
        /\ \A i \in DOMAIN f.ring : f.ring[i] = e.ring[i + 1]
    BY LeaveKeeps
  <1> HIDE DEF f
  <1>2. W \in Seq(SeenWindow) /\ Len(W) \in Nat /\ DOMAIN W = 1..Len(W)
    OBVIOUS
  <1>3. Len(f.ring) = Len(W) /\ DOMAIN f.ring = DOMAIN W
    <2>1. Len(f.ring) = (Len(W) + 1) - 1 /\ DOMAIN f.ring = 1..Len(f.ring)
      BY <1>1, SoundRing DEF Keeps
    <2> DEFINE n == Len(W)
    <2>2. n \in Nat /\ Len(f.ring) = (n + 1) - 1
      BY <1>2, <2>1
    <2> HIDE DEF n
    <2>3. Len(f.ring) = n
      BY ONLY <2>2
    <2> QED
      BY <1>2, <2>1, <2>3 DEF n
  <1> DEFINE V == [i \in DOMAIN f.ring |-> Seen(f.ring[i])]
  <1>4. View(f) = [windows |-> V, cbuf |-> f.cbuf]
    BY DEF View, Seen
  <1>5. V = W
    <2>1. \A i \in DOMAIN W : W[i] = Seen(f.ring[i])
      BY <1>1, <1>3
    <2>2. W = [i \in DOMAIN W |-> W[i]]
      BY <1>2
    <2> QED
      BY <1>3, <2>1, <2>2
  <1> HIDE DEF V
  <1>6. v = [windows |-> W, cbuf |-> e.start]
    OBVIOUS
  <1> HIDE DEF W
  <1>7. View(f) = v
    BY <1>1, <1>4, <1>5, <1>6
  <1> QED
    BY <1>7 DEF f


(* The minibuffer's window is the next: it is selected, and what was       *)
(* noted of the completions is forgotten.                                  *)
Forgets(h, y) ==
  /\ Sound(y) /\ InMiniWindow(y) /\ y.start = h.start /\ y.target = h.target /\ y.live = h.live
  /\ Len(y.ring) = Len(h.ring)
  /\ \A i \in DOMAIN y.ring : y.ring[i] = h.ring[IF i = Len(h.ring) THEN 1 ELSE i + 1]

LEMMA MiniNext ==
  ASSUME NEW h, Sound(h), ~InMiniWindow(h), 2 \in DOMAIN h.ring, h.ring[2].id = MiniId,
         NEW x, x = SelectMinibuffer(h), NEW y, y = [x EXCEPT !.listed = None, !.wins = 0]
  PROVE  Forgets(h, y)
  <1> DEFINE K == IndexOfId(h, MiniId)
             s == Select(h, 2)
  <1>1. K = {2} /\ Min(K) = 2
    BY MiniFound
  <1>2. x = s
    <2>1. x = SelectFirst(h, K)
      BY DEF SelectMinibuffer
    <2>2. 1 \notin K
      BY <1>1
    <2> HIDE DEF K
    <2> QED
      BY <1>1, <2>1, <2>2 DEF SelectFirst
  <1> HIDE DEF K
  <1>3. Len(h.ring) \in Nat /\ Len(h.ring) >= 2
    <2>1. Len(h.ring) \in Nat /\ 2 \in 1..Len(h.ring)
      BY SoundRing
    <2> QED
      BY ONLY <2>1
  <1>4. /\ Keeps(h, s) /\ Rest(h, s) /\ Len(s.ring) = Len(h.ring)
        /\ \A i \in DOMAIN s.ring : s.ring[i] = h.ring[IF i = Len(h.ring) THEN 1 ELSE i + 1]
    BY <1>3, SelectSecond
  <1> HIDE DEF s
  <1>5. Sound(x) /\ x \in Editor /\ x.cbuf \in x.live
    BY <1>2, <1>4 DEF Keeps, Sound
  <1>6. /\ y \in Editor /\ y.ring = x.ring /\ y.height = x.height /\ y.top = x.top
        /\ y.spare = x.spare /\ y.live = x.live /\ y.reading = x.reading /\ y.cbuf = x.cbuf
        /\ y.start = x.start /\ y.target = x.target
    BY ONLY <1>5, y = [x EXCEPT !.listed = None, !.wins = 0] DEF Editor
  <1>7. Sound(y)
    BY <1>5, <1>6, NotedKeeps
  <1>8. /\ y.start = h.start /\ y.target = h.target /\ y.live = h.live
        /\ Len(y.ring) = Len(h.ring)
        /\ \A i \in DOMAIN y.ring : y.ring[i] = h.ring[IF i = Len(h.ring) THEN 1 ELSE i + 1]
    BY <1>2, <1>4, <1>6 DEF Rest
  <1>9. InMiniWindow(y)
    <2>1. 1 \in DOMAIN y.ring
      BY <1>7, SoundRing
    <2>2. 1 # Len(h.ring)
      <3> DEFINE n == Len(h.ring)
      <3>1. n \in Nat /\ n >= 2
        BY <1>3
      <3> HIDE DEF n
      <3>2. 1 # n
        BY ONLY <3>1
      <3> QED
        BY <3>2 DEF n
    <2>3. y.ring[1] = h.ring[2]
      <3>1. 1 + 1 = 2
        OBVIOUS
      <3> QED
        BY <1>8, <2>1, <2>2, <3>1
    <2> QED
      BY <2>3 DEF InMiniWindow, JWindow
  <1> QED
    BY <1>7, <1>8, <1>9 DEF Forgets

(* The end of a reading that was not disturbed, in its three cases.        *)
LEMMA SameReturns ==
  ASSUME NEW e, Sound(e), NEW v, Undisturbed(e, v), e.listed = None
  PROVE  View(LeaveMinibuffer(e)) = v
  <1>1. Same(e, v.windows) /\ InMiniWindow(e) /\ e.start = v.cbuf /\ e.start \in e.live
        /\ v \in [windows: Seq(SeenWindow), cbuf: Buffers]
    BY DEF Undisturbed
  <1>2. /\ Len(e.ring) = Len(v.windows) + 1 /\ e.target = e.ring[2].id
        /\ \A i \in DOMAIN v.windows : v.windows[i] = Seen(e.ring[i + 1])
    BY <1>1 DEF Same
  <1> QED
    BY <1>1, <1>2, LeaveViews

LEMMA LentReturns ==
  ASSUME NEW e, Sound(e), Tidy(e), InMiniWindow(e), NEW v,
         v \in [windows: Seq(SeenWindow), cbuf: Buffers],
         e.start = v.cbuf, e.start \in e.live, Lent(e, v.windows),
         NEW g, TakesBack(e, Len(e.ring), g),
         NEW x, x = SelectMinibuffer(g), NEW y, y = [x EXCEPT !.listed = None, !.wins = 0]
  PROVE  View(LeaveMinibuffer(y)) = v
  <1> DEFINE W == v.windows
             n == Len(W)
  <1>1. /\ n \in Nat /\ n >= 2 /\ Len(e.ring) = n + 1 /\ e.target = e.ring[2].id
        /\ DOMAIN e.ring = 1..(n + 1) /\ e.ring[1].id = MiniId /\ DOMAIN W = 1..n
    BY SoundRing DEF Lent, InMiniWindow, JWindow
  <1>2. \A i \in DOMAIN W :
          IF i = n
          THEN W[i] = [sy |-> e.ring[i + 1].sy, rows |-> e.ring[i + 1].rows, buf |-> e.listed]
          ELSE W[i] = Seen(e.ring[i + 1])
    BY DEF Lent
  <1> HIDE DEF W, n
  <1>3. /\ Sound(g) /\ ~InMiniWindow(g) /\ g.start = e.start /\ g.target = e.target
        /\ e.live \ {Completions} \subseteq g.live /\ Len(g.ring) = n + 1
        /\ g.ring[1].sy = e.ring[n + 1].sy /\ g.ring[1].rows = e.ring[n + 1].rows
        /\ g.ring[1].buf = e.listed
        /\ \A i \in 1..(n + 1) : i # 1 => g.ring[i] = e.ring[From(n + 1, n + 1, i)]
    BY <1>1 DEF TakesBack
  <1>4. \A i \in 1..(n + 1) : i # 1 => g.ring[i] = e.ring[i - 1]
    <2>1. \A i \in 1..(n + 1) : i # 1 => From(n + 1, n + 1, i) = i - 1
      BY ONLY <1>1 DEF From
    <2> QED
      BY <1>3, <2>1
  <1>5. 2 \in 1..(n + 1) /\ 2 # 1 /\ 2 - 1 = 1 /\ 1 \in 1..(n + 1)
    BY ONLY <1>1
  <1>6. 2 \in DOMAIN g.ring /\ g.ring[2].id = MiniId
    <2>1. DOMAIN g.ring = 1..(n + 1)
      BY <1>3, SoundRing
    <2>2. g.ring[2] = e.ring[2 - 1]
      BY <1>4, <1>5
    <2> QED
      BY <1>1, <1>5, <2>1, <2>2
  <1>7. Forgets(g, y)
    BY <1>3, <1>6, MiniNext
  <1>8. /\ Sound(y) /\ InMiniWindow(y) /\ y.start = e.start /\ y.target = e.target
        /\ y.live = g.live /\ Len(y.ring) = n + 1 /\ DOMAIN y.ring = 1..(n + 1)
        /\ \A i \in 1..(n + 1) : y.ring[i] = g.ring[IF i = n + 1 THEN 1 ELSE i + 1]
    BY <1>3, <1>7, SoundRing DEF Forgets
  <1>9. \A i \in 1..n : y.ring[i] = e.ring[i]
    <2>1. ASSUME NEW i \in 1..n PROVE y.ring[i] = e.ring[i]
      <3>1. i \in 1..(n + 1) /\ i # n + 1 /\ i + 1 \in 1..(n + 1) /\ i + 1 # 1 /\ (i + 1) - 1 = i
        BY ONLY <1>1
      <3>2. y.ring[i] = g.ring[i + 1]
        BY <1>8, <3>1
      <3>3. g.ring[i + 1] = e.ring[(i + 1) - 1]
        BY <1>4, <3>1
      <3> QED
        BY <3>1, <3>2, <3>3
    <2> QED
      BY <2>1
  <1>10. y.ring[n + 1] = g.ring[1]
    <2>1. n + 1 \in 1..(n + 1)
      BY ONLY <1>1
    <2> QED
      BY <1>8, <2>1
  <1>11. y.target = y.ring[2].id
    <2>1. 2 \in 1..n
      BY ONLY <1>1
    <2> QED
      BY <1>1, <1>8, <1>9, <2>1
  <1>12. \A i \in DOMAIN W : W[i] = Seen(y.ring[i + 1])
    <2>1. ASSUME NEW i \in 1..n PROVE W[i] = Seen(y.ring[i + 1])
      <3>1. CASE i = n
        <4>1. W[n] = [sy |-> e.ring[n + 1].sy, rows |-> e.ring[n + 1].rows, buf |-> e.listed]
          BY <1>1, <1>2, <3>1
        <4>2. g.ring[1].sy = e.ring[n + 1].sy /\ g.ring[1].rows = e.ring[n + 1].rows
              /\ g.ring[1].buf = e.listed
          BY <1>3
        <4> QED
          BY ONLY <1>10, <3>1, <4>1, <4>2 DEF Seen
      <3>2. CASE i # n
        <4>1. i + 1 \in 1..n
          BY ONLY <1>1, <3>2
        <4> QED
          BY <1>1, <1>2, <1>9, <3>2, <4>1
      <3> QED
        BY <3>1, <3>2
    <2> QED
      BY <1>1, <2>1
  <1>13. y.start \in y.live
    BY <1>3, <1>8 DEF Tidy
  <1>14. Len(y.ring) = Len(v.windows) + 1 /\ y.start = v.cbuf
    BY <1>8 DEF W, n
  <1>15. \A i \in DOMAIN v.windows : v.windows[i] = Seen(y.ring[i + 1])
    BY <1>12 DEF W
  <1>16. Sound(y) /\ InMiniWindow(y)
    BY <1>8
  <1>17. v \in [windows: Seq(SeenWindow), cbuf: Buffers]
    OBVIOUS
  <1> QED
    BY ONLY <1>11, <1>13, <1>14, <1>15, <1>16, <1>17, LeaveViews

LEMMA HalvedReturns ==
  ASSUME NEW e, Sound(e), Tidy(e), NEW v,
         v \in [windows: Seq(SeenWindow), cbuf: Buffers],
         e.start = v.cbuf, e.start \in e.live, Halved(e, v.windows),
         NEW k, NEW g, TakesBack(e, k, g), NEW h, h = OneWindow(g),
         NEW x, x = SelectMinibuffer(h), NEW y, y = [x EXCEPT !.listed = None, !.wins = 0]
  PROVE  View(LeaveMinibuffer(y)) = v
  <1> DEFINE W == v.windows
  <1>1. /\ Sound(g) /\ ~InMiniWindow(g) /\ g.reading /\ g.start = e.start
        /\ g.height = e.height /\ g.top = e.top
        /\ e.live \ {Completions} \subseteq g.live /\ g.ring[1].buf = e.listed
    BY DEF TakesBack
  <1>2. /\ Keeps(g, h) /\ Rest(g, h) /\ h.ring[1].id = g.ring[1].id
        /\ h.ring[1].buf = g.ring[1].buf /\ h.ring[1].sy = g.top
        /\ h.ring[1].rows = g.height - 2 - g.top /\ Plains(h.ring) = {1} /\ Len(h.ring) \in {1, 2}
    BY <1>1, OneWindowKeeps
  <1>3. Sound(h) /\ ~InMiniWindow(h)
    BY <1>1, <1>2 DEF Keeps, InMiniWindow, JWindow
  <1>4. Len(h.ring) = 2 /\ DOMAIN h.ring = 1..2 /\ h.ring[2].id = MiniId
    <2>1. PICK m \in DOMAIN h.ring : h.ring[m].id = MiniId
      BY <1>1, <1>2, <1>3 DEF Sound, HasMini, Rest
    <2>2. m # 1 /\ DOMAIN h.ring = 1..Len(h.ring)
      BY <1>3, <2>1, SoundRing DEF InMiniWindow, JWindow
    <2>3. m = 2 /\ Len(h.ring) = 2
      BY <1>2, <2>1, <2>2
    <2> QED
      BY <2>1, <2>2, <2>3
  <1>5. Forgets(h, y)
    <2>1. 2 \in DOMAIN h.ring
      BY <1>4
    <2> QED
      BY <1>3, <1>4, <2>1, MiniNext
  <1>6. /\ Sound(y) /\ InMiniWindow(y) /\ y.start = h.start /\ y.live = h.live /\ Len(y.ring) = 2
        /\ DOMAIN y.ring = 1..2
        /\ \A i \in DOMAIN y.ring : y.ring[i] = h.ring[IF i = 2 THEN 1 ELSE i + 1]
    BY <1>4, <1>5, SoundRing DEF Forgets
  <1>7. y.ring[2] = h.ring[1]
    BY <1>6
  <1>8. Len(W) = 1 /\ DOMAIN W = 1..1
        /\ W[1] = [sy |-> e.top, rows |-> e.height - 2 - e.top, buf |-> e.listed]
    BY DEF Halved
  <1>9. W[1] = Seen(y.ring[2])
    BY <1>1, <1>2, <1>7, <1>8 DEF Seen
  <1>10. \A i \in DOMAIN W : W[i] = Seen(y.ring[i + 1])
    BY <1>8, <1>9
  <1>11. y.start = e.start /\ y.start \in y.live
    BY <1>1, <1>2, <1>6 DEF Rest, Tidy
  <1> QED
    <2>1. Len(y.ring) = 2 /\ Len(y.ring) = Len(v.windows) + 1 /\ y.start = v.cbuf
      BY <1>6, <1>8, <1>11
    <2>2. \A i \in DOMAIN v.windows : v.windows[i] = Seen(y.ring[i + 1])
      BY <1>10
    <2>3. Sound(y) /\ InMiniWindow(y)
      BY <1>6
    <2>4. v \in [windows: Seq(SeenWindow), cbuf: Buffers]
      OBVIOUS
    <2> QED
      BY ONLY <1>11, <2>1, <2>2, <2>3, <2>4, LeaveViews

LEMMA ExitReturns ==
  ASSUME NEW e, Sound(e), MiniOwn(e), Tidy(e), InMiniWindow(e), e.listed # None => CanSplit(e),
         NEW row \in FoundRows(e), NEW order, order \in Orders, NEW v, Undisturbed(e, v)
  PROVE  View(LeaveMinibuffer(ExitMinibuffer(e, row, order))) = v
  <1>1. CASE e.listed = None
    <2>1. ExitMinibuffer(e, row, order) = e
      BY <1>1 DEF ExitMinibuffer
    <2> QED
      BY <1>1, <2>1, SameReturns
  <1>2. CASE e.listed # None
    <2> DEFINE p == PopToBuffer(e, Completions, row)
               f == SwitchToBufferCmd(p.ed, e.listed)
               g == KillBufferCmd(f, Completions, order)
               h == IF e.wins = 1 THEN OneWindow(g) ELSE g
               x == SelectMinibuffer(h)
               y == [x EXCEPT !.listed = None, !.wins = 0]
    <2>1. ExitMinibuffer(e, row, order) = y
      BY <1>2 DEF ExitMinibuffer
    <2>2. /\ v \in [windows: Seq(SeenWindow), cbuf: Buffers]
          /\ e.start = v.cbuf /\ e.start \in e.live
          /\ IF e.wins = 1 THEN Halved(e, v.windows) ELSE Lent(e, v.windows)
      BY <1>2 DEF Undisturbed
    <2>3. p = PopToBuffer(e, Completions, row)
      OBVIOUS
    <2> HIDE DEF p
    <2>4. f = SwitchToBufferCmd(p.ed, e.listed)
      OBVIOUS
    <2> HIDE DEF f
    <2>5. g = KillBufferCmd(f, Completions, order)
      OBVIOUS
    <2> HIDE DEF g
    <2>6. e.listed # Completions /\ CanSplit(e)
      BY <1>2 DEF Tidy
    <2>7. CASE e.wins = 1
      <3>1. Halved(e, v.windows)
        BY <2>2, <2>7
      <3>2. PICK k \in DOMAIN e.ring : \A i \in DOMAIN e.ring : e.ring[i].buf = Completions <=> i = k
        BY <3>1 DEF Halved
      <3>3. TakesBack(e, k, g)
        BY <1>2, <2>3, <2>4, <2>5, <2>6, <3>2, ExitTakesBack
      <3>4. h = OneWindow(g)
        BY <2>7
      <3> HIDE DEF h
      <3>5. x = SelectMinibuffer(h)
        OBVIOUS
      <3> HIDE DEF x
      <3>6. y = [x EXCEPT !.listed = None, !.wins = 0]
        OBVIOUS
      <3> HIDE DEF y
      <3>7. View(LeaveMinibuffer(y)) = v
        BY <2>2, <3>1, <3>3, <3>4, <3>5, <3>6, HalvedReturns
      <3> QED
        BY <2>1, <3>7
    <2>8. CASE e.wins # 1
      <3> DEFINE k == Len(e.ring)
      <3>1. Lent(e, v.windows)
        BY <2>2, <2>8
      <3>2. k \in DOMAIN e.ring /\ \A i \in DOMAIN e.ring : e.ring[i].buf = Completions <=> i = k
        <4> DEFINE n == Len(v.windows)
        <4>1. n \in Nat /\ n >= 2 /\ k = n + 1 /\ DOMAIN e.ring = 1..(n + 1)
              /\ DOMAIN v.windows = 1..n
          BY <2>2, <3>1, SoundRing DEF Lent
        <4>2. \A i \in 1..n : e.ring[i + 1].buf = Completions <=> i = n
          BY <3>1, <4>1 DEF Lent
        <4>3. e.ring[1].buf # Completions
          <5>1. 1 \in DOMAIN e.ring /\ e.ring[1].id = MiniId
            BY SoundRing DEF InMiniWindow, JWindow
          <5> QED
            BY <5>1, BuffersDiffer DEF MiniOwn, Own
        <4> HIDE DEF n, k
        <4>4. ASSUME NEW i \in 1..(n + 1) PROVE e.ring[i].buf = Completions <=> i = n + 1
          <5>1. CASE i = 1
            <6>1. 1 # n + 1
              BY ONLY <4>1
            <6> QED
              BY <4>3, <5>1, <6>1
          <5>2. CASE i # 1
            <6>1. i - 1 \in 1..n /\ (i - 1) + 1 = i /\ (i - 1 = n <=> i = n + 1)
              BY ONLY <4>1, <5>2
            <6>2. e.ring[(i - 1) + 1].buf = Completions <=> i - 1 = n
              BY <4>2, <6>1
            <6> QED
              BY <6>1, <6>2
          <5> QED
            BY <5>1, <5>2
        <4>5. n + 1 \in 1..(n + 1)
          BY ONLY <4>1
        <4> QED
          BY <4>1, <4>4, <4>5
      <3>3. TakesBack(e, k, g)
        <4> HIDE DEF k
        <4> QED
          BY <1>2, <2>3, <2>4, <2>5, <2>6, <3>2, ExitTakesBack
      <3>4. h = g
        BY <2>8
      <3>5. x = SelectMinibuffer(g)
        BY <3>4
      <3> HIDE DEF h, x
      <3>6. y = [x EXCEPT !.listed = None, !.wins = 0]
        OBVIOUS
      <3> HIDE DEF y
      <3>7. View(LeaveMinibuffer(y)) = v
        BY <2>2, <3>1, <3>3, <3>5, <3>6, LentReturns
      <3> QED
        BY <2>1, <3>7
    <2> QED
      BY <2>7, <2>8
  <1> QED
    BY <1>1, <1>2


(* The commands on windows show nothing new.                               *)
LEMMA OtherShows ==
  ASSUME NEW e, Sound(e) PROVE NoneNew(e, OtherWindow(e))
  <1> DEFINE k == IF NumWindows(e) = 1 THEN 1 ELSE 2
  <1>1. k \in DOMAIN e.ring
    <2> DEFINE n == Len(e.ring)
    <2>1. n \in Nat /\ 1 \in 1..n /\ DOMAIN e.ring = 1..n
      BY SoundRing
    <2> HIDE DEF n
    <2>2. (IF n = 1 THEN 1 ELSE 2) \in 1..n
      BY ONLY <2>1
    <2> QED
      BY <2>1, <2>2 DEF NumWindows, n
  <1> HIDE DEF k
  <1>2. NoneNew(e, Select(e, k))
    BY <1>1, SelectShows
  <1> QED
    BY <1>2 DEF OtherWindow, k

LEMMA SplitShows ==
  ASSUME NEW e, Sound(e), CanSplit(e), NEW row \in FoundRows(e)
  PROVE  NoneNew(e, SplitWindow(e, row))
  <1>1. CASE ~InMiniWindow(e)
    <2>1. row \in Nat /\ row < e.height /\ Room(e.ring)
      BY FoundRowFits, CanSplitRoom
    <2> QED
      BY <1>1, <2>1, SplitKeeps
  <1>2. CASE InMiniWindow(e)
    <2>1. JWindow(e).rows = 1
      BY <1>2, SoundRing DEF Sound, MiniLast, InMiniWindow, JWindow
    <2>2. SplitWindow(e, row) = e
      BY <2>1 DEF SplitWindow
    <2> QED
      BY <2>2 DEF NoneNew
  <1> QED
    BY <1>1, <1>2

LEMMA OneShows ==
  ASSUME NEW e, Sound(e) PROVE NoneNew(e, OneWindow(e))
  <1>1. CASE ~InMiniWindow(e)
    BY <1>1, OneWindowKeeps
  <1>2. CASE InMiniWindow(e)
    <2>1. OneWindow(e) = e
      BY <1>2 DEF OneWindow
    <2> QED
      BY <2>1 DEF NoneNew
  <1> QED
    BY <1>1, <1>2

(* At the end of the reading the completions are gone.                     *)
LEMMA ExitTidy ==
  ASSUME NEW e, Sound(e), Tidy(e), InMiniWindow(e), e.listed # None => CanSplit(e),
         NEW row \in FoundRows(e), NEW order, order \in Orders
  PROVE  Tidy(LeaveMinibuffer(ExitMinibuffer(e, row, order)))
  <1> DEFINE g == ExitMinibuffer(e, row, order)
             f == LeaveMinibuffer(g)
  <1>1. /\ Keeps(e, g) /\ InMiniWindow(g) /\ g.listed = None
        /\ e.listed = None => g = e
        /\ e.listed # None => Completions \notin g.live
    BY ExitKeeps
  <1> HIDE DEF g
  <1>2. /\ Keeps(g, f) /\ f.live = g.live /\ f.listed = g.listed
        /\ f.start = None /\ f.reading = FALSE
        /\ Shown(f.ring) \subseteq Shown(g.ring) /\ f.cbuf \in Shown(g.ring) \cup {g.start}
    BY <1>1, LeaveKeeps DEF Keeps
  <1> HIDE DEF f
  <1>3. None # Completions
    BY BuffersDiffer
  <1>4. Completions \notin Shown(f.ring) \cup {f.cbuf}
    <2>1. CASE e.listed = None
      BY <1>1, <1>2, <2>1 DEF Tidy
    <2>2. CASE e.listed # None
      <3>1. Shown(f.ring) \subseteq f.live /\ f.cbuf \in f.live
        BY <1>2 DEF Keeps, Sound
      <3> QED
        BY <1>1, <1>2, <2>2, <3>1
    <2> QED
      BY <2>1, <2>2
  <1>5. Tidy(f)
    BY <1>1, <1>2, <1>3, <1>4 DEF Tidy
  <1> QED
    BY <1>5 DEF f, g

(* The end of a key may select the completions again, if they are shown.   *)
LEMMA EndOfKeyTidy ==
  ASSUME NEW e, Sound(e), Tidy(e)
  PROVE  Tidy(SwitchToBufferCmd(e, IF JWindow(e).buf \in e.live THEN JWindow(e).buf ELSE Scratch))
  <1> DEFINE b == JWindow(e).buf
             f == SwitchToBufferCmd(e, b)
  <1>1. b \in Buffers /\ b \in e.live /\ b \in Shown(e.ring)
    BY SoundRing DEF JWindow, Shown
  <1> HIDE DEF b
  <1>2. SwitchToBufferCmd(e, IF b \in e.live THEN b ELSE Scratch) = f
    BY <1>1
  <1>3. CASE b # Completions
    <2>1. Tidy(f)
      BY <1>1, <1>3, SwitchTidy
    <2> QED
      BY <1>2, <2>1 DEF b
  <1>4. CASE b = Completions
    <2>1. f.listed = e.listed /\ f.reading = e.reading /\ f.start = e.start
      BY <1>1, SwitchKeeps
    <2> HIDE DEF f
    <2>2. e.listed # None
      BY <1>1, <1>4 DEF Tidy
    <2>3. Tidy(f)
      BY <2>1, <2>2 DEF Tidy
    <2> QED
      BY <1>2, <2>3 DEF b
  <1> QED
    BY <1>3, <1>4

LEMMA InitTidy ==
  ASSUME Init PROVE Tidy(ed)
  <1>1. PICK h \in Heights :
          LET w == [id |-> 1, sy |-> 1, rows |-> h - 3, buf |-> Scratch]
              m == [id |-> MiniId, sy |-> h - 1, rows |-> 1, buf |-> Mini]
          IN ed = [ring |-> <<w>>, spare |-> m, height |-> h, top |-> 1,
                   live |-> {Scratch, Mini}, cbuf |-> Scratch,
                   reading |-> FALSE, action |-> None, target |-> None, start |-> None,
                   listed |-> None, wins |-> 0]
    BY DEF Init
  <1> DEFINE w == [id |-> 1, sy |-> 1, rows |-> h - 3, buf |-> Scratch]
             r == <<w>>
  <1>2. w.buf = Scratch
    OBVIOUS
  <1>3. ed.ring = r /\ ed.cbuf = Scratch /\ ed.start = None /\ ed.listed = None
    BY <1>1
  <1> HIDE DEF w
  <1>4. DOMAIN r = {1} /\ r[1] = w
    OBVIOUS
  <1> HIDE DEF r
  <1>5. Shown(ed.ring) = {Scratch}
    BY <1>2, <1>3, <1>4 DEF Shown
  <1>6. Scratch # Completions /\ None # Completions
    BY BuffersDiffer
  <1> QED
    BY <1>3, <1>5, <1>6 DEF Tidy

(* Every step.                                                             *)
LEMMA StepTidy ==
  ASSUME "across" \notin Lapses, Sound(ed), MiniOwn(ed), Tidy(ed), [Next]_vars
  PROVE  Tidy(ed')
  <1>1. ASSUME NEW f, Keeps(ed, f), Rest(ed, f), NoneNew(ed, f), ed' = f
        PROVE  Tidy(ed')
    BY <1>1, TidyKept DEF Rest
  <1>3. CASE Split
    <2>1. PICK row \in FoundRows(ed) : CanSplit(ed) /\ ed' = SplitWindow(ed, row)
      BY <1>3 DEF Split, Becomes
    <2>2. /\ Keeps(ed, SplitWindow(ed, row)) /\ Rest(ed, SplitWindow(ed, row))
          /\ NoneNew(ed, SplitWindow(ed, row))
      BY <2>1, SplitStep, SplitShows
    <2> QED
      BY <1>1, <2>1, <2>2
  <1>4. CASE Other
    BY <1>1, <1>4, OtherKeeps, OtherShows DEF Other, Becomes
  <1>5. CASE One
    BY <1>1, <1>5, OneStep, OneShows DEF One, Becomes
  <1>6. CASE Enlarge
    <2>1. ~Across(ed) /\ ed' = EnlargeWindow(ed)
      BY <1>6 DEF Enlarge, Becomes
    <2>2. /\ Keeps(ed, EnlargeWindow(ed)) /\ Rest(ed, EnlargeWindow(ed))
          /\ NoneNew(ed, EnlargeWindow(ed))
      BY <2>1, EnlargeKeeps
    <2> QED
      BY <1>1, <2>1, <2>2
  <1>7. CASE Delete
    <2>1. /\ Keeps(ed, DeleteWindow(ed)) /\ Rest(ed, DeleteWindow(ed))
          /\ NoneNew(ed, DeleteWindow(ed))
      BY DeleteKeeps
    <2> QED
      BY <1>1, <1>7, <2>1 DEF Delete, Becomes
  <1>8. ASSUME NEW h \in Heights, Resize(h) PROVE Tidy(ed')
    <2> DEFINE f == Resized(ed, h)
    <2>1. f.listed = ed.listed /\ f.reading = ed.reading /\ f.start = ed.start /\ NoneNew(ed, f)
      BY ResizedKeeps
    <2>2. ed' = f
      BY <1>8 DEF Resize, Becomes
    <2> HIDE DEF f
    <2> QED
      BY <2>1, <2>2, TidyKept
  <1>9. ASSUME NEW on \in BOOLEAN, MenuBar(on) PROVE Tidy(ed')
    <2> DEFINE f == EnableMenuBar(ed, on)
    <2>1. f.listed = ed.listed /\ f.reading = ed.reading /\ f.start = ed.start /\ NoneNew(ed, f)
      BY MenuBarKeeps
    <2>2. ed' = f
      BY <1>9 DEF MenuBar, Becomes
    <2> HIDE DEF f
    <2> QED
      BY <2>1, <2>2, TidyKept
  <1>10. ASSUME NEW b \in Files, Setbuf(b) PROVE Tidy(ed')
    <2>1. b \in Buffers /\ b # Completions
      BY BuffersDiffer DEF Buffers
    <2> QED
      BY <1>10, <2>1, SetBufferTidy DEF Setbuf, Becomes
  <1>11. ASSUME NEW b \in Files \cup {Scratch}, Sw2buf(b) PROVE Tidy(ed')
    <2>1. b \in Buffers /\ b # Completions
      BY BuffersDiffer DEF Buffers
    <2> QED
      BY <1>11, <2>1, SwitchTidy DEF Sw2buf, Becomes
  <1>12. ASSUME NEW b \in Files \cup {Scratch}, Pop2buf(b) PROVE Tidy(ed')
    <2>1. PICK row \in FoundRows(ed) : CanSplit(ed) /\ ed' = PopToBuffer(ed, b, row).ed
      BY <1>12 DEF Pop2buf, Becomes
    <2>2. b \in Buffers /\ b # Mini /\ b # Completions
      BY BuffersDiffer DEF Buffers
    <2>3. row \in Nat /\ row < ed.height /\ Room(ed.ring)
      BY <2>1, FoundRowFits, CanSplitRoom
    <2>4. Tidy(PopToBuffer(ed, b, row).ed)
      BY <2>2, <2>3, PopTidy
    <2> QED
      BY <2>1, <2>4
  <1>13. ASSUME NEW b \in Files \cup {Completions}, Delbuf(b) PROVE Tidy(ed')
    <2>1. PICK order \in Orders : ed' = KillBufferCmd(ed, b, order)
      BY <1>13 DEF Delbuf, Becomes
    <2>2. b \notin {Mini, Scratch}
      BY BuffersDiffer
    <2> QED
      BY <2>1, <2>2, KillTidy
  <1>14. CASE Read
    BY <1>14, ReadTidy DEF Read
  <1>15. ASSUME NEW several \in BOOLEAN, Complete(several) PROVE Tidy(ed')
    <2>1. PICK row \in FoundRows(ed) : /\ InMiniWindow(ed) /\ CanSplit(ed)
                                       /\ ed' = MiniComplete(ed, several, row)
      BY <1>15 DEF Complete
    <2> QED
      BY <2>1, CompleteTidy
  <1>16. CASE Exit
    <2>1. PICK row \in FoundRows(ed), order \in Orders :
             /\ InMiniWindow(ed) /\ (ed.listed # None => CanSplit(ed))
             /\ ed' = LeaveMinibuffer(ExitMinibuffer(ed, row, order))
      BY <1>16 DEF Exit
    <2> QED
      BY <2>1, ExitTidy
  <1>17. CASE EndOfKey
    BY <1>17, EndOfKeyTidy DEF EndOfKey, Becomes
  <1>18. CASE UNCHANGED vars
    BY <1>18 DEF vars
  <1> QED
    BY <1>3, <1>4, <1>5, <1>6, <1>7, <1>8, <1>9, <1>10, <1>11, <1>12, <1>13, <1>14, <1>15,
       <1>16, <1>17, <1>18 DEF Next

(* What was on the screen when a quiet reading began is what it returns to.*)
Quiet(e, q) == q # None => Undisturbed(e, q)

LEMMA StepQuiet ==
  ASSUME Sound(ed), MiniOwn(ed), Tidy(ed), Quiet(ed, quiet), [Next]_vars
  PROVE  Quiet(ed', quiet')
  <1>1. ASSUME NEW f, Becomes(f) PROVE quiet' = None
    BY <1>1 DEF Becomes
  <1>2. ASSUME quiet' = None PROVE Quiet(ed', quiet')
    BY <1>2 DEF Quiet
  <1>3. CASE Read
    <2>1. CASE ed.reading
      BY <1>2, <1>3, <2>1 DEF Read
    <2>2. CASE ~ed.reading
      <3>1. ed.listed = None
        BY <2>2 DEF Tidy
      <3>2. Undisturbed(ReadFromMinibuffer(ed), View(ed))
        BY <2>2, <3>1, ReadUndisturbed
      <3> QED
        BY <1>3, <2>2, <3>2 DEF Read, Quiet
    <2> QED
      BY <2>1, <2>2
  <1>4. ASSUME NEW several \in BOOLEAN, Complete(several) PROVE Quiet(ed', quiet')
    <2>1. PICK row \in FoundRows(ed) : /\ InMiniWindow(ed) /\ CanSplit(ed)
                                       /\ ed' = MiniComplete(ed, several, row)
      BY <1>4 DEF Complete
    <2>2. quiet' = quiet
      BY <1>4 DEF Complete
    <2>3. Undisturbed(ed, quiet) => Undisturbed(MiniComplete(ed, several, row), quiet)
      BY <2>1, CompleteUndisturbed
    <2> QED
      BY <2>1, <2>2, <2>3 DEF Quiet
  <1>5. CASE Exit
    BY <1>2, <1>5 DEF Exit
  <1>6. CASE UNCHANGED vars
    BY <1>6 DEF vars, Quiet
  <1>7. CASE Next /\ ~Read /\ ~Exit /\ ~(\E several \in BOOLEAN : Complete(several))
    <2>1. \E f : Becomes(f)
      BY <1>7 DEF Next, Split, Other, One, Enlarge, Delete, Resize, MenuBar, Setbuf, Sw2buf,
                  Pop2buf, Delbuf, EndOfKey
    <2> QED
      BY <1>1, <1>2, <2>1
  <1> QED
    BY <1>3, <1>4, <1>5, <1>6, <1>7

-----------------------------------------------------------------------------
(* The theorems.                                                           *)

(* In every run in which enlarge_window is not called across the           *)
(* minibuffer's window and the buffer that Last_Completion_Buffer points   *)
(* to is not deleted: the windows share the screen and show live buffers,  *)
(* whatever their number, the heights of the screen and the buffers.       *)
THEOREM WindowsScreenSound ==
  ASSUME "across" \notin Lapses, "listed" \notin Lapses
  PROVE  Spec => []ScreenSound
  <1> DEFINE I == Sound(ed) /\ Listed(ed)
  <1>1. Init => I
    BY InitSound
  <1>2. I /\ [Next]_vars => I'
    <2>1. ASSUME I, [Next]_vars PROVE Sound(ed') /\ Listed(ed')
      BY <2>1, StepKeeps
    <2> QED
      BY <2>1
  <1>3. I => ScreenSound
    BY SoundScreen
  <1> HIDE DEF I
  <1> QED
    BY <1>1, <1>2, <1>3, PTL DEF Spec

(* In every run in which enlarge_window is not called across the           *)
(* minibuffer's window and no other buffer is selected in it: it is in the *)
(* ring, once and on the last row, while something is read and only then,  *)
(* and what it shows is the minibuffer.                                    *)
THEOREM WindowsMiniInPlace ==
  ASSUME "across" \notin Lapses, "mini" \notin Lapses
  PROVE  Spec => []MiniInPlace
  <1> DEFINE I == Sound(ed) /\ MiniOwn(ed)
  <1>1. Init => I
    BY InitSound
  <1>2. I /\ [Next]_vars => I'
    <2>1. ASSUME I, [Next]_vars PROVE Sound(ed') /\ MiniOwn(ed')
      BY <2>1, StepKeeps
    <2> QED
      BY <2>1
  <1>3. I => MiniInPlace
    BY OwnInPlace
  <1> HIDE DEF I
  <1> QED
    BY <1>1, <1>2, <1>3, PTL DEF Spec

(* pop_to_buffer never takes away the only view of the buffer that JWindow *)
(* shows, while nothing is read: that window goes on to show it, or where  *)
(* it is the only one and large enough, one of its halves does.            *)
THEOREM WindowsPopKeepsCurrent ==
  ASSUME "across" \notin Lapses
  PROVE  Spec => PopKeepsCurrent
  <1> DEFINE I == Sound(ed)
             A == (\E b \in Files \cup {Scratch} : Pop2buf(b))
                  /\ ~ed.reading /\ (NumWindows(ed) > 1 \/ JWindow(ed).rows >= 5)
                  => (\E w \in ToSet(ed'.ring) :
                        w.buf = JWindow(ed).buf /\ (NumWindows(ed) > 1 => w.id = JWindow(ed).id))
  <1>1. Init => I
    BY InitSound
  <1>2. I /\ [Next]_vars => I'
    <2>1. ASSUME I, [Next]_vars PROVE Sound(ed')
      BY <2>1, StepKeeps
    <2> QED
      BY <2>1
  <1>3. I /\ [Next]_vars => [A]_vars
    <2>1. ASSUME Sound(ed), NEW b \in Files \cup {Scratch}, Pop2buf(b), ~ed.reading,
                 NumWindows(ed) > 1 \/ JWindow(ed).rows >= 5
          PROVE  \E w \in ToSet(ed'.ring) :
                   w.buf = JWindow(ed).buf /\ (NumWindows(ed) > 1 => w.id = JWindow(ed).id)
      <3>1. PICK row \in FoundRows(ed) : CanSplit(ed) /\ ed' = PopToBuffer(ed, b, row).ed
        BY <2>1 DEF Pop2buf, Becomes
      <3>2. b \in Buffers /\ b # Mini
        BY BuffersDiffer DEF Buffers
      <3>3. row \in Nat /\ row < ed.height /\ Room(ed.ring)
        BY <2>1, <3>1, FoundRowFits, CanSplitRoom
      <3>4. ~ed.reading /\ (Len(ed.ring) > 1 \/ JWindow(ed).rows >= 5)
        BY <2>1 DEF NumWindows
      <3> DEFINE p == PopToBuffer(ed, b, row)
      <3>5. \E j \in DOMAIN p.ed.ring :
              /\ p.ed.ring[j].buf = ed.ring[1].buf
              /\ Len(ed.ring) > 1 => p.ed.ring[j].id = ed.ring[1].id
        <4> HIDE DEF p
        <4> QED
          BY <2>1, <3>2, <3>3, <3>4, PopKeeps DEF p
      <3>6. ed' = p.ed
        BY <3>1
      <3> HIDE DEF p
      <3>7. PICK j \in DOMAIN ed'.ring :
              /\ ed'.ring[j].buf = ed.ring[1].buf
              /\ Len(ed.ring) > 1 => ed'.ring[j].id = ed.ring[1].id
        BY <3>5, <3>6
      <3>8. ed'.ring[j] \in ToSet(ed'.ring)
        BY DEF ToSet
      <3> QED
        BY <3>7, <3>8 DEF JWindow, NumWindows
    <2> QED
      BY <2>1
  <1> HIDE DEF I, A
  <1>4. Spec => [][A]_vars
    BY <1>1, <1>2, <1>3, PTL DEF Spec
  <1> QED
    BY <1>4 DEF PopKeepsCurrent, A

(* Where enlarge_window is not called across the minibuffer's window and   *)
(* no other buffer is selected in it: a reading in which nothing but the   *)
(* minibuffer's own commands is used leaves the windows, the buffers they  *)
(* show and the current buffer as it found them, whether or not            *)
(* completions were shown, in a half of the only window or in the last of  *)
(* several.                                                                *)
THEOREM WindowsReadLeavesNoTrace ==
  ASSUME "across" \notin Lapses, "mini" \notin Lapses
  PROVE  Spec => ReadLeavesNoTrace
  <1> DEFINE I == Sound(ed) /\ MiniOwn(ed) /\ Tidy(ed) /\ Quiet(ed, quiet)
             A == Exit /\ quiet # None => View(ed') = quiet
  <1>1. Init => I
    <2>1. ASSUME Init PROVE Quiet(ed, quiet)
      BY <2>1 DEF Init, Quiet
    <2> QED
      BY <2>1, InitSound, InitTidy
  <1>2. I /\ [Next]_vars => I'
    <2>1. ASSUME I, [Next]_vars
          PROVE  Sound(ed') /\ MiniOwn(ed') /\ Tidy(ed') /\ Quiet(ed', quiet')
      BY <2>1, StepKeeps, StepTidy, StepQuiet
    <2> QED
      BY <2>1
  <1>3. I /\ [Next]_vars => [A]_vars
    <2>1. ASSUME I, Exit, quiet # None PROVE View(ed') = quiet
      <3>1. PICK row \in FoundRows(ed), order \in Orders :
               /\ InMiniWindow(ed) /\ (ed.listed # None => CanSplit(ed))
               /\ ed' = LeaveMinibuffer(ExitMinibuffer(ed, row, order))
        BY <2>1 DEF Exit
      <3>2. Sound(ed) /\ MiniOwn(ed) /\ Tidy(ed) /\ Undisturbed(ed, quiet)
        BY <2>1 DEF Quiet
      <3> QED
        BY <3>1, <3>2, ExitReturns
    <2> QED
      BY <2>1
  <1> HIDE DEF I, A
  <1>4. Spec => [][A]_vars
    BY <1>1, <1>2, <1>3, PTL DEF Spec
  <1> QED
    BY <1>4 DEF ReadLeavesNoTrace, A
=============================================================================
