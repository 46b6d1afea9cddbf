-------------------------- MODULE SmallPartsProofs --------------------------
(***************************************************************************)
(* Proofs about three small parts that share neither state nor operations: *)
(*                                                                         *)
(*   Hooks, for any lists, functions and depth of runs;                    *)
(*   Abbrev, for any tables, buffers and abbreviations;                    *)
(*   FileLock, for any number of processes on any machines and any bound   *)
(*   on the commands.                                                      *)
(***************************************************************************)
EXTENDS Hooks, Abbrev, FileLock, FiniteSetTheorems, SequenceTheorems,
        WellFoundedInduction, NaturalsInduction, TLAPS

-----------------------------------------------------------------------------
(* Sequences.                                                              *)

LEMMA Removed ==
  ASSUME NEW S, NEW s \in Seq(S), NEW i \in 1..Len(s)
  PROVE  /\ RemoveAt(s, i) \in Seq(S)
         /\ Len(RemoveAt(s, i)) = Len(s) - 1
         /\ \A j \in 1..(Len(s) - 1) : RemoveAt(s, i)[j] = IF j < i THEN s[j] ELSE s[j + 1]
  <1> DEFINE a == SubSeq(s, 1, i - 1)
             b == SubSeq(s, i + 1, Len(s))
  <1>1. Len(s) \in Nat /\ i \in Int /\ 1 <= i /\ i <= Len(s)
    OBVIOUS
  <1>2. /\ a \in Seq(S) /\ Len(a) = i - 1
        /\ \A j \in 1..(i - 1) : a[j] = s[j]
    <2>1. \A j \in 1..(i - 1) : s[j] \in S
      BY <1>1, ElementOfSeq
    <2> QED
      BY <1>1, <2>1, SubSeqProperties
  <1>3. /\ b \in Seq(S) /\ Len(b) = Len(s) - i
        /\ \A j \in 1..(Len(s) - i) : b[j] = s[i + j]
    <2>1. \A j \in (i + 1)..Len(s) : s[j] \in S
      BY <1>1, ElementOfSeq
    <2>2. /\ b \in Seq(S) 
          /\ Len(b) = IF i + 1 <= Len(s) THEN Len(s) - (i + 1) + 1 ELSE 0
          /\ \A j \in 1..(Len(s) - (i + 1) + 1) : b[j] = s[i + 1 + j - 1]
      BY <1>1, <2>1, SubSeqProperties
    <2> QED
      BY <1>1, <2>2
  <1>4. RemoveAt(s, i) = a \o b
    BY DEF RemoveAt
  <1> HIDE DEF a, b
  <1>5. /\ a \o b \in Seq(S)
        /\ Len(a \o b) = Len(a) + Len(b)
        /\ \A j \in 1..(Len(a) + Len(b)) : (a \o b)[j] = IF j <= Len(a) THEN a[j] ELSE b[j - Len(a)]
    BY <1>2, <1>3, ConcatProperties
  <1> QED
    BY <1>1, <1>2, <1>3, <1>4, <1>5

LEMMA Prepended ==
  ASSUME NEW S, NEW s \in Seq(S), NEW f \in S
  PROVE  /\ <<f>> \o s \in Seq(S)
         /\ Len(<<f>> \o s) = Len(s) + 1
         /\ \A j \in 1..(Len(s) + 1) : (<<f>> \o s)[j] = IF j = 1 THEN f ELSE s[j - 1]
  <1>1. <<f>> \in Seq(S) /\ Len(<<f>>) = 1 /\ <<f>>[1] = f
    OBVIOUS
  <1> QED
    BY <1>1, ConcatProperties

LEMMA Appended ==
  ASSUME NEW S, NEW s \in Seq(S), NEW f \in S
  PROVE  /\ Append(s, f) \in Seq(S)
         /\ Len(Append(s, f)) = Len(s) + 1
         /\ \A j \in 1..(Len(s) + 1) : Append(s, f)[j] = IF j = Len(s) + 1 THEN f ELSE s[j]
  OBVIOUS

LEMMA Fronts ==
  ASSUME NEW S, NEW s \in Seq(S), s # <<>>
  PROVE  /\ Front(s) \in Seq(S)
         /\ Len(s) \in Nat \ {0}
         /\ Len(Front(s)) = Len(s) - 1
         /\ \A j \in 1..(Len(s) - 1) : Front(s)[j] = s[j]
         /\ Last(s) = s[Len(s)] /\ Last(s) \in S
  <1>1. Len(s) \in Nat \ {0}
    BY EmptySeq
  <1>2. \A j \in 1..(Len(s) - 1) : s[j] \in S
    BY <1>1, ElementOfSeq
  <1>3. s[Len(s)] \in S
    BY <1>1, ElementOfSeq
  <1> DEFINE n == Len(s) - 1
             q == SubSeq(s, 1, n)
  <1>4. /\ q \in Seq(S)
        /\ Len(q) = IF 1 <= n THEN n - 1 + 1 ELSE 0
        /\ \A j \in 1..(n - 1 + 1) : q[j] = s[1 + j - 1]
    BY <1>1, <1>2, SubSeqProperties
  <1>5. Front(s) = q /\ Last(s) = s[Len(s)]
    BY DEF Front, Last
  <1>6. n \in Nat /\ n = Len(s) - 1
    BY <1>1
  <1> HIDE DEF n, q
  <1>7. Len(q) = n /\ \A j \in 1..n : q[j] = s[j]
    BY <1>4, <1>6
  <1> QED
    BY <1>1, <1>3, <1>4, <1>5, <1>6, <1>7

-----------------------------------------------------------------------------
(* The runs that hold a node.                                              *)

Holding(st, n, f) == {k \in DOMAIN st : st[k].name = n /\ st[k].hook = f}
Count(st, n, f) == Cardinality(Holding(st, n, f))
One(r, n, f) == IF r.name = n /\ r.hook = f THEN 1 ELSE 0

LEMMA CountType ==
  ASSUME NEW st \in Seq(Runs), NEW n, NEW f
  PROVE  /\ IsFiniteSet(Holding(st, n, f))
         /\ Count(st, n, f) \in Nat
         /\ Count(st, n, f) = 0 <=> \A k \in 1..Len(st) : ~(st[k].name = n /\ st[k].hook = f)
  <1>1. IsFiniteSet(1..Len(st))
    BY FS_Interval
  <1>2. Holding(st, n, f) \in SUBSET (1..Len(st))
    BY DEF Holding
  <1>3. IsFiniteSet(Holding(st, n, f))
    BY <1>1, <1>2, FS_Subset
  <1>4. Count(st, n, f) \in Nat
    BY <1>3, FS_CardinalityType DEF Count
  <1>5. Count(st, n, f) = 0 <=> Holding(st, n, f) = {}
    BY <1>3, FS_EmptySet DEF Count
  <1>6. Holding(st, n, f) = {} <=> \A k \in 1..Len(st) : ~(st[k].name = n /\ st[k].hook = f)
    BY DEF Holding
  <1> QED
    BY <1>3, <1>4, <1>5, <1>6

LEMMA CountAppend ==
  ASSUME NEW st \in Seq(Runs), NEW r \in Runs, NEW n, NEW f
  PROVE  Count(Append(st, r), n, f) = Count(st, n, f) + One(r, n, f)
  <1> DEFINE H == Holding(st, n, f)
  <1>1. IsFiniteSet(H) /\ Cardinality(H) \in Nat
    BY CountType DEF Count
  <1>2. CASE r.name = n /\ r.hook = f
    <2>1. Holding(Append(st, r), n, f) = H \cup {Len(st) + 1}
      BY <1>2, Appended DEF Holding
    <2>2. Len(st) + 1 \notin H
      BY DEF Holding
    <2>3. Cardinality(H \cup {Len(st) + 1}) = Cardinality(H) + 1
      <3> HIDE DEF H
      <3> QED
        BY <1>1, <2>2, FS_AddElement
    <2> QED
      BY <1>2, <2>1, <2>3 DEF Count, One
  <1>3. CASE ~(r.name = n /\ r.hook = f)
    <2>1. Holding(Append(st, r), n, f) = H
      BY <1>3, Appended DEF Holding
    <2> QED
      BY <1>1, <1>3, <2>1 DEF Count, One
  <1> QED
    BY <1>2, <1>3

LEMMA CountFront ==
  ASSUME NEW st \in Seq(Runs), st # <<>>, NEW n, NEW f
  PROVE  Count(Front(st), n, f) = Count(st, n, f) - One(Last(st), n, f)
  <1> DEFINE H == Holding(st, n, f)
  <1>0. /\ Len(st) \in Nat \ {0} /\ DOMAIN st = 1..Len(st)
        /\ DOMAIN Front(st) = 1..(Len(st) - 1)
        /\ \A j \in 1..(Len(st) - 1) : Front(st)[j] = st[j]
        /\ Last(st) = st[Len(st)]
    BY Fronts
  <1>1. IsFiniteSet(H) /\ Cardinality(H) \in Nat
    BY CountType DEF Count
  <1>2. Holding(Front(st), n, f) = H \ {Len(st)}
    BY <1>0 DEF Holding
  <1>3. Len(st) \in H <=> Last(st).name = n /\ Last(st).hook = f
    BY <1>0 DEF Holding
  <1>4. Cardinality(H \ {Len(st)}) = IF Len(st) \in H THEN Cardinality(H) - 1 ELSE Cardinality(H)
    <2> HIDE DEF H
    <2> QED
      BY <1>1, FS_RemoveElement
  <1>5. Count(Front(st), n, f) = IF Len(st) \in H THEN Cardinality(H) - 1 ELSE Cardinality(H)
    BY <1>2, <1>4 DEF Count
  <1>6. Count(st, n, f) = Cardinality(H)
    BY DEF Count
  <1>7. One(Last(st), n, f) = IF Len(st) \in H THEN 1 ELSE 0
    BY <1>3 DEF One
  <1> HIDE DEF H
  <1> QED
    BY <1>1, <1>5, <1>6, <1>7

-----------------------------------------------------------------------------
(* What a run knows of the list it walks.                                  *)

(* The run r is at a node of h; it has called the functions before it that *)
(* were there all the time, and of those behind it none at all.            *)
Placed(h, r) ==
  /\ \E j \in DOMAIN h : h[j] = r.hook
  /\ \A i, j \in DOMAIN h : h[j] = r.hook =>
       /\ h[i] \in r.called => i <= j
       /\ h[i] \in r.due /\ i <= j => h[i] \in r.called

Distinct(h) == \A i, j \in DOMAIN h : h[i] = h[j] => i = j
Members(h) == {h[i] : i \in DOMAIN h}

LEMMA MembersPrepend ==
  ASSUME NEW h \in Seq(Funs), NEW f \in Funs, f \notin Members(h), Distinct(h)
  PROVE  /\ <<f>> \o h \in Seq(Funs) /\ Distinct(<<f>> \o h)
         /\ Members(<<f>> \o h) = Members(h) \cup {f}
  <1> DEFINE g == <<f>> \o h
  <1>1. /\ Len(h) \in Nat /\ g \in Seq(Funs) /\ Len(g) = Len(h) + 1
        /\ DOMAIN g = 1..(Len(h) + 1) /\ DOMAIN h = 1..Len(h)
        /\ \A j \in 1..(Len(h) + 1) : g[j] = IF j = 1 THEN f ELSE h[j - 1]
    BY Prepended
  <1> HIDE DEF g
  <1>2. g[1] = f /\ \A j \in 1..Len(h) : g[j + 1] = h[j]
    BY <1>1
  <1>3. \A j \in 1..Len(h) : h[j] # f
    BY <1>1 DEF Members
  <1>4. ASSUME NEW i \in DOMAIN g, NEW j \in DOMAIN g, g[i] = g[j]
        PROVE  i = j
    <2>1. CASE i = 1 \/ j = 1
      BY <1>1, <1>3, <1>4, <2>1
    <2>2. CASE i # 1 /\ j # 1
      <3>1. i - 1 \in DOMAIN h /\ j - 1 \in DOMAIN h /\ h[i - 1] = h[j - 1]
        BY <1>1, <1>4, <2>2
      <3>2. i - 1 = j - 1
        BY <3>1 DEF Distinct
      <3> QED
        BY <1>1, <3>2
    <2> QED
      BY <2>1, <2>2
  <1>5. Members(g) = Members(h) \cup {f}
    <2>1. Members(g) \subseteq Members(h) \cup {f}
      BY <1>1 DEF Members
    <2>2. Members(h) \cup {f} \subseteq Members(g)
      BY <1>1, <1>2, SMTT(30) DEF Members
    <2> QED
      BY <2>1, <2>2
  <1> QED
    BY <1>1, <1>4, <1>5 DEF Distinct, g

LEMMA PlacedPrepend ==
  ASSUME NEW h \in Seq(Funs), NEW f \in Funs, f \notin Members(h),
         NEW r \in Runs, Placed(h, r), f \notin r.due, f \notin r.called
  PROVE  Placed(<<f>> \o h, r)
  <1> DEFINE g == <<f>> \o h
  <1>1. /\ Len(h) \in Nat /\ g \in Seq(Funs) /\ Len(g) = Len(h) + 1
        /\ DOMAIN g = 1..(Len(h) + 1) /\ DOMAIN h = 1..Len(h)
        /\ \A j \in 1..(Len(h) + 1) : g[j] = IF j = 1 THEN f ELSE h[j - 1]
    BY Prepended
  <1> HIDE DEF g
  <1>2. g[1] = f /\ \A j \in 1..Len(h) : g[j + 1] = h[j]
    BY <1>1
  <1>3. \A j \in 1..Len(h) : h[j] # f
    BY <1>1 DEF Members
  <1>4. r.hook # f
    BY <1>1, <1>3 DEF Placed
  <1>5. \E j \in DOMAIN g : g[j] = r.hook
    BY <1>1, <1>2, SMTT(30) DEF Placed
  <1>6. ASSUME NEW i \in DOMAIN g, NEW j \in DOMAIN g, g[j] = r.hook
        PROVE  /\ g[i] \in r.called => i <= j
               /\ g[i] \in r.due /\ i <= j => g[i] \in r.called
    <2>1. j \in 2..(Len(h) + 1) /\ h[j - 1] = r.hook /\ j - 1 \in DOMAIN h
      BY <1>1, <1>4, <1>6
    <2>2. CASE i = 1
      BY <1>2, <2>1, <2>2
    <2>3. CASE i # 1
      <3>1. i - 1 \in DOMAIN h /\ g[i] = h[i - 1]
        BY <1>1, <2>3
      <3> QED
        BY <1>1, <2>1, <3>1 DEF Placed
    <2> QED
      BY <2>2, <2>3
  <1> QED
    BY <1>5, <1>6 DEF Placed, g

LEMMA MembersAppend ==
  ASSUME NEW h \in Seq(Funs), NEW f \in Funs, f \notin Members(h), Distinct(h)
  PROVE  /\ Append(h, f) \in Seq(Funs) /\ Distinct(Append(h, f))
         /\ Members(Append(h, f)) = Members(h) \cup {f}
  <1> DEFINE g == Append(h, f)
  <1>1. /\ Len(h) \in Nat /\ g \in Seq(Funs) /\ Len(g) = Len(h) + 1
        /\ DOMAIN g = 1..(Len(h) + 1) /\ DOMAIN h = 1..Len(h)
        /\ \A j \in 1..(Len(h) + 1) : g[j] = IF j = Len(h) + 1 THEN f ELSE h[j]
    BY Appended
  <1> HIDE DEF g
  <1>2. g[Len(h) + 1] = f /\ \A j \in 1..Len(h) : g[j] = h[j]
    BY <1>1
  <1>3. \A j \in 1..Len(h) : h[j] # f
    BY <1>1 DEF Members
  <1>4. ASSUME NEW i \in DOMAIN g, NEW j \in DOMAIN g, g[i] = g[j]
        PROVE  i = j
    <2>1. CASE i = Len(h) + 1 \/ j = Len(h) + 1
      BY <1>1, <1>3, <1>4, <2>1
    <2>2. CASE i # Len(h) + 1 /\ j # Len(h) + 1
      BY <1>1, <1>4, <2>2 DEF Distinct
    <2> QED
      BY <2>1, <2>2
  <1>5. Members(g) = Members(h) \cup {f}
    <2>1. Members(g) \subseteq Members(h) \cup {f}
      BY <1>1 DEF Members
    <2>2. Members(h) \cup {f} \subseteq Members(g)
      BY <1>1, <1>2 DEF Members
    <2> QED
      BY <2>1, <2>2
  <1> QED
    BY <1>1, <1>4, <1>5 DEF Distinct, g

LEMMA PlacedAppend ==
  ASSUME NEW h \in Seq(Funs), NEW f \in Funs, f \notin Members(h),
         NEW r \in Runs, Placed(h, r), f \notin r.due, f \notin r.called
  PROVE  Placed(Append(h, f), r)
  <1> DEFINE g == Append(h, f)
  <1>1. /\ Len(h) \in Nat /\ g \in Seq(Funs) /\ Len(g) = Len(h) + 1
        /\ DOMAIN g = 1..(Len(h) + 1) /\ DOMAIN h = 1..Len(h)
        /\ \A j \in 1..(Len(h) + 1) : g[j] = IF j = Len(h) + 1 THEN f ELSE h[j]
    BY Appended
  <1> HIDE DEF g
  <1>2. g[Len(h) + 1] = f /\ \A j \in 1..Len(h) : g[j] = h[j]
    BY <1>1
  <1>3. \A j \in 1..Len(h) : h[j] # f
    BY <1>1 DEF Members
  <1>4. r.hook # f
    BY <1>1, <1>3 DEF Placed
  <1>5. \E j \in DOMAIN g : g[j] = r.hook
    BY <1>1, <1>2 DEF Placed
  <1>6. ASSUME NEW i \in DOMAIN g, NEW j \in DOMAIN g, g[j] = r.hook
        PROVE  /\ g[i] \in r.called => i <= j
               /\ g[i] \in r.due /\ i <= j => g[i] \in r.called
    <2>1. j \in DOMAIN h /\ h[j] = r.hook
      BY <1>1, <1>4, <1>6
    <2>2. CASE i = Len(h) + 1
      BY <1>2, <2>1, <2>2
    <2>3. CASE i # Len(h) + 1
      <3>1. i \in DOMAIN h /\ g[i] = h[i]
        BY <1>1, <2>3
      <3> QED
        BY <1>1, <2>1, <3>1 DEF Placed
    <2> QED
      BY <2>2, <2>3
  <1> QED
    BY <1>5, <1>6 DEF Placed, g

LEMMA MembersRemove ==
  ASSUME NEW h \in Seq(Funs), NEW p \in DOMAIN h, Distinct(h)
  PROVE  /\ RemoveAt(h, p) \in Seq(Funs) /\ Distinct(RemoveAt(h, p))
         /\ Members(RemoveAt(h, p)) = Members(h) \ {h[p]}
  <1> DEFINE g == RemoveAt(h, p)
  <1>1. /\ Len(h) \in Nat /\ g \in Seq(Funs) /\ Len(g) = Len(h) - 1 /\ p \in 1..Len(h)
        /\ DOMAIN g = 1..(Len(h) - 1) /\ DOMAIN h = 1..Len(h)
        /\ \A j \in 1..(Len(h) - 1) : g[j] = IF j < p THEN h[j] ELSE h[j + 1]
    BY Removed
  <1> HIDE DEF g
  <1>2. Distinct(g)
    BY <1>1, SMTT(30) DEF Distinct
  <1>3. Members(g) \subseteq Members(h) \ {h[p]}
    BY <1>1 DEF Members, Distinct
  <1>4. ASSUME NEW i \in DOMAIN h, h[i] # h[p]
        PROVE  h[i] \in Members(g)
    <2>1. CASE i < p
      <3>1. i \in DOMAIN g /\ g[i] = h[i]
        BY <1>1, <2>1
      <3> QED
        BY <3>1 DEF Members
    <2>2. CASE i > p
      <3>1. i - 1 \in DOMAIN g /\ g[i - 1] = h[i]
        BY <1>1, <2>2
      <3> QED
        BY <3>1 DEF Members
    <2> QED
      BY <1>1, <1>4, <2>1, <2>2
  <1>5. Members(h) \ {h[p]} \subseteq Members(g)
    BY <1>4 DEF Members
  <1> QED
    BY <1>1, <1>2, <1>3, <1>5 DEF g

LEMMA PlacedRemove ==
  ASSUME NEW h \in Seq(Funs), NEW p \in DOMAIN h, Distinct(h),
         NEW r \in Runs, Placed(h, r), h[p] # r.hook
  PROVE  Placed(RemoveAt(h, p), r)
  <1> DEFINE g == RemoveAt(h, p)
             Old(j) == IF j < p THEN j ELSE j + 1
  <1>1. /\ Len(h) \in Nat /\ g \in Seq(Funs) /\ Len(g) = Len(h) - 1 /\ p \in 1..Len(h)
        /\ DOMAIN g = 1..(Len(h) - 1) /\ DOMAIN h = 1..Len(h)
        /\ \A j \in 1..(Len(h) - 1) : g[j] = IF j < p THEN h[j] ELSE h[j + 1]
    BY Removed, SMTT(30)
  <1> HIDE DEF g
  <1>2. \A j \in DOMAIN g : Old(j) \in DOMAIN h /\ g[j] = h[Old(j)]
    BY <1>1
  <1>3. \A i, j \in DOMAIN g : Old(i) <= Old(j) <=> i <= j
    BY <1>1
  <1> HIDE DEF Old
  <1>4. \A i, j \in DOMAIN g : g[j] = r.hook =>
          /\ g[i] \in r.called => i <= j
          /\ g[i] \in r.due /\ i <= j => g[i] \in r.called
    BY <1>2, <1>3 DEF Placed
  <1>5. \E j \in DOMAIN g : g[j] = r.hook
    <2>1. r.hook \in Members(h) \ {h[p]}
      BY DEF Placed, Members
    <2>2. r.hook \in Members(g)
      BY <2>1, MembersRemove DEF g
    <2> QED
      BY <2>2 DEF Members
  <1> QED
    BY <1>4, <1>5 DEF Placed, g

-----------------------------------------------------------------------------
(* The inductive invariant.                                                *)

(* What is known of a run in the list h with the functions v not removed:  *)
(* those it remembers, as due or as called, have not been removed.         *)
Good(h, v, r) ==
  /\ Placed(h, r)
  /\ r.due \subseteq v /\ r.called \subseteq v /\ r.again = {}

Counted == \A n \in Names, f \in Funs : locks[n][f] = Count(stack, n, f)
Kept == \A n \in Names, f \in Funs :
  f \in Members(hooks[n]) <=> f \in valid[n] \/ locks[n][f] > 0
RunsGood == \A k \in DOMAIN stack : Good(hooks[stack[k].name], valid[stack[k].name], stack[k])

HooksInv ==
  /\ TypeOK
  /\ \A n \in Names : Distinct(hooks[n])
  /\ Counted
  /\ Kept
  /\ RunsGood
  /\ RunCallsAll

LEMMA InStack ==
  ASSUME NEW st \in Seq(Runs), NEW k \in DOMAIN st
  PROVE  /\ st[k] \in Runs /\ st[k].name \in Names /\ st[k].hook \in Funs
         /\ st[k].method \in Methods
         /\ st[k].due \subseteq Funs /\ st[k].called \subseteq Funs /\ st[k].again \subseteq Funs
  <1>1. st[k] \in Runs
    BY ElementOfSeq
  <1> QED
    BY <1>1 DEF Runs

LEMMA Forgets ==
  ASSUME NEW r \in Runs, NEW n, NEW f
  PROVE  /\ Forget(r, n, f) \in Runs
         /\ Forget(r, n, f).name = r.name /\ Forget(r, n, f).hook = r.hook
         /\ r.name # n => Forget(r, n, f) = r
         /\ r.name = n => /\ Forget(r, n, f).due = r.due \ {f}
                          /\ Forget(r, n, f).called = r.called \ {f}
                          /\ Forget(r, n, f).again = r.again \ {f}
  BY DEF Forget, Runs

LEMMA HooksInit == Init => HooksInv
  <1> SUFFICES ASSUME Init PROVE HooksInv
    OBVIOUS
  <1>1. TypeOK
    <2>1. <<>> \in Seq(Funs) /\ <<>> \in Seq(Runs)
      OBVIOUS
    <2> QED
      BY <2>1 DEF Init, TypeOK, Methods
  <1>2. DOMAIN stack = {} /\ \A n \in Names : DOMAIN hooks[n] = {}
    BY DEF Init
  <1>3. Counted
    <2>1. \A n, f : Holding(stack, n, f) = {}
      BY <1>2 DEF Holding
    <2> QED
      BY <2>1, FS_EmptySet DEF Counted, Count, Init
  <1>4. Kept
    BY <1>2 DEF Kept, Members, Init
  <1>5. RunCallsAll
    BY DEF Init, RunCallsAll
  <1> QED
    BY <1>1, <1>2, <1>3, <1>4, <1>5 DEF HooksInv, Distinct, RunsGood

LEMMA InsertStep ==
  ASSUME HooksInv, NEW n \in Names, NEW f \in Funs, NEW longer \in Seq(Funs),
         Insert(n, f, longer),
         f \notin Members(hooks[n]) =>
           /\ Distinct(longer) /\ Members(longer) = Members(hooks[n]) \cup {f}
           /\ \A r \in Runs : Placed(hooks[n], r) /\ f \notin r.due /\ f \notin r.called => Placed(longer, r)
  PROVE  HooksInv'
  <1> USE DEF HooksInv
  <1>0. /\ locks' = locks /\ stack' = stack /\ ended' = ended
        /\ valid' = [valid EXCEPT ![n] = @ \cup {f}]
        /\ hooks' = IF f \in Members(hooks[n]) THEN hooks ELSE [hooks EXCEPT ![n] = longer]
    BY DEF Insert, Listed, Members
  <1>1. TypeOK'
    BY <1>0 DEF TypeOK
  <1>2. \A m \in Names : Distinct(hooks[m])'
    BY <1>0 DEF TypeOK
  <1>3. Counted'
    BY <1>0 DEF Counted
  <1>4. Kept'
    <2> SUFFICES ASSUME NEW m \in Names, NEW g \in Funs
                 PROVE  g \in Members(hooks'[m]) <=> g \in valid'[m] \/ locks'[m][g] > 0
      BY DEF Kept
    <2>1. g \in Members(hooks[m]) <=> g \in valid[m] \/ locks[m][g] > 0
      BY DEF Kept
    <2>2. valid'[m] = IF m = n THEN valid[n] \cup {f} ELSE valid[m]
      BY <1>0 DEF TypeOK
    <2>3. Members(hooks'[m]) = IF m = n THEN Members(hooks[n]) \cup {f} ELSE Members(hooks[m])
      <3>1. CASE f \in Members(hooks[n])
        BY <1>0, <3>1
      <3>2. CASE f \notin Members(hooks[n])
        <4>1. hooks'[m] = IF m = n THEN longer ELSE hooks[m]
          BY <1>0, <3>2 DEF TypeOK
        <4> QED
          BY <3>2, <4>1
      <3> QED
        BY <3>1, <3>2
    <2> QED
      BY <1>0, <2>1, <2>2, <2>3
  <1>5. RunsGood'
    <2> SUFFICES ASSUME NEW k \in DOMAIN stack
                 PROVE  Good(hooks'[stack[k].name], valid'[stack[k].name], stack[k])
      BY <1>0 DEF RunsGood
    <2> DEFINE r == stack[k]
    <2>1. r \in Runs /\ r.name \in Names /\ Good(hooks[r.name], valid[r.name], r)
      BY InStack DEF RunsGood, TypeOK
    <2>2. valid[r.name] \subseteq valid'[r.name]
      BY <1>0, <2>1 DEF TypeOK
    <2>3. Placed(hooks'[r.name], r)
      <3>1. CASE f \in Members(hooks[n]) \/ r.name # n
        BY <1>0, <2>1, <3>1 DEF Good, TypeOK
      <3>2. CASE f \notin Members(hooks[n]) /\ r.name = n
        <4>1. f \notin valid[n]
          BY <3>2 DEF Kept
        <4> QED
          BY <1>0, <2>1, <3>2, <4>1 DEF Good, TypeOK
      <3> QED
        BY <3>1, <3>2
    <2> QED
      BY <2>1, <2>2, <2>3 DEF Good
  <1>6. RunCallsAll'
    BY <1>0 DEF RunCallsAll
  <1> QED
    BY <1>1, <1>2, <1>3, <1>4, <1>5, <1>6

LEMMA AddStep ==
  ASSUME HooksInv, NEW n \in Names, NEW f \in Funs, AddToHook(n, f)
  PROVE  HooksInv'
  <1>1. hooks[n] \in Seq(Funs) /\ Distinct(hooks[n])
    BY DEF HooksInv, TypeOK
  <1>2. <<f>> \o hooks[n] \in Seq(Funs)
    BY <1>1, Prepended
  <1>3. f \notin Members(hooks[n]) =>
          /\ Distinct(<<f>> \o hooks[n])
          /\ Members(<<f>> \o hooks[n]) = Members(hooks[n]) \cup {f}
          /\ \A r \in Runs : Placed(hooks[n], r) /\ f \notin r.due /\ f \notin r.called
               => Placed(<<f>> \o hooks[n], r)
    BY <1>1, MembersPrepend, PlacedPrepend
  <1>4. Insert(n, f, <<f>> \o hooks[n])
    BY DEF AddToHook
  <1> QED
    BY <1>2, <1>3, <1>4, InsertStep

LEMMA AppendStep ==
  ASSUME HooksInv, NEW n \in Names, NEW f \in Funs, AppendToHook(n, f)
  PROVE  HooksInv'
  <1>1. hooks[n] \in Seq(Funs) /\ Distinct(hooks[n])
    BY DEF HooksInv, TypeOK
  <1>2. Append(hooks[n], f) \in Seq(Funs)
    BY <1>1, Appended
  <1>3. f \notin Members(hooks[n]) =>
          /\ Distinct(Append(hooks[n], f))
          /\ Members(Append(hooks[n], f)) = Members(hooks[n]) \cup {f}
          /\ \A r \in Runs : Placed(hooks[n], r) /\ f \notin r.due /\ f \notin r.called
               => Placed(Append(hooks[n], f), r)
    BY <1>1, MembersAppend, PlacedAppend
  <1>4. Insert(n, f, Append(hooks[n], f))
    BY DEF AppendToHook
  <1> QED
    BY <1>2, <1>3, <1>4, InsertStep

LEMMA RemoveStep ==
  ASSUME HooksInv, NEW n \in Names, NEW f \in Funs, RemoveFromHook(n, f)
  PROVE  HooksInv'
  <1> USE DEF HooksInv
  <1>1. PICK i \in DOMAIN hooks[n] :
          /\ hooks[n][i] = f
          /\ valid' = [valid EXCEPT ![n] = @ \ {f}]
          /\ hooks' = [hooks EXCEPT ![n] = Freed(hooks[n], i, locks[n][f])]
          /\ stack' = [k \in DOMAIN stack |-> Forget(stack[k], n, f)]
          /\ locks' = locks /\ ended' = ended
    BY DEF RemoveFromHook
  <1> DEFINE free == locks[n][f] = 0
  <1>2. /\ hooks[n] \in Seq(Funs) /\ Distinct(hooks[n])
        /\ locks[n][f] \in Nat /\ stack \in Seq(Runs)
    BY DEF TypeOK
  <1>3. /\ RemoveAt(hooks[n], i) \in Seq(Funs) /\ Distinct(RemoveAt(hooks[n], i))
        /\ Members(RemoveAt(hooks[n], i)) = Members(hooks[n]) \ {f}
    BY <1>1, <1>2, MembersRemove
  <1>4. \A m \in Names : hooks'[m] = IF m = n /\ free THEN RemoveAt(hooks[n], i) ELSE hooks[m]
    BY <1>1 DEF TypeOK, Freed
  <1>5. \A m \in Names : valid'[m] = IF m = n THEN valid[n] \ {f} ELSE valid[m]
    BY <1>1 DEF TypeOK
  <1>6. \A k \in DOMAIN stack :
          /\ stack'[k] \in Runs /\ stack'[k].name = stack[k].name /\ stack'[k].hook = stack[k].hook
          /\ stack'[k] = Forget(stack[k], n, f)
    BY <1>1, <1>2, InStack, Forgets
  <1>7. stack' \in Seq(Runs) /\ DOMAIN stack' = DOMAIN stack
    BY <1>1, <1>2, <1>6
  <1>8. TypeOK'
    <2>1. hooks' \in [Names -> Seq(Funs)]
      BY <1>1, <1>2, <1>3 DEF TypeOK, Freed
    <2> QED
      BY <1>1, <1>7, <2>1 DEF TypeOK
  <1>9. \A m \in Names : Distinct(hooks[m])'
    BY <1>3, <1>4
  <1>10. Counted'
    <2>1. \A m, g : Holding(stack', m, g) = Holding(stack, m, g)
      BY <1>6, <1>7 DEF Holding
    <2> QED
      BY <1>1, <2>1 DEF Counted, Count
  <1>11. Kept'
    <2> SUFFICES ASSUME NEW m \in Names, NEW g \in Funs
                 PROVE  g \in Members(hooks'[m]) <=> g \in valid'[m] \/ locks'[m][g] > 0
      BY DEF Kept
    <2>1. g \in Members(hooks[m]) <=> g \in valid[m] \/ locks[m][g] > 0
      BY DEF Kept
    <2>2. f \in Members(hooks[n])
      BY <1>1 DEF Members
    <2>3. CASE m = n /\ free
      BY <1>1, <1>3, <1>4, <1>5, <2>1, <2>3
    <2>4. CASE m = n /\ ~free
      BY <1>1, <1>2, <1>4, <1>5, <2>1, <2>2, <2>4
    <2>5. CASE m # n
      BY <1>1, <1>4, <1>5, <2>1, <2>5
    <2> QED
      BY <2>3, <2>4, <2>5
  <1>12. RunsGood'
    <2> SUFFICES ASSUME NEW k \in DOMAIN stack
                 PROVE  Good(hooks'[stack'[k].name], valid'[stack'[k].name], stack'[k])
      BY <1>7 DEF RunsGood
    <2> DEFINE r == stack[k]
               s == stack'[k]
    <2>1. /\ r \in Runs /\ r.name \in Names /\ Good(hooks[r.name], valid[r.name], r)
          /\ s \in Runs /\ s.name = r.name /\ s.hook = r.hook
      BY <1>2, <1>6, InStack DEF RunsGood
    <2>2. CASE r.name # n
      <3>1. s = r
        BY <1>6, <2>1, <2>2, Forgets
      <3> QED
        BY <1>4, <1>5, <2>1, <2>2, <3>1
    <2>3. CASE r.name = n
      <3>1. s.due = r.due \ {f} /\ s.called = r.called \ {f} /\ s.again = r.again \ {f}
        BY <1>6, <2>1, <2>3, Forgets
      <3>2. Placed(hooks[n], s)
        BY <2>1, <2>3, <3>1 DEF Placed, Good
      <3>3. Placed(hooks'[n], s)
        <4>1. CASE free
          <5>1. Count(stack, n, f) = 0
            BY <4>1 DEF Counted
          <5>2. s.hook # f
            BY <1>2, <2>1, <2>3, <5>1, CountType
          <5> QED
            BY <1>1, <1>2, <1>4, <2>1, <3>2, <4>1, <5>2, PlacedRemove
        <4>2. CASE ~free
          BY <1>4, <3>2, <4>2
        <4> QED
          BY <4>1, <4>2
      <3> QED
        BY <1>5, <2>1, <2>3, <3>1, <3>3 DEF Good
    <2> QED
      BY <2>2, <2>3
  <1>13. RunCallsAll'
    BY <1>1 DEF RunCallsAll
  <1> QED
    BY <1>8, <1>9, <1>10, <1>11, <1>12, <1>13

-----------------------------------------------------------------------------
(* Runs.                                                                   *)

(* A run r that is about to go on at place i of its list, inside the runs  *)
(* st, whose locks are base.                                               *)
Between(r, i, base, st) ==
  /\ st \in Seq(Runs)
  /\ base \in [Names -> [Funs -> Nat]]
  /\ \A m \in Names, g \in Funs : base[m][g] = Count(st, m, g)
  /\ r.name \in Names /\ r.method \in Methods
  /\ i \in Nat \ {0} /\ r.again = {}
  /\ r.due \subseteq valid[r.name] /\ r.called \subseteq valid[r.name]
  /\ \A p \in DOMAIN hooks[r.name] :
       /\ hooks[r.name][p] \in r.called => p < i
       /\ hooks[r.name][p] \in r.due /\ p < i => hooks[r.name][p] \in r.called

LEMMA GoOnStep ==
  ASSUME HooksInv, NEW r, NEW i, NEW base, NEW st,
         Between(r, i, base, st), GoOn(r, i, base, st)
  PROVE  /\ stack' \in Seq(Runs)
         /\ locks' \in [Names -> [Funs -> Nat]]
         /\ Counted'
         /\ \A m \in Names, g \in Funs : g \notin valid[m] => locks'[m][g] = base[m][g]
         /\ \A k \in DOMAIN stack' :
              \/ k \in DOMAIN st /\ stack'[k] = st[k]
              \/ /\ stack'[k].name = r.name
                 /\ Good(hooks[r.name], valid[r.name], stack'[k])
         /\ RunCallsAll'
         /\ ended' \in [method : Methods, result : {-1, 0, 1}, missed : SUBSET Funs]
  <1> USE DEF Between
  <1> DEFINE n == r.name
             h == hooks[n]
             v == valid[n]
  <1>0. /\ h \in Seq(Funs) /\ Distinct(h) /\ v \in SUBSET Funs /\ DOMAIN h = 1..Len(h) /\ Len(h) \in Nat
        /\ \A g \in v : g \in Members(h)
        /\ ended \in [method : Methods, result : {-1, 0, 1}, missed : SUBSET Funs]
    BY DEF HooksInv, TypeOK, Kept
  <1>1. CASE Ahead(n, i) = {} /\ locks' = base /\ stack' = st
               /\ ended' = [method |-> r.method, missed |-> r.due \ r.called,
                            result |-> IF r.method = "until 0" THEN 1 ELSE 0]
    <2>1. Counted'
      BY <1>1 DEF Counted
    <2>2. ASSUME NEW g \in r.due
          PROVE  g \in r.called
      <3>0. g \in v
        BY <2>2
      <3>3. g \in Members(h)
        BY <1>0, <3>0
      <3>1. PICK p \in DOMAIN h : h[p] = g
        BY <3>3 DEF Members
      <3>2. p < i
        <4>1. p \notin Ahead(n, i)
          BY <1>1
        <4> QED
          BY <1>0, <3>1, <4>1 DEF Ahead
      <3> QED
        BY <3>1, <3>2
    <2>3. ended'.missed = {}
      BY <1>1, <2>2
    <2>4. ended' \in [method : Methods, result : {-1, 0, 1}, missed : SUBSET Funs]
      <3>1. r.due \ r.called \in SUBSET Funs
        BY <1>0
      <3> QED
        BY <1>1, <3>1
    <2> QED
      BY <1>1, <2>1, <2>3, <2>4 DEF RunCallsAll
  <1>2. CASE \E j \in Ahead(n, i) :
               /\ \A k \in Ahead(n, i) : j <= k
               /\ locks' = [base EXCEPT ![n][h[j]] = @ + 1]
               /\ stack' = Append(st, Calling(r, h[j]))
               /\ UNCHANGED ended
    <2>1. PICK j \in Ahead(n, i) :
               /\ \A k \in Ahead(n, i) : j <= k
               /\ locks' = [base EXCEPT ![n][h[j]] = @ + 1]
               /\ stack' = Append(st, Calling(r, h[j]))
               /\ UNCHANGED ended
      BY <1>2
    <2> DEFINE f == h[j]
               c == Calling(r, f)
    <2>2. j \in DOMAIN h /\ i <= j /\ f \in v /\ f \in Funs
      <3>1. j \in i..Len(h) /\ h[j] \in v
        BY <2>1 DEF Ahead
      <3> QED
        BY <1>0, <3>1
    <2>3. \A p \in DOMAIN h : i <= p /\ p < j => h[p] \notin v
      <3> SUFFICES ASSUME NEW p \in DOMAIN h, i <= p, p < j, h[p] \in v
                   PROVE  FALSE
        OBVIOUS
      <3>1. p \in Ahead(n, i)
        BY <1>0 DEF Ahead
      <3> QED
        BY <1>0, <2>1, <2>2, <3>1
    <2>4. f \notin r.called
      BY <1>0, <2>2
    <2>5. /\ c.name = n /\ c.hook = f /\ c.method = r.method /\ c.due = r.due
          /\ c.called = r.called \cup {f} /\ c.again = {}
      BY <2>4 DEF Calling
    <2>6. c \in Runs
      BY <1>0, <2>2, <2>4 DEF Calling, Runs
    <2>7. Good(h, v, c)
      <3>1. \E q \in DOMAIN h : h[q] = c.hook
        BY <2>2, <2>5
      <3>2. ASSUME NEW p \in DOMAIN h, NEW q \in DOMAIN h, h[q] = c.hook
            PROVE  /\ h[p] \in c.called => p <= q
                   /\ h[p] \in c.due /\ p <= q => h[p] \in c.called
        <4>1. q = j
          BY <1>0, <2>2, <2>5, <3>2 DEF Distinct
        <4>2. CASE p = j
          BY <1>0, <2>5, <4>1, <4>2
        <4>3. CASE p < i
          BY <1>0, <2>2, <2>5, <4>1, <4>3, SMTT(30)
        <4>4. CASE i <= p /\ p < j
          BY <1>0, <2>2, <2>3, <2>5, <4>1, <4>4, SMTT(30)
        <4>5. CASE j < p
          <5>1. h[p] # f
            <6>1. p # j
              BY <1>0, <2>2, <4>5
            <6>2. \A a, b \in DOMAIN h : h[a] = h[b] => a = b
              BY <1>0 DEF Distinct
            <6> QED
              BY <2>2, <6>1, <6>2
          <5>2. ~(p < i) /\ ~(p <= q)
            BY <1>0, <2>2, <4>1, <4>5
          <5>3. h[p] \notin r.called
            BY <5>2
          <5> QED
            BY <2>5, <5>1, <5>2, <5>3
        <4> QED
          BY <1>0, <2>2, <4>2, <4>3, <4>4, <4>5
      <3> QED
        BY <2>2, <2>5, <3>1, <3>2 DEF Good, Placed
    <2> HIDE DEF c, f
    <2>8. /\ stack' \in Seq(Runs) /\ DOMAIN stack' = 1..(Len(st) + 1) /\ DOMAIN st = 1..Len(st)
          /\ \A k \in 1..(Len(st) + 1) : stack'[k] = IF k = Len(st) + 1 THEN c ELSE st[k]
      BY <2>1, <2>6, Appended DEF c, f
    <2>9. \A m \in Names, g \in Funs : locks'[m][g] = IF m = n /\ g = f THEN base[m][g] + 1 ELSE base[m][g]
      BY <2>1, <2>2 DEF f
    <2>10. locks' \in [Names -> [Funs -> Nat]]
      BY <2>1, <2>2 DEF f
    <2>11. Counted'
      <3> SUFFICES ASSUME NEW m \in Names, NEW g \in Funs
                   PROVE  locks'[m][g] = Count(stack', m, g)
        BY DEF Counted
      <3>1. Count(stack', m, g) = Count(st, m, g) + One(c, m, g)
        BY <2>1, <2>6, CountAppend DEF c, f
      <3> QED
        BY <2>5, <2>9, <3>1 DEF One
    <2>12. ASSUME NEW m \in Names, NEW g \in Funs, g \notin valid[m]
           PROVE  locks'[m][g] = base[m][g]
      <3>1. ~(m = n /\ g = f)
        BY <2>2, <2>12
      <3> QED
        BY <2>9, <3>1
    <2>13. ASSUME NEW k \in DOMAIN stack'
           PROVE  \/ k \in DOMAIN st /\ stack'[k] = st[k]
                  \/ stack'[k].name = n /\ Good(h, v, stack'[k])
      <3>1. CASE k = Len(st) + 1
        <4>1. stack'[k] = c
          BY <2>8, <2>13, <3>1
        <4> QED
          BY <2>5, <2>7, <4>1
      <3>2. CASE k # Len(st) + 1
        <4>1. k \in 1..(Len(st) + 1) /\ Len(st) \in Nat
          BY <2>8, <2>13 DEF Between
        <4>2. k \in DOMAIN st
          BY <2>8, <3>2, <4>1
        <4>3. stack'[k] = st[k]
          BY <2>8, <3>2, <4>1
        <4> QED
          BY <4>2, <4>3
      <3> QED
        BY <3>1, <3>2
    <2>14. /\ RunCallsAll'
           /\ ended' \in [method : Methods, result : {-1, 0, 1}, missed : SUBSET Funs]
      <3>1. ended' = ended
        BY <2>1
      <3> QED
        BY <1>0, <3>1 DEF HooksInv, RunCallsAll
    <2>15. stack' \in Seq(Runs)
      BY <2>8
    <2> QED
      BY <2>10, <2>11, <2>12, <2>13, <2>14, <2>15
  <1> QED
    BY <1>1, <1>2 DEF GoOn

LEMMA RunStep ==
  ASSUME HooksInv, NEW n \in Names, NEW m \in Methods, RunHooks(n, m)
  PROVE  HooksInv'
  <1> DEFINE r == [name |-> n, method |-> m, due |-> valid[n], called |-> {}, again |-> {}]
  <1>1. GoOn(r, 1, locks, stack) /\ hooks' = hooks /\ valid' = valid
    BY DEF RunHooks
  <1>2. /\ r.name = n /\ r.method = m /\ r.due = valid[n] /\ r.called = {} /\ r.again = {}
    OBVIOUS
  <1> HIDE DEF r
  <1>3. Between(r, 1, locks, stack)
    <2>1. \A p \in DOMAIN hooks[n] : ~(p < 1)
      <3>1. hooks[n] \in Seq(Funs)
        BY DEF HooksInv, TypeOK
      <3> QED
        BY <3>1, LenProperties
    <2> QED
      BY <1>2, <2>1 DEF Between, HooksInv, TypeOK, Counted
  <1>4. /\ stack' \in Seq(Runs)
        /\ locks' \in [Names -> [Funs -> Nat]]
        /\ Counted'
        /\ \A l \in Names, g \in Funs : g \notin valid[l] => locks'[l][g] = locks[l][g]
        /\ \A k \in DOMAIN stack' :
             \/ k \in DOMAIN stack /\ stack'[k] = stack[k]
             \/ /\ stack'[k].name = r.name
                /\ Good(hooks[r.name], valid[r.name], stack'[k])
        /\ RunCallsAll'
        /\ ended' \in [method : Methods, result : {-1, 0, 1}, missed : SUBSET Funs]
    BY <1>1, <1>3, GoOnStep
  <1>5. TypeOK'
    BY <1>1, <1>4 DEF HooksInv, TypeOK
  <1>6. Kept'
    BY <1>1, <1>4 DEF HooksInv, Kept
  <1>7. RunsGood'
    BY <1>1, <1>4 DEF HooksInv, RunsGood
  <1> QED
    BY <1>1, <1>4, <1>5, <1>6, <1>7 DEF HooksInv

LEMMA ReturnStep ==
  ASSUME HooksInv, NEW a \in Answers, Return(a)
  PROVE  HooksInv'
  <1> DEFINE r == Last(stack)
             n == r.name
             h == hooks[n]
             f == r.hook
             released == Released(n, f)
             st == Front(stack)
             freed == f \notin valid[n] /\ released[n][f] = 0
  <1>1. stack # <<>> /\ valid' = valid
    BY DEF Return
  <1>2. PICK i \in DOMAIN h :
          /\ h[i] = f
          /\ hooks' = IF f \in valid[n] THEN hooks
                      ELSE [hooks EXCEPT ![n] = Freed(@, i, released[n][f])]
          /\ IF Stops(r.method, a)
             THEN /\ locks' = released
                  /\ stack' = st
                  /\ ended' = [method |-> r.method, missed |-> {},
                               result |-> CASE a = "zero" -> 0 [] a = "one" -> 1 [] OTHER -> -1]
             ELSE GoOn(r, i + 1, released, st)
    BY DEF Return
  <1>3. /\ stack \in Seq(Runs) /\ Len(stack) \in Nat \ {0} /\ DOMAIN stack = 1..Len(stack)
        /\ r = stack[Len(stack)] /\ Len(stack) \in DOMAIN stack
        /\ st \in Seq(Runs) /\ DOMAIN st = 1..(Len(stack) - 1)
        /\ \A k \in DOMAIN st : k \in DOMAIN stack /\ st[k] = stack[k]
    <2>1. stack \in Seq(Runs)
      BY DEF HooksInv, TypeOK
    <2>2. /\ st \in Seq(Runs) /\ Len(stack) \in Nat \ {0} /\ Len(st) = Len(stack) - 1
          /\ \A k \in 1..(Len(stack) - 1) : st[k] = stack[k]
          /\ r = stack[Len(stack)]
      BY <1>1, <2>1, Fronts
    <2>3. DOMAIN stack = 1..Len(stack) /\ DOMAIN st = 1..(Len(stack) - 1)
      BY <2>1, <2>2, LenProperties
    <2> HIDE DEF st, r
    <2> QED
      BY <2>1, <2>2, <2>3
  <1>4. r \in Runs /\ n \in Names /\ f \in Funs /\ r.method \in Methods /\ Good(h, valid[n], r)
    BY <1>3, InStack DEF HooksInv, RunsGood
  <1>5. h \in Seq(Funs) /\ Distinct(h) /\ DOMAIN h = 1..Len(h) /\ Len(h) \in Nat
    BY <1>4 DEF HooksInv, TypeOK
  <1>6. locks[n][f] \in Nat \ {0}
    <2>1. Count(stack, n, f) # 0 /\ Count(stack, n, f) \in Nat
      BY <1>3, CountType
    <2> QED
      BY <1>4, <2>1 DEF HooksInv, Counted
  <1>7. /\ released \in [Names -> [Funs -> Nat]]
        /\ \A m \in Names, g \in Funs :
             released[m][g] = IF m = n /\ g = f THEN locks[m][g] - 1 ELSE locks[m][g]
    <2>1. released = [locks EXCEPT ![n][f] = IF @ >= 1 THEN @ - 1 ELSE @]
      BY DEF Released
    <2>2. locks \in [Names -> [Funs -> Nat]]
      BY DEF HooksInv, TypeOK
    <2> HIDE DEF released, n, f
    <2>3. released \in [Names -> [Funs -> Nat]]
      BY <1>4, <1>6, <2>1, <2>2
    <2>4. \A m \in Names, g \in Funs :
             released[m][g] = IF m = n /\ g = f THEN locks[m][g] - 1 ELSE locks[m][g]
      BY <1>4, <1>6, <2>1, <2>2
    <2> QED
      BY <2>3, <2>4
  <1>8. \A m \in Names, g \in Funs : released[m][g] = Count(st, m, g)
    <2> SUFFICES ASSUME NEW m \in Names, NEW g \in Funs
                 PROVE  released[m][g] = Count(st, m, g)
      OBVIOUS
    <2>1. Count(st, m, g) = Count(stack, m, g) - One(r, m, g)
      BY <1>1, <1>3, CountFront
    <2>2. One(r, m, g) = IF m = n /\ g = f THEN 1 ELSE 0
      BY DEF One
    <2>3. locks[m][g] = Count(stack, m, g) /\ locks[m][g] \in Nat
      BY DEF HooksInv, Counted, TypeOK
    <2> HIDE DEF released, st, n, f, r
    <2> QED
      BY <1>7, <2>1, <2>2, <2>3
  <1> HIDE DEF released, st
  (* Whether the run goes on or ends: *)
  <1>9. /\ stack' \in Seq(Runs)
        /\ locks' \in [Names -> [Funs -> Nat]]
        /\ Counted'
        /\ \A m \in Names, g \in Funs : g \notin valid[m] => locks'[m][g] = released[m][g]
        /\ \A k \in DOMAIN stack' :
             \/ k \in DOMAIN st /\ stack'[k] = st[k]
             \/ /\ stack'[k].name = n
                /\ Good(h, valid[n], stack'[k])
        /\ RunCallsAll'
        /\ ended' \in [method : Methods, result : {-1, 0, 1}, missed : SUBSET Funs]
    <2>1. CASE Stops(r.method, a)
      <3>1. /\ locks' = released /\ stack' = st
            /\ ended' = [method |-> r.method, missed |-> {},
                         result |-> CASE a = "zero" -> 0 [] a = "one" -> 1 [] OTHER -> -1]
        BY <1>2, <2>1
      <3>2. (CASE a = "zero" -> 0 [] a = "one" -> 1 [] OTHER -> -1) \in {-1, 0, 1}
        BY DEF Answers
      <3>3. ended' \in [method : Methods, result : {-1, 0, 1}, missed : SUBSET Funs] /\ ended'.missed = {}
        BY <1>4, <3>1, <3>2
      <3> QED
        BY <1>3, <1>7, <1>8, <3>1, <3>3 DEF Counted, RunCallsAll
    <2>2. CASE ~Stops(r.method, a)
      <3>1. GoOn(r, i + 1, released, st)
        BY <1>2, <2>2
      <3>2. i \in Nat /\ i + 1 \in Nat \ {0}
        BY <1>5
      <3>3. ASSUME NEW p \in DOMAIN h
            PROVE  /\ h[p] \in r.called => p < i + 1
                   /\ h[p] \in r.due /\ p < i + 1 => h[p] \in r.called
        <4>1. /\ h[p] \in r.called => p <= i
              /\ h[p] \in r.due /\ p <= i => h[p] \in r.called
          BY <1>2, <1>4 DEF Good, Placed
        <4> QED
          BY <1>5, <4>1
      <3>4. Between(r, i + 1, released, st)
        BY <1>3, <1>4, <1>7, <1>8, <3>2, <3>3 DEF Between, Good
      <3> QED
        BY <3>1, <3>4, GoOnStep
    <2> QED
      BY <2>1, <2>2
  <1>10. freed => /\ RemoveAt(h, i) \in Seq(Funs) /\ Distinct(RemoveAt(h, i))
                  /\ Members(RemoveAt(h, i)) = Members(h) \ {f}
    BY <1>2, <1>5, MembersRemove
  <1>11. \A m \in Names : hooks'[m] = IF m = n /\ freed THEN RemoveAt(h, i) ELSE hooks[m]
    BY <1>2, <1>4 DEF HooksInv, TypeOK, Freed
  <1>12. TypeOK'
    <2>1. hooks' \in [Names -> Seq(Funs)]
      BY <1>2, <1>4, <1>5, <1>10 DEF HooksInv, TypeOK, Freed
    <2> QED
      BY <1>1, <1>9, <2>1 DEF HooksInv, TypeOK
  <1>13. \A m \in Names : Distinct(hooks[m])'
    BY <1>10, <1>11 DEF HooksInv
  <1>14. Kept'
    <2> SUFFICES ASSUME NEW m \in Names, NEW g \in Funs
                 PROVE  g \in Members(hooks'[m]) <=> g \in valid[m] \/ locks'[m][g] > 0
      BY <1>1 DEF Kept
    <2>1. /\ g \in Members(hooks[m]) <=> g \in valid[m] \/ locks[m][g] > 0
          /\ g \notin valid[m] => locks'[m][g] = released[m][g]
      BY <1>9 DEF HooksInv, Kept
    <2>2. CASE g \in valid[m]
      BY <1>10, <1>11, <2>1, <2>2
    <2>3. CASE g \notin valid[m] /\ ~(m = n /\ g = f)
      BY <1>7, <1>10, <1>11, <2>1, <2>3
    <2>4. CASE g \notin valid[m] /\ m = n /\ g = f
      <3>1. f \in Members(h)
        BY <1>2 DEF Members
      <3>2. released[n][f] \in Nat
        BY <1>4, <1>7
      <3> QED
        BY <1>10, <1>11, <2>1, <2>4, <3>1, <3>2
    <2> QED
      BY <2>2, <2>3, <2>4
  <1>15. RunsGood'
    <2> SUFFICES ASSUME NEW k \in DOMAIN stack'
                 PROVE  Good(hooks'[stack'[k].name], valid[stack'[k].name], stack'[k])
      BY <1>1 DEF RunsGood
    <2> DEFINE s == stack'[k]
    <2>1. s \in Runs /\ s.name \in Names
      BY <1>9, InStack
    <2>2. Good(hooks[s.name], valid[s.name], s)
      BY <1>3, <1>9 DEF HooksInv, RunsGood
    <2>3. CASE ~(s.name = n /\ freed)
      BY <1>11, <2>1, <2>2, <2>3
    <2>4. CASE s.name = n /\ freed
      <3>1. Count(stack', n, f) = 0
        BY <1>4, <1>9, <2>4 DEF Counted
      <3>2. s.hook # f
        <4>1. DOMAIN stack' = 1..Len(stack')
          BY <1>9
        <4> QED
          BY <1>9, <2>4, <3>1, <4>1, CountType
      <3>3. Placed(RemoveAt(h, i), s)
        BY <1>2, <1>5, <2>1, <2>2, <2>4, <3>2, PlacedRemove DEF Good
      <3> QED
        BY <1>11, <2>1, <2>2, <2>4, <3>3 DEF Good
    <2> QED
      BY <2>3, <2>4
  <1> QED
    BY <1>9, <1>12, <1>13, <1>14, <1>15 DEF HooksInv

-----------------------------------------------------------------------------
LEMMA HooksStep == HooksInv /\ [Next]_vars => HooksInv'
  <1> SUFFICES ASSUME HooksInv, [Next]_vars PROVE HooksInv'
    OBVIOUS
  <1>1. ASSUME NEW n \in Names, NEW f \in Funs, AddToHook(n, f) PROVE HooksInv'
    BY <1>1, AddStep
  <1>2. ASSUME NEW n \in Names, NEW f \in Funs, AppendToHook(n, f) PROVE HooksInv'
    BY <1>2, AppendStep
  <1>3. ASSUME NEW n \in Names, NEW f \in Funs, RemoveFromHook(n, f) PROVE HooksInv'
    BY <1>3, RemoveStep
  <1>4. ASSUME NEW n \in Names, NEW m \in Methods, RunHooks(n, m) PROVE HooksInv'
    BY <1>4, RunStep
  <1>5. ASSUME NEW a \in Answers, Return(a) PROVE HooksInv'
    BY <1>5, ReturnStep
  <1>6. CASE UNCHANGED vars
    <2>1. /\ hooks' = hooks /\ valid' = valid /\ locks' = locks
          /\ stack' = stack /\ ended' = ended
      BY <1>6 DEF vars
    <2>2. TypeOK' /\ RunCallsAll'
      BY <2>1 DEF HooksInv, TypeOK, RunCallsAll
    <2>3. (\A n \in Names : Distinct(hooks[n]))' /\ Kept'
      BY <2>1 DEF HooksInv, Kept
    <2>4. Counted'
      BY <2>1 DEF HooksInv, Counted
    <2>5. RunsGood'
      BY <2>1 DEF HooksInv, RunsGood
    <2> QED
      BY <2>2, <2>3, <2>4, <2>5 DEF HooksInv
  <1> QED
    BY <1>1, <1>2, <1>3, <1>4, <1>5, <1>6 DEF Next, AnyReturn

LEMMA HooksInductive == Spec => []HooksInv
  BY HooksInit, HooksStep, PTL DEF Spec

(* Every variable of the lists of hooks keeps its type.                    *)
THEOREM HooksTypeCorrect == Spec => []TypeOK
  <1>1. HooksInv => TypeOK
    BY DEF HooksInv
  <1> QED
    BY <1>1, HooksInductive, PTL

(* Whatever the hooks do to the lists that are being walked, and however   *)
(* deep they run them, no run is at a freed node (hooks.c:63-99).          *)
THEOREM HooksNodesSound == Spec => []NodesSound
  <1>1. HooksInv => NodesSound
    <2> SUFFICES ASSUME HooksInv PROVE NodesSound
      OBVIOUS
    <2>1. ASSUME NEW k \in DOMAIN stack
          PROVE  stack[k].hook \in Listed(stack[k].name)
      BY <2>1 DEF HooksInv, RunsGood, Good, Placed, Listed
    <2>2. ASSUME NEW n \in Names, NEW f \in Funs
          PROVE  /\ locks[n][f] = Cardinality(Holders(n, f))
                 /\ f \in Listed(n) <=> f \in valid[n] \/ locks[n][f] > 0
      <3>1. Holders(n, f) = Holding(stack, n, f) /\ Listed(n) = Members(hooks[n])
        BY DEF Holders, Holding, Listed, Members
      <3> QED
        BY <3>1 DEF HooksInv, Counted, Count, Kept
    <2> QED
      BY <2>1, <2>2 DEF NodesSound
  <1> QED
    BY <1>1, HooksInductive, PTL

(* A run calls the functions that are in the list all the time once, in    *)
(* the order of the list.                                                  *)
THEOREM HooksCalledOnce == Spec => []CalledOnce
  <1>1. HooksInv => CalledOnce
    <2> SUFFICES ASSUME HooksInv PROVE CalledOnce
      OBVIOUS
    <2>1. ASSUME NEW k \in DOMAIN stack
          PROVE  stack[k].again = {}
      BY <2>1 DEF HooksInv, RunsGood, Good
    <2>2. ASSUME NEW k \in DOMAIN stack,
                 NEW i \in DOMAIN hooks[stack[k].name], NEW j \in DOMAIN hooks[stack[k].name],
                 hooks[stack[k].name][j] = stack[k].hook, hooks[stack[k].name][i] \in stack[k].due
          PROVE  hooks[stack[k].name][i] \in stack[k].called <=> i <= j
      BY <2>2 DEF HooksInv, RunsGood, Good, Placed
    <2> QED
      BY <2>1, <2>2 DEF CalledOnce
  <1> QED
    BY <1>1, HooksInductive, PTL

(* A run that comes to the end of its list has left no function out that   *)
(* was there all the time, so every exit hook has been asked.              *)
THEOREM HooksRunCallsAll == Spec => []RunCallsAll
  <1>1. HooksInv => RunCallsAll
    BY DEF HooksInv
  <1> QED
    BY <1>1, HooksInductive, PTL


-----------------------------------------------------------------------------
(* The abbreviations.                                                      *)

(* The types that matter, and that only names are in the list.             *)
TablesInv ==
  /\ list \in Seq(Tables \ {Global}) /\ global \in BOOLEAN
  /\ abbrevs \in [Tables -> SUBSET Entries]
  /\ chars \in [Tables -> SUBSET Chars]
  /\ table \in [Buffers -> Tables \cup {Null}] /\ cbuf \in Buffers
  /\ TablesSound

LEMMA RemovedFromList ==
  ASSUME NEW S, NEW s \in Seq(S), NEW i \in DOMAIN s
  PROVE  /\ RemoveAt(s, i) \in Seq(S)
         /\ \A x \in ToSet(s) : x # s[i] => x \in ToSet(RemoveAt(s, i))
<1> DEFINE n == Len(s)
           a == SubSeq(s, 1, i - 1)
           b == SubSeq(s, i + 1, n)
           r == RemoveAt(s, i)
<1>1. n \in Nat /\ DOMAIN s = 1..n /\ i \in 1..n
  OBVIOUS
<1>2. a \in Seq(S) /\ Len(a) = i - 1 /\ \A j \in 1..(i - 1) : a[j] = s[j]
  BY <1>1
<1>3. b \in Seq(S) /\ Len(b) = n - i /\ \A j \in 1..(n - i) : b[j] = s[j + i]
  BY <1>1
<1>4. r = a \o b
  BY DEF RemoveAt
<1> HIDE DEF n, a, b, r
<1>0. /\ a \o b \in Seq(S) /\ Len(a \o b) = Len(a) + Len(b)
      /\ \A j \in 1..(Len(a) + Len(b)) : (a \o b)[j] = IF j <= Len(a) THEN a[j] ELSE b[j - Len(a)]
  BY <1>2, <1>3, ConcatProperties
<1>5. /\ r \in Seq(S) /\ Len(r) = n - 1
      /\ \A j \in 1..(n - 1) : r[j] = IF j <= i - 1 THEN a[j] ELSE b[j - (i - 1)]
  <2>1. Len(a) + Len(b) = n - 1
    BY ONLY <1>1, <1>2, <1>3
  <2> QED
    BY <1>0, <1>2, <1>4, <2>1
<1>6. \A j \in 1..(i - 1) : r[j] = s[j]
  BY <1>1, <1>2, <1>5
<1>7. \A j \in (i + 1)..n : r[j - 1] = s[j]
  <2>1. ASSUME NEW j \in (i + 1)..n PROVE r[j - 1] = s[j]
    <3>1. j - i \in 1..(n - i) /\ (j - i) + i = j /\ (i - 1) + (j - i) = j - 1
      BY ONLY <1>1, j \in (i + 1)..n
    <3>2. b[j - i] = s[j]
      BY <1>3, <3>1
    <3>3. j - 1 \in 1..(n - 1) /\ ~(j - 1 <= i - 1) /\ (j - 1) - (i - 1) = j - i
      BY ONLY <1>1, j \in (i + 1)..n
    <3> QED
      BY <1>5, <3>2, <3>3
  <2> QED
    BY <2>1
<1>8. ASSUME NEW x \in ToSet(s), x # s[i] PROVE x \in ToSet(r)
  <2>1. PICK j \in 1..n : s[j] = x
    BY <1>1 DEF ToSet
  <2>2. DOMAIN r = 1..(n - 1)
    BY <1>5
  <2>3. CASE j < i
    <3>1. j \in 1..(i - 1) /\ j \in 1..(n - 1)
      BY <1>1, <2>3
    <3> QED
      BY <1>6, <2>1, <2>2, <3>1 DEF ToSet
  <2>4. CASE j > i
    <3>1. j \in (i + 1)..n /\ j - 1 \in 1..(n - 1)
      BY <1>1, <2>4
    <3> QED
      BY <1>7, <2>1, <2>2, <3>1 DEF ToSet
  <2> QED
    BY <1>1, <1>8, <2>1, <2>3, <2>4
<1> QED
  BY <1>5, <1>8 DEF r

LEMMA CreateKeeps ==
  ASSUME TablesInv, NEW t \in Tables, NEW w \in WordSets, CreateAbbrevTable(t, w)
  PROVE  TablesInv'
<1>1. chars' \in [Tables -> SUBSET Chars] /\ global' \in BOOLEAN
  BY AbbrevAssumption DEF TablesInv, CreateAbbrevTable
<1>2. list' \in Seq(Tables \ {Global}) /\ ToSet(list) \subseteq ToSet(list')
  <2>1. CASE t = Global \/ Exists(t)
    BY <2>1 DEF TablesInv, CreateAbbrevTable
  <2>2. CASE ~(t = Global \/ Exists(t))
    <3> DEFINE S == Tables \ {Global}
    <3>1. list \in Seq(S) /\ t \in S /\ list' = <<t>> \o list
      BY <2>2 DEF TablesInv, CreateAbbrevTable
    <3> HIDE DEF S
    <3>2. list' \in Seq(S) /\ Len(list') = Len(list) + 1 /\ Len(list) \in Nat
          /\ \A i \in 1..Len(list) : list'[i + 1] = list[i]
      BY ONLY <3>1
    <3>3. ASSUME NEW x \in ToSet(list) PROVE x \in ToSet(list')
      <4>1. PICK i \in 1..Len(list) : list[i] = x
        BY <3>1 DEF ToSet
      <4>2. i + 1 \in DOMAIN list' /\ list'[i + 1] = x
        BY <3>2, <4>1
      <4> QED
        BY <4>2 DEF ToSet
    <3> QED
      BY <3>2, <3>3 DEF S
  <2> QED
    BY <2>1, <2>2
<1>3. \A u : Exists(u) => Exists(u)'
  BY <1>2 DEF Exists, CreateAbbrevTable
<1> QED
  BY <1>1, <1>2, <1>3 DEF TablesInv, TablesSound, CreateAbbrevTable

LEMMA DefineKeeps ==
  ASSUME TablesInv, NEW t \in Tables, NEW e \in Entries, DefineAbbrev(t, e)
  PROVE  TablesInv'
<1> DEFINE a == {d \in abbrevs[t] : d.word # e.word} \cup {e}
<1>1. /\ abbrevs' = [abbrevs EXCEPT ![t] = a] /\ abbrevs \in [Tables -> SUBSET Entries]
      /\ UNCHANGED <<list, global, chars, table, cbuf>>
  BY DEF TablesInv, DefineAbbrev
<1>2. a \subseteq Entries /\ \A d, f \in a : d.word = f.word => d = f
  BY DEF TablesInv, TablesSound
<1> HIDE DEF a
<1>3. abbrevs' \in [Tables -> SUBSET Entries] /\ \A u \in Tables : abbrevs'[u] = IF u = t THEN a ELSE abbrevs[u]
  BY <1>1, <1>2
<1>4. \A u \in Tables : \A d, f \in abbrevs'[u] : d.word = f.word => d = f
  BY <1>2, <1>3 DEF TablesInv, TablesSound
<1>5. \A u : Exists(u)' <=> Exists(u)
  BY <1>1 DEF Exists
<1> QED
  BY <1>1, <1>3, <1>4, <1>5 DEF TablesInv, TablesSound

LEMMA UseKeeps ==
  ASSUME TablesInv, NEW t \in Tables, UseAbbrevTable(t)
  PROVE  TablesInv'
<1>1. \A u : Exists(u)' <=> Exists(u)
  BY DEF UseAbbrevTable, Exists
<1> QED
  BY <1>1 DEF UseAbbrevTable, TablesInv, TablesSound

LEMMA DeleteKeeps ==
  ASSUME TablesInv, NEW t \in Tables, DeleteAbbrevTable(t)
  PROVE  TablesInv'
<1>1. /\ table' = Forgotten(t) /\ abbrevs' = [abbrevs EXCEPT ![t] = {}]
      /\ chars' = [chars EXCEPT ![t] = {}] /\ cbuf' = cbuf
  BY DEF DeleteAbbrevTable
<1>2. /\ list' \in Seq(Tables \ {Global}) /\ global' \in BOOLEAN
      /\ \A u : Exists(u) /\ u # t => Exists(u)'
  <2>1. CASE t = Global /\ global' = FALSE /\ UNCHANGED list
    BY <2>1 DEF TablesInv, Exists
  <2>2. ASSUME NEW i \in DOMAIN list, list[i] = t, list' = RemoveAt(list, i), UNCHANGED global
        PROVE  /\ list' \in Seq(Tables \ {Global}) /\ global' \in BOOLEAN
               /\ \A u : Exists(u) /\ u # t => Exists(u)'
    <3>1. list' \in Seq(Tables \ {Global}) /\ \A x \in ToSet(list) : x # t => x \in ToSet(list')
      <4>1. list \in Seq(Tables \ {Global})
        BY DEF TablesInv
      <4> QED
        BY <2>2, <4>1, RemovedFromList
    <3> QED
      BY <2>2, <3>1 DEF TablesInv, Exists
  <2> QED
    BY <2>1, <2>2 DEF DeleteAbbrevTable
<1>3. table' \in [Buffers -> Tables \cup {Null}] /\ \A b \in Buffers : (table[b] = Null \/ Exists(table[b]))'
  BY <1>1, <1>2 DEF TablesInv, TablesSound, Forgotten
<1>4. /\ abbrevs' \in [Tables -> SUBSET Entries] /\ chars' \in [Tables -> SUBSET Chars]
      /\ \A u \in Tables : abbrevs'[u] \subseteq abbrevs[u]
  BY <1>1 DEF TablesInv
<1>5. \A u \in Tables : \A d, f \in abbrevs'[u] : d.word = f.word => d = f
  BY <1>4 DEF TablesInv, TablesSound
<1> QED
  BY <1>1, <1>2, <1>3, <1>4, <1>5 DEF TablesInv, TablesSound

LEMMA TablesStep == TablesInv /\ [AbbrevNext]_abbrevVars => TablesInv'
<1> SUFFICES ASSUME TablesInv, [AbbrevNext]_abbrevVars PROVE TablesInv'
  OBVIOUS
<1>1. CASE UNCHANGED <<list, global, abbrevs, chars, table>> /\ cbuf' \in Buffers
  <2>1. \A u : Exists(u)' <=> Exists(u)
    BY <1>1 DEF Exists
  <2> QED
    BY <1>1, <2>1 DEF TablesInv, TablesSound
<1>2. ASSUME NEW t \in Tables, NEW w \in WordSets, CreateAbbrevTable(t, w) PROVE TablesInv'
  BY <1>2, CreateKeeps
<1>3. ASSUME NEW t \in Tables, NEW e \in Entries, DefineAbbrev(t, e) PROVE TablesInv'
  BY <1>3, DefineKeeps
<1>4. ASSUME NEW t \in Tables, UseAbbrevTable(t) \/ DeleteAbbrevTable(t) PROVE TablesInv'
  BY <1>4, UseKeeps, DeleteKeeps
<1>5. ASSUME NEW b \in Buffers, SwitchToBuffer(b) PROVE TablesInv'
  BY <1>1, <1>5 DEF SwitchToBuffer
<1>6. ASSUME NEW s \in Lines, NEW c \in Chars, NEW over \in BOOLEAN, NEW p \in 0..Len(s), InsCharCmd(s, p, c, over)
      PROVE  TablesInv'
  BY <1>1, <1>6 DEF InsCharCmd, TablesInv
<1>7. CASE UNCHANGED abbrevVars
  BY <1>1, <1>7 DEF abbrevVars, TablesInv
<1> QED
  BY <1>2, <1>3, <1>4, <1>5, <1>6, <1>7 DEF AbbrevNext

LEMMA TablesStart == AbbrevInit => TablesInv
<1> SUFFICES ASSUME AbbrevInit PROVE TablesInv
  OBVIOUS
<1>1. list \in Seq(Tables \ {Global})
  BY EmptySeq DEF AbbrevInit
<1> QED
  BY <1>1 DEF AbbrevInit, TablesInv, TablesSound

(* No buffer points to a table that was deleted, whoever used it, and a    *)
(* word has one abbreviation in a table: delete_abbrev_table makes every   *)
(* buffer let go of the table, and define_abbrev replaces what the word    *)
(* stood for.                                                              *)
THEOREM AbbrevTablesSound == AbbrevSpec => []TablesSound
<1>1. TablesInv => TablesSound
  BY DEF TablesInv
<1> QED
  BY <1>1, TablesStart, TablesStep, PTL DEF AbbrevSpec

-----------------------------------------------------------------------------
(* Pieces of a line.                                                       *)

LEMMA Piece ==
  ASSUME NEW S, NEW s \in Seq(S), NEW m \in Nat, NEW n \in Nat, m >= 1, n <= Len(s)
  PROVE  /\ SubSeq(s, m, n) \in Seq(S)
         /\ Len(SubSeq(s, m, n)) = IF m <= n THEN n - m + 1 ELSE 0
         /\ \A i \in 1..(n - m + 1) : SubSeq(s, m, n)[i] = s[m + i - 1]
<1>1. \A i \in m..n : s[i] \in S
  <2>1. ASSUME NEW i \in m..n PROVE s[i] \in S
    <3>1. i \in 1..Len(s)
      OBVIOUS
    <3> QED
      BY <3>1, ElementOfSeq
  <2> QED
    BY <2>1
<1>2. m \in Int /\ n \in Int
  OBVIOUS
<1> QED
  BY <1>1, <1>2, SubSeqProperties

LEMMA SameLine ==
  ASSUME NEW S, NEW s \in Seq(S), NEW t \in Seq(S), NEW n \in Nat, Len(s) = n, Len(t) = n,
         \A i \in 1..n : s[i] = t[i]
  PROVE  s = t
  BY SeqEqual

LEMMA FirstHalf ==
  ASSUME NEW S, NEW a \in Seq(S), NEW b \in Seq(S)
  PROVE  SubSeq(a \o b, 1, Len(a)) = a
<1> DEFINE s == a \o b
           n == Len(a)
           m == Len(b)
<1>1. n \in Nat /\ m \in Nat
  OBVIOUS
<1>2. s \in Seq(S) /\ Len(s) = n + m /\ \A i \in 1..(n + m) : s[i] = IF i <= n THEN a[i] ELSE b[i - n]
  BY ConcatProperties
<1> HIDE DEF s
<1>3. n <= Len(s) /\ 1 \in Nat /\ 1 >= 1
  BY <1>1, <1>2
<1>4. /\ SubSeq(s, 1, n) \in Seq(S) /\ Len(SubSeq(s, 1, n)) = IF 1 <= n THEN n - 1 + 1 ELSE 0
      /\ \A i \in 1..(n - 1 + 1) : SubSeq(s, 1, n)[i] = s[1 + i - 1]
  BY <1>1, <1>2, <1>3, Piece
<1> HIDE DEF n, m
<1>5. Len(SubSeq(s, 1, n)) = n
  BY <1>1, <1>4
<1>6. \A i \in 1..n : SubSeq(s, 1, n)[i] = a[i]
  BY <1>1, <1>2, <1>4
<1>7. Len(a) = n
  BY DEF n
<1>8. SubSeq(s, 1, n) = a
  BY <1>1, <1>4, <1>5, <1>6, <1>7, SameLine
<1> QED
  BY <1>8 DEF s, n

LEMMA SecondHalf ==
  ASSUME NEW S, NEW a \in Seq(S), NEW b \in Seq(S), NEW k \in Nat
  PROVE  SubSeq(a \o b, Len(a) + k + 1, Len(a \o b)) = SubSeq(b, k + 1, Len(b))
<1> DEFINE s == a \o b
           n == Len(a)
           m == Len(b)
           l == Len(s)
           u == SubSeq(s, n + k + 1, l)
           v == SubSeq(b, k + 1, m)
<1>1. n \in Nat /\ m \in Nat
  OBVIOUS
<1>2. s \in Seq(S) /\ l = n + m /\ \A i \in 1..(n + m) : s[i] = IF i <= n THEN a[i] ELSE b[i - n]
  BY ConcatProperties
<1>3. Len(s) = l /\ Len(b) = m
  OBVIOUS
<1> HIDE DEF s, n, l, m
<1>4. n + k + 1 \in Nat /\ n + k + 1 >= 1 /\ l \in Nat /\ k + 1 \in Nat /\ k + 1 >= 1
  BY <1>1, <1>2
<1>5. /\ u \in Seq(S) /\ Len(u) = IF n + k + 1 <= l THEN l - (n + k + 1) + 1 ELSE 0
      /\ \A i \in 1..(l - (n + k + 1) + 1) : u[i] = s[n + k + 1 + i - 1]
  <2>1. l <= Len(s)
    BY <1>3, <1>4
  <2> QED
    BY <1>2, <1>4, <2>1, Piece
<1>6. /\ v \in Seq(S) /\ Len(v) = IF k + 1 <= m THEN m - (k + 1) + 1 ELSE 0
      /\ \A i \in 1..(m - (k + 1) + 1) : v[i] = b[k + 1 + i - 1]
  <2>1. m <= Len(b)
    BY <1>1, <1>3
  <2> QED
    BY <1>1, <1>4, <2>1, Piece
<1> HIDE DEF u, v
<1> DEFINE w == IF k + 1 <= m THEN m - k ELSE 0
<1>7. Len(u) = w /\ Len(v) = w /\ w \in Nat
  BY ONLY <1>1, <1>2, <1>5, <1>6, k \in Nat
<1>8. ASSUME NEW i \in 1..w PROVE u[i] = v[i]
  <2> DEFINE j == k + i
  <2>1. /\ i \in 1..(l - (n + k + 1) + 1) /\ i \in 1..(m - (k + 1) + 1)
        /\ n + k + 1 + i - 1 = n + j /\ k + 1 + i - 1 = j
        /\ n + j \in 1..(n + m) /\ ~(n + j <= n) /\ (n + j) - n = j
    BY ONLY <1>1, <1>2, k \in Nat, i \in 1..w
  <2> HIDE DEF j
  <2>2. u[i] = s[n + j]
    BY ONLY <1>5, <2>1
  <2>3. s[n + j] = b[j]
    BY ONLY <1>2, <2>1
  <2>4. v[i] = b[j]
    BY ONLY <1>6, <2>1
  <2> QED
    BY ONLY <2>2, <2>3, <2>4
<1> HIDE DEF w
<1>9. u = v
  BY <1>5, <1>6, <1>7, <1>8, SameLine
<1> QED
  BY <1>9 DEF u, v, s, n, m, l

LEMMA RestIsSuffix ==
  ASSUME NEW S, NEW s \in Seq(S), NEW k \in Nat
  PROVE  IsSuffix(SubSeq(s, k + 1, Len(s)), s)
<1> DEFINE n == Len(s)
           t == SubSeq(s, k + 1, n)
           m == Len(t)
           x == Reverse(t)
           y == Reverse(s)
<1>1. n \in Nat
  OBVIOUS
<1>2. /\ t \in Seq(S) /\ Len(t) = IF k + 1 <= n THEN n - (k + 1) + 1 ELSE 0
      /\ \A i \in 1..(n - (k + 1) + 1) : t[i] = s[k + 1 + i - 1]
  <2>1. k + 1 \in Nat /\ k + 1 >= 1 /\ n <= Len(s)
    BY <1>1
  <2> QED
    BY <1>1, <2>1, Piece
<1>3. x = [i \in 1..m |-> t[(m - i) + 1]] /\ y = [i \in 1..n |-> s[(n - i) + 1]]
  BY DEF Reverse
<1>4. m = Len(t)
  OBVIOUS
<1> HIDE DEF n, t, m, x, y
<1>5. m \in Nat /\ m <= n /\ (m > 0 => m = n - k)
  BY ONLY <1>1, <1>2, <1>4, k \in Nat
<1>6. Len(x) = m /\ Len(y) = n
  BY <1>1, <1>3, <1>5
<1>7. SubSeq(x, 1, m) = [i \in 1..m |-> x[i]] /\ SubSeq(y, 1, m) = [i \in 1..m |-> y[i]]
  BY <1>1, <1>3, <1>5, <1>6
<1>8. ASSUME NEW i \in 1..m PROVE x[i] = y[i]
  <2>1. x[i] = t[(m - i) + 1] /\ y[i] = s[(n - i) + 1]
    <3>1. i \in 1..n
      BY <1>1, <1>5
    <3> QED
      BY <1>3, <3>1
  <2>2. m - i + 1 \in 1..(n - (k + 1) + 1) /\ k + 1 + (m - i + 1) - 1 = (n - i) + 1
    BY ONLY <1>1, <1>5, k \in Nat, i \in 1..m
  <2> QED
    BY <1>2, <2>1, <2>2
<1>9. Len(x) <= Len(y) /\ SubSeq(x, 1, Len(x)) = SubSeq(y, 1, Len(x))
  BY <1>5, <1>6, <1>7, <1>8
<1> QED
  BY <1>9 DEF IsSuffix, IsPrefix, x, y, t, n

(* What deleting and inserting between two pieces of a line give.          *)
LEMMA DeletedBetween ==
  ASSUME NEW S, NEW a \in Seq(S), NEW b \in Seq(S), NEW k \in Nat
  PROVE  Deleted(a \o b, Len(a), k) = a \o SubSeq(b, k + 1, Len(b))
  BY FirstHalf, SecondHalf DEF Deleted

LEMMA Behind ==
  ASSUME NEW S, NEW a \in Seq(S), NEW b \in Seq(S)
  PROVE  SubSeq(a \o b, Len(a) + 1, Len(a \o b)) = b
<1>1. SubSeq(a \o b, Len(a) + 0 + 1, Len(a \o b)) = SubSeq(b, 0 + 1, Len(b))
  BY SecondHalf
<1>2. Len(a) + 0 + 1 = Len(a) + 1 /\ 0 + 1 = 1
  OBVIOUS
<1>3. SubSeq(b, 1, Len(b)) = b
  BY SubSeqFull
<1> QED
  BY <1>1, <1>2, <1>3

LEMMA InsertedBetween ==
  ASSUME NEW S, NEW a \in Seq(S), NEW b \in Seq(S), NEW x \in Seq(S)
  PROVE  /\ a \o x \in Seq(S) /\ Len(a \o x) = Len(a) + Len(x)
         /\ Inserted(a \o b, Len(a), x) = (a \o x) \o b
<1>1. a \o x \in Seq(S) /\ Len(a \o x) = Len(a) + Len(x)
  BY ConcatProperties
<1> QED
  BY <1>1, FirstHalf, Behind DEF Inserted

(* A line is what is before a place and what is behind it.                 *)
LEMMA Halved ==
  ASSUME NEW S, NEW s \in Seq(S), NEW p \in Nat, p <= Len(s)
  PROVE  /\ SubSeq(s, 1, p) \in Seq(S) /\ Len(SubSeq(s, 1, p)) = p
         /\ SubSeq(s, p + 1, Len(s)) \in Seq(S)
         /\ s = SubSeq(s, 1, p) \o SubSeq(s, p + 1, Len(s))
<1> DEFINE n == Len(s)
<1>1. n \in Nat /\ p \in 0..n
  OBVIOUS
<1>2. SubSeq(s, 1, p) \in Seq(S) /\ Len(SubSeq(s, 1, p)) = IF 1 <= p THEN p - 1 + 1 ELSE 0
  BY <1>1, Piece
<1>3. SubSeq(s, p + 1, n) \in Seq(S)
  <2>1. p + 1 \in Nat /\ p + 1 >= 1
    OBVIOUS
  <2> QED
    BY <1>1, <2>1, Piece
<1>4. SubSeq(s, 1, n) = s
  BY SubSeqFull
<1>5. SubSeq(s, 1, p) \o SubSeq(s, p + 1, n) = SubSeq(s, 1, n)
  <2>1. 1 \in 1..(n + 1) /\ p \in (1 - 1)..n /\ n \in p..n
    BY <1>1
  <2> QED
    BY <2>1, ConcatAdjacentSubSeq
<1>6. Len(SubSeq(s, 1, p)) = p
  BY <1>2
<1> QED
  BY <1>2, <1>3, <1>4, <1>5, <1>6

-----------------------------------------------------------------------------
(* Where a word begins.                                                    *)

Start(s, p, w, i) ==
  /\ i \in 0..p
  /\ \A j \in (i + 1)..p : s[j] \in w
  /\ i > 0 => s[i] \notin w

LEMMA StartUnique ==
  ASSUME NEW s, NEW p \in Nat, NEW w, NEW i, NEW j, Start(s, p, w, i), Start(s, p, w, j)
  PROVE  i = j
<1>1. ASSUME NEW k \in 0..p, NEW l \in 0..p, k < l, Start(s, p, w, k), Start(s, p, w, l) PROVE FALSE
  <2>1. l \in (k + 1)..p /\ l > 0
    BY <1>1
  <2> QED
    BY <1>1, <2>1 DEF Start
<1>2. i \in 0..p /\ j \in 0..p
  BY DEF Start
<1>3. i < j \/ j < i \/ i = j
  BY <1>2
<1> QED
  BY <1>1, <1>2, <1>3

(* The least place from which on all are of the word.                      *)
LEMMA StartExists ==
  ASSUME NEW s, NEW p \in Nat, NEW w
  PROVE  \E i \in 0..p : Start(s, p, w, i)
<1> DEFINE K == {i \in 0..p : \A j \in (i + 1)..p : s[j] \in w}
<1>1. p \in K
  OBVIOUS
<1>2. PICK i \in K : \A k \in K : k >= i
  <2>1. K # {} /\ K \subseteq Nat
    BY <1>1
  <2>2. PICK i \in K : \A k \in K : <<k, i>> \notin OpToRel(<, Nat)
    BY <2>1, NatLessThanWellFounded, WFMin
  <2>3. ASSUME NEW k \in K PROVE k >= i
    <3>1. k \in Nat /\ i \in Nat
      BY <2>1, <2>2
    <3>2. ~(k < i)
      BY <2>2, <3>1 DEF OpToRel
    <3> QED
      BY <3>1, <3>2
  <2> QED
    BY <2>2, <2>3
<1>3. i \in 0..p /\ \A j \in (i + 1)..p : s[j] \in w
  BY <1>2
<1>4. i > 0 => s[i] \notin w
  <2>1. SUFFICES ASSUME i > 0, s[i] \in w PROVE FALSE
    OBVIOUS
  <2>2. i - 1 \in 0..p /\ ~(i - 1 >= i)
    BY <1>3, <2>1
  <2>3. ASSUME NEW j \in ((i - 1) + 1)..p PROVE s[j] \in w
    <3>1. j = i \/ j \in (i + 1)..p
      BY <1>3
    <3> QED
      BY <1>3, <2>1, <3>1
  <2>4. i - 1 \in K
    BY <2>2, <2>3
  <2> QED
    BY <1>2, <2>2, <2>4
<1> QED
  BY <1>3, <1>4 DEF Start

LEMMA WordAtIs ==
  ASSUME NEW s, NEW p \in Nat, NEW w
  PROVE  /\ \E i \in 0..p : Start(s, p, w, i) /\ WordAt(s, p, w) = SubSeq(s, i + 1, p)
         /\ \A i : Start(s, p, w, i) => WordAt(s, p, w) = SubSeq(s, i + 1, p)
<1> DEFINE Q(i) == /\ \A j \in (i + 1)..p : s[j] \in w
                   /\ i > 0 => s[i] \notin w
           from == CHOOSE i \in 0..p : Q(i)
<1>1. \A i \in 0..p : Q(i) <=> Start(s, p, w, i)
  BY DEF Start
<1>2. WordAt(s, p, w) = SubSeq(s, from + 1, p)
  BY DEF WordAt
<1> HIDE DEF Q
<1>3. \E i \in 0..p : Q(i)
  BY <1>1, StartExists
<1>4. from \in 0..p /\ Q(from)
  BY <1>3
<1> HIDE DEF from
<1>5. Start(s, p, w, from)
  BY <1>1, <1>4
<1>6. \A i : Start(s, p, w, i) => i = from
  BY <1>5, StartUnique
<1> QED
  BY <1>2, <1>4, <1>5, <1>6

-----------------------------------------------------------------------------
(* What is typed.                                                          *)

(* The text before the cursor is typed, the text behind it left.           *)
Typed(l) == SubSeq(l.text, 1, l.point)
Left(l) == SubSeq(l.text, l.point + 1, Len(l.text))
Proper(l) == l.text \in Seq(Chars) /\ l.point \in 0..Len(l.text)

Stays(s, p, over) ==
  LET rest == SubSeq(s, p + 1, Len(s))
  IN IF over THEN IsSuffix(Left(line'), rest) ELSE Left(line') = rest

LEMMA ExpandsIs ==
  ASSUME NEW s, NEW p, NEW c, NEW over, Stays(s, p, over),
         Expansions(s, p, c) = {} => Typed(line') = SubSeq(s, 1, p) \o <<c>>,
         \A x \in Expansions(s, p, c) :
           Typed(line') = SubSeq(s, 1, x[1]) \o x[2].string \o (IF x[2].leave THEN <<>> ELSE <<c>>)
  PROVE  Expands(s, p, c, over)
  BY DEF Expands, Stays, Typed, Left

(* x is put between a and r.                                              *)
Put(a, r, x) == [text |-> Inserted(a \o r, Len(a), x), point |-> Len(a) + Len(x)]

LEMMA PutIn ==
  ASSUME NEW S, NEW a \in Seq(S), NEW r \in Seq(S), NEW x \in Seq(S)
  PROVE  Typed(Put(a, r, x)) = a \o x /\ Left(Put(a, r, x)) = r
<1> DEFINE t == a \o x
           l == Put(a, r, x)
<1>1. t \in Seq(S) /\ Len(t) = Len(a) + Len(x) /\ Inserted(a \o r, Len(a), x) = t \o r
  BY InsertedBetween
<1>2. l.text = Inserted(a \o r, Len(a), x) /\ l.point = Len(a) + Len(x)
  BY DEF Put
<1> HIDE DEF t, l
<1>3. l.text = t \o r /\ l.point = Len(t)
  BY <1>1, <1>2
<1>4. SubSeq(t \o r, 1, Len(t)) = t
  BY <1>1, FirstHalf
<1>5. SubSeq(t \o r, Len(t) + 1, Len(t \o r)) = r
  BY ONLY <1>1, r \in Seq(S), Behind
<1>6. Typed(l) = t /\ Left(l) = r
  BY ONLY <1>3, <1>4, <1>5 DEF Typed, Left
<1> QED
  BY <1>6 DEF t, l

LEMMA PutProper ==
  ASSUME NEW a \in Seq(Chars), NEW r \in Seq(Chars), NEW x \in Seq(Chars)
  PROVE  Proper(Put(a, r, x))
<1> DEFINE t == a \o x
           l == Put(a, r, x)
<1>1. t \in Seq(Chars) /\ Len(t) = Len(a) + Len(x) /\ Inserted(a \o r, Len(a), x) = t \o r
  BY InsertedBetween
<1>2. l.text = Inserted(a \o r, Len(a), x) /\ l.point = Len(a) + Len(x)
  BY DEF Put
<1> HIDE DEF t, l
<1>3. t \o r \in Seq(Chars) /\ Len(t \o r) = Len(t) + Len(r)
  BY <1>1, ConcatProperties
<1>4. Len(t) \in 0..(Len(t) + Len(r))
  <2>1. Len(t) \in Nat /\ Len(r) \in Nat
    BY <1>1
  <2> QED
    BY <2>1
<1>5. Proper(l)
  BY <1>1, <1>2, <1>3, <1>4 DEF Proper
<1> QED
  BY <1>5 DEF l

LEMMA RestType ==
  ASSUME NEW S, NEW b \in Seq(S), NEW k \in Nat
  PROVE  SubSeq(b, k + 1, Len(b)) \in Seq(S)
<1>1. k + 1 \in Nat /\ k + 1 >= 1 /\ Len(b) \in Nat
  OBVIOUS
<1> QED
  BY <1>1, Piece

LEMMA PlainTypes ==
  ASSUME NEW s \in Seq(Chars), NEW p \in Nat, p <= Len(s), NEW c \in Chars, NEW over \in BOOLEAN,
         line' = Plain(s, p, c, over)
  PROVE  Stays(s, p, over) /\ Typed(line') = SubSeq(s, 1, p) \o <<c>> /\ Proper(line')
<1> DEFINE a == SubSeq(s, 1, p)
           b == SubSeq(s, p + 1, Len(s))
           k == IF over THEN 1 ELSE 0
           r == SubSeq(b, k + 1, Len(b))
           x == <<c>>
<1>1. a \in Seq(Chars) /\ b \in Seq(Chars) /\ Len(a) = p /\ s = a \o b
  BY Halved
<1>2. x \in Seq(Chars) /\ Len(x) = 1 /\ k \in Nat
  OBVIOUS
<1>3. (IF over THEN Deleted(s, p, 1) ELSE s) = a \o r
  <2> HIDE DEF a, b
  <2>1. CASE over
    <3>1. Deleted(a \o b, Len(a), 1) = a \o SubSeq(b, 1 + 1, Len(b))
      BY <1>1, DeletedBetween
    <3> QED
      BY <1>1, <2>1, <3>1
  <2>2. CASE ~over
    <3>1. SubSeq(b, 1, Len(b)) = b
      BY <1>1, SubSeqFull
    <3> QED
      BY <1>1, <2>2, <3>1
  <2> QED
    BY <2>1, <2>2
<1>4. line' = Put(a, r, x)
  BY <1>1, <1>2, <1>3 DEF Plain, Put
<1> HIDE DEF a, b, k, x
<1>8. Proper(line')
  BY ONLY <1>1, <1>2, <1>4, RestType, PutProper
<1>5. Typed(line') = a \o x /\ Left(line') = r
  <2>1. r \in Seq(Chars)
    BY <1>1, <1>2, RestType
  <2> HIDE DEF r
  <2>2. Typed(Put(a, r, x)) = a \o x /\ Left(Put(a, r, x)) = r
    <3>1. a \in Seq(Chars) /\ x \in Seq(Chars)
      BY <1>1, <1>2
    <3> QED
      BY ONLY <2>1, <3>1, PutIn
  <2> QED
    BY ONLY <1>4, <2>2
<1>6. IF over THEN IsSuffix(r, b) ELSE r = b
  <2>1. CASE over
    BY <1>1, <1>2, <2>1, RestIsSuffix
  <2>2. CASE ~over
    BY <1>1, <2>2, SubSeqFull DEF k
  <2> QED
    BY <2>1, <2>2
<1> HIDE DEF r
<1>7. Stays(s, p, over)
  BY <1>5, <1>6 DEF Stays, b
<1> QED
  BY <1>5, <1>7, <1>8 DEF a, x

(* The word that begins after the place i gives way to the expansion.      *)
Replaces(s, p, c, over, e, i) ==
  /\ Stays(s, p, over) /\ Proper(line')
  /\ Typed(line') = SubSeq(s, 1, i) \o e.string \o (IF e.leave THEN <<>> ELSE <<c>>)

LEMMA ExpandedTypes ==
  ASSUME NEW s \in Seq(Chars), NEW p \in Nat, p <= Len(s), NEW c \in Chars, NEW over \in BOOLEAN,
         NEW e, e.word \in Seq(Chars), e.string \in Seq(Chars), NEW i \in 0..p,
         e.word = SubSeq(s, i + 1, p), line' = Expanded(s, p, c, over, e)
  PROVE  Replaces(s, p, c, over, e, i)
<1> DEFINE a == SubSeq(s, 1, i)
           w == e.word
           n == Len(w)
           b == SubSeq(s, p + 1, Len(s))
           x == e.string
           k == IF over THEN Len(x) ELSE 0
           r == SubSeq(b, k + 1, Len(b))
           y == IF e.leave THEN <<>> ELSE <<c>>
           new == IF e.leave THEN e.string ELSE Append(e.string, c)
<1>1. b \in Seq(Chars) /\ Len(s) \in Nat
  BY Halved
<1>2. a \in Seq(Chars) /\ Len(a) = i
  <2>1. i \in Nat /\ i <= Len(s)
    BY <1>1
  <2> QED
    BY <2>1, Halved
<1>3. n = p - i /\ n \in Nat
  <2>1. i + 1 \in Nat /\ i + 1 >= 1 /\ p <= Len(s)
    OBVIOUS
  <2>2. Len(SubSeq(s, i + 1, p)) = IF i + 1 <= p THEN p - (i + 1) + 1 ELSE 0
    BY <2>1, Piece
  <2> QED
    BY <2>2
<1>4. w \in Seq(Chars) /\ x \in Seq(Chars) /\ k \in Nat /\ y \in Seq(Chars)
  OBVIOUS
<1>5. s = a \o (w \o b)
  <2>1. SubSeq(s, 1, i) \o SubSeq(s, i + 1, p) = SubSeq(s, 1, p)
    <3>1. 1 \in 1..(Len(s) + 1) /\ i \in (1 - 1)..Len(s) /\ p \in i..Len(s)
      BY <1>1
    <3> QED
      BY <3>1, ConcatAdjacentSubSeq
  <2>2. s = SubSeq(s, 1, p) \o b
    BY Halved
  <2>3. (a \o w) \o b = a \o (w \o b)
    <3>1. a \in Seq(Chars) /\ w \in Seq(Chars) /\ b \in Seq(Chars)
      BY <1>1, <1>2, <1>4
    <3> HIDE DEF a, w, b
    <3> QED
      BY ONLY <3>1, ConcatAssociative
  <2> QED
    BY <2>1, <2>2, <2>3
<1>6. new = x \o y /\ new \in Seq(Chars)
  <2>1. CASE e.leave
    BY <2>1, ConcatEmptySeq
  <2>2. CASE ~e.leave
    BY <2>2, AppendIsConcat, AppendProperties
  <2> QED
    BY <2>1, <2>2
<1>7. p - n = Len(a)
  BY <1>2, <1>3
<1>8. line' = [text |-> Inserted(IF over THEN Deleted(Deleted(s, Len(a), n), Len(a), Len(x))
                                 ELSE Deleted(s, Len(a), n), Len(a), new),
               point |-> Len(a) + Len(new)]
  BY <1>7 DEF Expanded
<1> HIDE DEF a, b, k, w, n, x, y, new
<1>9. Deleted(s, Len(a), n) = a \o b
  <2>1. w \o b \in Seq(Chars)
    BY <1>1, <1>4, ConcatProperties
  <2>2. Deleted(a \o (w \o b), Len(a), n) = a \o SubSeq(w \o b, n + 1, Len(w \o b))
    BY <1>2, <1>3, <2>1, DeletedBetween
  <2>3. SubSeq(w \o b, Len(w) + 0 + 1, Len(w \o b)) = SubSeq(b, 0 + 1, Len(b))
    BY <1>1, <1>4, SecondHalf
  <2>4. Len(w) + 0 + 1 = n + 1 /\ 0 + 1 = 1
    BY <1>3 DEF n
  <2>5. SubSeq(b, 1, Len(b)) = b
    BY <1>1, SubSeqFull
  <2> QED
    BY <1>5, <2>2, <2>3, <2>4, <2>5
<1>10. (IF over THEN Deleted(Deleted(s, Len(a), n), Len(a), Len(x)) ELSE Deleted(s, Len(a), n)) = a \o r
  <2>1. CASE over
    <3>1. Deleted(a \o b, Len(a), k) = a \o r
      BY <1>1, <1>2, <1>4, DeletedBetween
    <3> QED
      BY <1>9, <2>1, <3>1 DEF k
  <2>2. CASE ~over
    <3>1. SubSeq(b, 1, Len(b)) = b
      BY <1>1, SubSeqFull
    <3>2. r = b
      BY <2>2, <3>1 DEF k
    <3> QED
      BY <1>9, <2>2, <3>2
  <2> QED
    BY <2>1, <2>2
<1>11. line' = Put(a, r, new)
  BY <1>8, <1>10 DEF Put
<1>16. Proper(line')
  BY ONLY <1>1, <1>2, <1>4, <1>6, <1>11, RestType, PutProper
<1>12. Typed(line') = a \o new /\ Left(line') = r
  <2>1. r \in Seq(Chars)
    BY <1>1, <1>4, RestType
  <2> HIDE DEF r
  <2>2. Typed(Put(a, r, new)) = a \o new /\ Left(Put(a, r, new)) = r
    <3>1. a \in Seq(Chars) /\ new \in Seq(Chars)
      BY <1>2, <1>6
    <3> QED
      BY ONLY <2>1, <3>1, PutIn
  <2> QED
    BY ONLY <1>11, <2>2
<1>13. IF over THEN IsSuffix(r, b) ELSE r = b
  <2>1. CASE over
    BY <1>1, <1>4, <2>1, RestIsSuffix
  <2>2. CASE ~over
    BY <1>1, <2>2, SubSeqFull DEF k
  <2> QED
    BY <2>1, <2>2
<1> HIDE DEF r
<1>14. Stays(s, p, over)
  BY <1>12, <1>13 DEF Stays, b
<1>15. a \o new = (a \o x) \o y
  <2>1. a \in Seq(Chars) /\ x \in Seq(Chars) /\ y \in Seq(Chars)
    BY <1>2, <1>4
  <2>2. (a \o x) \o y = a \o (x \o y)
    BY ONLY <2>1, ConcatAssociative
  <2> QED
    BY ONLY <1>6, <2>2
<1> QED
  BY <1>12, <1>14, <1>15, <1>16 DEF Replaces, a, x, y

-----------------------------------------------------------------------------
(* What a character does.                                                  *)

LEMMA OneInForce ==
  ASSUME NEW t \in InForce, NEW u \in InForce
  PROVE  t = u
<1>1. Null \notin Tables
  BY AbbrevAssumption DEF Tables, Global, Null
<1> QED
  BY <1>1 DEF InForce

(* The only expansion is the one at the word before the cursor.            *)
FoundIn(s, p, c, t, e) ==
  t \in InForce /\ c \notin chars[t] /\ e \in Entry(WordAt(s, p, chars[t]), t)

LEMMA ExpansionFound ==
  ASSUME NEW s, NEW p \in Nat, NEW c, NEW x \in Expansions(s, p, c)
  PROVE  FoundIn(s, p, c, x[3], x[2]) /\ Start(s, p, chars[x[3]], x[1])
<1>1. /\ x \in (0..p) \X Entries \X InForce /\ IsWord(s, p, c, x[3], x[1])
      /\ x[2] \in abbrevs[x[3]] /\ x[2].word = SubSeq(s, x[1] + 1, p)
  BY DEF Expansions
<1>2. x[1] \in 0..p /\ x[3] \in InForce
  BY <1>1
<1>3. Start(s, p, chars[x[3]], x[1]) /\ c \notin chars[x[3]]
  BY <1>1, <1>2 DEF IsWord, Start
<1>4. WordAt(s, p, chars[x[3]]) = SubSeq(s, x[1] + 1, p)
  BY <1>3, WordAtIs
<1> QED
  BY <1>1, <1>2, <1>3, <1>4 DEF FoundIn, Entry

LEMMA FoundExpansion ==
  ASSUME TablesInv, NEW s, NEW p \in Nat, NEW c, NEW t, NEW e, FoundIn(s, p, c, t, e)
  PROVE  \E i \in 0..p : /\ <<i, e, t>> \in Expansions(s, p, c)
                         /\ e \in Entries /\ e.word = SubSeq(s, i + 1, p)
<1>1. t \in Tables /\ t \in InForce /\ c \notin chars[t] /\ e \in abbrevs[t] /\ e.word = WordAt(s, p, chars[t])
  BY DEF FoundIn, Entry, InForce
<1>2. e \in Entries
  BY <1>1 DEF TablesInv
<1>3. PICK i \in 0..p : Start(s, p, chars[t], i) /\ WordAt(s, p, chars[t]) = SubSeq(s, i + 1, p)
  BY WordAtIs
<1> DEFINE x == <<i, e, t>>
<1>4. x \in (0..p) \X Entries \X InForce /\ x[1] = i /\ x[2] = e /\ x[3] = t
  BY <1>1, <1>2
<1> HIDE DEF x
<1>5. IsWord(s, p, c, t, i)
  BY <1>1, <1>3 DEF IsWord, Start
<1>6. x \in Expansions(s, p, c)
  BY <1>1, <1>3, <1>4, <1>5 DEF Expansions
<1> QED
  BY <1>1, <1>2, <1>3, <1>6 DEF x

LEMMA OneExpansion ==
  ASSUME TablesInv, NEW s, NEW p \in Nat, NEW c,
         NEW x \in Expansions(s, p, c), NEW y \in Expansions(s, p, c)
  PROVE  x[1] = y[1] /\ x[2] = y[2]
<1>1. FoundIn(s, p, c, x[3], x[2]) /\ Start(s, p, chars[x[3]], x[1])
  BY ExpansionFound
<1>2. FoundIn(s, p, c, y[3], y[2]) /\ Start(s, p, chars[y[3]], y[1])
  BY ExpansionFound
<1>3. x[3] = y[3] /\ x[3] \in Tables
  BY <1>1, <1>2, OneInForce DEF FoundIn, InForce
<1>4. x[1] = y[1]
  BY <1>1, <1>2, <1>3, StartUnique
<1>5. x[2] \in abbrevs[x[3]] /\ y[2] \in abbrevs[x[3]] /\ x[2].word = y[2].word
  BY <1>1, <1>2, <1>3 DEF FoundIn, Entry
<1> QED
  BY <1>3, <1>4, <1>5 DEF TablesInv, TablesSound

LEMMA InsertsWell ==
  ASSUME TablesInv, NEW s \in Lines, NEW p \in Nat, p <= Len(s),
         NEW c \in Chars, NEW over \in BOOLEAN, InsCharCmd(s, p, c, over)
  PROVE  Expands(s, p, c, over) /\ Proper(line')
<1> DEFINE found == UNION {Entry(WordAt(s, p, chars[t]), t) : t \in {u \in InForce : c \notin chars[u]}}
           E == Expansions(s, p, c)
<1>1. s \in Seq(Chars)
  BY AbbrevAssumption
<1>2. \/ \E e \in found : line' = Expanded(s, p, c, over, e)
      \/ found = {} /\ line' = Plain(s, p, c, over)
  BY DEF InsCharCmd
<1>3. \A e : e \in found <=> \E t : FoundIn(s, p, c, t, e)
  BY DEF FoundIn
<1> HIDE DEF found, E
<1>4. CASE found = {} /\ line' = Plain(s, p, c, over)
  <2>1. Stays(s, p, over) /\ Typed(line') = SubSeq(s, 1, p) \o <<c>> /\ Proper(line')
    BY <1>1, <1>4, PlainTypes
  <2>2. E = {}
    <3>1. ASSUME NEW x \in E PROVE FALSE
      BY <1>3, <1>4, <3>1, ExpansionFound DEF E
    <3> QED
      BY <3>1
  <2> QED
    BY <2>1, <2>2, ExpandsIs DEF E
<1>5. ASSUME NEW e \in found, line' = Expanded(s, p, c, over, e)
      PROVE  Expands(s, p, c, over) /\ Proper(line')
  <2>1. PICK t : FoundIn(s, p, c, t, e)
    BY <1>3
  <2>2. PICK i \in 0..p : <<i, e, t>> \in E /\ e \in Entries /\ e.word = SubSeq(s, i + 1, p)
    BY <2>1, FoundExpansion DEF E
  <2>3. e.word \in Seq(Chars) /\ e.string \in Seq(Chars)
    BY <2>2, AbbrevAssumption
  <2>4. /\ Stays(s, p, over) /\ Proper(line')
        /\ Typed(line') = SubSeq(s, 1, i) \o e.string \o (IF e.leave THEN <<>> ELSE <<c>>)
    <3>1. p \in Nat /\ p <= Len(s) /\ c \in Chars /\ over \in BOOLEAN /\ i \in 0..p
      OBVIOUS
    <3>2. Replaces(s, p, c, over, e, i)
      BY ONLY <1>1, <1>5, <2>2, <2>3, <3>1, ExpandedTypes
    <3> QED
      BY <3>2 DEF Replaces
  <2>5. ASSUME NEW x \in E PROVE x[1] = i /\ x[2] = e
    <3> DEFINE y == <<i, e, t>>
    <3>1. y[1] = i /\ y[2] = e /\ y \in E
      BY <2>2
    <3> HIDE DEF y
    <3>2. x[1] = y[1] /\ x[2] = y[2]
      BY <3>1, OneExpansion DEF E
    <3> QED
      BY <3>1, <3>2
  <2>6. \A x \in E : Typed(line') = SubSeq(s, 1, x[1]) \o x[2].string \o (IF x[2].leave THEN <<>> ELSE <<c>>)
    BY <2>4, <2>5
  <2>7. E # {}
    BY <2>2
  <2> QED
    BY <2>4, <2>6, <2>7, ExpandsIs DEF E
<1> QED
  BY <1>2, <1>4, <1>5

LEMMA InLine == \A s \in Lines : \A p \in 0..Len(s) : p \in Nat /\ p <= Len(s)
<1> SUFFICES ASSUME NEW s \in Lines, NEW p \in 0..Len(s) PROVE p \in Nat /\ p <= Len(s)
  OBVIOUS
<1>1. Len(s) \in Nat
  BY AbbrevAssumption
<1> QED
  BY <1>1

(* The line typed in, with the place of the cursor in it, and the steps.   *)
Sound(l, n) == Proper(l) /\ n \in 0..MaxSteps

LEMMA TypesStep == TablesInv /\ Sound(line, steps) /\ [AbbrevNext]_abbrevVars => Sound(line, steps)'
<1> SUFFICES ASSUME TablesInv, Sound(line, steps), [AbbrevNext]_abbrevVars PROVE Sound(line', steps')
  BY DEF Sound, Proper
<1>1. MaxSteps \in Nat
  BY AbbrevAssumption
<1>2. ASSUME Step, Proper(line') PROVE Sound(line', steps')
  BY <1>1, <1>2 DEF Step, Sound
<1>3. ASSUME Step, UNCHANGED line PROVE Sound(line', steps')
  BY <1>2, <1>3 DEF Sound
<1>4. ASSUME NEW s \in Lines, NEW c \in Chars, NEW over \in BOOLEAN, NEW p \in 0..Len(s),
             InsCharCmd(s, p, c, over)
      PROVE  Sound(line', steps')
  <2>1. Proper(line')
    BY <1>4, InLine, InsertsWell
  <2>2. Step
    BY <1>4 DEF InsCharCmd
  <2> QED
    BY <1>2, <2>1, <2>2
<1>5. CASE UNCHANGED abbrevVars
  BY <1>5 DEF abbrevVars, Sound
<1>6. ASSUME NEW t \in Tables, NEW w \in WordSets, CreateAbbrevTable(t, w) PROVE Sound(line', steps')
  BY <1>3, <1>6 DEF CreateAbbrevTable
<1>7. ASSUME NEW t \in Tables, NEW e \in Entries, DefineAbbrev(t, e) PROVE Sound(line', steps')
  BY <1>3, <1>7 DEF DefineAbbrev
<1>8. ASSUME NEW t \in Tables, UseAbbrevTable(t) \/ DeleteAbbrevTable(t) PROVE Sound(line', steps')
  BY <1>3, <1>8 DEF UseAbbrevTable, DeleteAbbrevTable
<1>9. ASSUME NEW b \in Buffers, SwitchToBuffer(b) PROVE Sound(line', steps')
  BY <1>3, <1>9 DEF SwitchToBuffer
<1> QED
  BY <1>4, <1>5, <1>6, <1>7, <1>8, <1>9 DEF AbbrevNext

LEMMA TypesStart == AbbrevInit => Sound(line, steps)
<1> SUFFICES ASSUME AbbrevInit PROVE Sound(line, steps)
  OBVIOUS
<1>1. <<>> \in Seq(Chars) /\ Len(<<>>) = 0
  BY EmptySeq
<1> QED
  BY <1>1, AbbrevAssumption DEF AbbrevInit, Sound, Proper

(* Every variable keeps its type; the cursor is in the line.               *)
THEOREM AbbrevTypeCorrect == AbbrevSpec => []AbbrevTypeOK
<1>1. TablesInv /\ Sound(line, steps) => AbbrevTypeOK
  <2> SUFFICES ASSUME TablesInv, Sound(line, steps) PROVE AbbrevTypeOK
    OBVIOUS
  <2>1. list \in Seq(TableNames)
    <3>1. Tables \ {Global} \subseteq TableNames
      BY DEF Tables
    <3>2. list \in Seq(Tables \ {Global})
      BY DEF TablesInv
    <3> QED
      BY ONLY <3>1, <3>2, SeqMonotonic
  <2> QED
    BY <2>1 DEF TablesInv, Sound, Proper, AbbrevTypeOK
<1>2. TablesInv /\ [AbbrevNext]_abbrevVars => TablesInv'
  BY TablesStep
<1>3. TablesInv /\ Sound(line, steps) /\ [AbbrevNext]_abbrevVars => Sound(line, steps)'
  BY TypesStep
<1>4. AbbrevInit => Sound(line, steps)
  BY TypesStart
<1> HIDE DEF Sound
<1> QED
  BY <1>1, <1>2, <1>3, <1>4, TablesStart, PTL DEF AbbrevSpec

(* What a character does to any line: jed_expand_abbrev finds the one      *)
(* expansion there is, if there is one, and ins_char_cmd puts it in place  *)
(* of the word; otherwise nothing before the cursor changes.               *)
THEOREM AbbrevExpandsWord == AbbrevSpec => ExpandsWord
<1> DEFINE A == \A s \in Lines, c \in Chars, over \in BOOLEAN : \A p \in 0..Len(s) :
                  InsCharCmd(s, p, c, over) => Expands(s, p, c, over)
<1>1. TablesInv /\ [AbbrevNext]_abbrevVars => [A]_abbrevVars
  <2> SUFFICES ASSUME TablesInv PROVE A
    OBVIOUS
  <2> QED
    BY InLine, InsertsWell
<1> HIDE DEF A
<1>2. AbbrevSpec => [][A]_abbrevVars
  BY <1>1, TablesStart, TablesStep, PTL DEF AbbrevSpec
<1> QED
  BY <1>2 DEF ExpandsWord, A
-----------------------------------------------------------------------------
(* The lock of a file.  The variables keep their types always.  The lock   *)
(* excludes if no user steals it and no race for a stale lock is possible: *)
(* either no process ends, so that no lock is ever stale, or where two     *)
(* processes that may create links share a machine there is no third such  *)
(* process, on any machine, that could lock the file between the look of   *)
(* the one at the stale lock and its unlink.                               *)

NoRace ==
  /\ "steal" \notin Replies
  /\ \/ "quit" \notin Ops /\ ~CanCrash
     \/ \A p, q \in Writable : p # q /\ Host[p] = Host[q] => Writable = {p, q}

(* The places of a process that has found the lock of another; the last    *)
(* three are those of perform_lock with force.                             *)
Forcing == {"force", "unlink", "relink"}
Facing == {"probe", "ask"} \cup Forcing

LockOf(p) ==
  /\ consent[p] = None
  /\ alive[p] /\ pc[p] = "unlinkown" => link = p
  /\ alive[p] /\ pc[p] \in {"unlinkown", "exit"} => p \notin held
  /\ alive[p] /\ pc[p] \in Facing => link # p /\ seen[p] \in Writable \ {p}
  /\ alive[p] /\ pc[p] \in Forcing => Host[seen[p]] = Host[p] /\ ~alive[seen[p]]

LockInv ==
  /\ LockTypeOK
  /\ MutualExclusion
  /\ link \in Writable \cup {None}
  /\ \A p \in held : alive[p]
  /\ \A p \in Procs : LockOf(p)

(* If no process ends, all run, and none is on its way out.                *)
AllRun ==
  "quit" \notin Ops /\ ~CanCrash =>
    \A p \in Procs : alive[p] /\ op[p] # "quit" /\ pc[p] # "exit"

-----------------------------------------------------------------------------
(* LockTypeOK.                                                             *)

LEMMA TypeInit == LockInit => LockTypeOK
  BY NoneAssumption, OpsAssumption DEF LockInit, LockTypeOK, Places, AllOps

LEMMA TypeCommand ==
  ASSUME LockTypeOK, NEW p \in Procs, Command(p)
  PROVE  LockTypeOK'
  <1>1. CASE Prepare(p)
    BY <1>1, OpsAssumption
    DEF LockTypeOK, Prepare, Begin, At, Go, Places, AllOps
  <1>2. CASE FlagModified(p)
    BY <1>2, OpsAssumption
    DEF LockTypeOK, FlagModified, Begin, At, Go, Places, AllOps
  <1>3. CASE WriteFile(p)
    BY <1>3, OpsAssumption
    DEF LockTypeOK, WriteFile, Begin, At, Go, Places, AllOps
  <1>4. CASE Discard(p)
    BY <1>4, OpsAssumption
    DEF LockTypeOK, Discard, Begin, At, Go, Places, AllOps
  <1>5. CASE Quit(p)
    BY <1>5, OpsAssumption
    DEF LockTypeOK, Quit, Begin, At, Go, Places, AllOps
  <1> QED BY <1>1, <1>2, <1>3, <1>4, <1>5 DEF Command

LEMMA TypeLock ==
  ASSUME LockTypeOK, NEW p \in Procs, Lock(p)
  PROVE  LockTypeOK'
  <1>1. CASE TryLock(p)
    BY <1>1 DEF LockTypeOK, TryLock, Symlink, At, Go, Places, local
  <1>2. CASE LookAtLock(p) \/ ReadLock(p)
    <2>1. CASE LookAtLock(p)
      BY <2>1 DEF LockTypeOK, LookAtLock, At, Go, Places, local
    <2>2. CASE ReadLock(p)
      BY <2>2 DEF LockTypeOK, ReadLock, At, Go, Places, local
    <2> QED BY <1>2, <2>1, <2>2
  <1>3. CASE Probe(p)
    BY <1>3 DEF LockTypeOK, Probe, At, Go, Places, local
  <1>4. CASE AskAboutLock(p)
    <2>1. PICK a \in Replies :
            /\ Go(p, IF a = "steal" THEN "force" ELSE a)
            /\ consent' = IF a = "steal" THEN [consent EXCEPT ![p] = seen[p]]
                          ELSE consent
      BY <1>4 DEF AskAboutLock
    <2>2. a \in {"steal", "proceed", "abort"}
      BY OpsAssumption
    <2>3. pc' \in [Procs -> Places]
      BY <2>1, <2>2 DEF LockTypeOK, Go, Places
    <2>4. consent' \in [Procs -> Procs \cup {None}]
      BY <2>1 DEF LockTypeOK
    <2>5. \A q \in Procs : pc'[q] = "probe" => seen'[q] \in Procs \ {q}
      BY <1>4, <2>1, <2>2 DEF LockTypeOK, AskAboutLock, Go
    <2> QED BY <1>4, <2>3, <2>4, <2>5 DEF LockTypeOK, AskAboutLock
  <1>5. CASE ForceLock(p)
    BY <1>5 DEF LockTypeOK, ForceLock, Symlink, At, Go, Places, local
  <1>6. CASE UnlinkForeign(p)
    BY <1>6 DEF LockTypeOK, UnlinkForeign, At, Go, Places, local
  <1>7. CASE Relink(p)
    BY <1>7 DEF LockTypeOK, Relink, At, Go, Places, local
  <1> QED BY <1>1, <1>2, <1>3, <1>4, <1>5, <1>6, <1>7 DEF Lock

LEMMA TypeUnlocked ==
  ASSUME LockTypeOK, NEW p \in Procs, Unlocked(p)
  PROVE  /\ modified' \in [Procs -> BOOLEAN] /\ op' \in [Procs -> AllOps \cup {"none"}]
         /\ consent' \in [Procs -> Procs \cup {None}] /\ guarded' \subseteq Procs
         /\ \E x \in {"unlock", "exit", "idle"} : Go(p, x)
  <1>1. CASE op[p] = "save"
    BY <1>1 DEF LockTypeOK, Unlocked, AllOps
  <1>2. CASE op[p] = "quit"
    BY <1>2 DEF LockTypeOK, Unlocked, AllOps
  <1>3. CASE op[p] \notin {"save", "quit"}
    BY <1>3 DEF LockTypeOK, Unlocked, Idle, AllOps
  <1> QED BY <1>1, <1>2, <1>3

LEMMA TypeFinish ==
  ASSUME LockTypeOK, NEW p \in Procs, Finish(p)
  PROVE  LockTypeOK'
  <1>1. CASE EditLocked(p)
    BY <1>1 DEF LockTypeOK, EditLocked, Idle, Go, Places, AllOps
  <1>2. CASE NothingToDo(p)
    BY <1>2 DEF LockTypeOK, NothingToDo, Idle, Go, Places, AllOps
  <1>3. CASE Write(p)
    BY <1>3 DEF LockTypeOK, Write, Idle, Go, Places, AllOps
  <1>4. CASE ReadOwn(p)
    <2>1. CASE Unlocked(p)
      BY <1>4, <2>1, TypeUnlocked DEF LockTypeOK, ReadOwn, At, Go, Places
    <2>2. CASE ~Unlocked(p)
      BY <1>4, <2>2 DEF LockTypeOK, ReadOwn, At, Go, Places
    <2> QED BY <2>1, <2>2
  <1>5. CASE UnlinkOwn(p)
    BY <1>5, TypeUnlocked DEF LockTypeOK, UnlinkOwn, At, Go, Places
  <1>6. CASE Exit(p)
    BY <1>6 DEF LockTypeOK, Exit, At, Idle, Go, Places, AllOps
  <1> QED BY <1>1, <1>2, <1>3, <1>4, <1>5, <1>6 DEF Finish

LEMMA TypeStep == LockTypeOK /\ [LockNext]_lockVars => LockTypeOK'
  <1> SUFFICES ASSUME LockTypeOK, [LockNext]_lockVars PROVE LockTypeOK'
    OBVIOUS
  <1>1. CASE UNCHANGED lockVars
    BY <1>1 DEF LockTypeOK, lockVars
  <1>2. ASSUME NEW p \in Procs, Crash(p) PROVE LockTypeOK'
    BY <1>2 DEF LockTypeOK, Crash, local
  <1> QED BY <1>1, <1>2, TypeCommand, TypeLock, TypeFinish DEF LockNext

(* Every variable keeps its type, whatever users answer and processes do.  *)
THEOREM LockTypeCorrect == LockSpec => []LockTypeOK
  BY TypeInit, TypeStep, PTL DEF LockSpec
-----------------------------------------------------------------------------
(* Mutual exclusion and the refinement of LockService.                     *)

LEMMA LockInvInit == LockInit => LockInv /\ AllRun
  BY TypeInit DEF LockInit, LockInv, LockOf, MutualExclusion, AllRun, Forcing, Facing

LEMMA AllRunStep == LockTypeOK /\ AllRun /\ [LockNext]_lockVars => AllRun'
  <1> SUFFICES ASSUME LockTypeOK, "quit" \notin Ops, ~CanCrash, [LockNext]_lockVars,
                      \A p \in Procs : alive[p] /\ op[p] # "quit" /\ pc[p] # "exit",
                      NEW q \in Procs
               PROVE  alive'[q] /\ op'[q] # "quit" /\ pc'[q] # "exit"
    BY DEF AllRun
  <1>1. CASE UNCHANGED lockVars
    BY <1>1 DEF lockVars
  <1>2. ASSUME NEW p \in Procs, Command(p) PROVE alive'[q] /\ op'[q] # "quit" /\ pc'[q] # "exit"
    <2>1. PICK o \in Ops, x \in {"try", "unlock"} : Begin(p, o, x)
      BY <1>2 DEF Command, Prepare, FlagModified, WriteFile, Discard, Quit, Begin
    <2> QED BY <2>1 DEF Begin, Go, LockTypeOK
  <1>3. ASSUME NEW p \in Procs, Lock(p) PROVE alive'[q] /\ op'[q] # "quit" /\ pc'[q] # "exit"
    <2>1. UNCHANGED <<alive, op>>
      BY <1>3 DEF Lock, TryLock, LookAtLock, ReadLock, Probe, AskAboutLock, ForceLock,
                  UnlinkForeign, Relink, local
    <2>2. \E x \in Places \ {"exit"} : pc' = [pc EXCEPT ![p] = x]
      <3>1. CASE AskAboutLock(p)
        <4>1. PICK a \in Replies : pc' = [pc EXCEPT ![p] = IF a = "steal" THEN "force" ELSE a]
          BY <3>1 DEF AskAboutLock, Go
        <4>2. (IF a = "steal" THEN "force" ELSE a) \in Places \ {"exit"}
          BY OpsAssumption DEF Places
        <4> QED BY <4>1, <4>2
      <3>2. CASE ~AskAboutLock(p)
        BY <1>3, <3>2 DEF Lock, TryLock, LookAtLock, ReadLock, Probe, ForceLock, UnlinkForeign,
                          Relink, Symlink, Go, Places
      <3> QED BY <3>1, <3>2
    <2> QED BY <2>1, <2>2 DEF LockTypeOK
  <1>4. ASSUME NEW p \in Procs, Finish(p) PROVE alive'[q] /\ op'[q] # "quit" /\ pc'[q] # "exit"
    <2>1. CASE EditLocked(p) \/ NothingToDo(p) \/ Write(p)
      BY <2>1 DEF EditLocked, NothingToDo, Write, Idle, Go, LockTypeOK
    <2>2. CASE ReadOwn(p) \/ UnlinkOwn(p)
      <3>1. UNCHANGED alive
        BY <2>2 DEF ReadOwn, UnlinkOwn
      <3>2. CASE Unlocked(p)
        <4>1. op[p] # "quit"
          OBVIOUS
        <4> QED BY <3>1, <3>2, <4>1 DEF Unlocked, Idle, Go, LockTypeOK
      <3>3. CASE ~Unlocked(p)
        BY <2>2, <3>1, <3>3 DEF ReadOwn, UnlinkOwn, Go, LockTypeOK
      <3> QED BY <3>2, <3>3
    <2>3. CASE Exit(p)
      BY <2>3 DEF Exit, At
    <2> QED BY <1>4, <2>1, <2>2, <2>3 DEF Finish
  <1>5. ASSUME NEW p \in Procs, Crash(p) PROVE FALSE
    BY <1>5 DEF Crash
  <1> QED BY <1>1, <1>2, <1>3, <1>4, <1>5 DEF LockNext

(* A step of p keeps what holds of the others, if it takes the link from   *)
(* none that runs and gives it to none but p.                              *)
LEMMA LockInvKept ==
  ASSUME LockInv, LockTypeOK', NEW p \in Procs, NEW x \in Places,
         pc' = [pc EXCEPT ![p] = x],
         \A q \in Procs \ {p} : seen'[q] = seen[q] /\ consent'[q] = consent[q],
         \A q \in Procs : alive'[q] => alive[q],
         \A q \in Procs \ {p} : link = q /\ alive[q] => link' = q,
         link' \in (Writable \cap {link, p}) \cup {link, None},
         held' \subseteq held \cup {p},
         \A q \in held' : alive'[q] /\ link' = q,
         LockOf(p)'
  PROVE  LockInv'
  <1>1. ASSUME NEW q \in Procs, q # p PROVE LockOf(q)'
    <2>1. pc'[q] = pc[q] /\ seen'[q] = seen[q] /\ consent'[q] = consent[q]
      BY <1>1 DEF LockInv, LockTypeOK
    <2>2. link # q => link' # q
      BY <1>1, NoneAssumption
    <2>3. q \notin held => q \notin held'
      BY <1>1
    <2>4. LockOf(q)
      BY DEF LockInv
    <2>5. alive'[q] => alive[q]
      OBVIOUS
    <2>6. \A r \in Procs : ~alive[r] => ~alive'[r]
      OBVIOUS
    <2>7. alive[q] /\ link = q => link' = q
      BY <1>1
    <2>8. pc[q] \in Forcing => pc[q] \in Facing
      BY DEF Facing
    <2>9. alive[q] /\ pc[q] \in Forcing => ~alive'[seen[q]]
      <3> SUFFICES ASSUME alive[q], pc[q] \in Forcing PROVE ~alive'[seen[q]]
        OBVIOUS
      <3>1. seen[q] \in Procs
        BY <2>4, <2>8, WritableAssumption DEF LockOf
      <3> QED BY <3>1, <2>4, <2>6 DEF LockOf
    <2> QED BY <2>1, <2>2, <2>3, <2>4, <2>5, <2>7, <2>9 DEF LockOf
  <1>2. MutualExclusion'
    BY DEF MutualExclusion
  <1>3. link' \in Writable \cup {None}
    BY DEF LockInv
  <1> QED BY <1>1, <1>2, <1>3 DEF LockInv

LEMMA LockInvCommand ==
  ASSUME LockInv, NEW p \in Procs, Command(p)
  PROVE  LockInv' /\ UNCHANGED <<link, alive, held>>
  <1>1. LockTypeOK'
    BY TypeCommand DEF LockInv
  <1>2. PICK o \in Ops, x \in {"try", "unlock"} : Begin(p, o, x)
    BY DEF Command, Prepare, FlagModified, WriteFile, Discard, Quit, Begin
  <1>3. UNCHANGED <<link, alive, held, seen, consent>> /\ pc' = [pc EXCEPT ![p] = x]
    BY <1>2 DEF Begin, Go
  <1>4. pc'[p] = x /\ x \in Places
    BY <1>3 DEF LockInv, LockTypeOK, Places
  <1>5. LockOf(p)'
    BY <1>3, <1>4 DEF LockInv, LockOf, Forcing, Facing
  <1>6. \A q \in held' : alive'[q] /\ link' = q
    BY <1>3 DEF LockInv, MutualExclusion
  <1> QED BY <1>1, <1>3, <1>4, <1>5, <1>6, LockInvKept

(* The link is created: it was not there, so that nobody has the lock.     *)
LEMMA LockInvGranted ==
  ASSUME LockInv, LockTypeOK', NEW p \in Procs, alive[p], link \in {None, p}, p \in Writable,
         link' = p, held' = held \cup {p}, pc' = [pc EXCEPT ![p] = "got"],
         UNCHANGED <<alive, consent>>, \A q \in Procs \ {p} : seen'[q] = seen[q]
  PROVE  LockInv'
  <1>1. held' = {p}
    BY NoneAssumption DEF LockInv, MutualExclusion, LockTypeOK
  <1>2. pc'[p] = "got"
    BY DEF LockInv, LockTypeOK
  <1>3. LockOf(p)'
    BY <1>2 DEF LockInv, LockOf, Forcing, Facing
  <1>4. "got" \in Places
    BY DEF Places
  <1> QED BY <1>1, <1>3, <1>4, NoneAssumption, LockInvKept

(* The process finds out something, or is told it, and goes on.            *)
LEMMA LockInvGoesOn ==
  ASSUME LockInv, LockTypeOK', NEW p \in Procs, NEW x \in Places,
         pc' = [pc EXCEPT ![p] = x],
         UNCHANGED <<link, alive, held, consent>>, \A q \in Procs \ {p} : seen'[q] = seen[q],
         x \notin {"unlinkown", "exit"},
         x \in Facing => link # p /\ seen'[p] \in Writable \ {p},
         x \in Forcing => Host[seen'[p]] = Host[p] /\ ~alive[seen'[p]]
  PROVE  LockInv'
  <1>1. pc'[p] = x
    BY DEF LockInv, LockTypeOK
  <1>2. LockOf(p)'
    BY <1>1 DEF LockInv, LockOf
  <1>3. \A q \in held' : alive'[q] /\ link' = q
    BY DEF LockInv, MutualExclusion
  <1> QED BY <1>2, <1>3, LockInvKept

(* A process that gets to unlink the lock of another has found it stale,   *)
(* and then, without a race, nobody has the lock.                          *)
LEMMA NobodyElse ==
  ASSUME NoRace, AllRun, LockInv, NEW p \in Procs, alive[p], pc[p] \in Forcing, p \in Writable
  PROVE  held = {} /\ \A q \in Procs : link = q => ~alive[q]
  <1>1. seen[p] \in Writable \ {p} /\ Host[seen[p]] = Host[p] /\ ~alive[seen[p]] /\ link # p
    BY DEF LockInv, LockOf, Facing
  <1>2. seen[p] \in Procs
    BY <1>1, WritableAssumption
  <1>3. Writable = {p, seen[p]}
    BY <1>1, <1>2 DEF NoRace, AllRun
  <1>4. \A q \in Procs : link = q => ~alive[q]
    BY <1>1, <1>3, NoneAssumption DEF LockInv
  <1> QED BY <1>4 DEF LockInv, LockTypeOK, MutualExclusion

(* What a step of jed_lock_file does to the link and to the places.        *)
LEMMA LockInvLock ==
  ASSUME NoRace, AllRun, LockInv, NEW p \in Procs, Lock(p)
  PROVE  /\ LockInv'
         /\ UNCHANGED alive
         /\ \/ UNCHANGED <<link, held>>
            \/ alive[p] /\ link \in {None, p} /\ link' = p /\ held' = held \cup {p}
            \/ held = {} /\ held' = held /\ link' = None
  <1>1. LockTypeOK'
    BY TypeLock DEF LockInv
  <1>2. alive[p] /\ UNCHANGED alive
    BY DEF Lock, TryLock, LookAtLock, ReadLock, Probe, AskAboutLock, ForceLock, UnlinkForeign,
           Relink, At, local
  <1>3. CASE TryLock(p) \/ ForceLock(p)
    <2>1. PICK x \in {"look", "unlink"} : At(p, IF x = "look" THEN "try" ELSE "force") /\ Symlink(p, x)
      BY <1>3 DEF TryLock, ForceLock
    <2>2. UNCHANGED <<seen, consent>>
      BY <1>3 DEF TryLock, ForceLock, local
    <2>3. CASE link = None /\ p \in Writable
      <3>1. link' = p /\ held' = held \cup {p} /\ pc' = [pc EXCEPT ![p] = "got"]
        BY <2>1, <2>3 DEF Symlink, Go
      <3> QED BY <1>1, <1>2, <2>2, <2>3, <3>1, LockInvGranted
    <2>4. CASE link # None
      <3>1. UNCHANGED <<link, held>> /\ pc' = [pc EXCEPT ![p] = x]
        BY <2>1, <2>4 DEF Symlink, Go
      <3>2. x = "unlink" => pc[p] = "force"
        BY <2>1 DEF At
      <3>3. x = "unlink" => LockOf(p)
        BY DEF LockInv
      <3>4. x \in Places /\ x \notin {"unlinkown", "exit"}
        BY DEF Places
      <3>5. /\ x \in Facing => link # p /\ seen'[p] \in Writable \ {p}
            /\ x \in Forcing => Host[seen'[p]] = Host[p] /\ ~alive[seen'[p]]
        BY <1>2, <2>2, <3>2, <3>3 DEF LockOf, Facing, Forcing
      <3>6. LockInv'
        BY <1>1, <1>2, <2>2, <3>1, <3>4, <3>5, LockInvGoesOn
      <3> QED BY <1>2, <3>1, <3>6
    <2>5. CASE link = None /\ p \notin Writable
      <3>1. UNCHANGED <<link, held>> /\ pc' = [pc EXCEPT ![p] = "proceed"]
        BY <2>1, <2>5 DEF Symlink, Go
      <3>2. LockInv'
        BY <1>1, <1>2, <2>2, <3>1, LockInvGoesOn DEF Places, Facing, Forcing
      <3> QED BY <1>2, <3>1, <3>2
    <2> QED BY <2>3, <2>4, <2>5
  <1>4. CASE LookAtLock(p)
    <2>1. PICK x \in {"try", "read", "fail"} : pc' = [pc EXCEPT ![p] = x]
      BY <1>4 DEF LookAtLock, Go
    <2>2. UNCHANGED <<link, held, seen, consent>>
      BY <1>4 DEF LookAtLock, local
    <2> QED BY <1>1, <1>2, <2>1, <2>2, LockInvGoesOn DEF Places, Facing, Forcing
  <1>5. CASE ReadLock(p)
    <2>1. UNCHANGED <<link, consent>> /\ seen' = [seen EXCEPT ![p] = link]
      BY <1>5 DEF ReadLock
    <2>2. seen'[p] = link /\ \A q \in Procs \ {p} : seen'[q] = seen[q]
      BY <2>1 DEF LockInv, LockTypeOK
    <2>3. CASE link = p /\ Go(p, "got") /\ held' = held \cup {p}
      <3>1. p \in Writable
        BY <2>3, NoneAssumption DEF LockInv
      <3>2. LockInv'
        BY <1>1, <1>2, <2>1, <2>2, <2>3, <3>1, LockInvGranted DEF Go
      <3> QED BY <1>2, <2>1, <2>3, <3>2
    <2>4. CASE link \notin {None, p} /\ Go(p, "probe") /\ UNCHANGED held
      <3>1. link \in Writable \ {p}
        BY <2>4 DEF LockInv
      <3>2. LockInv'
        BY <1>1, <1>2, <2>1, <2>2, <2>4, <3>1, LockInvGoesOn DEF Go, Places, Facing, Forcing
      <3> QED BY <1>2, <2>1, <2>4, <3>2
    <2>5. CASE Go(p, "fail") /\ UNCHANGED held
      <3>1. LockInv'
        BY <1>1, <1>2, <2>1, <2>2, <2>5, LockInvGoesOn DEF Go, Places, Facing, Forcing
      <3> QED BY <1>2, <2>1, <2>5, <3>1
    <2> QED BY <1>5, <2>3, <2>4, <2>5 DEF ReadLock
  <1>6. CASE Probe(p)
    <2>1. PICK x \in {"force", "abort", "ask"} :
            /\ pc' = [pc EXCEPT ![p] = x]
            /\ x = "force" => Host[seen[p]] = Host[p] /\ ~alive[seen[p]]
      BY <1>6 DEF Probe, Go
    <2>2. UNCHANGED <<link, held, seen, consent>> /\ pc[p] = "probe"
      BY <1>6 DEF Probe, At, local
    <2>3. link # p /\ seen[p] \in Writable \ {p}
      BY <1>2, <2>2 DEF LockInv, LockOf, Facing
    <2>4. LockInv'
      BY <1>1, <1>2, <2>1, <2>2, <2>3, LockInvGoesOn DEF Places, Forcing
    <2> QED BY <1>2, <2>2, <2>4
  <1>7. CASE AskAboutLock(p)
    <2>1. PICK a \in Replies :
            /\ Go(p, IF a = "steal" THEN "force" ELSE a)
            /\ consent' = IF a = "steal" THEN [consent EXCEPT ![p] = seen[p]] ELSE consent
      BY <1>7 DEF AskAboutLock
    <2>2. a \in {"proceed", "abort"}
      BY OpsAssumption DEF NoRace
    <2>3. pc' = [pc EXCEPT ![p] = a] /\ consent' = consent
      BY <2>1, <2>2 DEF Go
    <2>4. UNCHANGED <<link, held, seen>>
      BY <1>7 DEF AskAboutLock
    <2>5. LockInv'
      BY <1>1, <1>2, <2>2, <2>3, <2>4, LockInvGoesOn DEF Places, Facing, Forcing
    <2> QED BY <1>2, <2>4, <2>5
  <1>8. CASE UnlinkForeign(p)
    <2>1. pc' = [pc EXCEPT ![p] = "relink"] /\ UNCHANGED <<seen, consent>> /\ pc[p] = "unlink"
      BY <1>8 DEF UnlinkForeign, At, Go, local
    <2>2. link # p /\ seen[p] \in Writable \ {p} /\ Host[seen[p]] = Host[p] /\ ~alive[seen[p]]
      BY <1>2, <2>1 DEF LockInv, LockOf, Facing, Forcing
    <2>3. CASE p \in Writable
      <3>1. held = {} /\ \A q \in Procs : link = q => ~alive[q]
        BY <1>2, <2>1, <2>3, NobodyElse DEF Forcing
      <3>2. link' = None /\ held' = {}
        BY <1>8, <2>3, <3>1 DEF UnlinkForeign
      <3>3. pc'[p] = "relink"
        BY <2>1 DEF LockInv, LockTypeOK
      <3>4. LockOf(p)'
        BY <1>2, <2>1, <2>2, <3>2, <3>3, NoneAssumption DEF LockInv, LockOf
      <3>5. LockInv'
        BY <1>1, <1>2, <2>1, <3>1, <3>2, <3>4, LockInvKept DEF Places
      <3> QED BY <1>2, <3>1, <3>2, <3>5
    <2>4. CASE p \notin Writable
      <3>1. UNCHANGED <<link, held>>
        BY <1>8, <2>4 DEF UnlinkForeign
      <3>2. LockInv'
        BY <1>1, <1>2, <2>1, <2>2, <3>1, LockInvGoesOn DEF Places
      <3> QED BY <1>2, <3>1, <3>2
    <2> QED BY <2>3, <2>4
  <1>9. CASE Relink(p)
    <2>1. UNCHANGED <<seen, consent>>
      BY <1>9 DEF Relink, local
    <2>2. CASE link = None /\ p \in Writable
      <3>1. link' = p /\ held' = held \cup {p} /\ pc' = [pc EXCEPT ![p] = "got"]
        BY <1>9, <2>2 DEF Relink, Go
      <3> QED BY <1>1, <1>2, <2>1, <2>2, <3>1, LockInvGranted
    <2>3. CASE ~(link = None /\ p \in Writable)
      <3>1. UNCHANGED <<link, held>> /\ pc' = [pc EXCEPT ![p] = "fail"]
        BY <1>9, <2>3 DEF Relink, Go
      <3>2. LockInv'
        BY <1>1, <1>2, <2>1, <3>1, LockInvGoesOn DEF Places, Facing, Forcing
      <3> QED BY <1>2, <3>1, <3>2
    <2> QED BY <2>2, <2>3
  <1> QED BY <1>3, <1>4, <1>5, <1>6, <1>7, <1>8, <1>9 DEF Lock

LEMMA LockInvUnlocked ==
  ASSUME LockInv, NEW p \in Procs, Unlocked(p)
  PROVE  /\ \A q \in Procs : consent'[q] = consent[q]
         /\ \E x \in {"unlock", "idle", "exit"} : pc' = [pc EXCEPT ![p] = x]
  <1>1. consent[p] = None
    BY DEF LockInv, LockOf
  <1>2. CASE op[p] = "save"
    BY <1>2 DEF LockInv, LockTypeOK, Unlocked, Go
  <1>3. CASE op[p] = "quit"
    BY <1>3 DEF LockInv, LockTypeOK, Unlocked, Go
  <1>4. CASE op[p] \notin {"save", "quit"}
    BY <1>1, <1>4 DEF LockInv, LockTypeOK, Unlocked, Idle, Go
  <1> QED BY <1>2, <1>3, <1>4

LEMMA LockInvFinish ==
  ASSUME LockInv, NEW p \in Procs, Finish(p)
  PROVE  /\ LockInv'
         /\ \/ link' = link /\ held' \in {held, held \ {p}} /\ UNCHANGED alive /\ alive[p]
            \/ /\ held = {} /\ held' = held /\ link' = None
               /\ UNCHANGED alive
            \/ /\ UNCHANGED link /\ held' = held \ {p}
               /\ alive' = [alive EXCEPT ![p] = FALSE]
  <1>1. LockTypeOK'
    BY TypeFinish DEF LockInv
  <1>2. alive[p] /\ UNCHANGED seen
    BY DEF Finish, EditLocked, NothingToDo, Write, ReadOwn, UnlinkOwn, Exit, At
  <1>3. LockOf(p)
    BY DEF LockInv
  <1>4. \A q \in held : alive[q] /\ link = q
    BY DEF LockInv, MutualExclusion
  <1>5. CASE EditLocked(p) \/ NothingToDo(p) \/ Write(p)
    <2>1. PICK x \in {"unlock", "idle"} : pc' = [pc EXCEPT ![p] = x]
      BY <1>5 DEF EditLocked, NothingToDo, Write, Idle, Go
    <2>2. UNCHANGED <<link, alive, held>>
      BY <1>5 DEF EditLocked, NothingToDo, Write
    <2>3. \A q \in Procs : consent'[q] = consent[q]
      BY <1>3, <1>5 DEF EditLocked, NothingToDo, Write, Idle, LockOf, LockInv, LockTypeOK
    <2>4. pc'[p] = x /\ x \in Places
      BY <2>1 DEF LockInv, LockTypeOK, Places
    <2>5. LockOf(p)'
      BY <1>3, <2>2, <2>3, <2>4 DEF LockOf, Facing, Forcing
    <2>6. LockInv'
      BY <1>1, <1>2, <1>4, <2>1, <2>2, <2>3, <2>4, <2>5, LockInvKept DEF LockInv
    <2> QED BY <1>2, <2>2, <2>6
  <1>6. CASE ReadOwn(p)
    <2>1. UNCHANGED <<link, alive>> /\ held' = held \ {p}
      BY <1>6 DEF ReadOwn
    <2>2. \A q \in Procs : consent'[q] = consent[q]
      BY <1>6, LockInvUnlocked DEF ReadOwn
    <2>3. PICK x \in {"unlock", "idle", "exit", "unlinkown"} :
            pc' = [pc EXCEPT ![p] = x] /\ (x = "unlinkown" => link = p)
      BY <1>6, LockInvUnlocked DEF ReadOwn, Go
    <2>4. pc'[p] = x /\ x \in Places
      BY <2>3 DEF LockInv, LockTypeOK, Places
    <2>5. LockOf(p)'
      BY <1>3, <2>1, <2>2, <2>3, <2>4 DEF LockOf, Facing, Forcing
    <2>6. LockInv'
      BY <1>1, <1>2, <1>4, <2>1, <2>2, <2>3, <2>4, <2>5, LockInvKept DEF LockInv
    <2> QED BY <1>2, <2>1, <2>6
  <1>7. CASE UnlinkOwn(p)
    <2>1. link = p /\ p \notin held
      BY <1>2, <1>3, <1>7 DEF LockOf, UnlinkOwn, At
    <2>2. held = {}
      BY <1>4, <2>1 DEF LockInv, LockTypeOK
    <2>3. link' = None /\ UNCHANGED <<alive, held>>
      BY <1>7 DEF UnlinkOwn
    <2>4. PICK x \in {"unlock", "idle", "exit"} : pc' = [pc EXCEPT ![p] = x]
      BY <1>7, LockInvUnlocked DEF UnlinkOwn
    <2>5. \A q \in Procs : consent'[q] = consent[q]
      BY <1>7, LockInvUnlocked DEF UnlinkOwn
    <2>6. pc'[p] = x /\ x \in Places
      BY <2>4 DEF LockInv, LockTypeOK, Places
    <2>7. LockOf(p)'
      BY <1>3, <2>2, <2>3, <2>5, <2>6 DEF LockOf, Facing, Forcing
    <2>8. LockInv'
      BY <1>1, <1>2, <2>1, <2>2, <2>3, <2>4, <2>5, <2>6, <2>7, LockInvKept
    <2> QED BY <2>2, <2>3, <2>8
  <1>8. CASE Exit(p)
    <2>1. p \notin held
      BY <1>2, <1>3, <1>8 DEF LockOf, Exit, At
    <2>2. UNCHANGED <<link, held>> /\ alive' = [alive EXCEPT ![p] = FALSE]
      BY <1>8 DEF Exit
    <2>3. pc' = [pc EXCEPT ![p] = "idle"] /\ \A q \in Procs : consent'[q] = consent[q]
      BY <1>3, <1>8 DEF Exit, Idle, Go, LockOf, LockInv, LockTypeOK
    <2>4. \A q \in Procs : alive'[q] = (alive[q] /\ q # p)
      BY <2>2 DEF LockInv, LockTypeOK
    <2>5. LockOf(p)'
      BY <1>3, <2>3, <2>4 DEF LockOf
    <2>6. \A q \in held' : alive'[q] /\ link' = q
      BY <1>4, <2>1, <2>2, <2>4 DEF LockInv, LockTypeOK
    <2>7. LockInv'
      BY <1>1, <1>2, <2>2, <2>3, <2>4, <2>5, <2>6, LockInvKept DEF LockInv, Places
    <2> QED BY <2>1, <2>2, <2>7
  <1> QED BY <1>5, <1>6, <1>7, <1>8 DEF Finish

LEMMA LockInvCrash ==
  ASSUME LockInv, NEW p \in Procs, Crash(p)
  PROVE  /\ LockInv'
         /\ UNCHANGED link /\ held' = held \ {p} /\ alive' = [alive EXCEPT ![p] = FALSE]
  <1>1. UNCHANGED <<link, pc, seen, consent>> /\ held' = held \ {p}
        /\ alive' = [alive EXCEPT ![p] = FALSE]
    BY DEF Crash, local
  <1>2. LockTypeOK'
    BY DEF LockInv, LockTypeOK, Crash, local
  <1>3. \A q \in Procs : alive'[q] = (alive[q] /\ q # p)
    BY <1>1 DEF LockInv, LockTypeOK
  <1>4. pc' = [pc EXCEPT ![p] = pc[p]] /\ pc[p] \in Places
    BY <1>1 DEF LockInv, LockTypeOK
  <1>5. LockOf(p)'
    BY <1>1, <1>3 DEF LockInv, LockOf
  <1>6. \A q \in held' : alive'[q] /\ link' = q
    BY <1>1, <1>3 DEF LockInv, LockTypeOK, MutualExclusion
  <1> QED BY <1>1, <1>2, <1>3, <1>4, <1>5, <1>6, LockInvKept DEF LockInv

LEMMA LockInvStep ==
  NoRace /\ LockInv /\ AllRun /\ [LockNext]_lockVars => LockInv' /\ AllRun'
  <1> SUFFICES ASSUME NoRace, LockInv, AllRun, [LockNext]_lockVars PROVE LockInv' /\ AllRun'
    OBVIOUS
  <1>1. AllRun'
    BY AllRunStep DEF LockInv
  <1>2. CASE UNCHANGED lockVars
    BY <1>1, <1>2 DEF LockInv, LockTypeOK, LockOf, MutualExclusion, lockVars
  <1> QED BY <1>1, <1>2, LockInvCommand, LockInvLock, LockInvFinish, LockInvCrash DEF LockNext

(* Without a race for a stale lock, whoever was given the lock and has not *)
(* given it up is the one the link names, so that there is at most one of  *)
(* them, although processes quit and die at any system call and stale      *)
(* locks are broken (lock.c: perform_lock, jed_unlock_file).               *)
THEOREM LockExcludes == ASSUME NoRace PROVE LockSpec => []MutualExclusion
  <1>1. LockInv => MutualExclusion
    BY DEF LockInv
  <1>2. LockInv /\ AllRun /\ [LockNext]_lockVars => LockInv' /\ AllRun'
    BY LockInvStep
  <1> QED BY LockInvInit, <1>1, <1>2, PTL DEF LockSpec

(* Under the same assumption the link implements the lock of the           *)
(* documentation: it is granted while it is free, and freed only once its  *)
(* holder has given it up or has ended.                                    *)
THEOREM LockImplementsService == ASSUME NoRace PROVE LockSpec => ServiceSpec
  <1>1. LockInit => Service!Init
    BY DEF LockInit, Service!Init
  <1>2. LockInv /\ AllRun /\ [LockNext]_lockVars => [Service!Next]_(Service!vars)
    <2> SUFFICES ASSUME LockInv, AllRun, [LockNext]_lockVars
                 PROVE  Service!Next \/ UNCHANGED <<link, held, alive>>
      BY DEF Service!vars
    <2>1. ASSUME NEW p \in Procs, Command(p) PROVE UNCHANGED <<link, held, alive>>
      BY <2>1, LockInvCommand
    <2>2. ASSUME NEW p \in Procs, Lock(p)
          PROVE  \/ Service!Grant(p) \/ Service!Vacate
                 \/ UNCHANGED <<link, held, alive>>
      BY <2>2, LockInvLock DEF Service!Grant, Service!Vacate
    <2>3. ASSUME NEW p \in Procs, Finish(p)
          PROVE  \/ Service!GiveUp(p) \/ Service!Vacate \/ Service!End(p)
                 \/ UNCHANGED <<link, held, alive>>
      BY <2>3, LockInvFinish DEF Service!GiveUp, Service!Vacate, Service!End
    <2>4. ASSUME NEW p \in Procs, Crash(p) PROVE Service!End(p)
      BY <2>4, LockInvCrash DEF Service!End
    <2> QED BY <2>1, <2>2, <2>3, <2>4 DEF LockNext, Service!Next, lockVars
  <1>3. LockInv /\ AllRun /\ [LockNext]_lockVars => LockInv' /\ AllRun'
    BY LockInvStep
  <1> QED BY LockInvInit, <1>1, <1>2, <1>3, PTL DEF LockSpec, ServiceSpec, Service!Spec
-----------------------------------------------------------------------------
(* The lock of a buffer that is being edited.                              *)

(* Whoever has modified his buffer with the lock in hand still has it, or  *)
(* is giving it up for good; and only a save or quitting gives up the lock *)
(* of a guarded buffer.                                                    *)
Leaving == {"unlock", "unlinkown", "exit"}

EditInv ==
  /\ LockTypeOK
  /\ \A p \in guarded : p \in held \/ pc[p] \in Leaving
  /\ \A p \in Procs :
       pc[p] \in {"unlock", "unlinkown"} =>
         op[p] \in {"save", "quit"} \/ (op[p] = "discard" /\ p \notin guarded)
  /\ \A p \in Procs :
       /\ op[p] # "region"
       /\ pc[p] \notin Leaving \cup {"idle"} => op[p] # "discard"

LEMMA EditInvInit == LockInit => EditInv
  BY TypeInit DEF LockInit, EditInv

(* A step of jed_lock_file takes locks only from guarded buffers that it   *)
(* no longer counts as guarded.                                            *)
LEMMA EditInvLocks ==
  ASSUME EditInv, LockTypeOK', NEW p \in Procs, pc[p] \notin Leaving \cup {"idle"},
         NEW x \in Places \ (Leaving \cup {"idle"}), pc' = [pc EXCEPT ![p] = x],
         op' = op, guarded' \subseteq guarded, held \cap guarded' \subseteq held'
  PROVE  EditInv'
  <1>1. \A q \in Procs : (q # p /\ pc'[q] = pc[q]) \/ (q = p /\ pc'[q] = x)
    BY DEF EditInv, LockTypeOK
  <1> QED BY <1>1 DEF EditInv, LockTypeOK, Leaving

LEMMA EditInvLock ==
  ASSUME EditInv, LockTypeOK', NEW p \in Procs, Lock(p)
  PROVE  EditInv'
  <1>1. op' = op /\ guarded' \subseteq guarded /\ held \cap guarded' \subseteq held'
    BY DEF Lock, TryLock, LookAtLock, ReadLock, Probe, AskAboutLock, ForceLock, UnlinkForeign, Relink,
           Symlink, local
  <1>2. pc[p] \notin Leaving \cup {"idle"}
    BY DEF Lock, TryLock, LookAtLock, ReadLock, Probe, AskAboutLock, ForceLock, UnlinkForeign, Relink, At,
           Leaving
  <1>3. \E x \in Places \ (Leaving \cup {"idle"}) : pc' = [pc EXCEPT ![p] = x]
    <2>1. CASE AskAboutLock(p)
      <3>1. PICK a \in Replies : pc' = [pc EXCEPT ![p] = IF a = "steal" THEN "force" ELSE a]
        BY <2>1 DEF AskAboutLock, Go
      <3>2. (IF a = "steal" THEN "force" ELSE a) \in Places \ (Leaving \cup {"idle"})
        BY OpsAssumption DEF Places, Leaving
      <3> QED BY <3>1, <3>2
    <2>2. CASE ~AskAboutLock(p)
      BY <2>2 DEF Lock, TryLock, LookAtLock, ReadLock, Probe, ForceLock, UnlinkForeign, Relink,
                  Symlink, Go, Places, Leaving
    <2> QED BY <2>1, <2>2
  <1> QED BY <1>1, <1>2, <1>3, EditInvLocks

LEMMA EditInvStep ==
  ASSUME "region" \notin Ops, EditInv, [LockNext]_lockVars
  PROVE  EditInv'
  <1>0. LockTypeOK /\ LockTypeOK'
    BY TypeStep DEF EditInv
  <1>1. CASE UNCHANGED lockVars
    BY <1>0, <1>1 DEF EditInv, lockVars
  <1>2. ASSUME NEW p \in Procs, Command(p) PROVE EditInv'
    <2>1. CASE Prepare(p)
      BY <1>0, <2>1
      DEF EditInv, LockTypeOK, Leaving, Prepare, Begin, At, Go
    <2>2. CASE FlagModified(p)
      BY <1>0, <2>2
      DEF EditInv, LockTypeOK, Leaving, FlagModified, Begin, At, Go
    <2>3. CASE WriteFile(p)
      BY <1>0, <2>3
      DEF EditInv, LockTypeOK, Leaving, WriteFile, Begin, At, Go
    <2>4. CASE Discard(p)
      BY <1>0, <2>4
      DEF EditInv, LockTypeOK, Leaving, Discard, Begin, At, Go
    <2>5. CASE Quit(p)
      <3>1. pc' = [pc EXCEPT ![p] = "unlock"] /\ op' = [op EXCEPT ![p] = "quit"]
        BY <2>5 DEF Quit, Begin, Go
      <3>2. \A q \in Procs : (q # p /\ pc'[q] = pc[q] /\ op'[q] = op[q])
                              \/ (q = p /\ pc'[q] = "unlock" /\ op'[q] = "quit")
        BY <3>1, <1>0 DEF LockTypeOK
      <3>3. UNCHANGED <<held, guarded>>
        BY <2>5 DEF Quit, Begin
      <3> QED BY <1>0, <3>2, <3>3 DEF EditInv, LockTypeOK, Leaving
    <2> QED BY <1>2, <2>1, <2>2, <2>3, <2>4, <2>5 DEF Command
  <1>3. ASSUME NEW p \in Procs, Lock(p) PROVE EditInv'
    BY <1>0, <1>3, EditInvLock
  <1>4. ASSUME NEW p \in Procs, Finish(p) PROVE EditInv'
    <2>1. CASE EditLocked(p)
      BY <1>0, <2>1
      DEF EditInv, LockTypeOK, Leaving, EditLocked, Idle, Go
    <2>2. CASE NothingToDo(p)
      BY <1>0, <2>2
      DEF EditInv, LockTypeOK, Leaving, NothingToDo, Idle, Go
    <2>3. CASE Write(p)
      <3>1. UNCHANGED <<held, guarded>> /\ pc[p] \in {"got", "proceed"} /\ op[p] \in {"save", "region"}
        BY <2>3 DEF Write
      <3>2. CASE Go(p, "unlock") /\ UNCHANGED op
        <4>1. op[p] = "save"
          BY <3>1 DEF EditInv
        <4>2. \A q \in Procs : (q # p /\ pc'[q] = pc[q]) \/ (q = p /\ pc'[q] = "unlock")
          BY <3>2, <1>0 DEF LockTypeOK, Go
        <4> QED BY <1>0, <3>1, <3>2, <4>1, <4>2 DEF EditInv, LockTypeOK, Leaving
      <3>3. CASE Idle(p)
        BY <1>0, <3>1, <3>3 DEF EditInv, LockTypeOK, Leaving, Idle, Go
      <3> QED BY <2>3, <3>2, <3>3 DEF Write
    <2>4. CASE ReadOwn(p)
      BY <1>0, <2>4
      DEF EditInv, LockTypeOK, Leaving, ReadOwn, Unlocked, Idle, At, Go
    <2>5. CASE UnlinkOwn(p)
      BY <1>0, <2>5
      DEF EditInv, LockTypeOK, Leaving, UnlinkOwn, Unlocked, Idle, At, Go
    <2>6. CASE Exit(p)
      BY <1>0, <2>6
      DEF EditInv, LockTypeOK, Leaving, Exit, Idle, At, Go
    <2> QED BY <1>4, <2>1, <2>2, <2>3, <2>4, <2>5, <2>6 DEF Finish
  <1>5. ASSUME NEW p \in Procs, Crash(p) PROVE EditInv'
    BY <1>0, <1>5 DEF EditInv, LockTypeOK, Leaving, Crash, local
  <1> QED BY <1>1, <1>2, <1>3, <1>4, <1>5 DEF LockNext

(* A buffer that was modified with the lock in hand stays locked until it  *)
(* is no longer modified or its user has lost the lock to a thief, when no *)
(* region of another buffer is written to the file (file.c:892).           *)
THEOREM LockKeepsEdits == ASSUME "region" \notin Ops PROVE LockSpec => []EditIsLocked
  <1>1. EditInv => EditIsLocked
    BY DEF EditInv, EditIsLocked, LockTypeOK, Leaving
  <1>2. EditInv /\ [LockNext]_lockVars => EditInv'
    BY EditInvStep
  <1> QED BY EditInvInit, <1>1, <1>2, PTL DEF LockSpec
-----------------------------------------------------------------------------
(* No lock is left behind.                                                 *)

(* A process whose buffer is not modified is not named by the link but     *)
(* from the moment it gets the lock to the moment it gives it up.          *)
Without == {"idle", "try", "look", "read", "probe", "ask", "force", "unlink", "relink",
            "proceed", "fail", "abort"}

IdleInv ==
  /\ LockTypeOK
  /\ \A p \in Procs :
       /\ alive[p] /\ pc[p] \in Without /\ ~modified[p] => link # p
       /\ pc[p] \notin {"idle", "unlock", "unlinkown", "exit"} =>
            op[p] \in {"edit", "save", "region"} \/ (op[p] = "flag" /\ modified[p])

LEMMA IdleInvInit == LockInit => IdleInv
  BY TypeInit, NoneAssumption DEF LockInit, IdleInv

LEMMA IdleInvStep ==
  ASSUME "touch" \notin Ops, Failures = {}, IdleInv, [LockNext]_lockVars
  PROVE  IdleInv'
  <1>0. LockTypeOK /\ LockTypeOK'
    BY TypeStep DEF IdleInv
  <1>1. CASE UNCHANGED lockVars
    BY <1>0, <1>1 DEF IdleInv, lockVars
  <1>2. ASSUME NEW p \in Procs, Command(p) PROVE IdleInv'
    <2>1. CASE Prepare(p)
      <3>1. PICK o \in {"edit", "touch"} : Begin(p, o, "try")
        BY <2>1 DEF Prepare
      <3>2. o = "edit"
        BY <3>1 DEF Begin
      <3>3. \A q \in Procs : (q # p /\ pc'[q] = pc[q] /\ op'[q] = op[q])
                              \/ (q = p /\ pc'[q] = "try" /\ op'[q] = "edit")
        BY <1>0, <3>1, <3>2 DEF LockTypeOK, Begin, Go
      <3>4. UNCHANGED <<link, alive, modified>> /\ At(p, "idle")
        BY <2>1 DEF Prepare, Begin
      <3> QED BY <1>0, <3>3, <3>4 DEF IdleInv, Without, At
    <2>2. CASE FlagModified(p)
      BY <1>0, <2>2, NoneAssumption, OpsAssumption
      DEF IdleInv, LockTypeOK, FlagModified, Begin, At, Go, Without
    <2>3. CASE WriteFile(p)
      <3>1. PICK o \in {"save", "region"} : Begin(p, o, "try")
        BY <2>3 DEF WriteFile
      <3>2. \A q \in Procs : (q # p /\ pc'[q] = pc[q] /\ op'[q] = op[q])
                              \/ (q = p /\ pc'[q] = "try" /\ op'[q] = o)
        BY <1>0, <3>1 DEF LockTypeOK, Begin, Go
      <3>3. UNCHANGED <<link, alive, modified>> /\ At(p, "idle")
        BY <2>3 DEF WriteFile, Begin
      <3> QED BY <1>0, <3>2, <3>3 DEF IdleInv, Without, At
    <2>4. CASE Discard(p)
      BY <1>0, <2>4, NoneAssumption, OpsAssumption
      DEF IdleInv, LockTypeOK, Discard, Begin, At, Go, Without
    <2>5. CASE Quit(p)
      BY <1>0, <2>5, NoneAssumption, OpsAssumption
      DEF IdleInv, LockTypeOK, Quit, Begin, At, Go, Without
    <2> QED BY <1>2, <2>1, <2>2, <2>3, <2>4, <2>5 DEF Command
  <1>3. ASSUME NEW p \in Procs, Lock(p) PROVE IdleInv'
    <2>1. CASE TryLock(p)
      BY <1>0, <2>1, NoneAssumption, OpsAssumption
      DEF IdleInv, LockTypeOK, TryLock, Symlink, At, Go, local, Without
    <2>2. CASE LookAtLock(p)
      BY <1>0, <2>2, NoneAssumption, OpsAssumption
      DEF IdleInv, LockTypeOK, LookAtLock, At, Go, local, Without
    <2>8. CASE ReadLock(p)
      BY <1>0, <2>8, NoneAssumption, OpsAssumption
      DEF IdleInv, LockTypeOK, ReadLock, At, Go, Without
    <2>3. CASE Probe(p)
      BY <1>0, <2>3, NoneAssumption, OpsAssumption
      DEF IdleInv, LockTypeOK, Probe, At, Go, local, Without
    <2>4. CASE AskAboutLock(p)
      BY <1>0, <2>4, NoneAssumption, OpsAssumption
      DEF IdleInv, LockTypeOK, AskAboutLock, At, Go, Without
    <2>5. CASE ForceLock(p)
      BY <1>0, <2>5, NoneAssumption, OpsAssumption
      DEF IdleInv, LockTypeOK, ForceLock, Symlink, At, Go, local, Without
    <2>6. CASE UnlinkForeign(p)
      BY <1>0, <2>6, NoneAssumption, OpsAssumption
      DEF IdleInv, LockTypeOK, UnlinkForeign, At, Go, local, Without
    <2>7. CASE Relink(p)
      BY <1>0, <2>7, NoneAssumption, OpsAssumption
      DEF IdleInv, LockTypeOK, Relink, At, Go, local, Without
    <2> QED BY <1>3, <2>1, <2>2, <2>3, <2>4, <2>5, <2>6, <2>7, <2>8 DEF Lock
  <1>4. ASSUME NEW p \in Procs, Finish(p) PROVE IdleInv'
    <2>1. CASE EditLocked(p)
      BY <1>0, <2>1, NoneAssumption, OpsAssumption
      DEF IdleInv, LockTypeOK, EditLocked, Idle, Go, Without
    <2>2. CASE NothingToDo(p)
      BY <1>0, <2>2, NoneAssumption, OpsAssumption
      DEF IdleInv, LockTypeOK, NothingToDo, Idle, Go, Without
    <2>3. CASE Write(p)
      BY <1>0, <2>3, NoneAssumption, OpsAssumption
      DEF IdleInv, LockTypeOK, Write, Idle, Go, Without
    <2>4. CASE ReadOwn(p)
      BY <1>0, <2>4, NoneAssumption, OpsAssumption
      DEF IdleInv, LockTypeOK, ReadOwn, Unlocked, Idle, At, Go, Without
    <2>5. CASE UnlinkOwn(p)
      BY <1>0, <2>5, NoneAssumption, OpsAssumption
      DEF IdleInv, LockTypeOK, UnlinkOwn, Unlocked, Idle, At, Go, Without
    <2>6. CASE Exit(p)
      BY <1>0, <2>6, NoneAssumption, OpsAssumption
      DEF IdleInv, LockTypeOK, Exit, Idle, At, Go, Without
    <2> QED BY <1>4, <2>1, <2>2, <2>3, <2>4, <2>5, <2>6 DEF Finish
  <1>5. ASSUME NEW p \in Procs, Crash(p) PROVE IdleInv'
    BY <1>0, <1>5 DEF IdleInv, LockTypeOK, Crash, local
  <1> QED BY <1>1, <1>2, <1>3, <1>4, <1>5 DEF LockNext

(* Between commands, a process without unsaved changes leaves the file     *)
(* unlocked, whatever users answer and processes do, as long as writing    *)
(* the file (file.c:853) and reading the lock do not fail and every edit   *)
(* changes something.                                                      *)
THEOREM LockIdleHoldsNothing ==
  ASSUME "touch" \notin Ops, Failures = {} PROVE LockSpec => []IdleHoldsNoLock
  <1>1. IdleInv => IdleHoldsNoLock
    BY DEF IdleInv, IdleHoldsNoLock, At, Without
  <1>2. IdleInv /\ [LockNext]_lockVars => IdleInv'
    BY IdleInvStep
  <1> QED BY IdleInvInit, <1>1, <1>2, PTL DEF LockSpec
=============================================================================
