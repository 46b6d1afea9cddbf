----------------------------- MODULE UndoProofs -----------------------------
(***************************************************************************)
(* Proofs about Undo, for a ring and objects of any size, any text and any *)
(* set of commands: that its variables keep their types (every recorded    *)
(* place lies in the text, no deletion reads past it), that the ring is    *)
(* sound in every reachable state (UndoSound), that every object of it     *)
(* inverts the changes it stands for (RecordsInvert), and that undo()      *)
(* walks back through the texts there were (UndoRetracesHistory).          *)
(***************************************************************************)
EXTENDS Undo, FiniteSetTheorems, TLAPS

-----------------------------------------------------------------------------
(* Counting bytes.                                                         *)

(* A set of positions between a and b has at most b - a + 1 elements.      *)
LEMMA CountBound ==
  ASSUME NEW a \in Nat, NEW b \in Nat, a <= b + 1, NEW S \in SUBSET (a..b)
  PROVE  /\ Cardinality(S) \in Nat
         /\ Cardinality(S) <= b - a + 1
         /\ IsFiniteSet(S)
  <1>1. IsFiniteSet(a..b) /\ Cardinality(a..b) = b - a + 1
    BY FS_Interval
  <1>2. IsFiniteSet(S) /\ Cardinality(S) <= Cardinality(a..b)
    BY <1>1, FS_Subset
  <1>3. Cardinality(S) \in Nat
    BY <1>2, FS_CardinalityType
  <1> QED
    BY <1>1, <1>2, <1>3

(* Lines are numbered from 1 and offsets in a line from 0.                 *)
LEMMA PlaceType ==
  ASSUME NEW t \in Text, NEW p \in 0..Len(t)
  PROVE  /\ LineOf(t, p) \in Nat
         /\ PointOf(t, p) \in Nat
         /\ ToEol(t, p) \in Nat
         /\ p + ToEol(t, p) <= Len(t)
  <1>0. Len(t) \in Nat
    BY DEF Text
  <1>1. Cardinality({i \in 1..p : t[i] = NL}) \in Nat
    <2> DEFINE S == {i \in 1..p : t[i] = NL}
    <2>1. S \in SUBSET (1..p)
      OBVIOUS
    <2> HIDE DEF S
    <2>2. p \in Nat /\ 1 <= p + 1
      BY <1>0
    <2> QED
      BY <2>1, <2>2, CountBound
  <1>2. PointOf(t, p) \in Nat
    <2> DEFINE S == {i \in 1..p : \A j \in i..p : t[j] # NL}
    <2>1. S \in SUBSET (1..p) /\ PointOf(t, p) = Cardinality(S)
      BY DEF PointOf
    <2> HIDE DEF S
    <2>2. p \in Nat /\ 1 <= p + 1
      BY <1>0
    <2> QED
      BY <2>1, <2>2, CountBound
  <1>3. ToEol(t, p) \in Nat /\ ToEol(t, p) <= Len(t) - (p + 1) + 1
    <2> DEFINE S == {i \in (p+1)..Len(t) : \A j \in (p+1)..i : t[j] # NL}
    <2>1. S \in SUBSET ((p+1)..Len(t)) /\ ToEol(t, p) = Cardinality(S)
      BY DEF ToEol
    <2> HIDE DEF S
    <2>2. p + 1 \in Nat /\ p + 1 <= Len(t) + 1
      BY <1>0
    <2> QED
      BY <1>0, <2>1, <2>2, CountBound
  <1> QED
    BY <1>0, <1>1, <1>2, <1>3 DEF LineOf

(* The bytes before a line and the bytes of the line are distinct bytes of *)
(* the text, so a point within the line is a place in the text.            *)
LEMMA LineFits ==
  ASSUME NEW t \in Text, NEW l \in Nat
  PROVE  /\ LineStart(t, l) \in Nat
         /\ LineLen(t, l) \in Nat
         /\ LineStart(t, l) + LineLen(t, l) <= Len(t)
  <1> DEFINE A == {i \in 1..Len(t) : LineOf(t, i - 1) < l}
             B == {i \in 1..Len(t) : LineOf(t, i - 1) = l}
  <1>0. Len(t) \in Nat
    BY DEF Text
  <1>1. \A i \in 1..Len(t) : LineOf(t, i - 1) \in Nat
    BY <1>0, PlaceType, SMTT(30)
  <1>2. A \cap B = {}
    BY <1>1
  <1>3. /\ A \in SUBSET (1..Len(t)) /\ B \in SUBSET (1..Len(t))
        /\ A \cup B \in SUBSET (1..Len(t))
    OBVIOUS
  <1>4. LineStart(t, l) = Cardinality(A) /\ LineLen(t, l) = Cardinality(B)
    BY DEF LineStart, LineLen
  <1> HIDE DEF A, B
  <1>5. 1 \in Nat /\ 1 <= Len(t) + 1
    BY <1>0
  <1>6. IsFiniteSet(A) /\ Cardinality(A) \in Nat
    BY <1>0, <1>3, <1>5, CountBound
  <1>7. IsFiniteSet(B) /\ Cardinality(B) \in Nat
    BY <1>0, <1>3, <1>5, CountBound
  <1>8. Cardinality(A \cup B) <= Len(t) - 1 + 1
    BY <1>0, <1>3, <1>5, CountBound
  <1>9. Cardinality(A \cup B) = Cardinality(A) + Cardinality(B) - Cardinality(A \cap B)
    BY <1>6, <1>7, FS_Union
  <1>10. Cardinality(A \cap B) = 0
    BY <1>2, FS_EmptySet
  <1> QED
    BY <1>0, <1>4, <1>6, <1>7, <1>8, <1>9, <1>10
-----------------------------------------------------------------------------
(* Inserting, removing and reading bytes.                                  *)

LEMMA InsertAtType ==
  ASSUME NEW t \in Text, NEW s \in Text, NEW p \in 0..Len(t)
  PROVE  InsertAt(t, p, s) \in Text /\ Len(InsertAt(t, p, s)) = Len(t) + Len(s)
  BY DEF InsertAt, Text

LEMMA RemoveAtType ==
  ASSUME NEW t \in Text, NEW p \in Nat, NEW n \in Nat, p + n <= Len(t)
  PROVE  RemoveAt(t, p, n) \in Text /\ Len(RemoveAt(t, p, n)) = Len(t) - n
  BY DEF RemoveAt, Text

LEMMA BytesAtType ==
  ASSUME NEW t \in Text, NEW p \in Nat, NEW n \in Nat, p + n <= Len(t)
  PROVE  BytesAt(t, p, n) \in Text /\ Len(BytesAt(t, p, n)) = n
  BY DEF BytesAt, Text

LEMMA RunType ==
  ASSUME NEW s \in Text
  PROVE  Run(s) \in Text /\ Len(Run(s)) \in Nat /\ Len(Run(s)) <= Len(s)
  <1>1. Len(s) \in Nat
    BY DEF Text
  <1>2. ToEol(s, 0) \in Nat /\ ToEol(s, 0) <= Len(s)
    BY <1>1, PlaceType
  <1> QED
    BY <1>1, <1>2, BytesAtType DEF Run
-----------------------------------------------------------------------------
(* The operators of the ring keep its type.                                *)

LEMMA SlotType ==
  /\ 0 \in Slots
  /\ \A i \in Slots : Succ(i) \in Slots /\ Pred(i) \in Slots
  /\ None \notin Slots
  BY MaxUndosAssumption, NoneAssumption DEF Slots, Succ, Pred

LEMMA BlankType == Blank \in UndoObject
  BY BufSizeAssumption DEF Blank, UndoObject, Kinds, Buffer, Text

LEMMA PrepareNextType ==
  ASSUME NEW u \in Undo_Type
  PROVE  PrepareNext(u) \in Undo_Type
  BY SlotType, BlankType DEF PrepareNext, Undo_Type

LEMMA FreshType ==
  ASSUME NEW u \in Undo_Type
  PROVE  Fresh(u) \in Undo_Type
  BY PrepareNextType DEF Fresh

LEMMA SetCurrentType ==
  ASSUME NEW u \in Undo_Type
  PROVE  SetCurrent(u) \in Undo_Type
  BY DEF SetCurrent, Undo_Type

LEMMA PutType ==
  ASSUME NEW u \in Undo_Type, NEW r \in UndoObject
  PROVE  Put(u, r) \in Undo_Type
  BY DEF Put, Undo_Type

LEMMA NoUndoType == NoUndo \in Undo_Type
  BY SlotType, BlankType DEF NoUndo, Undo_Type

(* An object made at the cursor.                                           *)
LEMMA ObjectType ==
  ASSUME TypeOK, NEW kind \in Kinds, NEW misc \in Nat, NEW flag \in BOOLEAN
  PROVE  Object(kind, misc, flag) \in UndoObject
  <1>1. LineOf(text, pos) \in Nat /\ PointOf(text, pos) \in Nat
    BY PlaceType DEF TypeOK
  <1>2. <<>> \in Buffer
    BY BufSizeAssumption DEF Buffer, Text
  <1> QED
    BY <1>1, <1>2 DEF Object, UndoObject

LEMMA RecordInsertionType ==
  ASSUME TypeOK, NEW n \in Nat, NEW flag \in BOOLEAN
  PROVE  RecordInsertion(n, flag) \in Undo_Type
  <1> DEFINE u == IF flag THEN Fresh(undo) ELSE undo
             r == u.ring[u.last]
             longer == [r EXCEPT !.misc = @ + n]
  <1>1. u \in Undo_Type
    BY FreshType DEF TypeOK
  <1>2. r \in UndoObject
    BY <1>1 DEF Undo_Type
  <1>3. longer \in UndoObject
    BY <1>2 DEF UndoObject
  <1>4. SetCurrent(Put(u, longer)) \in Undo_Type
    BY <1>1, <1>3, PutType, SetCurrentType
  <1>5. SetCurrent(Put(Fresh(u), Object("CINSERT", n, flag))) \in Undo_Type
    <2>1. Object("CINSERT", n, flag) \in UndoObject
      BY ObjectType DEF Kinds
    <2> QED
      BY <1>1, <2>1, FreshType, PutType, SetCurrentType
  <1> QED
    BY <1>4, <1>5 DEF RecordInsertion

(* A turn of record_deletion's loop records at most the bytes left to it,  *)
(* and at most the room left in the object.                                *)
LEMMA DeletionFitsType ==
  ASSUME TypeOK
  PROVE  /\ DeletionFits \in Nat
         /\ DeletionFits <= seg
         /\ Joins => DeletionFits + Len(undo.ring[undo.last].buf) <= BufSize
  <1>1. undo.ring[undo.last].buf \in Buffer
    BY DEF TypeOK, Undo_Type, UndoObject
  <1> DEFINE L == Len(undo.ring[undo.last].buf)
             room == BufSize - L
  <1>2. L \in Nat /\ L <= BufSize
    BY <1>1 DEF Buffer, Text
  <1>3. seg \in Nat
    BY DEF TypeOK
  <1>4. DeletionFits = IF Joins THEN IF seg <= room THEN seg ELSE room ELSE 0
    BY DEF DeletionFits
  <1> HIDE DEF L
  <1>5. room \in Nat /\ room + L = BufSize
    BY <1>2, BufSizeAssumption
  <1> HIDE DEF room
  <1>6. CASE Joins
    <2>1. DeletionFits = IF seg <= room THEN seg ELSE room
      BY <1>4, <1>6
    <2>2. DeletionFits \in Nat /\ DeletionFits <= seg /\ DeletionFits <= room
      BY <1>3, <1>5, <2>1
    <2> QED
      BY <1>2, <1>5, <2>2, BufSizeAssumption DEF L
  <1>7. CASE ~Joins
    BY <1>3, <1>4, <1>7
  <1> QED
    BY <1>6, <1>7

(* Concatenation, in the terms of Text.                                    *)
LEMMA ConcatType ==
  ASSUME NEW s \in Text, NEW t \in Text
  PROVE  s \o t \in Text /\ Len(s \o t) = Len(s) + Len(t)
  BY DEF Text

(* The last object with n more bytes in it.                                *)
LEMMA FilledType ==
  ASSUME TypeOK, NEW n \in Nat, n <= seg, Joins,
         n + Len(undo.ring[undo.last].buf) <= BufSize
  PROVE  /\ Filled(n) \in UndoObject
         /\ Filled(n).kind = "CDELETE"
         /\ Len(Filled(n).buf) = Filled(n).misc
  <1> DEFINE r == undo.ring[undo.last]
             more == BytesAt(text, pos, n)
             bytes == r.buf \o more
  <1>1. text \in Text /\ pos \in Nat /\ pos + n <= Len(text)
    BY DEF TypeOK, Text
  <1>2. more \in Text /\ Len(more) = n
    BY <1>1, BytesAtType
  <1>3. r \in UndoObject
    BY DEF TypeOK, Undo_Type
  <1>4. r.buf \in Text /\ Len(r.buf) \in Nat
    BY <1>3 DEF UndoObject, Buffer, Text
  <1>5. n + Len(r.buf) <= BufSize
    OBVIOUS
  <1> HIDE DEF more
  <1>6. bytes \in Text /\ Len(bytes) = Len(r.buf) + n
    <2>1. bytes \in Text /\ Len(bytes) = Len(r.buf) + Len(more)
      BY <1>2, <1>4, ConcatType
    <2> QED
      BY <1>2, <2>1
  <1>7. bytes \in Buffer /\ Len(bytes) \in Nat
    BY <1>4, <1>5, <1>6 DEF Buffer
  <1>8. LineOf(text, pos) \in Nat /\ PointOf(text, pos) \in Nat
    BY PlaceType DEF TypeOK
  <1>9. (r.unch \/ unch) \in BOOLEAN /\ r.bd \in BOOLEAN
    BY <1>3 DEF UndoObject, TypeOK
  <1>10. Filled(n) = [kind |-> "CDELETE", bd |-> r.bd, unch |-> r.unch \/ unch,
                      line |-> LineOf(text, pos), point |-> PointOf(text, pos),
                      misc |-> Len(bytes), buf |-> bytes]
    BY DEF Filled, more
  <1> HIDE DEF bytes, r
  <1> QED
    BY <1>7, <1>8, <1>9, <1>10 DEF UndoObject, Kinds

-----------------------------------------------------------------------------
(* The operators of the ring keep it sound.                                *)

LEMMA PrepareNextSound ==
  ASSUME NEW u \in Undo_Type, RingSound(u), u.ring[u.last].kind # "none"
  PROVE  RingSound(PrepareNext(u))
  <1> DEFINE v == PrepareNext(u)
  <1>1. /\ u.first \in Nat /\ u.last \in Nat /\ u.first \in Slots /\ u.last \in Slots
        /\ u.current # None => u.current \in Slots
        /\ u.ring \in [Slots -> UndoObject]
    BY MaxUndosAssumption DEF Undo_Type, Slots
  <1>2. /\ v.last = Succ(u.last)
        /\ v.first = IF Succ(u.last) = u.first THEN Succ(u.first) ELSE u.first
        /\ v.current = IF Succ(u.last) = u.current THEN None ELSE u.current
        /\ v.ring = [u.ring EXCEPT ![Succ(u.last)] = Blank]
    BY DEF PrepareNext
  <1>3. v.last \in Slots /\ v.first \in Slots
    BY <1>1, <1>2, SlotType
  <1> HIDE DEF v
  <1>4. \A i \in Slots : InWindow(v, i) /\ i # v.last => InWindow(u, i)
    BY <1>1, <1>2, <1>3, MaxUndosAssumption DEF InWindow, Succ, Slots
  <1>5. \A i \in Slots : InWindow(u, i) /\ i # v.last => InWindow(v, i)
    BY <1>1, <1>2, <1>3, MaxUndosAssumption DEF InWindow, Succ, Slots
  <1>6. \A i \in Slots : i # v.last => v.ring[i] = u.ring[i]
    BY <1>1, <1>2
  <1>7. v.ring[v.last] = Blank
    BY <1>1, <1>2, <1>3
  <1>8. ASSUME NEW i \in Slots, InWindow(v, i), i # v.last
        PROVE  v.ring[i].kind # "none"
    BY <1>4, <1>6, <1>8 DEF RingSound
  <1>9. v.current # None => InWindow(v, v.current)
    BY <1>1, <1>2, <1>5 DEF RingSound
  <1>10. \A i \in Slots :
           v.ring[i].kind = "CDELETE" => Len(v.ring[i].buf) = v.ring[i].misc
    BY <1>6, <1>7 DEF RingSound, Blank
  <1> QED
    BY <1>8, <1>9, <1>10 DEF RingSound, v

LEMMA NoUndoSound == RingSound(NoUndo)
  <1>1. /\ NoUndo.first = 0 /\ NoUndo.last = 0 /\ NoUndo.current = None
        /\ \A i \in Slots : NoUndo.ring[i].kind = "none"
    BY DEF NoUndo, Blank
  <1>2. \A i \in Slots : InWindow(NoUndo, i) => i = 0
    BY <1>1, MaxUndosAssumption DEF InWindow, Slots
  <1> QED
    BY <1>1, <1>2 DEF RingSound

LEMMA FreshSound ==
  ASSUME NEW u \in Undo_Type, RingSound(u)
  PROVE  RingSound(Fresh(u))
  BY PrepareNextSound DEF Fresh

LEMMA PutSound ==
  ASSUME NEW u \in Undo_Type, RingSound(u), NEW r \in UndoObject,
         r.kind = "CDELETE" => Len(r.buf) = r.misc
  PROVE  RingSound(Put(u, r))
  BY DEF RingSound, Put, Undo_Type, InWindow

LEMMA SetCurrentSound ==
  ASSUME NEW u \in Undo_Type, RingSound(u)
  PROVE  RingSound(SetCurrent(u))
  <1>1. u.first \in Nat /\ u.last \in Nat
    BY MaxUndosAssumption DEF Undo_Type, Slots
  <1>2. InWindow(u, u.last)
    BY <1>1 DEF InWindow
  <1> QED
    BY <1>2 DEF RingSound, SetCurrent, Undo_Type, InWindow

LEMMA RecordInsertionSound ==
  ASSUME TypeOK, RingSound(undo), NEW n \in Nat, NEW flag \in BOOLEAN
  PROVE  RingSound(RecordInsertion(n, flag))
  <1> DEFINE u == IF flag THEN Fresh(undo) ELSE undo
             r == u.ring[u.last]
             longer == [r EXCEPT !.misc = @ + n]
             obj == Object("CINSERT", n, flag)
  <1>1. u \in Undo_Type /\ RingSound(u)
    BY FreshType, FreshSound DEF TypeOK
  <1>2. r \in UndoObject
    BY <1>1 DEF Undo_Type
  <1>3. ASSUME r.kind = "CINSERT" PROVE RingSound(SetCurrent(Put(u, longer)))
    <2>1. longer \in UndoObject /\ longer.kind # "CDELETE"
      BY <1>2, <1>3 DEF UndoObject
    <2> QED
      BY <1>1, <2>1, PutType, PutSound, SetCurrentSound
  <1>4. RingSound(SetCurrent(Put(Fresh(u), obj)))
    <2>1. obj \in UndoObject
      BY ObjectType DEF Kinds
    <2>2. obj.kind # "CDELETE"
      BY DEF Object
    <2>3. Fresh(u) \in Undo_Type /\ RingSound(Fresh(u))
      BY <1>1, FreshType, FreshSound
    <2> HIDE DEF obj
    <2> QED
      BY <2>1, <2>2, <2>3, PutType, PutSound, SetCurrentSound
  <1> QED
    BY <1>3, <1>4 DEF RecordInsertion

LEMMA RecordObjectSound ==
  ASSUME TypeOK, RingSound(undo), NEW kind \in Kinds \ {"CDELETE"}, NEW flag \in BOOLEAN
  PROVE  /\ SetCurrent(Put(Fresh(undo), Object(kind, 0, flag))) \in Undo_Type
         /\ RingSound(SetCurrent(Put(Fresh(undo), Object(kind, 0, flag))))
  <1> DEFINE obj == Object(kind, 0, flag)
  <1>1. obj \in UndoObject
    BY ObjectType
  <1>2. obj.kind # "CDELETE"
    BY DEF Object
  <1>3. Fresh(undo) \in Undo_Type /\ RingSound(Fresh(undo))
    BY FreshType, FreshSound DEF TypeOK
  <1> HIDE DEF obj
  <1>4. Put(Fresh(undo), obj) \in Undo_Type /\ RingSound(Put(Fresh(undo), obj))
    BY <1>1, <1>2, <1>3, PutType, PutSound
  <1> QED
    BY <1>4, SetCurrentType, SetCurrentSound DEF obj

LEMMA RecordDeletionSound ==
  ASSUME TypeOK, RingSound(undo), NEW n \in Nat, n <= seg,
         Joins => n + Len(undo.ring[undo.last].buf) <= BufSize
  PROVE  /\ RecordDeletion(n) \in Undo_Type
         /\ RingSound(RecordDeletion(n))
  <1> DEFINE u == IF Joins THEN Put(undo, Filled(n)) ELSE undo
  <1>1. undo \in Undo_Type /\ undo.last \in Slots /\ undo.ring \in [Slots -> UndoObject]
    BY DEF TypeOK, Undo_Type
  <1>2. u.ring[u.last].kind # "none" /\ RingSound(u) /\ u \in Undo_Type
    <2>1. CASE Joins
      <3>1. /\ Filled(n) \in UndoObject /\ Filled(n).kind = "CDELETE"
            /\ Len(Filled(n).buf) = Filled(n).misc
        BY <2>1, FilledType
      <3>2. u = Put(undo, Filled(n))
        BY <2>1
      <3>3. RingSound(u) /\ u \in Undo_Type
        BY <1>1, <3>1, <3>2, PutSound, PutType
      <3>4. u.ring[u.last] = Filled(n)
        BY <1>1, <3>2 DEF Undo_Type, Put
      <3> QED
        BY <3>1, <3>3, <3>4
    <2>2. CASE ~Joins
      BY <1>1, <2>2 DEF Joins
    <2> QED
      BY <2>1, <2>2
  <1> HIDE DEF u
  <1>3. /\ RingSound(SetCurrent(u)) /\ SetCurrent(u) \in Undo_Type
        /\ RingSound(PrepareNext(u)) /\ PrepareNext(u) \in Undo_Type
    BY <1>2, SetCurrentSound, PrepareNextSound, SetCurrentType, PrepareNextType
  <1> QED
    BY <1>3 DEF RecordDeletion, u
-----------------------------------------------------------------------------
(* The inductive invariant.  Neither half is inductive alone: undo() reads *)
(* the object at Current_Undo, whose type needs the ring to be sound, and  *)
(* the ring stays sound because the objects written have their types.      *)
LEMMA SnapshotType ==
  ASSUME TypeOK, undo' \in Undo_Type, NEW t \in Text, Snapshot(t)
  PROVE  was' \in [Slots -> Text]
  BY DEF TypeOK, Snapshot, Undo_Type

LEMMA InitRing == Init => UndoSound
  <1> SUFFICES ASSUME Init PROVE UndoSound
    OBVIOUS
  <1>1. NoUndo \in Undo_Type
    BY NoUndoType
  <1>2. RingSound(NoUndo)
    BY NoUndoSound
  <1>3. Len(InitText) \in Nat /\ InitText \in Text
    BY TextAssumption DEF Text
  <1>4. <<>> \in Text
    BY DEF Text
  <1>5. TypeOK
    <2>1. pos \in 0..Len(text) /\ pos + seg <= Len(text) /\ text \in Text
      BY <1>3 DEF Init
    <2>2. was \in [Slots -> Text] /\ disk \in Text
      BY <1>3 DEF Init
    <2>3. undo \in Undo_Type
      BY <1>1 DEF Init
    <2>4. ins = <<>> /\ ins \in Text /\ nl = FALSE /\ del = 0 /\ seg = 0 /\ pc = "idle"
      BY <1>4 DEF Init
    <2>5. modified = FALSE /\ enabled = TRUE /\ unch = FALSE /\ error = "none" /\ cmds = 0
      BY DEF Init
    <2>6. (modified \in BOOLEAN) /\ (enabled \in BOOLEAN) /\ (unch \in BOOLEAN) /\ (nl \in BOOLEAN)
      BY <2>4, <2>5
    <2>7. del \in Nat /\ seg \in 0..del /\ cmds \in Nat
      BY <2>4, <2>5
    <2>8. nl => Len(Run(ins)) < Len(ins) /\ pos < Len(text)
      BY <2>4
    <2>10. trusted \in BOOLEAN
      BY DEF Init
    <2>9. pc \in {"idle", "loop", "apply"} /\ (pc = "loop" => ~Working)
      BY <2>4
    <2> QED
      BY <2>1, <2>2, <2>3, <2>4, <2>5, <2>6, <2>7, <2>8, <2>9, <2>10 DEF TypeOK
  <1>6. RingOK
    BY <1>2 DEF Init, RingOK
  <1> QED
    BY <1>5, <1>6 DEF UndoSound

LEMMA InsertNewlineStep ==
  ASSUME UndoSound, InsertNewline
  PROVE  UndoSound'
  <1> USE DEF UndoSound
  <1>1. text' \in Text /\ Len(text') = Len(text) + 1
    <2>1. <<NL>> \in Text /\ Len(<<NL>>) = 1
      BY DEF Text, Byte
    <2> QED
      BY <2>1, InsertAtType DEF InsertNewline, TypeOK
  <1>2. undo' \in Undo_Type /\ RingSound(undo')
    <2>1. (~modified) \in BOOLEAN /\ undo \in Undo_Type /\ RingSound(undo)
      BY DEF TypeOK, RingOK
    <2>2. RecordNewline(~modified) \in Undo_Type /\ RingSound(RecordNewline(~modified))
      BY <2>1, RecordObjectSound DEF RecordNewline, Kinds
    <2> QED
      BY <2>1, <2>2 DEF InsertNewline
  <1>3. was' \in [Slots -> Text]
    BY <1>2, SnapshotType DEF InsertNewline, TypeOK
  <1>4. ins \in Text /\ Len(ins) \in Nat /\ Len(text) \in Nat /\ Len(ins) > 0
        /\ pos \in Nat /\ pos <= Len(text)
    BY DEF TypeOK, InsertNewline, Text
  <1>5. Tail(ins) \in Text
    BY <1>4 DEF Text
  <1>6. del = 0 /\ seg = 0 /\ pc # "loop"
    BY DEF InsertNewline, TypeOK, Working
  <1>7. (unch' \in BOOLEAN) /\ modified' \in BOOLEAN
    BY DEF InsertNewline, TypeOK
  <1>8. /\ ins' \in Text /\ nl' \in BOOLEAN
        /\ pos' \in 0..Len(text')
        /\ nl' => Len(Run(ins')) < Len(ins') /\ pos' < Len(text')
    <2>1. CASE Run(ins) = <<>>
      <3>1. ins' = Tail(ins) /\ pos' = pos + 1 /\ nl' = nl /\ ~nl
        BY <2>1 DEF InsertNewline
      <3>2. nl' = FALSE
        BY <3>1 DEF TypeOK
      <3>3. pos' \in 0..Len(text')
        BY <1>1, <1>4, <3>1
      <3>4. ins' \in Text
        BY <1>5, <3>1
      <3> QED
        BY <3>2, <3>3, <3>4
    <2>2. CASE Run(ins) # <<>>
      BY <1>1, <1>4, <2>2 DEF InsertNewline, TypeOK
    <2> QED
      BY <2>1, <2>2
  <1>9. TypeOK'
    <2>1. UNCHANGED <<enabled, pc, del, seg, error, disk, cmds>>
      BY DEF InsertNewline
    <2>2. (pc = "loop" => ~Working)'
      BY <1>6, <2>1
    <2>3. trusted' \in BOOLEAN
      BY DEF InsertNewline, TypeOK
    <2> QED
      BY <1>1, <1>2, <1>3, <1>6, <1>7, <1>8, <2>1, <2>2, <2>3 DEF TypeOK
  <1>10. RingOK'
    BY <1>2, <1>6 DEF RingOK, InsertNewline
  <1> QED
    BY <1>9, <1>10

LEMMA InsertRunStep ==
  ASSUME UndoSound, InsertRun
  PROVE  UndoSound'
  <1> USE DEF UndoSound
  <1> DEFINE s == Run(ins)
             skip == Len(s) + (IF nl THEN 1 ELSE 0)
  <1>1. /\ ins \in Text /\ Len(ins) \in Nat /\ Len(text) \in Nat
        /\ text \in Text /\ pos \in Nat /\ pos <= Len(text)
    BY DEF TypeOK, Text
  <1>2. s \in Text /\ Len(s) \in Nat /\ Len(s) <= Len(ins)
    BY <1>1, RunType
  <1>3. text' = InsertAt(text, pos, s) /\ text' \in Text /\ Len(text') = Len(text) + Len(s)
    BY <1>1, <1>2, InsertAtType DEF InsertRun
  <1>4. skip \in Nat /\ skip <= Len(ins) /\ pos + skip <= Len(text')
    <2>1. CASE nl
      BY <1>1, <1>2, <1>3, <2>1 DEF TypeOK
    <2>2. CASE ~nl
      BY <1>1, <1>2, <1>3, <2>2
    <2> QED
      BY <2>1, <2>2
  <1>5. pos' = pos + skip /\ ins' = BytesAt(ins, skip, Len(ins) - skip)
    BY DEF InsertRun
  <1> HIDE DEF s, skip
  <1>6. ins' \in Text
    <2>1. Len(ins) - skip \in Nat /\ skip + (Len(ins) - skip) <= Len(ins)
      BY <1>1, <1>4
    <2> QED
      BY <1>1, <1>4, <1>5, <2>1, BytesAtType
  <1>7. unch' \in BOOLEAN /\ modified' \in BOOLEAN
    BY DEF InsertRun, UpdateMarks, TypeOK
  <1>8. undo' \in Undo_Type /\ RingSound(undo')
    <2>1. undo \in Undo_Type /\ RingSound(undo)
      BY DEF TypeOK, RingOK
    <2>2. RecordInsertion(Len(s), unch') \in Undo_Type /\ RingSound(RecordInsertion(Len(s), unch'))
      BY <1>2, <1>7, <2>1, RecordInsertionType, RecordInsertionSound
    <2> QED
      BY <2>1, <2>2 DEF InsertRun, s
  <1>9. was' \in [Slots -> Text]
    BY <1>1, <1>8, SnapshotType DEF InsertRun
  <1>10. del = 0 /\ seg = 0 /\ pc # "loop"
    BY DEF InsertRun, TypeOK, Working
  <1>11. TypeOK'
    <2>1. nl' = FALSE /\ UNCHANGED <<enabled, pc, del, seg, error, disk, cmds>>
      BY DEF InsertRun
    <2>2. (pc = "loop" => ~Working)'
      BY <1>10, <2>1
    <2>3. pos' \in 0..Len(text') /\ pos' + seg' <= Len(text')
      BY <1>1, <1>3, <1>4, <1>5, <1>10, <2>1, <1>2
    <2>4. trusted' \in BOOLEAN
      BY DEF InsertRun, TypeOK
    <2> QED
      BY <1>3, <1>6, <1>7, <1>8, <1>9, <1>10, <2>1, <2>2, <2>3, <2>4 DEF TypeOK
  <1>12. RingOK'
    BY <1>8, <1>10 DEF RingOK, InsertRun
  <1> QED
    BY <1>11, <1>12

LEMMA DeleteSegmentStep ==
  ASSUME UndoSound, DeleteSegment
  PROVE  UndoSound'
  <1> USE DEF UndoSound
  <1>1. /\ Len(text) \in Nat /\ text \in Text /\ pos \in 0..Len(text)
        /\ del \in Nat /\ del > 0
    BY DEF TypeOK, Text, DeleteSegment
  <1>2. UNCHANGED <<text, pos, enabled, undo, pc, ins, nl, error, disk, was, cmds>>
    BY DEF DeleteSegment
  <1>3. pc # "loop" /\ ins = <<>>
    BY <1>1 DEF TypeOK, Working
  <1>4. /\ del' \in Nat /\ seg' \in 0..del' /\ pos + seg' <= Len(text)
        /\ unch' \in BOOLEAN /\ modified' \in BOOLEAN
    <2>1. CASE pos = Len(text)
      BY <1>1, <2>1 DEF DeleteSegment, TypeOK
    <2>2. CASE pos # Len(text)
      <3> DEFINE n == ToEol(text, pos)
      <3>1. n \in Nat /\ pos + n <= Len(text)
        BY <1>1, PlaceType
      <3>2. del' = del /\ seg' = (IF n = 0 THEN 1 ELSE IF n < del THEN n ELSE del)
        BY <2>2 DEF DeleteSegment
      <3>3. unch' \in BOOLEAN /\ modified' \in BOOLEAN
        BY <2>2 DEF DeleteSegment, UpdateMarks, TypeOK
      <3> HIDE DEF n
      <3> QED
        BY <1>1, <2>2, <3>1, <3>2, <3>3
    <2> QED
      BY <2>1, <2>2
  <1>5. TypeOK'
    <2>1. (pc = "loop" => ~Working)'
      BY <1>2, <1>3
    <2>2. trusted' \in BOOLEAN
      BY DEF DeleteSegment, TypeOK
    <2> QED
      BY <1>2, <1>3, <1>4, <2>1, <2>2 DEF TypeOK
  <1>6. RingOK'
    BY <1>2, <1>3 DEF RingOK
  <1> QED
    BY <1>5, <1>6

LEMMA DeleteBytesStep ==
  ASSUME UndoSound, DeleteBytes
  PROVE  UndoSound'
  <1> USE DEF UndoSound
  <1> DEFINE n == IF enabled THEN DeletionFits ELSE seg
  <1>1. /\ Len(text) \in Nat /\ text \in Text /\ pos \in Nat /\ pos + seg <= Len(text)
        /\ del \in Nat /\ seg \in Nat /\ seg <= del /\ seg > 0
    BY DEF TypeOK, Text, DeleteBytes
  <1>2. n \in Nat /\ n <= seg
    BY <1>1, DeletionFitsType
  <1>3. /\ text' = RemoveAt(text, pos, n) /\ seg' = seg - n /\ del' = del - n
        /\ undo' = IF enabled THEN RecordDeletion(n) ELSE undo
        /\ unch' = IF enabled /\ Joins THEN FALSE ELSE unch
        /\ Snapshot(text')
        /\ UNCHANGED <<pos, modified, enabled, pc, ins, nl, error, disk, cmds>>
    BY DEF DeleteBytes
  <1>4. enabled /\ Joins => n + Len(undo.ring[undo.last].buf) <= BufSize
    BY DeletionFitsType
  <1> HIDE DEF n
  <1>5. text' \in Text /\ Len(text') = Len(text) - n
    BY <1>1, <1>2, <1>3, RemoveAtType
  <1>6. undo' \in Undo_Type /\ RingSound(undo')
    <2>1. undo \in Undo_Type /\ RingSound(undo)
      BY DEF TypeOK, RingOK
    <2>2. CASE enabled
      BY <1>2, <1>3, <1>4, <2>1, <2>2, RecordDeletionSound
    <2>3. CASE ~enabled
      BY <1>3, <2>1, <2>3
    <2> QED
      BY <2>2, <2>3
  <1>7. was' \in [Slots -> Text]
    BY <1>3, <1>5, <1>6, SnapshotType
  <1>8. pc # "loop" /\ ins = <<>> /\ nl = FALSE
    <2>1. pc # "loop" /\ ins = <<>>
      BY <1>1 DEF TypeOK, Working
    <2>2. ASSUME nl PROVE FALSE
      <3>1. Len(Run(ins)) < Len(ins) /\ Len(ins) = 0 /\ Len(Run(ins)) \in Nat
        BY <2>1, <2>2, RunType DEF TypeOK
      <3> QED
        BY <3>1
    <2> QED
      BY <2>1, <2>2 DEF TypeOK
  <1>9. TypeOK'
    <2>1. (pc = "loop" => ~Working)'
      BY <1>3, <1>8
    <2>2. /\ pos' \in 0..Len(text') /\ del' \in Nat /\ seg' \in 0..del'
          /\ pos' + seg' <= Len(text')
      BY <1>1, <1>2, <1>3, <1>5
    <2>3. unch' \in BOOLEAN
      BY <1>3 DEF TypeOK
    <2>4. (nl => Len(Run(ins)) < Len(ins) /\ pos < Len(text))'
      BY <1>3, <1>8
    <2>5. trusted' \in BOOLEAN
      BY DEF DeleteBytes, TypeOK
    <2> QED
      BY <1>3, <1>5, <1>6, <1>7, <1>8, <2>1, <2>2, <2>3, <2>4, <2>5 DEF TypeOK
  <1>10. RingOK'
    BY <1>3, <1>6, <1>8 DEF RingOK
  <1> QED
    BY <1>9, <1>10

LEMMA RefusedStep ==
  ASSUME UndoSound, Refused
  PROVE  UndoSound'
  <1> USE DEF UndoSound
  <1>1. /\ ins' = <<>> /\ del' = 0 /\ seg = 0 /\ ~nl /\ Working
        /\ UNCHANGED <<text, pos, modified, enabled, undo, unch, pc, nl, seg,
                       error, disk, was, cmds>>
    BY DEF Refused
  <1>2. pc # "loop" /\ <<>> \in Text
    BY <1>1 DEF TypeOK, Text
  <1>3. TypeOK'
    <2>1. trusted' \in BOOLEAN
      BY DEF Refused, TypeOK
    <2> QED
      BY <1>1, <1>2, <2>1 DEF TypeOK
  <1>4. RingOK'
    BY <1>1, <1>2 DEF RingOK
  <1> QED
    BY <1>3, <1>4

(* Between commands no work is left.                                       *)
LEMMA ReadyState ==
  ASSUME TypeOK, Ready
  PROVE  pc = "idle" /\ ins = <<>> /\ nl = FALSE /\ del = 0 /\ seg = 0
  <1>1. pc = "idle" /\ ins = <<>> /\ del = 0 /\ seg = 0
    BY DEF Ready, Working, TypeOK
  <1>2. ASSUME nl PROVE FALSE
    <2>1. Len(Run(ins)) < Len(ins) /\ Len(ins) = 0 /\ Len(Run(ins)) \in Nat
      BY <1>1, <1>2, RunType DEF TypeOK
    <2> QED
      BY <2>1
  <1> QED
    BY <1>1, <1>2 DEF TypeOK

(* A command that leaves text, cursor and loops alone keeps the invariant  *)
(* if the ring it writes is sound.                                         *)
LEMMA ControlStep ==
  ASSUME UndoSound, Ready, undo' \in Undo_Type, RingSound(undo'),
         was' \in [Slots -> Text], cmds' \in Nat, disk' \in Text, trusted' \in BOOLEAN,
         modified' \in BOOLEAN, enabled' \in BOOLEAN,
         UNCHANGED <<text, pos, unch, pc, ins, nl, del, seg, error>>
  PROVE  UndoSound'
  <1>1. pc = "idle" /\ ins = <<>> /\ nl = FALSE /\ del = 0 /\ seg = 0
    BY ReadyState DEF UndoSound
  <1>2. TypeOK'
    BY <1>1 DEF UndoSound, TypeOK
  <1>3. RingOK'
    BY <1>1 DEF RingOK
  <1> QED
    BY <1>2, <1>3 DEF UndoSound

LEMMA EditStep ==
  ASSUME UndoSound, Edit
  PROVE  UndoSound'
  <1> USE DEF UndoSound
  <1>0. /\ Ready /\ pc = "idle" /\ ins = <<>> /\ nl = FALSE /\ del = 0 /\ seg = 0
        /\ cmds \in Nat /\ Len(text) \in Nat /\ undo \in Undo_Type /\ RingSound(undo)
    <2>1. Ready
      BY DEF Edit, Move, Insert, Delete, EraseBuffer, UndoRecordPosition, Command
    <2>2. pc = "idle" /\ ins = <<>> /\ nl = FALSE /\ del = 0 /\ seg = 0
      BY <2>1, ReadyState
    <2>3. cmds \in Nat /\ Len(text) \in Nat /\ undo \in Undo_Type /\ RingSound(undo)
      BY DEF TypeOK, RingOK, Text
    <2> QED
      BY <2>1, <2>2, <2>3
  <1>1. CASE Move
    <2>1. pos' \in 0..Len(text') /\ pos' + seg' <= Len(text')
      BY <1>0, <1>1 DEF Move
    <2>2. UNCHANGED <<text, modified, enabled, undo, unch, pc, ins, nl, del, seg,
                      error, disk, was, cmds>>
      BY <1>1 DEF Move
    <2>3. TypeOK'
      <3>1. (pc = "loop" => ~Working)' /\ nl' = FALSE
        BY <1>0, <2>2
      <3>2. trusted' \in BOOLEAN
        BY <1>1 DEF Move, TypeOK
      <3> QED
        BY <1>0, <2>1, <2>2, <3>1, <3>2 DEF TypeOK
    <2>4. RingOK'
      BY <1>0, <2>2 DEF RingOK
    <2> QED
      BY <2>3, <2>4
  <1>2. CASE Insert
    <2>1. ins' \in Text /\ cmds' \in Nat
      BY <1>0, <1>2, TextAssumption DEF Insert, Counted
    <2>2. TypeOK'
      BY <1>0, <1>2, <2>1 DEF Insert, TypeOK
    <2>3. RingOK'
      BY <1>0, <1>2 DEF Insert, RingOK
    <2> QED
      BY <2>2, <2>3
  <1>3. CASE Delete
    <2>1. del' \in Nat /\ cmds' \in Nat
      BY <1>0, <1>3, TextAssumption DEF Delete, Counted
    <2>2. TypeOK'
      BY <1>0, <1>3, <2>1 DEF Delete, TypeOK
    <2>3. RingOK'
      BY <1>0, <1>3 DEF Delete, RingOK
    <2> QED
      BY <2>2, <2>3
  <1>4. CASE EraseBuffer
    <2>1. /\ undo' = NoUndo /\ NoUndo \in Undo_Type /\ RingSound(NoUndo)
      BY <1>4, NoUndoType, NoUndoSound DEF EraseBuffer
    <2>2. /\ <<>> \in Text /\ text' = <<>> /\ Len(text') = 0 /\ pos' = 0
          /\ was' \in [Slots -> Text] /\ cmds' \in Nat
      BY <1>0, <1>4 DEF EraseBuffer, Counted, Text
    <2>3. (modified' \in BOOLEAN) /\ (unch' \in BOOLEAN) /\ (trusted' \in BOOLEAN)
      BY <1>4 DEF EraseBuffer, TypeOK
    <2>4. UNCHANGED <<enabled, pc, ins, nl, del, seg, error, disk>>
      BY <1>4 DEF EraseBuffer
    <2>5. pos' \in 0..Len(text') /\ pos' + seg' <= Len(text')
      BY <1>0, <2>2, <2>4
    <2>6. TypeOK'
      BY <1>0, <2>1, <2>2, <2>3, <2>4, <2>5 DEF TypeOK
    <2>7. RingOK'
      BY <1>0, <2>1, <2>4 DEF RingOK
    <2> QED
      BY <2>6, <2>7
  <1>5. CASE UndoRecordPosition
    <2>1. undo' \in Undo_Type /\ RingSound(undo')
      BY <1>0, <1>5, RecordObjectSound DEF UndoRecordPosition, Kinds, TypeOK
    <2>2. was' \in [Slots -> Text] /\ cmds' \in Nat
      BY <1>0, <1>5, <2>1, SnapshotType DEF UndoRecordPosition, Counted, TypeOK
    <2> QED
      BY <1>0, <1>5, <2>1, <2>2, ControlStep DEF UndoRecordPosition, TypeOK
  <1> QED
    BY <1>1, <1>2, <1>3, <1>4, <1>5 DEF Edit

LEMMA ControlSteps ==
  ASSUME UndoSound, Control
  PROVE  UndoSound'
  <1>0. /\ TypeOK /\ undo \in Undo_Type /\ RingSound(undo)
        /\ cmds \in Nat /\ was \in [Slots -> Text] /\ text \in Text /\ disk \in Text
        /\ modified \in BOOLEAN /\ enabled \in BOOLEAN /\ trusted \in BOOLEAN
        /\ undo.ring \in [Slots -> UndoObject] /\ undo.last \in Slots
    BY DEF UndoSound, RingOK, TypeOK, Undo_Type
  <1>1. CASE MarkUndoBoundary
    <2> DEFINE r == [undo.ring[undo.last] EXCEPT !.bd = TRUE]
    <2>1. undo' = [undo EXCEPT !.ring[undo.last].bd = TRUE] /\ Ready
      BY <1>1 DEF MarkUndoBoundary
    <2>2. undo' = Put(undo, r)
      BY <1>0, <2>1 DEF Put, Undo_Type
    <2>3. r \in UndoObject /\ r.kind = undo.ring[undo.last].kind
          /\ r.buf = undo.ring[undo.last].buf /\ r.misc = undo.ring[undo.last].misc
      BY <1>0 DEF UndoObject
    <2>4. r.kind = "CDELETE" => Len(r.buf) = r.misc
      BY <1>0, <2>3 DEF RingSound
    <2> HIDE DEF r
    <2>5. undo' \in Undo_Type /\ RingSound(undo')
      BY <1>0, <2>2, <2>3, <2>4, PutType, PutSound
    <2> QED
      BY <1>0, <1>1, <2>1, <2>5, ControlStep DEF MarkUndoBoundary
  <1>2. CASE Quit
    <2>1. undo' \in Undo_Type /\ RingSound(undo')
      BY <1>0, <1>2, SetCurrentType, SetCurrentSound DEF Quit
    <2> QED
      BY <1>0, <1>2, <2>1, ControlStep DEF Quit, Command
  <1>3. CASE Save
    <2> DEFINE u == [undo EXCEPT !.ring = [i \in Slots |-> [@[i] EXCEPT !.unch = FALSE]]]
    <2>1. Ready /\ undo' = IF ~enabled THEN undo ELSE [u EXCEPT !.current = undo.last]
      BY <1>0, <1>3 DEF Save, Command, Undo_Type
    <2>2. /\ u.first = undo.first /\ u.last = undo.last /\ u.current = undo.current
          /\ \A i \in Slots : u.ring[i] = [undo.ring[i] EXCEPT !.unch = FALSE]
      BY <1>0 DEF Undo_Type
    <2>3. ASSUME NEW i \in Slots
          PROVE  /\ u.ring[i] \in UndoObject
                 /\ u.ring[i].kind = undo.ring[i].kind
                 /\ u.ring[i].buf = undo.ring[i].buf
                 /\ u.ring[i].misc = undo.ring[i].misc
      <3>1. undo.ring[i] \in UndoObject
        BY <1>0
      <3>2. u.ring[i] = [undo.ring[i] EXCEPT !.unch = FALSE]
        BY <2>2
      <3> HIDE DEF u
      <3> QED
        BY <3>1, <3>2 DEF UndoObject
    <2>4. u \in Undo_Type
      BY <1>0, <2>3 DEF Undo_Type
    <2> HIDE DEF u
    <2>5. RingSound(u)
      BY <1>0, <2>2, <2>3 DEF RingSound, InWindow
    <2>6. SetCurrent(u) = [u EXCEPT !.current = undo.last]
      BY <1>3, <2>2 DEF SetCurrent, InProgress, Save, Command, Ready
    <2>7. undo' \in Undo_Type /\ RingSound(undo')
      BY <1>0, <2>1, <2>4, <2>5, <2>6, SetCurrentType, SetCurrentSound
    <2> QED
      BY <1>0, <1>3, <2>1, <2>7, ControlStep DEF Save
  <1>4. CASE ToggleUndo
    <2>1. cmds' \in Nat /\ enabled' \in BOOLEAN /\ Ready
      BY <1>0, <1>4 DEF ToggleUndo, Counted, Command
    <2> QED
      BY <1>0, <1>4, <2>1, ControlStep DEF ToggleUndo
  <1> QED
    BY <1>1, <1>2, <1>3, <1>4 DEF Control

LEMMA UndoBeginStep ==
  ASSUME UndoSound, UndoBegin
  PROVE  UndoSound'
  <1>1. pc = "idle" /\ ins = <<>> /\ nl = FALSE /\ del = 0 /\ seg = 0 /\ MoreUndoInfo
    BY ReadyState DEF UndoSound, UndoBegin, Command
  <1>2. /\ pc' = "loop" /\ error' = "none" /\ cmds' = cmds + 1
        /\ UNCHANGED <<text, pos, modified, enabled, undo, unch, ins, nl, del, seg,
                       disk, was>>
    BY DEF UndoBegin, Counted
  <1>3. cmds' \in Nat
    BY <1>2 DEF UndoSound, TypeOK
  <1>4. (~Working)'
    BY <1>1, <1>2 DEF Working
  <1>8. trusted' \in BOOLEAN
    BY DEF UndoSound, UndoBegin, TypeOK
  <1>5. TypeOK'
    BY <1>1, <1>2, <1>3, <1>4, <1>8 DEF UndoSound, TypeOK
  <1>6. MoreUndoInfo'
    BY <1>1, <1>2 DEF MoreUndoInfo
  <1>7. RingOK'
    BY <1>2, <1>6 DEF UndoSound, RingOK
  <1> QED
    BY <1>5, <1>7 DEF UndoSound

LEMMA UndoObjectAtStep ==
  ASSUME UndoSound, UndoObjectAt
  PROVE  UndoSound'
  <1> DEFINE r == undo.ring[undo.current]
             p == LineStart(text, r.line) + r.point
  <1>1. /\ pc = "loop" /\ ins = <<>> /\ del = 0 /\ seg = 0 /\ nl = FALSE
        /\ UNCHANGED <<text, modified, enabled, undo, unch, nl, seg, disk, was, cmds>>
    <2>1. pc = "loop" /\ ins = <<>> /\ del = 0
      BY DEF UndoObjectAt, UndoSound, TypeOK, Working
    <2>2. seg = 0
      BY <2>1 DEF UndoSound, TypeOK
    <2>3. ASSUME nl PROVE FALSE
      <3>1. Len(Run(ins)) < Len(ins) /\ Len(ins) = 0 /\ Len(Run(ins)) \in Nat
        BY <2>1, <2>3, RunType DEF UndoSound, TypeOK
      <3> QED
        BY <3>1
    <2> QED
      BY <2>1, <2>2, <2>3 DEF UndoObjectAt, UndoSound, TypeOK
  <1>2. r \in UndoObject
    <2>1. undo.current \in Slots
      BY <1>1 DEF UndoSound, TypeOK, RingOK, MoreUndoInfo, Undo_Type
    <2> QED
      BY <2>1 DEF UndoSound, TypeOK, Undo_Type
  <1>3. /\ r.line \in Nat /\ r.point \in Nat /\ r.misc \in Nat /\ r.buf \in Text
        /\ r.kind \in Kinds
    BY <1>2 DEF UndoObject, Buffer
  <1>4. text \in Text /\ Len(text) \in Nat /\ pos \in 0..Len(text)
    BY DEF UndoSound, TypeOK, Text
  <1>5. /\ LineStart(text, r.line) \in Nat /\ LineLen(text, r.line) \in Nat
        /\ LineStart(text, r.line) + LineLen(text, r.line) <= Len(text)
    BY <1>3, <1>4, LineFits
  <1>6. /\ pos' \in 0..Len(text) /\ ins' \in Text /\ del' \in Nat
        /\ ins' = <<>> \/ del' = 0
        /\ pc' \in {"idle", "apply"} /\ error' \in {"none", "outside", "internal"}
    <2>1. CASE Outside(r)
      BY <1>1, <1>4, <2>1 DEF UndoObjectAt, UndoStops, UndoSound, TypeOK
    <2>2. CASE ~Outside(r) /\ r.point > LineLen(text, r.line)
      <3>1. /\ pos' = LineStart(text, r.line) /\ UNCHANGED <<ins, del>>
            /\ pc' = "idle" /\ error' = "internal"
        BY <2>2 DEF UndoObjectAt, UndoStops
      <3>2. pos' \in 0..Len(text)
        BY <1>4, <1>5, <3>1
      <3> QED
        BY <1>1, <3>1, <3>2 DEF UndoSound, TypeOK
    <2>3. CASE ~Outside(r) /\ ~(r.point > LineLen(text, r.line))
      <3>1. /\ pc' = "apply" /\ error' = error /\ pos' = p
            /\ ins' = IF r.kind = "CDELETE" THEN r.buf ELSE <<>>
            /\ del' = CASE r.kind = "CINSERT" ->
                             IF r.misc < ToEol(text, p) THEN r.misc ELSE ToEol(text, p)
                        [] r.kind = "NLINSERT" -> IF p = Len(text) THEN 0 ELSE 1
                        [] OTHER -> 0
        BY <2>3 DEF UndoObjectAt
      <3>2. p \in 0..Len(text)
        BY <1>3, <1>4, <1>5, <2>3
      <3>3. ToEol(text, p) \in Nat
        BY <1>4, <3>2, PlaceType
      <3>4. <<>> \in Text
        BY DEF Text
      <3> HIDE DEF p, r
      <3>5. error' \in {"none", "outside", "internal"}
        BY <3>1 DEF UndoSound, TypeOK
      <3>6. CASE r.kind = "CDELETE"
        BY <1>3, <3>1, <3>2, <3>5, <3>6
      <3>7. CASE r.kind # "CDELETE"
        BY <1>3, <3>1, <3>2, <3>3, <3>4, <3>5, <3>7
      <3> QED
        BY <3>6, <3>7
    <2> QED
      BY <2>1, <2>2, <2>3
  <1>7. TypeOK'
    <2>1. (pc = "loop" => ~Working)'
      BY <1>6
    <2>2. nl' = FALSE /\ seg' = 0
      BY <1>1
    <2>3. trusted' \in BOOLEAN
      BY DEF UndoSound, UndoObjectAt, TypeOK
    <2> QED
      BY <1>1, <1>4, <1>6, <2>1, <2>2, <2>3 DEF UndoSound, TypeOK
  <1>8. RingOK'
    BY <1>1, <1>6 DEF UndoSound, RingOK
  <1> QED
    BY <1>7, <1>8 DEF UndoSound

(* The step back stays inside the window, as it stops at First_Undo.       *)
LEMMA UndoNextStep ==
  ASSUME UndoSound, UndoNext
  PROVE  UndoSound'
  <1> DEFINE r == undo.ring[undo.current]
             prev == Pred(undo.current)
  <1>1. /\ pc = "apply" /\ ~Working
        /\ UNCHANGED <<text, pos, enabled, unch, ins, nl, del, seg, error, disk,
                       was, cmds>>
    BY DEF UndoNext
  <1>2. (~Working)'
    BY <1>1 DEF Working
  <1>3. undo \in Undo_Type /\ RingSound(undo)
    BY DEF UndoSound, TypeOK, RingOK
  <1>4. /\ undo' \in Undo_Type /\ RingSound(undo') /\ modified' \in BOOLEAN
        /\ pc' \in {"idle", "loop"} /\ (pc' = "loop" => MoreUndoInfo')
    <2>1. CASE undo.current = None
      BY <1>3, <2>1 DEF UndoNext, UndoSound, TypeOK
    <2>2. CASE undo.current # None
      <3>1. /\ modified' = (modified /\ ~r.unch)
            /\ undo' = [undo EXCEPT !.current =
                          IF undo.current = undo.first THEN None ELSE prev]
            /\ pc' = IF \/ undo.current = undo.first
                        \/ undo.ring[prev].bd
                        \/ undo.ring[prev].kind = "none"
                     THEN "idle" ELSE "loop"
        BY <2>2 DEF UndoNext
      <3>2. undo.current \in Slots /\ prev \in Slots
        BY <1>3, <2>2, SlotType DEF Undo_Type
      <3>3. modified' \in BOOLEAN
        BY <3>1
      <3>4. undo' \in Undo_Type
        BY <1>3, <3>1, <3>2 DEF Undo_Type
      <3>5. /\ undo'.ring = undo.ring /\ undo'.first = undo.first
            /\ undo'.last = undo.last
            /\ undo'.current = IF undo.current = undo.first THEN None ELSE prev
        BY <1>3, <3>1 DEF Undo_Type
      <3>6. ASSUME undo.current # undo.first PROVE InWindow(undo, prev)
        <4>1. InWindow(undo, undo.current)
          BY <1>3, <2>2 DEF RingSound
        <4>2. undo.first \in Slots /\ undo.last \in Slots
          BY <1>3 DEF Undo_Type
        <4> QED
          BY <3>2, <3>6, <4>1, <4>2, MaxUndosAssumption DEF InWindow, Pred, Slots
      <3> HIDE DEF prev, r
      <3>7. RingSound(undo')
        BY <1>3, <3>5, <3>6 DEF RingSound, InWindow
      <3>8. pc' = "loop" => MoreUndoInfo'
        BY <3>1, <3>2, <3>5, SlotType DEF MoreUndoInfo
      <3> QED
        BY <3>1, <3>3, <3>4, <3>7, <3>8
    <2> QED
      BY <2>1, <2>2
  <1>5. TypeOK'
    <2>1. trusted' \in BOOLEAN
      BY DEF UndoSound, UndoNext, TypeOK
    <2> QED
      BY <1>1, <1>2, <1>4, <2>1 DEF UndoSound, TypeOK
  <1>6. RingOK'
    BY <1>4 DEF RingOK
  <1> QED
    BY <1>5, <1>6 DEF UndoSound
-----------------------------------------------------------------------------
LEMMA RingInductive == UndoSound /\ [Next]_vars => UndoSound'
  <1> SUFFICES ASSUME UndoSound, [Next]_vars PROVE UndoSound'
    OBVIOUS
  <1>1. CASE Work
    BY <1>1, InsertNewlineStep, InsertRunStep, DeleteSegmentStep, DeleteBytesStep,
       RefusedStep DEF Work
  <1>2. CASE Edit
    BY <1>2, EditStep
  <1>3. CASE Control
    BY <1>3, ControlSteps
  <1>4. CASE UndoBegin
    BY <1>4, UndoBeginStep
  <1>5. CASE UndoStep
    BY <1>5, UndoObjectAtStep, UndoNextStep DEF UndoStep
  <1>6. CASE UNCHANGED vars
    <2>1. TypeOK'
      BY <1>6 DEF vars, UndoSound, TypeOK, Working
    <2>2. RingOK'
      BY <1>6 DEF vars, UndoSound, RingOK, MoreUndoInfo
    <2> QED
      BY <2>1, <2>2 DEF UndoSound
  <1> QED
    BY <1>1, <1>2, <1>3, <1>4, <1>5, <1>6 DEF Next

(* Whatever the sizes of the ring and of its objects and whatever the      *)
(* commands, refused changes and toggled recording included, no recorded   *)
(* count, place or byte is outside its type, no deletion reads past the    *)
(* text and no object is overrun.                                          *)
THEOREM UndoTypeCorrect == Spec => []TypeOK
  <1>1. Init => UndoSound
    BY InitRing
  <1>2. UndoSound /\ [Next]_vars => UndoSound'
    BY RingInductive
  <1>3. UndoSound => TypeOK
    BY DEF UndoSound
  <1> QED
    BY <1>1, <1>2, <1>3, PTL DEF Spec

(* In every reachable state the objects between First_Undo and Last_Undo   *)
(* are in use, Current_Undo is NULL or one of them and undo() is never at  *)
(* a NULL or blank object, in a ring of any size; and the above.           *)
THEOREM UndoRingSound == Spec => []UndoSound
  BY InitRing, RingInductive, PTL DEF Spec
-----------------------------------------------------------------------------
(* What the ring says of the text: every object takes the text after its   *)
(* changes back to the text before them, and Current_Undo is at the        *)
(* object that left the text as it is.  From here on a ring has more than  *)
(* one object (MAX_UNDOS is 10000): of a single one Last_Undo does not     *)
(* move on, so that nothing tells a new object from the one before.        *)

(* Reverting r at the place p, which its line and point name, makes u of t.*)
Undoes(r, t, p, u) ==
  /\ r.line = LineOf(t, p) /\ r.point = PointOf(t, p)
  /\ r.kind = "CDELETE" => u = InsertAt(t, p, r.buf)
  /\ r.kind = "CINSERT" => r.misc <= ToEol(t, p) /\ u = RemoveAt(t, p, r.misc)
  /\ r.kind = "NLINSERT" => p < Len(t) /\ t[p + 1] = NL /\ u = RemoveAt(t, p, 1)
  /\ r.kind = "POSITION" => u = t

Inverts(r, t, u) == \E p \in 0..Len(t) : Undoes(r, t, p, u)

(* The text after the object i of the ring u, if w are the texts before    *)
(* the objects and t is the text after the last.                           *)
TextAfter(u, w, t, i) == IF i = u.last THEN t ELSE w[Succ(i)]

(* Every object inverts; a blank one has been given the text as it is.     *)
AllInvert(u, w, t) ==
  /\ \A i \in Slots :
       InWindow(u, i) /\ u.ring[i].kind # "none" =>
         Inverts(u.ring[i], TextAfter(u, w, t, i), w[i])
  /\ u.ring[u.last].kind = "none" => w[u.last] = t /\ u.ring[u.last].buf = <<>>

(* The text when the insertion or deletion that has begun is through.      *)
Goal ==
  IF del > 0 THEN RemoveAt(text, pos, del)
  ELSE IF nl THEN InsertAt(RemoveAt(text, pos, 1), pos, ins)
  ELSE InsertAt(text, pos, ins)

(* Outside undo() and at the head of its loop the text is what the object  *)
(* at Current_Undo left, but for a deletion that is half recorded; while   *)
(* that object is reverted, the work begun leads to the text before it.    *)
Retraced ==
  /\ nl => text[pos + 1] = NL
  /\ pc = "idle" /\ undo.current # None /\ seg = 0 => text = After(undo.current)
  /\ pc = "loop" => text = After(undo.current)
  /\ pc = "apply" /\ undo.current # None =>
       pos + del <= Len(text) /\ was[undo.current] = Goal

Hist == AllInvert(undo, was, text) /\ Retraced

HistInv == UndoSound /\ (trusted => Hist)
-----------------------------------------------------------------------------
(* Where a place is.                                                       *)

LEMMA CountUpTo ==
  ASSUME NEW p \in Nat, NEW n \in Nat, p <= n, NEW S \in SUBSET ((p+1)..n)
  PROVE  IsFiniteSet(S) /\ Cardinality(S) \in Nat /\ Cardinality(S) <= n - p
  <1>1. p + 1 \in Nat /\ p + 1 <= n + 1
    OBVIOUS
  <1>2. Cardinality(S) \in Nat /\ Cardinality(S) <= n - (p + 1) + 1 /\ IsFiniteSet(S)
    BY <1>1, CountBound
  <1> QED
    BY <1>2

LEMMA LinesBetween ==
  ASSUME NEW t \in Text, NEW q \in 0..Len(t), NEW p \in 0..q
  PROVE  /\ LineOf(t, p) \in Nat /\ LineOf(t, q) \in Nat
         /\ LineOf(t, p) <= LineOf(t, q)
         /\ (\E j \in (p+1)..q : t[j] = NL) => LineOf(t, p) < LineOf(t, q)
         /\ (\A j \in (p+1)..q : t[j] # NL) => LineOf(t, p) = LineOf(t, q)
  <1> DEFINE A == {i \in 1..p : t[i] = NL}
             B == {i \in 1..q : t[i] = NL}
  <1>0. Len(t) \in Nat /\ p \in Nat /\ q \in Nat /\ p <= q /\ q <= Len(t)
    BY DEF Text
  <1>1. A \in SUBSET (1..p) /\ B \in SUBSET (1..q) /\ A \subseteq B
    BY <1>0
  <1>2. LineOf(t, p) = 1 + Cardinality(A) /\ LineOf(t, q) = 1 + Cardinality(B)
    BY DEF LineOf
  <1>3. (\E j \in (p+1)..q : t[j] = NL) => A # B
    BY <1>0
  <1>4. (\A j \in (p+1)..q : t[j] # NL) => A = B
    <2> SUFFICES ASSUME \A j \in (p+1)..q : t[j] # NL, NEW i \in B PROVE i \in A
      BY <1>1
    <2>1. i \in 1..q /\ t[i] = NL
      OBVIOUS
    <2>2. i \notin (p+1)..q
      BY <2>1
    <2> QED
      BY <1>0, <2>1, <2>2
  <1> HIDE DEF A, B
  <1>9. 1 \in Nat /\ 1 <= q + 1 /\ 1 <= p + 1
    BY <1>0
  <1>5. IsFiniteSet(B) /\ Cardinality(B) \in Nat
    BY <1>0, <1>1, <1>9, CountBound
  <1>6. /\ IsFiniteSet(A) /\ Cardinality(A) \in Nat /\ Cardinality(A) <= Cardinality(B)
        /\ A # B => Cardinality(A) < Cardinality(B)
    <2>1. IsFiniteSet(A) /\ Cardinality(A) \in Nat
      BY <1>0, <1>1, <1>9, CountBound
    <2>2. Cardinality(A) <= Cardinality(B) /\ (Cardinality(B) = Cardinality(A) => A = B)
      BY <1>1, <1>5, FS_Subset
    <2> QED
      BY <1>5, <2>1, <2>2
  <1> QED
    BY <1>2, <1>3, <1>4, <1>5, <1>6

(* A line number and a point name one place.                               *)
LEMMA Placed ==
  ASSUME NEW t \in Text, NEW p \in 0..Len(t)
  PROVE  LineStart(t, LineOf(t, p)) + PointOf(t, p) = p
  <1> DEFINE l == LineOf(t, p)
             A == {i \in 1..Len(t) : LineOf(t, i - 1) < l}
             B == {i \in 1..p : \A j \in i..p : t[j] # NL}
  <1>0. Len(t) \in Nat /\ p \in Nat /\ p <= Len(t)
    BY DEF Text
  <1>1. ASSUME NEW i \in 1..Len(t)
        PROVE  i \in A <=> i \in 1..p /\ i \notin B
    <2>0. i \in Nat /\ i >= 1 /\ i <= Len(t) /\ i - 1 \in Nat /\ i - 1 + 1 = i
      BY <1>0
    <2>1. CASE i > p
      <3>1. i - 1 \in 0..Len(t) /\ p \in 0..(i - 1)
        BY <1>0, <2>0, <2>1
      <3>2. LineOf(t, p) <= LineOf(t, i - 1) /\ LineOf(t, p) \in Nat /\ LineOf(t, i - 1) \in Nat
        BY <3>1, LinesBetween
      <3> QED
        BY <1>0, <2>0, <2>1, <3>2
    <2>2. CASE i <= p
      <3>1. i - 1 \in 0..p /\ p \in 0..Len(t)
        BY <1>0, <2>0, <2>2
      <3>2. /\ LineOf(t, i - 1) \in Nat /\ l \in Nat
            /\ (\E j \in (i - 1 + 1)..p : t[j] = NL) => LineOf(t, i - 1) < l
            /\ (\A j \in (i - 1 + 1)..p : t[j] # NL) => LineOf(t, i - 1) = l
        BY <3>1, LinesBetween
      <3>3. i \in B <=> \A j \in i..p : t[j] # NL
        BY <2>0, <2>2, <1>0
      <3>4. i \in 1..p
        BY <2>0, <2>2, <1>0
      <3> HIDE DEF B, l
      <3>5. i \in B => ~(LineOf(t, i - 1) < l)
        BY <2>0, <3>2, <3>3
      <3>6. i \notin B => LineOf(t, i - 1) < l
        BY <2>0, <3>2, <3>3
      <3> QED
        BY <3>4, <3>5, <3>6
    <2> QED
      BY <1>0, <2>0, <2>1, <2>2
  <1>2. A \cup B = 1..p /\ A \cap B = {}
    <2>1. A \subseteq 1..Len(t) /\ B \subseteq 1..p /\ 1..p \subseteq 1..Len(t)
      BY <1>0
    <2> HIDE DEF A, B
    <2> QED
      BY <1>1, <2>1
  <1>3. LineStart(t, l) = Cardinality(A) /\ PointOf(t, p) = Cardinality(B)
    BY DEF LineStart, PointOf
  <1> HIDE DEF A, B
  <1>4. A \in SUBSET (1..p) /\ B \in SUBSET (1..p)
    BY <1>2
  <1>5. IsFiniteSet(A) /\ Cardinality(A) \in Nat /\ IsFiniteSet(B) /\ Cardinality(B) \in Nat
    BY <1>0, <1>4, CountBound
  <1>6. Cardinality(A \cup B) = Cardinality(A) + Cardinality(B) - Cardinality(A \cap B)
    BY <1>5, FS_Union
  <1>7. Cardinality(1..p) = p
    <2>1. Cardinality(1..p) = IF 1 > p THEN 0 ELSE p - 1 + 1
      <3>1. 1 \in Int /\ p \in Int
        BY <1>0
      <3> QED
        BY <3>1, FS_Interval
    <2> QED
      BY <1>0, <2>1
  <1>8. Cardinality(A \cap B) = 0
    BY <1>2, FS_EmptySet
  <1>9. Cardinality(A) + Cardinality(B) = p
    <2>1. Cardinality(A \cup B) = p
      BY <1>2, <1>7
    <2> QED
      BY <1>5, <1>6, <1>8, <2>1
  <1> QED
    BY <1>3, <1>9

(* The place is where it is because of the bytes before it.                *)
LEMMA SamePlace ==
  ASSUME NEW t \in Text, NEW u \in Text, NEW p \in Nat, p <= Len(t), p <= Len(u),
         \A i \in 1..p : t[i] = u[i]
  PROVE  LineOf(t, p) = LineOf(u, p) /\ PointOf(t, p) = PointOf(u, p)
  <1>1. {i \in 1..p : t[i] = NL} = {i \in 1..p : u[i] = NL}
    OBVIOUS
  <1>2. {i \in 1..p : \A j \in i..p : t[j] # NL} = {i \in 1..p : \A j \in i..p : u[j] # NL}
    <2>1. ASSUME NEW i \in 1..p, NEW j \in i..p PROVE t[j] = u[j]
      BY <2>1
    <2> QED
      BY <2>1
  <1> QED
    BY <1>1, <1>2 DEF LineOf, PointOf

(* The line of a place is one of the text, and not the last one if a       *)
(* newline follows; the point is within it.                                *)
LEMMA LineOfPlace ==
  ASSUME NEW t \in Text, NEW p \in 0..Len(t)
  PROVE  /\ LineOf(t, p) \in Nat /\ MaxLineNum(t) \in Nat
         /\ LineOf(t, p) <= MaxLineNum(t)
         /\ p < Len(t) /\ t[p + 1] = NL => LineOf(t, p) < MaxLineNum(t)
         /\ PointOf(t, p) <= LineLen(t, LineOf(t, p))
  <1>0. Len(t) \in Nat /\ p \in Nat /\ p <= Len(t) /\ Len(t) \in 0..Len(t) /\ p \in 0..Len(t)
    BY DEF Text
  <1>1. /\ LineOf(t, p) \in Nat /\ LineOf(t, Len(t)) \in Nat
        /\ LineOf(t, p) <= LineOf(t, Len(t))
        /\ (\E j \in (p+1)..Len(t) : t[j] = NL) => LineOf(t, p) < LineOf(t, Len(t))
    BY <1>0, LinesBetween
  <1>2. p < Len(t) => p + 1 \in (p+1)..Len(t)
    BY <1>0
  <1> DEFINE l == LineOf(t, p)
             A == {i \in 1..Len(t) : LineOf(t, i - 1) = l}
             B == {i \in 1..p : \A j \in i..p : t[j] # NL}
  <1>3. B \subseteq A
    <2> SUFFICES ASSUME NEW i \in B PROVE i \in A
      OBVIOUS
    <2>1. i \in 1..Len(t) /\ i - 1 \in 0..p /\ i - 1 + 1 = i /\ \A j \in i..p : t[j] # NL
      BY <1>0
    <2>2. (\A j \in (i - 1 + 1)..p : t[j] # NL) => LineOf(t, i - 1) = l
      BY <1>0, <2>1, LinesBetween
    <2> HIDE DEF l
    <2> QED
      BY <2>1, <2>2
  <1>4. A \in SUBSET (1..Len(t)) /\ B \in SUBSET (1..p)
    OBVIOUS
  <1>5. PointOf(t, p) = Cardinality(B) /\ LineLen(t, l) = Cardinality(A)
    BY DEF PointOf, LineLen
  <1> HIDE DEF A, B
  <1>6. Cardinality(B) <= Cardinality(A)
    <2>0. 1 \in Nat /\ 1 <= Len(t) + 1
      BY <1>0
    <2>1. IsFiniteSet(A)
      BY <1>0, <1>4, <2>0, CountBound
    <2> QED
      BY <1>3, <2>1, FS_Subset
  <1> QED
    BY <1>1, <1>2, <1>5, <1>6 DEF MaxLineNum

(* The bytes up to the end of the line are those without a newline.        *)
LEMMA WithinLine ==
  ASSUME NEW t \in Text, NEW p \in 0..Len(t), NEW n \in Nat
  PROVE  n <= ToEol(t, p) <=> (p + n <= Len(t) /\ \A j \in (p+1)..(p+n) : t[j] # NL)
  <1> DEFINE S == {i \in (p+1)..Len(t) : \A j \in (p+1)..i : t[j] # NL}
  <1>0. Len(t) \in Nat /\ p \in Nat /\ p <= Len(t)
    BY DEF Text
  <1>1. ToEol(t, p) = Cardinality(S) /\ S \in SUBSET ((p+1)..Len(t))
    BY DEF ToEol
  <1>2. ASSUME p + n <= Len(t), \A j \in (p+1)..(p+n) : t[j] # NL
        PROVE  n <= ToEol(t, p)
    <2>1. ASSUME NEW i \in (p+1)..(p+n) PROVE i \in S
      <3>1. i \in (p+1)..Len(t)
        BY <1>0, <1>2
      <3>2. \A j \in (p+1)..i : j \in (p+1)..(p+n)
        BY <1>0
      <3> QED
        BY <1>2, <3>1, <3>2
    <2> HIDE DEF S
    <2>2. IsFiniteSet(S) /\ Cardinality(S) \in Nat
      BY <1>0, <1>1, CountUpTo
    <2>3. Cardinality((p+1)..(p+n)) <= Cardinality(S)
      BY <2>1, <2>2, FS_Subset
    <2>4. Cardinality((p+1)..(p+n)) = IF p + 1 > p + n THEN 0 ELSE p + n - (p + 1) + 1
      <3>1. p + 1 \in Int /\ p + n \in Int
        BY <1>0
      <3> QED
        BY <3>1, FS_Interval
    <2> QED
      BY <1>0, <1>1, <2>2, <2>3, <2>4
  <1>3. ASSUME NEW k \in (p+1)..(p+n), k > Len(t) \/ t[k] = NL
        PROVE  ~(n <= ToEol(t, p))
    <2>1. S \in SUBSET ((p+1)..(k-1))
      BY <1>0, <1>3
    <2>2. p + 1 \in Nat /\ k - 1 \in Nat /\ p + 1 <= k - 1 + 1 /\ k - 1 < p + n
      BY <1>0
    <2> HIDE DEF S
    <2>3. Cardinality(S) \in Nat /\ Cardinality(S) <= k - 1 - (p + 1) + 1
      BY <2>1, <2>2, CountBound
    <2> QED
      BY <1>0, <1>1, <2>2, <2>3
  <1> QED
    BY <1>0, <1>2, <1>3

(* The segment of an insertion: the bytes before the first newline.        *)
LEMMA RunBytes ==
  ASSUME NEW s \in Text
  PROVE  /\ Run(s) \in Text /\ Len(Run(s)) \in Nat /\ Len(Run(s)) <= Len(s)
         /\ \A i \in 1..Len(Run(s)) : Run(s)[i] = s[i] /\ s[i] # NL
         /\ Len(Run(s)) < Len(s) => s[Len(Run(s)) + 1] = NL
  <1> DEFINE n == ToEol(s, 0)
  <1>0. Len(s) \in Nat /\ 0 \in 0..Len(s)
    BY DEF Text
  <1>1. n \in Nat /\ n <= Len(s)
    BY <1>0, PlaceType
  <1>2. Run(s) = [i \in 1..n |-> s[0 + i]]
    BY DEF Run, BytesAt
  <1>3. Run(s) \in Text /\ Len(Run(s)) = n
    BY RunType, <1>0, <1>1, BytesAtType DEF Run
  <1>4. \A j \in (0+1)..(0+n) : s[j] # NL
    BY <1>0, <1>1, WithinLine
  <1>5. ~(n + 1 <= n) /\ n + 1 \in Nat
    BY <1>1
  <1>6. ~(0 + (n + 1) <= Len(s) /\ \A j \in (0+1)..(0 + (n+1)) : s[j] # NL)
    BY <1>0, <1>5, WithinLine
  <1> HIDE DEF n
  <1> QED
    BY <1>0, <1>1, <1>2, <1>3, <1>4, <1>6
-----------------------------------------------------------------------------
(* Texts with bytes put in and taken out, byte by byte.                    *)

(* Texts are equal if their bytes are.                                     *)
LEMMA SameText ==
  ASSUME NEW t \in Text, NEW u \in Text, Len(t) = Len(u),
         \A i \in 1..Len(t) : t[i] = u[i]
  PROVE  t = u
  BY DEF Text

(* u is t with s put in at p, byte by byte.                                *)
IsInsert(u, t, p, s) ==
  /\ u \in Text /\ t \in Text /\ s \in Text
  /\ Len(t) \in Nat /\ Len(s) \in Nat /\ p \in Nat /\ p <= Len(t)
  /\ Len(u) = Len(t) + Len(s)
  /\ \A i \in 1..p : u[i] = t[i]
  /\ \A i \in 1..Len(s) : u[p + i] = s[i]
  /\ \A i \in (p+1)..Len(t) : u[i + Len(s)] = t[i]

(* u is t without n bytes from p on.                                       *)
IsRemove(u, t, p, n) ==
  /\ u \in Text /\ t \in Text
  /\ Len(t) \in Nat /\ p \in Nat /\ n \in Nat /\ p + n <= Len(t)
  /\ Len(u) = Len(t) - n
  /\ \A i \in 1..p : u[i] = t[i]
  /\ \A i \in (p+1)..(Len(t)-n) : u[i] = t[i + n]

LEMMA InsertedBytes ==
  ASSUME NEW t \in Text, NEW s \in Text, NEW p \in 0..Len(t)
  PROVE  IsInsert(InsertAt(t, p, s), t, p, s)
  <1>1. Len(t) \in Nat /\ Len(s) \in Nat /\ p \in Nat /\ p <= Len(t)
    BY DEF Text
  <1>2. InsertAt(t, p, s) \in Text /\ Len(InsertAt(t, p, s)) = Len(t) + Len(s)
    BY InsertAtType
  <1>3. \A i \in 1..p : InsertAt(t, p, s)[i] = t[i]
    BY <1>1 DEF InsertAt
  <1>4. \A i \in 1..Len(s) : InsertAt(t, p, s)[p + i] = s[i]
    <2> SUFFICES ASSUME NEW i \in 1..Len(s) PROVE InsertAt(t, p, s)[p + i] = s[i]
      OBVIOUS
    <2>1. p + i \in 1..(Len(t) + Len(s)) /\ ~(p + i <= p) /\ p + i <= p + Len(s) /\ (p + i) - p = i
      BY <1>1
    <2> QED
      BY <2>1 DEF InsertAt
  <1>5. \A i \in (p+1)..Len(t) : InsertAt(t, p, s)[i + Len(s)] = t[i]
    <2> SUFFICES ASSUME NEW i \in (p+1)..Len(t) PROVE InsertAt(t, p, s)[i + Len(s)] = t[i]
      OBVIOUS
    <2>1. /\ i + Len(s) \in 1..(Len(t) + Len(s)) /\ ~(i + Len(s) <= p)
          /\ ~(i + Len(s) <= p + Len(s)) /\ (i + Len(s)) - Len(s) = i
      BY <1>1
    <2> QED
      BY <2>1 DEF InsertAt
  <1> QED
    BY <1>1, <1>2, <1>3, <1>4, <1>5 DEF IsInsert

LEMMA RemovedBytes ==
  ASSUME NEW t \in Text, NEW p \in Nat, NEW n \in Nat, p + n <= Len(t)
  PROVE  IsRemove(RemoveAt(t, p, n), t, p, n)
  <1>1. Len(t) \in Nat
    BY DEF Text
  <1>2. RemoveAt(t, p, n) \in Text /\ Len(RemoveAt(t, p, n)) = Len(t) - n
    BY RemoveAtType
  <1>3. \A i \in 1..p : RemoveAt(t, p, n)[i] = t[i]
    BY <1>1 DEF RemoveAt
  <1>4. \A i \in (p+1)..(Len(t)-n) : RemoveAt(t, p, n)[i] = t[i + n]
    BY <1>1 DEF RemoveAt
  <1> QED
    BY <1>1, <1>2, <1>3, <1>4 DEF IsRemove

(* There is one such text each.                                            *)
LEMMA OneInsert ==
  ASSUME NEW u, NEW w, NEW t, NEW p, NEW s, IsInsert(u, t, p, s), IsInsert(w, t, p, s)
  PROVE  u = w
  <1>1. Len(u) = Len(w) /\ u \in Text /\ w \in Text
    BY DEF IsInsert
  <1>2. ASSUME NEW i \in 1..Len(u) PROVE u[i] = w[i]
    <2>0. Len(t) \in Nat /\ Len(s) \in Nat /\ p \in Nat /\ p <= Len(t) /\ Len(u) = Len(t) + Len(s)
      BY DEF IsInsert
    <2>1. CASE i <= p
      BY <2>0, <2>1 DEF IsInsert
    <2>2. CASE i > p /\ i <= p + Len(s)
      <3>1. i - p \in 1..Len(s) /\ p + (i - p) = i
        BY <2>0, <2>2
      <3>2. u[p + (i - p)] = s[i - p] /\ w[p + (i - p)] = s[i - p]
        BY <3>1 DEF IsInsert
      <3> QED
        BY <3>1, <3>2
    <2>3. CASE i > p + Len(s)
      <3>1. i - Len(s) \in (p+1)..Len(t) /\ (i - Len(s)) + Len(s) = i
        BY <2>0, <2>3
      <3>2. u[(i - Len(s)) + Len(s)] = t[i - Len(s)] /\ w[(i - Len(s)) + Len(s)] = t[i - Len(s)]
        BY <3>1 DEF IsInsert
      <3> QED
        BY <3>1, <3>2
    <2> QED
      BY <2>0, <2>1, <2>2, <2>3
  <1> QED
    BY <1>1, <1>2, SameText

LEMMA OneRemove ==
  ASSUME NEW u, NEW w, NEW t, NEW p, NEW n, IsRemove(u, t, p, n), IsRemove(w, t, p, n)
  PROVE  u = w
  <1>1. Len(u) = Len(w) /\ u \in Text /\ w \in Text
    BY DEF IsRemove
  <1>2. ASSUME NEW i \in 1..Len(u) PROVE u[i] = w[i]
    BY DEF IsRemove
  <1> QED
    BY <1>1, <1>2, SameText

LEMMA InsertNothing ==
  ASSUME NEW t \in Text, NEW e \in Text, Len(e) = 0, NEW p \in 0..Len(t)
  PROVE  InsertAt(t, p, e) = t
  <1>1. Len(t) \in Nat /\ p \in Nat /\ p <= Len(t)
    BY DEF Text
  <1>2. IsInsert(t, t, p, e)
    BY <1>1 DEF IsInsert
  <1> QED
    BY <1>2, InsertedBytes, OneInsert

LEMMA RemoveNothing ==
  ASSUME NEW t \in Text, NEW p \in 0..Len(t)
  PROVE  RemoveAt(t, p, 0) = t
  <1>1. Len(t) \in Nat /\ p \in Nat /\ p + 0 <= Len(t)
    BY DEF Text
  <1>2. IsRemove(t, t, p, 0)
    BY <1>1 DEF IsRemove
  <1>3. IsRemove(RemoveAt(t, p, 0), t, p, 0)
    BY <1>1, RemovedBytes
  <1> QED
    BY <1>2, <1>3, OneRemove

(* To take out m bytes together with s, which has been put in behind them, *)
(* is to take out the m bytes.                                             *)
LEMMA RemoveInserted ==
  ASSUME NEW t \in Text, NEW s \in Text, NEW p \in Nat, NEW m \in Nat, p + m <= Len(t)
  PROVE  RemoveAt(InsertAt(t, p + m, s), p, m + Len(s)) = RemoveAt(t, p, m)
  <1> DEFINE v == InsertAt(t, p + m, s)
             k == m + Len(s)
             u == RemoveAt(v, p, k)
  <1>0. Len(t) \in Nat /\ Len(s) \in Nat /\ p + m \in 0..Len(t)
    BY DEF Text
  <1>1. IsInsert(v, t, p + m, s)
    BY <1>0, InsertedBytes
  <1> HIDE DEF v
  <1>2. k \in Nat /\ p + k <= Len(v) /\ v \in Text
    BY <1>0, <1>1 DEF IsInsert
  <1>3. IsRemove(u, v, p, k)
    BY <1>2, RemovedBytes
  <1> HIDE DEF u
  <1>4. \A i \in 1..p : u[i] = t[i]
    BY <1>0, <1>1, <1>3 DEF IsInsert, IsRemove
  <1>5. ASSUME NEW i \in (p+1)..(Len(t)-m) PROVE u[i] = t[i + m]
    <2>1. i \in (p+1)..(Len(v)-k)
      BY <1>0, <1>1 DEF IsInsert
    <2>2. u[i] = v[i + k]
      BY <1>3, <2>1 DEF IsRemove
    <2>3. i + m \in ((p+m)+1)..Len(t)
      BY <1>0
    <2>4. v[(i + m) + Len(s)] = t[i + m]
      BY <1>1, <2>3 DEF IsInsert
    <2>5. (i + m) + Len(s) = i + k
      BY <1>0
    <2> QED
      BY <2>2, <2>4, <2>5
  <1>6. u \in Text /\ Len(u) = Len(t) - m
    BY <1>0, <1>1, <1>3 DEF IsInsert, IsRemove
  <1>7. IsRemove(u, t, p, m)
    BY <1>0, <1>4, <1>5, <1>6 DEF IsRemove
  <1> QED
    BY <1>7, RemovedBytes, OneRemove DEF u, v

LEMMA RemoveWhatWasInserted ==
  ASSUME NEW t \in Text, NEW s \in Text, NEW p \in 0..Len(t)
  PROVE  RemoveAt(InsertAt(t, p, s), p, Len(s)) = t
  <1>1. PICK m \in Nat : m = 0
    OBVIOUS
  <1>2. Len(t) \in Nat /\ Len(s) \in Nat /\ p \in Nat /\ p + m = p /\ m + Len(s) = Len(s)
        /\ p + m <= Len(t)
    BY <1>1 DEF Text
  <1>3. RemoveAt(InsertAt(t, p + m, s), p, m + Len(s)) = RemoveAt(t, p, m)
    BY <1>2, RemoveInserted
  <1>4. RemoveAt(t, p, m) = t
    BY <1>1, RemoveNothing
  <1> QED
    BY <1>2, <1>3, <1>4

(* Some bytes and then the rest of them are all of them.                   *)
LEMMA RemoveTwice ==
  ASSUME NEW t \in Text, NEW p \in Nat, NEW m \in Nat, NEW n \in Nat, n <= m, p + m <= Len(t)
  PROVE  RemoveAt(RemoveAt(t, p, n), p, m - n) = RemoveAt(t, p, m)
  <1> DEFINE v == RemoveAt(t, p, n)
             k == m - n
             u == RemoveAt(v, p, k)
  <1>0. Len(t) \in Nat /\ p + n <= Len(t) /\ k \in Nat
    BY DEF Text
  <1>1. IsRemove(v, t, p, n)
    BY <1>0, RemovedBytes
  <1> HIDE DEF v
  <1>2. p + k <= Len(v) /\ v \in Text
    BY <1>0, <1>1 DEF IsRemove
  <1>3. IsRemove(u, v, p, k)
    BY <1>0, <1>2, RemovedBytes
  <1> HIDE DEF u
  <1>4. \A i \in 1..p : u[i] = t[i]
    BY <1>0, <1>1, <1>3 DEF IsRemove
  <1>5. ASSUME NEW i \in (p+1)..(Len(t)-m) PROVE u[i] = t[i + m]
    <2>1. i \in (p+1)..(Len(v)-k)
      BY <1>0, <1>1 DEF IsRemove
    <2>2. u[i] = v[i + k]
      BY <1>3, <2>1 DEF IsRemove
    <2>3. i + k \in (p+1)..(Len(t)-n)
      BY <1>0
    <2>4. v[i + k] = t[(i + k) + n]
      BY <1>1, <2>3 DEF IsRemove
    <2>5. (i + k) + n = i + m
      BY <1>0
    <2> QED
      BY <2>2, <2>4, <2>5
  <1>6. u \in Text /\ Len(u) = Len(t) - m
    BY <1>0, <1>1, <1>3 DEF IsRemove
  <1>7. IsRemove(u, t, p, m)
    BY <1>0, <1>4, <1>5, <1>6 DEF IsRemove
  <1> QED
    BY <1>7, RemovedBytes, OneRemove DEF u, v

(* Bytes that are taken out and put in again behind others are where they  *)
(* would be if only the others had been put in.                            *)
LEMMA InsertRemoved ==
  ASSUME NEW t \in Text, NEW b \in Text, NEW p \in Nat, NEW n \in Nat, p + n <= Len(t)
  PROVE  InsertAt(RemoveAt(t, p, n), p, b \o BytesAt(t, p, n)) = InsertAt(t, p, b)
  <1> DEFINE v == RemoveAt(t, p, n)
             c == BytesAt(t, p, n)
             d == b \o c
             u == InsertAt(v, p, d)
  <1>0. Len(t) \in Nat /\ Len(b) \in Nat /\ p \in 0..Len(t)
    BY DEF Text
  <1>1. IsRemove(v, t, p, n)
    BY <1>0, RemovedBytes
  <1>2. c \in Text /\ Len(c) = n /\ \A i \in 1..n : c[i] = t[p + i]
    BY BytesAtType DEF BytesAt
  <1> HIDE DEF v, c
  <1>3. /\ d \in Text /\ Len(d) = Len(b) + n
        /\ \A i \in 1..Len(b) : d[i] = b[i]
        /\ \A i \in 1..n : d[Len(b) + i] = c[i]
    <2>1. d \in Text /\ Len(d) = Len(b) + Len(c)
      BY <1>2, ConcatType
    <2>2. b \in Seq(Byte) /\ c \in Seq(Byte)
      BY <1>2 DEF Text
    <2> QED
      BY <1>0, <1>2, <2>1, <2>2
  <1> HIDE DEF d
  <1>4. p \in 0..Len(v) /\ v \in Text /\ Len(v) = Len(t) - n
    BY <1>0, <1>1 DEF IsRemove
  <1>5. IsInsert(u, v, p, d)
    BY <1>3, <1>4, InsertedBytes
  <1> HIDE DEF u
  <1>6. \A i \in 1..p : u[i] = t[i]
    BY <1>0, <1>1, <1>5 DEF IsInsert, IsRemove
  <1>7. ASSUME NEW i \in 1..Len(b) PROVE u[p + i] = b[i]
    <2>1. i \in 1..Len(d)
      BY <1>0, <1>3
    <2> QED
      BY <1>3, <1>5, <2>1 DEF IsInsert
  <1>8. ASSUME NEW i \in (p+1)..Len(t) PROVE u[i + Len(b)] = t[i]
    <2>1. CASE i <= p + n
      <3>1. i - p \in 1..n /\ p + (i - p) = i /\ Len(b) + (i - p) \in 1..Len(d)
            /\ p + (Len(b) + (i - p)) = i + Len(b)
        BY <1>0, <1>3, <2>1
      <3>2. u[p + (Len(b) + (i - p))] = d[Len(b) + (i - p)]
        BY <1>5, <3>1 DEF IsInsert
      <3>3. d[Len(b) + (i - p)] = c[i - p] /\ c[i - p] = t[p + (i - p)]
        BY <1>2, <1>3, <3>1
      <3> QED
        BY <3>1, <3>2, <3>3
    <2>2. CASE i > p + n
      <3>1. i - n \in (p+1)..Len(v) /\ (i - n) + Len(d) = i + Len(b) /\ (i - n) + n = i
            /\ i - n \in (p+1)..(Len(t)-n)
        BY <1>0, <1>3, <1>4, <2>2
      <3>2. u[(i - n) + Len(d)] = v[i - n]
        BY <1>5, <3>1 DEF IsInsert
      <3>3. v[i - n] = t[(i - n) + n]
        BY <1>1, <3>1 DEF IsRemove
      <3> QED
        BY <3>1, <3>2, <3>3
    <2> QED
      BY <1>0, <2>1, <2>2
  <1>9. u \in Text /\ Len(u) = Len(t) + Len(b)
    BY <1>0, <1>3, <1>4, <1>5 DEF IsInsert
  <1>10. IsInsert(u, t, p, b)
    BY <1>0, <1>6, <1>7, <1>8, <1>9 DEF IsInsert
  <1> QED
    BY <1>0, <1>10, InsertedBytes, OneInsert DEF u, v, d, c

(* s put in in two parts, its first n bytes and the rest.                  *)
LEMMA InsertTwice ==
  ASSUME NEW t \in Text, NEW s \in Text, NEW x \in Text, NEW p \in 0..Len(t),
         Len(x) <= Len(s), \A i \in 1..Len(x) : x[i] = s[i]
  PROVE  InsertAt(InsertAt(t, p, x), p + Len(x), BytesAt(s, Len(x), Len(s) - Len(x)))
           = InsertAt(t, p, s)
  <1> DEFINE n == Len(x)
             y == BytesAt(s, n, Len(s) - n)
             v == InsertAt(t, p, x)
             u == InsertAt(v, p + n, y)
  <1>0. Len(t) \in Nat /\ Len(s) \in Nat /\ n \in Nat /\ p \in Nat /\ p <= Len(t)
        /\ Len(s) - n \in Nat /\ n + (Len(s) - n) <= Len(s) /\ n <= Len(s)
        /\ \A i \in 1..n : x[i] = s[i]
    BY DEF Text
  <1>1. IsInsert(v, t, p, x) /\ Len(x) = n
    BY InsertedBytes
  <1> HIDE DEF n
  <1>2. y \in Text /\ Len(y) = Len(s) - n /\ \A i \in 1..(Len(s) - n) : y[i] = s[n + i]
    BY <1>0, BytesAtType DEF BytesAt
  <1> HIDE DEF v, y
  <1>3. p + n \in 0..Len(v) /\ v \in Text /\ Len(v) = Len(t) + n
    BY <1>0, <1>1 DEF IsInsert
  <1>4. IsInsert(u, v, p + n, y)
    BY <1>2, <1>3, InsertedBytes
  <1> HIDE DEF u
  <1>5. ASSUME NEW i \in 1..p PROVE u[i] = t[i]
    <2>1. i \in 1..(p + n)
      BY <1>0
    <2> QED
      BY <1>1, <1>4, <2>1 DEF IsInsert
  <1>6. ASSUME NEW i \in 1..Len(s) PROVE u[p + i] = s[i]
    <2>1. CASE i <= n
      <3>1. i \in 1..Len(x) /\ p + i \in 1..(p + n) /\ i \in 1..n
        BY <1>0, <1>1, <2>1
      <3>2. u[p + i] = v[p + i] /\ v[p + i] = x[i] /\ x[i] = s[i]
        BY <1>0, <1>1, <1>4, <3>1 DEF IsInsert
      <3> QED
        BY <3>2
    <2>2. CASE i > n
      <3>1. i - n \in 1..Len(y) /\ i - n \in 1..(Len(s) - n) /\ n + (i - n) = i
            /\ (p + n) + (i - n) = p + i
        BY <1>0, <1>2, <2>2
      <3>2. u[(p + n) + (i - n)] = y[i - n] /\ y[i - n] = s[n + (i - n)]
        BY <1>2, <1>4, <3>1 DEF IsInsert
      <3> QED
        BY <3>1, <3>2
    <2> QED
      BY <1>0, <2>1, <2>2
  <1>7. ASSUME NEW i \in (p+1)..Len(t) PROVE u[i + Len(s)] = t[i]
    <2>1. i + n \in ((p+n)+1)..Len(v) /\ (i + n) + Len(y) = i + Len(s)
      BY <1>0, <1>2, <1>3
    <2>2. u[(i + n) + Len(y)] = v[i + n]
      BY <1>4, <2>1 DEF IsInsert
    <2>3. v[i + n] = t[i]
      BY <1>1 DEF IsInsert
    <2> QED
      BY <2>1, <2>2, <2>3
  <1>8. u \in Text /\ Len(u) = Len(t) + Len(s)
    BY <1>0, <1>2, <1>3, <1>4 DEF IsInsert
  <1>9. IsInsert(u, t, p, s)
    BY <1>0, <1>5, <1>6, <1>7, <1>8 DEF IsInsert
  <1> QED
    BY <1>9, InsertedBytes, OneInsert DEF u, v, y, n

(* s put in with the newline that ends its first segment ahead of that     *)
(* segment, as jed_quick_insert does.                                      *)
LEMMA InsertBeforeNewline ==
  ASSUME NEW t \in Text, NEW s \in Text, NEW x \in Text, NEW p \in 0..Len(t),
         p < Len(t), t[p + 1] = NL,
         Len(x) < Len(s), \A i \in 1..Len(x) : x[i] = s[i], s[Len(x) + 1] = NL
  PROVE  InsertAt(InsertAt(t, p, x), p + (Len(x) + 1),
                  BytesAt(s, Len(x) + 1, Len(s) - (Len(x) + 1)))
           = InsertAt(RemoveAt(t, p, 1), p, s)
  <1> DEFINE n == Len(x)
             m == n + 1
             y == BytesAt(s, m, Len(s) - m)
             v == InsertAt(t, p, x)
             u == InsertAt(v, p + m, y)
             r == RemoveAt(t, p, 1)
  <1>0. Len(t) \in Nat /\ Len(s) \in Nat /\ n \in Nat /\ p \in Nat /\ p < Len(t) /\ p + 1 <= Len(t)
        /\ Len(s) - m \in Nat /\ m \in Nat /\ m + (Len(s) - m) <= Len(s) /\ m = n + 1 /\ n < Len(s)
        /\ (\A i \in 1..n : x[i] = s[i]) /\ s[m] = NL
    BY DEF Text
  <1>1. IsInsert(v, t, p, x) /\ Len(x) = n
    BY InsertedBytes
  <1>10. IsRemove(r, t, p, 1)
    BY <1>0, RemovedBytes
  <1> HIDE DEF n, m, r
  <1>2. y \in Text /\ Len(y) = Len(s) - m /\ \A i \in 1..(Len(s) - m) : y[i] = s[m + i]
    <2>1. y \in Text /\ Len(y) = Len(s) - m
      <3>1. s \in Text /\ m \in Nat /\ Len(s) - m \in Nat /\ m + (Len(s) - m) <= Len(s)
        BY <1>0
      <3> QED
        BY <3>1, BytesAtType
    <2> QED
      BY <2>1 DEF BytesAt
  <1> HIDE DEF v, y
  <1>3. p + m \in 0..Len(v) /\ v \in Text /\ Len(v) = Len(t) + n
    BY <1>0, <1>1 DEF IsInsert
  <1>4. IsInsert(u, v, p + m, y)
    BY <1>2, <1>3, InsertedBytes
  <1>11. Len(r) = Len(t) - 1 /\ r \in Text /\ p <= Len(r) /\ Len(r) \in Nat /\ p \in 0..Len(r)
    BY <1>0, <1>10 DEF IsRemove
  <1> HIDE DEF u
  <1>5. ASSUME NEW i \in 1..p PROVE u[i] = r[i]
    <2>1. i \in 1..(p + m)
      BY <1>0
    <2> QED
      BY <1>1, <1>4, <1>10, <2>1 DEF IsInsert, IsRemove
  <1>6. ASSUME NEW i \in 1..Len(s) PROVE u[p + i] = s[i]
    <2>1. CASE i <= n
      <3>1. i \in 1..Len(x) /\ p + i \in 1..(p + m) /\ i \in 1..n
        BY <1>0, <1>1, <2>1
      <3>2. u[p + i] = v[p + i] /\ v[p + i] = x[i] /\ x[i] = s[i]
        BY <1>0, <1>1, <1>4, <3>1 DEF IsInsert
      <3> QED
        BY <3>2
    <2>2. CASE i = m
      <3>1. p + m \in 1..(p + m) /\ p + 1 \in (p+1)..Len(t) /\ (p + 1) + n = p + m
        BY <1>0
      <3>2. u[p + m] = v[p + m]
        BY <1>4, <3>1 DEF IsInsert
      <3>3. v[(p + 1) + Len(x)] = t[p + 1]
        BY <1>1, <3>1 DEF IsInsert
      <3> QED
        BY <1>0, <1>1, <2>2, <3>1, <3>2, <3>3
    <2>3. CASE i > m
      <3>1. i - m \in 1..Len(y) /\ i - m \in 1..(Len(s) - m) /\ m + (i - m) = i
            /\ (p + m) + (i - m) = p + i
        BY <1>0, <1>2, <2>3
      <3>2. u[(p + m) + (i - m)] = y[i - m] /\ y[i - m] = s[m + (i - m)]
        BY <1>2, <1>4, <3>1 DEF IsInsert
      <3> QED
        BY <3>1, <3>2
    <2> QED
      BY <1>0, <2>1, <2>2, <2>3
  <1>7. ASSUME NEW i \in (p+1)..Len(r) PROVE u[i + Len(s)] = r[i]
    <2>1. i + m \in ((p+m)+1)..Len(v) /\ (i + m) + Len(y) = i + Len(s)
          /\ (i + 1) + n = i + m /\ i + 1 \in (p+1)..Len(t) /\ i \in (p+1)..(Len(t)-1)
      BY <1>0, <1>2, <1>3, <1>11
    <2>2. u[(i + m) + Len(y)] = v[i + m]
      BY <1>4, <2>1 DEF IsInsert
    <2>3. v[(i + 1) + Len(x)] = t[i + 1]
      BY <1>1, <2>1 DEF IsInsert
    <2>4. r[i] = t[i + 1]
      BY <1>10, <2>1 DEF IsRemove
    <2> QED
      BY <1>1, <2>1, <2>2, <2>3, <2>4
  <1>8. u \in Text /\ Len(u) = Len(r) + Len(s)
    BY <1>0, <1>2, <1>3, <1>4, <1>11 DEF IsInsert
  <1>9. IsInsert(u, r, p, s)
    BY <1>0, <1>5, <1>6, <1>7, <1>8, <1>11 DEF IsInsert
  <1>12. IsInsert(InsertAt(r, p, s), r, p, s)
    BY <1>11, InsertedBytes
  <1> QED
    BY <1>9, <1>12, OneInsert DEF u, v, y, n, m, r
-----------------------------------------------------------------------------
(* Objects and the texts they take back.                                   *)

LEMMA PlaceInInserted ==
  ASSUME NEW t \in Text, NEW s \in Text, NEW p \in 0..Len(t), NEW q \in 0..p
  PROVE  /\ InsertAt(t, p, s) \in Text
         /\ q \in 0..Len(InsertAt(t, p, s))
         /\ LineOf(InsertAt(t, p, s), q) = LineOf(t, q)
         /\ PointOf(InsertAt(t, p, s), q) = PointOf(t, q)
  <1> DEFINE u == InsertAt(t, p, s)
  <1>1. IsInsert(u, t, p, s)
    BY InsertedBytes
  <1> HIDE DEF u
  <1>2. q \in Nat /\ q <= Len(t) /\ q <= Len(u) /\ u \in Text /\ \A i \in 1..q : u[i] = t[i]
    BY <1>1 DEF IsInsert
  <1>3. LineOf(u, q) = LineOf(t, q) /\ PointOf(u, q) = PointOf(t, q)
    BY <1>2, SamePlace
  <1> QED
    BY <1>2, <1>3 DEF u

LEMMA PlaceInRemoved ==
  ASSUME NEW t \in Text, NEW p \in Nat, NEW n \in Nat, p + n <= Len(t)
  PROVE  /\ RemoveAt(t, p, n) \in Text
         /\ p \in 0..Len(RemoveAt(t, p, n)) /\ p \in 0..Len(t)
         /\ LineOf(RemoveAt(t, p, n), p) = LineOf(t, p)
         /\ PointOf(RemoveAt(t, p, n), p) = PointOf(t, p)
  <1> DEFINE u == RemoveAt(t, p, n)
  <1>1. IsRemove(u, t, p, n)
    BY RemovedBytes
  <1> HIDE DEF u
  <1>2. p <= Len(t) /\ p <= Len(u) /\ u \in Text /\ (\A i \in 1..p : u[i] = t[i])
        /\ p \in 0..Len(u) /\ p \in 0..Len(t)
    BY <1>1 DEF IsRemove
  <1>3. LineOf(u, p) = LineOf(t, p) /\ PointOf(u, p) = PointOf(t, p)
    BY <1>2, SamePlace
  <1> QED
    BY <1>2, <1>3 DEF u

LEMMA PositionInverts ==
  ASSUME NEW t \in Text, NEW p \in 0..Len(t), NEW r,
         r.kind = "POSITION", r.line = LineOf(t, p), r.point = PointOf(t, p)
  PROVE  Inverts(r, t, t)
  BY DEF Inverts, Undoes

LEMMA NewlineInverts ==
  ASSUME NEW t \in Text, NEW p \in 0..Len(t), NEW r,
         r.kind = "NLINSERT", r.line = LineOf(t, p), r.point = PointOf(t, p)
  PROVE  Inverts(r, InsertAt(t, p, <<NL>>), t)
  <1> DEFINE s == <<NL>>
             u == InsertAt(t, p, s)
  <1>0. s \in Text /\ Len(s) = 1 /\ s[1] = NL /\ Len(t) \in Nat /\ p \in Nat /\ p <= Len(t)
    BY DEF Text, Byte
  <1> HIDE DEF s
  <1>1. IsInsert(u, t, p, s)
    BY <1>0, InsertedBytes
  <1>2. u \in Text /\ p \in 0..Len(u) /\ LineOf(u, p) = LineOf(t, p) /\ PointOf(u, p) = PointOf(t, p)
    BY <1>0, PlaceInInserted
  <1>3. RemoveAt(u, p, 1) = t
    <2>1. RemoveAt(u, p, Len(s)) = t
      BY <1>0, RemoveWhatWasInserted
    <2> QED
      BY <1>0, <2>1
  <1> HIDE DEF u
  <1>4. p < Len(u) /\ u[p + 1] = NL
    <2>1. 1 \in 1..Len(s)
      BY <1>0
    <2>2. u[p + 1] = s[1] /\ Len(u) = Len(t) + 1
      BY <1>0, <1>1, <2>1 DEF IsInsert
    <2> QED
      BY <1>0, <2>2
  <1>5. Undoes(r, u, p, t)
    BY <1>2, <1>3, <1>4 DEF Undoes
  <1> QED
    BY <1>2, <1>5 DEF Inverts, u, s

LEMMA InsertionJoins ==
  ASSUME NEW t \in Text, NEW u, NEW p \in 0..Len(t), NEW m \in Nat, p + m <= Len(t),
         m <= ToEol(t, p), u = RemoveAt(t, p, m),
         NEW s \in Text, \A i \in 1..Len(s) : s[i] # NL,
         NEW r, r.kind = "CINSERT", r.line = LineOf(t, p), r.point = PointOf(t, p),
         r.misc = m + Len(s)
  PROVE  Inverts(r, InsertAt(t, p + m, s), u)
  <1> DEFINE v == InsertAt(t, p + m, s)
             k == m + Len(s)
  <1>0. Len(t) \in Nat /\ p \in Nat /\ p + m \in 0..Len(t) /\ p \in 0..(p + m)
        /\ Len(s) \in Nat /\ k \in Nat
    BY DEF Text
  <1>1. IsInsert(v, t, p + m, s)
    BY <1>0, InsertedBytes
  <1>2. v \in Text /\ p \in 0..Len(v) /\ LineOf(v, p) = LineOf(t, p) /\ PointOf(v, p) = PointOf(t, p)
    BY <1>0, PlaceInInserted
  <1>3. RemoveAt(v, p, k) = u
    BY <1>0, RemoveInserted
  <1> HIDE DEF v
  <1>4. \A j \in (p+1)..(p+m) : t[j] # NL
    BY WithinLine
  <1>5. ASSUME NEW j \in (p+1)..(p+k) PROVE v[j] # NL
    <2>1. CASE j <= p + m
      <3>1. j \in 1..(p+m) /\ j \in (p+1)..(p+m)
        BY <1>0, <2>1
      <3>2. v[j] = t[j]
        BY <1>1, <3>1 DEF IsInsert
      <3> QED
        BY <1>4, <3>1, <3>2
    <2>2. CASE j > p + m
      <3>1. j - (p + m) \in 1..Len(s) /\ (p + m) + (j - (p + m)) = j
        BY <1>0, <2>2
      <3>2. v[(p + m) + (j - (p + m))] = s[j - (p + m)]
        BY <1>1, <3>1 DEF IsInsert
      <3> QED
        BY <3>1, <3>2
    <2> QED
      BY <1>0, <2>1, <2>2
  <1>6. p + k <= Len(v)
    BY <1>0, <1>1 DEF IsInsert
  <1>7. k <= ToEol(v, p)
    BY <1>0, <1>2, <1>5, <1>6, WithinLine
  <1>8. Undoes(r, v, p, u)
    BY <1>2, <1>3, <1>7 DEF Undoes
  <1> QED
    BY <1>2, <1>8 DEF Inverts, v

LEMMA InsertionInverts ==
  ASSUME NEW t \in Text, NEW p \in 0..Len(t), NEW s \in Text, \A i \in 1..Len(s) : s[i] # NL,
         NEW r, r.kind = "CINSERT", r.line = LineOf(t, p), r.point = PointOf(t, p),
         r.misc = Len(s)
  PROVE  Inverts(r, InsertAt(t, p, s), t)
  <1>1. p + 0 = p /\ p + 0 <= Len(t) /\ 0 + Len(s) = Len(s) /\ Len(s) \in Nat
    BY DEF Text
  <1>2. t = RemoveAt(t, p, 0)
    BY RemoveNothing
  <1>3. 0 <= ToEol(t, p)
    BY PlaceType
  <1>4. Inverts(r, InsertAt(t, p + 0, s), t)
    BY <1>1, <1>2, <1>3, InsertionJoins
  <1> QED
    BY <1>1, <1>4

LEMMA DeletionJoins ==
  ASSUME NEW t \in Text, NEW u, NEW p \in Nat, NEW n \in Nat, p + n <= Len(t),
         NEW b \in Text, u = InsertAt(t, p, b),
         NEW r, r.kind = "CDELETE", r.line = LineOf(t, p), r.point = PointOf(t, p),
         r.buf = b \o BytesAt(t, p, n)
  PROVE  Inverts(r, RemoveAt(t, p, n), u)
  <1> DEFINE v == RemoveAt(t, p, n)
  <1>1. v \in Text /\ p \in 0..Len(v) /\ LineOf(v, p) = LineOf(t, p) /\ PointOf(v, p) = PointOf(t, p)
    BY PlaceInRemoved
  <1>2. u = InsertAt(v, p, r.buf)
    BY InsertRemoved
  <1> HIDE DEF v
  <1>3. Undoes(r, v, p, u)
    BY <1>1, <1>2 DEF Undoes
  <1> QED
    BY <1>1, <1>3 DEF Inverts, v

(* The place of an object that inverts is the one its line and point name. *)
LEMMA InvertsAt ==
  ASSUME NEW t \in Text, NEW u, NEW r, Inverts(r, t, u)
  PROVE  /\ LineStart(t, r.line) + r.point \in 0..Len(t)
         /\ Undoes(r, t, LineStart(t, r.line) + r.point, u)
  <1>1. PICK p \in 0..Len(t) : Undoes(r, t, p, u)
    BY DEF Inverts
  <1>2. r.line = LineOf(t, p) /\ r.point = PointOf(t, p)
    BY <1>1 DEF Undoes
  <1>3. LineStart(t, r.line) + r.point = p
    BY <1>2, Placed
  <1> QED
    BY <1>1, <1>3

(* What inverts passes the checks at the head of undo's loop, and reverts. *)
LEMMA InvertsInside ==
  ASSUME NEW t \in Text, NEW u, NEW r, Inverts(r, t, u)
  PROVE  /\ r.line <= MaxLineNum(t)
         /\ r.kind = "NLINSERT" => r.line # MaxLineNum(t)
         /\ r.point <= LineLen(t, r.line)
         /\ r.line \in Nat /\ r.point \in Nat /\ MaxLineNum(t) \in Nat
         /\ LineLen(t, r.line) \in Nat
  <1>1. PICK p \in 0..Len(t) : Undoes(r, t, p, u)
    BY DEF Inverts
  <1>2. /\ r.line = LineOf(t, p) /\ r.point = PointOf(t, p)
        /\ r.kind = "NLINSERT" => p < Len(t) /\ t[p + 1] = NL
    BY <1>1 DEF Undoes
  <1>3. /\ LineOf(t, p) \in Nat /\ MaxLineNum(t) \in Nat
        /\ LineOf(t, p) <= MaxLineNum(t)
        /\ p < Len(t) /\ t[p + 1] = NL => LineOf(t, p) < MaxLineNum(t)
        /\ PointOf(t, p) <= LineLen(t, LineOf(t, p))
    BY LineOfPlace
  <1>4. PointOf(t, p) \in Nat /\ LineLen(t, LineOf(t, p)) \in Nat
    BY <1>3, PlaceType, LineFits
  <1> QED
    BY <1>2, <1>3, <1>4

LEMMA InvertsReverts ==
  ASSUME NEW t \in Text, NEW u, NEW r, Inverts(r, t, u), r.kind \in Kinds, r.kind # "none"
  PROVE  Reverts(r, t, u)
  <1> DEFINE p == LineStart(t, r.line) + r.point
  <1>1. Undoes(r, t, p, u)
    BY InvertsAt
  <1>2. r.line <= MaxLineNum(t)
    BY InvertsInside
  <1> HIDE DEF p
  <1>3. LineOf(t, p) = r.line
    BY <1>1 DEF Undoes
  <1>4. CASE r.kind = "CDELETE"
    BY <1>1, <1>2, <1>3, <1>4 DEF Undoes, Reverts, p
  <1>5. CASE r.kind = "CINSERT"
    BY <1>1, <1>2, <1>3, <1>5 DEF Undoes, Reverts, p
  <1>6. CASE r.kind = "NLINSERT"
    BY <1>1, <1>2, <1>3, <1>6 DEF Undoes, Reverts, p
  <1>7. CASE r.kind = "POSITION"
    BY <1>1, <1>2, <1>3, <1>7 DEF Undoes, Reverts, p
  <1> QED
    BY <1>4, <1>5, <1>6, <1>7 DEF Kinds
-----------------------------------------------------------------------------
(* The ring and the texts before its objects.                              *)

(* The ghost after the ring has become v, t being what a new object finds. *)
Snap(w, u, v, t) == IF v.last = u.last THEN w ELSE [w EXCEPT ![v.last] = t]

(* Current_Undo is what it was, or the object it was at is overwritten.    *)
Kept(u, w, v, z) ==
  v.current # None => v.current = u.current /\ z[v.current] = w[v.current]

LEMMA SuccPred ==
  ASSUME MaxUndos > 1
  PROVE  /\ \A i \in Slots : Succ(i) # i
         /\ \A i, j \in Slots : Succ(i) = Succ(j) => i = j
         /\ \A i \in Slots : Succ(Pred(i)) = i
  BY MaxUndosAssumption DEF Slots, Succ, Pred

LEMMA PrepareInverts ==
  ASSUME MaxUndos > 1, NEW u \in Undo_Type, NEW w \in [Slots -> Text], NEW t,
         u.ring[u.last].kind # "none", AllInvert(u, w, t),
         NEW v, v = PrepareNext(u), NEW z, z = Snap(w, u, v, t)
  PROVE  /\ AllInvert(v, z, t) /\ Kept(u, w, v, z)
         /\ v.ring[v.last].kind = "none" /\ v.last # u.last
         /\ z[v.last] = t
  <1>1. /\ u.first \in Nat /\ u.last \in Nat /\ u.first \in Slots /\ u.last \in Slots
        /\ u.current # None => u.current \in Slots
        /\ u.ring \in [Slots -> UndoObject]
    BY MaxUndosAssumption DEF Undo_Type, Slots
  <1>2. /\ v.last = Succ(u.last)
        /\ v.first = IF Succ(u.last) = u.first THEN Succ(u.first) ELSE u.first
        /\ v.current = IF Succ(u.last) = u.current THEN None ELSE u.current
        /\ v.ring = [u.ring EXCEPT ![Succ(u.last)] = Blank]
    BY DEF PrepareNext
  <1>3. v.last \in Slots /\ v.first \in Slots /\ v.last # u.last
    BY <1>1, <1>2, SlotType, SuccPred
  <1>4. \A i \in Slots : InWindow(v, i) /\ i # v.last => InWindow(u, i)
    BY <1>1, <1>2, <1>3, MaxUndosAssumption DEF InWindow, Succ, Slots
  <1>5. \A i \in Slots : i # v.last => v.ring[i] = u.ring[i]
    BY <1>1, <1>2
  <1>6. v.ring[v.last] = Blank
    BY <1>1, <1>2, <1>3
  <1>7. /\ z[v.last] = t
        /\ \A i \in Slots : i # v.last => z[i] = w[i]
    BY <1>3 DEF Snap
  <1>8. Kept(u, w, v, z)
    BY <1>1, <1>2, <1>7 DEF Kept
  <1>9. ASSUME NEW i \in Slots, InWindow(v, i), v.ring[i].kind # "none"
        PROVE  Inverts(v.ring[i], TextAfter(v, z, t, i), z[i])
    <2>1. i # v.last
      BY <1>6, <1>9 DEF Blank
    <2>2. Inverts(u.ring[i], TextAfter(u, w, t, i), w[i])
      BY <1>4, <1>5, <1>9, <2>1 DEF AllInvert
    <2>3. TextAfter(v, z, t, i) = TextAfter(u, w, t, i)
      <3>1. CASE i = u.last
        BY <1>2, <1>7, <2>1, <3>1 DEF TextAfter
      <3>2. CASE i # u.last
        <4>1. Succ(i) \in Slots /\ Succ(i) # v.last
          BY <1>1, <1>2, <3>2, SlotType, SuccPred
        <4> QED
          BY <1>7, <2>1, <3>2, <4>1 DEF TextAfter
      <3> QED
        BY <3>1, <3>2
    <2>4. v.ring[i] = u.ring[i] /\ z[i] = w[i]
      BY <1>5, <1>7, <2>1
    <2> QED
      BY <2>2, <2>3, <2>4
  <1>10. v.ring[v.last].kind = "none" /\ v.ring[v.last].buf = <<>>
    BY <1>6 DEF Blank
  <1> QED
    BY <1>3, <1>7, <1>8, <1>9, <1>10 DEF AllInvert

LEMMA FreshInverts ==
  ASSUME MaxUndos > 1, NEW u \in Undo_Type, NEW w \in [Slots -> Text], NEW t,
         AllInvert(u, w, t), NEW v, v = Fresh(u), NEW z, z = Snap(w, u, v, t)
  PROVE  /\ AllInvert(v, z, t) /\ Kept(u, w, v, z)
         /\ v.ring[v.last].kind = "none" /\ z[v.last] = t
         /\ v.last = u.last => v = u
  <1>1. CASE u.ring[u.last].kind = "none"
    BY <1>1 DEF Fresh, Snap, Kept, AllInvert
  <1>2. CASE u.ring[u.last].kind # "none"
    <2>1. v = PrepareNext(u)
      BY <1>2 DEF Fresh
    <2> QED
      BY <1>2, <2>1, PrepareInverts
  <1> QED
    BY <1>1, <1>2

LEMMA PutInverts ==
  ASSUME NEW u \in Undo_Type, NEW w, NEW t, NEW t2, AllInvert(u, w, t),
         NEW r \in UndoObject, r.kind # "none", Inverts(r, t2, w[u.last])
  PROVE  AllInvert(Put(u, r), w, t2)
  <1> DEFINE v == Put(u, r)
  <1>1. /\ v.last = u.last /\ v.first = u.first
        /\ v.ring = [u.ring EXCEPT ![u.last] = r]
        /\ u.last \in Slots /\ u.ring \in [Slots -> UndoObject]
    BY DEF Put, Undo_Type
  <1> HIDE DEF v
  <1>2. v.ring[v.last] = r
    BY <1>1
  <1>3. ASSUME NEW i \in Slots, InWindow(v, i), v.ring[i].kind # "none"
        PROVE  Inverts(v.ring[i], TextAfter(v, w, t2, i), w[i])
    <2>1. CASE i = u.last
      BY <1>1, <1>2, <2>1 DEF TextAfter
    <2>2. CASE i # u.last
      <3>1. v.ring[i] = u.ring[i] /\ InWindow(u, i)
        BY <1>1, <1>3, <2>2 DEF InWindow
      <3>2. Inverts(u.ring[i], TextAfter(u, w, t, i), w[i])
        BY <1>3, <3>1 DEF AllInvert
      <3>3. TextAfter(u, w, t, i) = TextAfter(v, w, t2, i)
        BY <1>1, <2>2 DEF TextAfter
      <3> QED
        BY <3>1, <3>2, <3>3
    <2> QED
      BY <2>1, <2>2
  <1> QED
    BY <1>2, <1>3 DEF AllInvert, v

(* AllInvert does not look at the flags of the objects nor at Current_Undo.*)
LEMMA SameRingInverts ==
  ASSUME NEW u, NEW v, NEW w, NEW t, AllInvert(u, w, t), u.last \in Slots,
         v.first = u.first, v.last = u.last,
         \A i \in Slots : /\ v.ring[i].kind = u.ring[i].kind
                          /\ v.ring[i].line = u.ring[i].line
                          /\ v.ring[i].point = u.ring[i].point
                          /\ v.ring[i].misc = u.ring[i].misc
                          /\ v.ring[i].buf = u.ring[i].buf
  PROVE  AllInvert(v, w, t)
  <1>1. ASSUME NEW i \in Slots, InWindow(v, i), v.ring[i].kind # "none"
        PROVE  Inverts(v.ring[i], TextAfter(v, w, t, i), w[i])
    <2>1. Inverts(u.ring[i], TextAfter(u, w, t, i), w[i])
      BY <1>1 DEF AllInvert, InWindow
    <2>2. TextAfter(v, w, t, i) = TextAfter(u, w, t, i)
      BY DEF TextAfter
    <2> DEFINE x == TextAfter(u, w, t, i)
    <2> HIDE DEF x
    <2>3. \A p : Undoes(u.ring[i], x, p, w[i]) => Undoes(v.ring[i], x, p, w[i])
      BY DEF Undoes
    <2>4. Inverts(u.ring[i], x, w[i]) => Inverts(v.ring[i], x, w[i])
      BY <2>3 DEF Inverts
    <2> QED
      BY <2>1, <2>2, <2>4 DEF x
  <1>2. v.ring[v.last].kind = "none" => w[v.last] = t /\ v.ring[v.last].buf = <<>>
    BY DEF AllInvert
  <1> QED
    BY <1>1, <1>2 DEF AllInvert

LEMMA SetCurrentInverts ==
  ASSUME NEW u \in Undo_Type, NEW w, NEW t, AllInvert(u, w, t)
  PROVE  /\ AllInvert(SetCurrent(u), w, t)
         /\ SetCurrent(u).last = u.last /\ SetCurrent(u).ring = u.ring
         /\ SetCurrent(u).current = IF InProgress THEN u.current ELSE u.last
  <1>1. /\ SetCurrent(u).last = u.last /\ SetCurrent(u).ring = u.ring
        /\ SetCurrent(u).first = u.first /\ u.last \in Slots
        /\ SetCurrent(u).current = IF InProgress THEN u.current ELSE u.last
    BY DEF SetCurrent, Undo_Type
  <1> QED
    BY <1>1, SameRingInverts

(* What a recorder does to Current_Undo.                                   *)
Follows == IF InProgress THEN Kept(undo, was, undo', was')
                         ELSE undo'.current = undo'.last

(* A new object is recorded, which takes the text t back to what it is.    *)
LEMMA RecordObjectInverts ==
  ASSUME MaxUndos > 1, TypeOK, AllInvert(undo, was, text), NEW t,
         NEW r \in UndoObject, r.kind # "none", Inverts(r, t, text),
         undo' = SetCurrent(Put(Fresh(undo), r)), Snapshot(text)
  PROVE  AllInvert(undo', was', t) /\ Follows
  <1> DEFINE v == Fresh(undo)
             z == Snap(was, undo, v, text)
             x == Put(v, r)
  <1>1. undo \in Undo_Type /\ was \in [Slots -> Text] /\ v \in Undo_Type
    BY FreshType DEF TypeOK
  <1>2. /\ AllInvert(v, z, text) /\ Kept(undo, was, v, z)
        /\ v.ring[v.last].kind = "none" /\ z[v.last] = text
    BY <1>1, FreshInverts
  <1> HIDE DEF v
  <1>3. x.last = v.last /\ x.current = v.current /\ x \in Undo_Type
    BY <1>1, PutType DEF Put, Undo_Type
  <1>4. AllInvert(x, z, t)
    BY <1>1, <1>2, PutInverts
  <1> HIDE DEF x
  <1>5. /\ AllInvert(undo', z, t) /\ undo'.last = v.last
        /\ undo'.current = IF InProgress THEN v.current ELSE v.last
    BY <1>3, <1>4, SetCurrentInverts DEF x, v
  <1>6. was' = z
    BY <1>5 DEF Snapshot, Snap
  <1> HIDE DEF z
  <1> QED
    BY <1>2, <1>5, <1>6 DEF Follows, Kept

LEMMA RecordInsertionInverts ==
  ASSUME MaxUndos > 1, TypeOK, AllInvert(undo, was, text), NEW flag \in BOOLEAN,
         NEW s \in Text, \A i \in 1..Len(s) : s[i] # NL,
         undo' = RecordInsertion(Len(s), flag), Snapshot(text)
  PROVE  AllInvert(undo', was', InsertAt(text, pos, s)) /\ Follows
  <1> DEFINE n == Len(s)
             u == IF flag THEN Fresh(undo) ELSE undo
             r == u.ring[u.last]
             longer == [r EXCEPT !.misc = @ + n]
             joins == /\ r.kind = "CINSERT"
                      /\ r.line = LineOf(text, pos)
                      /\ r.point + r.misc = PointOf(text, pos)
                      /\ r.misc <= MergeMax
             obj == Object("CINSERT", n, flag)
  <1>0. /\ undo \in Undo_Type /\ was \in [Slots -> Text] /\ Fresh(undo) \in Undo_Type
        /\ text \in Text /\ pos \in 0..Len(text) /\ n \in Nat
    BY FreshType DEF TypeOK, Text
  <1>1. undo' = IF joins THEN SetCurrent(Put(u, longer)) ELSE SetCurrent(Put(Fresh(u), obj))
    BY DEF RecordInsertion
  <1>2. CASE joins
    <2>1. ~flag \/ Fresh(undo) = undo
      <3>1. flag => u = Fresh(undo)
        OBVIOUS
      <3>2. flag => Fresh(undo).ring[Fresh(undo).last].kind = "none"
        BY <1>0, FreshInverts
      <3> QED
        BY <1>2, <3>1, <3>2
    <2>2. u = undo
      BY <2>1
    <2> HIDE DEF u
    <2>3. r \in UndoObject /\ longer \in UndoObject /\ InWindow(undo, undo.last) /\ undo.last \in Slots
      <3>1. r \in UndoObject /\ undo.last \in Slots
        BY <1>0, <2>2 DEF Undo_Type
      <3>2. longer \in UndoObject
        BY <1>0, <3>1 DEF UndoObject
      <3>3. undo.first \in Nat /\ undo.last \in Nat
        BY <1>0, MaxUndosAssumption DEF Undo_Type, Slots
      <3> QED
        BY <3>1, <3>2, <3>3 DEF InWindow
    <2>4. Inverts(r, text, was[undo.last])
      BY <1>2, <2>2, <2>3 DEF AllInvert, TextAfter
    <2>5. PICK p \in 0..Len(text) : Undoes(r, text, p, was[undo.last])
      BY <2>4 DEF Inverts
    <2>6. /\ r.line = LineOf(text, p) /\ r.point = PointOf(text, p) /\ r.misc \in Nat
          /\ r.misc <= ToEol(text, p) /\ was[undo.last] = RemoveAt(text, p, r.misc)
      BY <1>2, <2>3, <2>5 DEF Undoes, UndoObject
    <2>7. p + r.misc <= Len(text)
      BY <1>0, <2>6, WithinLine
    <2>8. pos = p + r.misc
      <3>1. LineStart(text, r.line) + r.point = p /\ LineStart(text, r.line) + PointOf(text, pos) = pos
        BY <1>0, <1>2, <2>6, Placed
      <3>2. LineStart(text, r.line) \in Nat /\ r.point \in Nat
        <4>1. r.line \in Nat /\ r.point \in Nat
          BY <2>3 DEF UndoObject
        <4> QED
          BY <1>0, <4>1, LineFits
      <3>3. r.point + r.misc = PointOf(text, pos)
        BY <1>2
      <3> HIDE DEF r
      <3> QED
        BY <2>6, <3>1, <3>2, <3>3
    <2>9. /\ longer.kind = "CINSERT" /\ longer.line = r.line /\ longer.point = r.point
          /\ longer.misc = r.misc + n
      BY <1>2, <2>3 DEF UndoObject
    <2> HIDE DEF longer, r, n
    <2>10. p \in Nat /\ Len(s) = n
      BY <1>0 DEF n
    <2>11. Inverts(longer, InsertAt(text, p + r.misc, s), was[undo.last])
      BY <1>0, <2>6, <2>7, <2>9, <2>10, InsertionJoins
    <2>12. AllInvert(Put(undo, longer), was, InsertAt(text, pos, s)) /\ Put(undo, longer) \in Undo_Type
      BY <1>0, <2>3, <2>8, <2>9, <2>11, PutInverts, PutType
    <2>13. Put(undo, longer).last = undo.last /\ Put(undo, longer).current = undo.current
      BY <1>0 DEF Put, Undo_Type
    <2>14. undo' = SetCurrent(Put(undo, longer))
      BY <1>1, <1>2, <2>2 DEF r, longer
    <2>15. /\ AllInvert(undo', was, InsertAt(text, pos, s)) /\ undo'.last = undo.last
           /\ undo'.current = IF InProgress THEN undo.current ELSE undo.last
      BY <2>12, <2>13, <2>14, SetCurrentInverts
    <2>16. was' = was
      BY <2>15 DEF Snapshot
    <2> QED
      BY <2>15, <2>16 DEF Follows, Kept
  <1>3. CASE ~joins
    <2>1. obj \in UndoObject
      BY <1>0, ObjectType DEF Kinds
    <2>2. /\ obj.kind = "CINSERT" /\ obj.line = LineOf(text, pos) /\ obj.point = PointOf(text, pos)
          /\ obj.misc = n
      BY DEF Object
    <2>3. undo' = SetCurrent(Put(Fresh(u), obj))
      BY <1>1, <1>3
    <2>4. Fresh(u) = Fresh(undo)
      <3>1. Fresh(undo).ring[Fresh(undo).last].kind = "none"
        BY <1>0, FreshInverts
      <3>2. Fresh(Fresh(undo)) = Fresh(undo)
        BY <3>1 DEF Fresh
      <3> QED
        BY <3>2
    <2> HIDE DEF obj, u
    <2>5. Inverts(obj, InsertAt(text, pos, s), text)
      BY <1>0, <2>2, InsertionInverts
    <2>6. obj.kind # "none"
      BY <2>2
    <2>7. undo' = SetCurrent(Put(Fresh(undo), obj))
      BY <2>3, <2>4
    <2> QED
      BY <2>1, <2>5, <2>6, <2>7, RecordObjectInverts
  <1> QED
    BY <1>2, <1>3

(* A turn of record_deletion's loop, with the n bytes it records removed.  *)
LEMMA RecordDeletionInverts ==
  ASSUME MaxUndos > 1, TypeOK, AllInvert(undo, was, text),
         NEW n \in Nat, n = DeletionFits, NEW t, t = RemoveAt(text, pos, n),
         undo' = RecordDeletion(n), Snapshot(t)
  PROVE  /\ AllInvert(undo', was', t)
         /\ IF n = seg THEN Follows ELSE Kept(undo, was, undo', was')
  <1> DEFINE r == undo.ring[undo.last]
             f == Filled(n)
             u == IF Joins THEN Put(undo, f) ELSE undo
  <1>0. /\ undo \in Undo_Type /\ was \in [Slots -> Text]
        /\ text \in Text /\ pos \in Nat /\ seg \in Nat /\ pos + seg <= Len(text)
        /\ r \in UndoObject /\ undo.last \in Slots /\ pos \in 0..Len(text)
    BY DEF TypeOK, Undo_Type, Text
  <1>1. n <= seg /\ (Joins => n + Len(r.buf) <= BufSize) /\ pos + n <= Len(text)
    BY <1>0, DeletionFitsType
  <1>2. /\ u \in Undo_Type /\ u.last = undo.last /\ u.current = undo.current
        /\ u.ring[u.last].kind # "none" /\ AllInvert(u, was, t)
    <2>1. CASE Joins
      <3>1. f \in UndoObject /\ f.kind = "CDELETE"
        BY <1>1, <2>1, FilledType
      <3>2. /\ f.line = LineOf(text, pos) /\ f.point = PointOf(text, pos)
            /\ f.buf = r.buf \o BytesAt(text, pos, n)
        BY DEF Filled
      <3>3. r.buf \in Text
        BY <1>0 DEF UndoObject, Buffer
      <3>4. was[undo.last] = InsertAt(text, pos, r.buf)
        <4>1. CASE r.kind = "none"
          <5>1. was[undo.last] = text /\ r.buf = <<>>
            BY <4>1 DEF AllInvert
          <5> HIDE DEF r
          <5>2. Len(r.buf) = 0
            BY <5>1
          <5>3. InsertAt(text, pos, r.buf) = text
            BY <1>0, <3>3, <5>2, InsertNothing
          <5> QED
            BY <5>1, <5>3
        <4>2. CASE r.kind = "CDELETE" /\ r.line = LineOf(text, pos) /\ r.point = PointOf(text, pos)
          <5>1. InWindow(undo, undo.last)
            <6>1. undo.first \in Nat /\ undo.last \in Nat
              BY <1>0, MaxUndosAssumption DEF Undo_Type, Slots
            <6> QED
              BY <6>1 DEF InWindow
          <5>2. Inverts(r, text, was[undo.last])
            BY <1>0, <4>2, <5>1 DEF AllInvert, TextAfter
          <5>3. LineStart(text, r.line) + r.point = pos
            BY <1>0, <4>2, Placed
          <5>4. Undoes(r, text, pos, was[undo.last])
            BY <1>0, <5>2, <5>3, InvertsAt
          <5> QED
            BY <4>2, <5>4 DEF Undoes
        <4> QED
          BY <2>1, <4>1, <4>2 DEF Joins
      <3> HIDE DEF f, r
      <3>5. Inverts(f, t, was[undo.last])
        BY <1>0, <1>1, <3>1, <3>2, <3>3, <3>4, DeletionJoins
      <3>6. AllInvert(Put(undo, f), was, t) /\ Put(undo, f) \in Undo_Type
        BY <1>0, <3>1, <3>5, PutInverts, PutType
      <3>7. /\ Put(undo, f).last = undo.last /\ Put(undo, f).current = undo.current
            /\ Put(undo, f).ring[undo.last] = f
        BY <1>0 DEF Put, Undo_Type
      <3> QED
        BY <2>1, <3>1, <3>6, <3>7
    <2>2. CASE ~Joins
      <3>1. n = 0
        BY <2>2 DEF DeletionFits
      <3>2. t = text
        BY <1>0, <3>1, RemoveNothing
      <3>3. r.kind # "none"
        BY <2>2 DEF Joins
      <3> QED
        BY <1>0, <2>2, <3>2, <3>3
    <2> QED
      BY <2>1, <2>2
  <1>3. undo' = IF n = seg THEN SetCurrent(u) ELSE PrepareNext(u)
    BY DEF RecordDeletion
  <1> HIDE DEF u, r, f
  <1>4. CASE n = seg
    <2>1. /\ AllInvert(undo', was, t) /\ undo'.last = undo.last
          /\ undo'.current = IF InProgress THEN undo.current ELSE undo.last
      BY <1>2, <1>3, <1>4, SetCurrentInverts
    <2>2. was' = was
      BY <2>1 DEF Snapshot
    <2> QED
      BY <1>4, <2>1, <2>2 DEF Follows, Kept
  <1>5. CASE n # seg
    <2>1. undo' = PrepareNext(u)
      BY <1>3, <1>5
    <2>2. /\ AllInvert(undo', Snap(was, u, undo', t), t)
          /\ Kept(u, was, undo', Snap(was, u, undo', t))
      BY <1>0, <1>2, <2>1, PrepareInverts
    <2>3. was' = Snap(was, u, undo', t)
      BY <1>2 DEF Snapshot, Snap
    <2> QED
      BY <1>2, <1>5, <2>2, <2>3 DEF Kept
  <1> QED
    BY <1>4, <1>5
-----------------------------------------------------------------------------
(* The steps.                                                              *)


(* Nothing is left to insert when a newline ahead of it is gone.           *)
LEMMA NoWork ==
  ASSUME TypeOK
  PROVE  /\ ins = <<>> => nl = FALSE
         /\ del > 0 => ins = <<>>
         /\ seg > 0 => del > 0
         /\ ins # <<>> => del = 0 /\ seg = 0
         /\ Working => pc # "loop"
         /\ ~Working => ins = <<>> /\ del = 0 /\ seg = 0 /\ nl = FALSE
  <1>1. ASSUME ins = <<>> PROVE nl = FALSE
    <2>1. ASSUME nl PROVE FALSE
      <3>1. Len(Run(ins)) < Len(ins) /\ Len(ins) = 0 /\ Len(Run(ins)) \in Nat
        BY <1>1, <2>1, RunType DEF TypeOK
      <3> QED
        BY <3>1
    <2> QED
      BY <2>1 DEF TypeOK
  <1>2. del \in Nat /\ seg \in 0..del /\ (ins = <<>> \/ del = 0) /\ (pc = "loop" => ~Working)
    BY DEF TypeOK
  <1>3. (del > 0 => ins = <<>>) /\ (seg > 0 => del > 0) /\ (del = 0 => seg = 0)
        /\ (~(del > 0) => del = 0)
    BY <1>2
  <1>4. Working <=> (ins # <<>> \/ del > 0)
    BY DEF Working
  <1> QED
    BY <1>1, <1>2, <1>3, <1>4

(* When the work is done the text is what it was meant to become.          *)
LEMMA GoalReached ==
  ASSUME TypeOK, ~Working
  PROVE  Goal = text
  <1>1. ins = <<>> /\ del = 0 /\ nl = FALSE
    BY NoWork
  <1>2. text \in Text /\ ins \in Text /\ pos \in 0..Len(text) /\ Len(ins) = 0
    BY <1>1 DEF TypeOK
  <1>3. InsertAt(text, pos, ins) = text
    BY <1>2, InsertNothing
  <1> QED
    BY <1>1, <1>3 DEF Goal

(* The object undo() is to revert inverts the text it is at.               *)
LEMMA CurrentInverts ==
  ASSUME UndoSound, Hist, undo.current # None, undo.ring[undo.current].kind # "none"
  PROVE  /\ undo.current \in Slots
         /\ undo.ring[undo.current] \in UndoObject
         /\ Inverts(undo.ring[undo.current], After(undo.current), was[undo.current])
  <1>1. undo.current \in Slots /\ undo.ring[undo.current] \in UndoObject
    BY DEF UndoSound, TypeOK, Undo_Type
  <1>2. InWindow(undo, undo.current)
    BY DEF UndoSound, RingOK, RingSound
  <1> QED
    BY <1>1, <1>2 DEF Hist, AllInvert, TextAfter, After

(* Steps that leave text, ring and ghosts alone outside undo().            *)
LEMMA IdleHist ==
  ASSUME UndoSound, Hist, pc = "idle", seg = 0, pc' = "idle",
         (nl => text[pos + 1] = NL)', UNCHANGED <<text, was>>,
         AllInvert(undo', was, text), undo'.last = undo.last,
         undo'.current = undo.current \/ undo'.current = undo.last
  PROVE  Hist'
  <1>1. AllInvert(undo, was, text)'
    BY DEF AllInvert, TextAfter
  <1>2. (undo.current # None => text = After(undo.current))'
    <2>1. CASE undo'.current = undo.last
      BY <2>1 DEF After
    <2>2. CASE undo'.current = undo.current
      BY <2>2 DEF Hist, Retraced, After
    <2> QED
      BY <2>1, <2>2
  <1> QED
    BY <1>1, <1>2 DEF Hist, Retraced

LEMMA InsertNewlineHist ==
  ASSUME MaxUndos > 1, UndoSound, trusted => Hist, InsertNewline, trusted'
  PROVE  Hist'
  <1>0. /\ trusted /\ enabled /\ Hist /\ TypeOK
        /\ ins # <<>> /\ nl = FALSE /\ del = 0 /\ seg = 0 /\ del' = 0 /\ seg' = 0 /\ pc' = pc
        /\ pc # "loop" /\ pc \in {"idle", "loop", "apply"}
    <2>1. TypeOK /\ trusted /\ enabled
      BY DEF UndoSound, InsertNewline
    <2>2. ins # <<>> /\ ~nl
      BY DEF InsertNewline
    <2> QED
      BY <2>1, <2>2, NoWork DEF InsertNewline, Working, TypeOK
  <1>1. /\ text \in Text /\ pos \in 0..Len(text) /\ ins \in Text
        /\ Len(text) \in Nat /\ Len(ins) \in Nat /\ pos \in Nat
    BY <1>0 DEF TypeOK, Text
  <1> DEFINE obj == Object("NLINSERT", 0, ~modified)
             s == <<NL>>
  <1>2. text' = InsertAt(text, pos, s) /\ undo' = SetCurrent(Put(Fresh(undo), obj)) /\ Snapshot(text)
    BY <1>0 DEF InsertNewline, RecordNewline
  <1>3. s \in Text /\ Len(s) = 1 /\ s[1] = NL
    BY DEF Text, Byte
  <1>4. obj \in UndoObject
    BY <1>0, ObjectType DEF Kinds, TypeOK
  <1>5. obj.kind = "NLINSERT" /\ obj.line = LineOf(text, pos) /\ obj.point = PointOf(text, pos)
    BY DEF Object
  <1> HIDE DEF obj
  <1>6. Inverts(obj, text', text)
    BY <1>1, <1>2, <1>5, NewlineInverts
  <1>7. AllInvert(undo', was', text') /\ Follows
    <2>1. AllInvert(undo, was, text) /\ obj.kind # "none"
      BY <1>0, <1>5 DEF Hist
    <2> QED
      BY <1>0, <1>2, <1>4, <1>6, <2>1, RecordObjectInverts
  <1> HIDE DEF s
  <1>8. /\ IsInsert(text', text, pos, s)
        /\ text'[pos + 1] = NL /\ Len(text') = Len(text) + 1
    <2>1. IsInsert(text', text, pos, s)
      BY <1>1, <1>2, <1>3, InsertedBytes
    <2>2. 1 \in 1..Len(s)
      BY <1>3
    <2> QED
      BY <1>3, <2>1, <2>2 DEF IsInsert
  <1>9. /\ IF Run(ins) = <<>> THEN ins' = Tail(ins) /\ pos' = pos + 1 /\ nl' = FALSE
                              ELSE nl' = TRUE /\ ins' = ins /\ pos' = pos
        /\ Len(Run(ins)) < Len(ins)
    BY <1>0 DEF InsertNewline
  <1>10. Goal' = Goal
    <2>1. Goal = InsertAt(text, pos, ins)
      BY <1>0 DEF Goal
    <2>2. CASE Run(ins) = <<>>
      <3>1. ins[1] = NL /\ Len(ins) > 0 /\ Len(s) <= Len(ins)
        <4>1. Len(Run(ins)) = 0
          BY <2>2
        <4>2. ins[Len(Run(ins)) + 1] = NL
          BY <1>1, <1>9, RunBytes
        <4> QED
          BY <1>1, <1>3, <1>9, <4>1, <4>2
      <3>2. \A i \in 1..Len(s) : s[i] = ins[i]
        BY <1>3, <3>1
      <3>3. InsertAt(InsertAt(text, pos, s), pos + Len(s), BytesAt(ins, Len(s), Len(ins) - Len(s)))
              = InsertAt(text, pos, ins)
        BY <1>1, <1>3, <3>1, <3>2, InsertTwice
      <3>4. Tail(ins) = BytesAt(ins, 1, Len(ins) - 1)
        <4>1. Tail(ins) \in Text /\ Len(Tail(ins)) = Len(ins) - 1
              /\ \A i \in 1..(Len(ins) - 1) : Tail(ins)[i] = ins[i + 1]
          BY <1>1, <3>1 DEF Text
        <4>2. BytesAt(ins, 1, Len(ins) - 1) \in Text /\ Len(BytesAt(ins, 1, Len(ins) - 1)) = Len(ins) - 1
          <5>1. 1 \in Nat /\ Len(ins) - 1 \in Nat /\ 1 + (Len(ins) - 1) <= Len(ins)
            BY <1>1, <3>1
          <5> QED
            BY <1>1, <5>1, BytesAtType
        <4>3. \A i \in 1..(Len(ins) - 1) : BytesAt(ins, 1, Len(ins) - 1)[i] = ins[1 + i]
          BY DEF BytesAt
        <4>4. \A i \in 1..(Len(ins) - 1) : 1 + i = i + 1
          BY <1>1
        <4>5. \A i \in 1..(Len(ins) - 1) : Tail(ins)[i] = BytesAt(ins, 1, Len(ins) - 1)[i]
          BY <4>1, <4>3, <4>4
        <4> QED
          BY <4>1, <4>2, <4>5, SameText
      <3>5. Goal' = InsertAt(text', pos', ins')
        BY <1>0, <1>9, <2>2 DEF Goal
      <3> QED
        BY <1>2, <1>3, <1>9, <2>1, <2>2, <3>3, <3>4, <3>5
    <2>3. CASE Run(ins) # <<>>
      <3>1. Goal' = InsertAt(RemoveAt(text', pos, 1), pos, ins)
        BY <1>0, <1>9, <2>3 DEF Goal
      <3>2. RemoveAt(InsertAt(text, pos, s), pos, Len(s)) = text
        BY <1>1, <1>3, RemoveWhatWasInserted
      <3> QED
        BY <1>2, <1>3, <2>1, <3>1, <3>2
    <2> QED
      BY <2>2, <2>3
  <1>11. (nl => text[pos + 1] = NL)'
    BY <1>8, <1>9
  <1>12. CASE pc = "idle"
    <2>1. undo'.current = undo'.last
      BY <1>7, <1>12 DEF Follows, InProgress
    <2>2. (undo.current # None /\ seg = 0 => text = After(undo.current))'
      BY <2>1 DEF After
    <2> QED
      BY <1>0, <1>7, <1>11, <1>12, <2>2 DEF Hist, Retraced
  <1>13. CASE pc = "apply"
    <2>1. Kept(undo, was, undo', was')
      BY <1>7, <1>13 DEF Follows, InProgress
    <2>2. (undo.current # None => pos + del <= Len(text) /\ was[undo.current] = Goal)'
      <3> SUFFICES ASSUME undo'.current # None
                   PROVE  pos' + del' <= Len(text') /\ was'[undo'.current] = Goal'
        OBVIOUS
      <3>1. undo'.current = undo.current /\ was'[undo'.current] = was[undo'.current]
        BY <2>1 DEF Kept
      <3>2. was[undo.current] = Goal
        BY <1>0, <1>13, <3>1 DEF Hist, Retraced
      <3>3. pos' + del' <= Len(text')
        BY <1>0, <1>1, <1>8, <1>9
      <3> QED
        BY <1>10, <3>1, <3>2, <3>3
    <2> QED
      BY <1>0, <1>7, <1>11, <1>13, <2>2 DEF Hist, Retraced
  <1> QED
    BY <1>0, <1>12, <1>13

LEMMA InsertRunHist ==
  ASSUME MaxUndos > 1, UndoSound, trusted => Hist, InsertRun, trusted'
  PROVE  Hist'
  <1> DEFINE s == Run(ins)
             skip == Len(s) + (IF nl THEN 1 ELSE 0)
  <1>0. /\ trusted /\ enabled /\ Hist /\ TypeOK
        /\ ins # <<>> /\ del = 0 /\ seg = 0 /\ del' = 0 /\ seg' = 0 /\ pc' = pc /\ nl' = FALSE
        /\ pc # "loop" /\ pc \in {"idle", "loop", "apply"} /\ nl \in BOOLEAN
    <2>1. TypeOK /\ trusted /\ enabled /\ ins # <<>>
      BY DEF UndoSound, InsertRun
    <2> QED
      BY <2>1, NoWork DEF InsertRun, Working, TypeOK
  <1>1. /\ text \in Text /\ pos \in 0..Len(text) /\ ins \in Text
        /\ Len(text) \in Nat /\ Len(ins) \in Nat /\ pos \in Nat
        /\ nl => Len(s) < Len(ins) /\ pos < Len(text)
    BY <1>0 DEF TypeOK, Text
  <1>2. /\ text' = InsertAt(text, pos, s) /\ undo' = RecordInsertion(Len(s), unch') /\ Snapshot(text)
        /\ pos' = pos + skip /\ ins' = BytesAt(ins, skip, Len(ins) - skip)
        /\ unch' = ~modified
        /\ nl \/ Len(s) = Len(ins)
    BY <1>0 DEF InsertRun, UpdateMarks
  <1>3. /\ s \in Text /\ Len(s) \in Nat /\ Len(s) <= Len(ins)
        /\ \A i \in 1..Len(s) : s[i] = ins[i]
        /\ \A i \in 1..Len(s) : s[i] # NL
        /\ Len(s) < Len(ins) => ins[Len(s) + 1] = NL
    BY <1>1, RunBytes
  <1> HIDE DEF s
  <1>4. AllInvert(undo', was', text') /\ Follows
    <2>1. AllInvert(undo, was, text) /\ unch' \in BOOLEAN
      BY <1>0, <1>2 DEF Hist
    <2> QED
      BY <1>0, <1>2, <1>3, <2>1, RecordInsertionInverts
  <1>5. Len(text') = Len(text) + Len(s)
    BY <1>1, <1>2, <1>3, InsertAtType
  <1>6. Goal' = Goal
    <2>1. Goal' = InsertAt(text', pos', ins')
      BY <1>0 DEF Goal
    <2>2. CASE nl
      <3>1. Goal = InsertAt(RemoveAt(text, pos, 1), pos, ins)
        BY <1>0, <2>2 DEF Goal
      <3>2. text[pos + 1] = NL
        BY <1>0, <2>2 DEF Hist, Retraced
      <3>3. InsertAt(InsertAt(text, pos, s), pos + (Len(s) + 1),
                     BytesAt(ins, Len(s) + 1, Len(ins) - (Len(s) + 1)))
              = InsertAt(RemoveAt(text, pos, 1), pos, ins)
        BY <1>1, <1>3, <2>2, <3>2, InsertBeforeNewline
      <3>4. skip = Len(s) + 1
        BY <2>2
      <3> QED
        BY <1>2, <2>1, <3>1, <3>3, <3>4
    <2>3. CASE ~nl
      <3>1. Goal = InsertAt(text, pos, ins)
        BY <1>0, <2>3 DEF Goal
      <3>2. InsertAt(InsertAt(text, pos, s), pos + Len(s), BytesAt(ins, Len(s), Len(ins) - Len(s)))
              = InsertAt(text, pos, ins)
        BY <1>1, <1>3, InsertTwice
      <3>3. skip = Len(s)
        BY <1>3, <2>3
      <3> QED
        BY <1>2, <2>1, <3>1, <3>2, <3>3
    <2> QED
      BY <2>2, <2>3
  <1>7. CASE pc = "idle"
    <2>1. undo'.current = undo'.last
      BY <1>4, <1>7 DEF Follows, InProgress
    <2>2. (undo.current # None /\ seg = 0 => text = After(undo.current))'
      BY <2>1 DEF After
    <2> QED
      BY <1>0, <1>4, <1>7, <2>2 DEF Hist, Retraced
  <1>8. CASE pc = "apply"
    <2>1. Kept(undo, was, undo', was')
      BY <1>4, <1>8 DEF Follows, InProgress
    <2>2. (undo.current # None => pos + del <= Len(text) /\ was[undo.current] = Goal)'
      <3> SUFFICES ASSUME undo'.current # None
                   PROVE  pos' + del' <= Len(text') /\ was'[undo'.current] = Goal'
        OBVIOUS
      <3>1. undo'.current = undo.current /\ was'[undo'.current] = was[undo'.current]
        BY <2>1 DEF Kept
      <3>2. was[undo.current] = Goal
        BY <1>0, <1>8, <3>1 DEF Hist, Retraced
      <3>3. pos' + del' <= Len(text')
        BY <1>0, <1>1, <1>2, <1>3, <1>5
      <3> QED
        BY <1>6, <3>1, <3>2, <3>3
    <2> QED
      BY <1>0, <1>4, <1>8, <2>2 DEF Hist, Retraced
  <1> QED
    BY <1>0, <1>7, <1>8

LEMMA DeleteSegmentHist ==
  ASSUME UndoSound, trusted => Hist, DeleteSegment, trusted'
  PROVE  Hist'
  <1>0. /\ trusted /\ Hist /\ TypeOK /\ del > 0 /\ seg = 0
        /\ UNCHANGED <<text, pos, enabled, undo, pc, ins, nl, was>>
        /\ pc # "loop" /\ pc \in {"idle", "loop", "apply"} /\ nl = FALSE
    <2>1. TypeOK /\ trusted /\ del > 0
      BY DEF UndoSound, DeleteSegment
    <2> QED
      BY <2>1, NoWork DEF DeleteSegment, Working, TypeOK
  <1>1. AllInvert(undo, was, text)'
    BY <1>0 DEF Hist, AllInvert, TextAfter
  <1>2. CASE pc = "idle"
    BY <1>0, <1>1, <1>2 DEF Hist, Retraced, After
  <1>3. CASE pc = "apply"
    <2>1. ASSUME undo.current # None
          PROVE  (pos + del <= Len(text) /\ was[undo.current] = Goal)'
      <3>1. pos + del <= Len(text) /\ was[undo.current] = Goal
        BY <1>0, <1>3, <2>1 DEF Hist, Retraced
      <3>2. pos # Len(text)
        BY <1>0, <3>1 DEF TypeOK, Text
      <3>3. del' = del
        BY <3>2 DEF DeleteSegment
      <3> QED
        BY <1>0, <3>1, <3>3 DEF Goal
    <2> QED
      BY <1>0, <1>1, <1>3, <2>1 DEF Hist, Retraced
  <1> QED
    BY <1>0, <1>2, <1>3

LEMMA DeleteBytesHist ==
  ASSUME MaxUndos > 1, UndoSound, trusted => Hist, DeleteBytes, trusted'
  PROVE  Hist'
  <1> DEFINE n == DeletionFits
  <1>0. /\ trusted /\ enabled /\ Hist /\ TypeOK /\ del > 0 /\ seg > 0 /\ ins = <<>> /\ nl = FALSE
        /\ pc # "loop" /\ pc \in {"idle", "loop", "apply"}
        /\ UNCHANGED <<pos, enabled, pc, ins, nl>>
        /\ text' = RemoveAt(text, pos, n) /\ undo' = RecordDeletion(n) /\ Snapshot(text')
        /\ seg' = seg - n /\ del' = del - n
    <2>1. TypeOK /\ trusted /\ seg > 0 /\ enabled
      BY DEF UndoSound, DeleteBytes
    <2> QED
      BY <2>1, NoWork DEF DeleteBytes, Working, TypeOK
  <1>1. /\ n \in Nat /\ n <= seg /\ seg \in Nat /\ del \in Nat /\ seg <= del
        /\ pos \in Nat /\ pos + seg <= Len(text) /\ Len(text) \in Nat /\ text \in Text
    BY <1>0, DeletionFitsType DEF TypeOK, Text
  <1>2. /\ AllInvert(undo', was', text')
        /\ IF n = seg THEN Follows ELSE Kept(undo, was, undo', was')
    <2>1. AllInvert(undo, was, text)
      BY <1>0 DEF Hist
    <2> QED
      BY <1>0, <1>1, <2>1, RecordDeletionInverts
  <1> HIDE DEF n
  <1>3. text' \in Text /\ Len(text') = Len(text) - n
    <2>1. pos + n <= Len(text)
      BY <1>1
    <2> QED
      BY <1>0, <1>1, <2>1, RemoveAtType
  <1>4. CASE pc = "idle"
    <2>1. ASSUME undo'.current # None, seg' = 0 PROVE text' = After(undo.current)'
      <3>1. n = seg
        BY <1>0, <1>1, <2>1
      <3>2. undo'.current = undo'.last
        BY <1>2, <1>4, <3>1 DEF Follows, InProgress
      <3> QED
        BY <3>2 DEF After
    <2> QED
      BY <1>0, <1>2, <1>4, <2>1 DEF Hist, Retraced
  <1>5. CASE pc = "apply"
    <2>1. Kept(undo, was, undo', was')
      BY <1>2, <1>5 DEF Follows, InProgress
    <2>2. ASSUME undo'.current # None
          PROVE  pos' + del' <= Len(text') /\ was'[undo'.current] = Goal'
      <3>1. undo'.current = undo.current /\ was'[undo'.current] = was[undo'.current]
        BY <2>1, <2>2 DEF Kept
      <3>2. pos + del <= Len(text) /\ was[undo.current] = RemoveAt(text, pos, del)
        BY <1>0, <1>5, <2>2, <3>1 DEF Hist, Retraced, Goal
      <3>3. pos' + del' <= Len(text')
        BY <1>0, <1>1, <1>3, <3>2
      <3>4. RemoveAt(text', pos, del') = RemoveAt(text, pos, del)
        <4>1. n <= del
          BY <1>1
        <4> QED
          BY <1>0, <1>1, <3>2, <4>1, RemoveTwice
      <3>5. Goal' = RemoveAt(text', pos, del')
        <4>1. CASE del' > 0
          BY <1>0, <4>1 DEF Goal
        <4>2. CASE ~(del' > 0)
          <5>1. del' = 0 /\ pos \in 0..Len(text') /\ <<>> \in Text /\ Len(<<>>) = 0
            BY <1>0, <1>1, <1>3, <4>2 DEF Text
          <5>2. InsertAt(text', pos, <<>>) = text' /\ RemoveAt(text', pos, 0) = text'
            BY <1>3, <5>1, InsertNothing, RemoveNothing
          <5> QED
            BY <1>0, <5>1, <5>2 DEF Goal
        <4> QED
          BY <4>1, <4>2
      <3> QED
        BY <3>1, <3>2, <3>3, <3>4, <3>5
    <2> QED
      BY <1>0, <1>2, <1>5, <2>2 DEF Hist, Retraced
  <1> QED
    BY <1>0, <1>4, <1>5

LEMMA RefusedHist ==
  ASSUME UndoSound, trusted => Hist, Refused, trusted'
  PROVE  Hist'
  <1>1. /\ Hist /\ pc = "idle" /\ seg = 0 /\ nl = FALSE
        /\ UNCHANGED <<text, pos, undo, pc, nl, seg, was>>
    BY DEF Refused, InProgress, UndoSound, TypeOK
  <1>2. AllInvert(undo', was, text)
    BY <1>1 DEF Hist
  <1> QED
    BY <1>1, <1>2, IdleHist

LEMMA EditHist ==
  ASSUME MaxUndos > 1, UndoSound, trusted => Hist, Edit, trusted'
  PROVE  Hist'
  <1>0. TypeOK /\ Ready /\ pc = "idle" /\ ins = <<>> /\ nl = FALSE /\ del = 0 /\ seg = 0
    <2>1. Ready /\ TypeOK
      BY DEF Edit, Move, Insert, Delete, EraseBuffer, UndoRecordPosition, Command, UndoSound
    <2> QED
      BY <2>1, ReadyState
  <1>1. ASSUME Move \/ Insert \/ Delete PROVE Hist'
    <2>1. Hist /\ UNCHANGED <<text, undo, pc, nl, seg, was>>
      BY <1>1 DEF Move, Insert, Delete
    <2>2. AllInvert(undo', was, text)
      BY <2>1 DEF Hist
    <2> QED
      BY <1>0, <2>1, <2>2, IdleHist
  <1>2. CASE EraseBuffer
    <2>1. /\ text' = <<>> /\ undo' = NoUndo /\ was' = [i \in Slots |-> <<>>]
          /\ pc' = "idle" /\ nl' = FALSE
      BY <1>0, <1>2 DEF EraseBuffer
    <2>2. /\ NoUndo.current = None /\ NoUndo.last = 0 /\ 0 \in Slots
          /\ \A i \in Slots : NoUndo.ring[i].kind = "none" /\ NoUndo.ring[i].buf = <<>>
      BY SlotType DEF NoUndo, Blank
    <2>3. AllInvert(undo', was', text')
      BY <2>1, <2>2 DEF AllInvert
    <2> QED
      BY <2>1, <2>2, <2>3 DEF Hist, Retraced
  <1>3. CASE UndoRecordPosition
    <2> DEFINE obj == Object("POSITION", 0, unch)
    <2>1. /\ Hist /\ undo' = SetCurrent(Put(Fresh(undo), obj)) /\ Snapshot(text)
          /\ UNCHANGED <<text, pos, pc, nl, seg>>
      BY <1>3 DEF UndoRecordPosition
    <2>2. obj \in UndoObject
      BY <1>0, ObjectType DEF Kinds, TypeOK
    <2>3. obj.kind = "POSITION" /\ obj.line = LineOf(text, pos) /\ obj.point = PointOf(text, pos)
      BY DEF Object
    <2> HIDE DEF obj
    <2>4. Inverts(obj, text, text)
      BY <1>0, <2>3, PositionInverts DEF TypeOK
    <2>5. AllInvert(undo', was', text) /\ Follows
      BY <1>0, <2>1, <2>2, <2>3, <2>4, RecordObjectInverts DEF Hist
    <2>6. undo'.current = undo'.last
      BY <1>0, <2>5 DEF Follows, InProgress
    <2>7. (undo.current # None => text = After(undo.current))'
      BY <2>6 DEF After
    <2> QED
      BY <1>0, <2>1, <2>5, <2>7 DEF Hist, Retraced
  <1> QED
    BY <1>1, <1>2, <1>3 DEF Edit

LEMMA ControlHist ==
  ASSUME UndoSound, trusted => Hist, Control, trusted'
  PROVE  Hist'
  <1>0. TypeOK /\ Ready /\ pc = "idle" /\ ins = <<>> /\ nl = FALSE /\ del = 0 /\ seg = 0
    <2>1. Ready /\ TypeOK
      BY DEF Control, MarkUndoBoundary, Quit, Save, ToggleUndo, Command, UndoSound
    <2> QED
      BY <2>1, ReadyState
  <1>1. /\ Hist /\ AllInvert(undo, was, text) /\ UNCHANGED <<text, pos, pc, nl, seg, was>>
    BY DEF Control, MarkUndoBoundary, Quit, Save, ToggleUndo, Hist
  <1>2. /\ undo \in Undo_Type /\ undo.last \in Slots /\ undo.ring \in [Slots -> UndoObject]
    BY <1>0 DEF TypeOK, Undo_Type
  <1>3. /\ AllInvert(undo', was, text) /\ undo'.last = undo.last
        /\ undo'.current = undo.current \/ undo'.current = undo.last
    <2>1. CASE MarkUndoBoundary
      <3>1. undo' = [undo EXCEPT !.ring[undo.last].bd = TRUE]
        BY <2>1 DEF MarkUndoBoundary
      <3>2. /\ undo'.first = undo.first /\ undo'.last = undo.last /\ undo'.current = undo.current
            /\ undo'.ring = [undo.ring EXCEPT ![undo.last].bd = TRUE]
        BY <1>2, <3>1 DEF Undo_Type
      <3>3. ASSUME NEW i \in Slots
            PROVE  /\ undo'.ring[i].kind = undo.ring[i].kind
                   /\ undo'.ring[i].line = undo.ring[i].line
                   /\ undo'.ring[i].point = undo.ring[i].point
                   /\ undo'.ring[i].misc = undo.ring[i].misc
                   /\ undo'.ring[i].buf = undo.ring[i].buf
        BY <1>2, <3>2 DEF UndoObject
      <3> QED
        BY <1>1, <1>2, <3>2, <3>3, SameRingInverts
    <2>2. CASE Quit
      <3>1. undo' = SetCurrent(undo)
        BY <2>2 DEF Quit
      <3> QED
        BY <1>1, <1>2, <3>1, SetCurrentInverts
    <2>3. CASE Save
      <3>1. CASE ~enabled
        BY <1>1, <2>3, <3>1 DEF Save
      <3>2. CASE enabled
        <4>1. /\ undo'.first = undo.first /\ undo'.last = undo.last /\ undo'.current = undo.last
              /\ \A i \in Slots : undo'.ring[i] = [undo.ring[i] EXCEPT !.unch = FALSE]
          BY <1>2, <2>3, <3>2 DEF Save, Undo_Type
        <4>2. ASSUME NEW i \in Slots
              PROVE  /\ undo'.ring[i].kind = undo.ring[i].kind
                     /\ undo'.ring[i].line = undo.ring[i].line
                     /\ undo'.ring[i].point = undo.ring[i].point
                     /\ undo'.ring[i].misc = undo.ring[i].misc
                     /\ undo'.ring[i].buf = undo.ring[i].buf
          <5>1. undo.ring[i] \in UndoObject /\ undo'.ring[i] = [undo.ring[i] EXCEPT !.unch = FALSE]
            BY <1>2, <4>1
          <5> QED
            BY <5>1 DEF UndoObject
        <4> QED
          BY <1>1, <1>2, <4>1, <4>2, SameRingInverts
      <3> QED
        BY <1>0, <3>1, <3>2 DEF TypeOK
    <2>4. CASE ToggleUndo
      BY <1>1, <2>4 DEF ToggleUndo
    <2> QED
      BY <2>1, <2>2, <2>3, <2>4 DEF Control
  <1> QED
    BY <1>0, <1>1, <1>3, IdleHist

LEMMA UndoBeginHist ==
  ASSUME UndoSound, trusted => Hist, UndoBegin, trusted'
  PROVE  Hist'
  <1>1. pc = "idle" /\ ins = <<>> /\ nl = FALSE /\ del = 0 /\ seg = 0 /\ MoreUndoInfo
    BY ReadyState DEF UndoSound, UndoBegin, Command
  <1>2. /\ Hist /\ pc' = "loop" /\ UNCHANGED <<text, pos, undo, nl, was>>
    BY DEF UndoBegin
  <1>3. text = After(undo.current)
    BY <1>1, <1>2 DEF Hist, Retraced, MoreUndoInfo
  <1> QED
    BY <1>1, <1>2, <1>3 DEF Hist, Retraced, AllInvert, TextAfter, After

LEMMA UndoObjectAtHist ==
  ASSUME UndoSound, trusted => Hist, UndoObjectAt, trusted'
  PROVE  Hist'
  <1> DEFINE r == undo.ring[undo.current]
             p == LineStart(text, r.line) + r.point
  <1>0. /\ Hist /\ TypeOK /\ pc = "loop" /\ UNCHANGED <<text, undo, nl, seg, was>>
        /\ nl = FALSE /\ text \in Text /\ text = After(undo.current) /\ Len(text) \in Nat
    <2>1. TypeOK /\ pc = "loop" /\ Hist
      BY DEF UndoSound, UndoObjectAt
    <2>2. ~Working
      BY <2>1 DEF TypeOK
    <2>3. nl = FALSE
      BY <2>1, <2>2, NoWork
    <2>4. text \in Text /\ Len(text) \in Nat
      BY <2>1 DEF TypeOK, Text
    <2>5. text = After(undo.current)
      BY <2>1 DEF Hist, Retraced
    <2>6. UNCHANGED <<text, undo, nl, seg, was>>
      BY DEF UndoObjectAt
    <2> QED
      BY <2>1, <2>3, <2>4, <2>5, <2>6
  <1>1. MoreUndoInfo
    BY <1>0 DEF UndoSound, RingOK
  <1>2. r \in UndoObject /\ Inverts(r, text, was[undo.current])
    BY <1>0, <1>1, CurrentInverts DEF MoreUndoInfo
  <1>3. /\ r.line <= MaxLineNum(text) /\ (r.kind = "NLINSERT" => r.line # MaxLineNum(text))
        /\ r.point <= LineLen(text, r.line)
        /\ r.line \in Nat /\ r.point \in Nat /\ MaxLineNum(text) \in Nat
        /\ LineLen(text, r.line) \in Nat
    BY <1>0, <1>2, InvertsInside
  <1>4. ~Outside(r) /\ ~(r.point > LineLen(text, r.line))
    BY <1>3 DEF Outside
  <1>5. /\ pc' = "apply" /\ pos' = p
        /\ ins' = IF r.kind = "CDELETE" THEN r.buf ELSE <<>>
        /\ del' = CASE r.kind = "CINSERT" ->
                         IF r.misc < ToEol(text, p) THEN r.misc ELSE ToEol(text, p)
                    [] r.kind = "NLINSERT" -> IF p = Len(text) THEN 0 ELSE 1
                    [] OTHER -> 0
    BY <1>4 DEF UndoObjectAt
  <1>6. p \in 0..Len(text) /\ Undoes(r, text, p, was[undo.current])
    BY <1>0, <1>2, InvertsAt
  <1>7. /\ r.kind \in Kinds \ {"none"} /\ r.misc \in Nat /\ r.buf \in Text
    BY <1>1, <1>2 DEF UndoObject, Buffer, MoreUndoInfo
  <1>8. ToEol(text, p) \in Nat /\ p + ToEol(text, p) <= Len(text)
    BY <1>0, <1>6, PlaceType
  <1> HIDE DEF p, r
  <1>9. pos' + del' <= Len(text') /\ was'[undo'.current] = Goal'
    <2>1. CASE r.kind = "CDELETE"
      <3>1. was[undo.current] = InsertAt(text, p, r.buf) /\ ins' = r.buf /\ del' = 0
        BY <1>5, <1>6, <2>1 DEF Undoes
      <3> QED
        BY <1>0, <1>5, <1>6, <3>1 DEF Goal
    <2>2. CASE r.kind = "CINSERT"
      <3>1. was[undo.current] = RemoveAt(text, p, r.misc) /\ ins' = <<>> /\ r.misc <= ToEol(text, p)
        BY <1>5, <1>6, <2>2 DEF Undoes
      <3>2. del' = r.misc
        BY <1>5, <1>7, <1>8, <2>2, <3>1
      <3>3. pos' + del' <= Len(text')
        BY <1>0, <1>5, <1>6, <1>7, <1>8, <3>1, <3>2
      <3>4. CASE r.misc = 0
        <4>1. <<>> \in Text /\ Len(<<>>) = 0
          BY DEF Text
        <4>2. RemoveAt(text, p, 0) = text /\ InsertAt(text, p, <<>>) = text
          BY <1>0, <1>6, <4>1, RemoveNothing, InsertNothing
        <4>3. Goal' = InsertAt(text, p, <<>>)
          BY <1>0, <1>5, <3>1, <3>2, <3>4 DEF Goal
        <4> QED
          BY <1>0, <3>1, <3>3, <3>4, <4>2, <4>3
      <3>5. CASE r.misc > 0
        BY <1>0, <1>5, <3>1, <3>2, <3>3, <3>5 DEF Goal
      <3> QED
        BY <1>7, <3>4, <3>5
    <2>3. CASE r.kind = "NLINSERT"
      <3>1. was[undo.current] = RemoveAt(text, p, 1) /\ p < Len(text) /\ del' = 1
        BY <1>5, <1>6, <1>0, <2>3 DEF Undoes
      <3> QED
        BY <1>0, <1>5, <1>6, <3>1 DEF Goal
    <2>4. CASE r.kind = "POSITION"
      <3>1. was[undo.current] = text /\ ins' = <<>> /\ del' = 0
        BY <1>5, <1>6, <2>4 DEF Undoes
      <3>2. <<>> \in Text /\ Len(<<>>) = 0
        BY DEF Text
      <3>3. InsertAt(text, p, <<>>) = text
        BY <1>0, <1>6, <3>2, InsertNothing
      <3> QED
        BY <1>0, <1>5, <1>6, <3>1, <3>3 DEF Goal
    <2> QED
      BY <1>7, <2>1, <2>2, <2>3, <2>4 DEF Kinds
  <1>10. AllInvert(undo, was, text)'
    BY <1>0 DEF Hist, AllInvert, TextAfter
  <1> QED
    BY <1>0, <1>5, <1>9, <1>10 DEF Hist, Retraced

LEMMA UndoNextHist ==
  ASSUME MaxUndos > 1, UndoSound, trusted => Hist, UndoNext, trusted'
  PROVE  Hist'
  <1> DEFINE prev == Pred(undo.current)
  <1>0. /\ Hist /\ TypeOK /\ pc = "apply" /\ ~Working /\ nl = FALSE
        /\ UNCHANGED <<text, pos, nl, seg, was>>
        /\ undo \in Undo_Type /\ RingSound(undo) /\ AllInvert(undo, was, text)
    <2>1. TypeOK /\ pc = "apply" /\ Hist /\ ~Working
      BY DEF UndoSound, UndoNext
    <2> QED
      BY <2>1, NoWork DEF UndoNext, TypeOK, Hist, UndoSound, RingOK
  <1>1. CASE undo.current = None
    <2>1. pc' = "idle" /\ undo' = undo
      BY <1>1 DEF UndoNext
    <2> QED
      BY <1>0, <1>1, <2>1 DEF Hist, Retraced, AllInvert, TextAfter
  <1>2. CASE undo.current # None
    <2>1. /\ undo' = [undo EXCEPT !.current = IF undo.current = undo.first THEN None ELSE prev]
          /\ pc' = IF \/ undo.current = undo.first
                      \/ undo.ring[prev].bd
                      \/ undo.ring[prev].kind = "none"
                   THEN "idle" ELSE "loop"
      BY <1>2 DEF UndoNext
    <2>2. /\ undo'.ring = undo.ring /\ undo'.first = undo.first /\ undo'.last = undo.last
          /\ undo'.current = IF undo.current = undo.first THEN None ELSE prev
      BY <1>0, <2>1 DEF Undo_Type
    <2>3. undo.current \in Slots /\ undo.last \in Slots /\ undo.first \in Slots /\ InWindow(undo, undo.current)
      BY <1>0, <1>2 DEF Undo_Type, RingSound
    <2>4. text = was[undo.current]
      <3>1. was[undo.current] = Goal
        BY <1>0, <1>2 DEF Hist, Retraced
      <3> QED
        BY <1>0, <3>1, GoalReached
    <2>5. ASSUME undo.current # undo.first PROVE prev # undo.last /\ prev \in Slots /\ Succ(prev) = undo.current
      <3>1. prev \in Slots /\ Succ(prev) = undo.current
        BY <2>3, SlotType, SuccPred
      <3>2. prev # undo.last
        BY <2>3, <2>5, MaxUndosAssumption DEF InWindow, Pred, Slots
      <3> QED
        BY <3>1, <3>2
    <2>6. undo'.current # None => text' = After(undo.current)'
      <3> SUFFICES ASSUME undo'.current # None PROVE text' = After(undo.current)'
        OBVIOUS
      <3>1. undo.current # undo.first /\ undo'.current = prev
        BY <2>2
      <3>2. prev # undo.last /\ Succ(prev) = undo.current
        BY <2>5, <3>1
      <3> HIDE DEF prev
      <3> QED
        BY <1>0, <2>2, <2>4, <3>1, <3>2 DEF After
    <2>7. pc' \in {"idle", "loop"} /\ (pc' = "loop" => undo'.current # None)
      <3>1. pc' = "loop" => undo.current # undo.first
        BY <2>1
      <3>2. undo.current # undo.first => prev # None
        BY <2>5, SlotType
      <3> QED
        BY <2>1, <2>2, <3>1, <3>2
    <2>8. AllInvert(undo, was, text)'
      BY <1>0, <2>2 DEF AllInvert, TextAfter, InWindow
    <2> QED
      BY <1>0, <2>6, <2>7, <2>8 DEF Hist, Retraced
  <1> QED
    BY <1>1, <1>2

LEMMA InitHist == Init => Hist
  <1> SUFFICES ASSUME Init PROVE Hist
    OBVIOUS
  <1>1. /\ undo = NoUndo /\ was = [i \in Slots |-> InitText] /\ text = InitText
        /\ pc = "idle" /\ nl = FALSE
    BY DEF Init
  <1>2. /\ NoUndo.current = None /\ NoUndo.last = 0 /\ 0 \in Slots
        /\ \A i \in Slots : NoUndo.ring[i].kind = "none" /\ NoUndo.ring[i].buf = <<>>
    BY SlotType DEF NoUndo, Blank
  <1>3. AllInvert(undo, was, text)
    BY <1>1, <1>2 DEF AllInvert
  <1> QED
    BY <1>1, <1>2, <1>3 DEF Hist, Retraced

LEMMA HistInductive ==
  ASSUME MaxUndos > 1, HistInv, [Next]_vars
  PROVE  HistInv'
  <1>0. UndoSound /\ (trusted => Hist) /\ UndoSound'
    BY RingInductive DEF HistInv
  <1>1. ASSUME trusted' PROVE Hist'
    <2>1. CASE Work
      BY <1>0, <1>1, <2>1, InsertNewlineHist, InsertRunHist, DeleteSegmentHist, DeleteBytesHist,
         RefusedHist DEF Work
    <2>2. CASE Edit
      BY <1>0, <1>1, <2>2, EditHist
    <2>3. CASE Control
      BY <1>0, <1>1, <2>3, ControlHist
    <2>4. CASE UndoBegin
      BY <1>0, <1>1, <2>4, UndoBeginHist
    <2>5. CASE UndoStep
      BY <1>0, <1>1, <2>5, UndoObjectAtHist, UndoNextHist DEF UndoStep
    <2>6. CASE UNCHANGED vars
      BY <1>0, <1>1, <2>6 DEF vars, Hist, Retraced, AllInvert, TextAfter, After, Goal
    <2> QED
      BY <2>1, <2>2, <2>3, <2>4, <2>5, <2>6 DEF Next
  <1> QED
    BY <1>0, <1>1 DEF HistInv

LEMMA HistRecords == UndoSound /\ (trusted => Hist) => RecordsInvert
  <1> SUFFICES ASSUME UndoSound, Hist, NEW i \in Slots, InWindow(undo, i),
                      undo.ring[i].kind # "none"
               PROVE  Reverts(undo.ring[i], After(i), was[i])
    BY DEF RecordsInvert
  <1>1. Inverts(undo.ring[i], After(i), was[i])
    BY DEF Hist, AllInvert, TextAfter, After
  <1>2. undo.ring[i].kind \in Kinds
    BY DEF UndoSound, TypeOK, Undo_Type, UndoObject
  <1>3. After(i) \in Text
    BY SlotType DEF UndoSound, TypeOK, After
  <1> QED
    BY <1>1, <1>2, <1>3, InvertsReverts

LEMMA HistRetraces == UndoSound /\ (trusted => Hist) => UndoRetracesHistory
  <1> SUFFICES ASSUME UndoSound, trusted, Hist PROVE UndoRetracesHistory
    BY DEF UndoRetracesHistory
  <1> DEFINE r == undo.ring[undo.current]
  <1>1. ASSUME pc = "loop" PROVE ~Outside(r) /\ r.point <= LineLen(text, r.line)
    <2>1. MoreUndoInfo /\ text = After(undo.current) /\ text \in Text
      BY <1>1 DEF UndoSound, RingOK, Hist, Retraced, TypeOK
    <2>2. Inverts(r, text, was[undo.current])
      BY <2>1, CurrentInverts DEF MoreUndoInfo
    <2>3. /\ r.line <= MaxLineNum(text) /\ (r.kind = "NLINSERT" => r.line # MaxLineNum(text))
          /\ r.point <= LineLen(text, r.line)
          /\ r.line \in Nat /\ MaxLineNum(text) \in Nat
      BY <2>1, <2>2, InvertsInside
    <2> HIDE DEF r
    <2> QED
      BY <2>3 DEF Outside
  <1>2. ASSUME undo.current # None, ~Working
        PROVE  text = IF pc = "apply" THEN was[undo.current] ELSE After(undo.current)
    <2>1. seg = 0 /\ Goal = text /\ pc \in {"idle", "loop", "apply"}
      BY <1>2, NoWork, GoalReached DEF UndoSound, TypeOK
    <2> QED
      BY <1>2, <2>1 DEF Hist, Retraced
  <1> QED
    BY <1>1, <1>2 DEF UndoRetracesHistory

(* Every object in the ring, merged, split or cut off by the ring's end,   *)
(* takes the text after its changes back to the text before them, as long  *)
(* as all changes are recorded (undo.c: record_insertion, record_deletion).*)
THEOREM UndoRecordsInvert ==
  ASSUME MaxUndos > 1
  PROVE  Spec => []RecordsInvert
  <1>1. Init => HistInv
    BY InitRing, InitHist DEF HistInv
  <1>2. HistInv /\ [Next]_vars => HistInv'
    BY HistInductive
  <1>3. HistInv => RecordsInvert
    BY HistRecords DEF HistInv
  <1> QED
    BY <1>1, <1>2, <1>3, PTL DEF Spec

(* undo() goes back through the texts there were: it is always at the      *)
(* object that left the text as it is, finds its place, and has the text   *)
(* from before when it is through with it (undo.c: undo).                  *)
THEOREM UndoRetraces ==
  ASSUME MaxUndos > 1
  PROVE  Spec => []UndoRetracesHistory
  <1>1. Init => HistInv
    BY InitRing, InitHist DEF HistInv
  <1>2. HistInv /\ [Next]_vars => HistInv'
    BY HistInductive
  <1>3. HistInv => UndoRetracesHistory
    BY HistRetraces DEF HistInv
  <1> QED
    BY <1>1, <1>2, <1>3, PTL DEF Spec
=============================================================================
