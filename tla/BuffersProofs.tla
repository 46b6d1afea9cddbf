---------------------------- MODULE BuffersProofs ----------------------------
(***************************************************************************)
(* Proofs about Buffers: what points to buffers, what is known of their    *)
(* files, and what killing deletes, for any number of buffers, files,      *)
(* windows, versions and commands, as long as users and other programs     *)
(* keep to what the code is prepared for (Lapses).                         *)
(***************************************************************************)
EXTENDS Buffers, FiniteSetTheorems, SequenceTheorems, WellFoundedInduction, TLAPS

-----------------------------------------------------------------------------
(* The inductive invariant of the pointers.                                *)

Bufs == UNION {[L -> Buffer] : L \in SUBSET Addr}
Editor == [bufs: Bufs, cbuf: Addr, win: [1..NumWindows -> Addr],
           last: Addr \cup {Null}, paste: Addr \cup {Null}]

(* A buffer other than " <paste>", which windows and commands get.         *)
Plain(e, b) == b \in DOMAIN e.bufs /\ ~Internal(e, b)

Sound(e) ==
  /\ e \in Editor
  /\ \A b, c \in DOMAIN e.bufs : e.bufs[b].name = e.bufs[c].name => b = c
  /\ Plain(e, e.cbuf) /\ \A i \in 1..NumWindows : Plain(e, e.win[i])
  /\ e.last # Null => Plain(e, e.last)
  /\ e.paste # Null => e.paste \in DOMAIN e.bufs /\ Internal(e, e.paste)
  /\ \A b \in DOMAIN e.bufs :
       Internal(e, b) => e.bufs[b].path = None /\ e.bufs[b].inode = None

Jobs == [path: Paths \cup {None}, buf: Addr \cup {Null}, this: Addr \cup {Null},
         window: BOOLEAN, kill: BOOLEAN, declined: BOOLEAN]
Disks == [Paths -> File \cup {None}]
Asking == {"reread", "attach", "overwrite", "write", "modified", "kill"}

(* The variables of the command under way.                                 *)
JobSound ==
  /\ pc = "idle" => job = NoJob
  /\ pc \in {"find", "reread", "attach", "overwrite", "write"} => job.path \in Paths
  /\ job.buf # Null => pc \in Asking /\ Plain(ed, job.buf)
  /\ pc \in {"reread", "attach", "modified", "kill"} \/ job.kill => job.buf # Null
  /\ job.buf # Null /\ pc # "reread" => ed.cbuf = job.buf
  /\ pc \in {"modified", "overwrite", "write", "kill"} => Plain(ed, job.this)
  /\ job.kill => pc \in {"overwrite", "write", "kill"}

PointersInv ==
  /\ Sound(ed)
  /\ disk \in Disks
  /\ pc \in Asking \cup {"idle", "find"} /\ job \in Jobs
  /\ count \in [versions: Nat, steps: Nat]
  /\ JobSound

Stamped(e) == \A b \in DOMAIN e.bufs : e.bufs[b].c_time <= e.bufs[b].seen
Pathed(e) == \A b \in DOMAIN e.bufs : e.bufs[b].path = None => e.bufs[b].inode = None

(* While files are written by JED only, the file that will be read, or     *)
(* written by the current buffer, is one the user knows of.                *)
StampsSound ==
  /\ Stamped(ed)
  /\ pc \in {"attach", "overwrite", "write"} => Version(disk, job.path) <= ed.bufs[ed.cbuf].seen

(* A file has one version under all its names.                             *)
DiskSound(d) ==
  \A p, q \in Paths :
    d[p] # None /\ d[q] # None /\ d[p].inode = d[q].inode => d[p] = d[q]

(* A buffer that has no file has an inode only while it is being saved     *)
(* over one.                                                               *)
FilesSound ==
  /\ DiskSound(disk)
  /\ \A b \in Live :
       ed.bufs[b].path = None /\ ed.bufs[b].inode # None
       => pc \in {"overwrite", "write"} /\ b = ed.cbuf /\ disk[job.path] # None

(* What is killed without a question has no changes, unless the user has   *)
(* declined to save them.                                                  *)
KillSound == pc = "kill" /\ ~job.declined => ~ed.bufs[job.buf].modified

BuffersInv ==
  /\ PointersInv
  /\ "race" \notin Lapses => StampsSound
  /\ "race" \notin Lapses /\ "unnamed" \notin Lapses => FilesSound
  /\ KillSound

-----------------------------------------------------------------------------
(* Numbers and editors.                                                    *)

(* The least number of a set is in it.                                     *)
LEMMA NatMin ==
  ASSUME NEW S, S \subseteq Nat, S # {}
  PROVE  Min(S) \in S /\ \A x \in S : Min(S) <= x
  <1> DEFINE R == {ss \in Nat \X Nat : ss[1] < ss[2]}
  <1>0. IsWellFoundedOn(R, Nat)
    BY NatLessThanWellFounded DEF OpToRel
  <1>1. PICK n \in S : \A m \in S : <<m, n>> \notin R
    BY <1>0, WFMin
  <1>2. ASSUME NEW m \in S
        PROVE  n <= m
    <2>1. m \in Nat /\ n \in Nat /\ <<m, n>> \in Nat \X Nat /\ <<m, n>>[1] = m /\ <<m, n>>[2] = n
      OBVIOUS
    <2>2. ~(m < n)
      BY <1>1, <2>1, Zenon
    <2> QED
      BY <2>1, <2>2
  <1>3. \E x \in S : \A y \in S : x <= y
    BY <1>2
  <1> QED
    BY <1>3 DEF Min

LEMMA BufsType ==
  /\ \A f \in Bufs : DOMAIN f \subseteq Addr /\ f \in [DOMAIN f -> Buffer]
  /\ \A L \in SUBSET Addr : \A f \in [L -> Buffer] : f \in Bufs /\ DOMAIN f = L
  BY DEF Bufs

LEMMA EditorType ==
  ASSUME NEW e \in Editor
  PROVE  /\ DOMAIN e.bufs \subseteq Addr /\ e.bufs \in [DOMAIN e.bufs -> Buffer]
         /\ \A b \in DOMAIN e.bufs : e.bufs[b] \in Buffer
         /\ e.win \in [1..NumWindows -> Addr] /\ Null \notin DOMAIN e.bufs
  <1>1. e.bufs \in Bufs /\ e.win \in [1..NumWindows -> Addr]
    BY DEF Editor
  <1>2. DOMAIN e.bufs \subseteq Addr /\ e.bufs \in [DOMAIN e.bufs -> Buffer]
    BY <1>1, BufsType
  <1> QED
    BY <1>1, <1>2 DEF Addr, Null

(* The table of the buffers is exchanged.                                  *)
LEMMA NewTable ==
  ASSUME NEW e \in Editor, NEW L \in SUBSET Addr, NEW f \in [L -> Buffer]
  PROVE  /\ [e EXCEPT !.bufs = f] \in Editor
         /\ [e EXCEPT !.bufs = f].bufs = f /\ DOMAIN f = L
         /\ [e EXCEPT !.bufs = f].cbuf = e.cbuf
         /\ [e EXCEPT !.bufs = f].win = e.win
         /\ [e EXCEPT !.bufs = f].last = e.last
         /\ [e EXCEPT !.bufs = f].paste = e.paste
  <1>1. f \in Bufs /\ DOMAIN f = L
    BY BufsType
  <1> QED
    BY <1>1 DEF Editor

(* One buffer is exchanged.                                                *)
LEMMA PutBuffer ==
  ASSUME NEW e \in Editor, NEW b \in DOMAIN e.bufs, NEW r \in Buffer
  PROVE  LET f == [e EXCEPT !.bufs[b] = r]
         IN /\ f \in Editor /\ DOMAIN f.bufs = DOMAIN e.bufs /\ f.bufs[b] = r
            /\ \A c \in DOMAIN e.bufs \ {b} : f.bufs[c] = e.bufs[c]
            /\ f.cbuf = e.cbuf /\ f.win = e.win /\ f.last = e.last /\ f.paste = e.paste
  <1> DEFINE t == [e.bufs EXCEPT ![b] = r]
  <1>1. /\ DOMAIN e.bufs \in SUBSET Addr /\ t \in [DOMAIN e.bufs -> Buffer] /\ t[b] = r
        /\ \A c \in DOMAIN e.bufs \ {b} : t[c] = e.bufs[c]
    BY EditorType
  <1>2. [e EXCEPT !.bufs[b] = r] = [e EXCEPT !.bufs = t]
    OBVIOUS
  <1> HIDE DEF t
  <1> QED
    BY <1>1, <1>2, NewTable

LEMMA AddrCount == IsFiniteSet(Addr) /\ Cardinality(Addr) = MaxBuffers
  BY BuffersAssumption, FS_Interval DEF Addr

(* There is a number that makes the name unique.                           *)
LEMMA FreeNumber ==
  ASSUME NEW e \in Editor, NEW b \in DOMAIN e.bufs, NEW base
  PROVE  LET taken == {e.bufs[c].name : c \in DOMAIN e.bufs \ {b}}
             n == Min({k \in 0..Cardinality(Addr) : <<base, k>> \notin taken})
         IN n \in Nat /\ <<base, n>> \notin taken
  <1> DEFINE taken == {e.bufs[c].name : c \in DOMAIN e.bufs \ {b}}
             free == {k \in 0..Cardinality(Addr) : <<base, k>> \notin taken}
  <1>1. free # {}
    <2> SUFFICES ASSUME free = {}
                 PROVE  FALSE
      OBVIOUS
    <2> DEFINE f == [k \in 0..MaxBuffers |-> CHOOSE c \in Addr : e.bufs[c].name = <<base, k>>]
    <2>1. ASSUME NEW k \in 0..MaxBuffers
          PROVE  \E c \in Addr : e.bufs[c].name = <<base, k>>
      <3>1. k \in 0..Cardinality(Addr)
        BY AddrCount
      <3>2. <<base, k>> \in taken
        BY <3>1
      <3> QED
        BY <3>2, EditorType
    <2>2. f \in [0..MaxBuffers -> Addr] /\ \A k \in 0..MaxBuffers : e.bufs[f[k]].name = <<base, k>>
      BY <2>1
    <2>3. IsFiniteSet(0..MaxBuffers) /\ Cardinality(0..MaxBuffers) = MaxBuffers + 1
      BY BuffersAssumption, FS_Interval
    <2>4. IsFiniteSet(Addr) /\ Cardinality(Addr) < Cardinality(0..MaxBuffers)
      BY <2>3, AddrCount, BuffersAssumption
    <2> HIDE DEF f
    <2>5. PICK k, l \in 0..MaxBuffers : k # l /\ f[k] = f[l]
      <3>1. \E k, l \in 0..MaxBuffers : k # l /\ f[k] = f[l]
        BY ONLY <2>2, <2>3, <2>4, FS_PigeonHole
      <3> QED
        BY <3>1
    <2> QED
      BY <2>2, <2>5
  <1>2. free \subseteq Nat
    BY AddrCount, BuffersAssumption
  <1>3. Min(free) \in free
    BY <1>1, <1>2, NatMin
  <1> QED
    BY <1>2, <1>3

-----------------------------------------------------------------------------
(* Steps that keep an editor sound.                                        *)

(* Records of buffers change, but for their names.                         *)
LEMMA Reworked ==
  ASSUME NEW e, Sound(e), NEW f \in Editor,
         f.cbuf = e.cbuf, f.win = e.win, f.last = e.last, f.paste = e.paste,
         DOMAIN f.bufs = DOMAIN e.bufs,
         \A b \in DOMAIN e.bufs :
           /\ f.bufs[b].name = e.bufs[b].name
           /\ Internal(e, b) => f.bufs[b].path = None /\ f.bufs[b].inode = None
  PROVE  Sound(f) /\ \A b \in DOMAIN e.bufs : Internal(f, b) <=> Internal(e, b)
  <1>1. \A b \in DOMAIN e.bufs : Internal(f, b) <=> Internal(e, b)
    BY DEF Internal
  <1> QED
    BY <1>1 DEF Sound, Plain

(* What points to buffers changes.                                         *)
LEMMA Pointed ==
  ASSUME NEW e, Sound(e), NEW f,
         f = [bufs |-> f.bufs, cbuf |-> f.cbuf, win |-> f.win, last |-> f.last, paste |-> f.paste],
         f.bufs = e.bufs, f.paste = e.paste,
         f.win \in [1..NumWindows -> DOMAIN e.bufs],
         Plain(e, f.cbuf), \A i \in 1..NumWindows : Plain(e, f.win[i]),
         f.last = Null \/ Plain(e, f.last)
  PROVE  Sound(f) /\ \A b : Plain(f, b) <=> Plain(e, b)
  <1>1. DOMAIN e.bufs \subseteq Addr /\ e.bufs \in Bufs /\ e.paste \in Addr \cup {Null}
    BY EditorType DEF Sound, Editor
  <1>2. f.cbuf \in Addr /\ f.last \in Addr \cup {Null} /\ f.win \in [1..NumWindows -> Addr]
    BY <1>1 DEF Plain
  <1>3. f \in Editor
    BY <1>1, <1>2 DEF Editor
  <1>4. \A b : (Plain(f, b) <=> Plain(e, b)) /\ (Internal(f, b) <=> Internal(e, b))
    BY DEF Plain, Internal
  <1> QED
    BY <1>3, <1>4 DEF Sound

LEMMA SwitchedSound ==
  ASSUME NEW e, Sound(e), NEW b, Plain(e, b)
  PROVE  Sound(Switched(e, b)) /\ \A c : Plain(Switched(e, b), c) <=> Plain(e, c)
  <1>1. e.win \in [1..NumWindows -> DOMAIN e.bufs] /\ e \in Editor
    BY EditorType DEF Sound, Plain
  <1>2. LET f == Switched(e, b)
        IN /\ f = [bufs |-> f.bufs, cbuf |-> f.cbuf, win |-> f.win, last |-> f.last, paste |-> f.paste]
           /\ f.bufs = e.bufs /\ f.paste = e.paste /\ f.win = e.win /\ f.cbuf = b /\ f.last = e.last
    BY <1>1 DEF Switched, Editor
  <1> QED
    BY <1>1, <1>2, Pointed DEF Sound

(* A buffer gets a name that no other buffer has.                          *)
LEMMA NamedSound ==
  ASSUME NEW e \in Editor, NEW b \in DOMAIN e.bufs, NEW base \in Names
  PROVE  LET f == UniquelyNamed(e, b, base)
         IN /\ f \in Editor /\ DOMAIN f.bufs = DOMAIN e.bufs
            /\ f.cbuf = e.cbuf /\ f.win = e.win /\ f.last = e.last /\ f.paste = e.paste
            /\ \A c \in DOMAIN e.bufs \ {b} : f.bufs[c] = e.bufs[c] /\ f.bufs[c].name # f.bufs[b].name
            /\ f.bufs[b].name[1] = base
            /\ f.bufs[b].path = e.bufs[b].path /\ f.bufs[b].inode = e.bufs[b].inode
            /\ f.bufs[b].c_time = e.bufs[b].c_time /\ f.bufs[b].modified = e.bufs[b].modified
            /\ f.bufs[b].seen = e.bufs[b].seen
  <1> DEFINE taken == {e.bufs[c].name : c \in DOMAIN e.bufs \ {b}}
  <1>1. PICK n \in Nat : <<base, n>> \notin taken
                         /\ UniquelyNamed(e, b, base) = [e EXCEPT !.bufs[b].name = <<base, n>>]
    BY FreeNumber DEF UniquelyNamed
  <1>2. PICK r : r = [e.bufs[b] EXCEPT !.name = <<base, n>>]
    OBVIOUS
  <1>3. /\ r \in Buffer /\ r.name = <<base, n>> /\ r.path = e.bufs[b].path
        /\ r.inode = e.bufs[b].inode /\ r.c_time = e.bufs[b].c_time
        /\ r.modified = e.bufs[b].modified /\ r.seen = e.bufs[b].seen
    <2>1. e.bufs[b] \in Buffer
      BY EditorType
    <2>2. <<base, n>> \in Names \X Nat
      BY <1>1
    <2> QED
      BY ONLY <1>2, <2>1, <2>2 DEF Buffer
  <1>4. UniquelyNamed(e, b, base) = [e EXCEPT !.bufs[b] = r]
    BY <1>1, <1>2
  <1>5. \A c \in DOMAIN e.bufs \ {b} : e.bufs[c].name # <<base, n>>
    BY <1>1
  <1> HIDE DEF taken
  <1> QED
    BY <1>3, <1>4, <1>5, PutBuffer

-----------------------------------------------------------------------------
(* Making buffers.                                                         *)

(* A buffer as make_buffer leaves it.                                      *)
Fresh(r) == r.path = None /\ r.inode = None /\ r.c_time = 0 /\ ~r.modified /\ r.seen = 0

SamePointers(e, f) == f.cbuf = e.cbuf /\ f.win = e.win /\ f.last = e.last /\ f.paste = e.paste

(* f is e with a new buffer b.                                             *)
Added(e, f, b, base) ==
  /\ f \in Editor /\ b \in Addr \ DOMAIN e.bufs
  /\ DOMAIN f.bufs = DOMAIN e.bufs \cup {b} /\ SamePointers(e, f)
  /\ \A c \in DOMAIN e.bufs : f.bufs[c] = e.bufs[c] /\ f.bufs[c].name # f.bufs[b].name
  /\ f.bufs[b].name[1] = base /\ Fresh(f.bufs[b])

LEMMA MadeAdded ==
  ASSUME NEW e \in Editor, NEW base \in Names, NEW made \in MakeBuffer(e, base)
  PROVE  made = <<made[1], made[2]>> /\ Added(e, made[1], made[2], base)
  <1>1. PICK b \in Addr \ DOMAIN e.bufs :
          made = <<UniquelyNamed([e EXCEPT !.bufs = [c \in DOMAIN e.bufs \cup {b} |->
                                         IF c = b THEN NewBuffer(base) ELSE e.bufs[c]]],
                                 b, base), b>>
    BY DEF MakeBuffer
  <1> DEFINE L == DOMAIN e.bufs \cup {b}
             t == [c \in L |-> IF c = b THEN NewBuffer(base) ELSE e.bufs[c]]
  <1>2. NewBuffer(base) \in Buffer /\ Fresh(NewBuffer(base))
    BY DEF NewBuffer, Buffer, Fresh
  <1>3. /\ L \in SUBSET Addr /\ t \in [L -> Buffer] /\ t[b] = NewBuffer(base)
        /\ \A c \in DOMAIN e.bufs : t[c] = e.bufs[c]
    BY <1>2, EditorType
  <1> HIDE DEF t
  <1>4. PICK d : d = [e EXCEPT !.bufs = t]
    OBVIOUS
  <1>5. /\ d \in Editor /\ d.bufs = t /\ DOMAIN t = L
        /\ d.cbuf = e.cbuf /\ d.win = e.win /\ d.last = e.last /\ d.paste = e.paste
    BY <1>3, <1>4, NewTable
  <1>6. made = <<UniquelyNamed(d, b, base), b>>
    BY <1>1, <1>4 DEF t
  <1>7. PICK f : f = UniquelyNamed(d, b, base)
    OBVIOUS
  <1>8. /\ f \in Editor /\ DOMAIN f.bufs = L
        /\ f.cbuf = d.cbuf /\ f.win = d.win /\ f.last = d.last /\ f.paste = d.paste
        /\ \A c \in L \ {b} : f.bufs[c] = d.bufs[c] /\ f.bufs[c].name # f.bufs[b].name
        /\ f.bufs[b].name[1] = base
        /\ f.bufs[b].path = d.bufs[b].path /\ f.bufs[b].inode = d.bufs[b].inode
        /\ f.bufs[b].c_time = d.bufs[b].c_time /\ f.bufs[b].modified = d.bufs[b].modified
        /\ f.bufs[b].seen = d.bufs[b].seen
    BY <1>5, <1>7, NamedSound
  <1>9. Fresh(f.bufs[b])
    BY <1>2, <1>3, <1>5, <1>8 DEF Fresh
  <1>10. Added(e, f, b, base)
    BY <1>3, <1>5, <1>8, <1>9 DEF Added, SamePointers
  <1> QED
    BY <1>6, <1>7, <1>10

(* The buffers of e are those of f, which has more that are new.           *)
Extends(e, f) ==
  /\ DOMAIN e.bufs \subseteq DOMAIN f.bufs
  /\ \A c \in DOMAIN e.bufs : f.bufs[c] = e.bufs[c]
  /\ \A c \in DOMAIN f.bufs \ DOMAIN e.bufs : Fresh(f.bufs[c])

LEMMA AddedSound ==
  ASSUME NEW e, Sound(e), NEW f, NEW b, NEW base, Added(e, f, b, base)
  PROVE  /\ Sound(f) /\ Extends(e, f)
         /\ base # Paste => Plain(f, b)
         /\ \A c : Plain(e, c) => Plain(f, c)
  <1>1. \A c \in DOMAIN e.bufs : Internal(f, c) <=> Internal(e, c)
    BY DEF Added, Internal
  <1>2. \A c : Plain(e, c) => Plain(f, c)
    BY <1>1 DEF Added, Plain
  <1>3. Sound(f)
    BY <1>1, <1>2 DEF Added, SamePointers, Fresh, Sound
  <1>4. base # Paste => Plain(f, b)
    BY DEF Added, Plain, Internal
  <1>5. Extends(e, f)
    BY DEF Added, Extends
  <1> QED
    BY <1>2, <1>3, <1>4, <1>5

LEMMA FindOrMakeSound ==
  ASSUME NEW e, Sound(e), NEW base \in Names \ {Paste}, NEW made \in FindOrMake(e, base)
  PROVE  /\ Sound(made[1]) /\ Extends(e, made[1]) /\ SamePointers(e, made[1])
         /\ Plain(made[1], made[2]) /\ \A c : Plain(e, c) => Plain(made[1], c)
  <1>1. CASE Named(e, base) # {}
    <2>1. PICK b \in Named(e, base) : made = <<e, b>>
      BY <1>1 DEF FindOrMake
    <2>2. Plain(e, b)
      BY DEF Named, Plain, Internal
    <2> QED
      BY <2>1, <2>2 DEF Extends, SamePointers
  <1>2. CASE Named(e, base) = {}
    <2>1. Added(e, made[1], made[2], base)
      BY <1>2, MadeAdded DEF FindOrMake, Sound
    <2> QED
      BY <2>1, AddedSound DEF Added
  <1> QED
    BY <1>1, <1>2

LEMMA NamesOf ==
  Scratch \in Names \ {Paste} /\ Paste \in Names /\ UserNames \subseteq Names \ {Paste}
  /\ \A p \in Paths : FileName[p] \in Names \ {Paste}
  <1>1. Scratch # Paste
    <2> SUFFICES ASSUME Scratch = Paste
                 PROVE  FALSE
      OBVIOUS
    <2>1. {Scratch, Paste, None} = {Paste} \cup {None}
      OBVIOUS
    <2>2. IsFiniteSet({Paste}) /\ Cardinality({Paste}) = 1
      BY FS_Singleton
    <2>3. Cardinality({Paste} \cup {None}) <= 2
      BY <2>2, FS_AddElement
    <2> QED
      BY <2>1, <2>3, BuffersAssumption
  <1> QED
    BY <1>1, BuffersAssumption DEF Names

-----------------------------------------------------------------------------
(* Killing buffers.                                                        *)

LEMMA NonVisiblePlain ==
  ASSUME NEW e, NEW kill, NEW scratch, Plain(e, scratch), NEW b \in NonVisible(e, kill, scratch)
  PROVE  Plain(e, b) /\ (kill # scratch => b # kill)
  BY DEF NonVisible, Plain

LEMMA ReplacedPlain ==
  ASSUME NEW e \in Editor, NEW kill, NEW scratch, Plain(e, scratch), kill # scratch,
         \A i \in 1..NumWindows : Plain(e, e.win[i]),
         NEW g \in Replaced(e, kill, scratch)
  PROVE  /\ g = [e EXCEPT !.win = g.win] /\ g.win \in [1..NumWindows -> DOMAIN e.bufs]
         /\ \A i \in 1..NumWindows : Plain(e, g.win[i]) /\ g.win[i] # kill
  <1>1. PICK to \in [1..NumWindows -> DOMAIN e.bufs] :
          /\ g = [e EXCEPT !.win = to]
          /\ \A i \in 1..NumWindows :
               IF e.win[i] # kill THEN to[i] = e.win[i]
               ELSE to[i] \in NonVisible(Shown(e, to, i), kill, scratch)
    BY DEF Replaced
  <1>2. g.win = to
    BY <1>1 DEF Editor
  <1>3. ASSUME NEW i \in 1..NumWindows
        PROVE  Plain(e, to[i]) /\ to[i] # kill
    <2>1. CASE e.win[i] # kill
      BY <1>1, <2>1
    <2>2. CASE e.win[i] = kill
      <3>1. PICK d : d = Shown(e, to, i)
        OBVIOUS
      <3>2. d.bufs = e.bufs
        BY <3>1 DEF Shown, Editor
      <3>3. \A c : Plain(d, c) = Plain(e, c)
        BY <3>2 DEF Plain, Internal
      <3>4. to[i] \in NonVisible(d, kill, scratch)
        BY <1>1, <2>2, <3>1
      <3> QED
        BY <3>3, <3>4, NonVisiblePlain
    <2> QED
      BY <2>1, <2>2
  <1> QED
    BY <1>1, <1>2, <1>3

LEMMA DeletedTable ==
  ASSUME NEW e \in Editor, NEW b
  PROVE  LET f == Deleted(e, b)
         IN /\ f \in Editor /\ SamePointers(e, f) /\ DOMAIN f.bufs = DOMAIN e.bufs \ {b}
            /\ \A c \in DOMAIN e.bufs \ {b} : f.bufs[c] = e.bufs[c]
  <1> DEFINE t == [c \in DOMAIN e.bufs \ {b} |-> e.bufs[c]]
  <1>1. DOMAIN e.bufs \ {b} \in SUBSET Addr /\ t \in [DOMAIN e.bufs \ {b} -> Buffer]
    BY EditorType
  <1>2. Deleted(e, b) = [e EXCEPT !.bufs = t] /\ \A c \in DOMAIN e.bufs \ {b} : t[c] = e.bufs[c]
    BY DEF Deleted
  <1> HIDE DEF t
  <1> QED
    BY <1>1, <1>2, NewTable DEF SamePointers

LEMMA DeletedSound ==
  ASSUME NEW e, Sound(e), NEW b, b # e.cbuf, b # e.last, b # e.paste,
         \A i \in 1..NumWindows : b # e.win[i]
  PROVE  Sound(Deleted(e, b)) /\ \A c : Plain(Deleted(e, b), c) <=> Plain(e, c) /\ c # b
  <1>1. PICK f : f = Deleted(e, b)
    OBVIOUS
  <1>2. /\ f \in Editor /\ SamePointers(e, f) /\ DOMAIN f.bufs = DOMAIN e.bufs \ {b}
        /\ \A c \in DOMAIN e.bufs \ {b} : f.bufs[c] = e.bufs[c]
    BY <1>1, DeletedTable DEF Sound
  <1>3. \A c \in DOMAIN f.bufs : Internal(f, c) <=> Internal(e, c)
    BY <1>2 DEF Internal
  <1>4. \A c : Plain(f, c) <=> Plain(e, c) /\ c # b
    BY <1>2, <1>3 DEF Plain
  <1>5. Sound(f)
    BY <1>2, <1>3, <1>4 DEF Sound, SamePointers
  <1> QED
    BY <1>1, <1>4, <1>5 DEF Plain

(* What changes of buffers no invariant of files looks at.                 *)
SameFile(r, s) ==
  r.path = s.path /\ r.inode = s.inode /\ r.c_time = s.c_time /\ r.seen = s.seen

(* The buffers of e, but maybe for kill, are those of g; others are new.   *)
Survives(e, g, kill) ==
  /\ \A c \in DOMAIN e.bufs \ {kill} : c \in DOMAIN g.bufs /\ g.bufs[c] = e.bufs[c]
  /\ \A c \in DOMAIN g.bufs :
       \/ Fresh(g.bufs[c])
       \/ c \in DOMAIN e.bufs /\ SameFile(g.bufs[c], e.bufs[c])

LEMMA KilledSound ==
  ASSUME NEW e, Sound(e), NEW kill, Plain(e, kill), NEW this, Plain(e, this),
         NEW g \in Killed(e, kill, this)
  PROVE  Sound(g) /\ Survives(e, g, kill)
  <1>1. PICK made \in FindOrMake(e, Scratch) :
          g \in IF kill = made[2]
                THEN {[made[1] EXCEPT !.bufs[kill].modified = m, !.cbuf = this] :
                        m \in {TRUE, made[1].bufs[kill].modified}}
                ELSE UNION {
                  {Deleted([h EXCEPT !.last = IF @ = kill THEN Null ELSE @,
                                     !.cbuf = IF this = kill THEN b ELSE this], kill)
                     : b \in NonVisible(h, kill, made[2])}
                  : h \in Replaced(made[1], kill, made[2])}
    BY DEF Killed
  <1>2. PICK f, scratch : f = made[1] /\ scratch = made[2]
    OBVIOUS
  <1>3. /\ Sound(f) /\ Extends(e, f) /\ SamePointers(e, f) /\ Plain(f, scratch)
        /\ Plain(f, kill) /\ Plain(f, this)
    BY <1>2, NamesOf, FindOrMakeSound
  <1>4. f \in Editor /\ Survives(e, f, kill)
    BY <1>3 DEF Sound, Extends, Survives, SameFile
  <1>5. CASE kill = scratch
    <2>1. PICK m \in BOOLEAN : g = [f EXCEPT !.bufs[kill].modified = m, !.cbuf = this]
      <3>1. f.bufs[kill].modified \in BOOLEAN
        BY <1>3, <1>4, EditorType DEF Plain, Buffer
      <3> QED
        BY <1>1, <1>2, <1>5, <3>1
    <2>2. PICK r \in Buffer : r = [f.bufs[kill] EXCEPT !.modified = m]
      <3>1. f.bufs[kill] \in Buffer
        BY <1>3, <1>4, EditorType DEF Plain
      <3> QED
        BY <3>1 DEF Buffer
    <2>3. SameFile(r, f.bufs[kill]) /\ r.name = f.bufs[kill].name
      <3>1. f.bufs[kill] \in Buffer
        BY <1>3, <1>4, EditorType DEF Plain
      <3> QED
        BY ONLY <2>2, <3>1 DEF SameFile, Buffer
    <2>4. PICK h : h = [f EXCEPT !.bufs[kill] = r]
      OBVIOUS
    <2>5. /\ h \in Editor /\ DOMAIN h.bufs = DOMAIN f.bufs /\ h.bufs[kill] = r
          /\ \A c \in DOMAIN f.bufs \ {kill} : h.bufs[c] = f.bufs[c]
          /\ h.cbuf = f.cbuf /\ h.win = f.win /\ h.last = f.last /\ h.paste = f.paste
      BY <1>3, <1>4, <2>4, PutBuffer DEF Plain
    <2>6. Sound(h) /\ \A b \in DOMAIN f.bufs : Internal(h, b) <=> Internal(f, b)
      <3>1. \A c \in DOMAIN f.bufs :
              /\ h.bufs[c].name = f.bufs[c].name
              /\ h.bufs[c].path = f.bufs[c].path /\ h.bufs[c].inode = f.bufs[c].inode
        BY <2>3, <2>5 DEF SameFile
      <3>2. \A c \in DOMAIN f.bufs :
              Internal(f, c) => h.bufs[c].path = None /\ h.bufs[c].inode = None
        BY <1>3, <3>1 DEF Sound
      <3> QED
        BY <1>3, <2>5, <3>1, <3>2, Reworked
    <2>7. g = Switched(h, this)
      BY <2>1, <2>2, <2>4 DEF Switched
    <2>8. Sound(g) /\ g.bufs = h.bufs
      <3>1. Plain(h, this)
        BY <1>3, <2>5, <2>6 DEF Plain
      <3> QED
        BY <2>5, <2>6, <2>7, <3>1, SwitchedSound DEF Switched, Editor
    <2>9. \A c \in DOMAIN g.bufs :
            \/ Fresh(g.bufs[c])
            \/ c \in DOMAIN e.bufs /\ SameFile(g.bufs[c], e.bufs[c])
      <3>1. kill \in DOMAIN e.bufs /\ f.bufs[kill] = e.bufs[kill]
        BY <1>3 DEF Extends, Plain
      <3>2. SameFile(g.bufs[kill], e.bufs[kill])
        BY <2>3, <2>5, <2>8, <3>1
      <3>3. \A c \in DOMAIN f.bufs \ {kill} : g.bufs[c] = f.bufs[c]
        BY <2>5, <2>8
      <3> QED
        BY <1>4, <2>5, <2>8, <3>1, <3>2, <3>3 DEF Survives
    <2> QED
      BY <1>4, <2>5, <2>8, <2>9 DEF Survives
  <1>6. CASE kill # scratch
    <2>0. PICK h \in Replaced(f, kill, scratch) : \E b \in NonVisible(h, kill, scratch) :
            g = Deleted([h EXCEPT !.last = IF @ = kill THEN Null ELSE @,
                                  !.cbuf = IF this = kill THEN b ELSE this], kill)
      BY <1>1, <1>2, <1>6
    <2>1. PICK b \in NonVisible(h, kill, scratch) :
            g = Deleted([h EXCEPT !.last = IF @ = kill THEN Null ELSE @,
                                  !.cbuf = IF this = kill THEN b ELSE this], kill)
      BY <2>0
    <2>2. /\ h = [f EXCEPT !.win = h.win] /\ h.win \in [1..NumWindows -> DOMAIN f.bufs]
          /\ \A i \in 1..NumWindows : Plain(f, h.win[i]) /\ h.win[i] # kill
      BY <1>3, <1>4, <1>6, ReplacedPlain DEF Sound
    <2>3. h.bufs = f.bufs /\ h.last = f.last /\ h.paste = f.paste /\ h.cbuf = f.cbuf
      BY <1>4, <2>2 DEF Editor
    <2>4. \A c : Plain(h, c) <=> Plain(f, c)
      BY <2>3 DEF Plain, Internal
    <2>5. Plain(f, b) /\ b # kill
      BY <1>3, <1>6, <2>4, NonVisiblePlain
    <2>6. PICK l, c : l = (IF h.last = kill THEN Null ELSE h.last)
                      /\ c = (IF this = kill THEN b ELSE this)
      OBVIOUS
    <2>7. PICK k : k = [h EXCEPT !.last = l, !.cbuf = c]
      OBVIOUS
    <2>8. g = Deleted(k, kill)
      BY <2>1, <2>6, <2>7
    <2>9. /\ k = [bufs |-> f.bufs, cbuf |-> c, win |-> h.win, last |-> l, paste |-> f.paste]
      BY <1>4, <2>2, <2>3, <2>7 DEF Editor
    <2>10. Plain(f, c) /\ c # kill /\ (l = Null \/ Plain(f, l)) /\ l # kill
      <3>1. kill # Null
        BY <1>3, <1>4, EditorType DEF Plain
      <3> QED
        BY <1>3, <2>3, <2>5, <2>6, <3>1 DEF Sound
    <2>11. Sound(k) /\ k.bufs = f.bufs
      BY <1>3, <2>2, <2>9, <2>10, Pointed
    <2>12. kill # k.paste
      <3>1. kill # Null
        BY <1>3, <1>4, EditorType DEF Plain
      <3>2. f.paste # kill
        BY <1>3, <3>1 DEF Sound, Plain
      <3> QED
        BY <2>9, <3>2
    <2>13. Sound(g)
      BY <2>2, <2>8, <2>9, <2>10, <2>11, <2>12, DeletedSound
    <2>14. DOMAIN g.bufs = DOMAIN f.bufs \ {kill} /\ \A d \in DOMAIN f.bufs \ {kill} : g.bufs[d] = f.bufs[d]
      BY <2>8, <2>11, DeletedTable DEF Sound
    <2> QED
      BY <1>4, <2>13, <2>14 DEF Survives
  <1> QED
    BY <1>5, <1>6

-----------------------------------------------------------------------------
(* Looking at files.                                                       *)

LEMMA DiskTypes ==
  ASSUME NEW d \in Disks, NEW p \in Paths
  PROVE  Version(d, p) \in Nat /\ Inode(d, p) \in Inodes \cup {None}
  <1>1. d[p] # None => d[p] \in File
    BY DEF Disks
  <1> QED
    BY <1>1 DEF Version, Inode, File

LEMMA MaxOfTwo ==
  ASSUME NEW m \in Nat, NEW n \in Nat
  PROVE  Max({m, n}) \in Nat /\ Max({m, n}) >= m /\ Max({m, n}) >= n
  <1>1. \E x \in {m, n} : \A y \in {m, n} : x >= y
    OBVIOUS
  <1>2. Max({m, n}) \in {m, n} /\ \A y \in {m, n} : Max({m, n}) >= y
    BY <1>1 DEF Max
  <1> QED
    BY <1>2

(* f has the buffers of e under their names, and the same pointers.        *)
Like(e, f) ==
  /\ Sound(f) /\ SamePointers(e, f) /\ DOMAIN f.bufs = DOMAIN e.bufs
  /\ \A c : Plain(e, c) <=> Plain(f, c)

LEMMA PutLike ==
  ASSUME NEW e, Sound(e), NEW b, Plain(e, b), NEW r \in Buffer, r.name = e.bufs[b].name
  PROVE  LET f == [e EXCEPT !.bufs[b] = r]
         IN Like(e, f) /\ f.bufs[b] = r /\ \A c \in DOMAIN e.bufs \ {b} : f.bufs[c] = e.bufs[c]
  <1>1. PICK f : f = [e EXCEPT !.bufs[b] = r]
    OBVIOUS
  <1>2. /\ f \in Editor /\ DOMAIN f.bufs = DOMAIN e.bufs /\ f.bufs[b] = r
        /\ \A c \in DOMAIN e.bufs \ {b} : f.bufs[c] = e.bufs[c]
        /\ f.cbuf = e.cbuf /\ f.win = e.win /\ f.last = e.last /\ f.paste = e.paste
    BY <1>1, PutBuffer DEF Sound, Plain
  <1>3. \A c \in DOMAIN e.bufs :
          /\ f.bufs[c].name = e.bufs[c].name
          /\ Internal(e, c) => f.bufs[c].path = None /\ f.bufs[c].inode = None
    BY <1>2 DEF Plain, Sound
  <1>4. Sound(f) /\ \A c \in DOMAIN e.bufs : Internal(f, c) <=> Internal(e, c)
    BY <1>2, <1>3, Reworked
  <1>5. \A c : Plain(e, c) <=> Plain(f, c)
    BY <1>2, <1>4 DEF Plain
  <1> QED
    BY <1>1, <1>2, <1>4, <1>5 DEF Like, SamePointers

LEMMA LookedLike ==
  ASSUME NEW e, Sound(e), NEW b, Plain(e, b), NEW p \in Paths, disk \in Disks
  PROVE  LET f == Looked(e, b, p)
         IN /\ Like(e, f) /\ \A c \in DOMAIN e.bufs \ {b} : f.bufs[c] = e.bufs[c]
            /\ f.bufs[b].path = e.bufs[b].path /\ f.bufs[b].c_time = e.bufs[b].c_time
            /\ f.bufs[b].seen = e.bufs[b].seen /\ f.bufs[b].modified = e.bufs[b].modified
            /\ f.bufs[b].inode = IF e.bufs[b].path = p \/ disk[p] # None
                                 THEN Inode(disk, p) ELSE e.bufs[b].inode
  <1>1. e.bufs[b] \in Buffer
    BY EditorType DEF Sound, Plain
  <1>2. CASE e.bufs[b].path = p \/ disk[p] # None
    <2>1. PICK r : r = [e.bufs[b] EXCEPT !.inode = Inode(disk, p)]
      OBVIOUS
    <2>2. Inode(disk, p) \in Inodes \cup {None}
      BY DiskTypes
    <2>3. /\ r \in Buffer /\ r.name = e.bufs[b].name /\ r.path = e.bufs[b].path
          /\ r.inode = Inode(disk, p) /\ r.c_time = e.bufs[b].c_time
          /\ r.seen = e.bufs[b].seen /\ r.modified = e.bufs[b].modified
      BY ONLY <1>1, <2>1, <2>2 DEF Buffer
    <2>4. Looked(e, b, p) = [e EXCEPT !.bufs[b] = r]
      BY <1>2, <2>1 DEF Looked
    <2> QED
      BY <1>2, <2>3, <2>4, PutLike
  <1>3. CASE ~(e.bufs[b].path = p \/ disk[p] # None)
    BY <1>3 DEF Looked, Like, SamePointers
  <1> QED
    BY <1>2, <1>3

LEMMA ToldLike ==
  ASSUME NEW e, Sound(e), NEW b, Plain(e, b), NEW p \in Paths, disk \in Disks
  PROVE  LET f == Told(e, b, p)
         IN /\ Like(e, f) /\ \A c \in DOMAIN e.bufs \ {b} : f.bufs[c] = e.bufs[c]
            /\ f.bufs[b].path = e.bufs[b].path /\ f.bufs[b].c_time = e.bufs[b].c_time
            /\ f.bufs[b].inode = e.bufs[b].inode /\ f.bufs[b].modified = e.bufs[b].modified
            /\ f.bufs[b].seen >= e.bufs[b].seen /\ f.bufs[b].seen >= Version(disk, p)
  <1>1. e.bufs[b] \in Buffer
    BY EditorType DEF Sound, Plain
  <1>2. PICK n : n = Max({e.bufs[b].seen, Version(disk, p)})
    OBVIOUS
  <1>3. n \in Nat /\ n >= e.bufs[b].seen /\ n >= Version(disk, p)
    BY <1>1, <1>2, DiskTypes, MaxOfTwo DEF Buffer
  <1>4. PICK r : r = [e.bufs[b] EXCEPT !.seen = n]
    OBVIOUS
  <1>5. /\ r \in Buffer /\ r.name = e.bufs[b].name /\ r.path = e.bufs[b].path
        /\ r.inode = e.bufs[b].inode /\ r.c_time = e.bufs[b].c_time
        /\ r.seen = n /\ r.modified = e.bufs[b].modified
    BY ONLY <1>1, <1>3, <1>4 DEF Buffer
  <1>6. Told(e, b, p) = [e EXCEPT !.bufs[b] = r]
    BY <1>2, <1>4 DEF Told
  <1> QED
    BY <1>3, <1>5, <1>6, PutLike

(* A buffer as check_buffers leaves it.                                    *)
CheckedAs(r, s, d) ==
  /\ r.path = s.path /\ r.c_time = s.c_time /\ r.seen = s.seen /\ r.modified = s.modified
  /\ r.inode = IF s.path = None THEN s.inode ELSE Inode(d, s.path)

LEMMA CheckedLike ==
  ASSUME NEW e, Sound(e), NEW d \in Disks
  PROVE  LET f == Checked(e, d)
         IN Like(e, f) /\ \A c \in DOMAIN e.bufs : CheckedAs(f.bufs[c], e.bufs[c], d)
  <1> DEFINE t == [b \in DOMAIN e.bufs |->
                     IF e.bufs[b].path = None THEN e.bufs[b]
                     ELSE [e.bufs[b] EXCEPT !.inode = Inode(d, e.bufs[b].path)]]
  <1>1. e \in Editor /\ DOMAIN e.bufs \in SUBSET Addr
    BY EditorType DEF Sound
  <1>2. ASSUME NEW b \in DOMAIN e.bufs
        PROVE  t[b] \in Buffer /\ t[b].name = e.bufs[b].name /\ CheckedAs(t[b], e.bufs[b], d)
    <2>1. e.bufs[b] \in Buffer
      BY <1>1, EditorType
    <2>2. CASE e.bufs[b].path = None
      BY <2>1, <2>2 DEF CheckedAs
    <2>3. CASE e.bufs[b].path # None
      <3>1. Inode(d, e.bufs[b].path) \in Inodes \cup {None}
        BY <2>1, <2>3, DiskTypes DEF Buffer
      <3>2. t[b] = [e.bufs[b] EXCEPT !.inode = Inode(d, e.bufs[b].path)]
        BY <2>3
      <3> QED
        BY ONLY <2>1, <2>3, <3>1, <3>2 DEF Buffer, CheckedAs
    <2> QED
      BY <2>2, <2>3
  <1>3. t \in [DOMAIN e.bufs -> Buffer]
    BY <1>2
  <1>4. PICK f : f = Checked(e, d)
    OBVIOUS
  <1>5. f = [e EXCEPT !.bufs = t]
    BY <1>4 DEF Checked
  <1>6. /\ \A b \in DOMAIN e.bufs : t[b].name = e.bufs[b].name /\ CheckedAs(t[b], e.bufs[b], d)
    BY <1>2
  <1> HIDE DEF t
  <1>7. /\ f \in Editor /\ f.bufs = t /\ DOMAIN t = DOMAIN e.bufs
        /\ f.cbuf = e.cbuf /\ f.win = e.win /\ f.last = e.last /\ f.paste = e.paste
    BY <1>1, <1>3, <1>5, NewTable
  <1>8. \A b \in DOMAIN e.bufs :
          /\ f.bufs[b].name = e.bufs[b].name
          /\ Internal(e, b) => f.bufs[b].path = None /\ f.bufs[b].inode = None
    BY <1>6, <1>7 DEF Sound, CheckedAs
  <1>9. Sound(f) /\ \A b \in DOMAIN e.bufs : Internal(f, b) <=> Internal(e, b)
    BY <1>7, <1>8, Reworked
  <1>10. Like(e, f)
    BY <1>7, <1>9 DEF Like, SamePointers, Plain
  <1> QED
    BY <1>4, <1>6, <1>7, <1>10

(* buffer_filename gives a buffer a name of its own.                       *)
LEMMA FilenamedLike ==
  ASSUME NEW e, Sound(e), NEW b, Plain(e, b), NEW p \in Paths, NEW d \in Disks
  PROVE  LET f == Filenamed(e, b, p, d)
         IN /\ Like(e, f) /\ \A c \in DOMAIN e.bufs \ {b} : f.bufs[c] = e.bufs[c]
            /\ f.bufs[b].path = p /\ f.bufs[b].inode = Inode(d, p)
            /\ f.bufs[b].c_time = Version(d, p)
            /\ f.bufs[b].seen = e.bufs[b].seen /\ f.bufs[b].modified = e.bufs[b].modified
  <1>1. e \in Editor /\ b \in DOMAIN e.bufs /\ e.bufs[b] \in Buffer
    BY EditorType DEF Sound, Plain
  <1>2. PICK n, v : n = Inode(d, p) /\ v = Version(d, p)
    OBVIOUS
  <1>3. n \in Inodes \cup {None} /\ v \in Nat
    BY <1>2, DiskTypes
  <1>4. PICK r : r = [e.bufs[b] EXCEPT !.path = p, !.inode = n, !.c_time = v]
    OBVIOUS
  <1>5. /\ r \in Buffer /\ r.name = e.bufs[b].name /\ r.path = p /\ r.inode = n /\ r.c_time = v
        /\ r.seen = e.bufs[b].seen /\ r.modified = e.bufs[b].modified
    BY ONLY <1>1, <1>3, <1>4, p \in Paths DEF Buffer
  <1>6. PICK g : g = [e EXCEPT !.bufs[b] = r]
    OBVIOUS
  <1>7. Like(e, g) /\ g.bufs[b] = r /\ \A c \in DOMAIN e.bufs \ {b} : g.bufs[c] = e.bufs[c]
    BY <1>5, <1>6, PutLike
  <1>8. PICK f : f = Filenamed(e, b, p, d)
    OBVIOUS
  <1>9. f = UniquelyNamed(g, b, FileName[p])
    BY <1>2, <1>4, <1>6, <1>8 DEF Filenamed
  <1>10. /\ f \in Editor /\ DOMAIN f.bufs = DOMAIN g.bufs
         /\ f.cbuf = g.cbuf /\ f.win = g.win /\ f.last = g.last /\ f.paste = g.paste
         /\ \A c \in DOMAIN g.bufs \ {b} : f.bufs[c] = g.bufs[c] /\ f.bufs[c].name # f.bufs[b].name
         /\ f.bufs[b].name[1] = FileName[p]
         /\ f.bufs[b].path = p /\ f.bufs[b].inode = n /\ f.bufs[b].c_time = v
         /\ f.bufs[b].modified = r.modified /\ f.bufs[b].seen = r.seen
    BY <1>1, <1>5, <1>7, <1>9, NamesOf, NamedSound DEF Like, Sound
  <1>11. ~Internal(f, b) /\ \A c \in DOMAIN e.bufs \ {b} : Internal(f, c) <=> Internal(e, c)
    BY <1>7, <1>10, NamesOf DEF Internal, Like
  <1>12. \A c : Plain(e, c) <=> Plain(f, c)
    BY <1>7, <1>10, <1>11 DEF Plain, Like
  <1>13. Sound(f)
    <2>1. Plain(f, f.cbuf) /\ (\A i \in 1..NumWindows : Plain(f, f.win[i]))
          /\ (f.last # Null => Plain(f, f.last))
      BY <1>7, <1>10, <1>12 DEF Sound, Like, SamePointers
    <2>2. \A c, k \in DOMAIN f.bufs : f.bufs[c].name = f.bufs[k].name => c = k
      BY <1>7, <1>10 DEF Sound, Like
    <2>3. f.paste # Null => f.paste \in DOMAIN f.bufs /\ Internal(f, f.paste)
      BY <1>7, <1>10, <1>11 DEF Sound, Like, SamePointers, Plain
    <2>4. \A c \in DOMAIN f.bufs : Internal(f, c) => f.bufs[c].path = None /\ f.bufs[c].inode = None
      BY <1>7, <1>10, <1>11 DEF Sound, Like
    <2> QED
      BY <1>10, <2>1, <2>2, <2>3, <2>4 DEF Sound
  <1>14. Like(e, f)
    BY <1>7, <1>10, <1>12, <1>13 DEF Like, SamePointers
  <1> QED
    BY <1>2, <1>5, <1>7, <1>8, <1>10, <1>14 DEF Like

LEMMA VisitLike ==
  ASSUME NEW e, Sound(e), NEW p \in Paths, NEW d \in Disks
  PROVE  LET f == VisitFile(e, p, d)
             b == e.cbuf
         IN /\ Like(e, f)
            /\ \A c \in DOMAIN e.bufs \ {b} : CheckedAs(f.bufs[c], e.bufs[c], d)
            /\ f.bufs[b].path = p /\ f.bufs[b].inode = Inode(d, p)
            /\ f.bufs[b].c_time = IF e.bufs[b].path = p THEN e.bufs[b].c_time ELSE Version(d, p)
            /\ f.bufs[b].seen = e.bufs[b].seen /\ f.bufs[b].modified = e.bufs[b].modified
  <1>0. p # None
    BY BuffersAssumption
  <1>1. Plain(e, e.cbuf)
    BY DEF Sound
  <1>2. CASE e.bufs[e.cbuf].path = p
    <2>1. VisitFile(e, p, d) = Checked(e, d)
      BY <1>2 DEF VisitFile
    <2> QED
      BY <1>0, <1>1, <1>2, <2>1, CheckedLike DEF CheckedAs, Plain
  <1>3. CASE e.bufs[e.cbuf].path # p
    <2>1. PICK g : g = Filenamed(e, e.cbuf, p, d)
      OBVIOUS
    <2>2. /\ Like(e, g) /\ \A c \in DOMAIN e.bufs \ {e.cbuf} : g.bufs[c] = e.bufs[c]
          /\ g.bufs[e.cbuf].path = p /\ g.bufs[e.cbuf].inode = Inode(d, p)
          /\ g.bufs[e.cbuf].c_time = Version(d, p)
          /\ g.bufs[e.cbuf].seen = e.bufs[e.cbuf].seen
          /\ g.bufs[e.cbuf].modified = e.bufs[e.cbuf].modified
      BY <1>1, <2>1, FilenamedLike
    <2>3. PICK f : f = VisitFile(e, p, d)
      OBVIOUS
    <2>4. f = Checked(g, d)
      BY <1>3, <2>1, <2>3 DEF VisitFile
    <2>5. Like(g, f) /\ \A c \in DOMAIN g.bufs : CheckedAs(f.bufs[c], g.bufs[c], d)
      BY <2>2, <2>4, CheckedLike DEF Like
    <2>6. Like(e, f)
      BY <2>2, <2>5 DEF Like, SamePointers
    <2> QED
      BY <1>0, <1>1, <1>3, <2>2, <2>3, <2>5, <2>6 DEF CheckedAs, Like, Plain
  <1> QED
    BY <1>2, <1>3

-----------------------------------------------------------------------------
(* Stamps and inodes of the buffers.                                       *)

LEMMA SurvivesFiles ==
  ASSUME NEW e, NEW g, NEW kill, Survives(e, g, kill)
  PROVE  (Stamped(e) => Stamped(g)) /\ (Pathed(e) => Pathed(g))
  BY DEF Survives, Stamped, Pathed, Fresh, SameFile

LEMMA ExtendsFiles ==
  ASSUME NEW e, NEW g, Extends(e, g)
  PROVE  (Stamped(e) => Stamped(g)) /\ (Pathed(e) => Pathed(g))
  BY DEF Extends, Stamped, Pathed, Fresh

LEMMA SoundTypes ==
  ASSUME NEW e, Sound(e)
  PROVE  /\ \A b \in DOMAIN e.bufs :
              /\ e.bufs[b].c_time \in Nat /\ e.bufs[b].seen \in Nat /\ b \in Addr
              /\ e.bufs[b].path \in Paths \cup {None} /\ e.bufs[b].modified \in BOOLEAN
         /\ \A b : Plain(e, b) => b \in DOMAIN e.bufs /\ b \in Addr /\ b # Null
         /\ Plain(e, e.cbuf) /\ e \in Editor
  <1>1. e \in Editor
    BY DEF Sound
  <1>2. \A b \in DOMAIN e.bufs : e.bufs[b] \in Buffer /\ b \in Addr
    BY <1>1, EditorType
  <1> QED
    BY <1>1, <1>2 DEF Sound, Plain, Buffer, Addr, Null

LEMMA LookedFiles ==
  ASSUME NEW e, Sound(e), NEW b, Plain(e, b), NEW p \in Paths, disk \in Disks
  PROVE  /\ Stamped(e) => Stamped(Looked(e, b, p))
         /\ Pathed(e) /\ e.bufs[b].path # None => Pathed(Looked(e, b, p))
  <1>1. PICK f : f = Looked(e, b, p)
    OBVIOUS
  <1>2. /\ DOMAIN f.bufs = DOMAIN e.bufs /\ b \in DOMAIN e.bufs
        /\ \A c \in DOMAIN e.bufs \ {b} : f.bufs[c] = e.bufs[c]
        /\ f.bufs[b].path = e.bufs[b].path /\ f.bufs[b].c_time = e.bufs[b].c_time
        /\ f.bufs[b].seen = e.bufs[b].seen
    BY <1>1, LookedLike DEF Like, Plain
  <1> QED
    BY <1>1, <1>2 DEF Stamped, Pathed

LEMMA ToldFiles ==
  ASSUME NEW e, Sound(e), NEW b, Plain(e, b), NEW p \in Paths, disk \in Disks
  PROVE  /\ Stamped(e) => Stamped(Told(e, b, p))
         /\ Pathed(e) => Pathed(Told(e, b, p))
  <1>1. PICK f : f = Told(e, b, p)
    OBVIOUS
  <1>2. /\ DOMAIN f.bufs = DOMAIN e.bufs /\ b \in DOMAIN e.bufs /\ Sound(f)
        /\ \A c \in DOMAIN e.bufs \ {b} : f.bufs[c] = e.bufs[c]
        /\ f.bufs[b].path = e.bufs[b].path /\ f.bufs[b].c_time = e.bufs[b].c_time
        /\ f.bufs[b].inode = e.bufs[b].inode /\ f.bufs[b].seen >= e.bufs[b].seen
    BY <1>1, ToldLike DEF Like, Plain
  <1>3. f.bufs[b].c_time \in Nat /\ f.bufs[b].seen \in Nat /\ e.bufs[b].seen \in Nat
    BY <1>2, SoundTypes
  <1> QED
    BY <1>1, <1>2, <1>3 DEF Stamped, Pathed

LEMMA CheckedFiles ==
  ASSUME NEW e, Sound(e), NEW d \in Disks
  PROVE  /\ Stamped(e) => Stamped(Checked(e, d))
         /\ Pathed(e) => Pathed(Checked(e, d))
  <1>1. PICK f : f = Checked(e, d)
    OBVIOUS
  <1>2. /\ DOMAIN f.bufs = DOMAIN e.bufs
        /\ \A c \in DOMAIN e.bufs : CheckedAs(f.bufs[c], e.bufs[c], d)
    BY <1>1, CheckedLike DEF Like
  <1> QED
    BY <1>1, <1>2 DEF CheckedAs, Stamped, Pathed

LEMMA VisitFiles ==
  ASSUME NEW e, Sound(e), NEW p \in Paths, NEW d \in Disks
  PROVE  /\ Stamped(e) /\ (e.bufs[e.cbuf].path = p \/ Version(d, p) <= e.bufs[e.cbuf].seen)
              => Stamped(VisitFile(e, p, d))
         /\ (\A b \in DOMAIN e.bufs \ {e.cbuf} : e.bufs[b].path = None => e.bufs[b].inode = None)
              => Pathed(VisitFile(e, p, d))
  <1>1. PICK f, b : f = VisitFile(e, p, d) /\ b = e.cbuf
    OBVIOUS
  <1>2. /\ DOMAIN f.bufs = DOMAIN e.bufs /\ p # None /\ b \in DOMAIN e.bufs
        /\ \A c \in DOMAIN e.bufs \ {b} : CheckedAs(f.bufs[c], e.bufs[c], d)
        /\ f.bufs[b].path = p
        /\ f.bufs[b].c_time = IF e.bufs[b].path = p THEN e.bufs[b].c_time ELSE Version(d, p)
        /\ f.bufs[b].seen = e.bufs[b].seen
    BY <1>1, BuffersAssumption, VisitLike, SoundTypes DEF Like, Plain
  <1>3. Stamped(e) /\ (e.bufs[b].path = p \/ Version(d, p) <= e.bufs[b].seen) => Stamped(f)
    BY <1>2 DEF CheckedAs, Stamped
  <1>4. (\A c \in DOMAIN e.bufs \ {b} : e.bufs[c].path = None => e.bufs[c].inode = None) => Pathed(f)
    BY <1>2 DEF CheckedAs, Pathed
  <1> QED
    BY <1>1, <1>3, <1>4

-----------------------------------------------------------------------------
(* Commands that are done, and ones that leave the files alone.            *)

LEMMA NoJobType == NoJob \in Jobs /\ NoJob.buf = Null /\ ~NoJob.kill
  BY DEF NoJob, Jobs, Null

LEMMA Ended ==
  ASSUME Sound(ed'), disk' \in Disks, count' \in [versions: Nat, steps: Nat],
         pc' = "idle", job' = NoJob
  PROVE  PointersInv' /\ KillSound'
  <1>1. JobSound'
    BY NoJobType DEF JobSound
  <1> QED
    BY <1>1, NoJobType DEF PointersInv, KillSound, Asking

(* No buffer, or none but k, is deleted, " <paste>" apart.                 *)
Kept == \A b : Plain(ed, b) => b \in DOMAIN ed'.bufs
KeptBut(k) == \A b : Plain(ed, b) /\ b # k => b \in DOMAIN ed'.bufs

(* A command leaves the buffers as they were, or adds some.                *)
LEMMA EndedFiles ==
  ASSUME BuffersInv, Sound(ed'), disk' = disk, count' \in [versions: Nat, steps: Nat],
         pc' = "idle", job' = NoJob,
         Stamped(ed) => Stamped(ed'), Pathed(ed) => Pathed(ed'),
         pc \notin {"overwrite", "write"}
  PROVE  BuffersInv'
  <1>1. PointersInv' /\ KillSound'
    BY Ended DEF BuffersInv, PointersInv
  <1>2. StampsSound => StampsSound'
    BY DEF StampsSound
  <1>3. FilesSound => FilesSound'
    BY DEF FilesSound, Pathed, Live
  <1> QED
    BY <1>1, <1>2, <1>3 DEF BuffersInv

LEMMA IdleState ==
  ASSUME BuffersInv
  PROVE  /\ Sound(ed) /\ disk \in Disks /\ count \in [versions: Nat, steps: Nat] /\ job \in Jobs
         /\ pc = "idle" => job = NoJob
         /\ Idle => pc = "idle" /\ count' \in [versions: Nat, steps: Nat]
         /\ NewVersion => count' \in [versions: Nat, steps: Nat]
  <1>1. count \in [versions: Nat, steps: Nat]
    BY DEF BuffersInv, PointersInv
  <1>2. Idle => pc = "idle" /\ count' \in [versions: Nat, steps: Nat]
    BY <1>1 DEF Idle, Commanded
  <1>3. NewVersion => count' \in [versions: Nat, steps: Nat]
    BY <1>1 DEF NewVersion
  <1> QED
    BY <1>1, <1>2, <1>3 DEF BuffersInv, PointersInv, JobSound

(* Pointers change only.                                                   *)
LEMMA RepointedStep ==
  ASSUME BuffersInv, pc = "idle", UNCHANGED <<disk, pc, job>>,
         count' \in [versions: Nat, steps: Nat], Sound(ed'), ed'.bufs = ed.bufs
  PROVE  BuffersInv' /\ Kept
  <1>1. (Stamped(ed) => Stamped(ed')) /\ (Pathed(ed) => Pathed(ed'))
    BY DEF Stamped, Pathed
  <1> QED
    BY <1>1, EndedFiles, IdleState DEF Kept, Plain

LEMMA EndCommandStep ==
  ASSUME BuffersInv, EndCommand
  PROVE  BuffersInv' /\ Kept
  <1>1. NumWindows >= 1 /\ NumWindows \in Nat
    BY BuffersAssumption
  <1>2. Sound(ed) /\ Plain(ed, ed.win[1]) /\ ed \in Editor
    BY <1>1, IdleState DEF Sound
  <1>3. Sound(Switched(ed, ed.win[1])) /\ Switched(ed, ed.win[1]).bufs = ed.bufs
    BY <1>2, SwitchedSound DEF Switched, Editor
  <1> QED
    BY <1>3, IdleState, RepointedStep DEF EndCommand

(* The windows, the first one after the last.                              *)
Turned(w) == Tail(w) \o <<Head(w)>>

LEMMA RingOf ==
  ASSUME NEW S, NEW w \in Seq(S), Len(w) = NumWindows, NEW ring, ring = Turned(w)
  PROVE  /\ ring \in [1..NumWindows -> S]
         /\ \A i \in 1..NumWindows : ring[i] = IF i <= NumWindows - 1 THEN w[i + 1] ELSE w[1]
  <1>1. NumWindows >= 1 /\ NumWindows \in Nat
    BY BuffersAssumption
  <1>2. w # <<>>
    BY <1>1
  <1>3. /\ Tail(w) \in Seq(S) /\ Len(Tail(w)) = NumWindows - 1
        /\ \A i \in 1..(NumWindows - 1) : Tail(w)[i] = w[i + 1]
    BY <1>1, <1>2, HeadTailProperties
  <1>4. /\ Head(w) = w[1] /\ w[1] \in S /\ <<Head(w)>> \in Seq(S)
        /\ Len(<<Head(w)>>) = 1 /\ <<Head(w)>>[1] = w[1]
    BY <1>1, <1>2
  <1>5. /\ ring \in Seq(S) /\ Len(ring) = NumWindows
        /\ \A i \in 1..NumWindows : ring[i] = IF i <= NumWindows - 1 THEN w[i + 1] ELSE w[1]
    <2>1. PICK a, b : a = Tail(w) /\ b = <<Head(w)>>
      OBVIOUS
    <2>2. a \in Seq(S) /\ b \in Seq(S) /\ ring = a \o b
      BY <1>3, <1>4, <2>1 DEF Turned
    <2>3. /\ a \o b \in Seq(S) /\ Len(a \o b) = Len(a) + Len(b)
          /\ \A i \in 1..(Len(a) + Len(b)) : (a \o b)[i] = IF i <= Len(a) THEN a[i] ELSE b[i - Len(a)]
      BY <2>2, ConcatProperties
    <2>4. /\ Len(a) = NumWindows - 1 /\ Len(b) = 1 /\ b[1] = w[1]
          /\ \A i \in 1..(NumWindows - 1) : a[i] = w[i + 1]
      BY <1>3, <1>4, <2>1
    <2>5. \A i \in 1..NumWindows : i <= NumWindows - 1 => i \in 1..(NumWindows - 1)
      BY <1>1
    <2>6. \A i \in 1..NumWindows : ~(i <= NumWindows - 1) => i - (NumWindows - 1) = 1
      BY <1>1
    <2>7. Len(ring) = NumWindows /\ ring \in Seq(S)
      BY <1>1, <2>2, <2>3, <2>4
    <2>8. ASSUME NEW i \in 1..NumWindows
          PROVE  ring[i] = IF i <= NumWindows - 1 THEN w[i + 1] ELSE w[1]
      <3>1. ring[i] = IF i <= NumWindows - 1 THEN a[i] ELSE b[i - (NumWindows - 1)]
        BY <1>1, <2>2, <2>3, <2>4
      <3> QED
        BY <2>4, <2>5, <2>6, <3>1
    <2> QED
      BY <2>7, <2>8
  <1>6. ring \in [1..NumWindows -> S]
    BY <1>5, LenProperties
  <1> QED
    BY <1>5, <1>6

LEMMA OtherWindowStep ==
  ASSUME BuffersInv, OtherWindow
  PROVE  BuffersInv' /\ Kept
  <1>1. PICK ring : ring = Turned(ed.win)
    OBVIOUS
  <1>2. Sound(ed) /\ ed \in Editor /\ ed.win \in [1..NumWindows -> DOMAIN ed.bufs]
    BY IdleState, EditorType DEF Sound, Plain
  <1>3. /\ ring \in [1..NumWindows -> DOMAIN ed.bufs]
        /\ \A i \in 1..NumWindows : Plain(ed, ring[i])
    <2>1. \A i \in 1..NumWindows : Plain(ed, ed.win[i])
      BY <1>2 DEF Sound
    <2>2. PICK w, S : w = ed.win /\ S = DOMAIN ed.bufs
      OBVIOUS
    <2>3. w \in Seq(S) /\ Len(w) = NumWindows /\ ring = Turned(w)
      BY <1>1, <1>2, <2>2, BuffersAssumption
    <2>4. /\ ring \in [1..NumWindows -> S]
          /\ \A i \in 1..NumWindows : ring[i] = IF i <= NumWindows - 1 THEN w[i + 1] ELSE w[1]
      BY ONLY <2>3, RingOf
    <2>5. \A i \in 1..NumWindows : 1 \in 1..NumWindows /\ (i <= NumWindows - 1 => i + 1 \in 1..NumWindows)
      BY BuffersAssumption
    <2> QED
      BY <2>1, <2>2, <2>4, <2>5
  <1>4. PICK f : f = [ed EXCEPT !.win = ring]
    OBVIOUS
  <1>5. f = [bufs |-> ed.bufs, cbuf |-> ed.cbuf, win |-> ring, last |-> ed.last, paste |-> ed.paste]
    BY <1>2, <1>4 DEF Editor
  <1>6. Sound(f) /\ \A b : Plain(f, b) <=> Plain(ed, b)
    <2>1. Plain(ed, ed.cbuf) /\ (ed.last = Null \/ Plain(ed, ed.last))
      BY <1>2 DEF Sound
    <2> QED
      BY <1>2, <1>3, <1>5, <2>1, Pointed
  <1>7. Plain(f, ring[1])
    <2>1. 1 \in 1..NumWindows
      BY BuffersAssumption
    <2> QED
      BY <1>3, <1>6, <2>1
  <1>8. ed' = Switched(f, ring[1])
    BY <1>1, <1>4 DEF OtherWindow, Turned
  <1>9. Sound(ed') /\ ed'.bufs = ed.bufs
    BY <1>5, <1>6, <1>7, <1>8, SwitchedSound DEF Switched
  <1> QED
    BY <1>9, IdleState, RepointedStep DEF OtherWindow

LEMMA WindowBufferSound ==
  ASSUME NEW e, Sound(e), NEW b, Plain(e, b), NEW l, l = e.last \/ Plain(e, l)
  PROVE  LET f == [WindowBuffer(e, b) EXCEPT !.last = l]
         IN Sound(f) /\ f.bufs = e.bufs /\ f.paste = e.paste /\ f.cbuf = e.cbuf
  <1>1. NumWindows >= 1 /\ NumWindows \in Nat
    BY BuffersAssumption
  <1>2. e \in Editor /\ e.win \in [1..NumWindows -> DOMAIN e.bufs] /\ b \in DOMAIN e.bufs
    BY EditorType DEF Sound, Plain
  <1>3. PICK w : w = [e.win EXCEPT ![1] = b]
    OBVIOUS
  <1>4. w \in [1..NumWindows -> DOMAIN e.bufs] /\ \A i \in 1..NumWindows : Plain(e, w[i])
    BY <1>2, <1>3 DEF Sound
  <1>5. PICK f : f = [WindowBuffer(e, b) EXCEPT !.last = l]
    OBVIOUS
  <1>6. f = [bufs |-> e.bufs, cbuf |-> e.cbuf, win |-> w, last |-> l, paste |-> e.paste]
    BY <1>2, <1>3, <1>5 DEF WindowBuffer, Editor
  <1>7. Plain(e, e.cbuf) /\ (l = Null \/ Plain(e, l))
    BY DEF Sound
  <1>8. Sound(f)
    BY <1>4, <1>6, <1>7, Pointed
  <1> QED
    BY <1>5, <1>6, <1>8

LEMMA GetLastBufferStep ==
  ASSUME BuffersInv, GetLastBuffer
  PROVE  BuffersInv' /\ Kept
  <1>1. PICK made \in FindOrMake(ed, Scratch) : \E b \in NonVisible(made[1], ed.cbuf, made[2]) :
          ed' = [made[1] EXCEPT !.last = b]
    BY DEF GetLastBuffer
  <1>2. PICK b \in NonVisible(made[1], ed.cbuf, made[2]) : ed' = [made[1] EXCEPT !.last = b]
    BY <1>1
  <1>3. PICK f : f = made[1]
    OBVIOUS
  <1>4. Sound(f) /\ Extends(ed, f) /\ Plain(f, b)
    BY <1>2, <1>3, IdleState, NamesOf, FindOrMakeSound, NonVisiblePlain
  <1>5. f \in Editor /\ f.win \in [1..NumWindows -> DOMAIN f.bufs]
    BY <1>4, EditorType DEF Sound, Plain
  <1>6. ed' = [bufs |-> f.bufs, cbuf |-> f.cbuf, win |-> f.win, last |-> b, paste |-> f.paste]
    BY <1>2, <1>3, <1>5 DEF Editor
  <1>7. Sound(ed')
    BY <1>4, <1>5, <1>6, Pointed DEF Sound
  <1>8. Stamped(ed) => Stamped(ed')
    BY <1>4, <1>6, ExtendsFiles DEF Stamped
  <1>9. Pathed(ed) => Pathed(ed')
    BY <1>4, <1>6, ExtendsFiles DEF Pathed
  <1> QED
    <2>1. Kept
      BY <1>4, <1>6 DEF Kept, Plain, Extends
    <2> QED
      BY <1>7, <1>8, <1>9, <2>1, IdleState, EndedFiles DEF GetLastBuffer

LEMMA SetBufferStep ==
  ASSUME "internal" \notin Lapses, BuffersInv, SetBuffer
  PROVE  BuffersInv' /\ Kept
  <1>0. PICK made \in (UNION {FindOrMake(ed, n) : n \in UserNames}) \cup {<<ed, b>> : b \in Live} :
          /\ Allowed(made[1], made[2])
          /\ \E cmd \in BOOLEAN :
               ed' = IF ~cmd THEN Switched(made[1], made[2])
                     ELSE LET f == WindowBuffer(Switched(made[1], made[2]), made[2])
                          IN IF made[2] # ed.cbuf /\ ~Internal(made[1], made[2])
                             THEN [f EXCEPT !.last = ed.cbuf] ELSE f
    BY DEF SetBuffer
  <1>1. \/ \E n \in UserNames : made \in FindOrMake(ed, n)
        \/ \E c \in Live : made = <<ed, c>>
    OBVIOUS
  <1>2. PICK e, b : e = made[1] /\ b = made[2]
    OBVIOUS
  <1>3. Sound(e) /\ Extends(ed, e) /\ Plain(e, b) /\ Plain(e, ed.cbuf)
    <2>1. CASE \E n \in UserNames : made \in FindOrMake(ed, n)
      <3>1. PICK n \in UserNames : made \in FindOrMake(ed, n)
        BY <2>1
      <3> QED
        BY <1>2, <3>1, IdleState, NamesOf, FindOrMakeSound DEF Sound
    <2>2. CASE \E c \in Live : made = <<ed, c>>
      BY <1>0, <1>2, <2>2, IdleState DEF Allowed, Live, Plain, Extends, Sound
    <2> QED
      BY <1>1, <2>1, <2>2
  <1>4. PICK g : g = Switched(e, b)
    OBVIOUS
  <1>5. Sound(g) /\ g \in Editor /\ Plain(g, b) /\ Plain(g, ed.cbuf)
    BY <1>3, <1>4, SwitchedSound DEF Sound
  <1>6. g.bufs = e.bufs
    BY <1>3, <1>4 DEF Switched, Sound, Editor
  <1>7. PICK cmd \in BOOLEAN :
          ed' = IF ~cmd THEN g
                ELSE IF b # ed.cbuf /\ ~Internal(e, b)
                     THEN [WindowBuffer(g, b) EXCEPT !.last = ed.cbuf] ELSE WindowBuffer(g, b)
    BY <1>0, <1>2, <1>4
  <1>8. Sound(ed') /\ ed'.bufs = e.bufs
    <2>1. CASE ~cmd
      BY <1>5, <1>6, <1>7, <2>1
    <2>2. CASE cmd
      <3>1. PICK l : l = (IF b # ed.cbuf /\ ~Internal(e, b) THEN ed.cbuf ELSE g.last)
        OBVIOUS
      <3>2. ed' = [WindowBuffer(g, b) EXCEPT !.last = l]
        BY <1>5, <1>7, <2>2, <3>1 DEF WindowBuffer, Editor
      <3> QED
        BY <1>5, <1>6, <3>1, <3>2, WindowBufferSound
    <2> QED
      BY <2>1, <2>2
  <1>9. (Stamped(ed) => Stamped(ed')) /\ (Pathed(ed) => Pathed(ed'))
    BY <1>3, <1>8, ExtendsFiles DEF Stamped, Pathed
  <1> QED
    <2>1. Kept
      BY <1>3, <1>8 DEF Kept, Plain, Extends
    <2> QED
      BY <1>8, <1>9, <2>1, IdleState, EndedFiles DEF SetBuffer

LEMMA CopyStep ==
  ASSUME BuffersInv, Copy
  PROVE  BuffersInv' /\ Kept
  <1>1. PICK e : e = IF ed.paste = Null THEN ed ELSE Deleted(ed, ed.paste)
    OBVIOUS
  <1>2. PICK made \in MakeBuffer(e, Paste) : ed' = [made[1] EXCEPT !.paste = made[2]]
    BY <1>1 DEF Copy
  <1>3. PICK f, b : f = made[1] /\ b = made[2]
    OBVIOUS
  <1>4. Sound(ed) /\ ed \in Editor /\ Null \notin DOMAIN ed.bufs
    BY IdleState, EditorType DEF Sound
  <1>5. /\ e \in Editor /\ SamePointers(ed, e) /\ DOMAIN e.bufs = DOMAIN ed.bufs \ {ed.paste}
        /\ \A c \in DOMAIN e.bufs : e.bufs[c] = ed.bufs[c]
    <2>1. CASE ed.paste = Null
      BY <1>1, <1>4, <2>1 DEF SamePointers
    <2>2. CASE ed.paste # Null
      BY <1>1, <1>4, <2>2, DeletedTable
    <2> QED
      BY <2>1, <2>2
  <1>6. Added(e, f, b, Paste)
    BY <1>2, <1>3, <1>5, NamesOf, MadeAdded
  <1>7. ed' = [bufs |-> f.bufs, cbuf |-> f.cbuf, win |-> f.win, last |-> f.last, paste |-> b]
    BY <1>2, <1>3, <1>6 DEF Added, Editor
  <1>8. ed' \in Editor
    BY <1>6, <1>7 DEF Added, Editor
  <1>9. \A c : Plain(ed, c) => Plain(ed', c)
    <2>1. \A c : Plain(ed, c) => c \in DOMAIN e.bufs
      BY <1>4, <1>5 DEF Plain, Sound
    <2> QED
      BY <1>5, <1>6, <1>7, <2>1 DEF Added, Plain, Internal
  <1>10. Sound(ed')
    <2>1. Plain(ed', ed'.cbuf) /\ (\A i \in 1..NumWindows : Plain(ed', ed'.win[i]))
          /\ (ed'.last # Null => Plain(ed', ed'.last))
      BY <1>4, <1>5, <1>6, <1>7, <1>9 DEF Sound, Added, SamePointers
    <2>2. \A c, k \in DOMAIN ed'.bufs : ed'.bufs[c].name = ed'.bufs[k].name => c = k
      BY <1>4, <1>5, <1>6, <1>7 DEF Sound, Added
    <2>3. ed'.paste \in DOMAIN ed'.bufs /\ Internal(ed', ed'.paste)
      BY <1>6, <1>7 DEF Added, Internal
    <2>4. \A c \in DOMAIN ed'.bufs : Internal(ed', c) => ed'.bufs[c].path = None /\ ed'.bufs[c].inode = None
      BY <1>4, <1>5, <1>6, <1>7 DEF Sound, Added, Internal, Fresh
    <2> QED
      BY <1>8, <2>1, <2>2, <2>3, <2>4 DEF Sound
  <1>11. (Stamped(ed) => Stamped(ed')) /\ (Pathed(ed) => Pathed(ed'))
    BY <1>5, <1>6, <1>7 DEF Added, Fresh, Stamped, Pathed
  <1> QED
    <2>1. Kept
      BY <1>9 DEF Kept, Plain
    <2> QED
      BY <1>10, <1>11, <2>1, IdleState, EndedFiles DEF Copy

LEMMA EditStep ==
  ASSUME BuffersInv, Edit
  PROVE  BuffersInv' /\ Kept
  <1>1. Sound(ed) /\ Plain(ed, ed.cbuf)
    BY IdleState DEF Sound
  <1>2. PICK b : b = ed.cbuf
    OBVIOUS
  <1>3. ed.bufs[b] \in Buffer
    BY <1>1, <1>2, EditorType DEF Sound, Plain
  <1>4. PICK r : r = [ed.bufs[b] EXCEPT !.modified = TRUE]
    OBVIOUS
  <1>5. r \in Buffer /\ r.name = ed.bufs[b].name /\ SameFile(r, ed.bufs[b])
    BY ONLY <1>3, <1>4 DEF Buffer, SameFile
  <1>6. ed' = [ed EXCEPT !.bufs[b] = r]
    BY <1>2, <1>4 DEF Edit
  <1>7. Like(ed, ed') /\ ed'.bufs[b] = r /\ \A c \in DOMAIN ed.bufs \ {b} : ed'.bufs[c] = ed.bufs[c]
    BY <1>1, <1>2, <1>5, <1>6, PutLike
  <1>8. (Stamped(ed) => Stamped(ed')) /\ (Pathed(ed) => Pathed(ed'))
    BY <1>1, <1>2, <1>5, <1>7 DEF Like, SameFile, Stamped, Pathed
  <1> QED
    <2>1. Kept
      BY <1>7 DEF Kept, Plain, Like
    <2> QED
      BY <1>7, <1>8, <2>1, IdleState, EndedFiles DEF Edit, Like

(* Other programs.                                                         *)
LEMMA WrittenDisk ==
  ASSUME disk \in Disks, NEW p \in Paths, NEW n \in Unused \cup ({Inode(disk, p)} \ {None}),
         count \in [versions: Nat, steps: Nat], Written(p, n)
  PROVE  /\ disk' \in Disks /\ n \in Inodes
         /\ disk'[p] = [inode |-> n, v |-> count.versions + 1] /\ Inode(disk', p) = n
         /\ Version(disk', p) <= count.versions + 1
         /\ DiskSound(disk) => DiskSound(disk')
  <1>1. n \in Inodes
    <2>1. Inode(disk, p) \in Inodes \cup {None}
      BY DiskTypes
    <2> QED
      BY <2>1 DEF Unused
  <1>2. count.versions + 1 \in Nat
    OBVIOUS
  <1>3. PICK f : f = [inode |-> n, v |-> count.versions + 1]
    OBVIOUS
  <1>4. f \in File /\ f.inode = n /\ f.v = count.versions + 1
    BY <1>1, <1>2, <1>3 DEF File
  <1>5. /\ disk' = [q \in Paths |-> IF q = p \/ (disk[q] # None /\ disk[q].inode = n) THEN f ELSE disk[q]]
    BY <1>3 DEF Written
  <1>6. disk' \in Disks /\ disk'[p] = f
    BY <1>4, <1>5 DEF Disks
  <1>7. f # None
    BY <1>4, NoneAssumption
  <1> QED
    BY <1>1, <1>3, <1>4, <1>5, <1>6, <1>7 DEF Version, Inode, DiskSound, Disks

LEMMA ForeignStep ==
  ASSUME BuffersInv, Foreign
  PROVE  BuffersInv' /\ Kept
  <1>1. UNCHANGED <<ed, pc, job>> /\ (pc = "idle" \/ "race" \in Lapses) /\ disk \in Disks
        /\ count \in [versions: Nat, steps: Nat]
    BY IdleState DEF Foreign
  <1>2. PICK p \in Paths :
          \/ /\ NewVersion
             /\ \E n \in Unused \cup ({Inode(disk, p)} \ {None}) : Written(p, n)
          \/ /\ disk[p] # None /\ UNCHANGED count
             /\ \/ disk' = [disk EXCEPT ![p] = None]
                \/ \E q \in Paths \ {p} :
                     \/ disk' = [disk EXCEPT ![q] = disk[p], ![p] = None]
                     \/ disk[q] = None /\ disk' = [disk EXCEPT ![q] = disk[p]]
    BY DEF Foreign
  <1>3. /\ disk' \in Disks /\ count' \in [versions: Nat, steps: Nat]
        /\ DiskSound(disk) => DiskSound(disk')
    <2>1. CASE NewVersion /\ \E n \in Unused \cup ({Inode(disk, p)} \ {None}) : Written(p, n)
      BY <1>1, <2>1, IdleState, WrittenDisk
    <2>2. CASE disk' = [disk EXCEPT ![p] = None] /\ UNCHANGED count
      BY <1>1, <2>2 DEF Disks, DiskSound
    <2>3. CASE \E q \in Paths \ {p} : disk' = [disk EXCEPT ![q] = disk[p], ![p] = None] /\ UNCHANGED count
      BY <1>1, <2>3 DEF Disks, DiskSound
    <2>4. CASE \E q \in Paths \ {p} : disk' = [disk EXCEPT ![q] = disk[p]] /\ UNCHANGED count
      BY <1>1, <2>4 DEF Disks, DiskSound
    <2> QED
      BY <1>2, <2>1, <2>2, <2>3, <2>4
  <1>4. PointersInv'
    <2>1. PointersInv
      BY DEF BuffersInv
    <2> QED
      BY <1>1, <1>3, <2>1 DEF PointersInv, JobSound
  <1>5. "race" \notin Lapses => pc = "idle"
    BY <1>1
  <1>6. "race" \notin Lapses /\ StampsSound => StampsSound'
    BY <1>1, <1>5 DEF StampsSound
  <1>7. "race" \notin Lapses /\ FilesSound => FilesSound'
    BY <1>1, <1>3, <1>5 DEF FilesSound, Live
  <1>8. KillSound => KillSound'
    BY <1>1 DEF KillSound
  <1> QED
    <2>1. Kept
      BY <1>1 DEF Kept, Plain
    <2> QED
      BY <1>4, <1>6, <1>7, <1>8, <2>1 DEF BuffersInv

-----------------------------------------------------------------------------
(* Killing.                                                                *)

(* A command begins, or goes on, that no save belongs to.                  *)
LEMMA AskedStep ==
  ASSUME BuffersInv, disk' = disk, count' \in [versions: Nat, steps: Nat],
         Sound(ed'), PointersInv', KillSound',
         pc \notin {"overwrite", "write"}, pc' \notin {"attach", "overwrite", "write"},
         Stamped(ed) => Stamped(ed'), Pathed(ed) => Pathed(ed')
  PROVE  BuffersInv'
  <1>1. StampsSound => StampsSound'
    BY DEF StampsSound
  <1>2. FilesSound => FilesSound'
    BY DEF FilesSound, Pathed, Live
  <1> QED
    BY <1>1, <1>2 DEF BuffersInv

LEMMA KillBufferCmdStep ==
  ASSUME "internal" \notin Lapses, BuffersInv, KillBufferCmd
  PROVE  BuffersInv' /\ Kept
  <1>1. PICK b \in Live :
          /\ Allowed(ed, b) /\ job' = [NoJob EXCEPT !.buf = b, !.this = ed.cbuf]
          /\ ed' = Switched(ed, b)
          /\ pc' = IF ed.bufs[b].modified /\ ~Internal(ed, b) THEN "modified" ELSE "kill"
    BY DEF KillBufferCmd
  <1>2. Sound(ed) /\ Plain(ed, b) /\ pc = "idle" /\ disk' = disk
        /\ count' \in [versions: Nat, steps: Nat] /\ disk \in Disks
    BY <1>1, IdleState DEF KillBufferCmd, Allowed, Plain, Live
  <1>3. /\ Sound(ed') /\ Plain(ed', b) /\ Plain(ed', ed.cbuf)
    BY <1>1, <1>2, SwitchedSound DEF Sound
  <1>4. ed'.bufs = ed.bufs /\ ed'.cbuf = b
    BY <1>1, <1>2 DEF Switched, Sound, Editor
  <1>5. /\ job' \in Jobs /\ job'.buf = b /\ job'.this = ed.cbuf /\ ~job'.kill
    BY <1>1, <1>2, SoundTypes DEF NoJob, Jobs, Null
  <1>6. b # Null
    BY <1>2, SoundTypes
  <1>7. pc' \in {"modified", "kill"}
    BY <1>1
  <1>8. PointersInv'
    <2>1. JobSound'
      BY <1>3, <1>4, <1>5, <1>6, <1>7 DEF JobSound, Asking
    <2> QED
      BY <1>2, <1>3, <1>5, <1>7, <2>1 DEF PointersInv, Asking
  <1>9. KillSound'
    BY <1>1, <1>2, <1>4, <1>5 DEF KillSound, Plain
  <1>10. (Stamped(ed) => Stamped(ed')) /\ (Pathed(ed) => Pathed(ed'))
    BY <1>4 DEF Stamped, Pathed
  <1> QED
    <2>1. Kept
      BY <1>4 DEF Kept, Plain
    <2> QED
      BY <1>2, <1>3, <1>7, <1>8, <1>9, <1>10, <2>1, AskedStep

LEMMA JobState ==
  ASSUME BuffersInv
  PROVE  /\ Sound(ed) /\ disk \in Disks /\ count \in [versions: Nat, steps: Nat]
         /\ pc \in Asking \cup {"idle", "find"} /\ job \in Jobs
         /\ pc = "idle" => job = NoJob
         /\ pc \in {"find", "reread", "attach", "overwrite", "write"} => job.path \in Paths
         /\ job.buf # Null => pc \in Asking /\ Plain(ed, job.buf)
         /\ pc \in {"reread", "attach", "modified", "kill"} \/ job.kill => job.buf # Null
         /\ job.buf # Null /\ pc # "reread" => ed.cbuf = job.buf
         /\ pc \in {"modified", "overwrite", "write", "kill"} => Plain(ed, job.this)
         /\ job.kill => pc \in {"overwrite", "write", "kill"}
  BY DEF BuffersInv, PointersInv, JobSound

LEMMA KillStep ==
  ASSUME BuffersInv, Kill
  PROVE  BuffersInv' /\ KeptBut(job.buf)
  <1>1. pc = "kill" /\ disk' = disk /\ count' = count /\ pc' = "idle" /\ job' = NoJob
    BY DEF Kill, Done
  <1>2. Plain(ed, job.buf) /\ Plain(ed, job.this) /\ Sound(ed) /\ count \in [versions: Nat, steps: Nat]
    BY <1>1, JobState
  <1>3. Sound(ed') /\ Survives(ed, ed', job.buf)
    BY <1>2, KilledSound DEF Kill
  <1> QED
    <2>1. KeptBut(job.buf)
      BY <1>3 DEF KeptBut, Plain, Survives
    <2> QED
      BY <1>1, <1>2, <1>3, <2>1, SurvivesFiles, EndedFiles

-----------------------------------------------------------------------------
(* Saving.                                                                 *)

LEMMA ToSaveStep ==
  ASSUME BuffersInv, pc \in {"idle", "modified"}, disk' = disk,
         count' \in [versions: Nat, steps: Nat], NEW p \in Paths, NEW j \in Jobs,
         Plain(ed, j.this), j.buf # Null => ed.cbuf = j.buf, j.kill => j.buf # Null,
         ToSave(p, ed, j)
  PROVE  BuffersInv' /\ Kept
  <1>1. Sound(ed) /\ Plain(ed, ed.cbuf) /\ disk \in Disks
    BY JobState DEF Sound
  <1>2. PICK b : b = ed.cbuf
    OBVIOUS
  <1>3. PICK f : f = Looked(ed, b, p)
    OBVIOUS
  <1>4. /\ Like(ed, f) /\ \A c \in DOMAIN ed.bufs \ {b} : f.bufs[c] = ed.bufs[c]
        /\ f.bufs[b].path = ed.bufs[b].path /\ f.bufs[b].c_time = ed.bufs[b].c_time
        /\ f.bufs[b].seen = ed.bufs[b].seen
        /\ f.bufs[b].inode = IF ed.bufs[b].path = p \/ disk[p] # None
                             THEN Inode(disk, p) ELSE ed.bufs[b].inode
    BY <1>1, <1>2, <1>3, LookedLike
  <1>5. f.cbuf = b /\ Sound(f) /\ Plain(f, b) /\ DOMAIN f.bufs = DOMAIN ed.bufs /\ b \in DOMAIN ed.bufs
    BY <1>1, <1>2, <1>4 DEF Like, SamePointers, Plain
  <1>6. /\ job' = [j EXCEPT !.path = p]
        /\ \/ Newer(f, b, p) /\ ed' = Told(f, b, p) /\ pc' = "overwrite"
           \/ ~Newer(f, b, p) /\ ed' = f /\ pc' \in {"overwrite", "write"}
    BY <1>2, <1>3, <1>5 DEF ToSave
  <1>7. /\ job' \in Jobs /\ job'.path = p /\ job'.this = j.this /\ job'.buf = j.buf /\ job'.kill = j.kill
    BY <1>6 DEF Jobs
  <1>8. /\ Like(f, ed') /\ \A c \in DOMAIN f.bufs \ {b} : ed'.bufs[c] = f.bufs[c]
        /\ ed'.bufs[b].path = f.bufs[b].path /\ ed'.bufs[b].inode = f.bufs[b].inode
        /\ Stamped(f) => Stamped(ed') /\ Version(disk, p) <= ed'.bufs[b].seen
    <2>1. CASE Newer(f, b, p)
      BY <1>1, <1>5, <1>6, <2>1, ToldLike, ToldFiles
    <2>2. CASE ~Newer(f, b, p)
      <3>1. Version(disk, p) <= f.bufs[b].c_time
        BY <1>1, <1>5, <2>2, DiskTypes, SoundTypes DEF Newer
      <3>2. ed' = f /\ f.bufs[b].c_time \in Nat /\ f.bufs[b].seen \in Nat /\ Version(disk, p) \in Nat
        BY <1>1, <1>5, <1>6, <2>2, SoundTypes, DiskTypes
      <3>3. Stamped(f) => f.bufs[b].c_time <= f.bufs[b].seen
        BY <1>5 DEF Stamped
      <3> QED
        BY <1>5, <3>1, <3>2, <3>3 DEF Like, SamePointers
    <2> QED
      BY <2>1, <2>2
  <1>9. ed'.cbuf = ed.cbuf /\ (\A c : Plain(ed, c) <=> Plain(ed', c)) /\ Sound(ed')
        /\ DOMAIN ed'.bufs = DOMAIN ed.bufs
    BY <1>4, <1>8 DEF Like, SamePointers
  <1>10. pc' \in {"overwrite", "write"}
    BY <1>6
  <1>11. PointersInv' /\ KillSound'
    <2>1. JobSound'
      <3>1. job'.buf # Null => Plain(ed', job'.buf) /\ ed'.cbuf = job'.buf
        BY <1>1, <1>7, <1>9
      <3>2. Plain(ed', job'.this) /\ (job'.kill => job'.buf # Null)
        BY <1>7, <1>9
      <3> QED
        BY <1>7, <1>10, <3>1, <3>2 DEF JobSound, Asking
    <2> QED
      BY <1>1, <1>7, <1>9, <1>10, <2>1 DEF PointersInv, KillSound, Asking
  <1>12. StampsSound => StampsSound'
    <2>1. Stamped(ed) => Stamped(f)
      BY <1>1, <1>2, <1>3, LookedFiles
    <2> QED
      BY <1>2, <1>7, <1>8, <1>9, <1>10, <2>1 DEF StampsSound
  <1>13. FilesSound => FilesSound'
    <2> SUFFICES ASSUME FilesSound
                 PROVE  FilesSound'
      OBVIOUS
    <2>1. \A c \in DOMAIN ed.bufs : ed.bufs[c].path = None => ed.bufs[c].inode = None
      BY DEF FilesSound, Live
    <2>2. \A c \in DOMAIN ed.bufs \ {b} : ed'.bufs[c].path = None => ed'.bufs[c].inode = None
      BY <1>4, <1>5, <1>8, <2>1
    <2>3. ASSUME ed'.bufs[b].path = None, disk[p] = None
          PROVE  ed'.bufs[b].inode = None
      <3>1. ed.bufs[b].path = None /\ p # None
        BY <1>4, <1>8, <2>3, BuffersAssumption
      <3>2. f.bufs[b].inode = ed.bufs[b].inode
        BY <1>4, <2>3, <3>1
      <3> QED
        BY <1>5, <1>8, <2>1, <3>1, <3>2
    <2> QED
      BY <1>2, <1>7, <1>9, <1>10, <2>2, <2>3 DEF FilesSound, Live
  <1> QED
    <2>1. Kept
      BY <1>9 DEF Kept, Plain
    <2> QED
      BY <1>11, <1>12, <1>13, <2>1 DEF BuffersInv

LEMMA SaveStep ==
  ASSUME BuffersInv, Save
  PROVE  BuffersInv' /\ Kept
  <1>1. PICK p \in Paths : ToSave(p, ed, [NoJob EXCEPT !.this = ed.cbuf])
    BY DEF Save
  <1>2. PICK j : j = [NoJob EXCEPT !.this = ed.cbuf]
    OBVIOUS
  <1>3. pc = "idle" /\ disk' = disk /\ count' \in [versions: Nat, steps: Nat] /\ Plain(ed, ed.cbuf)
        /\ ed.cbuf \in Addr
    BY IdleState, SoundTypes DEF Save
  <1>4. j \in Jobs /\ j.this = ed.cbuf /\ j.buf = Null /\ ~j.kill
    BY <1>2, <1>3 DEF NoJob, Jobs, Null
  <1> QED
    BY <1>1, <1>2, <1>3, <1>4, ToSaveStep

LEMMA KillAnswerStep ==
  ASSUME BuffersInv, KillAnswer
  PROVE  BuffersInv' /\ KeptBut(job.buf)
  <1>1. pc = "modified" /\ disk' = disk /\ count' = count /\ count \in [versions: Nat, steps: Nat]
        /\ job \in Jobs /\ Sound(ed)
    BY JobState DEF KillAnswer
  <1>2. job.buf # Null /\ Plain(ed, job.buf) /\ Plain(ed, job.this) /\ ed.cbuf = job.buf
    BY <1>1, JobState
  <1>3. CASE ed' \in Killed(ed, job.buf, job.this) /\ Done
    <2>1. Sound(ed') /\ Survives(ed, ed', job.buf)
      BY <1>1, <1>2, <1>3, KilledSound
    <2> QED
      BY <1>1, <1>3, <2>1, SurvivesFiles, EndedFiles DEF Done, KeptBut, Plain, Survives
  <1>4. CASE \E p \in Paths : ToSave(p, ed, [job EXCEPT !.kill = TRUE])
    <2>1. PICK p \in Paths : ToSave(p, ed, [job EXCEPT !.kill = TRUE])
      BY <1>4
    <2>2. PICK j : j = [job EXCEPT !.kill = TRUE]
      OBVIOUS
    <2>3. j \in Jobs /\ j.this = job.this /\ j.buf = job.buf
      BY <1>1, <2>2 DEF Jobs
    <2> QED
      BY <1>1, <1>2, <2>1, <2>2, <2>3, ToSaveStep DEF Kept, KeptBut
  <1>5. CASE ed' = Switched(ed, job.this) /\ Done
    <2>1. Sound(ed')
      BY <1>1, <1>2, <1>5, SwitchedSound
    <2>2. ed'.bufs = ed.bufs
      BY <1>1, <1>5 DEF Switched, Sound, Editor
    <2>3. (Stamped(ed) => Stamped(ed')) /\ (Pathed(ed) => Pathed(ed'))
      BY <2>2 DEF Stamped, Pathed
    <2> QED
      BY <1>1, <1>5, <2>1, <2>2, <2>3, EndedFiles DEF Done, KeptBut, Plain
  <1>6. CASE UNCHANGED ed /\ Done
    BY <1>1, <1>6, EndedFiles DEF Done, KeptBut, Plain
  <1> QED
    BY <1>3, <1>4, <1>5, <1>6 DEF KillAnswer

(* The end of a save that leaves e.                                        *)
LEMMA SavedStep ==
  ASSUME BuffersInv, pc \in {"overwrite", "write"}, NEW e, Like(ed, e),
         disk' \in Disks, count' \in [versions: Nat, steps: Nat],
         NEW end, Saved(e, end),
         "race" \notin Lapses => Stamped(e),
         "race" \notin Lapses /\ "unnamed" \notin Lapses => Pathed(e) /\ DiskSound(disk'),
         job.kill /\ end \notin {"error", "declined"} => ~e.bufs[job.buf].modified
  PROVE  BuffersInv' /\ Kept
  <1>1. /\ Sound(e) /\ job \in Jobs /\ (job.buf # Null => Plain(e, job.buf))
        /\ (job.kill => job.buf # Null) /\ Plain(e, job.this)
        /\ (job.buf # Null => e.cbuf = job.buf)
    BY JobState DEF Like, SamePointers
  <1>2. /\ Sound(ed') /\ ed'.bufs = e.bufs
        /\ \/ pc' = "idle" /\ job' = NoJob
           \/ /\ job.kill /\ end # "error" /\ ed' = e /\ pc' = "kill"
              /\ job' = [job EXCEPT !.declined = end = "declined"]
    <2>1. Sound(Switched(e, job.this)) /\ Switched(e, job.this).bufs = e.bufs
      <3>1. Sound(Switched(e, job.this))
        BY ONLY <1>1, SwitchedSound
      <3>2. Switched(e, job.this).bufs = e.bufs
        BY ONLY <1>1 DEF Switched, Sound, Editor
      <3> QED
        BY <3>1, <3>2
    <2>2. CASE ~job.kill /\ ed' = e /\ Done
      BY <1>1, <2>2 DEF Done
    <2>3. CASE job.kill /\ end = "error" /\ ed' = Switched(e, job.this) /\ Done
      BY <2>1, <2>3 DEF Done
    <2>4. CASE /\ job.kill /\ end # "error" /\ ed' = e /\ pc' = "kill"
               /\ job' = [job EXCEPT !.declined = end = "declined"]
      BY <1>1, <2>4
    <2> QED
      BY <2>2, <2>3, <2>4 DEF Saved
  <1>3. /\ Stamped(e) => Stamped(ed')
        /\ Pathed(e) => Pathed(ed')
    BY <1>2 DEF Stamped, Pathed
  <1>4. pc' \in {"idle", "kill"}
    BY <1>2
  <1>5. "race" \notin Lapses => StampsSound'
    BY <1>3, <1>4 DEF StampsSound
  <1>6. "race" \notin Lapses /\ "unnamed" \notin Lapses => FilesSound'
    BY <1>3, <1>4 DEF FilesSound, Pathed, Live
  <1>7. Kept
    BY <1>2 DEF Kept, Plain, Like
  <1>8. CASE pc' = "idle" /\ job' = NoJob
    BY <1>2, <1>5, <1>6, <1>7, <1>8, Ended DEF BuffersInv
  <1>9. CASE /\ job.kill /\ end # "error" /\ ed' = e /\ pc' = "kill"
             /\ job' = [job EXCEPT !.declined = end = "declined"]
    <2>0. /\ job' \in Jobs /\ job'.buf = job.buf /\ job'.kill = job.kill /\ job'.this = job.this
          /\ job'.declined <=> end = "declined"
      BY <1>1, <1>9 DEF Jobs
    <2>1. JobSound'
      BY <1>1, <1>9, <2>0 DEF JobSound, Asking
    <2>2. PointersInv'
      BY <1>1, <1>9, <2>0, <2>1 DEF PointersInv, Asking
    <2>3. KillSound'
      BY <1>9, <2>0 DEF KillSound
    <2> QED
      BY <1>5, <1>6, <1>7, <2>2, <2>3 DEF BuffersInv
  <1> QED
    BY <1>2, <1>8, <1>9

(* The state when a question about a save, or a save, is due.              *)
LEMMA SaveState ==
  ASSUME BuffersInv, pc \in {"overwrite", "write"}
  PROVE  /\ Plain(ed, ed.cbuf) /\ job.path \in Paths /\ Like(ed, ed)
         /\ "race" \notin Lapses
            => Stamped(ed) /\ Version(disk, job.path) <= ed.bufs[ed.cbuf].seen
         /\ "race" \notin Lapses /\ "unnamed" \notin Lapses
            => /\ DiskSound(disk)
               /\ \A b \in DOMAIN ed.bufs \ {ed.cbuf} :
                    ed.bufs[b].path = None => ed.bufs[b].inode = None
               /\ ed.bufs[ed.cbuf].path = None /\ ed.bufs[ed.cbuf].inode # None
                  => disk[job.path] # None
         /\ job.kill => job.buf = ed.cbuf
  <1>1. Plain(ed, ed.cbuf) /\ job.path \in Paths /\ Sound(ed) /\ (job.kill => job.buf = ed.cbuf)
    BY JobState DEF Sound
  <1>2. Like(ed, ed)
    BY <1>1 DEF Like, SamePointers
  <1>3. "race" \notin Lapses
        => Stamped(ed) /\ Version(disk, job.path) <= ed.bufs[ed.cbuf].seen
    BY DEF BuffersInv, StampsSound
  <1>4. "race" \notin Lapses /\ "unnamed" \notin Lapses
        => /\ DiskSound(disk)
           /\ \A b \in DOMAIN ed.bufs \ {ed.cbuf} :
                ed.bufs[b].path = None => ed.bufs[b].inode = None
           /\ ed.bufs[ed.cbuf].path = None /\ ed.bufs[ed.cbuf].inode # None
              => disk[job.path] # None
    BY <1>1 DEF BuffersInv, FilesSound, Live, Plain
  <1> QED
    BY <1>1, <1>2, <1>3, <1>4

LEMMA OverwriteStep ==
  ASSUME BuffersInv, Overwrite
  PROVE  BuffersInv' /\ Kept
  <1>1. pc = "overwrite" /\ disk' = disk /\ count' = count /\ disk \in Disks
        /\ count \in [versions: Nat, steps: Nat] /\ pc \in {"overwrite", "write"}
    BY JobState DEF Overwrite
  <1>2. CASE pc' = "write" /\ UNCHANGED <<ed, job>>
    <2>1. PointersInv'
      BY <1>1, <1>2 DEF BuffersInv, PointersInv, JobSound, Asking
    <2>2. StampsSound => StampsSound'
      BY <1>1, <1>2 DEF StampsSound
    <2>3. FilesSound => FilesSound'
      BY <1>1, <1>2 DEF FilesSound, Live
    <2>4. KillSound'
      BY <1>2 DEF KillSound
    <2> QED
      BY <1>2, <2>1, <2>2, <2>3, <2>4 DEF BuffersInv, Kept, Plain
  <1>3. ASSUME NEW end \in {"declined", "error"}, NotSaved(ed, end)
        PROVE  BuffersInv' /\ Kept
    <2>1. "race" \notin Lapses /\ "unnamed" \notin Lapses => Pathed(ed) /\ DiskSound(disk')
      BY <1>1, <1>3, SaveState DEF NotSaved, Pathed
    <2> QED
      BY <1>1, <1>3, <2>1, SaveState, SavedStep DEF NotSaved
  <1> QED
    BY <1>2, <1>3 DEF Overwrite

(* The file is written.                                                    *)
LEMMA WrittenStep ==
  ASSUME BuffersInv, pc = "write", NewVersion,
         NEW n \in Unused \cup ({Inode(disk, job.path)} \ {None}), Written(job.path, n),
         NEW e, e = [ed EXCEPT !.bufs[ed.cbuf] =
                       [@ EXCEPT !.c_time = count.versions + 1, !.inode = n, !.modified = FALSE,
                                 !.seen = count.versions + 1]],
         NEW end \in {"ok", "error"}, Saved(VisitFile(e, job.path, disk'), end)
  PROVE  BuffersInv' /\ Kept
  <1>1. /\ Sound(ed) /\ disk \in Disks /\ count \in [versions: Nat, steps: Nat]
        /\ count' \in [versions: Nat, steps: Nat] /\ pc \in {"overwrite", "write"}
        /\ Plain(ed, ed.cbuf) /\ job.path \in Paths
    BY JobState, IdleState, SaveState
  <1>2. PICK b, p, v : b = ed.cbuf /\ p = job.path /\ v = count.versions + 1
    OBVIOUS
  <1>3. /\ disk' \in Disks /\ n \in Inodes /\ Version(disk', p) <= v
        /\ DiskSound(disk) => DiskSound(disk')
    BY <1>1, <1>2, WrittenDisk
  <1>4. v \in Nat /\ ed.bufs[b] \in Buffer
    BY <1>1, <1>2, EditorType DEF Sound, Plain
  <1>5. PICK r : r = [ed.bufs[b] EXCEPT !.c_time = v, !.inode = n, !.modified = FALSE, !.seen = v]
    OBVIOUS
  <1>6. /\ r \in Buffer /\ r.name = ed.bufs[b].name /\ r.c_time = v /\ r.seen = v
        /\ r.modified = FALSE
    BY ONLY <1>3, <1>4, <1>5 DEF Buffer
  <1>7. e = [ed EXCEPT !.bufs[b] = r]
    BY <1>2, <1>5
  <1>8. /\ Like(ed, e) /\ e.bufs[b] = r /\ e.cbuf = b
        /\ \A c \in DOMAIN ed.bufs \ {b} : e.bufs[c] = ed.bufs[c]
    <2>1. PICK g : g = [ed EXCEPT !.bufs[b] = r]
      OBVIOUS
    <2>2. /\ Like(ed, g) /\ g.bufs[b] = r /\ \A c \in DOMAIN ed.bufs \ {b} : g.bufs[c] = ed.bufs[c]
      BY ONLY <1>1, <1>2, <1>6, <2>1, PutLike
    <2>3. e = g
      BY <1>7, <2>1
    <2> QED
      BY ONLY <1>2, <2>2, <2>3 DEF Like, SamePointers
  <1>9. Sound(e) /\ DOMAIN e.bufs = DOMAIN ed.bufs /\ b \in DOMAIN ed.bufs
    BY <1>1, <1>2, <1>8 DEF Like, Plain
  <1>10. PICK f : f = VisitFile(e, p, disk')
    OBVIOUS
  <1>11. /\ Like(e, f) /\ f.bufs[b].modified = FALSE
    BY ONLY <1>1, <1>2, <1>3, <1>6, <1>8, <1>9, <1>10, VisitLike
  <1>12. Like(ed, f)
    BY <1>8, <1>11 DEF Like, SamePointers
  <1>13. "race" \notin Lapses => Stamped(f)
    <2>1. Stamped(ed) => Stamped(e)
      BY ONLY <1>4, <1>6, <1>8, <1>9 DEF Stamped
    <2>2. Version(disk', p) <= e.bufs[e.cbuf].seen
      BY ONLY <1>2, <1>3, <1>6, <1>8
    <2>3. Stamped(e) => Stamped(f)
      BY ONLY <1>1, <1>2, <1>3, <1>9, <1>10, <2>2, VisitFiles
    <2> QED
      BY <1>1, <2>1, <2>3, SaveState
  <1>14. "race" \notin Lapses /\ "unnamed" \notin Lapses => Pathed(f) /\ DiskSound(disk')
    BY <1>1, <1>2, <1>3, <1>8, <1>9, <1>10, SaveState, VisitFiles
  <1>15. job.kill => ~f.bufs[job.buf].modified
    BY <1>1, <1>2, <1>11, SaveState
  <1> QED
    BY <1>1, <1>2, <1>3, <1>10, <1>12, <1>13, <1>14, <1>15, SavedStep

(* The file cannot be written.                                             *)
LEMMA NotWrittenStep ==
  ASSUME BuffersInv, pc = "write", UNCHANGED <<disk, count>>,
         NotSaved([ed EXCEPT !.bufs[ed.cbuf].c_time = Version(disk, job.path),
                             !.bufs[ed.cbuf].inode = Inode(disk, job.path)], "error")
  PROVE  BuffersInv' /\ Kept
  <1>1. /\ Sound(ed) /\ disk \in Disks /\ count \in [versions: Nat, steps: Nat]
        /\ pc \in {"overwrite", "write"} /\ Plain(ed, ed.cbuf) /\ job.path \in Paths
    BY JobState, SaveState
  <1>2. PICK b, p, v, n : b = ed.cbuf /\ p = job.path /\ v = Version(disk, p) /\ n = Inode(disk, p)
    OBVIOUS
  <1>3. v \in Nat /\ n \in Inodes \cup {None} /\ ed.bufs[b] \in Buffer
    BY <1>1, <1>2, DiskTypes, EditorType DEF Sound, Plain
  <1>4. PICK r : r = [ed.bufs[b] EXCEPT !.c_time = v, !.inode = n]
    OBVIOUS
  <1>5. /\ r \in Buffer /\ r.name = ed.bufs[b].name /\ r.c_time = v /\ r.inode = n
        /\ r.seen = ed.bufs[b].seen /\ r.path = ed.bufs[b].path
    BY ONLY <1>3, <1>4 DEF Buffer
  <1>6. PICK e : e = [ed EXCEPT !.bufs[b] = r]
    OBVIOUS
  <1>7. e = [ed EXCEPT !.bufs[b].c_time = v, !.bufs[b].inode = n]
    <2>1. b \in DOMAIN ed.bufs
      BY <1>1, <1>2 DEF Plain
    <2> QED
      BY <1>1, <1>4, <1>6, <2>1, EditorType DEF Sound, Editor, Buffer
  <1>8. /\ Like(ed, e) /\ e.bufs[b] = r /\ DOMAIN e.bufs = DOMAIN ed.bufs /\ b \in DOMAIN ed.bufs
        /\ \A c \in DOMAIN ed.bufs \ {b} : e.bufs[c] = ed.bufs[c]
    BY <1>1, <1>2, <1>5, <1>6, PutLike DEF Like, Plain
  <1>9. "race" \notin Lapses => Stamped(e)
    BY <1>1, <1>2, <1>5, <1>8, SaveState DEF Stamped
  <1>10. NotSaved(e, "error")
    BY <1>2, <1>7
  <1>11. "race" \notin Lapses /\ "unnamed" \notin Lapses => Pathed(e) /\ DiskSound(disk')
    <2> SUFFICES ASSUME "race" \notin Lapses, "unnamed" \notin Lapses
                 PROVE  Pathed(e) /\ DiskSound(disk')
      OBVIOUS
    <2>1. ed.bufs[b].path = None => disk[p] = None
      BY <1>2, <1>10 DEF NotSaved
    <2>2. ed.bufs[b].path = None => n = None
      BY <1>2, <2>1 DEF Inode
    <2>3. \A c \in DOMAIN ed.bufs \ {b} : ed.bufs[c].path = None => ed.bufs[c].inode = None
      BY <1>1, <1>2, SaveState
    <2>4. Pathed(e)
      BY <1>5, <1>8, <2>2, <2>3 DEF Pathed
    <2> QED
      BY <1>1, <2>4, SaveState
  <1> QED
    BY <1>1, <1>8, <1>9, <1>10, <1>11, SavedStep DEF NotSaved

LEMMA WriteFileStep ==
  ASSUME BuffersInv, WriteFile
  PROVE  BuffersInv' /\ Kept
  <1>1. pc = "write"
    BY DEF WriteFile
  <1>2. CASE \E n \in Unused \cup ({Inode(disk, job.path)} \ {None}), end \in {"ok", "error"} :
               /\ NewVersion
               /\ Written(job.path, n)
               /\ LET v == count.versions + 1
                      e == [ed EXCEPT !.bufs[ed.cbuf] =
                              [@ EXCEPT !.c_time = v, !.inode = n, !.modified = FALSE,
                                        !.seen = v]]
                  IN Saved(VisitFile(e, job.path, disk'), end)
    BY <1>1, <1>2, WrittenStep
  <1>3. CASE /\ UNCHANGED <<disk, count>>
             /\ NotSaved([ed EXCEPT !.bufs[ed.cbuf].c_time = Version(disk, job.path),
                                    !.bufs[ed.cbuf].inode = Inode(disk, job.path)], "error")
    BY <1>1, <1>3, NotWrittenStep
  <1>4. CASE UNCHANGED <<disk, count>> /\ NotSaved(ed, "error")
    <2>1. /\ disk' \in Disks /\ count' \in [versions: Nat, steps: Nat]
          /\ pc \in {"overwrite", "write"}
      BY <1>1, <1>4, JobState
    <2>2. "race" \notin Lapses /\ "unnamed" \notin Lapses => Pathed(ed) /\ DiskSound(disk')
      BY <1>4, <2>1, SaveState DEF NotSaved, Pathed
    <2> QED
      BY <1>4, <2>1, <2>2, SaveState, SavedStep DEF NotSaved
  <1> QED
    BY <1>2, <1>3, <1>4 DEF WriteFile

-----------------------------------------------------------------------------
(* Finding.                                                                *)

LEMMA FindFileStep ==
  ASSUME BuffersInv, FindFile
  PROVE  BuffersInv' /\ Kept
  <1>1. PICK p \in Paths, w \in BOOLEAN :
          job' = [NoJob EXCEPT !.path = p, !.this = ed.cbuf, !.window = w]
    BY DEF FindFile
  <1>2. /\ pc = "idle" /\ pc' = "find" /\ ed' = ed /\ disk' = disk /\ disk \in Disks
        /\ count' \in [versions: Nat, steps: Nat] /\ Sound(ed) /\ ed.cbuf \in Addr
    BY IdleState, SoundTypes DEF FindFile
  <1>3. job' \in Jobs /\ job'.path = p /\ job'.buf = Null /\ ~job'.kill
    BY <1>1, <1>2 DEF NoJob, Jobs, Null
  <1>4. PointersInv' /\ KillSound'
    <2>1. JobSound'
      BY <1>2, <1>3 DEF JobSound, Asking
    <2> QED
      BY <1>2, <1>3, <2>1 DEF PointersInv, KillSound, Asking
  <1> QED
    BY <1>2, <1>4, AskedStep DEF Kept, Plain

(* The end of find_file, which leaves e.                                   *)
LEMMA FoundStep ==
  ASSUME BuffersInv, pc \in {"find", "reread", "attach"}, UNCHANGED <<disk, count>>,
         NEW e, Sound(e), Found(e),
         "race" \notin Lapses => Stamped(e),
         "race" \notin Lapses /\ "unnamed" \notin Lapses => Pathed(e)
  PROVE  BuffersInv' /\ ed'.cbuf = e.cbuf /\ pc' = "idle" /\ ed'.bufs = e.bufs
  <1>1. disk \in Disks /\ count \in [versions: Nat, steps: Nat] /\ pc' = "idle" /\ job' = NoJob
        /\ Plain(e, e.cbuf) /\ e \in Editor
    BY JobState, SoundTypes DEF Found, Done
  <1>2. Sound(ed') /\ ed'.bufs = e.bufs /\ ed'.cbuf = e.cbuf
    <2>1. CASE ~job.window
      BY <2>1 DEF Found
    <2>2. ASSUME NEW l, l = e.last \/ Plain(e, l),
                 ed' = WindowBuffer([e EXCEPT !.last = l], e.cbuf)
          PROVE  Sound(ed') /\ ed'.bufs = e.bufs /\ ed'.cbuf = e.cbuf
      <3>1. ed' = [WindowBuffer(e, e.cbuf) EXCEPT !.last = l]
        BY <1>1, <2>2 DEF WindowBuffer, Editor
      <3>2. PICK f : f = [WindowBuffer(e, e.cbuf) EXCEPT !.last = l]
        OBVIOUS
      <3>3. l = e.last \/ Plain(e, l)
        BY <2>2
      <3>4. Sound(f) /\ f.bufs = e.bufs /\ f.cbuf = e.cbuf
        BY ONLY <1>1, <3>2, <3>3, Sound(e), WindowBufferSound
      <3> QED
        BY ONLY <3>1, <3>2, <3>4
    <2>3. CASE job.window /\ job.this # e.cbuf /\ ~Internal(e, e.cbuf)
      BY <1>1, <2>2, <2>3 DEF Found
    <2>4. CASE job.window /\ ~(job.this # e.cbuf /\ ~Internal(e, e.cbuf))
      <3>1. e = [e EXCEPT !.last = e.last]
        BY <1>1 DEF Editor
      <3> QED
        BY <1>1, <2>2, <2>4, <3>1 DEF Found
    <2> QED
      BY <1>1, <2>1, <2>3, <2>4, JobState DEF Jobs
  <1>3. (Stamped(e) => Stamped(ed')) /\ (Pathed(e) => Pathed(ed'))
    BY <1>2 DEF Stamped, Pathed
  <1>4. "race" \notin Lapses => StampsSound'
    BY <1>1, <1>3 DEF StampsSound
  <1>5. "race" \notin Lapses /\ "unnamed" \notin Lapses => FilesSound'
    BY <1>1, <1>3 DEF FilesSound, Pathed, Live, BuffersInv
  <1>6. PointersInv' /\ KillSound'
    BY <1>1, <1>2, Ended
  <1> QED
    BY <1>1, <1>2, <1>4, <1>5, <1>6 DEF BuffersInv

(* What check_buffers leaves.                                              *)
LEMMA LookupState ==
  ASSUME BuffersInv, pc = "find", NEW e, e = Checked(ed, disk)
  PROVE  /\ Sound(e) /\ Like(ed, e) /\ job.path \in Paths /\ disk \in Disks
         /\ \A b \in DOMAIN ed.bufs : CheckedAs(e.bufs[b], ed.bufs[b], disk)
         /\ "race" \notin Lapses => Stamped(e)
         /\ "race" \notin Lapses /\ "unnamed" \notin Lapses => Pathed(e) /\ DiskSound(disk)
  <1>1. Sound(ed) /\ job.path \in Paths /\ disk \in Disks
    BY JobState
  <1>2. Like(ed, e) /\ \A b \in DOMAIN ed.bufs : CheckedAs(e.bufs[b], ed.bufs[b], disk)
    BY ONLY <1>1, e = Checked(ed, disk), CheckedLike
  <1>3. (Stamped(ed) => Stamped(e)) /\ (Pathed(ed) => Pathed(e))
    BY ONLY <1>1, e = Checked(ed, disk), CheckedFiles
  <1>4. "race" \notin Lapses => Stamped(ed)
    BY DEF BuffersInv, StampsSound
  <1>5. "race" \notin Lapses /\ "unnamed" \notin Lapses => Pathed(ed) /\ DiskSound(disk)
    BY DEF BuffersInv, FilesSound, Pathed, Live
  <1> QED
    BY <1>1, <1>2, <1>3, <1>4, <1>5 DEF Like

(* A buffer that is found has the file ...                                 *)
LEMMA FileBufferVisits ==
  ASSUME BuffersInv, pc = "find", NEW e, e = Checked(ed, disk),
         NEW b \in FileBuffers(e, job.path)
  PROVE  /\ Plain(e, b)
         /\ "race" \notin Lapses /\ "unnamed" \notin Lapses
            => VisitsTarget(b) /\ e.bufs[b].path # None
  <1>1. PICK p : p = job.path
    OBVIOUS
  <1>2. /\ Sound(e) /\ Like(ed, e) /\ p \in Paths /\ disk \in Disks /\ p # None
        /\ \A c \in DOMAIN ed.bufs : CheckedAs(e.bufs[c], ed.bufs[c], disk)
        /\ "race" \notin Lapses /\ "unnamed" \notin Lapses => Pathed(e) /\ DiskSound(disk)
    BY <1>1, LookupState, BuffersAssumption
  <1>3. /\ b \in DOMAIN e.bufs /\ b \in DOMAIN ed.bufs
        /\ e.bufs[b].path = p \/ (disk[p] # None /\ e.bufs[b].inode = disk[p].inode)
    BY <1>1, <1>2 DEF FileBuffers, ByName, ByInode, Like
  <1>4. disk[p] # None => disk[p].inode # None
    BY <1>2, BuffersAssumption DEF Disks, File
  <1>5. Plain(e, b)
    <2>1. ~(e.bufs[b].path = None /\ e.bufs[b].inode = None)
      BY <1>2, <1>3, <1>4
    <2> QED
      BY <1>2, <1>3, <2>1 DEF Sound, Plain
  <1>6. ASSUME "race" \notin Lapses, "unnamed" \notin Lapses
        PROVE  VisitsTarget(b) /\ e.bufs[b].path # None
    <2>1. e.bufs[b].path # None /\ ed.bufs[b].path = e.bufs[b].path
      BY <1>2, <1>3, <1>4, <1>6 DEF Pathed, CheckedAs
    <2>2. CASE e.bufs[b].path = p
      BY <1>1, <2>1, <2>2 DEF VisitsTarget
    <2>3. CASE disk[p] # None /\ e.bufs[b].inode = disk[p].inode
      <3>1. PICK q : q = ed.bufs[b].path
        OBVIOUS
      <3>2. q \in Paths /\ e.bufs[b].inode = Inode(disk, q)
        BY <1>2, <1>3, <2>1, <3>1, SoundTypes DEF CheckedAs
      <3>3. disk[q] # None /\ disk[q].inode = disk[p].inode
        BY <1>4, <2>3, <3>2 DEF Inode
      <3>4. disk[q] = disk[p]
        BY <1>2, <1>6, <2>3, <3>2, <3>3 DEF DiskSound
      <3> QED
        BY <1>1, <2>1, <2>3, <3>1, <3>4 DEF VisitsTarget
    <2> QED
      BY <1>3, <2>2, <2>3
  <1> QED
    BY <1>5, <1>6

(* ... and if none is found none has it.                                   *)
LEMMA NoFileBuffer ==
  ASSUME BuffersInv, pc = "find", FileBuffers(Checked(ed, disk), job.path) = {}
  PROVE  ~\E b \in Live : VisitsTarget(b)
  <1>1. PICK e, p : e = Checked(ed, disk) /\ p = job.path
    OBVIOUS
  <1>2. /\ DOMAIN e.bufs = DOMAIN ed.bufs
        /\ \A c \in DOMAIN ed.bufs : CheckedAs(e.bufs[c], ed.bufs[c], disk)
    BY <1>1, LookupState DEF Like
  <1> SUFFICES ASSUME NEW b \in Live, VisitsTarget(b)
               PROVE  FileBuffers(e, p) # {}
    BY <1>1
  <1>3. b \in DOMAIN e.bufs /\ CheckedAs(e.bufs[b], ed.bufs[b], disk) /\ ed.bufs[b].path # None
    BY <1>2 DEF Live, VisitsTarget
  <1>4. CASE ed.bufs[b].path = p
    BY <1>3, <1>4 DEF FileBuffers, ByName, CheckedAs
  <1>5. CASE disk[p] # None /\ disk[ed.bufs[b].path] = disk[p]
    BY <1>3, <1>5 DEF FileBuffers, ByName, ByInode, CheckedAs, Inode
  <1> QED
    BY <1>1, <1>4, <1>5 DEF VisitsTarget

(* A buffer of the file is there, and the file is newer.                   *)
LEMMA RereadAsked ==
  ASSUME BuffersInv, pc = "find", UNCHANGED <<disk, count>>,
         NEW f, Sound(f), NEW b, Plain(f, b),
         "race" \notin Lapses => Stamped(f),
         "race" \notin Lapses /\ "unnamed" \notin Lapses => Pathed(f),
         ed' = Told(f, b, job.path), pc' = "reread", job' = [job EXCEPT !.buf = b]
  PROVE  BuffersInv' /\ job'.buf = b /\ DOMAIN ed'.bufs = DOMAIN f.bufs
  <1>1. /\ job.path \in Paths /\ disk \in Disks /\ job \in Jobs /\ ~job.kill
        /\ count \in [versions: Nat, steps: Nat]
    BY JobState
  <1>2. /\ Like(f, ed') /\ (Stamped(f) => Stamped(ed')) /\ (Pathed(f) => Pathed(ed'))
    BY ONLY <1>1, Sound(f), Plain(f, b), ed' = Told(f, b, job.path), ToldLike, ToldFiles
  <1>3. b \in Addr /\ b # Null /\ b \in DOMAIN f.bufs
    BY SoundTypes
  <1>4. job' \in Jobs /\ job'.buf = b /\ job'.path = job.path /\ ~job'.kill
    BY <1>1, <1>3 DEF Jobs
  <1>5. Sound(ed') /\ Plain(ed', b)
    BY <1>2 DEF Like
  <1>6. PointersInv' /\ KillSound'
    <2>1. JobSound'
      BY <1>1, <1>3, <1>4, <1>5 DEF JobSound, Asking
    <2> QED
      BY <1>1, <1>4, <1>5, <2>1 DEF PointersInv, KillSound, Asking
  <1>7. "race" \notin Lapses => StampsSound'
    BY <1>2 DEF StampsSound
  <1>8. "race" \notin Lapses /\ "unnamed" \notin Lapses => FilesSound'
    BY <1>2 DEF FilesSound, Pathed, Live, BuffersInv
  <1> QED
    BY <1>2, <1>4, <1>6, <1>7, <1>8 DEF BuffersInv, Like

(* A buffer is made.                                                       *)
LEMMA AttachBegun ==
  ASSUME BuffersInv, pc = "find", UNCHANGED <<disk, count>>,
         NEW e, Sound(e), "race" \notin Lapses => Stamped(e),
         "race" \notin Lapses /\ "unnamed" \notin Lapses => Pathed(e),
         NEW made \in MakeBuffer(e, FileName[job.path]),
         ed' = Switched(Told(made[1], made[2], job.path), made[2]),
         pc' = "attach", job' = [job EXCEPT !.buf = made[2]]
  PROVE  BuffersInv' /\ DOMAIN e.bufs \subseteq DOMAIN ed'.bufs
  <1>1. /\ job.path \in Paths /\ disk \in Disks /\ job \in Jobs /\ ~job.kill
        /\ count \in [versions: Nat, steps: Nat]
    BY JobState
  <1>2. PICK f, b, p : f = made[1] /\ b = made[2] /\ p = job.path
    OBVIOUS
  <1>3. Sound(f) /\ Extends(e, f) /\ Plain(f, b)
    <2>1. e \in Editor /\ FileName[p] \in Names \ {Paste}
      BY <1>1, <1>2, NamesOf, SoundTypes
    <2>2. Added(e, f, b, FileName[p])
      BY <1>2, <2>1, MadeAdded
    <2> QED
      BY ONLY <2>1, <2>2, Sound(e), AddedSound
  <1>4. PICK g : g = Told(f, b, p)
    OBVIOUS
  <1>5. /\ Like(f, g) /\ (Stamped(f) => Stamped(g)) /\ (Pathed(f) => Pathed(g))
        /\ g.bufs[b].seen >= Version(disk, p)
    BY ONLY <1>1, <1>2, <1>3, <1>4, ToldLike, ToldFiles
  <1>6. (Stamped(e) => Stamped(g)) /\ (Pathed(e) => Pathed(g)) /\ Sound(g) /\ Plain(g, b)
    BY <1>3, <1>5, ExtendsFiles DEF Like
  <1>7. ed' = Switched(g, b)
    BY <1>2, <1>4
  <1>8. /\ Sound(ed') /\ Plain(ed', b) /\ ed'.bufs = g.bufs /\ ed'.cbuf = b
    <2>1. ed'.bufs = g.bufs /\ ed'.cbuf = b
      BY <1>6, <1>7 DEF Switched, Sound, Editor
    <2> QED
      BY <1>6, <1>7, <2>1, SwitchedSound
  <1>9. b \in Addr /\ b # Null /\ g.bufs[b].seen \in Nat /\ Version(disk, p) \in Nat
    BY <1>1, <1>2, <1>6, SoundTypes, DiskTypes
  <1>10. job' \in Jobs /\ job'.buf = b /\ job'.path = p /\ ~job'.kill
    BY <1>1, <1>2, <1>9 DEF Jobs
  <1>11. PointersInv' /\ KillSound'
    <2>1. JobSound'
      BY <1>1, <1>2, <1>8, <1>9, <1>10 DEF JobSound, Asking
    <2> QED
      BY <1>1, <1>8, <1>10, <2>1 DEF PointersInv, KillSound, Asking
  <1>12. (Stamped(e) => Stamped(ed')) /\ (Pathed(e) => Pathed(ed'))
    BY <1>6, <1>8 DEF Stamped, Pathed
  <1>13. "race" \notin Lapses => StampsSound'
    BY <1>5, <1>8, <1>9, <1>10, <1>12 DEF StampsSound
  <1>14. "race" \notin Lapses /\ "unnamed" \notin Lapses => FilesSound'
    BY <1>12 DEF FilesSound, Pathed, Live, BuffersInv
  <1>15. DOMAIN e.bufs \subseteq DOMAIN ed'.bufs
    BY <1>3, <1>5, <1>8 DEF Extends, Like
  <1> QED
    BY <1>11, <1>13, <1>14, <1>15 DEF BuffersInv

(* The cases of Lookup, b being the buffer that is found.                  *)
LEMMA LookupCases ==
  ASSUME Lookup
  PROVE  /\ pc = "find" /\ UNCHANGED <<disk, count>>
         /\ \/ /\ FileBuffers(Checked(ed, disk), job.path) # {}
               /\ \E b \in FileBuffers(Checked(ed, disk), job.path) :
                    LET f == Looked(Checked(ed, disk), b, job.path)
                    IN \/ /\ ed' = Told(f, b, job.path)
                          /\ pc' = "reread" /\ job' = [job EXCEPT !.buf = b]
                       \/ Found(Switched(f, b))
            \/ /\ FileBuffers(Checked(ed, disk), job.path) = {}
               /\ \E made \in MakeBuffer(Checked(ed, disk), FileName[job.path]) :
                    /\ ed' = Switched(Told(made[1], made[2], job.path), made[2])
                    /\ pc' = "attach" /\ job' = [job EXCEPT !.buf = made[2]]
  BY Zenon DEF Lookup

(* Besides the invariant: the buffer that is given visits the file.        *)
LEMMA LookupStep ==
  ASSUME BuffersInv, Lookup
  PROVE  /\ BuffersInv' /\ Kept
         /\ "race" \notin Lapses /\ "unnamed" \notin Lapses =>
              IF pc' = "attach" THEN ~\E b \in Live : VisitsTarget(b)
              ELSE LET b == IF pc' = "reread" THEN job'.buf ELSE ed'.cbuf
                   IN b \in Live /\ VisitsTarget(b)
  <1>1. PICK e, p : e = Checked(ed, disk) /\ p = job.path
    OBVIOUS
  <1>2. pc = "find" /\ UNCHANGED <<disk, count>>
    BY LookupCases
  <1>3. /\ Sound(e) /\ Like(ed, e) /\ p \in Paths /\ disk \in Disks
        /\ "race" \notin Lapses => Stamped(e)
        /\ "race" \notin Lapses /\ "unnamed" \notin Lapses => Pathed(e)
    BY <1>1, <1>2, LookupState
  <1>4. ASSUME NEW b \in FileBuffers(e, p), NEW f, f = Looked(e, b, p),
               \/ ed' = Told(f, b, p) /\ pc' = "reread" /\ job' = [job EXCEPT !.buf = b]
               \/ Found(Switched(f, b))
        PROVE  /\ BuffersInv' /\ Kept
               /\ "race" \notin Lapses /\ "unnamed" \notin Lapses =>
                    IF pc' = "attach" THEN ~\E c \in Live : VisitsTarget(c)
                    ELSE LET c == IF pc' = "reread" THEN job'.buf ELSE ed'.cbuf
                         IN c \in Live /\ VisitsTarget(c)
    <2>1. /\ Plain(e, b) /\ b \in Live
          /\ "race" \notin Lapses /\ "unnamed" \notin Lapses
             => VisitsTarget(b) /\ e.bufs[b].path # None
      BY <1>1, <1>2, <1>3, <1>4, FileBufferVisits DEF Like, Plain, Live
    <2>2. /\ Like(e, f) /\ (Stamped(e) => Stamped(f))
          /\ Pathed(e) /\ e.bufs[b].path # None => Pathed(f)
      BY ONLY <1>3, <2>1, f = Looked(e, b, p), LookedLike, LookedFiles
    <2>3. /\ Sound(f) /\ Plain(f, b)
          /\ "race" \notin Lapses => Stamped(f)
          /\ "race" \notin Lapses /\ "unnamed" \notin Lapses => Pathed(f)
      BY ONLY <1>3, <2>1, <2>2 DEF Like
    <2>4. CASE ed' = Told(f, b, p) /\ pc' = "reread" /\ job' = [job EXCEPT !.buf = b]
      <3>1. BuffersInv' /\ job'.buf = b /\ DOMAIN ed'.bufs = DOMAIN f.bufs
        BY ONLY <1>1, <1>2, <2>3, <2>4, BuffersInv, RereadAsked
      <3>2. Kept
        BY ONLY <1>3, <2>2, <3>1 DEF Kept, Plain, Like
      <3> QED
        BY <2>1, <2>4, <3>1, <3>2
    <2>5. CASE Found(Switched(f, b))
      <3>1. PICK g : g = Switched(f, b)
        OBVIOUS
      <3>2. Sound(g) /\ g.bufs = f.bufs /\ g.cbuf = b
        <4>1. g.bufs = f.bufs /\ g.cbuf = b
          BY ONLY <2>3, <3>1 DEF Switched, Sound, Editor
        <4> QED
          BY ONLY <2>3, <3>1, <4>1, SwitchedSound
      <3>3. (Stamped(f) => Stamped(g)) /\ (Pathed(f) => Pathed(g))
        BY <3>2 DEF Stamped, Pathed
      <3>4. Found(g) /\ ("race" \notin Lapses => Stamped(g))
        BY <2>3, <2>5, <3>1, <3>3
      <3>5. "race" \notin Lapses /\ "unnamed" \notin Lapses => Pathed(g)
        BY <2>3, <3>3
      <3>6. BuffersInv' /\ ed'.cbuf = b /\ pc' = "idle" /\ ed'.bufs = g.bufs
        BY ONLY <1>2, <3>2, <3>4, <3>5, BuffersInv, FoundStep
      <3>7. Kept
        BY ONLY <1>3, <2>2, <3>2, <3>6 DEF Kept, Plain, Like
      <3> QED
        BY <2>1, <3>6, <3>7
    <2> QED
      BY <1>4, <2>4, <2>5
  <1>5. CASE \E b \in FileBuffers(e, p) :
               LET f == Looked(e, b, p)
               IN \/ ed' = Told(f, b, p) /\ pc' = "reread" /\ job' = [job EXCEPT !.buf = b]
                  \/ Found(Switched(f, b))
    <2>1. PICK b \in FileBuffers(e, p) :
            \/ ed' = Told(Looked(e, b, p), b, p) /\ pc' = "reread" /\ job' = [job EXCEPT !.buf = b]
            \/ Found(Switched(Looked(e, b, p), b))
      BY <1>5
    <2> QED
      BY <1>4, <2>1
  <1>6. ASSUME FileBuffers(e, p) = {}, NEW made \in MakeBuffer(e, FileName[p]),
               ed' = Switched(Told(made[1], made[2], p), made[2]),
               pc' = "attach", job' = [job EXCEPT !.buf = made[2]]
        PROVE  BuffersInv' /\ Kept /\ ~\E b \in Live : VisitsTarget(b)
    <2>1. BuffersInv' /\ DOMAIN e.bufs \subseteq DOMAIN ed'.bufs
      BY ONLY <1>1, <1>2, <1>3, <1>6, BuffersInv, AttachBegun
    <2>2. Kept
      BY ONLY <1>3, <2>1 DEF Kept, Plain, Like
    <2> QED
      BY <1>1, <1>2, <1>6, <2>1, <2>2, NoFileBuffer
  <1> QED
    BY <1>1, <1>5, <1>6, LookupCases

LEMMA AttachStep ==
  ASSUME BuffersInv, Attach
  PROVE  BuffersInv' /\ Kept
  <1>1. /\ pc = "attach" /\ UNCHANGED <<disk, count>> /\ job.path \in Paths /\ disk \in Disks
        /\ Sound(ed) /\ job.buf = ed.cbuf /\ Found(VisitFile(ed, job.path, disk))
    BY JobState DEF Attach
  <1>2. PICK e, p : e = VisitFile(ed, p, disk) /\ p = job.path
    OBVIOUS
  <1>3. Sound(e) /\ DOMAIN e.bufs = DOMAIN ed.bufs
    BY ONLY <1>1, <1>2, VisitLike DEF Like
  <1>4. "race" \notin Lapses => Stamped(ed) /\ Version(disk, p) <= ed.bufs[ed.cbuf].seen
    BY <1>1, <1>2 DEF BuffersInv, StampsSound
  <1>5. "race" \notin Lapses /\ "unnamed" \notin Lapses
        => \A b \in DOMAIN ed.bufs \ {ed.cbuf} : ed.bufs[b].path = None => ed.bufs[b].inode = None
    BY <1>1 DEF BuffersInv, FilesSound, Live
  <1>6. /\ "race" \notin Lapses => Stamped(e)
        /\ "race" \notin Lapses /\ "unnamed" \notin Lapses => Pathed(e)
    BY ONLY <1>1, <1>2, <1>4, <1>5, VisitFiles
  <1>7. Found(e)
    BY <1>1, <1>2
  <1> QED
    BY ONLY <1>1, <1>3, <1>6, <1>7, BuffersInv, FoundStep DEF Kept, Plain

LEMMA RereadStep ==
  ASSUME BuffersInv, Reread
  PROVE  BuffersInv' /\ KeptBut(job.buf)
  <1>1. /\ pc = "reread" /\ UNCHANGED <<disk, count>> /\ job.path \in Paths /\ disk \in Disks
        /\ Sound(ed) /\ Plain(ed, job.buf) /\ Plain(ed, ed.cbuf) /\ job \in Jobs /\ ~job.kill
        /\ count \in [versions: Nat, steps: Nat]
    BY JobState DEF Reread, Sound
  <1>2. "race" \notin Lapses => Stamped(ed)
    BY DEF BuffersInv, StampsSound
  <1>3. "race" \notin Lapses /\ "unnamed" \notin Lapses => Pathed(ed)
    BY <1>1 DEF BuffersInv, FilesSound, Pathed, Live
  <1>4. CASE /\ ed' \in Killed(Switched([ed EXCEPT !.bufs[job.buf].modified = FALSE], job.buf),
                               job.buf, ed.cbuf)
             /\ pc' = "find" /\ job' = [job EXCEPT !.buf = Null]
    <2>1. PICK b : b = job.buf
      OBVIOUS
    <2>2. ed.bufs[b] \in Buffer
      BY <1>1, <2>1, EditorType DEF Sound, Plain
    <2>3. PICK r : r = [ed.bufs[b] EXCEPT !.modified = FALSE]
      OBVIOUS
    <2>4. r \in Buffer /\ r.name = ed.bufs[b].name /\ r.path = ed.bufs[b].path
          /\ r.inode = ed.bufs[b].inode /\ r.c_time = ed.bufs[b].c_time /\ r.seen = ed.bufs[b].seen
      BY ONLY <2>2, <2>3 DEF Buffer
    <2>5. PICK e : e = [ed EXCEPT !.bufs[b] = r]
      OBVIOUS
    <2>6. /\ Like(ed, e) /\ e.bufs[b] = r
          /\ \A c \in DOMAIN ed.bufs \ {b} : e.bufs[c] = ed.bufs[c]
      BY ONLY <1>1, <2>1, <2>4, <2>5, PutLike
    <2>7. Sound(e) /\ Plain(e, b) /\ Plain(e, ed.cbuf) /\ DOMAIN e.bufs = DOMAIN ed.bufs
      BY <1>1, <2>1, <2>6 DEF Like
    <2>8. (Stamped(ed) => Stamped(e)) /\ (Pathed(ed) => Pathed(e))
      BY ONLY <2>4, <2>6, <2>7 DEF Stamped, Pathed
    <2>9. PICK f : f = Switched(e, b)
      OBVIOUS
    <2>10. f.bufs = e.bufs
      BY ONLY <2>7, <2>9 DEF Switched, Sound, Editor
    <2>11. Sound(f) /\ Plain(f, b) /\ Plain(f, ed.cbuf)
      BY ONLY <2>7, <2>9, SwitchedSound
    <2>12. (Stamped(ed) => Stamped(f)) /\ (Pathed(ed) => Pathed(f))
      BY ONLY <2>8, <2>10 DEF Stamped, Pathed
    <2>13. ed' \in Killed(f, b, ed.cbuf)
      BY <1>4, <2>1, <2>3, <2>5, <2>9
    <2>14. Sound(ed') /\ Survives(f, ed', b)
      BY ONLY <2>11, <2>13, KilledSound
    <2>15. (Stamped(ed) => Stamped(ed')) /\ (Pathed(ed) => Pathed(ed'))
      BY ONLY <2>12, <2>14, SurvivesFiles
    <2>16. job' \in Jobs /\ job'.path = job.path /\ job'.buf = Null /\ ~job'.kill
      BY ONLY <1>1, <1>4 DEF Jobs, Null
    <2>17. PointersInv' /\ KillSound'
      <3>1. JobSound'
        BY <1>1, <1>4, <2>16 DEF JobSound, Asking
      <3> QED
        BY <1>1, <1>4, <2>14, <2>16, <3>1 DEF PointersInv, KillSound, Asking
    <2>18. KeptBut(job.buf)
      BY ONLY <2>1, <2>7, <2>10, <2>14 DEF KeptBut, Plain, Survives
    <2> QED
      BY <1>1, <1>4, <2>14, <2>15, <2>17, <2>18, AskedStep
  <1>5. CASE Found(Switched(ed, job.buf))
    <2>1. PICK e : e = Switched(ed, job.buf)
      OBVIOUS
    <2>2. Sound(e)
      BY ONLY <1>1, <2>1, SwitchedSound
    <2>3. e.bufs = ed.bufs
      BY ONLY <1>1, <2>1 DEF Switched, Sound, Editor
    <2>4. /\ "race" \notin Lapses => Stamped(e)
          /\ "race" \notin Lapses /\ "unnamed" \notin Lapses => Pathed(e)
      BY ONLY <1>2, <1>3, <2>3 DEF Stamped, Pathed
    <2>5. Found(e)
      BY <1>5, <2>1
    <2> QED
      BY ONLY <1>1, <2>2, <2>3, <2>4, <2>5, BuffersInv, FoundStep DEF KeptBut, Plain
  <1>6. CASE Found(ed)
    BY ONLY <1>1, <1>2, <1>3, <1>6, BuffersInv, FoundStep DEF KeptBut, Plain
  <1> QED
    BY <1>4, <1>5, <1>6 DEF Reread

-----------------------------------------------------------------------------
(* The invariant.                                                          *)

LEMMA BuffersInvInit ==
  ASSUME Init
  PROVE  BuffersInv
  <1>1. PICK r : r = NewBuffer(Scratch)
    OBVIOUS
  <1>2. /\ ed = [bufs |-> [b \in {1} |-> r], cbuf |-> 1, win |-> [w \in 1..NumWindows |-> 1],
                 last |-> Null, paste |-> Null]
        /\ pc = "idle" /\ job = NoJob /\ count = [versions |-> 2, steps |-> 0]
    BY <1>1 DEF Init
  <1>3. /\ r \in Buffer /\ Fresh(r) /\ r.name[1] # Paste
    <2>1. Scratch \in Names \ {Paste}
      BY NamesOf
    <2> QED
      BY <1>1, <2>1 DEF NewBuffer, Buffer, Fresh
  <1>4. disk \in Disks /\ DiskSound(disk)
    <2>1. \A p \in Paths : disk[p] # None => disk[p] \in [inode: Inodes, v: {1, 2}]
      BY DEF Init
    <2>2. \A p \in Paths : disk[p] # None => disk[p] \in File
      BY <2>1 DEF File
    <2>3. disk \in Disks
      BY <2>2 DEF Init, Disks
    <2>4. DiskSound(disk)
      BY <2>1 DEF Init, DiskSound
    <2> QED
      BY <2>3, <2>4
  <1>5. 1 \in Addr
    BY BuffersAssumption DEF Addr
  <1>6. ed \in Editor
    <2>1. [b \in {1} |-> r] \in Bufs
      BY <1>3, <1>5, BufsType
    <2> QED
      BY <1>2, <1>5, <2>1 DEF Editor
  <1>7. Sound(ed)
    BY <1>2, <1>3, <1>6 DEF Sound, Plain, Internal, Fresh
  <1>8. PointersInv /\ KillSound
    <2>1. JobSound
      BY <1>2, NoJobType DEF JobSound
    <2> QED
      BY <1>2, <1>4, <1>7, <2>1, NoJobType DEF PointersInv, KillSound
  <1>9. StampsSound /\ FilesSound
    BY <1>2, <1>3, <1>4 DEF StampsSound, FilesSound, Stamped, Live, Fresh
  <1> QED
    BY <1>8, <1>9 DEF BuffersInv

LEMMA BuffersInvNext ==
  ASSUME "internal" \notin Lapses, BuffersInv, [Next]_vars
  PROVE  BuffersInv'
  <1>1. CASE Finding
    BY <1>1, FindFileStep, LookupStep, RereadStep, AttachStep DEF Finding
  <1>2. CASE Saving
    BY <1>2, SaveStep, OverwriteStep, WriteFileStep DEF Saving
  <1>3. CASE Killing
    BY <1>3, KillBufferCmdStep, KillAnswerStep, KillStep DEF Killing
  <1>4. CASE Selecting
    BY <1>4, SetBufferStep, GetLastBufferStep, OtherWindowStep, EndCommandStep DEF Selecting
  <1>5. CASE Copy \/ Edit \/ Foreign
    BY <1>5, CopyStep, EditStep, ForeignStep
  <1>6. CASE UNCHANGED vars
    BY <1>6 DEF vars, BuffersInv, PointersInv, JobSound, StampsSound, FilesSound, KillSound, Live
  <1> QED
    BY <1>1, <1>2, <1>3, <1>4, <1>5, <1>6 DEF Next

THEOREM BuffersInvHolds ==
  ASSUME "internal" \notin Lapses
  PROVE  Spec => []BuffersInv
  BY BuffersInvInit, BuffersInvNext, PTL DEF Spec

-----------------------------------------------------------------------------
(* The properties.                                                         *)

(* No two buffers have the same name, and nothing points to a buffer that  *)
(* has been deleted.                                                       *)
THEOREM BuffersPointersLive ==
  ASSUME "internal" \notin Lapses
  PROVE  Spec => []BufferPointersLive
  <1>1. ASSUME BuffersInv
        PROVE  BufferPointersLive
    <2>1. /\ Sound(ed) /\ ed \in Editor /\ disk \in Disks /\ job \in Jobs
          /\ pc \in Asking \cup {"idle", "find"}
      BY <1>1, JobState DEF Sound
    <2>2. TypeOK
      <3>1. DOMAIN ed = {"bufs", "cbuf", "win", "last", "paste"}
        BY <2>1 DEF Editor
      <3>2. /\ Live \subseteq Addr /\ \A b \in Live : ed.bufs[b] \in Buffer
            /\ ed.win \in [1..NumWindows -> Addr]
        BY <2>1, EditorType DEF Live
      <3>3. disk \in [Paths -> File \cup {None}]
        BY ONLY <2>1 DEF Disks
      <3>4. pc \in {"idle", "find", "reread", "attach", "overwrite", "write", "modified", "kill"}
        BY ONLY <2>1 DEF Asking
      <3>5. job \in [path: Paths \cup {None}, buf: Addr \cup {Null}, this: Addr \cup {Null},
                    window: BOOLEAN, kill: BOOLEAN, declined: BOOLEAN]
        BY ONLY <2>1 DEF Jobs
      <3> QED
        BY ONLY <3>1, <3>2, <3>3, <3>4, <3>5 DEF TypeOK
    <2>3. Range(ed.win) \subseteq Live
      <3>1. \A i \in 1..NumWindows : ed.win[i] \in Live
        BY ONLY <2>1 DEF Sound, Plain, Live
      <3>2. DOMAIN ed.win = 1..NumWindows
        BY ONLY <2>1, EditorType
      <3> QED
        BY ONLY <3>1, <3>2 DEF Range
    <2>4. {ed.last, ed.paste, job.buf} \subseteq Live \cup {Null}
      BY <1>1, <2>1, JobState DEF Sound, Plain, Live
    <2>5. pc \in {"modified", "overwrite", "write", "kill"} => job.this \in Live
      BY <1>1, JobState DEF Plain, Live
    <2>6. ed.cbuf \in Live /\ \A b, c \in Live : ed.bufs[b].name = ed.bufs[c].name => b = c
      BY <2>1 DEF Sound, Plain, Live
    <2> QED
      BY <2>2, <2>3, <2>4, <2>5, <2>6 DEF BufferPointersLive
  <1> QED
    BY <1>1, BuffersInvHolds, PTL

(* The time stamp of a buffer is not later than what its user knows of.    *)
THEOREM BuffersStampIsSeen ==
  ASSUME "internal" \notin Lapses, "race" \notin Lapses
  PROVE  Spec => []StampIsSeen
  <1>1. BuffersInv => StampIsSeen
    BY DEF BuffersInv, StampsSound, Stamped, StampIsSeen, Live
  <1> QED
    BY <1>1, BuffersInvHolds, PTL

(* find_file gives a buffer of the file.                                   *)
THEOREM BuffersFindsTheFile ==
  ASSUME "internal" \notin Lapses, "race" \notin Lapses, "unnamed" \notin Lapses
  PROVE  Spec => FindsTheFile
  <1>1. ASSUME BuffersInv, [Next]_vars
        PROVE  [pc = "find" => IF pc' = "attach" THEN ~\E b \in Live : VisitsTarget(b)
                               ELSE LET b == IF pc' = "reread" THEN job'.buf ELSE ed'.cbuf
                                    IN b \in Live /\ VisitsTarget(b)]_vars
    <2> SUFFICES ASSUME pc = "find", ~UNCHANGED vars
                 PROVE  IF pc' = "attach" THEN ~\E b \in Live : VisitsTarget(b)
                        ELSE LET b == IF pc' = "reread" THEN job'.buf ELSE ed'.cbuf
                             IN b \in Live /\ VisitsTarget(b)
      BY DEF vars
    <2>1. Next
      BY <1>1
    <2>2. Lookup
      BY <2>1 DEF Next, Finding, Saving, Killing, Selecting, FindFile, Reread, Attach, Save, Overwrite,
                  WriteFile, KillBufferCmd, KillAnswer, Kill, SetBuffer, GetLastBuffer, OtherWindow,
                  EndCommand, Copy, Edit, Foreign, Idle
    <2> QED
      BY <1>1, <2>2, LookupStep
  <1> QED
    BY <1>1, BuffersInvHolds, PTL DEF Spec, FindsTheFile

(* A modified buffer is deleted only on its user's answer: kill it, read   *)
(* its file again, or no to the save he had asked for; a save that fails   *)
(* or is interrupted keeps it (kill_buffer_cmd, find_file_cmd).            *)
THEOREM BuffersKillLosesNothing ==
  ASSUME "internal" \notin Lapses
  PROVE  Spec => KillLosesNothing
  <1>1. ASSUME BuffersInv, [Next]_vars, NEW b \in Live, b \notin Live', ed.bufs[b].modified,
               ~Internal(ed, b)
        PROVE  job.buf = b /\ (pc \in {"modified", "reread"} \/ (pc = "kill" /\ job.declined))
    <2>1. ~Kept /\ Plain(ed, b) /\ (KeptBut(job.buf) => job.buf = b)
      BY <1>1 DEF Kept, KeptBut, Plain, Live
    <2>2. Next
      BY <1>1, <2>1 DEF vars, Kept, Plain
    <2>3. Reread \/ KillAnswer \/ Kill
      BY <1>1, <2>1, <2>2, FindFileStep, LookupStep, AttachStep, SaveStep, OverwriteStep, WriteFileStep,
         KillBufferCmdStep, SetBufferStep, GetLastBufferStep, OtherWindowStep, EndCommandStep,
         CopyStep, EditStep, ForeignStep DEF Next, Finding, Saving, Killing, Selecting
    <2>4. job.buf = b
      BY <1>1, <2>1, <2>3, RereadStep, KillAnswerStep, KillStep
    <2>5. Kill => pc = "kill" /\ job.declined
      BY <1>1, <2>4 DEF Kill, BuffersInv, KillSound
    <2> QED
      BY <2>3, <2>4, <2>5 DEF Reread, KillAnswer
  <1>2. ASSUME BuffersInv, [Next]_vars
        PROVE  [\A b \in Live : b \notin Live' /\ ed.bufs[b].modified /\ ~Internal(ed, b) =>
                  /\ job.buf = b
                  /\ pc \in {"modified", "reread"} \/ (pc = "kill" /\ job.declined)]_vars
    BY <1>1, <1>2
  <1> QED
    BY <1>2, BuffersInvHolds, PTL DEF Spec, KillLosesNothing
=============================================================================
