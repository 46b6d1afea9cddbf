----------------------------- MODULE KeysProofs -----------------------------
(***************************************************************************)
(* Proofs about Keys: keyboard macros are executed, defined and read as    *)
(* they may be, counts reach their commands, and the keys are a queue, for *)
(* any keymap, key strings, sessions and bounds.                           *)
(***************************************************************************)
EXTENDS Keys, FiniteSetTheorems, NaturalsInduction, SequenceTheorems, TLAPS

-----------------------------------------------------------------------------
(* The inductive invariant.                                                *)

(* No key string asks for a count.  Otherwise digit_arg takes the key that *)
(* ends the number back into the macro though it came from the string, and *)
(* a second time may be before the macro's beginning (keymap.c:825).       *)
NoCountStrings ==
  \A s \in DOMAIN Keymap : Keymap[s] = "digit" =>
    \A c \in DOMAIN Strings : Last(s) \notin Range(Strings[c])

Commands == Builtin \cup DOMAIN Strings \cup DOMAIN Stuffs

(* The commands that take the count for themselves.                        *)
Own == DOMAIN Strings \cup {"digit"}

StringKeys == UNION {Range(Strings[c]) : c \in DOMAIN Strings}
Count == Nat \cup {None}
Fns == {"jed", "mini", "exec", "string", "repeat", "digit", "ask"}
Frames == [fn: Fns, cmd: Commands \cup {None}, n: Nat, rf: Count, rest: Seq(StringKeys)]
Fields == {"in", "str", "mac", "ptr", "max", "def", "exe", "saved", "illegal", "repeat", "n",
           "keys", "diff", "last", "err", "msg", "quit", "leave", "depth", "stack", "at",
           "hup", "exited"}

IsSequence(s) == \E S : s \in Seq(S)

Typed(e) ==
  /\ DOMAIN e = Fields
  /\ e.stack \in Seq(Frames) /\ e.str \in Seq(StringKeys)
  /\ IsSequence(e.keys)
  /\ {e.def, e.exe, e.illegal} \subseteq BOOLEAN
  /\ e.saved \in [def: BOOLEAN, exe: BOOLEAN]
  /\ e.repeat \in Count /\ e.n \in Count

(* A loop waits for the one above it.  At most one of them executes a      *)
(* macro and one reads from the minibuffer; a count waits for a command    *)
(* that keeps it, or takes it.                                             *)
Counts(f) == f.fn = "repeat" /\ f.cmd \notin Own

Stacked(s) ==
  /\ s # <<>> /\ s[1].fn = "jed"
  /\ \A i \in DOMAIN s : i # 1 => s[i].fn # "jed"
  /\ \A i, j \in DOMAIN s : s[i].fn = s[j].fn /\ s[i].fn \in {"exec", "mini"} => i = j
  /\ \A i \in DOMAIN s : i # Len(s) => s[i].fn # "ask"
  /\ \A i \in DOMAIN s : i # Len(s) /\ Counts(s[i]) =>
       s[i + 1].fn = "ask" \/ (s[i + 1].fn \in {"exec", "mini"} /\ s[i + 1].rf # None)
  /\ \A i \in DOMAIN s : i # Len(s) /\ s[i].fn = "repeat" => s[i + 1].fn # "repeat"
  /\ \A i \in DOMAIN s : /\ s[i].fn = "string" => s[i].cmd \in DOMAIN Strings
                         /\ s[i].fn = "repeat" => s[i].cmd \in Commands

(* The count that do_key is working on is there when it goes on.           *)
Held(e) ==
  LET s == e.stack
  IN /\ Counts(s[Len(s)]) => e.repeat # None
     /\ s[Len(s)].fn = "ask" /\ Counts(s[Len(s) - 1]) => e.repeat # None

Flags(e) ==
  /\ e.illegal <=> Within(e, "exec")
  /\ e.exe \/ e.saved.exe => Within(e, "exec")
  /\ Within(e, "exec") => ~e.def /\ ~e.saved.def

(* Where the macro is read and written.                                    *)
Bounded(e) ==
  /\ IsSequence(e.mac)
  /\ e.ptr \in 0..Len(e.mac) /\ e.max \in 0..Len(e.mac) /\ Len(e.mac) <= MacroSize
  /\ Within(e, "exec") => e.ptr <= e.max

(* When digit_arg is called again there is no string to be read: r is      *)
(* Read_This_Character now, what it will be is kept by the strings above.  *)
Spared(s, r) ==
  \A i \in DOMAIN s : s[i].fn = "repeat" /\ s[i].cmd = "digit" =>
    /\ (\A j \in DOMAIN s : j > i => s[j].fn # "string") => r = <<>>
    /\ \A j \in DOMAIN s :
         j > i /\ s[j].fn = "string" /\ (\A k \in DOMAIN s : i < k /\ k < j => s[k].fn # "string")
         => s[j].rest = <<>>

Base(e) ==
  /\ Typed(e) /\ Stacked(e.stack) /\ Held(e) /\ Flags(e)
  /\ NoCountStrings => Bounded(e)
  /\ NoCountStrings => Spared(e.stack, e.str)

(* Where the innermost loop is.                                            *)
Placed(e) ==
  /\ e.at \in {"loop", "keys", "digits", "answer", "ret"}
  /\ e.at = "answer" <=> Top(e).fn = "ask"
  /\ e.at = "digits" => Top(e).fn = "digit"
  /\ NoCountStrings => (e.at = "digits" => e.str = <<>>)
  /\ e.at = "loop" => Top(e).fn # "digit"
  /\ Top(e).fn = "repeat" => e.at = "loop"

Sound(e) == Base(e) /\ Placed(e)

KeysInv == Sound(ed)
-----------------------------------------------------------------------------
(* Sequences.                                                              *)

LEMMA TopIs ==
  ASSUME NEW e, Typed(e), Stacked(e.stack)
  PROVE  /\ Len(e.stack) \in Nat \ {0} /\ DOMAIN e.stack = 1..Len(e.stack)
         /\ Top(e) = e.stack[Len(e.stack)] /\ Top(e) \in Frames
         /\ Top(e).fn # "jed" => Len(e.stack) > 1
BY DEF Typed, Stacked, Top, Last

(* One frame more.                                                         *)
LEMMA AppendIs ==
  ASSUME NEW S, NEW s \in Seq(S), NEW f \in S
  PROVE  /\ Append(s, f) \in Seq(S) /\ Len(Append(s, f)) = Len(s) + 1
         /\ DOMAIN Append(s, f) = 1..(Len(s) + 1) /\ DOMAIN s = 1..Len(s) /\ Len(s) \in Nat
         /\ \A i \in 1..Len(s) : Append(s, f)[i] = s[i]
         /\ Append(s, f)[Len(s) + 1] = f
OBVIOUS

(* One frame less.                                                         *)
LEMMA FrontIs ==
  ASSUME NEW S, NEW s \in Seq(S), Len(s) > 1
  PROVE  /\ Front(s) \in Seq(S) /\ Len(Front(s)) = Len(s) - 1 /\ Len(s) \in Nat
         /\ DOMAIN Front(s) = 1..(Len(s) - 1) /\ DOMAIN s = 1..Len(s)
         /\ \A i \in 1..(Len(s) - 1) : Front(s)[i] = s[i]
BY DEF Front

LEMMA SequenceAppend ==
  ASSUME NEW s, IsSequence(s), NEW c
  PROVE  IsSequence(Append(s, c)) /\ Last(Append(s, c)) = c
<1>1. PICK S : s \in Seq(S)
  BY DEF IsSequence
<1>2. s \in Seq(S \cup {c}) /\ c \in S \cup {c}
  BY <1>1
<1>3. Append(s, c) \in Seq(S \cup {c}) /\ Last(Append(s, c)) = c
  BY <1>2, AppendIs DEF Last
<1> QED
  BY <1>3 DEF IsSequence

LEMMA PushStacked ==
  ASSUME NEW s \in Seq(Frames), Stacked(s), NEW f \in Frames,
         s[Len(s)].fn # "ask", f.fn # "jed",
         f.fn \in {"exec", "mini"} => \A i \in DOMAIN s : s[i].fn # f.fn,
         Counts(s[Len(s)]) => f.fn = "ask" \/ (f.fn \in {"exec", "mini"} /\ f.rf # None),
         f.fn = "repeat" => s[Len(s)].fn # "repeat" /\ f.cmd \in Commands,
         f.fn = "string" => f.cmd \in DOMAIN Strings
  PROVE  Stacked(Append(s, f))
<1> DEFINE t == Append(s, f)
           n == Len(s)
<1>1. /\ n \in Nat \ {0} /\ DOMAIN s = 1..n /\ DOMAIN t = 1..(n + 1) /\ Len(t) = n + 1
      /\ \A i \in 1..n : t[i] = s[i]
      /\ t[n + 1] = f
  BY AppendIs DEF Stacked
<1> SUFFICES Stacked(t)
  OBVIOUS
<1> HIDE DEF t, n
<1>2. t # <<>> /\ t[1].fn = "jed"
  BY <1>1 DEF Stacked
<1>3. \A i \in DOMAIN t : i # 1 => t[i].fn # "jed"
  BY <1>1 DEF Stacked
<1>4. \A i, j \in DOMAIN t : t[i].fn = t[j].fn /\ t[i].fn \in {"exec", "mini"} => i = j
  BY <1>1 DEF Stacked
<1>5. \A i \in DOMAIN t : i # Len(t) => t[i].fn # "ask"
  BY <1>1 DEF Stacked, n
<1>6. \A i \in DOMAIN t : i # Len(t) /\ Counts(t[i]) =>
        t[i + 1].fn = "ask" \/ (t[i + 1].fn \in {"exec", "mini"} /\ t[i + 1].rf # None)
  <2> SUFFICES ASSUME NEW i \in 1..n, Counts(s[i])
               PROVE  t[i + 1].fn = "ask" \/ (t[i + 1].fn \in {"exec", "mini"} /\ t[i + 1].rf # None)
    BY <1>1
  <2>1. CASE i = n
    BY <2>1, <1>1 DEF n
  <2>2. CASE i # n
    <3>1. i + 1 \in 1..n
      BY <2>2, <1>1
    <3>2. i \in DOMAIN s /\ i # Len(s) /\ t[i + 1] = s[i + 1]
      BY <3>1, <2>2, <1>1 DEF n
    <3>3. s[i + 1].fn = "ask" \/ (s[i + 1].fn \in {"exec", "mini"} /\ s[i + 1].rf # None)
      BY ONLY <3>2, Counts(s[i]), Stacked(s) DEF Stacked
    <3> QED
      BY <3>2, <3>3
  <2> QED
    BY <2>1, <2>2
<1>7. \A i \in DOMAIN t : /\ t[i].fn = "string" => t[i].cmd \in DOMAIN Strings
                          /\ t[i].fn = "repeat" => t[i].cmd \in Commands
  BY <1>1 DEF Stacked
<1>8. \A i \in DOMAIN t : i # Len(t) /\ t[i].fn = "repeat" => t[i + 1].fn # "repeat"
  <2> SUFFICES ASSUME NEW i \in 1..n, s[i].fn = "repeat"
               PROVE  t[i + 1].fn # "repeat"
    BY <1>1
  <2>1. CASE i = n
    BY <2>1, <1>1 DEF n
  <2>2. CASE i # n
    <3>1. i + 1 \in 1..n
      BY <2>2, <1>1
    <3>2. i \in DOMAIN s /\ i # Len(s) /\ t[i + 1] = s[i + 1]
      BY <3>1, <2>2, <1>1 DEF n
    <3>3. s[i + 1].fn # "repeat"
      BY <3>2 DEF Stacked
    <3> QED
      BY <3>2, <3>3
  <2> QED
    BY <2>1, <2>2
<1> QED
  BY ONLY <1>2, <1>3, <1>4, <1>5, <1>6, <1>7, <1>8 DEF Stacked

LEMMA PopStacked ==
  ASSUME NEW s \in Seq(Frames), Stacked(s), Len(s) > 1
  PROVE  Stacked(Front(s))
<1> DEFINE t == Front(s)
           n == Len(s)
<1>0. /\ Len(t) = n - 1 /\ n \in Nat /\ DOMAIN t = 1..(n - 1) /\ DOMAIN s = 1..n
      /\ \A i \in 1..(n - 1) : t[i] = s[i]
  BY FrontIs, Zenon
<1>1. /\ n \in Nat \ {0, 1} /\ DOMAIN s = 1..n /\ DOMAIN t = 1..(n - 1) /\ Len(t) = n - 1
      /\ \A i \in 1..(n - 1) : t[i] = s[i]
  <2>1. n > 1
    OBVIOUS
  <2> QED
    BY ONLY <1>0, <2>1
<1> SUFFICES Stacked(t)
  OBVIOUS
<1> HIDE DEF t, n
<1>2. t # <<>> /\ t[1].fn = "jed"
  BY <1>1 DEF Stacked
<1>3. \A i \in DOMAIN t : i # 1 => t[i].fn # "jed"
  BY <1>1 DEF Stacked
<1>4. \A i, j \in DOMAIN t : t[i].fn = t[j].fn /\ t[i].fn \in {"exec", "mini"} => i = j
  BY <1>1 DEF Stacked
<1>5. \A i \in DOMAIN t : i # Len(t) => t[i].fn # "ask"
  BY <1>1 DEF Stacked, n
<1>6. \A i \in DOMAIN t : i # Len(t) /\ Counts(t[i]) =>
        t[i + 1].fn = "ask" \/ (t[i + 1].fn \in {"exec", "mini"} /\ t[i + 1].rf # None)
  BY <1>1 DEF Stacked, n
<1>7. \A i \in DOMAIN t : /\ t[i].fn = "string" => t[i].cmd \in DOMAIN Strings
                          /\ t[i].fn = "repeat" => t[i].cmd \in Commands
  BY <1>1 DEF Stacked
<1>8. \A i \in DOMAIN t : i # Len(t) /\ t[i].fn = "repeat" => t[i + 1].fn # "repeat"
  BY <1>1 DEF Stacked, n
<1> QED
  BY ONLY <1>2, <1>3, <1>4, <1>5, <1>6, <1>7, <1>8 DEF Stacked

(* What may stand on top of a count: a question is answered at once, and   *)
(* after a macro or a reading the count is put back.                       *)
LEMMA PopCounts ==
  ASSUME NEW s \in Seq(Frames), Stacked(s), Len(s) > 1, Counts(s[Len(s) - 1])
  PROVE  \/ s[Len(s)].fn = "ask"
         \/ s[Len(s)].fn \in {"exec", "mini"} /\ s[Len(s)].rf # None
BY DEF Stacked

LEMMA PushSpared ==
  ASSUME NEW s \in Seq(Frames), NEW f \in Frames, NEW r, Spared(s, r), f.fn # "string",
         f.fn = "repeat" /\ f.cmd = "digit" => r = <<>>
  PROVE  Spared(Append(s, f), r)
<1> DEFINE t == Append(s, f)
           n == Len(s)
<1>1. /\ n \in Nat /\ DOMAIN s = 1..n /\ DOMAIN t = 1..(n + 1)
      /\ \A i \in 1..n : t[i] = s[i]
      /\ t[n + 1] = f
  BY AppendIs
<1> HIDE DEF t, n
<1> SUFFICES ASSUME NEW i \in DOMAIN t, t[i].fn = "repeat" /\ t[i].cmd = "digit"
             PROVE  /\ (\A j \in DOMAIN t : j > i => t[j].fn # "string") => r = <<>>
                    /\ \A j \in DOMAIN t :
                         /\ j > i /\ t[j].fn = "string"
                         /\ \A k \in DOMAIN t : i < k /\ k < j => t[k].fn # "string"
                         => t[j].rest = <<>>
  BY DEF Spared, t
<1>2. CASE i = n + 1
  BY <1>1, <1>2
<1>3. CASE i \in 1..n
  <2>1. (\A j \in DOMAIN t : j > i => t[j].fn # "string") => r = <<>>
    BY <1>1, <1>3 DEF Spared
  <2>2. ASSUME NEW j \in DOMAIN t, j > i, t[j].fn = "string",
               \A k \in DOMAIN t : i < k /\ k < j => t[k].fn # "string"
        PROVE  t[j].rest = <<>>
    BY <1>1, <1>3, <2>2 DEF Spared
  <2> QED
    BY <2>1, <2>2
<1> QED
  BY <1>1, <1>2, <1>3

(* do_macro_string sets Read_This_Character aside.                         *)
LEMMA PushStringSpared ==
  ASSUME NEW s \in Seq(Frames), NEW f \in Frames, NEW r, Spared(s, r), f.fn = "string", f.rest = r,
         NEW q
  PROVE  Spared(Append(s, f), q)
<1> DEFINE t == Append(s, f)
           n == Len(s)
<1>1. /\ n \in Nat /\ DOMAIN s = 1..n /\ DOMAIN t = 1..(n + 1)
      /\ \A i \in 1..n : t[i] = s[i]
      /\ t[n + 1] = f
  BY AppendIs
<1> HIDE DEF t, n
<1> SUFFICES ASSUME NEW i \in DOMAIN t, t[i].fn = "repeat" /\ t[i].cmd = "digit"
             PROVE  /\ (\A j \in DOMAIN t : j > i => t[j].fn # "string") => q = <<>>
                    /\ \A j \in DOMAIN t :
                         /\ j > i /\ t[j].fn = "string"
                         /\ \A k \in DOMAIN t : i < k /\ k < j => t[k].fn # "string"
                         => t[j].rest = <<>>
  BY DEF Spared, t
<1>2. i \in 1..n
  BY <1>1
<1>3. (\A j \in DOMAIN t : j > i => t[j].fn # "string") => q = <<>>
  BY <1>1, <1>2
<1>4. ASSUME NEW j \in DOMAIN t, j > i, t[j].fn = "string",
             \A k \in DOMAIN t : i < k /\ k < j => t[k].fn # "string"
      PROVE  t[j].rest = <<>>
  <2>1. CASE j = n + 1
    <3>1. \A k \in DOMAIN s : k > i => s[k].fn # "string"
      BY <1>1, <1>4, <2>1
    <3> QED
      BY <3>1, <1>1, <1>2, <2>1 DEF Spared
  <2>2. CASE j \in 1..n
    BY <1>1, <1>2, <1>4, <2>2 DEF Spared
  <2> QED
    BY <1>1, <2>1, <2>2
<1> QED
  BY <1>3, <1>4

LEMMA PopSpared ==
  ASSUME NEW s \in Seq(Frames), Len(s) > 1, NEW r, Spared(s, r), s[Len(s)].fn # "string"
  PROVE  Spared(Front(s), r)
<1> DEFINE t == Front(s)
           n == Len(s)
<1>1. /\ n \in Nat \ {0, 1} /\ DOMAIN s = 1..n /\ DOMAIN t = 1..(n - 1)
      /\ \A i \in 1..(n - 1) : t[i] = s[i]
  BY FrontIs
<1>2. s[n].fn # "string"
  OBVIOUS
<1> HIDE DEF t, n
<1> SUFFICES ASSUME NEW i \in DOMAIN t, t[i].fn = "repeat" /\ t[i].cmd = "digit"
             PROVE  /\ (\A j \in DOMAIN t : j > i => t[j].fn # "string") => r = <<>>
                    /\ \A j \in DOMAIN t :
                         /\ j > i /\ t[j].fn = "string"
                         /\ \A k \in DOMAIN t : i < k /\ k < j => t[k].fn # "string"
                         => t[j].rest = <<>>
  BY DEF Spared, t
<1>3. (\A j \in DOMAIN t : j > i => t[j].fn # "string") => r = <<>>
  BY <1>1, <1>2 DEF Spared
<1>4. ASSUME NEW j \in DOMAIN t, j > i, t[j].fn = "string",
             \A k \in DOMAIN t : i < k /\ k < j => t[k].fn # "string"
      PROVE  t[j].rest = <<>>
  BY <1>1, <1>4 DEF Spared
<1> QED
  BY <1>3, <1>4

(* ... and takes it up again.                                              *)
LEMMA PopStringSpared ==
  ASSUME NEW s \in Seq(Frames), Len(s) > 1, NEW r, Spared(s, r), s[Len(s)].fn = "string"
  PROVE  Spared(Front(s), s[Len(s)].rest)
<1> DEFINE t == Front(s)
           n == Len(s)
           q == s[n].rest
<1>1. /\ n \in Nat \ {0, 1} /\ DOMAIN s = 1..n /\ DOMAIN t = 1..(n - 1)
      /\ \A i \in 1..(n - 1) : t[i] = s[i]
  BY FrontIs
<1>2. s[n].fn = "string"
  OBVIOUS
<1> HIDE DEF t, n
<1> SUFFICES ASSUME NEW i \in DOMAIN t, t[i].fn = "repeat" /\ t[i].cmd = "digit"
             PROVE  /\ (\A j \in DOMAIN t : j > i => t[j].fn # "string") => q = <<>>
                    /\ \A j \in DOMAIN t :
                         /\ j > i /\ t[j].fn = "string"
                         /\ \A k \in DOMAIN t : i < k /\ k < j => t[k].fn # "string"
                         => t[j].rest = <<>>
  BY DEF Spared, t, n
<1>3. (\A j \in DOMAIN t : j > i => t[j].fn # "string") => q = <<>>
  BY <1>1, <1>2 DEF Spared
<1>4. ASSUME NEW j \in DOMAIN t, j > i, t[j].fn = "string",
             \A k \in DOMAIN t : i < k /\ k < j => t[k].fn # "string"
      PROVE  t[j].rest = <<>>
  BY <1>1, <1>4 DEF Spared
<1> QED
  BY <1>3, <1>4

(* An error ends every string; a string that is being read may be at any   *)
(* of its keys.                                                            *)
LEMMA ReadSpared ==
  ASSUME NEW s \in Seq(Frames), Stacked(s), NEW r, Spared(s, r), NEW q,
         q = <<>> \/ r # <<>> \/ s[Len(s)].fn = "string"
  PROVE  Spared(s, q)
<1>1. Len(s) \in Nat \ {0} /\ DOMAIN s = 1..Len(s)
  BY DEF Stacked
<1> SUFFICES ASSUME NEW i \in DOMAIN s, s[i].fn = "repeat" /\ s[i].cmd = "digit",
                    \A j \in DOMAIN s : j > i => s[j].fn # "string"
             PROVE  q = <<>>
  BY DEF Spared
<1>2. r = <<>> /\ s[Len(s)].fn # "string"
  BY <1>1 DEF Spared
<1> QED
  BY <1>2
-----------------------------------------------------------------------------
(* Editors that differ in what the invariant does not speak of.            *)

Alike(e, f) ==
  /\ DOMAIN f = Fields /\ IsSequence(f.keys) /\ f.n \in Count
  /\ f.stack = e.stack /\ f.str = e.str /\ f.repeat = e.repeat
  /\ f.mac = e.mac /\ f.ptr = e.ptr /\ f.max = e.max
  /\ f.def = e.def /\ f.exe = e.exe /\ f.saved = e.saved /\ f.illegal = e.illegal

LEMMA AlikeBase ==
  ASSUME NEW e, NEW f, Base(e), Alike(e, f)
  PROVE  Base(f) /\ Top(f) = Top(e)
<1>1. Typed(f)
  BY DEF Base, Typed, Alike
<1>2. Stacked(f.stack)
  BY DEF Base, Alike
<1>3. Held(f)
  BY DEF Base, Alike, Held
<1>4. Flags(f)
  BY DEF Base, Alike, Flags, Within
<1>5. NoCountStrings => Bounded(f) /\ Spared(f.stack, f.str)
  BY DEF Base, Alike, Bounded, Within
<1>6. Top(f) = Top(e)
  BY DEF Alike, Top
<1> QED
  BY <1>1, <1>2, <1>3, <1>4, <1>5, <1>6 DEF Base

(* A key is wanted.                                                        *)
LEMMA FreshSound ==
  ASSUME NEW e, Base(e), Top(e).fn \notin {"ask", "repeat"}
  PROVE  Sound(Ready(e)) /\ Sound(Fresh(e))
<1>1. DOMAIN e = Fields /\ e.n \in Count
  BY DEF Base, Typed
<1>2. IsSequence(<<>>)
  BY <<>> \in Seq({}) DEF IsSequence
<1>3. Alike(e, Ready(e)) /\ Ready(e).at = "keys"
  BY <1>1, <1>2 DEF Alike, Ready, Fields
<1>4. Alike(e, Fresh(e)) /\ Fresh(e).at = "keys"
  BY <1>1, <1>2 DEF Alike, Ready, Fresh, Fields
<1> QED
  BY <1>3, <1>4, AlikeBase DEF Sound, Placed

(* A count is put aside, or lost where there is none that waits for it.    *)
LEMMA UncountedBase ==
  ASSUME NEW e, Base(e), ~Counts(Top(e)), Top(e).fn # "ask"
  PROVE  LET f == [e EXCEPT !.repeat = None] IN Base(f) /\ Top(f) = Top(e)
<1> DEFINE f == [e EXCEPT !.repeat = None]
<1>1. /\ DOMAIN f = Fields /\ f.keys = e.keys /\ f.n = e.n /\ f.stack = e.stack /\ f.str = e.str
      /\ f.repeat = None /\ f.mac = e.mac /\ f.ptr = e.ptr /\ f.max = e.max
      /\ f.def = e.def /\ f.exe = e.exe /\ f.saved = e.saved /\ f.illegal = e.illegal
  BY DEF Base, Typed, Fields
<1>2. Typed(e) /\ Stacked(e.stack)
  BY DEF Base
<1> HIDE DEF f
<1>3. Typed(f)
  BY <1>1, <1>2 DEF Typed, Count
<1>4. Top(f) = Top(e) /\ Top(e) = e.stack[Len(e.stack)]
  BY <1>1, <1>2, TopIs DEF Top
<1>5. Held(f)
  BY <1>1, <1>4 DEF Held
<1>6. Flags(f)
  BY <1>1 DEF Base, Flags, Within
<1>7. NoCountStrings => Bounded(f) /\ Spared(f.stack, f.str)
  BY <1>1 DEF Base, Bounded, Within
<1>8. Stacked(f.stack)
  BY <1>1, <1>2
<1>9. Base(f)
  BY <1>3, <1>5, <1>6, <1>7, <1>8 DEF Base
<1> QED
  BY <1>4, <1>9 DEF f

LEMMA DoJedSound ==
  ASSUME NEW e, Base(e), Top(e).fn \notin {"ask", "repeat"}
  PROVE  Sound(DoJed(e))
BY UncountedBase, FreshSound DEF DoJed, Counts

(* A command has returned.                                                 *)
LEMMA BackSound ==
  ASSUME NEW e, Base(e), Top(e).fn # "ask"
  PROVE  Sound(Back(e))
<1>1. DOMAIN e = Fields /\ e.n \in Count /\ IsSequence(e.keys)
  BY DEF Base, Typed
<1>2. /\ Alike(e, Back(e))
      /\ Back(e).at = IF Top(e).fn = "repeat" THEN "loop" ELSE "ret"
  BY <1>1 DEF Alike, Back, Fields
<1> QED
  BY <1>2, AlikeBase DEF Sound, Placed
-----------------------------------------------------------------------------
(* The flags of macros.                                                    *)

(* What the flags may become, with the stack and all else as it is.        *)
Flagged(e, f) ==
  /\ DOMAIN f = Fields /\ f.keys = e.keys /\ f.n = e.n
  /\ f.stack = e.stack /\ f.str = e.str /\ f.repeat = e.repeat
  /\ f.mac = e.mac /\ f.max = e.max /\ f.illegal = e.illegal
  /\ f.ptr \in {0, e.ptr}
  /\ f.def \in BOOLEAN /\ f.exe \in BOOLEAN /\ f.saved \in [def: BOOLEAN, exe: BOOLEAN]
  /\ f.exe \/ f.saved.exe => e.exe \/ e.saved.exe
  /\ f.def \/ f.saved.def => e.def \/ e.saved.def \/ ~e.illegal

LEMMA FlaggedBase ==
  ASSUME NEW e, NEW f, Base(e), Flagged(e, f)
  PROVE  Base(f) /\ Top(f) = Top(e)
<1>1. Typed(f)
  BY DEF Base, Typed, Flagged
<1>2. Stacked(f.stack)
  BY DEF Base, Flagged
<1>3. Held(f)
  BY DEF Base, Flagged, Held
<1>4. Within(f, "exec") <=> Within(e, "exec")
  BY DEF Flagged, Within
<1>5. Flags(f)
  BY <1>4 DEF Base, Flagged, Flags
<1>6. IsSequence(e.mac) => Len(e.mac) \in Nat
  BY DEF IsSequence
<1>7. NoCountStrings => Bounded(f)
  BY <1>4, <1>6 DEF Base, Typed, Flagged, Bounded
<1>8. NoCountStrings => Spared(f.stack, f.str)
  BY DEF Base, Flagged
<1>9. Top(f) = Top(e)
  BY DEF Flagged, Top
<1> QED
  BY <1>1, <1>2, <1>3, <1>5, <1>7, <1>8, <1>9 DEF Base

LEMMA FailedFlagged ==
  ASSUME NEW e, Base(e)
  PROVE  Flagged(e, Failed(e))
BY DEF Base, Typed, Flagged, Failed, Fields

LEMMA BeginFlagged ==
  ASSUME NEW e, Base(e)
  PROVE  Flagged(e, BeginMacro(e))
<1>1. CASE e.illegal
  BY <1>1, FailedFlagged DEF BeginMacro
<1>2. CASE ~e.illegal
  BY <1>2 DEF Base, Typed, Flagged, BeginMacro, SaveState, Fields
<1> QED
  BY <1>1, <1>2

LEMMA EndFlagged ==
  ASSUME NEW e, Base(e)
  PROVE  Flagged(e, EndMacro(e))
<1>1. CASE e.def
  BY <1>1 DEF Base, Typed, Flagged, EndMacro, SaveState, Fields
<1>2. CASE ~e.def
  BY <1>2 DEF Base, Typed, Flagged, EndMacro, Failed, Fields
<1> QED
  BY <1>1, <1>2

LEMMA ResumedFlagged ==
  ASSUME NEW e, Base(e)
  PROVE  Flagged(e, Resumed(e)) /\ Flagged(e, Suspended(e)) /\ Flagged(e, Aborted(e))
<1>1. Flagged(e, Resumed(e))
  BY DEF Base, Typed, Flagged, Resumed, Fields
<1>2. Flagged(e, Suspended(e))
  BY DEF Base, Typed, Flagged, Suspended, SaveState, Fields
<1>3. Flagged(e, Aborted(e))
  BY DEF Base, Typed, Flagged, Aborted, SaveState, Fields
<1> QED
  BY <1>1, <1>2, <1>3
-----------------------------------------------------------------------------
(* Loops begin and end.                                                    *)

(* f is e with the frame t on top, and nothing else that matters.          *)
Pushes(e, f, t) ==
  /\ DOMAIN f = Fields /\ IsSequence(f.keys) /\ f.n \in Count
  /\ f.stack = Append(e.stack, t) /\ f.str = e.str /\ f.repeat = e.repeat
  /\ f.mac = e.mac /\ f.ptr = e.ptr /\ f.max = e.max
  /\ f.def = e.def /\ f.exe = e.exe /\ f.saved = e.saved /\ f.illegal = e.illegal

LEMMA PushBase ==
  ASSUME NEW e, NEW f, NEW t \in Frames, Base(e), Pushes(e, f, t), Top(e).fn # "ask",
         t.fn \in {"mini", "repeat", "digit", "ask"},
         t.fn = "mini" => ~Within(e, "mini"),
         Counts(Top(e)) => t.fn = "ask" \/ (t.fn = "mini" /\ t.rf # None),
         Counts(t) => e.repeat # None,
         t.fn = "repeat" => Top(e).fn # "repeat" /\ t.cmd \in Commands,
         NoCountStrings => (t.fn = "repeat" /\ t.cmd = "digit" => e.str = <<>>)
  PROVE  Base(f) /\ Top(f) = t
<1> DEFINE s == e.stack
<1>1. Typed(e) /\ Stacked(s) /\ s \in Seq(Frames)
  BY DEF Base, Typed
<1>2. /\ Len(s) \in Nat \ {0} /\ DOMAIN s = 1..Len(s) /\ Top(e) = s[Len(s)]
      /\ f.stack \in Seq(Frames) /\ Len(f.stack) = Len(s) + 1 /\ DOMAIN f.stack = 1..(Len(s) + 1)
      /\ \A i \in 1..Len(s) : f.stack[i] = s[i]
      /\ f.stack[Len(s) + 1] = t
  BY <1>1, TopIs, AppendIs DEF Pushes
<1>3. Top(f) = t
  BY <1>2 DEF Top, Last
<1>4. Typed(f)
  BY <1>1, <1>2 DEF Pushes, Typed
<1>5. Stacked(f.stack)
  BY <1>1, <1>2, PushStacked DEF Pushes, Within
<1>6. Held(f)
  <2>1. f.stack[Len(f.stack)] = t /\ f.stack[Len(f.stack) - 1] = Top(e)
    BY ONLY <1>2
  <2>2. Counts(Top(e)) => e.repeat # None
    <3>1. Held(e) /\ Top(e) = s[Len(s)]
      BY <1>2 DEF Base
    <3> QED
      BY ONLY <3>1 DEF Held
  <2> QED
    BY <2>1, <2>2 DEF Held, Pushes
<1>7. Within(f, "exec") <=> Within(e, "exec")
  <2>1. DOMAIN f.stack = DOMAIN s \cup {Len(s) + 1}
    BY ONLY <1>2
  <2>2. t.fn # "exec" /\ \A i \in DOMAIN s : f.stack[i] = s[i]
    BY <1>2
  <2>3. f.stack[Len(s) + 1] = t
    BY <1>2
  <2> QED
    BY ONLY <2>1, <2>2, <2>3 DEF Within
<1>8. Flags(f)
  BY <1>7 DEF Base, Flags, Pushes
<1>9. NoCountStrings => Bounded(f)
  BY <1>7 DEF Base, Bounded, Pushes
<1>10. NoCountStrings => Spared(f.stack, f.str)
  BY <1>1, PushSpared DEF Base, Pushes
<1> QED
  BY <1>3, <1>4, <1>5, <1>6, <1>8, <1>9, <1>10 DEF Base

(* f is e without its top; a count that has waited is there.               *)
Pops(e, f) ==
  /\ DOMAIN f = Fields /\ IsSequence(f.keys) /\ f.n \in Count
  /\ f.stack = Front(e.stack) /\ f.repeat \in Count
  /\ Counts(e.stack[Len(e.stack) - 1]) => f.repeat # None
  /\ f.mac = e.mac /\ f.ptr = e.ptr /\ f.max = e.max /\ f.def = e.def

LEMMA PoppedStack ==
  ASSUME NEW e, NEW f, Typed(e), Stacked(e.stack), Top(e).fn # "jed", f.stack = Front(e.stack)
  PROVE  /\ Len(e.stack) > 1 /\ f.stack \in Seq(Frames) /\ Stacked(f.stack)
         /\ Top(f) = e.stack[Len(e.stack) - 1]
         /\ Top(f) = f.stack[Len(f.stack)] /\ Top(f).fn # "ask"
         /\ \A fn : Within(e, fn) <=> Within(f, fn) \/ Top(e).fn = fn
<1> DEFINE s == e.stack
           n == Len(s)
<1>1. s \in Seq(Frames) /\ n \in Nat \ {0} /\ n > 1 /\ DOMAIN s = 1..n /\ Top(e) = s[n]
  BY TopIs DEF Typed
<1>2. /\ f.stack \in Seq(Frames) /\ Len(f.stack) = n - 1 /\ DOMAIN f.stack = 1..(n - 1)
      /\ \A i \in 1..(n - 1) : f.stack[i] = s[i]
  BY <1>1, FrontIs
<1>3. Stacked(f.stack)
  BY <1>1, PopStacked
<1>4. Top(f) = f.stack[n - 1] /\ Top(f) = s[n - 1]
  BY <1>1, <1>2 DEF Top, Last
<1>5. s[n - 1].fn # "ask"
  <2>1. n - 1 \in DOMAIN s /\ n - 1 # Len(s)
    BY ONLY <1>1
  <2>2. \A i \in DOMAIN s : i # Len(s) => s[i].fn # "ask"
    BY DEF Stacked
  <2> QED
    BY ONLY <2>1, <2>2
<1>6. ASSUME NEW fn
      PROVE  Within(e, fn) <=> Within(f, fn) \/ Top(e).fn = fn
  <2>1. DOMAIN s = DOMAIN f.stack \cup {n}
    BY ONLY <1>1, <1>2
  <2>2. Top(e) = s[n] /\ \A i \in DOMAIN f.stack : f.stack[i] = s[i]
    BY ONLY <1>1, <1>2
  <2> QED
    BY ONLY <2>1, <2>2 DEF Within
<1> QED
  BY <1>1, <1>2, <1>3, <1>4, <1>5, <1>6

LEMMA PopHeld ==
  ASSUME NEW e, NEW f, Typed(e), Stacked(e.stack), Top(e).fn # "jed", Pops(e, f)
  PROVE  Held(f)
<1>1. /\ Top(f) = e.stack[Len(e.stack) - 1] /\ Top(f) = f.stack[Len(f.stack)]
      /\ Top(f).fn # "ask"
  BY PoppedStack DEF Pops
<1>2. Counts(e.stack[Len(e.stack) - 1]) => f.repeat # None
  BY DEF Pops
<1> QED
  BY ONLY <1>1, <1>2 DEF Held

LEMMA PopBase ==
  ASSUME NEW e, NEW f, Base(e), Pops(e, f), Top(e).fn \notin {"jed", "exec", "string"},
         f.str = e.str, f.exe = e.exe, f.saved = e.saved, f.illegal = e.illegal
  PROVE  Base(f) /\ Top(f) = e.stack[Len(e.stack) - 1] /\ Top(f).fn # "ask"
<1>1. /\ Typed(e) /\ Stacked(e.stack) /\ e.stack \in Seq(Frames) /\ f.stack = Front(e.stack)
      /\ Top(e) = e.stack[Len(e.stack)]
  BY TopIs DEF Base, Typed, Pops
<1>2. /\ Len(e.stack) > 1 /\ f.stack \in Seq(Frames) /\ Stacked(f.stack)
      /\ Top(f) = e.stack[Len(e.stack) - 1] /\ Top(f).fn # "ask"
      /\ Within(e, "exec") <=> Within(f, "exec")
  BY <1>1, PoppedStack
<1>3. Typed(f)
  BY <1>1, <1>2 DEF Pops, Typed
<1>4. Held(f)
  BY <1>1, PopHeld
<1>5. Flags(f)
  BY <1>2 DEF Base, Flags, Pops
<1>6. NoCountStrings => Bounded(f)
  BY <1>2 DEF Base, Bounded, Pops
<1>7. NoCountStrings => Spared(f.stack, f.str)
  BY <1>1, <1>2, PopSpared DEF Base
<1> QED
  BY <1>2, <1>3, <1>4, <1>5, <1>6, <1>7 DEF Base

LEMMA PopExecBase ==
  ASSUME NEW e, NEW f, Base(e), Pops(e, f), Top(e).fn = "exec",
         f.str = e.str, f.exe = FALSE, f.saved = [def |-> e.def, exe |-> FALSE], f.illegal = FALSE
  PROVE  Base(f) /\ Top(f).fn # "ask"
<1>1. /\ Typed(e) /\ Stacked(e.stack) /\ e.stack \in Seq(Frames) /\ f.stack = Front(e.stack)
      /\ Top(e) = e.stack[Len(e.stack)] /\ DOMAIN e.stack = 1..Len(e.stack) /\ Len(e.stack) \in Nat
  BY TopIs DEF Base, Typed, Pops
<1>2. /\ Len(e.stack) > 1 /\ f.stack \in Seq(Frames) /\ Stacked(f.stack) /\ Top(f).fn # "ask"
  BY <1>1, PoppedStack
<1>3. Typed(f)
  <2>1. f.def \in BOOLEAN /\ e.def \in BOOLEAN /\ f.str \in Seq(StringKeys)
    BY <1>1 DEF Pops, Typed
  <2>2. f.saved \in [def: BOOLEAN, exe: BOOLEAN]
    BY <2>1
  <2> QED
    BY <1>2, <2>1, <2>2 DEF Pops, Typed
<1>4. Held(f)
  BY <1>1, PopHeld
<1>5. ~Within(f, "exec")
  <2>1. /\ DOMAIN f.stack = 1..(Len(e.stack) - 1)
        /\ \A i \in 1..(Len(e.stack) - 1) : f.stack[i] = e.stack[i]
    BY <1>1, <1>2, FrontIs
  <2>2. SUFFICES ASSUME NEW i \in 1..(Len(e.stack) - 1), e.stack[i].fn = "exec"
                 PROVE  FALSE
    BY <2>1 DEF Within
  <2>3. \A j \in DOMAIN e.stack : e.stack[i].fn = e.stack[j].fn => i = j
    BY <1>1, <2>2 DEF Stacked
  <2>4. i = Len(e.stack)
    BY <1>1, <1>2, <2>2, <2>3
  <2> QED
    BY <1>1, <2>4
<1>6. Flags(f)
  BY <1>5 DEF Flags
<1>7. NoCountStrings => Bounded(f)
  BY <1>5 DEF Base, Bounded, Pops
<1>8. NoCountStrings => Spared(f.stack, f.str)
  BY <1>1, <1>2, PopSpared DEF Base
<1> QED
  BY <1>2, <1>3, <1>4, <1>6, <1>7, <1>8 DEF Base

LEMMA PopStringBase ==
  ASSUME NEW e, NEW f, Base(e), Pops(e, f), Top(e).fn = "string",
         f.str = Top(e).rest, f.exe = e.exe, f.saved = e.saved, f.illegal = e.illegal
  PROVE  Base(f) /\ Top(f).fn # "ask"
<1>1. /\ Typed(e) /\ Stacked(e.stack) /\ e.stack \in Seq(Frames) /\ f.stack = Front(e.stack)
      /\ Top(e) = e.stack[Len(e.stack)] /\ Top(e) \in Frames
  BY TopIs DEF Base, Typed, Pops
<1>2. /\ Len(e.stack) > 1 /\ f.stack \in Seq(Frames) /\ Stacked(f.stack) /\ Top(f).fn # "ask"
      /\ Within(e, "exec") <=> Within(f, "exec")
  BY <1>1, PoppedStack
<1>3. Typed(f)
  BY <1>1, <1>2 DEF Pops, Typed, Frames
<1>4. Held(f)
  BY <1>1, PopHeld
<1>5. Flags(f)
  BY <1>2 DEF Base, Flags, Pops
<1>6. NoCountStrings => Bounded(f)
  BY <1>2 DEF Base, Bounded, Pops
<1>7. NoCountStrings => Spared(f.stack, f.str)
  BY <1>1, <1>2, PopStringSpared DEF Base
<1> QED
  BY <1>2, <1>3, <1>4, <1>5, <1>6, <1>7 DEF Base
-----------------------------------------------------------------------------
(* The commands.                                                           *)

LEMMA FrameType ==
  ASSUME NEW fn \in Fns
  PROVE  /\ Frame(fn) \in Frames
         /\ Frame(fn).fn = fn /\ Frame(fn).cmd = None /\ Frame(fn).rest = <<>>
BY <<>> \in Seq(StringKeys) DEF Frame, Frames, Count

LEMMA ReadSound ==
  ASSUME NEW e, Base(e), Top(e).fn # "ask"
  PROVE  Sound(Read(e))
<1> DEFINE t == [Frame("mini") EXCEPT !.rf = e.repeat]
           f == Pushed(e, t)
<1>1. CASE Within(e, "mini")
  BY <1>1, BackSound DEF Read
<1>2. CASE ~Within(e, "mini")
  <2>1. Typed(e) /\ e.repeat \in Count /\ <<>> \in Seq(StringKeys)
    BY DEF Base, Typed
  <2>2. Frame("mini") \in Frames /\ Frame("mini").fn = "mini"
    BY FrameType DEF Fns
  <2>3. t \in Frames /\ t.fn = "mini" /\ t.rf = e.repeat
    BY <2>1, <2>2 DEF Frames
  <2>4. Pushes(e, f, t)
    BY <2>1 DEF Pushes, Pushed, Typed, Fields
  <2>5. Counts(Top(e)) => e.repeat # None
    BY <2>1, TopIs DEF Base, Held
  <2> HIDE DEF t, f
  <2>6. Base(f) /\ Top(f) = t
    BY <1>2, <2>3, <2>4, <2>5, PushBase DEF Counts
  <2>7. Sound(DoJed(f))
    BY <2>3, <2>6, DoJedSound
  <2> QED
    BY <1>2, <2>7 DEF Read, f, t
<1> QED
  BY <1>1, <1>2

LEMMA QuerySound ==
  ASSUME NEW e, Base(e), Top(e).fn # "ask"
  PROVE  Sound(MacroQuery(e))
<1> DEFINE f == [e EXCEPT !.def = FALSE, !.exe = FALSE]
<1>1. Flagged(e, f)
  BY DEF Base, Typed, Flagged, Fields
<1>2. Base(f) /\ Top(f).fn # "ask"
  BY <1>1, FlaggedBase
<1> QED
  BY <1>2, ReadSound DEF MacroQuery

LEMMA MiniDoneSound ==
  ASSUME NEW e, Base(e), Top(e).fn = "mini"
  PROVE  Sound(MiniDone(e))
<1> DEFINE rf == IF Top(e).rf = None THEN e.repeat ELSE Top(e).rf
           d == Resumed(e)
           f == [Popped(d) EXCEPT !.leave = FALSE, !.quit = FALSE, !.repeat = rf]
<1>1. Base(d) /\ d.stack = e.stack /\ Top(d) = Top(e)
  BY ResumedFlagged, FlaggedBase DEF Flagged
<1>2. /\ Typed(d) /\ Typed(e) /\ Stacked(e.stack) /\ Top(e) \in Frames /\ e.stack \in Seq(Frames)
      /\ Top(e) = e.stack[Len(e.stack)] /\ Len(e.stack) > 1
  BY <1>1, TopIs DEF Base, Typed
<1>3. rf \in Count
  BY <1>2 DEF Typed, Frames
<1>4. Counts(e.stack[Len(e.stack) - 1]) => rf # None
  BY <1>2, PopCounts
<1> HIDE DEF d, rf
<1>5. Pops(d, f) /\ f.str = d.str /\ f.exe = d.exe /\ f.saved = d.saved /\ f.illegal = d.illegal
  BY <1>1, <1>2, <1>3, <1>4 DEF Pops, Popped, Typed, Fields
<1>6. MiniDone(e) = Back(f)
  BY DEF MiniDone, d, rf
<1> HIDE DEF f
<1>7. Base(f) /\ Top(f).fn # "ask"
  BY <1>1, <1>5, PopBase
<1> QED
  BY <1>6, <1>7, BackSound

LEMMA ExecDoneSound ==
  ASSUME NEW e, Base(e), Top(e).fn = "exec"
  PROVE  Sound(ExecDone(e))
<1> DEFINE f == SaveState([Popped(e) EXCEPT !.illegal = FALSE, !.exe = FALSE, !.repeat = Top(e).rf])
<1>1. /\ Typed(e) /\ Stacked(e.stack) /\ Top(e) \in Frames /\ e.stack \in Seq(Frames)
      /\ Top(e) = e.stack[Len(e.stack)] /\ Len(e.stack) > 1
  BY TopIs DEF Base, Typed
<1>2. Top(e).rf \in Count
  BY <1>1 DEF Frames
<1>3. Counts(e.stack[Len(e.stack) - 1]) => Top(e).rf # None
  BY <1>1, PopCounts
<1>4. /\ DOMAIN f = Fields /\ f.keys = e.keys /\ f.n = e.n /\ f.stack = Front(e.stack)
      /\ f.repeat = Top(e).rf /\ f.mac = e.mac /\ f.ptr = e.ptr /\ f.max = e.max /\ f.def = e.def
      /\ f.str = e.str /\ f.exe = FALSE /\ f.saved = [def |-> e.def, exe |-> FALSE]
      /\ f.illegal = FALSE
  BY <1>1 DEF SaveState, Popped, Typed, Fields
<1> HIDE DEF f
<1>5. Pops(e, f)
  BY <1>1, <1>2, <1>3, <1>4 DEF Pops, Typed
<1>6. Base(f) /\ Top(f).fn # "ask"
  BY <1>4, <1>5, PopExecBase
<1> QED
  BY <1>6, BackSound DEF ExecDone, f

LEMMA ExecuteSound ==
  ASSUME NEW e, Base(e), Top(e).fn # "ask"
  PROVE  Sound(ExecuteMacro(e))
<1> DEFINE t == [Frame("exec") EXCEPT !.rf = e.repeat]
           d == SaveState([e EXCEPT !.exe = TRUE])
           g == Pushed([d EXCEPT !.ptr = 0, !.illegal = TRUE], t)
           s == e.stack
<1>1. CASE e.illegal \/ e.def
  <2>1. Base(Failed(e)) /\ Top(Failed(e)).fn # "ask"
    BY FailedFlagged, FlaggedBase
  <2> QED
    BY <1>1, <2>1, BackSound DEF ExecuteMacro
<1>2. CASE ~e.illegal /\ ~e.def
  <2>1. /\ Typed(e) /\ e.repeat \in Count /\ <<>> \in Seq(StringKeys) /\ Stacked(s)
        /\ s \in Seq(Frames)
    BY DEF Base, Typed
  <2>2. Frame("exec") \in Frames /\ Frame("exec").fn = "exec"
    BY FrameType DEF Fns
  <2>3. t \in Frames /\ t.fn = "exec" /\ t.rf = e.repeat
    BY <2>1, <2>2 DEF Frames
  <2>4. Counts(Top(e)) => e.repeat # None
    BY <2>1, TopIs DEF Base, Held
  <2> HIDE DEF t
  <2>5. /\ DOMAIN g = Fields /\ g.keys = e.keys /\ g.n = e.n /\ g.stack = Append(s, t)
        /\ g.repeat = e.repeat /\ g.str = e.str /\ g.mac = e.mac /\ g.ptr = 0 /\ g.max = e.max
        /\ g.def = FALSE /\ g.exe = TRUE /\ g.saved = [def |-> FALSE, exe |-> TRUE]
        /\ g.illegal = TRUE
    BY <1>2, <2>1 DEF SaveState, Pushed, Typed, Fields
  <2> HIDE DEF g
  <2>6. /\ Len(s) \in Nat \ {0} /\ DOMAIN s = 1..Len(s) /\ Top(e) = s[Len(s)]
        /\ g.stack \in Seq(Frames) /\ Len(g.stack) = Len(s) + 1 /\ DOMAIN g.stack = 1..(Len(s) + 1)
        /\ \A i \in 1..Len(s) : g.stack[i] = s[i]
        /\ g.stack[Len(s) + 1] = t
    BY <2>1, <2>3, <2>5, TopIs, AppendIs
  <2>7. Top(g) = t /\ Within(g, "exec")
    BY <2>3, <2>6 DEF Top, Last, Within
  <2>8. Typed(g)
    <3>1. g.saved \in [def: BOOLEAN, exe: BOOLEAN]
      BY <2>5
    <3> QED
      BY <2>1, <2>5, <2>6, <3>1 DEF Typed
  <2>9. \A i \in DOMAIN s : s[i].fn # "exec"
    BY <1>2 DEF Base, Flags, Within
  <2>10. Stacked(g.stack)
    BY <2>1, <2>3, <2>4, <2>5, <2>6, <2>9, PushStacked
  <2>11. Held(g)
    BY <2>3, <2>6 DEF Held, Counts
  <2>12. Flags(g)
    BY <2>5, <2>7 DEF Flags
  <2>13. NoCountStrings => Bounded(g)
    BY <2>5 DEF Base, Bounded
  <2>14. NoCountStrings => Spared(g.stack, g.str)
    BY <2>1, <2>3, <2>5, PushSpared DEF Base
  <2>15. Base(g) /\ Top(g).fn = "exec"
    BY <2>3, <2>7, <2>8, <2>10, <2>11, <2>12, <2>13, <2>14 DEF Base
  <2>16. Sound(ExecDone(g)) /\ Sound(DoJed(g))
    BY <2>15, ExecDoneSound, DoJedSound
  <2> QED
    BY <1>2, <2>16 DEF ExecuteMacro, g, t
<1> QED
  BY <1>1, <1>2 DEF Base, Typed

(* A key string is run, by itself or with a count that is its own.         *)
LEMMA StringSound ==
  ASSUME NEW e, Base(e), Top(e).fn # "ask", NEW c \in DOMAIN Strings, ~Counts(Top(e))
  PROVE  Sound(DoMacroString(e, c))
<1> DEFINE n == IF e.repeat = None THEN 1 ELSE e.repeat
           t == [Frame("string") EXCEPT !.cmd = c, !.n = n, !.rest = e.str]
           s == e.stack
           d == Failed([e EXCEPT !.depth = 0, !.repeat = None])
           g == [Pushed(e, t) EXCEPT !.depth = @ + 1, !.repeat = None, !.str = <<>>, !.at = "loop"]
<1>1. /\ Typed(e) /\ e.repeat \in Count /\ e.str \in Seq(StringKeys) /\ <<>> \in Seq(StringKeys)
      /\ Stacked(s) /\ s \in Seq(Frames)
  BY DEF Base, Typed
<1>2. CASE e.depth > MaxDepth
  <2>1. Base([e EXCEPT !.repeat = None]) /\ Top([e EXCEPT !.repeat = None]) = Top(e)
    BY UncountedBase
  <2>2. Alike([e EXCEPT !.repeat = None], d)
    BY <1>1 DEF Typed, Alike, Failed, Fields
  <2>3. Base(d) /\ Top(d).fn # "ask"
    BY <2>1, <2>2, AlikeBase
  <2> QED
    BY <1>2, <2>3, BackSound DEF DoMacroString
<1>3. CASE ~(e.depth > MaxDepth)
  <2>1. n \in Nat
    BY <1>1 DEF Count
  <2>2. Frame("string") \in Frames /\ Frame("string").fn = "string"
    BY FrameType DEF Fns
  <2>3. t \in Frames /\ t.fn = "string" /\ t.cmd = c /\ t.rest = e.str
    <3>1. c \in Commands
      BY DEF Commands
    <3> HIDE DEF n
    <3> QED
      BY <1>1, <2>1, <2>2, <3>1 DEF Frames
  <2> HIDE DEF t
  <2>4. /\ DOMAIN g = Fields /\ g.keys = e.keys /\ g.n = e.n /\ g.stack = Append(s, t)
        /\ g.repeat = None /\ g.str = <<>> /\ g.mac = e.mac /\ g.ptr = e.ptr /\ g.max = e.max
        /\ g.def = e.def /\ g.exe = e.exe /\ g.saved = e.saved /\ g.illegal = e.illegal
        /\ g.at = "loop"
    BY <1>1 DEF Pushed, Typed, Fields
  <2>5. DoMacroString(e, c) = g
    BY <1>3 DEF DoMacroString, t
  <2> HIDE DEF g
  <2>6. /\ Len(s) \in Nat \ {0} /\ DOMAIN s = 1..Len(s) /\ Top(e) = s[Len(s)]
        /\ g.stack \in Seq(Frames) /\ Len(g.stack) = Len(s) + 1 /\ DOMAIN g.stack = 1..(Len(s) + 1)
        /\ \A i \in 1..Len(s) : g.stack[i] = s[i]
        /\ g.stack[Len(s) + 1] = t
    BY <1>1, <2>3, <2>4, TopIs, AppendIs
  <2>7. Top(g) = t
    BY <2>6 DEF Top, Last
  <2>8. Typed(g)
    BY <1>1, <2>4, <2>6 DEF Typed, Count
  <2>9. Stacked(g.stack)
    BY <1>1, <2>3, <2>4, <2>6, PushStacked
  <2>10. Held(g)
    BY <2>3, <2>6 DEF Held, Counts
  <2>11. Flags(g)
    BY <2>3, <2>4, <2>6 DEF Base, Flags, Within
  <2>12. NoCountStrings => Bounded(g)
    BY <2>3, <2>4, <2>6 DEF Base, Bounded, Within
  <2>13. NoCountStrings => Spared(g.stack, g.str)
    BY <1>1, <2>3, <2>4, PushStringSpared DEF Base
  <2>14. Placed(g)
    BY <2>3, <2>4, <2>7 DEF Placed
  <2> QED
    BY <2>5, <2>8, <2>9, <2>10, <2>11, <2>12, <2>13, <2>14 DEF Sound, Base
<1> QED
  BY <1>2, <1>3

LEMMA StringDoneSound ==
  ASSUME NEW e, Base(e), Top(e).fn = "string"
  PROVE  Sound(StringDone(e))
<1> DEFINE f == [Popped(e) EXCEPT !.str = Top(e).rest, !.depth = @ - 1]
<1>1. /\ Typed(e) /\ Stacked(e.stack) /\ e.stack \in Seq(Frames)
      /\ Top(e) = e.stack[Len(e.stack)] /\ Len(e.stack) > 1
  BY TopIs DEF Base, Typed
<1>2. ~Counts(e.stack[Len(e.stack) - 1])
  BY <1>1, PopCounts
<1>3. /\ Pops(e, f) /\ f.str = Top(e).rest /\ f.exe = e.exe /\ f.saved = e.saved
      /\ f.illegal = e.illegal
  BY <1>1, <1>2 DEF Pops, Popped, Typed, Fields
<1>4. Base(f) /\ Top(f).fn # "ask"
  BY <1>3, PopStringBase
<1> QED
  BY <1>4, BackSound DEF StringDone

LEMMA DigitSound ==
  ASSUME NEW e, Base(e), Top(e).fn # "ask", ~Counts(Top(e)), NoCountStrings => e.str = <<>>
  PROVE  Sound(DigitArg(e))
<1> DEFINE t == Frame("digit")
           d == IF Last(e.keys) \in DOMAIN Digits THEN Digits[Last(e.keys)] ELSE None
           g == [Pushed(e, t) EXCEPT !.at = "digits", !.diff = e.last, !.n = d]
<1>1. Typed(e) /\ <<>> \in Seq(StringKeys)
  BY DEF Base, Typed
<1>3. t \in Frames /\ t.fn = "digit"
  BY FrameType DEF Fns
<1>4. d \in Count
  BY KeysAssumption DEF Count
<1> HIDE DEF t, d
<1>5. Pushes(e, g, t) /\ g.at = "digits"
  BY <1>1, <1>4 DEF Pushes, Pushed, Typed, Fields
<1>6. g = DigitArg(e)
  BY DEF DigitArg, t, d
<1> HIDE DEF g
<1>7. Base(g) /\ Top(g) = t
  BY <1>3, <1>5, PushBase DEF Counts
<1>8. Placed(g)
  BY <1>3, <1>5, <1>7 DEF Placed, Pushes
<1> QED
  BY <1>6, <1>7, <1>8 DEF Sound

LEMMA AskSound ==
  ASSUME NEW e, Base(e), Top(e).fn # "ask", NEW b \in BOOLEAN
  PROVE  Sound(Ask(e, b))
<1> DEFINE d == IF b THEN Suspended(e) ELSE e
           t == [Frame("ask") EXCEPT !.n = IF b THEN 1 ELSE 0]
           g == [Pushed(d, t) EXCEPT !.at = "answer"]
<1>1. Base(d) /\ Top(d).fn # "ask"
  BY ResumedFlagged, FlaggedBase
<1>2. Typed(d) /\ <<>> \in Seq(StringKeys)
  BY <1>1 DEF Base, Typed
<1>3. Frame("ask") \in Frames /\ Frame("ask").fn = "ask"
  BY FrameType DEF Fns
<1>4. t \in Frames /\ t.fn = "ask"
  BY <1>3 DEF Frames
<1> HIDE DEF t, d
<1>5. Pushes(d, g, t) /\ g.at = "answer"
  BY <1>2 DEF Pushes, Pushed, Typed, Fields
<1>6. g = Ask(e, b)
  BY DEF Ask, t, d
<1> HIDE DEF g
<1>7. Base(g) /\ Top(g) = t
  BY <1>1, <1>4, <1>5, PushBase DEF Counts
<1>8. Placed(g)
  BY <1>4, <1>5, <1>7 DEF Placed
<1> QED
  BY <1>6, <1>7, <1>8 DEF Sound

LEMMA InterpretedIs ==
  ASSUME NEW e, NEW c
  PROVE  /\ c = "insert" => Interpreted(e, c) = Back(e)
         /\ c = "begin" => Interpreted(e, c) = Back(BeginMacro(e))
         /\ c = "end" => Interpreted(e, c) = Back(EndMacro(e))
         /\ c = "exec" => Interpreted(e, c) = ExecuteMacro(e)
         /\ c = "query" => Interpreted(e, c) = MacroQuery(e)
         /\ c = "prompt" => Interpreted(e, c) = Read(e)
         /\ c = "exit" => Interpreted(e, c) = Back([e EXCEPT !.leave = Within(e, "mini")])
         /\ c = "quit" => Interpreted(e, c) = Back(KbdQuit(e))
         /\ c = "digit" => Interpreted(e, c) = DigitArg(e)
         /\ c = "yes" => Interpreted(e, c) = Ask(e, FALSE)
         /\ c = "lock" => Interpreted(e, c) = Ask(e, TRUE)
         /\ c \in DOMAIN Stuffs => Interpreted(e, c) = Back(BufferKeystring(e, Stuffs[c]))
         /\ c \in DOMAIN Strings => Interpreted(e, c) = DoMacroString(e, c)
<1>1. /\ c \in Builtin => c \notin DOMAIN Strings /\ c \notin DOMAIN Stuffs
      /\ c \in DOMAIN Stuffs => c \notin DOMAIN Strings /\ c \notin Builtin
      /\ c \in DOMAIN Strings => c \notin DOMAIN Stuffs /\ c \notin Builtin
  BY KeysAssumption
<1>2. c = "insert" => Interpreted(e, c) = Back(e)
  BY <1>1 DEF Interpreted, Builtin
<1>3. c = "begin" => Interpreted(e, c) = Back(BeginMacro(e))
  BY <1>1 DEF Interpreted, Builtin
<1>4. c = "end" => Interpreted(e, c) = Back(EndMacro(e))
  BY <1>1 DEF Interpreted, Builtin
<1>5. c = "exec" => Interpreted(e, c) = ExecuteMacro(e)
  BY <1>1 DEF Interpreted, Builtin
<1>6. c = "query" => Interpreted(e, c) = MacroQuery(e)
  BY <1>1 DEF Interpreted, Builtin
<1>7. c = "prompt" => Interpreted(e, c) = Read(e)
  BY <1>1 DEF Interpreted, Builtin
<1>8. c = "exit" => Interpreted(e, c) = Back([e EXCEPT !.leave = Within(e, "mini")])
  BY <1>1 DEF Interpreted, Builtin
<1>9. c = "quit" => Interpreted(e, c) = Back(KbdQuit(e))
  BY <1>1 DEF Interpreted, Builtin
<1>10. c = "digit" => Interpreted(e, c) = DigitArg(e)
  BY <1>1 DEF Interpreted, Builtin
<1>11. c = "yes" => Interpreted(e, c) = Ask(e, FALSE)
  BY <1>1 DEF Interpreted, Builtin
<1>12. c = "lock" => Interpreted(e, c) = Ask(e, TRUE)
  BY <1>1 DEF Interpreted, Builtin
<1>13. c \in DOMAIN Stuffs => Interpreted(e, c) = Back(BufferKeystring(e, Stuffs[c]))
  BY <1>1 DEF Interpreted, Builtin
<1>14. c \in DOMAIN Strings => Interpreted(e, c) = DoMacroString(e, c)
  BY <1>1 DEF Interpreted, Builtin
<1> QED
  BY <1>2, <1>3, <1>4, <1>5, <1>6, <1>7, <1>8, <1>9, <1>10, <1>11, <1>12, <1>13, <1>14

(* key_interpret, for a key or for a count.                                *)
LEMMA InterpretedSound ==
  ASSUME NEW e, Base(e), Top(e).fn # "ask", NEW c \in Commands,
         Top(e).fn = "repeat" => Top(e).cmd = c,
         NoCountStrings => (c = "digit" => e.str = <<>>)
  PROVE  Sound(Interpreted(e, c))
<1>2. c \in Own => ~Counts(Top(e))
  BY DEF Counts
<1>3. Typed(e)
  BY DEF Base
<1>4. CASE c = "insert"
  <2>1. Interpreted(e, c) = Back(e)
    BY <1>4, InterpretedIs
  <2>2. Sound(Back(e))
    BY BackSound
  <2> QED
    BY <2>1, <2>2
<1>5. CASE c = "begin"
  <2>1. Interpreted(e, c) = Back(BeginMacro(e))
    BY <1>5, InterpretedIs
  <2>2. Sound(Back(BeginMacro(e)))
    BY BackSound, BeginFlagged, FlaggedBase
  <2> QED
    BY <2>1, <2>2
<1>6. CASE c = "end"
  <2>1. Interpreted(e, c) = Back(EndMacro(e))
    BY <1>6, InterpretedIs
  <2>2. Sound(Back(EndMacro(e)))
    BY BackSound, EndFlagged, FlaggedBase
  <2> QED
    BY <2>1, <2>2
<1>7. CASE c = "exec"
  <2>1. Interpreted(e, c) = ExecuteMacro(e)
    BY <1>7, InterpretedIs
  <2>2. Sound(ExecuteMacro(e))
    BY ExecuteSound
  <2> QED
    BY <2>1, <2>2
<1>8. CASE c = "query"
  <2>1. Interpreted(e, c) = MacroQuery(e)
    BY <1>8, InterpretedIs
  <2>2. Sound(MacroQuery(e))
    BY QuerySound
  <2> QED
    BY <2>1, <2>2
<1>9. CASE c = "prompt"
  <2>1. Interpreted(e, c) = Read(e)
    BY <1>9, InterpretedIs
  <2>2. Sound(Read(e))
    BY ReadSound
  <2> QED
    BY <2>1, <2>2
<1>10. CASE c = "exit"
  <2>1. Alike(e, [e EXCEPT !.leave = Within(e, "mini")])
    BY <1>3 DEF Typed, Alike, Fields
  <2>2. Interpreted(e, c) = Back([e EXCEPT !.leave = Within(e, "mini")])
    BY <1>10, InterpretedIs
  <2>3. Sound(Back([e EXCEPT !.leave = Within(e, "mini")]))
    BY <2>1, AlikeBase, BackSound
  <2> QED
    BY <2>2, <2>3
<1>11. CASE c = "quit"
  <2>1. Alike(e, KbdQuit(e))
    BY <1>3 DEF Typed, Alike, KbdQuit, Fields
  <2>2. Interpreted(e, c) = Back(KbdQuit(e))
    BY <1>11, InterpretedIs
  <2>3. Sound(Back(KbdQuit(e)))
    BY <2>1, AlikeBase, BackSound
  <2> QED
    BY <2>2, <2>3
<1>12. CASE c = "digit"
  <2>1. Interpreted(e, c) = DigitArg(e)
    BY <1>12, InterpretedIs
  <2>2. Sound(DigitArg(e))
    BY <1>2, <1>12, DigitSound DEF Own
  <2> QED
    BY <2>1, <2>2
<1>13. CASE c = "yes"
  <2>1. Interpreted(e, c) = Ask(e, FALSE)
    BY <1>13, InterpretedIs
  <2>2. Sound(Ask(e, FALSE))
    BY AskSound
  <2> QED
    BY <2>1, <2>2
<1>14. CASE c = "lock"
  <2>1. Interpreted(e, c) = Ask(e, TRUE)
    BY <1>14, InterpretedIs
  <2>2. Sound(Ask(e, TRUE))
    BY AskSound
  <2> QED
    BY <2>1, <2>2
<1>15. CASE c \in DOMAIN Stuffs
  <2>1. Alike(e, BufferKeystring(e, Stuffs[c]))
    BY <1>3 DEF Typed, Alike, BufferKeystring, Fields
  <2>2. Sound(Back(BufferKeystring(e, Stuffs[c])))
    BY <2>1, AlikeBase, BackSound
  <2> QED
    BY <1>15, <2>2, InterpretedIs
<1>16. CASE c \in DOMAIN Strings
  <2>1. Sound(DoMacroString(e, c))
    BY <1>2, <1>16, StringSound DEF Own
  <2> QED
    BY <1>16, <2>1, InterpretedIs
<1> QED
  BY <1>4, <1>5, <1>6, <1>7, <1>8, <1>9, <1>10, <1>11, <1>12, <1>13, <1>14, <1>15, <1>16
     DEF Commands, Builtin
-----------------------------------------------------------------------------
(* Keys are read.                                                          *)

LEMMA AlikeSound ==
  ASSUME NEW e, NEW f, Sound(e), Alike(e, f), f.at = e.at
  PROVE  Sound(f)
<1>1. Base(f) /\ Top(f) = Top(e)
  BY AlikeBase DEF Sound
<1> QED
  BY <1>1 DEF Sound, Placed, Alike

LEMMA GetkeyAlike ==
  ASSUME NEW e, Typed(e), NEW k
  PROVE  Alike(e, MyGetkey(e, k).ed) /\ MyGetkey(e, k).ed.at = e.at
<1>1. CASE e.in # <<>>
  BY <1>1 DEF MyGetkey, Typed, Alike, Fields
<1>2. CASE e.in = <<>> /\ e.quit
  BY <1>2 DEF MyGetkey, Typed, Alike, Fields
<1>3. CASE e.in = <<>> /\ ~e.quit
  BY <1>3 DEF MyGetkey, Typed, Alike, Fields
<1> QED
  BY <1>1, <1>2, <1>3

LEMMA UngetAlike ==
  ASSUME NEW e, Typed(e), NEW ch
  PROVE  Alike(e, Ungetkey(e, ch)) /\ Ungetkey(e, ch).at = e.at
<1>1. CASE e.exe \/ ~Room(e, 1)
  BY <1>1 DEF Ungetkey, Typed, Alike
<1>2. CASE ~(e.exe \/ ~Room(e, 1))
  BY <1>2 DEF Ungetkey, Typed, Alike, Fields
<1> QED
  BY <1>1, <1>2

(* The macro with the key ch at its place p.                               *)
LEMMA StoredSequence ==
  ASSUME NEW m, IsSequence(m), NEW p \in 0..Len(m), p < MacroSize, Len(m) <= MacroSize, NEW ch
  PROVE  LET q == SubSeq(m, 1, p) \o <<ch>> \o SubSeq(m, p + 2, Len(m))
         IN IsSequence(q) /\ Len(q) \in Nat /\ Len(m) <= Len(q) /\ p + 1 <= Len(q) /\ Len(q) <= MacroSize
<1>1. PICK S : m \in Seq(S)
  BY DEF IsSequence
<1> DEFINE R == S \cup {ch}
           a == SubSeq(m, 1, p)
           b == SubSeq(m, p + 2, Len(m))
<1>2. m \in Seq(R) /\ Len(m) \in Nat /\ MacroSize \in Nat
  BY <1>1, KeysAssumption
<1>3. a \in Seq(R) /\ Len(a) = p
  BY <1>2
<1>4. b \in Seq(R) /\ Len(b) = IF p + 2 <= Len(m) THEN Len(m) - p - 1 ELSE 0
  BY <1>2
<1>5. <<ch>> \in Seq(R) /\ Len(<<ch>>) = 1
  OBVIOUS
<1> HIDE DEF R, a, b
<1>6. (a \o <<ch>>) \in Seq(R) /\ Len(a \o <<ch>>) = p + 1
  BY <1>3, <1>5
<1> DEFINE c == a \o <<ch>>
           q == c \o b
<1> HIDE DEF c
<1>7. c \in Seq(R) /\ Len(c) = p + 1
  BY <1>6 DEF c
<1>8. q \in Seq(R) /\ Len(q) = p + 1 + Len(b)
  BY <1>4, <1>7, ConcatProperties
<1>9. q = SubSeq(m, 1, p) \o <<ch>> \o SubSeq(m, p + 2, Len(m))
  BY DEF a, b, c
<1> HIDE DEF q
<1>10. IsSequence(q)
  BY <1>8 DEF IsSequence
<1>11. Len(q) \in Nat /\ Len(m) <= Len(q) /\ p + 1 <= Len(q) /\ Len(q) <= MacroSize
  <2>1. p \in 0..Len(m) /\ p < MacroSize /\ Len(m) <= MacroSize /\ Len(m) \in Nat /\ MacroSize \in Nat
    BY <1>2
  <2>2. CASE p + 2 <= Len(m)
    <3>1. Len(b) = Len(m) - p - 1
      BY <1>4, <2>2
    <3> QED
      BY ONLY <1>8, <2>1, <2>2, <3>1
  <2>3. CASE ~(p + 2 <= Len(m))
    <3>1. Len(b) = 0
      BY <1>4, <2>3
    <3> QED
      BY ONLY <1>8, <2>1, <2>3, <3>1
  <2> QED
    BY <2>2, <2>3
<1> QED
  BY <1>9, <1>10, <1>11

LEMMA StoredBase ==
  ASSUME NEW e, Base(e), NEW ch
  PROVE  LET f == Stored(e, ch)
         IN /\ Base(f) /\ f.stack = e.stack /\ f.str = e.str /\ f.at = e.at
            /\ f.exe = e.exe /\ f.def = e.def
            /\ NoCountStrings /\ f.def => f.ptr >= 1
<1> DEFINE f == Stored(e, ch)
           q == SubSeq(e.mac, 1, e.ptr) \o <<ch>> \o SubSeq(e.mac, e.ptr + 2, Len(e.mac))
<1>1. CASE ~e.def
  BY <1>1 DEF Stored
<1>2. CASE e.def
  <2>1. Typed(e) /\ ~Within(e, "exec") /\ MacroSize \in Nat \ {0}
    BY <1>2, KeysAssumption DEF Base, Flags
  <2>2. /\ DOMAIN f = Fields /\ f.keys = e.keys /\ f.n = e.n /\ f.stack = e.stack /\ f.str = e.str
        /\ f.repeat = e.repeat /\ f.def = e.def /\ f.exe = e.exe /\ f.saved = e.saved
        /\ f.illegal = e.illegal /\ f.at = e.at
        /\ f.max \in {e.max, e.ptr}
        /\ \/ e.ptr >= MacroSize /\ f.mac = e.mac /\ f.ptr = e.ptr
           \/ ~(e.ptr >= MacroSize) /\ f.mac = q /\ f.ptr = e.ptr + 1
    <3>1. CASE e.diff = 0 /\ e.ptr >= MacroSize
      BY <1>2, <2>1, <3>1 DEF Stored, Failed, Typed, Fields
    <3>2. CASE e.diff = 0 /\ ~(e.ptr >= MacroSize)
      BY <1>2, <2>1, <3>2 DEF Stored, Failed, Typed, Fields
    <3>3. CASE e.diff # 0 /\ e.ptr >= MacroSize
      BY <1>2, <2>1, <3>3 DEF Stored, Failed, Typed, Fields
    <3>4. CASE e.diff # 0 /\ ~(e.ptr >= MacroSize)
      BY <1>2, <2>1, <3>4 DEF Stored, Failed, Typed, Fields
    <3> QED
      BY <3>1, <3>2, <3>3, <3>4
  <2> HIDE DEF f
  <2>3. Typed(f)
    BY <2>1, <2>2 DEF Typed
  <2>4. Stacked(f.stack) /\ Held(f) /\ (NoCountStrings => Spared(f.stack, f.str))
    BY <2>2 DEF Base, Held
  <2>5. ~Within(f, "exec") /\ Flags(f)
    BY <2>1, <2>2 DEF Base, Flags, Within
  <2>6. ASSUME NoCountStrings
        PROVE  Bounded(f) /\ f.ptr >= 1
    <3>1. /\ IsSequence(e.mac) /\ Len(e.mac) <= MacroSize /\ e.ptr \in 0..Len(e.mac)
          /\ e.max \in 0..Len(e.mac)
      BY <2>6 DEF Base, Bounded
    <3>2. Len(e.mac) \in Nat
      BY <3>1 DEF IsSequence
    <3>3. CASE e.ptr >= MacroSize /\ f.mac = e.mac /\ f.ptr = e.ptr
      BY <2>1, <2>2, <2>5, <3>1, <3>2, <3>3 DEF Bounded
    <3>4. CASE ~(e.ptr >= MacroSize) /\ f.mac = q /\ f.ptr = e.ptr + 1
      <4>1. e.ptr < MacroSize
        BY <2>1, <3>1, <3>2, <3>4
      <4>2. /\ IsSequence(q) /\ Len(q) \in Nat /\ Len(e.mac) <= Len(q) /\ e.ptr + 1 <= Len(q)
            /\ Len(q) <= MacroSize
        BY <3>1, <4>1, StoredSequence
      <4> HIDE DEF q
      <4> QED
        BY <2>1, <2>2, <2>5, <3>1, <3>2, <3>4, <4>2 DEF Bounded
    <3> QED
      BY <2>2, <3>3, <3>4
  <2> QED
    BY <2>2, <2>3, <2>4, <2>5, <2>6 DEF Base, f
<1> QED
  BY <1>1, <1>2 DEF Base, Typed

(* The key ch may come where a key is wanted: an earlier one of the        *)
(* sequence asks for a count only if no string is being read, and digit_arg*)
(* can take the last one back from the macro.                              *)
Welcome(e, ch) ==
  NoCountStrings =>
    /\ (\E s \in DOMAIN Keymap : Keymap[s] = "digit" /\ Last(s) = ch) => e.str = <<>>
    /\ e.at = "digits" /\ (e.exe \/ e.def) => e.ptr >= 1

LEMMA SequenceSound ==
  ASSUME NEW e, Sound(e), e.at = "keys", NEW k, NEW ch, Welcome(e, ch), ToSequence(e, k, ch)
  PROVE  Sound(ed')
<1> DEFINE ks == Append(e.keys, ch)
           f == [e EXCEPT !.keys = ks, !.last = e.diff, !.diff = 0]
<1>1. Typed(e) /\ Base(e) /\ Top(e).fn \notin {"ask", "repeat"}
  BY DEF Sound, Base, Placed
<1>2. IsSequence(ks) /\ Last(ks) = ch
  BY <1>1, SequenceAppend DEF Typed
<1>3. ks \in DOMAIN Keymap => Keymap[ks] \in Commands
  BY KeysAssumption DEF Commands
<1> HIDE DEF ks
<1>4. Alike(e, f) /\ f.at = e.at /\ f.str = e.str /\ f.repeat = e.repeat
  BY <1>1, <1>2 DEF Typed, Alike, Fields
<1> HIDE DEF f
<1>5. Base(f) /\ Top(f) = Top(e) /\ Typed(f)
  BY <1>1, <1>4, AlikeBase DEF Base
<1>6. CASE ed' = [e EXCEPT !.keys = ks]
  <2>1. Alike(e, [e EXCEPT !.keys = ks]) /\ [e EXCEPT !.keys = ks].at = e.at
    BY <1>1, <1>2 DEF Typed, Alike, Fields
  <2> QED
    BY <1>6, <2>1, AlikeSound
<1>7. CASE ks \in DOMAIN Keymap /\ ed' = Interpreted(f, Keymap[ks])
  <2>1. NoCountStrings => (Keymap[ks] = "digit" => f.str = <<>>)
    BY <1>2, <1>4, <1>7 DEF Welcome
  <2> QED
    BY <1>1, <1>3, <1>5, <1>7, <2>1, InterpretedSound
<1>8. ASSUME ks \in DOMAIN Keymap, e.repeat # None,
             ed' = [Pushed(f, [Frame("repeat") EXCEPT !.cmd = Keymap[ks], !.n = e.repeat])
                      EXCEPT !.at = "loop"]
      PROVE  Sound(ed')
  <2> DEFINE t == [Frame("repeat") EXCEPT !.cmd = Keymap[ks], !.n = e.repeat]
             g == [Pushed(f, t) EXCEPT !.at = "loop"]
  <2>1. e.repeat \in Nat
    BY <1>1, <1>8 DEF Typed, Count
  <2>2. Frame("repeat") \in Frames /\ Frame("repeat").fn = "repeat"
    BY FrameType DEF Fns
  <2>3. t \in Frames /\ t.fn = "repeat" /\ t.cmd = Keymap[ks]
    BY <1>3, <1>8, <2>1, <2>2 DEF Frames
  <2>4. NoCountStrings => (t.cmd = "digit" => f.str = <<>>)
    BY <1>2, <1>4, <1>8, <2>3 DEF Welcome
  <2> HIDE DEF t
  <2>5. Pushes(f, g, t) /\ g.at = "loop"
    BY <1>5 DEF Typed, Pushes, Pushed, Fields
  <2> HIDE DEF g
  <2>6. Base(g) /\ Top(g) = t
    BY <1>1, <1>3, <1>4, <1>5, <1>8, <2>3, <2>4, <2>5, PushBase DEF Counts
  <2>7. Sound(g)
    BY <2>3, <2>5, <2>6 DEF Sound, Placed
  <2> QED
    BY <1>8, <2>7 DEF g, t
<1>9. ASSUME ed' = LET g == IF ~e.exe /\ ~e.quit THEN Flushed(f) ELSE f
                   IN [(IF e.quit THEN KbdQuit(g) ELSE g) EXCEPT !.at = "ret"]
      PROVE  Sound(ed')
  <2>1. Alike(f, ed') /\ ed'.at = "ret"
    <3>1. CASE ~e.exe /\ ~e.quit
      BY <1>5, <1>9, <3>1 DEF Typed, Alike, Flushed, Fields
    <3>2. CASE e.exe /\ ~e.quit
      BY <1>5, <1>9, <3>2 DEF Typed, Alike, Fields
    <3>3. CASE e.quit
      BY <1>5, <1>9, <3>3 DEF Typed, Alike, KbdQuit, Fields
    <3> QED
      BY <3>1, <3>2, <3>3
  <2>2. Base(ed') /\ Top(ed') = Top(e)
    BY <1>5, <2>1, AlikeBase
  <2> QED
    BY <1>1, <2>1, <2>2 DEF Sound, Placed
<1>10. \/ ed' = [e EXCEPT !.keys = ks]
       \/ ks \in DOMAIN Keymap /\ ed' = Interpreted(f, Keymap[ks])
       \/ /\ ks \in DOMAIN Keymap /\ e.repeat # None
          /\ ed' = [Pushed(f, [Frame("repeat") EXCEPT !.cmd = Keymap[ks], !.n = e.repeat])
                      EXCEPT !.at = "loop"]
       \/ ed' = LET g == IF ~e.exe /\ ~e.quit THEN Flushed(f) ELSE f
                IN [(IF e.quit THEN KbdQuit(g) ELSE g) EXCEPT !.at = "ret"]
  BY DEF ToSequence, Interpret, ks, f
<1> QED
  BY <1>6, <1>7, <1>8, <1>9, <1>10

LEMMA DigitsSound ==
  ASSUME NEW e, Sound(e), e.at = "digits", NEW k, NEW ch, Welcome(e, ch), ToDigits(e, k, ch)
  PROVE  Sound(ed')
<1>1. Typed(e) /\ Base(e) /\ Top(e).fn = "digit" /\ Stacked(e.stack)
  BY DEF Sound, Base, Placed
<1>2. CASE ch \in DOMAIN Digits
  <2> DEFINE d == OneMore(e.n, Digits[ch])
  <2>1. d \in Count
    <3>1. Digits[ch] \in Nat
      BY <1>2, KeysAssumption
    <3> QED
      BY <1>1, <3>1 DEF Typed, OneMore, Count
  <2> HIDE DEF d
  <2>2. ed' = [e EXCEPT !.n = d]
    BY <1>2 DEF ToDigits, d
  <2>3. Alike(e, ed') /\ ed'.at = e.at
    BY <1>1, <2>1, <2>2 DEF Typed, Alike, Fields
  <2> QED
    BY <2>3, AlikeSound
<1>3. CASE ch \notin DOMAIN Digits
  <2> DEFINE u == Ungetkey(e, ch)
             f == [u EXCEPT !.repeat = Number(e.n), !.diff = IF @ > 0 THEN @ - 1 ELSE 0]
             g == IF e.exe \/ e.def THEN [f EXCEPT !.ptr = @ - 1] ELSE f
  <2>1. Alike(e, u) /\ Base(u) /\ Typed(u)
    BY <1>1, UngetAlike, AlikeBase DEF Base
  <2>2. Number(e.n) \in Count
    BY <1>1 DEF Typed, Number, Count
  <2>3. ed' = Ready(g)
    BY <1>3 DEF ToDigits
  <2> HIDE DEF u
  <2>4. /\ DOMAIN g = Fields /\ g.keys = u.keys /\ g.n = u.n /\ g.stack = e.stack /\ g.str = e.str
        /\ g.repeat = Number(e.n) /\ g.mac = e.mac /\ g.max = e.max /\ g.def = e.def
        /\ g.exe = e.exe /\ g.saved = e.saved /\ g.illegal = e.illegal
        /\ g.ptr = IF e.exe \/ e.def THEN e.ptr - 1 ELSE e.ptr
    BY <2>1 DEF Typed, Alike, Fields
  <2> HIDE DEF g
  <2>5. Typed(g)
    BY <2>1, <2>2, <2>4 DEF Alike, Typed
  <2>6. Top(g) = Top(e) /\ Top(e) = e.stack[Len(e.stack)]
    BY <1>1, <2>4, TopIs DEF Top
  <2>7. Held(g)
    BY <1>1, <2>4, <2>6 DEF Held, Counts
  <2>8. Flags(g)
    BY <1>1, <2>4 DEF Base, Flags, Within
  <2>9. ASSUME NoCountStrings
        PROVE  Bounded(g) /\ Spared(g.stack, g.str)
    <3>1. Bounded(e) /\ (e.exe \/ e.def => e.ptr >= 1)
      BY <1>1, <2>9 DEF Base, Welcome
    <3>2. Len(e.mac) \in Nat
      BY <3>1 DEF Bounded, IsSequence
    <3>3. Bounded(g)
      BY <2>4, <3>1, <3>2 DEF Bounded, Within
    <3> QED
      BY <1>1, <2>4, <2>9, <3>3 DEF Base
  <2>10. Base(g) /\ Top(g).fn = "digit"
    BY <1>1, <2>4, <2>5, <2>6, <2>7, <2>8, <2>9 DEF Base
  <2> QED
    BY <2>3, <2>10, FreshSound
<1> QED
  BY <1>2, <1>3

LEMMA QuestionSound ==
  ASSUME NEW e, Sound(e), e.at = "answer", NEW k, ToQuestion(e, k)
  PROVE  Sound(ed')
<1> DEFINE d == IF Top(e).n = 1 THEN Resumed(e) ELSE e
           f == Popped(d)
<1>1. Base(e) /\ Top(e).fn = "ask"
  BY DEF Sound, Placed
<1>2. Base(d) /\ Top(d) = Top(e) /\ d.repeat = e.repeat /\ d.stack = e.stack
  <2>1. Flagged(e, Resumed(e))
    BY <1>1, ResumedFlagged
  <2>2. Base(Resumed(e)) /\ Top(Resumed(e)) = Top(e)
    BY <1>1, <2>1, FlaggedBase
  <2>3. Resumed(e).repeat = e.repeat /\ Resumed(e).stack = e.stack
    BY <2>1 DEF Flagged
  <2> QED
    BY <1>1, <2>2, <2>3
<1>3. ed' = Back(f)
  BY DEF ToQuestion
<1> HIDE DEF d
<1>4. Typed(d) /\ Stacked(d.stack) /\ Top(d) = d.stack[Len(d.stack)]
  BY <1>2, TopIs DEF Base
<1>5. Counts(d.stack[Len(d.stack) - 1]) => d.repeat # None
  BY <1>1, <1>2, <1>4 DEF Base, Held
<1>6. Pops(d, f) /\ f.str = d.str /\ f.exe = d.exe /\ f.saved = d.saved /\ f.illegal = d.illegal
  BY <1>4, <1>5 DEF Typed, Pops, Popped, Fields
<1> HIDE DEF f
<1>7. Base(f) /\ Top(f).fn # "ask"
  BY <1>1, <1>2, <1>6, PopBase
<1> QED
  BY <1>3, <1>7, BackSound

LEMMA DeliverSound ==
  ASSUME NEW e, Sound(e), NEW k, NEW ch, Wanted(e), Welcome(e, ch), Deliver(e, k, ch)
  PROVE  Sound(ed')
<1>1. CASE e.at = "keys"
  BY <1>1, SequenceSound DEF Deliver
<1>2. CASE e.at = "digits"
  BY <1>2, DigitsSound DEF Deliver
<1>3. CASE e.at = "answer"
  BY <1>3, QuestionSound DEF Deliver
<1> QED
  BY <1>1, <1>2, <1>3 DEF Wanted
-----------------------------------------------------------------------------
(* The actions.                                                            *)

LEMMA StringKeySound ==
  ASSUME KeysInv, StringKey
  PROVE  KeysInv'
<1> DEFINE e == [ed EXCEPT !.str = Tail(@)]
           ch == Head(ed.str)
           s == ed.stack
<1>1. /\ Sound(ed) /\ Base(ed) /\ Typed(ed) /\ Stacked(s) /\ s \in Seq(Frames)
      /\ ed.str \in Seq(StringKeys) /\ ed.str # <<>>
  BY DEF KeysInv, Sound, Base, Typed, StringKey, FromString
<1>2. Tail(ed.str) \in Seq(StringKeys) /\ ch \in StringKeys
  BY <1>1
<1>3. /\ DOMAIN e = Fields /\ e.keys = ed.keys /\ e.n = ed.n /\ e.stack = s /\ e.str = Tail(ed.str)
      /\ e.repeat = ed.repeat /\ e.mac = ed.mac /\ e.ptr = ed.ptr /\ e.max = ed.max
      /\ e.def = ed.def /\ e.exe = ed.exe /\ e.saved = ed.saved /\ e.illegal = ed.illegal
      /\ e.at = ed.at /\ e.exited = ed.exited
  BY <1>1 DEF Typed, Fields
<1>4. Deliver(e, kbd, ch) /\ Wanted(e)
  BY <1>3 DEF StringKey, Wanted
<1> HIDE DEF e, ch
<1>5. Typed(e)
  BY <1>1, <1>2, <1>3 DEF Typed
<1>6. Stacked(e.stack) /\ Held(e) /\ Flags(e) /\ Top(e) = Top(ed)
  BY <1>1, <1>3 DEF Base, Held, Flags, Within, Top
<1>7. NoCountStrings => Bounded(e) /\ Spared(e.stack, e.str)
  <2>1. NoCountStrings => Bounded(e)
    BY <1>1, <1>3 DEF Base, Bounded, Within
  <2>2. NoCountStrings => Spared(e.stack, e.str)
    BY <1>1, <1>3, ReadSpared DEF Base
  <2> QED
    BY <2>1, <2>2
<1>8. NoCountStrings => e.at # "digits"
  BY <1>1, <1>3 DEF Sound, Placed
<1>9. Sound(e)
  <2>1. Base(e)
    BY <1>5, <1>6, <1>7 DEF Base
  <2>2. Placed(e)
    BY <1>1, <1>3, <1>6, <1>8 DEF Sound, Placed
  <2> QED
    BY <2>1, <2>2 DEF Sound
<1>10. ASSUME NoCountStrings, NEW k \in DOMAIN Keymap, Keymap[k] = "digit", Last(k) = ch
       PROVE  FALSE
  BY <1>2, <1>10 DEF NoCountStrings, StringKeys
<1>11. Welcome(e, ch)
  BY <1>8, <1>10 DEF Welcome
<1> QED
  BY <1>4, <1>9, <1>11, DeliverSound DEF KeysInv

LEMMA MacroKeySound ==
  ASSUME KeysInv, MacroKey
  PROVE  KeysInv'
<1> DEFINE e == [ed EXCEPT !.ptr = @ + 1]
           ch == ed.mac[ed.ptr + 1]
<1>1. /\ Sound(ed) /\ Base(ed) /\ Typed(ed) /\ ed.str = <<>> /\ ed.exe /\ ed.ptr < ed.max
  BY DEF KeysInv, Sound, Base, MacroKey, FromMacro
<1>2. /\ DOMAIN e = Fields /\ e.keys = ed.keys /\ e.n = ed.n /\ e.stack = ed.stack /\ e.str = ed.str
      /\ e.repeat = ed.repeat /\ e.mac = ed.mac /\ e.ptr = ed.ptr + 1 /\ e.max = ed.max
      /\ e.def = ed.def /\ e.exe = ed.exe /\ e.saved = ed.saved /\ e.illegal = ed.illegal
      /\ e.at = ed.at /\ e.exited = ed.exited
  BY <1>1 DEF Typed, Fields
<1>3. Deliver(e, kbd, ch) /\ Wanted(e)
  BY <1>2 DEF MacroKey, Wanted
<1> HIDE DEF e, ch
<1>4. Typed(e)
  BY <1>1, <1>2 DEF Typed
<1>5. Stacked(e.stack) /\ Held(e) /\ Flags(e) /\ Top(e) = Top(ed)
  BY <1>1, <1>2 DEF Base, Held, Flags, Within, Top
<1>6. ASSUME NoCountStrings
      PROVE  Bounded(e) /\ Spared(e.stack, e.str) /\ e.ptr >= 1
  <2>1. Bounded(ed) /\ Spared(ed.stack, ed.str)
    BY <1>1, <1>6 DEF Base
  <2>2. Len(ed.mac) \in Nat
    BY <2>1 DEF Bounded, IsSequence
  <2>3. Bounded(e) /\ e.ptr >= 1
    BY <1>1, <1>2, <2>1, <2>2 DEF Bounded, Within
  <2> QED
    BY <1>2, <2>1, <2>3
<1>7. Sound(e)
  <2>1. Base(e)
    BY <1>4, <1>5, <1>6 DEF Base
  <2>2. Placed(e)
    BY <1>1, <1>2, <1>5 DEF Sound, Placed
  <2> QED
    BY <2>1, <2>2 DEF Sound
<1>8. Welcome(e, ch)
  BY <1>1, <1>2, <1>6 DEF Welcome
<1> QED
  BY <1>3, <1>7, <1>8, DeliverSound DEF KeysInv

LEMMA KeySound ==
  ASSUME KeysInv, Key
  PROVE  KeysInv'
<1> DEFINE d == [ed EXCEPT !.exe = FALSE]
           r == MyGetkey(d, kbd)
           m == Stored(r.ed, r.ch)
           e == Echoed(m)
<1>1. /\ Sound(ed) /\ Base(ed) /\ Typed(ed) /\ Wanted(ed)
      /\ FromKeyboard(ed)
  BY DEF KeysInv, Sound, Base, Key
<1>2. Flagged(ed, d) /\ d.at = ed.at /\ d.exe = FALSE /\ d.exited = ed.exited /\ d.str = ed.str
      /\ d.stack = ed.stack
  BY <1>1 DEF Typed, Flagged, Fields
<1>3. Deliver(e, r.kbd, r.ch)
  BY DEF Key
<1>4. ed.str = <<>>
  BY <1>1 DEF FromKeyboard, FromString
<1> HIDE DEF d
<1>5. Base(d) /\ Top(d) = Top(ed) /\ Typed(d)
  BY <1>1, <1>2, FlaggedBase DEF Base
<1>6. Alike(d, r.ed) /\ r.ed.at = d.at
  BY <1>5, GetkeyAlike
<1>7. r.ed.exited = d.exited
  BY <1>5 DEF MyGetkey, Typed, Fields
<1>8. Base(r.ed) /\ Top(r.ed) = Top(ed) /\ r.ed.exe = FALSE /\ r.ed.str = <<>> /\ r.ed.stack = ed.stack
  BY <1>2, <1>4, <1>5, <1>6, AlikeBase DEF Alike
<1> HIDE DEF r
<1>9. /\ Base(m) /\ m.stack = ed.stack /\ m.str = <<>> /\ m.at = ed.at /\ m.exe = FALSE
      /\ NoCountStrings /\ m.def => m.ptr >= 1
  BY <1>2, <1>6, <1>8, StoredBase
<1>10. m.exited = ed.exited
  BY <1>2, <1>7, <1>8 DEF Stored, Failed, Base, Typed, Fields
<1> HIDE DEF m
<1>11. Alike(m, e) /\ e.at = m.at /\ e.exited = m.exited
  BY <1>9 DEF Base, Typed, Alike, Echoed, Fields
<1> HIDE DEF e
<1>12. Base(e) /\ Top(e) = Top(m) /\ Top(m) = Top(ed)
  BY <1>9, <1>11, AlikeBase DEF Top
<1>13. Wanted(e)
  BY <1>1, <1>9, <1>10, <1>11 DEF Wanted
<1>14. Placed(e)
  BY <1>1, <1>9, <1>11, <1>12 DEF Sound, Placed, Alike
<1>15. Welcome(e, r.ch)
  BY <1>9, <1>11 DEF Welcome, Alike
<1> QED
  BY <1>3, <1>12, <1>13, <1>14, <1>15, DeliverSound DEF KeysInv, Sound

LEMMA InputPendingSound ==
  ASSUME KeysInv, InputPending
  PROVE  KeysInv'
<1> DEFINE r == MyGetkey(ed, kbd)
<1>1. Sound(ed) /\ Typed(ed)
  BY DEF KeysInv, Sound, Base
<1>2. ed' = Ungetkey(r.ed, r.ch)
  BY DEF InputPending
<1>3. Alike(ed, r.ed) /\ r.ed.at = ed.at
  BY <1>1, GetkeyAlike
<1> HIDE DEF r
<1>4. Sound(r.ed) /\ Typed(r.ed)
  BY <1>1, <1>3, AlikeSound DEF Sound, Base
<1> QED
  BY <1>2, <1>4, UngetAlike, AlikeSound DEF KeysInv

LEMMA ReturnSound ==
  ASSUME KeysInv, Return
  PROVE  KeysInv'
<1> DEFINE f == IF ed.err THEN [Aborted(ed) EXCEPT !.str = <<>>, !.repeat = None] ELSE ed
<1>1. /\ Sound(ed) /\ Base(ed) /\ Typed(ed) /\ Top(ed).fn \notin {"ask", "repeat"}
  BY DEF KeysInv, Sound, Base, Placed, Return
<1>2. Base(f) /\ Top(f) = Top(ed)
  <2>1. CASE ed.err
    <3> DEFINE a == Aborted(ed)
               b == [a EXCEPT !.repeat = None]
    <3>1. Base(a) /\ Top(a) = Top(ed) /\ Typed(a)
      BY <1>1, ResumedFlagged, FlaggedBase DEF Base
    <3> HIDE DEF a
    <3>2. Base(b) /\ Top(b) = Top(ed) /\ Typed(b) /\ Stacked(b.stack) /\ b.stack \in Seq(Frames)
      BY <1>1, <3>1, UncountedBase DEF Base, Typed, Counts
    <3>3. f = [a EXCEPT !.str = <<>>, !.repeat = None]
      BY <2>1 DEF a
    <3> HIDE DEF f
    <3>4. /\ DOMAIN f = Fields /\ f.keys = b.keys /\ f.n = b.n /\ f.stack = b.stack /\ f.str = <<>>
          /\ f.repeat = b.repeat /\ f.mac = b.mac /\ f.ptr = b.ptr /\ f.max = b.max
          /\ f.def = b.def /\ f.exe = b.exe /\ f.saved = b.saved /\ f.illegal = b.illegal
      BY <3>1, <3>3 DEF Typed, Fields
    <3> HIDE DEF b
    <3>5. Typed(f)
      BY <3>2, <3>4 DEF Typed
    <3>6. Stacked(f.stack) /\ Held(f) /\ Flags(f) /\ Top(f) = Top(ed)
      BY <3>2, <3>4 DEF Base, Held, Flags, Within, Top
    <3>7. NoCountStrings => Bounded(f)
      BY <3>2, <3>4 DEF Base, Bounded, Within
    <3>8. NoCountStrings => Spared(f.stack, f.str)
      BY <3>2, <3>4, ReadSpared DEF Base
    <3> QED
      BY <3>5, <3>6, <3>7, <3>8 DEF Base
  <2>2. CASE ~ed.err
    BY <1>1, <2>2
  <2> QED
    BY <2>1, <2>2
<1>3. ed' = IF Top(f).fn = "digit" THEN Back(Popped(f)) ELSE [f EXCEPT !.at = "loop"]
  BY DEF Return
<1> HIDE DEF f
<1>4. Typed(f) /\ Stacked(f.stack) /\ f.stack \in Seq(Frames)
  BY <1>2 DEF Base, Typed
<1>5. CASE Top(f).fn = "digit"
  <2> DEFINE g == Popped(f)
  <2>1. Len(f.stack) > 1 /\ Top(f) = f.stack[Len(f.stack)]
    BY <1>4, <1>5, TopIs
  <2>2. ~Counts(f.stack[Len(f.stack) - 1])
    BY <1>4, <1>5, <2>1, PopCounts
  <2>3. Pops(f, g) /\ g.str = f.str /\ g.exe = f.exe /\ g.saved = f.saved /\ g.illegal = f.illegal
    BY <1>4, <2>2 DEF Typed, Pops, Popped, Fields
  <2> HIDE DEF g
  <2>4. Base(g) /\ Top(g).fn # "ask"
    BY <1>2, <1>5, <2>3, PopBase
  <2>5. Sound(Back(g))
    BY <2>4, BackSound
  <2> QED
    BY <1>3, <1>5, <2>5 DEF KeysInv, g
<1>6. CASE Top(f).fn # "digit"
  <2>1. Alike(f, ed') /\ ed'.at = "loop"
    BY <1>3, <1>4, <1>6 DEF Typed, Alike, Fields
  <2>2. Base(ed') /\ Top(ed') = Top(f)
    BY <1>2, <2>1, AlikeBase
  <2> QED
    BY <1>1, <1>2, <1>6, <2>1, <2>2 DEF KeysInv, Sound, Placed
<1> QED
  BY <1>5, <1>6

LEMMA ToldAlike ==
  ASSUME NEW e, Typed(e)
  PROVE  Alike(e, Told(e))
<1>1. CASE e.msg
  BY <1>1 DEF Typed, Alike, Told, Flushed, Fields
<1>2. CASE ~e.msg
  BY <1>2 DEF Typed, Alike, Told, Fields
<1> QED
  BY <1>1, <1>2

LEMMA MainLoopSound ==
  ASSUME KeysInv, MainLoop
  PROVE  KeysInv'
<1> DEFINE t == Told(ed)
           f == [t EXCEPT !.quit = FALSE]
<1>1. Base(ed) /\ Typed(ed) /\ Top(ed).fn = "jed" /\ ed' = DoJed(f)
  BY DEF KeysInv, Sound, Base, MainLoop, Loop
<1>2. Base(t) /\ Top(t) = Top(ed) /\ Typed(t)
  BY <1>1, ToldAlike, AlikeBase DEF Base
<1> HIDE DEF t
<1>3. Alike(t, f)
  BY <1>2 DEF Typed, Alike, Fields
<1> HIDE DEF f
<1>4. Base(f) /\ Top(f).fn = "jed"
  BY <1>1, <1>2, <1>3, AlikeBase
<1> QED
  BY <1>1, <1>4, DoJedSound DEF KeysInv

LEMMA MiniLoopSound ==
  ASSUME KeysInv, MiniLoop
  PROVE  KeysInv'
<1>1. /\ Base(ed) /\ Typed(ed) /\ Top(ed).fn = "mini"
      /\ ed' \in {MiniDone(ed), MiniDone(Told(ed)), DoJed(Told(ed))}
  BY DEF KeysInv, Sound, Base, MiniLoop, Loop
<1>2. Base(Told(ed)) /\ Top(Told(ed)).fn = "mini"
  BY <1>1, ToldAlike, AlikeBase
<1>3. Sound(MiniDone(ed)) /\ Sound(MiniDone(Told(ed))) /\ Sound(DoJed(Told(ed)))
  BY <1>1, <1>2, MiniDoneSound, DoJedSound
<1> QED
  BY <1>1, <1>3 DEF KeysInv

LEMMA ExecLoopSound ==
  ASSUME KeysInv, ExecLoop
  PROVE  KeysInv'
<1>1. Base(ed) /\ Top(ed).fn = "exec" /\ ed' \in {DoJed(ed), ExecDone(ed)}
  BY DEF KeysInv, Sound, ExecLoop, Loop
<1>2. Sound(DoJed(ed)) /\ Sound(ExecDone(ed))
  BY <1>1, DoJedSound, ExecDoneSound
<1> QED
  BY <1>1, <1>2 DEF KeysInv

(* One turn less for the innermost loop.                                   *)
LEMMA CountDownBase ==
  ASSUME NEW e, Base(e), Top(e).n > 0, NEW f, DOMAIN f = Fields,
         LET i == Len(e.stack) IN f.stack = [e.stack EXCEPT ![i].n = @ - 1],
         f.str \in Seq(StringKeys), f.str = e.str \/ Top(e).fn = "string",
         f.keys = e.keys, f.n = e.n, f.repeat = e.repeat, f.mac = e.mac, f.ptr = e.ptr,
         f.max = e.max, f.def = e.def, f.exe = e.exe, f.saved = e.saved, f.illegal = e.illegal
  PROVE  Base(f) /\ Top(f).fn = Top(e).fn /\ Top(f).cmd = Top(e).cmd
<1> DEFINE s == e.stack
           t == f.stack
           n == Len(s)
<1>1. Typed(e) /\ Stacked(s) /\ s \in Seq(Frames) /\ n \in Nat \ {0} /\ DOMAIN s = 1..n
      /\ Top(e) = s[n] /\ Top(e) \in Frames
  BY TopIs DEF Base, Typed
<1>2. t = [s EXCEPT ![n] = [s[n] EXCEPT !.n = s[n].n - 1]]
  BY <1>1
<1>3. /\ [s[n] EXCEPT !.n = s[n].n - 1] \in Frames
      /\ LET u == [s[n] EXCEPT !.n = s[n].n - 1]
         IN u.fn = s[n].fn /\ u.cmd = s[n].cmd /\ u.rf = s[n].rf /\ u.rest = s[n].rest
  <2>1. PICK x \in Frames : x = s[n] /\ x.n > 0
    BY <1>1
  <2> DEFINE u == [x EXCEPT !.n = x.n - 1]
  <2>2. x.n - 1 \in Nat
    BY <2>1 DEF Frames
  <2>3. u \in Frames /\ u.fn = x.fn /\ u.cmd = x.cmd /\ u.rf = x.rf /\ u.rest = x.rest
    BY ONLY x \in Frames, <2>2 DEF Frames
  <2> QED
    BY ONLY <2>1, <2>3
<1>4. /\ t \in Seq(Frames) /\ Len(t) = n /\ DOMAIN t = 1..n
      /\ \A i \in 1..n : /\ t[i].fn = s[i].fn /\ t[i].cmd = s[i].cmd
                         /\ t[i].rf = s[i].rf /\ t[i].rest = s[i].rest
  BY <1>1, <1>2, <1>3
<1>5. \A i \in 1..n : Counts(t[i]) <=> Counts(s[i])
  BY <1>4 DEF Counts
<1> HIDE DEF s, t, n
<1>6. Top(f).fn = Top(e).fn /\ Top(f).cmd = Top(e).cmd
  <2>1. Top(f) = t[n]
    BY ONLY <1>4 DEF Top, Last, t
  <2> QED
    BY ONLY <1>1, <1>4, <2>1
<1>7. Typed(f)
  BY <1>1, <1>4 DEF Typed, t
<1>8. Stacked(t)
  <2>1. t # <<>> /\ t[1].fn = "jed" /\ \A i \in DOMAIN t : i # 1 => t[i].fn # "jed"
    <3>1. s[1].fn = "jed" /\ \A i \in DOMAIN s : i # 1 => s[i].fn # "jed"
      BY <1>1 DEF Stacked
    <3>2. 1 \in 1..n
      BY <1>1
    <3> QED
      BY ONLY <1>1, <1>4, <3>1, <3>2
  <2>2. \A i, j \in DOMAIN t : t[i].fn = t[j].fn /\ t[i].fn \in {"exec", "mini"} => i = j
    BY <1>1, <1>4 DEF Stacked
  <2>3. \A i \in DOMAIN t : i # Len(t) => t[i].fn # "ask"
    BY <1>1, <1>4 DEF Stacked, n
  <2>4. \A i \in 1..n : i # n => i + 1 \in 1..n
    BY <1>1
  <2>5. \A i \in DOMAIN s : i # n /\ Counts(s[i]) =>
          s[i + 1].fn = "ask" \/ (s[i + 1].fn \in {"exec", "mini"} /\ s[i + 1].rf # None)
    BY <1>1 DEF Stacked, n
  <2>6. \A i \in DOMAIN t : i # Len(t) /\ Counts(t[i]) =>
          t[i + 1].fn = "ask" \/ (t[i + 1].fn \in {"exec", "mini"} /\ t[i + 1].rf # None)
    BY <1>1, <1>4, <1>5, <2>4, <2>5
  <2>7. \A i \in DOMAIN s : i # n /\ s[i].fn = "repeat" => s[i + 1].fn # "repeat"
    BY <1>1 DEF Stacked, n
  <2>8. \A i \in DOMAIN t : i # Len(t) /\ t[i].fn = "repeat" => t[i + 1].fn # "repeat"
    BY <1>1, <1>4, <2>4, <2>7
  <2>9. \A i \in DOMAIN t : /\ t[i].fn = "string" => t[i].cmd \in DOMAIN Strings
                            /\ t[i].fn = "repeat" => t[i].cmd \in Commands
    BY <1>1, <1>4 DEF Stacked
  <2> QED
    BY ONLY <2>1, <2>2, <2>3, <2>6, <2>8, <2>9 DEF Stacked
<1>9. Held(f)
  <2>1. Counts(s[n]) => e.repeat # None
    BY DEF Base, Held, s, n
  <2>2. t[n].fn = "ask" /\ Counts(t[n - 1]) => e.repeat # None
    <3>1. SUFFICES ASSUME t[n].fn = "ask", Counts(t[n - 1])
                   PROVE  e.repeat # None
      OBVIOUS
    <3>2. n - 1 \in 1..n
      BY <1>1, <1>4, <3>1 DEF Stacked
    <3>3. s[n].fn = "ask" /\ Counts(s[n - 1]) => e.repeat # None
      BY DEF Base, Held, s, n
    <3> QED
      BY <1>1, <1>4, <1>5, <3>1, <3>2, <3>3
  <2> QED
    BY <1>1, <1>4, <1>5, <2>1, <2>2 DEF Held, t
<1>10. Within(f, "exec") <=> Within(e, "exec")
  BY <1>1, <1>4 DEF Within, s, t
<1>11. Flags(f)
  BY <1>10 DEF Base, Flags
<1>12. NoCountStrings => Bounded(f)
  BY <1>10 DEF Base, Bounded
<1>13. ASSUME NoCountStrings
       PROVE  Spared(t, f.str)
  <2>1. Spared(s, e.str)
    BY <1>13 DEF Base, s
  <2>2. Spared(s, f.str)
    <3>1. CASE f.str = e.str
      BY <2>1, <3>1
    <3>2. CASE Top(e).fn = "string"
      BY <1>1, <2>1, <3>2, ReadSpared DEF n
    <3> QED
      BY <3>1, <3>2
  <2>3. DOMAIN t = DOMAIN s /\ \A i \in DOMAIN s : t[i].fn = s[i].fn /\ t[i].cmd = s[i].cmd
                                                  /\ t[i].rest = s[i].rest
    BY <1>1, <1>4
  <2> SUFFICES ASSUME NEW i \in DOMAIN s, s[i].fn = "repeat" /\ s[i].cmd = "digit"
               PROVE  /\ (\A j \in DOMAIN s : j > i => t[j].fn # "string") => f.str = <<>>
                      /\ \A j \in DOMAIN s :
                           /\ j > i /\ t[j].fn = "string"
                           /\ \A k \in DOMAIN s : i < k /\ k < j => t[k].fn # "string"
                           => t[j].rest = <<>>
    BY <2>3 DEF Spared
  <2>4. (\A j \in DOMAIN s : j > i => t[j].fn # "string") => f.str = <<>>
    BY <2>2, <2>3 DEF Spared
  <2>5. ASSUME NEW j \in DOMAIN s, j > i, t[j].fn = "string",
               \A k \in DOMAIN s : i < k /\ k < j => t[k].fn # "string"
        PROVE  t[j].rest = <<>>
    BY <2>2, <2>3, <2>5 DEF Spared
  <2> QED
    BY <2>4, <2>5
<1> QED
  BY <1>6, <1>7, <1>8, <1>9, <1>11, <1>12, <1>13 DEF Base, t

LEMMA StringLoopSound ==
  ASSUME KeysInv, StringLoop
  PROVE  KeysInv'
<1> DEFINE i == Len(ed.stack)
<1>1. Base(ed) /\ Typed(ed) /\ Top(ed).fn = "string" /\ ed.at = "loop" /\ Placed(ed)
  BY DEF KeysInv, Sound, Base, StringLoop, Loop
<1>2. CASE ed' = Fresh(ed)
  BY <1>1, <1>2, FreshSound DEF KeysInv
<1>3. CASE ed' = StringDone(ed)
  BY <1>1, <1>3, StringDoneSound DEF KeysInv
<1>4. CASE Top(ed).n > 0 /\ ed' = [ed EXCEPT !.stack[i].n = @ - 1, !.str = Strings[Top(ed).cmd]]
  <2>1. Top(ed).cmd \in DOMAIN Strings
    <3>1. Stacked(ed.stack) /\ i \in DOMAIN ed.stack /\ Top(ed) = ed.stack[i]
      BY <1>1, TopIs DEF Base
    <3> QED
      BY <1>1, <3>1 DEF Stacked
  <2>2. Strings[Top(ed).cmd] \in Seq(StringKeys)
    <3> DEFINE c == Top(ed).cmd
    <3>1. Strings[c] \in Seq(STRING) /\ \A j \in DOMAIN Strings[c] : Strings[c][j] \in StringKeys
      BY <2>1, KeysAssumption DEF StringKeys, Range
    <3> QED
      BY <3>1
  <2>3. /\ DOMAIN ed' = Fields /\ ed'.stack = [ed.stack EXCEPT ![i].n = @ - 1]
        /\ ed'.str = Strings[Top(ed).cmd] /\ ed'.at = "loop"
        /\ ed'.keys = ed.keys /\ ed'.n = ed.n /\ ed'.repeat = ed.repeat /\ ed'.mac = ed.mac
        /\ ed'.ptr = ed.ptr /\ ed'.max = ed.max /\ ed'.def = ed.def /\ ed'.exe = ed.exe
        /\ ed'.saved = ed.saved /\ ed'.illegal = ed.illegal
    BY <1>1, <1>4 DEF Typed, Fields
  <2>4. Base(ed') /\ Top(ed').fn = "string"
    BY <1>1, <1>4, <2>2, <2>3, CountDownBase
  <2> QED
    BY <2>3, <2>4 DEF KeysInv, Sound, Placed
<1> QED
  BY <1>2, <1>3, <1>4 DEF StringLoop

LEMMA RepeatLoopSound ==
  ASSUME KeysInv, RepeatLoop
  PROVE  KeysInv'
<1> DEFINE i == Len(ed.stack)
           s == ed.stack
<1>1. /\ Base(ed) /\ Typed(ed) /\ Top(ed).fn = "repeat" /\ Stacked(s) /\ s \in Seq(Frames)
      /\ Top(ed) = s[i] /\ i \in DOMAIN s /\ i > 1 /\ DOMAIN s = 1..i /\ i \in Nat
  BY TopIs DEF KeysInv, Sound, Base, Typed, RepeatLoop, Loop
<1>2. ASSUME Top(ed).n > 0,
             Interpret([ed EXCEPT !.stack[i].n = @ - 1], Top(ed).cmd)
      PROVE  KeysInv'
  <2> DEFINE c == Top(ed).cmd
             f == [ed EXCEPT !.stack[i].n = @ - 1]
  <2>1. c \in Commands
    BY <1>1 DEF Stacked
  <2>2. /\ DOMAIN f = Fields /\ f.stack = [s EXCEPT ![i].n = @ - 1] /\ f.str = ed.str
        /\ f.keys = ed.keys /\ f.n = ed.n /\ f.repeat = ed.repeat /\ f.mac = ed.mac
        /\ f.ptr = ed.ptr /\ f.max = ed.max /\ f.def = ed.def /\ f.exe = ed.exe
        /\ f.saved = ed.saved /\ f.illegal = ed.illegal
    BY <1>1 DEF Typed, Fields
  <2>3. ed' = Interpreted(f, c)
    BY <1>2 DEF Interpret
  <2> HIDE DEF f
  <2>4. ed.str \in Seq(StringKeys)
    BY <1>1 DEF Typed
  <2>5. Base(f) /\ Top(f).fn = "repeat" /\ Top(f).cmd = c
    BY <1>1, <1>2, <2>2, <2>4, CountDownBase
  <2>6. NoCountStrings => (c = "digit" => f.str = <<>>)
    BY <1>1, <2>2 DEF Base, Spared
  <2> HIDE DEF c
  <2>7. Sound(Interpreted(f, c))
    BY <2>1, <2>5, <2>6, InterpretedSound
  <2> QED
    BY <2>3, <2>7 DEF KeysInv
<1>3. ASSUME ed' = [Popped(ed) EXCEPT !.repeat = None, !.at = "ret"]
      PROVE  KeysInv'
  <2>1. ~Counts(s[i - 1])
    BY <1>1, PopCounts
  <2>2. s[i - 1].fn # "repeat"
    <3>1. i - 1 \in DOMAIN s /\ i - 1 # Len(s) /\ (i - 1) + 1 = i
      BY <1>1
    <3>2. \A j \in DOMAIN s : j # Len(s) /\ s[j].fn = "repeat" => s[j + 1].fn # "repeat"
      BY <1>1 DEF Stacked
    <3> QED
      BY <1>1, <3>1, <3>2
  <2>3. /\ Pops(ed, ed') /\ ed'.str = ed.str /\ ed'.exe = ed.exe /\ ed'.saved = ed.saved
        /\ ed'.illegal = ed.illegal /\ ed'.at = "ret"
    BY <1>1, <1>3, <2>1 DEF Typed, Pops, Popped, Count, Fields
  <2>4. Base(ed') /\ Top(ed') = s[i - 1] /\ Top(ed').fn # "ask"
    BY <1>1, <2>3, PopBase
  <2> QED
    BY <2>2, <2>3, <2>4 DEF KeysInv, Sound, Placed
<1> QED
  BY <1>2, <1>3 DEF RepeatLoop

(* The signals and the terminal.                                           *)
LEMMA OutsideSound ==
  ASSUME KeysInv, Type \/ Sigint \/ Sighup \/ Exit \/ UNCHANGED vars
  PROVE  KeysInv'
<1>1. Sound(ed) /\ Typed(ed)
  BY DEF KeysInv, Sound, Base
<1>2. CASE Type \/ UNCHANGED vars
  BY <1>1, <1>2 DEF KeysInv, Type, vars
<1>3. CASE Sigint
  <2>1. Alike(ed, ed') /\ ed'.at = ed.at
    BY <1>1, <1>3 DEF Typed, Alike, Sigint, Fields
  <2> QED
    BY <1>1, <2>1, AlikeSound DEF KeysInv
<1>4. CASE Sighup
  <2>1. Alike(ed, ed') /\ ed'.at = ed.at
    BY <1>1, <1>4 DEF Typed, Alike, Sighup, Fields
  <2> QED
    BY <1>1, <2>1, AlikeSound DEF KeysInv
<1>5. CASE Exit
  <2>1. Alike(ed, ed') /\ ed'.at = ed.at
    BY <1>1, <1>5 DEF Typed, Alike, Exit, Fields
  <2> QED
    BY <1>1, <2>1, AlikeSound DEF KeysInv
<1> QED
  BY <1>2, <1>3, <1>4, <1>5
-----------------------------------------------------------------------------
(* The theorems.                                                           *)

LEMMA InitSound == Init => KeysInv
<1> SUFFICES ASSUME Init PROVE KeysInv
  OBVIOUS
<1> DEFINE t == Frame("jed")
<1>1. /\ DOMAIN ed = Fields /\ ed.str = <<>> /\ ed.mac = <<>> /\ ed.ptr = 0 /\ ed.max = 0
      /\ ed.def = FALSE /\ ed.exe = FALSE /\ ed.saved = [def |-> FALSE, exe |-> FALSE]
      /\ ed.illegal = FALSE /\ ed.repeat = None /\ ed.n = 0 /\ ed.keys = <<>>
      /\ ed.stack = <<t>> /\ ed.at = "loop"
  BY DEF Init, Start, Fields
<1>2. t \in Frames /\ t.fn = "jed"
  BY FrameType DEF Fns
<1> HIDE DEF t
<1>3. /\ ed.stack \in Seq(Frames) /\ Len(ed.stack) = 1 /\ DOMAIN ed.stack = {1} /\ ed.stack[1] = t
      /\ ed.stack # <<>>
  BY <1>1, <1>2
<1>4. Top(ed) = t
  BY <1>3 DEF Top, Last
<1>5. IsSequence(<<>>)
  BY <<>> \in Seq({}) DEF IsSequence
<1>6. Typed(ed)
  <2>1. ed.saved \in [def: BOOLEAN, exe: BOOLEAN]
    BY <1>1
  <2>2. ed.str \in Seq(StringKeys) /\ IsSequence(ed.keys)
    BY <1>1, <1>5
  <2>3. {ed.def, ed.exe, ed.illegal} \subseteq BOOLEAN
    BY <1>1
  <2>4. ed.repeat \in Count
    BY <1>1 DEF Count
  <2>5. ed.n \in Count
    BY <1>1 DEF Count
  <2> QED
    BY ONLY <1>1, <1>3, <2>1, <2>2, <2>3, <2>4, <2>5 DEF Typed
<1>7. Stacked(ed.stack)
  BY <1>2, <1>3 DEF Stacked, Counts
<1>8. Held(ed)
  BY <1>2, <1>3 DEF Held, Counts
<1>9. Flags(ed)
  BY <1>1, <1>2, <1>3 DEF Flags, Within
<1>10. Bounded(ed)
  <2>1. MacroSize \in Nat /\ Len(ed.mac) = 0
    BY <1>1, KeysAssumption
  <2> QED
    BY <1>1, <1>2, <1>3, <1>5, <2>1 DEF Bounded, Within
<1>11. Spared(ed.stack, ed.str)
  BY <1>2, <1>3 DEF Spared
<1>12. Placed(ed)
  BY <1>1, <1>2, <1>4 DEF Placed
<1> QED
  BY <1>6, <1>7, <1>8, <1>9, <1>10, <1>11, <1>12 DEF KeysInv, Sound, Base

LEMMA NextSound == KeysInv /\ [Next]_vars => KeysInv'
<1> SUFFICES ASSUME KeysInv, [Next]_vars PROVE KeysInv'
  OBVIOUS
<1> QED
  BY OutsideSound, StringKeySound, MacroKeySound, KeySound, InputPendingSound, ReturnSound,
     MainLoopSound, MiniLoopSound, ExecLoopSound, StringLoopSound, RepeatLoopSound
     DEF Next, Program, ExitWaiting, ExitPending

LEMMA KeysInvariant == Spec => []KeysInv
BY InitSound, NextSound, PTL DEF Spec

LEMMA SoundMacroState ==
  ASSUME NoCountStrings, KeysInv
  PROVE  MacroState
<1> DEFINE s == ed.stack
           R == {i \in DOMAIN s : s[i].fn \in {"exec", "mini"}}
<1>1. Typed(ed) /\ Stacked(s) /\ Flags(ed) /\ Bounded(ed)
  BY DEF KeysInv, Sound, Base
<1>2. Len(ed.mac) \in Nat /\ MacroSize \in Nat
  BY <1>1, KeysAssumption DEF Bounded, IsSequence
<1>3. ed.ptr \in 0..MacroSize /\ ed.max <= Len(ed.mac)
  BY <1>1, <1>2 DEF Bounded
<1>4. Cardinality(R) <= 2
  <2>1. \A i, j \in DOMAIN s : s[i].fn = s[j].fn /\ s[i].fn \in {"exec", "mini"} => i = j
    BY <1>1 DEF Stacked
  <2>2. \E a, b : R \subseteq {a, b}
    <3>1. PICK a : \A i \in R : s[i].fn = "exec" => i = a
      BY <2>1
    <3>2. PICK b : \A i \in R : s[i].fn = "mini" => i = b
      BY <2>1
    <3> QED
      BY <3>1, <3>2
  <2>3. PICK a, b : R \subseteq {a, b}
    BY <2>2
  <2>4. IsFiniteSet({a, b}) /\ Cardinality({a, b}) <= 2
    <3>1. IsFiniteSet({a}) /\ Cardinality({a}) = 1
      BY FS_Singleton
    <3>2. {a, b} = {a} \cup {b}
      OBVIOUS
    <3> QED
      BY <3>1, <3>2, FS_AddElement
  <2>5. Cardinality(R) <= Cardinality({a, b}) /\ Cardinality(R) \in Nat /\ Cardinality({a, b}) \in Nat
    BY <2>3, <2>4, FS_Subset, FS_CardinalityType
  <2> QED
    BY <2>4, <2>5
<1> QED
  BY <1>1, <1>3, <1>4 DEF MacroState, Flags, Bounded

(* Keyboard macros are played, defined and kept aside as MacroState says,  *)
(* and read within their bounds, in any nesting of macros, prompts,        *)
(* questions, key strings and counts (misc.c:81-128, 489-577).             *)
THEOREM KeysMacroState == ASSUME NoCountStrings PROVE Spec => []MacroState
BY KeysInvariant, SoundMacroState, PTL

(* do_key's loop finds the count that it works on, whatever the command    *)
(* did, unless that takes the count for itself (keymap.c:611-629).         *)
THEOREM KeysCountIsKept == Spec => []CountIsKept
<1>1. ASSUME KeysInv PROVE CountIsKept
  <2>1. Typed(ed) /\ Stacked(ed.stack) /\ Held(ed)
    BY <1>1 DEF KeysInv, Sound, Base
  <2>2. Top(ed) = ed.stack[Len(ed.stack)]
    BY <2>1, TopIs
  <2> QED
    BY <2>1, <2>2 DEF CountIsKept, Held, Counts, Own
<1> QED
  BY <1>1, KeysInvariant, PTL

-----------------------------------------------------------------------------
(* The characters of several keys.  Their number is induced on by a set.   *)

LEMMA SetInduction ==
  ASSUME NEW G, 0 \in G, \A n \in Nat : n \in G => n + 1 \in G
  PROVE  \A n \in Nat : n \in G
<1> DEFINE T == Nat \ G
           R == OpToRel(<, Nat)
<1> SUFFICES ASSUME T # {} PROVE FALSE
  OBVIOUS
<1>1. PICK x \in T : \A y \in T : ~(<<y, x>> \in R)
  BY NatLessThanWellFounded, WFMin
<1>2. x # 0 /\ x \in Nat
  BY <1>1
<1>3. x - 1 \in Nat /\ (x - 1) + 1 = x /\ x - 1 < x
  BY <1>2
<1>4. x - 1 \notin G
  BY <1>1, <1>3
<1>5. x - 1 \in T
  BY <1>3, <1>4
<1>6. <<x - 1, x>> \in R
  BY <1>2, <1>3 DEF OpToRel
<1> QED
  BY <1>1, <1>5, <1>6

Char == STRING

(* What a key is to a keymap.                                              *)
LEMMA SplitIs ==
  ASSUME NEW k \in Char
  PROVE  /\ Split(k) \in Seq(Char) /\ Split(k) # <<>> /\ Len(Split(k)) \in {1, 2}
         /\ \A i \in DOMAIN Split(k) : Split(k)[i] \in Char /\ Split(Split(k)[i]) = <<Split(k)[i]>>
<1>1. CASE k \in DOMAIN Meta
  <2>1. Split(k) = Meta[k]
    BY <1>1 DEF Split
  <2>2. Meta[k] \in Seq(STRING \ DOMAIN Meta) /\ Len(Meta[k]) = 2
    BY <1>1, KeysAssumption
  <2>3. /\ Meta[k] \in Seq(Char) /\ Meta[k] # <<>>
        /\ \A i \in DOMAIN Meta[k] : Meta[k][i] \in Char /\ Meta[k][i] \notin DOMAIN Meta
    <3> DEFINE S == STRING \ DOMAIN Meta
               m == Meta[k]
    <3>1. m \in Seq(S) /\ Len(m) = 2 /\ S \subseteq Char /\ \A x \in S : x \notin DOMAIN Meta
      BY <2>2 DEF Char
    <3> HIDE DEF S, m
    <3>2. m \in Seq(Char) /\ m # <<>> /\ \A i \in DOMAIN m : m[i] \in S
      BY ONLY <3>1
    <3> QED
      BY <3>1, <3>2 DEF m
  <2> QED
    BY <2>1, <2>2, <2>3 DEF Split
<1>2. CASE k \notin DOMAIN Meta
  <2>1. Split(k) = <<k>>
    BY <1>2 DEF Split
  <2>2. DOMAIN <<k>> = {1} /\ <<k>>[1] = k /\ <<k>> \in Seq(Char) /\ <<k>> # <<>> /\ Len(<<k>>) = 1
    OBVIOUS
  <2> QED
    BY <2>1, <2>2
<1> QED
  BY <1>1, <1>2

(* f adds up the characters of s.                                          *)
Adds(f, s) ==
  /\ f \in [0..Len(s) -> Seq(Char)] /\ f[0] = <<>>
  /\ \A n \in 1..Len(s) : f[n] = f[n - 1] \o Split(s[n])

LEMMA AddsExists ==
  ASSUME NEW s \in Seq(Char)
  PROVE  \E f : Adds(f, s)
<1> DEFINE P(n) == \E f \in [0..n -> Seq(Char)] :
                     f[0] = <<>> /\ \A i \in 1..n : f[i] = f[i - 1] \o Split(s[i])
           G == {n \in Nat : n <= Len(s) => P(n)}
<1>1. 0 \in G
  <2> DEFINE f == [i \in 0..0 |-> <<>>]
  <2>1. f \in [0..0 -> Seq(Char)] /\ f[0] = <<>>
    OBVIOUS
  <2> HIDE DEF f
  <2>2. \A i \in 1..0 : f[i] = f[i - 1] \o Split(s[i])
    OBVIOUS
  <2>3. P(0)
    BY <2>1, <2>2
  <2> HIDE DEF P
  <2> QED
    BY <2>3
<1>2. ASSUME NEW n \in Nat, n \in G PROVE n + 1 \in G
  <2> HIDE DEF P
  <2> SUFFICES ASSUME n + 1 <= Len(s) PROVE P(n + 1)
    OBVIOUS
  <2> USE DEF P
  <2>1. Len(s) \in Nat /\ n <= Len(s) /\ n + 1 \in 1..Len(s)
    OBVIOUS
  <2>2. P(n)
    BY <1>2, <2>1
  <2>3. PICK f \in [0..n -> Seq(Char)] :
          f[0] = <<>> /\ \A i \in 1..n : f[i] = f[i - 1] \o Split(s[i])
    BY <2>2
  <2>4. Split(s[n + 1]) \in Seq(Char)
    BY <2>1, SplitIs
  <2> DEFINE last == f[n] \o Split(s[n + 1])
             g == [i \in 0..(n + 1) |-> IF i = n + 1 THEN last ELSE f[i]]
  <2>5. last \in Seq(Char)
    BY <2>3, <2>4
  <2>6. g[n + 1] = last /\ \A i \in 0..n : g[i] = f[i]
    <3>1. n + 1 \in 0..(n + 1) /\ \A i \in 0..n : i \in 0..(n + 1) /\ i # n + 1
      BY ONLY n \in Nat
    <3> HIDE DEF last
    <3>2. g[n + 1] = last
      BY <3>1
    <3>3. ASSUME NEW i \in 0..n PROVE g[i] = f[i]
      <4>1. i \in 0..(n + 1) /\ i # n + 1
        BY <3>1
      <4> QED
        BY <4>1
    <3> QED
      BY <3>2, <3>3
  <2>7. g \in [0..(n + 1) -> Seq(Char)]
    <3> HIDE DEF last
    <3> QED
      BY <2>3, <2>5
  <2> HIDE DEF g
  <2>8. g[0] = <<>>
    BY <2>3, <2>6
  <2>9. ASSUME NEW i \in 1..(n + 1) PROVE g[i] = g[i - 1] \o Split(s[i])
    <3>1. CASE i = n + 1
      <4>1. i - 1 = n /\ n \in 0..n
        BY ONLY <3>1, n \in Nat
      <4> QED
        BY <2>6, <3>1, <4>1
    <3>2. CASE i # n + 1
      <4>1. i \in 1..n /\ i \in 0..n /\ i - 1 \in 0..n
        BY ONLY <3>2, n \in Nat, i \in 1..(n + 1)
      <4> QED
        BY <2>3, <2>6, <4>1
    <3> QED
      BY <3>1, <3>2
  <2> QED
    BY <2>7, <2>8, <2>9
<1> HIDE DEF P
<1>3. \A n \in Nat : n \in G
  <2> HIDE DEF G
  <2> QED
    BY <1>1, <1>2, SetInduction
<1>4. Len(s) \in Nat
  OBVIOUS
<1>5. P(Len(s))
  BY <1>3, <1>4
<1> QED
  BY <1>5 DEF P, Adds

LEMMA AddsUnique ==
  ASSUME NEW s \in Seq(Char), NEW f, NEW g, Adds(f, s), Adds(g, s)
  PROVE  f = g
<1> DEFINE G == {n \in Nat : n <= Len(s) => f[n] = g[n]}
<1>1. 0 \in G
  BY DEF Adds
<1>2. ASSUME NEW n \in Nat, n \in G PROVE n + 1 \in G
  <2> SUFFICES ASSUME n + 1 <= Len(s) PROVE f[n + 1] = g[n + 1]
    OBVIOUS
  <2>1. n <= Len(s) /\ n + 1 \in 1..Len(s) /\ (n + 1) - 1 = n
    OBVIOUS
  <2> QED
    BY <1>2, <2>1 DEF Adds
<1>3. \A n \in Nat : n \in G
  <2> HIDE DEF G
  <2> QED
    BY <1>1, <1>2, SetInduction
<1>4. Len(s) \in Nat /\ \A n \in 0..Len(s) : n \in Nat /\ n <= Len(s)
  OBVIOUS
<1>5. \A n \in 0..Len(s) : f[n] = g[n]
  BY <1>3, <1>4
<1> QED
  BY <1>5 DEF Adds

(* AllKeys is the whole of it.                                             *)
LEMMA AllKeysIs ==
  ASSUME NEW s \in Seq(Char), NEW f, Adds(f, s)
  PROVE  AllKeys(s) = f[Len(s)]
<1> DEFINE U(u) == u = [n \in 0..Len(s) |-> IF n = 0 THEN <<>> ELSE u[n - 1] \o Split(s[n])]
           u == CHOOSE u : U(u)
<1>1. AllKeys(s) = u[Len(s)]
  BY DEF AllKeys
<1>2. Len(s) \in Nat
  OBVIOUS
<1>3. U(f)
  <2>1. \A n \in 0..Len(s) : f[n] = IF n = 0 THEN <<>> ELSE f[n - 1] \o Split(s[n])
    <3>1. \A n \in 0..Len(s) : n = 0 \/ n \in 1..Len(s)
      BY <1>2
    <3> QED
      BY <3>1 DEF Adds
  <2> QED
    BY <2>1 DEF Adds
<1>4. U(u)
  <2> HIDE DEF U
  <2> QED
    BY <1>3
<1> HIDE DEF u
<1>5. DOMAIN u = 0..Len(s)
  BY <1>4
<1>6. \A n \in 0..Len(s) : u[n] = IF n = 0 THEN <<>> ELSE u[n - 1] \o Split(s[n])
  BY <1>4
<1> HIDE DEF U
<1> DEFINE G == {n \in Nat : n <= Len(s) => u[n] = f[n]}
<1>7. 0 \in G
  BY <1>2, <1>6 DEF Adds
<1>8. ASSUME NEW n \in Nat, n \in G PROVE n + 1 \in G
  <2> SUFFICES ASSUME n + 1 <= Len(s) PROVE u[n + 1] = f[n + 1]
    OBVIOUS
  <2>1. n <= Len(s) /\ n + 1 \in 1..Len(s) /\ n + 1 \in 0..Len(s) /\ (n + 1) - 1 = n /\ n + 1 # 0
    BY <1>2
  <2>2. u[n + 1] = u[n] \o Split(s[n + 1])
    BY <1>6, <2>1
  <2>3. f[n + 1] = f[n] \o Split(s[n + 1])
    BY <2>1 DEF Adds
  <2> QED
    BY <1>8, <2>1, <2>2, <2>3
<1>9. \A n \in Nat : n \in G
  <2> HIDE DEF G
  <2> QED
    BY <1>7, <1>8, SetInduction
<1> QED
  BY <1>1, <1>2, <1>9

LEMMA AllKeysType ==
  ASSUME NEW s \in Seq(Char)
  PROVE  AllKeys(s) \in Seq(Char)
<1>1. PICK f : Adds(f, s)
  BY AddsExists
<1>2. AllKeys(s) = f[Len(s)] /\ Len(s) \in 0..Len(s)
  BY <1>1, AllKeysIs
<1> QED
  BY <1>1, <1>2 DEF Adds

LEMMA AllKeysNone == AllKeys(<<>>) = <<>>
<1> DEFINE f == [n \in 0..0 |-> <<>>]
<1>1. <<>> \in Seq(Char) /\ Len(<<>>) = 0
  OBVIOUS
<1>2. f \in [0..0 -> Seq(Char)] /\ f[0] = <<>>
  OBVIOUS
<1> HIDE DEF f
<1>3. Adds(f, <<>>)
  BY <1>1, <1>2 DEF Adds
<1> QED
  BY <1>1, <1>2, <1>3, AllKeysIs

LEMMA AllKeysOne ==
  ASSUME NEW k \in Char
  PROVE  AllKeys(<<k>>) = Split(k)
<1> DEFINE f == [n \in 0..1 |-> IF n = 0 THEN <<>> ELSE Split(k)]
           s == <<k>>
<1>1. s \in Seq(Char) /\ Len(s) = 1 /\ s[1] = k
  OBVIOUS
<1>2. Split(k) \in Seq(Char) /\ <<>> \in Seq(Char)
  BY SplitIs
<1>3. f \in [0..1 -> Seq(Char)] /\ f[0] = <<>> /\ f[1] = Split(k)
  BY <1>2
<1> HIDE DEF f, s
<1>4. <<>> \o Split(k) = Split(k)
  BY <1>2, ConcatEmptySeq
<1>5. \A n \in 1..1 : f[n] = f[n - 1] \o Split(s[n])
  BY <1>1, <1>3, <1>4
<1>6. Adds(f, s)
  BY <1>1, <1>3, <1>5 DEF Adds
<1>7. AllKeys(s) = f[1]
  BY <1>1, <1>6, AllKeysIs
<1> QED
  BY <1>3, <1>7 DEF s

LEMMA AllKeysConcat ==
  ASSUME NEW s \in Seq(Char), NEW t \in Seq(Char)
  PROVE  AllKeys(s \o t) = AllKeys(s) \o AllKeys(t)
<1>1. PICK f : Adds(f, s)
  BY AddsExists
<1>2. PICK g : Adds(g, t)
  BY AddsExists
<1> DEFINE m == Len(s)
           n == Len(t)
           u == s \o t
           a == f[m]
           h == [i \in 0..(m + n) |-> IF i <= m THEN f[i] ELSE a \o g[i - m]]
<1>3. /\ m \in Nat /\ n \in Nat /\ u \in Seq(Char) /\ Len(u) = m + n
      /\ \A i \in 1..m : u[i] = s[i]
      /\ \A i \in 1..n : u[i + m] = t[i]
  OBVIOUS
<1>4. AllKeys(s) = a /\ AllKeys(t) = g[n]
  BY <1>1, <1>2, AllKeysIs
<1>5. /\ \A i \in 0..m : f[i] \in Seq(Char)
      /\ \A i \in 1..m : f[i] = f[i - 1] \o Split(s[i])
      /\ \A i \in 0..n : g[i] \in Seq(Char)
      /\ \A i \in 1..n : g[i] = g[i - 1] \o Split(t[i])
      /\ f[0] = <<>> /\ g[0] = <<>>
  BY <1>1, <1>2 DEF Adds
<1>6. a \in Seq(Char) /\ a \o <<>> = a
  <2>1. m \in 0..m
    BY ONLY <1>3
  <2>2. a \in Seq(Char)
    BY <1>5, <2>1
  <2> HIDE DEF a
  <2> QED
    BY <2>2, ConcatEmptySeq
<1>7. \A i \in 1..n : t[i] \in Char
  OBVIOUS
<1> HIDE DEF a, m, n, u
<1>8. \A i \in 0..(m + n) : h[i] = IF i <= m THEN f[i] ELSE a \o g[i - m]
  OBVIOUS
<1>9. h \in [0..(m + n) -> Seq(Char)]
  <2>1. ASSUME NEW i \in 0..(m + n) PROVE (IF i <= m THEN f[i] ELSE a \o g[i - m]) \in Seq(Char)
    <3>1. CASE i <= m
      <4>1. i \in 0..m
        BY ONLY <1>3, <3>1, i \in 0..(m + n)
      <4> QED
        BY <1>5, <3>1, <4>1
    <3>2. CASE ~(i <= m)
      <4>1. i - m \in 0..n
        BY ONLY <1>3, <3>2, i \in 0..(m + n)
      <4>2. g[i - m] \in Seq(Char)
        BY <1>5, <4>1
      <4>3. a \o g[i - m] \in Seq(Char)
        BY <1>6, <4>2, ConcatProperties
      <4> QED
        BY <3>2, <4>3
    <3> QED
      BY <3>1, <3>2
  <2> QED
    BY <2>1
<1> HIDE DEF h
<1>10. h[0] = <<>>
  <2>1. 0 \in 0..(m + n) /\ 0 <= m
    BY ONLY <1>3
  <2> QED
    BY <1>5, <1>8, <2>1
<1>11. ASSUME NEW i \in 1..(m + n) PROVE h[i] = h[i - 1] \o Split(u[i])
  <2>0. i \in 0..(m + n) /\ i - 1 \in 0..(m + n) /\ i \in Int
    BY ONLY <1>3, i \in 1..(m + n)
  <2>1. CASE i <= m
    <3>1. i \in 1..m /\ i - 1 <= m
      BY ONLY <1>3, <2>1, i \in 1..(m + n)
    <3> QED
      BY <1>3, <1>5, <1>8, <2>0, <2>1, <3>1
  <2>2. CASE ~(i <= m)
    <3> DEFINE j == i - m
    <3>1. j \in 1..n /\ j + m = i /\ j - 1 \in 0..n /\ (i - 1) - m = j - 1
      BY ONLY <1>3, <2>2, i \in 1..(m + n)
    <3>2. h[i] = a \o g[j]
      BY <1>8, <2>0, <2>2
    <3> HIDE DEF j
    <3>3. g[j] = g[j - 1] \o Split(t[j]) /\ g[j - 1] \in Seq(Char) /\ Split(t[j]) \in Seq(Char)
      BY <1>5, <1>7, <3>1, SplitIs
    <3>4. u[i] = t[j]
      BY <1>3, <3>1
    <3>5. h[i] = (a \o g[j - 1]) \o Split(t[j])
      <4> DEFINE x == g[j - 1]
                 y == Split(t[j])
      <4>1. x \in Seq(Char) /\ y \in Seq(Char) /\ g[j] = x \o y
        BY <3>3
      <4> HIDE DEF x, y
      <4>2. a \in Seq(Char) /\ x \in Seq(Char) /\ y \in Seq(Char)
        BY <1>6, <4>1
      <4>3. (a \o x) \o y = a \o (x \o y)
        BY ONLY <4>2, ConcatAssociative
      <4> QED
        BY <3>2, <4>1, <4>3 DEF x, y
    <3>6. h[i - 1] = a \o g[j - 1]
      <4>1. CASE i - 1 <= m
        <5>1. i - 1 = m /\ j - 1 = 0
          BY ONLY <1>3, <2>0, <2>2, <3>1, <4>1
        <5>2. h[i - 1] = f[m]
          BY <1>8, <2>0, <4>1, <5>1
        <5> QED
          BY <1>5, <1>6, <5>1, <5>2 DEF a
      <4>2. CASE ~(i - 1 <= m)
        BY <1>8, <2>0, <3>1, <4>2
      <4> QED
        BY <4>1, <4>2
    <3> QED
      BY <3>4, <3>5, <3>6
  <2> QED
    BY <2>1, <2>2
<1>12. Adds(h, u)
  BY <1>3, <1>9, <1>10, <1>11 DEF Adds
<1>13. AllKeys(u) = h[m + n]
  BY <1>3, <1>12, AllKeysIs
<1>14. h[m + n] = a \o g[n]
  <2>1. m + n \in 0..(m + n) /\ (m + n) - m = n /\ (m + n <= m => n = 0 /\ m + n = m)
    BY ONLY <1>3
  <2>2. CASE m + n <= m
    BY <1>5, <1>6, <1>8, <2>1, <2>2 DEF a
  <2>3. CASE ~(m + n <= m)
    BY <1>8, <2>1, <2>3
  <2> QED
    BY <2>2, <2>3
<1> QED
  BY <1>4, <1>13, <1>14 DEF u

(* What a key is to a keymap is not split again: nor is the rest of it.    *)
LEMMA AllKeysSplit ==
  ASSUME NEW k \in Char
  PROVE  LET q == Split(k)
         IN /\ AllKeys(q) = q /\ AllKeys(Tail(q)) = Tail(q) /\ AllKeys(<<q[1]>>) = <<q[1]>>
            /\ q = <<q[1]>> \o Tail(q) /\ q[1] \in Char /\ Tail(q) \in Seq(Char)
            /\ Len(Tail(q)) \in {0, 1}
<1> DEFINE q == Split(k)
<1>1. /\ q \in Seq(Char) /\ q # <<>> /\ Len(q) \in {1, 2}
      /\ \A i \in DOMAIN q : q[i] \in Char /\ Split(q[i]) = <<q[i]>>
  BY SplitIs
<1> HIDE DEF q
<1>2. q[1] \in Char /\ Split(q[1]) = <<q[1]>> /\ <<q[1]>> \in Seq(Char)
  BY <1>1
<1>3. AllKeys(<<q[1]>>) = <<q[1]>>
  BY <1>2, AllKeysOne
<1>4. Tail(q) \in Seq(Char) /\ q = <<q[1]>> \o Tail(q) /\ Len(Tail(q)) \in {0, 1}
  BY <1>1
<1>5. AllKeys(Tail(q)) = Tail(q)
  <2>1. CASE Len(q) = 1
    <3>1. Tail(q) = <<>>
      <4>1. Tail(q) \in Seq(Char) /\ Len(Tail(q)) = 0
        BY <1>1, <2>1, HeadTailProperties
      <4> QED
        BY <4>1, EmptySeq
    <3> QED
      BY <3>1, AllKeysNone
  <2>2. CASE Len(q) = 2
    <3>1. Tail(q) = <<q[2]>> /\ 2 \in DOMAIN q
      <4> DEFINE u == Tail(q)
                 x == q[2]
      <4>1. u \in Seq(Char) /\ Len(u) = 1 /\ u[1] = x /\ 2 \in DOMAIN q
        <5>1. Len(u) = 1 /\ \A i \in 1..Len(u) : u[i] = q[i + 1]
          BY <1>1, <2>2, HeadTailProperties
        <5>2. 1 \in 1..1 /\ 1 + 1 = 2 /\ 2 \in 1..2 /\ DOMAIN q = 1..2
          BY <1>1, <2>2
        <5> QED
          BY <1>4, <5>1, <5>2
      <4> HIDE DEF u, x
      <4>2. u = <<x>>
        BY ONLY <4>1
      <4> QED
        BY <4>1, <4>2 DEF u, x
    <3> QED
      BY <1>1, <3>1, AllKeysOne
  <2> QED
    BY <1>1, <2>1, <2>2
<1>6. AllKeys(q) = q
  <2>1. AllKeys(<<q[1]>> \o Tail(q)) = AllKeys(<<q[1]>>) \o AllKeys(Tail(q))
    BY <1>2, <1>4, AllKeysConcat
  <2> QED
    BY <1>3, <1>4, <1>5, <2>1
<1> QED
  BY <1>2, <1>3, <1>4, <1>5, <1>6 DEF q

(* The first character of the first key, and what it leaves.               *)
LEMMA AllKeysHead ==
  ASSUME NEW s \in Seq(Char), s # <<>>
  PROVE  LET q == Split(Head(s))
             t == Tail(q) \o Tail(s)
         IN /\ Head(s) \in Char /\ Tail(s) \in Seq(Char) /\ t \in Seq(Char)
            /\ AllKeys(s) = <<q[1]>> \o AllKeys(t)
<1> DEFINE k == Head(s)
           q == Split(k)
           t == Tail(q) \o Tail(s)
<1>1. k \in Char /\ Tail(s) \in Seq(Char) /\ s = <<k>> \o Tail(s) /\ <<k>> \in Seq(Char)
  OBVIOUS
<1> HIDE DEF k
<1>2. /\ AllKeys(q) = q /\ AllKeys(Tail(q)) = Tail(q) /\ q = <<q[1]>> \o Tail(q) /\ q[1] \in Char
      /\ Tail(q) \in Seq(Char)
  BY <1>1, AllKeysSplit
<1>3. AllKeys(<<k>>) = q
  BY <1>1, AllKeysOne
<1> HIDE DEF q
<1>4. AllKeys(Tail(s)) \in Seq(Char)
  BY <1>1, AllKeysType
<1>5. AllKeys(s) = q \o AllKeys(Tail(s))
  <2>1. AllKeys(<<k>> \o Tail(s)) = AllKeys(<<k>>) \o AllKeys(Tail(s))
    BY <1>1, AllKeysConcat
  <2> QED
    BY <1>1, <1>3, <2>1
<1>6. t \in Seq(Char) /\ AllKeys(t) = Tail(q) \o AllKeys(Tail(s))
  <2>1. t \in Seq(Char)
    BY <1>1, <1>2, ConcatProperties
  <2>2. AllKeys(t) = AllKeys(Tail(q)) \o AllKeys(Tail(s))
    BY <1>1, <1>2, AllKeysConcat
  <2> QED
    BY <1>2, <2>1, <2>2
<1>7. (<<q[1]>> \o Tail(q)) \o AllKeys(Tail(s)) = <<q[1]>> \o (Tail(q) \o AllKeys(Tail(s)))
  <2>1. <<q[1]>> \in Seq(Char)
    BY <1>2
  <2> QED
    BY ONLY <1>2, <1>4, <2>1, ConcatAssociative
<1>8. AllKeys(s) = <<q[1]>> \o AllKeys(t)
  BY <1>2, <1>5, <1>6, <1>7
<1> QED
  BY <1>1, <1>6, <1>8 DEF k, q

-----------------------------------------------------------------------------
(* What becomes of the input buffer.                                       *)

Keeps(e, f) == "in" \in DOMAIN f /\ f.in = e.in

LEMMA StepKeeps ==
  ASSUME NEW e, "in" \in DOMAIN e
  PROVE  /\ Keeps(e, Back(e)) /\ Keeps(e, Failed(e)) /\ Keeps(e, SaveState(e)) /\ Keeps(e, Resumed(e))
         /\ Keeps(e, Popped(e)) /\ Keeps(e, Ready(e)) /\ Keeps(e, DoJed(e)) /\ Keeps(e, KbdQuit(e))
         /\ \A x : Keeps(e, Pushed(e, x))
<1>1. Keeps(e, Back(e)) /\ Keeps(e, Failed(e)) /\ Keeps(e, SaveState(e))
  BY DEF Keeps, Back, Failed, SaveState
<1>2. Keeps(e, Resumed(e)) /\ Keeps(e, Popped(e)) /\ Keeps(e, Ready(e))
  BY DEF Keeps, Resumed, Popped, Ready
<1>3. Keeps(e, DoJed(e)) /\ Keeps(e, KbdQuit(e))
  BY DEF Keeps, DoJed, Fresh, Ready, KbdQuit
<1>4. \A x : Keeps(e, Pushed(e, x))
  BY DEF Keeps, Pushed
<1> QED
  BY <1>1, <1>2, <1>3, <1>4

LEMMA KeepsTwice ==
  ASSUME NEW e, NEW f, NEW g, Keeps(e, f), Keeps(f, g)
  PROVE  Keeps(e, g)
BY DEF Keeps

LEMMA ReadKeeps ==
  ASSUME NEW e, "in" \in DOMAIN e
  PROVE  Keeps(e, Read(e))
<1> DEFINE f == Pushed(e, [Frame("mini") EXCEPT !.rf = e.repeat])
<1>1. Keeps(e, f) /\ Keeps(e, Back(e))
  BY StepKeeps
<1>2. Read(e) = Back(e) \/ Read(e) = DoJed(f)
  BY DEF Read
<1> HIDE DEF f
<1>3. Keeps(f, DoJed(f))
  BY <1>1, StepKeeps DEF Keeps
<1> QED
  BY <1>1, <1>2, <1>3, KeepsTwice

LEMMA MiniDoneKeeps ==
  ASSUME NEW e, "in" \in DOMAIN e
  PROVE  Keeps(e, MiniDone(e))
<1> DEFINE f == Resumed(e)
           g == Popped(f)
           rf == IF Top(e).rf = None THEN e.repeat ELSE Top(e).rf
           h == [g EXCEPT !.leave = FALSE, !.quit = FALSE, !.repeat = rf]
<1>1. Keeps(e, f)
  BY StepKeeps
<1>2. MiniDone(e) = Back(h)
  BY DEF MiniDone
<1> HIDE DEF f, rf
<1>3. Keeps(f, g)
  BY <1>1, StepKeeps DEF Keeps
<1> HIDE DEF g
<1>4. Keeps(g, h)
  BY <1>3 DEF Keeps
<1> HIDE DEF h
<1>5. Keeps(h, Back(h))
  BY <1>4, StepKeeps DEF Keeps
<1> QED
  BY <1>1, <1>2, <1>3, <1>4, <1>5 DEF Keeps

LEMMA ExecDoneKeeps ==
  ASSUME NEW e, "in" \in DOMAIN e
  PROVE  Keeps(e, ExecDone(e))
<1> DEFINE f == Popped(e)
           g == [f EXCEPT !.illegal = FALSE, !.exe = FALSE, !.repeat = Top(e).rf]
           h == SaveState(g)
<1>1. Keeps(e, f)
  BY StepKeeps
<1>2. ExecDone(e) = Back(h)
  BY DEF ExecDone
<1> HIDE DEF f
<1>3. Keeps(f, g)
  BY <1>1 DEF Keeps
<1> HIDE DEF g
<1>4. Keeps(g, h)
  BY <1>3, StepKeeps DEF Keeps
<1> HIDE DEF h
<1>5. Keeps(h, Back(h))
  BY <1>4, StepKeeps DEF Keeps
<1> QED
  BY <1>1, <1>2, <1>3, <1>4, <1>5 DEF Keeps

LEMMA ExecuteKeeps ==
  ASSUME NEW e, "in" \in DOMAIN e
  PROVE  Keeps(e, ExecuteMacro(e))
<1> DEFINE c == [e EXCEPT !.exe = TRUE]
           f == SaveState(c)
           d == [f EXCEPT !.ptr = 0, !.illegal = TRUE]
           g == Pushed(d, [Frame("exec") EXCEPT !.rf = e.repeat])
<1>1. Keeps(e, c) /\ Keeps(e, Failed(e))
  BY StepKeeps DEF Keeps
<1>2. \/ ExecuteMacro(e) = Back(Failed(e)) \/ ExecuteMacro(e) = ExecDone(g)
      \/ ExecuteMacro(e) = DoJed(g)
  BY DEF ExecuteMacro
<1> HIDE DEF c
<1>3. Keeps(c, f)
  BY <1>1, StepKeeps DEF Keeps
<1> HIDE DEF f
<1>4. Keeps(f, d)
  BY <1>3 DEF Keeps
<1> HIDE DEF d
<1>5. Keeps(d, g)
  BY <1>4, StepKeeps DEF Keeps
<1>6. Keeps(e, g)
  BY <1>1, <1>3, <1>4, <1>5, KeepsTwice
<1> HIDE DEF g
<1>7. Keeps(g, ExecDone(g)) /\ Keeps(g, DoJed(g))
  BY <1>6, StepKeeps, ExecDoneKeeps DEF Keeps
<1> DEFINE h == Failed(e)
<1>8. Keeps(e, h)
  BY <1>1
<1> HIDE DEF h
<1>9. Keeps(e, Back(h))
  <2>1. Keeps(h, Back(h))
    BY <1>8, StepKeeps DEF Keeps
  <2> QED
    BY <1>8, <2>1, KeepsTwice
<1> QED
  BY <1>2, <1>6, <1>7, <1>9, KeepsTwice DEF h

LEMMA StringKeeps ==
  ASSUME NEW e, "in" \in DOMAIN e, NEW c
  PROVE  Keeps(e, DoMacroString(e, c))
<1> DEFINE n == IF e.repeat = None THEN 1 ELSE e.repeat
           t == [Frame("string") EXCEPT !.cmd = c, !.n = n, !.rest = e.str]
           d == [e EXCEPT !.depth = 0, !.repeat = None]
           f == Failed(d)
           p == Pushed(e, t)
           g == [p EXCEPT !.depth = @ + 1, !.repeat = None, !.str = <<>>, !.at = "loop"]
<1>1. DoMacroString(e, c) = Back(f) \/ DoMacroString(e, c) = g
  BY DEF DoMacroString
<1>2. Keeps(e, d)
  BY DEF Keeps
<1> HIDE DEF d
<1>3. Keeps(d, f)
  BY <1>2, StepKeeps DEF Keeps
<1> HIDE DEF f
<1>4. Keeps(f, Back(f))
  BY <1>3, StepKeeps DEF Keeps
<1> HIDE DEF t
<1>5. Keeps(e, p)
  BY StepKeeps
<1> HIDE DEF p
<1>6. Keeps(p, g)
  BY <1>5 DEF Keeps
<1> HIDE DEF g
<1> QED
  BY <1>1, <1>2, <1>3, <1>4, <1>5, <1>6, KeepsTwice

LEMMA DigitKeeps ==
  ASSUME NEW e, "in" \in DOMAIN e
  PROVE  Keeps(e, DigitArg(e))
<1> DEFINE p == Pushed(e, Frame("digit"))
           d == IF Last(e.keys) \in DOMAIN Digits THEN Digits[Last(e.keys)] ELSE None
           f == [p EXCEPT !.at = "digits", !.diff = e.last, !.n = d]
<1>1. DigitArg(e) = f
  BY DEF DigitArg
<1>2. Keeps(e, p)
  BY StepKeeps
<1> HIDE DEF p, d
<1>3. Keeps(p, f)
  BY <1>2 DEF Keeps
<1> QED
  BY <1>1, <1>2, <1>3, KeepsTwice

LEMMA AskKeeps ==
  ASSUME NEW e, "in" \in DOMAIN e, NEW b \in BOOLEAN
  PROVE  Keeps(e, Ask(e, b))
<1> DEFINE s == IF b THEN Suspended(e) ELSE e
           t == [Frame("ask") EXCEPT !.n = IF b THEN 1 ELSE 0]
           p == Pushed(s, t)
<1>1. Ask(e, b) = [p EXCEPT !.at = "answer"]
  BY DEF Ask
<1>2. Keeps(e, s)
  BY DEF Keeps, Suspended, SaveState
<1> HIDE DEF s, t
<1>3. Keeps(s, p)
  BY <1>2, StepKeeps DEF Keeps
<1> HIDE DEF p
<1>4. Keeps(p, [p EXCEPT !.at = "answer"])
  BY <1>3 DEF Keeps
<1> QED
  BY <1>1, <1>2, <1>3, <1>4, KeepsTwice

LEMMA MacroKeeps ==
  ASSUME NEW e, "in" \in DOMAIN e
  PROVE  Keeps(e, BeginMacro(e)) /\ Keeps(e, EndMacro(e))
<1>1. Keeps(e, Failed(e))
  BY StepKeeps
<1>2. Keeps(e, BeginMacro(e))
  BY <1>1 DEF Keeps, BeginMacro, SaveState
<1> DEFINE g == IF e.exe THEN e ELSE Failed(e)
<1>3. Keeps(e, g)
  BY <1>1 DEF Keeps
<1>4. EndMacro(e) = IF e.def THEN SaveState([e EXCEPT !.def = FALSE]) ELSE [g EXCEPT !.exe = FALSE]
  BY DEF EndMacro
<1> HIDE DEF g
<1>5. Keeps(e, EndMacro(e))
  BY <1>3, <1>4 DEF Keeps, SaveState
<1> QED
  BY <1>2, <1>5

(* Only what a command stuffs is added to the input buffer.                *)
LEMMA InterpretedKeeps ==
  ASSUME NEW e, "in" \in DOMAIN e, NEW c \in Commands
  PROVE  LET f == Interpreted(e, c)
         IN f.in = e.in \/ (c \in DOMAIN Stuffs /\ f.in = e.in \o Stuffs[c])
<1> DEFINE f == Interpreted(e, c)
<1>0. ASSUME NEW g, Keeps(e, g) PROVE Back(g).in = e.in
  <2>1. Keeps(g, Back(g))
    BY <1>0, StepKeeps DEF Keeps
  <2> QED
    BY <1>0, <2>1 DEF Keeps
<1>1. CASE c \in {"insert", "begin", "end", "exit", "quit"}
  <2>1. /\ Keeps(e, e) /\ Keeps(e, BeginMacro(e)) /\ Keeps(e, EndMacro(e)) /\ Keeps(e, KbdQuit(e))
        /\ Keeps(e, [e EXCEPT !.leave = Within(e, "mini")])
    <3>1. Keeps(e, e) /\ Keeps(e, [e EXCEPT !.leave = Within(e, "mini")])
      BY DEF Keeps
    <3> QED
      BY <3>1, MacroKeeps, StepKeeps
  <2>2. \/ f = Back(e) \/ f = Back(BeginMacro(e)) \/ f = Back(EndMacro(e)) \/ f = Back(KbdQuit(e))
        \/ f = Back([e EXCEPT !.leave = Within(e, "mini")])
    BY <1>1, InterpretedIs
  <2> DEFINE b == BeginMacro(e)
             d == EndMacro(e)
             q == KbdQuit(e)
             l == [e EXCEPT !.leave = Within(e, "mini")]
  <2> HIDE DEF f, b, d, q, l
  <2>3. Back(e).in = e.in /\ Back(b).in = e.in /\ Back(d).in = e.in
    BY <1>0, <2>1 DEF b, d
  <2>4. Back(q).in = e.in /\ Back(l).in = e.in
    BY <1>0, <2>1 DEF q, l
  <2>5. f.in = e.in
    BY <2>2, <2>3, <2>4 DEF b, d, q, l
  <2> QED
    BY <2>5 DEF f
<1>2. CASE c \in {"exec", "query", "prompt", "digit", "yes", "lock"}
  <2>1. MacroQuery(e).in = e.in
    <3> DEFINE g == [e EXCEPT !.def = FALSE, !.exe = FALSE]
    <3>1. Keeps(e, g) /\ MacroQuery(e) = Read(g)
      BY DEF Keeps, MacroQuery
    <3> HIDE DEF g
    <3>2. Keeps(g, Read(g))
      BY <3>1, ReadKeeps DEF Keeps
    <3> QED
      BY <3>1, <3>2 DEF Keeps
  <2>2. /\ ExecuteMacro(e).in = e.in /\ Read(e).in = e.in /\ DigitArg(e).in = e.in
        /\ Ask(e, FALSE).in = e.in /\ Ask(e, TRUE).in = e.in
    <3>1. Keeps(e, ExecuteMacro(e)) /\ Keeps(e, Read(e)) /\ Keeps(e, DigitArg(e))
      BY ExecuteKeeps, ReadKeeps, DigitKeeps
    <3>2. \A b \in BOOLEAN : Keeps(e, Ask(e, b))
      BY AskKeeps
    <3> QED
      BY <3>1, <3>2 DEF Keeps
  <2> QED
    BY <1>2, <2>1, <2>2, InterpretedIs
<1>3. CASE c \in DOMAIN Stuffs
  <2> DEFINE g == BufferKeystring(e, Stuffs[c])
  <2>1. f = Back(g)
    BY <1>3, InterpretedIs
  <2>2. "in" \in DOMAIN g /\ (g.in = e.in \/ g.in = e.in \o Stuffs[c])
    BY DEF BufferKeystring
  <2> HIDE DEF g
  <2>3. Back(g).in = g.in
    BY <2>2, StepKeeps DEF Keeps
  <2> QED
    BY <1>3, <2>1, <2>2, <2>3
<1>4. CASE c \in DOMAIN Strings
  <2>1. f = DoMacroString(e, c)
    BY <1>4, InterpretedIs
  <2> QED
    BY <2>1, StringKeeps DEF Keeps
<1> QED
  BY <1>1, <1>2, <1>3, <1>4 DEF Commands, Builtin

(* What becomes of the two queues when the key ch is delivered: a key may  *)
(* be stuffed, all of them dropped with a beep, or ch given back.          *)
Delivered(e, k, ch) ==
  \/ ed'.in = e.in /\ kbd' = k
  \/ \E c \in DOMAIN Stuffs : ed'.in = e.in \o Stuffs[c] /\ kbd' = k
  \/ ~e.exe /\ ed'.in = <<>> /\ kbd' = <<>> /\ ed'.at = "ret" /\ ed'.keys \notin DOMAIN Keymap
  \/ e.at = "digits" /\ ~e.exe /\ ed'.in = <<ch>> \o e.in /\ kbd' = k

LEMMA SequenceDelivers ==
  ASSUME NEW e, DOMAIN e = Fields, NEW k, NEW ch, ToSequence(e, k, ch)
  PROVE  Delivered(e, k, ch)
<1> DEFINE ks == Append(e.keys, ch)
           f == [e EXCEPT !.keys = ks, !.last = e.diff, !.diff = 0]
<1>1. ks \in DOMAIN Keymap => Keymap[ks] \in Commands
  BY KeysAssumption DEF Commands
<1> HIDE DEF ks
<1>2. DOMAIN f = Fields /\ f.in = e.in /\ f.keys = ks
  BY DEF Fields
<1>4. \/ ed' = [e EXCEPT !.keys = ks] /\ kbd' = k
      \/ ks \in DOMAIN Keymap /\ ed' = Interpreted(f, Keymap[ks]) /\ kbd' = k
      \/ /\ ks \in DOMAIN Keymap /\ e.repeat # None
         /\ ed' = [Pushed(f, [Frame("repeat") EXCEPT !.cmd = Keymap[ks], !.n = e.repeat])
                     EXCEPT !.at = "loop"]
         /\ kbd' = k
      \/ /\ ks \notin DOMAIN Keymap
         /\ LET beep == ~e.exe /\ ~e.quit
                g == IF beep THEN Flushed(f) ELSE f
            IN /\ ed' = [(IF e.quit THEN KbdQuit(g) ELSE g) EXCEPT !.at = "ret"]
               /\ kbd' = IF beep THEN <<>> ELSE k
  BY DEF ToSequence, Interpret, ks, f
<1> HIDE DEF f
<1>5. CASE ed' = [e EXCEPT !.keys = ks] /\ kbd' = k
  <2>1. ed'.in = e.in
    BY <1>5 DEF Fields
  <2> QED
    BY <1>5, <2>1 DEF Delivered
<1>6. CASE ks \in DOMAIN Keymap /\ ed' = Interpreted(f, Keymap[ks]) /\ kbd' = k
  <2> DEFINE c == Keymap[ks]
  <2>1. c \in Commands /\ "in" \in DOMAIN f
    BY <1>1, <1>2, <1>6 DEF Fields
  <2> HIDE DEF c
  <2>2. Interpreted(f, c).in = f.in \/ (c \in DOMAIN Stuffs /\ Interpreted(f, c).in = f.in \o Stuffs[c])
    BY <2>1, InterpretedKeeps
  <2> QED
    BY <1>2, <1>6, <2>2 DEF Delivered, c
<1>7. ASSUME kbd' = k,
             ed' = [Pushed(f, [Frame("repeat") EXCEPT !.cmd = Keymap[ks], !.n = e.repeat])
                      EXCEPT !.at = "loop"]
      PROVE  Delivered(e, k, ch)
  <2> DEFINE t == [Frame("repeat") EXCEPT !.cmd = Keymap[ks], !.n = e.repeat]
             p == Pushed(f, t)
  <2>1. ed' = [p EXCEPT !.at = "loop"]
    BY <1>7
  <2> HIDE DEF t
  <2>2. Keeps(f, p)
    BY <1>2, StepKeeps DEF Fields
  <2> HIDE DEF p
  <2>3. ed'.in = f.in
    BY <2>1, <2>2 DEF Keeps
  <2> QED
    BY <1>2, <1>7, <2>3 DEF Delivered
<1>8. ASSUME ks \notin DOMAIN Keymap,
             LET beep == ~e.exe /\ ~e.quit
                 g == IF beep THEN Flushed(f) ELSE f
             IN /\ ed' = [(IF e.quit THEN KbdQuit(g) ELSE g) EXCEPT !.at = "ret"]
                /\ kbd' = IF beep THEN <<>> ELSE k
      PROVE  Delivered(e, k, ch)
  <2>1. CASE ~e.exe /\ ~e.quit
    <3>1. ed' = [Flushed(f) EXCEPT !.at = "ret"] /\ kbd' = <<>>
      BY <1>8, <2>1
    <3>2. ed'.in = <<>> /\ ed'.at = "ret" /\ ed'.keys = ks
      BY <1>2, <3>1 DEF Flushed, Fields
    <3> QED
      BY <1>8, <2>1, <3>1, <3>2 DEF Delivered
  <2>2. CASE e.exe /\ ~e.quit
    <3>1. ed' = [f EXCEPT !.at = "ret"] /\ kbd' = k
      BY <1>8, <2>2
    <3>2. ed'.in = e.in
      BY <1>2, <3>1 DEF Fields
    <3> QED
      BY <3>1, <3>2 DEF Delivered
  <2>3. CASE e.quit
    <3>1. ed' = [KbdQuit(f) EXCEPT !.at = "ret"] /\ kbd' = k
      BY <1>8, <2>3
    <3>2. ed'.in = e.in
      BY <1>2, <3>1 DEF KbdQuit, Fields
    <3> QED
      BY <3>1, <3>2 DEF Delivered
  <2> QED
    BY <2>1, <2>2, <2>3
<1> QED
  BY <1>4, <1>5, <1>6, <1>7, <1>8

LEMMA DigitsDeliver ==
  ASSUME NEW e, DOMAIN e = Fields, e.at = "digits", NEW k, NEW ch, ToDigits(e, k, ch)
  PROVE  Delivered(e, k, ch)
<1>0. kbd' = k
  BY DEF ToDigits
<1>1. CASE ch \in DOMAIN Digits
  <2>1. ed' = [e EXCEPT !.n = OneMore(@, Digits[ch])]
    BY <1>1 DEF ToDigits
  <2>2. ed'.in = e.in
    BY <2>1 DEF Fields
  <2> QED
    BY <1>0, <2>2 DEF Delivered
<1>2. CASE ch \notin DOMAIN Digits
  <2> DEFINE u == Ungetkey(e, ch)
             f == [u EXCEPT !.repeat = Number(e.n), !.diff = IF @ > 0 THEN @ - 1 ELSE 0]
             g == IF e.exe \/ e.def THEN [f EXCEPT !.ptr = @ - 1] ELSE f
  <2>1. ed' = Ready(g)
    BY <1>2 DEF ToDigits
  <2>2. DOMAIN u = Fields /\ (u.in = e.in \/ (~e.exe /\ u.in = <<ch>> \o e.in))
    BY DEF Ungetkey, Fields
  <2> HIDE DEF u
  <2>3. DOMAIN f = Fields /\ f.in = u.in
    BY <2>2 DEF Fields
  <2> HIDE DEF f
  <2>4. "in" \in DOMAIN g /\ g.in = f.in
    BY <2>3 DEF Fields
  <2> HIDE DEF g
  <2>5. ed'.in = u.in
    BY <2>1, <2>3, <2>4, StepKeeps DEF Keeps
  <2> QED
    BY <1>0, <2>2, <2>5 DEF Delivered
<1> QED
  BY <1>1, <1>2

LEMMA QuestionDelivers ==
  ASSUME NEW e, DOMAIN e = Fields, NEW k, NEW ch, ToQuestion(e, k)
  PROVE  Delivered(e, k, ch)
<1> DEFINE r == IF Top(e).n = 1 THEN Resumed(e) ELSE e
           p == Popped(r)
<1>1. ed' = Back(p) /\ kbd' = k
  BY DEF ToQuestion
<1>2. "in" \in DOMAIN e
  BY DEF Fields
<1>3. Keeps(e, r)
  BY <1>2, StepKeeps DEF Keeps
<1> HIDE DEF r
<1>4. Keeps(r, p)
  BY <1>3, StepKeeps DEF Keeps
<1> HIDE DEF p
<1>5. Keeps(p, Back(p))
  BY <1>4, StepKeeps DEF Keeps
<1>6. ed'.in = e.in
  BY <1>1, <1>3, <1>4, <1>5 DEF Keeps
<1> QED
  BY <1>1, <1>6 DEF Delivered

LEMMA DeliverDelivers ==
  ASSUME NEW e, DOMAIN e = Fields, NEW k, NEW ch, Wanted(e), Deliver(e, k, ch)
  PROVE  Delivered(e, k, ch)
<1>1. CASE e.at = "keys"
  BY <1>1, SequenceDelivers DEF Deliver
<1>2. CASE e.at = "digits"
  BY <1>2, DigitsDeliver DEF Deliver
<1>3. CASE e.at = "answer"
  BY <1>3, QuestionDelivers DEF Deliver
<1> QED
  BY <1>1, <1>2, <1>3 DEF Wanted

(* The keys that are owed.                                                 *)
Owed(e, k) == AllKeys(e.in) \o AllKeys(k)

(* The next of them, or an interrupt.                                      *)
Got(e, k, r) ==
  /\ DOMAIN r.ed = Fields /\ r.ed.in \in Seq(Char) /\ r.kbd \in Seq(Char)
  /\ r.ch \in Char /\ AllKeys(<<r.ch>>) = <<r.ch>>
  /\ e.in = <<>> => Len(r.ed.in) \in {0, 1}
  /\ \/ Owed(e, k) = <<r.ch>> \o Owed(r.ed, r.kbd)
     \/ r.ch = Abort /\ Owed(r.ed, r.kbd) = Owed(e, k)

LEMMA GetkeyGets ==
  ASSUME NEW e, DOMAIN e = Fields, e.in \in Seq(Char), NEW k, k \in Seq(Char),
         e.in # <<>> \/ k # <<>> \/ e.quit
  PROVE  Got(e, k, MyGetkey(e, k)) /\ MyGetkey(e, k).ed.exe = e.exe
<1>1. CASE e.in # <<>>
  <2> DEFINE s == e.in
             q == Split(Head(s))
             t == Tail(q) \o Tail(s)
             f == [e EXCEPT !.in = t]
  <2>1. MyGetkey(e, k) = [ch |-> q[1], kbd |-> k, ed |-> f]
    BY <1>1 DEF MyGetkey
  <2>2. Head(s) \in Char /\ t \in Seq(Char) /\ AllKeys(s) = <<q[1]>> \o AllKeys(t)
    BY <1>1, AllKeysHead
  <2>3. AllKeys(<<q[1]>>) = <<q[1]>> /\ q[1] \in Char
    BY <2>2, AllKeysSplit
  <2> HIDE DEF q, t
  <2>4. DOMAIN f = Fields /\ f.in = t /\ f.exe = e.exe
    BY DEF Fields
  <2> HIDE DEF f
  <2>5. AllKeys(t) \in Seq(Char) /\ AllKeys(k) \in Seq(Char) /\ <<q[1]>> \in Seq(Char)
    BY <2>2, <2>3, AllKeysType
  <2>6. (<<q[1]>> \o AllKeys(t)) \o AllKeys(k) = <<q[1]>> \o (AllKeys(t) \o AllKeys(k))
    BY ONLY <2>5, ConcatAssociative
  <2>7. Owed(e, k) = <<q[1]>> \o Owed(f, k)
    BY <2>2, <2>4, <2>6 DEF Owed
  <2> QED
    BY <1>1, <2>1, <2>2, <2>3, <2>4, <2>7 DEF Got
<1>2. CASE e.in = <<>> /\ e.quit
  <2> DEFINE f == [e EXCEPT !.quit = FALSE]
  <2>1. MyGetkey(e, k) = [ch |-> Abort, kbd |-> k, ed |-> f]
    BY <1>2 DEF MyGetkey
  <2>2. DOMAIN f = Fields /\ f.in = e.in /\ f.exe = e.exe
    BY DEF Fields
  <2> HIDE DEF f
  <2>3. Abort \in Char /\ Split(Abort) = <<Abort>>
    BY KeysAssumption DEF Char, Split
  <2>4. AllKeys(<<Abort>>) = <<Abort>>
    BY <2>3, AllKeysOne
  <2>5. Owed(f, k) = Owed(e, k) /\ Len(e.in) = 0
    BY <1>2, <2>2 DEF Owed
  <2> QED
    BY <2>1, <2>2, <2>3, <2>4, <2>5 DEF Got
<1>3. CASE e.in = <<>> /\ ~e.quit
  <2> DEFINE q == Split(Head(k))
             t == Tail(q)
             f == [e EXCEPT !.in = t]
  <2>1. MyGetkey(e, k) = [ch |-> q[1], kbd |-> Tail(k), ed |-> f] /\ k # <<>>
    BY <1>3 DEF MyGetkey
  <2>2. Head(k) \in Char /\ Tail(k) \in Seq(Char) /\ AllKeys(k) = <<q[1]>> \o AllKeys(t \o Tail(k))
    BY <2>1, AllKeysHead
  <2>3. /\ AllKeys(<<q[1]>>) = <<q[1]>> /\ q[1] \in Char /\ t \in Seq(Char) /\ Len(t) \in {0, 1}
    BY <2>2, AllKeysSplit
  <2> HIDE DEF q
  <2> HIDE DEF t
  <2>4. DOMAIN f = Fields /\ f.in = t /\ f.exe = e.exe
    BY DEF Fields
  <2> HIDE DEF f
  <2>5. AllKeys(t \o Tail(k)) = AllKeys(t) \o AllKeys(Tail(k))
    BY <2>2, <2>3, AllKeysConcat
  <2>6. Owed(e, k) = AllKeys(k)
    <3>1. AllKeys(e.in) = <<>>
      BY <1>3, AllKeysNone
    <3>2. AllKeys(k) \in Seq(Char)
      BY AllKeysType
    <3> QED
      BY <3>1, <3>2, ConcatEmptySeq DEF Owed
  <2>7. Owed(e, k) = <<q[1]>> \o Owed(f, Tail(k))
    BY <2>2, <2>4, <2>5, <2>6 DEF Owed
  <2> QED
    BY <2>1, <2>2, <2>3, <2>4, <2>7 DEF Got
<1> QED
  BY <1>1, <1>2, <1>3

-----------------------------------------------------------------------------
(* The queue's steps.                                                      *)

Inputs(e, k) == e.in \in Seq(Char) /\ k \in Seq(Char)

LEMMA OwedType ==
  ASSUME NEW e, NEW k, Inputs(e, k)
  PROVE  /\ Owed(e, k) \in Seq(Char) /\ AllKeys(e.in) \in Seq(Char) /\ AllKeys(k) \in Seq(Char)
         /\ e.in = <<>> /\ k = <<>> => Owed(e, k) = <<>>
<1>1. AllKeys(e.in) \in Seq(Char) /\ AllKeys(k) \in Seq(Char)
  BY AllKeysType DEF Inputs
<1>2. Owed(e, k) \in Seq(Char)
  BY <1>1, ConcatProperties DEF Owed
<1>3. e.in = <<>> /\ k = <<>> => Owed(e, k) = <<>>
  <2>1. <<>> \o <<>> = <<>>
    BY ConcatEmptySeq, EmptySeq
  <2> QED
    BY <2>1, AllKeysNone DEF Owed
<1> QED
  BY <1>1, <1>2, <1>3

LEMMA Remains ==
  ASSUME Owed(ed, kbd)' = Owed(ed, kbd), UNCHANGED got
  PROVE  UNCHANGED Queue!vars
BY DEF Queue!vars, Owed

LEMMA Drops ==
  ASSUME NEW n \in 0..Len(Owed(ed, kbd)), got' = Beep,
         Owed(ed, kbd)' = SubSeq(Owed(ed, kbd), n + 1, Len(Owed(ed, kbd)))
  PROVE  Queue!Next
BY DEF Queue!Next, Queue!Flush, Owed

(* Everything is dropped.                                                  *)
LEMMA DropsAll ==
  ASSUME Inputs(ed, kbd), Inputs(ed, kbd)', got' = Beep, Owed(ed, kbd)' = <<>>
  PROVE  Queue!Next
<1> DEFINE q == Owed(ed, kbd)
<1>1. q \in Seq(Char)
  BY OwedType
<1> HIDE DEF q
<1>2. Len(q) \in 0..Len(q) /\ SubSeq(q, Len(q) + 1, Len(q)) = <<>>
  BY ONLY <1>1
<1> QED
  BY <1>2, Drops DEF q

(* The input buffer is dropped, what the terminal holds is left.           *)
LEMMA DropsBuffer ==
  ASSUME Inputs(ed, kbd), ed'.in = <<>>, kbd' = kbd, got' = Beep
  PROVE  Queue!Next
<1> DEFINE a == AllKeys(ed.in)
           b == AllKeys(kbd)
<1>1. a \in Seq(Char) /\ b \in Seq(Char) /\ Owed(ed, kbd) = a \o b
  BY OwedType DEF Owed
<1>2. Owed(ed, kbd)' = b
  <2>1. <<>> \o b = b
    BY <1>1, ConcatEmptySeq
  <2> QED
    BY <2>1, AllKeysNone DEF Owed
<1> HIDE DEF a, b
<1>3. Len(a) \in 0..Len(a \o b) /\ SubSeq(a \o b, Len(a) + 1, Len(a \o b)) = b
  <2>1. Len(a \o b) = Len(a) + Len(b) /\ Len(a) \in Nat /\ Len(b) \in Nat
    BY ONLY <1>1
  <2>2. SubSeq(a \o b, Len(a) + 1, Len(a) + Len(b)) = b
    BY <1>1, SubSeqOfConcat2
  <2> QED
    BY <2>1, <2>2
<1> QED
  BY <1>1, <1>2, <1>3, Drops

(* A command's keys are put after the input buffer.                        *)
LEMMA Stuffed ==
  ASSUME NEW e, NEW k, Inputs(e, k), NEW c \in DOMAIN Stuffs,
         Inputs(ed, kbd)', ed'.in = e.in \o Stuffs[c], kbd' = k
  PROVE  Queue!Inserted(Owed(e, k))
<1> DEFINE a == AllKeys(e.in)
           s == AllKeys(Stuffs[c])
           b == AllKeys(k)
<1>1. Stuffs[c] \in Seq(Char)
  BY KeysAssumption DEF Char
<1>2. a \in Seq(Char) /\ b \in Seq(Char) /\ s \in Seq(Char) /\ Owed(e, k) = a \o b
  BY <1>1, OwedType, AllKeysType DEF Owed
<1>3. Owed(ed, kbd)' = (a \o s) \o b
  BY <1>1, AllKeysConcat DEF Owed, Inputs
<1>4. s \in {AllKeys(Stuffs[d]) : d \in DOMAIN Stuffs}
  OBVIOUS
<1> HIDE DEF a, s, b
<1>5. /\ Len(a) \in 0..Len(a \o b)
      /\ SubSeq(a \o b, 1, Len(a)) = a /\ SubSeq(a \o b, Len(a) + 1, Len(a \o b)) = b
  <2>1. Len(a \o b) = Len(a) + Len(b) /\ Len(a) \in Nat /\ Len(b) \in Nat
    BY ONLY <1>2
  <2>2. SubSeq(a \o b, Len(a) + 1, Len(a) + Len(b)) = b
    BY <1>2, SubSeqOfConcat2
  <2>3. SubSeq(a \o b, 1, Len(a)) = a
    BY ONLY <1>2
  <2> QED
    BY <2>1, <2>2, <2>3
<1>6. Owed(ed, kbd)' = SubSeq(a \o b, 1, Len(a)) \o s \o SubSeq(a \o b, Len(a) + 1, Len(a \o b))
  BY <1>3, <1>5
<1>7. (AllKeys(ed.in) \o AllKeys(kbd))' = Owed(ed, kbd)'
  BY DEF Owed
<1> DEFINE q == a \o b
<1> HIDE DEF q
<1>8. /\ Len(a) \in 0..Len(q)
      /\ (AllKeys(ed.in) \o AllKeys(kbd))' = SubSeq(q, 1, Len(a)) \o s \o SubSeq(q, Len(a) + 1, Len(q))
  BY <1>5, <1>6, <1>7 DEF q
<1>9. Queue!Inserted(q)
  BY <1>4, <1>8 DEF Queue!Inserted
<1> QED
  BY <1>2, <1>9 DEF q

(* The command of the key at hand, or of a count, stuffs keys.             *)
LEMMA StuffsKeys ==
  ASSUME Inputs(ed, kbd), Inputs(ed, kbd)', NEW c \in DOMAIN Stuffs,
         ed'.in = ed.in \o Stuffs[c], UNCHANGED <<kbd, got>>
  PROVE  Queue!Next
<1>1. Queue!Inserted(Owed(ed, kbd))
  BY Stuffed
<1>2. Queue!Stuff
  BY <1>1 DEF Queue!Stuff, Owed
<1> QED
  BY <1>2 DEF Queue!Next

(* What follows a key that came from the queue.                            *)
LEMMA GotStep ==
  ASSUME Inputs(ed, kbd), Inputs(ed, kbd)', NEW r, Got(ed, kbd, r), Delivered(r.ed, r.kbd, r.ch),
         Heard(r.ch)
  PROVE  Queue!Next
<1> DEFINE q == Owed(ed, kbd)
           p == Owed(r.ed, r.kbd)
           ch == r.ch
<1>1. /\ q \in Seq(Char) /\ p \in Seq(Char) /\ ch \in Char /\ Inputs(r.ed, r.kbd)
      /\ q = <<ch>> \o p \/ (ch = Abort /\ p = q)
  BY OwedType DEF Got, Inputs
<1>2. CASE got' = Beep /\ ed'.in = <<>> /\ kbd' = <<>>
  <2>1. Owed(ed, kbd)' = <<>>
    BY <1>2, OwedType DEF Inputs, Owed
  <2> QED
    BY <1>2, <2>1, DropsAll
<1>3. CASE got' = ch
  <2>0. q = <<ch>> \o p => q # <<>> /\ Head(q) = ch /\ Tail(q) = p
    <3> HIDE DEF q, p, ch
    <3> QED
      BY <1>1
  <2>1. CASE ed'.in = r.ed.in /\ kbd' = r.kbd
    <3>1. Owed(ed, kbd)' = p
      BY <2>1 DEF Owed
    <3>2. CASE q = <<ch>> \o p
      <4>1. Queue!Take
        BY <1>3, <2>0, <3>1, <3>2 DEF Queue!Take, Owed
      <4> QED
        BY <4>1 DEF Queue!Next
    <3>3. CASE ch = Abort /\ p = q
      <4>1. Queue!Interrupt
        BY <1>3, <3>1, <3>3 DEF Queue!Interrupt, Owed
      <4> QED
        BY <4>1 DEF Queue!Next
    <3> QED
      BY <1>1, <3>2, <3>3
  <2>2. ASSUME NEW c \in DOMAIN Stuffs, ed'.in = r.ed.in \o Stuffs[c], kbd' = r.kbd
        PROVE  Queue!Next
    <3> DEFINE e == r.ed
               k == r.kbd
    <3>0. Inputs(e, k) /\ ed'.in = e.in \o Stuffs[c] /\ kbd' = k
      BY <1>1, <2>2
    <3> HIDE DEF e, k
    <3>1. Queue!Inserted(Owed(e, k))
      BY <3>0, Stuffed
    <3>2. Queue!Inserted(p)
      BY <3>1 DEF e, k
    <3> HIDE DEF p
    <3>3. Queue!Stuff
      BY <1>1, <1>3, <2>0, <3>2 DEF Queue!Stuff, Owed
    <3> QED
      BY <3>3 DEF Queue!Next
  <2>3. CASE ed'.in = <<ch>> \o r.ed.in /\ kbd' = r.kbd
    <3>1. Owed(ed, kbd)' = <<ch>> \o p
      <4> DEFINE i == r.ed.in
      <4>1. i \in Seq(Char) /\ <<ch>> \in Seq(Char) /\ AllKeys(<<ch>>) = <<ch>>
        BY <1>1 DEF Got
      <4>2. AllKeys(i) \in Seq(Char) /\ AllKeys(r.kbd) \in Seq(Char)
        BY <1>1, OwedType
      <4> HIDE DEF ch
      <4>3. ed'.in = <<ch>> \o i
        BY <2>3
      <4> HIDE DEF i
      <4>4. AllKeys(<<ch>> \o i) = <<ch>> \o AllKeys(i)
        BY <4>1, AllKeysConcat
      <4>5. (<<ch>> \o AllKeys(i)) \o AllKeys(r.kbd) = <<ch>> \o (AllKeys(i) \o AllKeys(r.kbd))
        BY ONLY <4>1, <4>2, ConcatAssociative
      <4> QED
        BY <2>3, <4>3, <4>4, <4>5 DEF Owed, i
    <3>2. CASE q = <<ch>> \o p
      <4>1. Queue!Look
        BY <1>3, <2>0, <3>1, <3>2 DEF Queue!Look, Owed
      <4> QED
        BY <4>1 DEF Queue!Next
    <3>3. CASE ch = Abort /\ p = q
      <4>1. Queue!Look
        BY <1>3, <3>1, <3>3 DEF Queue!Look, Owed
      <4> QED
        BY <4>1 DEF Queue!Next
    <3> QED
      BY <1>1, <3>2, <3>3
  <2>4. ~(ed'.in = <<>> /\ kbd' = <<>> /\ ed'.at = "ret" /\ ed'.keys \notin DOMAIN Keymap) \/ got' = Beep
    BY DEF Heard
  <2>5. CASE got' = Beep /\ ed'.in = <<>> /\ kbd' = <<>>
    BY <1>2, <2>5
  <2> QED
    BY <2>1, <2>2, <2>3, <2>4, <2>5 DEF Delivered
<1> QED
  BY <1>2, <1>3 DEF Heard

UserKeys == UNION {Range(s.keys) : s \in Sessions}

(* The keys are keys.                                                      *)
Queued == KeysInv /\ Inputs(ed, kbd) /\ todo \in Seq(UserKeys)

LEMMA UserKeysAre == UserKeys \subseteq Char
<1>1. ASSUME NEW s \in Sessions PROVE Range(s.keys) \subseteq Char
  <2>1. s.keys \in Seq(STRING)
    BY KeysAssumption
  <2> QED
    BY <2>1 DEF Range, Char
<1> QED
  BY <1>1 DEF UserKeys

(* A step of the queue, or none, that leaves keys in it.                   *)
Served == Inputs(ed, kbd)' /\ (Queue!Next \/ UNCHANGED Queue!vars)

(* What a command leaves in the queue is a queue of keys.                  *)
LEMMA DeliveredInputs ==
  ASSUME NEW e, NEW k, Inputs(e, k), NEW ch, Delivered(e, k, ch), ch \in Char \/ e.exe \/ e.at # "digits"
  PROVE  Inputs(ed, kbd)'
<1> DEFINE i == e.in
<1>1. i \in Seq(Char) /\ k \in Seq(Char) /\ \A c \in DOMAIN Stuffs : Stuffs[c] \in Seq(Char)
  BY KeysAssumption DEF Inputs, Char
<1> HIDE DEF i
<1>2. \A c \in DOMAIN Stuffs : i \o Stuffs[c] \in Seq(Char)
  BY <1>1, ConcatProperties
<1>3. ch \in Char => <<ch>> \o i \in Seq(Char)
  BY ONLY <1>1
<1>4. <<>> \in Seq(Char)
  OBVIOUS
<1> QED
  BY <1>1, <1>2, <1>3, <1>4 DEF Delivered, Inputs, i

LEMMA StringKeyServed ==
  ASSUME NoCountStrings, Queued, StringKey
  PROVE  Served
<1> DEFINE e == [ed EXCEPT !.str = Tail(@)]
           ch == Head(ed.str)
<1>1. /\ Typed(ed) /\ ed.at # "digits"
      /\ Wanted(ed) /\ Deliver(e, kbd, ch) /\ Heard(got)
  BY DEF Queued, KeysInv, Sound, Base, Placed, StringKey, FromString
<1>2. DOMAIN e = Fields /\ e.in = ed.in /\ e.at = ed.at /\ e.exited = ed.exited
  BY <1>1 DEF Typed, Fields
<1> HIDE DEF e, ch
<1>3. Delivered(e, kbd, ch) /\ Inputs(e, kbd)
  BY <1>1, <1>2, DeliverDelivers DEF Wanted, Inputs, Queued
<1>4. Inputs(ed, kbd)' /\ Inputs(ed, kbd)
  BY <1>1, <1>2, <1>3, DeliveredInputs DEF Queued
<1>5. CASE got' = Beep /\ ed'.in = <<>> /\ kbd' = <<>>
  <2>1. Owed(ed, kbd)' = <<>>
    BY <1>4, <1>5, OwedType DEF Owed
  <2> QED
    BY <1>4, <1>5, <2>1, DropsAll DEF Served
<1>6. CASE got' = got
  <2>1. CASE ed'.in = ed.in /\ kbd' = kbd
    <3>1. Owed(ed, kbd)' = Owed(ed, kbd)
      BY <2>1 DEF Owed
    <3> QED
      BY <1>4, <1>6, <3>1, Remains DEF Served
  <2>2. ASSUME NEW c \in DOMAIN Stuffs, ed'.in = ed.in \o Stuffs[c], kbd' = kbd
        PROVE  Served
    BY <1>4, <1>6, <2>2, StuffsKeys DEF Served
  <2>3. CASE ed'.in = <<>> /\ kbd' = <<>> /\ ed'.at = "ret" /\ ed'.keys \notin DOMAIN Keymap
    BY <1>1, <1>5, <2>3 DEF Heard
  <2> QED
    BY <1>1, <1>2, <1>3, <2>1, <2>2, <2>3 DEF Delivered
<1> QED
  BY <1>1, <1>5, <1>6 DEF Heard

LEMMA MacroKeyServed ==
  ASSUME Queued, MacroKey
  PROVE  Served
<1> DEFINE e == [ed EXCEPT !.ptr = @ + 1]
           ch == ed.mac[ed.ptr + 1]
<1>1. /\ Typed(ed) /\ ed.exe /\ got' = got
      /\ Wanted(ed) /\ Deliver(e, kbd, ch)
  BY DEF Queued, KeysInv, Sound, Base, MacroKey, FromMacro
<1>2. DOMAIN e = Fields /\ e.in = ed.in /\ e.at = ed.at /\ e.exited = ed.exited /\ e.exe
  BY <1>1 DEF Typed, Fields
<1> HIDE DEF e, ch
<1>3. Delivered(e, kbd, ch) /\ Inputs(e, kbd)
  BY <1>1, <1>2, DeliverDelivers DEF Wanted, Inputs, Queued
<1>4. Inputs(ed, kbd)' /\ Inputs(ed, kbd)
  BY <1>2, <1>3, DeliveredInputs DEF Queued
<1>5. CASE ed'.in = ed.in /\ kbd' = kbd
  <2>1. Owed(ed, kbd)' = Owed(ed, kbd)
    BY <1>5 DEF Owed
  <2> QED
    BY <1>1, <1>4, <2>1, Remains DEF Served
<1>6. ASSUME NEW c \in DOMAIN Stuffs, ed'.in = ed.in \o Stuffs[c], kbd' = kbd
      PROVE  Served
  BY <1>1, <1>4, <1>6, StuffsKeys DEF Served
<1> QED
  BY <1>2, <1>3, <1>5, <1>6 DEF Delivered

LEMMA StoredKeeps ==
  ASSUME NEW e, DOMAIN e = Fields, NEW ch
  PROVE  LET f == Echoed(Stored(e, ch))
         IN DOMAIN f = Fields /\ f.in = e.in /\ f.exe = e.exe /\ f.at = e.at /\ f.exited = e.exited
<1> DEFINE Kept(f) ==
      DOMAIN f = Fields /\ f.in = e.in /\ f.exe = e.exe /\ f.at = e.at /\ f.exited = e.exited
<1> DEFINE f == IF e.diff = 0 THEN [e EXCEPT !.max = e.ptr] ELSE e
           m == SubSeq(e.mac, 1, e.ptr) \o <<ch>> \o SubSeq(e.mac, e.ptr + 2, Len(e.mac))
           g == Stored(e, ch)
<1>1. Kept(e) /\ Kept(f)
  BY DEF Fields
<1>2. g = e \/ g = Failed(f) \/ g = [f EXCEPT !.mac = m, !.ptr = @ + 1]
  BY DEF Stored
<1> HIDE DEF f, m
<1>3. Kept(Failed(f))
  BY <1>1 DEF Failed, Fields
<1>4. Kept([f EXCEPT !.mac = m, !.ptr = @ + 1])
  BY <1>1 DEF Fields
<1> HIDE DEF g
<1>5. Kept(g)
  BY <1>1, <1>2, <1>3, <1>4
<1>6. Kept(Echoed(g))
  BY <1>5 DEF Echoed, Fields
<1> QED
  BY <1>6 DEF g

LEMMA KeyServed ==
  ASSUME Queued, Key
  PROVE  Served
<1> DEFINE d == [ed EXCEPT !.exe = FALSE]
           r == MyGetkey(d, kbd)
           e == Echoed(Stored(r.ed, r.ch))
           s == [r EXCEPT !.ed = e]
<1>1. /\ Typed(ed) /\ Wanted(ed) /\ Deliver(e, r.kbd, r.ch) /\ Heard(r.ch)
      /\ ed.in # <<>> \/ kbd # <<>> \/ ed.quit
  BY DEF Queued, KeysInv, Sound, Base, Key
<1>2. /\ DOMAIN d = Fields /\ d.in = ed.in /\ d.at = ed.at /\ d.exited = ed.exited /\ d.exe = FALSE
      /\ d.quit = ed.quit /\ Typed(d)
  BY <1>1 DEF Typed, Fields
<1> HIDE DEF d
<1>3. Inputs(ed, kbd) /\ Inputs(d, kbd)
  BY <1>2 DEF Queued, Inputs
<1>4. Got(d, kbd, r)
  BY <1>1, <1>2, <1>3, GetkeyGets DEF Inputs
<1>5. r.ed.at = d.at /\ r.ed.exited = d.exited
  BY <1>2 DEF MyGetkey, Fields
<1>6. DOMAIN r = {"ch", "kbd", "ed"}
  BY DEF MyGetkey
<1> HIDE DEF r
<1>7. DOMAIN e = Fields /\ e.in = r.ed.in /\ e.exe = r.ed.exe /\ e.at = r.ed.at /\ e.exited = r.ed.exited
  BY <1>4, StoredKeeps DEF Got
<1> HIDE DEF e
<1>8. s.ed = e /\ s.kbd = r.kbd /\ s.ch = r.ch
  BY <1>6
<1> HIDE DEF s
<1>10. Got(ed, kbd, s)
  BY <1>2, <1>4, <1>7, <1>8 DEF Got, Owed
<1>11. Delivered(s.ed, s.kbd, s.ch) /\ Heard(s.ch)
  BY <1>1, <1>2, <1>5, <1>7, <1>8, DeliverDelivers DEF Wanted
<1>12. Inputs(ed, kbd)'
  <2>1. Inputs(s.ed, s.kbd) /\ s.ch \in Char
    BY <1>10 DEF Got, Inputs
  <2> QED
    BY <1>11, <2>1, DeliveredInputs
<1> QED
  BY <1>3, <1>10, <1>11, <1>12, GotStep DEF Served

LEMMA InputPendingServed ==
  ASSUME Queued, InputPending
  PROVE  Served
<1> DEFINE r == MyGetkey(ed, kbd)
           f == r.ed
           ch == r.ch
<1>1. /\ DOMAIN ed = Fields /\ Inputs(ed, kbd) /\ ~ed.exe /\ ed.in = <<>> /\ (kbd # <<>> \/ ed.quit)
      /\ ed' = Ungetkey(f, ch) /\ kbd' = r.kbd /\ got' = got
  BY DEF Queued, KeysInv, Sound, Base, Typed, InputPending
<1>2. Got(ed, kbd, r) /\ f.exe = ed.exe
  BY <1>1, GetkeyGets DEF Inputs
<1> HIDE DEF r
<1>3. /\ DOMAIN f = Fields /\ f.in \in Seq(Char) /\ Len(f.in) \in {0, 1} /\ ch \in Char /\ ~f.exe
      /\ AllKeys(<<ch>>) = <<ch>> /\ r.kbd \in Seq(Char)
  BY <1>1, <1>2 DEF Got
<1>4. Room(f, 1)
  <2>1. InputSize \in Nat /\ InputSize >= 2
    BY KeysAssumption
  <2>2. Len(f.in) + 1 <= InputSize
    <3> DEFINE n == Len(f.in)
    <3>1. n \in {0, 1}
      BY <1>3
    <3> HIDE DEF n
    <3>2. n + 1 <= InputSize
      BY ONLY <2>1, <3>1
    <3> QED
      BY <3>2 DEF n
  <2> QED
    BY <2>2 DEF Room
<1> DEFINE i == f.in
<1>5. ed'.in = <<ch>> \o i
  BY <1>1, <1>3, <1>4 DEF Ungetkey, Fields
<1>6. Owed(f, r.kbd) = AllKeys(i) \o AllKeys(r.kbd)
  BY DEF Owed
<1>7. Inputs(ed, kbd)' /\ Owed(ed, kbd)' = <<ch>> \o Owed(f, r.kbd)
  <2>1. i \in Seq(Char) /\ <<ch>> \in Seq(Char)
    BY <1>3
  <2>2. AllKeys(i) \in Seq(Char) /\ AllKeys(r.kbd) \in Seq(Char)
    BY <1>3, <2>1, AllKeysType
  <2> HIDE DEF i, ch
  <2>3. AllKeys(<<ch>> \o i) = <<ch>> \o AllKeys(i) /\ <<ch>> \o i \in Seq(Char)
    BY <1>3, <2>1, AllKeysConcat, ConcatProperties
  <2>4. (<<ch>> \o AllKeys(i)) \o AllKeys(r.kbd) = <<ch>> \o (AllKeys(i) \o AllKeys(r.kbd))
    BY ONLY <2>1, <2>2, ConcatAssociative
  <2> QED
    BY <1>1, <1>3, <1>5, <1>6, <2>3, <2>4 DEF Owed, Inputs
<1>8. CASE Owed(ed, kbd) = <<ch>> \o Owed(f, r.kbd)
  BY <1>1, <1>7, <1>8, Remains DEF Served
<1>9. CASE ch = Abort /\ Owed(f, r.kbd) = Owed(ed, kbd)
  <2>1. Queue!InterruptAhead
    BY <1>1, <1>7, <1>9 DEF Queue!InterruptAhead, Owed
  <2> QED
    BY <1>7, <2>1 DEF Served, Queue!Next
<1> QED
  BY <1>2, <1>8, <1>9 DEF Got

LEMMA TypeServed ==
  ASSUME Queued, Type
  PROVE  Served /\ (todo \in Seq(UserKeys))'
<1> DEFINE k == Head(todo)
           a == AllKeys(ed.in)
           b == AllKeys(kbd)
<1>1. /\ todo \in Seq(UserKeys) /\ todo # <<>> /\ Inputs(ed, kbd) /\ kbd' = Append(kbd, k)
      /\ todo' = Tail(todo) /\ ed' = ed /\ got' = got
  BY DEF Queued, Type
<1>2. k \in UserKeys /\ todo' \in Seq(UserKeys) /\ k \in Char
  BY <1>1, UserKeysAre
<1>3. a \in Seq(Char) /\ b \in Seq(Char) /\ Split(k) \in Seq(Char)
  BY <1>1, <1>2, OwedType, SplitIs
<1>4. kbd \in Seq(Char) /\ <<k>> \in Seq(Char)
  BY <1>1, <1>2 DEF Inputs
<1> HIDE DEF k
<1>5. kbd' = kbd \o <<k>> /\ kbd' \in Seq(Char)
  <2>1. Append(kbd, k) = kbd \o <<k>>
    BY <1>2, <1>4, AppendIsConcat
  <2>2. kbd \o <<k>> \in Seq(Char)
    BY <1>4, ConcatProperties
  <2> QED
    BY <1>1, <2>1, <2>2
<1>6. AllKeys(kbd)' = b \o Split(k)
  <2>1. AllKeys(kbd \o <<k>>) = AllKeys(kbd) \o AllKeys(<<k>>)
    BY <1>4, AllKeysConcat
  <2> QED
    BY <1>2, <1>5, <2>1, AllKeysOne
<1>7. Owed(ed, kbd)' = a \o (b \o Split(k))
  BY <1>1, <1>6 DEF Owed
<1>8. Owed(ed, kbd)' = Owed(ed, kbd) \o Split(k)
  <2>1. (a \o b) \o Split(k) = a \o (b \o Split(k))
    BY ONLY <1>3, ConcatAssociative
  <2> QED
    BY <1>7, <2>1 DEF Owed
<1>9. Split(k) \in {Split(x) : x \in UserKeys}
  BY <1>2
<1>10. Queue!Type
  BY <1>1, <1>8, <1>9 DEF Queue!Type, Owed, UserKeys
<1> QED
  BY <1>1, <1>2, <1>5, <1>10 DEF Served, Queue!Next, Inputs

(* The queue is left alone.                                                *)
LEMMA AloneServed ==
  ASSUME Queued, ed'.in = ed.in, UNCHANGED <<kbd, got>>
  PROVE  Served
<1>1. Inputs(ed, kbd)' /\ Owed(ed, kbd)' = Owed(ed, kbd)
  BY DEF Queued, Inputs, Owed
<1> QED
  BY <1>1, Remains DEF Served

(* An error is shown.                                                      *)
LEMMA ToldServed ==
  ASSUME Queued, ed'.in = Told(ed).in, Dialog
  PROVE  Served
<1>0. "in" \in DOMAIN ed /\ Inputs(ed, kbd)
  BY DEF Queued, KeysInv, Sound, Base, Typed, Fields
<1>1. CASE ed.msg
  <2>1. ed'.in = <<>> /\ got' = Beep /\ (kbd' = kbd \/ kbd' = <<>>)
    BY <1>0, <1>1 DEF Told, Flushed, Dialog
  <2>2. Inputs(ed, kbd)'
    BY <1>0, <2>1, EmptySeq DEF Inputs
  <2>3. CASE kbd' = kbd
    BY <1>0, <2>1, <2>2, <2>3, DropsBuffer DEF Served
  <2>4. CASE kbd' = <<>>
    <3>1. Owed(ed, kbd)' = <<>>
      BY <2>1, <2>2, <2>4, OwedType DEF Owed
    <3> QED
      BY <1>0, <2>1, <2>2, <3>1, DropsAll DEF Served
  <2> QED
    BY <2>1, <2>3, <2>4
<1>2. CASE ~ed.msg
  <2>1. ed'.in = ed.in /\ UNCHANGED <<kbd, got>>
    BY <1>0, <1>2 DEF Told, Dialog
  <2> QED
    BY <2>1, AloneServed
<1> QED
  BY <1>1, <1>2

LEMMA MainLoopServed ==
  ASSUME Queued, MainLoop
  PROVE  Served
<1> DEFINE t == Told(ed)
           f == [t EXCEPT !.quit = FALSE]
<1>1. ed' = DoJed(f) /\ Dialog
  BY DEF MainLoop
<1>2. "in" \in DOMAIN t
  BY DEF Queued, KeysInv, Sound, Base, Typed, Fields, Told, Flushed
<1> HIDE DEF t
<1>3. "in" \in DOMAIN f /\ f.in = t.in
  BY <1>2
<1> HIDE DEF f
<1>4. ed'.in = t.in
  BY <1>1, <1>3, StepKeeps DEF Keeps
<1> QED
  BY <1>1, <1>4, ToldServed DEF t

LEMMA MiniLoopServed ==
  ASSUME Queued, MiniLoop
  PROVE  Served
<1> DEFINE t == Told(ed)
<1>1. "in" \in DOMAIN t /\ "in" \in DOMAIN ed
  BY DEF Queued, KeysInv, Sound, Base, Typed, Fields, Told, Flushed
<1>2. CASE ed' = MiniDone(ed) /\ Quiet
  <2>1. ed'.in = ed.in
    BY <1>1, <1>2, MiniDoneKeeps DEF Keeps
  <2> QED
    BY <1>2, <2>1, AloneServed DEF Quiet
<1>3. CASE (ed' = MiniDone(t) \/ ed' = DoJed(t)) /\ Dialog
  <2> HIDE DEF t
  <2>1. ed'.in = t.in
    BY <1>1, <1>3, MiniDoneKeeps, StepKeeps DEF Keeps
  <2> QED
    BY <1>3, <2>1, ToldServed DEF t
<1> QED
  BY <1>2, <1>3 DEF MiniLoop

LEMMA ExecLoopServed ==
  ASSUME Queued, ExecLoop
  PROVE  Served
<1>1. "in" \in DOMAIN ed /\ UNCHANGED <<kbd, got>> /\ (ed' = DoJed(ed) \/ ed' = ExecDone(ed))
  BY DEF Queued, KeysInv, Sound, Base, Typed, Fields, ExecLoop, Quiet
<1>2. ed'.in = ed.in
  BY <1>1, StepKeeps, ExecDoneKeeps DEF Keeps
<1> QED
  BY <1>1, <1>2, AloneServed

LEMMA StringLoopServed ==
  ASSUME Queued, StringLoop
  PROVE  Served
<1> DEFINE i == Len(ed.stack)
           d == [ed EXCEPT !.stack[i].n = @ - 1, !.str = Strings[Top(ed).cmd]]
           p == Popped(ed)
           g == [p EXCEPT !.str = Top(ed).rest, !.depth = @ - 1]
<1>1. /\ "in" \in DOMAIN ed /\ UNCHANGED <<kbd, got>>
      /\ ed' = Fresh(ed) \/ ed' = d \/ ed' = Back(g)
  BY DEF Queued, KeysInv, Sound, Base, Typed, Fields, StringLoop, StringDone, Quiet
<1>2. d.in = ed.in
  BY <1>1
<1>3. Fresh(ed).in = ed.in
  BY <1>1 DEF Fresh, Ready
<1>4. Keeps(ed, p)
  BY <1>1, StepKeeps
<1> HIDE DEF p
<1>5. Keeps(p, g)
  BY <1>4 DEF Keeps
<1> HIDE DEF g
<1>6. Keeps(g, Back(g))
  BY <1>5, StepKeeps DEF Keeps
<1>7. Back(g).in = ed.in
  BY <1>4, <1>5, <1>6 DEF Keeps
<1> HIDE DEF d
<1>8. ed'.in = ed.in
  BY <1>1, <1>2, <1>3, <1>7
<1> QED
  BY <1>1, <1>8, AloneServed

LEMMA RepeatLoopServed ==
  ASSUME Queued, RepeatLoop
  PROVE  Served
<1> DEFINE i == Len(ed.stack)
           c == Top(ed).cmd
           e == [ed EXCEPT !.stack[i].n = @ - 1]
           p == Popped(ed)
           g == [p EXCEPT !.repeat = None, !.at = "ret"]
<1>1. /\ "in" \in DOMAIN ed /\ UNCHANGED <<kbd, got>> /\ Inputs(ed, kbd)
      /\ ed' = Interpreted(e, c) \/ ed' = g
  BY DEF Queued, KeysInv, Sound, Base, Typed, Fields, RepeatLoop, Interpret
<1>2. c \in Commands
  <2>1. Typed(ed) /\ Stacked(ed.stack) /\ Top(ed).fn = "repeat"
    BY DEF Queued, KeysInv, Sound, Base, RepeatLoop, Loop
  <2>2. Top(ed) = ed.stack[i] /\ i \in DOMAIN ed.stack
    BY <2>1, TopIs
  <2> QED
    BY <2>1, <2>2 DEF Stacked
<1>3. "in" \in DOMAIN e /\ e.in = ed.in
  BY <1>1
<1>4. Keeps(ed, p)
  BY <1>1, StepKeeps
<1> HIDE DEF p
<1>5. g.in = ed.in
  BY <1>4 DEF Keeps
<1> HIDE DEF e, c, g
<1>6. CASE ed' = Interpreted(e, c)
  <2>1. ed'.in = ed.in \/ (c \in DOMAIN Stuffs /\ ed'.in = ed.in \o Stuffs[c])
    BY <1>2, <1>3, <1>6, InterpretedKeeps
  <2>2. CASE ed'.in = ed.in
    BY <1>1, <2>2, AloneServed
  <2>3. CASE c \in DOMAIN Stuffs /\ ed'.in = ed.in \o Stuffs[c]
    <3>1. Stuffs[c] \in Seq(Char)
      BY <2>3, KeysAssumption DEF Char
    <3>2. Inputs(ed, kbd)'
      BY <1>1, <2>3, <3>1, ConcatProperties DEF Inputs
    <3> QED
      BY <1>1, <2>3, <3>2, StuffsKeys DEF Served
  <2> QED
    BY <2>1, <2>2, <2>3
<1>7. CASE ed' = g
  <2>1. ed'.in = ed.in
    BY <1>5, <1>7
  <2> QED
    BY <1>1, <2>1, AloneServed
<1> QED
  BY <1>1, <1>6, <1>7

(* Signals, hangups, and returns.                                          *)
LEMMA OthersServed ==
  ASSUME Queued, Sigint \/ Sighup \/ Exit \/ Return
  PROVE  Served
<1>1. "in" \in DOMAIN ed /\ UNCHANGED <<kbd, got>>
  BY DEF Queued, KeysInv, Sound, Base, Typed, Fields, Sigint, Sighup, Exit, Return
<1>2. CASE Sigint \/ Sighup \/ Exit
  <2>1. ed'.in = ed.in
    BY <1>1, <1>2 DEF Sigint, Sighup, Exit
  <2> QED
    BY <1>1, <2>1, AloneServed
<1>3. CASE Return
  <2> DEFINE f == IF ed.err THEN [Aborted(ed) EXCEPT !.str = <<>>, !.repeat = None] ELSE ed
             p == Popped(f)
  <2>1. ed' = Back(p) \/ ed' = [f EXCEPT !.at = "loop"]
    BY <1>3 DEF Return
  <2>2. Keeps(ed, f)
    BY <1>1 DEF Keeps, Aborted, SaveState
  <2> HIDE DEF f
  <2>3. Keeps(f, p)
    BY <2>2, StepKeeps DEF Keeps
  <2> HIDE DEF p
  <2>4. Back(p).in = p.in
    BY <2>3, StepKeeps DEF Keeps
  <2>5. ed'.in = ed.in
    BY <2>1, <2>2, <2>3, <2>4 DEF Keeps
  <2> QED
    BY <1>1, <2>5, AloneServed
<1> QED
  BY <1>2, <1>3

LEMMA StepServed ==
  ASSUME NoCountStrings, Queued, [Next]_vars
  PROVE  Queued' /\ Served
<1>1. KeysInv'
  BY NextSound DEF Queued
<1>2. Served /\ (todo \in Seq(UserKeys))'
  <2>1. CASE Type
    BY <2>1, TypeServed
  <2>2. CASE Sigint \/ Sighup \/ ExitPending
    BY <2>2, OthersServed DEF Sigint, Sighup, ExitPending, Exit, Queued
  <2>3. CASE InputPending
    BY <2>3, InputPendingServed DEF InputPending, Queued
  <2>4. CASE StringKey \/ MacroKey \/ Key
    <3>1. todo' = todo
      BY <2>4 DEF StringKey, MacroKey, Key
    <3> QED
      BY <2>4, <3>1, StringKeyServed, MacroKeyServed, KeyServed DEF Queued
  <2>5. CASE ExitWaiting \/ Return
    BY <2>5, OthersServed DEF ExitWaiting, Exit, Return, Queued
  <2>6. CASE MainLoop \/ MiniLoop \/ ExecLoop \/ StringLoop \/ RepeatLoop
    <3>1. todo' = todo
      BY <2>6 DEF MainLoop, MiniLoop, ExecLoop, StringLoop, RepeatLoop, Loop
    <3>2. Served
      BY <2>6, MainLoopServed, MiniLoopServed, ExecLoopServed, StringLoopServed, RepeatLoopServed
    <3> QED
      BY <3>1, <3>2 DEF Queued
  <2>7. CASE UNCHANGED vars
    BY <2>7, AloneServed DEF vars, Queued
  <2> QED
    BY <2>1, <2>2, <2>3, <2>4, <2>5, <2>6, <2>7 DEF Next, Program
<1> QED
  BY <1>1, <1>2 DEF Queued, Served

LEMMA InitServed ==
  ASSUME Init
  PROVE  Queued /\ Queue!Init
<1>1. KeysInv
  BY InitSound
<1>2. todo \in Seq(UserKeys)
  <2>1. PICK s \in Sessions : todo = s.keys
    BY DEF Init
  <2>2. s.keys \in Seq(STRING)
    BY KeysAssumption
  <2>3. Range(s.keys) \subseteq UserKeys
    BY DEF UserKeys
  <2>4. \A i \in DOMAIN s.keys : s.keys[i] \in Range(s.keys)
    BY DEF Range
  <2> DEFINE t == s.keys
  <2>5. t \in Seq(STRING) /\ \A i \in DOMAIN t : t[i] \in UserKeys
    BY <2>2, <2>3, <2>4
  <2> HIDE DEF t
  <2>6. t \in Seq(UserKeys)
    BY ONLY <2>5
  <2> QED
    BY <2>1, <2>6 DEF t
<1>3. ed.in = <<>> /\ kbd = <<>> /\ got = Beep
  BY DEF Init, Start
<1>4. Inputs(ed, kbd)
  BY <1>3, EmptySeq DEF Inputs
<1>5. Owed(ed, kbd) = <<>>
  BY <1>3, <1>4, OwedType
<1> QED
  BY <1>1, <1>2, <1>3, <1>4, <1>5 DEF Queued, Queue!Init, Owed

(* The keys of the terminal and of the input buffer are a queue: commands  *)
(* get them in order, what one gives back is next, and nothing is lost     *)
(* without a beep, whatever macros, strings, signals and hangups come in   *)
(* between.                                                                *)
THEOREM KeysQueue == ASSUME NoCountStrings PROVE Spec => KeysAreAQueue
<1>1. Init => Queued /\ Queue!Init
  BY InitServed
<1>2. Queued /\ [Next]_vars => Queued' /\ [Queue!Next]_(Queue!vars)
  BY StepServed DEF Served
<1> QED
  BY <1>1, <1>2, PTL DEF Spec, KeysAreAQueue, Queue!Spec
=============================================================================
