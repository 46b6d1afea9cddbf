------------------------------- MODULE Abbrev -------------------------------
(***************************************************************************)
(* The abbreviations of JED (abbrev.c) and the typing of a character with  *)
(* abbrev mode on (ins_char_cmd of cmds.c).                                *)
(*                                                                         *)
(* There is a list of tables and, apart from it, the table "Global".  A    *)
(* buffer points to a table or, with NULL, stands for the global one.  A   *)
(* table is known by its name.                                             *)
(*                                                                         *)
(* The lines that are typed in, the place and overwrite mode are inputs of *)
(* a step.  Wrapping, the blinking of brackets and running out of memory   *)
(* are left out.                                                           *)
(***************************************************************************)
EXTENDS Naturals, Sequences, FiniteSets, SequencesExt

CONSTANTS
  TableNames, \* the names of the tables that are not global
  Buffers,   \* the buffers there are
  Chars,     \* the characters that are typed
  WordSets,  \* the sets of characters a table may have for its words
  Entries,   \* what may be defined: [word, string, leave]
  Lines,     \* the lines that are typed in
  MaxSteps   \* bound on the commands

Global == "Global"
Null == "NULL"  \* the pointer of a buffer without a table of its own
Tables == TableNames \cup {Global}

ASSUME AbbrevAssumption ==
  /\ Null \notin TableNames
  /\ WordSets \subseteq SUBSET Chars /\ Lines \subseteq Seq(Chars)
  /\ Entries \subseteq [word : Seq(Chars), string : Seq(Chars), leave : BOOLEAN]
  /\ \A e \in Entries : e.word # <<>>
  /\ MaxSteps \in Nat

VARIABLES
  list,     \* Abbrev_Tables, the newest first
  global,   \* is there a Global_Abbrev_Table?
  abbrevs,  \* the entries of each table
  chars,    \* word_chars of each table
  table,    \* abbrev_table of each buffer
  cbuf,     \* the current buffer
  line,     \* the line typed in last, and the place of the cursor
  steps

abbrevVars == <<list, global, abbrevs, chars, table, cbuf, line, steps>>

AbbrevInit ==
  /\ list = <<>> /\ global = FALSE
  /\ abbrevs = [t \in Tables |-> {}]
  /\ chars = [t \in Tables |-> {}]
  /\ table = [b \in Buffers |-> Null]
  /\ cbuf \in Buffers
  /\ line = [text |-> <<>>, point |-> 0]
  /\ steps = 0

Exists(t) == t \in ToSet(list) \/ (t = Global /\ global)

Step ==
  /\ steps < MaxSteps
  /\ steps' = steps + 1

(* A table that exists keeps its abbreviations. *)
CreateAbbrevTable(t, w) ==
  /\ Step
  /\ chars' = [chars EXCEPT ![t] = w]
  /\ global' = (global \/ t = Global)
  /\ list' = IF t = Global \/ Exists(t) THEN list ELSE <<t>> \o list
  /\ UNCHANGED <<abbrevs, table, cbuf, line>>

(* A plausible bug: a word that has an abbreviation gets another one. *)
BugDefine(t, e) ==
  /\ Step /\ Exists(t)
  /\ abbrevs' = [abbrevs EXCEPT ![t] = @ \cup {e}]
  /\ UNCHANGED <<list, global, chars, table, cbuf, line>>

DefineAbbrev(t, e) ==
  /\ Step /\ Exists(t)
  /\ abbrevs' = [abbrevs EXCEPT ![t] = {d \in @ : d.word # e.word} \cup {e}]
  /\ UNCHANGED <<list, global, chars, table, cbuf, line>>

UseAbbrevTable(t) ==
  /\ Step /\ Exists(t)
  /\ table' = [table EXCEPT ![cbuf] = t]
  /\ UNCHANGED <<list, global, abbrevs, chars, cbuf, line>>

(* A plausible bug: only the current buffer lets go of the table. *)
BugForgotten(t) == [table EXCEPT ![cbuf] = IF @ = t THEN Null ELSE @]

Forgotten(t) == [b \in Buffers |-> IF table[b] = t THEN Null ELSE table[b]]

(* The loop that looks for the table before the one at place i of the list *)
(* moves the wrong pointer (abbrev.c:219).  It ends only when that one is  *)
(* the second of the list; for a later one it follows a NULL pointer, and  *)
(* JED is gone.                                                            *)
IsUnlinked(i) == i <= 2

DeleteAbbrevTable(t) ==
  /\ Step /\ Exists(t)
  /\ \/ t = Global /\ global' = FALSE /\ UNCHANGED list
     \/ \E i \in DOMAIN list :
          /\ list[i] = t /\ IsUnlinked(i)
          /\ list' = RemoveAt(list, i)
          /\ UNCHANGED global
  /\ table' = Forgotten(t)
  /\ abbrevs' = [abbrevs EXCEPT ![t] = {}]
  /\ chars' = [chars EXCEPT ![t] = {}]
  /\ UNCHANGED <<cbuf, line>>

SwitchToBuffer(b) ==
  /\ Step /\ b # cbuf
  /\ cbuf' = b
  /\ UNCHANGED <<list, global, abbrevs, chars, table, line>>

-----------------------------------------------------------------------------
(* Typing the character c at place p of the line s.                        *)

(* Plausible bugs: the scan stops at the beginning of the line only; an    *)
(* abbreviation is found when it begins the word.                          *)
BugWordAt(s, p, w) == SubSeq(s, 1, p)
BugEntry(word, t) == {e \in abbrevs[t] : IsPrefix(e.word, word)}

(* The characters of w before the place p. *)
WordAt(s, p, w) ==
  LET from == CHOOSE i \in 0..p : /\ \A j \in (i + 1)..p : s[j] \in w
                                  /\ i > 0 => s[i] \notin w
  IN SubSeq(s, from + 1, p)

Entry(word, t) == {e \in abbrevs[t] : e.word = word}

(* n characters are deleted from place p on, no newline among them. *)
Deleted(s, p, n) == SubSeq(s, 1, p) \o SubSeq(s, p + n + 1, Len(s))
Inserted(s, p, x) == SubSeq(s, 1, p) \o x \o SubSeq(s, p + 1, Len(s))

(* The table of jed_expand_abbrev. *)
InForce == {t \in Tables : \/ table[cbuf] = t
                           \/ table[cbuf] = Null /\ t = Global /\ global}

Expanded(s, p, c, over, e) ==
  LET n == Len(e.word)
      bare == Deleted(s, p - n, n)
      room == IF over THEN Deleted(bare, p - n, Len(e.string)) ELSE bare
      new == IF e.leave THEN e.string ELSE Append(e.string, c)
  IN [text |-> Inserted(room, p - n, new), point |-> p - n + Len(new)]

Plain(s, p, c, over) ==
  [text |-> Inserted(IF over THEN Deleted(s, p, 1) ELSE s, p, <<c>>), point |-> p + 1]

InsCharCmd(s, p, c, over) ==
  LET found == UNION {Entry(WordAt(s, p, chars[t]), t) : t \in {u \in InForce : c \notin chars[u]}}
  IN /\ Step
     /\ \/ \E e \in found : line' = Expanded(s, p, c, over, e)
        \/ found = {} /\ line' = Plain(s, p, c, over)
     /\ UNCHANGED <<list, global, abbrevs, chars, table, cbuf>>

AbbrevNext ==
  \/ \E t \in Tables, w \in WordSets : CreateAbbrevTable(t, w)
  \/ \E t \in Tables, e \in Entries : DefineAbbrev(t, e)
  \/ \E t \in Tables : UseAbbrevTable(t) \/ DeleteAbbrevTable(t)
  \/ \E b \in Buffers : SwitchToBuffer(b)
  \/ \E s \in Lines, c \in Chars, over \in BOOLEAN :
       \E p \in 0..Len(s) : InsCharCmd(s, p, c, over)

AbbrevSpec == AbbrevInit /\ [][AbbrevNext]_abbrevVars

-----------------------------------------------------------------------------
AbbrevTypeOK ==
  /\ list \in Seq(TableNames) /\ global \in BOOLEAN
  /\ abbrevs \in [Tables -> SUBSET Entries]
  /\ chars \in [Tables -> SUBSET Chars]
  /\ table \in [Buffers -> Tables \cup {Null}]
  /\ cbuf \in Buffers
  /\ line.text \in Seq(Chars) /\ line.point \in 0..Len(line.text)
  /\ steps \in 0..MaxSteps

(* No buffer points to a table that was deleted, whoever used it, and a    *)
(* word has one abbreviation in a table (abbrev.c:209-216, 265-277).       *)
TablesSound ==
  /\ \A b \in Buffers : table[b] = Null \/ Exists(table[b])
  /\ \A t \in Tables : \A d, e \in abbrevs[t] : d.word = e.word => d = e

(* The ways in which a word that ends at p, before c, has an expansion:    *)
(* where the word begins, the abbreviation and its table.                  *)
IsWord(s, p, c, t, a) ==
  /\ c \notin chars[t]
  /\ \A j \in (a + 1)..p : s[j] \in chars[t]
  /\ a > 0 => s[a] \notin chars[t]

Expansions(s, p, c) ==
  {x \in (0..p) \X Entries \X InForce :
     /\ IsWord(s, p, c, x[3], x[1])
     /\ x[2] \in abbrevs[x[3]] /\ x[2].word = SubSeq(s, x[1] + 1, p)}

Expands(s, p, c, over) ==
  LET rest == SubSeq(s, p + 1, Len(s))
      typed == SubSeq(line'.text, 1, line'.point)
      left == SubSeq(line'.text, line'.point + 1, Len(line'.text))
  IN /\ IF over THEN IsSuffix(left, rest) ELSE left = rest
     /\ Expansions(s, p, c) = {} => typed = SubSeq(s, 1, p) \o <<c>>
     /\ \A x \in Expansions(s, p, c) :
          typed = SubSeq(s, 1, x[1]) \o x[2].string \o (IF x[2].leave THEN <<>> ELSE <<c>>)

(* What is typed is what abbrev.txt says: when a character that cannot be  *)
(* in a word comes after a word, which begins after another such character *)
(* or at the beginning of the line, the expansion takes the word's place;  *)
(* otherwise nothing before the cursor changes.  What follows the cursor   *)
(* stays, or some of it is overwritten.                                    *)
ExpandsWord ==
  [][\A s \in Lines, c \in Chars, over \in BOOLEAN : \A p \in 0..Len(s) :
       InsCharCmd(s, p, c, over) => Expands(s, p, c, over)]_abbrevVars
=============================================================================
