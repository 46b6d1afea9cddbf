------------------------------ MODULE MCAbbrev ------------------------------
(* Instances of Abbrev for TLC.                                            *)
EXTENDS Abbrev

MCChars == {"a", "b", "."}
MCWordSets == {{"a", "b"}, {"a", "."}}

(* Two expansions of one word, one that is longer than the word and leaves *)
(* the cursor at its end, and a word that is part of another one.          *)
MCEntries ==
  {[word |-> <<"a">>, string |-> <<"b">>, leave |-> FALSE],
   [word |-> <<"a">>, string |-> <<"b", ".", "a">>, leave |-> TRUE],
   [word |-> <<"b", "a">>, string |-> <<>>, leave |-> FALSE]}

MCLines == {<<"b", "a">>, <<"b", ".", "a">>, <<"a", "a", "b">>}
=============================================================================
