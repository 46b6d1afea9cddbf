------------------------------- MODULE MCKeys -------------------------------
(* Small instances of Keys for TLC.                                        *)
EXTENDS Keys, TLC

MCMeta == "E" :> <<"esc", "2">>
MCDigits == "2" :> 2 @@ "0" :> 0
MCStrings == "twice" :> <<"a", "a">> @@ "again" :> <<"w">>
MCStuffs == "stuff" :> <<"E">>
MCKeymap ==
  <<"a">> :> "insert" @@ <<"(">> :> "begin" @@ <<")">> :> "end" @@ <<"x">> :> "exec"
  @@ <<"q">> :> "query" @@ <<"m">> :> "prompt" @@ <<"r">> :> "exit" @@ <<"g">> :> "quit"
  @@ <<"esc", "2">> :> "digit" @@ <<"esc", "0">> :> "digit" @@ <<"y">> :> "yes"
  @@ <<"l">> :> "lock" @@ <<"s">> :> "twice" @@ <<"w">> :> "again" @@ <<"b">> :> "stuff"

(* What is typed: a macro is defined, with two pieces of input in it, and  *)
(* executed, with a count or without, and then something else.             *)
Pieces == {<<"a">>, <<"E">>, <<"q">>, <<"m">>, <<"r">>, <<"s">>, <<"u">>, <<"l">>, <<"b">>}
Typed(P, Q, R) ==
  {<<"(">> \o p \o q \o <<")">> \o x : p \in P, q \in Q, x \in R}
Calm(S) == {[keys |-> s, signals |-> 0] : s \in S}
Signalled(S) == {[keys |-> s, signals |-> 1] : s \in S}

MCSessions ==
  Calm(Typed(Pieces, Pieces \cup {<<"m", "r">>}, {<<"x">>, <<"E", "x">>}))
  \cup Signalled(Typed({<<"E">>, <<"q">>, <<"m">>}, {<<"m", "r">>, <<"l">>, <<"s">>, <<"b">>}, {<<"x">>}))
  \cup Calm(Typed({<<"q">>}, {<<"x", "r">>, <<"(", "r">>, <<"l", "a", "r">>}, {<<"x", "r">>}))
  \cup Calm(Typed({<<"y">>}, {<<"a">>, <<"m">>, <<"r">>}, {<<"esc", "0", "x">>, <<"x", "x">>}))
  \cup Signalled({<<"w", "w">>, <<"m", "E", "m">>, <<"esc", "2", "2", "u">>, <<"E", "m", "r", "r">>})
  \cup Calm({<<"E", "E", "u", "a">>, <<"E", "E", "a">>})
=============================================================================
