------------------------------ MODULE MCNarrow ------------------------------
(* A small instance of Narrow for TLC.                                     *)
EXTENDS Narrow

MCInitText == <<<<"a", NL>>, <<NL>>, <<"b">>>>
MCInserts == {<<"c">>, <<"c", NL>>}
=============================================================================
