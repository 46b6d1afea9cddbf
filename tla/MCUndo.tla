------------------------------- MODULE MCUndo -------------------------------
(***************************************************************************)
(* Small instances of Undo.  A ring of three objects wraps within          *)
(* a few commands; an object that holds two bytes makes a deletion of      *)
(* three span two objects; insertions merge up to MergeMax.                *)
(***************************************************************************)
EXTENDS Undo

MCInitText == <<"a", NL>>
MCInserts == {<<"b">>, <<"b", NL, "a">>}
MCDeletes == {1, 3}
=============================================================================
