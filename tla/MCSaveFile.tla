----------------------------- MODULE MCSaveFile -----------------------------
(* Instances of SaveFile for TLC: see the .cfg files.                      *)
EXTENDS SaveFile
=============================================================================
