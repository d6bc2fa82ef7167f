----------------------------- MODULE MCDiObject -----------------------------
(***************************************************************************)
(* Small instances of the object layer for TLC.                             *)
(***************************************************************************)
EXTENDS DiObject, TLC

Sym == Permutations(Object) \cup Permutations(Name) \cup Permutations(Slot)
=============================================================================
