----------------------------- MODULE MCDiSignal -----------------------------
(* Small instances of DiSignal for TLC. *)
EXTENDS DiSignal

Sym == Permutations(Sig) \cup Permutations(Handle)
=============================================================================
