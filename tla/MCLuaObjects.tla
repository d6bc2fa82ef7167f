---------------------------- MODULE MCLuaObjects ----------------------------
(* Small instances of LuaObjects for TLC. *)
EXTENDS LuaObjects, TLC

Sym == Permutations(Object) \cup Permutations(Proxy)
=============================================================================
