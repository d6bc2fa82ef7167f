--------------------------- MODULE MCEventSource ---------------------------
(* Small instances of EventSource for TLC. *)
EXTENDS EventSource, TLC

Sym == Permutations(Timer) \cup Permutations(Io)
=============================================================================
