--------------------------- MODULE MCEventPlugins ---------------------------
(***************************************************************************)
(* Small instances of the event sources and of the plugins that live on     *)
(* their callbacks: the file plugin, the names of the D-Bus plugin, and the *)
(* connections, keys and input devices of the X plugin. A behaviour is one  *)
(* of one part; the variables of the others stay as they are initially.     *)
(***************************************************************************)
EXTENDS EventSource, FileWatch, DBusNames, XorgConn, XKey, XinputDevices, TLC

VARIABLE part       \* the part that runs

Sym == Permutations(Timer) \cup Permutations(Io)

PathFile == [p \in {"p", "q", "r"} |-> IF p = "r" THEN "g" ELSE "f"]
Prefixes == {<<"a", "b">>}
TakenGrabs == {<<2, "m">>}

-----------------------------------------------------------------------------
\* No name has an owner, and no keysym a keycode.
NoNames == owner = [n \in Wk |-> NoOwner] /\ NamesInit
NoKeys == keycodes = [s \in KeySym |-> {}] /\ KeyInit

MCInit ==
    /\ Init /\ FileInit /\ XorgInit /\ XinputInit
    /\ \/ part \in {"events", "file", "xorg", "xinput"} /\ NoNames /\ NoKeys
       \/ part = "names" /\ NamesInit /\ NoKeys
       \/ part = "key" /\ NoNames /\ KeyInit

EventSourceStep ==
    part = "events" /\ Next /\ UNCHANGED <<part, fileVars, nameVars, xorgVars, keyVars, xinputVars>>
FileStep ==
    part = "file" /\ FileNext /\ UNCHANGED <<part, vars, nameVars, xorgVars, keyVars, xinputVars>>
NamesStep ==
    part = "names" /\ NamesNext /\ UNCHANGED <<part, vars, fileVars, xorgVars, keyVars, xinputVars>>
XorgStep ==
    part = "xorg" /\ XorgNext /\ UNCHANGED <<part, vars, fileVars, nameVars, keyVars, xinputVars>>
KeyStep ==
    part = "key" /\ KeyNext /\ UNCHANGED <<part, vars, fileVars, nameVars, xorgVars, xinputVars>>
XinputStep ==
    part = "xinput" /\ XinputNext /\ UNCHANGED <<part, vars, fileVars, nameVars, xorgVars, keyVars>>

MCNext == EventSourceStep \/ FileStep \/ NamesStep \/ XorgStep \/ KeyStep \/ XinputStep

MCSpec ==
    MCInit /\ [][MCNext]_<<part, vars, fileVars, nameVars, xorgVars, keyVars, xinputVars>>
=============================================================================
