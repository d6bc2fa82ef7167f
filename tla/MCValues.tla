------------------------------ MODULE MCValues ------------------------------
(***************************************************************************)
(* Small instances of signals, of the parts that handle values (conversions *)
(* and calls, the search for leaks, keymaps and input properties), and of   *)
(* main from its start to its exit and the killing of descendants. A        *)
(* behaviour is one of one part; the variables of the others stay as they   *)
(* are initially.                                                           *)
(***************************************************************************)
EXTENDS DiSignal, LeakCheck, Callable, XKeymap, XinputProps, MainLoop,
        KillDescendants

VARIABLES
    part       \* the part that runs

Sym == Permutations(Sig) \cup Permutations(Handle)

CallArguments ==
    {[type |-> "nint", v |-> -1], [type |-> "uint", v |-> 1], [type |-> "nil", v |-> "nil"],
     [type |-> "literal", v |-> "literal"], [type |-> "object", v |-> "object"],
     [type |-> "variant", v |-> [type |-> "object", v |-> "object"]]}

KeyLevels == {<<{1}, {2}, {3}>>, <<{1, 2}>>}
KeyActions ==
    {[kind |-> "plain", mods |-> {}], [kind |-> "latch", mods |-> {2}]}
    \cup [kind : {"set"}, mods : {{1}, {1, 2}}] \cup [kind : {"lock"}, mods : {{1}, {2}}]

Numbers == {-1, 0, 5}
Moduli == [f \in {1, 2, 4} |-> 2 ^ (f + 1)]

Plugins == <<"lua.so", "file.so">>
PluginModule == [f \in {"lua.so", "file.so"} |-> IF f = "lua.so" THEN "lua" ELSE "file"]
CommandLine == [module : {"", "lua", "x"},
                args : {<<>>, <<"typed", "--", "bad">>, <<"bad">>}]

-----------------------------------------------------------------------------
\* There is nothing to look for, or to convert.
NoObjects == edge = [n \in Node |-> {}] /\ anonRoots = {} /\ LeakInit
NoProbe == probe = [in |-> [type |-> "nil", v |-> "nil"], outty |-> "nil"]
NoKeymap ==
    /\ keys = [k \in Codes |-> [does |-> [kind |-> "plain", mods |-> {}], syms |-> <<>>]]
    /\ KeymapStart

NoMain == command = NoCommand /\ MainInit
NoProcesses == parent = [p \in Pid |-> IF p = 1 THEN 0 ELSE 1] /\ KillInit

MCInit ==
    /\ part \in {"signals", "calls", "properties", "convert", "leaks", "keymap", "main", "kill"}
    /\ Init /\ CallableInit /\ PropsInit
    /\ IF part = "convert" THEN ConvertInit ELSE NoProbe
    /\ IF part = "leaks" THEN LeakInit ELSE NoObjects
    /\ IF part = "keymap" THEN KeymapInit ELSE NoKeymap
    /\ IF part = "main" THEN MainInit ELSE NoMain
    /\ IF part = "kill" THEN KillInit ELSE NoProcesses

callAndProbe == <<callVars, probe>>
inputVars == <<keymapVars, propVars>>
life == <<mainVars, killVars>>

SignalStep == part = "signals" /\ Next /\ UNCHANGED <<part, leakVars, callAndProbe, inputVars, life>>
ConvertStep ==
    part = "convert" /\ ConvertNext /\ UNCHANGED <<part, vars, leakVars, callVars, inputVars, life>>
CallsStep ==
    part = "calls" /\ CallableNext /\ UNCHANGED <<part, vars, leakVars, probe, inputVars, life>>
LeaksStep == part = "leaks" /\ LeakNext /\ UNCHANGED <<part, vars, callAndProbe, inputVars, life>>
KeymapStep ==
    part = "keymap" /\ KeymapNext /\ UNCHANGED <<part, vars, leakVars, callAndProbe, propVars, life>>
PropertiesStep ==
    part = "properties" /\ PropsNext
    /\ UNCHANGED <<part, vars, leakVars, callAndProbe, keymapVars, life>>
MainStep ==
    part = "main" /\ MainNext
    /\ UNCHANGED <<part, vars, leakVars, callAndProbe, inputVars, killVars>>
KillStep ==
    part = "kill" /\ KillNext
    /\ UNCHANGED <<part, vars, leakVars, callAndProbe, inputVars, mainVars>>

MCNext ==
    \/ SignalStep \/ ConvertStep \/ CallsStep \/ LeaksStep
    \/ KeymapStep \/ PropertiesStep \/ MainStep \/ KillStep

MCSpec == MCInit /\ [][MCNext]_<<part, vars, leakVars, callAndProbe, inputVars, life>>

=============================================================================
