-------------------------------- MODULE MCLua -------------------------------
(***************************************************************************)
(* Small instances of the Lua plugin and of the member dispatch that its    *)
(* scripts go through: proxies, listeners, the state and its scripts, the   *)
(* conversion of values, and the members of one object. A behaviour is one  *)
(* of one part; the variables of the others stay as they are initially.     *)
(***************************************************************************)
EXTENDS LuaObjects, LuaListeners, LuaState, LuaValues, Members

VARIABLES
    part       \* the part that runs

Numbers == {-3, 1, 3, 4, 5}

\* A name with a getter and both kinds of setters, and the deleter of all names;
\* an internal name, with the setter and the deleter of all names
Ordinary == {<<"", "a">>, <<"__get", "a">>, <<"__set", "a">>, <<"__set", "">>, <<"__delete", "">>}
Guarded == {<<"", "__i">>, <<"__set", "">>, <<"__delete", "">>}
Names == Ordinary \cup Guarded

InUse == {n \in Names : \/ table[n] # Absent
                        \/ \E i \in 1..Len(frames) : frames[i].name = n}

NoValues ==
    /\ lua53 = TRUE /\ origin = Unset /\ onStack = LuaNil /\ result = Unset
    /\ at = 0 /\ elem = "none" /\ vpc = "back"

-----------------------------------------------------------------------------
MCInit ==
    /\ Init /\ ListenInit /\ LuaInit /\ MembersInit
    /\ \/ part \in {"proxies", "listeners", "state", "members", "internal"} /\ NoValues
       \/ part = "values" /\ ValuesInit

LuaObjectsStep ==
    part = "proxies" /\ Next /\ UNCHANGED <<part, listenVars, stateVars, valueVars, memberVars>>
ListenersStep ==
    part = "listeners" /\ ListenNext /\ UNCHANGED <<part, allVars, stateVars, valueVars, memberVars>>
StateStep == part = "state" /\ LuaNext /\ UNCHANGED <<part, allVars, listenVars, valueVars, memberVars>>
ValuesStep ==
    part = "values" /\ ValuesNext /\ UNCHANGED <<part, allVars, listenVars, stateVars, memberVars>>
MembersStep ==
    /\ part \in {"members", "internal"}
    /\ MembersNext
    /\ InUse' \subseteq (IF part = "members" THEN Ordinary ELSE Guarded)
    /\ UNCHANGED <<part, allVars, listenVars, stateVars, valueVars>>

MCNext == LuaObjectsStep \/ ListenersStep \/ StateStep \/ ValuesStep \/ MembersStep

MCSpec == MCInit /\ [][MCNext]_<<part, allVars, listenVars, stateVars, valueVars, memberVars>>

=============================================================================
