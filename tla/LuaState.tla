------------------------------ MODULE LuaState ------------------------------
(***************************************************************************)
(* The Lua state, its scripts and the calls between Lua and deai            *)
(* (plugins/lua/lua.c).  The state is owned by the scripts loaded into it,  *)
(* a script by its users and by the Lua values it gave out (di_lua_ref);    *)
(* the module has a weak reference to the state.  The registry names the    *)
(* script that runs (the environment), which becomes the owner of the Lua   *)
(* values that are given out, and which calls exchange and restore.         *)
(***************************************************************************)
EXTENDS Naturals, FiniteSets, Sequences, SequencesExt

CONSTANTS
    LuaScript,      \* script objects, each loaded at most once
    MaxRefs,        \* bound on the Lua values of a script outside of Lua
    MaxCalls,       \* bound on nested calls
    MaxStates       \* bound on the states created

\* No script in the registry
NoScript == 0

ASSUME StateAssumption ==
    /\ NoScript \notin LuaScript /\ IsFiniteSet(LuaScript)
    /\ MaxRefs \in Nat /\ MaxCalls \in Nat /\ MaxStates \in Nat

VARIABLES
    states,     \* the states created: rc, and the script in the registry
    module,     \* the state __lua_state names, 0 for none
    script,     \* each script object: rc, its state, users, and values given out
    active,     \* calls into Lua, innermost last: kind, script, state, saved environment
    astray      \* a getter has failed, and left its script in the registry

stateVars == <<states, module, script, active, astray>>

NewScript == [rc |-> 0, state |-> 0, users |-> 0, refs |-> 0]

LuaInit ==
    /\ states = <<>> /\ module = 0
    /\ script = [s \in LuaScript |-> NewScript]
    /\ active = <<>> /\ astray = FALSE

----------------------------------------------------------------------------
(* References; w is the part of the state they change *)

World == [states |-> states, script |-> script]
Becomes(w) == states' = w.states /\ script' = w.script

RefState(w, st) == [w EXCEPT !.states[st].rc = @ + 1]
UnrefState(w, st) == [w EXCEPT !.states[st].rc = @ - 1]
RefScript(w, s) == [w EXCEPT !.script[s].rc = @ + 1]

\* A script that is destroyed gives its state up.
UnrefScript(w, s) ==
    LET t == [w EXCEPT !.script[s].rc = @ - 1] IN
    IF t.script[s].rc > 0 \/ t.script[s].state = 0 THEN t
    ELSE UnrefState([t EXCEPT !.script[s].state = 0], t.script[s].state)

\* What a call holds is given up when it ends.
ReleaseCall(w, call) ==
    LET t == IF "script" \in call.holds THEN UnrefScript(w, call.script) ELSE w IN
    IF "state" \in call.holds THEN UnrefState(t, call.state) ELSE t

\* di_lua_xchg_env
SetEnv(w, st, s) == [w EXCEPT !.states[st].env = s]

----------------------------------------------------------------------------
(* di_lua_load_script *)

\* lua_new_state, unless the state the module knows is still there
FindState == IF module # 0 /\ states[module].rc > 0 THEN module ELSE Len(states) + 1

WithState(st) ==
    IF st <= Len(states) THEN RefState(World, st)
    ELSE [World EXCEPT !.states = Append(@, [rc |-> 1, env |-> NoScript])]

\* A file that cannot be read or parsed: the script and the reference to the
\* state are dropped.
LoadFails(s) ==
    /\ script[s] = NewScript /\ Len(active) < MaxCalls /\ FindState <= MaxStates
    /\ Becomes(UnrefState(WithState(FindState), FindState))
    /\ module' = FindState
    /\ UNCHANGED <<active, astray>>

\* The new script takes the reference to the state.
NewIn(w, s, st) == [w EXCEPT !.script[s] = [NewScript EXCEPT !.rc = 1, !.state = st]]

LoadScript(s) ==
    /\ script[s] = NewScript /\ Len(active) < MaxCalls /\ FindState <= MaxStates
    /\ LET st == FindState
           w == RefState(NewIn(WithState(st), s, st), st) IN
       /\ Becomes(SetEnv(w, st, s))
       /\ module' = st
       /\ active' = Append(active, [kind |-> "load", script |-> s, state |-> st,
                                    holds |-> {"script", "state"}, saved |-> w.states[st].env])
    /\ UNCHANGED astray

----------------------------------------------------------------------------
(* Lua code that runs *)

Top == Last(active)
Env == states[Top.state].env

\* lua_type_to_di_object: a function or table is given out for the script in
\* the registry; di_lua_errfunc reads the same script.
GiveOut ==
    /\ active # <<>> /\ Env # NoScript
    /\ script[Env].rc > 0 /\ script[Env].refs < MaxRefs
    /\ Becomes([RefScript(World, Env) EXCEPT !.script[Env].refs = @ + 1])
    /\ UNCHANGED <<module, active, astray>>

\* call_lua_function, from outside or from Lua, holds the script and the state.
CallFunction(s) ==
    /\ script[s].refs > 0 /\ Len(active) < MaxCalls
    /\ LET st == script[s].state IN
       /\ Becomes(SetEnv(RefState(RefScript(World, s), st), st, s))
       /\ active' = Append(active, [kind |-> "call", script |-> s, state |-> st,
                                    holds |-> {"script", "state"}, saved |-> states[st].env])
    /\ UNCHANGED <<module, astray>>

\* di_lua_di_getter: a value that deai has no type for is returned as an error
\* before the registry is restored.
GetterFails(s) ==
    /\ script[s].refs > 0
    /\ Becomes(SetEnv(World, script[s].state, s))
    /\ astray' = TRUE
    /\ UNCHANGED <<module, active>>

\* Mutant: the environment of a call that failed stays.
RestoredUnlessFailed(w, failed) ==
    IF failed THEN w ELSE SetEnv(w, Top.state, Top.saved)
Restored(w, failed) == SetEnv(w, Top.state, Top.saved)

\* The call ends: the environment is what it was, a script that loaded goes to
\* its user, and the references of the call are dropped.
Ends(failed) ==
    /\ active # <<>>
    /\ LET w == Restored(World, failed) IN
       Becomes(ReleaseCall(IF Top.kind = "load" /\ ~failed
                       THEN [RefScript(w, Top.script) EXCEPT !.script[Top.script].users = @ + 1]
                       ELSE w, Top))
    /\ active' = Front(active)
    /\ UNCHANGED <<module, astray>>

----------------------------------------------------------------------------
(* The users of scripts and of Lua values *)

DropScript(s) ==
    /\ script[s].users > 0
    /\ Becomes(UnrefScript([World EXCEPT !.script[s].users = @ - 1], s))
    /\ UNCHANGED <<module, active, astray>>

\* lua_ref_dtor
DropRef(s) ==
    /\ script[s].refs > 0
    /\ Becomes(UnrefScript([World EXCEPT !.script[s].refs = @ - 1], s))
    /\ UNCHANGED <<module, active, astray>>

LuaNext ==
    \/ \E s \in LuaScript : \/ LoadFails(s) \/ LoadScript(s) \/ CallFunction(s) \/ GetterFails(s)
                            \/ DropScript(s) \/ DropRef(s)
    \/ GiveOut \/ \E failed \in BOOLEAN : Ends(failed)

LuaSpec == LuaInit /\ [][LuaNext]_stateVars
----------------------------------------------------------------------------
\* There is one Lua state at a time (lua.c:89): a script is loaded into the one
\* that is there, and a new one is made only after the last was closed.
OneState == \A i, j \in 1..Len(states) : states[i].rc > 0 /\ states[j].rc > 0 => i = j

\* The state is open while Lua code runs in it or a script of it is there, and
\* is closed when neither is.
StateOwned ==
    \A i \in 1..Len(states) : states[i].rc > 0 <=>
        \/ \E s \in LuaScript : script[s].rc > 0 /\ script[s].state = i
        \/ \E k \in 1..Len(active) : active[k].state = i

\* The registry names the script whose code runs, also after a script that
\* was loaded or called by another one has failed (lua.c:657), and no script
\* when none runs; a getter that failed is the exception.
EnvironmentTrue ==
    ~astray => \A i \in 1..Len(states) : states[i].rc > 0 =>
        states[i].env = IF active = <<>> THEN NoScript ELSE Top.script

\* The script in the registry, which owns what is given out next, is alive; a
\* getter that failed is the exception.
EnvironmentLive ==
    ~astray => \A i \in 1..Len(states) : states[i].rc > 0 /\ states[i].env # NoScript =>
        script[states[i].env].rc > 0
\* There is one Lua state for all scripts, as long as it is needed, and it
\* knows whose code runs.
StateSound == OneState /\ StateOwned /\ EnvironmentTrue /\ EnvironmentLive
=============================================================================
