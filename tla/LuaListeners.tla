---------------------------- MODULE LuaListeners ----------------------------
(***************************************************************************)
(* Listeners added by Lua scripts with on and once (plugins/lua/lua.c).     *)
(* A listener is kept by two anonymous roots, of its listen handle and of   *)
(* the source.  The script gets a proxy of a struct that remembers the two  *)
(* handles; the wrapper around the handler of once uses the same struct,    *)
(* which is freed by the last of the two.  Handlers may add and stop        *)
(* listeners, emit, and lose proxies to the collector.                      *)
(***************************************************************************)
EXTENDS Naturals, Sequences, SequencesExt

CONSTANTS
    Listener,       \* each is added at most once
    MaxDepth,       \* bound on emissions within handlers
    MaxEmissions    \* bound on the emissions of a behaviour

\* No listener
None == 0

ASSUME ListenAssumption == None \notin Listener /\ MaxDepth \in Nat /\ MaxEmissions \in Nat

VARIABLES
    listener,   \* once; roots: handles in the struct; rooted: what roots keep;
                \* wrapper, lua: the users of the struct; freed; calls
    order,      \* the listeners of the signal, newest first
    emits,      \* the emissions under way, innermost last: what is left of the
                \* snapshot, and the listener whose handler runs
    emissions,  \* the emissions so far
    touched     \* a listener whose struct was used after it was freed

listenVars == <<listener, order, emits, emissions, touched>>

Fresh == [added |-> FALSE, once |-> FALSE, roots |-> FALSE, rooted |-> FALSE, wrapper |-> FALSE,
          lua |-> FALSE, freed |-> FALSE, calls |-> 0]

ListenInit ==
    /\ listener = [l \in Listener |-> Fresh]
    /\ order = <<>> /\ emits = <<>> /\ emissions = 0 /\ touched = {}

\* Scripts run at the top level and in handlers.
Script == emits # <<>> => Last(emits).running # None

----------------------------------------------------------------------------
(* The struct; x is the record of a listener *)

\* di_lua_free_listen_handle
FreeListenHandle(x) == IF x.lua \/ x.wrapper THEN x ELSE [x EXCEPT !.freed = TRUE]

\* di_lua_signal_handler_wrapper_dtor
DropWrapper(x) == IF x.wrapper THEN FreeListenHandle([x EXCEPT !.wrapper = FALSE]) ELSE x

\* The listen handle is gone: so is its handler, but for one that runs.
Unroot(x, running) ==
    IF running THEN [x EXCEPT !.rooted = FALSE] ELSE DropWrapper([x EXCEPT !.rooted = FALSE])

\* di_lua_stop_listener_impl
StopListener(x, running) ==
    IF ~x.roots THEN x ELSE [Unroot(x, running) EXCEPT !.roots = FALSE]

IsRunning(l) == \E i \in 1..Len(emits) : emits[i].running = l
Using(l, x) == touched' = IF x.freed THEN touched \cup {l} ELSE touched
Without(l, x) ==
    order' = IF x.rooted \/ ~Contains(order, l) THEN order
             ELSE RemoveAt(order, CHOOSE i \in DOMAIN order : order[i] = l)

----------------------------------------------------------------------------
(* Scripts *)

\* di_lua_add_listener. When di_listen_to fails an error is raised, and nobody ever
\* had the struct: it went with the wrapper of a once listener, or it is leaked.
AddListener(l, once) ==
    /\ Script /\ ~listener[l].added
    /\ listener' = [listener EXCEPT ![l] =
                      [Fresh EXCEPT !.added = TRUE, !.once = once, !.roots = TRUE, !.rooted = TRUE,
                                    !.wrapper = once, !.lua = TRUE]]
    /\ order' = <<l>> \o order
    /\ UNCHANGED <<emits, emissions, touched>>

\* di_lua_stop_listener, with the proxy the script still has
Stop(l) ==
    /\ Script /\ listener[l].lua
    /\ Using(l, listener[l])
    /\ listener' = [listener EXCEPT ![l] = StopListener(@, IsRunning(l))]
    /\ Without(l, listener'[l])
    /\ UNCHANGED <<emits, emissions>>

\* di_lua_gc_for_listen_handle: the listener is left running.
GcListenHandle(l) ==
    /\ Script /\ listener[l].lua
    /\ Using(l, listener[l])
    /\ listener' = [listener EXCEPT ![l] = FreeListenHandle([@ EXCEPT !.lua = FALSE])]
    /\ UNCHANGED <<order, emits, emissions>>

\* Quitting, from a handler too, clears the roots without the struct being told.
ClearRoots(l) ==
    /\ Script /\ listener[l].rooted
    /\ listener' = [listener EXCEPT ![l] = Unroot(@, IsRunning(l))]
    /\ Without(l, listener'[l])
    /\ UNCHANGED <<emits, emissions, touched>>

----------------------------------------------------------------------------
(* di_emitn and the handlers *)

Emit ==
    /\ Script /\ Len(emits) < MaxDepth /\ emissions < MaxEmissions /\ order # <<>>
    /\ emits' = Append(emits, [left |-> order, running |-> None])
    /\ emissions' = emissions + 1
    /\ UNCHANGED <<listener, order, touched>>

Called(x) == [x EXCEPT !.calls = @ + 1]

\* Mutant: the listener is stopped after the call.
CallOnceStopsLater(x) == Called(x)

\* call_lua_signal_handler_once: stop, finalise, then call the handler
CallOnce(x) == Called(DropWrapper(StopListener(x, TRUE)))

\* The next listener of the snapshot, if its handle is still there
CallNext ==
    /\ emits # <<>> /\ Last(emits).running = None /\ Last(emits).left # <<>>
    /\ LET l == Head(Last(emits).left)
           x == listener[l] IN
       IF x.rooted
       THEN /\ IF x.once THEN Using(l, x) ELSE UNCHANGED touched
            /\ listener' = [listener EXCEPT ![l] =
                              IF x.once THEN CallOnce(x) ELSE Called(x)]
            /\ Without(l, listener'[l])
            /\ emits' = [emits EXCEPT ![Len(emits)] = [left |-> Tail(@.left), running |-> l]]
       ELSE /\ emits' = [emits EXCEPT ![Len(emits)].left = Tail(@)]
            /\ UNCHANGED <<listener, order, touched>>
    /\ UNCHANGED emissions

\* The emission gives its reference to the handler up.
HandlerReturns ==
    /\ emits # <<>> /\ Last(emits).running # None
    /\ LET l == Last(emits).running
           others == \E i \in 1..(Len(emits) - 1) : emits[i].running = l IN
       listener' = IF listener[l].rooted \/ others THEN listener
                   ELSE [listener EXCEPT ![l] = DropWrapper(@)]
    /\ emits' = [emits EXCEPT ![Len(emits)].running = None]
    /\ UNCHANGED <<order, emissions, touched>>

EmitEnds ==
    /\ emits # <<>> /\ Last(emits).running = None /\ Last(emits).left = <<>>
    /\ emits' = Front(emits)
    /\ UNCHANGED <<listener, order, emissions, touched>>

ListenNext ==
    \/ \E l \in Listener : \/ \E once \in BOOLEAN : AddListener(l, once)
                           \/ Stop(l) \/ GcListenHandle(l) \/ ClearRoots(l)
    \/ Emit \/ CallNext \/ HandlerReturns \/ EmitEnds

ListenSpec == ListenInit /\ [][ListenNext]_listenVars
----------------------------------------------------------------------------
\* The handler of once is called at most once, also when the signal is emitted
\* again by a handler of it or of another listener (lua.c:1228).
OnceIsOnce == \A l \in Listener : listener[l].once => listener[l].calls <= 1

\* The struct is used by nobody after it was freed, and is freed when the
\* proxy was collected and the wrapper is gone, whichever comes first.
HandleStructLive ==
    /\ touched = {}
    /\ \A l \in Listener : listener[l].added =>
          (listener[l].freed <=> ~listener[l].lua /\ ~listener[l].wrapper)

\* A listener that was stopped, by its script, from its own handler or by its
\* first call, is no longer kept by roots and hears no later emission.
StoppedIsGone ==
    \A l \in Listener : listener[l].added /\ ~listener[l].roots =>
        ~listener[l].rooted /\ \A i \in 1..Len(order) : order[i] # l
\* Listeners of scripts hear what they should and are freed once, however
\* they end.
ListenersSound == OnceIsOnce /\ HandleStructLive /\ StoppedIsGone
=============================================================================
