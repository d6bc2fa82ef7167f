----------------------------- MODULE LuaObjects -----------------------------
(***************************************************************************)
(* Objects in a Lua state (plugins/lua/lua.c): the proxies through which a *)
(* script refers to deai objects, and the record the state keeps of them.  *)
(*                                                                         *)
(* An object that is pushed gets one proxy, a userdata.  Its record has    *)
(* three parts, made and removed together: an entry of object_to_lua_ref   *)
(* (keyed by the address of the object), a weak reference to the proxy in  *)
(* the Lua registry, and a member of the state object that owns the        *)
(* object.  Lua collects in two steps: the weak reference of a proxy that  *)
(* the script cannot reach is cleared, and its __gc is called later; the   *)
(* script may run in between.                                              *)
(***************************************************************************)
EXTENDS Integers

CONSTANTS Object,     \* objects (addresses)
          Proxy,      \* userdata, each created at most once
          Null,
          Liberties   \* what Lua's collector may do:
                      \*  "late_gc": call __gc of a proxy after its object was
                      \*    given a new proxy

ASSUME ConstantsAssumption ==
    /\ Null \notin Object \cup Proxy
    /\ Liberties \subseteq {"late_gc"}

VARIABLES refs,     \* ref_count of the objects
          weakRefs, \* weak references held by weak proxies and by calls
          held,     \* the objects that something outside of Lua owns
          entry,    \* object_to_lua_ref: the proxy an entry was made for
          proxy,    \* each userdata: unused; live; dead: the weak reference is
                    \* cleared, __gc is due; gone
          of,       \* the object pointer stored in the userdata
          vars,     \* the proxies the script can reach
          weakVars, \* the objects the script has weak proxies of
          open      \* is the Lua state open?

luaVars == <<entry, proxy, of, vars>>
allVars == <<refs, weakRefs, held, luaVars, weakVars, open>>

Init ==
    /\ refs = [o \in Object |-> 1]
    /\ weakRefs = [o \in Object |-> 0]
    /\ held = Object
    /\ entry = [o \in Object |-> Null]
    /\ proxy = [p \in Proxy |-> "unused"]
    /\ of = [p \in Proxy |-> Null]
    /\ vars = {}
    /\ weakVars = {}
    /\ open = TRUE

Alive(o) == refs[o] > 0

-----------------------------------------------------------------------------
(* Pushing objects (di_lua_pushobject).  The caller takes a reference to o for *)
(* the call, which consumes it.                                                *)

\* Mutant: the reference taken for the call is not dropped.
PushKnownLeaks(o) ==
    /\ entry[o] # Null
    /\ proxy[entry[o]] = "live"
    /\ vars' = vars \cup {entry[o]}
    /\ refs' = [refs EXCEPT ![o] = @ + 1]
    /\ UNCHANGED <<entry, proxy, of>>

\* The object has a proxy, found through its weak reference: the reference taken
\* for the call is dropped again.
PushKnown(o) ==
    /\ entry[o] # Null
    /\ proxy[entry[o]] = "live"
    /\ vars' = vars \cup {entry[o]}
    /\ UNCHANGED <<refs, entry, proxy, of>>

\* Mutant: the stale record is taken for a good one and stays.
PushNewKeepsRecord(o, p) ==
    /\ entry[o] # Null => proxy[entry[o]] # "live"
    /\ proxy[p] = "unused"
    /\ proxy' = [proxy EXCEPT ![p] = "live"]
    /\ of' = [of EXCEPT ![p] = o]
    /\ vars' = vars \cup {p}
    /\ entry' = [entry EXCEPT ![o] = IF @ = Null THEN p ELSE @]
    /\ refs' = [refs EXCEPT ![o] = IF entry[o] = Null THEN @ + 1 ELSE @]

\* There is no proxy, or it died and its __gc is due: then the stale record goes,
\* with the reference it owns.  The reference taken for the call moves into the
\* new record.
PushNew(o, p) ==
    /\ entry[o] # Null => proxy[entry[o]] # "live"
    /\ proxy[p] = "unused"
    /\ proxy' = [proxy EXCEPT ![p] = "live"]
    /\ of' = [of EXCEPT ![p] = o]
    /\ vars' = vars \cup {p}
    /\ entry' = [entry EXCEPT ![o] = p]
    /\ refs' = [refs EXCEPT ![o] = IF entry[o] = Null THEN @ + 1 ELSE @]

PushObject(o) == PushKnown(o) \/ \E p \in Proxy : PushNew(o, p)

\* di_lua_pushvariant: an argument of a Lua function, the result of a call or of
\* an index operation.  It takes a reference of its own.
PushVariant(o) ==
    /\ open
    /\ o \in held
    /\ PushObject(o)
    /\ UNCHANGED <<weakRefs, held, weakVars, open>>

-----------------------------------------------------------------------------
(* What the script does *)

Forget(p) ==
    /\ p \in vars
    /\ vars' = vars \ {p}
    /\ UNCHANGED <<refs, weakRefs, held, entry, proxy, of, weakVars, open>>

\* A proxy is passed to the outside (toobjref): an argument, a value that is
\* stored in a member.
PassOut(p) ==
    /\ p \in vars
    /\ of[p] \notin held
    /\ Alive(of[p])             \* otherwise the behaviour is undefined
    /\ held' = held \cup {of[p]}
    /\ refs' = [refs EXCEPT ![of[p]] = @ + 1]
    /\ UNCHANGED <<weakRefs, luaVars, weakVars, open>>

\* weakref(): one reference for the call, one for the proxy, the first dropped.
WeakRef(p) ==
    /\ p \in vars
    /\ of[p] \notin weakVars
    /\ Alive(of[p])             \* otherwise the behaviour is undefined
    /\ weakVars' = weakVars \cup {of[p]}
    /\ weakRefs' = [weakRefs EXCEPT ![of[p]] = @ + 2 - 1]
    /\ UNCHANGED <<refs, held, luaVars, open>>

\* upgrade(): nothing when the object is gone.
Upgrade(o) ==
    /\ o \in weakVars
    /\ Alive(o)
    /\ PushObject(o)
    /\ UNCHANGED <<weakRefs, held, weakVars, open>>

-----------------------------------------------------------------------------
(* Collection *)

\* The collector finds a proxy unreachable and clears the weak reference to it.
Collect(p) ==
    /\ proxy[p] = "live"
    /\ p \notin vars
    /\ proxy' = [proxy EXCEPT ![p] = "dead"]
    /\ UNCHANGED <<refs, weakRefs, held, entry, of, vars, weakVars, open>>

\* __gc (di_lua_gc): the record found under the address of the object, if there
\* is one, is forgotten; the object may be destroyed by that.
Gc(p) ==
    /\ proxy[p] = "dead"
    /\ entry[of[p]] \in {p, Null} \/ "late_gc" \in Liberties
    /\ proxy' = [proxy EXCEPT ![p] = "gone"]
    /\ entry' = [entry EXCEPT ![of[p]] = Null]
    /\ refs' = IF entry[of[p]] = Null THEN refs
                 ELSE [refs EXCEPT ![of[p]] = @ - 1]
    /\ UNCHANGED <<weakRefs, held, of, vars, weakVars, open>>

\* __gc of a weak proxy.
GcWeak(o) ==
    /\ o \in weakVars
    /\ weakVars' = weakVars \ {o}
    /\ weakRefs' = [weakRefs EXCEPT ![o] = @ - 1]
    /\ UNCHANGED <<refs, held, luaVars, open>>

\* lua_state_dtor: lua_close calls every __gc that is due.
Close ==
    /\ open
    /\ open' = FALSE
    /\ proxy' = [p \in Proxy |-> IF proxy[p] = "unused" THEN "unused" ELSE "gone"]
    /\ entry' = [o \in Object |-> Null]
    /\ refs' = [o \in Object |-> IF entry[o] = Null THEN refs[o] ELSE refs[o] - 1]
    /\ weakRefs' = [o \in Object |-> IF o \in weakVars THEN weakRefs[o] - 1 ELSE weakRefs[o]]
    /\ vars' = {}
    /\ weakVars' = {}
    /\ UNCHANGED <<held, of>>

-----------------------------------------------------------------------------
(* The world outside of Lua drops its reference *)

Release(o) ==
    /\ o \in held
    /\ held' = held \ {o}
    /\ refs' = [refs EXCEPT ![o] = @ - 1]
    /\ UNCHANGED <<weakRefs, luaVars, weakVars, open>>

Next ==
    \/ \E o \in Object : PushVariant(o) \/ Upgrade(o) \/ GcWeak(o) \/ Release(o)
    \/ \E p \in Proxy : Forget(p) \/ PassOut(p) \/ WeakRef(p) \/ Collect(p) \/ Gc(p)
    \/ Close

Spec == Init /\ [][Next]_allVars

-----------------------------------------------------------------------------
(* Properties *)

\* Type invariant of the record of proxies.
TypeOK ==
    /\ refs \in [Object -> Nat] /\ weakRefs \in [Object -> Nat]
    /\ held \subseteq Object /\ weakVars \subseteq Object
    /\ entry \in [Object -> Proxy \cup {Null}]
    /\ proxy \in [Proxy -> {"unused", "live", "dead", "gone"}]
    /\ of \in [Proxy -> Object \cup {Null}]
    /\ vars \subseteq {p \in Proxy : proxy[p] = "live"}
    /\ open \in BOOLEAN

\* The object behind every proxy the script can reach is alive, and is kept so
\* by the record of this very proxy, whatever was pushed, dropped and collected
\* meanwhile.
ProxyLive ==
    \A p \in vars : Alive(of[p]) /\ entry[of[p]] = p

\* "The proxy of an object must be a singleton": a script that gets the same
\* object twice compares it equal to itself.
ProxySingleton ==
    \A p, q \in Proxy :
        proxy[p] = "live" /\ proxy[q] = "live" /\ of[p] = of[q] => p = q

\* The state owns each object it has a record of exactly once, and nothing else:
\* an object that the script has given up, and whose proxy is collected, is
\* destroyed when the rest of the program gives it up.
RefsExact ==
    \A o \in Object :
        /\ refs[o] = (IF o \in held THEN 1 ELSE 0) + (IF entry[o] = Null THEN 0 ELSE 1)
        /\ weakRefs[o] = IF o \in weakVars THEN 1 ELSE 0

\* Scripts see one proxy of an object, and the state owns it as often as it says.
ProxiesExact == ProxySingleton /\ RefsExact
=============================================================================
