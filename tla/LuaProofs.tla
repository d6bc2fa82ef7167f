------------------------------ MODULE LuaProofs ------------------------------
(***************************************************************************)
(* Proofs about what a script has of the objects of deai: their proxies     *)
(* (LuaObjects), for any number of objects and proxies, when __gc of a      *)
(* proxy is not called after its object was given a new one; and listeners  *)
(* (LuaListeners), for any number of them, of emissions and of nested       *)
(* handlers; about the Lua state and its scripts (LuaState), for any number *)
(* of scripts, values given out, nested calls and states; and about values  *)
(* that pass between deai and Lua (LuaValues), for integers, arrays and     *)
(* tables of any size.                                                      *)
(***************************************************************************)
EXTENDS LuaObjects, LuaListeners, LuaState, LuaValues, Integers, FiniteSetTheorems, TLAPS

-----------------------------------------------------------------------------
(* LuaObjects *)

\* The three parts of the record of an object agree: a live proxy is the one on
\* record for its object, and what is on record is a proxy of that object.
RecordsAgree ==
    /\ \A p \in Proxy : proxy[p] = "live" => of[p] \in Object /\ entry[of[p]] = p
    /\ \A p \in Proxy : proxy[p] = "dead" => of[p] \in Object
    /\ \A o \in Object : entry[o] # Null =>
           of[entry[o]] = o /\ proxy[entry[o]] \in {"live", "dead"}

IInv == TypeOK /\ RefsExact /\ RecordsAgree

\* No proxy is on record when the state is new.
LEMMA InitInv == Init => IInv
BY ConstantsAssumption DEF Init, IInv, TypeOK, RefsExact, RecordsAgree

\* Every push keeps the record: it returns the proxy on record if that is live, and
\* replaces the record otherwise (di_lua_pushobject).
LEMMA PushInv ==
    ASSUME IInv, NEW o \in Object, PushObject(o), Alive(o),
           UNCHANGED <<weakRefs, held, weakVars, open>>
    PROVE  IInv'
<1>1. CASE PushKnown(o)
  BY <1>1, ConstantsAssumption
  DEF PushKnown, IInv, TypeOK, RefsExact, RecordsAgree
<1>2. ASSUME NEW p \in Proxy, PushNew(o, p) PROVE IInv'
  <2>1. TypeOK'
    BY <1>2, ConstantsAssumption DEF PushNew, IInv, TypeOK
  <2>2. RefsExact'
    BY <1>2, ConstantsAssumption DEF PushNew, IInv, TypeOK, RefsExact
  <2>3. RecordsAgree'
    BY <1>2, ConstantsAssumption DEF PushNew, IInv, TypeOK, RecordsAgree
  <2> QED BY <2>1, <2>2, <2>3 DEF IInv
<1> QED BY <1>1, <1>2 DEF PushObject

\* A step of the script, of the collector or of the rest of the program keeps the
\* invariant.
LEMMA NextInv ==
    ASSUME Liberties = {}, IInv, [Next]_allVars
    PROVE  IInv'
<1> USE ConstantsAssumption
<1>1. ASSUME NEW o \in Object, PushVariant(o) PROVE IInv'
  <2>1. Alive(o)
    BY <1>1 DEF PushVariant, Alive, IInv, TypeOK, RefsExact
  <2> QED BY <1>1, <2>1, PushInv DEF PushVariant
<1>2. ASSUME NEW o \in Object, Upgrade(o) PROVE IInv'
  BY <1>2, PushInv DEF Upgrade
<1>3. ASSUME NEW o \in Object, GcWeak(o) PROVE IInv'
  BY <1>3 DEF GcWeak, luaVars, IInv, TypeOK, RefsExact, RecordsAgree
<1>4. ASSUME NEW o \in Object, Release(o) PROVE IInv'
  BY <1>4 DEF Release, luaVars, IInv, TypeOK, RefsExact, RecordsAgree
<1>5. ASSUME NEW p \in Proxy, Forget(p) PROVE IInv'
  BY <1>5 DEF Forget, IInv, TypeOK, RefsExact, RecordsAgree
<1>6. ASSUME NEW p \in Proxy, PassOut(p) PROVE IInv'
  BY <1>6 DEF PassOut, luaVars, IInv, TypeOK, RefsExact, RecordsAgree
<1>7. ASSUME NEW p \in Proxy, WeakRef(p) PROVE IInv'
  BY <1>7 DEF WeakRef, luaVars, IInv, TypeOK, RefsExact, RecordsAgree
<1>8. ASSUME NEW p \in Proxy, Collect(p) PROVE IInv'
  BY <1>8 DEF Collect, IInv, TypeOK, RefsExact, RecordsAgree
<1>9. ASSUME NEW p \in Proxy, Gc(p) PROVE IInv'
  <2>1. of[p] \in Object /\ entry[of[p]] \in {p, Null}
    BY <1>9 DEF Gc, IInv, RecordsAgree
  <2>2. TypeOK'
    BY <1>9, <2>1 DEF Gc, IInv, TypeOK, RefsExact
  <2>3. RefsExact'
    BY <1>9, <2>1 DEF Gc, IInv, TypeOK, RefsExact
  <2>4. RecordsAgree'
    BY <1>9, <2>1 DEF Gc, IInv, TypeOK, RecordsAgree
  <2> QED BY <2>2, <2>3, <2>4 DEF IInv
<1>10. CASE Close
  <2>1. RefsExact'
    BY <1>10 DEF Close, IInv, TypeOK, RefsExact
  <2>2. TypeOK'
    <3>1. refs' \in [Object -> Nat] /\ weakRefs' \in [Object -> Nat]
      BY <1>10 DEF Close, IInv, TypeOK, RefsExact
    <3> QED BY <1>10, <3>1 DEF Close, IInv, TypeOK
  <2>3. RecordsAgree'
    BY <1>10 DEF Close, IInv, TypeOK, RecordsAgree
  <2> QED BY <2>1, <2>2, <2>3 DEF IInv
<1>11. CASE UNCHANGED allVars
  BY <1>11 DEF allVars, luaVars, IInv, TypeOK, RefsExact, RecordsAgree
<1> QED
  BY <1>1, <1>2, <1>3, <1>4, <1>5, <1>6, <1>7, <1>8, <1>9, <1>10, <1>11 DEF Next

\* The inductive invariant holds throughout.
LEMMA Invariance == Liberties = {} => (Spec => []IInv)
<1> SUFFICES ASSUME Liberties = {} PROVE Spec => []IInv
  OBVIOUS
<1>1. IInv /\ [Next]_allVars => IInv'
  BY NextInv
<1> QED BY InitInv, <1>1, PTL DEF Spec

\* An object behind a proxy that the script can reach is alive, and the record
\* that keeps it is this proxy's.
THEOREM ProxiesLive == Liberties = {} => (Spec => []ProxyLive)
<1> SUFFICES ASSUME Liberties = {} PROVE Spec => []ProxyLive
  OBVIOUS
<1>1. IInv => ProxyLive
  BY ConstantsAssumption DEF IInv, TypeOK, RefsExact, RecordsAgree, ProxyLive, Alive
<1> QED BY <1>1, Invariance, PTL

\* "The proxy of an object must be a singleton", and the references the Lua state
\* owns are counted exactly: one for each record and one weak one for each weak
\* proxy (di_lua_pushobject, di_lua_forget_object).
THEOREM ProxiesAlwaysExact == Liberties = {} => (Spec => []ProxiesExact)
<1> SUFFICES ASSUME Liberties = {} PROVE Spec => []ProxiesExact
  OBVIOUS
<1>1. IInv => RefsExact
  BY DEF IInv
<1>2. IInv => ProxySingleton
  BY DEF IInv, TypeOK, RecordsAgree, ProxySingleton
<1>3. IInv => ProxiesExact
  BY <1>1, <1>2 DEF ProxiesExact
<1> QED BY <1>3, Invariance, PTL

-----------------------------------------------------------------------------
(* LuaListeners *)

ListenerSet == [added : BOOLEAN, once : BOOLEAN, roots : BOOLEAN, rooted : BOOLEAN, wrapper : BOOLEAN,
                lua : BOOLEAN, freed : BOOLEAN, calls : Nat]
EmissionSet == [left : Seq(Listener), running : Listener \cup {None}]

\* What roots keep is what the struct says they keep; the wrapper is there until the
\* handler of once was called, and the struct until its last user is gone.
ListenerOK(x) ==
    /\ ~x.added => ~x.rooted /\ ~x.wrapper /\ ~x.lua /\ ~x.freed
    /\ x.rooted => x.roots
    /\ x.once /\ x.rooted => x.wrapper /\ x.calls = 0
    /\ x.once => x.calls <= 1
    /\ x.added => (x.freed <=> ~x.lua /\ ~x.wrapper)

\* The signal has the listeners that roots keep.
OrderOK(od, ls) ==
    /\ od \in Seq(Listener)
    /\ \A i, j \in DOMAIN od : od[i] = od[j] => i = j
    /\ \A i \in DOMAIN od : ls[od[i]].rooted

ListenInv ==
    /\ listener \in [Listener -> ListenerSet]
    /\ \A l \in Listener : ListenerOK(listener[l])
    /\ OrderOK(order, listener)
    /\ emits \in Seq(EmissionSet)
    /\ emissions \in Nat
    /\ touched = {}

-----------------------------------------------------------------------------
(* The struct of a listener *)

\* y is x with other values of wrapper, rooted, roots and freed.
Differs(x, y, wrapper, rooted, roots, freed) ==
    /\ y \in ListenerSet
    /\ y.added = x.added /\ y.once = x.once /\ y.lua = x.lua /\ y.calls = x.calls
    /\ y.wrapper = wrapper /\ y.rooted = rooted /\ y.roots = roots /\ y.freed = freed

\* The struct goes with its last user.
LEMMA FreeFacts ==
    ASSUME NEW x \in ListenerSet
    PROVE  Differs(x, FreeListenHandle(x), x.wrapper, x.rooted, x.roots,
                   x.freed \/ (~x.lua /\ ~x.wrapper))
<1> DEFINE y == FreeListenHandle(x)
           t == TRUE
<1>1. x.freed \in BOOLEAN /\ x.lua \in BOOLEAN /\ x.wrapper \in BOOLEAN
  BY DEF ListenerSet
<1>2. CASE x.lua \/ x.wrapper
  <2>1. y = x
    BY <1>2 DEF FreeListenHandle
  <2>2. x.freed = (x.freed \/ (~x.lua /\ ~x.wrapper))
    BY <1>1, <1>2
  <2> QED BY <2>1, <2>2 DEF Differs
<1>3. CASE ~(x.lua \/ x.wrapper)
  <2>1. y = [x EXCEPT !.freed = t] /\ t \in BOOLEAN /\ t
    BY <1>3 DEF FreeListenHandle
  <2> HIDE DEF y, t
  <2>2. /\ y \in ListenerSet /\ y.added = x.added /\ y.once = x.once /\ y.lua = x.lua /\ y.calls = x.calls
        /\ y.wrapper = x.wrapper /\ y.rooted = x.rooted /\ y.roots = x.roots /\ y.freed = t
    BY ONLY <2>1, x \in ListenerSet DEF ListenerSet
  <2>3. t = (x.freed \/ (~x.lua /\ ~x.wrapper))
    BY ONLY <1>1, <1>3, <2>1
  <2>4. Differs(x, y, x.wrapper, x.rooted, x.roots, x.freed \/ (~x.lua /\ ~x.wrapper))
    BY ONLY <2>2, <2>3 DEF Differs
  <2> QED BY <2>4 DEF y
<1> QED BY <1>2, <1>3

\* The handler of once goes, and the struct with it if the script has no proxy.
LEMMA DropFacts ==
    ASSUME NEW x \in ListenerSet, NEW y, y = DropWrapper(x)
    PROVE  /\ y \in ListenerSet
           /\ y.added = x.added /\ y.once = x.once /\ y.lua = x.lua /\ y.calls = x.calls
           /\ y.rooted = x.rooted /\ y.roots = x.roots /\ ~y.wrapper
           /\ y.freed <=> x.freed \/ (x.wrapper /\ ~x.lua)
<1> DEFINE f == FALSE
           z == [x EXCEPT !.wrapper = f]
<1>1. x.freed \in BOOLEAN /\ x.lua \in BOOLEAN /\ x.wrapper \in BOOLEAN
  BY DEF ListenerSet
<1>2. CASE ~x.wrapper
  <2>1. y = x
    BY <1>2 DEF DropWrapper
  <2> QED BY <1>1, <1>2, <2>1
<1>3. CASE x.wrapper
  <2>1. y = FreeListenHandle(z) /\ f \in BOOLEAN /\ ~f /\ z = [x EXCEPT !.wrapper = f]
    BY <1>3 DEF DropWrapper
  <2> HIDE DEF z, f
  <2>2. /\ z \in ListenerSet /\ z.added = x.added /\ z.once = x.once /\ z.lua = x.lua /\ z.calls = x.calls
        /\ z.wrapper = f /\ z.rooted = x.rooted /\ z.roots = x.roots /\ z.freed = x.freed
    BY ONLY <2>1, x \in ListenerSet DEF ListenerSet
  <2>3. Differs(z, y, z.wrapper, z.rooted, z.roots, z.freed \/ (~z.lua /\ ~z.wrapper))
    BY <2>1, <2>2, FreeFacts
  <2> QED BY ONLY <1>1, <1>3, <2>1, <2>2, <2>3 DEF Differs
<1> QED BY <1>2, <1>3

\* The roots of the listener go.
LEMMA UnrootFacts ==
    ASSUME NEW x \in ListenerSet, NEW b \in BOOLEAN, NEW y, y = Unroot(x, b)
    PROVE  /\ y \in ListenerSet
           /\ y.added = x.added /\ y.once = x.once /\ y.lua = x.lua /\ y.calls = x.calls
           /\ ~y.rooted /\ y.roots = x.roots
           /\ y.wrapper => x.wrapper
           /\ y.freed <=> x.freed \/ (x.wrapper /\ ~y.wrapper /\ ~x.lua)
<1> DEFINE f == FALSE
           z == [x EXCEPT !.rooted = f]
<1>1. x.freed \in BOOLEAN /\ x.lua \in BOOLEAN /\ x.wrapper \in BOOLEAN
  BY DEF ListenerSet
<1>2. y = (IF b THEN z ELSE DropWrapper(z)) /\ f \in BOOLEAN /\ ~f /\ z = [x EXCEPT !.rooted = f]
  BY DEF Unroot
<1> HIDE DEF z, f
<1>3. /\ z \in ListenerSet /\ z.added = x.added /\ z.once = x.once /\ z.lua = x.lua /\ z.calls = x.calls
      /\ z.wrapper = x.wrapper /\ z.rooted = f /\ z.roots = x.roots /\ z.freed = x.freed
  BY ONLY <1>2, x \in ListenerSet DEF ListenerSet
<1>4. CASE b
  <2>1. y = z
    BY <1>2, <1>4
  <2> QED BY ONLY <1>1, <1>2, <1>3, <2>1
<1>5. CASE ~b
  <2>1. y = DropWrapper(z)
    BY <1>2, <1>5
  <2>2. /\ y \in ListenerSet
        /\ y.added = z.added /\ y.once = z.once /\ y.lua = z.lua /\ y.calls = z.calls
        /\ y.rooted = z.rooted /\ y.roots = z.roots /\ ~y.wrapper
        /\ y.freed <=> z.freed \/ (z.wrapper /\ ~z.lua)
    BY ONLY <1>3, <2>1, DropFacts
  <2> QED BY ONLY <1>1, <1>2, <1>3, <2>2
<1> QED BY <1>4, <1>5

\* A listener that loses its roots, or its handler, or both.
LEMMA EndsOK ==
    ASSUME NEW x \in ListenerSet, NEW y \in ListenerSet, ListenerOK(x), ~y.rooted,
           y.added = x.added, y.once = x.once, y.lua = x.lua, y.calls = x.calls,
           y.wrapper => x.wrapper,
           y.freed <=> x.freed \/ (x.wrapper /\ ~y.wrapper /\ ~x.lua)
    PROVE  ListenerOK(y)
<1>1. x.freed \in BOOLEAN /\ x.lua \in BOOLEAN /\ x.wrapper \in BOOLEAN /\ y.wrapper \in BOOLEAN
      /\ y.freed \in BOOLEAN /\ x.added \in BOOLEAN
  BY DEF ListenerSet
<1> QED BY <1>1 DEF ListenerOK

\* The listener is stopped: di_lua_stop_listener_impl
LEMMA StopOK ==
    ASSUME NEW x \in ListenerSet, NEW b \in BOOLEAN, NEW y, y = StopListener(x, b), ListenerOK(x)
    PROVE  /\ y \in ListenerSet /\ ListenerOK(y) /\ ~y.rooted
           /\ y.added = x.added /\ y.once = x.once /\ y.lua = x.lua /\ y.calls = x.calls
<1> DEFINE u == Unroot(x, b)
           f == FALSE
<1>1. CASE ~x.roots
  <2>1. y = x
    BY <1>1 DEF StopListener
  <2> QED BY <1>1, <2>1 DEF ListenerOK
<1>2. CASE x.roots
  <2>1. y = [u EXCEPT !.roots = f] /\ u = Unroot(x, b) /\ f \in BOOLEAN
    BY <1>2 DEF StopListener
  <2> HIDE DEF u, f
  <2>2. /\ u \in ListenerSet
        /\ u.added = x.added /\ u.once = x.once /\ u.lua = x.lua /\ u.calls = x.calls
        /\ ~u.rooted /\ u.roots = x.roots /\ (u.wrapper => x.wrapper)
        /\ (u.freed <=> x.freed \/ (x.wrapper /\ ~u.wrapper /\ ~x.lua))
    BY ONLY <2>1, x \in ListenerSet, b \in BOOLEAN, UnrootFacts
  <2>3. /\ y \in ListenerSet
        /\ y.added = u.added /\ y.once = u.once /\ y.lua = u.lua /\ y.calls = u.calls
        /\ y.rooted = u.rooted /\ y.wrapper = u.wrapper /\ y.freed = u.freed
    BY ONLY <2>1, <2>2 DEF ListenerSet
  <2>4. ~y.rooted /\ y.added = x.added /\ y.once = x.once /\ y.lua = x.lua /\ y.calls = x.calls
        /\ (y.wrapper => x.wrapper) /\ (y.freed <=> x.freed \/ (x.wrapper /\ ~y.wrapper /\ ~x.lua))
    BY ONLY <2>2, <2>3
  <2>5. ListenerOK(y)
    BY ONLY <2>3, <2>4, x \in ListenerSet, ListenerOK(x), EndsOK
  <2> QED BY <2>3, <2>4, <2>5
<1> QED BY <1>1, <1>2

\* The handler is called.
LEMMA CalledFacts ==
    ASSUME NEW x \in ListenerSet, NEW y, y = Called(x)
    PROVE  /\ y \in ListenerSet /\ y.calls = x.calls + 1
           /\ y.added = x.added /\ y.once = x.once /\ y.lua = x.lua /\ y.roots = x.roots
           /\ y.rooted = x.rooted /\ y.wrapper = x.wrapper /\ y.freed = x.freed
<1> DEFINE c == x.calls + 1
<1>1. y = [x EXCEPT !.calls = c] /\ c \in Nat
  BY DEF Called, ListenerSet
<1> HIDE DEF c
<1>2. /\ y \in ListenerSet /\ y.calls = c
      /\ y.added = x.added /\ y.once = x.once /\ y.lua = x.lua /\ y.roots = x.roots
      /\ y.rooted = x.rooted /\ y.wrapper = x.wrapper /\ y.freed = x.freed
  BY ONLY <1>1, x \in ListenerSet DEF ListenerSet
<1> QED BY <1>2 DEF c

\* The handler goes when nothing keeps the listener.
LEMMA DropOK ==
    ASSUME NEW x \in ListenerSet, ListenerOK(x), ~x.rooted, NEW y, y = DropWrapper(x)
    PROVE  /\ y \in ListenerSet /\ ListenerOK(y) /\ ~y.rooted /\ y.calls = x.calls /\ y.once = x.once
<1>1. /\ y \in ListenerSet
      /\ y.added = x.added /\ y.once = x.once /\ y.lua = x.lua /\ y.calls = x.calls
      /\ y.rooted = x.rooted /\ y.roots = x.roots /\ ~y.wrapper
      /\ y.freed <=> x.freed \/ (x.wrapper /\ ~x.lua)
  BY DropFacts
<1>2. (y.wrapper => x.wrapper) /\ (y.freed <=> x.freed \/ (x.wrapper /\ ~y.wrapper /\ ~x.lua)) /\ ~y.rooted
  BY ONLY <1>1, ~x.rooted
<1>3. ListenerOK(y)
  BY ONLY <1>1, <1>2, x \in ListenerSet, ListenerOK(x), EndsOK
<1> QED BY <1>1, <1>2, <1>3

\* A call of a listener, of once or not.
LEMMA CallOK ==
    ASSUME NEW x \in ListenerSet, ListenerOK(x), x.rooted, NEW y,
           y = IF x.once THEN CallOnce(x) ELSE Called(x)
    PROVE  y \in ListenerSet /\ ListenerOK(y) /\ (x.once => ~x.freed)
<1>0. x.once \in BOOLEAN /\ x.calls \in Nat /\ (x.once => ~x.freed)
  BY DEF ListenerSet, ListenerOK
<1>1. CASE ~x.once
  <2>1. y = Called(x)
    BY <1>1
  <2>2. /\ y \in ListenerSet /\ y.calls = x.calls + 1
        /\ y.added = x.added /\ y.once = x.once /\ y.lua = x.lua /\ y.roots = x.roots
        /\ y.rooted = x.rooted /\ y.wrapper = x.wrapper /\ y.freed = x.freed
    BY ONLY <2>1, x \in ListenerSet, CalledFacts
  <2> QED BY <1>0, <1>1, <2>2 DEF ListenerOK
<1>2. CASE x.once
  <2> DEFINE t == TRUE
             u == StopListener(x, t)
             v == DropWrapper(u)
  <2>1. y = Called(v) /\ v = DropWrapper(u) /\ u = StopListener(x, t) /\ t \in BOOLEAN
    BY <1>2 DEF CallOnce
  <2> HIDE DEF u, v, t
  <2>2. u \in ListenerSet /\ ListenerOK(u) /\ ~u.rooted /\ u.once = x.once /\ u.calls = x.calls
    BY ONLY <2>1, x \in ListenerSet, ListenerOK(x), StopOK
  <2>3. v \in ListenerSet /\ ListenerOK(v) /\ ~v.rooted /\ v.once = u.once /\ v.calls = u.calls
    BY ONLY <2>1, <2>2, DropOK
  <2>4. /\ y \in ListenerSet /\ y.calls = v.calls + 1
        /\ y.added = v.added /\ y.once = v.once /\ y.lua = v.lua /\ y.roots = v.roots
        /\ y.rooted = v.rooted /\ y.wrapper = v.wrapper /\ y.freed = v.freed
    BY ONLY <2>1, <2>3, CalledFacts
  <2>5. x.calls = 0
    BY <1>2 DEF ListenerOK
  <2>6. ListenerOK(y)
    BY ONLY <2>2, <2>3, <2>4, <2>5 DEF ListenerOK
  <2> QED BY <1>0, <2>4, <2>6
<1> QED BY <1>0, <1>1, <1>2

-----------------------------------------------------------------------------
(* The listeners of the signal *)

\* A sequence without one of its elements.
LEMMA RemoveAtFacts ==
    ASSUME NEW s \in Seq(Listener), NEW i \in DOMAIN s,
           \A j, k \in DOMAIN s : s[j] = s[k] => j = k, NEW m, m = RemoveAt(s, i)
    PROVE  /\ m \in Seq(Listener)
           /\ \A j, k \in DOMAIN m : m[j] = m[k] => j = k
           /\ \A j \in DOMAIN m : m[j] # s[i] /\ \E k \in DOMAIN s : m[j] = s[k]
<1> DEFINE u == SubSeq(s, 1, i - 1)
           v == SubSeq(s, i + 1, Len(s))
           pos(j) == IF j < i THEN j ELSE j + 1
<1>1. i \in 1..Len(s) /\ Len(s) \in Nat /\ DOMAIN s = 1..Len(s)
  OBVIOUS
<1>2. u \in Seq(Listener) /\ Len(u) = i - 1 /\ \A j \in 1..(i - 1) : u[j] = s[j]
  BY <1>1
<1>3. v \in Seq(Listener) /\ Len(v) = Len(s) - i /\ \A j \in 1..(Len(s) - i) : v[j] = s[i + j]
  BY <1>1
<1>4. m = u \o v
  BY DEF RemoveAt
<1> HIDE DEF u, v
<1>5. m \in Seq(Listener) /\ Len(m) = Len(s) - 1 /\ DOMAIN m = 1..(Len(s) - 1)
  <2>0. u \in Seq(Listener) /\ v \in Seq(Listener)
    BY ONLY <1>2, <1>3
  <2>1. m \in Seq(Listener) /\ Len(m) = Len(u) + Len(v)
    BY ONLY <1>4, <2>0
  <2> QED BY ONLY <1>1, <1>2, <1>3, <2>1
<1>6. ASSUME NEW j \in 1..(Len(s) - 1) PROVE m[j] = s[pos(j)] /\ pos(j) \in DOMAIN s /\ pos(j) # i
  <2>1. m[j] = IF j <= Len(u) THEN u[j] ELSE v[j - Len(u)]
    <3>1. j \in 1..(Len(u) + Len(v))
      BY ONLY <1>1, <1>2, <1>3, j \in 1..(Len(s) - 1)
    <3>2. u \in Seq(Listener) /\ v \in Seq(Listener)
      BY ONLY <1>2, <1>3
    <3> QED BY ONLY <1>4, <3>1, <3>2
  <2>2. pos(j) \in DOMAIN s /\ pos(j) # i
    BY ONLY <1>1, j \in 1..(Len(s) - 1)
  <2>3. CASE j < i
    <3>1. j <= Len(u) /\ j \in 1..(i - 1) /\ pos(j) = j
      BY ONLY <1>1, <1>2, <2>3, j \in 1..(Len(s) - 1)
    <3> QED BY ONLY <1>2, <2>1, <2>2, <3>1
  <2>4. CASE ~(j < i)
    <3>1. j - Len(u) \in 1..(Len(s) - i) /\ i + (j - Len(u)) = j + 1 /\ ~(j <= Len(u)) /\ pos(j) = j + 1
      BY ONLY <1>1, <1>2, <2>4, j \in 1..(Len(s) - 1)
    <3>2. v[j - Len(u)] = s[j + 1]
      BY ONLY <1>3, <3>1
    <3> QED BY ONLY <2>1, <2>2, <3>1, <3>2
  <2> QED BY <2>3, <2>4
<1>7. ASSUME NEW j \in DOMAIN m, NEW k \in DOMAIN m, m[j] = m[k] PROVE j = k
  <2>1. pos(j) = pos(k)
    <3>1. j \in 1..(Len(s) - 1) /\ k \in 1..(Len(s) - 1)
      BY <1>5
    <3>2. m[j] = s[pos(j)] /\ pos(j) \in DOMAIN s /\ m[k] = s[pos(k)] /\ pos(k) \in DOMAIN s
      BY <1>6, <3>1
    <3>3. PICK a \in DOMAIN s, b \in DOMAIN s : a = pos(j) /\ b = pos(k) /\ m[j] = s[a] /\ m[k] = s[b]
      BY ONLY <3>2
    <3>4. a = b
      BY <1>7, <3>3
    <3>5. QED
      BY ONLY <3>3, <3>4
  <2>2. j \in Int /\ k \in Int /\ i \in Int
    BY <1>1, <1>5
  <2> QED BY ONLY <2>1, <2>2
<1>8. \A j \in DOMAIN m : m[j] # s[i] /\ \E k \in DOMAIN s : m[j] = s[k]
  BY <1>5, <1>6
<1> QED BY <1>5, <1>7, <1>8

\* A listener changes and leaves the signal if roots do not keep it any more.
LEMMA ChangeInv ==
    ASSUME ListenInv, NEW l \in Listener, NEW y \in ListenerSet, ListenerOK(y),
           listener' = [listener EXCEPT ![l] = y], Without(l, y),
           emits' \in Seq(EmissionSet), UNCHANGED <<emissions, touched>>
    PROVE  ListenInv'
<1>1. /\ listener' \in [Listener -> ListenerSet] /\ listener'[l] = y
      /\ \A k \in Listener : k # l => listener'[k] = listener[k]
  BY DEF ListenInv
<1>2. \A k \in Listener : ListenerOK(listener'[k])
  BY <1>1 DEF ListenInv
<1>3. OrderOK(order, listener) /\ order \in Seq(Listener) /\ DOMAIN order = 1..Len(order)
  BY DEF ListenInv, OrderOK
<1>4. \A i \in DOMAIN order : order[i] \in Listener
  BY <1>3
<1>5. OrderOK(order', listener')
  <2>1. CASE y.rooted \/ ~Contains(order, l)
    <3>1. order' = order
      BY <2>1 DEF Without
    <3>2. \A i \in DOMAIN order : listener'[order[i]].rooted
      BY <1>1, <1>3, <1>4, <2>1 DEF OrderOK, Contains
    <3> QED BY <1>3, <3>1, <3>2 DEF OrderOK
  <2>2. CASE ~(y.rooted \/ ~Contains(order, l))
    <3> DEFINE i == CHOOSE j \in DOMAIN order : order[j] = l
    <3>1. order' = RemoveAt(order, i)
      BY <2>2 DEF Without
    <3>2. i \in DOMAIN order /\ order[i] = l
      BY <1>3, <2>2 DEF Contains
    <3> HIDE DEF i
    <3>3. \A j, k \in DOMAIN order : order[j] = order[k] => j = k
      BY <1>3 DEF OrderOK
    <3>4. /\ order' \in Seq(Listener)
          /\ \A j, k \in DOMAIN order' : order'[j] = order'[k] => j = k
          /\ \A j \in DOMAIN order' : order'[j] # order[i] /\ \E k \in DOMAIN order : order'[j] = order[k]
      BY ONLY <1>3, <3>1, <3>2, <3>3, RemoveAtFacts
    <3>5. \A j \in DOMAIN order' : listener'[order'[j]].rooted
      BY <1>1, <1>3, <1>4, <3>2, <3>4 DEF OrderOK
    <3> QED BY <3>4, <3>5 DEF OrderOK
  <2> QED BY <2>1, <2>2
<1> QED BY <1>1, <1>2, <1>5 DEF ListenInv

-----------------------------------------------------------------------------
(* Each step keeps the invariant *)

\* A new listener comes first.
LEMMA AddListenerInv ==
    ASSUME ListenInv, NEW l \in Listener, NEW once \in BOOLEAN, AddListener(l, once)
    PROVE  ListenInv'
<1> DEFINE t == TRUE
           f == FALSE
           n == Fresh
           y == [n EXCEPT !.added = t, !.once = once, !.roots = t, !.rooted = t, !.wrapper = once, !.lua = t]
<1>1. t \in BOOLEAN /\ t /\ f \in BOOLEAN /\ ~f
  OBVIOUS
<1>2. listener' = [listener EXCEPT ![l] = y]
  BY DEF AddListener
<1>3. /\ y = [n EXCEPT !.added = t, !.once = once, !.roots = t, !.rooted = t, !.wrapper = once, !.lua = t]
      /\ n = [added |-> f, once |-> f, roots |-> f, rooted |-> f, wrapper |-> f, lua |-> f, freed |-> f,
              calls |-> 0]
  BY DEF Fresh
<1> HIDE DEF t, f, n, y
<1>4. /\ y \in ListenerSet /\ y.added = t /\ y.once = once /\ y.roots = t /\ y.rooted = t
      /\ y.wrapper = once /\ y.lua = t /\ y.freed = f /\ y.calls = 0
  BY ONLY <1>1, <1>3, once \in BOOLEAN DEF ListenerSet
<1>5. y.rooted /\ ListenerOK(y)
  BY ONLY <1>1, <1>4, once \in BOOLEAN DEF ListenerOK
<1>6. /\ listener' \in [Listener -> ListenerSet] /\ listener'[l] = y
      /\ \A k \in Listener : k # l => listener'[k] = listener[k]
  BY <1>2, <1>4 DEF ListenInv
<1>7. \A k \in Listener : ListenerOK(listener'[k])
  BY <1>5, <1>6 DEF ListenInv
<1>8. order \in Seq(Listener) /\ (\A i, j \in DOMAIN order : order[i] = order[j] => i = j)
      /\ \A i \in DOMAIN order : order[i] \in Listener /\ listener[order[i]].rooted
  BY DEF ListenInv, OrderOK
<1>9. ~listener[l].rooted
  BY DEF AddListener, ListenInv, ListenerOK
<1>10. order' = <<l>> \o order
  BY DEF AddListener
<1>11. /\ order' \in Seq(Listener) /\ Len(order') = 1 + Len(order) /\ order'[1] = l
       /\ \A i \in 2..(1 + Len(order)) : order'[i] = order[i - 1] /\ i - 1 \in DOMAIN order
  BY ONLY <1>8, <1>10, l \in Listener
<1>12. DOMAIN order' = 1..(1 + Len(order)) /\ Len(order) \in Nat
  BY ONLY <1>8, <1>11
<1>13. \A i \in 2..(1 + Len(order)) : order'[i] # l /\ listener'[order'[i]].rooted
  BY ONLY <1>6, <1>8, <1>9, <1>11
<1>14. \A i \in DOMAIN order' : i = 1 \/ i \in 2..(1 + Len(order))
  BY ONLY <1>12
<1>15. ASSUME NEW i \in DOMAIN order', NEW j \in DOMAIN order', order'[i] = order'[j] PROVE i = j
  <2>1. CASE i = 1 \/ j = 1
    BY ONLY <1>11, <1>13, <1>14, <1>15, <2>1
  <2>2. CASE i # 1 /\ j # 1
    <3>1. i \in 2..(1 + Len(order)) /\ j \in 2..(1 + Len(order))
      BY ONLY <1>14, <1>15, <2>2
    <3>2. i - 1 = j - 1
      BY ONLY <1>8, <1>11, <1>15, <3>1
    <3> QED BY ONLY <1>12, <3>1, <3>2
  <2> QED BY <2>1, <2>2
<1>16. \A i \in DOMAIN order' : listener'[order'[i]].rooted
  BY <1>5, <1>6, <1>11, <1>13, <1>14
<1>17. OrderOK(order', listener')
  BY <1>11, <1>15, <1>16 DEF OrderOK
<1> QED BY <1>6, <1>7, <1>17 DEF ListenInv, AddListener

\* A listener with a proxy has a struct that was not freed.
LEMMA LuaNotFreed ==
    ASSUME ListenInv, NEW l \in Listener, listener[l].lua
    PROVE  ~listener[l].freed
<1>1. listener[l] \in ListenerSet /\ ListenerOK(listener[l])
  BY DEF ListenInv
<1> QED BY <1>1 DEF ListenerOK, ListenerSet

\* The script stops a listener.
LEMMA StopInv ==
    ASSUME ListenInv, NEW l \in Listener, Stop(l)
    PROVE  ListenInv'
<1> DEFINE x == listener[l]
           b == IsRunning(l)
           y == StopListener(x, b)
<1>1. x \in ListenerSet /\ ListenerOK(x)
  BY DEF ListenInv
<1>2. b \in BOOLEAN
  BY DEF IsRunning
<1>3. listener' = [listener EXCEPT ![l] = y]
  BY DEF Stop
<1>4. y = StopListener(x, b)
  OBVIOUS
<1> HIDE DEF x, b, y
<1>5. y \in ListenerSet /\ ListenerOK(y) /\ ~y.rooted
  BY ONLY <1>1, <1>2, <1>4, StopOK
<1>6. listener'[l] = y
  BY <1>3 DEF ListenInv
<1>7. Without(l, y)
  BY <1>6 DEF Stop, Without
<1>8. UNCHANGED touched
  BY LuaNotFreed DEF Stop, Using
<1>9. emits' \in Seq(EmissionSet) /\ UNCHANGED emissions
  BY DEF Stop, ListenInv
<1> QED BY <1>3, <1>5, <1>7, <1>8, <1>9, ChangeInv

\* The proxy of the script is collected.
LEMMA GcListenHandleInv ==
    ASSUME ListenInv, NEW l \in Listener, GcListenHandle(l)
    PROVE  ListenInv'
<1> DEFINE x == listener[l]
           f == FALSE
           z == [x EXCEPT !.lua = f]
           y == FreeListenHandle(z)
<1>1. x \in ListenerSet /\ ListenerOK(x) /\ x.lua
  BY DEF ListenInv, GcListenHandle
<1>2. listener' = [listener EXCEPT ![l] = y] /\ y = FreeListenHandle(z) /\ z = [x EXCEPT !.lua = f]
      /\ f \in BOOLEAN /\ ~f
  BY DEF GcListenHandle
<1>3. x = listener[l]
  OBVIOUS
<1> HIDE DEF x, f, y, z
<1>4. /\ z \in ListenerSet /\ z.added = x.added /\ z.once = x.once /\ z.lua = f /\ z.calls = x.calls
      /\ z.wrapper = x.wrapper /\ z.rooted = x.rooted /\ z.roots = x.roots /\ z.freed = x.freed
  BY ONLY <1>1, <1>2 DEF ListenerSet
<1>5. Differs(z, y, z.wrapper, z.rooted, z.roots, z.freed \/ (~z.lua /\ ~z.wrapper))
  BY <1>2, <1>4, FreeFacts
<1>6. /\ y \in ListenerSet /\ y.added = x.added /\ y.once = x.once /\ ~y.lua /\ y.calls = x.calls
      /\ y.wrapper = x.wrapper /\ y.rooted = x.rooted /\ y.roots = x.roots
      /\ (y.freed <=> x.freed \/ ~x.wrapper)
  BY ONLY <1>2, <1>4, <1>5 DEF Differs
<1>7. x.added /\ ~x.freed
  BY ONLY <1>1 DEF ListenerOK, ListenerSet
<1>8. ListenerOK(y)
  BY ONLY <1>1, <1>6, <1>7 DEF ListenerOK
<1>9. UNCHANGED touched
  BY LuaNotFreed DEF GcListenHandle, Using
<1>10. Without(l, y)
  <2>1. order' = order
    BY DEF GcListenHandle
  <2>2. Contains(order, l) => y.rooted
    BY <1>3, <1>6 DEF Contains, ListenInv, OrderOK
  <2> QED BY <2>1, <2>2 DEF Without
<1>11. emits' \in Seq(EmissionSet) /\ UNCHANGED emissions
  BY DEF GcListenHandle, ListenInv
<1> QED BY <1>2, <1>6, <1>8, <1>9, <1>10, <1>11, ChangeInv

\* The roots of a listener are cleared.
LEMMA ClearRootsInv ==
    ASSUME ListenInv, NEW l \in Listener, ClearRoots(l)
    PROVE  ListenInv'
<1> DEFINE x == listener[l]
           b == IsRunning(l)
           y == Unroot(x, b)
<1>1. x \in ListenerSet /\ ListenerOK(x)
  BY DEF ListenInv
<1>2. listener' = [listener EXCEPT ![l] = y] /\ y = Unroot(x, b) /\ b \in BOOLEAN
  BY DEF ClearRoots, IsRunning
<1> HIDE DEF x, b, y
<1>3. /\ y \in ListenerSet
      /\ y.added = x.added /\ y.once = x.once /\ y.lua = x.lua /\ y.calls = x.calls
      /\ ~y.rooted /\ y.roots = x.roots /\ (y.wrapper => x.wrapper)
      /\ (y.freed <=> x.freed \/ (x.wrapper /\ ~y.wrapper /\ ~x.lua))
  BY ONLY <1>1, <1>2, UnrootFacts
<1>4. ListenerOK(y)
  BY ONLY <1>1, <1>3, EndsOK
<1>5. listener'[l] = y
  BY <1>2 DEF ListenInv
<1>6. Without(l, y)
  <2>1. Without(l, listener'[l])
    BY DEF ClearRoots
  <2> QED BY ONLY <1>5, <2>1 DEF Without
<1>7. emits' \in Seq(EmissionSet) /\ UNCHANGED <<emissions, touched>>
  BY DEF ClearRoots, ListenInv
<1> QED BY <1>2, <1>3, <1>4, <1>6, <1>7, ChangeInv

\* The emission under way.
LEMMA LastFacts ==
    ASSUME ListenInv, emits # <<>>
    PROVE  /\ Len(emits) \in 1..Len(emits) /\ Len(emits) \in Nat
           /\ Last(emits) = emits[Len(emits)]
           /\ Last(emits) \in EmissionSet
<1>1. emits \in Seq(EmissionSet)
  BY DEF ListenInv
<1> QED BY <1>1 DEF Last

\* The emission under way goes on.
LEMMA EmissionGoesOn ==
    ASSUME ListenInv, emits # <<>>, NEW e \in EmissionSet
    PROVE  [emits EXCEPT ![Len(emits)] = e] \in Seq(EmissionSet)
<1>1. emits \in Seq(EmissionSet)
  BY DEF ListenInv
<1> QED BY ONLY <1>1, e \in EmissionSet, emits # <<>>

\* Emissions are begun and ended.
LEMMA EmitInv ==
    ASSUME ListenInv, Emit \/ EmitEnds
    PROVE  ListenInv'
<1>1. emits \in Seq(EmissionSet) /\ order \in Seq(Listener)
  BY DEF ListenInv, OrderOK
<1>2. CASE Emit
  <2> DEFINE e == [left |-> order, running |-> None]
  <2>1. e \in EmissionSet
    BY <1>1 DEF EmissionSet
  <2>2. emits' = Append(emits, e)
    BY <1>2 DEF Emit
  <2> HIDE DEF e
  <2>3. emits' \in Seq(EmissionSet)
    BY ONLY <1>1, <2>1, <2>2
  <2> QED BY <1>2, <2>3 DEF Emit, ListenInv
<1>3. CASE EmitEnds
  <2>1. emits' = SubSeq(emits, 1, Len(emits) - 1) /\ emits # <<>>
    BY <1>3 DEF EmitEnds, Front
  <2>2. emits' \in Seq(EmissionSet)
    BY ONLY <1>1, <2>1
  <2> QED BY <1>3, <2>2 DEF EmitEnds, ListenInv
<1> QED BY <1>2, <1>3

\* The next listener of the emission is called, or was stopped in the meantime.
LEMMA CallNextInv ==
    ASSUME ListenInv, CallNext
    PROVE  ListenInv'
<1> DEFINE n == Len(emits)
           e == Last(emits)
           l == Head(e.left)
           x == listener[l]
<1>1. emits # <<>> /\ e.left # <<>> /\ UNCHANGED emissions
  BY DEF CallNext
<1>2. e \in EmissionSet /\ e = emits[n]
  BY <1>1, LastFacts
<1>3. l \in Listener /\ Tail(e.left) \in Seq(Listener)
  BY <1>1, <1>2 DEF EmissionSet
<1>4. x \in ListenerSet /\ ListenerOK(x)
  BY <1>3 DEF ListenInv
<1>5. CASE x.rooted
  <2> DEFINE y == IF x.once THEN CallOnce(x) ELSE Called(x)
             r == [left |-> Tail(e.left), running |-> l]
  <2>1. /\ IF x.once THEN Using(l, x) ELSE UNCHANGED touched
        /\ listener' = [listener EXCEPT ![l] = y]
        /\ Without(l, listener'[l])
        /\ emits' = [emits EXCEPT ![n] = r]
    BY <1>2, <1>5 DEF CallNext
  <2>2. y = IF x.once THEN CallOnce(x) ELSE Called(x)
    OBVIOUS
  <2>3. r \in EmissionSet
    BY <1>3 DEF EmissionSet
  <2> HIDE DEF y, r, x
  <2>4. y \in ListenerSet /\ ListenerOK(y) /\ (x.once => ~x.freed)
    BY ONLY <1>4, <1>5, <2>2, CallOK
  <2>5. listener'[l] = y
    BY <1>3, <2>1 DEF ListenInv
  <2>6. Without(l, y)
    BY ONLY <2>1, <2>5 DEF Without
  <2>7. UNCHANGED touched
    BY <2>1, <2>4 DEF Using
  <2>8. emits' \in Seq(EmissionSet)
    BY <1>1, <2>1, <2>3, EmissionGoesOn
  <2> HIDE DEF l
  <2> QED BY <1>1, <1>3, <2>1, <2>4, <2>6, <2>7, <2>8, ChangeInv
<1>6. CASE ~x.rooted
  <2> DEFINE r == [e EXCEPT !.left = Tail(e.left)]
  <2>1. emits' = [emits EXCEPT ![n] = r] /\ UNCHANGED <<listener, order, touched>>
    BY <1>2, <1>6 DEF CallNext
  <2>2. r \in EmissionSet
    BY <1>2, <1>3 DEF EmissionSet
  <2> HIDE DEF r
  <2>3. emits' \in Seq(EmissionSet)
    BY <1>1, <2>1, <2>2, EmissionGoesOn
  <2> QED BY <1>1, <2>1, <2>3 DEF ListenInv
<1> QED BY <1>5, <1>6

\* A handler returns: the last one to do so gives up the handler of a listener that is gone.
LEMMA HandlerReturnsInv ==
    ASSUME ListenInv, HandlerReturns
    PROVE  ListenInv'
<1> DEFINE n == Len(emits)
           e == Last(emits)
           l == e.running
           x == listener[l]
           r == [e EXCEPT !.running = None]
           y == DropWrapper(x)
<1>1. emits # <<>> /\ l # None /\ UNCHANGED <<order, emissions, touched>>
  BY DEF HandlerReturns
<1>2. e \in EmissionSet /\ e = emits[n]
  BY <1>1, LastFacts
<1>3. l \in Listener
  BY <1>1, <1>2 DEF EmissionSet
<1>4. x \in ListenerSet /\ ListenerOK(x)
  BY <1>3 DEF ListenInv
<1>5. emits' \in Seq(EmissionSet)
  <2>1. emits' = [emits EXCEPT ![n] = r]
    BY <1>2 DEF HandlerReturns
  <2>2. r \in EmissionSet
    BY <1>2 DEF EmissionSet
  <2> HIDE DEF r
  <2> QED BY <1>1, <2>1, <2>2, EmissionGoesOn
<1>6. listener' = listener \/ (~x.rooted /\ listener' = [listener EXCEPT ![l] = y])
  BY DEF HandlerReturns
<1>7. CASE listener' = listener
  BY <1>1, <1>5, <1>7 DEF ListenInv
<1>8. CASE ~x.rooted /\ listener' = [listener EXCEPT ![l] = y]
  <2>1. y = DropWrapper(x)
    OBVIOUS
  <2>2. ~Contains(order, l)
    BY <1>8 DEF Contains, ListenInv, OrderOK
  <2> HIDE DEF x, y, l
  <2>3. y \in ListenerSet /\ ListenerOK(y) /\ ~y.rooted
    BY ONLY <1>4, <1>8, <2>1, DropOK
  <2>4. Without(l, y)
    BY <1>1, <2>2 DEF Without
  <2> QED BY <1>1, <1>3, <1>5, <1>8, <2>3, <2>4, ChangeInv
<1> QED BY <1>6, <1>7, <1>8

-----------------------------------------------------------------------------
(* The theorem *)

\* The invariant says what it should of the listeners.
LEMMA ListenInvSound == ListenInv => ListenersSound
<1> SUFFICES ASSUME ListenInv PROVE ListenersSound
  OBVIOUS
<1>1. \A l \in Listener : listener[l] \in ListenerSet /\ ListenerOK(listener[l])
  BY DEF ListenInv
<1>2. OnceIsOnce
  BY <1>1 DEF OnceIsOnce, ListenerOK
<1>3. HandleStructLive
  BY <1>1 DEF HandleStructLive, ListenerOK, ListenInv
<1>4. ASSUME NEW l \in Listener, ~listener[l].roots PROVE ~listener[l].rooted
  BY <1>1, <1>4 DEF ListenerOK
<1>5. \A i \in 1..Len(order) : listener[order[i]].rooted
  BY DEF ListenInv, OrderOK
<1>6. StoppedIsGone
  BY <1>4, <1>5 DEF StoppedIsGone
<1> QED BY <1>2, <1>3, <1>6 DEF ListenersSound

\* Whatever scripts and their handlers do, and however deep emissions nest, a handler
\* of once is called at most once, the struct of a listener is freed by the last of its
\* users and used by nobody afterwards, and a stopped listener is out of the signal.
THEOREM ListenersAlwaysSound == ListenSpec => []ListenersSound
<1>1. ListenInit => ListenInv
  <2> SUFFICES ASSUME ListenInit PROVE ListenInv
    OBVIOUS
  <2> DEFINE f == FALSE
  <2>1. Fresh = [added |-> f, once |-> f, roots |-> f, rooted |-> f, wrapper |-> f, lua |-> f, freed |-> f,
                 calls |-> 0] /\ f \in BOOLEAN /\ ~f
    BY DEF Fresh
  <2> HIDE DEF f
  <2>2. Fresh \in ListenerSet
    BY ONLY <2>1 DEF ListenerSet
  <2>3. ListenerOK(Fresh)
    BY ONLY <2>1 DEF ListenerOK
  <2>4. listener \in [Listener -> ListenerSet] /\ \A l \in Listener : ListenerOK(listener[l])
    BY <2>2, <2>3 DEF ListenInit
  <2>5. order = <<>> /\ emits = <<>> /\ emissions = 0 /\ touched = {}
    BY DEF ListenInit
  <2>6. order \in Seq(Listener) /\ emits \in Seq(EmissionSet) /\ DOMAIN order = {}
    BY ONLY <2>5
  <2>7. OrderOK(order, listener)
    BY ONLY <2>6 DEF OrderOK
  <2> QED BY <2>4, <2>5, <2>6, <2>7 DEF ListenInv
<1>2. ListenInv /\ [ListenNext]_listenVars => ListenInv'
  <2> SUFFICES ASSUME ListenInv, [ListenNext]_listenVars PROVE ListenInv'
    OBVIOUS
  <2>1. ASSUME NEW l \in Listener, NEW once \in BOOLEAN, AddListener(l, once) PROVE ListenInv'
    BY <2>1, AddListenerInv
  <2>2. ASSUME NEW l \in Listener, Stop(l) PROVE ListenInv'
    BY <2>2, StopInv
  <2>3. ASSUME NEW l \in Listener, GcListenHandle(l) PROVE ListenInv'
    BY <2>3, GcListenHandleInv
  <2>4. ASSUME NEW l \in Listener, ClearRoots(l) PROVE ListenInv'
    BY <2>4, ClearRootsInv
  <2>5. CASE Emit \/ EmitEnds
    BY <2>5, EmitInv
  <2>6. CASE CallNext
    BY <2>6, CallNextInv
  <2>7. CASE HandlerReturns
    BY <2>7, HandlerReturnsInv
  <2>8. CASE UNCHANGED listenVars
    BY <2>8 DEF listenVars, ListenInv
  <2> QED BY <2>1, <2>2, <2>3, <2>4, <2>5, <2>6, <2>7, <2>8 DEF ListenNext
<1> QED BY <1>1, <1>2, ListenInvSound, PTL DEF ListenSpec

-----------------------------------------------------------------------------
(* LuaState: the inductive invariant *)

StateSet == [rc : Nat, env : LuaScript \cup {NoScript}]
ScriptSet == [rc : Nat, state : Nat, users : Nat, refs : Nat]
CallSet == [kind : {"load", "call"}, script : LuaScript, state : Nat, holds : {{"script", "state"}},
            saved : LuaScript \cup {NoScript}]
WorldSet == [states : Seq(StateSet), script : [LuaScript -> ScriptSet]]

\* The scripts that have not given their state up.
Live(sc) == {s \in LuaScript : sc[s].state # 0}

\* The counts of the states and scripts of w: the state that the module knows is kept
\* by the live scripts and n calls, and no other is kept; h[s] calls keep script s.
WorldOK(w, mod, h, n) ==
    /\ w \in WorldSet /\ mod \in 0..Len(w.states) /\ n \in Nat /\ h \in [LuaScript -> Nat]
    /\ \A i \in DOMAIN w.states : w.states[i].rc = IF i = mod THEN Cardinality(Live(w.script)) + n ELSE 0
    /\ \A s \in LuaScript :
           /\ w.script[s].rc = w.script[s].users + w.script[s].refs + h[s]
           /\ w.script[s].state = IF w.script[s].rc > 0 THEN mod ELSE 0
           /\ w.script[s].rc > 0 => mod # 0

\* The calls that hold script s, and how many they are.
CallsOf(act, s) == {k \in DOMAIN act : act[k].script = s}
Held(act) == [s \in LuaScript |-> Cardinality(CallsOf(act, s))]

\* Calls run in the state that the module knows.
CallsOK(act, mod) == act \in Seq(CallSet) /\ \A k \in DOMAIN act : act[k].state = mod /\ mod # 0

Caller(act, k) == IF k = 1 THEN NoScript ELSE act[k - 1].script

\* The registry names the innermost script, and each call saved the one around it.
EnvOK(sts, mod, act) ==
    /\ \A k \in DOMAIN act : act[k].saved = Caller(act, k)
    /\ mod # 0 /\ sts[mod].rc > 0 => sts[mod].env = Caller(act, Len(act) + 1)

StateInv ==
    /\ WorldOK(World, module, Held(active), Len(active))
    /\ CallsOK(active, module)
    /\ ~astray => EnvOK(states, module, active)
    /\ astray \in BOOLEAN

-----------------------------------------------------------------------------
(* Worlds *)

\* One state changes.
LEMMA PutState ==
    ASSUME NEW w \in WorldSet, NEW i \in DOMAIN w.states, NEW x \in StateSet,
           NEW t, t = [w EXCEPT !.states[i] = x]
    PROVE  /\ t \in WorldSet /\ t.script = w.script /\ Len(t.states) = Len(w.states)
           /\ DOMAIN t.states = DOMAIN w.states /\ t.states[i] = x
           /\ \A j \in DOMAIN w.states : j # i => t.states[j] = w.states[j]
<1> DEFINE q == [w.states EXCEPT ![i] = x]
<1>1. w.states \in Seq(StateSet) /\ w = [states |-> w.states, script |-> w.script]
      /\ w.script \in [LuaScript -> ScriptSet]
  BY DEF WorldSet
<1>2. /\ q \in Seq(StateSet) /\ Len(q) = Len(w.states) /\ DOMAIN q = DOMAIN w.states /\ q[i] = x
      /\ \A j \in DOMAIN w.states : j # i => q[j] = w.states[j]
  BY ONLY <1>1, i \in DOMAIN w.states, x \in StateSet
<1>3. t = [w EXCEPT !.states = q]
  OBVIOUS
<1> HIDE DEF q
<1>4. t = [states |-> q, script |-> w.script]
  BY ONLY <1>1, <1>3
<1>5. t.states = q /\ t.script = w.script
  BY ONLY <1>4
<1>6. t \in WorldSet
  BY ONLY <1>1, <1>2, <1>4 DEF WorldSet
<1> QED BY ONLY <1>2, <1>5, <1>6

WithScript(w, s, x) == [w EXCEPT !.script[s] = x]

\* One script changes.
LEMMA PutScript ==
    ASSUME NEW w \in WorldSet, NEW s \in LuaScript, NEW x \in ScriptSet,
           NEW t, t = WithScript(w, s, x)
    PROVE  /\ t \in WorldSet /\ t.states = w.states /\ t.script[s] = x
           /\ \A k \in LuaScript : k # s => t.script[k] = w.script[k]
<1> DEFINE q == [w.script EXCEPT ![s] = x]
<1>1. w.states \in Seq(StateSet) /\ w = [states |-> w.states, script |-> w.script]
      /\ w.script \in [LuaScript -> ScriptSet]
  BY DEF WorldSet
<1>2. /\ q \in [LuaScript -> ScriptSet] /\ q[s] = x
      /\ \A k \in LuaScript : k # s => q[k] = w.script[k]
  BY ONLY <1>1, s \in LuaScript, x \in ScriptSet
<1>3. t = [w EXCEPT !.script = q]
  BY DEF WithScript
<1> HIDE DEF q
<1>4. t = [states |-> w.states, script |-> q]
  BY ONLY <1>1, <1>3
<1>5. t.states = w.states /\ t.script = q
  BY ONLY <1>4
<1>6. t \in WorldSet
  BY ONLY <1>1, <1>2, <1>4 DEF WorldSet
<1> QED BY ONLY <1>2, <1>5, <1>6

\* The environments of the states are the same.
EnvsSame(w, t) ==
    /\ Len(t.states) = Len(w.states)
    /\ \A i \in DOMAIN w.states : t.states[i].env = w.states[i].env

\* The live scripts can be counted, and none is counted exactly if there is none.
LEMMA LiveFinite ==
    ASSUME NEW sc
    PROVE  /\ IsFiniteSet(Live(sc)) /\ Cardinality(Live(sc)) \in Nat
           /\ Cardinality(Live(sc)) = 0 <=> Live(sc) = {}
<1>1. IsFiniteSet(Live(sc))
  BY StateAssumption, FS_Subset DEF Live
<1> QED BY <1>1, FS_CardinalityType, FS_EmptySet

\* The count of the state changes, and what keeps it.
LEMMA CountState ==
    ASSUME NEW w, NEW m, NEW h, NEW n, WorldOK(w, m, h, n), m # 0, NEW k \in Nat,
           NEW t, t = [w EXCEPT !.states[m].rc = Cardinality(Live(w.script)) + k]
    PROVE  WorldOK(t, m, h, k) /\ EnvsSame(w, t)
<1> DEFINE c == Cardinality(Live(w.script)) + k
           x == [w.states[m] EXCEPT !.rc = c]
<1>1. w \in WorldSet /\ w.states \in Seq(StateSet) /\ m \in DOMAIN w.states /\ w.states[m] \in StateSet
  BY DEF WorldOK, WorldSet
<1>2. c \in Nat
  BY LiveFinite
<1>3. t = [w EXCEPT !.states[m] = x]
  OBVIOUS
<1>4. x = [w.states[m] EXCEPT !.rc = c]
  OBVIOUS
<1> HIDE DEF x, c
<1>5. x \in StateSet /\ x.rc = c /\ x.env = w.states[m].env
  BY ONLY <1>1, <1>2, <1>4 DEF StateSet
<1>6. /\ t \in WorldSet /\ t.script = w.script /\ Len(t.states) = Len(w.states)
      /\ DOMAIN t.states = DOMAIN w.states /\ t.states[m] = x
      /\ \A j \in DOMAIN w.states : j # m => t.states[j] = w.states[j]
  BY ONLY <1>1, <1>3, <1>5, PutState
<1>7. EnvsSame(w, t)
  BY ONLY <1>5, <1>6 DEF EnvsSame
<1>8. \A i \in DOMAIN t.states : t.states[i].rc = IF i = m THEN Cardinality(Live(t.script)) + k ELSE 0
  BY <1>5, <1>6 DEF WorldOK, c
<1>9. \A s \in LuaScript :
           /\ t.script[s].rc = t.script[s].users + t.script[s].refs + h[s]
           /\ t.script[s].state = IF t.script[s].rc > 0 THEN m ELSE 0
           /\ t.script[s].rc > 0 => m # 0
  BY <1>6 DEF WorldOK
<1> QED BY <1>6, <1>7, <1>8, <1>9 DEF WorldOK

\* A call takes a reference to the state.
LEMMA RefStateOK ==
    ASSUME NEW w, NEW m, NEW h, NEW n, WorldOK(w, m, h, n), m # 0, NEW t, t = RefState(w, m)
    PROVE  WorldOK(t, m, h, n + 1) /\ EnvsSame(w, t)
<1>1. Cardinality(Live(w.script)) \in Nat /\ n \in Nat
  BY LiveFinite DEF WorldOK
<1>2. w.states[m].rc = Cardinality(Live(w.script)) + n
  BY DEF WorldOK, WorldSet
<1>3. w.states[m].rc + 1 = Cardinality(Live(w.script)) + (n + 1)
  BY ONLY <1>1, <1>2
<1>4. t = [w EXCEPT !.states[m].rc = Cardinality(Live(w.script)) + (n + 1)]
  BY <1>3 DEF RefState
<1> QED BY <1>1, <1>4, CountState

\* A call gives its reference to the state up.
LEMMA UnrefStateOK ==
    ASSUME NEW w, NEW m, NEW h, NEW n, WorldOK(w, m, h, n), m # 0, n > 0, NEW t, t = UnrefState(w, m)
    PROVE  WorldOK(t, m, h, n - 1) /\ EnvsSame(w, t)
<1>1. Cardinality(Live(w.script)) \in Nat /\ n \in Nat
  BY LiveFinite DEF WorldOK
<1>2. w.states[m].rc = Cardinality(Live(w.script)) + n
  BY DEF WorldOK, WorldSet
<1>3. w.states[m].rc - 1 = Cardinality(Live(w.script)) + (n - 1) /\ n - 1 \in Nat
  BY ONLY <1>1, <1>2, n > 0
<1>4. t = [w EXCEPT !.states[m].rc = Cardinality(Live(w.script)) + (n - 1)]
  BY <1>3 DEF UnrefState
<1> QED BY <1>3, <1>4, CountState

\* The environment of a state is exchanged.
LEMMA SetEnvOK ==
    ASSUME NEW w, NEW m, NEW h, NEW n, WorldOK(w, m, h, n), m # 0,
           NEW e \in LuaScript \cup {NoScript}, NEW t, t = SetEnv(w, m, e)
    PROVE  WorldOK(t, m, h, n) /\ t.states[m].env = e /\ t.states[m].rc = w.states[m].rc
<1> DEFINE x == [w.states[m] EXCEPT !.env = e]
<1>1. w \in WorldSet /\ w.states \in Seq(StateSet) /\ m \in DOMAIN w.states /\ w.states[m] \in StateSet
  BY DEF WorldOK, WorldSet
<1>3. t = [w EXCEPT !.states[m] = x]
  BY DEF SetEnv
<1>4. x = [w.states[m] EXCEPT !.env = e]
  OBVIOUS
<1> HIDE DEF x
<1>5. x \in StateSet /\ x.env = e /\ x.rc = w.states[m].rc
  BY ONLY <1>1, <1>4, e \in LuaScript \cup {NoScript} DEF StateSet
<1>6. /\ t \in WorldSet /\ t.script = w.script /\ Len(t.states) = Len(w.states)
      /\ DOMAIN t.states = DOMAIN w.states /\ t.states[m] = x
      /\ \A j \in DOMAIN w.states : j # m => t.states[j] = w.states[j]
  BY ONLY <1>1, <1>3, <1>5, PutState
<1>8. \A i \in DOMAIN t.states : t.states[i].rc = IF i = m THEN Cardinality(Live(t.script)) + n ELSE 0
  BY <1>5, <1>6 DEF WorldOK
<1>9. \A s \in LuaScript :
           /\ t.script[s].rc = t.script[s].users + t.script[s].refs + h[s]
           /\ t.script[s].state = IF t.script[s].rc > 0 THEN m ELSE 0
           /\ t.script[s].rc > 0 => m # 0
  BY <1>6 DEF WorldOK
<1> QED BY <1>5, <1>6, <1>8, <1>9 DEF WorldOK

Inc(h, s) == [h EXCEPT ![s] = @ + 1]
Dec(h, s) == [h EXCEPT ![s] = @ - 1]

\* One script changes, and with it who keeps it, but not whether it is live.
LEMMA CountScript ==
    ASSUME NEW w, NEW m, NEW h, NEW n, WorldOK(w, m, h, n), NEW s \in LuaScript, w.script[s].rc > 0,
           NEW x \in ScriptSet, x.rc > 0, x.state = w.script[s].state,
           NEW g \in [LuaScript -> Nat], \A k \in LuaScript : k # s => g[k] = h[k],
           x.rc = x.users + x.refs + g[s], NEW t, t = WithScript(w, s, x)
    PROVE  WorldOK(t, m, g, n) /\ t.states = w.states
<1>1. w \in WorldSet
  BY DEF WorldOK
<1>2. /\ t \in WorldSet /\ t.states = w.states /\ t.script[s] = x
      /\ \A k \in LuaScript : k # s => t.script[k] = w.script[k]
  BY <1>1, PutScript
<1>3. \A k \in LuaScript : t.script[k].state = w.script[k].state
  BY ONLY <1>2, x.state = w.script[s].state
<1>4. Live(t.script) = Live(w.script)
  BY ONLY <1>3 DEF Live
<1>5. ASSUME NEW k \in LuaScript
      PROVE  /\ t.script[k].rc = t.script[k].users + t.script[k].refs + g[k]
             /\ t.script[k].state = IF t.script[k].rc > 0 THEN m ELSE 0
             /\ t.script[k].rc > 0 => m # 0
  <2>1. CASE k = s
    BY <1>2, <2>1 DEF WorldOK
  <2>2. CASE k # s
    BY <1>2, <2>2 DEF WorldOK
  <2> QED BY <2>1, <2>2
<1>6. \A i \in DOMAIN t.states : t.states[i].rc = IF i = m THEN Cardinality(Live(t.script)) + n ELSE 0
  BY <1>2, <1>4 DEF WorldOK
<1> QED BY <1>2, <1>5, <1>6 DEF WorldOK

\* What is known of a script of a world.
LEMMA ScriptFacts ==
    ASSUME NEW w, NEW m, NEW h, NEW n, WorldOK(w, m, h, n), NEW s \in LuaScript, NEW x, x = w.script[s]
    PROVE  /\ x \in ScriptSet /\ x.rc \in Nat /\ x.users \in Nat /\ x.refs \in Nat /\ x.state \in Nat
           /\ h[s] \in Nat /\ x.rc = x.users + x.refs + h[s] /\ h \in [LuaScript -> Nat]
           /\ x = [rc |-> x.rc, state |-> x.state, users |-> x.users, refs |-> x.refs]
           /\ x.state = (IF x.rc > 0 THEN m ELSE 0) /\ (x.rc > 0 => m # 0)
<1>1. x \in ScriptSet
  BY DEF WorldOK, WorldSet
<1>2. h[s] \in Nat /\ x.rc = x.users + x.refs + h[s] /\ h \in [LuaScript -> Nat]
      /\ x.state = (IF x.rc > 0 THEN m ELSE 0) /\ (x.rc > 0 => m # 0)
  BY DEF WorldOK
<1> QED BY <1>1, <1>2 DEF ScriptSet

\* A call takes a reference to the script.
LEMMA RefScriptOK ==
    ASSUME NEW w, NEW m, NEW h, NEW n, WorldOK(w, m, h, n), NEW s \in LuaScript, w.script[s].rc > 0,
           NEW t, t = RefScript(w, s)
    PROVE  WorldOK(t, m, Inc(h, s), n) /\ t.states = w.states
<1> DEFINE z == w.script[s]
           x == [rc |-> z.rc + 1, state |-> z.state, users |-> z.users, refs |-> z.refs]
           g == Inc(h, s)
<1>1. /\ z \in ScriptSet /\ z.rc \in Nat /\ z.users \in Nat /\ z.refs \in Nat /\ z.state \in Nat
      /\ h[s] \in Nat /\ z.rc = z.users + z.refs + h[s] /\ h \in [LuaScript -> Nat]
      /\ z = [rc |-> z.rc, state |-> z.state, users |-> z.users, refs |-> z.refs]
  BY ScriptFacts
<1>2. t = [w EXCEPT !.script[s] = [z EXCEPT !.rc = z.rc + 1]]
  BY DEF RefScript
<1>3. [z EXCEPT !.rc = z.rc + 1] = x
  BY ONLY <1>1
<1>4. x \in ScriptSet /\ x.rc > 0 /\ x.state = z.state
  BY ONLY <1>1 DEF ScriptSet
<1>5. g \in [LuaScript -> Nat] /\ g[s] = h[s] + 1 /\ \A k \in LuaScript : k # s => g[k] = h[k]
  BY ONLY <1>1, s \in LuaScript DEF Inc
<1>6. x.rc = x.users + x.refs + g[s]
  BY ONLY <1>1, <1>5
<1>7. t = WithScript(w, s, x)
  BY <1>2, <1>3 DEF WithScript
<1> HIDE DEF x, g, z
<1>8. x.state = w.script[s].state
  BY <1>4 DEF z
<1>9. WorldOK(t, m, g, n) /\ t.states = w.states
  BY <1>4, <1>5, <1>6, <1>7, <1>8, CountScript
<1> QED BY <1>9 DEF g

\* The reference to a script that a call has becomes that of a user or of a value.
LEMMA GivenOK ==
    ASSUME NEW w, NEW m, NEW h, NEW n, WorldOK(w, m, h, n), NEW s \in LuaScript, h[s] > 0,
           NEW t, \/ t = [w EXCEPT !.script[s].refs = @ + 1]
                  \/ t = [w EXCEPT !.script[s].users = @ + 1]
    PROVE  WorldOK(t, m, Dec(h, s), n) /\ t.states = w.states
<1> DEFINE z == w.script[s]
           g == Dec(h, s)
<1>1. /\ z \in ScriptSet /\ z.rc \in Nat /\ z.users \in Nat /\ z.refs \in Nat /\ z.state \in Nat
      /\ h[s] \in Nat /\ z.rc = z.users + z.refs + h[s] /\ h \in [LuaScript -> Nat]
      /\ z = [rc |-> z.rc, state |-> z.state, users |-> z.users, refs |-> z.refs]
  BY ScriptFacts
<1>2. g \in [LuaScript -> Nat] /\ g[s] = h[s] - 1 /\ \A k \in LuaScript : k # s => g[k] = h[k]
  BY ONLY <1>1, s \in LuaScript, h[s] > 0 DEF Dec
<1>3. z.rc > 0 /\ w.script[s].rc > 0
  BY <1>1
<1>4. CASE t = [w EXCEPT !.script[s].refs = @ + 1]
  <2> DEFINE x == [rc |-> z.rc, state |-> z.state, users |-> z.users, refs |-> z.refs + 1]
  <2>1. t = [w EXCEPT !.script[s] = [z EXCEPT !.refs = z.refs + 1]]
    BY <1>4
  <2>2. [z EXCEPT !.refs = z.refs + 1] = x
    BY ONLY <1>1
  <2>3. x \in ScriptSet /\ x.rc > 0 /\ x.state = z.state
    BY ONLY <1>1, <1>3 DEF ScriptSet
  <2>4. x.rc = x.users + x.refs + g[s]
    BY ONLY <1>1, <1>2
  <2>5. t = WithScript(w, s, x)
    BY <2>1, <2>2 DEF WithScript
  <2> HIDE DEF x, g, z
  <2>6. x.state = w.script[s].state
    BY <2>3 DEF z
  <2>7. WorldOK(t, m, g, n) /\ t.states = w.states
    BY <1>2, <1>3, <2>3, <2>4, <2>5, <2>6, CountScript
  <2> QED BY <2>7 DEF g
<1>5. CASE t = [w EXCEPT !.script[s].users = @ + 1]
  <2> DEFINE x == [rc |-> z.rc, state |-> z.state, users |-> z.users + 1, refs |-> z.refs]
  <2>1. t = [w EXCEPT !.script[s] = [z EXCEPT !.users = z.users + 1]]
    BY <1>5
  <2>2. [z EXCEPT !.users = z.users + 1] = x
    BY ONLY <1>1
  <2>3. x \in ScriptSet /\ x.rc > 0 /\ x.state = z.state
    BY ONLY <1>1, <1>3 DEF ScriptSet
  <2>4. x.rc = x.users + x.refs + g[s]
    BY ONLY <1>1, <1>2
  <2>5. t = WithScript(w, s, x)
    BY <2>1, <2>2 DEF WithScript
  <2> HIDE DEF x, g, z
  <2>6. x.state = w.script[s].state
    BY <2>3 DEF z
  <2>7. WorldOK(t, m, g, n) /\ t.states = w.states
    BY <1>2, <1>3, <2>3, <2>4, <2>5, <2>6, CountScript
  <2> QED BY <2>7 DEF g
<1> QED BY <1>4, <1>5

\* The reference of a user or of a value is about to be given up.
LEMMA TakenOK ==
    ASSUME NEW w, NEW m, NEW h, NEW n, WorldOK(w, m, h, n), NEW s \in LuaScript,
           NEW t, \/ w.script[s].refs > 0 /\ t = [w EXCEPT !.script[s].refs = @ - 1]
                  \/ w.script[s].users > 0 /\ t = [w EXCEPT !.script[s].users = @ - 1]
    PROVE  WorldOK(t, m, Inc(h, s), n) /\ t.states = w.states
<1> DEFINE z == w.script[s]
           g == Inc(h, s)
<1>1. /\ z \in ScriptSet /\ z.rc \in Nat /\ z.users \in Nat /\ z.refs \in Nat /\ z.state \in Nat
      /\ h[s] \in Nat /\ z.rc = z.users + z.refs + h[s] /\ h \in [LuaScript -> Nat]
      /\ z = [rc |-> z.rc, state |-> z.state, users |-> z.users, refs |-> z.refs]
  BY ScriptFacts
<1>2. g \in [LuaScript -> Nat] /\ g[s] = h[s] + 1 /\ \A k \in LuaScript : k # s => g[k] = h[k]
  BY ONLY <1>1, s \in LuaScript DEF Inc
<1>3. CASE z.refs > 0 /\ t = [w EXCEPT !.script[s].refs = @ - 1]
  <2> DEFINE x == [rc |-> z.rc, state |-> z.state, users |-> z.users, refs |-> z.refs - 1]
  <2>1. t = [w EXCEPT !.script[s] = [z EXCEPT !.refs = z.refs - 1]]
    BY <1>3
  <2>2. [z EXCEPT !.refs = z.refs - 1] = x
    BY ONLY <1>1
  <2>3. x \in ScriptSet /\ x.rc > 0 /\ x.state = z.state
    BY ONLY <1>1, <1>3 DEF ScriptSet
  <2>4. x.rc = x.users + x.refs + g[s]
    BY ONLY <1>1, <1>2
  <2>5. t = WithScript(w, s, x)
    BY <2>1, <2>2 DEF WithScript
  <2>6. x.state = w.script[s].state /\ w.script[s].rc > 0
    BY <1>1, <1>3, <2>3
  <2> HIDE DEF x, g, z
  <2>7. WorldOK(t, m, g, n) /\ t.states = w.states
    BY <1>2, <2>3, <2>4, <2>5, <2>6, CountScript
  <2> QED BY <2>7 DEF g
<1>4. CASE z.users > 0 /\ t = [w EXCEPT !.script[s].users = @ - 1]
  <2> DEFINE x == [rc |-> z.rc, state |-> z.state, users |-> z.users - 1, refs |-> z.refs]
  <2>1. t = [w EXCEPT !.script[s] = [z EXCEPT !.users = z.users - 1]]
    BY <1>4
  <2>2. [z EXCEPT !.users = z.users - 1] = x
    BY ONLY <1>1
  <2>3. x \in ScriptSet /\ x.rc > 0 /\ x.state = z.state
    BY ONLY <1>1, <1>4 DEF ScriptSet
  <2>4. x.rc = x.users + x.refs + g[s]
    BY ONLY <1>1, <1>2
  <2>5. t = WithScript(w, s, x)
    BY <2>1, <2>2 DEF WithScript
  <2>6. x.state = w.script[s].state /\ w.script[s].rc > 0
    BY <1>1, <1>4, <2>3
  <2> HIDE DEF x, g, z
  <2>7. WorldOK(t, m, g, n) /\ t.states = w.states
    BY <1>2, <2>3, <2>4, <2>5, <2>6, CountScript
  <2> QED BY <2>7 DEF g
<1> QED BY <1>3, <1>4

\* A script that nobody keeps gives its reference to the state to the call that ended it.
LEMMA DiesOK ==
    ASSUME NEW w, NEW m, NEW h, NEW n, WorldOK(w, m, h, n), NEW s \in LuaScript, w.script[s].rc > 0,
           NEW x \in ScriptSet, x.rc = 0, x.state = 0, x.users = 0, x.refs = 0,
           NEW g \in [LuaScript -> Nat], \A k \in LuaScript : k # s => g[k] = h[k], g[s] = 0,
           NEW t, t = WithScript(w, s, x)
    PROVE  WorldOK(t, m, g, n + 1) /\ t.states = w.states
<1>1. w \in WorldSet /\ n \in Nat
  BY DEF WorldOK
<1>2. /\ t \in WorldSet /\ t.states = w.states /\ t.script[s] = x
      /\ \A k \in LuaScript : k # s => t.script[k] = w.script[k]
  BY <1>1, PutScript
<1>3. w.script[s].state # 0
  BY DEF WorldOK
<1>4. Live(t.script) = Live(w.script) \ {s} /\ s \in Live(w.script)
  BY <1>2, <1>3 DEF Live
<1>5. Cardinality(Live(t.script)) = Cardinality(Live(w.script)) - 1
  <2>1. IsFiniteSet(Live(w.script))
    BY LiveFinite
  <2>2. Cardinality(Live(w.script) \ {s}) = Cardinality(Live(w.script)) - 1
    BY ONLY <1>4, <2>1, FS_RemoveElement
  <2> QED BY ONLY <1>4, <2>2
<1>6. Cardinality(Live(t.script)) + (n + 1) = Cardinality(Live(w.script)) + n
  BY <1>1, <1>5, LiveFinite
<1>7. ASSUME NEW k \in LuaScript
      PROVE  /\ t.script[k].rc = t.script[k].users + t.script[k].refs + g[k]
             /\ t.script[k].state = IF t.script[k].rc > 0 THEN m ELSE 0
             /\ t.script[k].rc > 0 => m # 0
  <2>1. CASE k = s
    BY <1>2, <2>1
  <2>2. CASE k # s
    BY <1>2, <2>2 DEF WorldOK
  <2> QED BY <2>1, <2>2
<1>8. \A i \in DOMAIN t.states : t.states[i].rc = IF i = m THEN Cardinality(Live(t.script)) + (n + 1) ELSE 0
  BY <1>2, <1>6 DEF WorldOK
<1> QED BY <1>1, <1>2, <1>7, <1>8 DEF WorldOK

\* A new script takes the reference to the state that the call which made it has.
LEMMA BornOK ==
    ASSUME NEW w, NEW m, NEW h, NEW n, WorldOK(w, m, h, n), NEW s \in LuaScript, w.script[s].rc = 0,
           m # 0, n > 0, NEW t, t = NewIn(w, s, m)
    PROVE  WorldOK(t, m, Inc(h, s), n - 1) /\ t.states = w.states
<1> DEFINE x == [NewScript EXCEPT !.rc = 1, !.state = m]
           g == Inc(h, s)
<1>1. w \in WorldSet /\ n \in Nat /\ m \in Nat /\ h \in [LuaScript -> Nat]
  BY DEF WorldOK, WorldSet
<1>2. w.script[s].state = 0 /\ h[s] = 0
  BY ScriptFacts
<1>3. t = WithScript(w, s, x)
  BY DEF NewIn, WithScript
<1>4. x \in ScriptSet /\ x.rc = 1 /\ x.state = m /\ x.users = 0 /\ x.refs = 0
  BY ONLY <1>1 DEF ScriptSet, NewScript
<1>5. g \in [LuaScript -> Nat] /\ g[s] = 1 /\ \A k \in LuaScript : k # s => g[k] = h[k]
  BY ONLY <1>1, <1>2, s \in LuaScript DEF Inc
<1>6. x.rc = 1 /\ x.state = m /\ x.users = 0 /\ x.refs = 0
  BY <1>4
<1> HIDE DEF x, g
<1>7. /\ t \in WorldSet /\ t.states = w.states /\ t.script[s] = x
      /\ \A k \in LuaScript : k # s => t.script[k] = w.script[k]
  BY <1>1, <1>3, <1>4, PutScript
<1>8. Live(t.script) = Live(w.script) \cup {s} /\ s \notin Live(w.script)
  BY <1>2, <1>6, <1>7 DEF Live
<1>9. Cardinality(Live(t.script)) = Cardinality(Live(w.script)) + 1
  <2>1. IsFiniteSet(Live(w.script))
    BY LiveFinite
  <2> QED BY ONLY <1>8, <2>1, FS_AddElement
<1>10. Cardinality(Live(t.script)) + (n - 1) = Cardinality(Live(w.script)) + n /\ n - 1 \in Nat
  BY <1>1, <1>9, LiveFinite
<1>11. ASSUME NEW k \in LuaScript
       PROVE  /\ t.script[k].rc = t.script[k].users + t.script[k].refs + g[k]
              /\ t.script[k].state = IF t.script[k].rc > 0 THEN m ELSE 0
              /\ t.script[k].rc > 0 => m # 0
  <2>1. CASE k = s
    BY <1>5, <1>6, <1>7, <2>1
  <2>2. CASE k # s
    BY <1>5, <1>7, <2>2 DEF WorldOK
  <2> QED BY <2>1, <2>2
<1>12. \A i \in DOMAIN t.states : t.states[i].rc = IF i = m THEN Cardinality(Live(t.script)) + (n - 1) ELSE 0
  BY <1>7, <1>10 DEF WorldOK
<1>13. WorldOK(t, m, g, n - 1)
  BY <1>5, <1>7, <1>10, <1>11, <1>12 DEF WorldOK
<1> QED BY <1>7, <1>13 DEF g

\* A call gives its reference to the script up, and the script its state if it was the last.
LEMMA UnrefScriptOK ==
    ASSUME NEW w, NEW m, NEW h, NEW n, WorldOK(w, m, h, n), NEW s \in LuaScript, h[s] > 0,
           NEW t, t = UnrefScript(w, s)
    PROVE  WorldOK(t, m, Dec(h, s), n) /\ EnvsSame(w, t)
<1> DEFINE z == w.script[s]
           g == Dec(h, s)
           x == [rc |-> z.rc - 1, state |-> z.state, users |-> z.users, refs |-> z.refs]
           u == [w EXCEPT !.script[s].rc = @ - 1]
<1>1. /\ z \in ScriptSet /\ z.rc \in Nat /\ z.users \in Nat /\ z.refs \in Nat /\ z.state \in Nat
      /\ h[s] \in Nat /\ z.rc = z.users + z.refs + h[s] /\ h \in [LuaScript -> Nat]
      /\ z = [rc |-> z.rc, state |-> z.state, users |-> z.users, refs |-> z.refs]
      /\ z.state = (IF z.rc > 0 THEN m ELSE 0) /\ (z.rc > 0 => m # 0)
  BY ScriptFacts
<1>2. g \in [LuaScript -> Nat] /\ g[s] = h[s] - 1 /\ \A k \in LuaScript : k # s => g[k] = h[k]
  BY ONLY <1>1, s \in LuaScript, h[s] > 0 DEF Dec
<1>3. z.rc > 0 /\ w.script[s].rc > 0 /\ z.state = m /\ m # 0
  BY <1>1
<1>4. x \in ScriptSet /\ x.rc = z.rc - 1 /\ x.state = z.state /\ x.users = z.users /\ x.refs = z.refs
      /\ x.rc \in Nat
  BY ONLY <1>1, <1>3 DEF ScriptSet
<1>5. w \in WorldSet /\ n \in Nat
  BY DEF WorldOK
<1>6. u = WithScript(w, s, x)
  <2>1. [z EXCEPT !.rc = z.rc - 1] = x
    BY ONLY <1>1
  <2>2. u = WithScript(w, s, [z EXCEPT !.rc = z.rc - 1])
    BY DEF WithScript
  <2> QED BY <2>1, <2>2
<1>7. /\ u \in WorldSet /\ u.states = w.states /\ u.script[s] = x
      /\ \A k \in LuaScript : k # s => u.script[k] = w.script[k]
  <2> HIDE DEF x, u
  <2> QED BY <1>4, <1>5, <1>6, PutScript
<1>8. t = IF x.rc > 0 \/ x.state = 0 THEN u ELSE UnrefState([u EXCEPT !.script[s].state = 0], x.state)
  <2>1. t = IF u.script[s].rc > 0 \/ u.script[s].state = 0 THEN u
            ELSE UnrefState([u EXCEPT !.script[s].state = 0], u.script[s].state)
    BY DEF UnrefScript
  <2> HIDE DEF x, u
  <2> QED BY <1>7, <2>1
<1>9. CASE x.rc > 0
  <2>1. t = WithScript(w, s, x)
    BY <1>6, <1>8, <1>9
  <2>2. x.rc = x.users + x.refs + g[s]
    BY ONLY <1>1, <1>2, <1>4
  <2>3. x.state = w.script[s].state
    BY <1>4
  <2> HIDE DEF x, z, u, g
  <2>4. WorldOK(t, m, g, n) /\ t.states = w.states
    BY <1>2, <1>3, <1>4, <1>9, <2>1, <2>2, <2>3, CountScript
  <2> QED BY <2>4 DEF EnvsSame, g
<1>10. CASE ~(x.rc > 0)
  <2> DEFINE y == [rc |-> 0, state |-> 0, users |-> 0, refs |-> 0]
             v == WithScript(w, s, y)
  <2>1. x.rc = 0 /\ z.users = 0 /\ z.refs = 0 /\ g[s] = 0
    <3> HIDE DEF x, z, g
    <3>1. x.rc = 0 /\ z.rc = 1
      BY ONLY <1>1, <1>4, <1>10
    <3> QED BY ONLY <1>1, <1>2, <3>1, h[s] > 0
  <2>2. [x EXCEPT !.state = 0] = y
    BY ONLY <1>1, <2>1
  <2>3. [u EXCEPT !.script[s].state = 0] = v
    <3>1. [u EXCEPT !.script[s].state = 0] = WithScript(u, s, [u.script[s] EXCEPT !.state = 0])
      BY DEF WithScript
    <3>2. [u EXCEPT !.script[s].state = 0] = WithScript(u, s, y)
      BY <1>7, <2>2, <3>1
    <3>3. y \in ScriptSet
      BY DEF ScriptSet
    <3> HIDE DEF x, y, u
    <3>4. /\ WithScript(u, s, y) \in WorldSet /\ WithScript(u, s, y).states = w.states
          /\ WithScript(u, s, y).script[s] = y
          /\ \A k \in LuaScript : k # s => WithScript(u, s, y).script[k] = w.script[k]
      BY <1>7, <3>3, PutScript
    <3>5. /\ v \in WorldSet /\ v.states = w.states /\ v.script[s] = y
          /\ \A k \in LuaScript : k # s => v.script[k] = w.script[k]
      BY <1>5, <3>3, PutScript
    <3> DEFINE a == WithScript(u, s, y)
               b == WithScript(w, s, y)
    <3>6. a \in WorldSet /\ b \in WorldSet /\ a.states = b.states /\ \A k \in LuaScript : a.script[k] = b.script[k]
      BY <3>4, <3>5
    <3> HIDE DEF a, b
    <3>7. a = b
      BY ONLY <3>6 DEF WorldSet
    <3> QED BY <3>2, <3>7 DEF a, b
  <2>4. t = UnrefState(v, m)
    BY <1>3, <1>4, <1>8, <1>10, <2>3
  <2>5. y \in ScriptSet /\ y.rc = 0 /\ y.state = 0 /\ y.users = 0 /\ y.refs = 0
    BY DEF ScriptSet
  <2> HIDE DEF x, z, u, g, y
  <2>6. WorldOK(v, m, g, n + 1) /\ v.states = w.states
    BY <1>2, <1>3, <2>1, <2>5, DiesOK
  <2> HIDE DEF v
  <2>7. n + 1 > 0 /\ (n + 1) - 1 = n
    BY <1>5
  <2>8. WorldOK(t, m, g, (n + 1) - 1) /\ EnvsSame(v, t)
    BY <1>3, <2>4, <2>6, <2>7, UnrefStateOK
  <2> QED BY <2>6, <2>7, <2>8 DEF EnvsSame, g
<1> QED BY <1>9, <1>10

-----------------------------------------------------------------------------
(* Calls *)

\* A reference taken and given up again.
LEMMA DecInc ==
    ASSUME NEW h \in [LuaScript -> Nat], NEW s \in LuaScript
    PROVE  Inc(h, s)[s] > 0 /\ Dec(Inc(h, s), s) = h
<1> DEFINE g == Inc(h, s)
           f == Dec(g, s)
<1>1. g \in [LuaScript -> Nat] /\ g[s] = h[s] + 1 /\ \A k \in LuaScript : k # s => g[k] = h[k]
  BY DEF Inc
<1> HIDE DEF g
<1>2. f \in [LuaScript -> Int] /\ f[s] = g[s] - 1 /\ \A k \in LuaScript : k # s => f[k] = g[k]
  BY <1>1 DEF Dec
<1> HIDE DEF f
<1>3. h[s] \in Nat /\ \A k \in LuaScript : f[k] = h[k]
  BY <1>1, <1>2
<1>4. f = h
  BY ONLY <1>2, <1>3, h \in [LuaScript -> Nat]
<1> QED BY <1>1, <1>3, <1>4 DEF f, g

\* The calls of a script can be counted.
LEMMA HeldType ==
    ASSUME NEW act \in Seq(CallSet)
    PROVE  /\ Held(act) \in [LuaScript -> Nat]
           /\ \A s \in LuaScript : IsFiniteSet(CallsOf(act, s))
<1>1. DOMAIN act = 1..Len(act) /\ Len(act) \in Nat
  OBVIOUS
<1>2. IsFiniteSet(DOMAIN act)
  BY <1>1, FS_Interval
<1>3. \A s \in LuaScript : IsFiniteSet(CallsOf(act, s))
  BY <1>2, FS_Subset DEF CallsOf
<1>4. \A s \in LuaScript : Cardinality(CallsOf(act, s)) \in Nat
  BY <1>3, FS_CardinalityType
<1> QED BY <1>3, <1>4 DEF Held

\* A call begins.
LEMMA HeldPush ==
    ASSUME NEW act \in Seq(CallSet), NEW f \in CallSet
    PROVE  Held(Append(act, f)) = Inc(Held(act), f.script)
<1> DEFINE b == Append(act, f)
           n == Len(act) + 1
<1>1. f.script \in LuaScript
  BY DEF CallSet
<1>2. /\ b \in Seq(CallSet) /\ DOMAIN b = DOMAIN act \cup {n} /\ n \notin DOMAIN act
      /\ b[n] = f /\ \A k \in DOMAIN act : b[k] = act[k]
  OBVIOUS
<1> HIDE DEF b, n
<1>3. ASSUME NEW s \in LuaScript
      PROVE  Cardinality(CallsOf(b, s)) = Cardinality(CallsOf(act, s)) + (IF s = f.script THEN 1 ELSE 0)
  <2>1. IsFiniteSet(CallsOf(act, s)) /\ n \notin CallsOf(act, s) /\ Cardinality(CallsOf(act, s)) \in Nat
    BY <1>2, HeldType, FS_CardinalityType DEF CallsOf
  <2>2. CASE s = f.script
    <3>1. CallsOf(b, s) = CallsOf(act, s) \cup {n}
      BY <1>2, <2>2 DEF CallsOf
    <3> QED BY <2>1, <2>2, <3>1, FS_AddElement
  <2>3. CASE s # f.script
    <3>1. CallsOf(b, s) = CallsOf(act, s)
      BY <1>2, <2>3 DEF CallsOf
    <3> QED BY <2>1, <2>3, <3>1
  <2> QED BY <2>2, <2>3
<1>4. Held(act) \in [LuaScript -> Nat] /\ Held(b) \in [LuaScript -> Nat]
  BY <1>2, HeldType
<1>5. \A s \in LuaScript : Held(b)[s] = Held(act)[s] + (IF s = f.script THEN 1 ELSE 0)
  BY <1>3 DEF Held
<1>6. Inc(Held(act), f.script) \in [LuaScript -> Nat]
      /\ \A s \in LuaScript : Inc(Held(act), f.script)[s] = Held(act)[s] + (IF s = f.script THEN 1 ELSE 0)
  <2> DEFINE h == Held(act)
             c == f.script
  <2>1. h \in [LuaScript -> Nat] /\ c \in LuaScript
    BY <1>1, <1>4
  <2> HIDE DEF h, c
  <2>2. Inc(h, c) \in [LuaScript -> Nat]
        /\ \A s \in LuaScript : Inc(h, c)[s] = h[s] + (IF s = c THEN 1 ELSE 0)
    BY ONLY <2>1 DEF Inc
  <2> QED BY <2>2 DEF h, c
<1>7. Held(b) = Inc(Held(act), f.script)
  <2> DEFINE h == Held(b)
             g == Inc(Held(act), f.script)
  <2>1. h \in [LuaScript -> Nat] /\ g \in [LuaScript -> Nat] /\ \A s \in LuaScript : h[s] = g[s]
    BY <1>4, <1>5, <1>6
  <2> HIDE DEF h, g
  <2>2. h = g
    BY ONLY <2>1
  <2> QED BY <2>2 DEF h, g
<1> QED BY <1>7 DEF b

\* The stack of calls with one more.
LEMMA PushFacts ==
    ASSUME NEW act \in Seq(CallSet), NEW f \in CallSet
    PROVE  /\ Append(act, f) \in Seq(CallSet) /\ Len(Append(act, f)) = Len(act) + 1
           /\ \A k \in DOMAIN Append(act, f) :
                  \/ Append(act, f)[k] = f
                  \/ k \in DOMAIN act /\ Append(act, f)[k] = act[k]
<1> DEFINE b == Append(act, f)
<1>1. /\ b \in Seq(CallSet) /\ Len(b) = Len(act) + 1 /\ Len(act) \in Nat
      /\ DOMAIN b = 1..(Len(act) + 1) /\ DOMAIN act = 1..Len(act)
      /\ b[Len(act) + 1] = f /\ \A k \in DOMAIN act : b[k] = act[k]
  OBVIOUS
<1> HIDE DEF b
<1>2. \A k \in DOMAIN b : k = Len(act) + 1 \/ k \in DOMAIN act
  BY ONLY <1>1
<1>3. b \in Seq(CallSet) /\ Len(b) = Len(act) + 1
      /\ \A k \in DOMAIN b : b[k] = f \/ (k \in DOMAIN act /\ b[k] = act[k])
  BY <1>1, <1>2
<1> QED BY <1>3 DEF b

\* The stack of calls without the innermost one.
LEMMA PopFacts ==
    ASSUME NEW act \in Seq(CallSet), act # <<>>, NEW b, b = Front(act)
    PROVE  /\ b \in Seq(CallSet) /\ Last(act) \in CallSet /\ act = Append(b, Last(act))
           /\ Len(act) \in Nat \ {0} /\ Len(b) = Len(act) - 1 /\ DOMAIN b = 1..(Len(act) - 1)
           /\ Last(act) = act[Len(act)] /\ \A k \in DOMAIN b : b[k] = act[k]
<1>1. Len(act) \in Nat \ {0} /\ DOMAIN act = 1..Len(act)
  OBVIOUS
<1>2. b = SubSeq(act, 1, Len(act) - 1) /\ Last(act) = act[Len(act)]
  BY DEF Front, Last
<1>3. b \in Seq(CallSet) /\ Len(b) = Len(act) - 1 /\ \A k \in 1..(Len(act) - 1) : b[k] = act[k]
  BY <1>1, <1>2
<1>4. Last(act) \in CallSet
  BY <1>1, <1>2
<1>5. DOMAIN b = 1..(Len(act) - 1)
  BY <1>1, <1>3
<1>6. act = Append(b, Last(act))
  BY <1>1, <1>2, <1>3, <1>4
<1> QED BY <1>1, <1>2, <1>3, <1>4, <1>5, <1>6

\* A call ends.
LEMMA HeldPop ==
    ASSUME NEW act \in Seq(CallSet), act # <<>>
    PROVE  /\ Held(act)[Last(act).script] > 0 /\ Last(act).script \in LuaScript
           /\ Held(Front(act)) = Dec(Held(act), Last(act).script)
<1> DEFINE b == Front(act)
           f == Last(act)
<1>1. b \in Seq(CallSet) /\ f \in CallSet /\ act = Append(b, f)
  BY PopFacts
<1> HIDE DEF b, f
<1>2. f.script \in LuaScript /\ Held(b) \in [LuaScript -> Nat]
  BY <1>1, HeldType DEF CallSet
<1>3. Held(act) = Inc(Held(b), f.script)
  BY <1>1, HeldPush
<1>4. Inc(Held(b), f.script)[f.script] > 0 /\ Dec(Inc(Held(b), f.script), f.script) = Held(b)
  BY <1>2, DecInc
<1>5. Held(act)[f.script] > 0 /\ f.script \in LuaScript /\ Held(b) = Dec(Held(act), f.script)
  BY <1>2, <1>3, <1>4
<1> QED BY <1>5 DEF b, f

\* A call that begins saves the script in the registry and puts its own there.
LEMMA EnvPush ==
    ASSUME NEW act \in Seq(CallSet), NEW f \in CallSet, NEW sts, NEW m,
           \A k \in DOMAIN act : act[k].saved = Caller(act, k),
           f.saved = Caller(act, Len(act) + 1), sts[m].env = f.script
    PROVE  EnvOK(sts, m, Append(act, f))
<1> DEFINE b == Append(act, f)
           n == Len(act) + 1
<1>1. /\ Len(act) \in Nat /\ Len(b) = n /\ DOMAIN b = 1..n /\ DOMAIN act = 1..Len(act)
      /\ b[n] = f /\ \A k \in DOMAIN act : b[k] = act[k]
  OBVIOUS
<1>2. n = Len(act) + 1
  OBVIOUS
<1> HIDE DEF b, n
<1>3. \A k \in 1..n : Caller(b, k) = Caller(act, k)
  BY <1>1, <1>2 DEF Caller
<1>4. \A k \in 1..n : k \in DOMAIN act \/ k = n
  BY <1>1, <1>2
<1>5. \A k \in DOMAIN b : b[k].saved = Caller(b, k)
  BY <1>1, <1>2, <1>3, <1>4
<1>6. Caller(b, Len(b) + 1) = f.script
  BY <1>1, <1>2 DEF Caller
<1>7. EnvOK(sts, m, b)
  BY <1>5, <1>6 DEF EnvOK
<1> QED BY <1>7 DEF b

\* A call that ends puts back what it saved.
LEMMA EnvPop ==
    ASSUME NEW act \in Seq(CallSet), act # <<>>, NEW sts, NEW m,
           \A k \in DOMAIN act : act[k].saved = Caller(act, k), sts[m].env = Last(act).saved
    PROVE  EnvOK(sts, m, Front(act))
<1> DEFINE b == Front(act)
           n == Len(act)
<1>1. /\ n \in Nat \ {0} /\ Len(b) = n - 1 /\ DOMAIN b = 1..(n - 1) /\ Last(act) = act[n]
      /\ \A k \in DOMAIN b : b[k] = act[k]
  BY PopFacts
<1>2. DOMAIN act = 1..n
  OBVIOUS
<1> HIDE DEF b, n
<1>3. \A k \in 1..n : Caller(b, k) = Caller(act, k)
  BY <1>1 DEF Caller
<1>4. \A k \in DOMAIN b : b[k].saved = Caller(b, k)
  BY <1>1, <1>2, <1>3
<1>5. sts[m].env = Caller(b, Len(b) + 1)
  <2>1. n \in 1..n /\ Len(b) + 1 = n
    BY <1>1
  <2> QED BY <1>1, <1>2, <1>3, <2>1
<1>6. EnvOK(sts, m, b)
  BY <1>4, <1>5 DEF EnvOK
<1> QED BY <1>6 DEF b

-----------------------------------------------------------------------------
(* Each step keeps the invariant *)

\* A step that gives the world w and fitting calls keeps the invariant.
LEMMA StepInv ==
    ASSUME NEW w, Becomes(w), WorldOK(w, module', Held(active'), Len(active')),
           CallsOK(active', module'), astray' \in BOOLEAN,
           ~astray' => EnvOK(w.states, module', active')
    PROVE  StateInv'
<1>1. w = [states |-> w.states, script |-> w.script]
  BY DEF WorldOK, WorldSet
<1>2. states' = w.states /\ script' = w.script
  BY DEF Becomes
<1>3. World' = w
  BY <1>1, <1>2 DEF World
<1> QED BY <1>2, <1>3 DEF StateInv

\* What the invariant says of the variables.
LEMMA InvFacts ==
    ASSUME StateInv
    PROVE  /\ WorldOK(World, module, Held(active), Len(active))
           /\ World.states = states /\ World.script = script
           /\ states \in Seq(StateSet) /\ script \in [LuaScript -> ScriptSet]
           /\ module \in 0..Len(states) /\ Len(states) \in Nat
           /\ active \in Seq(CallSet) /\ Len(active) \in Nat
           /\ Held(active) \in [LuaScript -> Nat]
           /\ \A k \in DOMAIN active : active[k].state = module /\ module # 0
<1>1. WorldOK(World, module, Held(active), Len(active)) /\ CallsOK(active, module)
  BY DEF StateInv
<1>2. World.states = states /\ World.script = script
  BY DEF World
<1>3. World \in WorldSet /\ module \in 0..Len(World.states)
  BY <1>1 DEF WorldOK
<1>4. states \in Seq(StateSet) /\ script \in [LuaScript -> ScriptSet]
  BY <1>2, <1>3 DEF WorldSet
<1>5. active \in Seq(CallSet) /\ \A k \in DOMAIN active : active[k].state = module /\ module # 0
  BY <1>1 DEF CallsOK
<1> QED BY <1>1, <1>2, <1>3, <1>4, <1>5, HeldType

\* A script that somebody keeps is in the state that the module knows, which is open.
LEMMA KeptFacts ==
    ASSUME StateInv, NEW s \in LuaScript, script[s].rc > 0
    PROVE  script[s].state = module /\ module # 0 /\ states[module].rc > 0
<1>1. WorldOK(World, module, Held(active), Len(active)) /\ World.script = script /\ World.states = states
      /\ module \in 0..Len(states) /\ Len(active) \in Nat /\ DOMAIN states = 1..Len(states)
  BY InvFacts
<1>2. script[s].state = module /\ module # 0
  BY <1>1 DEF WorldOK
<1>3. s \in Live(script)
  BY <1>2 DEF Live
<1>4. Cardinality(Live(script)) \in Nat /\ Cardinality(Live(script)) # 0
  BY <1>3, LiveFinite
<1>5. states[module].rc = Cardinality(Live(script)) + Len(active)
  BY <1>1, <1>2 DEF WorldOK
<1> QED BY <1>1, <1>2, <1>4, <1>5

\* The state for a new script: the one that is there, or a new one when nothing is
\* left of the last.
LEMMA WithStateOK ==
    ASSUME StateInv, NEW st, st = FindState, NEW v, v = WithState(st)
    PROVE  /\ WorldOK(v, st, Held(active), Len(active) + 1) /\ st # 0 /\ v.script = script
           /\ \/ st = module /\ states[module].rc > 0 /\ EnvsSame(World, v)
              \/ active = <<>> /\ v.states[st].env = NoScript
<1> DEFINE h == Held(active)
           n == Len(active)
<1>1. /\ WorldOK(World, module, h, n) /\ World.script = script /\ World.states = states
      /\ states \in Seq(StateSet) /\ script \in [LuaScript -> ScriptSet] /\ active \in Seq(CallSet)
      /\ module \in 0..Len(states) /\ Len(states) \in Nat /\ n \in Nat /\ h \in [LuaScript -> Nat]
      /\ DOMAIN states = 1..Len(states)
  BY InvFacts
<1>2. CASE module # 0 /\ states[module].rc > 0
  <2>1. st = module /\ st <= Len(states)
    BY <1>1, <1>2 DEF FindState
  <2>2. v = RefState(World, module)
    BY <2>1 DEF WithState
  <2>3. WorldOK(v, module, h, n + 1) /\ EnvsSame(World, v)
    BY <1>1, <1>2, <2>2, RefStateOK
  <2>4. v.script = World.script
    BY <2>2 DEF RefState, World
  <2> QED BY <1>1, <1>2, <2>1, <2>3, <2>4
<1>3. CASE ~(module # 0 /\ states[module].rc > 0)
  <2> DEFINE x == [rc |-> 1, env |-> NoScript]
             q == Append(states, x)
  <2>1. st = Len(states) + 1 /\ ~(st <= Len(states)) /\ st # 0
    BY <1>1, <1>3 DEF FindState
  <2>2. v = [states |-> q, script |-> script]
    BY <2>1 DEF WithState, World
  <2>3. x \in StateSet /\ x.rc = 1 /\ x.env = NoScript
    BY DEF StateSet
  <2> HIDE DEF x
  <2>4. /\ q \in Seq(StateSet) /\ Len(q) = st /\ DOMAIN q = 1..st /\ q[st] = x
        /\ \A i \in 1..Len(states) : q[i] = states[i]
    BY ONLY <1>1, <2>1, <2>3
  <2> HIDE DEF q
  <2>5. v.states = q /\ v.script = script /\ v \in WorldSet
    BY ONLY <1>1, <2>2, <2>4 DEF WorldSet
  <2>6. Live(script) = {} /\ n = 0
    <3>1. CASE module = 0
      <4>1. \A s \in LuaScript : script[s].state = 0
        BY <1>1, <3>1 DEF WorldOK
      <4>2. DOMAIN active = {}
        BY <3>1, InvFacts
      <4>3. n = 0
        BY <1>1, <4>2
      <4> QED BY <4>1, <4>3 DEF Live
    <3>2. CASE module # 0
      <4>0. module \in DOMAIN states /\ states[module] \in StateSet
        BY <1>1, <3>2
      <4>1. states[module].rc = Cardinality(Live(script)) + n
        BY <1>1, <4>0 DEF WorldOK
      <4>2. Cardinality(Live(script)) \in Nat /\ (Cardinality(Live(script)) = 0 <=> Live(script) = {})
        BY LiveFinite
      <4>3. Cardinality(Live(script)) = 0 /\ n = 0
        <5>1. states[module].rc \in Nat
          BY <4>0 DEF StateSet
        <5> QED BY <1>1, <1>3, <3>2, <4>1, <4>2, <5>1
      <4> QED BY <4>2, <4>3
    <3> QED BY <3>1, <3>2
  <2>7. Cardinality(Live(script)) = 0
    BY <2>6, LiveFinite
  <2>8. \A i \in 1..Len(states) : states[i].rc = 0
    BY <1>1, <2>6, <2>7 DEF WorldOK
  <2>9. \A i \in DOMAIN q : q[i].rc = IF i = st THEN Cardinality(Live(script)) + (n + 1) ELSE 0
    <3>1. \A i \in DOMAIN q : i = st \/ i \in 1..Len(states)
      BY ONLY <1>1, <2>1, <2>4
    <3>2. \A i \in 1..Len(states) : i # st
      BY ONLY <1>1, <2>1
    <3> QED BY <2>3, <2>4, <2>6, <2>7, <2>8, <3>1, <3>2
  <2>10. ASSUME NEW s \in LuaScript
         PROVE  /\ script[s].rc = script[s].users + script[s].refs + h[s]
                /\ script[s].state = IF script[s].rc > 0 THEN st ELSE 0
                /\ script[s].rc > 0 => st # 0
    <3>1. script[s].state = 0
      BY <2>6 DEF Live
    <3>2. script[s].rc = script[s].users + script[s].refs + h[s] /\ ~(script[s].rc > 0)
      BY <1>1, <3>1 DEF WorldOK
    <3> QED BY <3>1, <3>2
  <2>11. WorldOK(v, st, h, n + 1)
    <3>1. st \in 0..Len(v.states) /\ n + 1 \in Nat
      BY ONLY <1>1, <2>1, <2>4, <2>5
    <3> QED BY <1>1, <2>5, <2>9, <2>10, <3>1 DEF WorldOK
  <2>12. active = <<>>
    BY <1>1, <2>6
  <2> QED BY <2>1, <2>3, <2>4, <2>5, <2>11, <2>12
<1> QED BY <1>2, <1>3

\* A script that cannot be loaded.
LEMMA LoadFailsInv ==
    ASSUME StateInv, NEW s \in LuaScript, LoadFails(s)
    PROVE  StateInv'
<1> DEFINE st == FindState
           v == WithState(st)
           w == UnrefState(v, st)
           h == Held(active)
           n == Len(active)
<1>1. Becomes(w) /\ module' = st /\ UNCHANGED <<active, astray>>
  BY DEF LoadFails
<1>2. /\ WorldOK(v, st, h, n + 1) /\ st # 0 /\ v.script = script
      /\ \/ st = module /\ states[module].rc > 0 /\ EnvsSame(World, v)
         \/ active = <<>> /\ v.states[st].env = NoScript
  BY WithStateOK
<1>3. n \in Nat /\ active \in Seq(CallSet) /\ module \in 0..Len(states) /\ World.states = states
      /\ (\A k \in DOMAIN active : active[k].state = module) /\ DOMAIN states = 1..Len(states)
      /\ Len(states) \in Nat
  BY InvFacts
<1>4. w = UnrefState(v, st)
  OBVIOUS
<1> HIDE DEF w, v, st, h
<1>5. n + 1 > 0 /\ (n + 1) - 1 = n
  BY <1>3
<1>6. WorldOK(w, st, h, (n + 1) - 1) /\ EnvsSame(v, w)
  BY <1>2, <1>4, <1>5, UnrefStateOK
<1>7. WorldOK(w, st, h, n)
  BY <1>5, <1>6
<1>8. CallsOK(active, st)
  BY <1>2, <1>3 DEF CallsOK
<1>9. w.states[st].env = v.states[st].env
  <2>1. st \in DOMAIN v.states
    BY <1>2 DEF WorldOK, WorldSet
  <2> QED BY <1>6, <2>1 DEF EnvsSame
<1>10. ~astray => EnvOK(w.states, st, active)
  <2> SUFFICES ASSUME ~astray PROVE EnvOK(w.states, st, active)
    OBVIOUS
  <2>1. EnvOK(states, module, active)
    BY DEF StateInv
  <2>2. CASE st = module /\ states[module].rc > 0 /\ EnvsSame(World, v)
    <3>1. v.states[st].env = states[st].env
      BY <1>2, <1>3, <2>2 DEF EnvsSame
    <3> QED BY <1>2, <1>9, <2>1, <2>2, <3>1 DEF EnvOK
  <2>3. CASE active = <<>> /\ v.states[st].env = NoScript
    <3>1. Caller(active, Len(active) + 1) = NoScript /\ DOMAIN active = {}
      BY <2>3 DEF Caller
    <3> QED BY <1>9, <2>3, <3>1 DEF EnvOK
  <2> QED BY <1>2, <2>2, <2>3
<1>11. astray' \in BOOLEAN
  BY <1>1 DEF StateInv
<1>12. WorldOK(w, module', Held(active'), Len(active'))
  BY <1>1, <1>7 DEF h
<1> QED BY <1>1, <1>8, <1>10, <1>11, <1>12, StepInv

\* A script begins to load.
LEMMA LoadScriptInv ==
    ASSUME StateInv, NEW s \in LuaScript, LoadScript(s)
    PROVE  StateInv'
<1> DEFINE st == FindState
           v == WithState(st)
           u == NewIn(v, s, st)
           r == RefState(u, st)
           w == SetEnv(r, st, s)
           h == Held(active)
           n == Len(active)
           f == [kind |-> "load", script |-> s, state |-> st, holds |-> {"script", "state"},
                 saved |-> r.states[st].env]
<1>1. Becomes(w) /\ module' = st /\ active' = Append(active, f) /\ UNCHANGED astray
  BY DEF LoadScript
<1>2. /\ WorldOK(v, st, h, n + 1) /\ st # 0 /\ v.script = script
      /\ \/ st = module /\ states[module].rc > 0 /\ EnvsSame(World, v)
         \/ active = <<>> /\ v.states[st].env = NoScript
  BY WithStateOK
<1>3. n \in Nat /\ active \in Seq(CallSet) /\ module \in 0..Len(states) /\ World.states = states
      /\ (\A k \in DOMAIN active : active[k].state = module) /\ DOMAIN states = 1..Len(states)
      /\ Len(states) \in Nat
  BY InvFacts
<1>4. script[s].rc = 0
  BY DEF LoadScript, NewScript
<1>5. u = NewIn(v, s, st) /\ r = RefState(u, st) /\ w = SetEnv(r, st, s)
  OBVIOUS
<1>6. f = [kind |-> "load", script |-> s, state |-> st, holds |-> {"script", "state"},
           saved |-> r.states[st].env]
  OBVIOUS
<1> HIDE DEF w, v, u, r, st, h, f
<1>7. n + 1 > 0 /\ (n + 1) - 1 = n
  BY <1>3
<1>8. WorldOK(u, st, Inc(h, s), (n + 1) - 1) /\ u.states = v.states
  BY <1>2, <1>4, <1>5, <1>7, BornOK
<1>9. WorldOK(u, st, Inc(h, s), n)
  BY <1>7, <1>8
<1>10. WorldOK(r, st, Inc(h, s), n + 1) /\ EnvsSame(u, r)
  BY <1>2, <1>5, <1>9, RefStateOK
<1>11. WorldOK(w, st, Inc(h, s), n + 1) /\ w.states[st].env = s
  BY <1>2, <1>5, <1>10, SetEnvOK
<1>12. st \in DOMAIN v.states /\ st \in DOMAIN r.states /\ r.states[st] \in StateSet /\ st \in Nat
  BY <1>2, <1>10 DEF WorldOK, WorldSet
<1>13. r.states[st].env = v.states[st].env /\ r.states[st].env \in LuaScript \cup {NoScript}
  BY <1>8, <1>10, <1>12 DEF EnvsSame, StateSet
<1>14. f \in CallSet /\ f.script = s /\ f.state = st /\ f.saved = v.states[st].env
  BY ONLY <1>6, <1>12, <1>13, s \in LuaScript DEF CallSet
<1>15. /\ Append(active, f) \in Seq(CallSet) /\ Len(Append(active, f)) = n + 1
       /\ \A k \in DOMAIN Append(active, f) :
              \/ Append(active, f)[k] = f
              \/ k \in DOMAIN active /\ Append(active, f)[k] = active[k]
  BY <1>3, <1>14, PushFacts
<1>16. CallsOK(Append(active, f), st)
  <2>1. \A k \in DOMAIN active : active[k].state = st
    BY <1>2, <1>3
  <2> QED BY <1>2, <1>14, <1>15, <2>1 DEF CallsOK
<1>17. Held(Append(active, f)) = Inc(h, s)
  BY <1>3, <1>14, HeldPush DEF h
<1>18. ~astray => EnvOK(w.states, st, Append(active, f))
  <2> SUFFICES ASSUME ~astray PROVE EnvOK(w.states, st, Append(active, f))
    OBVIOUS
  <2>1. EnvOK(states, module, active)
    BY DEF StateInv
  <2>2. \A k \in DOMAIN active : active[k].saved = Caller(active, k)
    BY <2>1 DEF EnvOK
  <2>3. f.saved = Caller(active, n + 1)
    <3>1. CASE st = module /\ states[module].rc > 0 /\ EnvsSame(World, v)
      <4>1. v.states[st].env = states[st].env
        BY <1>2, <1>3, <3>1 DEF EnvsSame
      <4> QED BY <1>2, <1>14, <2>1, <3>1, <4>1 DEF EnvOK
    <3>2. CASE active = <<>> /\ v.states[st].env = NoScript
      BY <1>14, <3>2 DEF Caller
    <3> QED BY <1>2, <3>1, <3>2
  <2> QED BY <1>3, <1>11, <1>14, <2>2, <2>3, EnvPush
<1>19. astray' \in BOOLEAN
  BY <1>1 DEF StateInv
<1>20. WorldOK(w, module', Held(active'), Len(active'))
  BY <1>1, <1>11, <1>15, <1>17
<1> QED BY <1>1, <1>16, <1>18, <1>19, <1>20, StepInv

\* A function that a script gave out is called.
LEMMA CallFunctionInv ==
    ASSUME StateInv, NEW s \in LuaScript, CallFunction(s)
    PROVE  StateInv'
<1> DEFINE st == script[s].state
           u == RefScript(World, s)
           r == RefState(u, st)
           w == SetEnv(r, st, s)
           h == Held(active)
           n == Len(active)
           f == [kind |-> "call", script |-> s, state |-> st, holds |-> {"script", "state"},
                 saved |-> states[st].env]
<1>1. Becomes(w) /\ active' = Append(active, f) /\ UNCHANGED <<module, astray>>
  BY DEF CallFunction
<1>2. /\ WorldOK(World, module, h, n) /\ World.script = script /\ World.states = states
      /\ n \in Nat /\ active \in Seq(CallSet) /\ module \in 0..Len(states)
      /\ (\A k \in DOMAIN active : active[k].state = module) /\ DOMAIN states = 1..Len(states)
      /\ states \in Seq(StateSet) /\ Len(states) \in Nat
  BY InvFacts
<1>3. script[s].rc > 0
  <2>1. script[s].refs > 0
    BY DEF CallFunction
  <2> QED BY <1>2, <2>1, ScriptFacts
<1>4. st = module /\ module # 0 /\ states[module].rc > 0
  BY <1>3, KeptFacts
<1>5. u = RefScript(World, s) /\ r = RefState(u, module) /\ w = SetEnv(r, module, s)
  BY <1>4
<1>6. f = [kind |-> "call", script |-> s, state |-> module, holds |-> {"script", "state"},
           saved |-> states[module].env]
  BY <1>4
<1> HIDE DEF w, u, r, st, h, f
<1>7. WorldOK(u, module, Inc(h, s), n)
  BY <1>2, <1>3, <1>5, RefScriptOK
<1>8. WorldOK(r, module, Inc(h, s), n + 1)
  BY <1>4, <1>5, <1>7, RefStateOK
<1>9. WorldOK(w, module, Inc(h, s), n + 1) /\ w.states[module].env = s
  BY <1>4, <1>5, <1>8, SetEnvOK
<1>10. states[module] \in StateSet /\ module \in Nat
  BY <1>2, <1>4
<1>11. states[module].env \in LuaScript \cup {NoScript}
  BY <1>10 DEF StateSet
<1>12. f \in CallSet /\ f.script = s /\ f.state = module /\ f.saved = states[module].env
  BY ONLY <1>6, <1>10, <1>11, s \in LuaScript DEF CallSet
<1>13. /\ Append(active, f) \in Seq(CallSet) /\ Len(Append(active, f)) = n + 1
       /\ \A k \in DOMAIN Append(active, f) :
              \/ Append(active, f)[k] = f
              \/ k \in DOMAIN active /\ Append(active, f)[k] = active[k]
  BY <1>2, <1>12, PushFacts
<1>14. CallsOK(Append(active, f), module)
  BY <1>2, <1>4, <1>12, <1>13 DEF CallsOK
<1>15. Held(Append(active, f)) = Inc(h, s)
  BY <1>2, <1>12, HeldPush DEF h
<1>16. ~astray => EnvOK(w.states, module, Append(active, f))
  <2> SUFFICES ASSUME ~astray PROVE EnvOK(w.states, module, Append(active, f))
    OBVIOUS
  <2>1. EnvOK(states, module, active)
    BY DEF StateInv
  <2>2. \A k \in DOMAIN active : active[k].saved = Caller(active, k)
    BY <2>1 DEF EnvOK
  <2>3. f.saved = Caller(active, n + 1)
    BY <1>4, <1>12, <2>1 DEF EnvOK
  <2> QED BY <1>2, <1>9, <1>12, <2>2, <2>3, EnvPush
<1>17. astray' \in BOOLEAN
  BY <1>1 DEF StateInv
<1>18. WorldOK(w, module', Held(active'), Len(active'))
  BY <1>1, <1>9, <1>13, <1>15
<1> QED BY <1>1, <1>14, <1>16, <1>17, <1>18, StepInv

\* A function or table is given out for the script in the registry.
LEMMA GiveOutInv ==
    ASSUME StateInv, GiveOut
    PROVE  StateInv'
<1> DEFINE e == Env
           u == RefScript(World, e)
           w == [u EXCEPT !.script[e].refs = @ + 1]
           h == Held(active)
           n == Len(active)
<1>1. Becomes(w) /\ UNCHANGED <<module, active, astray>> /\ active # <<>> /\ e # NoScript /\ script[e].rc > 0
  BY DEF GiveOut
<1>2. /\ WorldOK(World, module, h, n) /\ World.script = script /\ World.states = states
      /\ active \in Seq(CallSet) /\ module \in 0..Len(states) /\ CallsOK(active, module)
      /\ (\A k \in DOMAIN active : active[k].state = module /\ module # 0)
      /\ states \in Seq(StateSet) /\ h \in [LuaScript -> Nat]
  BY InvFacts DEF StateInv
<1>3. e \in LuaScript
  <2>1. Len(active) \in DOMAIN active /\ Top = active[Len(active)]
    BY <1>1, <1>2 DEF Top, Last
  <2>2. Top.state = module /\ module # 0
    BY <1>2, <2>1
  <2>3. states[module] \in StateSet
    BY <1>2, <2>2
  <2> QED BY <1>1, <2>2, <2>3 DEF Env, StateSet
<1>4. u = RefScript(World, e) /\ w = [u EXCEPT !.script[e].refs = @ + 1]
  OBVIOUS
<1> HIDE DEF e, u, w, h
<1>5. WorldOK(u, module, Inc(h, e), n) /\ u.states = states
  BY <1>1, <1>2, <1>3, <1>4, RefScriptOK
<1>6. Inc(h, e)[e] > 0 /\ Dec(Inc(h, e), e) = h
  BY <1>2, <1>3, DecInc
<1>7. WorldOK(w, module, Dec(Inc(h, e), e), n) /\ w.states = u.states
  BY <1>3, <1>4, <1>5, <1>6, GivenOK
<1>8. WorldOK(w, module', Held(active'), Len(active')) /\ w.states = states
  BY <1>1, <1>5, <1>6, <1>7 DEF h
<1>9. astray' \in BOOLEAN /\ CallsOK(active', module') /\ (~astray' => EnvOK(w.states, module', active'))
  BY <1>1, <1>2, <1>8 DEF StateInv
<1> QED BY <1>1, <1>8, <1>9, StepInv

\* A getter fails and leaves its script in the registry.
LEMMA GetterFailsInv ==
    ASSUME StateInv, NEW s \in LuaScript, GetterFails(s)
    PROVE  StateInv'
<1> DEFINE w == SetEnv(World, script[s].state, s)
           h == Held(active)
           n == Len(active)
<1>1. Becomes(w) /\ astray' = TRUE /\ UNCHANGED <<module, active>>
  BY DEF GetterFails
<1>2. WorldOK(World, module, h, n) /\ World.script = script /\ CallsOK(active, module)
  BY InvFacts DEF StateInv
<1>3. script[s].rc > 0
  <2>1. script[s].refs > 0
    BY DEF GetterFails
  <2> QED BY <1>2, <2>1, ScriptFacts
<1>4. script[s].state = module /\ module # 0
  BY <1>3, KeptFacts
<1>5. w = SetEnv(World, module, s)
  BY <1>4
<1> HIDE DEF w, h
<1>6. WorldOK(w, module, h, n)
  BY <1>2, <1>4, <1>5, SetEnvOK
<1>7. WorldOK(w, module', Held(active'), Len(active'))
  BY <1>1, <1>6 DEF h
<1> QED BY <1>1, <1>2, <1>7, StepInv

\* A user or a value gives its reference to a script up.
LEMMA DropInv ==
    ASSUME StateInv, NEW s \in LuaScript, DropScript(s) \/ DropRef(s)
    PROVE  StateInv'
<1> DEFINE h == Held(active)
           n == Len(active)
<1>1. /\ WorldOK(World, module, h, n) /\ World.script = script /\ World.states = states
      /\ h \in [LuaScript -> Nat] /\ module \in 0..Len(states) /\ CallsOK(active, module)
      /\ DOMAIN states = 1..Len(states) /\ Len(states) \in Nat
  BY InvFacts DEF StateInv
<1>2. UNCHANGED <<module, active, astray>>
  BY DEF DropScript, DropRef
<1>3. script[s].rc > 0
  <2>1. script[s].users > 0 \/ script[s].refs > 0
    BY DEF DropScript, DropRef
  <2> QED BY <1>1, <2>1, ScriptFacts
<1>4. module # 0 /\ states[module].rc > 0
  BY <1>3, KeptFacts
<1>5. PICK u : /\ \/ World.script[s].refs > 0 /\ u = [World EXCEPT !.script[s].refs = @ - 1]
                  \/ World.script[s].users > 0 /\ u = [World EXCEPT !.script[s].users = @ - 1]
               /\ Becomes(UnrefScript(u, s))
  BY <1>1 DEF DropScript, DropRef
<1> DEFINE w == UnrefScript(u, s)
<1>6. w = UnrefScript(u, s) /\ Becomes(w)
  BY <1>5
<1> HIDE DEF h, w
<1>7. WorldOK(u, module, Inc(h, s), n) /\ u.states = states
  BY <1>1, <1>5, TakenOK
<1>8. Inc(h, s)[s] > 0 /\ Dec(Inc(h, s), s) = h
  BY <1>1, DecInc
<1>9. WorldOK(w, module, Dec(Inc(h, s), s), n) /\ EnvsSame(u, w)
  BY <1>6, <1>7, <1>8, UnrefScriptOK
<1>10. WorldOK(w, module', Held(active'), Len(active'))
  BY <1>2, <1>8, <1>9 DEF h
<1>11. w.states[module].env = states[module].env
  BY <1>1, <1>4, <1>7, <1>9 DEF EnvsSame
<1>12. ~astray' => EnvOK(w.states, module', active')
  BY <1>2, <1>4, <1>11 DEF StateInv, EnvOK
<1>13. astray' \in BOOLEAN /\ CallsOK(active', module')
  BY <1>1, <1>2 DEF StateInv
<1> QED BY <1>6, <1>10, <1>12, <1>13, StepInv

\* A load or a call ends.
LEMMA EndsInv ==
    ASSUME StateInv, NEW failed \in BOOLEAN, Ends(failed)
    PROVE  StateInv'
<1> DEFINE h == Held(active)
           n == Len(active)
           f == Top
           c == f.script
           b == Front(active)
           r == SetEnv(World, f.state, f.saved)
           u == RefScript(r, c)
           v == IF f.kind = "load" /\ ~failed THEN [u EXCEPT !.script[c].users = @ + 1] ELSE r
           t == UnrefScript(v, c)
           w == UnrefState(t, f.state)
<1>1. active # <<>> /\ active' = b /\ UNCHANGED <<module, astray>>
  BY DEF Ends
<1>2. /\ WorldOK(World, module, h, n) /\ World.script = script /\ World.states = states
      /\ h \in [LuaScript -> Nat] /\ active \in Seq(CallSet) /\ module \in 0..Len(states)
      /\ \A k \in DOMAIN active : active[k].state = module /\ module # 0
  BY InvFacts
<1>3. /\ b \in Seq(CallSet) /\ f \in CallSet /\ n \in Nat \ {0} /\ Len(b) = n - 1
      /\ DOMAIN b = 1..(n - 1) /\ f = active[n] /\ \A k \in DOMAIN b : b[k] = active[k]
  BY <1>1, <1>2, PopFacts DEF Top
<1>4. f.state = module /\ module # 0
  BY <1>2, <1>3
<1>5. c \in LuaScript /\ f.saved \in LuaScript \cup {NoScript} /\ f.holds = {"script", "state"}
  BY <1>3 DEF CallSet
<1>6. Becomes(w)
  <2>1. Becomes(ReleaseCall(v, f))
    BY DEF Ends, Restored
  <2>2. ReleaseCall(v, f) = w
    <3>1. "script" \in f.holds /\ "state" \in f.holds
      BY <1>5
    <3> QED BY <3>1 DEF ReleaseCall
  <2> QED BY <2>1, <2>2
<1>7. h[c] > 0 /\ Held(b) = Dec(h, c)
  BY <1>1, <1>2, HeldPop DEF Top
<1>8. r = SetEnv(World, module, f.saved) /\ t = UnrefScript(v, c) /\ w = UnrefState(t, module)
      /\ u = RefScript(r, c)
  BY <1>4
<1>9. v = r \/ v = [u EXCEPT !.script[c].users = @ + 1]
  OBVIOUS
<1>10. f.saved = Last(active).saved
  BY DEF Top
<1> HIDE DEF h, f, c, b, r, u, v, t, w
<1>11. WorldOK(r, module, h, n) /\ r.states[module].env = f.saved
  BY <1>2, <1>4, <1>5, <1>8, SetEnvOK
<1>12. WorldOK(v, module, h, n) /\ v.states = r.states
  <2>1. CASE v = r
    BY <1>11, <2>1
  <2>2. CASE v = [u EXCEPT !.script[c].users = @ + 1]
    <3>1. r.script[c].rc > 0
      BY <1>5, <1>7, <1>11, ScriptFacts
    <3>2. WorldOK(u, module, Inc(h, c), n) /\ u.states = r.states
      BY <1>5, <1>8, <1>11, <3>1, RefScriptOK
    <3>3. Inc(h, c)[c] > 0 /\ Dec(Inc(h, c), c) = h
      BY <1>2, <1>5, DecInc
    <3>4. WorldOK(v, module, Dec(Inc(h, c), c), n) /\ v.states = u.states
      BY <1>5, <2>2, <3>2, <3>3, GivenOK
    <3> QED BY <3>2, <3>3, <3>4
  <2> QED BY <1>9, <2>1, <2>2
<1>13. WorldOK(t, module, Dec(h, c), n) /\ EnvsSame(v, t)
  BY <1>5, <1>7, <1>8, <1>12, UnrefScriptOK
<1>14. WorldOK(w, module, Dec(h, c), n - 1) /\ EnvsSame(t, w)
  <2>1. n > 0
    BY <1>3
  <2> QED BY <1>4, <1>8, <1>13, <2>1, UnrefStateOK
<1>15. module \in DOMAIN v.states /\ module \in DOMAIN t.states
  BY <1>4, <1>12, <1>13 DEF WorldOK, WorldSet
<1>16. w.states[module].env = Last(active).saved
  BY <1>10, <1>11, <1>12, <1>13, <1>14, <1>15 DEF EnvsSame
<1>17. WorldOK(w, module', Held(active'), Len(active'))
  BY <1>1, <1>3, <1>7, <1>14
<1>18. CallsOK(b, module)
  <2>1. \A k \in DOMAIN b : k \in DOMAIN active
    BY <1>2, <1>3
  <2> QED BY <1>2, <1>3, <2>1 DEF CallsOK
<1>19. ~astray => EnvOK(w.states, module, b)
  <2> SUFFICES ASSUME ~astray PROVE EnvOK(w.states, module, b)
    OBVIOUS
  <2>1. \A k \in DOMAIN active : active[k].saved = Caller(active, k)
    BY DEF StateInv, EnvOK
  <2>2. EnvOK(w.states, module, Front(active))
    BY <1>1, <1>2, <1>16, <2>1, EnvPop
  <2> QED BY <2>2 DEF b
<1>20. astray' \in BOOLEAN
  BY <1>1 DEF StateInv
<1> QED BY <1>1, <1>6, <1>17, <1>18, <1>19, <1>20, StepInv

-----------------------------------------------------------------------------
(* The theorem *)

\* There is no state and no script is loaded.
LEMMA InitStateInv == LuaInit => StateInv
<1> SUFFICES ASSUME LuaInit PROVE StateInv
  OBVIOUS
<1>1. states = <<>> /\ module = 0 /\ active = <<>> /\ astray = FALSE
      /\ script = [s \in LuaScript |-> NewScript]
  BY DEF LuaInit
<1>2. active \in Seq(CallSet) /\ states \in Seq(StateSet) /\ DOMAIN active = {} /\ Len(active) = 0
      /\ DOMAIN states = {} /\ Len(states) = 0
  BY ONLY <1>1
<1>3. NewScript \in ScriptSet
  BY DEF NewScript, ScriptSet
<1>4. Held(active) \in [LuaScript -> Nat] /\ \A s \in LuaScript : Held(active)[s] = 0
  <2>1. \A s \in LuaScript : CallsOf(active, s) = {}
    BY <1>2 DEF CallsOf
  <2> QED BY <1>2, <2>1, HeldType, FS_EmptySet DEF Held
<1>5. World.states = states /\ World.script = script /\ World \in WorldSet
  BY <1>1, <1>2, <1>3 DEF World, WorldSet
<1>6. \A s \in LuaScript : script[s].rc = 0 /\ script[s].state = 0 /\ script[s].users = 0 /\ script[s].refs = 0
  BY <1>1 DEF NewScript
<1>7. WorldOK(World, module, Held(active), Len(active))
  BY <1>1, <1>2, <1>4, <1>5, <1>6 DEF WorldOK
<1>8. CallsOK(active, module)
  BY <1>2 DEF CallsOK
<1>9. EnvOK(states, module, active)
  BY <1>1, <1>2 DEF EnvOK
<1> QED BY <1>1, <1>7, <1>8, <1>9 DEF StateInv

\* The invariant says what it should of the states and scripts.
LEMMA InvSound == StateInv => StateSound
<1> SUFFICES ASSUME StateInv PROVE StateSound
  OBVIOUS
<1>1. /\ WorldOK(World, module, Held(active), Len(active)) /\ World.script = script /\ World.states = states
      /\ module \in 0..Len(states) /\ DOMAIN states = 1..Len(states) /\ Len(active) \in Nat
      /\ active \in Seq(CallSet) /\ DOMAIN active = 1..Len(active)
      /\ \A k \in DOMAIN active : active[k].state = module /\ module # 0
  BY InvFacts
<1>2. \A i \in 1..Len(states) : states[i].rc = IF i = module THEN Cardinality(Live(script)) + Len(active) ELSE 0
  BY <1>1 DEF WorldOK
<1>3. OneState
  BY <1>2 DEF OneState
<1>4. \A s \in LuaScript : script[s].rc > 0 <=> script[s].state # 0
  <2> SUFFICES ASSUME NEW s \in LuaScript PROVE script[s].rc > 0 <=> script[s].state # 0
    OBVIOUS
  <2> QED BY <1>1 DEF WorldOK
<1>5. \A s \in LuaScript : script[s].rc > 0 => script[s].state = module
  BY <1>1 DEF WorldOK
<1>6. StateOwned
  <2> SUFFICES ASSUME NEW i \in 1..Len(states)
               PROVE  states[i].rc > 0 <=>
                          \/ \E s \in LuaScript : script[s].rc > 0 /\ script[s].state = i
                          \/ \E k \in 1..Len(active) : active[k].state = i
    BY DEF StateOwned
  <2>1. CASE i # module
    <3>1. ~(states[i].rc > 0)
      BY <1>2, <2>1
    <3> QED BY <1>1, <1>5, <2>1, <3>1
  <2>2. CASE i = module
    <3>1. /\ Cardinality(Live(script)) \in Nat
          /\ Cardinality(Live(script)) = 0 <=> Live(script) = {}
      BY LiveFinite
    <3>2. states[i].rc > 0 <=> Live(script) # {} \/ Len(active) > 0
      <4>1. states[i].rc = Cardinality(Live(script)) + Len(active)
        BY <1>2, <2>2
      <4>2. Len(active) \in Nat
        BY <1>1
      <4> QED BY ONLY <3>1, <4>1, <4>2
    <3>3. Live(script) # {} <=> \E s \in LuaScript : script[s].rc > 0 /\ script[s].state = i
      BY <1>4, <1>5, <2>2 DEF Live
    <3>4. Len(active) > 0 <=> \E k \in 1..Len(active) : active[k].state = i
      BY <1>1, <2>2
    <3> QED BY <3>2, <3>3, <3>4
  <2> QED BY <2>1, <2>2
<1>7. EnvironmentTrue
  <2> SUFFICES ASSUME ~astray, NEW i \in 1..Len(states), states[i].rc > 0
               PROVE  states[i].env = IF active = <<>> THEN NoScript ELSE Top.script
    BY DEF EnvironmentTrue
  <2>1. i = module /\ module # 0
    BY <1>2
  <2>2. states[i].env = Caller(active, Len(active) + 1)
    BY <2>1 DEF StateInv, EnvOK
  <2>3. CASE active = <<>>
    BY <2>2, <2>3 DEF Caller
  <2>4. CASE active # <<>>
    <3>1. Len(active) > 0 /\ Len(active) + 1 # 1 /\ (Len(active) + 1) - 1 = Len(active)
      BY <1>1, <2>4
    <3> QED BY <2>2, <2>4, <3>1 DEF Caller, Top, Last
  <2> QED BY <2>3, <2>4
<1>8. EnvironmentLive
  <2> SUFFICES ASSUME ~astray, NEW i \in 1..Len(states), states[i].rc > 0, states[i].env # NoScript
               PROVE  script[states[i].env].rc > 0
    BY DEF EnvironmentLive
  <2>1. active # <<>> /\ states[i].env = Last(active).script
    BY <1>7 DEF EnvironmentTrue, Top
  <2>2. Held(active)[Last(active).script] > 0 /\ Last(active).script \in LuaScript
    BY <1>1, <2>1, HeldPop
  <2> DEFINE c == Last(active).script
  <2> HIDE DEF c
  <2>3. script[c].rc > 0
    <3>1. c \in LuaScript /\ Held(active)[c] > 0
      BY <2>2 DEF c
    <3> QED BY <1>1, <3>1, ScriptFacts
  <2> QED BY <2>1, <2>3 DEF c
<1> QED BY <1>3, <1>6, <1>7, <1>8 DEF StateSound

\* For any scripts that load, call and give values to one another and fail at any depth:
\* there is one Lua state at a time, it is open exactly as long as a script of it or a
\* call into it is there, and unless a getter has failed the registry names the script
\* whose code runs, which is alive.
THEOREM StateAlwaysSound == LuaSpec => []StateSound
<1>1. StateInv /\ [LuaNext]_stateVars => StateInv'
  <2> SUFFICES ASSUME StateInv, [LuaNext]_stateVars PROVE StateInv'
    OBVIOUS
  <2>1. ASSUME NEW s \in LuaScript, LoadFails(s) PROVE StateInv'
    BY <2>1, LoadFailsInv
  <2>2. ASSUME NEW s \in LuaScript, LoadScript(s) PROVE StateInv'
    BY <2>2, LoadScriptInv
  <2>3. ASSUME NEW s \in LuaScript, CallFunction(s) PROVE StateInv'
    BY <2>3, CallFunctionInv
  <2>4. ASSUME NEW s \in LuaScript, GetterFails(s) PROVE StateInv'
    BY <2>4, GetterFailsInv
  <2>5. ASSUME NEW s \in LuaScript, DropScript(s) \/ DropRef(s) PROVE StateInv'
    BY <2>5, DropInv
  <2>6. CASE GiveOut
    BY <2>6, GiveOutInv
  <2>7. ASSUME NEW failed \in BOOLEAN, Ends(failed) PROVE StateInv'
    BY <2>7, EndsInv
  <2>8. CASE UNCHANGED stateVars
    BY <2>8 DEF stateVars, StateInv, World
  <2> QED BY <2>1, <2>2, <2>3, <2>4, <2>5, <2>6, <2>7, <2>8 DEF LuaNext
<1> QED BY <1>1, InitStateInv, InvSound, PTL DEF LuaSpec

-----------------------------------------------------------------------------
(* LuaValues: the inductive invariant *)

DiTypes == {"bool", "int", "float", "string", "object", "nil"}

\* The types of scalars of any Lua.
LuaTypes ==
    {"integer", "float", "number", "string", "boolean", "proxy", "weak proxy", "function", "other"}

\* A table of scalars with finitely many keys.
TableOK(l) ==
    /\ IsFiniteSet(DOMAIN l.table)
    /\ \A k \in DOMAIN l.table : l.table[k].type \in LuaTypes
    /\ l.meta \in BOOLEAN

\* What di_lua_table_to_array asserts of the type t of an element.
Fits(t, e) == t = e \/ (t = "int" /\ e = "float")

\* The keys that were seen hold values of one kind; elem is the type of one of
\* them, and all fit it.
CheckedOK ==
    /\ at \in Nat /\ 1 <= at /\ at <= Cardinality(Keys)
    /\ \A i \in 1..at : Kind(onStack, i) # "nil" /\ Kind(onStack, i) = Kind(onStack, 1)
    /\ \A i \in 1..at : Fits(At(onStack, i).type, elem)
    /\ \E i \in 1..at : elem = At(onStack, i).type

ValuesInv ==
    /\ vpc \in {"di", "lua", "check", "back"} /\ lua53 \in BOOLEAN
    /\ origin \in {Unset} \cup DiScalar \cup DiArray \cup DiTuple
    /\ vpc = "di" => origin # Unset
    /\ vpc # "di" => /\ origin # Unset => onStack = Pushed(origin, lua53)
                     /\ IF onStack.type = "table" THEN TableOK(onStack)
                        ELSE onStack.type \in LuaTypes \cup {"nil"}
    /\ vpc = "check" => onStack.type = "table" /\ CheckedOK
    /\ ValuesExact

\* A scalar of Lua as a value of deai.
LEMMA ScalarToDiFacts ==
    ASSUME NEW l, l.type \in LuaTypes \cup {"nil"}
    PROVE  /\ ScalarToDi(l) = Scalar(ScalarToDi(l).type, ScalarToDi(l).v)
           /\ ScalarToDi(l).type \in DiTypes
           /\ ScalarToDi(l).type # "nil" => ScalarToDi(l).v = l.v
           /\ ScalarToDi(LuaNil) = Nil
<1>1. ScalarToDi(LuaNil) = Nil
  BY DEF ScalarToDi, LuaNil, Lua
<1> QED BY <1>1 DEF ScalarToDi, Scalar, Nil, Unsupported, DiTypes, LuaTypes

\* What is found at a key of a table.
LEMMA AtFacts ==
    ASSUME NEW l, TableOK(l), NEW i
    PROVE  /\ At(l, i) = Scalar(At(l, i).type, At(l, i).v) /\ At(l, i).type \in DiTypes
           /\ At(l, i).type # "nil" => i \in DOMAIN l.table /\ At(l, i).v = l.table[i].v
<1>1. CASE i \in DOMAIN l.table
  <2>1. l.table[i].type \in LuaTypes /\ At(l, i) = ScalarToDi(l.table[i])
    BY <1>1 DEF TableOK, At
  <2> QED BY <1>1, <2>1, ScalarToDiFacts
<1>2. CASE i \notin DOMAIN l.table
  BY <1>2 DEF At, Nil, Scalar, DiTypes
<1> QED BY <1>1, <1>2

\* A double that is an integer is that integer as a double.
LEMMA FloatFacts ==
    ASSUME NEW p \in Float, p \in LuaIntegers
    PROVE  AsDouble(p) = p
BY ValuesAssumption DEF Float, LuaIntegers, IntMax

\* What pushing an integer leaves.
LEMMA PushIntegerFacts ==
    ASSUME NEW n \in LuaIntegers, NEW b \in BOOLEAN
    PROVE  /\ PushInteger(n, b).type \in {"integer", "number"}
           /\ b \/ n \in (-ExactInt)..ExactInt => PushInteger(n, b).v = n
BY DEF PushInteger, Lua, AsDouble

\* A scalar of deai that Lua has a type for comes back as it was.
LEMMA PushScalarFacts ==
    ASSUME NEW x \in DiScalar, NEW b \in BOOLEAN
    PROVE  /\ PushScalar(x, b).type \in LuaTypes \cup {"nil"}
           /\ PushScalar(x, b) # LuaNil => PushScalar(x, b).type \in LuaTypes
           /\ PushScalar(x, b).type # "table"
           /\ Faithful(x, b) => /\ PushScalar(x, b) # LuaNil
                                /\ PushScalar(x, b).v = x.v
                                /\ ScalarToDi(PushScalar(x, b)).v = x.v
                                /\ ScalarToDi(PushScalar(x, b)).type = ReadAs(x.type, {x.v}, b)
                                /\ LuaTypeOf(x.type) # "nil"
<1> USE ValuesAssumption
<1>0. LuaNil.type = "nil"
  BY DEF LuaNil, Lua
<1>1. CASE IsInt(x)
  <2> DEFINE n == AsLuaInteger(x.v)
  <2>1. x.v \in Int /\ (x.type # "uint" => x.v \in LuaIntegers) /\ (x.type = "uint" => x.v \in 0..(2 * IntHalf - 1))
    <3>1. \/ x.v \in LuaIntegers /\ x.type = "int"
          \/ x.v \in (-NarrowHalf)..(NarrowHalf - 1) /\ x.type # "uint"
          \/ x.v \in 0..(2 * NarrowHalf - 1) /\ x.type # "uint"
          \/ x.v \in 0..(2 * IntHalf - 1) /\ x.type = "uint"
      BY <1>1 DEF IsInt, DiScalar, Nil, Scalar
    <3>2. /\ IntHalf \in Nat /\ NarrowHalf \in Nat /\ 2 * NarrowHalf <= IntHalf
      OBVIOUS
    <3> QED BY <3>1, <3>2 DEF LuaIntegers, IntMax
  <2>2. n \in LuaIntegers /\ (x.v <= IntMax => n = x.v)
    BY <2>1 DEF AsLuaInteger, LuaIntegers, IntMax
  <2>3. PushScalar(x, b) = PushInteger(n, b)
    BY <1>1 DEF PushScalar, IsInt
  <2> HIDE DEF n
  <2>4. PushScalar(x, b).type \in {"integer", "number"}
    BY <2>2, <2>3, PushIntegerFacts
  <2>5. ASSUME Faithful(x, b) PROVE x.v \in LuaIntegers /\ PushScalar(x, b).v = x.v
    <3>1. x.v <= IntMax /\ (b \/ x.v \in (-ExactInt)..ExactInt)
      BY <1>1, <2>5 DEF Faithful
    <3>2. n = x.v
      BY <2>2, <3>1
    <3> QED BY <2>2, <2>3, <3>1, <3>2, PushIntegerFacts
  <2>6. LuaTypeOf(x.type) = "int" /\ ReadAs(x.type, {x.v}, b) = "int"
    BY <1>1 DEF IsInt, LuaTypeOf, ReadAs
  <2>7. ASSUME Faithful(x, b) PROVE ScalarToDi(PushScalar(x, b)) = Scalar("int", x.v)
    BY <2>4, <2>5, <2>7 DEF ScalarToDi
  <2>8. Scalar("int", x.v).v = x.v /\ Scalar("int", x.v).type = "int"
    BY DEF Scalar
  <2> HIDE DEF Faithful
  <2> QED BY <1>0, <2>4, <2>5, <2>6, <2>7, <2>8 DEF LuaTypes
<1>2. CASE x.type = "float"
  <2>1. PushScalar(x, b) = Lua(IF b THEN "float" ELSE "number", x.v)
    BY <1>2 DEF PushScalar
  <2>2. PushScalar(x, b).type = (IF b THEN "float" ELSE "number") /\ PushScalar(x, b).v = x.v
    BY <2>1 DEF Lua
  <2>3. ScalarToDi(PushScalar(x, b)) = Scalar(ReadAs("float", {x.v}, b), x.v)
    BY <2>2 DEF ScalarToDi, ReadAs, LuaTypeOf
  <2>4. LuaTypeOf("float") = "float"
    BY DEF LuaTypeOf
  <2>5. \A t : Scalar(t, x.v).v = x.v /\ Scalar(t, x.v).type = t
    BY DEF Scalar
  <2> QED BY <1>0, <1>2, <2>2, <2>3, <2>4, <2>5 DEF LuaTypes
<1>3. CASE x.type \in {"literal", "bool", "weak", "string", "object", "pointer"}
  <2>1. CASE x.type \in {"string", "object", "pointer"} /\ x.v = NULL
    <3>1. PushScalar(x, b) = LuaNil
      BY <2>1 DEF PushScalar
    <3>2. ~Faithful(x, b)
      BY <2>1 DEF Faithful
    <3> QED BY <1>0, <3>1, <3>2
  <2>2. CASE ~(x.type \in {"string", "object", "pointer"} /\ x.v = NULL)
    <3>0. x.v # NULL
      <4>1. x.v \in Payload \cup {NULL} /\ (x.type \in {"literal", "bool", "weak"} => x.v \in Payload)
        BY <1>3 DEF DiScalar, Nil, Scalar
      <4> QED BY <1>3, <2>2, <4>1
    <3>1. PICK t \in {"string", "boolean", "proxy", "weak proxy", "other"} : PushScalar(x, b) = Lua(t, x.v)
      BY <1>3, <2>2, <3>0 DEF PushScalar
    <3>2. PushScalar(x, b).type \in LuaTypes /\ PushScalar(x, b).v = x.v
      <4>1. Lua(t, x.v).type = t /\ Lua(t, x.v).v = x.v
        BY DEF Lua
      <4>2. t \in LuaTypes
        BY DEF LuaTypes
      <4> QED BY <3>1, <4>1, <4>2
    <3>3. ReadAs(x.type, {x.v}, b) = LuaTypeOf(x.type)
      BY <1>3 DEF ReadAs
    <3>4. Faithful(x, b) => ScalarToDi(PushScalar(x, b)) = Scalar(LuaTypeOf(x.type), x.v) /\ LuaTypeOf(x.type) # "nil"
      <4>1. CASE x.type \in {"literal", "string"}
        BY <2>2, <3>0, <4>1 DEF PushScalar, Lua, ScalarToDi, LuaTypeOf
      <4>2. CASE x.type = "bool"
        BY <4>2 DEF PushScalar, Lua, ScalarToDi, LuaTypeOf
      <4>3. CASE x.type = "object"
        BY <2>2, <4>3 DEF PushScalar, Lua, ScalarToDi, LuaTypeOf
      <4>4. CASE x.type \in {"weak", "pointer"}
        BY <4>4 DEF Faithful
      <4> QED BY <1>3, <4>1, <4>2, <4>3, <4>4
    <3>5. Scalar(LuaTypeOf(x.type), x.v).v = x.v /\ Scalar(LuaTypeOf(x.type), x.v).type = LuaTypeOf(x.type)
      BY DEF Scalar
    <3>6. PushScalar(x, b).type # "nil" /\ PushScalar(x, b).type # "table"
      BY <3>2 DEF LuaTypes
    <3> HIDE DEF Faithful
    <3> QED BY <1>0, <3>2, <3>3, <3>4, <3>5, <3>6
  <2> QED BY <2>1, <2>2
<1>4. CASE x.type = "nil"
  BY <1>4 DEF PushScalar, LuaNil, Lua, Faithful
<1>5. IsInt(x) \/ x.type \in {"float", "literal", "bool", "weak", "string", "object", "pointer", "nil"}
  BY DEF IsInt, DiScalar, Nil, Scalar
<1> QED BY <1>1, <1>2, <1>3, <1>4, <1>5

\* No scalar of deai is an array or a tuple, and none is the value Unset.
LEMMA ScalarTypes ==
    ASSUME NEW x \in DiScalar
    PROVE  x.type \notin {"array", "tuple", "unset"} /\ x # Unset
<1>1. x.type \notin {"array", "tuple", "unset"}
  BY DEF DiScalar, Nil, Scalar
<1>2. Unset.type = "unset"
  BY DEF Unset, Scalar
<1> QED BY <1>1, <1>2

\* The items of an array or a tuple are scalars, numbered from 1 on.
LEMMA ItemsFacts ==
    ASSUME NEW x \in DiArray \cup DiTuple
    PROVE  /\ x.type \in {"array", "tuple"} /\ x # Unset /\ x.type # "table"
           /\ \A i \in DOMAIN x.items : x.items[i] \in DiScalar
           /\ \E n \in Nat : DOMAIN x.items = 1..n /\ (x.items = <<>> <=> n = 0)
           /\ x.type = "array" /\ x.v = 0 => x.items = <<>>
<1>1. x.type \in {"array", "tuple"} /\ x # Unset
  BY DEF DiArray, DiTuple, Unset, Scalar
<1>2. x.items = <<>> \/ x.items \in SeqsOf(DiScalar) \/ x.items \in SeqsOf(DiScalar \ {Nil})
  BY DEF DiArray, DiTuple
<1>3. x.type = "array" /\ x.v = 0 => x.items = <<>>
  BY DEF DiArray, DiTuple
<1>4. CASE x.items = <<>>
  BY <1>1, <1>3, <1>4
<1>5. CASE x.items # <<>>
  <2>1. PICK n \in Nat : x.items \in [1..n -> DiScalar]
    BY <1>2, <1>5, ValuesAssumption DEF SeqsOf
  <2>2. n # 0
    BY <1>5, <2>1
  <2> QED BY <1>1, <1>3, <1>5, <2>1, <2>2
<1> QED BY <1>4, <1>5

\* What Lua gets for a value of deai: a scalar, or a table of them.
LEMMA PushedFacts ==
    ASSUME NEW x \in DiScalar \cup DiArray \cup DiTuple, NEW b \in BOOLEAN
    PROVE  IF Pushed(x, b).type = "table" THEN TableOK(Pushed(x, b)) ELSE Pushed(x, b).type \in LuaTypes \cup {"nil"}
<1>1. CASE x \in DiScalar
  <2>1. x.type \notin {"array", "tuple"}
    BY <1>1, ScalarTypes
  <2>2. Pushed(x, b) = PushScalar(x, b)
    BY <2>1 DEF Pushed
  <2> QED BY <1>1, <2>2, PushScalarFacts
<1>2. CASE x \in DiArray \cup DiTuple
  <2>1. /\ x.type \in {"array", "tuple"}
        /\ \A i \in DOMAIN x.items : x.items[i] \in DiScalar
        /\ \E n \in Nat : DOMAIN x.items = 1..n
    BY <1>2, ItemsFacts
  <2>2. CASE x.type = "array" /\ x.v = 0
    <3>1. Pushed(x, b) = LuaNil
      BY <2>1, <2>2 DEF Pushed
    <3>2. LuaNil.type = "nil"
      BY DEF LuaNil, Lua
    <3> QED BY <3>1, <3>2
  <2>3. CASE ~(x.type = "array" /\ x.v = 0)
    <3>1. Pushed(x, b) = [type |-> "table", v |-> 0, table |-> TableOf(x.items, b), meta |-> FALSE]
      BY <2>1, <2>3 DEF Pushed
    <3>2. PICK n \in Nat : DOMAIN x.items = 1..n
      BY <2>1
    <3>3. DOMAIN TableOf(x.items, b) \subseteq 1..n
      BY <3>2 DEF TableOf
    <3>4. IsFiniteSet(DOMAIN TableOf(x.items, b))
      <4>1. IsFiniteSet(1..n)
        BY FS_Interval
      <4> QED BY <3>3, <4>1, FS_Subset
    <3>5. \A k \in DOMAIN TableOf(x.items, b) : TableOf(x.items, b)[k].type \in LuaTypes
      <4>1. TAKE k \in DOMAIN TableOf(x.items, b)
      <4>2. x.items[k] \in DiScalar /\ PushScalar(x.items[k], b) # LuaNil /\ TableOf(x.items, b)[k] = PushScalar(x.items[k], b)
        BY <2>1 DEF TableOf
      <4> QED BY <4>2, PushScalarFacts
    <3>6. Pushed(x, b).table = TableOf(x.items, b) /\ Pushed(x, b).type = "table" /\ Pushed(x, b).meta = FALSE
      BY <3>1
    <3> QED BY <3>4, <3>5, <3>6 DEF TableOK
  <2> QED BY <2>2, <2>3
<1> QED BY <1>1, <1>2

\* The items that have to come back: those of an array or a tuple of one type
\* that Lua can hold.
KeepsItems(x, b) == (\A i \in DOMAIN x.items : Faithful(x.items[i], b)) /\ Uniform(x.items)

\* Such an array or tuple is an array to Lua, with the same items.
LEMMA PushedIsArray ==
    ASSUME NEW x \in DiArray \cup DiTuple, NEW b \in BOOLEAN, KeepsItems(x, b), x.items # <<>>
    PROVE  /\ Pushed(x, b).type = "table" /\ Pushed(x, b).meta = FALSE
           /\ DOMAIN Pushed(x, b).table = DOMAIN x.items
           /\ IsArray(Pushed(x, b))
           /\ \A i \in DOMAIN x.items :
                  /\ At(Pushed(x, b), i).v = x.items[i].v
                  /\ At(Pushed(x, b), i).type = ReadAs(x.items[1].type, {x.items[i].v}, b)
<1> DEFINE l == Pushed(x, b)
<1>1. PICK n \in Nat : DOMAIN x.items = 1..n /\ n # 0
  BY ItemsFacts
<1>2. l = [type |-> "table", v |-> 0, table |-> TableOf(x.items, b), meta |-> FALSE]
  BY ItemsFacts DEF Pushed
<1>3. l.type = "table" /\ l.meta = FALSE /\ l.table = TableOf(x.items, b)
  BY <1>2
<1>4. \A i \in DOMAIN x.items : x.items[i] \in DiScalar /\ Faithful(x.items[i], b)
  BY ItemsFacts DEF KeepsItems
<1>5. DOMAIN l.table = DOMAIN x.items
  BY <1>3, <1>4, PushScalarFacts DEF TableOf
<1>8. 1 \in DOMAIN x.items
  BY <1>1
<1>6. ASSUME NEW i \in DOMAIN x.items
      PROVE  /\ At(l, i).v = x.items[i].v /\ At(l, i).type = ReadAs(x.items[1].type, {x.items[i].v}, b)
             /\ LuaTypeOf(x.items[1].type) # "nil"
  <2>1. l.table[i] = PushScalar(x.items[i], b)
    BY <1>3, <1>5 DEF TableOf
  <2>2. At(l, i) = ScalarToDi(PushScalar(x.items[i], b))
    BY <1>5, <2>1 DEF At
  <2>3. x.items[i].type = x.items[1].type
    BY <1>8 DEF KeepsItems, Uniform
  <2> QED BY <1>4, <2>1, <2>2, <2>3, PushScalarFacts
<1>7. Cardinality(DOMAIN l.table) = n /\ DOMAIN l.table = 1..n
  <2>1. Cardinality(1..n) = n
    BY FS_Interval
  <2> QED BY <1>1, <1>5, <2>1
<1>9. \A i \in DOMAIN x.items :
         \/ At(l, i).type = LuaTypeOf(x.items[1].type)
         \/ At(l, i).type = "int" /\ LuaTypeOf(x.items[1].type) = "float"
  BY <1>6 DEF ReadAs, LuaTypeOf
<1>10. \A i \in DOMAIN x.items : Kind(l, i) # "nil" /\ Kind(l, i) = Kind(l, 1)
  BY <1>6, <1>8, <1>9 DEF Kind
<1>11. IsArray(l)
  BY <1>3, <1>5, <1>7, <1>8, <1>10 DEF IsArray
<1> QED BY <1>3, <1>5, <1>6, <1>11

\* An array or a tuple without items is nothing to Lua, or a table without keys.
LEMMA PushedIsEmpty ==
    ASSUME NEW x \in DiArray \cup DiTuple, NEW b \in BOOLEAN, x.items = <<>>
    PROVE  \/ Pushed(x, b) = LuaNil
           \/ Pushed(x, b).type = "table" /\ Pushed(x, b).meta = FALSE /\ DOMAIN Pushed(x, b).table = {}
<1>1. x.type \in {"array", "tuple"}
  BY ItemsFacts
<1>2. DOMAIN TableOf(x.items, b) = {}
  BY DEF TableOf
<1>3. CASE x.type = "array" /\ x.v = 0
  BY <1>1, <1>3 DEF Pushed
<1>4. CASE ~(x.type = "array" /\ x.v = 0)
  <2>1. Pushed(x, b) = [type |-> "table", v |-> 0, table |-> TableOf(x.items, b), meta |-> FALSE]
    BY <1>1, <1>4 DEF Pushed
  <2> QED BY <1>2, <2>1
<1> QED BY <1>3, <1>4

\* What ValuesExact says of one value r that is taken for l, pushed from o.
BackOK(o, b, r) ==
    IF o.type \in {"array", "tuple"}
    THEN KeepsItems(o, b) =>
            IF o.items = <<>> THEN r = Nil
            ELSE /\ r.type = "array" /\ DOMAIN r.items = DOMAIN o.items
                 /\ \A i \in DOMAIN o.items :
                        /\ r.items[i].v = o.items[i].v
                        /\ r.items[i].type = ReadAs(o.items[1].type, ValuesOf(o.items), b)
    ELSE Faithful(o, b) => r.v = o.v /\ r.type = ReadAs(o.type, {o.v}, b)
ResultOK(l, r) ==
    /\ IsArray(l) <=> r.type = "array"
    /\ IsArray(l) => /\ DOMAIN r.items = DOMAIN l.table
                     /\ \A i \in DOMAIN l.table : Kept(At(l, i), r.items[i])
    /\ (DOMAIN l.table # {} \/ l.meta) /\ ~IsArray(l) => r.type = "object"

\* The invariant holds after a value was taken if that value is the right one.
LEMMA TakeKeeps ==
    ASSUME ValuesInv, vpc # "di", NEW r, Take(r),
           origin # Unset => BackOK(origin, lua53, r),
           onStack.type = "table" => ResultOK(onStack, r)
    PROVE  ValuesInv'
<1>1. /\ origin' = origin /\ onStack' = onStack /\ result' = r /\ vpc' = "back" /\ lua53' = lua53
  BY DEF Take
<1>2. RoundTrip'
  BY <1>1 DEF RoundTrip, BackOK, KeepsItems
<1>3. TablesExact'
  BY <1>1 DEF TablesExact, ResultOK, Keys
<1> QED BY <1>1, <1>2, <1>3 DEF ValuesInv, ValuesExact

\* What the stack of Lua holds when it is looked at.
LEMMA StackFacts ==
    ASSUME ValuesInv, vpc # "di"
    PROVE  /\ onStack.type = "table" => TableOK(onStack)
           /\ onStack.type # "table" => onStack.type \in LuaTypes \cup {"nil"}
           /\ origin # Unset => /\ onStack = Pushed(origin, lua53)
                                /\ origin \in DiScalar \/ origin \in DiArray \cup DiTuple
           /\ lua53 \in BOOLEAN
BY DEF ValuesInv

\* A table comes from an array or a tuple, if from deai at all.
LEMMA TableOrigin ==
    ASSUME ValuesInv, vpc # "di", onStack.type = "table", origin # Unset
    PROVE  origin \in DiArray \cup DiTuple /\ onStack = Pushed(origin, lua53) /\ origin.type \in {"array", "tuple"}
<1>1. CASE origin \in DiScalar
  <2>1. onStack = PushScalar(origin, lua53)
    BY <1>1, StackFacts, ScalarTypes DEF Pushed
  <2> QED BY <1>1, <2>1, StackFacts, PushScalarFacts
<1>2. CASE origin \in DiArray \cup DiTuple
  BY <1>2, StackFacts, ItemsFacts
<1> QED BY <1>1, <1>2, StackFacts

\* A table that is no array may be taken for an object.
LEMMA ObjectIsRight ==
    ASSUME ValuesInv, vpc # "di", onStack.type = "table", ~IsArray(onStack), Keys # {} \/ onStack.meta,
           Take(TableObject)
    PROVE  ValuesInv'
<1>1. TableObject.type = "object"
  BY DEF TableObject, Scalar
<1>2. ResultOK(onStack, TableObject)
  BY <1>1 DEF ResultOK
<1>3. origin # Unset => BackOK(origin, lua53, TableObject)
  <2> SUFFICES ASSUME origin # Unset, KeepsItems(origin, lua53) PROVE FALSE
    BY TableOrigin DEF BackOK
  <2>1. CASE origin.items = <<>>
    <3>1. Pushed(origin, lua53) # LuaNil
      BY TableOrigin DEF LuaNil, Lua
    <3> QED BY <2>1, <3>1, StackFacts, TableOrigin, PushedIsEmpty DEF Keys
  <2>2. CASE origin.items # <<>>
    BY <2>2, StackFacts, TableOrigin, PushedIsArray
  <2> QED BY <2>1, <2>2
<1> QED BY <1>2, <1>3, TakeKeeps

\* Pushing leaves a scalar or a table of scalars on the stack (di_lua_pushvariant).
LEMMA PushValueKeeps ==
    ASSUME ValuesInv, PushValue
    PROVE  ValuesInv'
<1>1. origin \in DiScalar \cup DiArray \cup DiTuple /\ lua53 \in BOOLEAN
  BY DEF ValuesInv, PushValue
<1>2. /\ vpc' = "lua" /\ lua53' = lua53 /\ origin' = origin /\ onStack' = Pushed(origin, lua53)
  BY DEF PushValue
<1>3. IF onStack'.type = "table" THEN TableOK(onStack') ELSE onStack'.type \in LuaTypes \cup {"nil"}
  BY <1>1, <1>2, PushedFacts
<1> QED BY <1>1, <1>2, <1>3 DEF ValuesInv, ValuesExact, RoundTrip, TablesExact

\* A value that is no table is taken as it is, or as the type deai has for it.
LEMMA TakeScalarKeeps ==
    ASSUME ValuesInv, TakeScalar
    PROVE  ValuesInv'
<1> DEFINE r == ScalarToDi(onStack)
<1>1. vpc # "di" /\ onStack.type # "table" /\ Take(r)
  BY DEF TakeScalar
<1>2. origin # Unset => BackOK(origin, lua53, r)
  <2> SUFFICES ASSUME origin # Unset PROVE BackOK(origin, lua53, r)
    OBVIOUS
  <2>1. onStack = Pushed(origin, lua53)
    BY <1>1, StackFacts
  <2>2. CASE origin \in DiScalar
    <3>1. onStack = PushScalar(origin, lua53)
      BY <2>1, <2>2, ScalarTypes DEF Pushed
    <3>2. Faithful(origin, lua53) => r.v = origin.v /\ r.type = ReadAs(origin.type, {origin.v}, lua53)
      BY <1>1, <2>2, <3>1, StackFacts, PushScalarFacts
    <3> QED BY <2>2, <3>2, ScalarTypes DEF BackOK
  <2>3. CASE origin \in DiArray \cup DiTuple
    <3>1. KeepsItems(origin, lua53) => origin.items = <<>>
      BY <1>1, <2>1, <2>3, StackFacts, PushedIsArray
    <3>2. origin.items = <<>> => r = Nil
      BY <1>1, <2>1, <2>3, StackFacts, PushedIsEmpty, ScalarToDiFacts
    <3> QED BY <2>3, <3>1, <3>2, ItemsFacts DEF BackOK
  <2> QED BY <1>1, <2>2, <2>3, StackFacts
<1> HIDE DEF r
<1> QED BY <1>1, <1>2, TakeKeeps

\* A table without keys is nil, unless it has a metatable.
LEMMA TakeEmptyKeeps ==
    ASSUME ValuesInv, TakeEmpty
    PROVE  ValuesInv'
<1>1. vpc # "di" /\ onStack.type = "table" /\ DOMAIN onStack.table = {}
  BY DEF TakeEmpty, IsTable, Keys
<1>2. ~IsArray(onStack)
  BY <1>1 DEF IsArray
<1>3. CASE onStack.meta
  BY <1>1, <1>2, <1>3, ObjectIsRight DEF TakeEmpty
<1>4. CASE ~onStack.meta
  <2>1. Take(Nil)
    BY <1>4 DEF TakeEmpty
  <2>2. Nil.type = "nil"
    BY DEF Nil, Scalar
  <2>3. ResultOK(onStack, Nil)
    BY <1>1, <1>2, <1>4, <2>2 DEF ResultOK
  <2>4. origin # Unset => BackOK(origin, lua53, Nil)
    <3> SUFFICES ASSUME origin # Unset, KeepsItems(origin, lua53) PROVE origin.items = <<>>
      BY <1>1, TableOrigin DEF BackOK
    <3> SUFFICES ASSUME origin.items # <<>> PROVE FALSE
      OBVIOUS
    <3>1. IsArray(Pushed(origin, lua53))
      BY <1>1, StackFacts, TableOrigin, PushedIsArray
    <3> QED BY <1>1, <1>2, <3>1, TableOrigin
  <2> QED BY <1>1, <2>1, <2>3, <2>4, TakeKeeps
<1> QED BY <1>3, <1>4

\* A table without a value at 1 is no array; otherwise that value begins the loop.
LEMMA CheckFirstKeeps ==
    ASSUME ValuesInv, CheckFirst
    PROVE  ValuesInv'
<1> DEFINE t == At(onStack, 1).type
<1>1. vpc # "di" /\ onStack.type = "table" /\ Keys # {}
  BY DEF CheckFirst, IsTable
<1>2. TableOK(onStack)
  BY <1>1, StackFacts
<1>3. CASE t = "nil"
  <2>1. Take(TableObject)
    BY <1>3 DEF CheckFirst
  <2>2. Kind(onStack, 1) = "nil"
    BY <1>3 DEF Kind
  <2>3. ~IsArray(onStack)
    BY <1>1, <2>2 DEF IsArray, Keys
  <2> QED BY <1>1, <2>1, <2>3, ObjectIsRight
<1>4. CASE t # "nil"
  <2>1. /\ vpc' = "check" /\ at' = 1 /\ elem' = t /\ lua53' = lua53 /\ origin' = origin /\ onStack' = onStack
    BY <1>4 DEF CheckFirst
  <2>2. 1 <= Cardinality(Keys)
    <3>1. IsFiniteSet(Keys)
      BY <1>2 DEF TableOK, Keys
    <3>2. Cardinality(Keys) \in Nat /\ Cardinality(Keys) # 0
      BY <1>1, <3>1, FS_CardinalityType, FS_EmptySet
    <3> QED BY <3>2
  <2>3. Kind(onStack, 1) # "nil"
    BY <1>4 DEF Kind
  <2>4. CheckedOK'
    <3>1. \A i \in 1..1 : i = 1
      OBVIOUS
    <3>2. (at \in Nat /\ 1 <= at /\ at <= Cardinality(Keys))'
      BY <2>1, <2>2 DEF Keys
    <3>3. (\A i \in 1..at : Kind(onStack, i) # "nil" /\ Kind(onStack, i) = Kind(onStack, 1))'
      BY <2>1, <2>3, <3>1
    <3>4. (\E i \in 1..at : elem = At(onStack, i).type)'
      <4>1. 1 \in 1..at'
        BY <2>1
      <4> QED BY <2>1, <4>1
    <3>5. (\A i \in 1..at : Fits(At(onStack, i).type, elem))'
      <4>1. Fits(t, t)
        BY DEF Fits
      <4> QED BY <2>1, <3>1, <4>1
    <3> QED BY <3>2, <3>3, <3>4, <3>5 DEF CheckedOK
  <2> QED BY <1>1, <2>1, <2>4 DEF ValuesInv, ValuesExact, RoundTrip, TablesExact
<1> QED BY <1>3, <1>4

\* The types of two values join if they are of one kind, and only then.
LEMMA JoinFacts ==
    ASSUME NEW l, TableOK(l), NEW i, NEW j, At(l, i).type # "nil"
    PROVE  LET e == Join(At(l, i).type, At(l, j).type) IN
           /\ e = "none" => Kind(l, i) # Kind(l, j)
           /\ e # "none" => /\ Kind(l, j) # "nil" /\ Kind(l, i) = Kind(l, j)
                            /\ e \in {At(l, i).type, At(l, j).type} /\ Fits(At(l, j).type, e)
                            /\ \A t : Fits(t, At(l, i).type) => Fits(t, e)
<1>1. At(l, i).type \in DiTypes /\ At(l, j).type \in DiTypes
  BY AtFacts
<1> DEFINE a == At(l, i).type
<1> DEFINE b == At(l, j).type
<1>2. CASE a = b
  BY <1>1, <1>2 DEF Join, Kind, DiTypes, Fits
<1>3. CASE {a, b} = {"int", "float"}
  <2>1. (a = "int" /\ b = "float") \/ (a = "float" /\ b = "int")
    BY <1>3
  <2> QED BY <1>3, <2>1 DEF Join, Kind, Fits
<1>4. CASE a # b /\ {a, b} # {"int", "float"}
  <2>1. Join(a, b) = "none"
    BY <1>4 DEF Join
  <2> QED BY <1>1, <1>4, <2>1 DEF Kind
<1> QED BY <1>2, <1>3, <1>4

\* The loop stops at a value of another kind, and goes on with the joined type.
LEMMA CheckNextKeeps ==
    ASSUME ValuesInv, CheckNext
    PROVE  ValuesInv'
<1> DEFINE t == At(onStack, at + 1).type
<1> DEFINE e == Join(elem, t)
<1>1. vpc = "check" /\ at < Cardinality(Keys)
  BY DEF CheckNext
<1>2. onStack.type = "table" /\ CheckedOK /\ TableOK(onStack)
  BY <1>1, StackFacts DEF ValuesInv
<1>3. at \in Nat /\ 1 <= at /\ at + 1 <= Cardinality(Keys) /\ Cardinality(Keys) \in Nat
  <2>1. IsFiniteSet(Keys)
    BY <1>2 DEF TableOK, Keys
  <2>2. Cardinality(Keys) \in Nat
    BY <2>1, FS_CardinalityType
  <2> QED BY <1>1, <1>2, <2>2 DEF CheckedOK
<1>4. PICK j \in 1..at : elem = At(onStack, j).type
  BY <1>2 DEF CheckedOK
<1>5. elem # "nil" /\ Kind(onStack, j) = Kind(onStack, 1)
  BY <1>2, <1>4 DEF CheckedOK, Kind
<1>6. CASE e = "none"
  <2>1. Take(TableObject)
    BY <1>6 DEF CheckNext
  <2>2. Kind(onStack, at + 1) # Kind(onStack, j)
    BY <1>2, <1>4, <1>5, <1>6, JoinFacts
  <2>3. ~IsArray(onStack)
    <3> SUFFICES ASSUME IsArray(onStack) PROVE FALSE
      OBVIOUS
    <3>1. at + 1 \in 1..Cardinality(Keys)
      BY <1>3
    <3>2. Kind(onStack, at + 1) = Kind(onStack, 1)
      BY <3>1 DEF IsArray, Keys
    <3> QED BY <1>5, <2>2, <3>2
  <2>4. Keys # {}
    <3>1. Cardinality({}) = 0
      BY FS_EmptySet
    <3> QED BY <1>3, <3>1
  <2> QED BY <1>1, <1>2, <2>1, <2>3, <2>4, ObjectIsRight
<1>7. CASE e # "none"
  <2>1. /\ vpc' = "check" /\ at' = at + 1 /\ elem' = e /\ lua53' = lua53 /\ origin' = origin /\ onStack' = onStack
    BY <1>1, <1>7 DEF CheckNext
  <2>2. /\ Kind(onStack, at + 1) # "nil" /\ Kind(onStack, at + 1) = Kind(onStack, 1)
        /\ e \in {elem, t} /\ Fits(t, e) /\ \A u : Fits(u, elem) => Fits(u, e)
    BY <1>2, <1>4, <1>5, <1>7, JoinFacts
  <2>3. CheckedOK'
    <3>1. (at \in Nat /\ 1 <= at /\ at <= Cardinality(Keys))'
      BY <1>3, <2>1 DEF Keys
    <3>2. \A i \in 1..at' : i \in 1..at \/ i = at + 1
      BY <1>3, <2>1
    <3>3. (\A i \in 1..at : Kind(onStack, i) # "nil" /\ Kind(onStack, i) = Kind(onStack, 1))'
      BY <1>2, <2>1, <2>2, <3>2 DEF CheckedOK
    <3>4. (\E i \in 1..at : elem = At(onStack, i).type)'
      <4>1. j \in 1..at' /\ at + 1 \in 1..at'
        BY <1>3, <2>1
      <4> HIDE DEF e
      <4> QED BY <1>4, <2>1, <2>2, <4>1
    <3>5. (\A i \in 1..at : Fits(At(onStack, i).type, elem))'
      <4> HIDE DEF e
      <4> QED BY <1>2, <2>1, <2>2, <3>2 DEF CheckedOK
    <3> QED BY <3>1, <3>3, <3>4, <3>5 DEF CheckedOK
  <2> QED BY <1>1, <1>2, <2>1, <2>3 DEF ValuesInv, ValuesExact, RoundTrip, TablesExact
<1> QED BY <1>6, <1>7

\* As many keys were found from 1 on as the table has: these are all of them.
LEMMA TakeTableKeeps ==
    ASSUME ValuesInv, TakeTable
    PROVE  ValuesInv'
<1>1. vpc = "check" /\ at = Cardinality(Keys)
  BY DEF TakeTable
<1>2. onStack.type = "table" /\ CheckedOK /\ TableOK(onStack)
  BY <1>1, StackFacts DEF ValuesInv
<1>3. at \in Nat /\ 1 <= at /\ Keys # {}
  <2>1. Cardinality({}) = 0
    BY FS_EmptySet
  <2> QED BY <1>1, <1>2, <2>1 DEF CheckedOK
<1>4. CASE onStack.meta
  <2>1. ~IsArray(onStack)
    BY <1>4 DEF IsArray
  <2>2. Take(TableObject)
    BY <1>4 DEF TakeTable
  <2> QED BY <1>1, <1>2, <1>3, <2>1, <2>2, ObjectIsRight
<1>5. CASE ~onStack.meta
  <2> DEFINE r == TableToArray(onStack, at, elem)
  <2>1. Take(r)
    BY <1>5 DEF TakeTable
  <2>2. \A i \in 1..at : At(onStack, i).type # "nil" /\ Kind(onStack, i) # "nil" /\ Kind(onStack, i) = Kind(onStack, 1)
    BY <1>2 DEF CheckedOK, Kind
  <2>3. Keys = 1..at
    <3>1. 1..at \subseteq Keys
      BY <1>2, <2>2, AtFacts DEF Keys
    <3>2. Cardinality(1..at) = at /\ IsFiniteSet(Keys)
      BY <1>2, <1>3, FS_Interval DEF TableOK, Keys
    <3> QED BY <1>1, <3>1, <3>2, FS_Subset
  <2>4. IsArray(onStack)
    BY <1>1, <1>3, <1>5, <2>2, <2>3 DEF IsArray, Keys
  <2>5. r.type = "array" /\ DOMAIN r.items = 1..at
    BY DEF TableToArray
  <2>6. ASSUME NEW i \in 1..at
        PROVE  r.items[i] = Element(At(onStack, i), elem) /\ Fits(At(onStack, i).type, elem)
    BY <1>2 DEF TableToArray, CheckedOK
  <2> HIDE DEF r
  <2>7. ResultOK(onStack, r)
    <3>1. ASSUME NEW i \in 1..at PROVE Kept(At(onStack, i), r.items[i])
      <4> DEFINE x == At(onStack, i)
      <4>1. CASE x.type = elem
        BY <2>6, <4>1 DEF Element, Kept
      <4>2. CASE x.type # elem
        <5>1. x.type = "int" /\ r.items[i] = Scalar("float", AsDouble(x.v))
          BY <2>6, <4>2 DEF Element, Fits
        <5>2. x.v \in (-ExactInt)..ExactInt => AsDouble(x.v) = x.v
          BY DEF AsDouble
        <5>3. r.items[i].type = "float" /\ r.items[i].v = AsDouble(x.v)
          BY <5>1 DEF Scalar
        <5> QED BY <5>1, <5>2, <5>3 DEF Kept
      <4> QED BY <4>1, <4>2
    <3> QED BY <2>3, <2>4, <2>5, <3>1 DEF ResultOK, Keys
  <2>8. origin # Unset => BackOK(origin, lua53, r)
    <3> SUFFICES ASSUME origin # Unset, KeepsItems(origin, lua53)
                 PROVE  /\ origin.items # <<>> /\ DOMAIN origin.items = 1..at
                        /\ \A i \in 1..at :
                               /\ r.items[i].v = origin.items[i].v
                               /\ r.items[i].type = ReadAs(origin.items[1].type, ValuesOf(origin.items), lua53)
      BY <1>1, <1>2, <2>5, TableOrigin DEF BackOK
    <3>1. origin \in DiArray \cup DiTuple /\ onStack = Pushed(origin, lua53) /\ lua53 \in BOOLEAN
      BY <1>1, <1>2, StackFacts, TableOrigin
    <3>2. origin.items # <<>>
      <4>1. onStack # LuaNil
        BY <1>2 DEF LuaNil, Lua
      <4> QED BY <1>3, <3>1, <4>1, PushedIsEmpty DEF Keys
    <3> DEFINE t == origin.items[1].type
    <3>3. /\ DOMAIN origin.items = 1..at
          /\ \A i \in 1..at : /\ At(onStack, i).v = origin.items[i].v
                              /\ At(onStack, i).type = ReadAs(t, {origin.items[i].v}, lua53)
      BY <2>3, <3>1, <3>2, PushedIsArray DEF Keys
    <3>4. PICK j \in 1..at : elem = At(onStack, j).type
      BY <1>2 DEF CheckedOK
    <3>5. ASSUME NEW i \in 1..at
          PROVE  r.items[i].v = origin.items[i].v /\ r.items[i].type = ReadAs(t, ValuesOf(origin.items), lua53)
      <4>0. At(onStack, i).v = origin.items[i].v /\ r.items[i] = Element(At(onStack, i), elem)
        BY <2>6, <3>3
      <4>1. CASE ~(t = "float" /\ ~lua53)
        <5>1. At(onStack, i).type = LuaTypeOf(t) /\ elem = LuaTypeOf(t)
          BY <3>3, <3>4, <4>1 DEF ReadAs
        <5>2. ReadAs(t, ValuesOf(origin.items), lua53) = LuaTypeOf(t)
          BY <4>1 DEF ReadAs
        <5> QED BY <4>0, <5>1, <5>2 DEF Element
      <4>2. CASE t = "float" /\ ~lua53 /\ ValuesOf(origin.items) \subseteq LuaIntegers
        <5>1. \A k \in 1..at : origin.items[k].v \in LuaIntegers
          BY <3>3, <4>2 DEF ValuesOf
        <5>2. At(onStack, i).type = "int" /\ elem = "int"
          BY <3>3, <3>4, <4>2, <5>1 DEF ReadAs
        <5>3. ReadAs(t, ValuesOf(origin.items), lua53) = "int"
          BY <4>2 DEF ReadAs
        <5> QED BY <4>0, <5>2, <5>3 DEF Element
      <4>3. CASE t = "float" /\ ~lua53 /\ ~(ValuesOf(origin.items) \subseteq LuaIntegers)
        <5>1. PICK k \in 1..at : origin.items[k].v \notin LuaIntegers
          BY <3>3, <4>3 DEF ValuesOf
        <5>2. At(onStack, k).type = "float"
          BY <3>3, <4>3, <5>1 DEF ReadAs, LuaTypeOf
        <5>3. elem = "float"
          BY <2>6, <5>2 DEF Fits
        <5>4. ReadAs(t, ValuesOf(origin.items), lua53) = "float"
          BY <4>3 DEF ReadAs, LuaTypeOf
        <5>5. At(onStack, i).type = "float" \/ (At(onStack, i).type = "int" /\ origin.items[i].v \in LuaIntegers)
          BY <3>3, <4>3 DEF ReadAs, LuaTypeOf
        <5>6. origin.items[i] \in DiScalar /\ origin.items[i].type = "float"
          <6>1. origin.items[i].type = t
            BY <1>3, <3>3 DEF KeepsItems, Uniform
          <6> QED BY <3>1, <3>3, <4>3, <6>1, ItemsFacts
        <5>7. origin.items[i].v \in Float
          BY <5>6 DEF DiScalar, Nil, Scalar
        <5>8. CASE At(onStack, i).type = "float"
          BY <4>0, <5>3, <5>4, <5>8 DEF Element
        <5>9. CASE At(onStack, i).type = "int" /\ origin.items[i].v \in LuaIntegers
          <6>1. r.items[i] = Scalar("float", AsDouble(origin.items[i].v))
            BY <4>0, <5>3, <5>9 DEF Element
          <6>2. AsDouble(origin.items[i].v) = origin.items[i].v
            BY <5>7, <5>9, FloatFacts
          <6> QED BY <5>4, <6>1, <6>2 DEF Scalar
        <5> QED BY <5>5, <5>8, <5>9
      <4> QED BY <4>1, <4>2, <4>3
    <3> QED BY <3>2, <3>3, <3>5
  <2> QED BY <1>1, <2>1, <2>7, <2>8, TakeKeeps
<1> QED BY <1>4, <1>5

\* The types of scalars.
LEMMA LuaScalarTypes ==
    ASSUME NEW b \in BOOLEAN, NEW l \in LuaScalar(b)
    PROVE  l.type \in LuaTypes
<1>1. CASE l \in LuaNumber(b)
  BY <1>1 DEF LuaNumber, LuaTypes
<1>2. CASE l \notin LuaNumber(b)
  BY <1>2 DEF LuaScalar, LuaTypes
<1> QED BY <1>1, <1>2

\* What the values are at the start.
LEMMA ValuesInitInv ==
    ASSUME ValuesInit
    PROVE  ValuesInv
<1>0. lua53 \in BOOLEAN
  BY DEF ValuesInit
<1>1. CASE vpc = "di"
  <2>1. origin \in DiScalar \cup DiArray \cup DiTuple
    BY <1>1 DEF ValuesInit
  <2>2. origin # Unset
    BY <2>1, ScalarTypes, ItemsFacts
  <2> QED BY <1>0, <1>1, <2>1, <2>2 DEF ValuesInv, ValuesExact, RoundTrip, TablesExact
<1>2. CASE vpc = "lua"
  <2>1. origin = Unset /\ onStack \in LuaTable(lua53) \cup LuaScalar(lua53)
    BY <1>2 DEF ValuesInit
  <2>2. CASE onStack \in LuaTable(lua53)
    <3>1. PICK D \in SUBSET (0..MaxKey) : onStack.table \in [D -> LuaScalar(lua53)]
      BY <2>2 DEF LuaTable
    <3>2. IsFiniteSet(D)
      <4>1. IsFiniteSet(0..MaxKey)
        BY ValuesAssumption, FS_Interval
      <4> QED BY <4>1, FS_Subset
    <3>3. onStack.type = "table" /\ onStack.meta \in BOOLEAN
      BY <2>2 DEF LuaTable
    <3>4. TableOK(onStack)
      <4>1. \A k \in D : onStack.table[k].type \in LuaTypes
        BY <1>0, <3>1, LuaScalarTypes
      <4> QED BY <3>1, <3>2, <3>3, <4>1 DEF TableOK
    <3> QED BY <1>0, <1>2, <2>1, <3>3, <3>4 DEF ValuesInv, ValuesExact, RoundTrip, TablesExact
  <2>3. CASE onStack \in LuaScalar(lua53)
    <3>1. onStack.type # "table" /\ onStack.type \in LuaTypes
      BY <1>0, <2>3, LuaScalarTypes DEF LuaTypes
    <3> QED BY <1>0, <1>2, <2>1, <3>1 DEF ValuesInv, ValuesExact, RoundTrip, TablesExact
  <2> QED BY <2>1, <2>2, <2>3
<1> QED BY <1>1, <1>2 DEF ValuesInit

\* Every step keeps it.
LEMMA ValuesNextInv ==
    ASSUME ValuesInv, [ValuesNext]_valueVars
    PROVE  ValuesInv'
<1>1. CASE PushValue
  BY <1>1, PushValueKeeps
<1>2. CASE TakeScalar
  BY <1>2, TakeScalarKeeps
<1>3. CASE TakeEmpty
  BY <1>3, TakeEmptyKeeps
<1>4. CASE CheckFirst
  BY <1>4, CheckFirstKeeps
<1>5. CASE CheckNext
  BY <1>5, CheckNextKeeps
<1>6. CASE TakeTable
  BY <1>6, TakeTableKeeps
<1>7. CASE UNCHANGED valueVars
  BY <1>7 DEF valueVars, ValuesInv, ValuesExact, RoundTrip, TablesExact, CheckedOK, Keys
<1> QED BY <1>1, <1>2, <1>3, <1>4, <1>5, <1>6, <1>7 DEF ValuesNext

\* Values pass between deai and Lua as ValuesExact says, in both directions, with Lua
\* 5.3 and with those before it: what di_lua_pushvariant gives to Lua comes back
\* through di_lua_type_to_di, but for what RoundTrip leaves out, and a double that is an
\* integer as one before 5.3; di_lua_checkarray takes exactly the tables that are arrays
\* for arrays.
THEOREM ValuesAlwaysExact == ValuesSpec => []ValuesExact
<1>1. ValuesInit => ValuesInv
  BY ValuesInitInv
<1>2. ValuesInv /\ [ValuesNext]_valueVars => ValuesInv'
  BY ValuesNextInv
<1>3. ValuesInv => ValuesExact
  BY DEF ValuesInv
<1> QED BY <1>1, <1>2, <1>3, PTL DEF ValuesSpec
=============================================================================
