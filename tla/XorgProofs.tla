----------------------------- MODULE XorgProofs -----------------------------
(***************************************************************************)
(* Proofs about the X plugin: connections and their extensions (XorgConn),  *)
(* for any extensions, atoms and number of references; hierarchy events     *)
(* (XinputDevices), for any devices and any number of them in an event; key *)
(* bindings (XKey), for any bindings, keys and grabs of other clients;      *)
(* properties of input devices (XinputProps), for any numbers and lengths;  *)
(* and keymaps (XKeymap), for any keys, modifiers and actions of keys.      *)
(***************************************************************************)
EXTENDS XorgConn, XinputDevices, XKey, XinputProps, XKeymap, Integers, FiniteSetTheorems, SequenceTheorems, TLAPS

-----------------------------------------------------------------------------
(* XorgConn: the inductive invariant *)

ConnSet == [rc : Nat, user : BOOLEAN, fd : BOOLEAN, open : BOOLEAN]
ExtSet == [rc : Nat, dc : BOOLEAN]
StateSet == [conn : ConnSet, ext : [Ext -> ExtSet], list : SUBSET Ext, cache : Seq(Atom)]

\* The connection is counted once for each extension in the table, and by n others; the
\* table has the extensions that have the connection, which is open as long as there are any.
CountsOK(s, n) ==
    /\ s \in StateSet /\ n \in Nat
    /\ s.list = {e \in Ext : s.ext[e].dc}
    /\ s.conn.rc = Cardinality(s.list) + n
    /\ s.conn.fd <=> s.conn.open
    /\ s.list # {} => s.conn.open

LiveOK(s) == \A e \in s.list : s.ext[e].rc > 0

\* The references of the user and of the running callback.
OtherRefs(user, pc) == (IF user THEN 1 ELSE 0) + (IF pc = "idle" THEN 0 ELSE 1)

\* The handler of an extension runs with a reference to it.
HandlerOK ==
    /\ xpc \in {"idle", "poll", "emit", "error", "crashed"} /\ xcur \in Ext \cup {NoExt}
    /\ xpc = "emit" <=> xcur # NoExt
    /\ xcur # NoExt => xext[xcur].rc > 0

XorgInv ==
    /\ CountsOK(State, OtherRefs(xconn.user, xpc))
    /\ LiveOK(State)
    /\ HandlerOK
    /\ AtomsOnce /\ named \subseteq Atom

-----------------------------------------------------------------------------
(* The end of objects *)

\* The table is a finite set.
LEMMA TableFinite ==
    ASSUME NEW s, NEW n, CountsOK(s, n)
    PROVE  IsFiniteSet(s.list) /\ Cardinality(s.list) \in Nat /\ (Cardinality(s.list) = 0 <=> s.list = {})
<1>1. s.list \subseteq Ext
  BY DEF CountsOK, StateSet
<1>2. IsFiniteSet(s.list)
  BY <1>1, XorgAssumption, FS_Subset
<1> QED BY <1>2, FS_CardinalityType, FS_EmptySet

\* xorg_disconnect without extensions.
LEMMA ClosedParts ==
    ASSUME NEW s \in StateSet, NEW t, t = Closed(s)
    PROVE  /\ t \in StateSet /\ t.ext = s.ext /\ t.list = s.list /\ t.cache = <<>>
           /\ t.conn.rc = s.conn.rc /\ t.conn.user = s.conn.user
           /\ ~t.conn.fd /\ ~t.conn.open
<1> DEFINE c == [s.conn EXCEPT !.fd = FALSE, !.open = FALSE]
           z == <<>>
<1>1. c \in ConnSet /\ c.rc = s.conn.rc /\ c.user = s.conn.user /\ ~c.fd /\ ~c.open
  BY DEF StateSet, ConnSet
<1>2. z \in Seq(Atom)
  OBVIOUS
<1>3. t = [s EXCEPT !.conn = c, !.cache = z]
  BY DEF Closed
<1> HIDE DEF c, z
<1>4. t \in StateSet /\ t.conn = c /\ t.ext = s.ext /\ t.list = s.list /\ t.cache = z
  BY <1>1, <1>2, <1>3 DEF StateSet
<1> QED BY <1>1, <1>4 DEF z

\* One of the others gives its reference to the connection up.
LEMMA UnrefConnOK ==
    ASSUME NEW s, NEW n \in Nat, CountsOK(s, n + 1), NEW t, t = UnrefConn(s)
    PROVE  /\ CountsOK(t, n) /\ t.ext = s.ext /\ t.list = s.list
           /\ t.conn.user = s.conn.user /\ t.cache \in {s.cache, <<>>}
<1> DEFINE q == [s EXCEPT !.conn.rc = @ - 1]
<1>1. s \in StateSet /\ s.conn.rc = Cardinality(s.list) + (n + 1)
  BY DEF CountsOK
<1>2. Cardinality(s.list) \in Nat /\ (Cardinality(s.list) = 0 => s.list = {})
  BY TableFinite
<1>3. /\ q \in StateSet /\ q.ext = s.ext /\ q.list = s.list /\ q.cache = s.cache
      /\ q.conn.rc = Cardinality(s.list) + n /\ q.conn.user = s.conn.user
      /\ (q.conn.fd <=> s.conn.fd) /\ (q.conn.open <=> s.conn.open)
  <2> DEFINE c == [s.conn EXCEPT !.rc = @ - 1]
  <2>1. /\ c \in ConnSet /\ c.rc = Cardinality(s.list) + n /\ c.user = s.conn.user
        /\ (c.fd <=> s.conn.fd) /\ (c.open <=> s.conn.open)
    <3>1. s.conn \in ConnSet
      BY <1>1 DEF StateSet
    <3>2. s.conn.rc - 1 = Cardinality(s.list) + n /\ s.conn.rc - 1 \in Nat
      BY ONLY n \in Nat, <1>1, <1>2
    <3> QED BY ONLY <3>1, <3>2 DEF ConnSet
  <2>2. q = [s EXCEPT !.conn = c]
    OBVIOUS
  <2> HIDE DEF c, q
  <2>3. q \in StateSet /\ q.conn = c /\ q.ext = s.ext /\ q.list = s.list /\ q.cache = s.cache
    BY <1>1, <2>1, <2>2 DEF StateSet
  <2> QED BY <2>1, <2>3
<1>4. CountsOK(q, n)
  BY <1>3 DEF CountsOK
<1>5. t = IF q.conn.rc = 0 /\ q.conn.fd THEN Closed(q) ELSE q
  BY DEF UnrefConn
<1> HIDE DEF q
<1>6. CASE q.conn.rc = 0 /\ q.conn.fd
  <2>1. t = Closed(q)
    BY <1>5, <1>6
  <2>2. q.list = {}
    <3>1. q.conn.rc = 0
      BY <1>6
    <3>2. q.conn.rc = Cardinality(s.list) + n /\ q.list = s.list
      BY <1>3
    <3>3. Cardinality(s.list) = 0
      BY ONLY n \in Nat, <1>2, <3>1, <3>2
    <3> QED BY <1>2, <3>2, <3>3
  <2>3. /\ t \in StateSet /\ t.ext = q.ext /\ t.list = q.list /\ t.cache = <<>>
        /\ t.conn.rc = q.conn.rc /\ t.conn.user = q.conn.user
        /\ ~t.conn.fd /\ ~t.conn.open
    BY <1>3, <2>1, ClosedParts
  <2>4. CountsOK(t, n)
    BY <1>4, <2>2, <2>3 DEF CountsOK
  <2> QED BY <1>3, <2>3, <2>4
<1>7. CASE ~(q.conn.rc = 0 /\ q.conn.fd)
  BY <1>3, <1>4, <1>5, <1>7
<1> QED BY <1>6, <1>7

\* Somebody gives a reference to an extension up.
LEMMA UnrefExtOK ==
    ASSUME NEW s, NEW n \in Nat, CountsOK(s, n), LiveOK(s), NEW e \in Ext, s.ext[e].rc > 0,
           NEW t, t = UnrefExt(s, e)
    PROVE  /\ CountsOK(t, n) /\ LiveOK(t)
           /\ t.ext[e].rc = s.ext[e].rc - 1 /\ \A f \in Ext \ {e} : t.ext[f] = s.ext[f]
           /\ t.conn.user = s.conn.user /\ t.cache \in {s.cache, <<>>}
<1> DEFINE q == [s EXCEPT !.ext[e].rc = @ - 1]
<1>1. s \in StateSet /\ s.ext[e].rc \in Nat \ {0}
  BY DEF CountsOK, StateSet, ExtSet
<1>2. /\ q \in StateSet /\ q.list = s.list /\ q.cache = s.cache /\ q.conn = s.conn
      /\ q.ext[e].rc = s.ext[e].rc - 1 /\ q.ext[e].dc = s.ext[e].dc
      /\ \A f \in Ext \ {e} : q.ext[f] = s.ext[f]
  <2> DEFINE x == [s.ext EXCEPT ![e].rc = @ - 1]
  <2>1. /\ x \in [Ext -> ExtSet] /\ x[e].rc = s.ext[e].rc - 1 /\ x[e].dc = s.ext[e].dc
        /\ \A f \in Ext \ {e} : x[f] = s.ext[f]
    BY <1>1 DEF StateSet, ExtSet
  <2>2. q = [s EXCEPT !.ext = x]
    OBVIOUS
  <2> HIDE DEF x, q
  <2>3. q \in StateSet /\ q.conn = s.conn /\ q.ext = x /\ q.list = s.list /\ q.cache = s.cache
    BY <1>1, <2>1, <2>2 DEF StateSet
  <2> QED BY <2>1, <2>3
<1>3. CountsOK(q, n)
  BY <1>2 DEF CountsOK
<1>4. t = IF q.ext[e].rc = 0 THEN FreeSub(q, e) ELSE q
  BY DEF UnrefExt
<1> HIDE DEF q
<1>5. CASE q.ext[e].rc # 0
  <2>1. LiveOK(q)
    BY <1>1, <1>2, <1>5 DEF LiveOK, StateSet
  <2> QED BY <1>2, <1>3, <1>4, <1>5, <2>1
<1>6. CASE q.ext[e].rc = 0 /\ ~q.ext[e].dc
  <2>1. t = q
    BY <1>4, <1>6 DEF FreeSub
  <2>2. e \notin q.list
    BY <1>3, <1>6 DEF CountsOK
  <2>3. LiveOK(q)
    BY <1>1, <1>2, <2>2 DEF LiveOK, StateSet
  <2> QED BY <1>2, <1>3, <2>1, <2>3
<1>7. CASE q.ext[e].rc = 0 /\ q.ext[e].dc
  <2> DEFINE r == [q EXCEPT !.ext[e].dc = FALSE, !.list = @ \ {e}]
  <2>1. t = UnrefConn(r)
    BY <1>4, <1>7 DEF FreeSub
  <2>2. /\ r \in StateSet /\ r.list = q.list \ {e} /\ r.cache = q.cache /\ r.conn = q.conn
        /\ r.ext[e].rc = q.ext[e].rc /\ ~r.ext[e].dc
        /\ \A f \in Ext \ {e} : r.ext[f] = q.ext[f]
    BY <1>2 DEF StateSet, ExtSet
  <2> HIDE DEF r
  <2>3. e \in q.list /\ q.list = {f \in Ext : q.ext[f].dc} /\ q.conn.rc = Cardinality(q.list) + n
        /\ (q.conn.fd <=> q.conn.open) /\ (q.list # {} => q.conn.open)
    BY <1>3, <1>7 DEF CountsOK
  <2>4. IsFiniteSet(q.list) /\ Cardinality(q.list) \in Nat
    BY <1>3, TableFinite
  <2>5. Cardinality(r.list) = Cardinality(q.list) - 1
    BY <2>2, <2>3, <2>4, FS_RemoveElement
  <2>6. r.list = {f \in Ext : r.ext[f].dc}
    BY <2>2, <2>3
  <2>7. CountsOK(r, n + 1)
    BY <2>2, <2>3, <2>4, <2>5, <2>6 DEF CountsOK
  <2>8. /\ CountsOK(t, n) /\ t.ext = r.ext /\ t.list = r.list
        /\ t.conn.user = r.conn.user /\ t.cache \in {r.cache, <<>>}
    BY <2>1, <2>7, UnrefConnOK
  <2>9. LiveOK(t)
    BY <1>1, <1>2, <2>2, <2>8 DEF LiveOK, StateSet
  <2> QED BY <1>2, <2>2, <2>8, <2>9
<1> QED BY <1>5, <1>6, <1>7

\* di_finalize_object of a connection that somebody has.
LEMMA FinalizedOK ==
    ASSUME NEW s, NEW n \in Nat, CountsOK(s, n), LiveOK(s), NEW t, t = Finalized(s)
    PROVE  /\ CountsOK(t, n) /\ LiveOK(t)
           /\ \A e \in Ext : t.ext[e].rc = s.ext[e].rc
           /\ t.conn.user = s.conn.user /\ t.cache \in {s.cache, <<>>}
<1>1. CASE ~s.conn.fd
  BY <1>1 DEF Finalized
<1>2. CASE s.conn.fd
  <2> DEFINE q == FreeSubs(s)
  <2>1. t = Closed(q)
    BY <1>2 DEF Finalized
  <2>2. s \in StateSet /\ s.list = {e \in Ext : s.ext[e].dc} /\ s.conn.rc = Cardinality(s.list) + n
    BY DEF CountsOK
  <2>3. Cardinality(s.list) \in Nat
    BY TableFinite
  <2> DEFINE x == [e \in Ext |-> [s.ext[e] EXCEPT !.dc = @ /\ e \notin s.list]]
  <2>4. x \in [Ext -> ExtSet] /\ \A e \in Ext : x[e].rc = s.ext[e].rc /\ ~x[e].dc
    BY <2>2 DEF StateSet, ExtSet
  <2> DEFINE c == [s.conn EXCEPT !.rc = @ - Cardinality(s.list)]
             z == {}
  <2>5. c \in ConnSet /\ c.rc = n /\ c.user = s.conn.user
    BY <2>2, <2>3 DEF StateSet, ConnSet
  <2>6. /\ q \in StateSet /\ q.ext = x /\ q.list = {} /\ q.cache = s.cache
        /\ q.conn.rc = n /\ q.conn.user = s.conn.user
    <3>1. q = [s EXCEPT !.conn = c, !.list = z, !.ext = x]
      BY <2>2 DEF FreeSubs, StateSet
    <3>2. z \in SUBSET Ext
      OBVIOUS
    <3> HIDE DEF x, q, c, z
    <3>3. q \in StateSet /\ q.conn = c /\ q.ext = x /\ q.list = z /\ q.cache = s.cache
      BY <2>2, <2>4, <2>5, <3>1, <3>2 DEF StateSet
    <3> QED BY <2>5, <3>3 DEF z
  <2> HIDE DEF x, q, c, z
  <2>7. /\ t \in StateSet /\ t.ext = q.ext /\ t.list = q.list /\ t.cache = <<>>
        /\ t.conn.rc = q.conn.rc /\ t.conn.user = q.conn.user
        /\ ~t.conn.fd /\ ~t.conn.open
    BY <2>1, <2>6, ClosedParts
  <2>8. t.list = {e \in Ext : t.ext[e].dc}
    BY <2>4, <2>6, <2>7
  <2>9. Cardinality(t.list) = 0
    BY <2>6, <2>7, FS_EmptySet
  <2>10. CountsOK(t, n)
    BY <2>6, <2>7, <2>8, <2>9 DEF CountsOK
  <2> QED BY <2>4, <2>6, <2>7, <2>10 DEF LiveOK
<1> QED BY <1>1, <1>2

-----------------------------------------------------------------------------
(* Steps *)

\* What a step makes of the objects, as one value.
LEMMA BecomesState ==
    ASSUME NEW w \in StateSet, Becomes(w)
    PROVE  State' = w /\ xconn' = w.conn /\ xext' = w.ext /\ attached' = w.list /\ cache' = w.cache
<1>1. xconn' = w.conn /\ xext' = w.ext /\ attached' = w.list /\ cache' = w.cache
  BY DEF Becomes
<1>2. w = [conn |-> w.conn, ext |-> w.ext, list |-> w.list, cache |-> w.cache]
  BY DEF StateSet
<1> QED BY <1>1, <1>2 DEF State

\* A cache that stays or is thrown away.
LEMMA AtomsKept ==
    ASSUME AtomsOnce, NEW z, z = <<>>, cache' \in {cache, z}, named' = named PROVE AtomsOnce'
<1>1. CASE cache' = cache
  BY <1>1 DEF AtomsOnce
<1>2. CASE cache' = z
  <2>1. Len(cache') = 0
    BY <1>2
  <2> QED BY <2>1 DEF AtomsOnce
<1> QED BY <1>1, <1>2

\* A step that ends objects keeps the invariant if it keeps the counts.
LEMMA StepInv ==
    ASSUME XorgInv, NEW t, CountsOK(t, OtherRefs(t.conn.user, xpc')), LiveOK(t), Becomes(t),
           t.cache \in {cache, <<>>}, named' = named, HandlerOK'
    PROVE  XorgInv'
<1>1. t \in StateSet
  BY DEF CountsOK
<1>2. State' = t /\ xconn' = t.conn /\ cache' = t.cache
  BY <1>1, BecomesState
<1>3. AtomsOnce' /\ named' \subseteq Atom
  <2>1. AtomsOnce /\ named \subseteq Atom
    BY DEF XorgInv
  <2> QED BY <1>2, <2>1, AtomsKept
<1>4. CountsOK(State', OtherRefs(xconn'.user, xpc')) /\ LiveOK(State')
  BY <1>2
<1> QED BY <1>3, <1>4 DEF XorgInv

\* The parts of the state, which are those of State.
LEMMA Parts ==
    ASSUME XorgInv
    PROVE  /\ State.conn = xconn /\ State.ext = xext /\ State.list = attached /\ State.cache = cache
           /\ State \in StateSet
           /\ xconn \in ConnSet /\ xext \in [Ext -> ExtSet] /\ attached \subseteq Ext /\ cache \in Seq(Atom)
           /\ OtherRefs(xconn.user, xpc) \in Nat
           /\ CountsOK(State, OtherRefs(xconn.user, xpc)) /\ LiveOK(State)
<1>1. State.conn = xconn /\ State.ext = xext /\ State.list = attached /\ State.cache = cache
  BY DEF State
<1>2. State \in StateSet /\ CountsOK(State, OtherRefs(xconn.user, xpc)) /\ LiveOK(State)
  BY DEF XorgInv, CountsOK
<1>3. OtherRefs(xconn.user, xpc) \in Nat
  BY DEF OtherRefs
<1> HIDE DEF State
<1> QED BY <1>1, <1>2, <1>3 DEF StateSet

\* A reference to an extension is given up by its user, or after its handler.
LEMMA DropExtInv == ASSUME XorgInv, NEW e \in Ext, DropExt(e) PROVE XorgInv'
<1> DEFINE n == OtherRefs(xconn.user, xpc)
           t == UnrefExt(State, e)
<1>1. /\ State.ext = xext /\ State.conn = xconn /\ State.cache = cache /\ n \in Nat
      /\ CountsOK(State, n) /\ LiveOK(State) /\ xext \in [Ext -> ExtSet]
  BY Parts
<1>2. /\ xext[e].rc > (IF xcur = e THEN 1 ELSE 0) /\ Becomes(t)
      /\ xpc' = xpc /\ xcur' = xcur /\ named' = named
  BY DEF DropExt
<1>3. xext[e].rc > 0
  BY <1>1, <1>2 DEF ExtSet
<1> HIDE DEF n, t
<1>4. /\ CountsOK(t, n) /\ LiveOK(t)
      /\ t.ext[e].rc = xext[e].rc - 1 /\ \A f \in Ext \ {e} : t.ext[f] = xext[f]
      /\ t.conn.user = xconn.user /\ t.cache \in {cache, <<>>}
  BY <1>1, <1>3, UnrefExtOK DEF t
<1>5. CountsOK(t, OtherRefs(t.conn.user, xpc'))
  BY <1>2, <1>4 DEF n
<1>6. xext' = t.ext
  BY <1>2 DEF Becomes
<1>7. HandlerOK'
  <2>1. HandlerOK
    BY DEF XorgInv
  <2>2. xcur # NoExt => t.ext[xcur].rc > 0
    <3>1. CASE xcur = e
      BY <1>1, <1>2, <1>4, <3>1 DEF ExtSet
    <3>2. CASE xcur # e
      BY <1>4, <2>1, <3>2 DEF HandlerOK
    <3> QED BY <3>1, <3>2
  <2> QED BY <1>2, <1>6, <2>1, <2>2 DEF HandlerOK
<1> QED BY <1>2, <1>4, <1>5, <1>7, StepInv

\* A handler returns.
LEMMA HandlerReturnsInv == ASSUME XorgInv, HandlerReturns PROVE XorgInv'
<1> DEFINE n == OtherRefs(xconn.user, xpc)
           t == UnrefExt(State, xcur)
<1>1. /\ State.ext = xext /\ State.conn = xconn /\ State.cache = cache /\ n \in Nat
      /\ CountsOK(State, n) /\ LiveOK(State) /\ xext \in [Ext -> ExtSet]
  BY Parts
<1>2. /\ xpc = "emit" /\ Becomes(t) /\ xpc' \in {"poll", "crashed"} /\ xcur' = NoExt /\ named' = named
  BY DEF HandlerReturns
<1>3. xcur \in Ext /\ xext[xcur].rc > 0
  BY <1>2 DEF XorgInv, HandlerOK
<1> HIDE DEF n, t
<1>4. /\ CountsOK(t, n) /\ LiveOK(t) /\ t.conn.user = xconn.user /\ t.cache \in {cache, <<>>}
  BY <1>1, <1>3, UnrefExtOK DEF t
<1>5. CountsOK(t, OtherRefs(t.conn.user, xpc'))
  BY <1>2, <1>4 DEF n, OtherRefs
<1>6. HandlerOK'
  BY <1>2 DEF HandlerOK
<1> QED BY <1>2, <1>4, <1>5, <1>6, StepInv

\* What of the handler that runs depends on the counts of extensions only.
LEMMA HandlerKept ==
    ASSUME HandlerOK, xpc' = xpc, xcur' = xcur, \A e \in Ext : xext'[e].rc >= xext[e].rc,
           xext \in [Ext -> ExtSet], xext' \in [Ext -> ExtSet]
    PROVE  HandlerOK'
BY DEF HandlerOK, ExtSet

\* The user drops the connection.
LEMMA DropConnInv == ASSUME XorgInv, DropConn PROVE XorgInv'
<1> DEFINE c == [xconn EXCEPT !.user = FALSE]
           s == [State EXCEPT !.conn.user = FALSE]
           n == OtherRefs(FALSE, xpc)
           t == UnrefConn(s)
<1>1. /\ State.ext = xext /\ State.conn = xconn /\ State.cache = cache /\ State \in StateSet
      /\ CountsOK(State, OtherRefs(xconn.user, xpc)) /\ LiveOK(State) /\ xconn \in ConnSet
      /\ xext \in [Ext -> ExtSet]
  BY Parts
<1>2. xconn.user /\ Becomes(t) /\ xpc' = xpc /\ xcur' = xcur /\ named' = named
  BY DEF DropConn
<1>3. n \in Nat /\ OtherRefs(xconn.user, xpc) = n + 1
  BY <1>2 DEF OtherRefs
<1>4. c \in ConnSet /\ c.rc = xconn.rc /\ (c.fd <=> xconn.fd) /\ (c.open <=> xconn.open) /\ ~c.user
  BY <1>1 DEF ConnSet
<1>5. s = [State EXCEPT !.conn = c]
  BY <1>1
<1> HIDE DEF c, s, t, n, State
<1>6. s \in StateSet /\ s.conn = c /\ s.ext = State.ext /\ s.list = State.list /\ s.cache = State.cache
  BY <1>1, <1>4, <1>5 DEF StateSet
<1>7. CountsOK(s, n + 1)
  BY <1>1, <1>3, <1>4, <1>6 DEF CountsOK
<1>8. /\ CountsOK(t, n) /\ t.ext = s.ext /\ t.list = s.list
      /\ t.conn.user = s.conn.user /\ t.cache \in {s.cache, <<>>}
  BY <1>3, <1>7, UnrefConnOK DEF t
<1>9. ~t.conn.user /\ LiveOK(t)
  BY <1>1, <1>4, <1>6, <1>8 DEF LiveOK
<1>10. CountsOK(t, OtherRefs(t.conn.user, xpc'))
  <2>1. OtherRefs(t.conn.user, xpc') = n
    BY <1>2, <1>9 DEF n, OtherRefs
  <2> QED BY <1>8, <2>1
<1>11. xext' = xext
  BY <1>1, <1>2, <1>6, <1>8 DEF Becomes
<1>12. HandlerOK'
  <2>1. HandlerOK
    BY DEF XorgInv
  <2> QED BY <1>2, <1>11, <2>1 DEF HandlerOK
<1>13. t.cache \in {cache, <<>>}
  BY <1>1, <1>6, <1>8
<1> QED BY <1>2, <1>8, <1>9, <1>10, <1>12, <1>13, StepInv

\* The user disconnects.
LEMMA DisconnectInv == ASSUME XorgInv, Disconnect PROVE XorgInv'
<1> DEFINE n == OtherRefs(xconn.user, xpc)
           t == Finalized(State)
<1>1. /\ State.ext = xext /\ State.conn = xconn /\ State.cache = cache /\ n \in Nat
      /\ CountsOK(State, n) /\ LiveOK(State) /\ xext \in [Ext -> ExtSet]
  BY Parts
<1>2. Becomes(t) /\ xpc' = xpc /\ xcur' = xcur /\ named' = named
  BY DEF Disconnect
<1> HIDE DEF n, t
<1>3. /\ CountsOK(t, n) /\ LiveOK(t) /\ \A e \in Ext : t.ext[e].rc = xext[e].rc
      /\ t.conn.user = xconn.user /\ t.cache \in {cache, <<>>}
  BY <1>1, FinalizedOK DEF t
<1>4. CountsOK(t, OtherRefs(t.conn.user, xpc'))
  BY <1>2, <1>3 DEF n
<1>5. xext' = t.ext
  BY <1>2 DEF Becomes
<1>6. HandlerOK'
  <2>1. HandlerOK
    BY DEF XorgInv
  <2> QED BY <1>2, <1>3, <1>5, <2>1 DEF HandlerOK
<1> QED BY <1>2, <1>3, <1>4, <1>6, StepInv

\* The callback ends.
LEMMA IoevEndsInv == ASSUME XorgInv, IoevEnds PROVE XorgInv'
<1> DEFINE n == OtherRefs(xconn.user, "idle")
           s == IF xpc = "error" THEN Finalized(State) ELSE State
           t == UnrefConn(s)
<1>1. /\ State.ext = xext /\ State.conn = xconn /\ State.cache = cache
      /\ CountsOK(State, OtherRefs(xconn.user, xpc)) /\ LiveOK(State)
  BY Parts
<1>2. /\ xpc \in {"poll", "error"} /\ Becomes(t) /\ xpc' = "idle" /\ xcur' = xcur /\ named' = named
  BY DEF IoevEnds
<1>3. n \in Nat /\ OtherRefs(xconn.user, xpc) = n + 1
  BY <1>2 DEF OtherRefs
<1> HIDE DEF n
<1>4. CountsOK(State, n + 1)
  BY <1>1, <1>3
<1>5. /\ CountsOK(s, n + 1) /\ LiveOK(s)
      /\ s.conn.user = xconn.user /\ s.cache \in {cache, <<>>}
  <2>1. CASE xpc = "error"
    <3>1. s = Finalized(State) /\ n + 1 \in Nat
      BY <1>3, <2>1
    <3> HIDE DEF s
    <3> QED BY <1>1, <1>4, <3>1, FinalizedOK
  <2>2. CASE xpc # "error"
    BY <1>1, <1>4, <2>2
  <2> QED BY <2>1, <2>2
<1> HIDE DEF s, t
<1>6. /\ CountsOK(t, n) /\ t.ext = s.ext /\ t.list = s.list
      /\ t.conn.user = s.conn.user /\ t.cache \in {s.cache, <<>>}
  BY <1>3, <1>5, UnrefConnOK DEF t
<1>7. LiveOK(t) /\ t.cache \in {cache, <<>>}
  BY <1>5, <1>6 DEF LiveOK
<1>8. CountsOK(t, OtherRefs(t.conn.user, xpc'))
  BY <1>2, <1>5, <1>6 DEF n
<1>9. HandlerOK'
  <2>1. xcur = NoExt
    BY <1>2 DEF XorgInv, HandlerOK
  <2> QED BY <1>2, <2>1 DEF HandlerOK
<1> QED BY <1>2, <1>7, <1>8, <1>9, StepInv


\* An extension is found in the table, or made and put into it.
LEMMA GetExtInv == ASSUME XorgInv, NEW e \in Ext, GetExt(e) PROVE XorgInv'
<1> DEFINE n == OtherRefs(xconn.user, xpc)
<1>1. /\ State.list = attached /\ State.ext = xext /\ State.conn = xconn
      /\ xconn \in ConnSet /\ xext \in [Ext -> ExtSet] /\ attached \subseteq Ext /\ cache \in Seq(Atom)
      /\ n \in Nat /\ CountsOK(State, n) /\ LiveOK(State)
  BY Parts
<1>2. /\ xconn.fd /\ xpc' = xpc /\ xcur' = xcur /\ named' = named /\ cache' = cache
      /\ selected' \in {selected, selected \cup {e}}
  BY DEF GetExt, GetExtAs
<1>3. /\ attached = {f \in Ext : xext[f].dc} /\ xconn.rc = Cardinality(attached) + n
      /\ (xconn.fd <=> xconn.open) /\ \A f \in attached : xext[f].rc > 0
      /\ IsFiniteSet(attached) /\ Cardinality(attached) \in Nat
  BY <1>1, TableFinite DEF CountsOK, LiveOK
<1>4. HandlerOK /\ AtomsOnce /\ named \subseteq Atom
  BY DEF XorgInv
<1>5. AtomsOnce' /\ named' \subseteq Atom
  BY <1>2, <1>4 DEF AtomsOnce
<1> HIDE DEF n
<1>6. CASE e \in attached
  <2>1. xext' = [xext EXCEPT ![e].rc = @ + 1] /\ attached' = attached /\ xconn' = xconn
    BY <1>6 DEF GetExt, GetExtAs
  <2>2. /\ xext' \in [Ext -> ExtSet] /\ \A f \in Ext : xext'[f].dc = xext[f].dc /\ xext'[f].rc >= xext[f].rc
    BY <1>1, <2>1 DEF ExtSet
  <2>3. \A f \in attached : xext'[f].rc > 0
    BY <1>1, <1>3, <2>2 DEF ExtSet
  <2>4. CountsOK(State', n) /\ LiveOK(State')
    <3>1. attached' = {f \in Ext : xext'[f].dc}
      BY <1>3, <2>1, <2>2
    <3>2. State' = [conn |-> xconn', ext |-> xext', list |-> attached', cache |-> cache']
      BY DEF State
    <3>3. /\ State'.conn = xconn /\ State'.ext = xext' /\ State'.list = attached /\ State'.cache = cache
      BY <1>2, <2>1, <3>2
    <3>4. State' \in StateSet
      BY <1>1, <1>2, <2>1, <2>2, <3>2 DEF StateSet
    <3> HIDE DEF State
    <3> QED BY <1>1, <1>2, <1>3, <2>1, <2>3, <3>1, <3>3, <3>4 DEF CountsOK, LiveOK
  <2>5. HandlerOK'
    BY <1>1, <1>2, <1>4, <2>2, HandlerKept
  <2>6. OtherRefs(xconn'.user, xpc') = n
    BY <1>2, <2>1 DEF n
  <2> QED BY <1>5, <2>4, <2>5, <2>6 DEF XorgInv
<1>7. CASE e \notin attached
  <2>1. /\ xext[e].rc = 0 /\ xext' = [xext EXCEPT ![e] = [rc |-> 1, dc |-> TRUE]]
        /\ attached' = attached \cup {e} /\ xconn' = [xconn EXCEPT !.rc = @ + 1]
    BY <1>7 DEF GetExt, GetExtAs
  <2>2. /\ xext' \in [Ext -> ExtSet] /\ xext'[e].dc /\ xext'[e].rc = 1
        /\ \A f \in Ext \ {e} : xext'[f] = xext[f]
    BY <1>1, <2>1 DEF ExtSet
  <2>3. /\ xconn' \in ConnSet /\ xconn'.rc = xconn.rc + 1 /\ xconn'.user = xconn.user
        /\ (xconn'.fd <=> xconn.fd) /\ (xconn'.open <=> xconn.open)
    BY <1>1, <2>1 DEF ConnSet
  <2>4. Cardinality(attached') = Cardinality(attached) + 1
    BY <1>3, <1>7, <2>1, FS_AddElement
  <2>5. attached' = {f \in Ext : xext'[f].dc}
    BY <1>3, <2>1, <2>2
  <2>6. \A f \in attached' : xext'[f].rc > 0
    BY <1>1, <1>3, <2>1, <2>2
  <2>7. CountsOK(State', n) /\ LiveOK(State')
    <3>1. State' = [conn |-> xconn', ext |-> xext', list |-> attached', cache |-> cache']
      BY DEF State
    <3>2. /\ State'.conn = xconn' /\ State'.ext = xext' /\ State'.list = attached' /\ State'.cache = cache
      BY <1>2, <3>1
    <3>3. State' \in StateSet
      BY <1>1, <1>2, <2>1, <2>2, <2>3, <3>1 DEF StateSet
    <3>4. xconn'.rc = Cardinality(attached') + n
      BY <1>1, <1>3, <2>3, <2>4
    <3>5. xconn'.open
      BY <1>2, <1>3, <2>3
    <3> HIDE DEF State
    <3> QED BY <1>1, <1>2, <1>3, <2>3, <2>5, <2>6, <3>2, <3>3, <3>4, <3>5 DEF CountsOK, LiveOK
  <2>8. HandlerOK'
    <3>1. \A f \in Ext : xext'[f].rc >= xext[f].rc
      BY <1>1, <2>1, <2>2 DEF ExtSet
    <3> QED BY <1>1, <1>2, <1>4, <2>2, <3>1, HandlerKept
  <2>9. OtherRefs(xconn'.user, xpc') = n
    BY <1>2, <2>3 DEF n
  <2> QED BY <1>5, <2>7, <2>8, <2>9 DEF XorgInv
<1> QED BY <1>6, <1>7

\* The callback begins, polls and hands events out.
LEMMA IoevInv ==
    ASSUME XorgInv, StartIoev \/ PollError \/ \E e \in Ext : PollEvent(e)
    PROVE  XorgInv'
<1> DEFINE n == OtherRefs(xconn.user, xpc)
<1>1. /\ State.list = attached /\ State.ext = xext /\ State.conn = xconn /\ State.cache = cache
      /\ State \in StateSet
      /\ xconn \in ConnSet /\ xext \in [Ext -> ExtSet] /\ attached \subseteq Ext /\ cache \in Seq(Atom)
      /\ n \in Nat /\ CountsOK(State, n) /\ LiveOK(State)
  BY Parts
<1>2. HandlerOK /\ AtomsOnce /\ named \subseteq Atom
  BY DEF XorgInv
<1>3. attached' = attached /\ cache' = cache /\ named' = named
  BY DEF StartIoev, PollError, PollEvent
<1>4. AtomsOnce' /\ named' \subseteq Atom
  BY <1>2, <1>3 DEF AtomsOnce
<1>5. State' = [conn |-> xconn', ext |-> xext', list |-> attached', cache |-> cache']
  BY DEF State
<1>6. CASE StartIoev
  <2>1. /\ xpc = "idle" /\ xpc' = "poll" /\ xext' = xext /\ xcur' = xcur
        /\ xconn' = [xconn EXCEPT !.rc = @ + 1]
    BY <1>6 DEF StartIoev
  <2>2. /\ xconn' \in ConnSet /\ xconn'.rc = xconn.rc + 1 /\ xconn'.user = xconn.user
        /\ (xconn'.fd <=> xconn.fd) /\ (xconn'.open <=> xconn.open)
    BY <1>1, <2>1 DEF ConnSet
  <2>3. OtherRefs(xconn'.user, xpc') = n + 1
    BY <2>1, <2>2 DEF OtherRefs
  <2>4. State'.conn = xconn' /\ State'.ext = xext /\ State'.list = attached /\ State'.cache = cache
    BY <1>3, <1>5, <2>1
  <2>5. State' \in StateSet
    BY <1>1, <1>3, <1>5, <2>1, <2>2 DEF StateSet
  <2> HIDE DEF State, n
  <2>6. xconn'.rc = Cardinality(attached) + (n + 1)
    <3>1. xconn.rc = Cardinality(attached) + n /\ Cardinality(attached) \in Nat
      BY <1>1, TableFinite DEF CountsOK
    <3> QED BY <1>1, <2>2, <3>1
  <2>7. CountsOK(State', n + 1) /\ LiveOK(State')
    <3>1. /\ attached = {e \in Ext : xext[e].dc} /\ (xconn'.fd <=> xconn'.open)
          /\ (attached # {} => xconn'.open) /\ \A e \in attached : xext[e].rc > 0
      BY <1>1, <2>2 DEF CountsOK, LiveOK
    <3>2. n + 1 \in Nat
      BY <1>1
    <3> QED BY ONLY <2>4, <2>5, <2>6, <3>1, <3>2 DEF CountsOK, LiveOK
  <2>8. HandlerOK'
    BY <1>2, <2>1 DEF HandlerOK
  <2> QED BY <1>4, <2>3, <2>7, <2>8 DEF XorgInv
<1>7. ASSUME xpc' # "idle", xpc = "poll", xconn' = xconn,
             xext' \in [Ext -> ExtSet], HandlerOK',
             \A f \in Ext : xext'[f].dc = xext[f].dc /\ xext'[f].rc >= xext[f].rc
      PROVE  XorgInv'
  <2>1. OtherRefs(xconn'.user, xpc') = n
    BY <1>7 DEF OtherRefs
  <2>2. State'.conn = xconn /\ State'.ext = xext' /\ State'.list = attached /\ State'.cache = cache
    BY <1>3, <1>5, <1>7
  <2>3. State' \in StateSet
    BY <1>1, <1>3, <1>5, <1>7 DEF StateSet
  <2>4. attached = {f \in Ext : xext'[f].dc} /\ \A f \in attached : xext'[f].rc > 0
    BY <1>1, <1>7 DEF CountsOK, LiveOK, ExtSet
  <2> HIDE DEF State, n
  <2>5. CountsOK(State', n) /\ LiveOK(State')
    BY <1>1, <2>2, <2>3, <2>4 DEF CountsOK, LiveOK
  <2> QED BY <1>4, <1>7, <2>1, <2>5 DEF XorgInv
<1>8. CASE PollError
  <2>1. xpc = "poll" /\ xpc' = "error" /\ xconn' = xconn /\ xext' = xext /\ xcur' = xcur
    BY <1>8 DEF PollError
  <2>2. HandlerOK'
    BY <1>2, <2>1 DEF HandlerOK
  <2>3. OtherRefs(xconn'.user, xpc') = n /\ State' = State
    BY <1>3, <2>1 DEF OtherRefs, State
  <2> QED BY <1>1, <1>4, <2>2, <2>3 DEF XorgInv
<1>9. ASSUME NEW e \in Ext, PollEvent(e) PROVE XorgInv'
  <2>1. xpc = "poll" /\ xconn' = xconn
    BY <1>9 DEF PollEvent
  <2>2. CASE e \in attached
    <3>1. xpc' = "emit" /\ xcur' = e /\ xext' = [xext EXCEPT ![e].rc = @ + 1]
      BY <1>9, <2>2 DEF PollEvent
    <3>2. /\ xext' \in [Ext -> ExtSet] /\ xext'[e].rc > 0
          /\ \A f \in Ext : xext'[f].dc = xext[f].dc /\ xext'[f].rc >= xext[f].rc
      BY <1>1, <3>1 DEF ExtSet
    <3>3. HandlerOK'
      BY <3>1, <3>2, XorgAssumption DEF HandlerOK
    <3> QED BY <1>7, <2>1, <3>1, <3>2, <3>3
  <2>3. CASE e \notin attached
    <3>1. xpc' = xpc /\ xcur' = xcur /\ xext' = xext
      BY <1>9, <2>3 DEF PollEvent
    <3>2. HandlerOK' /\ \A f \in Ext : xext'[f].rc >= xext[f].rc
      BY <1>1, <1>2, <3>1 DEF HandlerOK, ExtSet
    <3> QED BY <1>1, <1>7, <2>1, <3>1, <3>2
  <2> QED BY <2>2, <2>3
<1> QED BY <1>6, <1>8, <1>9

\* Atoms are named and looked up.
LEMMA AtomInv ==
    ASSUME XorgInv, NEW a \in Atom, GetAtomName(a) \/ InternAtom(a)
    PROVE  XorgInv'
<1>1. /\ State.list = attached /\ State.ext = xext /\ State.conn = xconn /\ State.cache = cache
      /\ State \in StateSet /\ cache \in Seq(Atom)
      /\ CountsOK(State, OtherRefs(xconn.user, xpc)) /\ LiveOK(State)
  BY Parts
<1>2. HandlerOK /\ AtomsOnce /\ named \subseteq Atom
  BY DEF XorgInv
<1>3. /\ xconn' = xconn /\ xext' = xext /\ attached' = attached /\ xpc' = xpc /\ xcur' = xcur
      /\ named \subseteq named' /\ named' \subseteq Atom
      /\ \/ cache' = cache
         \/ cache' = <<a>> \o cache /\ ~Cached(a) /\ a \in named'
  BY <1>2 DEF GetAtomName, InternAtom, CacheAs
<1>4. cache' \in Seq(Atom) /\ AtomsOnce'
  <2>1. CASE cache' = cache
    BY <1>1, <1>2, <1>3, <2>1 DEF AtomsOnce
  <2>2. CASE cache' = <<a>> \o cache /\ ~Cached(a) /\ a \in named'
    <3> DEFINE c == <<a>> \o cache
    <3>1. /\ c \in Seq(Atom) /\ Len(c) = Len(cache) + 1 /\ Len(cache) \in Nat /\ c[1] = a
          /\ \A i \in 2..Len(c) : c[i] = cache[i - 1] /\ i - 1 \in 1..Len(cache)
      BY <1>1
    <3> HIDE DEF c
    <3>2. \A i \in 2..Len(c) : c[i] # a
      BY <2>2, <3>1 DEF Cached
    <3>3. \A i, j \in 1..Len(c) : c[i] = c[j] => i = j
      <4> SUFFICES ASSUME NEW i \in 1..Len(c), NEW j \in 1..Len(c), c[i] = c[j] PROVE i = j
        OBVIOUS
      <4>1. CASE i = 1 \/ j = 1
        BY <3>1, <3>2, <4>1
      <4>2. CASE i # 1 /\ j # 1
        <5>1. i \in 2..Len(c) /\ j \in 2..Len(c)
          BY <3>1, <4>2
        <5>2. i - 1 \in 1..Len(cache) /\ j - 1 \in 1..Len(cache) /\ cache[i - 1] = cache[j - 1]
          BY <3>1, <5>1
        <5>3. i - 1 = j - 1
          BY <1>2, <5>2 DEF AtomsOnce
        <5> QED BY <5>1, <5>3
      <4> QED BY <4>1, <4>2
    <3>4. \A i \in 1..Len(c) : c[i] \in named'
      <4> SUFFICES ASSUME NEW i \in 1..Len(c) PROVE c[i] \in named'
        OBVIOUS
      <4>1. CASE i = 1
        BY <2>2, <3>1, <4>1
      <4>2. CASE i # 1
        <5>1. i \in 2..Len(c)
          BY <3>1, <4>2
        <5>2. c[i] = cache[i - 1] /\ i - 1 \in 1..Len(cache)
          BY <3>1, <5>1
        <5> QED BY <1>2, <1>3, <5>2 DEF AtomsOnce
      <4> QED BY <4>1, <4>2
    <3>5. cache' = c
      BY <2>2 DEF c
    <3> QED BY <3>1, <3>3, <3>4, <3>5 DEF AtomsOnce
  <2> QED BY <1>3, <2>1, <2>2
<1>5. State' = [conn |-> xconn', ext |-> xext', list |-> attached', cache |-> cache']
  BY DEF State
<1>6. State'.conn = State.conn /\ State'.ext = State.ext /\ State'.list = State.list
  BY <1>1, <1>3, <1>5
<1>7. State' \in StateSet
  BY <1>1, <1>3, <1>4, <1>5 DEF StateSet
<1> HIDE DEF State
<1>8. CountsOK(State', OtherRefs(xconn'.user, xpc')) /\ LiveOK(State')
  BY <1>1, <1>3, <1>6, <1>7 DEF CountsOK, LiveOK
<1>9. HandlerOK'
  BY <1>2, <1>3 DEF HandlerOK
<1> QED BY <1>3, <1>4, <1>8, <1>9 DEF XorgInv

-----------------------------------------------------------------------------
(* The theorem *)

\* A connection to a server, with its user's reference only.
LEMMA XorgInitInv == XorgInit => XorgInv
<1> SUFFICES ASSUME XorgInit PROVE XorgInv
  OBVIOUS
<1>1. /\ State.conn = xconn /\ State.ext = xext /\ State.list = {} /\ State.cache = <<>>
  BY DEF XorgInit, State
<1>2. /\ xconn \in ConnSet /\ xconn.rc = 1 /\ xconn.user /\ xconn.fd /\ xconn.open
  BY DEF XorgInit, ConnSet
<1>3. xext \in [Ext -> ExtSet] /\ \A e \in Ext : ~xext[e].dc
  BY DEF XorgInit, ExtSet
<1>4. State \in StateSet
  <2>1. {} \in SUBSET Ext /\ <<>> \in Seq(Atom)
    OBVIOUS
  <2> QED BY <1>2, <1>3, <2>1 DEF XorgInit, State, StateSet
<1>5. OtherRefs(xconn.user, xpc) = 1
  BY <1>2 DEF XorgInit, OtherRefs
<1> HIDE DEF State
<1>6. State.list = {e \in Ext : State.ext[e].dc} /\ Cardinality(State.list) = 0
  BY <1>1, <1>3, FS_EmptySet
<1>7. CountsOK(State, 1)
  BY <1>1, <1>2, <1>4, <1>6 DEF CountsOK
<1>8. LiveOK(State)
  BY <1>1 DEF LiveOK
<1>9. HandlerOK
  BY DEF XorgInit, HandlerOK
<1>10. AtomsOnce /\ named \subseteq Atom
  <2>1. Len(cache) = 0 /\ named = Named
    BY DEF XorgInit
  <2> QED BY <2>1, XorgAssumption DEF AtomsOnce
<1> QED BY <1>5, <1>7, <1>8, <1>9, <1>10 DEF XorgInv

\* Every step of user code, of the callback and of the server keeps the invariant.
LEMMA XorgNextInv == ASSUME XorgInv, [XorgNext]_xorgVars PROVE XorgInv'
<1>1. CASE UNCHANGED xorgVars
  BY <1>1 DEF xorgVars, XorgInv, State, HandlerOK, AtomsOnce
<1> QED BY <1>1, GetExtInv, DropExtInv, DropConnInv, DisconnectInv, HandlerReturnsInv, IoevEndsInv,
           IoevInv, AtomInv DEF XorgNext

\* Extensions that come and go, also within the handlers of their own events, and
\* disconnection at any time leave no count wrong: the connection is freed exactly after its
\* last user, its last extension and the callback, an extension that has it finds it
\* open, the table points to live extensions, and an atom has one entry.
THEOREM ConnectionAlwaysSound == XorgSpec => []ConnectionSound
<1>1. XorgInv => ConnectionSound
  <2> SUFFICES ASSUME XorgInv PROVE ConnectionSound
    OBVIOUS
  <2> DEFINE n == OtherRefs(xconn.user, xpc)
  <2>1. /\ State.list = attached /\ State.ext = xext /\ State.conn = xconn
        /\ n \in Nat /\ CountsOK(State, n) /\ LiveOK(State)
    BY Parts
  <2>2. /\ attached = {e \in Ext : xext[e].dc} /\ xconn.rc = Cardinality(attached) + n
        /\ Cardinality(attached) \in Nat /\ (Cardinality(attached) = 0 => attached = {})
        /\ (attached # {} => xconn.open)
    BY <2>1, TableFinite DEF CountsOK
  <2>3. ConnRefsExact
    <3>1. xconn.rc = Cardinality({e \in Ext : xext[e].dc}) + n
      BY <2>2
    <3>2. Cardinality({e \in Ext : xext[e].dc}) \in Nat
      BY <2>2
    <3> QED BY <3>1, <3>2 DEF ConnRefsExact, OtherRefs
  <2>4. AttachedOpen
    <3> HIDE DEF n
    <3> SUFFICES ASSUME NEW e \in Ext, xext[e].dc PROVE xconn.rc > 0 /\ xconn.open
      BY DEF AttachedOpen
    <3>1. attached # {}
      BY <2>2
    <3>2. Cardinality(attached) # 0
      BY <2>2, <3>1
    <3>3. xconn.rc > 0
      BY <2>1, <2>2, <3>2
    <3> QED BY <2>2, <3>1, <3>3
  <2>5. TableLive
    BY <2>1, <2>2 DEF TableLive, LiveOK
  <2>6. AtomsOnce
    BY DEF XorgInv
  <2> QED BY <2>3, <2>4, <2>5, <2>6 DEF ConnectionSound
<1>2. XorgInit => XorgInv
  BY XorgInitInv
<1>3. XorgInv /\ [XorgNext]_xorgVars => XorgInv'
  BY XorgNextInv
<1> QED BY <1>1, <1>2, <1>3, PTL DEF XorgSpec

-----------------------------------------------------------------------------
(* XinputDevices *)

\* What was emitted, with the info and the flag it was emitted for.
SignalSet == [info : Nat, device : Device, flag : 1..3]

\* The types of the extension and of the event that is handled.
XinputTypeOK ==
    /\ xi = [rc |-> xi.rc, dc |-> xi.dc, listeners |-> xi.listeners] /\ xi.rc \in Nat
    /\ owned \in BOOLEAN /\ devices \in Nat
    /\ infos \in Seq(Info) /\ at \in Nat \ {0} /\ flag \in 1..4 /\ signalled \in Seq(SignalSet)
    /\ hpc \in {"none", "idle", "info", "emit", "freed"}

\* Where handle_xinput_event is in the event.
CursorOK ==
    /\ hpc \in {"none", "idle"} => at > Len(infos)
    /\ hpc # "emit" /\ hpc # "freed" => flag = 1
    /\ hpc = "emit" => at \in 1..Len(infos)

\* Exactly the reports before the cursor were emitted, in order.
SignalsOK ==
    /\ \A k \in 1..Len(signalled) :
          /\ Reported(signalled[k].info, signalled[k].flag)
          /\ signalled[k].device = infos[signalled[k].info].device
          /\ Earlier(signalled[k].info, signalled[k].flag, at, flag)
    /\ \A k \in 1..Len(signalled) : \A j \in 1..(k - 1) :
          Earlier(signalled[j].info, signalled[j].flag, signalled[k].info, signalled[k].flag)
    /\ \A i \in 1..Len(infos), f \in 1..3 :
          Reported(i, f) /\ Earlier(i, f, at, flag) => Signalled(i, f)

\* Before the extension is made there are no devices.
XinputInv ==
    /\ XinputTypeOK /\ CursorOK /\ SignalsOK /\ XinputRefsExact
    /\ hpc = "none" => devices = 0
    /\ FreedByScript

\* A step that does not touch the event and what was emitted for it.
LEMMA SameEvent ==
    ASSUME XinputInv, infos' = infos, at' = at, flag' = flag, signalled' = signalled,
           \/ hpc' = hpc
           \/ hpc' = "freed"
           \/ hpc = "none" /\ hpc' = "idle"
           \/ hpc = "info" /\ at > Len(infos) /\ hpc' = "idle"
           \/ hpc = "info" /\ at \in 1..Len(infos) /\ hpc' = "emit"
    PROVE  CursorOK' /\ SignalsOK'
<1>1. CursorOK'
  BY DEF XinputInv, CursorOK
<1>2. \A i, f : Reported(i, f)' <=> Reported(i, f)
  BY DEF Reported
<1>3. \A i, f : Signalled(i, f)' <=> Signalled(i, f)
  BY DEF Signalled
<1>4. SignalsOK'
  BY <1>2, <1>3 DEF XinputInv, SignalsOK
<1>5. QED
  BY <1>1, <1>4

\* The references of the script and of the object of the event.
LEMMA XinputCounts ==
    ASSUME XinputInv
    PROVE  /\ xi.rc \in Nat /\ devices \in Nat
           /\ owned => xi.rc >= 1 + devices
           /\ hpc = "emit" => xi.rc >= 1 + devices
           /\ xi.rc >= devices
           /\ [xi EXCEPT !.rc = @ + 1].rc = xi.rc + 1
BY DEF XinputInv, XinputTypeOK, XinputRefsExact

\* The extension object after a reference was given up.
LEMMA UnrefParts ==
    ASSUME XinputInv, UnrefXinput
    PROVE  xi' = [rc |-> xi'.rc, dc |-> xi'.dc, listeners |-> xi'.listeners] /\ xi'.rc = xi.rc - 1
<1> DEFINE d == xi.dc /\ xi.rc > 1
           r == xi.rc - 1
<1>1. xi = [rc |-> xi.rc, dc |-> xi.dc, listeners |-> xi.listeners]
  BY DEF XinputInv, XinputTypeOK
<1>2. xi' = [xi EXCEPT !.rc = r, !.dc = d]
  BY DEF UnrefXinput
<1> HIDE DEF d, r
<1>3. xi' = [rc |-> xi'.rc, dc |-> xi'.dc, listeners |-> xi'.listeners] /\ xi'.rc = r
  BY ONLY <1>1, <1>2
<1>4. QED
  BY <1>3 DEF r

\* The extension is made.
LEMMA NewXinputInv == ASSUME XinputInv, NewXinput PROVE XinputInv'
<1>1. /\ hpc = "none" /\ hpc' = "idle" /\ devices' = devices /\ owned' = TRUE
      /\ infos' = infos /\ at' = at /\ flag' = flag /\ signalled' = signalled
      /\ xi' = [[rc |-> 1, dc |-> TRUE, listeners |-> 0] EXCEPT !.listeners = 1]
  BY DEF NewXinput, StartListen, handling
<1>2. CursorOK' /\ SignalsOK'
  BY <1>1, SameEvent
<1>3. xi' = [rc |-> xi'.rc, dc |-> xi'.dc, listeners |-> xi'.listeners] /\ xi'.rc = 1
  BY <1>1
<1>4. QED
  BY <1>1, <1>2, <1>3 DEF XinputInv, FreedByScript, XinputTypeOK, XinputRefsExact

\* The script drops and keeps objects, and the connection goes.
LEMMA XinputScriptInv ==
    ASSUME XinputInv, \/ DropXinput \/ MakeDevice \/ DropDevice \/ MakeProps \/ DropProps
                      \/ UseProps \/ DisconnectXinput
    PROVE  XinputInv'
<1>1. /\ hpc \in {"idle", "emit"} /\ hpc' \in {hpc, "freed"}
      /\ infos' = infos /\ at' = at /\ flag' = flag /\ signalled' = signalled
  BY DEF DropXinput, MakeDevice, DropDevice, MakeProps, DropProps, UseProps, DisconnectXinput,
         ScriptRuns, handling
<1>2. CursorOK' /\ SignalsOK'
  BY <1>1, SameEvent
<1>3. /\ XinputTypeOK /\ XinputRefsExact /\ xi.rc \in Nat /\ devices \in Nat /\ owned \in BOOLEAN
      /\ xi = [rc |-> xi.rc, dc |-> xi.dc, listeners |-> xi.listeners]
  BY DEF XinputInv, FreedByScript, XinputTypeOK
<1>4. CASE DropXinput
  <2>1. owned /\ ~owned' /\ owned' \in BOOLEAN /\ hpc' = hpc /\ devices' = devices
    BY <1>4 DEF DropXinput
  <2>2. xi' = [rc |-> xi'.rc, dc |-> xi'.dc, listeners |-> xi'.listeners] /\ xi'.rc = xi.rc - 1
    BY <1>4, UnrefParts DEF DropXinput
  <2>3. xi'.rc \in Nat
    BY <2>1, <2>2, XinputCounts
  <2>4. XinputRefsExact'
    BY <1>3, <2>1, <2>2 DEF XinputRefsExact
  <2>5. QED
    BY <1>1, <1>2, <1>3, <2>1, <2>2, <2>3, <2>4 DEF XinputInv, FreedByScript, XinputTypeOK
<1>5. CASE MakeDevice
  <2>1. owned' = owned /\ hpc' = hpc /\ devices' = devices + 1 /\ xi' = [xi EXCEPT !.rc = xi.rc + 1]
    BY <1>5 DEF MakeDevice
  <2>2. xi' = [rc |-> xi'.rc, dc |-> xi'.dc, listeners |-> xi'.listeners] /\ xi'.rc = xi.rc + 1
    BY <1>3, <2>1
  <2>3. XinputRefsExact'
    BY <1>3, <2>1, <2>2 DEF XinputRefsExact
  <2>4. QED
    BY <1>1, <1>2, <1>3, <2>1, <2>2, <2>3 DEF XinputInv, FreedByScript, XinputTypeOK
<1>6. CASE DropDevice
  <2>1. owned' = owned /\ hpc' = hpc /\ devices' = devices - 1 /\ devices > 0
    BY <1>6 DEF DropDevice
  <2>2. xi' = [rc |-> xi'.rc, dc |-> xi'.dc, listeners |-> xi'.listeners] /\ xi'.rc = xi.rc - 1
    BY <1>6, UnrefParts DEF DropDevice
  <2>3. xi'.rc \in Nat /\ devices' \in Nat
    BY <1>3, <2>1, <2>2, XinputCounts
  <2>4. XinputRefsExact'
    BY <1>3, <2>1, <2>2 DEF XinputRefsExact
  <2>5. QED
    BY <1>1, <1>2, <1>3, <2>1, <2>2, <2>3, <2>4 DEF XinputInv, FreedByScript, XinputTypeOK
<1>7. CASE MakeProps \/ DropProps
  BY <1>1, <1>2, <1>3, <1>7 DEF MakeProps, DropProps, XinputInv, FreedByScript, XinputTypeOK, XinputRefsExact
<1>8. CASE UseProps
  <2>1. owned' = owned /\ hpc' = "freed" /\ devices' = devices /\ xi' = xi /\ xi.rc = 0
    BY <1>8 DEF UseProps
  <2>2. hpc # "emit"
    BY <1>3, <2>1, XinputCounts
  <2>4. ~owned /\ devices = 0
    BY <1>3, <2>1, <2>2 DEF XinputRefsExact
  <2>5. QED
    BY <1>1, <1>2, <1>3, <2>1, <2>2, <2>4 DEF XinputInv, FreedByScript, XinputTypeOK, XinputRefsExact
<1>9. CASE DisconnectXinput
  <2>1. owned' = owned /\ hpc' = hpc /\ devices' = devices /\ xi' = [xi EXCEPT !.dc = FALSE]
    BY <1>9 DEF DisconnectXinput
  <2>2. xi' = [rc |-> xi'.rc, dc |-> xi'.dc, listeners |-> xi'.listeners] /\ xi'.rc = xi.rc
    BY <1>3, <2>1
  <2>3. QED
    BY <1>1, <1>2, <1>3, <2>1, <2>2 DEF XinputInv, FreedByScript, XinputTypeOK, XinputRefsExact
<1>10. QED
  BY <1>4, <1>5, <1>6, <1>7, <1>8, <1>9

\* A hierarchy event arrives.
LEMMA HierarchyEventInv ==
    ASSUME XinputInv, NEW ev \in HierarchyEvents, HierarchyEvent(ev)
    PROVE  XinputInv'
<1> DEFINE E == <<>>
<1>1. /\ hpc = "idle" /\ hpc' = "info" /\ infos' = ev /\ at' = 1 /\ flag' = 1 /\ signalled' = E
      /\ xi' = xi /\ owned' = owned /\ devices' = devices
  BY DEF HierarchyEvent
<1>2. PICK n \in 1..MaxInfos : ev \in [1..n -> Info]
  BY DEF HierarchyEvents
<1>3. ev \in Seq(Info) /\ Len(ev) \in Nat
  <2>1. n \in Nat
    BY XinputAssumption
  <2>2. QED
    BY <1>2, <2>1
<1>4. E \in Seq(SignalSet) /\ Len(E) = 0
  OBVIOUS
<1> HIDE DEF E
<1>5. CursorOK'
  BY <1>1 DEF CursorOK
<1>6. SignalsOK'
  <2>1. \A k \in 1..Len(E) : FALSE
    BY <1>4
  <2>2. \A i \in 1..Len(ev), f \in 1..3 : ~Earlier(i, f, 1, 1)
    BY <1>3 DEF Earlier
  <2>3. QED
    BY <1>1, <2>1, <2>2 DEF SignalsOK
<1>7. XinputTypeOK' /\ XinputRefsExact'
  BY <1>1, <1>3, <1>4 DEF XinputInv, FreedByScript, XinputTypeOK, XinputRefsExact
<1>8. QED
  BY <1>1, <1>5, <1>6, <1>7 DEF XinputInv, FreedByScript

\* The next device of the event is taken.
LEMMA NextInfoInv == ASSUME XinputInv, NextInfo PROVE XinputInv'
<1>1. /\ hpc = "info" /\ owned' = owned /\ devices' = devices
      /\ infos' = infos /\ at' = at /\ flag' = flag /\ signalled' = signalled
      /\ \/ at > Len(infos) /\ hpc' = "idle" /\ xi' = xi
         \/ ~(at > Len(infos)) /\ hpc' = "freed" /\ xi' = xi /\ xi.rc = 0
         \/ ~(at > Len(infos)) /\ hpc' = "emit" /\ xi' = [xi EXCEPT !.rc = xi.rc + 1]
  BY DEF NextInfo, handling
<1>2. /\ XinputTypeOK /\ XinputRefsExact /\ xi.rc \in Nat /\ at \in Nat \ {0} /\ Len(infos) \in Nat
      /\ xi = [rc |-> xi.rc, dc |-> xi.dc, listeners |-> xi.listeners]
  BY DEF XinputInv, FreedByScript, XinputTypeOK
<1>3. ~(at > Len(infos)) => at \in 1..Len(infos)
  BY <1>2
<1>4. CursorOK' /\ SignalsOK'
  BY <1>1, <1>3, SameEvent
<1>4a. xi.rc = 0 /\ hpc # "emit" => ~owned /\ devices = 0
  BY <1>2 DEF XinputTypeOK, XinputRefsExact
<1>5. CASE xi' = xi /\ hpc' # "emit"
  BY <1>1, <1>2, <1>4, <1>4a, <1>5 DEF XinputInv, FreedByScript, XinputTypeOK, XinputRefsExact
<1>6. CASE hpc' = "emit" /\ xi' = [xi EXCEPT !.rc = xi.rc + 1]
  <2>1. xi' = [rc |-> xi'.rc, dc |-> xi'.dc, listeners |-> xi'.listeners] /\ xi'.rc = xi.rc + 1
    BY <1>2, <1>6
  <2>2. devices \in Nat /\ owned \in BOOLEAN
    BY <1>2 DEF XinputTypeOK
  <2>3. XinputRefsExact'
    BY <1>1, <1>2, <1>6, <2>1, <2>2 DEF XinputRefsExact
  <2>4. QED
    BY <1>1, <1>2, <1>4, <1>6, <2>1, <2>3 DEF XinputInv, FreedByScript, XinputTypeOK
<1>7. QED
  BY <1>1, <1>5, <1>6

\* A flag of the device is told.
LEMMA EmitFlagInv ==
    ASSUME XinputInv, NEW f \in 1..3, EmitFlag(f)
    PROVE  XinputInv'
<1> DEFINE s == [info |-> at, device |-> infos[at].device, flag |-> f]
           m == Append(signalled, s)
<1>1. /\ hpc = "emit" /\ hpc' = "emit" /\ NextFlag(f) /\ signalled' = m /\ flag' = f + 1
      /\ infos' = infos /\ at' = at /\ xi' = xi /\ owned' = owned /\ devices' = devices
  BY DEF EmitFlag, Signal
<1>2. XinputTypeOK /\ CursorOK /\ SignalsOK /\ at \in 1..Len(infos)
  BY <1>1 DEF XinputInv, FreedByScript, CursorOK
<1>3. /\ at \in Nat /\ flag \in 1..4 /\ infos \in Seq(Info) /\ signalled \in Seq(SignalSet)
      /\ Len(infos) \in Nat /\ Len(signalled) \in Nat
  BY <1>2 DEF XinputTypeOK
<1>4. s \in SignalSet /\ s.info = at /\ s.flag = f /\ s.device = infos[at].device
  <2>1. infos[at] \in Info
    BY <1>2, <1>3
  <2>2. infos[at].device \in Device
    BY <2>1 DEF Info
  <2>3. QED
    BY <1>3, <2>2 DEF SignalSet
<1> HIDE DEF s
<1>5. /\ m \in Seq(SignalSet) /\ Len(m) = Len(signalled) + 1 /\ m[Len(signalled) + 1] = s
      /\ \A k \in 1..Len(signalled) : m[k] = signalled[k]
  BY <1>3, <1>4
<1> HIDE DEF m
<1>6. \A k \in 1..Len(signalled) : signalled[k].info \in Nat /\ signalled[k].flag \in 1..3
  <2>1. \A k \in 1..Len(signalled) : signalled[k] \in SignalSet
    BY <1>3
  <2>2. QED
    BY <2>1 DEF SignalSet
<1>7. \A i, g : Reported(i, g)' <=> Reported(i, g)
  BY <1>1 DEF Reported
<1>8. ASSUME NEW k \in 1..Len(signalled)
      PROVE  /\ Reported(signalled[k].info, signalled[k].flag)
             /\ signalled[k].device = infos[signalled[k].info].device
             /\ Earlier(signalled[k].info, signalled[k].flag, at, f)
             /\ Earlier(signalled[k].info, signalled[k].flag, at, f + 1)
  <2>1. /\ Reported(signalled[k].info, signalled[k].flag)
        /\ signalled[k].device = infos[signalled[k].info].device
        /\ Earlier(signalled[k].info, signalled[k].flag, at, flag)
    BY <1>2 DEF SignalsOK
  <2>2. flag <= f
    BY <1>1, <1>3 DEF NextFlag
  <2>3. signalled[k].info \in Nat /\ signalled[k].flag \in 1..3
    BY <1>6
  <2>4. QED
    BY <1>3, <2>1, <2>2, <2>3 DEF Earlier
<1>9. Reported(at, f) /\ Earlier(at, f, at, f + 1)
  BY <1>1, <1>2 DEF Reported, NextFlag, Earlier
<1>10. ASSUME NEW k \in 1..Len(m)
       PROVE  /\ Reported(m[k].info, m[k].flag) /\ m[k].device = infos[m[k].info].device
              /\ Earlier(m[k].info, m[k].flag, at, f + 1)
              /\ \A j \in 1..(k - 1) : Earlier(m[j].info, m[j].flag, m[k].info, m[k].flag)
  <2>1. CASE k \in 1..Len(signalled)
    <3>1. m[k] = signalled[k] /\ \A j \in 1..(k - 1) : j \in 1..Len(signalled) /\ m[j] = signalled[j]
      BY <1>3, <1>5, <2>1
    <3>2. \A j \in 1..(k - 1) : Earlier(signalled[j].info, signalled[j].flag,
                                        signalled[k].info, signalled[k].flag)
      BY <1>2, <2>1 DEF SignalsOK
    <3>3. QED
      BY <1>8, <2>1, <3>1, <3>2
  <2>2. CASE k = Len(signalled) + 1
    <3>1. m[k] = s /\ \A j \in 1..(k - 1) : j \in 1..Len(signalled) /\ m[j] = signalled[j]
      BY <1>3, <1>5, <2>2
    <3>2. QED
      BY <1>4, <1>8, <1>9, <3>1
  <2>3. QED
    BY <1>3, <1>5, <2>1, <2>2
<1>11. ASSUME NEW i \in 1..Len(infos), NEW g \in 1..3, Reported(i, g), Earlier(i, g, at, f + 1)
       PROVE  Signalled(i, g)'
  <2>1. CASE Earlier(i, g, at, flag)
    <3>1. PICK k \in 1..Len(signalled) : signalled[k].info = i /\ signalled[k].flag = g
      BY <1>2, <1>11, <2>1 DEF SignalsOK, Signalled
    <3>2. k \in 1..Len(m) /\ m[k] = signalled[k]
      BY <1>3, <1>5, <3>1
    <3>3. QED
      BY <1>1, <3>1, <3>2 DEF Signalled
  <2>2. CASE ~Earlier(i, g, at, flag)
    <3>1. i = at /\ g >= flag /\ g <= f
      BY <1>3, <1>11, <2>2 DEF Earlier
    <3>2. g = f
      <4>1. Flags[g] \in infos[at].flags
        BY <1>11, <3>1 DEF Reported
      <4>2. ~(g \in flag..(f - 1))
        BY <1>1, <4>1 DEF NextFlag
      <4>3. QED
        BY <1>3, <3>1, <4>2
    <3>3. Len(m) \in 1..Len(m) /\ m[Len(m)] = s
      BY <1>3, <1>5
    <3>4. QED
      BY <1>1, <1>4, <3>1, <3>2, <3>3 DEF Signalled
  <2>3. QED
    BY <2>1, <2>2
<1>12. SignalsOK'
  <2>1. \A k \in 1..Len(signalled') :
          /\ Reported(signalled[k].info, signalled[k].flag)'
          /\ (signalled[k].device = infos[signalled[k].info].device)'
          /\ Earlier(signalled[k].info, signalled[k].flag, at, flag)'
    BY <1>1, <1>10 DEF Reported
  <2>2. \A k \in 1..Len(signalled') : \A j \in 1..(k - 1) :
          Earlier(signalled[j].info, signalled[j].flag, signalled[k].info, signalled[k].flag)'
    BY <1>1, <1>10
  <2>3. \A i \in 1..Len(infos'), g \in 1..3 :
          Reported(i, g)' /\ Earlier(i, g, at, flag)' => Signalled(i, g)'
    BY <1>1, <1>7, <1>11
  <2>4. QED
    BY <2>1, <2>2, <2>3 DEF SignalsOK
<1>13. CursorOK' /\ XinputTypeOK' /\ XinputRefsExact'
  BY <1>1, <1>2, <1>3, <1>5 DEF CursorOK, XinputTypeOK, XinputInv, FreedByScript, XinputRefsExact
<1>14. QED
  BY <1>1, <1>12, <1>13 DEF XinputInv, FreedByScript

\* The object of a device is given up, and the next one follows.
LEMMA InfoEndsInv == ASSUME XinputInv, InfoEnds PROVE XinputInv'
<1>1. /\ hpc = "emit" /\ hpc' = "info" /\ UnrefXinput /\ at' = at + 1 /\ flag' = 1
      /\ (\A f \in flag..3 : Flags[f] \notin infos[at].flags)
      /\ infos' = infos /\ signalled' = signalled /\ owned' = owned /\ devices' = devices
  BY DEF InfoEnds
<1>2. /\ XinputTypeOK /\ SignalsOK /\ XinputRefsExact
      /\ at \in Nat /\ flag \in 1..4 /\ infos \in Seq(Info) /\ signalled \in Seq(SignalSet)
      /\ Len(infos) \in Nat /\ Len(signalled) \in Nat /\ devices \in Nat /\ owned \in BOOLEAN
      /\ xi.rc \in Nat
  BY DEF XinputInv, FreedByScript, XinputTypeOK
<1>3. xi' = [rc |-> xi'.rc, dc |-> xi'.dc, listeners |-> xi'.listeners] /\ xi'.rc = xi.rc - 1
  BY <1>1, UnrefParts
<1>4. xi'.rc \in Nat
  BY <1>1, <1>2, <1>3, XinputCounts
<1>5. XinputRefsExact'
  BY <1>1, <1>2, <1>3 DEF XinputRefsExact
<1>6. XinputTypeOK' /\ CursorOK'
  BY <1>1, <1>2, <1>3, <1>4 DEF XinputTypeOK, CursorOK
<1>7. (\A i, g : Reported(i, g)' <=> Reported(i, g)) /\ (\A i, g : Signalled(i, g)' <=> Signalled(i, g))
  BY <1>1 DEF Reported, Signalled
<1>8. ASSUME NEW k \in 1..Len(signalled)
      PROVE  Earlier(signalled[k].info, signalled[k].flag, at + 1, 1)
  <2>1. signalled[k] \in SignalSet
    BY <1>2
  <2>2. signalled[k].info \in Nat /\ signalled[k].flag \in 1..3
    BY <2>1 DEF SignalSet
  <2>3. Earlier(signalled[k].info, signalled[k].flag, at, flag)
    BY <1>2 DEF SignalsOK
  <2>4. QED
    BY <1>2, <2>2, <2>3 DEF Earlier
<1>9. ASSUME NEW i \in 1..Len(infos), NEW g \in 1..3, Reported(i, g), Earlier(i, g, at + 1, 1)
      PROVE  Signalled(i, g)
  <2>1. Earlier(i, g, at, flag)
    <3>1. i <= at
      BY <1>2, <1>9 DEF Earlier
    <3>2. CASE i = at
      <4>1. Flags[g] \in infos[at].flags
        BY <1>9, <3>2 DEF Reported
      <4>2. ~(g \in flag..3)
        BY <1>1, <4>1
      <4>3. QED
        BY <1>2, <3>2, <4>2 DEF Earlier
    <3>3. CASE i # at
      BY <1>2, <3>1, <3>3 DEF Earlier
    <3>4. QED
      BY <3>2, <3>3
  <2>2. QED
    BY <1>2, <1>9, <2>1 DEF SignalsOK
<1>10. SignalsOK'
  BY <1>1, <1>2, <1>7, <1>8, <1>9 DEF SignalsOK
<1>11. QED
  BY <1>1, <1>5, <1>6, <1>10 DEF XinputInv, FreedByScript

\* Every step keeps the invariant.
LEMMA XinputNextInv == ASSUME XinputInv, [XinputNext]_xinputVars PROVE XinputInv'
<1>1. CASE UNCHANGED xinputVars
  <2>1. /\ xi' = xi /\ owned' = owned /\ devices' = devices /\ hpc' = hpc
        /\ infos' = infos /\ at' = at /\ flag' = flag /\ signalled' = signalled
    BY <1>1 DEF xinputVars, handling
  <2>2. CursorOK' /\ SignalsOK'
    BY <2>1, SameEvent
  <2>3. QED
    BY <2>1, <2>2 DEF XinputInv, FreedByScript, XinputTypeOK, XinputRefsExact
<1>2. CASE XinputNext
  BY <1>2, NewXinputInv, XinputScriptInv, HierarchyEventInv, NextInfoInv, InfoEndsInv, EmitFlagInv
     DEF XinputNext
<1>3. QED
  BY <1>1, <1>2

\* For any devices and any number of hierarchy events and of devices in them:
\* each device is reported with each of its changes, once and in order, although
\* handlers disconnect and drop what they hold, and the count of the extension is
\* the references to it (handle_xinput_event, di_xorg_make_object_for_devid).  The
\* reports are cut short, and the freed extension used, only when the script has
\* given up the extension and every device object (xinput.c:597).
THEOREM DevicesAlwaysFaithful == XinputSpec => []DevicesFaithful
<1>1. XinputInit => XinputInv
  <2> SUFFICES ASSUME XinputInit PROVE XinputInv
    OBVIOUS
  <2> DEFINE E == <<>>
  <2>1. /\ hpc = "none" /\ infos = E /\ at = 1 /\ flag = 1 /\ signalled = E /\ devices = 0
        /\ ~owned /\ owned \in BOOLEAN /\ xi.rc = 0
        /\ xi = [rc |-> xi.rc, dc |-> xi.dc, listeners |-> xi.listeners]
    BY DEF XinputInit
  <2>2. E \in Seq(SignalSet) /\ E \in Seq(Info) /\ Len(E) = 0
    OBVIOUS
  <2> HIDE DEF E
  <2>3. \A k \in 1..Len(E) : FALSE
    BY <2>2
  <2>4. SignalsOK
    BY <2>1, <2>3 DEF SignalsOK
  <2>5. XinputTypeOK /\ CursorOK /\ XinputRefsExact
    BY <2>1, <2>2 DEF XinputTypeOK, CursorOK, XinputRefsExact
  <2>6. QED
    BY <2>1, <2>4, <2>5 DEF XinputInv, FreedByScript
<1>2. XinputInv /\ [XinputNext]_xinputVars => XinputInv'
  BY XinputNextInv
<1>3. XinputInv => DevicesFaithful
  <2> SUFFICES ASSUME XinputInv PROVE HierarchyFaithful
    BY DEF DevicesFaithful, XinputInv, FreedByScript
  <2>1. /\ at \in Nat /\ flag \in 1..4 /\ signalled \in Seq(SignalSet) /\ Len(infos) \in Nat
        /\ SignalsOK /\ CursorOK
    BY DEF XinputInv, FreedByScript, XinputTypeOK
  <2>2. ASSUME NEW k \in 1..Len(signalled), NEW i \in 1..Len(infos), NEW f \in 1..3,
               Reported(i, f), Earlier(i, f, signalled[k].info, signalled[k].flag)
        PROVE  Signalled(i, f)
    <3>1. signalled[k] \in SignalSet
      BY <2>1
    <3>2. signalled[k].info \in Nat /\ signalled[k].flag \in 1..3
      BY <3>1 DEF SignalSet
    <3>3. Earlier(signalled[k].info, signalled[k].flag, at, flag)
      BY <2>1 DEF SignalsOK
    <3>4. Earlier(i, f, at, flag)
      BY <2>1, <2>2, <3>2, <3>3 DEF Earlier
    <3>5. QED
      BY <2>1, <2>2, <3>4 DEF SignalsOK
  <2>3. ASSUME hpc = "idle", NEW i \in 1..Len(infos), NEW f \in 1..3, Reported(i, f)
        PROVE  Signalled(i, f)
    <3>1. Earlier(i, f, at, flag)
      BY <2>1, <2>3 DEF CursorOK, Earlier
    <3>2. QED
      BY <2>1, <2>3, <3>1 DEF SignalsOK
  <2>4. \A k \in 1..Len(signalled) :
          /\ Reported(signalled[k].info, signalled[k].flag)
          /\ signalled[k].device = infos[signalled[k].info].device
          /\ \A j \in 1..(k - 1) : Earlier(signalled[j].info, signalled[j].flag,
                                           signalled[k].info, signalled[k].flag)
    BY <2>1 DEF SignalsOK
  <2>5. QED
    BY <2>2, <2>3, <2>4 DEF HierarchyFaithful
<1> QED BY <1>1, <1>2, <1>3, PTL DEF XinputSpec

-----------------------------------------------------------------------------
(* XKey: the inductive invariant *)

BindingSet == [rc : Nat, user : BOOLEAN, lost : Nat, sym : KeySym \cup {"none"},
               mods : Mod \cup {"none"}, codes : SUBSET Code, replay : BOOLEAN]

Once(s) == \A i, j \in 1..Len(s) : s[i] = s[j] => i = j

KeyTypeOK ==
    /\ binds \in [Binding -> BindingSet]
    /\ list \in Seq(Binding) /\ Once(list)
    /\ order \in Seq(Binding) /\ Once(order)
    /\ due \subseteq 1..Len(order) /\ told \in Seq(Binding)
    /\ keycodes \in [KeySym -> SUBSET Code]
    /\ event = [code |-> event.code, mods |-> event.mods, replay |-> event.replay]
    /\ kpc \in {"idle", "handle", "emit", "crashed"} /\ link \in {"open", "closed"}

\* The bindings of an open connection are in its list, and know their keys.
LinkOK ==
    /\ link = "open" => Listed = {b \in Binding : binds[b].rc > 0}
    /\ link = "closed" => list = <<>> /\ kpc = "idle"
    /\ \A b \in Listed : binds[b].sym \in KeySym /\ binds[b].mods \in Mod

\* The references that are not those of the running loop.
OwnRefs(x) == (IF x.user THEN 1 ELSE 0) + x.lost

\* The loop has the a oldest bindings in front of it: it refers to each of them, and they
\* are still where they were when the event came.
HandOK(a) ==
    /\ a \in 0..Len(list) /\ a <= Len(order)
    /\ \A i \in 1..a : list[i] = order[i]
    /\ kb = IF a = 0 THEN NoKb ELSE list[a]
    /\ nkb = IF a <= 1 THEN NoKb ELSE list[a - 1]
    /\ kpc = "idle" => a = 0
    /\ kpc = "emit" => a > 0 /\ a \in due
    /\ \A i \in 1..a : i \in due <=> Hits(list[i], event.code, event.mods)
    /\ \A b \in Binding :
          binds[b].rc = OwnRefs(binds[b]) + (IF \E i \in 1..a : list[i] = b THEN 1 ELSE 0)

\* What was told is what was due among the newer bindings.
ToldOK(n) ==
    /\ \A i \in 1..Len(told) : \E p \in due : told[i] = order[p] /\ n < p
    /\ \A i, j \in 1..Len(told) : \A p, q \in due :
          i < j /\ told[i] = order[p] /\ told[j] = order[q] => q < p
    /\ \A p \in due : n < p => \E i \in 1..Len(told) : told[i] = order[p]

GrabsOK ==
    ~shared =>
        /\ grabs = UNION {GrabsOf(binds[b]) : b \in Listed}
        /\ \A x, y \in Listed : x # y => GrabsOf(binds[x]) \cap GrabsOf(binds[y]) = {}

LoopOK(a) == HandOK(a) /\ ToldOK(IF kpc = "emit" THEN a - 1 ELSE a)

KeyInv ==
    /\ KeyTypeOK
    /\ kpc # "crashed" => LinkOK /\ GrabsOK /\ \E a \in Nat : LoopOK(a)

\* What a crash does not change.
LEMMA CrashKeeps == ASSUME KeyTypeOK, Crash, keycodes' \in [KeySym -> SUBSET Code] PROVE KeyInv'
BY DEF KeyTypeOK, Crash, KeyInv, loop

\* An element of a list without repetitions is at its position.
LEMMA AtPosition ==
    ASSUME KeyTypeOK, NEW i \in 1..Len(list)
    PROVE  Position(list[i]) = i /\ list[i] # NoKb /\ list[i] \in Binding /\ list[i] \in Listed
<1>1. list[i] \in Binding
  BY DEF KeyTypeOK
<1>2. \A j \in 1..Len(list) : list[j] = list[i] <=> j = i
  BY DEF KeyTypeOK, Once
<1>3. QED
  BY <1>1, <1>2, KeyAssumption DEF Position, Listed

\* The next one in the list.
LEMMA AfterAt ==
    ASSUME KeyTypeOK, NEW i \in 0..Len(list), NEW b, b = IF i = 0 THEN NoKb ELSE list[i]
    PROVE  After(b) = IF i <= 1 THEN NoKb ELSE list[i - 1]
BY AtPosition DEF After

\* A step of the loop.
LEMMA AdvanceAt ==
    ASSUME KeyTypeOK, NEW a \in Nat, a > 0, HandOK(a), Advance
    PROVE  /\ kb' = IF a - 1 = 0 THEN NoKb ELSE list[a - 1]
           /\ nkb' = IF a - 1 <= 1 THEN NoKb ELSE list[(a - 1) - 1]
<1>1. a - 1 \in 0..Len(list) /\ nkb = IF a - 1 = 0 THEN NoKb ELSE list[a - 1]
  BY DEF HandOK, KeyTypeOK
<1>2. After(nkb) = IF a - 1 <= 1 THEN NoKb ELSE list[(a - 1) - 1]
  BY <1>1, AfterAt
<1>3. QED
  BY <1>1, <1>2 DEF Advance

\* A list without one of its elements.
LEMMA WithoutOne ==
    ASSUME KeyTypeOK, NEW b \in Listed
    PROVE  /\ Without(b) \in Seq(Binding) /\ Once(Without(b))
           /\ \A i \in 1..Len(list) : i < Position(b) => i <= Len(Without(b)) /\ Without(b)[i] = list[i]
           /\ {Without(b)[i] : i \in 1..Len(Without(b))} = Listed \ {b}
<1> DEFINE n == Len(list)
           w == Without(b)
<1>1. PICK p \in 1..n : list[p] = b
  BY DEF Listed
<1>2. Position(b) = p /\ n \in Nat /\ \A i \in 1..n : list[i] \in Binding
  BY <1>1, AtPosition DEF KeyTypeOK
<1>3. w = [i \in 1..(n - 1) |-> IF i < p THEN list[i] ELSE list[i + 1]]
  BY <1>2 DEF Without
<1> HIDE DEF n, w
<1>4. n - 1 \in Nat /\ \A i \in 1..(n - 1) : i \in 1..n /\ i + 1 \in 1..n
  BY <1>1, <1>2
<1>5. w \in [1..(n - 1) -> Binding]
  BY <1>2, <1>3, <1>4
<1>6. w \in Seq(Binding) /\ Len(w) = n - 1
  BY <1>4, <1>5, LenProperties
<1>7. \A i \in 1..(n - 1) : w[i] = IF i < p THEN list[i] ELSE list[i + 1]
  BY <1>3
<1>8. \A i, j \in 1..n : list[i] = list[j] => i = j
  BY DEF KeyTypeOK, Once, n
<1>9. Once(w)
  <2> SUFFICES ASSUME NEW i \in 1..(n - 1), NEW j \in 1..(n - 1), w[i] = w[j] PROVE i = j
    BY <1>6 DEF Once
  <2>1. QED
    BY <1>2, <1>4, <1>7, <1>8
<1>10. \A i \in 1..n : i < p => i <= n - 1 /\ w[i] = list[i]
  BY <1>2, <1>7
<1>11. \A i \in 1..(n - 1) : w[i] \in Listed \ {b}
  <2> TAKE i \in 1..(n - 1)
  <2>1. PICK k \in 1..n : w[i] = list[k] /\ k # p
    BY <1>2, <1>4, <1>7
  <2>2. QED
    BY <1>1, <1>8, <2>1 DEF Listed, n
<1>12. ASSUME NEW c \in Listed, c # b
       PROVE  \E i \in 1..(n - 1) : w[i] = c
  <2>1. PICK k \in 1..n : list[k] = c /\ k # p
    BY <1>1, <1>12 DEF Listed, n
  <2>2. CASE k < p
    BY <1>2, <1>10, <2>1, <2>2
  <2>3. CASE k > p
    <3>1. k - 1 \in 1..(n - 1) /\ ~(k - 1 < p) /\ (k - 1) + 1 = k
      BY <1>2, <2>1, <2>3
    <3>2. QED
      BY <1>7, <2>1, <3>1
  <2>4. QED
    BY <1>2, <2>1, <2>2, <2>3
<1>13. {w[i] : i \in 1..(n - 1)} = Listed \ {b}
  BY <1>11, <1>12
<1>14. QED
  BY <1>2, <1>6, <1>9, <1>10, <1>13 DEF n, w

\* The binding that is left when its last reference is gone.
LEMMA EmptyBinding == NoBinding \in BindingSet /\ OwnRefs(NoBinding) = 0 /\ NoBinding.rc = 0
BY DEF NoBinding, BindingSet, OwnRefs

\* What giving a reference up leaves, in front of the loop and in the list.
LEMMA UnrefEffect ==
    ASSUME KeyTypeOK, NEW b \in Binding, NEW x \in BindingSet, x.rc > 0,
           NEW a \in Nat, a <= Len(list), x.rc = 1 => \A i \in 1..a : list[i] # b,
           Unref(b, x)
    PROVE  /\ binds' \in [Binding -> BindingSet] /\ list' \in Seq(Binding) /\ Once(list')
           /\ a <= Len(list') /\ \A i \in 1..a : list'[i] = list[i]
           /\ \A c \in Binding : c # b => binds'[c] = binds[c]
           /\ binds'[b] = IF x.rc = 1 THEN NoBinding ELSE [x EXCEPT !.rc = x.rc - 1]
           /\ binds'[b].rc = x.rc - 1
           /\ Listed' = IF x.rc = 1 THEN Listed \ {b} ELSE Listed
           /\ grabs' = IF x.rc = 1 /\ b \in Listed THEN grabs \ Asked(x) ELSE grabs
<1>1. CASE x.rc = 1
  <2>1. binds' = [binds EXCEPT ![b] = NoBinding]
    BY <1>1 DEF Unref
  <2>2. binds' \in [Binding -> BindingSet] /\ binds'[b] = NoBinding
        /\ \A c \in Binding : c # b => binds'[c] = binds[c]
    BY <2>1, EmptyBinding DEF KeyTypeOK
  <2>3. CASE b \in Listed
    <3>1. list' = Without(b) /\ grabs' = grabs \ Asked(x)
      BY <1>1, <2>3 DEF Unref
    <3>2. PICK p \in 1..Len(list) : list[p] = b
      BY <2>3 DEF Listed
    <3>3. Position(b) = p /\ a < p
      BY <1>1, <3>2, AtPosition DEF KeyTypeOK
    <3>4. \A i \in 1..a : i \in 1..Len(list) /\ i < Position(b)
      BY <3>3 DEF KeyTypeOK
    <3>5. \A i \in 1..a : i <= Len(list') /\ list'[i] = list[i]
      BY <2>3, <3>1, <3>4, WithoutOne
    <3>6. list' \in Seq(Binding) /\ Once(list') /\ Listed' = Listed \ {b}
      BY <2>3, <3>1, WithoutOne DEF Listed
    <3>7. a <= Len(list')
      <4>1. CASE a = 0
        BY <3>6, <4>1
      <4>2. CASE a > 0
        BY <3>5, <4>2
      <4>3. QED
        BY <4>1, <4>2
    <3>8. QED
      BY <1>1, <2>2, <2>3, <3>1, <3>5, <3>6, <3>7, EmptyBinding
  <2>4. CASE b \notin Listed
    <3>1. list' = list /\ grabs' = grabs
      BY <1>1, <2>4 DEF Unref
    <3>2. Listed' = Listed /\ Listed \ {b} = Listed
      BY <2>4, <3>1 DEF Listed
    <3>3. QED
      BY <1>1, <2>2, <2>4, <3>1, <3>2, EmptyBinding DEF KeyTypeOK
  <2>5. QED
    BY <2>3, <2>4
<1>2. CASE x.rc # 1
  <2>1. binds' = [binds EXCEPT ![b] = [x EXCEPT !.rc = @ - 1]] /\ list' = list /\ grabs' = grabs
    BY <1>2 DEF Unref
  <2>2. x.rc - 1 \in Nat
    BY DEF BindingSet
  <2>3. [x EXCEPT !.rc = x.rc - 1] \in BindingSet
    BY <2>2 DEF BindingSet
  <2>4. [x EXCEPT !.rc = x.rc - 1].rc = x.rc - 1
    BY DEF BindingSet
  <2>5. binds' \in [Binding -> BindingSet] /\ binds'[b] = [x EXCEPT !.rc = x.rc - 1]
        /\ \A c \in Binding : c # b => binds'[c] = binds[c]
    BY <2>1, <2>3 DEF KeyTypeOK
  <2>6. Listed' = Listed
    BY <2>1 DEF Listed
  <2>7. QED
    BY <1>2, <2>1, <2>4, <2>5, <2>6 DEF KeyTypeOK
<1>3. QED
  BY <1>1, <1>2

\* The list and the grabs after a reference was given up.
LEMMA UnrefLinks ==
    ASSUME KeyTypeOK, LinkOK, GrabsOK, NEW b \in Binding, NEW x \in BindingSet, x.rc > 0,
           x.rc = binds[b].rc, x.sym = binds[b].sym, x.mods = binds[b].mods,
           x.codes = binds[b].codes,
           Unref(b, x), link' = link, shared' = shared, link = "closed" => kpc' = "idle"
    PROVE  LinkOK' /\ GrabsOK'
<1>1. /\ list' \in Seq(Binding)
      /\ \A c \in Binding : c # b => binds'[c] = binds[c]
      /\ binds'[b] = IF x.rc = 1 THEN NoBinding ELSE [x EXCEPT !.rc = x.rc - 1]
      /\ binds'[b].rc = x.rc - 1
      /\ Listed' = IF x.rc = 1 THEN Listed \ {b} ELSE Listed
      /\ grabs' = IF x.rc = 1 /\ b \in Listed THEN grabs \ Asked(x) ELSE grabs
  <2>1. 0 \in Nat /\ 0 <= Len(list) /\ \A i \in 1..0 : list[i] # b
    BY DEF KeyTypeOK
  <2>2. QED
    BY <2>1, UnrefEffect
<1>2. \A c \in Binding : binds[c].rc \in Nat /\ binds[c] \in BindingSet
  BY DEF KeyTypeOK, BindingSet
<1>3. Listed \subseteq Binding /\ Listed' \subseteq Listed
  <2>1. Listed \subseteq Binding
    BY DEF KeyTypeOK, Listed
  <2>2. Listed' \subseteq Listed
    BY <1>1
  <2>3. QED
    BY <2>1, <2>2
<1>4. x.rc # 1 => binds'[b].sym = binds[b].sym /\ binds'[b].mods = binds[b].mods
                  /\ binds'[b].codes = binds[b].codes
  BY <1>1 DEF BindingSet
<1>5. \A c \in Listed' : binds'[c].sym = binds[c].sym /\ binds'[c].mods = binds[c].mods
                         /\ binds'[c].codes = binds[c].codes
  BY <1>1, <1>3, <1>4
<1>6. \A c \in Listed' : GrabsOf(binds'[c]) = GrabsOf(binds[c])
  BY <1>5 DEF GrabsOf, Asked
<1>7. link = "open" => Listed' = {c \in Binding : binds'[c].rc > 0}
  <2> SUFFICES ASSUME link = "open" PROVE Listed' = {c \in Binding : binds'[c].rc > 0}
    OBVIOUS
  <2>1. Listed = {c \in Binding : binds[c].rc > 0}
    BY DEF LinkOK
  <2>2. \A c \in Binding : c \in Listed' <=> binds'[c].rc > 0
    <3> TAKE c \in Binding
    <3>1. CASE c = b
      <4>1. b \in Listed /\ x.rc \in Nat
        BY <1>2, <2>1
      <4>2. b \in Listed' <=> x.rc # 1
        BY <1>1, <4>1
      <4>3. binds'[b].rc = x.rc - 1
        BY <1>1
      <4>4. binds'[b].rc > 0 <=> x.rc # 1
        BY <4>1, <4>3
      <4>5. QED
        BY <3>1, <4>2, <4>4
    <3>2. CASE c # b
      <4>1. c \in Listed' <=> c \in Listed
        BY <1>1, <3>2
      <4>2. QED
        BY <1>1, <2>1, <3>2, <4>1
    <3>3. QED
      BY <3>1, <3>2
  <2>3. QED
    BY <1>3, <2>2
<1>8. link = "closed" => list' = <<>>
  <2> SUFFICES ASSUME link = "closed" PROVE list' = <<>>
    OBVIOUS
  <2>1. list = <<>>
    BY DEF LinkOK
  <2>2. Listed' = {}
    BY <1>3, <2>1 DEF Listed
  <2>3. Len(list') = 0
    <3>1. Len(list') > 0 => 1 \in 1..Len(list')
      BY <1>1
    <3>2. \A i \in 1..Len(list') : list'[i] \in Listed'
      BY DEF Listed
    <3>3. QED
      BY <1>1, <2>2, <3>1, <3>2
  <2>4. QED
    BY <1>1, <2>3
<1>9. LinkOK'
  BY <1>3, <1>5, <1>7, <1>8 DEF LinkOK
<1>10. GrabsOK'
  <2> SUFFICES ASSUME ~shared
               PROVE  /\ grabs' = UNION {GrabsOf(binds'[c]) : c \in Listed'}
                      /\ \A c, d \in Listed' : c # d => GrabsOf(binds'[c]) \cap GrabsOf(binds'[d]) = {}
    BY DEF GrabsOK
  <2>1. grabs = UNION {GrabsOf(binds[c]) : c \in Listed}
        /\ \A c, d \in Listed : c # d => GrabsOf(binds[c]) \cap GrabsOf(binds[d]) = {}
    BY DEF GrabsOK
  <2>2. \A c, d \in Listed' : c # d => GrabsOf(binds'[c]) \cap GrabsOf(binds'[d]) = {}
    BY <1>3, <1>6, <2>1
  <2>3. UNION {GrabsOf(binds'[c]) : c \in Listed'} = UNION {GrabsOf(binds[c]) : c \in Listed'}
    BY <1>6
  <2>4. CASE x.rc = 1 /\ b \in Listed
    <3>1. Asked(x) = Asked(binds[b]) /\ grabs' = grabs \ Asked(x) /\ Listed' = Listed \ {b}
      BY <1>1, <2>4 DEF Asked
    <3>2. GrabsOf(binds[b]) \subseteq Asked(x) /\ \A g \in Asked(x) : g \in GrabsOf(binds[b]) \/ g \in Taken
      BY <3>1 DEF GrabsOf
    <3>3. \A c \in Listed : GrabsOf(binds[c]) \cap Taken = {}
      BY DEF GrabsOf
    <3>4. ASSUME NEW g PROVE g \in grabs' <=> \E c \in Listed' : g \in GrabsOf(binds[c])
      BY <2>1, <2>4, <3>1, <3>2, <3>3
    <3>5. QED
      BY <2>2, <2>3, <3>4
  <2>5. CASE ~(x.rc = 1 /\ b \in Listed)
    <3>1. Listed' = Listed /\ grabs' = grabs
      BY <1>1, <2>5
    <3>2. QED
      BY <2>1, <2>2, <2>3, <3>1
  <2>6. QED
    BY <2>4, <2>5
<1>11. QED
  BY <1>9, <1>10

\* The loop gives up its reference to the binding in hand and goes on.
LEMMA LoopGoesOn ==
    ASSUME KeyTypeOK, NEW a \in Nat, a > 0, HandOK(a), kpc' = "handle",
           Unref(kb, binds[kb]), Advance, UNCHANGED <<event, order, due>>
    PROVE  /\ HandOK(a - 1)' /\ list' \in Seq(Binding) /\ Once(list')
           /\ binds' \in [Binding -> BindingSet]
<1>1. a \in 1..Len(list) /\ a - 1 \in Nat /\ a - 1 <= Len(list) /\ kb = list[a]
  BY DEF HandOK, KeyTypeOK
<1>2. kb \in Binding /\ binds[kb] \in BindingSet
  BY <1>1, AtPosition DEF KeyTypeOK
<1>3. OwnRefs(binds[kb]) \in Nat /\ \A c \in Binding : OwnRefs(binds[c]) \in Nat
  <2>1. \A c \in Binding : binds[c].lost \in Nat
    BY DEF KeyTypeOK, BindingSet
  <2>2. QED
    BY <1>2, <2>1 DEF OwnRefs
<1>4. binds[kb].rc = OwnRefs(binds[kb]) + 1
  BY <1>1, <1>2 DEF HandOK
<1>5. \A i, j \in 1..Len(list) : list[i] = list[j] => i = j
  BY DEF KeyTypeOK, Once
<1>6. \A i \in 1..(a - 1) : list[i] # kb
  BY <1>1, <1>5
<1>7. /\ binds' \in [Binding -> BindingSet] /\ list' \in Seq(Binding) /\ Once(list')
      /\ a - 1 <= Len(list') /\ \A i \in 1..(a - 1) : list'[i] = list[i]
      /\ \A c \in Binding : c # kb => binds'[c] = binds[c]
      /\ binds'[kb] = IF binds[kb].rc = 1 THEN NoBinding
                      ELSE [binds[kb] EXCEPT !.rc = binds[kb].rc - 1]
      /\ binds'[kb].rc = binds[kb].rc - 1
  <2>1. PICK b \in Binding, x \in BindingSet : b = kb /\ x = binds[kb]
    BY <1>2
  <2>2. Unref(b, x)
    BY <2>1 DEF Unref
  <2>3. x.rc > 0 /\ (x.rc = 1 => \A i \in 1..(a - 1) : list[i] # b)
    BY <1>3, <1>4, <1>6, <2>1
  <2>4. QED
    BY <1>1, <2>1, <2>2, <2>3, UnrefEffect
<1>8. /\ kb' = IF a - 1 = 0 THEN NoKb ELSE list[a - 1]
      /\ nkb' = IF a - 1 <= 1 THEN NoKb ELSE list[(a - 1) - 1]
  BY AdvanceAt
<1>9. /\ kb' = IF a - 1 = 0 THEN NoKb ELSE list'[a - 1]
      /\ nkb' = IF a - 1 <= 1 THEN NoKb ELSE list'[(a - 1) - 1]
  BY <1>1, <1>7, <1>8
<1>10. \A i \in 1..(a - 1) : i \in due <=> Hits(list[i], event.code, event.mods)'
  <2> TAKE i \in 1..(a - 1)
  <2>1. i \in 1..Len(list) /\ i \in 1..a
    BY <1>1
  <2>2. binds'[list[i]] = binds[list[i]] /\ list'[i] = list[i]
    BY <1>6, <1>7, <2>1, AtPosition
  <2>3. Hits(list[i], event.code, event.mods)' <=> Hits(list[i], event.code, event.mods)
    BY <2>2 DEF Hits
  <2>4. QED
    BY <2>1, <2>3 DEF HandOK
<1>11. ASSUME NEW c \in Binding
       PROVE  binds'[c].rc = OwnRefs(binds'[c]) + (IF \E i \in 1..(a - 1) : list'[i] = c THEN 1 ELSE 0)
  <2>1. CASE c = kb
    <3>1. ~\E i \in 1..(a - 1) : list'[i] = c
      BY <1>6, <1>7, <2>1
    <3>2. OwnRefs(binds'[kb]) = OwnRefs(binds[kb])
      <4>1. CASE binds[kb].rc = 1
        BY <1>3, <1>4, <1>7, <4>1, EmptyBinding
      <4>2. CASE binds[kb].rc # 1
        <5>1. binds'[kb].user = binds[kb].user /\ binds'[kb].lost = binds[kb].lost
          BY <1>2, <1>7, <4>2 DEF BindingSet
        <5>2. QED
          BY <5>1 DEF OwnRefs
      <4>3. QED
        BY <4>1, <4>2
    <3>3. binds'[kb].rc = OwnRefs(binds'[kb])
      BY <1>3, <1>4, <1>7, <3>2
    <3>4. QED
      BY <1>3, <2>1, <3>1, <3>2, <3>3
  <2>2. CASE c # kb
    <3>1. (\E i \in 1..(a - 1) : list'[i] = c) <=> (\E i \in 1..a : list[i] = c)
      BY <1>1, <1>7, <2>2
    <3>2. binds'[c] = binds[c]
      BY <1>7, <2>2
    <3>3. binds[c].rc = OwnRefs(binds[c]) + (IF \E i \in 1..a : list[i] = c THEN 1 ELSE 0)
      BY DEF HandOK
    <3>4. QED
      BY <3>1, <3>2, <3>3
  <2>3. QED
    BY <2>1, <2>2
<1>12. a - 1 <= Len(order)' /\ \A i \in 1..(a - 1) : list'[i] = order[i]
  <2>1. a <= Len(order) /\ Len(order) \in Nat /\ \A i \in 1..a : list[i] = order[i]
    BY DEF HandOK, KeyTypeOK
  <2>2. \A i \in 1..(a - 1) : i \in 1..a
    OBVIOUS
  <2>3. QED
    BY <1>7, <2>1, <2>2
<1>13. a - 1 \in 0..Len(list')
  BY <1>1, <1>7
<1>14. QED
  BY <1>7, <1>9, <1>10, <1>11, <1>12, <1>13 DEF HandOK

\* A binding that the event does not match is not due.
LEMMA NothingToTell ==
    ASSUME KeyTypeOK, NEW a \in Nat, a > 0, ToldOK(a), a \notin due, UNCHANGED <<told, due, order>>
    PROVE  ToldOK(a - 1)'
<1>1. \A p \in due : p \in Nat /\ (a - 1 < p <=> a < p)
  BY DEF KeyTypeOK
<1>2. QED
  BY <1>1 DEF ToldOK

\* Where the loop stands.
LEMMA InHand ==
    ASSUME KeyInv, kpc \in {"handle", "emit"}, kb # NoKb
    PROVE  \E a \in Nat : /\ a > 0 /\ a \in 1..Len(list) /\ a - 1 \in Nat
                          /\ LoopOK(a) /\ kb = list[a] /\ kb \in Binding
                          /\ a \in due <=> Hits(kb, event.code, event.mods)
<1>1. PICK a \in Nat : LoopOK(a)
  BY DEF KeyInv
<1>2. a > 0 /\ a \in 1..Len(list) /\ a - 1 \in Nat /\ kb = list[a]
  BY <1>1 DEF LoopOK, HandOK, KeyInv, KeyTypeOK
<1>3. KeyTypeOK
  BY DEF KeyInv
<1>4. kb \in Binding
  BY <1>2, <1>3, AtPosition
<1>5. a \in due <=> Hits(list[a], event.code, event.mods)
  BY <1>1, <1>2 DEF LoopOK, HandOK
<1>6. QED
  BY <1>1, <1>2, <1>4, <1>5

\* A binding with other modifiers keeps the reference the event had.
LEMMA HandleOtherStep == ASSUME KeyInv, HandleOther PROVE KeyInv'
<1>0. KeyTypeOK /\ LinkOK /\ GrabsOK /\ kpc = "handle" /\ kpc' = "handle" /\ link = "open"
  BY DEF KeyInv, HandleOther, LinkOK, KeyTypeOK
<1>1. PICK a \in Nat : /\ a > 0 /\ a \in 1..Len(list) /\ a - 1 \in Nat
                       /\ LoopOK(a) /\ kb = list[a] /\ kb \in Binding
                       /\ a \in due <=> Hits(kb, event.code, event.mods)
  BY InHand DEF HandleOther
<1>2. HandOK(a) /\ ToldOK(a) /\ a \notin due
  BY <1>0, <1>1 DEF LoopOK, HandleOther, Hits
<1>3. /\ binds' = [binds EXCEPT ![kb].lost = @ + 1] /\ Advance
      /\ UNCHANGED <<list, link, keycodes, grabs, event, order, due, told, kpc, shared>>
  BY DEF HandleOther
<1>4. PICK x \in BindingSet : x = binds[kb]
  BY <1>0, <1>1 DEF KeyTypeOK
<1>5. [x EXCEPT !.lost = x.lost + 1] \in BindingSet
  BY DEF BindingSet
<1>6. /\ [x EXCEPT !.lost = x.lost + 1].rc = x.rc /\ [x EXCEPT !.lost = x.lost + 1].user = x.user
      /\ [x EXCEPT !.lost = x.lost + 1].lost = x.lost + 1 /\ [x EXCEPT !.lost = x.lost + 1].sym = x.sym
      /\ [x EXCEPT !.lost = x.lost + 1].mods = x.mods /\ [x EXCEPT !.lost = x.lost + 1].codes = x.codes
      /\ x.lost \in Nat /\ OwnRefs(x) \in Nat
  BY DEF BindingSet, OwnRefs
<1>7. /\ binds' \in [Binding -> BindingSet] /\ binds'[kb] = [x EXCEPT !.lost = x.lost + 1]
      /\ \A c \in Binding : c # kb => binds'[c] = binds[c]
  BY <1>0, <1>1, <1>3, <1>4, <1>5 DEF KeyTypeOK
<1>8. \A c \in Binding : /\ binds'[c].rc = binds[c].rc /\ binds'[c].sym = binds[c].sym
                         /\ binds'[c].mods = binds[c].mods /\ binds'[c].codes = binds[c].codes
  BY <1>4, <1>6, <1>7
<1>9. KeyTypeOK'
  BY <1>0, <1>3, <1>7 DEF KeyTypeOK
<1>10. Listed' = Listed /\ Listed \subseteq Binding
  BY <1>0, <1>3 DEF Listed, KeyTypeOK
<1>11. LinkOK'
  BY <1>0, <1>3, <1>8, <1>10 DEF LinkOK
<1>12. GrabsOK'
  <2>1. \A c \in Listed : GrabsOf(binds'[c]) = GrabsOf(binds[c])
    BY <1>8, <1>10 DEF GrabsOf, Asked
  <2>2. UNION {GrabsOf(binds'[c]) : c \in Listed} = UNION {GrabsOf(binds[c]) : c \in Listed}
    BY <2>1
  <2>3. QED
    BY <1>0, <1>3, <1>10, <2>1, <2>2 DEF GrabsOK
<1>13. HandOK(a - 1)'
  <2>1. /\ kb' = IF a - 1 = 0 THEN NoKb ELSE list'[a - 1]
        /\ nkb' = IF a - 1 <= 1 THEN NoKb ELSE list'[(a - 1) - 1]
    BY <1>0, <1>1, <1>2, <1>3, AdvanceAt
  <2>2. \A i \in 1..(a - 1) : i \in 1..a /\ i \in 1..Len(list) /\ list[i] \in Binding
    BY <1>0, <1>1 DEF KeyTypeOK
  <2>3. \A i \in 1..(a - 1) : i \in due <=> Hits(list[i], event.code, event.mods)'
    BY <1>2, <1>3, <1>8, <2>2 DEF HandOK, Hits
  <2>4. \A i \in 1..(a - 1) : list[i] # kb
    <3>1. \A i, j \in 1..Len(list) : list[i] = list[j] => i = j
      BY <1>0 DEF KeyTypeOK, Once
    <3>2. \A i \in 1..(a - 1) : i # a
      OBVIOUS
    <3>3. QED
      BY <1>1, <2>2, <3>1, <3>2
  <2>5. ASSUME NEW c \in Binding
        PROVE  binds'[c].rc = OwnRefs(binds'[c]) + (IF \E i \in 1..(a - 1) : list'[i] = c THEN 1 ELSE 0)
    <3>1. binds[c].rc = OwnRefs(binds[c]) + (IF \E i \in 1..a : list[i] = c THEN 1 ELSE 0)
      BY <1>2 DEF HandOK
    <3>2. CASE c = kb
      <4>1. ~\E i \in 1..(a - 1) : list'[i] = c
        BY <1>3, <2>4, <3>2
      <4>2. x.rc = OwnRefs(x) + 1
        BY <1>1, <1>4, <3>1, <3>2
      <4>3. OwnRefs(binds'[kb]) = OwnRefs(x) + 1
        BY <1>6, <1>7 DEF OwnRefs
      <4>4. QED
        BY <1>4, <1>6, <1>8, <3>2, <4>1, <4>2, <4>3
    <3>3. CASE c # kb
      <4>1. (\E i \in 1..(a - 1) : list'[i] = c) <=> (\E i \in 1..a : list[i] = c)
        BY <1>1, <1>3, <3>3
      <4>2. QED
        BY <1>7, <3>1, <3>3, <4>1
    <3>4. QED
      BY <3>2, <3>3
  <2>6. a - 1 \in 0..Len(list') /\ a - 1 <= Len(order') /\ \A i \in 1..(a - 1) : list'[i] = order'[i]
    BY <1>0, <1>1, <1>2, <1>3, <2>2 DEF HandOK, KeyTypeOK
  <2>7. QED
    BY <1>0, <1>3, <2>1, <2>3, <2>5, <2>6 DEF HandOK
<1>14. ToldOK(a - 1)'
  BY <1>1, <1>0, <1>2, <1>3, NothingToTell
<1>15. LoopOK(a - 1)'
  BY <1>0, <1>13, <1>14 DEF LoopOK
<1>16. QED
  BY <1>1, <1>9, <1>11, <1>12, <1>15 DEF KeyInv

\* What the loop has still to do after it has let go of the binding in hand.
LEMMA LetGo ==
    ASSUME KeyInv, kpc \in {"handle", "emit"}, kb # NoKb, kpc' = "handle",
           Unref(kb, binds[kb]), Advance,
           UNCHANGED <<link, keycodes, event, order, due, told, shared>>,
           NEW a \in Nat, a > 0, HandOK(a), ToldOK(a - 1)'
    PROVE  KeyInv'
<1>0. KeyTypeOK /\ LinkOK /\ GrabsOK /\ link = "open"
  BY DEF KeyInv, LinkOK, KeyTypeOK
<1>1. /\ HandOK(a - 1)' /\ list' \in Seq(Binding) /\ Once(list')
      /\ binds' \in [Binding -> BindingSet] /\ a - 1 \in Nat
  BY <1>0, LoopGoesOn
<1>2. KeyTypeOK'
  BY <1>0, <1>1 DEF KeyTypeOK
<1>3. a \in 1..Len(list) /\ kb = list[a]
  BY <1>0 DEF HandOK, KeyTypeOK
<1>4. PICK b \in Binding, x \in BindingSet : b = kb /\ x = binds[kb]
  BY <1>0, <1>3, AtPosition DEF KeyTypeOK
<1>5. x.rc > 0
  <2>1. x.rc = OwnRefs(x) + 1
    BY <1>3, <1>4 DEF HandOK
  <2>2. OwnRefs(x) \in Nat
    BY DEF OwnRefs, BindingSet
  <2>3. QED
    BY <2>1, <2>2
<1>6. Unref(b, x)
  BY <1>4 DEF Unref
<1>7. LinkOK' /\ GrabsOK'
  BY <1>0, <1>4, <1>5, <1>6, UnrefLinks
<1>8. LoopOK(a - 1)'
  BY <1>1 DEF LoopOK
<1>9. QED
  BY <1>1, <1>2, <1>7, <1>8 DEF KeyInv

\* A binding of another key is let go.
LEMMA HandleMismatchStep == ASSUME KeyInv, HandleMismatch PROVE KeyInv'
<1>1. PICK a \in Nat : /\ a > 0 /\ a \in 1..Len(list) /\ a - 1 \in Nat
                       /\ LoopOK(a) /\ kb = list[a] /\ kb \in Binding
                       /\ a \in due <=> Hits(kb, event.code, event.mods)
  BY InHand DEF HandleMismatch
<1>2. KeyTypeOK /\ HandOK(a) /\ ToldOK(a) /\ a \notin due
  BY <1>1 DEF LoopOK, HandleMismatch, Hits, KeyInv
<1>3. /\ kpc = "handle" /\ kpc' = "handle" /\ kb # NoKb /\ Unref(kb, binds[kb]) /\ Advance
      /\ UNCHANGED <<link, keycodes, event, order, due, told, shared>>
  BY DEF HandleMismatch
<1>4. ToldOK(a - 1)'
  BY <1>1, <1>2, <1>3, NothingToTell
<1>5. QED
  BY <1>1, <1>2, <1>3, <1>4, LetGo

\* A binding that was told is let go.
LEMMA EmitReturnsStep == ASSUME KeyInv, EmitReturns PROVE KeyInv'
<1>1. /\ kpc = "emit" /\ kpc' = "handle" /\ Unref(kb, binds[kb]) /\ Advance
      /\ UNCHANGED <<link, keycodes, event, order, due, told, shared>>
  BY DEF EmitReturns
<1>2. PICK a \in Nat : LoopOK(a)
  BY <1>1 DEF KeyInv
<1>3. a > 0 /\ HandOK(a) /\ ToldOK(a - 1) /\ kb = list[a] /\ KeyTypeOK /\ a \in 1..Len(list)
  BY <1>1, <1>2 DEF LoopOK, HandOK, KeyInv, KeyTypeOK
<1>4. kb # NoKb
  BY <1>3, AtPosition
<1>5. ToldOK(a - 1)'
  BY <1>1, <1>3 DEF ToldOK
<1>6. QED
  BY <1>1, <1>3, <1>4, <1>5, LetGo

\* The binding in hand is told.
LEMMA HandleMatchStep == ASSUME KeyInv, HandleMatch PROVE KeyInv'
<1>0. /\ kpc = "handle" /\ kpc' = "emit" /\ kb # NoKb /\ Hits(kb, event.code, event.mods)
      /\ event' = [event EXCEPT !.replay = binds[kb].replay] /\ told' = Append(told, kb)
      /\ UNCHANGED <<binds, list, link, keycodes, grabs, kb, nkb, order, due, shared>>
  BY DEF HandleMatch, EmitTo
<1>1. PICK a \in Nat : /\ a > 0 /\ a \in 1..Len(list) /\ a - 1 \in Nat
                       /\ LoopOK(a) /\ kb = list[a] /\ kb \in Binding
                       /\ a \in due <=> Hits(kb, event.code, event.mods)
  BY <1>0, InHand
<1>2. KeyTypeOK /\ LinkOK /\ GrabsOK /\ HandOK(a) /\ ToldOK(a) /\ a \in due /\ link = "open"
  BY <1>0, <1>1 DEF LoopOK, KeyInv, LinkOK, KeyTypeOK
<1>3. event'.code = event.code /\ event'.mods = event.mods
      /\ event' = [code |-> event'.code, mods |-> event'.mods, replay |-> event'.replay]
  BY <1>0, <1>2 DEF KeyTypeOK
<1>4. told' \in Seq(Binding) /\ Len(told') = Len(told) + 1 /\ Len(told) \in Nat
      /\ \A i \in 1..Len(told') : told'[i] = IF i <= Len(told) THEN told[i] ELSE kb
  BY <1>0, <1>1, <1>2 DEF KeyTypeOK
<1>5. KeyTypeOK'
  BY <1>0, <1>2, <1>3, <1>4 DEF KeyTypeOK
<1>6. LinkOK'
  BY <1>0, <1>2 DEF LinkOK, Listed
<1>7. GrabsOK'
  <2>1. Listed' = Listed
    BY <1>0 DEF Listed
  <2>2. QED
    BY <1>0, <1>2, <2>1 DEF GrabsOK
<1>8. HandOK(a)'
  <2>1. \A i \in 1..a : Hits(list[i], event.code, event.mods)' <=> Hits(list[i], event.code, event.mods)
    BY <1>0, <1>3 DEF Hits
  <2>2. \A i \in 1..a : i \in due' <=> Hits(list[i], event.code, event.mods)'
    BY <1>0, <1>2, <2>1 DEF HandOK
  <2>3. QED
    BY <1>0, <1>1, <1>2, <2>2 DEF HandOK
<1>9. ToldOK(a - 1)'
  <2>1. kb = order[a] /\ \A p \in due : p \in 1..Len(order) /\ p \in Nat
    BY <1>1, <1>2 DEF HandOK, KeyTypeOK
  <2>2. \A p, q \in due : order[p] = order[q] => p = q
    BY <1>2, <2>1 DEF KeyTypeOK, Once
  <2>3. ASSUME NEW i \in 1..Len(told') PROVE \E p \in due : told'[i] = order[p] /\ a - 1 < p
    <3>1. CASE i <= Len(told)
      <4>1. PICK p \in due : told[i] = order[p] /\ a < p
        BY <1>2, <1>4, <3>1 DEF ToldOK
      <4>2. QED
        BY <1>4, <2>1, <3>1, <4>1
    <3>2. CASE i > Len(told)
      BY <1>1, <1>2, <1>4, <2>1, <3>2
    <3>3. QED
      BY <1>4, <3>1, <3>2
  <2>4. ASSUME NEW i \in 1..Len(told'), NEW j \in 1..Len(told'), NEW p \in due, NEW q \in due,
               i < j, told'[i] = order[p], told'[j] = order[q]
        PROVE  q < p
    <3>1. i \in 1..Len(told) /\ told[i] = order[p]
      BY <1>4, <2>4
    <3>2. CASE j <= Len(told)
      <4>1. j \in 1..Len(told) /\ told[j] = order[q]
        BY <1>4, <2>4, <3>2
      <4>2. QED
        BY <1>2, <2>4, <3>1, <4>1 DEF ToldOK
    <3>3. CASE j > Len(told)
      <4>0. told'[j] = kb
        BY <1>4, <3>3
      <4>1. q = a
        BY <1>2, <2>1, <2>2, <2>4, <4>0
      <4>2. PICK r \in due : told[i] = order[r] /\ a < r
        BY <1>2, <3>1 DEF ToldOK
      <4>3. r = p
        BY <2>2, <3>1, <4>2
      <4>4. QED
        BY <4>1, <4>2, <4>3
    <3>4. QED
      BY <1>4, <3>2, <3>3
  <2>5. ASSUME NEW p \in due, a - 1 < p PROVE \E i \in 1..Len(told') : told'[i] = order[p]
    <3>1. CASE p = a
      <4>1. Len(told') \in 1..Len(told') /\ told'[Len(told')] = kb
        BY <1>4
      <4>2. QED
        BY <2>1, <3>1, <4>1
    <3>2. CASE p # a
      <4>1. a < p
        BY <2>1, <2>5, <3>2
      <4>2. PICK i \in 1..Len(told) : told[i] = order[p]
        BY <1>2, <4>1 DEF ToldOK
      <4>3. i \in 1..Len(told') /\ told'[i] = told[i]
        BY <1>4
      <4>4. QED
        BY <4>2, <4>3
    <3>3. QED
      BY <3>1, <3>2
  <2>6. QED
    BY <1>0, <2>3, <2>4, <2>5 DEF ToldOK
<1>10. LoopOK(a)'
  BY <1>0, <1>8, <1>9 DEF LoopOK
<1>11. QED
  BY <1>1, <1>5, <1>6, <1>7, <1>10 DEF KeyInv

\* The history of an event that there is none of.
LEMMA NoTold == ASSUME told' = <<>>, due' = {} PROVE ToldOK(0)'
<1>1. Len(told') = 0
  OBVIOUS
<1>2. \A i \in 1..Len(told') : FALSE
  BY <1>1
<1>3. QED
  BY <1>2 DEF ToldOK

\* The end of the loop.
LEMMA HandleEndsStep == ASSUME KeyInv, HandleEnds PROVE KeyInv'
<1>0. /\ kpc = "handle" /\ kpc' = "idle" /\ kb = NoKb /\ event' = NoEvent
      /\ order' = <<>> /\ due' = {} /\ told' = <<>>
      /\ UNCHANGED <<binds, list, link, keycodes, grabs, kb, nkb, shared>>
  BY DEF HandleEnds
<1>1. KeyTypeOK /\ LinkOK /\ GrabsOK
  BY <1>0 DEF KeyInv
<1>2. PICK a \in Nat : HandOK(a)
  BY <1>0 DEF KeyInv, LoopOK
<1>3. a = 0
  <2>1. a > 0 => a \in 1..Len(list) /\ kb = list[a]
    BY <1>1, <1>2 DEF HandOK, KeyTypeOK
  <2>2. QED
    BY <1>0, <1>1, <2>1, AtPosition
<1>4. event' = [code |-> event'.code, mods |-> event'.mods, replay |-> event'.replay]
  BY <1>0 DEF NoEvent
<1>5. order' \in Seq(Binding) /\ Once(order') /\ due' \subseteq 1..Len(order') /\ told' \in Seq(Binding)
      /\ Len(order') = 0
  BY <1>0 DEF Once
<1>6. KeyTypeOK'
  BY <1>0, <1>1, <1>4, <1>5 DEF KeyTypeOK
<1>7. LinkOK'
  BY <1>0, <1>1 DEF LinkOK, Listed
<1>8. GrabsOK'
  <2>1. Listed' = Listed
    BY <1>0 DEF Listed
  <2>2. QED
    BY <1>0, <1>1, <2>1 DEF GrabsOK
<1>9. HandOK(0)'
  <2>1. HandOK(0)
    BY <1>2, <1>3
  <2>2. 0 \in 0..Len(list') /\ \A i \in 1..0 : FALSE
    BY <1>6 DEF KeyTypeOK
  <2>3. QED
    BY <1>0, <1>5, <2>1, <2>2 DEF HandOK
<1>10. LoopOK(0)'
  BY <1>0, <1>9, NoTold DEF LoopOK
<1>11. QED
  BY <1>6, <1>7, <1>8, <1>10 DEF KeyInv

\* Outside of events the loop is at its end.
LEMMA NoneInHand == ASSUME KeyInv, kpc = "idle" PROVE LoopOK(0)
<1>1. PICK a \in Nat : LoopOK(a)
  BY DEF KeyInv
<1>2. a = 0
  BY <1>1 DEF LoopOK, HandOK
<1>3. QED
  BY <1>1, <1>2

\* The end of the connection.
LEMMA FreeKeyStep == ASSUME KeyInv, FreeKey PROVE KeyInv'
<1>1. KeyTypeOK
  BY DEF KeyInv
<1>2. CASE kpc = "emit"
  BY <1>1, <1>2, CrashKeeps DEF FreeKey, KeyTypeOK
<1>3. CASE kpc = "idle"
  <2>1. /\ link' = "closed" /\ list' = <<>> /\ grabs' = {}
        /\ UNCHANGED <<binds, loop, kpc, shared, keycodes>>
    BY <1>3 DEF FreeKey
  <2>2. LoopOK(0) /\ HandOK(0) /\ ToldOK(0)
    BY <1>3, NoneInHand DEF LoopOK
  <2>3. Listed' = {}
    BY <2>1 DEF Listed
  <2>4. list' \in Seq(Binding) /\ Once(list') /\ Len(list') = 0
    BY <2>1 DEF Once
  <2>5. KeyTypeOK'
    BY <1>1, <2>1, <2>4 DEF KeyTypeOK, loop
  <2>6. LinkOK'
    BY <1>3, <2>1, <2>3 DEF LinkOK
  <2>7. GrabsOK'
    <3>1. \A g : g \notin UNION {GrabsOf(binds'[b]) : b \in Listed'}
      BY <2>3
    <3>2. UNION {GrabsOf(binds'[b]) : b \in Listed'} = {}
      BY <3>1
    <3>3. QED
      BY <2>1, <2>3, <3>2 DEF GrabsOK
  <2>8. HandOK(0)'
    <3>1. \A i \in 1..0 : FALSE
      OBVIOUS
    <3>2. QED
      BY <2>1, <2>2, <2>4, <3>1 DEF HandOK, loop
  <2>9. ToldOK(0)'
    BY <2>1, <2>2 DEF ToldOK, loop
  <2>10. LoopOK(0)'
    BY <1>3, <2>1, <2>8, <2>9 DEF LoopOK
  <2>11. QED
    BY <2>5, <2>6, <2>7, <2>10 DEF KeyInv
<1>4. QED
  BY <1>2, <1>3 DEF FreeKey, HandlersRun

\* An event takes a reference to every binding.
LEMMA StartKeyStep ==
    ASSUME KeyInv, NEW c \in Code, NEW m \in Mod, StartKey(c, m)
    PROVE  KeyInv'
<1>0. /\ kpc = "idle" /\ kpc' = "handle" /\ link = "open"
      /\ binds' = [b \in Binding |-> IF b \in Listed THEN [binds[b] EXCEPT !.rc = @ + 1] ELSE binds[b]]
      /\ event' = [code |-> c, mods |-> m, replay |-> TRUE]
      /\ kb' = First /\ nkb' = After(First)
      /\ order' = list /\ due' = {i \in 1..Len(list) : Hits(list[i], c, m)} /\ told' = <<>>
      /\ UNCHANGED <<list, link, keycodes, grabs, shared>>
  BY DEF StartKey
<1>1. KeyTypeOK /\ LinkOK /\ GrabsOK /\ HandOK(0) /\ Len(list) \in Nat
  BY <1>0, NoneInHand DEF KeyInv, LoopOK, KeyTypeOK
<1>2. ASSUME NEW b \in Binding
      PROVE  /\ binds'[b] \in BindingSet /\ binds'[b].user = binds[b].user /\ binds'[b].lost = binds[b].lost
             /\ binds'[b].sym = binds[b].sym /\ binds'[b].mods = binds[b].mods
             /\ binds'[b].codes = binds[b].codes
             /\ binds'[b].rc = binds[b].rc + (IF b \in Listed THEN 1 ELSE 0) /\ binds[b].rc \in Nat
  <2>1. PICK x \in BindingSet : x = binds[b]
    BY <1>1 DEF KeyTypeOK
  <2>2. binds'[b] = IF b \in Listed THEN [x EXCEPT !.rc = x.rc + 1] ELSE x
    BY <1>0, <2>1
  <2>3. /\ [x EXCEPT !.rc = x.rc + 1] \in BindingSet
        /\ [x EXCEPT !.rc = x.rc + 1].rc = x.rc + 1
        /\ [x EXCEPT !.rc = x.rc + 1].user = x.user /\ [x EXCEPT !.rc = x.rc + 1].lost = x.lost
        /\ [x EXCEPT !.rc = x.rc + 1].sym = x.sym /\ [x EXCEPT !.rc = x.rc + 1].mods = x.mods
        /\ [x EXCEPT !.rc = x.rc + 1].codes = x.codes /\ x.rc \in Nat
    BY DEF BindingSet
  <2>4. QED
    BY <2>1, <2>2, <2>3
<1>3. binds' \in [Binding -> BindingSet]
  <2>1. binds' = [b \in Binding |-> binds'[b]]
    BY <1>0
  <2>2. QED
    BY <1>2, <2>1
<1>4. due' \subseteq 1..Len(order') /\ told' \in Seq(Binding)
  BY <1>0
<1>5. event' = [code |-> event'.code, mods |-> event'.mods, replay |-> event'.replay]
      /\ event'.code = c /\ event'.mods = m
  BY <1>0
<1>6. KeyTypeOK'
  BY <1>0, <1>1, <1>3, <1>4, <1>5 DEF KeyTypeOK
<1>7. Listed' = Listed /\ Listed \subseteq Binding
  BY <1>0, <1>1 DEF Listed, KeyTypeOK
<1>8. LinkOK'
  <2>1. Listed = {b \in Binding : binds[b].rc > 0}
    BY <1>0, <1>1 DEF LinkOK
  <2>2. \A b \in Binding : binds'[b].rc > 0 <=> binds[b].rc > 0
    BY <1>2, <2>1
  <2>3. Listed' = {b \in Binding : binds'[b].rc > 0}
    BY <1>7, <2>1, <2>2
  <2>4. \A b \in Listed' : binds'[b].sym \in KeySym /\ binds'[b].mods \in Mod
    BY <1>1, <1>2, <1>7 DEF LinkOK
  <2>5. QED
    BY <1>0, <2>3, <2>4 DEF LinkOK
<1>9. GrabsOK'
  <2>1. \A b \in Listed : GrabsOf(binds'[b]) = GrabsOf(binds[b])
    BY <1>2, <1>7 DEF GrabsOf, Asked
  <2>2. UNION {GrabsOf(binds'[b]) : b \in Listed} = UNION {GrabsOf(binds[b]) : b \in Listed}
    BY <2>1
  <2>3. QED
    BY <1>0, <1>1, <1>7, <2>1, <2>2 DEF GrabsOK
<1>10. PICK a \in Nat : a = Len(list)
  BY <1>1
<1>11. HandOK(a)'
  <2>0. First = IF a = 0 THEN NoKb ELSE list[a]
    BY <1>1, <1>10 DEF First, KeyTypeOK
  <2>1. kb' = IF a = 0 THEN NoKb ELSE list[a]
    BY <1>0, <2>0
  <2>2. nkb' = IF a <= 1 THEN NoKb ELSE list[a - 1]
    <3>1. PICK b : b = First
      OBVIOUS
    <3>2. a \in 0..Len(list) /\ b = IF a = 0 THEN NoKb ELSE list[a]
      BY <1>10, <2>0, <3>1
    <3>3. QED
      BY <1>0, <1>1, <3>1, <3>2, AfterAt
  <2>3. \A i \in 1..a : Hits(list[i], event.code, event.mods)' <=> Hits(list[i], c, m)
    <3> TAKE i \in 1..a
    <3>1. list[i] \in Binding
      BY <1>1, <1>10 DEF KeyTypeOK
    <3>2. QED
      BY <1>0, <1>2, <1>5, <3>1 DEF Hits
  <2>4. \A i \in 1..a : i \in due' <=> Hits(list[i], event.code, event.mods)'
    BY <1>0, <1>10, <2>3
  <2>5. ASSUME NEW b \in Binding
        PROVE  binds'[b].rc = OwnRefs(binds'[b]) + (IF \E i \in 1..a : list'[i] = b THEN 1 ELSE 0)
    <3>1. binds[b].rc = OwnRefs(binds[b]) + (IF \E i \in 1..0 : list[i] = b THEN 1 ELSE 0)
      BY <1>1 DEF HandOK
    <3>2. OwnRefs(binds'[b]) = OwnRefs(binds[b]) /\ OwnRefs(binds[b]) \in Nat
      BY <1>1, <1>2 DEF OwnRefs, KeyTypeOK, BindingSet
    <3>3. binds[b].rc = OwnRefs(binds[b])
      BY <3>1, <3>2
    <3>4. b \in Listed <=> \E i \in 1..a : list'[i] = b
      BY <1>0, <1>10 DEF Listed
    <3>5. QED
      BY <1>2, <3>2, <3>3, <3>4
  <2>6. a \in 0..Len(list') /\ a <= Len(order') /\ \A i \in 1..a : list'[i] = order'[i]
    BY <1>0, <1>10
  <2>7. QED
    BY <1>0, <2>1, <2>2, <2>4, <2>5, <2>6 DEF HandOK
<1>12. ToldOK(a)'
  <2>1. \A i \in 1..Len(told') : FALSE
    <3>1. Len(told') = 0
      BY <1>0
    <3>2. QED
      BY <3>1
  <2>2. \A p \in due' : ~(a < p)
    BY <1>0, <1>10
  <2>3. QED
    BY <2>1, <2>2 DEF ToldOK
<1>13. LoopOK(a)'
  BY <1>0, <1>11, <1>12 DEF LoopOK
<1>14. QED
  BY <1>6, <1>8, <1>9, <1>13 DEF KeyInv

\* A handler or the main program drops a binding.
LEMMA DropBindingStep ==
    ASSUME KeyInv, NEW b \in Binding, DropBinding(b)
    PROVE  KeyInv'
<1>0. /\ kpc \in {"idle", "emit"} /\ binds[b].user /\ Unref(b, [binds[b] EXCEPT !.user = FALSE])
      /\ UNCHANGED <<link, keycodes, loop, kpc, shared>>
  BY DEF DropBinding, HandlersRun
<1>1. KeyTypeOK /\ LinkOK /\ GrabsOK
  BY <1>0 DEF KeyInv
<1>2. PICK a \in Nat : LoopOK(a)
  BY <1>0 DEF KeyInv
<1>3. HandOK(a) /\ ToldOK(IF kpc = "emit" THEN a - 1 ELSE a) /\ a <= Len(list) /\ Len(list) \in Nat
  BY <1>1, <1>2 DEF LoopOK, HandOK, KeyTypeOK
<1>4. PICK x \in BindingSet : x = [binds[b] EXCEPT !.user = FALSE]
  BY <1>1 DEF KeyTypeOK, BindingSet
<1>5. /\ x.rc = binds[b].rc /\ x.sym = binds[b].sym /\ x.mods = binds[b].mods /\ x.codes = binds[b].codes
      /\ x.lost = binds[b].lost /\ x.user = FALSE /\ x.rc \in Nat /\ x.lost \in Nat
  BY <1>1, <1>4 DEF KeyTypeOK, BindingSet
<1>6. binds[b].rc = 1 + x.lost + (IF \E i \in 1..a : list[i] = b THEN 1 ELSE 0)
  BY <1>0, <1>3, <1>5 DEF HandOK, OwnRefs
<1>7. x.rc > 0 /\ (x.rc = 1 => x.lost = 0 /\ \A i \in 1..a : list[i] # b)
  BY <1>5, <1>6
<1>8. Unref(b, x)
  BY <1>0, <1>4
<1>9. /\ binds' \in [Binding -> BindingSet] /\ list' \in Seq(Binding) /\ Once(list')
      /\ a <= Len(list') /\ \A i \in 1..a : list'[i] = list[i]
      /\ \A c \in Binding : c # b => binds'[c] = binds[c]
      /\ binds'[b] = IF x.rc = 1 THEN NoBinding ELSE [x EXCEPT !.rc = x.rc - 1]
      /\ binds'[b].rc = x.rc - 1
  BY <1>1, <1>3, <1>7, <1>8, UnrefEffect
<1>10. LinkOK' /\ GrabsOK'
  BY <1>0, <1>1, <1>5, <1>7, <1>8, UnrefLinks DEF LinkOK
<1>11. KeyTypeOK'
  BY <1>0, <1>1, <1>9 DEF KeyTypeOK, loop
<1>12. \A i \in 1..a : i \in 1..Len(list) /\ list[i] \in Binding
  BY <1>1, <1>3 DEF KeyTypeOK
<1>13. x.rc # 1 => /\ binds'[b].mods = binds[b].mods /\ binds'[b].codes = binds[b].codes
                   /\ binds'[b].user = FALSE /\ binds'[b].lost = x.lost
  BY <1>5, <1>9 DEF BindingSet
<1>14. \A i \in 1..a : binds'[list[i]].mods = binds[list[i]].mods /\ binds'[list[i]].codes = binds[list[i]].codes
  BY <1>7, <1>9, <1>12, <1>13
<1>15. HandOK(a)'
  <2>1. \A i \in 1..a : Hits(list[i], event.code, event.mods)' <=> Hits(list[i], event.code, event.mods)
    BY <1>0, <1>9, <1>14 DEF Hits, loop
  <2>2. \A i \in 1..a : i \in due' <=> Hits(list[i], event.code, event.mods)'
    BY <1>0, <1>3, <2>1 DEF HandOK, loop
  <2>3. ASSUME NEW c \in Binding
        PROVE  binds'[c].rc = OwnRefs(binds'[c]) + (IF \E i \in 1..a : list'[i] = c THEN 1 ELSE 0)
    <3>1. (\E i \in 1..a : list'[i] = c) <=> (\E i \in 1..a : list[i] = c)
      BY <1>9
    <3>2. CASE c = b
      <4>1. OwnRefs(binds'[b]) = x.lost
        <5>1. CASE x.rc = 1
          BY <1>7, <1>9, <5>1, EmptyBinding
        <5>2. CASE x.rc # 1
          BY <1>5, <1>13, <5>2 DEF OwnRefs
        <5>3. QED
          BY <5>1, <5>2
      <4>2. binds'[b].rc = x.lost + (IF \E i \in 1..a : list[i] = b THEN 1 ELSE 0)
        <5>1. binds'[b].rc = x.rc - 1
          BY <1>9
        <5>2. QED
          BY <1>5, <1>6, <5>1
      <4>3. QED
        BY <3>1, <3>2, <4>1, <4>2
    <3>3. CASE c # b
      <4>1. binds'[c] = binds[c]
        BY <1>9, <3>3
      <4>2. QED
        BY <1>3, <3>1, <4>1 DEF HandOK
    <3>4. QED
      BY <3>2, <3>3
  <2>4. a \in 0..Len(list') /\ a <= Len(order') /\ \A i \in 1..a : list'[i] = order'[i]
    BY <1>0, <1>3, <1>9 DEF HandOK, loop
  <2>5. kb' = (IF a = 0 THEN NoKb ELSE list'[a]) /\ nkb' = (IF a <= 1 THEN NoKb ELSE list'[a - 1])
    <3>1. a > 0 => list'[a] = list[a]
      BY <1>9
    <3>2. a > 1 => list'[a - 1] = list[a - 1]
      BY <1>9
    <3>3. QED
      BY <1>0, <1>3, <3>1, <3>2 DEF HandOK, loop
  <2>6. QED
    BY <1>0, <1>3, <2>2, <2>3, <2>4, <2>5 DEF HandOK, loop
<1>16. LoopOK(a)'
  BY <1>0, <1>3, <1>15 DEF LoopOK, ToldOK, loop
<1>17. QED
  BY <1>10, <1>11, <1>16 DEF KeyInv

\* A new binding goes to the head of the list, where the loop has been.
LEMMA NewBindingStep ==
    ASSUME KeyInv, NEW b \in Binding, NEW s \in KeySym, NEW m \in Mod, NEW r \in BOOLEAN,
           NewBinding(b, s, m, r)
    PROVE  KeyInv'
<1>0. KeyTypeOK /\ kpc \in {"idle", "emit"} /\ link = "open" /\ binds[b].rc = 0 /\ UNCHANGED keycodes
  BY DEF KeyInv, NewBinding, HandlersRun
<1>1. PICK x : x = [rc |-> 1, user |-> TRUE, lost |-> 0, sym |-> s, mods |-> m,
                    codes |-> keycodes[s], replay |-> r]
  OBVIOUS
<1>2. CASE x.codes = {}
  <2>1. Crash
    BY <1>1, <1>2 DEF NewBinding
  <2>2. QED
    BY <1>0, <2>1, CrashKeeps DEF KeyTypeOK
<1>3. CASE x.codes # {}
  <2>1. /\ binds' = [binds EXCEPT ![b] = x] /\ list' = Append(list, b)
        /\ grabs' = grabs \cup GrabsOf(x)
        /\ shared' = (shared \/ \E y \in Listed : GrabsOf(binds[y]) \cap GrabsOf(x) # {})
        /\ UNCHANGED <<link, loop, kpc>>
    BY <1>1, <1>3 DEF NewBinding
  <2>2. LinkOK /\ GrabsOK
    BY <1>0 DEF KeyInv
  <2>3. PICK a \in Nat : LoopOK(a)
    BY <1>0 DEF KeyInv
  <2>4. HandOK(a) /\ a <= Len(list) /\ Len(list) \in Nat
    BY <1>0, <2>3 DEF LoopOK, HandOK, KeyTypeOK
  <2>5. x \in BindingSet /\ OwnRefs(x) = 1 /\ x.rc = 1 /\ x.sym = s /\ x.mods = m
    BY <1>0, <1>1 DEF KeyTypeOK, BindingSet, OwnRefs
  <2>6. binds' \in [Binding -> BindingSet] /\ binds'[b] = x /\ \A c \in Binding : c # b => binds'[c] = binds[c]
    BY <1>0, <2>1, <2>5 DEF KeyTypeOK
  <2>7. /\ list' \in Seq(Binding) /\ Len(list') = Len(list) + 1 /\ list'[Len(list) + 1] = b
        /\ \A i \in 1..Len(list) : list'[i] = list[i] /\ list[i] \in Binding
    BY <1>0, <2>1 DEF KeyTypeOK
  <2>8. Listed = {c \in Binding : binds[c].rc > 0} /\ b \notin Listed
    <3>1. Listed = {c \in Binding : binds[c].rc > 0}
      BY <1>0, <2>2 DEF LinkOK
    <3>2. QED
      BY <1>0, <3>1
  <2>9. \A i \in 1..Len(list) : list[i] \in Listed
    BY DEF Listed
  <2>10. Listed' = Listed \cup {b}
    <3>1. \A i \in 1..Len(list') : list'[i] \in Listed \cup {b}
      <4> TAKE i \in 1..Len(list')
      <4>1. i \in 1..Len(list) \/ i = Len(list) + 1
        BY <2>4, <2>7
      <4>2. QED
        BY <2>7, <2>9, <4>1
    <3>2. ASSUME NEW c \in Listed PROVE \E i \in 1..Len(list') : list'[i] = c
      <4>1. PICK i \in 1..Len(list) : list[i] = c
        BY DEF Listed
      <4>2. QED
        BY <2>4, <2>7, <4>1
    <3>3. \E i \in 1..Len(list') : list'[i] = b
      BY <2>4, <2>7
    <3>4. Listed' = {list'[i] : i \in 1..Len(list')}
      BY DEF Listed
    <3>5. QED
      BY <3>1, <3>2, <3>3, <3>4
  <2>11. Once(list')
    <3> SUFFICES ASSUME NEW i \in 1..Len(list'), NEW j \in 1..Len(list'), list'[i] = list'[j] PROVE i = j
      BY DEF Once
    <3>1. \A k, l \in 1..Len(list) : list[k] = list[l] => k = l
      BY <1>0 DEF KeyTypeOK, Once
    <3>2. (i \in 1..Len(list) \/ i = Len(list) + 1) /\ (j \in 1..Len(list) \/ j = Len(list) + 1)
      BY <2>4, <2>7
    <3>3. QED
      BY <2>7, <2>8, <2>9, <3>1, <3>2
  <2>12. KeyTypeOK'
    BY <1>0, <2>1, <2>6, <2>7, <2>11 DEF KeyTypeOK, loop
  <2>13. LinkOK'
    <3>1. Listed' = {c \in Binding : binds'[c].rc > 0}
      BY <2>5, <2>6, <2>8, <2>10
    <3>2. \A c \in Listed' : binds'[c].sym \in KeySym /\ binds'[c].mods \in Mod
      BY <2>2, <2>5, <2>6, <2>8, <2>10 DEF LinkOK
    <3>3. QED
      BY <1>0, <2>1, <3>1, <3>2 DEF LinkOK
  <2>14. GrabsOK'
    <3> SUFFICES ASSUME ~shared'
                 PROVE  /\ grabs' = UNION {GrabsOf(binds'[c]) : c \in Listed'}
                        /\ \A c, d \in Listed' : c # d => GrabsOf(binds'[c]) \cap GrabsOf(binds'[d]) = {}
      BY DEF GrabsOK
    <3>1. ~shared /\ \A y \in Listed : GrabsOf(binds[y]) \cap GrabsOf(x) = {}
      BY <2>1
    <3>2. grabs = UNION {GrabsOf(binds[c]) : c \in Listed}
          /\ \A c, d \in Listed : c # d => GrabsOf(binds[c]) \cap GrabsOf(binds[d]) = {}
      BY <2>2, <3>1 DEF GrabsOK
    <3>3. binds'[b] = x /\ \A c \in Listed : binds'[c] = binds[c]
      BY <2>6, <2>8
    <3>4. \A g : g \in grabs' <=> \E c \in Listed' : g \in GrabsOf(binds'[c])
      BY <2>1, <2>10, <3>2, <3>3
    <3>5. \A c, d \in Listed' : c # d => GrabsOf(binds'[c]) \cap GrabsOf(binds'[d]) = {}
      BY <2>10, <3>1, <3>2, <3>3
    <3>6. QED
      BY <3>4, <3>5
  <2>15. HandOK(a)'
    <3>1. \A i \in 1..a : i \in 1..Len(list) /\ list'[i] = list[i] /\ list[i] # b /\ binds'[list[i]] = binds[list[i]]
      BY <2>4, <2>6, <2>7, <2>8, <2>9
    <3>2. \A i \in 1..a : i \in due' <=> Hits(list[i], event.code, event.mods)'
      BY <2>1, <2>4, <3>1 DEF HandOK, Hits, loop
    <3>3. ASSUME NEW c \in Binding
          PROVE  binds'[c].rc = OwnRefs(binds'[c]) + (IF \E i \in 1..a : list'[i] = c THEN 1 ELSE 0)
      <4>1. (\E i \in 1..a : list'[i] = c) <=> (\E i \in 1..a : list[i] = c)
        BY <3>1
      <4>2. CASE c = b
        <5>1. ~\E i \in 1..a : list'[i] = c
          BY <3>1, <4>2
        <5>2. QED
          BY <2>5, <2>6, <4>2, <5>1
      <4>3. CASE c # b
        BY <2>4, <2>6, <4>1, <4>3 DEF HandOK
      <4>4. QED
        BY <4>2, <4>3
    <3>4. a \in 0..Len(list') /\ a <= Len(order') /\ \A i \in 1..a : list'[i] = order'[i]
      BY <2>1, <2>4, <2>7, <3>1 DEF HandOK, loop
    <3>5. kb' = (IF a = 0 THEN NoKb ELSE list'[a]) /\ nkb' = (IF a <= 1 THEN NoKb ELSE list'[a - 1])
      <4>1. a > 0 => list'[a] = list[a]
        BY <3>1
      <4>2. a > 1 => list'[a - 1] = list[a - 1]
        BY <3>1
      <4>3. QED
        BY <2>1, <2>4, <4>1, <4>2 DEF HandOK, loop
    <3>6. QED
      BY <2>1, <2>4, <3>2, <3>3, <3>4, <3>5 DEF HandOK, loop
  <2>16. LoopOK(a)'
    BY <2>1, <2>3, <2>15 DEF LoopOK, ToldOK, loop
  <2>17. QED
    BY <2>12, <2>13, <2>14, <2>16 DEF KeyInv
<1>4. QED
  BY <1>2, <1>3

\* A change of the mapping gives every binding its new grabs.
LEMMA MappingNotifyStep ==
    ASSUME KeyInv, NEW map \in [KeySym -> SUBSET Code], MappingNotify(map)
    PROVE  KeyInv'
<1>0. KeyTypeOK /\ kpc = "idle" /\ link = "open" /\ keycodes' = map
  BY DEF KeyInv, MappingNotify
<1>1. CASE \E b \in Listed : map[binds[b].sym] = {}
  <2>1. Crash
    BY <1>1 DEF MappingNotify
  <2>2. QED
    BY <1>0, <2>1, CrashKeeps
<1>2. CASE ~\E b \in Listed : map[binds[b].sym] = {}
  <2>1. /\ binds' = [b \in Binding |-> IF b \in Listed THEN Remapped(b, map) ELSE binds[b]]
        /\ grabs' = Refreshed(map)
        /\ shared' = (shared \/ \E x, y \in Listed :
                         /\ x # y
                         /\ GrabsOf(Remapped(x, map)) \cap
                               (GrabsOf(binds[y]) \cup GrabsOf(Remapped(y, map))) # {})
        /\ UNCHANGED <<list, link, loop, kpc>>
    BY <1>2 DEF MappingNotify
  <2>2. LinkOK /\ GrabsOK /\ LoopOK(0) /\ HandOK(0)
    BY <1>0, NoneInHand DEF KeyInv, LoopOK
  <2>3. Listed' = Listed /\ Listed \subseteq Binding
    BY <1>0, <2>1 DEF Listed, KeyTypeOK
  <2>4. ASSUME NEW b \in Listed
        PROVE  /\ Remapped(b, map) \in BindingSet /\ Remapped(b, map).codes \in SUBSET Code
               /\ Remapped(b, map).rc = binds[b].rc /\ Remapped(b, map).user = binds[b].user
               /\ Remapped(b, map).lost = binds[b].lost /\ Remapped(b, map).sym = binds[b].sym
               /\ Remapped(b, map).mods = binds[b].mods
    <3>1. PICK x \in BindingSet : x = binds[b]
      BY <1>0, <2>3 DEF KeyTypeOK
    <3>2. map[x.sym] \in SUBSET Code
      BY <2>2, <3>1 DEF LinkOK
    <3>3. Remapped(b, map) = [x EXCEPT !.codes = map[x.sym]]
      BY <3>1 DEF Remapped
    <3>4. QED
      BY <3>1, <3>2, <3>3 DEF BindingSet
  <2>5. \A b \in Listed : binds'[b] = Remapped(b, map)
    BY <2>1, <2>3
  <2>6. \A b \in Binding : b \notin Listed => binds'[b] = binds[b]
    BY <2>1
  <2>7. \A b \in Binding : /\ binds'[b] \in BindingSet /\ binds'[b].rc = binds[b].rc
                           /\ binds'[b].user = binds[b].user /\ binds'[b].lost = binds[b].lost
                           /\ binds'[b].sym = binds[b].sym /\ binds'[b].mods = binds[b].mods
    BY <1>0, <2>4, <2>5, <2>6 DEF KeyTypeOK
  <2>8. binds' \in [Binding -> BindingSet]
    <3>1. binds' = [b \in Binding |-> binds'[b]]
      BY <2>1
    <3>2. QED
      BY <2>7, <3>1
  <2>9. KeyTypeOK'
    BY <1>0, <2>1, <2>8 DEF KeyTypeOK, loop
  <2>10. LinkOK'
    <3>1. Listed = {b \in Binding : binds[b].rc > 0}
      BY <1>0, <2>2 DEF LinkOK
    <3>2. Listed' = {b \in Binding : binds'[b].rc > 0}
      BY <2>3, <2>7, <3>1
    <3>3. \A b \in Listed' : binds'[b].sym \in KeySym /\ binds'[b].mods \in Mod
      BY <2>2, <2>3, <2>7 DEF LinkOK
    <3>4. QED
      BY <1>0, <2>1, <3>2, <3>3 DEF LinkOK
  <2>11. GrabsOK'
    <3> SUFFICES ASSUME ~shared'
                 PROVE  /\ grabs' = UNION {GrabsOf(binds'[c]) : c \in Listed'}
                        /\ \A c, d \in Listed' : c # d => GrabsOf(binds'[c]) \cap GrabsOf(binds'[d]) = {}
      BY DEF GrabsOK
    <3>1. ~shared /\ \A x, y \in Listed : x # y =>
              GrabsOf(Remapped(x, map)) \cap (GrabsOf(binds[y]) \cup GrabsOf(Remapped(y, map))) = {}
      BY <2>1
    <3>2. grabs = UNION {GrabsOf(binds[c]) : c \in Listed}
      BY <2>2, <3>1 DEF GrabsOK
    <3>3. \A c, d \in Listed' : c # d => GrabsOf(binds'[c]) \cap GrabsOf(binds'[d]) = {}
      <4> TAKE c, d \in Listed'
      <4>1. c \in Listed /\ d \in Listed /\ binds'[c] = Remapped(c, map) /\ binds'[d] = Remapped(d, map)
        BY <2>3, <2>5
      <4>2. QED
        BY <3>1, <4>1
    <3>4. ASSUME NEW g PROVE g \in Refreshed(map) <=> \E c \in Listed : g \in GrabsOf(Remapped(c, map))
      <4>1. ASSUME g \in Refreshed(map) PROVE \E c \in Listed : g \in GrabsOf(Remapped(c, map))
        <5>1. CASE g \in grabs /\ \A i \in 1..Len(list) : g \notin Asked(binds[list[i]])
          <6>1. PICK c \in Listed : g \in GrabsOf(binds[c])
            BY <3>2, <5>1
          <6>2. PICK i \in 1..Len(list) : list[i] = c
            BY DEF Listed
          <6>3. QED
            BY <5>1, <6>1, <6>2 DEF GrabsOf
        <5>2. CASE \E i \in 1..Len(list) : g \in GrabsOf(Remapped(list[i], map))
          BY <5>2 DEF Listed
        <5>3. QED
          BY <4>1, <5>1, <5>2 DEF Refreshed
      <4>2. ASSUME NEW c \in Listed, g \in GrabsOf(Remapped(c, map)) PROVE g \in Refreshed(map)
        <5>1. PICK i \in 1..Len(list) : list[i] = c
          BY DEF Listed
        <5>2. g \in Asked(Remapped(c, map)) /\ g \notin Taken
          BY <4>2 DEF GrabsOf
        <5>3. g \in Code \X Mod
          <6>1. Remapped(c, map).codes \subseteq Code /\ Remapped(c, map).mods \in Mod
            BY <2>2, <2>4 DEF LinkOK
          <6>2. QED
            BY <5>2, <6>1 DEF Asked
        <5>4. ASSUME NEW j \in 1..(i - 1) PROVE g \notin Asked(binds[list[j]])
          <6>1. j \in 1..Len(list) /\ j # i
            BY <1>0 DEF KeyTypeOK
          <6>2. list[j] \in Listed /\ list[j] # c
            BY <1>0, <5>1, <6>1 DEF KeyTypeOK, Once, Listed
          <6>3. g \notin GrabsOf(binds[list[j]])
            BY <3>1, <4>2, <6>2
          <6>4. QED
            BY <5>2, <6>3 DEF GrabsOf
        <5>5. QED
          BY <4>2, <5>1, <5>3, <5>4 DEF Refreshed
      <4>3. QED
        BY <4>1, <4>2
    <3>5. \A g : g \in grabs' <=> \E c \in Listed' : g \in GrabsOf(binds'[c])
      BY <2>1, <2>3, <2>5, <3>4
    <3>6. QED
      BY <3>3, <3>5
  <2>12. HandOK(0)'
    <3>1. \A i \in 1..0 : FALSE
      OBVIOUS
    <3>2. \A b \in Binding : OwnRefs(binds'[b]) = OwnRefs(binds[b])
      BY <2>7 DEF OwnRefs
    <3>3. \A b \in Binding : binds'[b].rc = OwnRefs(binds'[b]) + (IF \E i \in 1..0 : list'[i] = b THEN 1 ELSE 0)
      BY <2>2, <2>7, <3>1, <3>2 DEF HandOK
    <3>4. QED
      BY <2>1, <2>2, <3>1, <3>3 DEF HandOK, loop
  <2>13. LoopOK(0)'
    BY <1>0, <2>1, <2>2, <2>12 DEF LoopOK, ToldOK, loop
  <2>14. QED
    BY <2>9, <2>10, <2>11, <2>13 DEF KeyInv
<1>3. QED
  BY <1>1, <1>2

\* The invariant holds when the extension has been set up.
LEMMA InitKey == KeyInit => KeyInv
<1> SUFFICES ASSUME KeyInit PROVE KeyInv
  OBVIOUS
<1>1. /\ binds = [b \in Binding |-> NoBinding] /\ list = <<>> /\ link = "open"
      /\ keycodes \in [KeySym -> SUBSET Code] /\ grabs = {} /\ kpc = "idle" /\ shared = FALSE
      /\ event = NoEvent /\ kb = NoKb /\ nkb = NoKb /\ order = <<>> /\ due = {} /\ told = <<>>
  BY DEF KeyInit
<1>2. binds \in [Binding -> BindingSet] /\ \A b \in Binding : binds[b].rc = 0 /\ OwnRefs(binds[b]) = 0
  BY <1>1, EmptyBinding
<1>3. event = [code |-> event.code, mods |-> event.mods, replay |-> event.replay]
  BY <1>1 DEF NoEvent
<1>4. Len(list) = 0 /\ Len(told) = 0 /\ list \in Seq(Binding) /\ Once(list) /\ order \in Seq(Binding) /\ Once(order)
      /\ told \in Seq(Binding) /\ Len(order) = 0 /\ \A i \in 1..0 : FALSE
  BY <1>1 DEF Once
<1>5. KeyTypeOK
  BY <1>1, <1>2, <1>3, <1>4 DEF KeyTypeOK
<1>6. Listed = {}
  BY <1>4 DEF Listed
<1>7. LinkOK
  BY <1>1, <1>2, <1>6 DEF LinkOK
<1>8. GrabsOK
  <2>1. \A g : g \notin UNION {GrabsOf(binds[b]) : b \in Listed}
    BY <1>6
  <2>2. UNION {GrabsOf(binds[b]) : b \in Listed} = {}
    BY <2>1
  <2>3. QED
    BY <1>1, <1>6, <2>2 DEF GrabsOK
<1>9. HandOK(0)
  BY <1>1, <1>2, <1>4 DEF HandOK
<1>10. ToldOK(0)
  BY <1>1, <1>4 DEF ToldOK
<1>11. LoopOK(0)
  BY <1>1, <1>9, <1>10 DEF LoopOK
<1>12. QED
  BY <1>5, <1>7, <1>8, <1>11 DEF KeyInv

\* Every step keeps the invariant.
LEMMA NextKey == KeyInv /\ [KeyNext]_keyVars => KeyInv'
<1> SUFFICES ASSUME KeyInv, [KeyNext]_keyVars PROVE KeyInv'
  OBVIOUS
<1>1. ASSUME NEW b \in Binding, DropBinding(b) PROVE KeyInv'
  BY <1>1, DropBindingStep
<1>2. ASSUME NEW b \in Binding, NEW s \in KeySym, NEW m \in Mod, NEW r \in BOOLEAN, NewBinding(b, s, m, r)
      PROVE  KeyInv'
  BY <1>2, NewBindingStep
<1>3. ASSUME NEW c \in Code, NEW m \in Mod, StartKey(c, m) PROVE KeyInv'
  BY <1>3, StartKeyStep
<1>4. ASSUME NEW map \in [KeySym -> SUBSET Code], MappingNotify(map) PROVE KeyInv'
  BY <1>4, MappingNotifyStep
<1>5. CASE UNCHANGED keyVars
  <2>1. /\ UNCHANGED <<binds, list, link, keycodes, grabs, kpc, shared, event>>
        /\ UNCHANGED <<kb, nkb, order, due, told>>
    BY <1>5 DEF keyVars, loop
  <2>2. KeyTypeOK'
    BY <2>1 DEF KeyInv, KeyTypeOK
  <2>3. Listed' = Listed
    BY <2>1 DEF Listed
  <2>4. LinkOK' <=> LinkOK
    BY <2>1, <2>3 DEF LinkOK
  <2>5. GrabsOK' <=> GrabsOK
    BY <2>1, <2>3 DEF GrabsOK
  <2>6. ASSUME NEW a \in Nat, LoopOK(a) PROVE LoopOK(a)'
    <3>1. \A i \in 1..a : Hits(list[i], event.code, event.mods)' <=> Hits(list[i], event.code, event.mods)
      BY <2>1 DEF Hits
    <3>2. HandOK(a)'
      BY <2>1, <2>6, <3>1 DEF LoopOK, HandOK
    <3>3. QED
      BY <2>1, <2>6, <3>2 DEF LoopOK, ToldOK
  <2>7. QED
    BY <2>1, <2>2, <2>4, <2>5, <2>6 DEF KeyInv
<1>6. CASE KeyFreed
  <2>1. KeyTypeOK /\ Crash /\ keycodes' \in [KeySym -> SUBSET Code]
    BY <1>6 DEF KeyFreed, KeyInv, KeyTypeOK
  <2>2. QED
    BY <2>1, CrashKeeps
<1>7. QED
  BY <1>1, <1>2, <1>3, <1>4, <1>5, <1>6, HandleOtherStep, HandleMismatchStep, HandleMatchStep,
     EmitReturnsStep, HandleEndsStep, FreeKeyStep DEF KeyNext

\* The invariant says what the run checks.
LEMMA KeyInvFaithful == KeyInv => BindingsFaithful
<1> SUFFICES ASSUME KeyInv, kpc # "crashed"
             PROVE  BindingRefsExact /\ LoopListed /\ GrabsExact /\ ToldOnce
  BY DEF BindingsFaithful
<1>1. KeyTypeOK /\ LinkOK /\ GrabsOK
  BY DEF KeyInv
<1>2. PICK a \in Nat : LoopOK(a)
  BY DEF KeyInv
<1>3. HandOK(a) /\ a <= Len(list) /\ Len(list) \in Nat
  BY <1>1, <1>2 DEF LoopOK, HandOK, KeyTypeOK
<1>4. kb = NoKb <=> a = 0
  <2>1. a > 0 => a \in 1..Len(list) /\ kb = list[a]
    BY <1>3 DEF HandOK
  <2>2. QED
    BY <1>1, <1>3, <2>1, AtPosition DEF HandOK
<1>5. Pending = {list[i] : i \in 1..a}
  <2>1. CASE a = 0
    <3>1. \A i \in 1..a : FALSE
      BY <2>1
    <3>2. QED
      BY <1>4, <2>1, <3>1 DEF Pending
  <2>2. CASE a > 0
    <3>1. a \in 1..Len(list) /\ kb = list[a]
      BY <1>3, <2>2 DEF HandOK
    <3>2. Position(kb) = a
      BY <1>1, <3>1, AtPosition
    <3>3. QED
      BY <1>4, <2>2, <3>2 DEF Pending
  <2>3. QED
    BY <2>1, <2>2
<1>6. BindingRefsExact
  <2> SUFFICES ASSUME NEW b \in Binding
               PROVE  binds[b].rc = (IF binds[b].user THEN 1 ELSE 0) + binds[b].lost
                                    + (IF b \in Pending THEN 1 ELSE 0)
    BY DEF BindingRefsExact
  <2>1. b \in Pending <=> \E i \in 1..a : list[i] = b
    BY <1>5
  <2>2. binds[b].rc = OwnRefs(binds[b]) + (IF \E i \in 1..a : list[i] = b THEN 1 ELSE 0)
    BY <1>3 DEF HandOK
  <2>3. QED
    BY <2>1, <2>2 DEF OwnRefs
<1>7. LoopListed
  <2>1. kb \in Listed \cup {NoKb}
    BY <1>3 DEF HandOK, Listed
  <2>2. nkb \in Listed \cup {NoKb}
    <3>1. a > 1 => a - 1 \in 1..Len(list)
      BY <1>3
    <3>2. QED
      BY <1>3, <3>1 DEF HandOK, Listed
  <2>3. QED
    BY <2>1, <2>2 DEF LoopListed
<1>8. GrabsExact
  BY <1>1 DEF GrabsOK, GrabsExact
<1>9. ToldOnce
  <2>1. PICK n : n = (IF kpc = "emit" THEN a - 1 ELSE a) /\ ToldOK(n)
    BY <1>2 DEF LoopOK
  <2>2. kpc = "handle" /\ kb = NoKb => \A p \in due : n < p
    BY <1>1, <1>4, <2>1 DEF KeyTypeOK
  <2>3. QED
    BY <2>1, <2>2 DEF ToldOK, ToldOnce
<1>10. QED
  BY <1>6, <1>7, <1>8, <1>9

\* For any bindings, keys and grabs of other clients: until a crash the count of a binding is
\* the references to it, the server has the grabs of the bindings, and handle_key tells an
\* event once to every binding that it matched (key.c:247), whatever handlers do to the list.
THEOREM BindingsAlwaysFaithful == KeySpec => []BindingsFaithful
<1>1. KeyInit => KeyInv
  BY InitKey
<1>2. KeyInv /\ [KeyNext]_keyVars => KeyInv'
  BY NextKey
<1>3. KeyInv => BindingsFaithful
  BY KeyInvFaithful
<1>4. QED
  BY <1>1, <1>2, <1>3, PTL DEF KeySpec

-----------------------------------------------------------------------------
(* XinputProps: the inductive invariant *)

\* A property: what a script asked for is what its items hold, cut to the format.
PropOK(p) ==
    /\ p.format \in {1, 2, 4} /\ p.items \in Seq(Int) /\ p.asked \in Seq(Int)
    /\ p.asked # <<>> =>
           /\ p.type \in {"integer", "cardinal", "float", "atom"} /\ ~BadFormat(p)
           /\ Len(p.items) = Len(p.asked)
           /\ \A i \in 1..Len(p.asked) : p.items[i] = Store(p.asked[i], p.type, p.format)

\* The running set_prop, and what it knows of the property.
SetterOK(s) == s.format \in {1, 2, 4} /\ s.arr \in Seq(Int) /\ ~BadFormat(s)

\* A string v that was read of the items all.
TextOK(v, all) ==
    /\ \A i \in 1..Len(v) : i <= Len(all) => v[i] = all[i] /\ all[i] # 0
    /\ Len(v) < Len(all) => all[Len(v) + 1] = 0

\* What get_prop has read: all of a property, unless that has grown.
ReadingOK(r) ==
    /\ PropOK(r.of)
    /\ ~r.grown /\ r.kind \in {"single", "array"} => r.values = r.of.items
    /\ ~r.grown /\ r.kind = "string" => TextOK(r.values, r.of.items)
    /\ r.of.asked # <<>> => r.kind \in {"single", "array"}

PropsInv ==
    /\ PropOK(server) /\ SetterOK(setter) /\ getter.bytes \in Nat
    /\ ReadingOK(reading)

\* A sequence out of a bounded set of them is one.
LEMMA SeqOfNumbers ==
    ASSUME NEW s \in SeqOf(Number, MaxItems)
    PROVE  s \in Seq(Int)
<1>1. PICK n \in 0..MaxItems : s \in [1..n -> Number]
  BY DEF SeqOf
<1>2. n \in Nat /\ Number \subseteq Int
  BY PropsAssumption
<1>3. s \in [1..n -> Int]
  BY <1>1, <1>2
<1> QED BY <1>2, <1>3

\* The bits of a number in an item are a number.
LEMMA UnsignedFacts ==
    ASSUME NEW v \in Int, NEW f \in {1, 2, 4}
    PROVE  /\ Unsigned(v, f) \in Int
           /\ v \in 0..(Modulus[f] - 1) => Unsigned(v, f) = v
<1>1. Modulus[f] \in Nat /\ Modulus[f] > 0
  BY PropsAssumption
<1> QED BY <1>1 DEF Unsigned

\* So is what an item of any property stores.
LEMMA StoreFacts ==
    ASSUME NEW v \in Int, NEW type, NEW f \in {1, 2, 4}
    PROVE  /\ Store(v, type, f) \in Int
           /\ type = "float" /\ v \in (-ExactFloat)..ExactFloat => Store(v, type, f) = v
           /\ type # "float" /\ v \in 0..(Modulus[f] - 1) => Store(v, type, f) = v
<1>1. CASE type = "float"
  BY <1>1, PropsAssumption DEF Store, AsFloat
<1>2. CASE type # "float"
  BY <1>2, UnsignedFacts DEF Store
<1> QED BY <1>1, <1>2

\* The numbers of a sequence, one by one in items.
LEMMA CutFacts ==
    ASSUME NEW s \in Seq(Int), NEW type, NEW f \in {1, 2, 4}
    PROVE  /\ [i \in DOMAIN s |-> Store(s[i], type, f)] \in Seq(Int)
           /\ Len([i \in DOMAIN s |-> Store(s[i], type, f)]) = Len(s)
<1> DEFINE t == [i \in DOMAIN s |-> Store(s[i], type, f)]
<1>1. Len(s) \in Nat /\ DOMAIN s = 1..Len(s)
  OBVIOUS
<1>2. \A i \in 1..Len(s) : s[i] \in Int
  BY <1>1
<1>3. \A i \in 1..Len(s) : Store(s[i], type, f) \in Int
  BY <1>2, StoreFacts
<1>4. t \in [1..Len(s) -> Int]
  BY <1>1, <1>3
<1> QED BY <1>1, <1>4

\* The second request asks for enough if the property is no longer than four
\* times what the first one said.
LEMMA ReceivedAll ==
    ASSUME NEW p, PropOK(p), NEW bytes \in Nat, Bytes(p) <= 4 * bytes
    PROVE  Received(p, bytes) = p.items
<1>1. Len(p.items) \in Nat /\ p.format \in {1, 2, 4}
  BY DEF PropOK
<1>2. Len(p.items) * p.format <= 4 * bytes
  BY DEF Bytes
<1>3. Len(p.items) <= (4 * bytes) \div p.format
  <2>1. CASE p.format = 1
    BY <1>1, <1>2, <2>1
  <2>2. CASE p.format = 2
    BY <1>1, <1>2, <2>2
  <2>3. CASE p.format = 4
    BY <1>1, <1>2, <2>3
  <2> QED BY <1>1, <2>1, <2>2, <2>3
<1> QED BY <1>3 DEF Received, AskedLength

\* A string that di_string_dup makes of items.
LEMMA TextFacts ==
    ASSUME NEW items \in Seq(Int), NEW v \in Text(items)
    PROVE  TextOK(v, items)
<1>0. Len(items) \in Nat /\ DOMAIN items = 1..Len(items)
  OBVIOUS
<1>1. CASE \E n \in 0..(Len(items) - 1) : /\ v = SubSeq(items, 1, n)
                                          /\ items[n + 1] = 0 /\ \A i \in 1..n : items[i] # 0
  <2>1. PICK n \in 0..(Len(items) - 1) : /\ v = SubSeq(items, 1, n)
                                         /\ items[n + 1] = 0 /\ \A i \in 1..n : items[i] # 0
    BY <1>1
  <2>2. n \in Nat /\ n < Len(items)
    BY <1>0
  <2>3. Len(v) = n /\ \A i \in 1..n : v[i] = items[i]
    BY <2>1, <2>2
  <2> QED BY <1>0, <2>1, <2>2, <2>3 DEF TextOK
<1>2. CASE \E w \in Junk : v = items \o w /\ \A i \in DOMAIN items : items[i] # 0
  <2>1. PICK w \in Junk : v = items \o w /\ \A i \in DOMAIN items : items[i] # 0
    BY <1>2
  <2>2. w \in Seq(Int)
    <3>1. PICK n \in 0..1 : w \in [1..n -> {Unsigned(m, 1) : m \in Number}]
      BY DEF Junk, SeqOf
    <3>2. {Unsigned(m, 1) : m \in Number} \subseteq Int
      BY UnsignedFacts, PropsAssumption
    <3>3. n \in Nat /\ w \in [1..n -> Int]
      BY <3>1, <3>2
    <3> QED BY <3>3
  <2>3. Len(w) \in Nat /\ Len(v) = Len(items) + Len(w) /\ \A i \in 1..Len(items) : v[i] = items[i]
    BY <1>0, <2>1, <2>2
  <2> QED BY <1>0, <2>1, <2>3 DEF TextOK
<1> QED BY <1>1, <1>2 DEF Text

\* What the invariant says of a reading is what get_prop promises.
LEMMA ReadingFacts ==
    ASSUME ReadingOK(reading)
    PROVE  PropsExact
<1> DEFINE p == reading.of
<1>1. PropOK(p)
  BY DEF ReadingOK
<1>2. ReadsWhole
  BY DEF ReadsWhole, ReadingOK, TextOK
<1>3. ASSUME p.asked # <<>>, ~reading.grown
      PROVE  /\ Len(reading.values) = Len(p.asked)
             /\ \A i \in DOMAIN reading.values : Holds(p, p.asked[i]) => reading.values[i] = p.asked[i]
  <2>1. /\ Len(p.items) = Len(p.asked) /\ reading.values = p.items
        /\ \A i \in 1..Len(p.asked) : p.items[i] = Store(p.asked[i], p.type, p.format)
    BY <1>1, <1>3 DEF PropOK, ReadingOK
  <2>2. DOMAIN p.items = 1..Len(p.asked) /\ \A i \in 1..Len(p.asked) : p.asked[i] \in Int
    BY <1>1, <2>1 DEF PropOK
  <2>3. ASSUME NEW i \in DOMAIN reading.values, Holds(p, p.asked[i])
        PROVE  reading.values[i] = p.asked[i]
    <3>1. p.format \in {1, 2, 4} /\ p.asked[i] \in Int /\ reading.values[i] = Store(p.asked[i], p.type, p.format)
      BY <1>1, <2>1, <2>2 DEF PropOK
    <3>2. CASE p.type = "float"
      BY <2>3, <3>1, <3>2, StoreFacts DEF Holds
    <3>3. CASE p.type # "float"
      BY <2>3, <3>1, <3>3, StoreFacts DEF Holds
    <3> QED BY <3>2, <3>3
  <2> QED BY <2>1, <2>3
<1>4. ReadsWhatWasSet
  BY <1>3 DEF ReadsWhatWasSet
<1> QED BY <1>2, <1>4 DEF PropsExact

\* There is no property at first, and nothing was read.
LEMMA PropsInitInv ==
    ASSUME PropsInit
    PROVE  PropsInv
<1>1. PropOK(NoProp)
  BY DEF PropOK, NoProp
<1>2. SetterOK(NotSetting) /\ NotGetting.bytes \in Nat
  BY DEF SetterOK, BadFormat, NotSetting, NotGetting
<1>3. ReadingOK(NoResult)
  <2>1. NoResult.of = NoProp /\ NoResult.kind = "bottom" /\ NoProp.asked = <<>>
    BY DEF NoResult, NoProp
  <2> QED BY <1>1, <2>1 DEF ReadingOK
<1> QED BY <1>1, <1>2, <1>3 DEF PropsInit, PropsInv

\* Other clients may set anything; then nothing is promised of what scripts asked.
LEMMA OtherSetsInv ==
    ASSUME PropsInv, NEW t, NEW f \in Format, NEW s \in SeqOf(Number, MaxItems), OtherSets(t, f, s)
    PROVE  PropsInv'
<1>1. f \in {1, 2, 4} /\ s \in Seq(Int)
  BY PropsAssumption, SeqOfNumbers
<1>2. [i \in DOMAIN s |-> Store(s[i], t, f)] \in Seq(Int)
  BY <1>1, CutFacts
<1>3. PropOK(server')
  BY <1>1, <1>2 DEF OtherSets, PropOK
<1> QED BY <1>3 DEF OtherSets, PropsInv

\* set_prop begins with what the first request says.
LEMMA SetPropInv ==
    ASSUME PropsInv, NEW e, NEW s \in SeqOf(Number, MaxItems), SetProp(e, s)
    PROVE  PropsInv'
<1>1. s \in Seq(Int) /\ server.format \in {1, 2, 4}
  BY SeqOfNumbers DEF PropsInv, PropOK
<1>2. SetterOK(setter')
  <2>1. SetterOK(NotSetting)
    BY DEF SetterOK, BadFormat, NotSetting
  <2>2. SetterOK([NotSetting EXCEPT !.phase = "crash"])
    BY DEF SetterOK, BadFormat, NotSetting
  <2>3. ~BadFormat(server) => SetterOK([phase |-> "change", type |-> server.type, format |-> server.format,
                                        elem |-> e, arr |-> s])
    BY <1>1 DEF SetterOK, BadFormat
  <2> QED BY <2>1, <2>2, <2>3 DEF SetProp
<1> QED BY <1>2 DEF SetProp, PropsInv

\* The request stores what was asked, something that nobody asked, or nothing.
LEMMA ChangePropInv ==
    ASSUME PropsInv, ChangeProp
    PROVE  PropsInv'
<1>1. SetterOK(setter') /\ setter.format \in {1, 2, 4} /\ setter.arr \in Seq(Int) /\ ~BadFormat(setter)
  BY DEF ChangeProp, PropsInv, SetterOK, BadFormat, NotSetting
<1>2. CASE /\ setter.arr = <<>> \/ Accepts(setter.type, setter.elem)
           /\ server' = [type |-> setter.type, format |-> setter.format,
                         items |-> [i \in DOMAIN setter.arr |-> Store(setter.arr[i], setter.type, setter.format)],
                         asked |-> setter.arr]
  <2> DEFINE v == [i \in DOMAIN setter.arr |-> Store(setter.arr[i], setter.type, setter.format)]
  <2>1. v \in Seq(Int) /\ Len(v) = Len(setter.arr)
    BY <1>1, CutFacts
  <2>2. server' = [type |-> setter.type, format |-> setter.format, items |-> v, asked |-> setter.arr]
    BY <1>2
  <2>3. \A i \in 1..Len(setter.arr) : v[i] = Store(setter.arr[i], setter.type, setter.format)
    BY <1>1
  <2>4. setter.arr # <<>> => setter.type \in {"integer", "cardinal", "float", "atom"}
    BY <1>2 DEF Accepts
  <2> HIDE DEF v
  <2>5. PropOK(server')
    BY <1>1, <2>1, <2>2, <2>3, <2>4 DEF PropOK, BadFormat
  <2> QED BY <1>1, <2>5 DEF ChangeProp, PropsInv
<1>3. CASE \E v \in SeqOf({Unsigned(n, setter.format) : n \in Number}, MaxItems) :
               server' = [type |-> setter.type, format |-> setter.format, items |-> v, asked |-> <<>>]
  <2>1. PICK v \in SeqOf({Unsigned(n, setter.format) : n \in Number}, MaxItems) :
               server' = [type |-> setter.type, format |-> setter.format, items |-> v, asked |-> <<>>]
    BY <1>3
  <2>2. {Unsigned(n, setter.format) : n \in Number} \subseteq Int
    BY <1>1, UnsignedFacts, PropsAssumption
  <2>3. v \in Seq(Int)
    <3>1. PICK n \in 0..MaxItems : v \in [1..n -> {Unsigned(m, setter.format) : m \in Number}]
      BY DEF SeqOf
    <3>2. n \in Nat /\ v \in [1..n -> Int]
      BY <2>2, <3>1, PropsAssumption
    <3> QED BY <3>2
  <2>4. PropOK(server')
    BY <1>1, <2>1, <2>3 DEF PropOK
  <2> QED BY <1>1, <2>4 DEF ChangeProp, PropsInv
<1>4. CASE UNCHANGED server
  BY <1>1, <1>4 DEF ChangeProp, PropsInv
<1> QED BY <1>2, <1>3, <1>4 DEF ChangeProp

\* The first request of get_prop.
LEMMA GetSizeInv ==
    ASSUME PropsInv, GetSize
    PROVE  PropsInv'
<1>1. Bytes(server) \in Nat
  BY DEF PropsInv, PropOK, Bytes
<1>2. getter'.bytes \in Nat
  <2>1. [NotGetting EXCEPT !.phase = "crash"].bytes \in Nat /\ NotGetting.bytes \in Nat
    BY DEF NotGetting
  <2> QED BY <1>1, <2>1 DEF GetSize
<1>3. ReadingOK(NoResult)
  <2>1. NoResult.of = NoProp /\ NoResult.kind = "bottom" /\ NoProp.asked = <<>>
    BY DEF NoResult, NoProp
  <2>2. PropOK(NoProp)
    BY DEF PropOK, NoProp
  <2> QED BY <2>1, <2>2 DEF ReadingOK
<1>4. ReadingOK(reading')
  BY <1>3 DEF GetSize, PropsInv
<1> QED BY <1>2, <1>4 DEF GetSize, PropsInv

\* The second one, with the size of the first.
LEMMA GetValueInv ==
    ASSUME PropsInv, GetValue
    PROVE  PropsInv'
<1> DEFINE items == Received(server, getter.bytes)
           kind == Kind(server, items)
<1>0. [NotGetting EXCEPT !.phase = "crash"].bytes \in Nat /\ NotGetting.bytes \in Nat
  BY DEF NotGetting
<1>1. PropOK(server) /\ getter.bytes \in Nat
  BY DEF PropsInv
<1>2. Bytes(server) \in Nat
  BY <1>1 DEF PropOK, Bytes
<1>3. Bytes(server) <= 4 * getter.bytes => items = server.items
  BY <1>1, ReceivedAll
<1>4. CASE server.type = "gone"
  BY <1>0, <1>4 DEF GetValue, PropsInv
<1>5. CASE server.type # "gone"
  <2>1. PICK v \in Values(kind, items) :
           reading' = [kind |-> kind, of |-> server, values |-> v,
                       grown |-> Bytes(server) > 4 * getter.bytes]
    BY <1>5 DEF GetValue
  <2>2. getter' = NotGetting /\ UNCHANGED <<server, setter>>
    BY <1>5 DEF GetValue
  <2>3. /\ reading'.of = server /\ reading'.kind = kind /\ reading'.values = v
        /\ reading'.grown = (Bytes(server) > 4 * getter.bytes)
    BY <2>1
  <2>4. ~reading'.grown => items = server.items
    <3>1. ASSUME ~reading'.grown PROVE ~(Bytes(server) > 4 * getter.bytes)
      BY <2>3, <3>1, Zenon
    <3>2. ~(Bytes(server) > 4 * getter.bytes) => Bytes(server) <= 4 * getter.bytes
      BY <1>1, <1>2
    <3> QED BY <1>3, <3>1, <3>2
  <2>5. server.asked # <<>> => kind \in {"single", "array"}
    BY <1>1 DEF PropOK, Kind
  <2> HIDE DEF items, kind
  <2>6. kind \in {"single", "array"} => v = items
    BY <2>1 DEF Values
  <2>7. ASSUME kind = "string", items = server.items PROVE TextOK(v, server.items)
    <3>1. v \in Text(items)
      BY <2>1, <2>7 DEF Values
    <3>2. items \in Seq(Int)
      BY <1>1, <2>7 DEF PropOK
    <3> QED BY <2>7, <3>1, <3>2, TextFacts
  <2>8. ReadingOK(reading')
    BY <1>1, <2>3, <2>4, <2>5, <2>6, <2>7 DEF ReadingOK
  <2> QED BY <1>0, <2>2, <2>8 DEF PropsInv
<1> QED BY <1>4, <1>5

\* Every step keeps the invariant.
LEMMA PropsNextInv ==
    ASSUME PropsInv, [PropsNext]_propVars
    PROVE  PropsInv'
<1>1. CASE \E t \in {"integer", "cardinal", "float", "atom", "string", "other"}, f \in Format,
              s \in SeqOf(Number, MaxItems) : OtherSets(t, f, s)
  BY <1>1, OtherSetsInv
<1>2. CASE OtherDeletes
  <2>1. PropOK(NoProp) /\ PropOK(NoDevice)
    BY DEF PropOK, NoProp, NoDevice
  <2> QED BY <1>2, <2>1 DEF OtherDeletes, PropsInv
<1>3. CASE \E e \in {"int", "float", "string", "literal", "object"}, s \in SeqOf(Number, MaxItems) : SetProp(e, s)
  BY <1>3, SetPropInv
<1>4. CASE ChangeProp
  BY <1>4, ChangePropInv
<1>5. CASE GetSize
  BY <1>5, GetSizeInv
<1>6. CASE GetValue
  BY <1>6, GetValueInv
<1>7. CASE UNCHANGED propVars
  BY <1>7 DEF propVars, PropsInv
<1> QED BY <1>1, <1>2, <1>3, <1>4, <1>5, <1>6, <1>7 DEF PropsNext

\* get_prop reads what set_prop set, item by item, where the items can hold it (a
\* number of more digits than a float has is not read as it was set), and the whole of
\* a property although it sends two requests, a string up to its NUL, while other
\* clients change and delete it; no reply, for a device that is gone, ends the program.
THEOREM PropsAlwaysExact == PropsSpec => []PropsExact
<1>1. PropsInit => PropsInv
  BY PropsInitInv
<1>2. PropsInv /\ [PropsNext]_propVars => PropsInv'
  BY PropsNextInv
<1>3. PropsInv => PropsExact
  BY ReadingFacts DEF PropsInv
<1> QED BY <1>1, <1>2, <1>3, PTL DEF PropsSpec

-----------------------------------------------------------------------------
(* XKeymap: the inductive invariant *)

\* The cells of a modifier.
Mine(cs, m) == {i \in 1..Len(cs) : cs[i].mod = m}

\* A cell leads to the one before it of the same modifier, and later cells are of
\* later keys.
CellSet == [code : Codes, next : Nat, mod : Modifier]
CellsOK(cs) ==
    /\ cs \in Seq(CellSet)
    /\ \A i \in 1..Len(cs) : /\ cs[i].next < i
                             /\ cs[i].next # 0 => cs[i].next \in Mine(cs, cs[i].mod)
    /\ \A i, j \in 1..Len(cs) : i < j /\ cs[i].mod = cs[j].mod => i <= cs[j].next /\ cs[i].code < cs[j].code

\* The cells of m are all of keys before k.
Before(cs, m, k) == \A i \in Mine(cs, m) : cs[i].code < k

\* The head of a modifier is its last cell, and its cells are counted.
HeadsOK(cs, h, c) ==
    /\ h \in [Modifier -> Nat] /\ c \in [Modifier -> Nat]
    /\ \A m \in Modifier : /\ h[m] # 0 => h[m] \in Mine(cs, m)
                           /\ \A i \in Mine(cs, m) : i <= h[m]
                           /\ c[m] = Cardinality(Mine(cs, m))

\* The first n places of a row of length p have the keys of the cells of m after c.
RowPart(cs, row, p, m, n, c) ==
    /\ row \in [1..p -> Nat] /\ n = Cardinality({j \in Mine(cs, m) : j > c})
    /\ \A i \in 1..p : i > n => row[i] = NoKey
    /\ \A i \in 1..p : i <= n => \E j \in Mine(cs, m) : j > c /\ row[i] = cs[j].code
    /\ \A j \in Mine(cs, m) : j > c => \E i \in 1..p : i <= n /\ row[i] = cs[j].code
    /\ \A i, j \in 1..p : i < j /\ j <= n => row[i] > row[j]

\* The key k was tried for the modifier m.
Tried(k, m) == phase # "measure" /\ (k < code \/ (k = code /\ phase = "link" /\ m < mod))

\* The cells are those of the keys that were tried and act on the modifier.
FoundOK ==
    phase # "overrun" => \A m \in Modifier : \A k \in Codes :
        (\E i \in Mine(cells, m) : cells[i].code = k) <=> (Tried(k, m) /\ m \in keys[k].does.mods)

\* Between two keys at most a latch is left.
CleanState(s) == s = [depressed |-> {}, latched |-> s.latched, locked |-> {}]
StateOK ==
    /\ phase \in {"measure", "press"} => CleanState(xkb)
    /\ phase = "link" => CleanState(base) /\ xkb = Down(base, code)

\* The keysyms are in place when all levels were measured.
Table ==
    [i \in 1..(PerKeycode * (MaxCode - MinCode + 1)) |->
        Cell(MinCode + ((i - 1) \div PerKeycode), ((i - 1) % PerKeycode) + 1)]
TableOK ==
    /\ width \in Nat
    /\ \A k \in Codes : phase # "measure" \/ k < code => Level(k) <= width
    /\ phase # "measure" => mapping = Table

LoopsOK ==
    /\ phase \in {"measure", "press", "link", "count", "fill", "done", "failed", "overrun"}
    /\ code \in Nat /\ code >= MinCode /\ mod \in Nat \ {0}
    /\ phase = "link" => code <= MaxCode
    /\ phase \in {"count", "fill", "done"} => code > MaxCode
    /\ phase = "measure" => cells = <<>>

\* The longest list is as long as the rows.
PerOK ==
    /\ per \in Nat
    /\ phase \in {"measure", "press", "link"} => per = 0
    /\ per # 0 => \E m \in Modifier : counts[m] = per
    /\ phase = "count" => \A m \in Modifier : m < mod => counts[m] <= per
    /\ phase \in {"fill", "done"} => \A m \in Modifier : counts[m] <= per

\* The rows before mod are complete, that of mod up to curr, and the others empty.
Filled(m) == IF m < mod THEN counts[m] ELSE IF m = mod THEN cnt ELSE 0
Rest(m) == IF m < mod THEN 0 ELSE IF m = mod THEN curr ELSE heads[m]
RowsOK ==
    /\ phase = "fill" =>
           /\ \A m \in Modifier : RowPart(cells, rows[m], per, m, Filled(m), Rest(m))
           /\ DOMAIN rows = Modifier
           /\ curr # 0 => mod \in Modifier /\ curr \in Mine(cells, mod)
    /\ phase = "done" => \A m \in Modifier : RowPart(cells, sent[m], per, m, counts[m], 0)

KeymapInv ==
    /\ keys \in [Codes -> [does : Actions, syms : Keysyms]]
    /\ LoopsOK /\ CellsOK(cells) /\ HeadsOK(cells, heads, counts)
    /\ FoundOK /\ StateOK /\ TableOK /\ PerOK /\ RowsOK

\* The constants, one by one.
LEMMA CodesFacts ==
    /\ MinCode \in Nat /\ MaxCode \in Nat /\ MinCode > 0 /\ Modifiers \in Nat
    /\ \A k \in Codes : k \in Nat /\ k # NoKey /\ MinCode <= k /\ k <= MaxCode
    /\ \A m : m \in Modifier <=> m \in Nat /\ 1 <= m /\ m <= Modifiers
<1>1. /\ MapMin \in Nat /\ MapMax \in Nat /\ ServerMin \in Nat /\ ServerMax \in Nat /\ Modifiers \in Nat
      /\ ServerMin > 0
  BY KeymapAssumption
<1>2. /\ MinCode \in Nat /\ MaxCode \in Nat /\ MinCode > 0
  BY <1>1 DEF MinCode, MaxCode
<1>3. \A k \in Codes : k \in Nat /\ k # NoKey /\ MinCode <= k /\ k <= MaxCode
  BY <1>2 DEF Codes, NoKey
<1>4. \A m : m \in Modifier <=> m \in Nat /\ 1 <= m /\ m <= Modifiers
  BY <1>1 DEF Modifier
<1> QED BY <1>1, <1>2, <1>3, <1>4

\* Row and column of a place.
LEMMA DivMod ==
    ASSUME NEW w \in Nat, w > 0, NEW q \in Nat, NEW r \in Nat, r < w
    PROVE  (q * w + r) \div w = q /\ (q * w + r) % w = r
<1> DEFINE a == q * w + r
<1> DEFINE d == a \div w
<1> DEFINE e == a % w
<1>1. a \in Nat
  OBVIOUS
<1>2. d \in Int /\ e \in Int /\ a = d * w + e /\ 0 <= e /\ e < w
  BY <1>1
<1> HIDE DEF d, e
<1>3. d = q
  <2>1. CASE d < q
    <3>1. (d + 1) * w <= q * w
      BY <1>2, <2>1
    <3>2. (d + 1) * w = d * w + w
      BY <1>2
    <3> QED BY <1>2, <3>1, <3>2
  <2>2. CASE q < d
    <3>1. (q + 1) * w <= d * w
      BY <1>2, <2>2
    <3>2. (q + 1) * w = q * w + w
      OBVIOUS
    <3> QED BY <1>2, <3>1, <3>2
  <2> QED BY <1>2, <2>1, <2>2
<1>4. e = r
  BY <1>2, <1>3
<1> QED BY <1>3, <1>4 DEF d, e

\* What a key does, and how many levels it has.
LEMMA KeyFacts ==
    ASSUME keys \in [Codes -> [does : Actions, syms : Keysyms]], NEW k \in Codes
    PROVE  /\ keys[k].does.kind \in {"plain", "set", "latch", "lock"}
           /\ keys[k].does.mods \subseteq Modifier
           /\ keys[k].does.kind = "plain" => keys[k].does.mods = {}
           /\ Level(k) \in Nat
<1>1. keys[k].does \in Actions /\ keys[k].syms \in Keysyms
  OBVIOUS
<1> QED BY <1>1, KeymapAssumption DEF Level

\* The state of xkb, by its parts.
XkbState(d, l, o) == [depressed |-> d, latched |-> l, locked |-> o]

\* Names for facts about sets, for the lemmas below.
IsNone(z) == z = {}
Joined(e, d, ms) == e = d \cup ms
Minus(f, o, p, ms) == f = o \ (p \cap ms)

\* One part of it is set.
LEMMA XkbUpdate ==
    ASSUME NEW d, NEW l, NEW o, NEW v
    PROVE  /\ [XkbState(d, l, o) EXCEPT !.depressed = v] = XkbState(v, l, o)
           /\ [XkbState(d, l, o) EXCEPT !.latched = v] = XkbState(d, v, o)
           /\ [XkbState(d, l, o) EXCEPT !.locked = v] = XkbState(d, l, v)
           /\ XkbState(d, l, o).depressed = d /\ XkbState(d, l, o).latched = l /\ XkbState(d, l, o).locked = o
  BY DEF XkbState

\* Pressing a key.
LEMMA DownFacts ==
    ASSUME NEW k, NEW d, NEW l, NEW o, NEW ms, keys[k].does.mods = ms,
           NEW z, IsNone(z), NEW e, Joined(e, d, ms), NEW f, Joined(f, o, ms)
    PROVE  /\ keys[k].does.kind = "plain" => Down(XkbState(d, l, o), k) = XkbState(d, z, o)
           /\ keys[k].does.kind \in {"set", "latch"} => Down(XkbState(d, l, o), k) = XkbState(e, l, o)
           /\ keys[k].does.kind = "lock" => Down(XkbState(d, l, o), k) = XkbState(e, l, f)
<1>1. PICK s : s = XkbState(d, l, o)
  OBVIOUS
<1>2. s.depressed \cup ms = e /\ s.locked \cup ms = f
  BY <1>1, XkbUpdate DEF Joined
<1>3. CASE keys[k].does.kind = "plain"
  <2>1. Down(s, k) = [s EXCEPT !.latched = z]
    BY <1>3 DEF Down, IsNone
  <2>2. [s EXCEPT !.latched = z] = XkbState(d, z, o)
    BY <1>1 DEF XkbState
  <2> QED BY <1>1, <1>3, <2>1, <2>2
<1>4. CASE keys[k].does.kind \in {"set", "latch"}
  <2>1. keys[k].does.kind # "plain" /\ keys[k].does.kind # "lock"
    BY <1>4
  <2>2. Down(s, k) = [s EXCEPT !.depressed = e]
    BY <1>2, <1>4, <2>1 DEF Down
  <2>3. [s EXCEPT !.depressed = e] = XkbState(e, l, o)
    BY <1>1 DEF XkbState
  <2> QED BY <1>1, <2>1, <2>2, <2>3
<1>5. CASE keys[k].does.kind = "lock"
  <2>1. keys[k].does.kind # "plain" /\ keys[k].does.kind \notin {"set", "latch"}
    BY <1>5
  <2>2. Down(s, k) = [s EXCEPT !.depressed = e, !.locked = f]
    BY <1>2, <1>5, <2>1 DEF Down
  <2>3. PICK w : w = [s EXCEPT !.depressed = e]
    OBVIOUS
  <2>4. w = XkbState(e, l, o)
    BY <1>1, <2>3 DEF XkbState
  <2>5. [w EXCEPT !.locked = f] = XkbState(e, l, f)
    BY <2>4 DEF XkbState
  <2>6. Down(s, k) = XkbState(e, l, f)
    BY <2>2, <2>3, <2>5
  <2> QED BY <1>1, <2>1, <2>6
<1> QED BY <1>3, <1>4, <1>5

\* Releasing it.
LEMMA UpFacts ==
    ASSUME NEW k, NEW d, NEW l, NEW o, NEW t, NEW p, t.locked = p, NEW ms, keys[k].does.mods = ms,
           NEW z, IsNone(z), NEW e, Joined(e, l, ms), NEW f, Minus(f, o, p, ms)
    PROVE  /\ keys[k].does.kind \in {"plain", "set"} => Up(XkbState(d, l, o), k, t) = XkbState(z, l, o)
           /\ keys[k].does.kind = "latch" => Up(XkbState(d, l, o), k, t) = XkbState(z, e, o)
           /\ keys[k].does.kind = "lock" => Up(XkbState(d, l, o), k, t) = XkbState(z, l, f)
<1>1. PICK s : s = XkbState(d, l, o)
  OBVIOUS
<1>2. PICK u : u = XkbState(z, l, o)
  OBVIOUS
<1>3. [s EXCEPT !.depressed = z] = u
  BY <1>1, <1>2 DEF XkbState
<1>4. u.latched \cup ms = e /\ u.locked \ (t.locked \cap ms) = f
  BY <1>2, XkbUpdate DEF Joined, Minus
<1>5. CASE keys[k].does.kind \in {"plain", "set"}
  <2>1. keys[k].does.kind # "latch" /\ keys[k].does.kind # "lock"
    BY <1>5
  <2>2. Up(s, k, t) = u
    BY <1>3, <2>1 DEF Up, IsNone
  <2> QED BY <1>1, <1>2, <2>1, <2>2
<1>6. CASE keys[k].does.kind = "latch"
  <2>1. Up(s, k, t) = [u EXCEPT !.latched = e]
    BY <1>3, <1>4, <1>6 DEF Up, IsNone
  <2>2. [u EXCEPT !.latched = e] = XkbState(z, e, o)
    BY <1>2 DEF XkbState
  <2> QED BY <1>1, <1>6, <2>1, <2>2
<1>7. CASE keys[k].does.kind = "lock"
  <2>1. Up(s, k, t) = [u EXCEPT !.locked = f]
    BY <1>3, <1>4, <1>7 DEF Up, IsNone
  <2>2. [u EXCEPT !.locked = f] = XkbState(z, l, f)
    BY <1>2 DEF XkbState
  <2> QED BY <1>1, <1>7, <2>1, <2>2
<1> QED BY <1>5, <1>6, <1>7

\* What changed, of two states.
LEMMA ChangedFacts ==
    ASSUME NEW d, NEW l, NEW o, NEW e, NEW b, NEW p
    PROVE  /\ "depressed" \in Changed(XkbState(d, l, o), XkbState(e, b, p)) <=> d # e
           /\ "latched" \in Changed(XkbState(d, l, o), XkbState(e, b, p)) <=> l # b
           /\ "locked" \in Changed(XkbState(d, l, o), XkbState(e, b, p)) <=> o # p
           /\ \A m : (\E c \in Changed(XkbState(d, l, o), XkbState(e, b, p)) : m \in XkbState(e, b, p)[c])
                   <=> (d # e /\ m \in e) \/ (l # b /\ m \in b) \/ (o # p /\ m \in p)
<1> DEFINE s == XkbState(d, l, o)
<1> DEFINE t == XkbState(e, b, p)
<1>1. s.depressed = d /\ s.latched = l /\ s.locked = o /\ t.depressed = e /\ t.latched = b /\ t.locked = p
  BY DEF XkbState
<1>2. s["depressed"] = d /\ s["latched"] = l /\ s["locked"] = o /\ t["depressed"] = e /\ t["latched"] = b /\ t["locked"] = p
  BY <1>1
<1> SUFFICES /\ "depressed" \in Changed(s, t) <=> d # e
             /\ "latched" \in Changed(s, t) <=> l # b
             /\ "locked" \in Changed(s, t) <=> o # p
             /\ \A m : (\E c \in Changed(s, t) : m \in t[c])
                   <=> (d # e /\ m \in e) \/ (l # b /\ m \in b) \/ (o # p /\ m \in p)
  OBVIOUS
<1> HIDE DEF s, t
<1>3. Changed(s, t) = {c \in {"depressed", "latched", "locked"} : s[c] # t[c]}
  BY DEF Changed
<1>4. /\ "depressed" \in Changed(s, t) <=> d # e
      /\ "latched" \in Changed(s, t) <=> l # b
      /\ "locked" \in Changed(s, t) <=> o # p
  BY <1>2, <1>3
<1>5. ASSUME NEW m
      PROVE  (\E c \in Changed(s, t) : m \in t[c])
                 <=> (d # e /\ m \in e) \/ (l # b /\ m \in b) \/ (o # p /\ m \in p)
  <2>1. (\E c \in Changed(s, t) : m \in t[c]) <=>
            \/ "depressed" \in Changed(s, t) /\ m \in t["depressed"]
            \/ "latched" \in Changed(s, t) /\ m \in t["latched"]
            \/ "locked" \in Changed(s, t) /\ m \in t["locked"]
    BY <1>3
  <2> QED BY <1>2, <1>4, <2>1
<1> QED BY <1>4, <1>5

\* A key that is pressed in a clean state changes exactly the modifiers it acts on.
LEMMA PressFacts ==
    ASSUME keys \in [Codes -> [does : Actions, syms : Keysyms]], NEW k \in Codes,
           NEW s, CleanState(s), NEW m
    PROVE  (\E c \in Changed(s, Down(s, k)) : m \in Down(s, k)[c]) <=> m \in keys[k].does.mods
<1>1. PICK ms : ms = keys[k].does.mods
  OBVIOUS
<1>2. PICK z : z = {}
  OBVIOUS
<1>3. keys[k].does.kind \in {"plain", "set", "latch", "lock"} /\ (keys[k].does.kind = "plain" => ms = z)
  BY <1>1, <1>2, KeyFacts
<1>4. PICK l : s = XkbState(z, l, z)
  BY <1>2 DEF CleanState, XkbState
<1>5. IsNone(z) /\ Joined(ms, z, ms) /\ (m \in ms => ms # z) /\ m \notin z
  BY <1>2 DEF IsNone, Joined
<1>6. CASE keys[k].does.kind = "plain"
  <2>1. Down(s, k) = XkbState(z, z, z)
    BY <1>1, <1>4, <1>5, <1>6, DownFacts, SMTT(20)
  <2>2. ~\E c \in Changed(s, Down(s, k)) : m \in Down(s, k)[c]
    BY <1>4, <1>5, <2>1, ChangedFacts
  <2> QED BY <1>1, <1>3, <1>5, <1>6, <2>2
<1>7. CASE keys[k].does.kind \in {"set", "latch"}
  <2>1. Down(s, k) = XkbState(ms, l, z)
    BY <1>1, <1>4, <1>5, <1>7, DownFacts, SMTT(20)
  <2>2. (\E c \in Changed(s, Down(s, k)) : m \in Down(s, k)[c]) <=> z # ms /\ m \in ms
    BY <1>4, <2>1, ChangedFacts
  <2> QED BY <1>1, <1>5, <2>2
<1>8. CASE keys[k].does.kind = "lock"
  <2>1. Down(s, k) = XkbState(ms, l, ms)
    BY <1>1, <1>4, <1>5, <1>8, DownFacts, SMTT(20)
  <2>2. (\E c \in Changed(s, Down(s, k)) : m \in Down(s, k)[c]) <=> z # ms /\ m \in ms
    BY <1>4, <2>1, ChangedFacts
  <2> QED BY <1>1, <1>5, <2>2
<1> QED BY <1>3, <1>6, <1>7, <1>8

\* It leaves a clean state behind: a lock is undone, or there was none.
LEMMA SettleFacts ==
    ASSUME keys \in [Codes -> [does : Actions, syms : Keysyms]], NEW k \in Codes,
           NEW s, CleanState(s)
    PROVE  CleanState(Settle(s, k, Changed(s, Down(s, k))))
<1>1. PICK ms : ms = keys[k].does.mods
  OBVIOUS
<1>2. PICK z : z = {}
  OBVIOUS
<1>3. keys[k].does.kind \in {"plain", "set", "latch", "lock"}
  BY KeyFacts
<1>4. PICK l : s = XkbState(z, l, z)
  BY <1>2 DEF CleanState, XkbState
<1>5. \A x : CleanState(XkbState(z, x, z)) /\ XkbState(z, x, z).locked = z
  BY <1>2 DEF CleanState, XkbState
<1>6. CleanState(Released)
  BY DEF CleanState, Released
<1>7. /\ IsNone(z) /\ Joined(ms, z, ms) /\ Joined(ms, ms, ms)
      /\ Minus(ms, ms, z, ms) /\ Minus(z, ms, ms, ms) /\ Minus(z, z, z, ms)
  BY <1>2 DEF IsNone, Joined, Minus
<1>8. PICK u : u = Changed(s, Down(s, k))
  OBVIOUS
<1>9. SUFFICES CleanState(IF "locked" \in u THEN Typed(Typed(s, k), k) ELSE Typed(s, k))
  BY <1>6, <1>8 DEF Settle
<1>10. PICK e : s.locked = z /\ Joined(e, l, ms)
  BY <1>4, <1>5 DEF Joined
<1>11. CASE keys[k].does.kind = "plain"
  <2>1. Down(s, k) = XkbState(z, z, z)
    BY <1>1, <1>7, <1>4, <1>11, DownFacts, SMTT(20)
  <2>2. "locked" \notin u
    BY <1>4, <1>8, <2>1, ChangedFacts
  <2>3. Up(XkbState(z, z, z), k, s) = XkbState(z, z, z)
    BY <1>1, <1>7, <1>10, <1>11, UpFacts, SMTT(20)
  <2> QED BY <1>5, <2>1, <2>2, <2>3 DEF Typed
<1>12. CASE keys[k].does.kind = "set"
  <2>1. Down(s, k) = XkbState(ms, l, z)
    BY <1>1, <1>4, <1>7, <1>12, DownFacts, SMTT(20)
  <2>2. "locked" \notin u
    BY <1>4, <1>8, <2>1, ChangedFacts
  <2>3. Up(XkbState(ms, l, z), k, s) = XkbState(z, l, z)
    BY <1>1, <1>7, <1>10, <1>12, UpFacts, SMTT(20)
  <2> QED BY <1>5, <2>1, <2>2, <2>3 DEF Typed
<1>13. CASE keys[k].does.kind = "latch"
  <2>1. Down(s, k) = XkbState(ms, l, z)
    BY <1>1, <1>4, <1>7, <1>13, DownFacts, SMTT(20)
  <2>2. "locked" \notin u
    BY <1>4, <1>8, <2>1, ChangedFacts
  <2>3. Up(XkbState(ms, l, z), k, s) = XkbState(z, e, z)
    BY <1>1, <1>7, <1>10, <1>13, UpFacts, SMTT(20)
  <2> QED BY <1>5, <2>1, <2>2, <2>3 DEF Typed
<1>14. CASE keys[k].does.kind = "lock"
  <2>1. Down(s, k) = XkbState(ms, l, ms)
    BY <1>1, <1>4, <1>7, <1>14, DownFacts, SMTT(20)
  <2>2. Up(XkbState(ms, l, ms), k, s) = XkbState(z, l, ms)
    BY <1>1, <1>7, <1>10, <1>14, UpFacts, SMTT(20)
  <2>3. PICK v : v = XkbState(z, l, ms)
    OBVIOUS
  <2>4. Down(v, k) = XkbState(ms, l, ms) /\ v.locked = ms
    <3>1. Down(v, k) = XkbState(ms, l, ms)
      BY <1>1, <1>7, <1>14, <2>3, DownFacts, SMTT(20)
    <3>2. v.locked = ms
      BY <2>3, XkbUpdate
    <3> QED BY <3>1, <3>2
  <2>5. Up(XkbState(ms, l, ms), k, v) = XkbState(z, l, z)
    BY <1>1, <1>7, <1>10, <1>14, <2>4, UpFacts, SMTT(20)
  <2>6. "locked" \notin u => ms = z
    BY <1>4, <1>8, <2>1, ChangedFacts
  <2>7. Typed(s, k) = v /\ Typed(v, k) = XkbState(z, l, z)
    BY <2>1, <2>2, <2>3, <2>4, <2>5 DEF Typed
  <2> QED BY <1>5, <2>3, <2>6, <2>7
<1> QED BY <1>3, <1>11, <1>12, <1>13, <1>14

\* What is in a cell.
LEMMA CellFacts ==
    ASSUME NEW cs, CellsOK(cs), NEW i \in 1..Len(cs)
    PROVE  /\ cs[i] \in CellSet /\ cs[i].code \in Codes /\ cs[i].code \in Nat /\ cs[i].code # NoKey
           /\ cs[i].next \in Nat /\ cs[i].mod \in Modifier
           /\ Len(cs) \in Nat /\ i \in Nat /\ i > 0
<1>1. cs \in Seq(CellSet)
  BY DEF CellsOK
<1>2. cs[i] \in CellSet /\ Len(cs) \in Nat
  BY <1>1
<1>3. cs[i].code \in Codes /\ cs[i].next \in Nat /\ cs[i].mod \in Modifier
  BY <1>2 DEF CellSet
<1> QED BY <1>2, <1>3, CodesFacts

\* The cells of a list.
LEMMA MineFacts ==
    ASSUME NEW cs, NEW m, NEW i \in Mine(cs, m)
    PROVE  i \in 1..Len(cs) /\ cs[i].mod = m
  BY DEF Mine

\* A new cell.
HeadAt(h, m, i) == [h EXCEPT ![m] = i]
OneMore(c, m) == [c EXCEPT ![m] = @ + 1]
Linked(d, cs, k, h, m) == d = Append(cs, [code |-> k, next |-> h[m], mod |-> m])

\* A new cell at the head of the list of m.
LEMMA LinkFacts ==
    ASSUME NEW cs, CellsOK(cs), NEW h, NEW c, HeadsOK(cs, h, c),
           NEW m \in Modifier, NEW k \in Codes, Before(cs, m, k),
           NEW d, Linked(d, cs, k, h, m)
    PROVE  /\ CellsOK(d)
           /\ HeadsOK(d, HeadAt(h, m, Len(cs) + 1), OneMore(c, m))
           /\ Mine(d, m) = Mine(cs, m) \cup {Len(cs) + 1} /\ d[Len(cs) + 1].code = k
           /\ \A n \in Modifier : n # m => Mine(d, n) = Mine(cs, n)
           /\ \A i \in 1..Len(cs) : d[i] = cs[i]
<1> DEFINE n == Len(cs)
<1> DEFINE x == [code |-> k, next |-> h[m], mod |-> m]
<1>1. cs \in Seq(CellSet) /\ n \in Nat /\ h[m] \in Nat
  BY DEF CellsOK, HeadsOK
<1>2. x \in CellSet
  BY <1>1 DEF CellSet
<1>3. d \in Seq(CellSet) /\ Len(d) = n + 1 /\ (\A i \in 1..n : d[i] = cs[i]) /\ d[n + 1] = x
  BY <1>1, <1>2 DEF Linked
<1>4. x.code = k /\ x.next = h[m] /\ x.mod = m
  OBVIOUS
<1>5. 1..Len(d) = 1..n \cup {n + 1}
  BY <1>1, <1>3
<1> HIDE DEF x
<1>6. Mine(d, m) = Mine(cs, m) \cup {n + 1}
  BY <1>3, <1>4, <1>5 DEF Mine
<1>7. \A a \in Modifier : a # m => Mine(d, a) = Mine(cs, a)
  BY <1>3, <1>4, <1>5 DEF Mine
<1>8. \A a : Mine(cs, a) \subseteq 1..n
  BY DEF Mine
<1>9. ASSUME NEW i \in 1..Len(d)
      PROVE  d[i].next < i /\ (d[i].next # 0 => d[i].next \in Mine(d, d[i].mod))
  <2>1. CASE i \in 1..n
    <3>1. cs[i].next < i /\ (cs[i].next # 0 => cs[i].next \in Mine(cs, cs[i].mod)) /\ d[i] = cs[i]
      BY <1>3, <2>1 DEF CellsOK
    <3>2. cs[i].mod \in Modifier
      BY <2>1, CellFacts
    <3>3. Mine(cs, cs[i].mod) \subseteq Mine(d, cs[i].mod)
      BY <1>6, <1>7, <3>2
    <3> QED BY <3>1, <3>3
  <2>2. CASE i = n + 1
    <3>1. d[i].next = h[m] /\ d[i].mod = m
      BY <1>3, <1>4, <2>2
    <3>2. h[m] # 0 => h[m] \in Mine(cs, m)
      BY DEF HeadsOK
    <3>3. h[m] < n + 1
      BY <1>1, <1>8, <3>2
    <3> QED BY <1>6, <2>2, <3>1, <3>2, <3>3
  <2> QED BY <1>5, <2>1, <2>2
<1>10. ASSUME NEW i \in 1..Len(d), NEW j \in 1..Len(d), i < j, d[i].mod = d[j].mod
       PROVE  i <= d[j].next /\ d[i].code < d[j].code
  <2>1. i \in 1..n
    BY <1>1, <1>3, <1>10
  <2>2. CASE j \in 1..n
    BY <1>3, <1>10, <2>1, <2>2 DEF CellsOK
  <2>3. CASE j = n + 1
    <3>1. i \in Mine(cs, m)
      BY <1>3, <1>4, <1>10, <2>1, <2>3 DEF Mine
    <3>2. i <= h[m] /\ cs[i].code < k
      BY <3>1 DEF HeadsOK, Before
    <3> QED BY <1>3, <1>4, <2>1, <2>3, <3>2
  <2> QED BY <1>5, <2>2, <2>3
<1>11. CellsOK(d)
  BY <1>3, <1>9, <1>10 DEF CellsOK
<1>12. HeadsOK(d, [h EXCEPT ![m] = n + 1], [c EXCEPT ![m] = @ + 1])
  <2> DEFINE h2 == [h EXCEPT ![m] = n + 1]
  <2> DEFINE c2 == [c EXCEPT ![m] = @ + 1]
  <2>1. h \in [Modifier -> Nat] /\ c \in [Modifier -> Nat]
    BY DEF HeadsOK
  <2>2. /\ h2 \in [Modifier -> Nat] /\ c2 \in [Modifier -> Nat]
        /\ h2[m] = n + 1 /\ c2[m] = c[m] + 1
        /\ \A a \in Modifier : a # m => h2[a] = h[a] /\ c2[a] = c[a]
    BY <1>1, <2>1
  <2> HIDE DEF h2, c2
  <2>3. Cardinality(Mine(d, m)) = Cardinality(Mine(cs, m)) + 1
    <3>1. IsFiniteSet(1..n)
      BY <1>1, FS_Interval
    <3>2. IsFiniteSet(Mine(cs, m))
      BY <1>8, <3>1, FS_Subset
    <3>3. n + 1 \notin Mine(cs, m)
      BY <1>1, <1>8
    <3> QED BY <1>6, <3>2, <3>3, FS_AddElement
  <2>4. ASSUME NEW a \in Modifier
        PROVE  /\ h2[a] # 0 => h2[a] \in Mine(d, a)
               /\ \A i \in Mine(d, a) : i <= h2[a]
               /\ c2[a] = Cardinality(Mine(d, a))
    <3>1. CASE a = m
      <4>1. \A i \in Mine(d, m) : i <= n + 1
        BY <1>1, <1>6, <1>8
      <4>2. c[m] = Cardinality(Mine(cs, m))
        BY DEF HeadsOK
      <4> QED BY <1>6, <2>2, <2>3, <3>1, <4>1, <4>2
    <3>2. CASE a # m
      BY <1>7, <2>2, <3>2 DEF HeadsOK
    <3> QED BY <3>1, <3>2
  <2> QED BY <2>2, <2>4 DEF HeadsOK, h2, c2
<1> QED BY <1>3, <1>4, <1>6, <1>7, <1>11, <1>12 DEF HeadAt, OneMore

\* The cells after one are finitely many.
LEMMA MineFinite ==
    ASSUME NEW cs, CellsOK(cs), NEW m, NEW c
    PROVE  /\ IsFiniteSet(Mine(cs, m)) /\ IsFiniteSet({j \in Mine(cs, m) : j > c})
           /\ Cardinality({j \in Mine(cs, m) : j > c}) \in Nat
           /\ Mine(cs, m) \subseteq 1..Len(cs) /\ Len(cs) \in Nat
<1>1. Len(cs) \in Nat
  BY DEF CellsOK
<1>2. Mine(cs, m) \subseteq 1..Len(cs)
  BY DEF Mine
<1>3. IsFiniteSet(Mine(cs, m))
  <2>1. IsFiniteSet(1..Len(cs))
    BY <1>1, FS_Interval
  <2> QED BY <1>2, <2>1, FS_Subset
<1>4. IsFiniteSet({j \in Mine(cs, m) : j > c})
  BY <1>3, FS_Subset
<1> QED BY <1>1, <1>2, <1>3, <1>4, FS_CardinalityType

\* One cell more of a list goes to its row, which has a place for it.
LEMMA FillFacts ==
    ASSUME NEW cs, CellsOK(cs), NEW m, NEW p \in Nat, Cardinality(Mine(cs, m)) <= p,
           NEW row, NEW n, NEW c \in Mine(cs, m), RowPart(cs, row, p, m, n, c)
    PROVE  /\ n \in Nat /\ n < p
           /\ RowPart(cs, [row EXCEPT ![n + 1] = cs[c].code], p, m, n + 1, cs[c].next)
           /\ cs[c].next # 0 => cs[c].next \in Mine(cs, m)
<1> DEFINE S == Mine(cs, m)
<1> DEFINE A == {j \in S : j > c}
<1> DEFINE e == cs[c].next
<1> DEFINE B == {j \in S : j > e}
<1> DEFINE r2 == [row EXCEPT ![n + 1] = cs[c].code]
<1>1. /\ S \subseteq 1..Len(cs) /\ Len(cs) \in Nat /\ IsFiniteSet(S) /\ IsFiniteSet(A)
      /\ Cardinality(A) \in Nat
  BY MineFinite
<1>2. n = Cardinality(A) /\ n \in Nat /\ row \in [1..p -> Nat]
  BY <1>1 DEF RowPart
<1>3. /\ c \in S /\ c \in 1..Len(cs) /\ c \in Nat /\ cs[c].mod = m /\ cs[c] \in CellSet /\ cs[c].code \in Nat
      /\ \A j \in S : j \in 1..Len(cs) /\ j \in Nat /\ cs[j].mod = m /\ cs[j].code \in Nat
  <2>1. \A j \in S : j \in 1..Len(cs) /\ cs[j].mod = m
    BY MineFacts
  <2>2. \A j \in 1..Len(cs) : j \in Nat /\ cs[j].code \in Nat /\ cs[j] \in CellSet
    BY CellFacts
  <2> QED BY <2>1, <2>2
<1>4. /\ e < c /\ (e # 0 => e \in S) /\ e \in Nat
      /\ \A j \in S : j < c => j <= e /\ cs[j].code < cs[c].code
      /\ \A j \in S : j > c => cs[j].code > cs[c].code
  BY <1>3 DEF CellsOK, CellSet
<1>5. B = A \cup {c} /\ c \notin A
  BY <1>3, <1>4
<1>6. Cardinality(B) = n + 1
  BY <1>1, <1>2, <1>5, FS_AddElement
<1>7. n + 1 <= p
  <2>1. Cardinality(B) <= Cardinality(S) /\ Cardinality(S) \in Nat
    BY <1>1, FS_Subset, FS_CardinalityType
  <2> QED BY <1>2, <1>6, <2>1
<1>8. n + 1 \in 1..p
  BY <1>2, <1>7
<1>9. /\ r2 \in [1..p -> Nat] /\ r2[n + 1] = cs[c].code
      /\ \A i \in 1..p : i # n + 1 => r2[i] = row[i]
  BY <1>2, <1>3, <1>8
<1>10. /\ \A i \in 1..p : i > n => row[i] = NoKey
       /\ \A i \in 1..p : i <= n => \E j \in S : j > c /\ row[i] = cs[j].code
       /\ \A j \in S : j > c => \E i \in 1..p : i <= n /\ row[i] = cs[j].code
       /\ \A i, j \in 1..p : i < j /\ j <= n => row[i] > row[j]
  BY DEF RowPart
<1> HIDE DEF S, e, r2
<1>11. ASSUME NEW i \in 1..p, i > n + 1 PROVE r2[i] = NoKey
  <2>1. i > n /\ i # n + 1
    BY <1>2, <1>11
  <2> QED BY <1>9, <1>10, <2>1
<1>12. ASSUME NEW i \in 1..p, i <= n + 1
       PROVE  \E j \in S : j > e /\ r2[i] = cs[j].code
  <2>1. CASE i = n + 1
    BY <1>3, <1>4, <1>9, <2>1
  <2>2. CASE i <= n
    <3>1. PICK j \in S : j > c /\ row[i] = cs[j].code
      BY <1>10, <2>2
    <3>2. j \in B /\ r2[i] = row[i]
      BY <1>2, <1>5, <1>9, <2>2, <3>1
    <3> QED BY <3>1, <3>2
  <2> QED BY <1>2, <1>12, <2>1, <2>2
<1>13. ASSUME NEW j \in S, j > e
       PROVE  \E i \in 1..p : i <= n + 1 /\ r2[i] = cs[j].code
  <2>1. j \in A \cup {c}
    BY <1>5, <1>13
  <2>2. CASE j = c
    BY <1>2, <1>8, <1>9, <2>2
  <2>3. CASE j \in A
    <3>1. PICK i \in 1..p : i <= n /\ row[i] = cs[j].code
      BY <1>10, <2>3
    <3>2. i <= n + 1 /\ r2[i] = row[i]
      BY <1>2, <1>9, <3>1
    <3> QED BY <3>1, <3>2
  <2> QED BY <2>1, <2>2, <2>3
<1>14. ASSUME NEW i \in 1..p, NEW j \in 1..p, i < j, j <= n + 1
       PROVE  r2[i] > r2[j]
  <2>1. r2[i] = row[i] /\ i <= n
    BY <1>2, <1>9, <1>14
  <2>2. CASE j <= n
    <3>1. r2[j] = row[j]
      BY <1>2, <1>9, <2>2
    <3>2. row[i] > row[j]
      BY <1>10, <1>14, <2>2
    <3> QED BY <2>1, <3>1, <3>2
  <2>3. CASE j = n + 1
    <3>1. PICK a \in S : a > c /\ row[i] = cs[a].code
      BY <1>10, <2>1
    <3> QED BY <1>4, <1>9, <2>1, <2>3, <3>1
  <2> QED BY <1>2, <1>14, <2>2, <2>3
<1>15. RowPart(cs, r2, p, m, n + 1, e)
  BY <1>6, <1>9, <1>11, <1>12, <1>13, <1>14 DEF RowPart, S
<1> QED BY <1>2, <1>4, <1>7, <1>15 DEF S, e, r2

\* Before the first key was pressed there are no cells.
LEMMA NoCells ==
    ASSUME NEW h, NEW c, h = [m \in Modifier |-> 0], c = [m \in Modifier |-> 0]
    PROVE  /\ CellsOK(<<>>) /\ HeadsOK(<<>>, h, c)
           /\ \A m : Mine(<<>>, m) = {}
<1>1. \A m : Mine(<<>>, m) = {}
  BY DEF Mine
<1>2. CellsOK(<<>>)
  BY DEF CellsOK
<1>3. Cardinality({}) = 0
  BY FS_EmptySet
<1>4. HeadsOK(<<>>, h, c)
  BY <1>1, <1>3 DEF HeadsOK
<1> QED BY <1>1, <1>2, <1>4

\* The state of set_keymap at its start.
LEMMA KeymapInitInv ==
    ASSUME KeymapInit
    PROVE  KeymapInv
<1>1. /\ keys \in [Codes -> [does : Actions, syms : Keysyms]]
      /\ phase = "measure" /\ code = MinCode /\ width = 0 /\ mod = 1 /\ per = 0
      /\ xkb = Released /\ cells = <<>>
      /\ heads = [m \in Modifier |-> 0] /\ counts = [m \in Modifier |-> 0]
  BY DEF KeymapInit, KeymapStart
<1>2. LoopsOK
  BY <1>1, CodesFacts DEF LoopsOK
<1>3. CellsOK(cells) /\ HeadsOK(cells, heads, counts) /\ \A m : Mine(cells, m) = {}
  BY <1>1, NoCells
<1>4. FoundOK
  BY <1>1, <1>3 DEF FoundOK, Tried
<1>5. StateOK
  BY <1>1 DEF StateOK, CleanState, Released
<1>6. TableOK
  BY <1>1, CodesFacts DEF TableOK
<1>7. PerOK /\ RowsOK
  BY <1>1 DEF PerOK, RowsOK
<1> QED BY <1>1, <1>2, <1>3, <1>4, <1>5, <1>6, <1>7 DEF KeymapInv

\* The levels of one key more are measured.
LEMMA MeasureKeyInv ==
    ASSUME KeymapInv, MeasureKey
    PROVE  KeymapInv'
<1>1. /\ phase = "measure" /\ phase' = phase /\ code <= MaxCode /\ code' = code + 1
      /\ width' = Larger(Level(code), width)
      /\ keys' = keys /\ mapping' = mapping /\ base' = base /\ xkb' = xkb /\ mod' = mod /\ heads' = heads
      /\ counts' = counts /\ cells' = cells /\ per' = per
  BY DEF MeasureKey
<1>2. code \in Nat /\ code >= MinCode /\ width \in Nat
  BY DEF KeymapInv, LoopsOK, TableOK
<1>3. code \in Codes
  BY <1>1, <1>2, CodesFacts DEF Codes
<1>4. Level(code) \in Nat
  BY <1>3, KeyFacts DEF KeymapInv
<1>5. width' \in Nat /\ width' >= width /\ width' >= Level(code)
  BY <1>1, <1>2, <1>4 DEF Larger
<1>6. LoopsOK'
  BY <1>1, <1>2, CodesFacts DEF KeymapInv, LoopsOK
<1>7. FoundOK'
  BY <1>1 DEF KeymapInv, FoundOK, Tried
<1>8. TableOK'
  <2>1. ASSUME NEW k \in Codes, k < code' PROVE Level(k)' <= width'
    <3>1. k \in Nat /\ Level(k) \in Nat /\ Level(k)' = Level(k)
      BY <1>1, <2>1, CodesFacts, KeyFacts DEF KeymapInv, Level
    <3>2. CASE k < code
      <4>1. Level(k) <= width
        BY <3>2 DEF KeymapInv, TableOK
      <4> QED BY <1>2, <1>5, <3>1, <4>1
    <3>3. CASE k = code
      BY <1>5, <3>1, <3>3
    <3> QED BY <1>1, <1>2, <2>1, <3>1, <3>2, <3>3
  <2> QED BY <1>1, <1>5, <2>1 DEF TableOK
<1>9. StateOK' /\ PerOK' /\ RowsOK'
  BY <1>1 DEF KeymapInv, StateOK, PerOK, RowsOK
<1> QED BY <1>1, <1>6, <1>7, <1>8, <1>9 DEF KeymapInv

\* The table of keysyms is sent when all keys were measured.
LEMMA SendKeysymsInv ==
    ASSUME KeymapInv, SendKeysyms
    PROVE  KeymapInv'
<1>1. /\ phase = "measure" /\ phase' = "press" /\ code > MaxCode /\ code' = MinCode
      /\ mapping' = Table /\ width' = width
      /\ keys' = keys /\ base' = base /\ xkb' = xkb /\ mod' = mod /\ heads' = heads
      /\ counts' = counts /\ cells' = cells /\ per' = per
  BY DEF SendKeysyms, Table
<1>2. code \in Nat /\ width \in Nat
  BY DEF KeymapInv, LoopsOK, TableOK
<1>3. LoopsOK'
  BY <1>1, CodesFacts DEF KeymapInv, LoopsOK
<1>4. FoundOK'
  <2>1. \A k \in Codes : ~(k < MinCode)
    BY CodesFacts
  <2> QED BY <1>1, <2>1 DEF KeymapInv, FoundOK, Tried
<1>5. TableOK'
  <2>1. Table' = Table
    BY <1>1 DEF Table, PerKeycode, Cell, Level
  <2>2. ASSUME NEW k \in Codes PROVE Level(k)' <= width'
    <3>1. k < code
      BY <1>1, <1>2, CodesFacts
    <3> QED BY <1>1, <3>1 DEF KeymapInv, TableOK, Level
  <2> QED BY <1>1, <1>2, <2>1, <2>2 DEF TableOK
<1>6. StateOK' /\ PerOK' /\ RowsOK'
  BY <1>1 DEF KeymapInv, StateOK, PerOK, RowsOK
<1> QED BY <1>1, <1>3, <1>4, <1>5, <1>6 DEF KeymapInv

\* The keysyms stay where they are.
LEMMA TableStays ==
    ASSUME KeymapInv, phase # "measure", phase' # "measure",
           keys' = keys, width' = width, mapping' = mapping
    PROVE  TableOK'
<1>1. Table' = Table
  BY DEF Table, PerKeycode, Cell, Level
<1>2. \A k \in Codes : Level(k)' = Level(k)
  BY DEF Level
<1> QED BY <1>1, <1>2 DEF KeymapInv, TableOK

\* A key is pressed.
LEMMA PressKeyInv ==
    ASSUME KeymapInv, PressKey
    PROVE  KeymapInv'
<1>1. /\ phase = "press" /\ phase' = "link" /\ code <= MaxCode /\ code' = code /\ mod' = 1
      /\ base' = xkb /\ xkb' = Down(xkb, code) /\ mapping' = mapping /\ width' = width
      /\ keys' = keys /\ heads' = heads
      /\ counts' = counts /\ cells' = cells /\ per' = per
  BY DEF PressKey
<1>2. LoopsOK'
  BY <1>1 DEF KeymapInv, LoopsOK
<1>3. FoundOK'
  <2>1. \A m \in Modifier : ~(m < 1)
    BY CodesFacts
  <2> QED BY <1>1, <2>1 DEF KeymapInv, FoundOK, Tried
<1>4. StateOK'
  <2>1. CleanState(xkb)
    BY <1>1 DEF KeymapInv, StateOK
  <2>2. Down(base, code)' = Down(xkb, code)
    BY <1>1 DEF Down
  <2> QED BY <1>1, <2>1, <2>2 DEF StateOK
<1>5. TableOK'
  BY <1>1, TableStays
<1>6. PerOK' /\ RowsOK'
  BY <1>1 DEF KeymapInv, PerOK, RowsOK
<1> QED BY <1>1, <1>2, <1>3, <1>4, <1>5, <1>6 DEF KeymapInv

\* One modifier of a pressed key.
LEMMA LinkModifierInv ==
    ASSUME KeymapInv, LinkModifier
    PROVE  KeymapInv'
<1>1. /\ phase = "link" /\ mod <= Modifiers /\ code' = code
      /\ base' = base /\ xkb' = xkb /\ mapping' = mapping /\ width' = width
      /\ keys' = keys /\ per' = per
  BY DEF LinkModifier
<1>2. /\ code \in Codes /\ mod \in Modifier /\ code \in Nat /\ mod \in Nat
  BY <1>1, CodesFacts DEF KeymapInv, LoopsOK, Codes
<1>3. Active <=> mod \in keys[code].does.mods
  BY <1>1, <1>2, PressFacts DEF KeymapInv, StateOK, Active
<1>4. Down(base, code)' = Down(base, code)
  BY <1>1 DEF Down
<1>5. ASSUME phase' = phase PROVE StateOK' /\ TableOK' /\ RowsOK'
  BY <1>1, <1>4, <1>5, TableStays DEF KeymapInv, StateOK, RowsOK
<1>6. per = 0
  BY <1>1 DEF KeymapInv, PerOK
<1>7. CASE ~Active
  <2>1. mod' = mod + 1 /\ cells' = cells /\ heads' = heads /\ counts' = counts /\ phase' = phase
    BY <1>7 DEF LinkModifier
  <2>2. LoopsOK' /\ PerOK'
    BY <1>1, <1>2, <1>6, <2>1 DEF KeymapInv, LoopsOK, PerOK
  <2>3. FoundOK'
    <3>1. ASSUME NEW m \in Modifier, NEW k \in Codes
          PROVE  (Tried(k, m) /\ m \in keys[k].does.mods)' <=> (Tried(k, m) /\ m \in keys[k].does.mods)
      <4>1. m \in Nat /\ (m < mod + 1 <=> (m < mod \/ m = mod))
        BY <1>2, CodesFacts
      <4> QED BY <1>1, <1>3, <1>7, <2>1, <4>1 DEF Tried
    <3> QED BY <1>1, <2>1, <3>1 DEF KeymapInv, FoundOK
  <2> QED BY <1>1, <1>5, <2>1, <2>2, <2>3 DEF KeymapInv
<1>8. CASE Active /\ Len(cells) = MaxCells
  <2>1. phase' = "overrun" /\ cells' = cells /\ heads' = heads /\ counts' = counts /\ mod' = mod
    BY <1>8 DEF LinkModifier
  <2> QED BY <1>1, <1>6, <2>1, TableStays
          DEF KeymapInv, LoopsOK, FoundOK, StateOK, PerOK, RowsOK
<1>9. CASE Active /\ Len(cells) # MaxCells
  <2>1. /\ cells' = Append(cells, [code |-> code, next |-> heads[mod], mod |-> mod])
        /\ heads' = [heads EXCEPT ![mod] = Len(cells) + 1]
        /\ counts' = [counts EXCEPT ![mod] = @ + 1]
        /\ mod' = mod + 1 /\ phase' = phase
    BY <1>9 DEF LinkModifier
  <2>2. FoundOK /\ CellsOK(cells) /\ HeadsOK(cells, heads, counts) /\ mod \in keys[code].does.mods
    BY <1>3, <1>9 DEF KeymapInv
  <2>3. Before(cells, mod, code)
    <3>1. ASSUME NEW i \in Mine(cells, mod) PROVE cells[i].code < code
      <4>1. cells[i].code \in Codes
        BY <2>2, MineFacts, CellFacts
      <4>2. Tried(cells[i].code, mod)
        BY <1>1, <1>2, <2>2, <4>1 DEF FoundOK
      <4> QED BY <1>2, <4>2 DEF Tried
    <3> QED BY <3>1 DEF Before
  <2>4. PICK d : Linked(d, cells, code, heads, mod)
    BY DEF Linked
  <2>5. /\ CellsOK(d)
        /\ HeadsOK(d, HeadAt(heads, mod, Len(cells) + 1), OneMore(counts, mod))
        /\ Mine(d, mod) = Mine(cells, mod) \cup {Len(cells) + 1} /\ d[Len(cells) + 1].code = code
        /\ \A n \in Modifier : n # mod => Mine(d, n) = Mine(cells, n)
        /\ \A i \in 1..Len(cells) : d[i] = cells[i]
    BY <1>2, <2>2, <2>3, <2>4, LinkFacts
  <2>6. cells' = d
    BY <2>1, <2>4 DEF Linked
  <2>7. LoopsOK' /\ PerOK'
    BY <1>1, <1>2, <1>6, <2>1 DEF KeymapInv, LoopsOK, PerOK
  <2>8. FoundOK'
    <3>1. ASSUME NEW m \in Modifier, NEW k \in Codes
          PROVE  (\E i \in Mine(d, m) : d[i].code = k) <=> (Tried(k, m) /\ m \in keys[k].does.mods)'
      <4>1. m \in Nat /\ (m < mod + 1 <=> (m < mod \/ m = mod)) /\ ~(mod < mod) /\ ~(code < code)
        BY <1>2, CodesFacts
      <4>2. (\E i \in Mine(cells, m) : cells[i].code = k) <=> (Tried(k, m) /\ m \in keys[k].does.mods)
        BY <1>1, <2>2 DEF FoundOK
      <4>3. \A i \in Mine(cells, m) : d[i] = cells[i]
        BY <2>5 DEF Mine
      <4>4. Tried(k, m)' <=> (Tried(k, m) \/ (k = code /\ m = mod))
        BY <1>1, <2>1, <4>1 DEF Tried
      <4>5. CASE m = mod
        BY <1>1, <2>2, <2>5, <4>2, <4>3, <4>4, <4>5
      <4>6. CASE m # mod
        BY <1>1, <2>5, <4>2, <4>3, <4>4, <4>6
      <4> QED BY <4>5, <4>6
    <3> QED BY <1>1, <2>6, <3>1 DEF FoundOK
  <2> QED BY <1>1, <1>5, <2>1, <2>5, <2>6, <2>7, <2>8 DEF KeymapInv, HeadAt, OneMore
<1> QED BY <1>7, <1>8, <1>9

\* A key is released, and what it left behind undone.
LEMMA ReleaseKeyInv ==
    ASSUME KeymapInv, ReleaseKey
    PROVE  KeymapInv'
<1>1. /\ phase = "link" /\ phase' = "press" /\ mod > Modifiers /\ code' = code + 1
      /\ xkb' = Settle(base, code, Changed(base, xkb)) /\ mapping' = mapping /\ width' = width
      /\ keys' = keys /\ mod' = mod /\ heads' = heads
      /\ counts' = counts /\ cells' = cells /\ per' = per
  BY DEF ReleaseKey
<1>2. code \in Codes /\ code \in Nat /\ mod \in Nat
  BY <1>1, CodesFacts DEF KeymapInv, LoopsOK, Codes
<1>3. LoopsOK'
  BY <1>1, <1>2, CodesFacts DEF KeymapInv, LoopsOK
<1>4. FoundOK'
  <2>1. ASSUME NEW m \in Modifier, NEW k \in Codes PROVE Tried(k, m)' <=> Tried(k, m)
    <3>1. m < mod /\ (k < code + 1 <=> (k < code \/ k = code))
      BY <1>1, <1>2, CodesFacts
    <3> QED BY <1>1, <3>1 DEF Tried
  <2> QED BY <1>1, <2>1 DEF KeymapInv, FoundOK
<1>5. StateOK'
  <2>1. CleanState(base) /\ xkb = Down(base, code)
    BY <1>1 DEF KeymapInv, StateOK
  <2>2. CleanState(xkb')
    BY <1>1, <1>2, <2>1, SettleFacts DEF KeymapInv
  <2> QED BY <1>1, <2>2 DEF StateOK
<1>6. TableOK'
  BY <1>1, TableStays
<1>7. PerOK' /\ RowsOK'
  BY <1>1 DEF KeymapInv, PerOK, RowsOK
<1> QED BY <1>1, <1>3, <1>4, <1>5, <1>6, <1>7 DEF KeymapInv

\* All keys were tried.
LEMMA AllPressedInv ==
    ASSUME KeymapInv, AllPressed
    PROVE  KeymapInv'
<1>1. /\ phase = "press" /\ phase' = "count" /\ code > MaxCode /\ code' = code /\ mod' = 1
      /\ mapping' = mapping /\ width' = width /\ keys' = keys /\ heads' = heads
      /\ counts' = counts /\ cells' = cells /\ per' = per
  BY DEF AllPressed
<1>2. LoopsOK' /\ StateOK'
  BY <1>1 DEF KeymapInv, LoopsOK, StateOK
<1>3. FoundOK'
  BY <1>1 DEF KeymapInv, FoundOK, Tried
<1>4. TableOK'
  BY <1>1, TableStays
<1>5. PerOK' /\ RowsOK'
  <2>1. \A m \in Modifier : ~(m < 1)
    BY CodesFacts
  <2> QED BY <1>1, <2>1 DEF KeymapInv, PerOK, RowsOK
<1> QED BY <1>1, <1>2, <1>3, <1>4, <1>5 DEF KeymapInv

\* The count of one modifier more is looked at.
LEMMA CountModifierInv ==
    ASSUME KeymapInv, CountModifier
    PROVE  KeymapInv'
<1>1. /\ phase = "count" /\ phase' = phase /\ mod <= Modifiers /\ mod' = mod + 1 /\ code' = code
      /\ per' = Larger(counts[mod], per)
      /\ mapping' = mapping /\ width' = width /\ keys' = keys /\ heads' = heads
      /\ counts' = counts /\ cells' = cells
  BY DEF CountModifier
<1>2. mod \in Modifier /\ mod \in Nat /\ per \in Nat /\ counts \in [Modifier -> Nat]
  BY <1>1, CodesFacts DEF KeymapInv, LoopsOK, PerOK, HeadsOK
<1>3. LoopsOK' /\ StateOK'
  BY <1>1, <1>2 DEF KeymapInv, LoopsOK, StateOK
<1>4. FoundOK'
  BY <1>1 DEF KeymapInv, FoundOK, Tried
<1>5. TableOK'
  BY <1>1, TableStays
<1>6. PerOK'
  <2>1. counts[mod] \in Nat
    BY <1>2
  <2>2. per' \in Nat /\ per' >= per /\ per' >= counts[mod] /\ per' \in {per, counts[mod]}
    BY <1>1, <1>2, <2>1 DEF Larger
  <2>3. per' # 0 => \E m \in Modifier : counts[m] = per'
    BY <1>2, <2>2 DEF KeymapInv, PerOK
  <2>4. ASSUME NEW m \in Modifier, m < mod' PROVE counts[m] <= per'
    <3>1. m \in Nat /\ counts[m] \in Nat /\ (m < mod \/ m = mod)
      BY <1>1, <1>2, <2>4, CodesFacts
    <3>2. CASE m < mod
      <4>1. counts[m] <= per
        BY <1>1, <3>2 DEF KeymapInv, PerOK
      <4> QED BY <1>2, <2>2, <3>1, <4>1
    <3> QED BY <2>2, <3>1, <3>2
  <2> QED BY <1>1, <2>2, <2>3, <2>4 DEF PerOK
<1>7. RowsOK'
  BY <1>1 DEF RowsOK
<1> QED BY <1>1, <1>3, <1>4, <1>5, <1>6, <1>7 DEF KeymapInv

\* A row without keys is that of a list that was not begun.
LEMMA EmptyRow ==
    ASSUME NEW cs, CellsOK(cs), NEW h, NEW c, HeadsOK(cs, h, c), NEW m \in Modifier, NEW p \in Nat
    PROVE  RowPart(cs, [i \in 1..p |-> NoKey], p, m, 0, h[m])
<1> DEFINE row == [i \in 1..p |-> NoKey]
<1>1. row \in [1..p -> Nat] /\ \A i \in 1..p : row[i] = NoKey
  BY DEF NoKey
<1>2. \A j \in Mine(cs, m) : j \in Nat /\ j <= h[m] /\ h[m] \in Nat
  <2>1. h[m] \in Nat /\ \A j \in Mine(cs, m) : j <= h[m]
    BY DEF HeadsOK
  <2>2. \A j \in Mine(cs, m) : j \in Nat
    BY MineFacts, CellFacts
  <2> QED BY <2>1, <2>2
<1>3. {j \in Mine(cs, m) : j > h[m]} = {} /\ \A j \in Mine(cs, m) : ~(j > h[m])
  BY <1>2
<1>4. Cardinality({}) = 0
  BY FS_EmptySet
<1>5. \A i \in 1..p : ~(i <= 0)
  OBVIOUS
<1> HIDE DEF row
<1>6. Cardinality({j \in Mine(cs, m) : j > h[m]}) = 0
  BY <1>3, <1>4
<1>7. \A i, j \in 1..p : i < j /\ j <= 0 => row[i] > row[j]
  BY <1>5
<1>8. RowPart(cs, row, p, m, 0, h[m])
  BY <1>1, <1>3, <1>5, <1>6, <1>7 DEF RowPart
<1> QED BY <1>8 DEF row

\* The rows are allocated.
LEMMA NewRowsInv ==
    ASSUME KeymapInv, NewRows
    PROVE  KeymapInv'
<1>1. /\ phase = "count" /\ phase' = "fill" /\ mod > Modifiers /\ mod' = 1 /\ code' = code
      /\ rows' = [m \in Modifier |-> [i \in 1..per |-> NoKey]]
      /\ cnt' = 0 /\ curr' = (IF 1 <= Modifiers THEN heads[1] ELSE 0)
      /\ mapping' = mapping /\ width' = width /\ keys' = keys /\ heads' = heads
      /\ counts' = counts /\ cells' = cells /\ per' = per
  BY DEF NewRows, ListFrom
<1>2. /\ per \in Nat /\ CellsOK(cells) /\ HeadsOK(cells, heads, counts) /\ mod \in Nat
  BY DEF KeymapInv, PerOK, LoopsOK
<1>3. LoopsOK' /\ StateOK'
  BY <1>1 DEF KeymapInv, LoopsOK, StateOK
<1>4. FoundOK'
  BY <1>1 DEF KeymapInv, FoundOK, Tried
<1>5. TableOK'
  BY <1>1, TableStays
<1>6. PerOK'
  <2>1. \A m \in Modifier : m < mod
    BY <1>1, <1>2, CodesFacts
  <2> QED BY <1>1, <2>1 DEF KeymapInv, PerOK
<1>7. RowsOK'
  <2>1. ASSUME NEW m \in Modifier
        PROVE  RowPart(cells, rows'[m], per, m, Filled(m)', Rest(m)')
    <3>1. m \in Nat /\ 1 <= m /\ m <= Modifiers
      BY CodesFacts
    <3>2. Filled(m)' = 0 /\ Rest(m)' = heads[m]
      BY <1>1, <1>2, <3>1, CodesFacts DEF Filled, Rest
    <3>3. rows'[m] = [i \in 1..per |-> NoKey]
      BY <1>1
    <3> QED BY <1>2, <3>2, <3>3, EmptyRow
  <2>2. curr' # 0 => 1 \in Modifier /\ curr' \in Mine(cells, 1)
    <3>1. CASE 1 <= Modifiers
      <4>1. 1 \in Modifier
        BY <3>1, CodesFacts
      <4>2. curr' = heads[1] /\ (heads[1] # 0 => heads[1] \in Mine(cells, 1))
        BY <1>1, <1>2, <3>1, <4>1 DEF HeadsOK
      <4> QED BY <4>1, <4>2
    <3>2. CASE ~(1 <= Modifiers)
      BY <1>1, <3>2
    <3> QED BY <3>1, <3>2
  <2> QED BY <1>1, <2>1, <2>2 DEF RowsOK
<1> QED BY <1>1, <1>2, <1>3, <1>4, <1>5, <1>6, <1>7 DEF KeymapInv

\* One cell of a list goes to its row, or the next list is begun.
LEMMA FillRowInv ==
    ASSUME KeymapInv, FillRow
    PROVE  KeymapInv'
<1>1. /\ phase = "fill" /\ phase' = phase /\ mod <= Modifiers /\ code' = code
      /\ mapping' = mapping /\ width' = width /\ keys' = keys /\ heads' = heads
      /\ counts' = counts /\ cells' = cells /\ per' = per
  BY DEF FillRow
<1>2. /\ per \in Nat /\ CellsOK(cells) /\ HeadsOK(cells, heads, counts) /\ mod \in Nat /\ mod \in Modifier
      /\ DOMAIN rows = Modifier /\ counts[mod] <= per /\ (curr # 0 => curr \in Mine(cells, mod))
      /\ \A m \in Modifier : RowPart(cells, rows[m], per, m, Filled(m), Rest(m))
  BY <1>1, CodesFacts DEF KeymapInv, PerOK, LoopsOK, RowsOK
<1>3. StateOK' /\ PerOK'
  BY <1>1 DEF KeymapInv, StateOK, PerOK
<1>4. FoundOK'
  BY <1>1 DEF KeymapInv, FoundOK, Tried
<1>5. TableOK'
  BY <1>1, TableStays
<1>6. Filled(mod) = cnt /\ Rest(mod) = curr
  BY <1>2 DEF Filled, Rest
<1>7. CASE curr = 0
  <2>1. /\ mod' = mod + 1 /\ cnt' = 0 /\ rows' = rows
        /\ curr' = (IF mod + 1 <= Modifiers THEN heads[mod + 1] ELSE 0)
    BY <1>7 DEF FillRow, ListFrom
  <2>2. LoopsOK'
    BY <1>1, <1>2, <2>1 DEF KeymapInv, LoopsOK
  <2>3. cnt = counts[mod]
    <3>1. cnt = Cardinality({j \in Mine(cells, mod) : j > 0})
      BY <1>2, <1>6, <1>7 DEF RowPart
    <3>2. {j \in Mine(cells, mod) : j > 0} = Mine(cells, mod)
      <4>1. \A j \in Mine(cells, mod) : j > 0
        BY <1>2, MineFacts, CellFacts
      <4> QED BY <4>1
    <3> QED BY <1>2, <3>1, <3>2 DEF HeadsOK
  <2>4. ASSUME NEW m \in Modifier
        PROVE  Filled(m)' = Filled(m) /\ Rest(m)' = Rest(m)
    <3>1. m \in Nat /\ m <= Modifiers /\ (m < mod \/ m = mod \/ m = mod + 1 \/ m > mod + 1)
      BY <1>2, CodesFacts
    <3>2. CASE m < mod
      BY <1>1, <1>2, <2>1, <3>1, <3>2 DEF Filled, Rest
    <3>3. CASE m = mod
      BY <1>1, <1>2, <1>7, <2>1, <2>3, <3>1, <3>3 DEF Filled, Rest
    <3>4. CASE m = mod + 1
      BY <1>1, <1>2, <2>1, <3>1, <3>4 DEF Filled, Rest
    <3>5. CASE m > mod + 1
      BY <1>1, <1>2, <2>1, <3>1, <3>5 DEF Filled, Rest
    <3> QED BY <3>1, <3>2, <3>3, <3>4, <3>5
  <2>5. curr' # 0 => mod + 1 \in Modifier /\ curr' \in Mine(cells, mod + 1)
    BY <1>2, <2>1, CodesFacts DEF HeadsOK
  <2>6. RowsOK'
    BY <1>1, <1>2, <2>1, <2>4, <2>5 DEF RowsOK
  <2> QED BY <1>1, <1>2, <1>3, <1>4, <1>5, <2>2, <2>6 DEF KeymapInv
<1>8. CASE curr # 0
  <2>1. /\ mod' = mod /\ cnt' = cnt + 1 /\ curr' = cells[curr].next
        /\ rows' = [rows EXCEPT ![mod][cnt + 1] = cells[curr].code]
    BY <1>8 DEF FillRow
  <2>2. LoopsOK'
    BY <1>1, <2>1 DEF KeymapInv, LoopsOK
  <2>3. Cardinality(Mine(cells, mod)) <= per
    BY <1>2 DEF HeadsOK
  <2>4. /\ RowPart(cells, [rows[mod] EXCEPT ![cnt + 1] = cells[curr].code], per, mod, cnt + 1, cells[curr].next)
        /\ cells[curr].next # 0 => cells[curr].next \in Mine(cells, mod)
    BY <1>2, <1>6, <1>8, <2>3, FillFacts
  <2>5. rows'[mod] = [rows[mod] EXCEPT ![cnt + 1] = cells[curr].code] /\ DOMAIN rows' = Modifier
        /\ \A m \in Modifier : m # mod => rows'[m] = rows[m]
    BY <1>2, <2>1
  <2>6. ASSUME NEW m \in Modifier
        PROVE  RowPart(cells, rows'[m], per, m, Filled(m)', Rest(m)')
    <3>1. CASE m = mod
      <4>1. Filled(m)' = cnt + 1 /\ Rest(m)' = cells[curr].next
        BY <1>2, <2>1, <3>1 DEF Filled, Rest
      <4> QED BY <2>4, <2>5, <3>1, <4>1
    <3>2. CASE m # mod
      <4>1. Filled(m)' = Filled(m) /\ Rest(m)' = Rest(m)
        BY <1>1, <2>1, <3>2 DEF Filled, Rest
      <4> QED BY <1>2, <2>5, <3>2, <4>1
    <3> QED BY <3>1, <3>2
  <2>7. RowsOK'
    BY <1>1, <1>2, <2>1, <2>4, <2>5, <2>6 DEF RowsOK
  <2> QED BY <1>1, <1>2, <1>3, <1>4, <1>5, <2>2, <2>7 DEF KeymapInv
<1> QED BY <1>7, <1>8

\* The server takes the rows, refuses them, or is busy.
LEMMA SetModifiersInv ==
    ASSUME KeymapInv, NEW status \in {"success", "failure", "busy"}, SetModifiers(status)
    PROVE  KeymapInv'
<1>1. /\ phase = "fill" /\ mod > Modifiers /\ code' = code /\ mod' = mod
      /\ mapping' = mapping /\ width' = width /\ keys' = keys /\ heads' = heads
      /\ counts' = counts /\ cells' = cells /\ per' = per /\ rows' = rows /\ curr' = curr /\ cnt' = cnt
      /\ sent' = (IF status = "success" THEN rows ELSE sent)
      /\ phase' \in {"done", "failed", "fill"} /\ (phase' = "done" => status = "success")
  BY DEF SetModifiers
<1>2. LoopsOK' /\ StateOK' /\ PerOK'
  BY <1>1 DEF KeymapInv, LoopsOK, StateOK, PerOK
<1>3. FoundOK'
  BY <1>1 DEF KeymapInv, FoundOK, Tried
<1>4. TableOK'
  BY <1>1, TableStays
<1>5. RowsOK'
  <2>1. ASSUME NEW m \in Modifier
        PROVE  /\ RowPart(cells, rows[m], per, m, counts[m], 0)
               /\ RowPart(cells, rows[m], per, m, Filled(m)', Rest(m)')
    <3>1. RowPart(cells, rows[m], per, m, Filled(m), Rest(m))
      BY <1>1 DEF KeymapInv, RowsOK
    <3>2. m < mod
      BY <1>1, CodesFacts DEF KeymapInv, LoopsOK
    <3>3. Filled(m) = counts[m] /\ Rest(m) = 0 /\ Filled(m)' = Filled(m) /\ Rest(m)' = Rest(m)
      BY <1>1, <3>2 DEF Filled, Rest
    <3> QED BY <3>1, <3>3
  <2>2. curr # 0 => mod \in Modifier /\ curr \in Mine(cells, mod)
    BY <1>1 DEF KeymapInv, RowsOK
  <2>3. DOMAIN rows = Modifier
    BY <1>1 DEF KeymapInv, RowsOK
  <2> QED BY <1>1, <2>1, <2>2, <2>3 DEF RowsOK
<1> QED BY <1>1, <1>2, <1>3, <1>4, <1>5 DEF KeymapInv

\* A complete row has the keys of its modifier, each once.
LEMMA RowExact ==
    ASSUME KeymapInv, phase = "done", NEW m \in Modifier
    PROVE  /\ {sent[m][i] : i \in DOMAIN sent[m]} \ {NoKey} = {k \in Codes : m \in keys[k].does.mods}
           /\ \A i, j \in DOMAIN sent[m] : sent[m][i] = sent[m][j] => i = j \/ sent[m][i] = NoKey
           /\ DOMAIN sent[m] = 1..per
           /\ \A i \in 1..per : i <= counts[m] => sent[m][i] # NoKey
<1> DEFINE row == sent[m]
<1> DEFINE n == counts[m]
<1>1. /\ CellsOK(cells) /\ HeadsOK(cells, heads, counts) /\ per \in Nat /\ n \in Nat
      /\ RowPart(cells, row, per, m, n, 0)
  BY DEF KeymapInv, PerOK, RowsOK, HeadsOK
<1>2. /\ row \in [1..per -> Nat] /\ DOMAIN row = 1..per
      /\ \A i \in 1..per : i > n => row[i] = NoKey
      /\ \A i \in 1..per : i <= n => \E j \in Mine(cells, m) : j > 0 /\ row[i] = cells[j].code
      /\ \A j \in Mine(cells, m) : j > 0 => \E i \in 1..per : i <= n /\ row[i] = cells[j].code
      /\ \A i, j \in 1..per : i < j /\ j <= n => row[i] > row[j]
  BY <1>1 DEF RowPart
<1>3. \A j \in Mine(cells, m) : j > 0 /\ cells[j].code \in Codes /\ cells[j].code # NoKey
  <2>1. ASSUME NEW j \in Mine(cells, m) PROVE j > 0 /\ cells[j].code \in Codes
    BY <1>1, <2>1, MineFacts, CellFacts
  <2> QED BY <2>1, CodesFacts
<1>4. \A k \in Codes : (\E j \in Mine(cells, m) : cells[j].code = k) <=> m \in keys[k].does.mods
  <2>1. ASSUME NEW k \in Codes PROVE Tried(k, m)
    <3>1. k < code
      BY CodesFacts DEF KeymapInv, LoopsOK
    <3> QED BY <3>1 DEF Tried
  <2> QED BY <2>1 DEF KeymapInv, FoundOK
<1> HIDE DEF row, n
<1>5. \A i \in 1..per : i <= n => row[i] # NoKey /\ row[i] \in Codes /\ m \in keys[row[i]].does.mods
  BY <1>2, <1>3, <1>4
<1>6. ASSUME NEW k \in Codes, m \in keys[k].does.mods
      PROVE  \E i \in 1..per : row[i] = k
  <2>1. PICK j \in Mine(cells, m) : cells[j].code = k
    BY <1>4, <1>6
  <2> QED BY <1>2, <1>3, <2>1
<1>7. \A i \in 1..per : i <= n \/ i > n
  BY <1>1 DEF n
<1>8. {row[i] : i \in DOMAIN row} \ {NoKey} = {k \in Codes : m \in keys[k].does.mods}
  <2>1. ASSUME NEW i \in 1..per, row[i] # NoKey PROVE row[i] \in Codes /\ m \in keys[row[i]].does.mods
    BY <1>2, <1>5, <1>7, <2>1
  <2>2. \A k \in Codes : k # NoKey
    BY CodesFacts
  <2> QED BY <1>2, <1>6, <2>1, <2>2
<1>9. ASSUME NEW i \in 1..per, NEW j \in 1..per, row[i] = row[j], row[i] # NoKey PROVE i = j
  <2>1. i <= n /\ j <= n
    BY <1>2, <1>7, <1>9
  <2>2. row[i] \in Nat /\ row[j] \in Nat
    BY <1>2
  <2>3. ~(i < j) /\ ~(j < i)
    BY <1>2, <1>9, <2>1, <2>2
  <2> QED BY <2>3
<1> QED BY <1>2, <1>5, <1>8, <1>9 DEF row, n

\* What the invariant says of the tables is what set_keymap promises.
LEMMA KeymapInvSound == KeymapInv => KeymapExact
<1> SUFFICES ASSUME KeymapInv PROVE KeymapExact
  OBVIOUS
<1>1. ModifiersExact
  BY RowExact DEF ModifiersExact
<1>2. RowsFit
  <2>1. ASSUME phase = "fill", curr # 0 PROVE cnt < per
    <3>1. /\ mod \in Modifier /\ curr \in Mine(cells, mod) /\ per \in Nat /\ mod \in Nat
          /\ CellsOK(cells) /\ RowPart(cells, rows[mod], per, mod, Filled(mod), Rest(mod))
          /\ Cardinality(Mine(cells, mod)) <= per
      BY <2>1, CodesFacts DEF KeymapInv, RowsOK, PerOK, HeadsOK
    <3>2. Filled(mod) = cnt /\ Rest(mod) = curr
      BY <3>1 DEF Filled, Rest
    <3> QED BY <3>1, <3>2, FillFacts
  <2>2. ASSUME phase = "done", per > 0 PROVE \E m \in Modifier : sent[m][per] # NoKey
    <3>1. per \in Nat
      BY DEF KeymapInv, PerOK
    <3>2. PICK m \in Modifier : counts[m] = per
      BY <2>2, <3>1 DEF KeymapInv, PerOK
    <3>3. per \in 1..per /\ per <= per
      BY <2>2, <3>1
    <3> QED BY <2>2, <3>2, <3>3, RowExact
  <2> QED BY <2>1, <2>2, RowExact DEF RowsFit
<1>3. KeysymsPlaced
  <2> SUFFICES ASSUME phase # "measure", NEW k \in Codes, NEW l \in 1..Level(k)
               PROVE  LET row == (k - MinCode) * PerKeycode
                          sym == IF Cardinality(keys[k].syms[l]) = 1 THEN keys[k].syms[l] ELSE {} IN
                      /\ row + l + 2 \in DOMAIN mapping /\ mapping[row + l + 2] = sym
                      /\ l <= 2 => mapping[row + l] = sym
    BY DEF KeysymsPlaced
  <2> DEFINE w == PerKeycode
  <2> DEFINE q == k - MinCode
  <2> DEFINE sym == IF Cardinality(keys[k].syms[l]) = 1 THEN keys[k].syms[l] ELSE {}
  <2>1. /\ mapping = Table /\ width \in Nat /\ Level(k) <= width /\ Level(k) \in Nat
    BY KeyFacts DEF KeymapInv, TableOK
  <2>2. l \in Nat /\ 1 <= l /\ l <= width /\ l <= Level(k)
    BY <2>1
  <2>3. w \in Nat /\ w > 0 /\ l + 2 <= w
    BY <2>1, <2>2 DEF PerKeycode
  <2>4. q \in Nat /\ q <= MaxCode - MinCode /\ MinCode + q = k /\ MinCode \in Nat /\ MaxCode \in Nat
    BY CodesFacts
  <2>5. ASSUME NEW c \in Nat, 1 <= c, c <= w
        PROVE  q * w + c \in DOMAIN mapping /\ mapping[q * w + c] = Cell(k, c)
    <3> HIDE DEF w, q
    <3>1. q * w + c \in Nat /\ q * w \in Nat
      BY <2>3, <2>4, <2>5
    <3>2. q * w + c <= w * (MaxCode - MinCode + 1)
      <4>1. (q + 1) * w <= (MaxCode - MinCode + 1) * w
        BY <2>3, <2>4
      <4>2. (q + 1) * w = q * w + w
        BY <2>3, <2>4
      <4>3. (MaxCode - MinCode + 1) * w = w * (MaxCode - MinCode + 1)
        BY <2>3, <2>4
      <4>4. w * (MaxCode - MinCode + 1) \in Int
        BY <2>3, <2>4
      <4> QED BY <2>3, <2>5, <3>1, <4>1, <4>2, <4>3, <4>4
    <3>3. q * w + c \in 1..(w * (MaxCode - MinCode + 1))
      <4>1. w * (MaxCode - MinCode + 1) \in Int
        BY <2>3, <2>4
      <4> QED BY <2>5, <3>1, <3>2, <4>1
    <3>4. c - 1 \in Nat /\ c - 1 < w
      BY <2>3, <2>5
    <3>5. PICK y \in Nat : y = q * w + (c - 1)
      BY <2>3, <2>4, <3>4
    <3>6. y \div w = q /\ y % w = c - 1
      BY <2>3, <2>4, <3>4, <3>5, DivMod
    <3>7. PICK x \in 1..(w * (MaxCode - MinCode + 1)) : x = q * w + c
      BY <3>3
    <3>8. x - 1 = y /\ (c - 1) + 1 = c
      BY <2>5, <3>1, <3>5, <3>7
    <3>9. /\ x \in DOMAIN Table
          /\ Table[x] = Cell(MinCode + ((x - 1) \div w), ((x - 1) % w) + 1)
      BY Zenon DEF Table, w
    <3>10. Table[x] = Cell(MinCode + q, c)
      BY <3>6, <3>8, <3>9, Zenon
    <3> QED BY <2>1, <2>4, <3>7, <3>9, <3>10
  <2>6. Cell(k, l + 2) = sym
    BY <2>2 DEF Cell
  <2>7. l <= 2 => Cell(k, l) = sym
    BY <2>2 DEF Cell
  <2>8. q * w + (l + 2) \in DOMAIN mapping /\ mapping[q * w + (l + 2)] = sym
    <3>1. l + 2 \in Nat /\ 1 <= l + 2 /\ l + 2 <= w
      BY <2>2, <2>3
    <3> HIDE DEF w, q, sym
    <3> QED BY <2>5, <2>6, <3>1
  <2>9. l <= 2 => mapping[q * w + l] = sym
    <3>1. l <= w
      BY <2>2, <2>3
    <3> HIDE DEF w, q, sym
    <3> QED BY <2>2, <2>5, <2>7, <3>1
  <2>10. q * w + l + 2 = q * w + (l + 2)
    <3>1. q * w \in Int
      BY <2>3, <2>4
    <3> HIDE DEF w, q
    <3> QED BY <2>2, <3>1
  <2> QED BY <2>8, <2>9, <2>10
<1>4. LocksUndone
  <2>1. SUFFICES ASSUME phase = "press" PROVE xkb.depressed = {} /\ xkb.locked = {}
    BY DEF LocksUndone
  <2>2. PICK l : xkb = XkbState({}, l, {})
    BY <2>1 DEF KeymapInv, StateOK, CleanState, XkbState
  <2> QED BY <2>2, XkbUpdate
<1> QED BY <1>1, <1>2, <1>3, <1>4 DEF KeymapExact

\* Every step keeps the invariant.
LEMMA KeymapNextInv ==
    ASSUME KeymapInv, [KeymapNext]_keymapVars
    PROVE  KeymapInv'
<1>1. CASE MeasureKey
  BY <1>1, MeasureKeyInv
<1>2. CASE SendKeysyms
  BY <1>2, SendKeysymsInv
<1>3. CASE PressKey
  BY <1>3, PressKeyInv
<1>4. CASE LinkModifier
  BY <1>4, LinkModifierInv
<1>5. CASE ReleaseKey
  BY <1>5, ReleaseKeyInv
<1>6. CASE AllPressed
  BY <1>6, AllPressedInv
<1>7. CASE CountModifier
  BY <1>7, CountModifierInv
<1>8. CASE NewRows
  BY <1>8, NewRowsInv
<1>9. CASE FillRow
  BY <1>9, FillRowInv
<1>10. CASE \E status \in {"success", "failure", "busy"} : SetModifiers(status)
  BY <1>10, SetModifiersInv
<1>11. CASE UNCHANGED keymapVars
  <2>1. /\ keys' = keys /\ code' = code /\ width' = width /\ mapping' = mapping /\ base' = base
        /\ xkb' = xkb /\ mod' = mod /\ heads' = heads /\ counts' = counts /\ cells' = cells
        /\ per' = per /\ rows' = rows /\ curr' = curr /\ cnt' = cnt /\ sent' = sent /\ phase' = phase
    BY <1>11 DEF keymapVars
  <2>2. Table' = Table /\ Down(base, code)' = Down(base, code)
    BY <2>1 DEF Table, PerKeycode, Cell, Level, Down
  <2>3. TableOK' /\ StateOK' /\ LoopsOK' /\ PerOK'
    BY <2>1, <2>2 DEF KeymapInv, TableOK, StateOK, LoopsOK, PerOK, Level
  <2>4. FoundOK' /\ RowsOK'
    BY <2>1 DEF KeymapInv, FoundOK, Tried, RowsOK, Filled, Rest
  <2> QED BY <2>1, <2>3, <2>4 DEF KeymapInv
<1> QED BY <1>1, <1>2, <1>3, <1>4, <1>5, <1>6, <1>7, <1>8, <1>9, <1>10, <1>11 DEF KeymapNext

\* The keysyms and the modifiers that set_keymap sends are those of the keymap,
\* whatever locks and latches the keys it tries leave behind, unless the
\* arrays of find_modifiers overrun.
THEOREM KeymapAlwaysExact == KeymapSpec => []KeymapExact
<1>1. KeymapInit => KeymapInv
  BY KeymapInitInv
<1>2. KeymapInv /\ [KeymapNext]_keymapVars => KeymapInv'
  BY KeymapNextInv
<1>3. KeymapInv => KeymapExact
  BY KeymapInvSound
<1> QED BY <1>1, <1>2, <1>3, PTL DEF KeymapSpec

=============================================================================
