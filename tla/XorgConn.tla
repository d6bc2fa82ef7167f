------------------------------ MODULE XorgConn ------------------------------
(***************************************************************************)
(* Connections to an X server (plugins/xorg/xorg.c): the connection object, *)
(* the extension objects hanging off it, the callback that polls for events *)
(* and hands them to the extensions, disconnection, and the atom cache.     *)
(* Signal handlers are user code; the server is external.                   *)
(***************************************************************************)
EXTENDS Naturals, FiniteSets, Sequences

CONSTANTS
    Ext,            \* the extensions the server has
    MaxHeld,        \* bound on the references a user holds to an extension
    Atom,           \* atoms, 1..n
    Named           \* the atoms that have a name when the program starts

\* No handler of an extension runs
NoExt == "none"

ASSUME XorgAssumption ==
    /\ IsFiniteSet(Ext) /\ NoExt \notin Ext
    /\ MaxHeld \in Nat /\ Named \subseteq Atom

VARIABLES
    xconn,      \* the connection: rc, the user's reference, fd event, socket
    xext,       \* each extension object: rc, and whether dc is set
    attached,   \* the extensions in xc->xext
    selected,   \* extensions whose events the server sends
    xpc,        \* "idle", "poll", "emit", "error" or "crashed"
    xcur,       \* the extension whose handler runs
    named,      \* the atoms the server knows
    cache       \* the entries of a_byatom and a_byname, newest first

xorgVars == <<xconn, xext, attached, selected, xpc, xcur, named, cache>>

XorgInit ==
    /\ xconn = [rc |-> 1, user |-> TRUE, fd |-> TRUE, open |-> TRUE]
    /\ xext = [e \in Ext |-> [rc |-> 0, dc |-> FALSE]]
    /\ attached = {} /\ selected = {}
    /\ xpc = "idle" /\ xcur = NoExt
    /\ named = Named /\ cache = <<>>

UserCode == xpc \in {"idle", "emit", "error"}

----------------------------------------------------------------------------
(* The end of objects.  s is the part of the state they change. *)

State == [conn |-> xconn, ext |-> xext, list |-> attached, cache |-> cache]
Becomes(s) == xconn' = s.conn /\ xext' = s.ext /\ attached' = s.list /\ cache' = s.cache

\* xorg_disconnect, and the members of the connection with it
Closed(s) == [s EXCEPT !.conn.fd = FALSE, !.conn.open = FALSE, !.cache = <<>>]

\* A destroyed connection has no extension left: each of them holds a reference.
UnrefConn(s) ==
    LET t == [s EXCEPT !.conn.rc = @ - 1] IN
    IF t.conn.rc = 0 /\ t.conn.fd THEN Closed(t) ELSE t

\* di_xorg_free_sub: x->free comes after dc was cleared and has no effect
FreeSub(s, e) ==
    IF ~s.ext[e].dc THEN s
    ELSE UnrefConn([s EXCEPT !.ext[e].dc = FALSE, !.list = @ \ {e}])

UnrefExt(s, e) ==
    LET t == [s EXCEPT !.ext[e].rc = @ - 1] IN
    IF t.ext[e].rc = 0 THEN FreeSub(t, e) ELSE t

\* di_xorg_free_sub of each extension in the table, while the caller has the connection
FreeSubs(s) ==
    [s EXCEPT !.conn.rc = @ - Cardinality(s.list), !.list = {},
              !.ext = [e \in Ext |-> [s.ext[e] EXCEPT !.dc = @ /\ e \notin s.list]]]

\* di_finalize_object of the connection: the extensions first
Finalized(s) == IF s.conn.fd THEN Closed(FreeSubs(s)) ELSE s

----------------------------------------------------------------------------
(* User code *)

\* di_xorg_get_ext: an extension object that is there, or a new one
GetExtAs(e, taken) ==
    /\ UserCode /\ xconn.user /\ xconn.fd
    /\ xext[e].rc < MaxHeld
    /\ IF e \in attached
       THEN xext' = [xext EXCEPT ![e].rc = @ + 1] /\ UNCHANGED <<attached, selected, xconn>>
       ELSE /\ xext[e].rc = 0
            /\ xext' = [xext EXCEPT ![e] = [rc |-> 1, dc |-> TRUE]]
            /\ attached' = attached \cup {e}
            /\ selected' = selected \cup {e}
            /\ xconn' = [xconn EXCEPT !.rc = @ + taken]
    /\ UNCHANGED <<xpc, xcur, named, cache>>

\* Mutant: a new extension takes no reference to the connection.
GetExtUncounted(e) == GetExtAs(e, 0)
GetExt(e) == GetExtAs(e, 1)

\* A reference is given up: of the user, of an output, a device or a binding.
DropExt(e) ==
    /\ UserCode /\ xext[e].rc > (IF xcur = e THEN 1 ELSE 0)
    /\ Becomes(UnrefExt(State, e))
    /\ UNCHANGED <<selected, xpc, xcur, named>>

DropConn ==
    /\ UserCode /\ xconn.user
    /\ Becomes(UnrefConn([State EXCEPT !.conn.user = FALSE]))
    /\ UNCHANGED <<selected, xpc, xcur, named>>

Disconnect ==
    /\ UserCode /\ xconn.user
    /\ Becomes(Finalized(State))
    /\ selected' = {}
    /\ UNCHANGED <<xpc, xcur, named>>

----------------------------------------------------------------------------
(* di_xorg_ioev *)

StartIoev ==
    /\ xpc = "idle" /\ xconn.fd
    /\ xconn' = [xconn EXCEPT !.rc = @ + 1]
    /\ xpc' = "poll"
    /\ UNCHANGED <<xext, attached, selected, xcur, named, cache>>

\* The extensions are asked in turn; the object made for the event holds a
\* reference to the one that knows it.
PollEvent(e) ==
    /\ xpc = "poll" /\ e \in selected
    /\ IF e \in attached
       THEN xpc' = "emit" /\ xcur' = e /\ xext' = [xext EXCEPT ![e].rc = @ + 1]
       ELSE UNCHANGED <<xpc, xcur, xext>>
    /\ UNCHANGED <<xconn, attached, selected, named, cache>>

\* A handler that has disconnected leaves no connection to poll. When the object
\* made for the event was the last to hold the extension, handle_key and
\* handle_xinput_event go on with a freed one, and handle_randr_event is done.
HandlerReturns ==
    /\ xpc = "emit"
    /\ Becomes(UnrefExt(State, xcur))
    /\ xcur' = NoExt
    /\ \/ xpc' = "poll" /\ xconn'.open
       \/ xpc' = "crashed" /\ (~xconn'.open \/ xext'[xcur].rc = 0)
    /\ UNCHANGED <<selected, named>>

PollError ==
    /\ xpc = "poll" /\ xpc' = "error"
    /\ UNCHANGED <<xconn, xext, attached, selected, xcur, named, cache>>

\* The callback gives its reference up; after an error it finalises first.
IoevEnds ==
    /\ xpc \in {"poll", "error"}
    /\ Becomes(UnrefConn(IF xpc = "error" THEN Finalized(State) ELSE State))
    /\ selected' = IF xconn'.open THEN selected ELSE {}
    /\ xpc' = "idle"
    /\ UNCHANGED <<xcur, named>>

----------------------------------------------------------------------------
(* The atom cache; an entry is an atom, which stands for its name too. *)

Cached(a) == \E i \in 1..Len(cache) : cache[i] = a

CacheAs(c) ==
    /\ UserCode /\ xconn.open
    /\ cache' = c
    /\ UNCHANGED <<xconn, xext, attached, selected, xpc, xcur>>

\* di_xorg_get_atom_name fails for an atom without a name
GetAtomName(a) ==
    /\ CacheAs(IF Cached(a) \/ a \notin named THEN cache ELSE <<a>> \o cache)
    /\ UNCHANGED named

\* di_xorg_intern_atom names the atom
InternAtom(a) ==
    /\ CacheAs(IF Cached(a) THEN cache ELSE <<a>> \o cache)
    /\ named' = named \cup {a}

XorgNext ==
    \/ \E e \in Ext : GetExt(e) \/ DropExt(e) \/ PollEvent(e)
    \/ DropConn \/ Disconnect \/ StartIoev \/ HandlerReturns \/ PollError \/ IoevEnds
    \/ \E a \in Atom : GetAtomName(a) \/ InternAtom(a)

XorgSpec == XorgInit /\ [][XorgNext]_xorgVars
----------------------------------------------------------------------------
\* The count of the connection is the reference of its user, one for each
\* extension that has it, and the one of the running callback, through
\* extensions that go away in handlers and disconnection in any order.
ConnRefsExact ==
    xconn.rc = (IF xconn.user THEN 1 ELSE 0)
               + Cardinality({e \in Ext : xext[e].dc}) + (IF xpc = "idle" THEN 0 ELSE 1)

\* An extension that has the connection finds it alive and open, so that its
\* requests go to a server (xorg.c:56).
AttachedOpen == \A e \in Ext : xext[e].dc => xconn.rc > 0 /\ xconn.open

\* The table of extensions, which holds no references, points to live objects
\* that have the connection.
TableLive == \A e \in attached : xext[e].rc > 0 /\ xext[e].dc

\* An atom has one entry, whether it was asked for by number or by name, and
\* only atoms that the server has named have one.
AtomsOnce ==
    /\ \A i, j \in 1..Len(cache) : cache[i] = cache[j] => i = j
    /\ \A i \in 1..Len(cache) : cache[i] \in named
\* Connection and extensions, which free each other, never refer to one that
\* is gone.
ConnectionSound == ConnRefsExact /\ AttachedOpen /\ TableLive /\ AtomsOnce
=============================================================================
