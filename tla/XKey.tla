-------------------------------- MODULE XKey --------------------------------
(***************************************************************************)
(* Key bindings (plugins/xorg/key.c): bindings of keysyms with modifiers,   *)
(* the grabs they make at the server, key events and the signals they are   *)
(* turned into, and changes of the keyboard mapping.  Handlers are user     *)
(* code that makes and drops bindings while an event is handled.            *)
(***************************************************************************)
EXTENDS Naturals, Sequences

CONSTANTS
    Binding,            \* identities of binding objects
    KeySym, Code, Mod,  \* keysyms, keycodes and combinations of modifiers
    Taken,              \* grabs other clients hold: pairs of a keycode and a Mod
    MaxLeaks            \* bound on the references a binding loses

NoKb == 0

ASSUME KeyAssumption == Binding \subseteq Nat /\ NoKb \notin Binding /\ MaxLeaks \in Nat

VARIABLES
    binds,      \* the binding objects
    list,       \* k->bindings, the head of the list last
    link,       \* the connection: "open" or "closed"
    keycodes,   \* the keyboard mapping: the keycodes of each keysym
    grabs,      \* the grabs the server has for this client
    event,      \* the event in handling: keycode, modifiers, and whether to replay it
    kb, nkb,    \* the loop of handle_key: the binding in hand and the one saved
    kpc,        \* "idle", "handle", "emit" or "crashed"
    \* History.
    shared,     \* a grab has been of two bindings, or passed from one to another
    order,      \* the list when the event came
    due,        \* where in it are bindings that the event matches
    told        \* the bindings that were told of the event

loop == <<event, kb, nkb, order, due, told>>
keyVars == <<binds, list, link, keycodes, grabs, loop, kpc, shared>>

NoBinding == [rc |-> 0, user |-> FALSE, lost |-> 0, sym |-> "none", mods |-> "none",
              codes |-> {}, replay |-> FALSE]
NoEvent == [code |-> 0, mods |-> "none", replay |-> TRUE]

KeyInit ==
    /\ binds = [b \in Binding |-> NoBinding]
    /\ list = <<>> /\ link = "open"
    /\ keycodes \in [KeySym -> SUBSET Code]
    /\ grabs = {} /\ kpc = "idle" /\ shared = FALSE
    /\ event = NoEvent /\ kb = NoKb /\ nkb = NoKb
    /\ order = <<>> /\ due = {} /\ told = <<>>

Listed == {list[i] : i \in 1..Len(list)}
Asked(x) == x.codes \X {x.mods}
GrabsOf(x) == Asked(x) \ Taken
HandlersRun == kpc \in {"idle", "emit"}

\* The list is walked from its head.
Position(b) == CHOOSE i \in 1..Len(list) : list[i] = b
First == IF list = <<>> THEN NoKb ELSE list[Len(list)]
After(b) == IF b = NoKb THEN NoKb ELSE IF Position(b) = 1 THEN NoKb ELSE list[Position(b) - 1]
Without(b) == [i \in 1..(Len(list) - 1) |-> IF i < Position(b) THEN list[i] ELSE list[i + 1]]

----------------------------------------------------------------------------
(* References *)

\* di_unref_object of the binding x that is b, and binding_dtor
Unref(b, x) ==
    IF x.rc = 1
    THEN /\ binds' = [binds EXCEPT ![b] = NoBinding]
         /\ IF b \in Listed THEN list' = Without(b) /\ grabs' = grabs \ Asked(x)
            ELSE UNCHANGED <<list, grabs>>
    ELSE binds' = [binds EXCEPT ![b] = [x EXCEPT !.rc = @ - 1]] /\ UNCHANGED <<list, grabs>>

Crash == kpc' = "crashed" /\ UNCHANGED <<binds, list, link, grabs, loop, shared>>

\* new_binding: a keysym without a keycode ends in ungrab with no keycodes
NewBinding(b, s, m, replay) ==
    LET x == [rc |-> 1, user |-> TRUE, lost |-> 0, sym |-> s, mods |-> m,
              codes |-> keycodes[s], replay |-> replay]
    IN
    /\ HandlersRun /\ link = "open" /\ binds[b].rc = 0
    /\ \A c \in Binding : c < b => binds[c].rc > 0
    /\ IF x.codes = {} THEN Crash
       ELSE /\ binds' = [binds EXCEPT ![b] = x]
            /\ list' = Append(list, b)
            /\ grabs' = grabs \cup GrabsOf(x)
            /\ shared' = (shared \/ \E y \in Listed : GrabsOf(binds[y]) \cap GrabsOf(x) # {})
            /\ UNCHANGED <<link, loop, kpc>>
    /\ UNCHANGED keycodes

DropBinding(b) ==
    /\ HandlersRun /\ binds[b].user
    /\ Unref(b, [binds[b] EXCEPT !.user = FALSE])
    /\ UNCHANGED <<link, keycodes, loop, kpc, shared>>

----------------------------------------------------------------------------
(* handle_key *)

Hits(b, c, m) == binds[b].mods = m /\ c \in binds[b].codes

\* Every binding is referenced for the time of the handling. The server sends more
\* than what is grabbed: releases with other modifiers, other keys during a grab,
\* and what was under way when a binding was dropped.
StartKey(c, m) ==
    /\ kpc = "idle" /\ link = "open"
    /\ \A b \in Listed : binds[b].lost < MaxLeaks
    /\ binds' = [b \in Binding |-> IF b \in Listed THEN [binds[b] EXCEPT !.rc = @ + 1] ELSE binds[b]]
    /\ event' = [code |-> c, mods |-> m, replay |-> TRUE]
    /\ kb' = First /\ nkb' = After(First)
    /\ order' = list /\ due' = {i \in 1..Len(list) : Hits(list[i], c, m)} /\ told' = <<>>
    /\ kpc' = "handle"
    /\ UNCHANGED <<list, link, keycodes, grabs, shared>>

\* list_for_each_entry_safe goes on with the binding it saved.
Advance == kb' = nkb /\ nkb' = After(nkb)

\* A binding with other modifiers is passed over with the reference it was given.
HandleOther ==
    /\ kpc = "handle" /\ kb # NoKb
    /\ binds[kb].mods # event.mods
    /\ binds' = [binds EXCEPT ![kb].lost = @ + 1]
    /\ Advance
    /\ UNCHANGED <<list, link, keycodes, grabs, event, order, due, told, kpc, shared>>

HandleMismatch ==
    /\ kpc = "handle" /\ kb # NoKb
    /\ binds[kb].mods = event.mods /\ event.code \notin binds[kb].codes
    /\ Unref(kb, binds[kb]) /\ Advance
    /\ UNCHANGED <<link, keycodes, event, order, due, told, kpc, shared>>

EmitTo(b) ==
    /\ kpc = "handle" /\ b # NoKb /\ Hits(b, event.code, event.mods)
    /\ event' = [event EXCEPT !.replay = binds[b].replay]
    /\ told' = Append(told, b) /\ kpc' = "emit"
    /\ UNCHANGED <<binds, list, link, keycodes, grabs, kb, nkb, order, due, shared>>

\* Mutant: a binding that only the event still holds is not told.
HandleMatchHeld ==
    IF kb # NoKb /\ Hits(kb, event.code, event.mods) /\ ~binds[kb].user
    THEN /\ kpc = "handle" /\ Unref(kb, binds[kb]) /\ Advance
         /\ UNCHANGED <<link, keycodes, event, order, due, told, kpc, shared>>
    ELSE EmitTo(kb)

HandleMatch == EmitTo(kb)

EmitReturns ==
    /\ kpc = "emit" /\ kpc' = "handle"
    /\ Unref(kb, binds[kb]) /\ Advance
    /\ UNCHANGED <<link, keycodes, event, order, due, told, shared>>

\* The binding that is given up was the last object to hold the extension (user code
\* may have dropped its own reference): the loop goes on in freed memory.
KeyFreed ==
    /\ \/ kpc = "emit"
       \/ /\ kpc = "handle" /\ kb # NoKb
          /\ binds[kb].mods = event.mods /\ event.code \notin binds[kb].codes
    /\ binds[kb].rc = 1 /\ \A b \in Binding \ {kb} : binds[b].rc = 0
    /\ Crash /\ UNCHANGED keycodes

\* xcb_allow_events: the last binding that matched decides on the replay.
HandleEnds ==
    /\ kpc = "handle" /\ kb = NoKb
    /\ kpc' = "idle" /\ event' = NoEvent
    /\ order' = <<>> /\ due' = {} /\ told' = <<>>
    /\ UNCHANGED <<binds, list, link, keycodes, grabs, kb, nkb, shared>>

----------------------------------------------------------------------------
(* Mapping changes and the end of the connection *)

\* MAPPING_NOTIFY: refresh_binding for one binding after the other, each of
\* which gives its old grabs up and asks for the new ones.
Remapped(b, map) == [binds[b] EXCEPT !.codes = map[binds[b].sym]]
Refreshed(map) ==
    {g \in Code \X Mod :
        \/ \E i \in 1..Len(list) :
              /\ g \in GrabsOf(Remapped(list[i], map))
              /\ \A j \in 1..(i - 1) : g \notin Asked(binds[list[j]])
        \/ g \in grabs /\ \A i \in 1..Len(list) : g \notin Asked(binds[list[i]])}

\* A binding that has no keycode any more is finalised, with no keycodes and in
\* the middle of a loop that needs it.
MappingNotify(map) ==
    /\ kpc = "idle" /\ link = "open"
    /\ keycodes' = map
    /\ IF \E b \in Listed : map[binds[b].sym] = {} THEN Crash
       ELSE /\ binds' = [b \in Binding |-> IF b \in Listed THEN Remapped(b, map) ELSE binds[b]]
            /\ grabs' = Refreshed(map)
            /\ shared' = (shared \/ \E x, y \in Listed :
                             /\ x # y
                             /\ GrabsOf(Remapped(x, map)) \cap
                                   (GrabsOf(binds[y]) \cup GrabsOf(Remapped(y, map))) # {})
            /\ UNCHANGED <<list, link, loop, kpc>>

\* free_key at the end of the connection: every binding is finalised, without
\* a request to the server.  In a handler the loop of handle_key goes on with
\* the unlinked bindings.
FreeKey ==
    /\ HandlersRun /\ link = "open"
    /\ IF kpc = "emit" THEN Crash
       ELSE /\ link' = "closed" /\ list' = <<>> /\ grabs' = {}
            /\ UNCHANGED <<binds, loop, kpc, shared>>
    /\ UNCHANGED keycodes

KeyNext ==
    \/ \E b \in Binding : \/ DropBinding(b)
                          \/ \E s \in KeySym, m \in Mod, r \in BOOLEAN : NewBinding(b, s, m, r)
    \/ \E c \in Code, m \in Mod : StartKey(c, m)
    \/ HandleOther \/ HandleMismatch \/ HandleMatch \/ EmitReturns \/ KeyFreed
    \/ HandleEnds
    \/ \E map \in [KeySym -> SUBSET Code] : MappingNotify(map)
    \/ FreeKey

KeySpec == KeyInit /\ [][KeyNext]_keyVars

----------------------------------------------------------------------------
\* The bindings that the loop has still to look at.
Pending == IF kb = NoKb THEN {} ELSE {list[i] : i \in 1..Position(kb)}

\* The count of a binding is the reference of its user, the one the handling of
\* an event has on every binding it still has to look at, and the ones that were
\* lost by events with other modifiers (key.c:260).
BindingRefsExact ==
    \A b \in Binding : binds[b].rc = (IF binds[b].user THEN 1 ELSE 0) + binds[b].lost
                                     + (IF b \in Pending THEN 1 ELSE 0)

\* The binding in hand and the one the loop has saved are in the list, whatever
\* bindings handlers drop.
LoopListed == {kb, nkb} \subseteq Listed \cup {NoKb}

\* As long as no grab was of two bindings, at a time or one after the other when
\* the mapping changed (key.c:104: each gives its old grabs up after others took
\* theirs), the server has exactly the grabs of the bindings there are, through
\* changes of the mapping, dropped bindings and bindings made by handlers.
GrabsExact == ~shared => grabs = UNION {GrabsOf(binds[b]) : b \in Listed}

\* An event is told to bindings that it matched when it came, newest first and
\* once to each, and in the end to all of them, whatever bindings handlers make
\* and drop in the meantime.
ToldOnce ==
    /\ \A i \in 1..Len(told) : \E p \in due : told[i] = order[p]
    /\ \A i, j \in 1..Len(told) : \A p, q \in due :
          i < j /\ told[i] = order[p] /\ told[j] = order[q] => q < p
    /\ kpc = "handle" /\ kb = NoKb => \A p \in due : \E i \in 1..Len(told) : told[i] = order[p]

\* Until the program crashes, the count of a key binding is the references to it,
\* the grabs of the server are those of the bindings, and an event is told once to
\* every binding it matched when it came (key.c), although handlers make and drop
\* bindings in the middle of the loop.
BindingsFaithful ==
    kpc # "crashed" => BindingRefsExact /\ LoopListed /\ GrabsExact /\ ToldOnce
=============================================================================
