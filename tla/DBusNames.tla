----------------------------- MODULE DBusNames -----------------------------
(***************************************************************************)
(* How a D-Bus connection keeps track of the owners of well-known names and *)
(* attributes signals to them (plugins/dbus/dbus.c).  The bus and the other *)
(* peers are external: requests reach the bus in order, and what the bus    *)
(* sends arrives in order, but the two directions interleave freely with    *)
(* changes of ownership, with objects being made and dropped and with       *)
(* dispatching.                                                             *)
(***************************************************************************)
EXTENDS Integers, Sequences

CONSTANTS
    Wk,             \* well-known names
    Shorter,        \* pairs <<a, b>>: a is a proper prefix of b
    Peer,           \* unique names
    MaxWatched,     \* bound on live objects of one name
    MaxQueue,       \* bound on messages in one direction
    MaxChanges      \* bound on changes of ownership

NoOwner == "none"

ASSUME NamesAssumption ==
    /\ NoOwner \notin Peer /\ {MaxWatched, MaxQueue, MaxChanges} \subseteq Nat

VARIABLES
    owner,      \* who owns each name, at the bus
    matches,    \* match rules for NameOwnerChanged, at the bus
    outq,       \* requests on their way to the bus
    inq,        \* messages on their way to the connection
    watched,    \* live objects for each name
    request,    \* __dbus_watch_<n>_change_request: "none", "waiting" or "stale"
    known,      \* known_names: how many entries a name has for each peer
    changes,    \* changes of ownership so far
    \* History.
    settled,    \* a request was answered since the name is being watched
    lost,       \* the request was cancelled when it was made, after a time without a match
    spoilt,     \* "clipped": its entries were removed with those of a shorter name;
                \* "stale": the answer that it has no owner left its entry in place
    last        \* the signal that was just dispatched

nameVars == <<owner, matches, outq, inq, watched, request, known, changes,
              settled, lost, spoilt, last>>

Silent == [owned |-> {}, times |-> [n \in Wk |-> 0]]

NamesInit ==
    /\ owner \in [Wk -> {NoOwner} \cup Peer]
    /\ matches = [n \in Wk |-> 0]
    /\ outq = <<>> /\ inq = <<>>
    /\ watched = [n \in Wk |-> 0]
    /\ request = [n \in Wk |-> "none"]
    /\ known = [n \in Wk |-> [p \in Peer |-> 0]]
    /\ changes = 0
    /\ settled = [n \in Wk |-> FALSE]
    /\ lost = [n \in Wk |-> FALSE]
    /\ spoilt = [n \in Wk |-> "no"]
    /\ last = Silent

----------------------------------------------------------------------------
(* The connection *)

\* A request remembers the objects there were when it was sent (history).
Request(op, n, live) == [op |-> op, wk |-> n, live |-> live]

\* strncmp with the length of the name
Matches(n, m) == m = n \/ <<n, m>> \in Shorter

\* Mutant: the entry of the former owner stays.
UpdatedAppends(n, new, remove) ==
    [m \in Wk |-> [p \in Peer |-> known[m][p] + (IF m = n /\ p = new THEN 1 ELSE 0)]]

\* di_dbus_update_name.  Nothing depends on the order of the list.
Updated(n, new, remove) ==
    [m \in Wk |-> [p \in Peer |-> (IF remove /\ Matches(n, m) THEN 0 ELSE known[m][p])
                                  + (IF m = n /\ p = new THEN 1 ELSE 0)]]

UpdateName(n, new, remove) ==
    /\ known' = Updated(n, new, remove)
    /\ spoilt' = [m \in Wk |->
                    IF remove /\ m = n THEN "no"
                    ELSE IF remove /\ Matches(n, m) /\ (\E p \in Peer : known[m][p] > 0)
                         THEN "clipped" ELSE spoilt[m]]

\* di_dbus_get_object and di_dbus_watch_name.  The member that keeps the reply
\* is not replaced if it exists: the new pending reply is freed, and cancelled.
WatchName(n) ==
    LET live == [watched EXCEPT ![n] = @ + 1] IN
    /\ watched[n] < MaxWatched /\ Len(outq) + 2 <= MaxQueue
    /\ watched' = live
    /\ outq' = outq \o <<Request("add_match", n, live),
                         Request(IF request[n] = "none" THEN "get_owner" ELSE "cancelled", n, live)>>
    /\ request' = IF request[n] = "none" THEN [request EXCEPT ![n] = "waiting"] ELSE request
    /\ settled' = IF watched[n] = 0 THEN [settled EXCEPT ![n] = FALSE] ELSE settled
    /\ lost' = IF watched[n] = 0 THEN [lost EXCEPT ![n] = request[n] # "none"] ELSE lost
    /\ UNCHANGED <<owner, matches, inq, known, changes, spoilt>> /\ last' = Silent

\* put or the last reference: di_free_dbus_object and di_dbus_unwatch_name
UnwatchName(n) ==
    LET live == [watched EXCEPT ![n] = @ - 1] IN
    /\ watched[n] > 0 /\ Len(outq) < MaxQueue
    /\ watched' = live
    /\ outq' = Append(outq, Request("remove_match", n, live))
    /\ UNCHANGED <<owner, matches, inq, request, known, changes, settled, lost, spoilt>>
    /\ last' = Silent

----------------------------------------------------------------------------
(* The bus *)

\* A message from the bus, or through it: a reply and a change are about the
\* name wk, a signal is from the peer old.  own are the owners when it was sent;
\* that of wk is part of the message.
Message(type, n, old, own) == [type |-> type, wk |-> n, old |-> old, own |-> own]

Delta(r, n) == IF r.wk = n /\ r.op = "add_match" THEN 1
               ELSE IF r.wk = n /\ r.op = "remove_match" THEN -1 ELSE 0

BusRequest ==
    LET r == outq[1] IN
    /\ outq # <<>>
    /\ matches' = [n \in Wk |-> matches[n] + Delta(r, n)]
    /\ IF r.op = "get_owner"
       THEN Len(inq) < MaxQueue /\ inq' = Append(inq, Message("reply", r.wk, NoOwner, owner))
       ELSE UNCHANGED inq
    /\ outq' = Tail(outq)
    /\ UNCHANGED <<owner, watched, request, known, changes, settled, lost, spoilt>>
    /\ last' = Silent

\* A name gets another owner, or none.
ChangeOwner(n, p) ==
    LET own == [owner EXCEPT ![n] = p] IN
    /\ p # owner[n] /\ changes < MaxChanges
    /\ matches[n] > 0 => Len(inq) < MaxQueue
    /\ changes' = changes + 1
    /\ owner' = own
    /\ inq' = IF matches[n] > 0 THEN Append(inq, Message("changed", n, owner[n], own)) ELSE inq
    /\ UNCHANGED <<matches, outq, watched, request, known, settled, lost, spoilt>>
    /\ last' = Silent

\* A peer sends a signal, under its unique name.
SendSignal(p) ==
    /\ Len(inq) < MaxQueue
    /\ \A i \in 1..Len(inq) : inq[i].type # "signal"
    /\ \E n \in Wk : owner[n] = p
    /\ inq' = Append(inq, Message("signal", NoOwner, p, owner))
    /\ UNCHANGED <<owner, matches, outq, watched, request, known, changes, settled, lost, spoilt>>
    /\ last' = Silent

----------------------------------------------------------------------------
(* Dispatching *)

\* di_dbus_update_name_from_msg: an error reply (the name has no owner) leaves
\* the member in place, and the entry that the name may have from an earlier time
\* too.
DispatchReply ==
    LET n == inq[1].wk
        new == inq[1].own[n]
    IN
    /\ inq # <<>> /\ inq[1].type = "reply"
    /\ IF new = NoOwner
       THEN /\ request' = [request EXCEPT ![n] = "stale"]
            /\ spoilt' = [spoilt EXCEPT ![n] = IF \E p \in Peer : known[n][p] > 0
                                               THEN "stale" ELSE "no"]
            /\ UNCHANGED known
       ELSE /\ request' = [request EXCEPT ![n] = "none"]
            /\ UpdateName(n, new, TRUE)
    /\ settled' = [settled EXCEPT ![n] = TRUE]
    /\ inq' = Tail(inq)
    /\ UNCHANGED <<owner, matches, outq, watched, changes, lost>> /\ last' = Silent

\* dbus_filter: NameOwnerChanged
DispatchChanged ==
    LET n == inq[1].wk IN
    /\ inq # <<>> /\ inq[1].type = "changed"
    /\ UpdateName(n, inq[1].own[n], inq[1].old # NoOwner)
    /\ inq' = Tail(inq)
    /\ UNCHANGED <<owner, matches, outq, watched, request, changes, settled, lost>>
    /\ last' = Silent

DispatchSignalAs(times) ==
    /\ inq # <<>> /\ inq[1].type = "signal"
    /\ last' = [owned |-> {n \in Wk : inq[1].own[n] = inq[1].old}, times |-> times]
    /\ inq' = Tail(inq)
    /\ UNCHANGED <<owner, matches, outq, watched, request, known, changes, settled, lost, spoilt>>

\* Mutant: only one name of the sender is looked for.
DispatchSignalFirst ==
    LET hits == {n \in Wk : known[n][inq[1].old] > 0} IN
    DispatchSignalAs([n \in Wk |-> IF n \in hits /\ n = (CHOOSE m \in hits : TRUE) THEN 1 ELSE 0])

\* dbus_filter: a signal is emitted once for each entry of its sender
DispatchSignal == DispatchSignalAs([n \in Wk |-> known[n][inq[1].old]])

NamesNext ==
    \/ \E n \in Wk : WatchName(n) \/ UnwatchName(n)
    \/ \E n \in Wk, p \in {NoOwner} \cup Peer : ChangeOwner(n, p)
    \/ \E p \in Peer : SendSignal(p)
    \/ BusRequest \/ DispatchReply \/ DispatchChanged \/ DispatchSignal

NamesSpec == NamesInit /\ [][NamesNext]_nameVars

----------------------------------------------------------------------------
\* No change of n is on its way.
Quiet(n) == \A i \in 1..Len(inq) : inq[i].type = "changed" => inq[i].wk # n

\* The names whose entry can be relied on: watched, answered, and not hit by one
\* of the three ways in which the code loses an update: the request was cancelled
\* (lost), the entry went with those of a shorter name (clipped), or an error reply
\* left it although the name has no owner (stale).  The last two end with the next
\* message that takes the name from an owner.
Reliable(n) == watched[n] > 0 /\ settled[n] /\ ~lost[n] /\ spoilt[n] = "no"

\* When no change of it is on its way the entry of a reliable name is its owner,
\* although replies and NameOwnerChanged race: none if it has no owner, and never
\* two.
NamesCurrent ==
    \A n \in Wk : Reliable(n) /\ Quiet(n) =>
        \A p \in Peer : known[n][p] = IF owner[n] = p THEN 1 ELSE 0

\* Once the bus has seen all requests it has one match rule for each object.
MatchesExact == outq = <<>> => matches = watched

\* What is known of the reliable names, and what the bus is asked to send about
\* all, is right whenever nothing is on its way (dbus.c:80, 116).
NamesFaithful == NamesCurrent /\ MatchesExact

\* A signal is emitted for the reliable names that its sender owned when it sent
\* it, once for each, and for no other reliable name (dbus_filter).  Under a stale
\* entry the signals of a former owner are emitted.
SignalsAttributed ==
    \A n \in Wk : Reliable(n) => last'.times[n] = IF n \in last'.owned THEN 1 ELSE 0
SignalAttribution == [][DispatchSignal => SignalsAttributed]_nameVars
=============================================================================
