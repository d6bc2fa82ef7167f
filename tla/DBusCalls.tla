----------------------------- MODULE DBusCalls -----------------------------
(***************************************************************************)
(* Method calls over a D-Bus connection, the lifetime of the connection and *)
(* its shutdown in two steps (plugins/dbus/dbus.c).                         *)
(*                                                                         *)
(* User code holds the connection, one object on it and the replies it      *)
(* waits for.  The object and every waiting reply keep the connection       *)
(* object; its destructor only schedules the end of the connection for the  *)
(* next turn of the main loop, because it may run inside the dispatching    *)
(* loop, which goes on with the messages that are left.                     *)
(***************************************************************************)
EXTENDS Naturals, FiniteSets, Sequences

CONSTANTS
    Request,        \* method calls
    MaxSignals      \* bound on signals from the bus

ASSUME DBusAssumption ==
    /\ Request \cap {"conn", "obj", "filter", "signal", "out", "next"} = {}
    /\ MaxSignals \in Nat

VARIABLES
    user,       \* what user code holds: "conn", "obj" and calls
    link,       \* the libdbus connection: "open", "shut" (part 2 is due), "closed"
    reply,      \* each call: "none", "waiting", "emitting", "answered", "cancelled"
    answers,    \* emissions of reply or error for each call
    wire,       \* messages on their way to the connection, and "bus": still at the bus
    signals,    \* signals sent so far
    loop,       \* the dispatching loop: "out", "next", "filter" or a call
    watch,      \* libdbus's watch is enabled
    ioev,       \* the ioev of the watch: "none", "running" or "stopped"
    dead        \* dbus_filter was called with a connection object that is gone

dbusVars == <<user, link, reply, answers, wire, signals, loop, watch, ioev, dead>>

DBusInit ==
    /\ user = {"conn"}
    /\ link = "open"
    /\ reply = [c \in Request |-> "none"]
    /\ answers = [c \in Request |-> 0]
    /\ wire = [bus |-> {}, queue |-> <<>>]
    /\ signals = 0
    /\ loop = "out"
    /\ watch = TRUE /\ ioev = "running"
    /\ dead = FALSE

\* User code runs in the main loop and in handlers.
InUser == loop \in {"out", "filter"} \cup Request

\* Replies that have not been answered keep the connection object, as do the
\* object, user code and a running filter.
KeepersOf(u, r, l) ==
    (u \cap {"conn", "obj"}) \cup {c \in Request : r[c] \in {"waiting", "emitting"}}
    \cup (IF l = "filter" THEN {"filter"} ELSE {})

\* Mutant: the connection is closed at once.
ShutdownNow == IF link = "open" THEN "closed" ELSE link

\* The destructor of the connection object runs with its last reference:
\* di_dbus_shutdown, after which its members, the ioev among them, are gone.
Shutdown == IF link = "open" THEN "shut" ELSE link

Settle ==
    IF KeepersOf(user', reply', loop') = {}
    THEN link' = Shutdown /\ ioev' = "none"
    ELSE UNCHANGED <<link, ioev>>

Gone == KeepersOf(user, reply, loop) = {}

----------------------------------------------------------------------------
(* User code *)

\* di_dbus_get_object
GetObject ==
    /\ InUser /\ "conn" \in user /\ "obj" \notin user
    /\ user' = user \cup {"obj"}
    /\ UNCHANGED <<link, reply, answers, wire, signals, loop, watch, ioev, dead>>

\* di_dbus_object_getter, call_dbus_method, dbus_call_method and di_dbus_send.
\* Arguments that cannot be serialized are refused before anything is sent. The
\* bus does not hang up here: on a connection that was lost di_dbus_send returns
\* NULL, and dbus_call_method goes on to listen to it.
CallMethod(c) ==
    /\ InUser /\ "obj" \in user /\ reply[c] = "none"
    /\ user' = user \cup {c}
    /\ reply' = [reply EXCEPT ![c] = "waiting"]
    /\ wire' = [wire EXCEPT !.bus = @ \cup {c}]
    /\ UNCHANGED <<link, answers, signals, loop, watch, ioev, dead>>

\* User code gives up the connection, the object or a reply.  A reply that is
\* still waiting is cancelled; one that is being emitted lives to the end of it.
Drop(x) ==
    /\ InUser /\ x \in user
    /\ user' = user \ {x}
    /\ reply' = IF x \in Request /\ reply[x] = "waiting"
                THEN [reply EXCEPT ![x] = "cancelled"] ELSE reply
    /\ UNCHANGED <<answers, wire, signals, loop, watch, dead>>
    /\ Settle

----------------------------------------------------------------------------
(* The bus, and libdbus asking for its watch to be turned on and off *)

BusAnswers(c) ==
    /\ c \in wire.bus /\ link # "closed"
    /\ wire' = [bus |-> wire.bus \ {c}, queue |-> Append(wire.queue, c)]
    /\ UNCHANGED <<user, link, reply, answers, signals, loop, watch, ioev, dead>>

BusSignal ==
    /\ signals < MaxSignals /\ link # "closed"
    /\ signals' = signals + 1
    /\ wire' = [wire EXCEPT !.queue = Append(@, "signal")]
    /\ UNCHANGED <<user, link, reply, answers, loop, watch, ioev, dead>>

\* dbus_toggle_watch, as long as libdbus has the watch functions
ToggleWatch ==
    /\ loop = "out" /\ link = "open"
    /\ watch' = ~watch
    /\ ioev' = IF ioev = "running" THEN "stopped" ELSE "running"
    /\ UNCHANGED <<user, link, reply, answers, wire, signals, loop, dead>>

\* libdbus replaces its watch: dbus_remove_watch and dbus_add_watch
ReplaceWatch ==
    /\ loop = "out" /\ link = "open"
    /\ \E on \in BOOLEAN : watch' = on /\ ioev' = IF on THEN "running" ELSE "stopped"
    /\ UNCHANGED <<user, link, reply, answers, wire, signals, loop, dead>>

----------------------------------------------------------------------------
(* Dispatching: ioev_callback *)

StartLoop ==
    /\ loop = "out" /\ ioev = "running" /\ wire.queue # <<>>
    /\ loop' = "next"
    /\ UNCHANGED <<user, link, reply, answers, wire, signals, watch, ioev, dead>>

Took == [wire EXCEPT !.queue = Tail(@)]

\* dbus_filter, up to the emission: it takes a reference to the object whose
\* address it was registered with.
DispatchSignal ==
    /\ loop = "next" /\ wire.queue # <<>> /\ Head(wire.queue) = "signal"
    /\ wire' = Took
    /\ dead' = (dead \/ Gone)
    /\ loop' = IF Gone THEN "next" ELSE "filter"
    /\ UNCHANGED <<user, link, reply, answers, signals, watch, ioev>>

\* Mutant: a waiting reply does not hold the connection.
DispatchReplyUnheld ==
    /\ loop = "next" /\ wire.queue # <<>> /\ Head(wire.queue) \in Request
    /\ wire' = Took
    /\ LET c == Head(wire.queue) IN
       IF reply[c] = "waiting" /\ user \cap {"conn", "obj"} # {}
       THEN /\ reply' = [reply EXCEPT ![c] = "emitting"]
            /\ answers' = [answers EXCEPT ![c] = @ + 1]
            /\ loop' = c
       ELSE UNCHANGED <<reply, answers, loop>>
    /\ UNCHANGED <<user, link, signals, watch, ioev, dead>>

\* dbus_pending_call_notify_fn and dbus_call_method_reply_cb, up to the
\* emission; a cancelled call has no callback.
DispatchReply ==
    /\ loop = "next" /\ wire.queue # <<>> /\ Head(wire.queue) \in Request
    /\ wire' = Took
    /\ LET c == Head(wire.queue) IN
       IF reply[c] = "waiting"
       THEN /\ reply' = [reply EXCEPT ![c] = "emitting"]
            /\ answers' = [answers EXCEPT ![c] = @ + 1]
            /\ loop' = c
       ELSE UNCHANGED <<reply, answers, loop>>
    /\ UNCHANGED <<user, link, signals, watch, ioev, dead>>

FilterReturns ==
    /\ loop = "filter"
    /\ loop' = "next"
    /\ UNCHANGED <<user, reply, answers, wire, signals, watch, dead>>
    /\ Settle

\* The end of dbus_call_method_reply_cb: the members of the reply are removed,
\* the connection last.
ReplyReturns ==
    /\ loop \in Request
    /\ reply' = [reply EXCEPT ![loop] = "answered"]
    /\ loop' = "next"
    /\ UNCHANGED <<user, answers, wire, signals, watch, dead>>
    /\ Settle

EndLoop ==
    /\ loop = "next" /\ wire.queue = <<>>
    /\ loop' = "out"
    /\ UNCHANGED <<user, link, reply, answers, wire, signals, watch, ioev, dead>>

\* The main loop prepares its next turn: di_dbus_shutdown_part2
ShutdownPart2 ==
    /\ loop = "out" /\ link = "shut"
    /\ link' = "closed"
    /\ UNCHANGED <<user, reply, answers, wire, signals, loop, watch, ioev, dead>>

Dispatch == StartLoop \/ DispatchSignal \/ DispatchReply \/ FilterReturns
            \/ ReplyReturns \/ EndLoop

DBusNext ==
    \/ Dispatch \/ ShutdownPart2 \/ GetObject \/ BusSignal \/ ToggleWatch \/ ReplaceWatch
    \/ \E c \in Request : CallMethod(c) \/ BusAnswers(c)
    \/ \E x \in user : Drop(x)

DBusSpec == DBusInit /\ [][DBusNext]_dbusVars

\* C code that runs goes on, handlers return, and libev calls a watcher that
\* stays active: while the watch is enabled the loop is entered again and again.
DBusFairness ==
    /\ WF_dbusVars(DispatchSignal \/ DispatchReply \/ EndLoop)
    /\ SF_dbusVars(StartLoop \/ FilterReturns \/ ReplyReturns)
    /\ WF_dbusVars(ShutdownPart2)

----------------------------------------------------------------------------
\* A call is answered at most once, with a reply or an error, and a call that
\* user code has waited for has got its answer.
AnsweredOnce ==
    \A c \in Request : /\ answers[c] <= 1
                       /\ reply[c] = "answered" => answers[c] = 1

\* The connection is closed only when no dispatching is under way, and not
\* under a reply that is still waiting.
ClosedSafely ==
    /\ link = "closed" => loop = "out"
    /\ (\E c \in Request : reply[c] \in {"waiting", "emitting"}) => link = "open"

\* The ioev of the connection runs exactly while libdbus wants its watch.
WatchAgrees == link = "open" => (ioev = "running" <=> watch)

\* Calls get one answer, on a connection that is there and is being read.
CallsSound == AnsweredOnce /\ ClosedSafely /\ WatchAgrees

\* A call whose answer has arrived is answered, or cancelled by user code, even
\* if the reply is the only thing left that refers to the connection.
Arrived(c) == \E i \in 1..Len(wire.queue) : wire.queue[i] = c
AnswerDue(c) == Arrived(c) /\ reply[c] = "waiting"
AnswerDone(c) == reply[c] \in {"answered", "cancelled"} \/ ~watch
CallAnswered == \A c \in Request : AnswerDue(c) ~> AnswerDone(c)
=============================================================================
