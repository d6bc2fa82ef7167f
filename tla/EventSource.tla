---------------------------- MODULE EventSource ----------------------------
(***************************************************************************)
(* Event sources (event.c) and the lifetime of the deai object.            *)
(*                                                                         *)
(* deai runs as long as somebody holds a strong reference to the deai      *)
(* object: its destructor (di_dtor, main.c) breaks the main loop.  A       *)
(* source that can still fire keeps a strong reference in its __deai       *)
(* member, a stopped one a weak reference, so that deai quits when nothing *)
(* can happen any more.  User code runs at any time outside of callbacks   *)
(* (other callbacks, scripts) and inside the callback of a source.         *)
(***************************************************************************)
EXTENDS FiniteSets

CONSTANTS Timer, Io, Periodic,  \* event sources, each created at most once
          Null,
          Liberties   \* what user code may do:
                      \*  "restart_in_handler": start a timer again, or set
                      \*    its timeout, from its own "elapsed" handler

Source == Timer \cup Io \cup Periodic

ASSUME ConstantsAssumption ==
    /\ Timer \cap Io = {} /\ Timer \cap Periodic = {} /\ Io \cap Periodic = {}
    /\ Null \notin Source
    /\ Liberties \subseteq {"restart_in_handler"}

VARIABLES obj,       \* the source object: unused, alive, closed or freed
          active,    \* is the watcher started in the loop?
          zero,      \* timers and periodics whose timeout or interval is 0
          running,   \* the running flag of ioevs
          ref,       \* the __deai member: none, weak or strong
          held,      \* the sources user code refers to
          user,      \* does user code hold a strong reference to deai?
          leaked,    \* was a strong reference to deai leaked?
          prepare,   \* the ___prepare_event_source member of the event module
          deai,      \* is the deai object alive or destroyed?
          callback   \* the source whose callback is running, or Null

sources == <<obj, active, zero, running, ref, held>>
vars == <<obj, active, zero, running, ref, held, user, leaked, prepare, deai, callback>>

Init ==
    /\ obj = [s \in Source |-> "unused"]
    /\ active = [s \in Source |-> FALSE]
    /\ zero = {}
    /\ running = [s \in Io |-> FALSE]
    /\ ref = [s \in Source |-> "none"]
    /\ held = {}
    /\ user = TRUE
    /\ leaked = FALSE
    /\ prepare = FALSE
    /\ deai = "alive"
    /\ callback = Null

-----------------------------------------------------------------------------
(* References to deai *)

\* Strong references other than those in the members of the sources in except.
ReferencedBut(except) ==
    \/ user \/ leaked \/ prepare
    \/ callback \in Timer
    \/ \E s \in Source \ except : ref[s] = "strong"

Referenced == ReferencedBut({})

\* deai is destroyed by the call that drops the last strong reference to it.
Settle == deai' = IF deai = "alive" /\ Referenced' THEN "alive" ELSE "dead"

\* di_object_get_deai_weak: NULL unless the member is weak and deai is alive.
GetDeaiWeak(s) == ref[s] = "weak" /\ deai = "alive"

\* di_object_get_deai_strong: NULL unless the member is strong.
GetDeaiStrong(s) == ref[s] = "strong"

Usable(s) == s \in held /\ obj[s] = "alive"

-----------------------------------------------------------------------------
(* Creation: di_create_timer, di_create_ioev, di_create_periodic *)

\* The timeout or interval of s becomes 0, or another number.
Interval(s, isZero) == zero' = IF isZero THEN zero \cup {s} ELSE zero \ {s}

\* The watcher is started and the strong reference moves into the member.
\* ev_timer_again starts no timer whose timeout is 0, which keeps its strong
\* reference nevertheless; a periodic with interval 0 is started, for one event.
Create(s, isZero) ==
    /\ obj[s] = "unused"
    /\ deai = "alive"
    /\ isZero => s \notin Io
    /\ Interval(s, isZero)
    /\ obj' = [obj EXCEPT ![s] = "alive"]
    /\ active' = [active EXCEPT ![s] = ~(isZero /\ s \in Timer)]
    /\ running' = [i \in Io |-> running[i] \/ i = s]
    /\ ref' = [ref EXCEPT ![s] = "strong"]
    /\ held' = held \cup {s}
    /\ UNCHANGED <<user, leaked, prepare, deai, callback>>

-----------------------------------------------------------------------------
(* Stopping.  The three maps after the stop of source s: di_timer_stop,      *)
(* di_stop_ioev and periodic_dtor; di_object_downgrade_deai for the first two. *)

Stops(s) ==
    /\ GetDeaiStrong(s)
    /\ s \in Io => running[s]

ActiveAfterStop(s) == IF Stops(s) THEN [active EXCEPT ![s] = FALSE] ELSE active
RunningAfterStop(s) == [i \in Io |-> running[i] /\ ~(i = s /\ Stops(s))]
RefAfterStop(s) == IF Stops(s) THEN [ref EXCEPT ![s] = "weak"] ELSE ref

\* Mutant: the reference is not downgraded.
StopKeepsReference(s) ==
    /\ Usable(s)
    /\ s \notin Periodic
    /\ active' = ActiveAfterStop(s)
    /\ running' = RunningAfterStop(s)
    /\ UNCHANGED <<obj, zero, ref, held, user, leaked, prepare, callback>>
    /\ Settle

\* Methods "stop" of timers and ioevs, "toggle" of a running ioev and "modify"
\* of an ioev to no events.
Stop(s) ==
    /\ Usable(s)
    /\ s \notin Periodic
    /\ active' = ActiveAfterStop(s)
    /\ running' = RunningAfterStop(s)
    /\ ref' = RefAfterStop(s)
    /\ UNCHANGED <<obj, zero, held, user, leaked, prepare, callback>>
    /\ Settle

-----------------------------------------------------------------------------
(* Starting again *)

\* Mutant: the member stays a weak reference.
StartIoWeak(s) ==
    /\ Usable(s)
    /\ ~running[s]
    /\ GetDeaiWeak(s)
    /\ active' = [active EXCEPT ![s] = TRUE]
    /\ running' = [running EXCEPT ![s] = TRUE]
    /\ UNCHANGED <<obj, zero, ref, held, user, leaked, prepare, deai, callback>>

\* di_start_ioev (also by toggle): di_obj, the reference that
\* di_object_get_deai_weak returned, is never dropped.
StartIo(s) ==
    /\ Usable(s)
    /\ ~running[s]
    /\ GetDeaiWeak(s)
    /\ active' = [active EXCEPT ![s] = TRUE]
    /\ running' = [running EXCEPT ![s] = TRUE]
    /\ ref' = [ref EXCEPT ![s] = "strong"]
    /\ leaked' = TRUE
    /\ UNCHANGED <<obj, zero, held, user, prepare, deai, callback>>

Restartable(s) ==
    /\ Usable(s)
    /\ s = callback => "restart_in_handler" \in Liberties

\* di_timer_again, which leaks a reference in the same way; it returns early
\* when the __deai member is strong.  ev_timer_again stops a timer whose timeout
\* is 0.
Again(s) ==
    /\ Restartable(s)
    /\ \/ /\ GetDeaiWeak(s)
          /\ active' = [active EXCEPT ![s] = s \notin zero]
          /\ ref' = [ref EXCEPT ![s] = "strong"]
          /\ leaked' = TRUE
       \/ ~GetDeaiWeak(s) /\ UNCHANGED <<active, ref, leaked>>
    /\ UNCHANGED <<obj, zero, running, held, user, prepare, deai, callback>>

\* di_timer_set: stop, then again.  The stop drops the timer's reference to
\* deai, which may be the last one; then again finds no deai.
SetTimeout(s, isZero) ==
    /\ Restartable(s)
    /\ Interval(s, isZero)
    /\ LET weak == RefAfterStop(s)[s] = "weak"
           survives == deai = "alive" /\ ReferencedBut({s})
       IN  \/ /\ weak /\ survives
              /\ active' = [active EXCEPT ![s] = ~isZero]
              /\ ref' = [ref EXCEPT ![s] = "strong"]
              /\ leaked' = TRUE
              /\ UNCHANGED deai
           \/ /\ ~(weak /\ survives)
              /\ active' = ActiveAfterStop(s)
              /\ ref' = RefAfterStop(s)
              /\ deai' = IF survives THEN deai ELSE "dead"
              /\ UNCHANGED leaked
    /\ UNCHANGED <<obj, running, held, user, prepare, callback>>

\* periodic_set: ev_periodic_again stops the periodic and starts it.
SetPeriodic(s, isZero) ==
    /\ Usable(s)
    /\ GetDeaiStrong(s)                     \* DI_CHECK(di_obj != NULL)
    /\ Interval(s, isZero)
    /\ active' = [active EXCEPT ![s] = TRUE]
    /\ UNCHANGED <<obj, running, ref, held, user, leaked, prepare, deai, callback>>

-----------------------------------------------------------------------------
(* Destruction *)

\* The dtor of the source stops it, then the members are removed.
Destroy(s, st) ==
    /\ active' = ActiveAfterStop(s)
    /\ running' = RunningAfterStop(s)
    /\ ref' = [ref EXCEPT ![s] = "none"]
    /\ obj' = [obj EXCEPT ![s] = st]
    /\ zero' = zero \ {s}

\* Method "close" of ioevs: di_finalize_object.
Close(s) ==
    /\ Usable(s)
    /\ Destroy(s, "closed")
    /\ UNCHANGED <<held, user, leaked, prepare, callback>>
    /\ Settle

\* User code drops its reference.  A running callback still holds one.
Release(s) ==
    /\ s \in held
    /\ held' = held \ {s}
    /\ IF s = callback
         THEN UNCHANGED <<obj, active, zero, running, ref>>
         ELSE Destroy(s, "freed")
    /\ UNCHANGED <<user, leaked, prepare, callback>>
    /\ Settle

-----------------------------------------------------------------------------
(* Callbacks *)

\* di_timer_callback (up to the emission, the timer is stopped),
\* di_ioev_callback, di_periodic_callback.  libev stops a periodic with interval
\* 0 before it calls back.
Fire(s) ==
    /\ callback = Null
    /\ deai = "alive"
    /\ active[s]
    /\ s \in Timer => GetDeaiStrong(s)      \* DI_CHECK(di_obj)
    /\ callback' = s
    /\ active' = [active EXCEPT ![s] = s \notin Timer \cup zero]
    /\ UNCHANGED <<obj, zero, running, ref, held, user, leaked, prepare, deai>>

\* The emission is over.  A timer drops its strong reference to deai; the
\* reference that kept the source alive is released.
CallbackEnds ==
    /\ callback # Null
    /\ callback' = Null
    /\ IF callback \in held
         THEN /\ ref' = IF callback \in Timer /\ GetDeaiStrong(callback)
                          THEN [ref EXCEPT ![callback] = "weak"] ELSE ref
              /\ UNCHANGED <<obj, active, zero, running>>
         ELSE IF callback \in Timer /\ GetDeaiStrong(callback)
           \* downgraded first, so the dtor finds no deai to stop the timer with
           THEN /\ ref' = [ref EXCEPT ![callback] = "none"]
                /\ obj' = [obj EXCEPT ![callback] = "freed"]
                /\ zero' = zero \ {callback}
                /\ UNCHANGED <<active, running>>
           ELSE Destroy(callback, "freed")
    /\ UNCHANGED <<held, user, leaked, prepare>>
    /\ Settle

-----------------------------------------------------------------------------
(* The rest of user code *)

\* __new_signal_prepare and __del_signal_prepare.
ListenPrepare ==
    /\ deai = "alive"
    /\ ~prepare
    /\ prepare' = TRUE
    /\ UNCHANGED <<sources, user, leaked, deai, callback>>

UnlistenPrepare ==
    /\ prepare
    /\ prepare' = FALSE
    /\ UNCHANGED <<sources, user, leaked, callback>>
    /\ Settle

\* User code takes or drops a reference to deai; main drops its own before it
\* starts the loop.
HoldDeai ==
    /\ ~user
    /\ deai = "alive"
    /\ user' = TRUE
    /\ UNCHANGED <<sources, leaked, prepare, deai, callback>>

DropDeai ==
    /\ user
    /\ user' = FALSE
    /\ UNCHANGED <<sources, leaked, prepare, callback>>
    /\ Settle

Next ==
    \/ \E s \in Source : Stop(s) \/ Release(s) \/ Fire(s)
    \/ \E s \in Source, isZero \in BOOLEAN : Create(s, isZero)
    \/ \E s \in Io : StartIo(s) \/ Close(s)
    \/ \E s \in Timer : Again(s)
    \/ \E s \in Timer, isZero \in BOOLEAN : SetTimeout(s, isZero)
    \/ \E s \in Periodic, isZero \in BOOLEAN : SetPeriodic(s, isZero)
    \/ CallbackEnds \/ ListenPrepare \/ UnlistenPrepare \/ HoldDeai \/ DropDeai

Spec == Init /\ [][Next]_vars

-----------------------------------------------------------------------------
(* Properties *)

\* Type invariant of the event sources and of the deai object; nobody refers to
\* a source whose memory is gone.
TypeOK ==
    /\ obj \in [Source -> {"unused", "alive", "closed", "freed"}]
    /\ active \in [Source -> BOOLEAN]
    /\ zero \subseteq Timer \cup Periodic
    /\ running \in [Io -> BOOLEAN]
    /\ ref \in [Source -> {"none", "weak", "strong"}]
    /\ held \subseteq {s \in Source : obj[s] \in {"alive", "closed"}}
    /\ {user, leaked, prepare} \subseteq BOOLEAN
    /\ deai \in {"alive", "dead"}
    /\ callback \in Source \cup {Null}

\* "Started timers have strong references to di / Stopped ones have weak ones",
\* and the same for ioevs.  There are two exceptions: a timer whose callback is
\* running is stopped and not yet downgraded, and a timer or periodic whose
\* timeout or interval is 0 can be strong although libev has it stopped.
StartedIsStrong ==
    \A s \in Source :
        obj[s] = "alive" =>
            /\ active[s] => ref[s] = "strong"
            /\ ~active[s] /\ s # callback =>
                   ref[s] = "weak" \/ (s \in zero /\ ref[s] = "strong")
            /\ s \in Timer \cap zero => ~active[s]

\* A started watcher belongs to a source that exists and has not been closed,
\* and to a loop whose deai object is alive: libev never calls back into freed
\* memory.
WatcherLive ==
    \A s \in Source : active[s] => /\ obj[s] = "alive"
                                   /\ deai = "alive"

\* The running flag of an ioev agrees with the watcher, so that start and stop
\* are never ignored.
RunningAgrees ==
    \A s \in Io : obj[s] = "alive" => (running[s] <=> active[s])

\* No started source, no listener of prepare, no reference in user code.
Idle == callback = Null /\ ~user /\ ~prepare /\ \A s \in Source : ~active[s]

\* The references that keep deai although nothing can happen: the ones that an
\* earlier restart leaked (di_start_ioev, di_timer_again), and the ones in the
\* members of stopped timers and periodics whose timeout or interval is 0.
Stranded == leaked \/ \E s \in zero : ~active[s] /\ ref[s] = "strong"

\* When nothing can happen any more, deai has been destroyed and the main loop
\* broken - exactly if no reference is stranded.
QuitsWhenIdle == Idle => (deai = "dead" <=> ~Stranded)

\* "Nothing is going on. Meaning there're no listeners installed. Nothing can
\* happen is this case, so deai should quit"
\* (docs/design_evolution/suicide_vs_murder.rst:8): not even a source is left that
\* somebody could listen to.
AlwaysQuits == Idle /\ held = {} => deai = "dead"

\* Watchers, running flags and references to deai agree, so that libev never
\* calls back into freed memory and a started source keeps deai alive.
SourcesSound == TypeOK /\ StartedIsStrong /\ WatcherLive /\ RunningAgrees
=============================================================================
