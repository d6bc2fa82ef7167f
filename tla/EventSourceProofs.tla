------------------------- MODULE EventSourceProofs -------------------------
(***************************************************************************)
(* Proofs about EventSource, for any number of timers, ioevs and periodics, *)
(* when no timer is started again from its own "elapsed" handler, and about *)
(* two of the sources there are: FileWatch, which hands the events of files *)
(* to handlers, for any files, paths, queue and reads, and DBusNames, which *)
(* follows the owners of names, for any names, peers and delays.            *)
(***************************************************************************)
EXTENDS EventSource, FileWatch, DBusNames, SequenceTheorems, TLAPS

\* The __deai member of a source: there while the source lives, strong when it is
\* started, weak when it is stopped, except between the stop of a timer that fires
\* and the end of its callback, and for timeouts and intervals of 0.
RefsAgree ==
    \A s \in Source :
        /\ ref[s] = "none" <=> obj[s] # "alive"
        /\ active[s] => ref[s] = "strong"
        /\ obj[s] = "alive" /\ ~active[s] /\ ~(s \in Timer /\ s = callback) =>
               ref[s] = "weak" \/ (s \in zero /\ ref[s] = "strong")
        /\ s \in Timer /\ s \in zero => ~active[s]
        /\ obj[s] = "alive" /\ s \in Periodic => ref[s] = "strong"

\* The object of a running callback has not been freed, and a timer is stopped
\* while its callback runs.
CallbackSound ==
    callback # Null =>
        /\ obj[callback] \in {"alive", "closed"}
        /\ callback \in Timer => ~active[callback]

\* The deai object lives exactly as long as somebody holds a strong reference.
DeaiCounted == deai = "alive" <=> Referenced

IInv == TypeOK /\ RefsAgree /\ CallbackSound /\ DeaiCounted /\ RunningAgrees
\* At the start user code holds deai and there is no source.
LEMMA InitInv == Init => IInv
<1> SUFFICES ASSUME Init PROVE IInv
  OBVIOUS
<1> USE ConstantsAssumption DEF Init
<1>1. TypeOK
  BY DEF TypeOK, Source
<1>2. RefsAgree
  BY DEF RefsAgree, Source
<1>3. CallbackSound
  BY DEF CallbackSound
<1>4. DeaiCounted
  BY DEF DeaiCounted, Referenced, ReferencedBut
<1>5. RunningAgrees
  BY DEF RunningAgrees, Source
<1> QED BY <1>1, <1>2, <1>3, <1>4, <1>5 DEF IInv

\* A call that may drop a reference keeps deai exactly as long as it is referenced
\* (di_dtor runs when the last strong reference is gone), provided that it does
\* not bring deai back.
LEMMA SettleCounted ==
    ASSUME Settle, deai # "alive" => ~Referenced'
    PROVE  DeaiCounted' /\ deai' \in {"alive", "dead"}
BY DEF Settle, DeaiCounted

\* A step that touches no source keeps what is said of the sources.
LEMMA SourcesKept ==
    ASSUME IInv, UNCHANGED <<sources, callback>>,
           {user, leaked, prepare}' \subseteq BOOLEAN, deai' \in {"alive", "dead"}, DeaiCounted'
    PROVE  IInv'
BY DEF IInv, TypeOK, RefsAgree, CallbackSound, RunningAgrees, sources
\* What the stop of a source that exists does, whether it was started or not: it is
\* stopped, its reference weak, and the other sources are as they were.
LEMMA StopFacts ==
    ASSUME IInv, NEW s \in Source, obj[s] = "alive"
    PROVE  /\ ActiveAfterStop(s) \in [Source -> BOOLEAN]
           /\ RunningAfterStop(s) \in [Io -> BOOLEAN]
           /\ RefAfterStop(s) \in [Source -> {"none", "weak", "strong"}]
           /\ ~ActiveAfterStop(s)[s]
           /\ RefAfterStop(s)[s] = "weak"
           /\ s \in Io => ~RunningAfterStop(s)[s]
           /\ \A t \in Source \ {s} : /\ ActiveAfterStop(s)[t] = active[t]
                                      /\ RefAfterStop(s)[t] = ref[t]
           /\ \A t \in Io \ {s} : RunningAfterStop(s)[t] = running[t]
<1>1. CASE Stops(s)
  BY <1>1 DEF IInv, TypeOK, Stops, ActiveAfterStop, RunningAfterStop, RefAfterStop, Source
<1>2. CASE ~Stops(s)
  <2>1. ~active[s] /\ ref[s] = "weak" /\ (s \in Io => ~running[s])
    BY <1>2, ConstantsAssumption
    DEF IInv, TypeOK, Stops, GetDeaiStrong, RefsAgree, RunningAgrees
  <2> QED BY <1>2, <2>1 DEF IInv, TypeOK, ActiveAfterStop, RunningAfterStop, RefAfterStop, Source
<1> QED BY <1>1, <1>2

\* The creation of a source.
LEMMA CreateInv ==
    ASSUME IInv, NEW s \in Source, NEW isZero \in BOOLEAN, Create(s, isZero)
    PROVE  IInv'
<1> USE ConstantsAssumption DEF Create, Interval, IInv
<1>1. TypeOK'
  BY DEF TypeOK, Source
<1>2. RefsAgree' /\ CallbackSound'
  BY DEF TypeOK, RefsAgree, CallbackSound
<1>3. DeaiCounted'
  BY DEF TypeOK, DeaiCounted, Referenced, ReferencedBut
<1>4. RunningAgrees'
  BY DEF TypeOK, RunningAgrees, Source
<1> QED BY <1>1, <1>2, <1>3, <1>4

\* The stop of a timer or an ioev.
LEMMA StopInv == ASSUME IInv, NEW s \in Source, Stop(s) PROVE IInv'
<1> USE ConstantsAssumption DEF Stop, Usable
<1>1. TypeOK' /\ RefsAgree' /\ CallbackSound'
  BY StopFacts DEF IInv, TypeOK, RefsAgree, CallbackSound, Settle
<1>2. DeaiCounted'
  <2>1. Referenced' => Referenced
    BY StopFacts DEF Referenced, ReferencedBut
  <2> QED BY <2>1, SettleCounted DEF IInv, DeaiCounted
<1>3. RunningAgrees'
  BY StopFacts DEF IInv, TypeOK, RunningAgrees, Source
<1> QED BY <1>1, <1>2, <1>3 DEF IInv

\* An ioev starts again.
LEMMA StartIoInv == ASSUME IInv, NEW s \in Io, StartIo(s) PROVE IInv'
<1> USE ConstantsAssumption DEF StartIo, Usable, IInv
<1>0. s \in Source
  BY DEF Source
<1>1. TypeOK'
  BY <1>0 DEF TypeOK
<1>2. RefsAgree' /\ CallbackSound'
  BY <1>0 DEF TypeOK, RefsAgree, CallbackSound
<1>3. DeaiCounted'
  BY <1>0 DEF TypeOK, DeaiCounted, Referenced, ReferencedBut, GetDeaiWeak
<1>4. RunningAgrees'
  BY <1>0 DEF TypeOK, RunningAgrees, Source
<1> QED BY <1>1, <1>2, <1>3, <1>4

\* A timer starts again, outside of its own handler.
LEMMA AgainInv ==
    ASSUME Liberties = {}, IInv, NEW s \in Timer, Again(s)
    PROVE  IInv'
<1> USE ConstantsAssumption DEF Again, Restartable, Usable, IInv
<1>0. s \in Source /\ s # callback
  BY DEF Source
<1>1. TypeOK'
  BY <1>0 DEF TypeOK
<1>2. RefsAgree' /\ CallbackSound'
  <2>1. CASE s \in zero
    <3>1. \/ active' = [active EXCEPT ![s] = FALSE] /\ ref' = [ref EXCEPT ![s] = "strong"]
          \/ active' = active /\ ref' = ref
      BY <2>1
    <3> QED BY <1>0, <2>1, <3>1 DEF TypeOK, RefsAgree, CallbackSound
  <2>2. CASE s \notin zero
    <3>1. \/ active' = [active EXCEPT ![s] = TRUE] /\ ref' = [ref EXCEPT ![s] = "strong"]
          \/ active' = active /\ ref' = ref
      BY <2>2
    <3> QED BY <1>0, <2>2, <3>1 DEF TypeOK, RefsAgree, CallbackSound
  <2> QED BY <2>1, <2>2
<1>3. DeaiCounted'
  BY <1>0 DEF TypeOK, DeaiCounted, Referenced, ReferencedBut, GetDeaiWeak
<1>4. RunningAgrees'
  BY <1>0 DEF TypeOK, RunningAgrees, Source
<1> QED BY <1>1, <1>2, <1>3, <1>4
\* A timeout is set: the timer stops and starts again, unless its reference to
\* deai was the last one.
LEMMA SetTimeoutInv ==
    ASSUME Liberties = {}, IInv, NEW s \in Timer, NEW isZero \in BOOLEAN,
           SetTimeout(s, isZero)
    PROVE  IInv'
<1> USE ConstantsAssumption
<1>0. s \in Source /\ s # callback /\ obj[s] = "alive"
  BY DEF SetTimeout, Restartable, Usable, Source
<1> DEFINE survives == deai = "alive" /\ ReferencedBut({s})
<1>1. CASE survives
  <2>1. /\ active' = [active EXCEPT ![s] = ~isZero]
        /\ zero' = IF isZero THEN zero \cup {s} ELSE zero \ {s}
        /\ ref' = [ref EXCEPT ![s] = "strong"]
        /\ leaked' = TRUE
        /\ UNCHANGED <<deai, obj, running, held, user, prepare, callback>>
    BY <1>0, <1>1, StopFacts DEF SetTimeout, Interval
  <2>2. DeaiCounted'
    BY <1>1, <2>1 DEF DeaiCounted, Referenced, ReferencedBut
  <2>3. RunningAgrees'
    BY <2>1 DEF IInv, TypeOK, RunningAgrees, Source
  <2> QED
    BY <1>0, <2>1, <2>2, <2>3 DEF IInv, TypeOK, RefsAgree, CallbackSound
<1>2. CASE ~survives
  <2>1. /\ active' = ActiveAfterStop(s)
        /\ zero' = IF isZero THEN zero \cup {s} ELSE zero \ {s}
        /\ ref' = RefAfterStop(s)
        /\ deai' = "dead"
        /\ UNCHANGED <<leaked, obj, running, held, user, prepare, callback>>
    BY <1>2 DEF SetTimeout, Interval
  <2>2. DeaiCounted'
    <3>1. Referenced' => ReferencedBut({s})
      BY <1>0, <2>1, StopFacts DEF Referenced, ReferencedBut
    <3>2. ReferencedBut({s}) => Referenced
      BY DEF Referenced, ReferencedBut
    <3> QED BY <1>2, <2>1, <3>1, <3>2 DEF IInv, DeaiCounted
  <2>3. RunningAgrees'
    BY <1>0, <2>1, StopFacts DEF IInv, TypeOK, RunningAgrees, Source
  <2>4. TypeOK'
    BY <1>0, <2>1, StopFacts DEF IInv, TypeOK
  <2>5. RefsAgree' /\ CallbackSound'
    BY <1>0, <2>1, StopFacts DEF IInv, TypeOK, RefsAgree, CallbackSound
  <2> QED BY <2>2, <2>3, <2>4, <2>5 DEF IInv
<1> QED BY <1>1, <1>2

\* A periodic gets another interval and offset.
LEMMA SetPeriodicInv ==
    ASSUME IInv, NEW s \in Periodic, NEW isZero \in BOOLEAN, SetPeriodic(s, isZero)
    PROVE  IInv'
<1> USE ConstantsAssumption DEF SetPeriodic, Interval, Usable, GetDeaiStrong, IInv
<1>0. s \in Source /\ s \notin Io /\ s \notin Timer
  BY DEF Source
<1>1. TypeOK'
  BY <1>0 DEF TypeOK, Source
<1>2. RefsAgree' /\ CallbackSound'
  BY <1>0 DEF TypeOK, RefsAgree, CallbackSound
<1>3. DeaiCounted'
  BY DEF DeaiCounted, Referenced, ReferencedBut
<1>4. RunningAgrees'
  BY <1>0 DEF TypeOK, RunningAgrees, Source
<1> QED BY <1>1, <1>2, <1>3, <1>4

\* The destruction of a source by Close, Release or the end of its callback.
LEMMA DestroyFacts ==
    ASSUME IInv, NEW s \in Source, NEW st \in {"closed", "freed"}, Destroy(s, st)
    PROVE  /\ active' \in [Source -> BOOLEAN]
           /\ running' \in [Io -> BOOLEAN]
           /\ ref' = [ref EXCEPT ![s] = "none"]
           /\ obj' = [obj EXCEPT ![s] = st]
           /\ zero' = zero \ {s}
           /\ ~active'[s]
           /\ \A t \in Source \ {s} : active'[t] = active[t]
           /\ \A t \in Io \ {s} : running'[t] = running[t]
<1>1. CASE obj[s] = "alive"
  BY <1>1, StopFacts DEF Destroy
<1>2. CASE obj[s] # "alive"
  <2>1. ~Stops(s) /\ ~active[s]
    BY <1>2 DEF IInv, TypeOK, RefsAgree, Stops, GetDeaiStrong
  <2> QED BY <2>1 DEF Destroy, ActiveAfterStop, RunningAfterStop, IInv, TypeOK
<1> QED BY <1>1, <1>2

\* A destroyed source leaves the others and the count of references alone.
LEMMA DestroyInv ==
    ASSUME IInv, NEW s \in Source, NEW st \in {"closed", "freed"}, Destroy(s, st),
           UNCHANGED <<user, leaked, prepare>>, Settle,
           \/ callback' = callback /\ (s = callback => st = "closed")
           \/ callback' = Null /\ s = callback,
           held' \subseteq held, st = "freed" => s \notin held'
    PROVE  IInv'
<1> USE ConstantsAssumption DEF IInv
<1>1. TypeOK'
  BY DestroyFacts DEF TypeOK, Settle
<1>2. RefsAgree' /\ CallbackSound'
  BY DestroyFacts DEF TypeOK, RefsAgree, CallbackSound
<1>3. DeaiCounted'
  <2>1. Referenced' => Referenced
    BY DestroyFacts DEF TypeOK, Referenced, ReferencedBut, Source
  <2> QED BY <2>1, SettleCounted DEF DeaiCounted
<1>4. RunningAgrees'
  BY DestroyFacts DEF TypeOK, RunningAgrees, Source
<1> QED BY <1>1, <1>2, <1>3, <1>4

\* User code drops its reference to a source.
LEMMA ReleaseInv == ASSUME IInv, NEW s \in Source, Release(s) PROVE IInv'
<1>1. CASE s = callback
  <2>1. IInv /\ Referenced' = Referenced
    BY <1>1 DEF Release, Referenced, ReferencedBut
  <2>2. DeaiCounted' /\ deai' \in {"alive", "dead"}
    BY <2>1, SettleCounted DEF Release, IInv, DeaiCounted
  <2> QED
    BY <1>1, <2>2
    DEF Release, IInv, TypeOK, RefsAgree, CallbackSound, RunningAgrees
<1>2. CASE s # callback
  BY <1>2, DestroyInv DEF Release
<1> QED BY <1>1, <1>2

\* A watcher fires.
LEMMA FireInv == ASSUME IInv, NEW s \in Source, Fire(s) PROVE IInv'
<1> USE ConstantsAssumption DEF Fire, IInv
<1>1. TypeOK'
  BY DEF TypeOK
<1>2. RefsAgree' /\ CallbackSound'
  BY DEF TypeOK, RefsAgree, CallbackSound
<1>3. DeaiCounted'
  BY DEF TypeOK, DeaiCounted, RefsAgree, Referenced, ReferencedBut
<1>4. RunningAgrees'
  BY DEF TypeOK, RunningAgrees, Source
<1> QED BY <1>1, <1>2, <1>3, <1>4

\* The end of a callback.
LEMMA CallbackEndsInv == ASSUME IInv, CallbackEnds PROVE IInv'
<1> USE ConstantsAssumption DEF CallbackEnds
<1>0. callback \in Source
  BY DEF IInv, TypeOK
<1>1. CASE callback \in Timer /\ GetDeaiStrong(callback)
  <2>0. ref' \in [Source -> {"none", "weak", "strong"}]
        /\ (\A t \in Source \ {callback} : ref'[t] = ref[t])
        /\ ref'[callback] = (IF callback \in held THEN "weak" ELSE "none")
    BY <1>0, <1>1 DEF IInv, TypeOK
  <2>1. TypeOK'
    BY <1>0, <1>1, <2>0 DEF IInv, TypeOK, Settle
  <2>2. RefsAgree' /\ CallbackSound'
    BY <1>0, <1>1, <2>0 DEF IInv, TypeOK, RefsAgree, CallbackSound, GetDeaiStrong
  <2>3. DeaiCounted'
    <3>1. Referenced' => Referenced
      BY <1>1, <2>0 DEF Referenced, ReferencedBut
    <3> QED BY <3>1, SettleCounted DEF IInv, DeaiCounted
  <2>4. RunningAgrees'
    BY <1>0, <1>1 DEF IInv, TypeOK, RunningAgrees, Source
  <2> QED BY <2>1, <2>2, <2>3, <2>4 DEF IInv
<1>2. CASE ~(callback \in Timer /\ GetDeaiStrong(callback)) /\ callback \in held
  <2>1. Referenced' => Referenced
    BY <1>2 DEF Referenced, ReferencedBut, Source
  <2>2. DeaiCounted' /\ deai' \in {"alive", "dead"}
    BY <2>1, SettleCounted DEF IInv, DeaiCounted
  <2> QED
    BY <1>2, <2>2
    DEF IInv, TypeOK, RefsAgree, CallbackSound, RunningAgrees, GetDeaiStrong
<1>3. CASE ~(callback \in Timer /\ GetDeaiStrong(callback)) /\ callback \notin held
  BY <1>0, <1>3, DestroyInv
<1> QED BY <1>1, <1>2, <1>3

\* Every step keeps the invariant.
LEMMA NextInv == ASSUME Liberties = {}, IInv, [Next]_vars PROVE IInv'
<1>1. ASSUME NEW s \in Source, NEW isZero \in BOOLEAN,
             Create(s, isZero) \/ Stop(s) \/ Release(s) \/ Fire(s)
      PROVE  IInv'
  BY <1>1, CreateInv, StopInv, ReleaseInv, FireInv
<1>2. ASSUME NEW s \in Io, StartIo(s) \/ Close(s) PROVE IInv'
  <2>1. CASE Close(s)
    BY <2>1, DestroyInv DEF Close, Source, Usable
  <2> QED BY <1>2, <2>1, StartIoInv
<1>3. ASSUME NEW s \in Timer, NEW isZero \in BOOLEAN, Again(s) \/ SetTimeout(s, isZero)
      PROVE  IInv'
  BY <1>3, AgainInv, SetTimeoutInv
<1>4. CASE ListenPrepare \/ HoldDeai
  <2>1. DeaiCounted'
    BY <1>4 DEF ListenPrepare, HoldDeai, IInv, DeaiCounted, Referenced, ReferencedBut, sources
  <2> QED BY <1>4, <2>1, SourcesKept DEF ListenPrepare, HoldDeai, IInv, TypeOK
<1>5. CASE UnlistenPrepare \/ DropDeai
  <2>1. Referenced' => Referenced
    BY <1>5 DEF UnlistenPrepare, DropDeai, Referenced, ReferencedBut, sources
  <2>2. DeaiCounted' /\ deai' \in {"alive", "dead"}
    BY <1>5, <2>1, SettleCounted DEF UnlistenPrepare, DropDeai, IInv, DeaiCounted
  <2> QED BY <1>5, <2>2, SourcesKept DEF UnlistenPrepare, DropDeai, IInv, TypeOK
<1>6. CASE UNCHANGED vars
  <2>1. DeaiCounted'
    BY <1>6 DEF vars, IInv, DeaiCounted, Referenced, ReferencedBut
  <2> QED BY <1>6, <2>1, SourcesKept DEF vars, sources, IInv, TypeOK
<1> QED BY <1>1, <1>2, <1>3, SetPeriodicInv, CallbackEndsInv, <1>4, <1>5, <1>6 DEF Next

\* The inductive invariant holds throughout.
LEMMA Invariance == Liberties = {} => (Spec => []IInv)
<1> SUFFICES ASSUME Liberties = {} PROVE Spec => []IInv
  OBVIOUS
<1>1. IInv /\ [Next]_vars => IInv'
  BY NextInv
<1> QED BY InitInv, <1>1, PTL DEF Spec

\* For any number of sources, the watchers of libev, the running flags and the
\* __deai members agree: no started watcher belongs to a source that was closed or
\* freed (di_timer_stop, di_stop_ioev, periodic_dtor), and a started source holds
\* the strong reference that keeps deai running.
THEOREM SourcesAlwaysSound == Liberties = {} => (Spec => []SourcesSound)
<1> SUFFICES ASSUME Liberties = {} PROVE Spec => []SourcesSound
  OBVIOUS
<1>1. IInv => SourcesSound
  <2> SUFFICES ASSUME IInv PROVE SourcesSound
    OBVIOUS
  <2>1. StartedIsStrong
    BY DEF IInv, RefsAgree, StartedIsStrong
  <2>2. WatcherLive
    BY DEF IInv, TypeOK, RefsAgree, DeaiCounted, Referenced, ReferencedBut, WatcherLive
  <2> QED BY <2>1, <2>2 DEF IInv, SourcesSound
<1> QED BY <1>1, Invariance, PTL

\* When nothing can happen any more - no started source, no listener of prepare and
\* nobody in user code holding deai - di_dtor has broken the main loop exactly if no
\* reference to deai is stranded: leaked by a restart (event.c:84, 202), or in the
\* member of a timer or periodic whose timeout or interval of 0 left it stopped.
THEOREM AlwaysQuitsWhenIdle == Liberties = {} => (Spec => []QuitsWhenIdle)
<1> SUFFICES ASSUME Liberties = {} PROVE Spec => []QuitsWhenIdle
  OBVIOUS
<1>1. IInv => QuitsWhenIdle
  <2> SUFFICES ASSUME IInv, Idle PROVE deai = "dead" <=> ~Stranded
    BY DEF QuitsWhenIdle
  <2>1. \A s \in Source : ref[s] = "strong" => s \in zero
    BY ConstantsAssumption DEF IInv, TypeOK, RefsAgree, Idle
  <2>2. callback \notin Timer
    BY ConstantsAssumption DEF Idle, Source
  <2>3. zero \subseteq Source
    BY DEF IInv, TypeOK, Source
  <2>4. Referenced <=> Stranded
    BY <2>1, <2>2, <2>3 DEF Idle, Referenced, ReferencedBut, Stranded
  <2> QED BY <2>4 DEF IInv, TypeOK, DeaiCounted
<1> QED BY <1>1, Invariance, PTL

-----------------------------------------------------------------------------
(* FileWatch *)

\* What the tables, the queue and the record of emissions are made of.
EntrySet == [wd : Nat, name : Path]
QueuedSet == [wd : Nat, file : File, kind : {"event", "delete-self", "ignored"}]
EmittedSet == [at : Nat, name : Path]

\* The types of the watcher; only a call that user code can make adds paths.
FileTypeOK ==
    /\ kernel \in [File -> Nat] /\ given \in Seq(File) /\ queue \in Seq(QueuedSet)
    /\ read \in Nat /\ scanned \in Nat /\ scanned <= read /\ read <= Len(queue)
    /\ entries \in Seq(EntrySet) /\ adding \in Seq(Path) /\ emitted \in Seq(EmittedSet)
    /\ fw \in {"new", "making", "idle", "scan", "emit", "spin", "closed"}
    /\ adding # <<>> => fw \in {"making", "idle", "emit"}
    /\ fw = "spin" => scanned < read

\* A wd belongs to one file: in the kernel, in the entries and in the queue.
KernelOK == \A f \in File : kernel[f] # 0 => kernel[f] \in 1..Len(given) /\ given[kernel[f]] = f
EntriesOK ==
    \A i \in 1..Len(entries) : /\ entries[i].wd \in 1..Len(given)
                               /\ given[entries[i].wd] = FileOf[entries[i].name]
QueueOK ==
    \A k \in 1..Len(queue) : queue[k].wd \in 1..Len(given) /\ given[queue[k].wd] = queue[k].file

\* An event that the loop still has to look at has an entry, or its watch was removed.
EntryFor(es, w) == \E i \in 1..Len(es) : es[i].wd = w
StaleOK ==
    fw # "closed" => \A k \in (scanned + 1)..Len(queue) :
                         EntryFor(entries, queue[k].wd) \/ queue[k].wd \in removed

\* The kernel watches nothing for a watcher that has ended.
EndedOK == fw = "closed" => \A f \in File : kernel[f] = 0

FileInv ==
    /\ FileTypeOK /\ KernelOK /\ EntriesOK /\ QueueOK /\ StaleOK /\ EndedOK
    /\ EventsFaithful /\ WatchesKnown /\ SpinsOnlyStale

\* The parts of the watcher have their types.
LEMMA FileTypes ==
    ASSUME FileInv
    PROVE  /\ Len(given) \in Nat /\ Len(queue) \in Nat /\ Len(entries) \in Nat /\ Len(emitted) \in Nat
           /\ \A f \in File : kernel[f] \in Nat
           /\ \A i \in 1..Len(entries) : entries[i].wd \in Nat /\ entries[i].name \in Path
           /\ \A k \in 1..Len(queue) : /\ queue[k].wd \in Nat /\ queue[k].file \in File
                                       /\ queue[k].kind \in {"event", "delete-self", "ignored"}
           /\ \A i \in 1..Len(emitted) : emitted[i].at \in Nat /\ emitted[i].name \in Path
           /\ \A p \in Path : FileOf[p] \in File
<1>1. /\ \A i \in 1..Len(entries) : entries[i] \in EntrySet
      /\ \A k \in 1..Len(queue) : queue[k] \in QueuedSet
      /\ \A i \in 1..Len(emitted) : emitted[i] \in EmittedSet
  BY DEF FileInv, FileTypeOK
<1>2. \A i \in 1..Len(entries) : entries[i].wd \in Nat /\ entries[i].name \in Path
  BY <1>1 DEF EntrySet
<1>3. \A k \in 1..Len(queue) : /\ queue[k].wd \in Nat /\ queue[k].file \in File
                               /\ queue[k].kind \in {"event", "delete-self", "ignored"}
  BY <1>1 DEF QueuedSet
<1>4. \A i \in 1..Len(emitted) : emitted[i].at \in Nat /\ emitted[i].name \in Path
  BY <1>1 DEF EmittedSet
<1>5. \A p \in Path : FileOf[p] \in File
  BY FileAssumption
<1>6. QED
  BY <1>2, <1>3, <1>4, <1>5 DEF FileInv, FileTypeOK

\* A step of which neither the loop nor handlers see anything.
LEMMA SameEmitted ==
    ASSUME FileInv, scanned' = scanned, emitted' = emitted,
           \A k \in 1..scanned : queue'[k] = queue[k]
    PROVE  EventsFaithful'
BY DEF FileInv, EventsFaithful

\* A step that leaves the kernel and the tables alone.
LEMMA SameTables ==
    ASSUME FileInv, kernel' = kernel, given' = given, queue' = queue, entries' = entries,
           removed' = removed
    PROVE  KernelOK' /\ EntriesOK' /\ QueueOK' /\ WatchesKnown'
BY DEF FileInv, KernelOK, EntriesOK, QueueOK, WatchesKnown

\* Calls and callbacks begin and go on.
LEMMA FileControlInv ==
    ASSUME FileInv, inotify' = inotify, entries' = entries, removed' = removed, emitted' = emitted,
           scanned' = scanned, read' \in Nat, read' >= read, read' <= Len(queue),
           adding' \in Seq(Path), adding' # <<>> => fw' \in {"making", "idle", "emit"},
           fw' \in {"new", "making", "idle", "scan", "emit", "spin"}, fw # "closed",
           fw' = "spin" => scanned < read' /\ queue[scanned + 1].wd \in removed
    PROVE  FileInv'
<1>1. kernel' = kernel /\ given' = given /\ queue' = queue
  BY DEF inotify
<1>2. EventsFaithful'
  BY <1>1, SameEmitted
<1>3. KernelOK' /\ EntriesOK' /\ QueueOK' /\ WatchesKnown'
  BY <1>1, SameTables
<1>4. StaleOK'
  BY <1>1, <1>3 DEF FileInv, StaleOK
<1>5. FileTypeOK'
  BY <1>1 DEF FileInv, FileTypeOK
<1>6. SpinsOnlyStale' /\ EndedOK'
  BY <1>1 DEF SpinsOnlyStale, EndedOK
<1>7. QED
  BY <1>2, <1>3, <1>4, <1>5, <1>6 DEF FileInv

\* The watcher ends.
LEMMA StoppedInv ==
    ASSUME FileInv, Stopped, given' = given, queue' = queue, removed' = removed, emitted' = emitted,
           scanned' = scanned, read' = read, adding' = <<>>
    PROVE  FileInv'
<1> DEFINE E == <<>>
<1>1. fw' = "closed" /\ kernel' = [f \in File |-> 0] /\ entries' = E /\ adding' = E
  BY DEF Stopped
<1>2. E \in Seq(EntrySet) /\ E \in Seq(Path) /\ \A i \in 1..Len(E) : FALSE
  OBVIOUS
<1>3. FileTypeOK'
  <2>1. kernel' \in [File -> Nat]
    BY <1>1
  <2>2. adding' = <<>>
    OBVIOUS
  <2> HIDE DEF E
  <2>3. QED
    BY <1>1, <1>2, <2>1, <2>2 DEF FileInv, FileTypeOK
<1> HIDE DEF E
<1>4. EventsFaithful'
  BY SameEmitted
<1>5. KernelOK' /\ WatchesKnown' /\ EndedOK'
  BY <1>1 DEF KernelOK, WatchesKnown, EndedOK
<1>6. EntriesOK' /\ QueueOK' /\ StaleOK' /\ SpinsOnlyStale'
  BY <1>1, <1>2 DEF FileInv, EntriesOK, QueueOK, StaleOK, SpinsOnlyStale
<1>7. QED
  BY <1>3, <1>4, <1>5, <1>6 DEF FileInv

\* Calls, callbacks and the end of the watcher.
LEMMA FileStepsInv ==
    ASSUME FileInv,
           \/ \E p, q \in Path : NewWatch(<<p, q>>) \/ AddMany(<<p, q>>)
           \/ \E p \in Path : AddMany(<<p>>)
           \/ \E k \in 1..MaxRead : Read(k)
           \/ NewWatchReturns \/ AddFails \/ DropWatcher \/ ScanSpins \/ HandlersReturn \/ ScanEnds
    PROVE  FileInv'
<1>1. /\ FileTypeOK /\ StaleOK /\ read \in Nat /\ scanned \in Nat /\ scanned <= read /\ read <= Len(queue)
      /\ read >= read /\ Len(queue) \in Nat /\ <<>> \in Seq(Path) /\ adding \in Seq(Path)
      /\ (adding # <<>> => fw \in {"making", "idle", "emit"})
  BY FileTypes DEF FileInv, FileTypeOK
<1>2. CASE (\E p, q \in Path : NewWatch(<<p, q>>) \/ AddMany(<<p, q>>)) \/ \E p \in Path : AddMany(<<p>>)
  <2>1. PICK ps \in Seq(Path) : NewWatch(ps) \/ AddMany(ps)
    <3>1. \A p, q \in Path : <<p, q>> \in Seq(Path) /\ <<p>> \in Seq(Path)
      OBVIOUS
    <3>2. QED
      BY <1>2, <3>1
  <2>2. /\ fw \in {"new", "idle", "emit"} /\ fw' \in {"making", "idle", "emit"} /\ adding' = ps
        /\ inotify' = inotify /\ entries' = entries /\ removed' = removed /\ emitted' = emitted
        /\ scanned' = scanned /\ read' = read
    BY <2>1 DEF NewWatch, AddMany, MayCall
  <2>3. QED
    BY <1>1, <2>2, FileControlInv
<1>3. CASE \E k \in 1..MaxRead : Read(k)
  <2>1. PICK k \in 1..MaxRead : Read(k)
    BY <1>3
  <2>2. k \in Nat
    BY FileAssumption
  <2>3. /\ fw = "idle" /\ fw' = "scan" /\ adding' = adding /\ adding = <<>>
        /\ inotify' = inotify /\ entries' = entries /\ removed' = removed /\ emitted' = emitted
        /\ scanned' = scanned /\ read' = read + k /\ read + k <= Len(queue)
    BY <2>1 DEF Read
  <2>4. read' \in Nat /\ read' >= read /\ read' <= Len(queue)
    BY <1>1, <2>2, <2>3
  <2>5. QED
    BY <1>1, <2>3, <2>4, FileControlInv
<1>4. CASE NewWatchReturns \/ HandlersReturn
  <2>1. /\ fw \in {"making", "emit"} /\ fw' \in {"idle", "scan"} /\ adding' = adding /\ adding = <<>>
        /\ inotify' = inotify /\ entries' = entries /\ removed' = removed /\ emitted' = emitted
        /\ scanned' = scanned /\ read' = read
    BY <1>4 DEF NewWatchReturns, HandlersReturn
  <2>2. QED
    BY <1>1, <2>1, FileControlInv
<1>5. CASE ScanSpins
  <2>1. /\ fw = "scan" /\ fw' = "spin" /\ adding' = adding /\ scanned < read
        /\ inotify' = inotify /\ entries' = entries /\ removed' = removed /\ emitted' = emitted
        /\ scanned' = scanned /\ read' = read /\ ~EntryFor(entries, queue[scanned + 1].wd)
    BY <1>5 DEF ScanSpins, EntryFor
  <2>2. scanned + 1 \in (scanned + 1)..Len(queue)
    BY <1>1, <2>1
  <2>3. queue[scanned + 1].wd \in removed
    BY <1>1, <2>1, <2>2 DEF StaleOK
  <2>4. adding' = <<>>
    BY <1>1, <2>1
  <2>5. QED
    BY <1>1, <2>1, <2>3, <2>4, FileControlInv
<1>6. CASE AddFails
  <2>1. /\ adding # <<>> /\ adding' = <<>> /\ given' = given /\ queue' = queue /\ exists' = exists
        /\ removed' = removed /\ emitted' = emitted /\ scanned' = scanned /\ read' = read
    BY <1>6 DEF AddFails
  <2>2. CASE fw = "making"
    BY <1>6, <2>1, <2>2, StoppedInv DEF AddFails
  <2>3. CASE fw # "making"
    <3>1. fw' = fw /\ inotify' = inotify /\ entries' = entries /\ fw \in {"idle", "emit"}
      BY <1>1, <1>6, <2>1, <2>3 DEF AddFails, inotify
    <3>2. QED
      BY <1>1, <2>1, <3>1, FileControlInv
  <2>4. QED
    BY <2>2, <2>3
<1>7. CASE DropWatcher \/ ScanEnds
  <2>1. /\ adding' = adding /\ given' = given /\ queue' = queue /\ exists' = exists
        /\ removed' = removed /\ emitted' = emitted /\ scanned' = scanned /\ read' = read
        /\ fw \in {"idle", "scan", "emit"}
    BY <1>7 DEF DropWatcher, ScanEnds, MayCall
  <2>2. adding = <<>>
    BY <1>1, <1>7, <2>1 DEF DropWatcher, ScanEnds, MayCall
  <2>3. CASE Stopped
    BY <2>1, <2>2, <2>3, StoppedInv
  <2>4. CASE ~Stopped
    <3>1. kernel' = kernel /\ entries' = entries /\ fw' \in {fw, "idle"}
      BY <1>7, <2>4 DEF DropWatcher, ScanEnds
    <3>2. inotify' = inotify
      BY <2>1, <3>1 DEF inotify
    <3>3. QED
      BY <1>1, <2>1, <2>2, <3>1, <3>2, FileControlInv
  <2>5. QED
    BY <2>3, <2>4
<1>8. QED
  BY <1>2, <1>3, <1>4, <1>5, <1>6, <1>7

\* The queue after one more event.
LEMMA QueuedMore ==
    ASSUME NEW q \in Seq(QueuedSet), NEW ev \in QueuedSet
    PROVE  /\ Append(q, ev) \in Seq(QueuedSet) /\ Len(Append(q, ev)) = Len(q) + 1 /\ Len(q) \in Nat
           /\ Append(q, ev)[Len(q) + 1] = ev
           /\ \A k \in 1..Len(q) : Append(q, ev)[k] = q[k]
OBVIOUS

\* What is known of the events of a queue q from position n on, with the entries es and
\* the removed wds r.
QueueFine(q, n, g, es, r) ==
    /\ q \in Seq(QueuedSet)
    /\ \A k \in 1..Len(q) : q[k].wd \in 1..Len(g) /\ g[q[k].wd] = q[k].file
    /\ \A k \in n..Len(q) : EntryFor(es, q[k].wd) \/ q[k].wd \in r

\* An event is queued, for a wd that has an entry or that was removed.
LEMMA QueueFineMore ==
    ASSUME NEW q, NEW n \in Nat \ {0}, NEW g, NEW es, NEW r, QueueFine(q, n, g, es, r),
           NEW f \in File, NEW d \in {"event", "delete-self", "ignored"}, NEW w \in Nat,
           w \in 1..Len(g), g[w] = f, EntryFor(es, w) \/ w \in r
    PROVE  /\ QueueFine(Append(q, [wd |-> w, file |-> f, kind |-> d]), n, g, es, r)
           /\ Len(Append(q, [wd |-> w, file |-> f, kind |-> d])) = Len(q) + 1
           /\ \A k \in 1..Len(q) : Append(q, [wd |-> w, file |-> f, kind |-> d])[k] = q[k]
<1> DEFINE ev == [wd |-> w, file |-> f, kind |-> d]
           p == Append(q, ev)
<1>1. q \in Seq(QueuedSet) /\ Len(q) \in Nat
  BY DEF QueueFine
<1>2. ev \in QueuedSet /\ ev.wd = w /\ ev.file = f
  BY DEF QueuedSet
<1> HIDE DEF ev
<1>3. /\ p \in Seq(QueuedSet) /\ Len(p) = Len(q) + 1 /\ p[Len(q) + 1] = ev
      /\ \A k \in 1..Len(q) : p[k] = q[k]
  BY <1>1, <1>2, QueuedMore
<1> HIDE DEF p
<1>4. ASSUME NEW k \in 1..Len(p) PROVE p[k].wd \in 1..Len(g) /\ g[p[k].wd] = p[k].file
  <2>1. CASE k = Len(q) + 1
    BY <1>2, <1>3, <2>1
  <2>2. CASE k \in 1..Len(q)
    BY <1>3, <2>2 DEF QueueFine
  <2>3. QED
    BY <1>1, <1>3, <2>1, <2>2
<1>5. ASSUME NEW k \in n..Len(p) PROVE EntryFor(es, p[k].wd) \/ p[k].wd \in r
  <2>1. CASE k = Len(q) + 1
    BY <1>2, <1>3, <2>1
  <2>2. CASE k \in n..Len(q) /\ k \in 1..Len(q)
    BY <1>3, <2>2 DEF QueueFine
  <2>3. QED
    BY <1>1, <1>3, <2>1, <2>2
<1>6. QueueFine(p, n, g, es, r)
  BY <1>3, <1>4, <1>5 DEF QueueFine
<1>7. QED
  BY <1>3, <1>6 DEF p, ev

\* The queue of a watcher that has not ended.
LEMMA FileQueueFine ==
    ASSUME FileInv, fw # "closed"
    PROVE  QueueFine(queue, scanned + 1, given, entries, removed) /\ scanned + 1 \in Nat \ {0}
BY DEF FileInv, FileTypeOK, QueueOK, StaleOK, QueueFine

\* More entries and more removed wds do not hurt.
LEMMA QueueFineKept ==
    ASSUME NEW q, NEW n, NEW g, NEW es, NEW r, QueueFine(q, n, g, es, r), NEW fs, NEW t,
           \A w : EntryFor(es, w) => EntryFor(fs, w) \/ w \in t, \A w \in r : w \in t
    PROVE  QueueFine(q, n, g, fs, t)
BY DEF QueueFine

\* A step that keeps the entries, the wds and the queue in order.
LEMMA FileTablesInv ==
    ASSUME FileInv, fw # "closed", fw # "spin" \/ removed' = removed, fw' = fw, scanned' = scanned, read' = read,
           emitted' = emitted, adding' \in Seq(Path), adding' # <<>> => adding # <<>>,
           kernel' \in [File -> Nat], given' \in Seq(File), entries' \in Seq(EntrySet),
           Len(queue') >= Len(queue), Len(queue') \in Nat,
           \A k \in 1..Len(queue) : queue'[k] = queue[k],
           QueueFine(queue', scanned + 1, given', entries', removed'),
           KernelOK', EntriesOK', WatchesKnown'
    PROVE  FileInv'
<1>1. /\ FileTypeOK /\ read \in Nat /\ scanned \in Nat /\ scanned <= read /\ read <= Len(queue)
      /\ Len(queue) \in Nat
  BY FileTypes DEF FileInv, FileTypeOK
<1>2. QueueOK' /\ StaleOK' /\ EndedOK' /\ queue' \in Seq(QueuedSet)
  BY DEF QueueFine, QueueOK, StaleOK, EndedOK
<1>3. EventsFaithful'
  <2>1. \A k \in 1..scanned : queue'[k] = queue[k]
    BY <1>1
  <2>2. QED
    BY <2>1, SameEmitted
<1>4. FileTypeOK'
  BY <1>1, <1>2 DEF FileTypeOK
<1>5. SpinsOnlyStale'
  <2>1. ASSUME fw = "spin" PROVE queue'[scanned + 1].wd \in removed
    <3>1. queue[scanned + 1].wd \in removed /\ scanned < read
      BY <2>1 DEF FileInv, FileTypeOK, SpinsOnlyStale
    <3>2. scanned + 1 \in 1..Len(queue)
      BY <1>1, <3>1
    <3>3. QED
      BY <3>1, <3>2
  <2>2. QED
    BY <2>1 DEF SpinsOnlyStale
<1>6. QED
  BY <1>2, <1>3, <1>4, <1>5 DEF FileInv

\* The kernel queues an event of a file.
LEMMA FileEventInv == ASSUME FileInv, NEW f \in File, FileEvent(f) PROVE FileInv'
<1> DEFINE w == kernel[f]
           q == Append(queue, [wd |-> w, file |-> f, kind |-> "event"])
<1>1. /\ w # 0 /\ queue' = q /\ kernel' = kernel /\ given' = given /\ entries' = entries
      /\ removed' = removed /\ emitted' = emitted /\ scanned' = scanned /\ read' = read
      /\ adding' = adding /\ fw' = fw
  BY DEF FileEvent
<1>2. /\ w \in Nat /\ w \in 1..Len(given) /\ given[w] = f /\ EntryFor(entries, w) /\ fw # "closed"
      /\ Len(queue) \in Nat
  BY <1>1, FileTypes DEF FileInv, KernelOK, WatchesKnown, EndedOK, EntryFor
<1>3. QueueFine(queue, scanned + 1, given, entries, removed) /\ scanned + 1 \in Nat \ {0}
  BY <1>2, FileQueueFine
<1> HIDE DEF w
<1>4. /\ QueueFine(q, scanned + 1, given, entries, removed) /\ Len(q) = Len(queue) + 1
      /\ \A k \in 1..Len(queue) : q[k] = queue[k]
  BY ONLY <1>2, <1>3, QueueFineMore, f \in File
<1> HIDE DEF q
<1>5. KernelOK' /\ EntriesOK' /\ WatchesKnown'
  BY <1>1 DEF FileInv, KernelOK, EntriesOK, WatchesKnown
<1>6. /\ kernel \in [File -> Nat] /\ given \in Seq(File) /\ entries \in Seq(EntrySet) /\ adding \in Seq(Path)
  BY DEF FileInv, FileTypeOK
<1>7. Len(q) >= Len(queue) /\ Len(q) \in Nat
  BY <1>2, <1>4
<1>8. QED
  BY <1>1, <1>2, <1>4, <1>5, <1>6, <1>7, FileTablesInv

\* A file is deleted.
LEMMA DeleteFileInv == ASSUME FileInv, NEW f \in File, DeleteFile(f) PROVE FileInv'
<1> DEFINE w == kernel[f]
           q == Append(queue, [wd |-> w, file |-> f, kind |-> "delete-self"])
           p == Append(q, [wd |-> w, file |-> f, kind |-> "ignored"])
<1>1. /\ queue' = (IF w = 0 THEN queue ELSE p) /\ kernel' = [kernel EXCEPT ![f] = 0] /\ given' = given
      /\ entries' = entries
      /\ removed' = removed /\ emitted' = emitted /\ scanned' = scanned /\ read' = read
      /\ adding' = adding /\ fw' = fw
  BY DEF DeleteFile, Ignored
<1>2. /\ kernel \in [File -> Nat] /\ given \in Seq(File) /\ entries \in Seq(EntrySet) /\ adding \in Seq(Path)
      /\ w \in Nat /\ Len(queue) \in Nat
  BY FileTypes DEF FileInv, FileTypeOK
<1>3. /\ kernel' \in [File -> Nat] /\ kernel'[f] = 0
      /\ \A g \in File : kernel'[g] = 0 \/ kernel'[g] = kernel[g]
  BY <1>1, <1>2
<1>4. KernelOK' /\ EntriesOK' /\ WatchesKnown'
  BY <1>1, <1>3 DEF FileInv, KernelOK, EntriesOK, WatchesKnown
<1>5. CASE w = 0
  <2>1. kernel' = kernel
    BY <1>1, <1>2, <1>5
  <2>2. CASE fw = "closed"
    <3>1. EventsFaithful'
      BY <1>1, <1>5, SameEmitted
    <3>2. FileTypeOK' /\ QueueOK' /\ StaleOK' /\ EndedOK' /\ SpinsOnlyStale'
      BY <1>1, <1>5, <2>1, <2>2 DEF FileInv, FileTypeOK, QueueOK, StaleOK, EndedOK, SpinsOnlyStale
    <3>3. QED
      BY <1>4, <3>1, <3>2 DEF FileInv
  <2>3. CASE fw # "closed"
    BY <1>1, <1>2, <1>4, <1>5, <2>1, <2>3, FileQueueFine, FileTablesInv
  <2>4. QED
    BY <2>2, <2>3
<1>6. CASE w # 0
  <2>1. w \in 1..Len(given) /\ given[w] = f /\ EntryFor(entries, w) /\ fw # "closed"
    BY <1>6 DEF FileInv, KernelOK, WatchesKnown, EndedOK, EntryFor
  <2>2. QueueFine(queue, scanned + 1, given, entries, removed) /\ scanned + 1 \in Nat \ {0}
    BY <2>1, FileQueueFine
  <2> HIDE DEF w
  <2>3. /\ QueueFine(q, scanned + 1, given, entries, removed) /\ Len(q) = Len(queue) + 1
        /\ \A k \in 1..Len(queue) : q[k] = queue[k]
    BY ONLY <1>2, <2>1, <2>2, QueueFineMore, f \in File
  <2> HIDE DEF q
  <2>4. /\ QueueFine(p, scanned + 1, given, entries, removed) /\ Len(p) = Len(q) + 1
        /\ \A k \in 1..Len(q) : p[k] = q[k]
    BY ONLY <1>2, <2>1, <2>2, <2>3, QueueFineMore, f \in File
  <2> HIDE DEF p
  <2>5. /\ Len(p) >= Len(queue) /\ Len(p) \in Nat /\ \A k \in 1..Len(queue) : p[k] = queue[k]
    <3>1. Len(queue) \in Nat
      BY <1>2
    <3>2. Len(p) >= Len(queue) /\ Len(p) \in Nat /\ \A k \in 1..Len(queue) : k \in 1..Len(q)
      BY ONLY <2>3, <2>4, <3>1
    <3>3. QED
      BY ONLY <2>3, <2>4, <3>2
  <2>6. QED
    BY <1>1, <1>2, <1>3, <1>4, <1>6, <2>1, <2>4, <2>5, FileTablesInv
<1>7. QED
  BY <1>5, <1>6

\* A path is added.
LEMMA AddWatchInv == ASSUME FileInv, AddWatch PROVE FileInv'
<1>0. /\ adding # <<>> /\ adding \in Seq(Path) /\ fw \in {"making", "idle", "emit"}
      /\ kernel \in [File -> Nat] /\ given \in Seq(File) /\ entries \in Seq(EntrySet)
      /\ Len(given) \in Nat /\ Len(entries) \in Nat /\ Len(queue) \in Nat
  BY FileTypes DEF FileInv, FileTypeOK, AddWatch
<1>1. PICK p \in Path : p = Head(adding)
  BY <1>0
<1>2. PICK f \in File : f = FileOf[p]
  BY FileAssumption
<1>3. PICK w \in Nat : w = WdOf(f)
  BY <1>0 DEF WdOf
<1> DEFINE e == [wd |-> w, name |-> p]
           es == <<e>> \o entries
           g == IF kernel[f] = 0 THEN Append(given, f) ELSE given
<1>4. /\ kernel' = [kernel EXCEPT ![f] = w] /\ given' = g /\ entries' = es /\ adding' = Tail(adding)
      /\ queue' = queue /\ removed' = removed /\ emitted' = emitted /\ scanned' = scanned
      /\ read' = read /\ fw' = fw
  BY <1>1, <1>2, <1>3 DEF AddWatch
<1>5. Tail(adding) \in Seq(Path)
  BY <1>0
<1>6. e \in EntrySet /\ e.wd = w /\ e.name = p
  BY DEF EntrySet
<1> HIDE DEF e
<1>7. /\ es \in Seq(EntrySet) /\ Len(es) = Len(entries) + 1 /\ es[1] = e
      /\ \A i \in 1..Len(entries) : es[i + 1] = entries[i]
  BY <1>0, <1>6
<1> HIDE DEF es
<1>8. /\ g \in Seq(File) /\ Len(g) \in Nat /\ Len(g) >= Len(given) /\ w \in 1..Len(g) /\ g[w] = f
      /\ w # 0
      /\ \A x \in 1..Len(given) : x \in 1..Len(g) /\ g[x] = given[x]
  <2>1. CASE kernel[f] = 0
    BY <1>0, <1>3, <2>1 DEF WdOf
  <2>2. CASE kernel[f] # 0
    BY <1>0, <1>3, <2>2 DEF WdOf, FileInv, KernelOK
  <2>3. QED
    BY <2>1, <2>2
<1> HIDE DEF g
<1>9. /\ kernel' \in [File -> Nat] /\ kernel'[f] = w
      /\ \A x \in File : x # f => kernel'[x] = kernel[x]
  BY <1>0, <1>4
<1>10. KernelOK'
  BY <1>4, <1>8, <1>9 DEF FileInv, KernelOK
<1>11. EntriesOK'
  <2>1. ASSUME NEW i \in 1..Len(es) PROVE es[i].wd \in 1..Len(g) /\ g[es[i].wd] = FileOf[es[i].name]
    <3>1. CASE i = 1
      BY <1>2, <1>6, <1>7, <1>8, <3>1
    <3>2. CASE i # 1
      <4>1. Len(entries) \in Nat /\ Len(es) = Len(entries) + 1
        BY <1>0, <1>7
      <4>2. PICK k \in 1..Len(entries) : i = k + 1
        BY ONLY <3>2, <4>1
      <4>3. es[i] = entries[k]
        BY <1>7, <4>2
      <4>4. entries[k].wd \in 1..Len(given) /\ given[entries[k].wd] = FileOf[entries[k].name]
        BY DEF FileInv, EntriesOK
      <4>5. entries[k].wd \in 1..Len(g) /\ g[entries[k].wd] = given[entries[k].wd]
        BY <1>8, <4>4
      <4>6. QED
        BY <4>3, <4>4, <4>5
    <3>3. QED
      BY <3>1, <3>2
  <2>2. QED
    BY <1>4, <2>1 DEF EntriesOK
<1>12. /\ EntryFor(es, w) /\ \A x : EntryFor(entries, x) => EntryFor(es, x)
  <2>1. 1 \in 1..Len(es) /\ \A i \in 1..Len(entries) : i + 1 \in 1..Len(es)
    BY <1>0, <1>7
  <2>2. QED
    BY <1>6, <1>7, <2>1 DEF EntryFor
<1>13. WatchesKnown'
  <2>1. ASSUME NEW x \in File, kernel'[x] # 0 PROVE EntryFor(es, kernel'[x])
    <3>1. CASE x = f
      BY <1>9, <1>12, <3>1
    <3>2. CASE x # f
      <4>1. EntryFor(entries, kernel[x])
        BY <1>9, <2>1, <3>2 DEF FileInv, WatchesKnown, EntryFor
      <4>2. QED
        BY <1>9, <1>12, <3>2, <4>1
    <3>3. QED
      BY <3>1, <3>2
  <2>2. QED
    BY <1>4, <2>1 DEF WatchesKnown, EntryFor
<1>14. QueueFine(queue, scanned + 1, g, es, removed)
  <2>1. QueueFine(queue, scanned + 1, given, entries, removed)
    BY <1>0, FileQueueFine
  <2>2. QueueFine(queue, scanned + 1, g, entries, removed)
    BY <1>8, <2>1 DEF QueueFine
  <2>3. QED
    BY <1>12, <2>2, QueueFineKept
<1>15. QED
  BY <1>0, <1>4, <1>5, <1>7, <1>8, <1>9, <1>10, <1>11, <1>13, <1>14, FileTablesInv

\* An entry is removed.
LEMMA RmWatchInv ==
    ASSUME FileInv, NEW p \in Path, NEW i \in 1..Len(entries), RmWatch(p, i)
    PROVE  FileInv'
<1>0. /\ adding = <<>> /\ adding \in Seq(Path) /\ fw \in {"idle", "emit"}
      /\ kernel \in [File -> Nat] /\ given \in Seq(File) /\ entries \in Seq(EntrySet)
      /\ Len(given) \in Nat /\ Len(entries) \in Nat /\ Len(queue) \in Nat /\ queue \in Seq(QueuedSet)
  BY FileTypes DEF FileInv, FileTypeOK, RmWatch, MayCall
<1>1. PICK w \in Nat : w = entries[i].wd
  BY FileTypes
<1>2. PICK f \in File : f = FileOf[p]
  BY FileAssumption
<1> DEFINE es == SubSeq(entries, 1, i - 1) \o SubSeq(entries, i + 1, Len(entries))
           q == Append(queue, [wd |-> w, file |-> f, kind |-> "ignored"])
           r == removed \cup {w}
<1>3. /\ kernel' = [x \in File |-> IF kernel[x] = w THEN 0 ELSE kernel[x]] /\ given' = given
      /\ queue' = (IF \E x \in File : kernel[x] = w THEN q ELSE queue)
      /\ entries' = es /\ adding' = adding /\ removed' = r /\ emitted' = emitted
      /\ scanned' = scanned /\ read' = read /\ fw' = fw /\ entries[i].name = p
  BY <1>1, <1>2 DEF RmWatch, FoundByName, Ignored
<1>4. w \in 1..Len(given) /\ given[w] = f
  BY <1>1, <1>2, <1>3 DEF FileInv, EntriesOK
<1>5. /\ es \in Seq(EntrySet) /\ Len(es) = Len(entries) - 1
      /\ \A j \in 1..(i - 1) : es[j] = entries[j]
      /\ \A j \in i..(Len(entries) - 1) : es[j] = entries[j + 1]
  <2> DEFINE a == SubSeq(entries, 1, i - 1)
             b == SubSeq(entries, i + 1, Len(entries))
  <2>1. /\ a \in Seq(EntrySet) /\ Len(a) = i - 1 /\ \A j \in 1..(i - 1) : a[j] = entries[j]
    BY <1>0
  <2>2. /\ b \in Seq(EntrySet) /\ Len(b) = Len(entries) - i
        /\ \A j \in 1..(Len(entries) - i) : b[j] = entries[i + j]
    BY <1>0
  <2> HIDE DEF a, b
  <2>3. /\ a \o b \in Seq(EntrySet) /\ Len(a \o b) = Len(entries) - 1
        /\ \A j \in 1..Len(a) : (a \o b)[j] = a[j]
        /\ \A j \in 1..Len(b) : (a \o b)[Len(a) + j] = b[j]
    <3>0. a \in Seq(EntrySet) /\ b \in Seq(EntrySet)
      BY <2>1, <2>2
    <3>1. /\ a \o b \in Seq(EntrySet) /\ Len(a \o b) = Len(a) + Len(b)
          /\ \A j \in 1..Len(a) : (a \o b)[j] = a[j]
          /\ \A j \in 1..Len(b) : (a \o b)[Len(a) + j] = b[j]
      BY ONLY <3>0
    <3>2. Len(a) + Len(b) = Len(entries) - 1
      BY <1>0, <2>1, <2>2
    <3>3. QED
      BY <3>1, <3>2
  <2>4. ASSUME NEW j \in i..(Len(entries) - 1) PROVE (a \o b)[j] = entries[j + 1]
    <3>1. j - (i - 1) \in 1..Len(b)
      BY <1>0, <2>2
    <3>2. (a \o b)[Len(a) + (j - (i - 1))] = b[j - (i - 1)]
      BY <2>3, <3>1
    <3>3. Len(a) + (j - (i - 1)) = j /\ b[j - (i - 1)] = entries[i + (j - (i - 1))]
      BY <1>0, <2>1, <2>2, <3>1
    <3>4. i + (j - (i - 1)) = j + 1
      BY <1>0
    <3>5. QED
      BY <3>2, <3>3, <3>4
  <2>5. QED
    BY <2>1, <2>3, <2>4 DEF a, b
<1> HIDE DEF es
<1>6. \A j \in 1..Len(es) : \E k \in 1..Len(entries) : es[j] = entries[k]
  <2>1. ASSUME NEW j \in 1..Len(es) PROVE \E k \in 1..Len(entries) : es[j] = entries[k]
    <3>1. CASE j \in 1..(i - 1)
      <4>1. j \in 1..Len(entries) /\ es[j] = entries[j]
        BY <1>0, <1>5, <3>1
      <4>2. QED
        BY <4>1
    <3>2. CASE j \in i..(Len(entries) - 1)
      <4>1. j + 1 \in 1..Len(entries) /\ es[j] = entries[j + 1]
        BY <1>0, <1>5, <3>2
      <4>2. QED
        BY <4>1
    <3>3. QED
      BY <1>0, <1>5, <3>1, <3>2
  <2>2. QED
    BY <2>1
<1>7. ASSUME NEW x, EntryFor(entries, x), x # w PROVE EntryFor(es, x)
  <2>1. PICK k \in 1..Len(entries) : entries[k].wd = x
    BY <1>7 DEF EntryFor
  <2>2. k # i
    BY <1>1, <1>7, <2>1
  <2>3. CASE k < i
    <3>1. k \in 1..Len(es) /\ es[k] = entries[k]
      BY <1>0, <1>5, <2>3
    <3>2. QED
      BY <2>1, <3>1 DEF EntryFor
  <2>4. CASE k > i
    <3>1. k - 1 \in 1..Len(es) /\ es[k - 1] = entries[(k - 1) + 1] /\ (k - 1) + 1 = k
      BY <1>0, <1>5, <2>4
    <3>2. es[k - 1] = entries[k]
      BY <3>1
    <3>3. QED
      BY <2>1, <3>1, <3>2 DEF EntryFor
  <2>5. QED
    BY <1>0, <2>2, <2>3, <2>4
<1>8. /\ kernel' \in [File -> Nat]
      /\ \A x \in File : kernel'[x] = 0 \/ (kernel'[x] = kernel[x] /\ kernel[x] # w)
  BY <1>0, <1>3
<1>9. KernelOK'
  BY <1>3, <1>8 DEF FileInv, KernelOK
<1>10. EntriesOK'
  BY <1>3, <1>6 DEF FileInv, EntriesOK
<1>11. WatchesKnown'
  <2>1. ASSUME NEW x \in File, kernel'[x] # 0 PROVE EntryFor(es, kernel'[x])
    <3>1. kernel'[x] = kernel[x] /\ kernel[x] # w
      BY <1>8, <2>1
    <3>2. EntryFor(entries, kernel[x])
      BY <2>1, <3>1 DEF FileInv, WatchesKnown, EntryFor
    <3>3. QED
      BY <1>7, <3>1, <3>2
  <2>2. QED
    BY <1>3, <2>1 DEF WatchesKnown, EntryFor
<1>12. QueueFine(queue, scanned + 1, given, es, r) /\ scanned + 1 \in Nat \ {0}
  <2>1. QueueFine(queue, scanned + 1, given, entries, removed) /\ scanned + 1 \in Nat \ {0}
    BY <1>0, FileQueueFine
  <2>2. (\A x : EntryFor(entries, x) => EntryFor(es, x) \/ x \in r) /\ (\A x \in removed : x \in r)
    BY <1>7
  <2>3. QED
    BY <2>1, <2>2, QueueFineKept
<1>13. w \in r
  OBVIOUS
<1> HIDE DEF r
<1>14. /\ QueueFine(q, scanned + 1, given, es, r) /\ Len(q) = Len(queue) + 1
       /\ \A k \in 1..Len(queue) : q[k] = queue[k]
  BY ONLY <1>4, <1>12, <1>13, QueueFineMore, f \in File, w \in Nat
<1> HIDE DEF q
<1>15. /\ QueueFine(queue', scanned + 1, given, es, r) /\ Len(queue') >= Len(queue) /\ Len(queue') \in Nat
       /\ \A k \in 1..Len(queue) : queue'[k] = queue[k]
  BY <1>0, <1>3, <1>12, <1>14
<1>16. QED
  BY <1>0, <1>3, <1>5, <1>8, <1>9, <1>10, <1>11, <1>15, FileTablesInv

\* One turn of the loop.
LEMMA ScanInv ==
    ASSUME FileInv, NEW i \in 1..Len(entries), Scan(i)
    PROVE  FileInv'
<1> DEFINE n == scanned + 1
           ev == queue[n]
           l == [at |-> n, name |-> entries[i].name]
           m == Append(emitted, l)
<1>1. /\ fw = "scan" /\ scanned < read /\ entries[i].wd = ev.wd /\ scanned' = n /\ inotify' = inotify
      /\ read' = read /\ entries' = entries /\ adding' = adding /\ removed' = removed
      /\ \/ ev.kind = "ignored" /\ fw' = "scan" /\ emitted' = emitted
         \/ ev.kind # "ignored" /\ fw' = "emit" /\ emitted' = m
  BY DEF Scan, ScanTo, FoundByWd
<1>2. kernel' = kernel /\ given' = given /\ queue' = queue
  BY <1>1 DEF inotify
<1>3. /\ FileTypeOK /\ scanned \in Nat /\ read \in Nat /\ scanned <= read /\ read <= Len(queue)
      /\ Len(queue) \in Nat /\ emitted \in Seq(EmittedSet) /\ Len(emitted) \in Nat
      /\ entries[i].name \in Path
  BY FileTypes DEF FileInv, FileTypeOK
<1>4. n \in Nat /\ n <= read /\ n \in 1..Len(queue) /\ scanned < n
  BY <1>1, <1>3
<1>5. KernelOK' /\ EntriesOK' /\ QueueOK' /\ WatchesKnown'
  BY <1>1, <1>2, SameTables
<1>6. StaleOK' /\ SpinsOnlyStale' /\ EndedOK'
  <2>1. \A k \in (n + 1)..Len(queue) : k \in (scanned + 1)..Len(queue)
    BY <1>3
  <2>2. StaleOK'
    BY <1>1, <1>2, <2>1 DEF FileInv, StaleOK
  <2>3. QED
    BY <1>1, <2>2 DEF SpinsOnlyStale, EndedOK
<1>7. l \in EmittedSet /\ l.at = n /\ l.name = entries[i].name
  BY <1>3, <1>4 DEF EmittedSet
<1> HIDE DEF l
<1>8. /\ m \in Seq(EmittedSet) /\ Len(m) = Len(emitted) + 1 /\ m[Len(emitted) + 1] = l
      /\ \A j \in 1..Len(emitted) : m[j] = emitted[j]
  BY <1>3, <1>7
<1> HIDE DEF m
<1>9. FileTypeOK'
  BY <1>1, <1>2, <1>3, <1>4, <1>8 DEF FileTypeOK
<1>10. /\ \A j \in 1..Len(emitted) :
             /\ emitted[j].at \in 1..scanned /\ queue[emitted[j].at].kind # "ignored"
             /\ FileOf[emitted[j].name] = queue[emitted[j].at].file
             /\ \A k \in 1..(j - 1) : emitted[k].at < emitted[j].at
       /\ \A k \in 1..scanned :
             queue[k].kind # "ignored" => \E j \in 1..Len(emitted) : emitted[j].at = k
  BY DEF FileInv, EventsFaithful
<1>11. \A k \in 1..n : k = n \/ k \in 1..scanned
  BY <1>3
<1>12. \A k \in 1..scanned : k \in 1..n /\ k < n
  BY <1>3
<1>13. CASE ev.kind = "ignored"
  <2>1. emitted' = emitted
    BY <1>1, <1>13
  <2>2. EventsFaithful'
    <3>1. \A j \in 1..Len(emitted) : emitted[j].at \in 1..n
      BY <1>10, <1>12
    <3>2. \A k \in 1..n : queue[k].kind # "ignored" => \E j \in 1..Len(emitted) : emitted[j].at = k
      BY <1>10, <1>11, <1>13
    <3> HIDE DEF n
    <3>3. QED
      BY <1>1, <1>2, <1>10, <2>1, <3>1, <3>2 DEF EventsFaithful
  <2>3. QED
    BY <1>5, <1>6, <1>9, <2>2 DEF FileInv
<1>14. CASE ev.kind # "ignored"
  <2>1. emitted' = m
    BY <1>1, <1>14
  <2>2. FileOf[l.name] = ev.file
    <3>1. given[entries[i].wd] = FileOf[entries[i].name]
      BY DEF FileInv, EntriesOK
    <3>2. given[ev.wd] = ev.file
      BY <1>4 DEF FileInv, QueueOK
    <3>3. QED
      BY <1>1, <1>7, <3>1, <3>2
  <2> HIDE DEF n
  <2>3. ASSUME NEW j \in 1..Len(m)
        PROVE  /\ m[j].at \in 1..n /\ queue[m[j].at].kind # "ignored"
               /\ FileOf[m[j].name] = queue[m[j].at].file
               /\ \A k \in 1..(j - 1) : m[k].at < m[j].at
    <3>1. CASE j \in 1..Len(emitted)
      <4>1. m[j] = emitted[j] /\ \A k \in 1..(j - 1) : k \in 1..Len(emitted) /\ m[k] = emitted[k]
        BY <1>3, <1>8, <3>1
      <4>2. QED
        BY <1>10, <1>12, <3>1, <4>1
    <3>2. CASE j = Len(emitted) + 1
      <4>1. m[j] = l /\ \A k \in 1..(j - 1) : k \in 1..Len(emitted) /\ m[k] = emitted[k]
        BY <1>3, <1>8, <3>2
      <4>2. \A k \in 1..(j - 1) : m[k].at < n
        BY <1>10, <1>12, <4>1
      <4>3. n \in 1..n
        BY <1>4
      <4>4. QED
        BY <1>7, <1>14, <2>2, <4>1, <4>2, <4>3
    <3>3. QED
      BY <1>3, <1>8, <3>1, <3>2
  <2>4. ASSUME NEW k \in 1..n, queue[k].kind # "ignored" PROVE \E j \in 1..Len(m) : m[j].at = k
    <3>1. CASE k = n
      <4>1. Len(emitted) + 1 \in 1..Len(m)
        BY <1>3, <1>8
      <4>2. QED
        BY <1>7, <1>8, <3>1, <4>1
    <3>2. CASE k \in 1..scanned
      <4>1. PICK j \in 1..Len(emitted) : emitted[j].at = k
        BY <1>10, <2>4, <3>2
      <4>2. j \in 1..Len(m) /\ m[j] = emitted[j]
        BY <1>3, <1>8, <4>1
      <4>3. QED
        BY <4>1, <4>2
    <3>3. QED
      BY <1>11, <3>1, <3>2
  <2>5. EventsFaithful'
    BY <1>1, <1>2, <2>1, <2>3, <2>4 DEF EventsFaithful
  <2>6. QED
    BY <1>5, <1>6, <1>9, <2>5 DEF FileInv
<1>15. QED
  BY <1>13, <1>14

\* Every step keeps the invariant.
LEMMA FileNextInv == ASSUME FileInv, [FileNext]_fileVars PROVE FileInv'
<1>1. CASE UNCHANGED fileVars
  <2>1. /\ kernel' = kernel /\ given' = given /\ queue' = queue /\ entries' = entries
        /\ removed' = removed /\ emitted' = emitted /\ scanned' = scanned /\ read' = read
        /\ adding' = adding /\ fw' = fw
    BY <1>1 DEF fileVars, inotify
  <2>2. EventsFaithful' /\ KernelOK' /\ EntriesOK' /\ QueueOK' /\ WatchesKnown'
    BY <2>1, SameEmitted, SameTables
  <2>3. FileTypeOK' /\ StaleOK' /\ SpinsOnlyStale' /\ EndedOK'
    BY <2>1 DEF FileInv, FileTypeOK, StaleOK, SpinsOnlyStale, EndedOK
  <2>4. QED
    BY <2>2, <2>3 DEF FileInv
<1>2. CASE FileNext
  BY <1>2, FileStepsInv, AddWatchInv, RmWatchInv, FileEventInv, DeleteFileInv, ScanInv DEF FileNext
<1>3. QED
  BY <1>1, <1>2

\* For any paths, files and number of watches, events and reads: every event of a
\* watched file is emitted once, in order and under a name of that file, whatever
\* handlers add, remove and drop and files are deleted in between; what the kernel
\* watches has an entry; and the loop hangs only on an event that was queued for a
\* watch that was removed (di_file_ioev, di_file_add_watch, di_file_rm_watch).
THEOREM FilesAlwaysFaithful == FileSpec => []FilesFaithful
<1>1. FileInit => FileInv
  <2> SUFFICES ASSUME FileInit PROVE FileInv
    OBVIOUS
  <2> DEFINE E == <<>>
  <2>1. /\ kernel = [f \in File |-> 0] /\ given = E /\ queue = E /\ entries = E /\ emitted = E
        /\ adding = <<>> /\ fw = "new" /\ read = 0 /\ scanned = 0
    BY DEF FileInit
  <2>2. /\ E \in Seq(File) /\ E \in Seq(QueuedSet) /\ E \in Seq(EntrySet) /\ E \in Seq(EmittedSet)
        /\ <<>> \in Seq(Path) /\ Len(E) = 0
    OBVIOUS
  <2> HIDE DEF E
  <2>3. \A k \in 1..Len(E) : FALSE
    BY <2>2
  <2>4. FileTypeOK
    <3>1. kernel \in [File -> Nat]
      BY <2>1
    <3>2. QED
      BY <2>1, <2>2, <3>1 DEF FileTypeOK
  <2>5. KernelOK /\ WatchesKnown
    BY <2>1 DEF KernelOK, WatchesKnown
  <2>6. EntriesOK /\ QueueOK
    BY <2>1, <2>3 DEF EntriesOK, QueueOK
  <2>7. EventsFaithful
    BY <2>1, <2>3 DEF EventsFaithful
  <2>8. StaleOK /\ EndedOK /\ SpinsOnlyStale
    BY <2>1, <2>2 DEF StaleOK, EndedOK, SpinsOnlyStale
  <2>9. QED
    BY <2>4, <2>5, <2>6, <2>7, <2>8 DEF FileInv
<1>2. FileInv /\ [FileNext]_fileVars => FileInv'
  BY FileNextInv
<1>3. FileInv => FilesFaithful
  BY DEF FileInv, FilesFaithful
<1> QED BY <1>1, <1>2, <1>3, PTL DEF FileSpec

-----------------------------------------------------------------------------
(* DBusNames: the inductive invariant *)

RequestSet == [op : {"add_match", "remove_match", "get_owner", "cancelled"}, wk : Wk, live : [Wk -> Nat]]
Owners == [Wk -> {NoOwner} \cup Peer]
MessageSet == [type : {"reply", "changed", "signal"}, wk : Wk \cup {NoOwner},
               old : {NoOwner} \cup Peer, own : Owners]

NamesTypeOK ==
    /\ owner \in Owners
    /\ matches \in [Wk -> Int] /\ watched \in [Wk -> Nat]
    /\ outq \in Seq(RequestSet) /\ inq \in Seq(MessageSet)
    /\ \A i \in 1..Len(inq) : inq[i].type # "signal" => inq[i].wk \in Wk
    /\ \A i \in 1..Len(inq) : inq[i].type = "signal" => inq[i].old \in Peer
    /\ request \in [Wk -> {"none", "waiting", "stale"}]
    /\ known \in [Wk -> [Peer -> Nat]]
    /\ settled \in [Wk -> BOOLEAN] /\ lost \in [Wk -> BOOLEAN] /\ spoilt \in [Wk -> {"no", "clipped", "stale"}]

\* The match rules for n when the bus has handled what is in front of the request at j.
Prior(q, w, j, n) == IF j > Len(q) THEN w[n] ELSE q[j].live[n] - Delta(q[j], n)

\* Each request changes the match rules as it says.
OutFits(q, w, n, a) ==
    /\ a = Prior(q, w, 1, n)
    /\ \A i \in 1..Len(q) : q[i].live[n] = Prior(q, w, i + 1, n)
OutOK == \A n \in Wk : OutFits(outq, watched, n, matches[n])

IsGet(r, n) == r.op = "get_owner" /\ r.wk = n
IsReply(m, n) == m.type = "reply" /\ m.wk = n
IsChange(m, n) == m.type = "changed" /\ m.wk = n

\* At most one question for the owner of a name, or its answer, is on its way.
AskedOnce(n) ==
    /\ request[n] = "none" => /\ \A i \in 1..Len(outq) : ~IsGet(outq[i], n)
                              /\ \A i \in 1..Len(inq) : ~IsReply(inq[i], n)
    /\ \A i, j \in 1..Len(outq) : IsGet(outq[i], n) /\ IsGet(outq[j], n) => i = j
    /\ \A i, j \in 1..Len(inq) : IsReply(inq[i], n) /\ IsReply(inq[j], n) => i = j
    /\ \A i \in 1..Len(outq), j \in 1..Len(inq) : ~(IsGet(outq[i], n) /\ IsReply(inq[j], n))

\* From the request at g on there are objects of n.
LiveFrom(q, n, g) == \A i \in g..Len(q) : q[i].live[n] >= 1

\* The owner of n before the message at j, and before any that is still to come.
Before(q, own, j, n) ==
    IF j > Len(q) THEN own[n] ELSE IF IsChange(q[j], n) THEN q[j].old ELSE q[j].own[n]

\* After the message at k the owner of n is v, up to a message of its change.
From(q, own, n, v, k) ==
    \A j \in (k + 1)..(Len(q) + 1) :
        (\A l \in (k + 1)..(j - 1) : ~IsChange(q[l], n)) => Before(q, own, j, n) = v

\* The messages from k on tell of every change of n.
Chain(q, own, n, k) == \A i \in k..Len(q) : From(q, own, n, q[i].own[n], i)

\* The bus tells of every change of n.
Told(n) == matches[n] >= 1 /\ LiveFrom(outq, n, 1)

NameOK(n) ==
    watched[n] > 0 /\ ~lost[n] =>
        /\ settled[n] =>
              /\ Told(n) /\ Chain(inq, owner, n, 1)
              /\ From(inq, owner, n, Before(inq, owner, 1, n), 0)
              /\ spoilt[n] = "no" => \A p \in Peer :
                    known[n][p] = IF p = Before(inq, owner, 1, n) THEN 1 ELSE 0
        /\ \A k \in 1..Len(inq) : IsReply(inq[k], n) => Told(n) /\ Chain(inq, owner, n, k)
        /\ \A g \in 1..Len(outq) : IsGet(outq[g], n) => LiveFrom(outq, n, g)

NamesInv ==
    /\ NamesTypeOK /\ OutOK
    /\ \A n \in Wk : AskedOnce(n) /\ NameOK(n)

\* A queue without its first element.
LEMMA TailAt ==
    ASSUME NEW S, NEW q \in Seq(S), q # <<>>
    PROVE  /\ Tail(q) \in Seq(S) /\ Len(q) \in Nat \ {0} /\ Len(Tail(q)) = Len(q) - 1
           /\ q[1] \in S /\ 1 \in 1..Len(q)
           /\ \A i \in 1..Len(Tail(q)) : i + 1 \in 1..Len(q) /\ Tail(q)[i] = q[i + 1]
<1>1. Len(q) \in Nat /\ Len(q) # 0
  BY EmptySeq
<1>2. Tail(q) \in Seq(S) /\ Len(Tail(q)) = Len(q) - 1 /\ \A i \in 1..Len(Tail(q)) : Tail(q)[i] = q[i + 1]
  BY HeadTailProperties
<1>3. QED
  BY <1>1, <1>2

\* A queue with one more element.
LEMMA AppendAt ==
    ASSUME NEW S, NEW q \in Seq(S), NEW x \in S
    PROVE  /\ Append(q, x) \in Seq(S) /\ Len(q) \in Nat /\ Len(Append(q, x)) = Len(q) + 1
           /\ \A i \in 1..Len(q) : Append(q, x)[i] = q[i]
           /\ Append(q, x)[Len(q) + 1] = x
           /\ \A i \in 1..Len(Append(q, x)) : i \in 1..Len(q) \/ i = Len(q) + 1
BY AppendProperties

\* Before the messages that are left when the first one has been taken.
LEMMA BeforeTail ==
    ASSUME NEW q \in Seq(MessageSet), q # <<>>, NEW own, NEW n, NEW j \in 1..Len(q)
    PROVE  Before(Tail(q), own, j, n) = Before(q, own, j + 1, n)
<1>1. /\ Len(q) \in Nat \ {0} /\ Len(Tail(q)) = Len(q) - 1
      /\ \A i \in 1..Len(Tail(q)) : i + 1 \in 1..Len(q) /\ Tail(q)[i] = q[i + 1]
  BY TailAt
<1>2. CASE j = Len(q)
  BY <1>1, <1>2 DEF Before
<1>3. CASE j # Len(q)
  <2>0. PICK e \in Nat : e = Len(q) /\ Len(Tail(q)) = e - 1
    BY <1>1
  <2>1. j \in 1..Len(Tail(q)) /\ ~(j > Len(Tail(q))) /\ ~(j + 1 > Len(q))
    BY <1>3, <2>0
  <2>2. Tail(q)[j] = q[j + 1]
    BY <1>1, <2>1
  <2>3. QED
    BY <2>1, <2>2 DEF Before
<1>4. QED
  BY <1>2, <1>3

\* Taking a message keeps what follows.
LEMMA FromTail ==
    ASSUME NEW q \in Seq(MessageSet), q # <<>>, NEW own, NEW n, NEW v,
           NEW k \in Nat, From(q, own, n, v, k + 1)
    PROVE  From(Tail(q), own, n, v, k)
<1>1. /\ Len(q) \in Nat \ {0} /\ Len(Tail(q)) = Len(q) - 1
      /\ \A i \in 1..Len(Tail(q)) : i + 1 \in 1..Len(q) /\ Tail(q)[i] = q[i + 1]
  BY TailAt
<1> SUFFICES ASSUME NEW j \in (k + 1)..(Len(Tail(q)) + 1),
                    \A l \in (k + 1)..(j - 1) : ~IsChange(Tail(q)[l], n)
             PROVE  Before(Tail(q), own, j, n) = v
  BY DEF From
<1>2. j \in 1..Len(q) /\ j + 1 \in ((k + 1) + 1)..(Len(q) + 1)
  BY <1>1
<1>3. ASSUME NEW l \in ((k + 1) + 1)..((j + 1) - 1) PROVE ~IsChange(q[l], n)
  <2>1. l - 1 \in (k + 1)..(j - 1) /\ l - 1 \in 1..Len(Tail(q)) /\ (l - 1) + 1 = l
    BY <1>1, <1>2
  <2>2. Tail(q)[l - 1] = q[l]
    BY <1>1, <2>1
  <2>3. QED
    BY <2>1, <2>2
<1>4. Before(q, own, j + 1, n) = v
  BY <1>2, <1>3 DEF From
<1>5. QED
  BY <1>2, <1>4, BeforeTail

\* A message that is not a change of n leaves its owner.
LEMMA FromSkip ==
    ASSUME NEW q \in Seq(MessageSet), q # <<>>, NEW own, NEW n, NEW v,
           From(q, own, n, v, 0), ~IsChange(q[1], n)
    PROVE  From(q, own, n, v, 1)
<1> SUFFICES ASSUME NEW j \in (1 + 1)..(Len(q) + 1), \A l \in (1 + 1)..(j - 1) : ~IsChange(q[l], n)
             PROVE  Before(q, own, j, n) = v
  BY DEF From
<1>1. Len(q) \in Nat
  OBVIOUS
<1>2. j \in (0 + 1)..(Len(q) + 1)
  BY <1>1
<1>3. \A l \in (0 + 1)..(j - 1) : l = 1 \/ l \in (1 + 1)..(j - 1)
  BY <1>1
<1>4. \A l \in (0 + 1)..(j - 1) : ~IsChange(q[l], n)
  BY <1>3
<1>5. QED
  BY <1>2, <1>4 DEF From

\* What From says of the next message.
LEMMA FromNext ==
    ASSUME NEW q \in Seq(MessageSet), NEW own, NEW n, NEW v, NEW k \in Nat, k <= Len(q), From(q, own, n, v, k)
    PROVE  Before(q, own, k + 1, n) = v
<1>1. Len(q) \in Nat /\ k + 1 \in (k + 1)..(Len(q) + 1) /\ \A l \in (k + 1)..((k + 1) - 1) : FALSE
  OBVIOUS
<1>2. QED
  BY <1>1 DEF From

\* Taking a message keeps the chain.
LEMMA ChainTail ==
    ASSUME NEW q \in Seq(MessageSet), q # <<>>, NEW own, NEW n, NEW k \in Nat \ {0},
           Chain(q, own, n, k + 1)
    PROVE  Chain(Tail(q), own, n, k)
<1>1. /\ Len(q) \in Nat \ {0} /\ Len(Tail(q)) = Len(q) - 1
      /\ \A i \in 1..Len(Tail(q)) : i + 1 \in 1..Len(q) /\ Tail(q)[i] = q[i + 1]
  BY TailAt
<1> SUFFICES ASSUME NEW i \in k..Len(Tail(q)) PROVE From(Tail(q), own, n, Tail(q)[i].own[n], i)
  BY DEF Chain
<1>2. i \in 1..Len(Tail(q)) /\ i \in Nat /\ i + 1 \in (k + 1)..Len(q)
  BY <1>1
<1>3. Tail(q)[i] = q[i + 1]
  BY <1>1, <1>2
<1>4. From(q, own, n, q[i + 1].own[n], i + 1)
  BY <1>2 DEF Chain
<1>5. QED
  BY <1>2, <1>3, <1>4, FromTail

\* A message that tells of what happened to n, or of nothing.
Tells(m, own, own2, n) ==
    /\ m.own[n] = own2[n]
    /\ IF IsChange(m, n) THEN m.old = own[n] ELSE own2[n] = own[n]

\* A new message keeps what came before it.
LEMMA FromAppend ==
    ASSUME NEW q \in Seq(MessageSet), NEW m \in MessageSet, NEW own, NEW own2, NEW n, NEW v,
           Tells(m, own, own2, n), NEW k \in Nat, k <= Len(q), From(q, own, n, v, k)
    PROVE  From(Append(q, m), own2, n, v, k)
<1>1. /\ Len(q) \in Nat /\ Len(Append(q, m)) = Len(q) + 1
      /\ \A i \in 1..Len(q) : Append(q, m)[i] = q[i]
      /\ Append(q, m)[Len(q) + 1] = m
  BY AppendAt
<1> DEFINE a == Append(q, m)
<1> HIDE DEF a
<1> SUFFICES ASSUME NEW j \in (k + 1)..(Len(a) + 1), \A l \in (k + 1)..(j - 1) : ~IsChange(a[l], n)
             PROVE  Before(a, own2, j, n) = v
  BY DEF From, a
<1>2. Len(a) = Len(q) + 1 /\ (\A i \in 1..Len(q) : a[i] = q[i]) /\ a[Len(q) + 1] = m
  BY <1>1 DEF a
<1>3. ASSUME NEW i \in (k + 1)..(Len(q) + 1), i <= j PROVE Before(q, own, i, n) = v
  <2>1. \A l \in (k + 1)..(i - 1) : l \in (k + 1)..(j - 1) /\ l \in 1..Len(q)
    BY <1>1, <1>2, <1>3
  <2>2. \A l \in (k + 1)..(i - 1) : ~IsChange(q[l], n)
    BY <1>2, <2>1
  <2>3. QED
    BY <2>2 DEF From
<1>4. CASE j <= Len(q)
  <2>1. j \in 1..Len(q) /\ ~(j > Len(q)) /\ ~(j > Len(a)) /\ a[j] = q[j] /\ j \in (k + 1)..(Len(q) + 1)
    BY <1>1, <1>2, <1>4
  <2>2. Before(a, own2, j, n) = Before(q, own, j, n)
    BY <2>1 DEF Before
  <2>3. QED
    BY <1>3, <2>1, <2>2
<1>5. CASE j = Len(q) + 1
  <2>1. Before(q, own, j, n) = own[n] /\ Before(q, own, j, n) = v
    BY <1>1, <1>3, <1>5 DEF Before
  <2>2. Before(a, own2, j, n) = IF IsChange(m, n) THEN m.old ELSE m.own[n]
    BY <1>1, <1>2, <1>5 DEF Before
  <2>3. QED
    BY <2>1, <2>2 DEF Tells
<1>6. CASE j = Len(q) + 2
  <2>1. Len(q) + 1 \in (k + 1)..(j - 1) /\ Len(q) + 1 \in (k + 1)..(Len(q) + 1) /\ Len(q) + 1 <= j
    BY <1>1, <1>6
  <2>2. ~IsChange(m, n)
    BY <1>2, <2>1
  <2>3. Before(q, own, Len(q) + 1, n) = own[n] /\ Before(q, own, Len(q) + 1, n) = v
    BY <1>1, <1>3, <2>1 DEF Before
  <2>4. Before(a, own2, j, n) = own2[n]
    BY <1>1, <1>2, <1>6 DEF Before
  <2>5. QED
    BY <2>2, <2>3, <2>4 DEF Tells
<1>7. QED
  BY <1>1, <1>2, <1>4, <1>5, <1>6

\* A new message is the end of a chain.
LEMMA ChainAppend ==
    ASSUME NEW q \in Seq(MessageSet), NEW m \in MessageSet, NEW own, NEW own2, NEW n,
           Tells(m, own, own2, n), NEW k \in Nat \ {0}, k <= Len(q) + 1,
           Chain(q, own, n, k) 
    PROVE  Chain(Append(q, m), own2, n, k)
<1>1. /\ Len(q) \in Nat /\ Len(Append(q, m)) = Len(q) + 1
      /\ \A i \in 1..Len(q) : Append(q, m)[i] = q[i]
      /\ Append(q, m)[Len(q) + 1] = m
  BY AppendAt
<1> DEFINE a == Append(q, m)
<1> HIDE DEF a
<1>2. Len(a) = Len(q) + 1 /\ (\A i \in 1..Len(q) : a[i] = q[i]) /\ a[Len(q) + 1] = m
  BY <1>1 DEF a
<1> SUFFICES ASSUME NEW i \in k..Len(a) PROVE From(a, own2, n, a[i].own[n], i)
  BY DEF Chain, a
<1>3. CASE i <= Len(q)
  <2>1. i \in k..Len(q) /\ i \in 1..Len(q) /\ i \in Nat /\ a[i] = q[i]
    BY <1>1, <1>2, <1>3
  <2>2. From(q, own, n, q[i].own[n], i)
    BY <2>1 DEF Chain
  <2>3. QED
    BY <1>3, <2>1, <2>2, FromAppend DEF a
<1>4. CASE i = Len(q) + 1
  <2>1. \A j \in (i + 1)..(Len(a) + 1) : j = Len(q) + 2
    BY <1>1, <1>2, <1>4
  <2>2. Before(a, own2, Len(q) + 2, n) = own2[n]
    BY <1>1, <1>2 DEF Before
  <2>3. a[i].own[n] = own2[n]
    BY <1>2, <1>4 DEF Tells
  <2>4. QED
    BY <2>1, <2>2, <2>3 DEF From
<1>5. QED
  BY <1>1, <1>2, <1>3, <1>4

\* A message is added to those on their way to the connection.
LEMMA NameAppend ==
    ASSUME NamesTypeOK, NEW n \in Wk, NameOK(n), NEW m \in MessageSet, inq' = Append(inq, m),
           Tells(m, owner, owner', n), UNCHANGED <<watched, lost, settled, spoilt, known>>,
           Told(n) => Told(n)',
           watched[n] > 0 /\ ~lost[n] /\ IsReply(m, n) => Told(n)',
           watched[n] > 0 /\ ~lost[n] =>
               \A g \in 1..Len(outq') : IsGet(outq'[g], n) => LiveFrom(outq', n, g)
    PROVE  NameOK(n)'
<1> SUFFICES ASSUME watched[n] > 0, ~lost[n]
             PROVE  /\ settled[n] =>
                        /\ Told(n)' /\ Chain(inq', owner', n, 1)
                        /\ From(inq', owner', n, Before(inq', owner', 1, n), 0)
                        /\ spoilt[n] = "no" => \A p \in Peer :
                              known[n][p] = IF p = Before(inq', owner', 1, n) THEN 1 ELSE 0
                    /\ \A k \in 1..Len(inq') : IsReply(inq'[k], n) => Told(n)' /\ Chain(inq', owner', n, k)
                    /\ \A g \in 1..Len(outq') : IsGet(outq'[g], n) => LiveFrom(outq', n, g)
  BY DEF NameOK
<1>1. inq \in Seq(MessageSet) /\ Len(inq) \in Nat /\ Len(inq') = Len(inq) + 1
      /\ inq'[Len(inq) + 1] = m /\ \A i \in 1..Len(inq) : inq'[i] = inq[i]
  BY AppendAt DEF NamesTypeOK
<1>2. \A k \in Nat \ {0} : k <= Len(inq) + 1 /\ Chain(inq, owner, n, k) => Chain(inq', owner', n, k)
  BY <1>1, ChainAppend
<1>3. ASSUME settled[n]
      PROVE  /\ Told(n)' /\ Chain(inq', owner', n, 1)
             /\ From(inq', owner', n, Before(inq', owner', 1, n), 0)
             /\ spoilt[n] = "no" => \A p \in Peer :
                   known[n][p] = IF p = Before(inq', owner', 1, n) THEN 1 ELSE 0
  <2>1. /\ Told(n) /\ Chain(inq, owner, n, 1)
        /\ From(inq, owner, n, Before(inq, owner, 1, n), 0)
        /\ spoilt[n] = "no" => \A p \in Peer : known[n][p] = IF p = Before(inq, owner, 1, n) THEN 1 ELSE 0
    BY <1>3 DEF NameOK
  <2>2. PICK v : v = Before(inq, owner, 1, n)
    OBVIOUS
  <2>3. From(inq', owner', n, v, 0)
    <3>1. 0 \in Nat /\ 0 <= Len(inq) /\ From(inq, owner, n, v, 0)
      BY <1>1, <2>1, <2>2
    <3>2. QED
      BY <1>1, <3>1, FromAppend
  <2>4. Before(inq', owner', 1, n) = v
    <3>1. inq' \in Seq(MessageSet) /\ 0 \in Nat /\ 0 <= Len(inq') /\ 0 + 1 = 1
      BY <1>1, AppendAt
    <3>2. Before(inq', owner', 0 + 1, n) = v
      BY <2>3, <3>1, FromNext
    <3>3. QED
      BY <3>1, <3>2
  <2>5. Chain(inq', owner', n, 1)
    BY <1>1, <1>2, <2>1
  <2>6. QED
    BY <2>1, <2>2, <2>3, <2>4, <2>5
<1>4. ASSUME NEW k \in 1..Len(inq'), IsReply(inq'[k], n)
      PROVE  Told(n)' /\ Chain(inq', owner', n, k)
  <2>1. k \in Nat \ {0} /\ k <= Len(inq) + 1
    BY <1>1
  <2>2. CASE k \in 1..Len(inq)
    <3>1. Told(n) /\ Chain(inq, owner, n, k)
      BY <1>1, <1>4, <2>2 DEF NameOK
    <3>2. QED
      BY <1>2, <2>1, <3>1
  <2>3. CASE k = Len(inq) + 1
    <3>1. Chain(inq, owner, n, k)
      BY <1>1, <2>3 DEF Chain
    <3>2. Chain(inq', owner', n, k)
      BY <1>2, <2>1, <3>1
    <3>3. IsReply(m, n)
      BY <1>1, <1>4, <2>3
    <3>4. QED
      BY <3>2, <3>3
  <2>4. QED
    BY <1>1, <2>2, <2>3
<1>5. QED
  BY <1>3, <1>4

\* A message that is not about n is taken.
LEMMA NameTake ==
    ASSUME NamesTypeOK, NEW n \in Wk, NameOK(n), inq # <<>>, inq' = Tail(inq),
           UNCHANGED <<owner, matches, outq, watched, lost>>,
           ~IsChange(inq[1], n), settled'[n] = settled[n],
           spoilt'[n] = "no" => spoilt[n] = "no" /\ known'[n] = known[n]
    PROVE  NameOK(n)'
<1> SUFFICES ASSUME watched[n] > 0, ~lost[n]
             PROVE  /\ settled[n] =>
                        /\ Told(n) /\ Chain(inq', owner, n, 1)
                        /\ From(inq', owner, n, Before(inq', owner, 1, n), 0)
                        /\ spoilt'[n] = "no" => \A p \in Peer :
                              known'[n][p] = IF p = Before(inq', owner, 1, n) THEN 1 ELSE 0
                    /\ \A k \in 1..Len(inq') : IsReply(inq'[k], n) => Told(n) /\ Chain(inq', owner, n, k)
                    /\ \A g \in 1..Len(outq) : IsGet(outq[g], n) => LiveFrom(outq, n, g)
  BY DEF NameOK, Told
<1>1. inq \in Seq(MessageSet) /\ inq' \in Seq(MessageSet) /\ Len(inq) \in Nat \ {0} /\ Len(inq') = Len(inq) - 1
      /\ \A i \in 1..Len(inq') : i + 1 \in 1..Len(inq) /\ inq'[i] = inq[i + 1]
  BY TailAt DEF NamesTypeOK
<1>2. \A k \in Nat \ {0} : Chain(inq, owner, n, k + 1) => Chain(inq', owner, n, k)
  BY <1>1, ChainTail
<1>3. ASSUME settled[n]
      PROVE  /\ Told(n) /\ Chain(inq', owner, n, 1)
             /\ From(inq', owner, n, Before(inq', owner, 1, n), 0)
             /\ spoilt'[n] = "no" => \A p \in Peer :
                   known'[n][p] = IF p = Before(inq', owner, 1, n) THEN 1 ELSE 0
  <2>1. /\ Told(n) /\ Chain(inq, owner, n, 1)
        /\ From(inq, owner, n, Before(inq, owner, 1, n), 0)
        /\ spoilt[n] = "no" => \A p \in Peer : known[n][p] = IF p = Before(inq, owner, 1, n) THEN 1 ELSE 0
    BY <1>3 DEF NameOK
  <2>2. PICK v : v = Before(inq, owner, 1, n)
    OBVIOUS
  <2>3. From(inq, owner, n, v, 0 + 1)
    <3>1. From(inq, owner, n, v, 1)
      BY <1>1, <2>1, <2>2, FromSkip
    <3>2. QED
      BY <3>1
  <2>4. From(inq', owner, n, v, 0)
    BY <1>1, <2>3, FromTail
  <2>5. Before(inq', owner, 1, n) = v
    <3>1. 0 \in Nat /\ 0 <= Len(inq') /\ 0 + 1 = 1
      BY <1>1
    <3>2. Before(inq', owner, 0 + 1, n) = v
      BY <1>1, <2>4, <3>1, FromNext
    <3>3. QED
      BY <3>1, <3>2
  <2>6. Chain(inq', owner, n, 1)
    <3>1. Chain(inq, owner, n, 1 + 1)
      BY <1>1, <2>1 DEF Chain
    <3>2. QED
      BY <1>2, <3>1
  <2>7. QED
    BY <2>1, <2>2, <2>4, <2>5, <2>6
<1>4. ASSUME NEW k \in 1..Len(inq'), IsReply(inq'[k], n)
      PROVE  Told(n) /\ Chain(inq', owner, n, k)
  <2>1. k \in Nat \ {0} /\ k + 1 \in 1..Len(inq) /\ IsReply(inq[k + 1], n)
    BY <1>1, <1>4
  <2>2. Told(n) /\ Chain(inq, owner, n, k + 1)
    BY <2>1 DEF NameOK
  <2>3. QED
    BY <1>2, <2>1, <2>2
<1>5. \A g \in 1..Len(outq) : IsGet(outq[g], n) => LiveFrom(outq, n, g)
  BY DEF NameOK
<1>6. QED
  BY <1>3, <1>4, <1>5

\* A message about n is taken, and its entry is what the message says.
LEMMA NameLearned ==
    ASSUME NamesTypeOK, NEW n \in Wk, NameOK(n), inq # <<>>, inq' = Tail(inq),
           UNCHANGED <<owner, matches, outq, watched, lost>>,
           watched[n] > 0 /\ ~lost[n] /\ settled'[n] =>
               /\ Told(n) /\ Chain(inq, owner, n, 1)
               /\ spoilt'[n] = "no" => \A p \in Peer : known'[n][p] = IF p = inq[1].own[n] THEN 1 ELSE 0
    PROVE  NameOK(n)'
<1> SUFFICES ASSUME watched[n] > 0, ~lost[n]
             PROVE  /\ settled'[n] =>
                        /\ Told(n) /\ Chain(inq', owner, n, 1)
                        /\ From(inq', owner, n, Before(inq', owner, 1, n), 0)
                        /\ spoilt'[n] = "no" => \A p \in Peer :
                              known'[n][p] = IF p = Before(inq', owner, 1, n) THEN 1 ELSE 0
                    /\ \A k \in 1..Len(inq') : IsReply(inq'[k], n) => Told(n) /\ Chain(inq', owner, n, k)
                    /\ \A g \in 1..Len(outq) : IsGet(outq[g], n) => LiveFrom(outq, n, g)
  BY DEF NameOK, Told
<1>1. inq \in Seq(MessageSet) /\ inq' \in Seq(MessageSet) /\ Len(inq) \in Nat \ {0} /\ Len(inq') = Len(inq) - 1
      /\ \A i \in 1..Len(inq') : i + 1 \in 1..Len(inq) /\ inq'[i] = inq[i + 1]
  BY TailAt DEF NamesTypeOK
<1>2. \A k \in Nat \ {0} : Chain(inq, owner, n, k + 1) => Chain(inq', owner, n, k)
  BY <1>1, ChainTail
<1>3. ASSUME settled'[n]
      PROVE  /\ Told(n) /\ Chain(inq', owner, n, 1)
             /\ From(inq', owner, n, Before(inq', owner, 1, n), 0)
             /\ spoilt'[n] = "no" => \A p \in Peer :
                   known'[n][p] = IF p = Before(inq', owner, 1, n) THEN 1 ELSE 0
  <2>1. /\ Told(n) /\ Chain(inq, owner, n, 1)
        /\ spoilt'[n] = "no" => \A p \in Peer : known'[n][p] = IF p = inq[1].own[n] THEN 1 ELSE 0
    BY <1>3
  <2>2. PICK v : v = inq[1].own[n]
    OBVIOUS
  <2>3. From(inq, owner, n, v, 0 + 1)
    <3>1. From(inq, owner, n, v, 1)
      BY <1>1, <2>1, <2>2 DEF Chain
    <3>2. QED
      BY <3>1
  <2>4. From(inq', owner, n, v, 0)
    BY <1>1, <2>3, FromTail
  <2>5. Before(inq', owner, 1, n) = v
    <3>1. 0 \in Nat /\ 0 <= Len(inq') /\ 0 + 1 = 1
      BY <1>1
    <3>2. Before(inq', owner, 0 + 1, n) = v
      BY <1>1, <2>4, <3>1, FromNext
    <3>3. QED
      BY <3>1, <3>2
  <2>6. Chain(inq', owner, n, 1)
    <3>1. Chain(inq, owner, n, 1 + 1)
      BY <1>1, <2>1 DEF Chain
    <3>2. QED
      BY <1>2, <3>1
  <2>7. QED
    BY <2>1, <2>2, <2>4, <2>5, <2>6
<1>4. ASSUME NEW k \in 1..Len(inq'), IsReply(inq'[k], n)
      PROVE  Told(n) /\ Chain(inq', owner, n, k)
  <2>1. k \in Nat \ {0} /\ k + 1 \in 1..Len(inq) /\ IsReply(inq[k + 1], n)
    BY <1>1, <1>4
  <2>2. Told(n) /\ Chain(inq, owner, n, k + 1)
    BY <2>1 DEF NameOK
  <2>3. QED
    BY <1>2, <2>1, <2>2
<1>5. \A g \in 1..Len(outq) : IsGet(outq[g], n) => LiveFrom(outq, n, g)
  BY DEF NameOK
<1>6. QED
  BY <1>3, <1>4, <1>5

\* Nothing of what is known and on its way to the connection changes.
LEMMA NameStill ==
    ASSUME NEW n \in Wk, NameOK(n), UNCHANGED <<inq, known, spoilt>>, owner'[n] = owner[n],
           settled'[n] = settled[n], lost'[n] = lost[n], watched'[n] > 0 => watched[n] > 0,
           watched'[n] > 0 /\ Told(n) => Told(n)',
           watched'[n] > 0 /\ ~lost[n] =>
               \A g \in 1..Len(outq') : IsGet(outq'[g], n) => LiveFrom(outq', n, g)
    PROVE  NameOK(n)'
<1>1. \A j : Before(inq', owner', j, n) = Before(inq, owner, j, n)
  BY DEF Before
<1>2. \A v, k : From(inq', owner', n, v, k) <=> From(inq, owner, n, v, k)
  BY <1>1 DEF From
<1>3. \A k : Chain(inq', owner', n, k) <=> Chain(inq, owner, n, k)
  BY <1>2 DEF Chain
<1>4. QED
  BY <1>1, <1>2, <1>3 DEF NameOK

\* A request and a message are what the queues hold.
LEMMA RecordTypes ==
    /\ \A op \in {"add_match", "remove_match", "get_owner", "cancelled"}, n \in Wk, live \in [Wk -> Nat] :
          LET r == Request(op, n, live) IN r \in RequestSet /\ r.op = op /\ r.wk = n /\ r.live = live
    /\ \A type \in {"reply", "changed", "signal"}, n \in Wk \cup {NoOwner}, old \in {NoOwner} \cup Peer, own \in Owners :
          LET m == Message(type, n, old, own)
          IN  m \in MessageSet /\ m.type = type /\ m.wk = n /\ m.old = old /\ m.own = own
BY DEF Request, RequestSet, Message, MessageSet

\* A request moves the match rules by one at most.
LEMMA DeltaInt ==
    ASSUME NEW r, NEW n
    PROVE  Delta(r, n) \in {-1, 0, 1}
BY DEF Delta

\* What a request adds to the queue fits to what is there.
LEMMA OutAppend ==
    ASSUME NEW q \in Seq(RequestSet), NEW r \in RequestSet, NEW w \in [Wk -> Nat], NEW n \in Wk,
           NEW a \in Int, OutFits(q, w, n, a), r.live[n] - Delta(r, n) = w[n]
    PROVE  OutFits(Append(q, r), r.live, n, a)
<1> DEFINE s == Append(q, r)
<1> HIDE DEF s
<1>1. /\ Len(q) \in Nat /\ Len(s) = Len(q) + 1 /\ s[Len(q) + 1] = r
      /\ \A i \in 1..Len(q) : s[i] = q[i]
  BY AppendAt DEF s
<1>2. ASSUME NEW j \in 1..(Len(q) + 1) PROVE Prior(s, r.live, j, n) = Prior(q, w, j, n)
  <2>1. CASE j = Len(q) + 1
    BY <1>1, <2>1 DEF Prior
  <2>2. CASE j # Len(q) + 1
    <3>1. j \in 1..Len(q) /\ ~(j > Len(q)) /\ ~(j > Len(s)) /\ s[j] = q[j]
      BY <1>1, <2>2
    <3>2. QED
      BY <3>1 DEF Prior
  <2>3. QED
    BY <2>1, <2>2
<1>3. ASSUME NEW i \in 1..Len(s) PROVE s[i].live[n] = Prior(s, r.live, i + 1, n)
  <2>1. CASE i \in 1..Len(q)
    <3>1. i + 1 \in 1..(Len(q) + 1)
      BY <1>1, <2>1
    <3>2. QED
      BY <1>1, <1>2, <2>1, <3>1 DEF OutFits
  <2>2. CASE i = Len(q) + 1
    BY <1>1, <2>2 DEF Prior
  <2>3. QED
    BY <1>1, <2>1, <2>2
<1>4. QED
  BY <1>1, <1>2, <1>3 DEF s, OutFits

\* The bus handles the first request.
LEMMA OutTail ==
    ASSUME NEW q \in Seq(RequestSet), q # <<>>, NEW w \in [Wk -> Nat], NEW n \in Wk,
           NEW a \in Int, OutFits(q, w, n, a)
    PROVE  a + Delta(q[1], n) = q[1].live[n] /\ OutFits(Tail(q), w, n, q[1].live[n])
<1> DEFINE s == Tail(q)
<1> HIDE DEF s
<1>1. /\ Len(q) \in Nat \ {0} /\ Len(s) = Len(q) - 1 /\ q[1] \in RequestSet /\ 1 \in 1..Len(q)
      /\ \A i \in 1..Len(s) : i + 1 \in 1..Len(q) /\ s[i] = q[i + 1]
  BY TailAt DEF s
<1>2. ASSUME NEW j \in 1..Len(q) PROVE Prior(s, w, j, n) = Prior(q, w, j + 1, n)
  <2>0. PICK e \in Nat : e = Len(q) /\ Len(s) = e - 1
    BY <1>1
  <2>1. CASE j = Len(q)
    BY <2>0, <2>1 DEF Prior
  <2>2. CASE j # Len(q)
    <3>1. j \in 1..Len(s) /\ ~(j > Len(s)) /\ ~(j + 1 > Len(q))
      BY <2>0, <2>2
    <3>2. s[j] = q[j + 1]
      BY <1>1, <3>1
    <3>3. QED
      BY <3>1, <3>2 DEF Prior
  <2>3. QED
    BY <2>1, <2>2
<1>3. a + Delta(q[1], n) = q[1].live[n]
  <2>1. a = q[1].live[n] - Delta(q[1], n)
    BY <1>1 DEF Prior, OutFits
  <2>2. q[1].live[n] \in Nat
    BY <1>1 DEF RequestSet
  <2>3. Delta(q[1], n) \in {-1, 0, 1}
    BY DeltaInt
  <2>4. QED
    BY <2>1, <2>2, <2>3
<1>4. q[1].live[n] = Prior(s, w, 1, n)
  BY <1>1, <1>2 DEF OutFits
<1>5. ASSUME NEW i \in 1..Len(s) PROVE s[i].live[n] = Prior(s, w, i + 1, n)
  <2>1. i + 1 \in 1..Len(q) /\ s[i] = q[i + 1]
    BY <1>1
  <2>2. QED
    BY <1>2, <2>1 DEF OutFits
<1>6. QED
  BY <1>3, <1>4, <1>5 DEF s, OutFits

\* An object is dropped.
LEMMA UnwatchNameStep ==
    ASSUME NamesInv, NEW n \in Wk, UnwatchName(n)
    PROVE  NamesInv'
<1>1. NamesTypeOK /\ OutOK
  BY DEF NamesInv
<1>2. PICK w \in [Wk -> Nat] : w = [watched EXCEPT ![n] = @ - 1]
  <2>1. watched \in [Wk -> Nat] /\ watched[n] - 1 \in Nat
    BY <1>1 DEF NamesTypeOK, UnwatchName
  <2>2. QED
    BY <2>1
<1>3. PICK r \in RequestSet : r = Request("remove_match", n, w)
  BY <1>2, RecordTypes
<1>4. r.op = "remove_match" /\ r.wk = n /\ r.live = w
  BY <1>3 DEF Request
<1>5. /\ watched[n] > 0 /\ watched' = w /\ outq' = Append(outq, r)
      /\ UNCHANGED <<owner, matches, inq, request, known, changes, settled, lost, spoilt>>
  BY <1>2, <1>3 DEF UnwatchName
<1>6. /\ outq' \in Seq(RequestSet) /\ Len(outq) \in Nat /\ Len(outq') = Len(outq) + 1
      /\ \A i \in 1..Len(outq) : outq'[i] = outq[i]
      /\ outq'[Len(outq) + 1] = r
      /\ \A i \in 1..Len(outq') : i \in 1..Len(outq) \/ i = Len(outq) + 1
  BY <1>1, <1>5, AppendAt DEF NamesTypeOK
<1>7. NamesTypeOK'
  BY <1>1, <1>2, <1>5, <1>6 DEF NamesTypeOK
<1>8. OutOK'
  <2> SUFFICES ASSUME NEW m \in Wk
               PROVE  OutFits(outq', w, m, matches[m])
    BY <1>5 DEF OutOK
  <2>1. r.live[m] - Delta(r, m) = watched[m]
    BY <1>1, <1>2, <1>4 DEF Delta, NamesTypeOK
  <2>2. outq \in Seq(RequestSet) /\ watched \in [Wk -> Nat] /\ matches[m] \in Int
    BY <1>1 DEF NamesTypeOK
  <2>3. QED
    BY <1>1, <1>4, <1>5, <2>1, <2>2, OutAppend DEF OutOK
<1>9. ASSUME NEW m \in Wk PROVE AskedOnce(m)' /\ NameOK(m)'
  <2>1. AskedOnce(m) /\ NameOK(m)
    BY DEF NamesInv
  <2>2. ~IsGet(r, m)
    BY <1>4 DEF IsGet
  <2>3. \A i \in 1..Len(outq') : IsGet(outq'[i], m) => i \in 1..Len(outq) /\ IsGet(outq[i], m)
    BY <1>6, <2>2
  <2>4. AskedOnce(m)'
    BY <1>5, <2>1, <2>3 DEF AskedOnce
  <2>5. w[m] > 0 => watched[m] > 0 /\ r.live[m] >= 1
    BY <1>1, <1>2, <1>4 DEF NamesTypeOK
  <2>6. ASSUME w[m] > 0, NEW g \in Nat \ {0}, LiveFrom(outq, m, g) PROVE LiveFrom(outq', m, g)
    <3> SUFFICES ASSUME NEW i \in g..Len(outq') PROVE outq'[i].live[m] >= 1
      BY DEF LiveFrom
    <3>1. CASE i = Len(outq) + 1
      BY <1>6, <2>5, <2>6, <3>1
    <3>2. CASE i # Len(outq) + 1
      <4>1. i \in g..Len(outq)
        BY <1>6, <3>2
      <4>2. outq'[i] = outq[i]
        BY <1>6, <4>1
      <4>3. QED
        BY <2>6, <4>1, <4>2 DEF LiveFrom
    <3>3. QED
      BY <3>1, <3>2
  <2>7. w[m] > 0 /\ Told(m) => Told(m)'
    BY <1>5, <2>6 DEF Told
  <2>8. w[m] > 0 /\ ~lost[m] => \A g \in 1..Len(outq') : IsGet(outq'[g], m) => LiveFrom(outq', m, g)
    <3> SUFFICES ASSUME w[m] > 0, ~lost[m], NEW g \in 1..Len(outq'), IsGet(outq'[g], m)
                 PROVE  LiveFrom(outq', m, g)
      OBVIOUS
    <3>1. g \in 1..Len(outq) /\ IsGet(outq[g], m) /\ g \in Nat \ {0}
      BY <2>3
    <3>2. LiveFrom(outq, m, g)
      BY <2>1, <2>5, <3>1 DEF NameOK
    <3>3. QED
      BY <2>6, <3>1, <3>2
  <2>9. NameOK(m)'
    BY <1>5, <2>1, <2>5, <2>7, <2>8, NameStill
  <2>10. QED
    BY <2>4, <2>9
<1>10. QED
  BY <1>7, <1>8, <1>9 DEF NamesInv

\* Two requests at once are two, one after the other.
LEMMA TwoMore ==
    ASSUME NEW S, NEW q \in Seq(S), NEW x \in S, NEW y \in S
    PROVE  q \o <<x, y>> = Append(Append(q, x), y)
<1>1. Append(q, x) \in Seq(S) /\ Append(q, x) = q \o <<x>>
  BY AppendProperties, AppendIsConcat
<1>2. Append(Append(q, x), y) = Append(q, x) \o <<y>>
  BY <1>1, AppendIsConcat
<1>3. (q \o <<x>>) \o <<y>> = q \o (<<x>> \o <<y>>)
  BY ConcatAssociative
<1>4. <<x>> \o <<y>> = <<x, y>>
  <2>1. <<x>> \in Seq(S) /\ <<y>> \in Seq(S) /\ Len(<<x>>) = 1 /\ Len(<<y>>) = 1
    OBVIOUS
  <2>2. /\ <<x>> \o <<y>> \in Seq(S) /\ Len(<<x>> \o <<y>>) = 2
        /\ (<<x>> \o <<y>>)[1] = x /\ (<<x>> \o <<y>>)[2] = y
    BY <2>1, ConcatProperties
  <2>3. <<x, y>> \in Seq(S) /\ Len(<<x, y>>) = 2 /\ <<x, y>>[1] = x /\ <<x, y>>[2] = y
    OBVIOUS
  <2>4. \A i \in 1..2 : i = 1 \/ i = 2
    OBVIOUS
  <2>5. QED
    BY <2>2, <2>3, <2>4, SeqEqual
<1>5. QED
  BY <1>1, <1>2, <1>3, <1>4

\* An object is made.
LEMMA WatchNameStep ==
    ASSUME NamesInv, NEW n \in Wk, WatchName(n)
    PROVE  NamesInv'
<1>1. NamesTypeOK /\ OutOK
  BY DEF NamesInv
<1>2. PICK w \in [Wk -> Nat] : w = [watched EXCEPT ![n] = @ + 1]
  <2>1. watched \in [Wk -> Nat] /\ watched[n] + 1 \in Nat
    BY <1>1 DEF NamesTypeOK
  <2>2. QED
    BY <2>1
<1>3. PICK op \in {"get_owner", "cancelled"} : op = IF request[n] = "none" THEN "get_owner" ELSE "cancelled"
  OBVIOUS
<1>4. PICK r \in RequestSet : r = Request("add_match", n, w)
  BY <1>2, RecordTypes
<1>5. PICK s \in RequestSet : s = Request(op, n, w)
  BY <1>2, RecordTypes
<1>6. r.op = "add_match" /\ r.wk = n /\ r.live = w /\ s.op = op /\ s.wk = n /\ s.live = w
  BY <1>4, <1>5 DEF Request
<1>7. /\ watched' = w /\ outq' = outq \o <<r, s>>
      /\ request' = (IF request[n] = "none" THEN [request EXCEPT ![n] = "waiting"] ELSE request)
      /\ settled' = (IF watched[n] = 0 THEN [settled EXCEPT ![n] = FALSE] ELSE settled)
      /\ lost' = (IF watched[n] = 0 THEN [lost EXCEPT ![n] = request[n] # "none"] ELSE lost)
      /\ UNCHANGED <<owner, matches, inq, known, changes, spoilt>>
  BY <1>2, <1>3, <1>4, <1>5 DEF WatchName
<1>8. outq \in Seq(RequestSet) /\ watched \in [Wk -> Nat]
  BY <1>1 DEF NamesTypeOK
<1>9. PICK q \in Seq(RequestSet) : q = Append(outq, r)
  BY <1>8, AppendAt
<1>10. outq' = Append(q, s)
  BY <1>7, <1>8, <1>9, TwoMore
<1>11. /\ outq' \in Seq(RequestSet) /\ Len(outq) \in Nat /\ Len(outq') = Len(outq) + 2
       /\ \A i \in 1..Len(outq) : outq'[i] = outq[i]
       /\ outq'[Len(outq) + 1] = r /\ outq'[Len(outq) + 2] = s
  <2>1. /\ Len(outq) \in Nat /\ Len(q) = Len(outq) + 1
        /\ (\A i \in 1..Len(outq) : q[i] = outq[i]) /\ q[Len(outq) + 1] = r
    BY <1>8, <1>9, AppendAt
  <2>2. /\ outq' \in Seq(RequestSet) /\ Len(outq') = Len(q) + 1
        /\ (\A i \in 1..Len(q) : outq'[i] = q[i]) /\ outq'[Len(q) + 1] = s
    BY <1>10, AppendAt
  <2>3. \A i \in 1..Len(outq) : i \in 1..Len(q)
    BY <2>1
  <2>4. QED
    BY <2>1, <2>2, <2>3
<1>12. request' \in [Wk -> {"none", "waiting", "stale"}] /\ settled' \in [Wk -> BOOLEAN]
       /\ lost' \in [Wk -> BOOLEAN]
  <2>1. (request[n] # "none") \in BOOLEAN
    OBVIOUS
  <2>2. QED
    BY <1>1, <1>7, <2>1, Zenon DEF NamesTypeOK
<1>13. NamesTypeOK'
  BY <1>1, <1>2, <1>7, <1>11, <1>12 DEF NamesTypeOK
<1>14. OutOK'
  <2> SUFFICES ASSUME NEW m \in Wk
               PROVE  OutFits(outq', w, m, matches[m])
    BY <1>7 DEF OutOK
  <2>1. r.live[m] - Delta(r, m) = watched[m]
    BY <1>2, <1>6, <1>8 DEF Delta
  <2>2. s.live[m] - Delta(s, m) = w[m]
    BY <1>6 DEF Delta
  <2>3. matches[m] \in Int
    BY <1>1 DEF NamesTypeOK
  <2>4. OutFits(q, w, m, matches[m])
    <3>1. OutFits(outq, watched, m, matches[m])
      BY <1>1 DEF OutOK
    <3>2. OutFits(q, r.live, m, matches[m])
      BY <1>8, <1>9, <2>1, <2>3, <3>1, OutAppend
    <3>3. QED
      BY <1>6, <3>2
  <2>5. QED
    BY <1>6, <1>10, <2>2, <2>3, <2>4, OutAppend
<1>15. ASSUME NEW m \in Wk PROVE AskedOnce(m)' /\ NameOK(m)'
  <2>1. AskedOnce(m) /\ NameOK(m)
    BY DEF NamesInv
  <2>2. ~IsGet(r, m) /\ (IsGet(s, m) => m = n /\ request[m] = "none")
    BY <1>3, <1>6 DEF IsGet
  <2>3. \A i \in 1..Len(outq') :
           IsGet(outq'[i], m) => \/ i \in 1..Len(outq) /\ IsGet(outq[i], m)
                                 \/ i = Len(outq) + 2 /\ IsGet(s, m)
    <3> TAKE i \in 1..Len(outq')
    <3>1. i \in 1..Len(outq) \/ i = Len(outq) + 1 \/ i = Len(outq) + 2
      BY <1>11
    <3>2. QED
      BY <1>11, <2>2, <3>1
  <2>4. request'[m] = "none" => request[m] = "none" /\ ~IsGet(s, m)
    <3>1. CASE request[n] = "none"
      <4>1. request' = [request EXCEPT ![n] = "waiting"]
        BY <1>7, <3>1
      <4>2. m = n => request'[m] = "waiting"
        BY <1>1, <4>1 DEF NamesTypeOK
      <4>3. m # n => request'[m] = request[m]
        BY <1>1, <4>1 DEF NamesTypeOK
      <4>4. QED
        BY <2>2, <4>2, <4>3
    <3>2. CASE request[n] # "none"
      BY <1>7, <2>2, <3>2
    <3>3. QED
      BY <3>1, <3>2
  <2>5. AskedOnce(m)'
    <3>1. IsGet(s, m) => /\ \A i \in 1..Len(outq) : ~IsGet(outq[i], m)
                         /\ \A i \in 1..Len(inq) : ~IsReply(inq[i], m)
      BY <2>1, <2>2 DEF AskedOnce
    <3>2. request'[m] = "none" => \A i \in 1..Len(outq') : ~IsGet(outq'[i], m)
      BY <2>1, <2>3, <2>4 DEF AskedOnce
    <3>3. request'[m] = "none" => \A i \in 1..Len(inq) : ~IsReply(inq[i], m)
      BY <2>1, <2>4 DEF AskedOnce
    <3>4. \A i, j \in 1..Len(outq') : IsGet(outq'[i], m) /\ IsGet(outq'[j], m) => i = j
      BY <2>1, <2>3, <3>1 DEF AskedOnce
    <3>5. \A i \in 1..Len(outq'), j \in 1..Len(inq) : ~(IsGet(outq'[i], m) /\ IsReply(inq[j], m))
      BY <2>1, <2>3, <3>1 DEF AskedOnce
    <3>6. QED
      BY <1>7, <2>1, <3>2, <3>3, <3>4, <3>5 DEF AskedOnce
  <2>6. w[m] = (IF m = n THEN watched[m] + 1 ELSE watched[m]) /\ watched[m] \in Nat
    BY <1>2, <1>8
  <2>7. w[m] > 0 => r.live[m] >= 1 /\ s.live[m] >= 1
    BY <1>6, <2>6
  <2>8. ASSUME w[m] > 0, NEW g \in Nat \ {0}, LiveFrom(outq, m, g) PROVE LiveFrom(outq', m, g)
    <3> SUFFICES ASSUME NEW i \in g..Len(outq') PROVE outq'[i].live[m] >= 1
      BY DEF LiveFrom
    <3>1. CASE i = Len(outq) + 1 \/ i = Len(outq) + 2
      BY <1>11, <2>7, <2>8, <3>1
    <3>2. CASE ~(i = Len(outq) + 1 \/ i = Len(outq) + 2)
      <4>1. i \in g..Len(outq)
        BY <1>11, <3>2
      <4>2. outq'[i] = outq[i]
        BY <1>11, <4>1
      <4>3. QED
        BY <2>8, <4>1, <4>2 DEF LiveFrom
    <3>3. QED
      BY <3>1, <3>2
  <2>9. Told(m) /\ w[m] > 0 => Told(m)'
    <3>1. 1 \in Nat \ {0}
      OBVIOUS
    <3>2. QED
      BY <1>7, <2>8, <3>1 DEF Told
  <2>10. ASSUME w[m] > 0, NEW g \in 1..Len(outq'), IsGet(outq'[g], m),
                IsGet(s, m) \/ (watched[m] > 0 /\ ~lost[m])
         PROVE  LiveFrom(outq', m, g)
    <3>1. CASE g \in 1..Len(outq) /\ IsGet(outq[g], m)
      <4>1. ~IsGet(s, m)
        BY <2>1, <2>2, <3>1 DEF AskedOnce
      <4>2. LiveFrom(outq, m, g)
        BY <2>1, <2>10, <3>1, <4>1 DEF NameOK
      <4>3. QED
        BY <2>8, <2>10, <3>1, <4>2
    <3>2. CASE g = Len(outq) + 2
      BY <1>11, <2>7, <2>10, <3>2 DEF LiveFrom
    <3>3. QED
      BY <2>3, <2>10, <3>1, <3>2
  <2>11. CASE m = n /\ watched[n] = 0
    <3>1. settled'[m] = FALSE
      BY <1>1, <1>7, <2>11 DEF NamesTypeOK
    <3>2. lost'[m] <=> request[m] # "none"
      BY <1>1, <1>7, <2>11 DEF NamesTypeOK
    <3>3. ~lost'[m] => \A i \in 1..Len(inq) : ~IsReply(inq[i], m)
      BY <2>1, <3>2 DEF AskedOnce
    <3>4. ~lost'[m] => \A g \in 1..Len(outq') : IsGet(outq'[g], m) => LiveFrom(outq', m, g)
      <4> SUFFICES ASSUME ~lost'[m], NEW g \in 1..Len(outq'), IsGet(outq'[g], m)
                   PROVE  LiveFrom(outq', m, g)
        OBVIOUS
      <4>1. \A i \in 1..Len(outq) : ~IsGet(outq[i], m)
        BY <2>1, <3>2 DEF AskedOnce
      <4>2. IsGet(s, m)
        BY <2>3, <4>1
      <4>3. w[m] > 0
        BY <2>6, <2>11
      <4>4. QED
        BY <2>10, <4>2, <4>3
    <3>5. QED
      BY <1>7, <2>5, <3>1, <3>3, <3>4 DEF NameOK
  <2>12. CASE ~(m = n /\ watched[n] = 0)
    <3>1. settled'[m] = settled[m] /\ lost'[m] = lost[m]
      BY <1>1, <1>7, <2>12 DEF NamesTypeOK
    <3>2. w[m] > 0 => watched[m] > 0
      BY <2>6, <2>12
    <3>3. w[m] > 0 /\ ~lost[m] => \A g \in 1..Len(outq') : IsGet(outq'[g], m) => LiveFrom(outq', m, g)
      BY <2>10, <3>2
    <3>4. NameOK(m)'
      BY <1>7, <2>1, <2>9, <3>1, <3>2, <3>3, NameStill
    <3>5. QED
      BY <2>5, <3>4
  <2>13. QED
    BY <2>11, <2>12
<1>16. QED
  BY <1>13, <1>14, <1>15 DEF NamesInv

\* A message that is no reply adds none.
LEMMA AskedAppend ==
    ASSUME NamesTypeOK, NEW n \in Wk, AskedOnce(n), NEW m \in MessageSet, ~IsReply(m, n),
           inq' = Append(inq, m), UNCHANGED <<outq, request>>
    PROVE  AskedOnce(n)'
<1>1. \A i \in 1..Len(inq') : IsReply(inq'[i], n) => i \in 1..Len(inq) /\ IsReply(inq[i], n)
  <2>1. /\ Len(inq') = Len(inq) + 1 /\ inq'[Len(inq) + 1] = m
        /\ \A i \in 1..Len(inq) : inq'[i] = inq[i]
        /\ \A i \in 1..Len(inq') : i \in 1..Len(inq) \/ i = Len(inq) + 1
    BY AppendAt DEF NamesTypeOK
  <2>2. QED
    BY <2>1
<1>2. QED
  BY <1>1 DEF AskedOnce

\* The messages are well formed after one more.
LEMMA InTypes ==
    ASSUME NamesTypeOK, NEW m \in MessageSet, m.type # "signal" => m.wk \in Wk,
           m.type = "signal" => m.old \in Peer, inq' = Append(inq, m)
    PROVE  /\ inq' \in Seq(MessageSet)
           /\ \A i \in 1..Len(inq') : inq'[i].type # "signal" => inq'[i].wk \in Wk
           /\ \A i \in 1..Len(inq') : inq'[i].type = "signal" => inq'[i].old \in Peer
<1>1. /\ inq' \in Seq(MessageSet) /\ Len(inq') = Len(inq) + 1 /\ inq'[Len(inq) + 1] = m
      /\ \A i \in 1..Len(inq) : inq'[i] = inq[i]
      /\ \A i \in 1..Len(inq') : i \in 1..Len(inq) \/ i = Len(inq) + 1
  BY AppendAt DEF NamesTypeOK
<1>2. QED
  BY <1>1 DEF NamesTypeOK

\* A peer sends a signal.
LEMMA SendSignalStep ==
    ASSUME NamesInv, NEW p \in Peer, SendSignal(p)
    PROVE  NamesInv'
<1>1. NamesTypeOK /\ OutOK
  BY DEF NamesInv
<1>2. PICK m \in MessageSet : m = Message("signal", NoOwner, p, owner)
  BY <1>1, RecordTypes DEF NamesTypeOK
<1>3. m.type = "signal" /\ m.old = p /\ m.own = owner
  BY <1>2 DEF Message
<1>4. inq' = Append(inq, m)
      /\ UNCHANGED <<owner, matches, outq, watched, request, known, changes, settled, lost, spoilt>>
  BY <1>2 DEF SendSignal
<1>5. /\ inq' \in Seq(MessageSet)
      /\ \A i \in 1..Len(inq') : inq'[i].type # "signal" => inq'[i].wk \in Wk
      /\ \A i \in 1..Len(inq') : inq'[i].type = "signal" => inq'[i].old \in Peer
  BY <1>1, <1>3, <1>4, InTypes
<1>6. NamesTypeOK'
  BY <1>1, <1>4, <1>5 DEF NamesTypeOK
<1>7. OutOK'
  BY <1>1, <1>4 DEF OutOK
<1>8. ASSUME NEW n \in Wk PROVE AskedOnce(n)' /\ NameOK(n)'
  <2>1. AskedOnce(n) /\ NameOK(n)
    BY DEF NamesInv
  <2>2. ~IsReply(m, n) /\ ~IsChange(m, n)
    BY <1>3 DEF IsReply, IsChange
  <2>3. AskedOnce(n)'
    BY <1>1, <1>4, <2>1, <2>2, AskedAppend
  <2>4. Tells(m, owner, owner', n)
    BY <1>3, <1>4, <2>2 DEF Tells
  <2>5. Told(n) => Told(n)'
    BY <1>4 DEF Told
  <2>6. watched[n] > 0 /\ ~lost[n] => \A g \in 1..Len(outq') : IsGet(outq'[g], n) => LiveFrom(outq', n, g)
    BY <1>4, <2>1 DEF NameOK
  <2>7. NameOK(n)'
    BY <1>1, <1>4, <2>1, <2>2, <2>4, <2>5, <2>6, NameAppend
  <2>8. QED
    BY <2>3, <2>7
<1>9. QED
  BY <1>6, <1>7, <1>8 DEF NamesInv

\* A name gets another owner: told to who has a match rule.
LEMMA ChangeOwnerStep ==
    ASSUME NamesInv, NEW n \in Wk, NEW p \in {NoOwner} \cup Peer, ChangeOwner(n, p)
    PROVE  NamesInv'
<1>1. NamesTypeOK /\ OutOK
  BY DEF NamesInv
<1>2. PICK own \in Owners : own = [owner EXCEPT ![n] = p]
  BY <1>1 DEF NamesTypeOK, Owners
<1>3. own[n] = p /\ \A m \in Wk : m # n => own[m] = owner[m]
  BY <1>1, <1>2 DEF NamesTypeOK, Owners
<1>4. PICK m \in MessageSet : m = Message("changed", n, owner[n], own)
  <2>1. owner[n] \in {NoOwner} \cup Peer
    BY <1>1 DEF NamesTypeOK, Owners
  <2>2. QED
    BY <2>1, RecordTypes
<1>5. m.type = "changed" /\ m.wk = n /\ m.old = owner[n] /\ m.own = own
  BY <1>4 DEF Message
<1>6. /\ owner' = own /\ inq' = (IF matches[n] > 0 THEN Append(inq, m) ELSE inq)
      /\ UNCHANGED <<matches, outq, watched, request, known, settled, lost, spoilt>>
  BY <1>2, <1>4 DEF ChangeOwner
<1>7. OutOK'
  BY <1>1, <1>6 DEF OutOK
<1>8. CASE matches[n] > 0
  <2>1. inq' = Append(inq, m)
    BY <1>6, <1>8
  <2>2. /\ inq' \in Seq(MessageSet)
        /\ \A i \in 1..Len(inq') : inq'[i].type # "signal" => inq'[i].wk \in Wk
        /\ \A i \in 1..Len(inq') : inq'[i].type = "signal" => inq'[i].old \in Peer
    BY <1>1, <1>5, <2>1, InTypes
  <2>3. NamesTypeOK'
    BY <1>1, <1>6, <2>2 DEF NamesTypeOK
  <2>4. ASSUME NEW k \in Wk PROVE AskedOnce(k)' /\ NameOK(k)'
    <3>1. AskedOnce(k) /\ NameOK(k)
      BY DEF NamesInv
    <3>2. ~IsReply(m, k) /\ (IsChange(m, k) <=> k = n)
      BY <1>5 DEF IsReply, IsChange
    <3>3. AskedOnce(k)'
      BY <1>1, <1>6, <2>1, <3>1, <3>2, AskedAppend
    <3>4. Tells(m, owner, owner', k)
      BY <1>3, <1>5, <1>6, <3>2 DEF Tells
    <3>5. Told(k) => Told(k)'
      BY <1>6 DEF Told
    <3>6. watched[k] > 0 /\ ~lost[k] => \A g \in 1..Len(outq') : IsGet(outq'[g], k) => LiveFrom(outq', k, g)
      BY <1>6, <3>1 DEF NameOK
    <3>7. NameOK(k)'
      BY <1>1, <1>6, <2>1, <3>1, <3>2, <3>4, <3>5, <3>6, NameAppend
    <3>8. QED
      BY <3>3, <3>7
  <2>5. QED
    BY <1>7, <2>3, <2>4 DEF NamesInv
<1>9. CASE ~(matches[n] > 0)
  <2>1. inq' = inq
    BY <1>6, <1>9
  <2>2. NamesTypeOK'
    BY <1>1, <1>6, <2>1 DEF NamesTypeOK
  <2>3. ASSUME NEW k \in Wk PROVE AskedOnce(k)' /\ NameOK(k)'
    <3>1. AskedOnce(k) /\ NameOK(k)
      BY DEF NamesInv
    <3>2. AskedOnce(k)'
      BY <1>6, <2>1, <3>1 DEF AskedOnce
    <3>3. CASE k = n
      <4>1. ~Told(n)
        BY <1>1, <1>9 DEF Told, NamesTypeOK
      <4>2. ~Told(n)'
        BY <1>1, <1>6, <1>9 DEF Told, NamesTypeOK
      <4>3. NameOK(k)'
        BY <1>6, <2>1, <3>1, <3>3, <4>1, <4>2 DEF NameOK
      <4>4. QED
        BY <3>2, <4>3
    <3>4. CASE k # n
      <4>1. owner'[k] = owner[k]
        BY <1>3, <1>6, <3>4
      <4>2. Told(k) => Told(k)'
        BY <1>6 DEF Told
      <4>3. watched[k] > 0 /\ ~lost[k] => \A g \in 1..Len(outq') : IsGet(outq'[g], k) => LiveFrom(outq', k, g)
        BY <1>6, <3>1 DEF NameOK
      <4>4. NameOK(k)'
        BY <1>6, <2>1, <3>1, <4>1, <4>2, <4>3, NameStill
      <4>5. QED
        BY <3>2, <4>4
    <3>5. QED
      BY <3>3, <3>4
  <2>4. QED
    BY <1>7, <2>2, <2>3 DEF NamesInv
<1>10. QED
  BY <1>8, <1>9

\* The bus handles a request.
LEMMA BusRequestStep ==
    ASSUME NamesInv, BusRequest
    PROVE  NamesInv'
<1>1. NamesTypeOK /\ OutOK
  BY DEF NamesInv
<1>2. PICK r : r = outq[1]
  OBVIOUS
<1>3. /\ outq # <<>> /\ outq' = Tail(outq) /\ matches' = [n \in Wk |-> matches[n] + Delta(r, n)]
      /\ inq' = IF r.op = "get_owner" THEN Append(inq, Message("reply", r.wk, NoOwner, owner)) ELSE inq
      /\ UNCHANGED <<owner, watched, request, known, changes, settled, lost, spoilt>>
  BY <1>2 DEF BusRequest
<1>4. /\ outq \in Seq(RequestSet) /\ outq' \in Seq(RequestSet) /\ Len(outq) \in Nat \ {0}
      /\ Len(outq') = Len(outq) - 1 /\ r \in RequestSet /\ 1 \in 1..Len(outq)
      /\ \A i \in 1..Len(outq') : i + 1 \in 1..Len(outq) /\ outq'[i] = outq[i + 1]
  BY <1>1, <1>2, <1>3, TailAt DEF NamesTypeOK
<1>5. ASSUME NEW n \in Wk
      PROVE  /\ matches'[n] = r.live[n] /\ matches'[n] \in Int
             /\ OutFits(outq', watched, n, matches'[n])
  <2>1. matches[n] \in Int /\ watched \in [Wk -> Nat] /\ r.live[n] \in Nat
    BY <1>1, <1>4 DEF NamesTypeOK, RequestSet
  <2>2. OutFits(outq, watched, n, matches[n])
    BY <1>1 DEF OutOK
  <2>3. /\ matches[n] + Delta(outq[1], n) = outq[1].live[n]
        /\ OutFits(Tail(outq), watched, n, outq[1].live[n])
    BY <1>3, <1>4, <2>1, <2>2, OutTail
  <2>4. matches'[n] = matches[n] + Delta(outq[1], n)
    BY <1>2, <1>3
  <2>5. QED
    BY <1>2, <1>3, <2>1, <2>3, <2>4
<1>6. matches' \in [Wk -> Int]
  <2>1. matches' = [n \in Wk |-> matches'[n]]
    BY <1>3
  <2>2. QED
    BY <1>5, <2>1
<1>7. OutOK'
  BY <1>3, <1>5 DEF OutOK
<1>8. ASSUME NEW n \in Wk, NEW g \in 1..Len(outq), LiveFrom(outq, n, g)
      PROVE  /\ g = 1 => Told(n)'
             /\ g > 1 => LiveFrom(outq', n, g - 1)
  <2>1. ASSUME NEW e \in Nat \ {0}, e + 1 >= g PROVE LiveFrom(outq', n, e)
    <3> SUFFICES ASSUME NEW i \in e..Len(outq') PROVE outq'[i].live[n] >= 1
      BY DEF LiveFrom
    <3>1. i \in 1..Len(outq') /\ i + 1 \in g..Len(outq)
      BY <1>4, <2>1
    <3>2. QED
      BY <1>4, <1>8, <3>1 DEF LiveFrom
  <2>2. CASE g = 1
    <3>1. r.live[n] >= 1
      BY <1>2, <1>4, <1>8, <2>2 DEF LiveFrom
    <3>2. LiveFrom(outq', n, 1)
      BY <2>1, <2>2
    <3>3. QED
      BY <1>5, <2>2, <3>1, <3>2 DEF Told
  <2>3. CASE g > 1
    BY <1>4, <2>1, <2>3
  <2>4. QED
    BY <1>4, <2>2, <2>3
<1>9. \A n \in Wk : Told(n) => Told(n)'
  BY <1>4, <1>8 DEF Told
<1>10. ASSUME NEW n \in Wk, watched[n] > 0, ~lost[n]
       PROVE  \A g \in 1..Len(outq') : IsGet(outq'[g], n) => LiveFrom(outq', n, g)
  <2> SUFFICES ASSUME NEW g \in 1..Len(outq'), IsGet(outq'[g], n) PROVE LiveFrom(outq', n, g)
    OBVIOUS
  <2>1. g + 1 \in 1..Len(outq) /\ IsGet(outq[g + 1], n) /\ g + 1 > 1 /\ (g + 1) - 1 = g
    BY <1>4
  <2>2. LiveFrom(outq, n, g + 1)
    BY <1>10, <2>1 DEF NamesInv, NameOK
  <2>3. QED
    BY <1>8, <2>1, <2>2
<1>11. CASE r.op = "get_owner"
  <2>1. PICK m \in MessageSet : m = Message("reply", r.wk, NoOwner, owner)
    BY <1>1, <1>4, RecordTypes DEF NamesTypeOK, RequestSet
  <2>2. m.type = "reply" /\ m.wk = r.wk /\ m.own = owner /\ r.wk \in Wk
    BY <1>4, <2>1 DEF Message, RequestSet
  <2>3. inq' = Append(inq, m)
    BY <1>3, <1>11, <2>1
  <2>4. /\ inq' \in Seq(MessageSet)
        /\ \A i \in 1..Len(inq') : inq'[i].type # "signal" => inq'[i].wk \in Wk
        /\ \A i \in 1..Len(inq') : inq'[i].type = "signal" => inq'[i].old \in Peer
    BY <1>1, <2>2, <2>3, InTypes
  <2>5. NamesTypeOK'
    BY <1>1, <1>3, <1>4, <1>6, <2>4 DEF NamesTypeOK
  <2>6. ASSUME NEW n \in Wk PROVE AskedOnce(n)' /\ NameOK(n)'
    <3>1. AskedOnce(n) /\ NameOK(n)
      BY DEF NamesInv
    <3>2. IsReply(m, n) <=> IsGet(r, n)
      BY <1>11, <2>2 DEF IsReply, IsGet
    <3>3. AskedOnce(n)'
      <4>1. /\ Len(inq) \in Nat /\ Len(inq') = Len(inq) + 1 /\ inq'[Len(inq) + 1] = m
            /\ \A i \in 1..Len(inq) : inq'[i] = inq[i]
            /\ \A i \in 1..Len(inq') : i \in 1..Len(inq) \/ i = Len(inq) + 1
        BY <1>1, <2>3, AppendAt DEF NamesTypeOK
      <4>2. \A i \in 1..Len(inq') : IsReply(inq'[i], n) =>
               \/ i \in 1..Len(inq) /\ IsReply(inq[i], n)
               \/ i = Len(inq) + 1 /\ IsGet(outq[1], n)
        BY <1>2, <3>2, <4>1
      <4>3. \A i \in 1..Len(outq') : IsGet(outq'[i], n) => i + 1 \in 1..Len(outq) /\ IsGet(outq[i + 1], n) /\ i + 1 # 1
        BY <1>4
      <4>4. request'[n] = "none" => /\ \A i \in 1..Len(outq') : ~IsGet(outq'[i], n)
                                    /\ \A i \in 1..Len(inq') : ~IsReply(inq'[i], n)
        BY <1>3, <1>4, <3>1, <4>2, <4>3 DEF AskedOnce
      <4>5. \A i, j \in 1..Len(outq') : IsGet(outq'[i], n) /\ IsGet(outq'[j], n) => i = j
        <5> SUFFICES ASSUME NEW i \in 1..Len(outq'), NEW j \in 1..Len(outq'),
                            IsGet(outq'[i], n), IsGet(outq'[j], n)
                     PROVE  i = j
          OBVIOUS
        <5>1. i + 1 = j + 1
          BY <3>1, <4>3 DEF AskedOnce
        <5>2. QED
          BY <5>1
      <4>6. \A i, j \in 1..Len(inq') : IsReply(inq'[i], n) /\ IsReply(inq'[j], n) => i = j
        BY <1>4, <3>1, <4>2 DEF AskedOnce
      <4>7. \A i \in 1..Len(outq'), j \in 1..Len(inq') : ~(IsGet(outq'[i], n) /\ IsReply(inq'[j], n))
        BY <1>4, <3>1, <4>2, <4>3 DEF AskedOnce
      <4>8. QED
        BY <4>4, <4>5, <4>6, <4>7 DEF AskedOnce
    <3>4. Tells(m, owner, owner', n)
      BY <1>3, <2>2 DEF Tells, IsChange
    <3>5. watched[n] > 0 /\ ~lost[n] /\ IsReply(m, n) => Told(n)'
      <4> SUFFICES ASSUME watched[n] > 0, ~lost[n], IsReply(m, n) PROVE Told(n)'
        OBVIOUS
      <4>1. LiveFrom(outq, n, 1)
        BY <1>2, <1>4, <3>1, <3>2 DEF NameOK
      <4>2. QED
        BY <1>4, <1>8, <4>1
    <3>6. NameOK(n)'
      BY <1>1, <1>3, <1>9, <1>10, <2>3, <3>1, <3>4, <3>5, NameAppend
    <3>7. QED
      BY <3>3, <3>6
  <2>7. QED
    BY <1>7, <2>5, <2>6 DEF NamesInv
<1>12. CASE r.op # "get_owner"
  <2>1. inq' = inq
    BY <1>3, <1>12
  <2>2. NamesTypeOK'
    BY <1>1, <1>3, <1>4, <1>6, <2>1 DEF NamesTypeOK
  <2>3. ASSUME NEW n \in Wk PROVE AskedOnce(n)' /\ NameOK(n)'
    <3>1. AskedOnce(n) /\ NameOK(n)
      BY DEF NamesInv
    <3>2. \A i \in 1..Len(outq') : IsGet(outq'[i], n) => i + 1 \in 1..Len(outq) /\ IsGet(outq[i + 1], n)
      BY <1>4
    <3>3. \A i, j \in 1..Len(outq') : IsGet(outq'[i], n) /\ IsGet(outq'[j], n) => i = j
      <4> SUFFICES ASSUME NEW i \in 1..Len(outq'), NEW j \in 1..Len(outq'),
                          IsGet(outq'[i], n), IsGet(outq'[j], n)
                   PROVE  i = j
        OBVIOUS
      <4>1. i + 1 = j + 1
        BY <3>1, <3>2 DEF AskedOnce
      <4>2. QED
        BY <4>1
    <3>4. AskedOnce(n)'
      BY <1>3, <2>1, <3>1, <3>2, <3>3 DEF AskedOnce
    <3>5. NameOK(n)'
      BY <1>3, <1>9, <1>10, <2>1, <3>1, NameStill
    <3>6. QED
      BY <3>4, <3>5
  <2>4. QED
    BY <1>7, <2>2, <2>3 DEF NamesInv
<1>13. QED
  BY <1>11, <1>12

\* The messages that are left when the first one has been taken.
LEMMA TakeTypes ==
    ASSUME NamesTypeOK, inq # <<>>, inq' = Tail(inq)
    PROVE  /\ inq' \in Seq(MessageSet) /\ inq[1] \in MessageSet /\ Len(inq) \in Nat \ {0}
           /\ Len(inq') = Len(inq) - 1 /\ 1 \in 1..Len(inq)
           /\ \A i \in 1..Len(inq') : i + 1 \in 1..Len(inq) /\ i + 1 # 1 /\ inq'[i] = inq[i + 1]
           /\ \A i \in 1..Len(inq') : inq'[i].type # "signal" => inq'[i].wk \in Wk
           /\ \A i \in 1..Len(inq') : inq'[i].type = "signal" => inq'[i].old \in Peer
<1>1. /\ inq' \in Seq(MessageSet) /\ inq[1] \in MessageSet /\ Len(inq) \in Nat \ {0}
      /\ Len(inq') = Len(inq) - 1 /\ 1 \in 1..Len(inq)
      /\ \A i \in 1..Len(inq') : i + 1 \in 1..Len(inq) /\ inq'[i] = inq[i + 1]
  BY TailAt DEF NamesTypeOK
<1>2. \A i \in 1..Len(inq') : i + 1 # 1
  BY <1>1
<1>3. \A i \in 1..Len(inq) : /\ inq[i].type # "signal" => inq[i].wk \in Wk
                             /\ inq[i].type = "signal" => inq[i].old \in Peer
  BY DEF NamesTypeOK
<1>4. QED
  BY <1>1, <1>2, <1>3

\* Taking a message leaves at most one question.
LEMMA AskedTake ==
    ASSUME NamesTypeOK, NEW n \in Wk, AskedOnce(n), inq # <<>>, inq' = Tail(inq), outq' = outq,
           request'[n] # request[n] => IsReply(inq[1], n)
    PROVE  AskedOnce(n)'
<1>1. /\ 1 \in 1..Len(inq) /\ Len(inq) \in Nat \ {0} /\ Len(inq') = Len(inq) - 1
      /\ \A i \in 1..Len(inq') : i + 1 \in 1..Len(inq) /\ i + 1 # 1 /\ inq'[i] = inq[i + 1]
  BY TakeTypes
<1>2. IsReply(inq[1], n) => /\ \A i \in 1..Len(outq) : ~IsGet(outq[i], n)
                            /\ \A i \in 1..Len(inq') : ~IsReply(inq'[i], n)
  BY <1>1 DEF AskedOnce
<1>3. request'[n] = "none" => /\ \A i \in 1..Len(outq') : ~IsGet(outq'[i], n)
                              /\ \A i \in 1..Len(inq') : ~IsReply(inq'[i], n)
  BY <1>1, <1>2 DEF AskedOnce
<1>4. \A i, j \in 1..Len(inq') : IsReply(inq'[i], n) /\ IsReply(inq'[j], n) => i = j
  <2> SUFFICES ASSUME NEW i \in 1..Len(inq'), NEW j \in 1..Len(inq'),
                      IsReply(inq'[i], n), IsReply(inq'[j], n)
               PROVE  i = j
    OBVIOUS
  <2>1. i + 1 = j + 1
    BY <1>1 DEF AskedOnce
  <2>2. QED
    BY <2>1
<1>5. \A i \in 1..Len(outq'), j \in 1..Len(inq') : ~(IsGet(outq'[i], n) /\ IsReply(inq'[j], n))
  BY <1>1 DEF AskedOnce
<1>6. QED
  BY <1>3, <1>4, <1>5 DEF AskedOnce

\* What di_dbus_update_name leaves of the entries.
LEMMA UpdateEffect ==
    ASSUME NamesTypeOK, NEW n \in Wk, NEW new, NEW remove \in BOOLEAN, UpdateName(n, new, remove)
    PROVE  /\ known' \in [Wk -> [Peer -> Nat]] /\ spoilt' \in [Wk -> {"no", "clipped", "stale"}]
           /\ \A m \in Wk : m # n /\ spoilt'[m] = "no" => spoilt[m] = "no" /\ known'[m] = known[m]
           /\ ~remove => spoilt'[n] = spoilt[n]
           /\ \A p \in Peer : known'[n][p] = (IF remove THEN 0 ELSE known[n][p]) + (IF p = new THEN 1 ELSE 0)
<1>1. /\ known' = [m \in Wk |-> [p \in Peer |-> (IF remove /\ Matches(n, m) THEN 0 ELSE known[m][p])
                                               + (IF m = n /\ p = new THEN 1 ELSE 0)]]
      /\ spoilt' = [m \in Wk |->
                        IF remove /\ m = n THEN "no"
                        ELSE IF remove /\ Matches(n, m) /\ (\E p \in Peer : known[m][p] > 0)
                             THEN "clipped" ELSE spoilt[m]]
  BY DEF UpdateName, Updated
<1>2. \A m \in Wk, p \in Peer : known[m][p] \in Nat
  BY DEF NamesTypeOK
<1>3. \A m \in Wk, p \in Peer : (IF remove /\ Matches(n, m) THEN 0 ELSE known[m][p])
                                 + (IF m = n /\ p = new THEN 1 ELSE 0) \in Nat
  BY <1>2
<1>4. known' \in [Wk -> [Peer -> Nat]]
  BY <1>1, <1>3
<1>5. spoilt' \in [Wk -> {"no", "clipped", "stale"}]
  BY <1>1 DEF NamesTypeOK
<1>6. ASSUME NEW m \in Wk, m # n, spoilt'[m] = "no" PROVE spoilt[m] = "no" /\ known'[m] = known[m]
  <2>1. spoilt[m] = "no" /\ ~(remove /\ Matches(n, m) /\ \E p \in Peer : known[m][p] > 0)
    BY <1>1, <1>6
  <2>2. \A p \in Peer : known'[m][p] = known[m][p]
    <3> TAKE p \in Peer
    <3>1. known'[m][p] = (IF remove /\ Matches(n, m) THEN 0 ELSE known[m][p]) + 0
      BY <1>1, <1>6
    <3>2. remove /\ Matches(n, m) => known[m][p] = 0
      BY <1>2, <2>1
    <3>3. QED
      BY <1>2, <3>1, <3>2
  <2>3. known'[m] \in [Peer -> Nat] /\ known[m] \in [Peer -> Nat]
    BY <1>4 DEF NamesTypeOK
  <2>4. known'[m] = known[m]
    BY <2>2, <2>3
  <2>5. QED
    BY <2>1, <2>4
<1>7. ~remove => spoilt'[n] = spoilt[n]
  BY <1>1
<1>8. Matches(n, n)
  BY DEF Matches
<1>9. \A p \in Peer : known'[n][p] = (IF remove THEN 0 ELSE known[n][p]) + (IF p = new THEN 1 ELSE 0)
  BY <1>1, <1>8
<1>10. QED
  BY <1>4, <1>5, <1>6, <1>7, <1>9

\* A signal changes nothing of what is known.
LEMMA DispatchSignalStep == ASSUME NamesInv, DispatchSignal PROVE NamesInv'
<1>1. NamesTypeOK /\ OutOK
  BY DEF NamesInv
<1>2. /\ inq # <<>> /\ inq[1].type = "signal" /\ inq' = Tail(inq)
      /\ UNCHANGED <<owner, matches, outq, watched, request, known, changes, settled, lost, spoilt>>
  BY DEF DispatchSignal, DispatchSignalAs
<1>3. NamesTypeOK'
  BY <1>1, <1>2, TakeTypes DEF NamesTypeOK
<1>4. OutOK'
  BY <1>1, <1>2 DEF OutOK
<1>5. ASSUME NEW n \in Wk PROVE AskedOnce(n)' /\ NameOK(n)'
  <2>1. AskedOnce(n) /\ NameOK(n)
    BY DEF NamesInv
  <2>2. ~IsChange(inq[1], n)
    BY <1>2 DEF IsChange
  <2>3. AskedOnce(n)'
    BY <1>1, <1>2, <2>1, AskedTake
  <2>4. NameOK(n)'
    BY <1>1, <1>2, <2>1, <2>2, NameTake
  <2>5. QED
    BY <2>3, <2>4
<1>6. QED
  BY <1>3, <1>4, <1>5 DEF NamesInv

\* A change of ownership reaches the connection.
LEMMA DispatchChangedStep == ASSUME NamesInv, DispatchChanged PROVE NamesInv'
<1>1. NamesTypeOK /\ OutOK
  BY DEF NamesInv
<1>2. PICK n, new, old : n = inq[1].wk /\ new = inq[1].own[n] /\ old = inq[1].old
  OBVIOUS
<1>3. PICK remove \in BOOLEAN : remove = (old # NoOwner)
  OBVIOUS
<1>4. /\ inq # <<>> /\ inq[1].type = "changed" /\ inq' = Tail(inq) /\ UpdateName(n, new, remove)
      /\ UNCHANGED <<owner, matches, outq, watched, request, changes, settled, lost>>
  BY <1>2, <1>3 DEF DispatchChanged
<1>5. n \in Wk /\ new \in {NoOwner} \cup Peer /\ Len(inq) \in Nat \ {0} /\ 1 \in 1..Len(inq)
  BY <1>1, <1>2, <1>4, TakeTypes DEF NamesTypeOK, MessageSet, Owners
<1>6. /\ known' \in [Wk -> [Peer -> Nat]] /\ spoilt' \in [Wk -> {"no", "clipped", "stale"}]
      /\ \A m \in Wk : m # n /\ spoilt'[m] = "no" => spoilt[m] = "no" /\ known'[m] = known[m]
      /\ ~remove => spoilt'[n] = spoilt[n]
      /\ \A p \in Peer : known'[n][p] = (IF remove THEN 0 ELSE known[n][p]) + (IF p = new THEN 1 ELSE 0)
  BY <1>1, <1>4, <1>5, UpdateEffect
<1>7. NamesTypeOK'
  BY <1>1, <1>4, <1>6, TakeTypes DEF NamesTypeOK
<1>8. OutOK'
  BY <1>1, <1>4 DEF OutOK
<1>9. ASSUME NEW m \in Wk PROVE AskedOnce(m)' /\ NameOK(m)'
  <2>1. AskedOnce(m) /\ NameOK(m)
    BY DEF NamesInv
  <2>2. AskedOnce(m)'
    BY <1>1, <1>4, <2>1, AskedTake
  <2>3. CASE m = n
    <3>1. IsChange(inq[1], n) /\ Before(inq, owner, 1, n) = old
      BY <1>2, <1>4, <1>5 DEF IsChange, Before
    <3>2. ASSUME watched[n] > 0, ~lost[n], settled[n]
          PROVE  /\ Told(n) /\ Chain(inq, owner, n, 1)
                 /\ spoilt'[n] = "no" => \A p \in Peer : known'[n][p] = IF p = new THEN 1 ELSE 0
      <4>1. /\ Told(n) /\ Chain(inq, owner, n, 1)
            /\ spoilt[n] = "no" => \A p \in Peer : known[n][p] = IF p = old THEN 1 ELSE 0
        BY <2>1, <2>3, <3>1, <3>2 DEF NameOK
      <4>2. spoilt'[n] = "no" => \A p \in Peer : (IF remove THEN 0 ELSE known[n][p]) = 0
        BY <1>3, <1>6, <4>1, NamesAssumption
      <4>3. QED
        BY <1>6, <4>1, <4>2
    <3>3. NameOK(m)'
      BY <1>1, <1>2, <1>4, <2>1, <2>3, <3>2, NameLearned
    <3>4. QED
      BY <2>2, <3>3
  <2>4. CASE m # n
    <3>1. ~IsChange(inq[1], m)
      BY <1>2, <2>4 DEF IsChange
    <3>2. NameOK(m)'
      BY <1>1, <1>4, <1>6, <2>1, <2>4, <3>1, NameTake
    <3>3. QED
      BY <2>2, <3>2
  <2>5. QED
    BY <2>3, <2>4
<1>10. QED
  BY <1>7, <1>8, <1>9 DEF NamesInv

\* The answer to the question for an owner reaches the connection.
LEMMA DispatchReplyStep == ASSUME NamesInv, DispatchReply PROVE NamesInv'
<1>1. NamesTypeOK /\ OutOK
  BY DEF NamesInv
<1>2. PICK n, new : n = inq[1].wk /\ new = inq[1].own[n]
  OBVIOUS
<1>3. /\ inq # <<>> /\ inq[1].type = "reply" /\ inq' = Tail(inq)
      /\ UNCHANGED <<owner, matches, outq, watched, changes, lost>>
  BY DEF DispatchReply
<1>4. n \in Wk /\ new \in {NoOwner} \cup Peer /\ Len(inq) \in Nat \ {0} /\ 1 \in 1..Len(inq)
  BY <1>1, <1>2, <1>3, TakeTypes DEF NamesTypeOK, MessageSet, Owners
<1>5. /\ known' \in [Wk -> [Peer -> Nat]] /\ spoilt' \in [Wk -> {"no", "clipped", "stale"}]
      /\ request' \in [Wk -> {"none", "waiting", "stale"}] /\ settled' \in [Wk -> BOOLEAN]
      /\ \A m \in Wk : m # n => request'[m] = request[m] /\ settled'[m] = settled[m]
      /\ \A m \in Wk : m # n /\ spoilt'[m] = "no" => spoilt[m] = "no" /\ known'[m] = known[m]
      /\ spoilt'[n] = "no" => \A p \in Peer : known'[n][p] = IF p = new THEN 1 ELSE 0
  <2>0. settled' = [settled EXCEPT ![n] = TRUE]
    BY <1>2 DEF DispatchReply
  <2>1. CASE new = NoOwner
    <3>1. /\ request' = [request EXCEPT ![n] = "stale"]
          /\ spoilt' = [spoilt EXCEPT ![n] = IF \E p \in Peer : known[n][p] > 0
                                             THEN "stale" ELSE "no"]
          /\ UNCHANGED known
      BY <1>2, <2>1 DEF DispatchReply
    <3>2. PICK b \in {"no", "stale"} :
            b = IF \E p \in Peer : known[n][p] > 0 THEN "stale" ELSE "no"
      OBVIOUS
    <3>3. spoilt' = [spoilt EXCEPT ![n] = b]
      BY <3>1, <3>2
    <3>4. /\ request' \in [Wk -> {"none", "waiting", "stale"}] /\ settled' \in [Wk -> BOOLEAN]
          /\ spoilt' \in [Wk -> {"no", "clipped", "stale"}] /\ spoilt'[n] = b
          /\ \A m \in Wk : m # n => /\ request'[m] = request[m] /\ settled'[m] = settled[m]
                                    /\ spoilt'[m] = spoilt[m]
      BY <1>1, <1>4, <2>0, <3>1, <3>3 DEF NamesTypeOK
    <3>5. spoilt'[n] = "no" => \A p \in Peer : known'[n][p] = IF p = new THEN 1 ELSE 0
      <4> SUFFICES ASSUME spoilt'[n] = "no", NEW p \in Peer PROVE known[n][p] = 0 /\ p # new
        BY <3>1
      <4>1. ~(\E q \in Peer : known[n][q] > 0)
        BY <3>2, <3>4
      <4>2. known[n][p] \in Nat
        BY <1>1, <1>4 DEF NamesTypeOK
      <4>3. QED
        BY <2>1, <4>1, <4>2, NamesAssumption
    <3>6. QED
      BY <1>1, <3>1, <3>4, <3>5 DEF NamesTypeOK
  <2>2. CASE new # NoOwner
    <3>1. /\ request' = [request EXCEPT ![n] = "none"]
          /\ UpdateName(n, new, TRUE)
      BY <1>2, <2>2 DEF DispatchReply
    <3>2. request' \in [Wk -> {"none", "waiting", "stale"}] /\ settled' \in [Wk -> BOOLEAN]
          /\ \A m \in Wk : m # n => request'[m] = request[m] /\ settled'[m] = settled[m]
      BY <1>1, <1>4, <2>0, <3>1 DEF NamesTypeOK
    <3>3. /\ known' \in [Wk -> [Peer -> Nat]] /\ spoilt' \in [Wk -> {"no", "clipped", "stale"}]
          /\ \A m \in Wk : m # n /\ spoilt'[m] = "no" => spoilt[m] = "no" /\ known'[m] = known[m]
          /\ \A p \in Peer : known'[n][p] = (IF TRUE THEN 0 ELSE known[n][p]) + (IF p = new THEN 1 ELSE 0)
      BY <1>1, <1>4, <3>1, UpdateEffect
    <3>4. QED
      BY <3>2, <3>3
  <2>3. QED
    BY <2>1, <2>2
<1>6. NamesTypeOK'
  BY <1>1, <1>3, <1>5, TakeTypes DEF NamesTypeOK
<1>7. OutOK'
  BY <1>1, <1>3 DEF OutOK
<1>8. ASSUME NEW m \in Wk PROVE AskedOnce(m)' /\ NameOK(m)'
  <2>1. AskedOnce(m) /\ NameOK(m)
    BY DEF NamesInv
  <2>2. IsReply(inq[1], m) <=> m = n
    BY <1>2, <1>3 DEF IsReply
  <2>3. AskedOnce(m)'
    BY <1>1, <1>3, <1>5, <2>1, <2>2, AskedTake
  <2>4. CASE m = n
    <3>1. watched[n] > 0 /\ ~lost[n] => Told(n) /\ Chain(inq, owner, n, 1)
      BY <1>4, <2>1, <2>2, <2>4 DEF NameOK
    <3>2. NameOK(m)'
      BY <1>1, <1>2, <1>3, <1>5, <2>1, <2>4, <3>1, NameLearned
    <3>3. QED
      BY <2>3, <3>2
  <2>5. CASE m # n
    <3>1. ~IsChange(inq[1], m)
      BY <1>3 DEF IsChange
    <3>2. NameOK(m)'
      BY <1>1, <1>3, <1>5, <2>1, <2>5, <3>1, NameTake
    <3>3. QED
      BY <2>3, <3>2
  <2>6. QED
    BY <2>4, <2>5
<1>9. QED
  BY <1>6, <1>7, <1>8 DEF NamesInv

\* Before the first object is made.
LEMMA InitNames == NamesInit => NamesInv
<1> SUFFICES ASSUME NamesInit PROVE NamesInv
  OBVIOUS
<1>1. /\ owner \in Owners /\ matches = [n \in Wk |-> 0] /\ outq = <<>> /\ inq = <<>>
      /\ watched = [n \in Wk |-> 0] /\ request = [n \in Wk |-> "none"]
      /\ known = [n \in Wk |-> [p \in Peer |-> 0]]
      /\ settled = [n \in Wk |-> FALSE] /\ lost = [n \in Wk |-> FALSE] /\ spoilt = [n \in Wk |-> "no"]
  BY DEF NamesInit, Owners
<1>2. outq \in Seq(RequestSet) /\ inq \in Seq(MessageSet) /\ Len(outq) = 0 /\ Len(inq) = 0
  BY <1>1
<1>3. settled \in [Wk -> BOOLEAN] /\ lost \in [Wk -> BOOLEAN] /\ spoilt \in [Wk -> {"no", "clipped", "stale"}]
  BY <1>1, Zenon
<1>4. NamesTypeOK
  BY <1>1, <1>2, <1>3 DEF NamesTypeOK
<1>5. OutOK
  <2>1. \A n \in Wk : matches[n] = 0 /\ watched[n] = 0
    BY <1>1
  <2>2. 1 > Len(outq) /\ \A i \in 1..Len(outq) : FALSE
    BY <1>2
  <2>3. QED
    BY ONLY <2>1, <2>2 DEF OutOK, OutFits, Prior
<1>6. \A n \in Wk : AskedOnce(n) /\ NameOK(n)
  <2>1. \A n \in Wk : watched[n] = 0
    BY <1>1
  <2>2. (\A i \in 1..Len(outq) : FALSE) /\ (\A i \in 1..Len(inq) : FALSE)
    BY <1>2
  <2>4. \A n \in Wk : ~(watched[n] > 0)
    <3> TAKE n \in Wk
    <3>1. PICK w \in Nat : w = watched[n] /\ w = 0
      BY <2>1
    <3>2. ~(w > 0)
      BY ONLY <3>1
    <3>3. QED
      BY ONLY <3>1, <3>2
  <2>3. QED
    BY ONLY <2>2, <2>4 DEF AskedOnce, NameOK
<1>7. QED
  BY <1>4, <1>5, <1>6 DEF NamesInv

\* Every step keeps the invariant.
LEMMA NextNames == NamesInv /\ [NamesNext]_nameVars => NamesInv'
<1> SUFFICES ASSUME NamesInv, [NamesNext]_nameVars PROVE NamesInv'
  OBVIOUS
<1>1. ASSUME NEW n \in Wk, WatchName(n) PROVE NamesInv'
  BY <1>1, WatchNameStep
<1>2. ASSUME NEW n \in Wk, UnwatchName(n) PROVE NamesInv'
  BY <1>2, UnwatchNameStep
<1>3. ASSUME NEW n \in Wk, NEW p \in {NoOwner} \cup Peer, ChangeOwner(n, p) PROVE NamesInv'
  BY <1>3, ChangeOwnerStep
<1>4. ASSUME NEW p \in Peer, SendSignal(p) PROVE NamesInv'
  BY <1>4, SendSignalStep
<1>5. CASE UNCHANGED nameVars
  <2>1. UNCHANGED <<owner, matches, outq, inq, watched, request, known, settled, lost, spoilt>>
    BY <1>5 DEF nameVars
  <2>2. NamesTypeOK'
    BY <2>1 DEF NamesInv, NamesTypeOK
  <2>3. OutOK'
    BY <2>1 DEF NamesInv, OutOK
  <2>4. ASSUME NEW n \in Wk PROVE AskedOnce(n)' /\ NameOK(n)'
    <3>1. AskedOnce(n) /\ NameOK(n)
      BY DEF NamesInv
    <3>2. AskedOnce(n)'
      BY <2>1, <3>1 DEF AskedOnce
    <3>3. NameOK(n)'
      BY <2>1, <3>1 DEF NameOK, Told
    <3>4. QED
      BY <3>2, <3>3
  <2>5. QED
    BY <2>2, <2>3, <2>4 DEF NamesInv
<1>6. QED
  BY <1>1, <1>2, <1>3, <1>4, <1>5, BusRequestStep, DispatchReplyStep, DispatchChangedStep,
     DispatchSignalStep DEF NamesNext

\* The entry of a name that can be relied on.
LEMMA ReliableEntry ==
    ASSUME NamesInv, NEW n \in Wk, Reliable(n)
    PROVE  /\ From(inq, owner, n, Before(inq, owner, 1, n), 0)
           /\ \A p \in Peer : known[n][p] = IF p = Before(inq, owner, 1, n) THEN 1 ELSE 0
BY DEF NamesInv, NameOK, Reliable

\* The invariant says what the run checks.
LEMMA NamesInvFaithful == NamesInv => NamesFaithful
<1> SUFFICES ASSUME NamesInv PROVE NamesCurrent /\ MatchesExact
  BY DEF NamesFaithful
<1>1. NamesCurrent
  <2> SUFFICES ASSUME NEW n \in Wk, Reliable(n), Quiet(n)
               PROVE  \A p \in Peer : known[n][p] = IF owner[n] = p THEN 1 ELSE 0
    BY DEF NamesCurrent
  <2>1. /\ From(inq, owner, n, Before(inq, owner, 1, n), 0)
        /\ \A p \in Peer : known[n][p] = IF p = Before(inq, owner, 1, n) THEN 1 ELSE 0
    BY ReliableEntry
  <2>2. Len(inq) \in Nat
    BY DEF NamesInv, NamesTypeOK
  <2>3. PICK j \in (0 + 1)..(Len(inq) + 1) : j = Len(inq) + 1
    BY <2>2
  <2>4. \A l \in (0 + 1)..(j - 1) : ~IsChange(inq[l], n)
    BY <2>2, <2>3 DEF Quiet, IsChange
  <2>5. Before(inq, owner, j, n) = Before(inq, owner, 1, n)
    BY <2>1, <2>4 DEF From
  <2>6. Before(inq, owner, j, n) = owner[n]
    BY <2>2, <2>3 DEF Before
  <2>7. QED
    BY <2>1, <2>5, <2>6
<1>2. MatchesExact
  <2> SUFFICES ASSUME outq = <<>> PROVE matches = watched
    BY DEF MatchesExact
  <2>1. 1 > Len(outq)
    OBVIOUS
  <2>2. \A n \in Wk : matches[n] = watched[n]
    <3>1. OutOK
      BY DEF NamesInv
    <3>2. QED
      BY ONLY <2>1, <3>1 DEF OutOK, OutFits, Prior
  <2>3. matches \in [Wk -> Int] /\ watched \in [Wk -> Nat]
    BY DEF NamesInv, NamesTypeOK
  <2>4. QED
    BY <2>2, <2>3
<1>3. QED
  BY <1>1, <1>2

\* For any names, peers and lengths of the queues: with no change on its way the entry of a
\* watched and answered name is its owner, unless one of the three ways to lose an update
\* has hit it (lost, clipped, stale), although the reply to the question of di_dbus_watch_name races
\* with NameOwnerChanged (dbus.c:80, 116), and the bus has one match rule for each object.
THEOREM NamesAlwaysFaithful == NamesSpec => []NamesFaithful
<1>1. NamesInit => NamesInv
  BY InitNames
<1>2. NamesInv /\ [NamesNext]_nameVars => NamesInv'
  BY NextNames
<1>3. NamesInv => NamesFaithful
  BY NamesInvFaithful
<1>4. QED
  BY <1>1, <1>2, <1>3, PTL DEF NamesSpec

\* What the dispatching of a signal does with the entries.
LEMMA SignalStep == NamesInv /\ [NamesNext]_nameVars => [DispatchSignal => SignalsAttributed]_nameVars
<1> SUFFICES ASSUME NamesInv, DispatchSignal, NEW n \in Wk, Reliable(n)
             PROVE  last'.times[n] = IF n \in last'.owned THEN 1 ELSE 0
  BY DEF SignalsAttributed
<1>1. /\ inq # <<>> /\ inq[1].type = "signal"
      /\ last' = [owned |-> {k \in Wk : inq[1].own[k] = inq[1].old}, times |-> [k \in Wk |-> known[k][inq[1].old]]]
  BY DEF DispatchSignal, DispatchSignalAs
<1>2. Len(inq) \in Nat \ {0} /\ 1 \in 1..Len(inq) /\ inq[1].old \in Peer
  <2>1. inq \in Seq(MessageSet)
    BY DEF NamesInv, NamesTypeOK
  <2>2. Len(inq) \in Nat \ {0} /\ 1 \in 1..Len(inq)
    BY <1>1, <2>1, TailAt
  <2>3. QED
    BY <1>1, <2>2 DEF NamesInv, NamesTypeOK
<1>3. \A p \in Peer : known[n][p] = IF p = Before(inq, owner, 1, n) THEN 1 ELSE 0
  BY ReliableEntry
<1>4. Before(inq, owner, 1, n) = inq[1].own[n]
  BY <1>1, <1>2 DEF Before, IsChange
<1>5. last'.times[n] = known[n][inq[1].old] /\ (n \in last'.owned <=> inq[1].own[n] = inq[1].old)
  BY <1>1
<1>6. QED
  BY <1>2, <1>3, <1>4, <1>5

\* A signal is emitted for the reliable names (not lost, clipped or stale) that its sender
\* owned when it sent it, once for each, and for no other reliable name (dbus_filter), for
\* any names, peers and delays.
THEOREM SignalsAlwaysAttributed == NamesSpec => SignalAttribution
<1>1. NamesInit => NamesInv
  BY InitNames
<1>2. NamesInv /\ [NamesNext]_nameVars => NamesInv'
  BY NextNames
<1>3. NamesInv /\ [NamesNext]_nameVars => [DispatchSignal => SignalsAttributed]_nameVars
  BY SignalStep
<1>4. QED
  BY <1>1, <1>2, <1>3, PTL DEF NamesSpec, SignalAttribution

=============================================================================
