--------------------------- MODULE DiSignalProofs ---------------------------
(***************************************************************************)
(* Proofs about the signals of an object, for any names, signals and       *)
(* handles and any depth of nested calls, when user code neither stops the *)
(* only listener of a signal whose __new_signal is running nor keeps an    *)
(* object that is being destroyed.                                         *)
(***************************************************************************)
EXTENDS DiSignal, FiniteSetTheorems, TLAPS

-----------------------------------------------------------------------------
(* The inductive invariant *)

StopPc == {"unlinked", "detach", "del_signal", "free", "entry", "members"}
FrameSet == [op : {"listen", "emit", "stop", "destroy"}, pc : UserPc \cup StopPc \cup {"next"},
             signal : Sig \cup {Null}, h : Handle \cup {Null}, pin : BOOLEAN,
             allHandle : Seq(Handle), i : Nat, calls : Seq(Handle), stopped : SUBSET Handle]
SigSet == [mem : {"unused", "live", "freed"}, name : Name \cup {Null}, listeners : Seq(Handle),
           nlisteners : Nat]
HandleSet == [st : {"unused", "live", "dying", "dead", "freed"}, signal : Sig \cup {Null}, weak : Nat]

DataOK(tb, sg, hd, ow) ==
    /\ tb \in [Name -> Sig \cup {Null}] /\ sg \in [Sig -> SigSet] /\ hd \in [Handle -> HandleSet]
    /\ ow \in [held : BOOLEAN, destroyed : BOOLEAN]

\* A frame is where its operation can be; an emission has visited a part of its
\* snapshot, which names every handle once.
FrameOK(f) ==
    /\ f.op = "listen" => f.pc = "new_signal" /\ f.signal \in Sig
    /\ f.op = "emit" => f.pc \in {"next", "handler"} /\ f.i \in 1..(Len(f.allHandle) + 1)
                        /\ (f.pc = "handler" => f.i <= Len(f.allHandle))
                        /\ \A j, k \in DOMAIN f.allHandle : f.allHandle[j] = f.allHandle[k] => j = k
    /\ f.op = "stop" => f.pc \in StopPc /\ f.signal \in Sig /\ f.h \in Handle
    /\ f.op = "destroy" => f.pc = "dtor"
    /\ f.pin <=> f.op = "destroy" \/ f.pc = "detach" \/ (f.pin /\ f.pc \in {"del_signal", "free"})

\* Only the innermost call does anything but wait for user code, or for the object to be
\* destroyed before the entry goes.
CallsOK(st) ==
    /\ st \in Seq(FrameSet) /\ Len(st) <= MaxDepth + 1
    /\ \A d \in DOMAIN st : FrameOK(st[d])
    /\ \A d \in DOMAIN st : d # Len(st) => st[d].pc \in UserPc \cup {"entry"}
    /\ \A d \in DOMAIN st : d > MaxDepth => st[d].op = "destroy"

\* A listener is in the list of its signal exactly while it is live.
ListsOK(sg, hd) ==
    /\ \A g \in Sig : /\ sg[g].nlisteners = Len(sg[g].listeners)
                      /\ \A j, k \in DOMAIN sg[g].listeners :
                             sg[g].listeners[j] = sg[g].listeners[k] => j = k
                      /\ \A j \in DOMAIN sg[g].listeners :
                             /\ hd[sg[g].listeners[j]].st = "live"
                             /\ hd[sg[g].listeners[j]].signal = g
                      /\ sg[g].listeners # <<>> => sg[g].mem = "live"
                      /\ sg[g].mem = "live" => sg[g].name \in Name
    /\ \A h \in Handle : hd[h].st = "live" =>
           /\ hd[h].signal \in Sig
           /\ \E j \in DOMAIN sg[hd[h].signal].listeners : sg[hd[h].signal].listeners[j] = h

\* A call that keeps a signal allocated without a listener of its own.
Claims(f, g) ==
    f.signal = g /\ (f.op = "listen" \/ (f.op = "stop" /\ f.pc \in {"unlinked", "detach", "del_signal", "free"}))

\* A claimed signal is allocated, one without listeners by one call only, and one that
\* is being detached or freed has no listeners.
ClaimsOK(sg, st) ==
    /\ \A g \in Sig, d \in DOMAIN st : Claims(st[d], g) => sg[g].mem = "live"
    /\ \A g \in Sig : sg[g].mem = "live" /\ sg[g].listeners = <<>> => \E d \in DOMAIN st : Claims(st[d], g)
    /\ \A g \in Sig, d, e \in DOMAIN st :
           Claims(st[d], g) /\ Claims(st[e], g) /\ sg[g].listeners = <<>> => d = e
    /\ \A d \in DOMAIN st : st[d].op = "stop" /\ st[d].pc \in {"detach", "del_signal", "free"}
                            => sg[st[d].signal].listeners = <<>>

Destroying(st) == \E d \in DOMAIN st : st[d].op = "destroy"
Gone(ow, st) == ow.destroyed /\ ~Destroying(st)

\* The object is destroyed once, when nothing refers to it; what refers to it later is
\* above its destruction.
OwnerOK(ow, st) ==
    /\ ~ow.destroyed => ~Destroying(st) /\ (ow.held \/ Pinned(st))
    /\ ow.destroyed => ~ow.held
    /\ ow.destroyed => \A d \in DOMAIN st : st[d].pin => \E e \in DOMAIN st : e <= d /\ st[e].op = "destroy"
    /\ \A d, e \in DOMAIN st : st[d].op = "destroy" /\ st[e].op = "destroy" => d = e

Detached(st, g) ==
    \E d \in DOMAIN st : st[d].op = "stop" /\ st[d].signal = g /\ st[d].pc \in {"del_signal", "free"}

\* The table has every allocated signal that was not detached, and no other.
TableOK(tb, sg, ow, st) ==
    /\ \A n \in Name : tb[n] # Null => /\ sg[tb[n]].mem = "live" /\ sg[tb[n]].name = n
                                       /\ ~Detached(st, tb[n])
    /\ Gone(ow, st) => \A n \in Name : tb[n] = Null
    /\ \A g \in Sig : sg[g].mem = "live" /\ ~Gone(ow, st) /\ ~Detached(st, g) => tb[sg[g].name] = g

\* A handle is being destroyed exactly by one call.
StopsOK(hd, st) ==
    /\ \A d \in DOMAIN st : st[d].op = "stop" => hd[st[d].h].st = "dying"
    /\ \A d, e \in DOMAIN st : st[d].op = "stop" /\ st[e].op = "stop" /\ st[d].h = st[e].h => d = e
    /\ \A h \in Handle : hd[h].st = "dying" => \E d \in DOMAIN st : st[d].op = "stop" /\ st[d].h = h

\* What an emission found and has not called is live, or noted as stopped; a handle
\* whose destruction is under way was found only by emissions below it.
SnapshotsOK(hd, st) ==
    /\ \A d \in DOMAIN st : st[d].op = "emit" =>
           \A j \in DOMAIN st[d].allHandle :
               /\ hd[st[d].allHandle[j]].st # "unused"
               /\ st[d].allHandle[j] \in st[d].stopped =>
                      hd[st[d].allHandle[j]].st # "live" /\ ~Contains(st[d].calls, st[d].allHandle[j])
               /\ ~Contains(st[d].calls, st[d].allHandle[j]) /\ hd[st[d].allHandle[j]].st # "live"
                      => st[d].allHandle[j] \in st[d].stopped
    /\ \A d, e \in DOMAIN st : st[d].op = "stop" /\ st[e].op = "emit" =>
           \A j \in DOMAIN st[e].allHandle : st[e].allHandle[j] = st[d].h => e < d

Reached(f) == IF f.pc = "handler" THEN f.i ELSE f.i - 1

\* The calls of an emission so far.
OrderOK(f) ==
    f.op = "emit" =>
        /\ \A j \in 1..Reached(f) : Contains(f.calls, f.allHandle[j]) <=> f.allHandle[j] \notin f.stopped
        /\ \A a \in DOMAIN f.calls : \E j \in 1..Reached(f) : f.calls[a] = f.allHandle[j]
        /\ \A a, b \in DOMAIN f.calls : a < b =>
               \E j, k \in DOMAIN f.allHandle :
                   j < k /\ f.calls[a] = f.allHandle[j] /\ f.calls[b] = f.allHandle[k]

\* The emissions that have a weak reference to h to give back.
Waiting(st, h) ==
    {d \in DOMAIN st : st[d].op = "emit" /\ \E j \in st[d].i..Len(st[d].allHandle) : st[d].allHandle[j] = h}

\* The listener entry has a weak reference too.
Entry(hd, st, h) ==
    \/ hd[h].st = "live"
    \/ \E d \in DOMAIN st : st[d].op = "stop" /\ st[d].h = h /\ st[d].pc # "members"

WeakOK(hd, st) ==
    \A h \in Handle :
        /\ hd[h].weak >= Cardinality(Waiting(st, h)) + (IF Entry(hd, st, h) THEN 1 ELSE 0)
        /\ hd[h].st = "freed" => hd[h].weak = 0

SignalInv ==
    /\ DataOK(signals, sig, handle, owner) /\ CallsOK(stack)
    /\ ListsOK(sig, handle) /\ ClaimsOK(sig, stack) /\ OwnerOK(owner, stack)
    /\ TableOK(signals, sig, owner, stack) /\ StopsOK(handle, stack)
    /\ SnapshotsOK(handle, stack) /\ (\A d \in DOMAIN stack : OrderOK(stack[d]))
    /\ WeakOK(handle, stack)

-----------------------------------------------------------------------------
(* Sequences, frames and counting *)

\* No signals, no handles, no calls.
LEMMA InitInv == Init => SignalInv
<1> SUFFICES ASSUME Init PROVE SignalInv
  OBVIOUS
<1> USE ConstantsAssumption DEF Init
<1>1. DataOK(signals, sig, handle, owner)
  BY DEF DataOK, EmptySig, NoHandle, SigSet, HandleSet
<1>2. CallsOK(stack) /\ \A d \in DOMAIN stack : OrderOK(stack[d])
  BY DEF CallsOK
<1>3. ListsOK(sig, handle)
  BY DEF ListsOK, EmptySig, NoHandle
<1>4. ClaimsOK(sig, stack)
  BY DEF ClaimsOK, EmptySig
<1>5. OwnerOK(owner, stack)
  BY DEF OwnerOK, Destroying
<1>6. TableOK(signals, sig, owner, stack)
  BY DEF TableOK, EmptySig, Gone
<1>7. StopsOK(handle, stack) /\ SnapshotsOK(handle, stack)
  BY DEF StopsOK, SnapshotsOK, NoHandle
<1>8. WeakOK(handle, stack)
  <2>1. \A h \in Handle : Waiting(stack, h) = {} /\ ~Entry(handle, stack, h)
    BY DEF Waiting, Entry, NoHandle
  <2>2. Cardinality({}) = 0
    BY FS_EmptySet
  <2>3. \A h \in Handle : handle[h].weak = 0
    BY DEF NoHandle
  <2>4. \A h \in Handle : Cardinality(Waiting(stack, h)) = 0
    BY <2>1, <2>2
  <2> HIDE DEF Init
  <2> QED BY <2>1, <2>3, <2>4 DEF WeakOK
<1> QED BY <1>1, <1>2, <1>3, <1>4, <1>5, <1>6, <1>7, <1>8 DEF SignalInv

\* The stack after a call was begun, after it returned, and after it went on.
LEMMA PushFacts ==
    ASSUME NEW st \in Seq(FrameSet), NEW f \in FrameSet, NEW t, t = Append(st, f)
    PROVE  /\ t \in Seq(FrameSet) /\ Len(st) \in Nat /\ Len(t) = Len(st) + 1
           /\ DOMAIN st = 1..Len(st) /\ DOMAIN t = 1..(Len(st) + 1)
           /\ \A d \in DOMAIN st : t[d] = st[d]
           /\ t[Len(st) + 1] = f
  OBVIOUS

\* The stack without its innermost call.
LEMMA PopFacts ==
    ASSUME NEW st \in Seq(FrameSet), st # <<>>, NEW t, t = Front(st)
    PROVE  /\ t \in Seq(FrameSet) /\ Len(st) \in Nat \ {0} /\ Len(t) = Len(st) - 1
           /\ DOMAIN st = 1..Len(st) /\ DOMAIN t = 1..(Len(st) - 1)
           /\ \A d \in DOMAIN t : t[d] = st[d]
<1>1. Len(st) \in Nat \ {0} /\ DOMAIN st = 1..Len(st)
  OBVIOUS
<1>2. t = SubSeq(st, 1, Len(st) - 1)
  BY DEF Front
<1>3. t \in Seq(FrameSet) /\ Len(t) = Len(st) - 1
  BY <1>1, <1>2
<1>4. \A d \in 1..(Len(st) - 1) : t[d] = st[d]
  BY <1>1, <1>2
<1> QED BY <1>1, <1>3, <1>4

\* The stack with another frame for its innermost call.
LEMMA TopFacts ==
    ASSUME NEW st \in Seq(FrameSet), st # <<>>, NEW f \in FrameSet, NEW t,
           t = [st EXCEPT ![Len(st)] = f]
    PROVE  /\ t \in Seq(FrameSet) /\ Len(st) \in Nat \ {0} /\ Len(t) = Len(st)
           /\ DOMAIN st = 1..Len(st) /\ DOMAIN t = DOMAIN st
           /\ \A d \in DOMAIN st : t[d] = IF d = Len(st) THEN f ELSE st[d]
  OBVIOUS

\* Emissions are counted.
LEMMA WaitingCount ==
    ASSUME NEW st \in Seq(FrameSet), NEW h
    PROVE  IsFiniteSet(Waiting(st, h)) /\ Cardinality(Waiting(st, h)) \in Nat
<1>1. IsFiniteSet(1..Len(st))
  BY FS_Interval
<1>2. Waiting(st, h) \subseteq 1..Len(st)
  BY DEF Waiting
<1>3. IsFiniteSet(Waiting(st, h))
  BY <1>1, <1>2, FS_Subset
<1> QED BY <1>3, FS_CardinalityType

\* The calls other than emissions are the same in two stacks.
SameCalls(st, t) ==
    /\ \A d \in DOMAIN st : /\ st[d].op = "emit" => ~st[d].pin
                            /\ st[d].op # "emit" => d \in DOMAIN t /\ t[d] = st[d]
    /\ \A d \in DOMAIN t : /\ t[d].op = "emit" => ~t[d].pin
                           /\ t[d].op # "emit" => d \in DOMAIN st /\ t[d] = st[d]

\* Nothing but snapshots and counts depends on emissions.
LEMMA EmissionQuiet ==
    ASSUME NEW st \in Seq(FrameSet), NEW t \in Seq(FrameSet), SameCalls(st, t), NEW ow, NEW sg, NEW tb
    PROVE  /\ ClaimsOK(sg, st) => ClaimsOK(sg, t)
           /\ OwnerOK(ow, st) => OwnerOK(ow, t)
           /\ TableOK(tb, sg, ow, st) => TableOK(tb, sg, ow, t)
<1> USE DEF SameCalls
<1>1. ClaimsOK(sg, st) => ClaimsOK(sg, t)
  <2>1. \A g : \A d \in DOMAIN st : Claims(st[d], g) => d \in DOMAIN t /\ Claims(t[d], g)
    BY DEF Claims
  <2>2. \A g : \A d \in DOMAIN t : Claims(t[d], g) => d \in DOMAIN st /\ Claims(st[d], g)
    BY DEF Claims
  <2>3. \A d \in DOMAIN t : t[d].op = "stop" => d \in DOMAIN st /\ t[d] = st[d]
    OBVIOUS
  <2> HIDE DEF SameCalls
  <2> QED BY <2>1, <2>2, <2>3 DEF ClaimsOK
<1>2. Destroying(t) <=> Destroying(st)
  BY DEF Destroying
<1>3. Pinned(t) <=> Pinned(st)
  BY DEF Pinned
<1>4. OwnerOK(ow, st) => OwnerOK(ow, t)
  <2> SUFFICES ASSUME OwnerOK(ow, st) PROVE OwnerOK(ow, t)
    OBVIOUS
  <2>1. ow.destroyed => \A d \in DOMAIN t : t[d].pin => \E e \in DOMAIN t : e <= d /\ t[e].op = "destroy"
    BY DEF OwnerOK
  <2>2. \A d, e \in DOMAIN t : t[d].op = "destroy" /\ t[e].op = "destroy" => d = e
    BY DEF OwnerOK
  <2> QED BY <1>2, <1>3, <2>1, <2>2 DEF OwnerOK
<1>5. \A g : Detached(t, g) <=> Detached(st, g)
  BY DEF Detached
<1>6. TableOK(tb, sg, ow, st) => TableOK(tb, sg, ow, t)
  BY <1>2, <1>5 DEF TableOK, Gone
<1> QED BY <1>1, <1>4, <1>6

\* Nor does the destruction of handles.
LEMMA EmissionStops ==
    ASSUME NEW st \in Seq(FrameSet), NEW t \in Seq(FrameSet), SameCalls(st, t), NEW hd, NEW hd2,
           \A h \in Handle : hd2[h].st = "dying" <=> hd[h].st = "dying",
           \A h \in Handle : hd2[h].st = "live" <=> hd[h].st = "live",
           \A d \in DOMAIN st : st[d].op = "stop" => st[d].h \in Handle
    PROVE  /\ StopsOK(hd, st) => StopsOK(hd2, t)
           /\ \A h \in Handle : Entry(hd2, t, h) <=> Entry(hd, st, h)
<1> USE DEF SameCalls
<1>1. ASSUME StopsOK(hd, st) PROVE StopsOK(hd2, t)
  <2>1. \A d \in DOMAIN t : t[d].op = "stop" => d \in DOMAIN st /\ t[d] = st[d]
    OBVIOUS
  <2>2. \A d \in DOMAIN st : st[d].op = "stop" => d \in DOMAIN t /\ t[d] = st[d]
    OBVIOUS
  <2> HIDE DEF SameCalls
  <2> QED BY <1>1, <2>1, <2>2 DEF StopsOK
<1>2. \A h \in Handle : Entry(hd2, t, h) <=> Entry(hd, st, h)
  BY DEF Entry
<1> QED BY <1>1, <1>2

\* The frame of an emission to the listeners l.
EmitsTo(f, l) ==
    /\ f \in FrameSet /\ f.op = "emit" /\ f.pc = "next" /\ f.pin = FALSE
    /\ f.allHandle = l /\ f.i = 1 /\ f.calls = <<>> /\ f.stopped = {}

\* The frame of a call of __new_signal for g.
ListensTo(f, g) ==
    f \in FrameSet /\ f.op = "listen" /\ f.pc = "new_signal" /\ f.signal = g /\ f.pin = FALSE

\* The frames of the calls that begin.
LEMMA EmitFrame ==
    ASSUME NEW l \in Seq(Handle), NEW f, f = CallFrame("emit", "next", Null, Null, FALSE, l)
    PROVE  EmitsTo(f, l)
<1> DEFINE e == <<>>
           z == {}
<1>1. /\ e \in Seq(Handle) /\ z \in SUBSET Handle
      /\ "next" \in UserPc \cup StopPc \cup {"next"}
  BY DEF UserPc, StopPc
<1>2. f = [op |-> "emit", pc |-> "next", signal |-> Null, h |-> Null, pin |-> FALSE,
           allHandle |-> l, i |-> 1, calls |-> e, stopped |-> z]
  BY DEF CallFrame
<1> HIDE DEF e, z
<1>3. f \in FrameSet
  BY ONLY <1>1, <1>2, l \in Seq(Handle) DEF FrameSet
<1>4. /\ f.op = "emit" /\ f.pc = "next" /\ f.signal = Null /\ f.h = Null /\ f.pin = FALSE
      /\ f.allHandle = l /\ f.i = 1 /\ f.calls = e /\ f.stopped = z
  BY ONLY <1>2
<1>5. EmitsTo(f, l)
  BY <1>3, <1>4 DEF EmitsTo, e, z
<1> QED BY ONLY <1>5

\* __new_signal is called.
LEMMA ListenFrame ==
    ASSUME NEW g \in Sig, NEW f, f = CallFrame("listen", "new_signal", g, Null, FALSE, <<>>)
    PROVE  ListensTo(f, g)
<1> DEFINE e == <<>>
           z == {}
<1>1. /\ e \in Seq(Handle) /\ z \in SUBSET Handle
      /\ "new_signal" \in UserPc \cup StopPc \cup {"next"}
  BY DEF UserPc, StopPc
<1>2. f = [op |-> "listen", pc |-> "new_signal", signal |-> g, h |-> Null, pin |-> FALSE,
           allHandle |-> e, i |-> 1, calls |-> e, stopped |-> z]
  BY DEF CallFrame
<1> HIDE DEF e, z
<1>3. f \in FrameSet
  BY ONLY <1>1, <1>2, g \in Sig DEF FrameSet
<1>4. /\ f.op = "listen" /\ f.pc = "new_signal" /\ f.signal = g /\ f.h = Null /\ f.pin = FALSE
      /\ f.allHandle = e /\ f.i = 1 /\ f.calls = e /\ f.stopped = z
  BY ONLY <1>2
<1> QED BY ONLY <1>3, <1>4 DEF ListensTo

\* The frame of the destruction of the handle h, a listener of g.
StopsFrom(f, g, h) ==
    f \in FrameSet /\ f.op = "stop" /\ f.pc = "unlinked" /\ f.signal = g /\ f.h = h /\ f.pin = FALSE

\* User code drops the handle.
LEMMA StopFrame ==
    ASSUME NEW g \in Sig, NEW h \in Handle, NEW f, f = CallFrame("stop", "unlinked", g, h, FALSE, <<>>)
    PROVE  StopsFrom(f, g, h)
<1> DEFINE e == <<>>
           z == {}
<1>1. /\ e \in Seq(Handle) /\ z \in SUBSET Handle
      /\ "unlinked" \in UserPc \cup StopPc \cup {"next"}
  BY DEF UserPc, StopPc
<1>2. f = [op |-> "stop", pc |-> "unlinked", signal |-> g, h |-> h, pin |-> FALSE,
           allHandle |-> e, i |-> 1, calls |-> e, stopped |-> z]
  BY DEF CallFrame
<1> HIDE DEF e, z
<1>3. f \in FrameSet
  BY ONLY <1>1, <1>2, g \in Sig, h \in Handle DEF FrameSet
<1>4. /\ f.op = "stop" /\ f.pc = "unlinked" /\ f.signal = g /\ f.h = h /\ f.pin = FALSE
      /\ f.allHandle = e /\ f.i = 1 /\ f.calls = e /\ f.stopped = z
  BY ONLY <1>2
<1> QED BY ONLY <1>3, <1>4 DEF StopsFrom

\* The object begins to be destroyed.
LEMMA DestroyFrameFacts ==
    ASSUME NEW f, f = DestroyFrame
    PROVE  /\ f \in FrameSet
           /\ f.op = "destroy" /\ f.pc = "dtor" /\ f.signal = Null /\ f.h = Null /\ f.pin = TRUE
           /\ f.allHandle = <<>> /\ f.i = 1 /\ f.calls = <<>> /\ f.stopped = {}
<1> DEFINE e == <<>>
           z == {}
<1>1. /\ e \in Seq(Handle) /\ z \in SUBSET Handle
      /\ "dtor" \in UserPc \cup StopPc \cup {"next"}
  BY DEF UserPc, StopPc
<1>2. f = [op |-> "destroy", pc |-> "dtor", signal |-> Null, h |-> Null, pin |-> TRUE,
           allHandle |-> e, i |-> 1, calls |-> e, stopped |-> z]
  BY DEF CallFrame, DestroyFrame
<1> HIDE DEF e, z
<1>3. f \in FrameSet
  BY ONLY <1>1, <1>2 DEF FrameSet
<1>4. /\ f.op = "destroy" /\ f.pc = "dtor" /\ f.signal = Null /\ f.h = Null /\ f.pin = TRUE
      /\ f.allHandle = e /\ f.i = 1 /\ f.calls = e /\ f.stopped = z
  BY ONLY <1>2
<1> QED BY <1>3, <1>4 DEF e, z

-----------------------------------------------------------------------------
(* Emissions *)

\* What remains to be shown of a step that changes emissions and weak counts only.
LEMMA EmissionStep ==
    ASSUME SignalInv, UNCHANGED <<signals, sig, owner>>,
           CallsOK(stack'), SameCalls(stack, stack'), handle' \in [Handle -> HandleSet],
           \A h \in Handle : handle'[h].signal = handle[h].signal,
           \A h \in Handle : handle'[h].st = handle[h].st
                             \/ (handle[h].st = "dead" /\ handle'[h].st = "freed"),
           SnapshotsOK(handle', stack'), \A d \in DOMAIN stack' : OrderOK(stack'[d]),
           WeakOK(handle', stack')
    PROVE  SignalInv'
<1>1. stack \in Seq(FrameSet) /\ stack' \in Seq(FrameSet)
  BY DEF SignalInv, CallsOK
<1>2. DataOK(signals', sig', handle', owner')
  BY DEF SignalInv, DataOK
<1>3. /\ \A h \in Handle : handle'[h].st = "dying" <=> handle[h].st = "dying"
      /\ \A h \in Handle : handle'[h].st = "live" <=> handle[h].st = "live"
  OBVIOUS
<1>4. ListsOK(sig', handle')
  <2>1. ListsOK(sig, handle) /\ \A g \in Sig : sig[g].listeners \in Seq(Handle)
    BY DEF SignalInv, DataOK, SigSet
  <2>2. ListsOK(sig, handle')
    BY <1>3, <2>1 DEF ListsOK
  <2> QED BY <2>2
<1>5. /\ ClaimsOK(sig', stack') /\ OwnerOK(owner', stack')
      /\ TableOK(signals', sig', owner', stack')
  <2>1. ClaimsOK(sig, stack) /\ OwnerOK(owner, stack) /\ TableOK(signals, sig, owner, stack)
    BY DEF SignalInv
  <2>2. ClaimsOK(sig, stack') /\ OwnerOK(owner, stack') /\ TableOK(signals, sig, owner, stack')
    BY <1>1, <2>1, EmissionQuiet
  <2> QED BY <2>2
<1>6. StopsOK(handle', stack')
  <2>1. StopsOK(handle, stack) /\ \A d \in DOMAIN stack : stack[d].op = "stop" => stack[d].h \in Handle
    BY DEF SignalInv, CallsOK, FrameOK
  <2> QED BY <1>1, <1>3, <2>1, EmissionStops
<1> QED BY <1>2, <1>4, <1>5, <1>6 DEF SignalInv

\* Fewer emissions have a reference to give back.
LEMMA WaitingLess ==
    ASSUME NEW st \in Seq(FrameSet), NEW t \in Seq(FrameSet), NEW h, Waiting(t, h) \subseteq Waiting(st, h)
    PROVE  /\ Cardinality(Waiting(t, h)) <= Cardinality(Waiting(st, h))
           /\ \A n \in Waiting(st, h) : n \notin Waiting(t, h) =>
                  Cardinality(Waiting(t, h)) + 1 <= Cardinality(Waiting(st, h))
<1> DEFINE A == Waiting(st, h)
           B == Waiting(t, h)
<1>1. IsFiniteSet(A) /\ Cardinality(A) \in Nat /\ Cardinality(B) \in Nat /\ B \subseteq A
  BY WaitingCount
<1> HIDE DEF A, B
<1>2. Cardinality(B) <= Cardinality(A)
  BY <1>1, FS_Subset
<1>3. ASSUME NEW n \in A, n \notin B PROVE Cardinality(B) + 1 <= Cardinality(A)
  <2>1. Cardinality(B) = Cardinality(A) => A = B
    BY <1>1, FS_Subset
  <2> QED BY <1>1, <1>2, <1>3, <2>1
<1> QED BY <1>2, <1>3 DEF A, B

\* The emission on top of the stack, and the handle it is at.
LEMMA EmitTop ==
    ASSUME SignalInv, stack # <<>>, Top.op = "emit"
    PROVE  /\ stack \in Seq(FrameSet) /\ Len(stack) \in Nat \ {0} /\ DOMAIN stack = 1..Len(stack)
           /\ Top = stack[Len(stack)] /\ Top \in FrameSet /\ FrameOK(Top) /\ OrderOK(Top)
           /\ Top.allHandle \in Seq(Handle) /\ Top.calls \in Seq(Handle) /\ Top.i \in Nat
           /\ ~Top.pin
           /\ Top.i <= Len(Top.allHandle) => Top.i \in DOMAIN Top.allHandle
                                             /\ Top.allHandle[Top.i] \in Handle
           /\ \A j \in DOMAIN Top.allHandle : Top.allHandle[j] \in Handle
<1>1. stack \in Seq(FrameSet) /\ Len(stack) \in Nat \ {0} /\ DOMAIN stack = 1..Len(stack)
  BY DEF SignalInv, CallsOK
<1>2. Top = stack[Len(stack)] /\ Top \in FrameSet /\ FrameOK(Top) /\ OrderOK(Top)
  BY <1>1 DEF Top, SignalInv, CallsOK
<1>3. /\ Top.allHandle \in Seq(Handle) /\ Top.calls \in Seq(Handle) /\ Top.i \in Nat
  BY <1>2 DEF FrameSet
<1>4. ~Top.pin /\ Top.i \in 1..(Len(Top.allHandle) + 1)
  BY <1>2 DEF FrameOK
<1>5. \A j \in DOMAIN Top.allHandle : Top.allHandle[j] \in Handle
  BY <1>3
<1>6. Top.i <= Len(Top.allHandle) => Top.i \in DOMAIN Top.allHandle
  BY <1>3, <1>4
<1> QED BY <1>1, <1>2, <1>3, <1>4, <1>5, <1>6

\* A step of the emission on top that keeps its snapshot.
LEMMA EmitTopStep ==
    ASSUME SignalInv, stack # <<>>, Top.op = "emit", NEW f \in FrameSet,
           stack' = [stack EXCEPT ![Len(stack)] = f],
           f.op = "emit", ~f.pin, f.allHandle = Top.allHandle, FrameOK(f)
    PROVE  /\ CallsOK(stack') /\ SameCalls(stack, stack')
           /\ Len(stack) \in Nat \ {0} /\ DOMAIN stack = 1..Len(stack) /\ DOMAIN stack' = DOMAIN stack
           /\ \A d \in DOMAIN stack : stack'[d] = IF d = Len(stack) THEN f ELSE stack[d]
<1>1. /\ stack \in Seq(FrameSet) /\ Top = stack[Len(stack)] /\ ~Top.pin /\ CallsOK(stack)
  BY EmitTop DEF SignalInv
<1>2. /\ stack' \in Seq(FrameSet) /\ Len(stack) \in Nat \ {0} /\ Len(stack') = Len(stack)
      /\ DOMAIN stack = 1..Len(stack) /\ DOMAIN stack' = DOMAIN stack
      /\ \A d \in DOMAIN stack : stack'[d] = IF d = Len(stack) THEN f ELSE stack[d]
  BY <1>1, TopFacts
<1>3. CallsOK(stack')
  BY <1>1, <1>2 DEF CallsOK
<1>4. \A d \in DOMAIN stack : stack[d].op = "emit" => ~stack[d].pin
  BY <1>1 DEF CallsOK, FrameOK
<1>5. SameCalls(stack, stack')
  BY <1>1, <1>2, <1>4 DEF SameCalls
<1> QED BY <1>2, <1>3, <1>5

\* A handle that the emission on top is about to visit is not being destroyed, and is
\* live unless it was noted as stopped.
LEMMA NextHandle ==
    ASSUME SignalInv, stack # <<>>, Top.op = "emit", Top.pc = "next", Top.i <= Len(Top.allHandle)
    PROVE  /\ handle[Top.allHandle[Top.i]].st # "dying"
           /\ handle[Top.allHandle[Top.i]].st = "live" <=> Top.allHandle[Top.i] \notin Top.stopped
           /\ ~Contains(Top.calls, Top.allHandle[Top.i])
<1> DEFINE n == Len(stack)
           x == Top.allHandle[Top.i]
<1>1. /\ n \in DOMAIN stack /\ Top = stack[n] /\ Top.i \in DOMAIN Top.allHandle /\ x \in Handle
      /\ DOMAIN stack = 1..n /\ n \in Nat \ {0} /\ FrameOK(Top) /\ OrderOK(Top) /\ Top.i \in Nat
      /\ Top.calls \in Seq(Handle) /\ Top.allHandle \in Seq(Handle)
  BY EmitTop
<1> HIDE DEF n, x
<1>2. handle[x].st # "dying"
  BY <1>1 DEF SignalInv, StopsOK, SnapshotsOK, x
<1>3. ~Contains(Top.calls, x)
  <2> SUFFICES ASSUME NEW a \in 1..Len(Top.calls), Top.calls[a] = x PROVE FALSE
    BY DEF Contains
  <2>0. /\ Reached(Top) = Top.i - 1 /\ a \in DOMAIN Top.calls
        /\ \A b \in DOMAIN Top.calls : \E j \in 1..Reached(Top) : Top.calls[b] = Top.allHandle[j]
    BY ONLY <1>1, Top.op = "emit", Top.pc = "next", a \in 1..Len(Top.calls) DEF OrderOK, Reached
  <2>1. PICK j \in 1..(Top.i - 1) : Top.calls[a] = Top.allHandle[j]
    BY ONLY <2>0
  <2>2. j \in DOMAIN Top.allHandle /\ j # Top.i
    BY <1>1
  <2> QED BY <1>1, <2>1, <2>2 DEF FrameOK, x
<1>4. handle[x].st = "live" <=> x \notin Top.stopped
  <2>1. /\ x \in Top.stopped => handle[x].st # "live"
        /\ ~Contains(Top.calls, x) /\ handle[x].st # "live" => x \in Top.stopped
    BY <1>1 DEF SignalInv, SnapshotsOK, x
  <2> QED BY <1>3, <2>1
<1> QED BY <1>2, <1>3, <1>4 DEF x

\* A handler is called: that of a listener which was not stopped.
LEMMA EmitCallInv == ASSUME SignalInv, EmitCall PROVE SignalInv'
<1> DEFINE n == Len(stack)
           x == Top.allHandle[Top.i]
           c == Append(Top.calls, x)
           f == [Top EXCEPT !.pc = "handler", !.calls = c]
<1>1. /\ stack # <<>> /\ Top.op = "emit" /\ Top.pc = "next" /\ Top.i <= Len(Top.allHandle)
      /\ handle[x].st \in {"live", "dying"} /\ UNCHANGED <<signals, sig, handle, owner>>
  BY DEF EmitCall, InFrame
<1>2. stack' = [stack EXCEPT ![n] = f]
  BY DEF EmitCall, InFrame, Top
<1>3. /\ Top \in FrameSet /\ FrameOK(Top) /\ OrderOK(Top) /\ Top.i \in DOMAIN Top.allHandle /\ x \in Handle
      /\ Top.calls \in Seq(Handle) /\ Top.allHandle \in Seq(Handle) /\ Top.i \in Nat /\ ~Top.pin
      /\ Top = stack[n] /\ stack \in Seq(FrameSet)
  BY <1>1, EmitTop
<1>4. /\ handle[x].st = "live" /\ x \notin Top.stopped /\ ~Contains(Top.calls, x)
  BY <1>1, NextHandle
<1> HIDE DEF x
<1>5. /\ c \in Seq(Handle) /\ Len(c) = Len(Top.calls) + 1 /\ Len(Top.calls) \in Nat
      /\ DOMAIN c = 1..(Len(Top.calls) + 1) /\ DOMAIN Top.calls = 1..Len(Top.calls)
      /\ \A a \in DOMAIN Top.calls : c[a] = Top.calls[a]
      /\ c[Len(Top.calls) + 1] = x
  <2>1. c = Append(Top.calls, x) /\ Top.calls \in Seq(Handle) /\ x \in Handle
    BY <1>3
  <2> HIDE DEF c
  <2> QED BY ONLY <2>1
<1> HIDE DEF c
<1>6. /\ f \in FrameSet /\ f.op = "emit" /\ f.pc = "handler" /\ f.calls = c /\ f.i = Top.i
      /\ f.allHandle = Top.allHandle /\ f.stopped = Top.stopped /\ f.pin = Top.pin
      /\ f.signal = Top.signal /\ f.h = Top.h
  BY <1>1, <1>3, <1>5 DEF FrameSet, UserPc
<1> HIDE DEF f
<1>7. FrameOK(f) /\ ~f.pin
  <2>1. ~f.pin
    BY <1>3, <1>6
  <2> QED BY <1>1, <1>3, <1>6, <2>1 DEF FrameOK
<1>8. /\ CallsOK(stack') /\ SameCalls(stack, stack')
      /\ n \in Nat \ {0} /\ DOMAIN stack = 1..n /\ DOMAIN stack' = DOMAIN stack
      /\ \A d \in DOMAIN stack : stack'[d] = IF d = n THEN f ELSE stack[d]
  BY <1>1, <1>2, <1>6, <1>7, EmitTopStep
<1> HIDE DEF n
<1>9. \A y : Contains(c, y) <=> Contains(Top.calls, y) \/ y = x
  BY <1>5 DEF Contains
<1>10. SnapshotsOK(handle', stack')
  <2>1. SnapshotsOK(handle, stack)
    BY DEF SignalInv
  <2>2. \A j \in DOMAIN f.allHandle :
            /\ handle[f.allHandle[j]].st # "unused"
            /\ f.allHandle[j] \in f.stopped =>
                      handle[f.allHandle[j]].st # "live" /\ ~Contains(f.calls, f.allHandle[j])
            /\ ~Contains(f.calls, f.allHandle[j]) /\ handle[f.allHandle[j]].st # "live"
                      => f.allHandle[j] \in f.stopped
    BY <1>1, <1>3, <1>4, <1>6, <1>8, <1>9, <2>1 DEF SnapshotsOK
  <2>3. \A d, e \in DOMAIN stack' : stack'[d].op = "stop" /\ stack'[e].op = "emit" =>
           \A j \in DOMAIN stack'[e].allHandle : stack'[e].allHandle[j] = stack'[d].h => e < d
    BY <1>1, <1>3, <1>6, <1>8, <2>1 DEF SnapshotsOK
  <2>4. \A d \in DOMAIN stack' : stack'[d].op = "emit" =>
           \A j \in DOMAIN stack'[d].allHandle :
               /\ handle[stack'[d].allHandle[j]].st # "unused"
               /\ stack'[d].allHandle[j] \in stack'[d].stopped =>
                      handle[stack'[d].allHandle[j]].st # "live" /\ ~Contains(stack'[d].calls, stack'[d].allHandle[j])
               /\ ~Contains(stack'[d].calls, stack'[d].allHandle[j]) /\ handle[stack'[d].allHandle[j]].st # "live"
                      => stack'[d].allHandle[j] \in stack'[d].stopped
    BY <1>8, <2>1, <2>2 DEF SnapshotsOK
  <2> QED BY <1>1, <2>3, <2>4 DEF SnapshotsOK
<1>11. OrderOK(f)
  <2>1. \A j \in 1..(Top.i - 1) : Contains(Top.calls, Top.allHandle[j]) <=> Top.allHandle[j] \notin Top.stopped
    BY <1>1, <1>3 DEF OrderOK, Reached
  <2>2. \A a \in DOMAIN Top.calls : \E j \in 1..(Top.i - 1) : Top.calls[a] = Top.allHandle[j]
    BY <1>1, <1>3 DEF OrderOK, Reached
  <2>3. \A a, b \in DOMAIN Top.calls : a < b =>
               \E j, k \in DOMAIN Top.allHandle :
                   j < k /\ Top.calls[a] = Top.allHandle[j] /\ Top.calls[b] = Top.allHandle[k]
    BY <1>1, <1>3 DEF OrderOK
  <2>4. x = Top.allHandle[Top.i] /\ Reached(f) = Top.i /\ Reached(f) \in Nat
        /\ \A j \in 1..Top.i : j \in DOMAIN Top.allHandle
    BY <1>3, <1>6 DEF x, Reached
  <2>5. \A j \in 1..Top.i : Contains(c, Top.allHandle[j]) <=> Top.allHandle[j] \notin Top.stopped
    <3> SUFFICES ASSUME NEW j \in 1..Top.i
                 PROVE  Contains(c, Top.allHandle[j]) <=> Top.allHandle[j] \notin Top.stopped
      OBVIOUS
    <3>1. CASE j = Top.i
      BY <1>4, <1>9, <2>4, <3>1
    <3>2. CASE j # Top.i
      <4>1. j \in 1..(Top.i - 1) /\ Top.allHandle[j] # x
        BY <1>1, <1>3, <2>4, <3>2 DEF FrameOK
      <4> QED BY <1>9, <2>1, <4>1
    <3> QED BY <3>1, <3>2
  <2>6. \A a \in DOMAIN c : \E j \in 1..Top.i : c[a] = Top.allHandle[j]
    <3> SUFFICES ASSUME NEW a \in DOMAIN c PROVE \E j \in 1..Top.i : c[a] = Top.allHandle[j]
      OBVIOUS
    <3>1. CASE a = Len(Top.calls) + 1
      <4>1. Top.i \in 1..Top.i
        BY <1>3
      <4> QED BY <1>5, <2>4, <3>1, <4>1
    <3>2. CASE a # Len(Top.calls) + 1
      <4>1. a \in DOMAIN Top.calls /\ c[a] = Top.calls[a]
        BY <1>5, <3>2
      <4>2. PICK j \in 1..(Top.i - 1) : Top.calls[a] = Top.allHandle[j]
        BY <2>2, <4>1
      <4> QED BY <1>3, <4>1, <4>2
    <3> QED BY <3>1, <3>2
  <2>7. \A a, b \in DOMAIN c : a < b =>
               \E j, k \in DOMAIN Top.allHandle :
                   j < k /\ c[a] = Top.allHandle[j] /\ c[b] = Top.allHandle[k]
    <3> SUFFICES ASSUME NEW a \in DOMAIN c, NEW b \in DOMAIN c, a < b
                 PROVE  \E j, k \in DOMAIN Top.allHandle :
                            j < k /\ c[a] = Top.allHandle[j] /\ c[b] = Top.allHandle[k]
      OBVIOUS
    <3>1. a \in DOMAIN Top.calls /\ c[a] = Top.calls[a]
      BY <1>5
    <3>2. CASE b = Len(Top.calls) + 1
      <4>1. PICK j \in 1..(Top.i - 1) : Top.calls[a] = Top.allHandle[j]
        BY <2>2, <3>1
      <4>2. j \in DOMAIN Top.allHandle /\ j < Top.i /\ c[b] = Top.allHandle[Top.i]
        BY <1>3, <1>5, <2>4, <3>2
      <4> QED BY <1>3, <3>1, <4>1, <4>2
    <3>3. CASE b # Len(Top.calls) + 1
      <4>1. b \in DOMAIN Top.calls /\ c[b] = Top.calls[b]
        BY <1>5, <3>3
      <4> QED BY <2>3, <3>1, <4>1
    <3> QED BY <3>2, <3>3
  <2> QED BY <1>6, <2>4, <2>5, <2>6, <2>7 DEF OrderOK
<1>12. \A d \in DOMAIN stack' : OrderOK(stack'[d])
  BY <1>8, <1>11 DEF SignalInv
<1>13. WeakOK(handle', stack')
  <2>1. \A y : Waiting(stack', y) = Waiting(stack, y)
    <3> SUFFICES ASSUME NEW y, NEW d \in DOMAIN stack
                 PROVE  d \in Waiting(stack', y) <=> d \in Waiting(stack, y)
      BY <1>8 DEF Waiting
    <3>1. stack'[d].op = stack[d].op /\ stack'[d].i = stack[d].i /\ stack'[d].allHandle = stack[d].allHandle
      BY <1>1, <1>3, <1>6, <1>8
    <3> QED BY <1>8, <3>1 DEF Waiting
  <2>2. \A y \in Handle : Entry(handle', stack', y) <=> Entry(handle, stack, y)
    <3>1. stack' \in Seq(FrameSet) /\ \A d \in DOMAIN stack : stack[d].op = "stop" => stack[d].h \in Handle
      BY <1>8 DEF SignalInv, CallsOK, FrameOK
    <3> QED BY <1>1, <1>3, <1>8, <3>1, EmissionStops
  <2> QED BY <1>1, <2>1, <2>2 DEF SignalInv, WeakOK
<1>14. handle' \in [Handle -> HandleSet]
  BY <1>1 DEF SignalInv, DataOK
<1> QED BY <1>1, <1>8, <1>10, <1>12, <1>13, <1>14, EmissionStep

\* Steps after which the emissions have the same snapshots and calls.
LEMMA SnapshotsSame ==
    ASSUME NEW st, NEW t, NEW hd, NEW hd2, SnapshotsOK(hd, st), DOMAIN t \subseteq DOMAIN st,
           \A d \in DOMAIN t : /\ t[d].op = st[d].op /\ t[d].h = st[d].h
                               /\ t[d].allHandle = st[d].allHandle /\ t[d].calls = st[d].calls
                               /\ t[d].stopped = st[d].stopped,
           \A d \in DOMAIN st : st[d].op = "emit" =>
               \A j \in DOMAIN st[d].allHandle : st[d].allHandle[j] \in Handle,
           \A h \in Handle : hd2[h].st = hd[h].st \/ (hd[h].st \notin {"live", "unused"}
                                                      /\ hd2[h].st \notin {"live", "unused"})
    PROVE  SnapshotsOK(hd2, t)
  BY DEF SnapshotsOK

\* The emissions refer to handles.
LEMMA EmitHandles ==
    ASSUME SignalInv
    PROVE  /\ stack \in Seq(FrameSet)
           /\ \A d \in DOMAIN stack : stack[d] \in FrameSet /\ FrameOK(stack[d])
           /\ \A d \in DOMAIN stack : stack[d].allHandle \in Seq(Handle) /\ stack[d].calls \in Seq(Handle)
                                      /\ stack[d].i \in Nat /\ stack[d].pin \in BOOLEAN
           /\ \A d \in DOMAIN stack : \A j \in DOMAIN stack[d].allHandle : stack[d].allHandle[j] \in Handle
           /\ \A d \in DOMAIN stack : stack[d].op = "stop" => stack[d].h \in Handle
<1>1. stack \in Seq(FrameSet) /\ \A d \in DOMAIN stack : FrameOK(stack[d])
  BY DEF SignalInv, CallsOK
<1>2. \A d \in DOMAIN stack : stack[d] \in FrameSet
  BY <1>1
<1>3. \A d \in DOMAIN stack : stack[d].allHandle \in Seq(Handle) /\ stack[d].calls \in Seq(Handle)
                              /\ stack[d].i \in Nat /\ stack[d].pin \in BOOLEAN
  BY <1>2 DEF FrameSet
<1>4. \A d \in DOMAIN stack : \A j \in DOMAIN stack[d].allHandle : stack[d].allHandle[j] \in Handle
  BY <1>3
<1>5. \A d \in DOMAIN stack : stack[d].op = "stop" => stack[d].h \in Handle
  BY <1>1 DEF FrameOK
<1> QED BY <1>1, <1>2, <1>3, <1>4, <1>5

\* A listener that has stopped is left out, and its weak reference is not given back.
LEMMA EmitSkipInv == ASSUME SignalInv, EmitSkip PROVE SignalInv'
<1> DEFINE n == Len(stack)
           x == Top.allHandle[Top.i]
           k == Top.i + 1
           f == [Top EXCEPT !.i = k]
<1>1. /\ stack # <<>> /\ Top.op = "emit" /\ Top.pc = "next" /\ Top.i <= Len(Top.allHandle)
      /\ handle[x].st \notin {"live", "dying"} /\ UNCHANGED <<signals, sig, handle, owner>>
  BY DEF EmitSkip, InFrame
<1>2. stack' = [stack EXCEPT ![n] = f]
  BY DEF EmitSkip, InFrame, Top
<1>3. /\ Top \in FrameSet /\ FrameOK(Top) /\ OrderOK(Top) /\ Top.i \in DOMAIN Top.allHandle /\ x \in Handle
      /\ Top.calls \in Seq(Handle) /\ Top.allHandle \in Seq(Handle) /\ Top.i \in Nat /\ ~Top.pin
      /\ Top = stack[n] /\ stack \in Seq(FrameSet)
  BY <1>1, EmitTop
<1>4. /\ x \in Top.stopped /\ ~Contains(Top.calls, x)
  BY <1>1, NextHandle
<1> HIDE DEF x
<1>6. /\ f \in FrameSet /\ f.op = "emit" /\ f.pc = "next" /\ f.calls = Top.calls /\ f.i = Top.i + 1
      /\ f.allHandle = Top.allHandle /\ f.stopped = Top.stopped /\ f.pin = Top.pin
      /\ f.signal = Top.signal /\ f.h = Top.h
  <2>1. k \in Nat
    BY <1>3
  <2> HIDE DEF k
  <2>2. f \in FrameSet /\ f.op = "emit" /\ f.pc = "next" /\ f.calls = Top.calls /\ f.i = k
        /\ f.allHandle = Top.allHandle /\ f.stopped = Top.stopped /\ f.pin = Top.pin
        /\ f.signal = Top.signal /\ f.h = Top.h
    BY <1>1, <1>3, <2>1 DEF FrameSet
  <2> QED BY <2>2 DEF k
<1> HIDE DEF f
<1>7. FrameOK(f) /\ ~f.pin
  <2>1. ~f.pin
    BY <1>3, <1>6
  <2>2. Top.i + 1 \in 1..(Len(Top.allHandle) + 1)
    BY <1>1, <1>3
  <2> QED BY <1>1, <1>3, <1>6, <2>1, <2>2 DEF FrameOK
<1>8. /\ CallsOK(stack') /\ SameCalls(stack, stack')
      /\ n \in Nat \ {0} /\ DOMAIN stack = 1..n /\ DOMAIN stack' = DOMAIN stack
      /\ \A d \in DOMAIN stack : stack'[d] = IF d = n THEN f ELSE stack[d]
  BY <1>1, <1>2, <1>6, <1>7, EmitTopStep
<1> HIDE DEF n
<1>9. \A d \in DOMAIN stack' : /\ stack'[d].op = stack[d].op /\ stack'[d].h = stack[d].h
                               /\ stack'[d].allHandle = stack[d].allHandle
                               /\ stack'[d].calls = stack[d].calls /\ stack'[d].stopped = stack[d].stopped
                               /\ stack'[d].i = IF d = n THEN stack[d].i + 1 ELSE stack[d].i
  BY <1>1, <1>3, <1>6, <1>8
<1>10. SnapshotsOK(handle', stack')
  <2>1. SnapshotsOK(handle, stack)
    BY DEF SignalInv
  <2>2. /\ DOMAIN stack' \subseteq DOMAIN stack /\ handle' = handle
        /\ \A d \in DOMAIN stack : stack[d].op = "emit" =>
               \A j \in DOMAIN stack[d].allHandle : stack[d].allHandle[j] \in Handle
    BY <1>1, <1>8, EmitHandles
  <2> QED BY ONLY <1>9, <2>1, <2>2, SnapshotsSame
<1>11. OrderOK(f)
  <2>1. \A j \in 1..(Top.i - 1) : Contains(Top.calls, Top.allHandle[j]) <=> Top.allHandle[j] \notin Top.stopped
    BY <1>1, <1>3 DEF OrderOK, Reached
  <2>2. \A a \in DOMAIN Top.calls : \E j \in 1..(Top.i - 1) : Top.calls[a] = Top.allHandle[j]
    BY <1>1, <1>3 DEF OrderOK, Reached
  <2>3. \A a, b \in DOMAIN Top.calls : a < b =>
               \E j, m \in DOMAIN Top.allHandle :
                   j < m /\ Top.calls[a] = Top.allHandle[j] /\ Top.calls[b] = Top.allHandle[m]
    BY <1>1, <1>3 DEF OrderOK
  <2>4. x = Top.allHandle[Top.i] /\ Reached(f) = Top.i
    BY <1>3, <1>6 DEF x, Reached
  <2>5. \A j \in 1..Top.i : Contains(Top.calls, Top.allHandle[j]) <=> Top.allHandle[j] \notin Top.stopped
    <3> SUFFICES ASSUME NEW j \in 1..Top.i
                 PROVE  Contains(Top.calls, Top.allHandle[j]) <=> Top.allHandle[j] \notin Top.stopped
      OBVIOUS
    <3>1. CASE j = Top.i
      BY <1>4, <2>4, <3>1
    <3>2. CASE j # Top.i
      <4>1. j \in 1..(Top.i - 1)
        BY <1>3, <3>2
      <4> QED BY <2>1, <4>1
    <3> QED BY <3>1, <3>2
  <2>6. \A a \in DOMAIN Top.calls : \E j \in 1..Top.i : Top.calls[a] = Top.allHandle[j]
    <3>1. \A j \in 1..(Top.i - 1) : j \in 1..Top.i
      BY <1>3
    <3> QED BY <2>2, <3>1
  <2> QED BY <1>6, <2>3, <2>4, <2>5, <2>6 DEF OrderOK
<1>12. \A d \in DOMAIN stack' : OrderOK(stack'[d])
  BY <1>8, <1>11 DEF SignalInv
<1>13. WeakOK(handle', stack')
  <2>1. \A y : Waiting(stack', y) \subseteq Waiting(stack, y)
    <3> SUFFICES ASSUME NEW y, NEW d \in Waiting(stack', y) PROVE d \in Waiting(stack, y)
      OBVIOUS
    <3>1. d \in DOMAIN stack /\ stack'[d].op = "emit"
      BY <1>8 DEF Waiting
    <3>2. PICK j \in stack'[d].i..Len(stack'[d].allHandle) : stack'[d].allHandle[j] = y
      BY DEF Waiting
    <3>3. j \in stack[d].i..Len(stack[d].allHandle)
      BY <1>8, <1>9, <3>1, <3>2, EmitHandles
    <3> QED BY <1>8, <1>9, <3>1, <3>2, <3>3 DEF Waiting
  <2>2. \A y \in Handle : Entry(handle', stack', y) <=> Entry(handle, stack, y)
    <3>1. stack' \in Seq(FrameSet)
      BY <1>8 DEF CallsOK
    <3> QED BY <1>1, <1>3, <1>8, <3>1, EmissionStops, EmitHandles
  <2>3. \A y : Cardinality(Waiting(stack', y)) <= Cardinality(Waiting(stack, y))
               /\ Cardinality(Waiting(stack', y)) \in Nat /\ Cardinality(Waiting(stack, y)) \in Nat
    <3>1. stack' \in Seq(FrameSet)
      BY <1>8 DEF CallsOK
    <3> QED BY <1>3, <2>1, <3>1, WaitingLess, WaitingCount
  <2>4. \A y \in Handle : handle[y].weak \in Nat
    BY DEF SignalInv, DataOK, HandleSet
  <2> QED BY <1>1, <2>2, <2>3, <2>4 DEF SignalInv, WeakOK
<1>14. handle' \in [Handle -> HandleSet]
  BY <1>1 DEF SignalInv, DataOK
<1> QED BY <1>1, <1>8, <1>10, <1>12, <1>13, <1>14, EmissionStep

\* A weak reference to a handle is given back.
LEMMA DropWeakFacts ==
    ASSUME NEW hd \in [Handle -> HandleSet], NEW h \in Handle, hd[h].weak > 0, NEW hd2, hd2 = DropWeak(hd, h)
    PROVE  /\ hd2 \in [Handle -> HandleSet]
           /\ \A y \in Handle : y # h => hd2[y] = hd[y]
           /\ hd2[h].weak = hd[h].weak - 1 /\ hd2[h].signal = hd[h].signal
           /\ hd2[h].st = IF hd[h].st = "dead" /\ hd[h].weak = 1 THEN "freed" ELSE hd[h].st
<1>1. hd[h] \in HandleSet
  OBVIOUS
<1>2. hd[h].weak \in Nat /\ hd[h].st \in {"unused", "live", "dying", "dead", "freed"} /\ hd[h].weak - 1 \in Nat
  BY <1>1 DEF HandleSet
<1> DEFINE s == IF hd[h].st = "dead" /\ hd[h].weak = 1 THEN "freed" ELSE hd[h].st
           w == hd[h].weak - 1
           r == [hd[h] EXCEPT !.weak = w, !.st = s]
<1>3. s \in {"unused", "live", "dying", "dead", "freed"} /\ w \in Nat
  BY <1>2
<1>4. hd2 = [hd EXCEPT ![h] = r]
  BY DEF DropWeak
<1> HIDE DEF s, w
<1>5. r \in HandleSet /\ r.weak = w /\ r.st = s /\ r.signal = hd[h].signal
  BY <1>1, <1>3 DEF HandleSet
<1> HIDE DEF r
<1>6. hd2 \in [Handle -> HandleSet] /\ hd2[h] = r /\ \A y \in Handle : y # h => hd2[y] = hd[y]
  BY <1>4, <1>5
<1> QED BY <1>5, <1>6 DEF s, w

\* A handler has returned: the emission gives its weak reference back.
LEMMA EmitReturnInv == ASSUME SignalInv, EmitReturn PROVE SignalInv'
<1> DEFINE n == Len(stack)
           x == Top.allHandle[Top.i]
           k == Top.i + 1
           f == [Top EXCEPT !.pc = "next", !.i = k]
<1>1. /\ stack # <<>> /\ Top.op = "emit" /\ Top.pc = "handler" /\ handle' = DropWeak(handle, x)
      /\ UNCHANGED <<signals, sig, owner>>
  BY DEF EmitReturn, InFrame
<1>2. stack' = [stack EXCEPT ![n] = f]
  BY DEF EmitReturn, InFrame, Top
<1>3. /\ Top \in FrameSet /\ FrameOK(Top) /\ OrderOK(Top)
      /\ Top.calls \in Seq(Handle) /\ Top.allHandle \in Seq(Handle) /\ Top.i \in Nat /\ ~Top.pin
      /\ Top = stack[n] /\ stack \in Seq(FrameSet)
  BY <1>1, EmitTop
<1>4. Top.i <= Len(Top.allHandle)
  BY <1>1, <1>3 DEF FrameOK
<1>5. Top.i \in DOMAIN Top.allHandle /\ x \in Handle
  BY <1>1, <1>4, EmitTop
<1> HIDE DEF x
<1>6. /\ f \in FrameSet /\ f.op = "emit" /\ f.pc = "next" /\ f.calls = Top.calls /\ f.i = Top.i + 1
      /\ f.allHandle = Top.allHandle /\ f.stopped = Top.stopped /\ f.pin = Top.pin
      /\ f.signal = Top.signal /\ f.h = Top.h
  <2>1. k \in Nat
    BY <1>3
  <2> HIDE DEF k
  <2>2. f \in FrameSet /\ f.op = "emit" /\ f.pc = "next" /\ f.calls = Top.calls /\ f.i = k
        /\ f.allHandle = Top.allHandle /\ f.stopped = Top.stopped /\ f.pin = Top.pin
        /\ f.signal = Top.signal /\ f.h = Top.h
    BY <1>1, <1>3, <2>1 DEF FrameSet
  <2> QED BY <2>2 DEF k
<1> HIDE DEF f
<1>7. FrameOK(f) /\ ~f.pin
  <2>1. ~f.pin
    BY <1>3, <1>6
  <2>2. Top.i + 1 \in 1..(Len(Top.allHandle) + 1)
    BY <1>4, <1>3
  <2> QED BY <1>1, <1>3, <1>6, <2>1, <2>2 DEF FrameOK
<1>8. /\ CallsOK(stack') /\ SameCalls(stack, stack')
      /\ n \in Nat \ {0} /\ DOMAIN stack = 1..n /\ DOMAIN stack' = DOMAIN stack
      /\ \A d \in DOMAIN stack : stack'[d] = IF d = n THEN f ELSE stack[d]
  BY <1>1, <1>2, <1>6, <1>7, EmitTopStep
<1>9. \A d \in DOMAIN stack' : /\ stack'[d].op = stack[d].op /\ stack'[d].h = stack[d].h
                               /\ stack'[d].allHandle = stack[d].allHandle
                               /\ stack'[d].calls = stack[d].calls /\ stack'[d].stopped = stack[d].stopped
                               /\ stack'[d].i = IF d = n THEN stack[d].i + 1 ELSE stack[d].i
  BY <1>1, <1>3, <1>6, <1>8
<1> HIDE DEF n
<1>10. stack' \in Seq(FrameSet) /\ handle \in [Handle -> HandleSet]
       /\ \A y \in Handle : handle[y].weak \in Nat
  BY <1>8 DEF CallsOK, SignalInv, DataOK, HandleSet
<1>11. n \in Waiting(stack, x) /\ n \notin Waiting(stack', x)
  <2>1. n \in DOMAIN stack /\ Top.i \in Top.i..Len(Top.allHandle)
    BY <1>3, <1>4, <1>8
  <2>2. n \in Waiting(stack, x)
    BY <1>1, <1>3, <2>1 DEF Waiting, x
  <2>3. \A j \in (Top.i + 1)..Len(Top.allHandle) : j \in DOMAIN Top.allHandle /\ j # Top.i
    BY <1>3
  <2>4. \A j \in (Top.i + 1)..Len(Top.allHandle) : Top.allHandle[j] # x
    BY <1>1, <1>3, <1>5, <2>3 DEF FrameOK, x
  <2>5. stack'[n].i = Top.i + 1 /\ stack'[n].allHandle = Top.allHandle
    BY <1>6, <1>8, <2>1
  <2> QED BY <2>2, <2>4, <2>5 DEF Waiting
<1>12. \A y : Waiting(stack', y) \subseteq Waiting(stack, y)
  <2> SUFFICES ASSUME NEW y, NEW d \in Waiting(stack', y) PROVE d \in Waiting(stack, y)
    OBVIOUS
  <2>1. d \in DOMAIN stack /\ stack'[d].op = "emit"
    BY <1>8 DEF Waiting
  <2>2. PICK j \in stack'[d].i..Len(stack'[d].allHandle) : stack'[d].allHandle[j] = y
    BY DEF Waiting
  <2>3. j \in stack[d].i..Len(stack[d].allHandle)
    BY <1>8, <1>9, <2>1, <2>2, EmitHandles
  <2> QED BY <1>8, <1>9, <2>1, <2>2, <2>3 DEF Waiting
<1>13. \A y : /\ Cardinality(Waiting(stack', y)) <= Cardinality(Waiting(stack, y))
              /\ Cardinality(Waiting(stack', y)) \in Nat /\ Cardinality(Waiting(stack, y)) \in Nat
  BY <1>3, <1>10, <1>12, WaitingLess, WaitingCount
<1>14. Cardinality(Waiting(stack', x)) + 1 <= Cardinality(Waiting(stack, x))
  BY <1>3, <1>10, <1>11, <1>12, WaitingLess
<1>15. handle[x].weak > 0 /\ handle[x].st # "freed"
  <2>1. handle[x].weak >= Cardinality(Waiting(stack, x)) + (IF Entry(handle, stack, x) THEN 1 ELSE 0)
        /\ (handle[x].st = "freed" => handle[x].weak = 0)
    BY <1>5 DEF SignalInv, WeakOK
  <2> QED BY <1>5, <1>10, <1>13, <1>14, <2>1
<1>16. /\ handle' \in [Handle -> HandleSet]
       /\ \A y \in Handle : y # x => handle'[y] = handle[y]
       /\ handle'[x].weak = handle[x].weak - 1 /\ handle'[x].signal = handle[x].signal
       /\ handle'[x].st = IF handle[x].st = "dead" /\ handle[x].weak = 1 THEN "freed" ELSE handle[x].st
  BY <1>1, <1>5, <1>10, <1>15, DropWeakFacts
<1>17. \A y \in Handle : handle'[y].st = handle[y].st \/ (handle[y].st = "dead" /\ handle'[y].st = "freed")
  BY <1>16
<1>18. SnapshotsOK(handle', stack')
  <2>1. SnapshotsOK(handle, stack)
    BY DEF SignalInv
  <2>2. /\ DOMAIN stack' \subseteq DOMAIN stack
        /\ \A d \in DOMAIN stack : stack[d].op = "emit" =>
               \A j \in DOMAIN stack[d].allHandle : stack[d].allHandle[j] \in Handle
    BY <1>8, EmitHandles
  <2>3. \A y \in Handle : handle'[y].st = handle[y].st \/ (handle[y].st \notin {"live", "unused"}
                                                       /\ handle'[y].st \notin {"live", "unused"})
    BY <1>17
  <2> QED BY <1>9, <2>1, <2>2, <2>3, SnapshotsSame
<1>19. OrderOK(f)
  <2>1. Reached(f) = Reached(Top)
    BY <1>1, <1>3, <1>6 DEF Reached
  <2> QED BY <1>1, <1>3, <1>6, <2>1 DEF OrderOK
<1>20. \A d \in DOMAIN stack' : OrderOK(stack'[d])
  BY <1>8, <1>19 DEF SignalInv
<1>21. WeakOK(handle', stack')
  <2>1. \A y \in Handle : Entry(handle', stack', y) <=> Entry(handle, stack, y)
    <3>1. /\ \A y \in Handle : handle'[y].st = "dying" <=> handle[y].st = "dying"
          /\ \A y \in Handle : handle'[y].st = "live" <=> handle[y].st = "live"
      BY <1>17
    <3> QED BY <1>3, <1>8, <1>10, <3>1, EmissionStops, EmitHandles
  <2>2. ASSUME NEW y \in Handle
        PROVE  /\ handle'[y].weak >= Cardinality(Waiting(stack', y)) + (IF Entry(handle', stack', y) THEN 1 ELSE 0)
               /\ handle'[y].st = "freed" => handle'[y].weak = 0
    <3>1. /\ handle[y].weak >= Cardinality(Waiting(stack, y)) + (IF Entry(handle, stack, y) THEN 1 ELSE 0)
          /\ handle[y].st = "freed" => handle[y].weak = 0
      BY DEF SignalInv, WeakOK
    <3>2. CASE y # x
      BY <1>10, <1>13, <1>16, <2>1, <3>1, <3>2
    <3>3. CASE y = x
      BY <1>10, <1>13, <1>14, <1>15, <1>16, <2>1, <3>1, <3>3
    <3> QED BY <3>2, <3>3
  <2> QED BY <2>2 DEF WeakOK
<1>22. \A y \in Handle : handle'[y].signal = handle[y].signal
  BY <1>16
<1> QED BY <1>1, <1>8, <1>16, <1>17, <1>18, <1>20, <1>21, <1>22, EmissionStep

\* A call began, or the innermost call returned.
LEMMA PushCalls ==
    ASSUME NEW st, CallsOK(st), NEW f \in FrameSet, FrameOK(f), NEW t, t = Append(st, f),
           \A d \in DOMAIN st : st[d].pc \in UserPc \cup {"entry"},
           Len(st) < MaxDepth \/ (f.op = "destroy" /\ Len(st) <= MaxDepth)
    PROVE  CallsOK(t)
<1>1. /\ t \in Seq(FrameSet) /\ Len(st) \in Nat /\ Len(t) = Len(st) + 1
      /\ DOMAIN st = 1..Len(st) /\ DOMAIN t = 1..(Len(st) + 1)
      /\ \A d \in DOMAIN st : t[d] = st[d]
      /\ t[Len(st) + 1] = f
  BY PushFacts DEF CallsOK
<1>2. Len(t) <= MaxDepth + 1
  BY <1>1, ConstantsAssumption
<1>3. \A d \in DOMAIN t : FrameOK(t[d]) /\ (d # Len(t) => t[d].pc \in UserPc \cup {"entry"})
  BY <1>1 DEF CallsOK
<1>4. \A d \in DOMAIN t : d > MaxDepth => t[d].op = "destroy"
  BY <1>1, ConstantsAssumption DEF CallsOK
<1> QED BY <1>1, <1>2, <1>3, <1>4 DEF CallsOK

\* The innermost call returned: the others are where they were.
LEMMA PopCalls ==
    ASSUME NEW st, CallsOK(st), st # <<>>, NEW t, t = Front(st)
    PROVE  CallsOK(t)
<1>1. /\ t \in Seq(FrameSet) /\ Len(st) \in Nat \ {0} /\ Len(t) = Len(st) - 1
      /\ DOMAIN st = 1..Len(st) /\ DOMAIN t = 1..(Len(st) - 1)
      /\ \A d \in DOMAIN t : t[d] = st[d]
  BY PopFacts DEF CallsOK
<1> QED BY <1>1, ConstantsAssumption DEF CallsOK

\* Where user code runs, every call waits for it.
LEMMA UserFrames ==
    ASSUME CallsOK(stack), UserCode
    PROVE  \A d \in DOMAIN stack : stack[d].pc \in UserPc \cup {"entry"}
  BY DEF CallsOK, UserCode, Top

\* The emission is over.
LEMMA EmitDoneInv == ASSUME SignalInv, EmitDone PROVE SignalInv'
<1> DEFINE n == Len(stack)
<1>1. /\ stack # <<>> /\ Top.op = "emit" /\ Top.i > Len(Top.allHandle) /\ stack' = Front(stack)
      /\ UNCHANGED <<signals, sig, handle, owner>>
  BY DEF EmitDone, InFrame, Popped
<1>2. CallsOK(stack) /\ stack \in Seq(FrameSet) /\ Top = stack[n] /\ ~Top.pin
  BY <1>1, EmitTop DEF SignalInv
<1>3. /\ stack' \in Seq(FrameSet) /\ n \in Nat \ {0} /\ Len(stack') = n - 1
      /\ DOMAIN stack = 1..n /\ DOMAIN stack' = 1..(n - 1)
      /\ \A d \in DOMAIN stack' : stack'[d] = stack[d]
  BY <1>1, <1>2, PopFacts
<1>4. CallsOK(stack')
  BY <1>1, <1>2, PopCalls
<1> HIDE DEF n
<1>5. DOMAIN stack' \subseteq DOMAIN stack
  BY <1>3
<1>6. SameCalls(stack, stack')
  <2>1. \A d \in DOMAIN stack : stack[d].op = "emit" => ~stack[d].pin
    BY <1>2 DEF CallsOK, FrameOK
  <2>2. \A d \in DOMAIN stack : d # n => d \in DOMAIN stack'
    BY <1>3
  <2> QED BY <1>1, <1>2, <1>3, <1>5, <2>1, <2>2 DEF SameCalls
<1>7. SnapshotsOK(handle', stack')
  <2>1. SnapshotsOK(handle, stack)
    BY DEF SignalInv
  <2> QED BY <1>1, <1>3, <1>5, <2>1, SnapshotsSame, EmitHandles
<1>8. \A d \in DOMAIN stack' : OrderOK(stack'[d])
  BY <1>3, <1>5 DEF SignalInv
<1>9. \A y : Waiting(stack', y) \subseteq Waiting(stack, y)
  BY <1>3, <1>5 DEF Waiting
<1>10. \A y : /\ Cardinality(Waiting(stack', y)) <= Cardinality(Waiting(stack, y))
              /\ Cardinality(Waiting(stack', y)) \in Nat /\ Cardinality(Waiting(stack, y)) \in Nat
  BY <1>2, <1>3, <1>9, WaitingLess, WaitingCount
<1>11. \A y \in Handle : Entry(handle', stack', y) <=> Entry(handle, stack, y)
  BY <1>1, <1>2, <1>3, <1>6, EmissionStops, EmitHandles
<1>12. handle \in [Handle -> HandleSet] /\ \A y \in Handle : handle[y].weak \in Nat
  BY DEF SignalInv, DataOK, HandleSet
<1>13. WeakOK(handle', stack')
  BY <1>1, <1>10, <1>11, <1>12 DEF SignalInv, WeakOK
<1> QED BY <1>1, <1>4, <1>6, <1>7, <1>8, <1>12, <1>13, EmissionStep

\* An emission begins: it takes a weak reference to every listener of the signal.
LEMMA EmitInv == ASSUME SignalInv, NEW nm \in Name, Emit(nm) PROVE SignalInv'
<1> DEFINE n == Len(stack)
           g == signals[nm]
           all == sig[g].listeners
           f == CallFrame("emit", "next", Null, Null, FALSE, all)
<1>1. /\ UserCode /\ n < MaxDepth /\ g # Null /\ stack' = Append(stack, f)
      /\ handle' = [h \in Handle |-> IF Contains(all, h) THEN [handle[h] EXCEPT !.weak = @ + 1]
                                     ELSE handle[h]]
      /\ UNCHANGED <<signals, sig, owner>>
  BY DEF Emit, MayCall
<1>2. /\ CallsOK(stack) /\ stack \in Seq(FrameSet) /\ handle \in [Handle -> HandleSet]
      /\ sig \in [Sig -> SigSet] /\ g \in Sig
  BY <1>1 DEF SignalInv, CallsOK, DataOK
<1>3. /\ all \in Seq(Handle) /\ Len(all) \in Nat /\ DOMAIN all = 1..Len(all)
      /\ \A j \in DOMAIN all : all[j] \in Handle
  BY <1>2 DEF SigSet
<1>4. /\ \A j, k \in DOMAIN all : all[j] = all[k] => j = k
      /\ \A j \in DOMAIN all : handle[all[j]].st = "live"
      /\ \A y \in Handle : Contains(all, y) => handle[y].st = "live"
  BY <1>2, <1>3 DEF SignalInv, ListsOK, Contains
<1> HIDE DEF all
<1>5. EmitsTo(f, all)
  BY <1>3, EmitFrame
<1> HIDE DEF f
<1>6. f \in FrameSet
  BY ONLY <1>5 DEF EmitsTo
<1>7. /\ f.op = "emit" /\ f.pc = "next" /\ f.pin = FALSE /\ f.allHandle = all /\ f.i = 1
      /\ f.calls = <<>> /\ f.stopped = {}
  BY ONLY <1>5 DEF EmitsTo
<1>8. FrameOK(f)
  BY <1>3, <1>4, <1>7 DEF FrameOK
<1>9. OrderOK(f)
  <2>1. Reached(f) = 0
    BY <1>7 DEF Reached
  <2> QED BY <1>7, <2>1 DEF OrderOK
<1>10. CallsOK(stack')
  BY <1>1, <1>2, <1>6, <1>8, PushCalls, UserFrames
<1>11. /\ stack' \in Seq(FrameSet) /\ n \in Nat /\ Len(stack') = n + 1
       /\ DOMAIN stack = 1..n /\ DOMAIN stack' = 1..(n + 1)
       /\ \A d \in DOMAIN stack : stack'[d] = stack[d]
       /\ stack'[n + 1] = f
  BY <1>1, <1>2, <1>6, PushFacts
<1> HIDE DEF n
<1>12. \A d \in DOMAIN stack' : d # n + 1 => d \in DOMAIN stack
  BY <1>11
<1>13. SameCalls(stack, stack')
  <2>1. \A d \in DOMAIN stack : stack[d].op = "emit" => ~stack[d].pin
    BY <1>2 DEF CallsOK, FrameOK
  <2> QED BY <1>7, <1>11, <1>12, <2>1 DEF SameCalls
<1>14. /\ handle' \in [Handle -> HandleSet]
       /\ \A y \in Handle : /\ handle'[y].st = handle[y].st /\ handle'[y].signal = handle[y].signal
                            /\ handle'[y].weak = IF Contains(all, y) THEN handle[y].weak + 1
                                                 ELSE handle[y].weak
                            /\ handle[y].weak \in Nat
  <2>1. \A y \in Handle : handle[y] \in HandleSet /\ handle[y].weak \in Nat
    BY <1>2 DEF HandleSet
  <2>2. ASSUME NEW y \in Handle
        PROVE  /\ handle'[y] \in HandleSet
               /\ handle'[y].st = handle[y].st /\ handle'[y].signal = handle[y].signal
               /\ handle'[y].weak = IF Contains(all, y) THEN handle[y].weak + 1 ELSE handle[y].weak
    <3> DEFINE w == handle[y].weak + 1
    <3>1. w \in Nat
      BY <2>1
    <3>2. Contains(all, y) => handle'[y] = [handle[y] EXCEPT !.weak = w]
      BY <1>1
    <3>3. ~Contains(all, y) => handle'[y] = handle[y]
      BY <1>1
    <3> HIDE DEF w
    <3>4. CASE Contains(all, y)
      <4>1. handle'[y] \in HandleSet /\ handle'[y].st = handle[y].st
            /\ handle'[y].signal = handle[y].signal /\ handle'[y].weak = w
        BY <2>1, <3>1, <3>2, <3>4 DEF HandleSet
      <4> QED BY <3>4, <4>1 DEF w
    <3>5. CASE ~Contains(all, y)
      BY <2>1, <3>3, <3>5
    <3> QED BY <3>4, <3>5
  <2> QED BY <1>1, <2>1, <2>2
<1>15. SnapshotsOK(handle', stack')
  <2>1. SnapshotsOK(handle, stack)
    BY DEF SignalInv
  <2>2. \A d \in DOMAIN stack' : stack'[d].op = "emit" =>
           \A j \in DOMAIN stack'[d].allHandle :
               /\ handle'[stack'[d].allHandle[j]].st # "unused"
               /\ stack'[d].allHandle[j] \in stack'[d].stopped =>
                      handle'[stack'[d].allHandle[j]].st # "live" /\ ~Contains(stack'[d].calls, stack'[d].allHandle[j])
               /\ ~Contains(stack'[d].calls, stack'[d].allHandle[j]) /\ handle'[stack'[d].allHandle[j]].st # "live"
                      => stack'[d].allHandle[j] \in stack'[d].stopped
    <3> SUFFICES ASSUME NEW d \in DOMAIN stack', stack'[d].op = "emit", NEW j \in DOMAIN stack'[d].allHandle
                 PROVE /\ handle'[stack'[d].allHandle[j]].st # "unused"
                       /\ stack'[d].allHandle[j] \in stack'[d].stopped =>
                              handle'[stack'[d].allHandle[j]].st # "live" /\ ~Contains(stack'[d].calls, stack'[d].allHandle[j])
                       /\ ~Contains(stack'[d].calls, stack'[d].allHandle[j]) /\ handle'[stack'[d].allHandle[j]].st # "live"
                              => stack'[d].allHandle[j] \in stack'[d].stopped
      OBVIOUS
    <3>1. CASE d = n + 1
      <4>1. stack'[d].allHandle = all /\ stack'[d].stopped = {} /\ j \in DOMAIN all
        BY <1>7, <1>11, <3>1
      <4>2. all[j] \in Handle /\ handle[all[j]].st = "live"
        BY <1>3, <1>4, <4>1
      <4>3. handle'[all[j]].st = "live"
        BY <1>14, <4>2
      <4> QED BY ONLY <4>1, <4>3
    <3>2. CASE d # n + 1
      <4>1. d \in DOMAIN stack /\ stack'[d] = stack[d] /\ stack[d].allHandle[j] \in Handle
        BY <1>11, <1>12, <3>2, EmitHandles
      <4> QED BY <1>14, <2>1, <4>1 DEF SnapshotsOK
    <3> QED BY <3>1, <3>2
  <2>3. \A d, e \in DOMAIN stack' : stack'[d].op = "stop" /\ stack'[e].op = "emit" =>
           \A j \in DOMAIN stack'[e].allHandle : stack'[e].allHandle[j] = stack'[d].h => e < d
    <3> SUFFICES ASSUME NEW d \in DOMAIN stack', NEW e \in DOMAIN stack', stack'[d].op = "stop",
                        stack'[e].op = "emit", NEW j \in DOMAIN stack'[e].allHandle,
                        stack'[e].allHandle[j] = stack'[d].h
                 PROVE  e < d
      OBVIOUS
    <3>1. d \in DOMAIN stack /\ stack'[d] = stack[d]
      BY <1>7, <1>11, <1>12
    <3>2. CASE e = n + 1
      <4>1. handle[stack[d].h].st = "dying"
        BY <3>1 DEF SignalInv, StopsOK
      <4> QED BY <1>3, <1>4, <1>7, <1>11, <3>1, <3>2, <4>1
    <3>3. CASE e # n + 1
      BY <1>11, <1>12, <2>1, <3>1, <3>3 DEF SnapshotsOK
    <3> QED BY <3>2, <3>3
  <2> QED BY <2>2, <2>3 DEF SnapshotsOK
<1>16. \A d \in DOMAIN stack' : OrderOK(stack'[d])
  BY <1>9, <1>11, <1>12 DEF SignalInv
<1>17. WeakOK(handle', stack')
  <2>1. \A y \in Handle : Entry(handle', stack', y) <=> Entry(handle, stack, y)
    BY <1>2, <1>11, <1>13, <1>14, EmissionStops, EmitHandles
  <2>2. ASSUME NEW y \in Handle
        PROVE  /\ handle'[y].weak >= Cardinality(Waiting(stack', y)) + (IF Entry(handle', stack', y) THEN 1 ELSE 0)
               /\ handle'[y].st = "freed" => handle'[y].weak = 0
    <3>1. /\ handle[y].weak >= Cardinality(Waiting(stack, y)) + (IF Entry(handle, stack, y) THEN 1 ELSE 0)
          /\ handle[y].st = "freed" => handle[y].weak = 0
      BY DEF SignalInv, WeakOK
    <3>2. IsFiniteSet(Waiting(stack, y)) /\ Cardinality(Waiting(stack, y)) \in Nat
      BY <1>2, WaitingCount
    <3>3. n + 1 \notin Waiting(stack, y)
      BY <1>11 DEF Waiting
    <3>4. n + 1 \in Waiting(stack', y) <=> Contains(all, y)
      BY <1>3, <1>7, <1>11 DEF Waiting, Contains
    <3>5. \A d \in DOMAIN stack : d \in Waiting(stack', y) <=> d \in Waiting(stack, y)
      BY <1>11 DEF Waiting
    <3>6. Waiting(stack', y) \subseteq DOMAIN stack \cup {n + 1} /\ Waiting(stack, y) \subseteq DOMAIN stack
      BY <1>12 DEF Waiting
    <3>7. CASE Contains(all, y)
      <4>1. Waiting(stack', y) = Waiting(stack, y) \cup {n + 1}
        BY <3>4, <3>5, <3>6, <3>7
      <4>2. Cardinality(Waiting(stack', y)) = Cardinality(Waiting(stack, y)) + 1
        BY <3>2, <3>3, <4>1, FS_AddElement
      <4> QED BY <1>4, <1>14, <2>1, <3>1, <3>2, <3>7, <4>2
    <3>8. CASE ~Contains(all, y)
      <4>1. Waiting(stack', y) = Waiting(stack, y)
        BY <3>4, <3>5, <3>6, <3>8
      <4> QED BY <1>14, <2>1, <3>1, <3>2, <3>8, <4>1
    <3> QED BY <3>7, <3>8
  <2> QED BY <2>2 DEF WeakOK
<1> QED BY <1>1, <1>10, <1>13, <1>14, <1>15, <1>16, <1>17, EmissionStep

-----------------------------------------------------------------------------
(* Steps that leave the emissions alone *)

SameEmits(st, t) ==
    /\ \A d \in DOMAIN st : st[d].op = "emit" => d \in DOMAIN t /\ t[d] = st[d]
    /\ \A d \in DOMAIN t : t[d].op = "emit" => d \in DOMAIN st /\ t[d] = st[d]

\* The same handles are being destroyed.
SameStops(st, t) ==
    /\ \A d \in DOMAIN st : st[d].op = "stop" => d \in DOMAIN t /\ t[d].op = "stop" /\ t[d].h = st[d].h
    /\ \A d \in DOMAIN t : t[d].op = "stop" => d \in DOMAIN st /\ st[d].op = "stop" /\ t[d].h = st[d].h

\* Weak counts and the calls of an emission depend on emissions only.
LEMMA SameEmitsFacts ==
    ASSUME NEW st, NEW t, SameEmits(st, t)
    PROVE  /\ \A h : Waiting(t, h) = Waiting(st, h)
           /\ (\A d \in DOMAIN st : OrderOK(st[d])) => \A d \in DOMAIN t : OrderOK(t[d])
<1>1. \A h : Waiting(t, h) = Waiting(st, h)
  BY DEF SameEmits, Waiting
<1>2. ASSUME \A d \in DOMAIN st : OrderOK(st[d]) PROVE \A d \in DOMAIN t : OrderOK(t[d])
  <2> SUFFICES ASSUME NEW d \in DOMAIN t PROVE OrderOK(t[d])
    OBVIOUS
  <2>1. CASE t[d].op = "emit"
    BY <1>2, <2>1 DEF SameEmits
  <2>2. CASE t[d].op # "emit"
    BY <2>2 DEF OrderOK
  <2> QED BY <2>1, <2>2
<1> QED BY <1>1, <1>2

\* A step that neither changes an emission nor begins or ends a destruction.
LEMMA QuietStep ==
    ASSUME SignalInv, stack' \in Seq(FrameSet), SameEmits(stack, stack'), SameStops(stack, stack'),
           \A h \in Handle : handle[h].st # "unused" => /\ handle'[h].st # "unused"
                                                        /\ handle'[h].st = "live" <=> handle[h].st = "live",
           \A h \in Handle : handle'[h].st = "dying" <=> handle[h].st = "dying"
    PROVE  /\ StopsOK(handle', stack') /\ SnapshotsOK(handle', stack')
           /\ \A d \in DOMAIN stack' : OrderOK(stack'[d])
           /\ \A h : Waiting(stack', h) = Waiting(stack, h)
<1>1. /\ StopsOK(handle, stack) /\ SnapshotsOK(handle, stack) /\ \A d \in DOMAIN stack : OrderOK(stack[d])
  BY DEF SignalInv
<1>2. /\ \A h : Waiting(stack', h) = Waiting(stack, h) /\ \A d \in DOMAIN stack' : OrderOK(stack'[d])
  BY <1>1, SameEmitsFacts
<1>3. /\ \A d \in DOMAIN stack : stack[d].op = "stop" => stack[d].h \in Handle
      /\ \A d \in DOMAIN stack : \A j \in DOMAIN stack[d].allHandle : stack[d].allHandle[j] \in Handle
  BY EmitHandles
<1>4. StopsOK(handle', stack')
  BY <1>1, <1>3 DEF StopsOK, SameStops
<1>5. SnapshotsOK(handle', stack')
  <2>1. \A d \in DOMAIN stack' : stack'[d].op = "emit" => d \in DOMAIN stack /\ stack'[d] = stack[d]
    BY DEF SameEmits
  <2>2. \A d \in DOMAIN stack' : stack'[d].op = "stop" =>
            d \in DOMAIN stack /\ stack[d].op = "stop" /\ stack'[d].h = stack[d].h
    BY DEF SameStops
  <2> QED BY <1>1, <1>3, <2>1, <2>2 DEF SnapshotsOK
<1> QED BY <1>2, <1>4, <1>5

\* The entries stay and no weak reference is given back.
LEMMA QuietWeak ==
    ASSUME SignalInv, \A h : Waiting(stack', h) = Waiting(stack, h), NEW h \in Handle,
           handle'[h] = handle[h], Entry(handle', stack', h) => Entry(handle, stack, h)
    PROVE  /\ handle'[h].weak >= Cardinality(Waiting(stack', h)) + (IF Entry(handle', stack', h) THEN 1 ELSE 0)
           /\ handle'[h].st = "freed" => handle'[h].weak = 0
<1>1. /\ handle[h].weak >= Cardinality(Waiting(stack, h)) + (IF Entry(handle, stack, h) THEN 1 ELSE 0)
      /\ handle[h].st = "freed" => handle[h].weak = 0
  BY DEF SignalInv, WeakOK
<1>2. handle[h].weak \in Nat /\ stack \in Seq(FrameSet)
  BY DEF SignalInv, DataOK, HandleSet, CallsOK
<1>3. Cardinality(Waiting(stack, h)) \in Nat
  BY <1>2, WaitingCount
<1> QED BY <1>1, <1>2, <1>3

-----------------------------------------------------------------------------
(* di_listen_to *)

\* A handle that was not allocated is known to no list, emission or destruction.
LEMMA UnusedHandle ==
    ASSUME SignalInv, NEW h \in Handle, handle[h].st = "unused"
    PROVE  /\ \A g \in Sig : \A j \in DOMAIN sig[g].listeners : sig[g].listeners[j] # h
           /\ Waiting(stack, h) = {}
           /\ \A d \in DOMAIN stack : stack[d].op = "stop" => stack[d].h # h
<1>1. \A g \in Sig : \A j \in DOMAIN sig[g].listeners : sig[g].listeners[j] # h
  BY DEF SignalInv, ListsOK
<1>2. \A d \in DOMAIN stack : stack[d].op = "stop" => stack[d].h # h
  BY DEF SignalInv, StopsOK
<1>3. ASSUME NEW d \in Waiting(stack, h) PROVE FALSE
  <2>1. d \in DOMAIN stack /\ stack[d].op = "emit"
    BY <1>3 DEF Waiting
  <2>2. PICK j \in stack[d].i..Len(stack[d].allHandle) : stack[d].allHandle[j] = h
    BY <1>3 DEF Waiting
  <2>3. stack[d].i \in 1..(Len(stack[d].allHandle) + 1) /\ stack[d].allHandle \in Seq(Handle)
    BY <2>1, EmitHandles DEF FrameOK
  <2>4. j \in DOMAIN stack[d].allHandle
    BY <2>2, <2>3
  <2> QED BY <2>1, <2>2, <2>4 DEF SignalInv, SnapshotsOK
<1> QED BY <1>1, <1>2, <1>3

\* A list with a new first element.
LEMMA FirstFacts ==
    ASSUME NEW ls \in Seq(Handle), NEW h \in Handle, NEW m, m = <<h>> \o ls
    PROVE  /\ m \in Seq(Handle) /\ Len(ls) \in Nat /\ Len(m) = Len(ls) + 1
           /\ DOMAIN ls = 1..Len(ls) /\ DOMAIN m = 1..(Len(ls) + 1)
           /\ m[1] = h /\ \A j \in DOMAIN ls : m[j + 1] = ls[j]
           /\ \A j \in DOMAIN m : j # 1 => j - 1 \in DOMAIN ls /\ m[j] = ls[j - 1]
           /\ m # <<>>
  OBVIOUS

\* What attaching a listener does to the lists, the handles and the weak counts.
LEMMA AttachFacts ==
    ASSUME SignalInv, NEW g \in Sig, NEW h \in Handle, Attach(g, h), sig[g].mem = "live"
    PROVE  /\ sig' \in [Sig -> SigSet] /\ handle' \in [Handle -> HandleSet]
           /\ \A k \in Sig : k # g => sig'[k] = sig[k]
           /\ sig'[g].mem = "live" /\ sig'[g].name = sig[g].name /\ sig'[g].listeners # <<>>
           /\ handle[h].st = "unused" /\ handle'[h].st = "live" /\ handle'[h].weak = 1
           /\ \A y \in Handle : y # h => handle'[y] = handle[y]
           /\ ListsOK(sig', handle')
<1> DEFINE ls == sig[g].listeners
           m == <<h>> \o ls
           c == sig[g].nlisteners + 1
           r == [sig[g] EXCEPT !.listeners = m, !.nlisteners = c]
           w == [st |-> "live", signal |-> g, weak |-> 1]
<1>1. handle[h].st = "unused" /\ handle' = [handle EXCEPT ![h] = w] /\ sig' = [sig EXCEPT ![g] = r]
  BY DEF Attach
<1>2. sig \in [Sig -> SigSet] /\ handle \in [Handle -> HandleSet] /\ sig[g] \in SigSet /\ ListsOK(sig, handle)
  BY DEF SignalInv, DataOK
<1>3. ls \in Seq(Handle) /\ sig[g].nlisteners \in Nat /\ c \in Nat
      /\ sig[g].mem \in {"unused", "live", "freed"} /\ sig[g].name \in Name \cup {Null}
  BY <1>2 DEF SigSet
<1>4. sig[g].nlisteners = Len(ls)
  BY <1>2 DEF ListsOK
<1>5. \A k \in Sig : \A j \in DOMAIN sig[k].listeners : sig[k].listeners[j] # h
  BY <1>1, UnusedHandle
<1>6. /\ m \in Seq(Handle) /\ Len(ls) \in Nat /\ Len(m) = Len(ls) + 1
      /\ DOMAIN ls = 1..Len(ls) /\ DOMAIN m = 1..(Len(ls) + 1)
      /\ m[1] = h /\ \A j \in DOMAIN ls : m[j + 1] = ls[j]
      /\ \A j \in DOMAIN m : j # 1 => j - 1 \in DOMAIN ls /\ m[j] = ls[j - 1]
      /\ m # <<>>
  <2>1. m = <<h>> \o ls /\ ls \in Seq(Handle)
    BY <1>3
  <2> HIDE DEF m, ls
  <2> QED BY ONLY <2>1, h \in Handle, FirstFacts
<1>7. c = Len(m)
  BY <1>3, <1>4, <1>6
<1> HIDE DEF m, c
<1>9. r \in SigSet /\ r.mem = sig[g].mem /\ r.name = sig[g].name /\ r.listeners = m /\ r.nlisteners = c
  <2> DEFINE s == sig[g]
  <2>1. r = [s EXCEPT !.listeners = m, !.nlisteners = c] /\ s \in SigSet /\ m \in Seq(Handle) /\ c \in Nat
    BY <1>2, <1>3, <1>6
  <2> HIDE DEF s, r
  <2>2. r.mem = s.mem /\ r.name = s.name /\ r.listeners = m /\ r.nlisteners = c
    BY ONLY <2>1 DEF SigSet
  <2>3. DOMAIN r = {"mem", "name", "listeners", "nlisteners"}
    BY ONLY <2>1 DEF SigSet
  <2>4. r \in SigSet
    BY ONLY <2>1, <2>2, <2>3 DEF SigSet
  <2> QED BY <2>2, <2>4 DEF s
<1> HIDE DEF r
<1>10. w \in HandleSet /\ w.st = "live" /\ w.signal = g /\ w.weak = 1
  BY DEF HandleSet
<1> HIDE DEF w
<1>11. sig' \in [Sig -> SigSet] /\ sig'[g] = r /\ \A k \in Sig : k # g => sig'[k] = sig[k]
  BY <1>1, <1>2, <1>9
<1>12. handle' \in [Handle -> HandleSet] /\ handle'[h] = w /\ \A y \in Handle : y # h => handle'[y] = handle[y]
  BY <1>1, <1>2, <1>10
<1>13. ASSUME NEW k \in Sig
       PROVE  /\ sig'[k].nlisteners = Len(sig'[k].listeners)
              /\ \A i, j \in DOMAIN sig'[k].listeners :
                     sig'[k].listeners[i] = sig'[k].listeners[j] => i = j
              /\ \A j \in DOMAIN sig'[k].listeners : /\ handle'[sig'[k].listeners[j]].st = "live"
                                                     /\ handle'[sig'[k].listeners[j]].signal = k
              /\ sig'[k].listeners # <<>> => sig'[k].mem = "live"
              /\ sig'[k].mem = "live" => sig'[k].name \in Name
  <2>1. CASE k # g
    <3>1. sig'[k] = sig[k] /\ sig[k].listeners \in Seq(Handle)
      BY <1>2, <1>11, <2>1 DEF SigSet
    <3>2. \A j \in DOMAIN sig[k].listeners : handle'[sig[k].listeners[j]] = handle[sig[k].listeners[j]]
      BY <1>5, <1>12, <3>1
    <3> QED BY <1>2, <3>1, <3>2 DEF ListsOK
  <2>2. CASE k = g
    <3>1. \A j \in DOMAIN ls : handle'[ls[j]] = handle[ls[j]]
      BY <1>3, <1>5, <1>12
    <3>2. \A i, j \in DOMAIN m : m[i] = m[j] => i = j
      <4>1. \A i, j \in DOMAIN ls : ls[i] = ls[j] => i = j
        BY <1>2 DEF ListsOK
      <4>2. \A j \in DOMAIN m : j # 1 => m[j] # h
        BY <1>5, <1>6
      <4> SUFFICES ASSUME NEW i \in DOMAIN m, NEW j \in DOMAIN m, m[i] = m[j] PROVE i = j
        OBVIOUS
      <4>3. CASE i = 1 \/ j = 1
        BY <1>6, <4>2, <4>3
      <4>4. CASE i # 1 /\ j # 1
        <5>1. i - 1 = j - 1
          BY <1>6, <4>1, <4>4
        <5> QED BY <1>6, <5>1
      <4> QED BY <4>3, <4>4
    <3>3. \A j \in DOMAIN m : handle'[m[j]].st = "live" /\ handle'[m[j]].signal = g
      <4> SUFFICES ASSUME NEW j \in DOMAIN m PROVE handle'[m[j]].st = "live" /\ handle'[m[j]].signal = g
        OBVIOUS
      <4>1. CASE j = 1
        BY <1>6, <1>10, <1>12, <4>1
      <4>2. CASE j # 1
        BY <1>2, <1>6, <3>1, <4>2 DEF ListsOK
      <4> QED BY <4>1, <4>2
    <3>4. sig[g].name \in Name
      BY <1>2 DEF ListsOK
    <3> QED BY <1>7, <1>9, <1>11, <2>2, <3>2, <3>3, <3>4
  <2> QED BY <2>1, <2>2
<1>14. ASSUME NEW y \in Handle, handle'[y].st = "live"
       PROVE  /\ handle'[y].signal \in Sig
              /\ \E j \in DOMAIN sig'[handle'[y].signal].listeners : sig'[handle'[y].signal].listeners[j] = y
  <2>1. CASE y = h
    <3>1. 1 \in DOMAIN m
      BY <1>6
    <3> QED BY <1>6, <1>9, <1>10, <1>11, <1>12, <2>1, <3>1
  <2>2. CASE y # h
    <3>1. /\ handle'[y] = handle[y] /\ handle[y].signal \in Sig
          /\ \E j \in DOMAIN sig[handle[y].signal].listeners : sig[handle[y].signal].listeners[j] = y
      BY <1>2, <1>12, <1>14, <2>2 DEF ListsOK
    <3>2. CASE handle[y].signal = g
      <4>1. PICK j \in DOMAIN ls : ls[j] = y
        BY <3>1, <3>2
      <4>2. j + 1 \in DOMAIN m /\ m[j + 1] = y
        BY <1>6, <4>1
      <4> QED BY <1>9, <1>11, <3>1, <3>2, <4>2
    <3>3. CASE handle[y].signal # g
      BY <1>11, <3>1, <3>3
    <3> QED BY <3>2, <3>3
  <2> QED BY <2>1, <2>2
<1>15. ListsOK(sig', handle')
  BY <1>13, <1>14 DEF ListsOK
<1> QED BY <1>1, <1>6, <1>9, <1>10, <1>11, <1>12, <1>15

\* Attaching a listener to a signal that is allocated and is not being detached; the call of
\* __new_signal for it may return in the same step.
LEMMA AttachInv ==
    ASSUME SignalInv, NEW g \in Sig, NEW h \in Handle, Attach(g, h), sig[g].mem = "live",
           UNCHANGED <<signals, owner>>, CallsOK(stack'),
           \A d \in DOMAIN stack' : d \in DOMAIN stack /\ stack'[d] = stack[d],
           \A d \in DOMAIN stack : d \notin DOMAIN stack' =>
               stack[d].op = "listen" /\ stack[d].signal = g /\ ~stack[d].pin,
           \A d \in DOMAIN stack : stack[d].op = "stop" /\ stack[d].pc \in {"detach", "del_signal", "free"}
               => stack[d].signal # g
    PROVE  SignalInv'
<1>1. /\ sig' \in [Sig -> SigSet] /\ handle' \in [Handle -> HandleSet]
      /\ \A k \in Sig : k # g => sig'[k] = sig[k]
      /\ sig'[g].mem = "live" /\ sig'[g].name = sig[g].name /\ sig'[g].listeners # <<>>
      /\ handle[h].st = "unused" /\ handle'[h].st = "live" /\ handle'[h].weak = 1
      /\ \A y \in Handle : y # h => handle'[y] = handle[y]
      /\ ListsOK(sig', handle')
  BY AttachFacts
<1>2. stack \in Seq(FrameSet) /\ stack' \in Seq(FrameSet)
  BY DEF SignalInv, CallsOK
<1>3. SameEmits(stack, stack') /\ SameStops(stack, stack')
  BY DEF SameEmits, SameStops
<1>4. /\ StopsOK(handle', stack') /\ SnapshotsOK(handle', stack')
      /\ \A d \in DOMAIN stack' : OrderOK(stack'[d])
      /\ \A y : Waiting(stack', y) = Waiting(stack, y)
  <2>1. /\ \A y \in Handle : handle[y].st # "unused" => /\ handle'[y].st # "unused"
                                                        /\ handle'[y].st = "live" <=> handle[y].st = "live"
        /\ \A y \in Handle : handle'[y].st = "dying" <=> handle[y].st = "dying"
    BY <1>1
  <2> QED BY <1>2, <1>3, <2>1, QuietStep
<1>5. DataOK(signals', sig', handle', owner')
  BY <1>1 DEF SignalInv, DataOK
<1>6. ClaimsOK(sig', stack')
  <2>1. ClaimsOK(sig, stack)
    BY DEF SignalInv
  <2>2. \A k \in Sig : sig'[k].mem = sig[k].mem /\ (sig'[k].listeners = <<>> => k # g /\ sig[k].listeners = <<>>)
    BY <1>1
  <2>3. \A k \in Sig, d \in DOMAIN stack : Claims(stack[d], k) /\ k # g => d \in DOMAIN stack'
    BY DEF Claims
  <2>4. \A k \in Sig : sig'[k].mem = "live" /\ sig'[k].listeners = <<>>
                       => \E d \in DOMAIN stack' : Claims(stack'[d], k)
    BY <2>1, <2>2, <2>3 DEF ClaimsOK
  <2>5. \A d \in DOMAIN stack' : stack'[d].op = "stop" /\ stack'[d].pc \in {"detach", "del_signal", "free"}
                            => sig'[stack'[d].signal].listeners = <<>>
    <3> SUFFICES ASSUME NEW d \in DOMAIN stack', stack'[d].op = "stop",
                        stack'[d].pc \in {"detach", "del_signal", "free"}
                 PROVE  sig'[stack'[d].signal].listeners = <<>>
      OBVIOUS
    <3>1. d \in DOMAIN stack /\ stack'[d] = stack[d] /\ stack[d].signal # g
      OBVIOUS
    <3>2. stack[d].signal \in Sig
      BY <3>1, EmitHandles DEF FrameOK
    <3> QED BY <1>1, <2>1, <3>1, <3>2 DEF ClaimsOK
  <2>6. \A k \in Sig, d \in DOMAIN stack' : Claims(stack'[d], k) => sig'[k].mem = "live"
    BY <2>1, <2>2 DEF ClaimsOK
  <2>7. \A k \in Sig, d, e \in DOMAIN stack' :
           Claims(stack'[d], k) /\ Claims(stack'[e], k) /\ sig'[k].listeners = <<>> => d = e
    BY <2>1, <2>2 DEF ClaimsOK
  <2> QED BY <2>4, <2>5, <2>6, <2>7 DEF ClaimsOK
<1>7. (Destroying(stack') <=> Destroying(stack)) /\ (Pinned(stack') <=> Pinned(stack))
  BY DEF Destroying, Pinned
<1>8. OwnerOK(owner', stack')
  <2>1. OwnerOK(owner, stack)
    BY DEF SignalInv
  <2>2. \A d \in DOMAIN stack : stack[d].op = "destroy" => d \in DOMAIN stack'
    OBVIOUS
  <2>3. owner.destroyed => \A d \in DOMAIN stack' : stack'[d].pin => \E e \in DOMAIN stack' : e <= d /\ stack'[e].op = "destroy"
    BY <2>1, <2>2 DEF OwnerOK
  <2>4. \A d, e \in DOMAIN stack' : stack'[d].op = "destroy" /\ stack'[e].op = "destroy" => d = e
    BY <2>1 DEF OwnerOK
  <2> QED BY <1>7, <2>1, <2>3, <2>4 DEF OwnerOK
<1>9. TableOK(signals', sig', owner', stack')
  <2>1. TableOK(signals, sig, owner, stack) /\ signals \in [Name -> Sig \cup {Null}]
    BY DEF SignalInv, DataOK
  <2>2. \A k : Detached(stack', k) <=> Detached(stack, k)
    BY DEF Detached
  <2>3. \A k \in Sig : sig'[k].mem = sig[k].mem /\ sig'[k].name = sig[k].name
    BY <1>1
  <2> QED BY <1>7, <2>1, <2>2, <2>3 DEF TableOK, Gone
<1>10. WeakOK(handle', stack')
  <2>1. \A d \in DOMAIN stack : stack[d].op = "stop" => stack[d].h # h
    BY <1>1, UnusedHandle
  <2>2. ASSUME NEW y \in Handle
        PROVE  /\ handle'[y].weak >= Cardinality(Waiting(stack', y)) + (IF Entry(handle', stack', y) THEN 1 ELSE 0)
               /\ handle'[y].st = "freed" => handle'[y].weak = 0
    <3>1. CASE y = h
      <4>1. Waiting(stack', h) = {}
        BY <1>1, <1>4, UnusedHandle
      <4>2. Cardinality(Waiting(stack', h)) = 0
        BY <4>1, FS_EmptySet
      <4> QED BY <1>1, <3>1, <4>2
    <3>2. CASE y # h
      <4>1. handle'[y] = handle[y] /\ (Entry(handle', stack', y) => Entry(handle, stack, y))
        BY <1>1, <3>2 DEF Entry
      <4> QED BY <1>4, <4>1, QuietWeak
    <3> QED BY <3>1, <3>2
  <2> QED BY <2>2 DEF WeakOK
<1> QED BY <1>1, <1>4, <1>5, <1>6, <1>8, <1>9, <1>10 DEF SignalInv

\* A listener is added to a signal of the table.
LEMMA ListenExistingInv ==
    ASSUME SignalInv, NEW n \in Name, NEW h \in Handle, ListenExisting(n, h)
    PROVE  SignalInv'
<1> DEFINE g == signals[n]
<1>1. UserCode /\ g # Null /\ Attach(g, h) /\ UNCHANGED <<signals, owner, stack>>
  BY DEF ListenExisting, CanListen
<1>2. g \in Sig /\ sig[g].mem = "live" /\ ~Detached(stack, g) /\ CallsOK(stack)
  BY <1>1 DEF SignalInv, DataOK, TableOK
<1>3. \A d \in DOMAIN stack : stack[d].pc \in UserPc \cup {"entry"}
  BY <1>1, <1>2, UserFrames
<1>4. \A d \in DOMAIN stack : stack[d].op = "stop" /\ stack[d].pc \in {"detach", "del_signal", "free"}
               => stack[d].signal # g
  BY <1>2, <1>3 DEF Detached, UserPc
<1> HIDE DEF g
<1>5. CallsOK(stack')
  BY <1>1, <1>2
<1> QED BY <1>1, <1>2, <1>4, <1>5, AttachInv

\* __new_signal has returned, and the listener is attached.
LEMMA ListenAttachInv ==
    ASSUME SignalInv, NEW h \in Handle, ListenAttach(h)
    PROVE  SignalInv'
<1> DEFINE n == Len(stack)
           g == stack[n].signal
<1>1. /\ stack # <<>> /\ stack[n].op = "listen" /\ stack[n].pc = "new_signal" /\ sig[g].mem = "live"
      /\ Attach(g, h) /\ stack' = Front(stack) /\ UNCHANGED <<signals, owner>>
  BY DEF ListenAttach, InFrame, Popped, Top
<1>2. CallsOK(stack) /\ stack \in Seq(FrameSet) /\ ClaimsOK(sig, stack)
  BY DEF SignalInv, CallsOK
<1>3. /\ stack' \in Seq(FrameSet) /\ n \in Nat \ {0} /\ Len(stack') = n - 1
      /\ DOMAIN stack = 1..n /\ DOMAIN stack' = 1..(n - 1)
      /\ \A d \in DOMAIN stack' : stack'[d] = stack[d]
  BY <1>1, <1>2, PopFacts
<1>4. CallsOK(stack')
  BY <1>1, <1>2, PopCalls
<1>5. /\ \A d \in DOMAIN stack' : d \in DOMAIN stack /\ stack'[d] = stack[d]
      /\ \A d \in DOMAIN stack : d \notin DOMAIN stack' => d = n
      /\ n \in DOMAIN stack
  BY <1>3
<1>6. g \in Sig /\ ~stack[n].pin
  BY <1>1, <1>5, EmitHandles DEF FrameOK
<1>7. \A d \in DOMAIN stack : stack[d].op = "stop" /\ stack[d].pc \in {"detach", "del_signal", "free"}
               => stack[d].signal # g
  <2> SUFFICES ASSUME NEW d \in DOMAIN stack, stack[d].op = "stop",
                      stack[d].pc \in {"detach", "del_signal", "free"}, stack[d].signal = g
               PROVE  FALSE
    OBVIOUS
  <2>1. sig[g].listeners = <<>>
    BY <1>2 DEF ClaimsOK
  <2>2. Claims(stack[d], g) /\ Claims(stack[n], g)
    BY <1>1 DEF Claims
  <2>3. d = n
    BY <1>2, <1>5, <1>6, <2>1, <2>2 DEF ClaimsOK
  <2> QED BY <1>1, <2>3
<1> HIDE DEF n
<1>8. \A d \in DOMAIN stack : d \notin DOMAIN stack' => stack[d].op = "listen" /\ stack[d].signal = g /\ ~stack[d].pin
  BY <1>1, <1>5, <1>6
<1> HIDE DEF g
<1> QED BY <1>1, <1>4, <1>5, <1>6, <1>7, <1>8, AttachInv

\* A struct that was not allocated is known to nobody.
LEMMA UnusedSignal ==
    ASSUME SignalInv, NEW g \in Sig, sig[g].mem = "unused"
    PROVE  /\ sig[g].listeners = <<>>
           /\ \A d \in DOMAIN stack : ~Claims(stack[d], g)
           /\ ~Detached(stack, g)
           /\ \A n \in Name : signals[n] # g
           /\ \A y \in Handle : handle[y].st = "live" => handle[y].signal # g
<1>1. sig[g].listeners = <<>> /\ g # Null
  BY ConstantsAssumption DEF SignalInv, ListsOK
<1>2. \A d \in DOMAIN stack : ~Claims(stack[d], g)
  BY DEF SignalInv, ClaimsOK
<1>3. ~Detached(stack, g)
  BY <1>2 DEF Detached, Claims
<1>4. \A n \in Name : signals[n] # g
  BY <1>1 DEF SignalInv, TableOK
<1>5. \A y \in Handle : handle[y].st = "live" => handle[y].signal # g
  BY <1>1 DEF SignalInv, ListsOK
<1> QED BY <1>1, <1>2, <1>3, <1>4, <1>5

\* A signal is entered in the table: with its listener when its name is internal.
LEMMA ListenInternalInv ==
    ASSUME SignalInv, NEW n \in Name, NEW h \in Handle, NEW g \in Sig, ListenInternal(n, h, g)
    PROVE  SignalInv'
<1> DEFINE ls == <<h>>
           r == [mem |-> "live", name |-> n, listeners |-> ls, nlisteners |-> 1]
           w == [st |-> "live", signal |-> g, weak |-> 1]
<1>1. /\ ~owner.destroyed /\ signals[n] = Null /\ sig[g].mem = "unused" /\ handle[h].st = "unused"
      /\ signals' = [signals EXCEPT ![n] = g] /\ sig' = [sig EXCEPT ![g] = r]
      /\ handle' = [handle EXCEPT ![h] = w] /\ UNCHANGED <<owner, stack>>
  BY DEF ListenInternal, CanListen
<1>2. /\ sig \in [Sig -> SigSet] /\ handle \in [Handle -> HandleSet] /\ signals \in [Name -> Sig \cup {Null}]
      /\ CallsOK(stack) /\ stack \in Seq(FrameSet)
  BY DEF SignalInv, DataOK, CallsOK
<1>3. /\ ls \in Seq(Handle) /\ Len(ls) = 1 /\ DOMAIN ls = {1} /\ ls[1] = h /\ ls # <<>>
  OBVIOUS
<1> HIDE DEF ls
<1>4. r \in SigSet /\ r.mem = "live" /\ r.name = n /\ r.listeners = ls /\ r.nlisteners = 1
  BY <1>3 DEF SigSet
<1> HIDE DEF r
<1>5. w \in HandleSet /\ w.st = "live" /\ w.signal = g /\ w.weak = 1
  BY DEF HandleSet
<1> HIDE DEF w
<1>6. sig' \in [Sig -> SigSet] /\ sig'[g] = r /\ \A k \in Sig : k # g => sig'[k] = sig[k]
  BY <1>1, <1>2, <1>4
<1>7. handle' \in [Handle -> HandleSet] /\ handle'[h] = w /\ \A y \in Handle : y # h => handle'[y] = handle[y]
  BY <1>1, <1>2, <1>5
<1>8. /\ signals' \in [Name -> Sig \cup {Null}] /\ signals'[n] = g
      /\ \A m \in Name : m # n => signals'[m] = signals[m]
  BY <1>1, <1>2
<1>9. /\ sig[g].listeners = <<>>
      /\ \A d \in DOMAIN stack : ~Claims(stack[d], g)
      /\ ~Detached(stack, g)
      /\ \A m \in Name : signals[m] # g
      /\ \A y \in Handle : handle[y].st = "live" => handle[y].signal # g
  BY <1>1, UnusedSignal
<1>10. DataOK(signals', sig', handle', owner')
  BY <1>1, <1>6, <1>7, <1>8 DEF SignalInv, DataOK
<1>11. ListsOK(sig', handle')
  <2>1. ListsOK(sig, handle) /\ \A k \in Sig : sig[k].listeners \in Seq(Handle)
    BY <1>2 DEF SignalInv, SigSet
  <2>2. \A k \in Sig : \A j \in DOMAIN sig[k].listeners : sig[k].listeners[j] \in Handle /\ sig[k].listeners[j] # h
    BY <1>1, <2>1, UnusedHandle
  <2>3. ASSUME NEW k \in Sig
        PROVE  /\ sig'[k].nlisteners = Len(sig'[k].listeners)
               /\ \A i, j \in DOMAIN sig'[k].listeners :
                      sig'[k].listeners[i] = sig'[k].listeners[j] => i = j
               /\ \A j \in DOMAIN sig'[k].listeners : /\ handle'[sig'[k].listeners[j]].st = "live"
                                                      /\ handle'[sig'[k].listeners[j]].signal = k
               /\ sig'[k].listeners # <<>> => sig'[k].mem = "live"
               /\ sig'[k].mem = "live" => sig'[k].name \in Name
    <3>1. CASE k = g
      <4>1. sig'[k].mem = "live" /\ sig'[k].name = n /\ sig'[k].listeners = ls /\ sig'[k].nlisteners = 1
        BY <1>4, <1>6, <3>1
      <4>2. handle'[h].st = "live" /\ handle'[h].signal = k
        BY <1>5, <1>7, <3>1
      <4>3. \A j \in DOMAIN ls : j = 1 /\ ls[j] = h
        BY <1>3
      <4> QED BY <1>3, <4>1, <4>2, <4>3
    <3>2. CASE k # g
      BY <1>6, <1>7, <2>1, <2>2, <3>2 DEF ListsOK
    <3> QED BY <3>1, <3>2
  <2>4. ASSUME NEW y \in Handle, handle'[y].st = "live"
        PROVE  /\ handle'[y].signal \in Sig
               /\ \E j \in DOMAIN sig'[handle'[y].signal].listeners : sig'[handle'[y].signal].listeners[j] = y
    <3>1. CASE y = h
      BY <1>3, <1>4, <1>5, <1>6, <1>7, <3>1
    <3>2. CASE y # h
      <4>1. handle'[y] = handle[y] /\ handle[y].signal # g
        BY <1>7, <1>9, <2>4, <3>2
      <4> QED BY <1>6, <2>1, <2>4, <4>1 DEF ListsOK
    <3> QED BY <3>1, <3>2
  <2> QED BY <2>3, <2>4 DEF ListsOK
<1>12. ClaimsOK(sig', stack')
  <2>1. ClaimsOK(sig, stack)
    BY DEF SignalInv
  <2>2. \A d \in DOMAIN stack : stack[d].op = "stop" /\ stack[d].pc \in {"detach", "del_signal", "free"}
            => stack[d].signal \in Sig /\ stack[d].signal # g
    BY <1>9, EmitHandles DEF FrameOK, Claims
  <2>3. \A k \in Sig : k # g => sig'[k] = sig[k]
    BY <1>6
  <2>4. sig'[g].mem = "live" /\ sig'[g].listeners # <<>>
    BY <1>3, <1>4, <1>6
  <2>5. ClaimsOK(sig', stack)
    BY <1>9, <2>1, <2>2, <2>3, <2>4 DEF ClaimsOK
  <2> QED BY <1>1, <2>5
<1>13. OwnerOK(owner', stack')
  BY <1>1 DEF SignalInv
<1>14. TableOK(signals', sig', owner', stack')
  <2>1. TableOK(signals, sig, owner, stack)
    BY DEF SignalInv
  <2>2. sig'[g].mem = "live" /\ sig'[g].name = n /\ \A k \in Sig : k # g => sig'[k] = sig[k]
    BY <1>4, <1>6
  <2>3. g # Null
    BY ConstantsAssumption
  <2>4. \A m \in Name : signals'[m] # Null => /\ sig'[signals'[m]].mem = "live" /\ sig'[signals'[m]].name = m
                                              /\ ~Detached(stack, signals'[m])
    BY <1>2, <1>8, <1>9, <2>1, <2>2 DEF TableOK
  <2>5. ~Gone(owner, stack)
    BY <1>1 DEF Gone
  <2>6. \A k \in Sig : sig'[k].mem = "live" /\ ~Detached(stack, k) => signals'[sig'[k].name] = k
    <3> SUFFICES ASSUME NEW k \in Sig, sig'[k].mem = "live", ~Detached(stack, k)
                 PROVE  signals'[sig'[k].name] = k
      OBVIOUS
    <3>1. CASE k = g
      BY <1>8, <2>2, <3>1
    <3>2. CASE k # g
      <4>1. sig'[k] = sig[k] /\ signals[sig[k].name] = k /\ sig[k].name \in Name
        BY <2>1, <2>2, <2>5, <3>2 DEF TableOK, SignalInv, ListsOK
      <4>2. sig[k].name # n
        BY <1>1, <4>1, ConstantsAssumption
      <4> QED BY <1>8, <4>1, <4>2
    <3> QED BY <3>1, <3>2
  <2>7. TableOK(signals', sig', owner, stack)
    BY <2>4, <2>5, <2>6 DEF TableOK
  <2> QED BY <1>1, <2>7
<1>15. /\ StopsOK(handle', stack') /\ SnapshotsOK(handle', stack')
       /\ \A d \in DOMAIN stack' : OrderOK(stack'[d])
       /\ \A y : Waiting(stack', y) = Waiting(stack, y)
  <2>1. SameEmits(stack, stack') /\ SameStops(stack, stack') /\ stack' \in Seq(FrameSet)
    BY <1>1, <1>2 DEF SameEmits, SameStops
  <2>2. /\ \A y \in Handle : handle[y].st # "unused" => /\ handle'[y].st # "unused"
                                                        /\ handle'[y].st = "live" <=> handle[y].st = "live"
        /\ \A y \in Handle : handle'[y].st = "dying" <=> handle[y].st = "dying"
    BY <1>1, <1>5, <1>7
  <2> QED BY <2>1, <2>2, QuietStep
<1>16. WeakOK(handle', stack')
  <2>2. ASSUME NEW y \in Handle
        PROVE  /\ handle'[y].weak >= Cardinality(Waiting(stack', y)) + (IF Entry(handle', stack', y) THEN 1 ELSE 0)
               /\ handle'[y].st = "freed" => handle'[y].weak = 0
    <3>1. CASE y = h
      <4>1. Waiting(stack', h) = {}
        BY <1>1, <1>15, UnusedHandle
      <4>2. Cardinality(Waiting(stack', h)) = 0
        BY <4>1, FS_EmptySet
      <4> QED BY <1>5, <1>7, <3>1, <4>2
    <3>2. CASE y # h
      <4>1. handle'[y] = handle[y] /\ (Entry(handle', stack', y) => Entry(handle, stack, y))
        BY <1>1, <1>7, <3>2 DEF Entry
      <4> QED BY <1>15, <4>1, QuietWeak
    <3> QED BY <3>1, <3>2
  <2> QED BY <2>2 DEF WeakOK
<1>17. CallsOK(stack')
  BY <1>1, <1>2
<1> QED BY <1>10, <1>11, <1>12, <1>13, <1>14, <1>15, <1>16, <1>17 DEF SignalInv

\* A signal is entered in the table, and __new_signal is called before its listener is attached.
LEMMA ListenNewInv ==
    ASSUME SignalInv, NEW n \in Name, NEW g \in Sig, ListenNew(n, g)
    PROVE  SignalInv'
<1> DEFINE N == Len(stack)
           ls == <<>>
           r == [mem |-> "live", name |-> n, listeners |-> ls, nlisteners |-> 0]
           f == CallFrame("listen", "new_signal", g, Null, FALSE, <<>>)
<1>1. /\ ~owner.destroyed /\ signals[n] = Null /\ sig[g].mem = "unused" /\ UserCode /\ N < MaxDepth
      /\ signals' = [signals EXCEPT ![n] = g] /\ sig' = [sig EXCEPT ![g] = r]
      /\ stack' = Append(stack, f) /\ UNCHANGED <<handle, owner>>
  BY DEF ListenNew, CanListen, MayCall, EmptySig
<1>2. /\ sig \in [Sig -> SigSet] /\ handle \in [Handle -> HandleSet] /\ signals \in [Name -> Sig \cup {Null}]
      /\ CallsOK(stack) /\ stack \in Seq(FrameSet)
  BY DEF SignalInv, DataOK, CallsOK
<1>3. ls \in Seq(Handle) /\ Len(ls) = 0 /\ DOMAIN ls = {} /\ ls = <<>>
  OBVIOUS
<1> HIDE DEF ls
<1>4. r \in SigSet /\ r.mem = "live" /\ r.name = n /\ r.listeners = ls /\ r.nlisteners = 0
  BY <1>3 DEF SigSet
<1> HIDE DEF r
<1>a. ListensTo(f, g)
  BY ListenFrame
<1> HIDE DEF f
<1>5. /\ f \in FrameSet /\ f.op = "listen" /\ f.pc = "new_signal" /\ f.signal = g /\ f.pin = FALSE
  BY ONLY <1>a DEF ListensTo
<1>6. sig' \in [Sig -> SigSet] /\ sig'[g] = r /\ \A k \in Sig : k # g => sig'[k] = sig[k]
  BY <1>1, <1>2, <1>4
<1>7. FrameOK(f)
  BY <1>5 DEF FrameOK
<1>8. /\ signals' \in [Name -> Sig \cup {Null}] /\ signals'[n] = g
      /\ \A m \in Name : m # n => signals'[m] = signals[m]
  BY <1>1, <1>2
<1>9. /\ sig[g].listeners = <<>>
      /\ \A d \in DOMAIN stack : ~Claims(stack[d], g)
      /\ ~Detached(stack, g)
      /\ \A m \in Name : signals[m] # g
      /\ \A y \in Handle : handle[y].st = "live" => handle[y].signal # g
  BY <1>1, UnusedSignal
<1>10. CallsOK(stack')
  BY <1>1, <1>2, <1>5, <1>7, PushCalls, UserFrames
<1>11. /\ stack' \in Seq(FrameSet) /\ N \in Nat /\ Len(stack') = N + 1
       /\ DOMAIN stack = 1..N /\ DOMAIN stack' = 1..(N + 1)
       /\ \A d \in DOMAIN stack : stack'[d] = stack[d]
       /\ stack'[N + 1] = f
  BY <1>1, <1>2, <1>5, PushFacts
<1> HIDE DEF N
<1>12. /\ \A d \in DOMAIN stack : d \in DOMAIN stack' /\ stack'[d] = stack[d] /\ d # N + 1
       /\ \A d \in DOMAIN stack' : d # N + 1 => d \in DOMAIN stack /\ stack'[d] = stack[d]
       /\ N + 1 \in DOMAIN stack'
  BY <1>11
<1>13. DataOK(signals', sig', handle', owner')
  BY <1>1, <1>6, <1>8 DEF SignalInv, DataOK
<1>14. ListsOK(sig', handle')
  <2>1. ListsOK(sig, handle)
    BY DEF SignalInv
  <2>2. sig'[g].mem = "live" /\ sig'[g].name = n /\ sig'[g].listeners = <<>> /\ sig'[g].nlisteners = 0
    BY <1>3, <1>4, <1>6
  <2>3. ASSUME NEW k \in Sig
        PROVE  /\ sig'[k].nlisteners = Len(sig'[k].listeners)
               /\ \A i, j \in DOMAIN sig'[k].listeners :
                      sig'[k].listeners[i] = sig'[k].listeners[j] => i = j
               /\ \A j \in DOMAIN sig'[k].listeners : /\ handle[sig'[k].listeners[j]].st = "live"
                                                      /\ handle[sig'[k].listeners[j]].signal = k
               /\ sig'[k].listeners # <<>> => sig'[k].mem = "live"
               /\ sig'[k].mem = "live" => sig'[k].name \in Name
    <3>1. CASE k = g
      BY <2>2, <3>1
    <3>2. CASE k # g
      BY <1>6, <2>1, <3>2 DEF ListsOK
    <3> QED BY <3>1, <3>2
  <2>4. ASSUME NEW y \in Handle, handle[y].st = "live"
        PROVE  /\ handle[y].signal \in Sig
               /\ \E j \in DOMAIN sig'[handle[y].signal].listeners : sig'[handle[y].signal].listeners[j] = y
    <3>1. handle[y].signal # g
      BY <1>9, <2>4
    <3> QED BY <1>6, <2>1, <2>4, <3>1 DEF ListsOK
  <2>5. ListsOK(sig', handle)
    BY <2>3, <2>4 DEF ListsOK
  <2> QED BY <1>1, <2>5
<1>15. ClaimsOK(sig', stack')
  <2>1. ClaimsOK(sig, stack)
    BY DEF SignalInv
  <2>2. sig'[g].mem = "live" /\ \A k \in Sig : k # g => sig'[k] = sig[k]
    BY <1>4, <1>6
  <2>3. \A k \in Sig : Claims(stack'[N + 1], k) <=> k = g
    BY <1>5, <1>11 DEF Claims
  <2>4. \A k \in Sig, d \in DOMAIN stack' : Claims(stack'[d], k) => sig'[k].mem = "live"
    BY <1>9, <1>12, <2>1, <2>2, <2>3 DEF ClaimsOK
  <2>5. \A k \in Sig : sig'[k].mem = "live" /\ sig'[k].listeners = <<>> => \E d \in DOMAIN stack' : Claims(stack'[d], k)
    <3> SUFFICES ASSUME NEW k \in Sig, sig'[k].mem = "live", sig'[k].listeners = <<>>
                 PROVE  \E d \in DOMAIN stack' : Claims(stack'[d], k)
      OBVIOUS
    <3>1. CASE k = g
      BY <1>12, <2>3, <3>1
    <3>2. CASE k # g
      <4>1. PICK d \in DOMAIN stack : Claims(stack[d], k)
        BY <2>1, <2>2, <3>2 DEF ClaimsOK
      <4> QED BY <1>12, <4>1
    <3> QED BY <3>1, <3>2
  <2>6. \A k \in Sig, d, e \in DOMAIN stack' :
           Claims(stack'[d], k) /\ Claims(stack'[e], k) /\ sig'[k].listeners = <<>> => d = e
    <3> SUFFICES ASSUME NEW k \in Sig, NEW d \in DOMAIN stack', NEW e \in DOMAIN stack',
                        Claims(stack'[d], k), Claims(stack'[e], k), sig'[k].listeners = <<>>
                 PROVE  d = e
      OBVIOUS
    <3>1. CASE k = g
      BY <1>9, <1>12, <3>1
    <3>2. CASE k # g
      <4>1. d \in DOMAIN stack /\ e \in DOMAIN stack /\ Claims(stack[d], k) /\ Claims(stack[e], k)
        BY <1>12, <2>3, <3>2
      <4> QED BY <2>1, <2>2, <3>2, <4>1 DEF ClaimsOK
    <3> QED BY <3>1, <3>2
  <2>7. ASSUME NEW d \in DOMAIN stack', stack'[d].op = "stop", stack'[d].pc \in {"detach", "del_signal", "free"}
        PROVE  sig'[stack'[d].signal].listeners = <<>>
    <3>1. d \in DOMAIN stack /\ stack'[d] = stack[d]
      BY <1>5, <1>11, <1>12, <2>7
    <3>2. stack[d].signal \in Sig /\ stack[d].signal # g
      BY <1>9, <2>7, <3>1, EmitHandles DEF FrameOK, Claims
    <3> QED BY <2>1, <2>2, <2>7, <3>1, <3>2 DEF ClaimsOK
  <2> QED BY <2>4, <2>5, <2>6, <2>7 DEF ClaimsOK
<1>16. OwnerOK(owner', stack')
  <2>1. OwnerOK(owner, stack)
    BY DEF SignalInv
  <2>2. Pinned(stack) => Pinned(stack')
    BY <1>12 DEF Pinned
  <2>3. Destroying(stack') => Destroying(stack)
    BY <1>5, <1>11, <1>12 DEF Destroying
  <2>4. \A d, e \in DOMAIN stack' : stack'[d].op = "destroy" /\ stack'[e].op = "destroy" => d = e
    BY <1>5, <1>11, <1>12, <2>1 DEF OwnerOK
  <2> QED BY <1>1, <2>1, <2>2, <2>3, <2>4 DEF OwnerOK
<1>17. TableOK(signals', sig', owner', stack')
  <2>1. TableOK(signals, sig, owner, stack)
    BY DEF SignalInv
  <2>2. sig'[g].mem = "live" /\ sig'[g].name = n /\ \A k \in Sig : k # g => sig'[k] = sig[k]
    BY <1>4, <1>6
  <2>3. \A k : Detached(stack', k) <=> Detached(stack, k)
    BY <1>5, <1>11, <1>12 DEF Detached
  <2>4. \A m \in Name : signals'[m] # Null => /\ sig'[signals'[m]].mem = "live" /\ sig'[signals'[m]].name = m
                                              /\ ~Detached(stack, signals'[m])
    BY <1>2, <1>8, <1>9, <2>1, <2>2 DEF TableOK
  <2>5. ~Gone(owner, stack) /\ ~Gone(owner, stack')
    BY <1>1 DEF Gone
  <2>6. \A k \in Sig : sig'[k].mem = "live" /\ ~Detached(stack, k) => signals'[sig'[k].name] = k
    <3> SUFFICES ASSUME NEW k \in Sig, sig'[k].mem = "live", ~Detached(stack, k)
                 PROVE  signals'[sig'[k].name] = k
      OBVIOUS
    <3>1. CASE k = g
      BY <1>8, <2>2, <3>1
    <3>2. CASE k # g
      <4>1. sig'[k] = sig[k] /\ signals[sig[k].name] = k /\ sig[k].name \in Name
        BY <2>1, <2>2, <2>5, <3>2 DEF TableOK, SignalInv, ListsOK
      <4>2. sig[k].name # n
        BY <1>1, <4>1, ConstantsAssumption
      <4> QED BY <1>8, <4>1, <4>2
    <3> QED BY <3>1, <3>2
  <2>7. TableOK(signals', sig', owner, stack')
    BY <2>3, <2>4, <2>5, <2>6 DEF TableOK
  <2> QED BY <1>1, <2>7
<1>18. SameEmits(stack, stack') /\ SameStops(stack, stack')
  BY <1>5, <1>11, <1>12 DEF SameEmits, SameStops
<1>19. /\ StopsOK(handle', stack') /\ SnapshotsOK(handle', stack')
       /\ \A d \in DOMAIN stack' : OrderOK(stack'[d])
       /\ \A y : Waiting(stack', y) = Waiting(stack, y)
  BY <1>1, <1>11, <1>18, QuietStep
<1>20. WeakOK(handle', stack')
  <2>1. ASSUME NEW y \in Handle
        PROVE  handle'[y] = handle[y] /\ (Entry(handle', stack', y) => Entry(handle, stack, y))
    BY <1>1, <1>5, <1>11, <1>12 DEF Entry
  <2> QED BY <1>19, <2>1, QuietWeak DEF WeakOK
<1> QED BY <1>10, <1>13, <1>14, <1>15, <1>16, <1>17, <1>19, <1>20 DEF SignalInv

-----------------------------------------------------------------------------
(* di_listen_handle_dtor *)

\* The innermost call goes on as f.
ReplacesTop(t, f) ==
    /\ t \in Seq(FrameSet) /\ DOMAIN t = DOMAIN stack
    /\ \A d \in DOMAIN stack : t[d] = IF d = Len(stack) THEN f ELSE stack[d]

\* The destruction of a handle, as the innermost call.
LEMMA StopTop ==
    ASSUME SignalInv, NEW p, InFrame("stop", p)
    PROVE  /\ stack # <<>> /\ stack \in Seq(FrameSet) /\ Len(stack) \in Nat \ {0} /\ Len(stack) <= MaxDepth
           /\ DOMAIN stack = 1..Len(stack) /\ Len(stack) \in DOMAIN stack /\ Top = stack[Len(stack)]
           /\ Top \in FrameSet /\ FrameOK(Top) /\ Top.op = "stop" /\ Top.pc = p /\ p \in StopPc
           /\ Top.signal \in Sig /\ Top.h \in Handle /\ handle[Top.h].st = "dying"
<1>1. stack # <<>> /\ Top.op = "stop" /\ Top.pc = p
  BY DEF InFrame
<1>2. stack \in Seq(FrameSet) /\ Len(stack) \in Nat \ {0} /\ DOMAIN stack = 1..Len(stack)
      /\ Len(stack) \in DOMAIN stack /\ Top = stack[Len(stack)]
  BY <1>1 DEF SignalInv, CallsOK, Top
<1>3. Top \in FrameSet /\ FrameOK(Top)
  BY <1>2 DEF SignalInv, CallsOK
<1>4. Len(stack) <= MaxDepth
  BY <1>1, <1>2, ConstantsAssumption DEF SignalInv, CallsOK
<1>5. p \in StopPc /\ Top.signal \in Sig /\ Top.h \in Handle
  BY <1>1, <1>3 DEF FrameOK
<1>6. handle[Top.h].st = "dying"
  BY <1>1, <1>2 DEF SignalInv, StopsOK
<1> QED BY <1>1, <1>2, <1>3, <1>4, <1>5, <1>6

\* The frames that SetPc and SetPcPin make of it.
LEMMA SetPcFacts ==
    ASSUME stack \in Seq(FrameSet), stack # <<>>, NEW p \in StopPc
    PROVE  \E f \in FrameSet : /\ ReplacesTop(SetPc(p), f)
                               /\ f.op = Top.op /\ f.pc = p /\ f.signal = Top.signal /\ f.h = Top.h
                               /\ f.pin = Top.pin
<1> DEFINE f == [Top EXCEPT !.pc = p]
           t == SetPc(p)
<1>1. Top \in FrameSet
  BY DEF Top
<1>2. p \in UserPc \cup StopPc \cup {"next"}
  OBVIOUS
<1>3. f \in FrameSet /\ f.op = Top.op /\ f.pc = p /\ f.signal = Top.signal /\ f.h = Top.h /\ f.pin = Top.pin
  BY <1>1, <1>2 DEF FrameSet
<1>4. t = [stack EXCEPT ![Len(stack)] = f]
  BY DEF SetPc, Top
<1> HIDE DEF f, t
<1>5. ReplacesTop(t, f)
  BY <1>3, <1>4, TopFacts DEF ReplacesTop
<1> QED BY <1>3, <1>5 DEF t

\* The same when the reference to the owner is taken or released too.
LEMMA SetPcPinFacts ==
    ASSUME stack \in Seq(FrameSet), stack # <<>>, NEW p \in StopPc, NEW b \in BOOLEAN
    PROVE  \E f \in FrameSet : /\ ReplacesTop(SetPcPin(p, b), f)
                               /\ f.op = Top.op /\ f.pc = p /\ f.signal = Top.signal /\ f.h = Top.h
                               /\ f.pin = b
<1> DEFINE f == [Top EXCEPT !.pc = p, !.pin = b]
           t == SetPcPin(p, b)
<1>1. Top \in FrameSet
  BY DEF Top
<1>2. p \in UserPc \cup StopPc \cup {"next"}
  OBVIOUS
<1>3. f \in FrameSet /\ f.op = Top.op /\ f.pc = p /\ f.signal = Top.signal /\ f.h = Top.h /\ f.pin = b
  BY <1>1, <1>2 DEF FrameSet
<1>4. t = [stack EXCEPT ![Len(stack)] = f]
  BY DEF SetPcPin, Top
<1> HIDE DEF f, t
<1>5. ReplacesTop(t, f)
  BY <1>3, <1>4, TopFacts DEF ReplacesTop
<1> QED BY <1>3, <1>5 DEF t

\* It stays one destruction of the same handle.
LEMMA StopTopStep ==
    ASSUME SignalInv, NEW p, InFrame("stop", p), NEW f \in FrameSet, NEW t, ReplacesTop(t, f),
           f.op = "stop", f.h = Top.h, FrameOK(f)
    PROVE  CallsOK(t) /\ SameEmits(stack, t) /\ SameStops(stack, t) /\ Len(t) = Len(stack)
<1>1. /\ stack \in Seq(FrameSet) /\ Len(stack) \in Nat \ {0} /\ DOMAIN stack = 1..Len(stack)
      /\ Top = stack[Len(stack)] /\ Top.op = "stop" /\ Len(stack) <= MaxDepth /\ CallsOK(stack)
  BY StopTop DEF SignalInv
<1>2. /\ t \in Seq(FrameSet) /\ DOMAIN t = DOMAIN stack
      /\ \A d \in DOMAIN stack : t[d] = IF d = Len(stack) THEN f ELSE stack[d]
  BY DEF ReplacesTop
<1>3. Len(t) = Len(stack)
  BY <1>1, <1>2
<1>4. CallsOK(t)
  BY <1>1, <1>2, <1>3, ConstantsAssumption DEF CallsOK
<1>5. SameEmits(stack, t)
  BY <1>1, <1>2 DEF SameEmits
<1>6. SameStops(stack, t)
  BY <1>1, <1>2 DEF SameStops
<1> QED BY <1>3, <1>4, <1>5, <1>6

\* Claims, references to the object and the table, when the call keeps what it had of them.
LEMMA TopClaims ==
    ASSUME SignalInv, stack # <<>>, NEW f, NEW t, ReplacesTop(t, f), f.signal = Top.signal,
           \A k \in Sig : Claims(f, k) <=> Claims(Top, k),
           f.op = "stop" /\ f.pc \in {"detach", "del_signal", "free"} => sig[f.signal].listeners = <<>>
    PROVE  ClaimsOK(sig, t)
<1>1. ClaimsOK(sig, stack) /\ Top = stack[Len(stack)]
  BY DEF SignalInv, Top
<1>2. DOMAIN t = DOMAIN stack /\ \A d \in DOMAIN stack : t[d] = IF d = Len(stack) THEN f ELSE stack[d]
  BY DEF ReplacesTop
<1>3. \A k \in Sig, d \in DOMAIN stack : Claims(t[d], k) <=> Claims(stack[d], k)
  BY <1>1, <1>2
<1>4. \A d \in DOMAIN t : t[d].op = "stop" /\ t[d].pc \in {"detach", "del_signal", "free"}
                            => sig[t[d].signal].listeners = <<>>
  BY <1>1, <1>2 DEF ClaimsOK
<1> QED BY <1>1, <1>2, <1>3, <1>4 DEF ClaimsOK

\* The owner, when the innermost call goes on and takes or releases no reference to it.
LEMMA TopOwner ==
    ASSUME SignalInv, stack # <<>>, NEW f, NEW t, ReplacesTop(t, f), f.op = "stop", Top.op = "stop",
           f.pin = Top.pin
    PROVE  OwnerOK(owner, t)
<1>1. OwnerOK(owner, stack) /\ Top = stack[Len(stack)]
  BY DEF SignalInv, Top
<1>2. DOMAIN t = DOMAIN stack /\ \A d \in DOMAIN stack : t[d] = IF d = Len(stack) THEN f ELSE stack[d]
  BY DEF ReplacesTop
<1>3. \A d \in DOMAIN stack : t[d].pin = stack[d].pin /\ (t[d].op = "destroy" <=> stack[d].op = "destroy")
  BY <1>1, <1>2
<1>4. Pinned(t) <=> Pinned(stack)
  BY <1>2, <1>3 DEF Pinned
<1>5. Destroying(t) <=> Destroying(stack)
  BY <1>2, <1>3 DEF Destroying
<1> QED BY <1>1, <1>2, <1>3, <1>4, <1>5 DEF OwnerOK

\* The signals that are detached, when the innermost call goes on.
LEMMA TopDetached ==
    ASSUME SignalInv, NEW f, NEW t, ReplacesTop(t, f), NEW p, InFrame("stop", p), f.op = "stop", f.signal = Top.signal
    PROVE  /\ Destroying(t) <=> Destroying(stack)
           /\ \A k : k # Top.signal => (Detached(t, k) <=> Detached(stack, k))
           /\ f.pc \in {"del_signal", "free"} => Detached(t, Top.signal)
           /\ (f.pc \in {"del_signal", "free"} <=> Top.pc \in {"del_signal", "free"})
                  => (Detached(t, Top.signal) <=> Detached(stack, Top.signal))
<1>1. Len(stack) \in DOMAIN stack /\ Top = stack[Len(stack)] /\ Top.op = "stop"
  BY StopTop
<1>2. DOMAIN t = DOMAIN stack /\ \A d \in DOMAIN stack : t[d] = IF d = Len(stack) THEN f ELSE stack[d]
  BY DEF ReplacesTop
<1>3. Destroying(t) <=> Destroying(stack)
  BY <1>1, <1>2 DEF Destroying
<1>4. \A k : k # Top.signal => (Detached(t, k) <=> Detached(stack, k))
  BY <1>1, <1>2 DEF Detached
<1>5. f.pc \in {"del_signal", "free"} => Detached(t, Top.signal)
  BY <1>1, <1>2 DEF Detached
<1>6. (f.pc \in {"del_signal", "free"} <=> Top.pc \in {"del_signal", "free"})
                  => (Detached(t, Top.signal) <=> Detached(stack, Top.signal))
  BY <1>1, <1>2 DEF Detached
<1> QED BY <1>3, <1>4, <1>5, <1>6

\* The table, when the innermost call goes on and detaches nothing.
LEMMA TopTable ==
    ASSUME SignalInv, NEW f, NEW t, ReplacesTop(t, f), NEW p, InFrame("stop", p), f.op = "stop", f.signal = Top.signal,
           f.pc \in {"del_signal", "free"} <=> Top.pc \in {"del_signal", "free"}
    PROVE  TableOK(signals, sig, owner, t)
<1>1. (Destroying(t) <=> Destroying(stack)) /\ \A k : Detached(t, k) <=> Detached(stack, k)
  BY TopDetached
<1>2. TableOK(signals, sig, owner, stack)
  BY DEF SignalInv
<1> QED BY <1>1, <1>2 DEF TableOK, Gone

\* The counts, when no entry goes.
LEMMA TopWeak ==
    ASSUME SignalInv, UNCHANGED handle, NEW f, NEW p, InFrame("stop", p), ReplacesTop(stack', f), f.op = "stop",
           f.h = Top.h, p # "members", \A h : Waiting(stack', h) = Waiting(stack, h)
    PROVE  WeakOK(handle', stack')
<1>1. Len(stack) \in DOMAIN stack /\ Top = stack[Len(stack)] /\ Top.op = "stop" /\ Top.pc = p
  BY StopTop
<1>2. DOMAIN stack' = DOMAIN stack /\ \A d \in DOMAIN stack : stack'[d] = IF d = Len(stack) THEN f ELSE stack[d]
  BY DEF ReplacesTop
<1>3. \A h \in Handle : Entry(handle', stack', h) => Entry(handle, stack, h)
  <2> SUFFICES ASSUME NEW h \in Handle, NEW d \in DOMAIN stack', stack'[d].op = "stop",
                      stack'[d].h = h, stack'[d].pc # "members"
               PROVE  Entry(handle, stack, h)
    BY DEF Entry
  <2>1. stack[d].op = "stop" /\ stack[d].h = h /\ stack[d].pc # "members"
    BY <1>1, <1>2
  <2> QED BY <1>2, <2>1 DEF Entry
<1> QED BY <1>3, QuietWeak DEF WeakOK

\* What remains to be shown of a step of a destruction that leaves the handles alone.
LEMMA StopStep ==
    ASSUME SignalInv, NEW p, InFrame("stop", p), p # "members", UNCHANGED <<sig, handle, owner>>,
           NEW f \in FrameSet, ReplacesTop(stack', f), f.op = "stop", f.h = Top.h, FrameOK(f),
           signals' \in [Name -> Sig \cup {Null}], ClaimsOK(sig, stack'), OwnerOK(owner, stack'),
           TableOK(signals', sig, owner, stack')
    PROVE  SignalInv'
<1>1. CallsOK(stack') /\ SameEmits(stack, stack') /\ SameStops(stack, stack')
  BY StopTopStep
<1>2. stack' \in Seq(FrameSet)
  BY DEF ReplacesTop
<1>3. /\ StopsOK(handle', stack') /\ SnapshotsOK(handle', stack')
      /\ \A d \in DOMAIN stack' : OrderOK(stack'[d])
      /\ \A y : Waiting(stack', y) = Waiting(stack, y)
  BY <1>1, <1>2, QuietStep
<1>4. WeakOK(handle', stack')
  BY <1>3, TopWeak
<1>5. DataOK(signals', sig', handle', owner') /\ ListsOK(sig', handle')
  BY DEF SignalInv, DataOK
<1>6. ClaimsOK(sig', stack') /\ OwnerOK(owner', stack') /\ TableOK(signals', sig', owner', stack')
  OBVIOUS
<1> QED BY <1>1, <1>3, <1>4, <1>5, <1>6 DEF SignalInv

\* __del_signal has returned.
LEMMA DelSignalReturnsInv == ASSUME SignalInv, DelSignalReturns PROVE SignalInv'
<1>1. InFrame("stop", "del_signal") /\ stack' = SetPc("free") /\ UNCHANGED <<signals, sig, handle, owner>>
  BY DEF DelSignalReturns
<1>2. /\ stack # <<>> /\ stack \in Seq(FrameSet) /\ Len(stack) \in DOMAIN stack /\ Top = stack[Len(stack)]
      /\ FrameOK(Top) /\ Top.op = "stop" /\ Top.pc = "del_signal" /\ Top.signal \in Sig /\ Top.h \in Handle
  BY <1>1, StopTop
<1>3. "free" \in StopPc
  BY DEF StopPc
<1>4. PICK f \in FrameSet : /\ ReplacesTop(stack', f) /\ f.op = "stop" /\ f.pc = "free"
                            /\ f.signal = Top.signal /\ f.h = Top.h /\ f.pin = Top.pin
  BY <1>1, <1>2, <1>3, SetPcFacts
<1>5. FrameOK(f)
  BY <1>2, <1>3, <1>4 DEF FrameOK
<1>6. sig[Top.signal].listeners = <<>>
  BY <1>2 DEF SignalInv, ClaimsOK
<1>7. ClaimsOK(sig, stack')
  <2>1. \A k \in Sig : Claims(f, k) <=> Claims(Top, k)
    BY <1>2, <1>4 DEF Claims
  <2> QED BY <1>2, <1>4, <1>6, <2>1, TopClaims
<1>8. OwnerOK(owner, stack')
  BY <1>2, <1>4, TopOwner
<1>9. TableOK(signals, sig, owner, stack')
  BY <1>1, <1>2, <1>4, TopTable
<1>10. signals' \in [Name -> Sig \cup {Null}] /\ TableOK(signals', sig, owner, stack')
  BY <1>1, <1>9 DEF SignalInv, DataOK
<1> QED BY <1>1, <1>4, <1>5, <1>7, <1>8, <1>10, StopStep

\* A signal that is to be detached is in the table: its owner was referenced when its last
\* listener was unlinked.
LEMMA DetachInTable ==
    ASSUME SignalInv, InFrame("stop", "detach")
    PROVE  /\ sig[Top.signal].mem = "live" /\ sig[Top.signal].listeners = <<>>
           /\ sig[Top.signal].name \in Name /\ signals[sig[Top.signal].name] = Top.signal
<1> DEFINE n == Len(stack)
           g == Top.signal
<1>1. /\ n \in DOMAIN stack /\ Top = stack[n] /\ FrameOK(Top) /\ Top.op = "stop" /\ Top.pc = "detach" /\ g \in Sig
  BY StopTop
<1> HIDE DEF n
<1>2. Claims(stack[n], g)
  BY <1>1 DEF Claims
<1>3. sig[g].mem = "live" /\ sig[g].listeners = <<>>
  BY <1>1, <1>2 DEF SignalInv, ClaimsOK
<1>4. sig[g].name \in Name
  BY <1>1, <1>3 DEF SignalInv, ListsOK
<1>5. ~Gone(owner, stack)
  <2>1. stack[n].pin
    BY <1>1 DEF FrameOK
  <2> QED BY <1>1, <2>1 DEF SignalInv, OwnerOK, Gone, Destroying
<1>6. ~Detached(stack, g)
  <2> SUFFICES ASSUME NEW d \in DOMAIN stack, stack[d].op = "stop", stack[d].signal = g,
                      stack[d].pc \in {"del_signal", "free"}
               PROVE  FALSE
    BY DEF Detached
  <2>1. Claims(stack[d], g)
    BY DEF Claims
  <2>2. d = n
    BY <1>1, <1>2, <1>3, <2>1 DEF SignalInv, ClaimsOK
  <2> QED BY <1>1, <2>2
<1>7. signals[sig[g].name] = g
  BY <1>1, <1>3, <1>5, <1>6 DEF SignalInv, TableOK
<1> QED BY <1>3, <1>4, <1>7

\* The signal leaves the table.
LEMMA DetachSignalInv == ASSUME SignalInv, DetachSignal PROVE SignalInv'
<1> DEFINE p == IF sig[Top.signal].name \in Internal THEN "free" ELSE "del_signal"
           g == Top.signal
           n == sig[g].name
<1>1. /\ InFrame("stop", "detach") /\ stack' = SetPc(p) /\ signals' = [signals EXCEPT ![n] = Null]
      /\ UNCHANGED <<sig, handle, owner>>
  BY DEF DetachSignal
<1>2. /\ stack # <<>> /\ stack \in Seq(FrameSet) /\ Len(stack) \in DOMAIN stack /\ Top = stack[Len(stack)]
      /\ FrameOK(Top) /\ Top.op = "stop" /\ Top.pc = "detach" /\ g \in Sig /\ Top.h \in Handle
  BY <1>1, StopTop
<1>3. p \in StopPc /\ p \in {"free", "del_signal"}
  BY DEF StopPc
<1> HIDE DEF p
<1>4. PICK f \in FrameSet : /\ ReplacesTop(stack', f) /\ f.op = "stop" /\ f.pc = p
                            /\ f.signal = g /\ f.h = Top.h /\ f.pin = Top.pin
  BY <1>1, <1>2, <1>3, SetPcFacts
<1>5. FrameOK(f)
  BY <1>2, <1>3, <1>4 DEF FrameOK
<1>6. sig[g].mem = "live" /\ sig[g].listeners = <<>> /\ n \in Name /\ signals[n] = g
  BY <1>1, DetachInTable
<1>7. ClaimsOK(sig, stack')
  <2>1. \A k \in Sig : Claims(f, k) <=> Claims(Top, k)
    BY <1>2, <1>3, <1>4 DEF Claims
  <2> QED BY <1>2, <1>4, <1>6, <2>1, TopClaims
<1>8. OwnerOK(owner, stack')
  BY <1>2, <1>4, TopOwner
<1>9. signals \in [Name -> Sig \cup {Null}]
  BY DEF SignalInv, DataOK
<1> HIDE DEF n
<1>10. signals' \in [Name -> Sig \cup {Null}] /\ signals'[n] = Null /\ \A m \in Name : m # n => signals'[m] = signals[m]
  BY <1>1, <1>6, <1>9
<1>11. TableOK(signals', sig, owner, stack')
  <2>1. /\ Destroying(stack') <=> Destroying(stack)
        /\ \A k : k # g => (Detached(stack', k) <=> Detached(stack, k))
        /\ Detached(stack', g)
    BY <1>1, <1>2, <1>3, <1>4, TopDetached
  <2>2. TableOK(signals, sig, owner, stack) /\ ListsOK(sig, handle)
    BY DEF SignalInv
  <2>3. \A m \in Name : signals'[m] # Null => /\ sig[signals'[m]].mem = "live" /\ sig[signals'[m]].name = m
                                              /\ ~Detached(stack', signals'[m])
    <3> SUFFICES ASSUME NEW m \in Name, signals'[m] # Null
                 PROVE  /\ sig[signals'[m]].mem = "live" /\ sig[signals'[m]].name = m
                        /\ ~Detached(stack', signals'[m])
      OBVIOUS
    <3>1. m # n /\ signals'[m] = signals[m]
      BY <1>10
    <3>2. sig[signals[m]].mem = "live" /\ sig[signals[m]].name = m /\ ~Detached(stack, signals[m])
      BY <2>2, <3>1 DEF TableOK
    <3>3. signals[m] # g
      BY <3>1, <3>2 DEF n
    <3> QED BY <2>1, <3>1, <3>2, <3>3
  <2>4. Gone(owner, stack') => \A m \in Name : signals'[m] = Null
    BY <1>10, <2>1, <2>2 DEF TableOK, Gone
  <2>5. ASSUME NEW k \in Sig, sig[k].mem = "live", ~Gone(owner, stack'), ~Detached(stack', k)
        PROVE  signals'[sig[k].name] = k
    <3>1. k # g /\ ~Detached(stack, k) /\ ~Gone(owner, stack)
      BY <2>1, <2>5 DEF Gone
    <3>2. signals[sig[k].name] = k /\ sig[k].name \in Name
      BY <2>2, <2>5, <3>1 DEF TableOK, ListsOK
    <3> QED BY <1>6, <1>10, <3>1, <3>2
  <2> QED BY <2>3, <2>4, <2>5 DEF TableOK
<1> QED BY <1>1, <1>4, <1>5, <1>7, <1>8, <1>10, <1>11, StopStep

\* The last listener is unlinked or not; the owner is referenced or destroyed.
LEMMA CheckLastInv == ASSUME SignalInv, CheckLast PROVE SignalInv'
<1> DEFINE g == Top.signal
<1>1. InFrame("stop", "unlinked") /\ UNCHANGED <<signals, sig, handle, owner>>
  BY DEF CheckLast
<1>2. /\ stack # <<>> /\ stack \in Seq(FrameSet) /\ Len(stack) \in DOMAIN stack /\ Top = stack[Len(stack)]
      /\ FrameOK(Top) /\ Top.op = "stop" /\ Top.pc = "unlinked" /\ g \in Sig /\ Top.h \in Handle
      /\ DOMAIN stack = 1..Len(stack) /\ Len(stack) \in Nat
  BY <1>1, StopTop
<1>3. ~Top.pin
  BY <1>2 DEF FrameOK
<1>4. /\ "entry" \in StopPc /\ "detach" \in StopPc /\ "free" \in StopPc
  BY DEF StopPc
<1>5. signals' \in [Name -> Sig \cup {Null}] /\ signals' = signals /\ TableOK(signals, sig, owner, stack)
      /\ ClaimsOK(sig, stack) /\ OwnerOK(owner, stack)
  BY <1>1 DEF SignalInv, DataOK
<1>6. CASE sig[g].listeners # <<>>
  <2>1. stack' = SetPc("entry")
    BY <1>6 DEF CheckLast
  <2>2. PICK f \in FrameSet : /\ ReplacesTop(stack', f) /\ f.op = "stop" /\ f.pc = "entry"
                              /\ f.signal = g /\ f.h = Top.h /\ f.pin = Top.pin
    BY <1>2, <1>4, <2>1, SetPcFacts
  <2>3. FrameOK(f)
    BY <1>2, <1>3, <1>4, <2>2 DEF FrameOK
  <2>4. ClaimsOK(sig, stack')
    <3>1. DOMAIN stack' = DOMAIN stack
          /\ \A d \in DOMAIN stack : stack'[d] = IF d = Len(stack) THEN f ELSE stack[d]
      BY <2>2 DEF ReplacesTop
    <3>2. \A k \in Sig, d \in DOMAIN stack : Claims(stack'[d], k) => Claims(stack[d], k)
      BY <2>2, <3>1 DEF Claims
    <3>3. \A k \in Sig, d \in DOMAIN stack : Claims(stack[d], k) /\ k # g => Claims(stack'[d], k)
      BY <1>2, <3>1 DEF Claims
    <3>4. \A d \in DOMAIN stack' : stack'[d].op = "stop" /\ stack'[d].pc \in {"detach", "del_signal", "free"}
                            => sig[stack'[d].signal].listeners = <<>>
      BY <1>5, <2>2, <3>1 DEF ClaimsOK
    <3>5. \A k \in Sig : sig[k].mem = "live" /\ sig[k].listeners = <<>> => \E d \in DOMAIN stack' : Claims(stack'[d], k)
      BY <1>5, <1>6, <3>1, <3>3 DEF ClaimsOK
    <3> QED BY <1>5, <3>1, <3>2, <3>4, <3>5 DEF ClaimsOK
  <2>5. OwnerOK(owner, stack')
    BY <1>2, <2>2, TopOwner
  <2>6. TableOK(signals', sig, owner, stack')
    BY <1>1, <1>2, <1>5, <2>2, TopTable
  <2> QED BY <1>1, <1>5, <2>2, <2>3, <2>4, <2>5, <2>6, StopStep
<1>7. CASE sig[g].listeners = <<>> /\ Referenced
  <2>1. stack' = SetPcPin("detach", TRUE)
    BY <1>7 DEF CheckLast
  <2>2. PICK f \in FrameSet : /\ ReplacesTop(stack', f) /\ f.op = "stop" /\ f.pc = "detach"
                              /\ f.signal = g /\ f.h = Top.h /\ f.pin = TRUE
    <3> DEFINE b == TRUE
    <3>1. b \in BOOLEAN /\ stack' = SetPcPin("detach", b)
      BY <2>1
    <3> HIDE DEF b
    <3>2. \E f \in FrameSet : /\ ReplacesTop(stack', f) /\ f.op = "stop" /\ f.pc = "detach"
                              /\ f.signal = g /\ f.h = Top.h /\ f.pin = b
      BY <1>2, <1>4, <3>1, SetPcPinFacts
    <3> QED BY <3>2 DEF b
  <2>3. FrameOK(f)
    BY <1>2, <1>4, <2>2 DEF FrameOK
  <2>4. ClaimsOK(sig, stack')
    <3>1. \A k \in Sig : Claims(f, k) <=> Claims(Top, k)
      BY <1>2, <2>2 DEF Claims
    <3> QED BY <1>2, <1>7, <2>2, <3>1, TopClaims
  <2>5. OwnerOK(owner, stack')
    <3>1. DOMAIN stack' = DOMAIN stack
          /\ \A d \in DOMAIN stack : stack'[d] = IF d = Len(stack) THEN f ELSE stack[d]
      BY <2>2 DEF ReplacesTop
    <3>2. Pinned(stack')
      BY <1>2, <2>2, <3>1 DEF Pinned
    <3>3. \A d \in DOMAIN stack : stack'[d].op = "destroy" <=> stack[d].op = "destroy"
      BY <1>2, <2>2, <3>1
    <3>4. Destroying(stack') <=> Destroying(stack)
      BY <3>1, <3>3 DEF Destroying
    <3>5. ASSUME owner.destroyed, NEW d \in DOMAIN stack', stack'[d].pin
          PROVE  \E e \in DOMAIN stack' : e <= d /\ stack'[e].op = "destroy"
      <4>1. PICK c \in DOMAIN stack : stack[c].pin
        BY <1>5, <1>7, <3>5 DEF OwnerOK, Referenced, Pinned
      <4>2. CASE d = Len(stack)
        <5>1. PICK e \in DOMAIN stack : e <= c /\ stack[e].op = "destroy"
          BY <1>5, <3>5, <4>1 DEF OwnerOK
        <5>2. e <= d
          BY <1>2, <4>2
        <5> QED BY <3>1, <3>3, <5>1, <5>2
      <4>3. CASE d # Len(stack)
        <5>1. PICK e \in DOMAIN stack : e <= d /\ stack[e].op = "destroy"
          BY <1>5, <3>1, <3>5, <4>3 DEF OwnerOK
        <5> QED BY <3>1, <3>3, <5>1
      <4> QED BY <4>2, <4>3
    <3> QED BY <1>5, <3>1, <3>2, <3>3, <3>4, <3>5 DEF OwnerOK
  <2>6. TableOK(signals', sig, owner, stack')
    BY <1>1, <1>2, <1>5, <2>2, TopTable
  <2> QED BY <1>1, <1>5, <2>2, <2>3, <2>4, <2>5, <2>6, StopStep
<1>8. CASE sig[g].listeners = <<>> /\ ~Referenced
  <2>1. stack' = SetPc("free")
    BY <1>8 DEF CheckLast
  <2>2. PICK f \in FrameSet : /\ ReplacesTop(stack', f) /\ f.op = "stop" /\ f.pc = "free"
                              /\ f.signal = g /\ f.h = Top.h /\ f.pin = Top.pin
    BY <1>2, <1>4, <2>1, SetPcFacts
  <2>3. FrameOK(f)
    BY <1>2, <1>3, <1>4, <2>2 DEF FrameOK
  <2>4. ClaimsOK(sig, stack')
    <3>1. \A k \in Sig : Claims(f, k) <=> Claims(Top, k)
      BY <1>2, <2>2 DEF Claims
    <3> QED BY <1>2, <1>8, <2>2, <3>1, TopClaims
  <2>5. OwnerOK(owner, stack')
    BY <1>2, <2>2, TopOwner
  <2>6. TableOK(signals', sig, owner, stack')
    <3>1. owner.destroyed /\ ~Pinned(stack)
      BY <1>5, <1>8 DEF OwnerOK, Referenced
    <3>2. ~Destroying(stack)
      BY <3>1, EmitHandles DEF Destroying, Pinned, FrameOK
    <3>3. ~Destroying(stack')
      BY <1>1, <2>2, <3>2, TopDetached
    <3>4. Gone(owner, stack) /\ Gone(owner, stack')
      BY <3>1, <3>2, <3>3 DEF Gone
    <3> QED BY <1>5, <3>4 DEF TableOK
  <2> QED BY <1>1, <1>5, <2>2, <2>3, <2>4, <2>5, <2>6, StopStep
<1> QED BY <1>6, <1>7, <1>8

\* The struct of the signal is freed: nothing but this call knows it.
LEMMA FreedFacts ==
    ASSUME SignalInv, InFrame("stop", "free"), NEW f \in FrameSet, NEW t, ReplacesTop(t, f),
           f.op = "stop", f.pc = "entry", f.signal = Top.signal,
           sig' = [sig EXCEPT ![Top.signal] = EmptySig("freed", Null)]
    PROVE  /\ sig' \in [Sig -> SigSet] /\ ListsOK(sig', handle) /\ ClaimsOK(sig', t)
           /\ sig'[Top.signal].mem = "freed" /\ \A k \in Sig : k # Top.signal => sig'[k] = sig[k]
           /\ \A m \in Name : signals[m] # Top.signal
<1> DEFINE g == Top.signal
           n == Len(stack)
           ls == <<>>
           r == [mem |-> "freed", name |-> Null, listeners |-> ls, nlisteners |-> 0]
<1>1. /\ n \in DOMAIN stack /\ Top = stack[n] /\ Top.op = "stop" /\ Top.pc = "free" /\ g \in Sig
  BY StopTop
<1>2. /\ DOMAIN t = DOMAIN stack /\ \A d \in DOMAIN stack : t[d] = IF d = n THEN f ELSE stack[d]
  BY DEF ReplacesTop
<1>3. sig' = [sig EXCEPT ![g] = r] /\ sig \in [Sig -> SigSet]
  BY DEF EmptySig, SignalInv, DataOK
<1>4. /\ ls \in Seq(Handle) /\ Len(ls) = 0 /\ DOMAIN ls = {} /\ ls = <<>>
  OBVIOUS
<1> HIDE DEF ls, n
<1>5. r \in SigSet /\ r.mem = "freed" /\ r.listeners = ls /\ r.nlisteners = 0
  BY <1>4 DEF SigSet
<1> HIDE DEF r
<1>6. sig' \in [Sig -> SigSet] /\ sig'[g] = r /\ \A k \in Sig : k # g => sig'[k] = sig[k]
  BY <1>1, <1>3, <1>5
<1>7. sig'[g].mem = "freed" /\ sig'[g].listeners = <<>> /\ sig'[g].nlisteners = 0
  BY <1>4, <1>5, <1>6
<1>8. sig[g].listeners = <<>> /\ Claims(stack[n], g)
  BY <1>1 DEF SignalInv, ClaimsOK, Claims
<1>9. \A y \in Handle : handle[y].st = "live" => handle[y].signal # g
  BY <1>8 DEF SignalInv, ListsOK
<1>10. \A m \in Name : signals[m] # g
  <2>1. Detached(stack, g) /\ g # Null
    BY <1>1, ConstantsAssumption DEF Detached
  <2> QED BY <2>1 DEF SignalInv, TableOK
<1>11. ListsOK(sig', handle)
  <2>1. ListsOK(sig, handle)
    BY DEF SignalInv
  <2>2. ASSUME NEW k \in Sig
        PROVE  /\ sig'[k].nlisteners = Len(sig'[k].listeners)
               /\ \A i, j \in DOMAIN sig'[k].listeners :
                      sig'[k].listeners[i] = sig'[k].listeners[j] => i = j
               /\ \A j \in DOMAIN sig'[k].listeners : /\ handle[sig'[k].listeners[j]].st = "live"
                                                      /\ handle[sig'[k].listeners[j]].signal = k
               /\ sig'[k].listeners # <<>> => sig'[k].mem = "live"
               /\ sig'[k].mem = "live" => sig'[k].name \in Name
    <3>1. CASE k = g
      BY <1>7, <3>1
    <3>2. CASE k # g
      BY <1>6, <2>1, <3>2 DEF ListsOK
    <3> QED BY <3>1, <3>2
  <2>3. ASSUME NEW y \in Handle, handle[y].st = "live"
        PROVE  /\ handle[y].signal \in Sig
               /\ \E j \in DOMAIN sig'[handle[y].signal].listeners : sig'[handle[y].signal].listeners[j] = y
    <3>1. handle[y].signal # g
      BY <1>9, <2>3
    <3> QED BY <1>6, <2>1, <2>3, <3>1 DEF ListsOK
  <2> QED BY <2>2, <2>3 DEF ListsOK
<1>12. ClaimsOK(sig', t)
  <2>1. ClaimsOK(sig, stack)
    BY DEF SignalInv
  <2>2. \A d \in DOMAIN stack : ~Claims(t[d], g)
    <3> SUFFICES ASSUME NEW d \in DOMAIN stack, Claims(t[d], g) PROVE FALSE
      OBVIOUS
    <3>1. CASE d = n
      BY <1>2, <3>1 DEF Claims
    <3>2. CASE d # n
      BY <1>1, <1>2, <1>8, <2>1, <3>2 DEF ClaimsOK
    <3> QED BY <3>1, <3>2
  <2>3. \A k \in Sig, d \in DOMAIN stack : k # g => (Claims(t[d], k) <=> Claims(stack[d], k))
    <3> SUFFICES ASSUME NEW k \in Sig, NEW d \in DOMAIN stack, k # g
                 PROVE  Claims(t[d], k) <=> Claims(stack[d], k)
      OBVIOUS
    <3>1. CASE d = n
      BY <1>1, <1>2, <3>1 DEF Claims
    <3>2. CASE d # n
      BY <1>2, <3>2
    <3> QED BY <3>1, <3>2
  <2>4. \A k \in Sig, d \in DOMAIN t : Claims(t[d], k) => sig'[k].mem = "live"
    BY <1>2, <1>6, <2>1, <2>2, <2>3 DEF ClaimsOK
  <2>5. \A k \in Sig : sig'[k].mem = "live" /\ sig'[k].listeners = <<>> => \E d \in DOMAIN t : Claims(t[d], k)
    <3> SUFFICES ASSUME NEW k \in Sig, sig'[k].mem = "live", sig'[k].listeners = <<>>
                 PROVE  \E d \in DOMAIN t : Claims(t[d], k)
      OBVIOUS
    <3>1. k # g /\ sig'[k] = sig[k]
      BY <1>6, <1>7
    <3>2. PICK d \in DOMAIN stack : Claims(stack[d], k)
      BY <2>1, <3>1 DEF ClaimsOK
    <3> QED BY <1>2, <2>3, <3>1, <3>2
  <2>6. \A k \in Sig, d, e \in DOMAIN t :
           Claims(t[d], k) /\ Claims(t[e], k) /\ sig'[k].listeners = <<>> => d = e
    <3> SUFFICES ASSUME NEW k \in Sig, NEW d \in DOMAIN t, NEW e \in DOMAIN t,
                        Claims(t[d], k), Claims(t[e], k), sig'[k].listeners = <<>>
                 PROVE  d = e
      OBVIOUS
    <3>1. k # g /\ sig'[k] = sig[k] /\ Claims(stack[d], k) /\ Claims(stack[e], k)
      BY <1>2, <1>6, <2>2, <2>3
    <3> QED BY <1>2, <2>1, <3>1 DEF ClaimsOK
  <2>7. ASSUME NEW d \in DOMAIN t, t[d].op = "stop", t[d].pc \in {"detach", "del_signal", "free"}
        PROVE  sig'[t[d].signal].listeners = <<>>
    <3>1. d \in DOMAIN stack /\ d # n /\ t[d] = stack[d]
      BY <1>2, <2>7
    <3>2. t[d].signal \in Sig
      BY <2>7, <3>1, EmitHandles DEF FrameOK
    <3> QED BY <1>6, <1>7, <2>1, <2>7, <3>1, <3>2 DEF ClaimsOK
  <2> QED BY <2>4, <2>5, <2>6, <2>7 DEF ClaimsOK
<1> QED BY <1>6, <1>7, <1>10, <1>11, <1>12

\* The table, when a detached signal is freed.
LEMMA FreedTable ==
    ASSUME SignalInv, InFrame("stop", "free"), NEW f, NEW t, ReplacesTop(t, f),
           f.op = "stop", f.pc = "entry", f.signal = Top.signal,
           sig'[Top.signal].mem = "freed", \A k \in Sig : k # Top.signal => sig'[k] = sig[k],
           \A m \in Name : signals[m] # Top.signal, NEW ow, NEW u,
           \A k : Detached(u, k) <=> Detached(t, k), Gone(ow, u) <=> Gone(owner, stack)
    PROVE  TableOK(signals, sig', ow, u)
<1>1. \A k : k # Top.signal => (Detached(u, k) <=> Detached(stack, k))
  BY TopDetached
<1>2. TableOK(signals, sig, owner, stack) /\ signals \in [Name -> Sig \cup {Null}]
  BY DEF SignalInv, DataOK
<1>3. \A m \in Name : signals[m] # Null => /\ sig'[signals[m]].mem = "live" /\ sig'[signals[m]].name = m
                                           /\ ~Detached(u, signals[m])
  BY <1>1, <1>2 DEF TableOK
<1>4. \A k \in Sig : sig'[k].mem = "live" /\ ~Gone(ow, u) /\ ~Detached(u, k) => signals[sig'[k].name] = k
  BY <1>1, <1>2 DEF TableOK
<1>5. Gone(ow, u) => \A m \in Name : signals[m] = Null
  BY <1>2 DEF TableOK
<1> QED BY <1>3, <1>4, <1>5 DEF TableOK

\* The object is destroyed in a call above the others.
DestroyBegins(st, ow, t) ==
    /\ CallsOK(t) /\ OwnerOK(ow, t) /\ Destroying(t) /\ t \in Seq(FrameSet)
    /\ SameEmits(st, t) /\ SameStops(st, t)
    /\ \A k : Detached(t, k) <=> Detached(st, k)
    /\ \A sg : ClaimsOK(sg, st) => ClaimsOK(sg, t)
    /\ \A d \in DOMAIN t : t[d].op = "stop" => d \in DOMAIN st /\ t[d] = st[d]

\* It takes a reference to the object, the only one.
LEMMA DestroyPush ==
    ASSUME NEW st \in Seq(FrameSet), CallsOK(st), ~Pinned(st), ~Destroying(st), Len(st) <= MaxDepth,
           \A d \in DOMAIN st : st[d].pc \in UserPc \cup {"entry"},
           NEW ow, ow = [held |-> FALSE, destroyed |-> TRUE],
           NEW t, t = Append(st, DestroyFrame)
    PROVE  DestroyBegins(st, ow, t)
<1> DEFINE f == DestroyFrame
           n == Len(st) + 1
<1>1. f \in FrameSet /\ f.op = "destroy" /\ f.pc = "dtor" /\ f.pin = TRUE
  BY DestroyFrameFacts
<1>2. t = Append(st, f)
  OBVIOUS
<1> HIDE DEF f
<1>3. FrameOK(f)
  BY <1>1 DEF FrameOK
<1>4. CallsOK(t)
  BY <1>1, <1>2, <1>3, PushCalls
<1>5. /\ t \in Seq(FrameSet) /\ Len(st) \in Nat /\ DOMAIN st = 1..Len(st) /\ DOMAIN t = 1..n
      /\ \A d \in DOMAIN st : t[d] = st[d]
      /\ t[n] = f
  BY ONLY <1>1, <1>2, st \in Seq(FrameSet), PushFacts
<1>6. /\ \A d \in DOMAIN st : d \in DOMAIN t /\ t[d] = st[d] /\ d # n
      /\ \A d \in DOMAIN t : d # n => d \in DOMAIN st /\ t[d] = st[d]
      /\ n \in DOMAIN t /\ n <= n
  BY <1>5
<1> HIDE DEF n
<1>7. Destroying(t) /\ SameEmits(st, t) /\ SameStops(st, t) /\ \A k : Detached(t, k) <=> Detached(st, k)
  BY <1>1, <1>5, <1>6 DEF Destroying, SameEmits, SameStops, Detached
<1>8. /\ \A d \in DOMAIN t : t[d].pin => d = n
      /\ \A d \in DOMAIN t : t[d].op = "destroy" => d = n
      /\ \A d \in DOMAIN t : t[d].op = "stop" => d \in DOMAIN st /\ t[d] = st[d]
  BY <1>1, <1>5, <1>6 DEF Pinned, Destroying
<1>9. OwnerOK(ow, t)
  <2>1. ow.destroyed = TRUE /\ ow.held = FALSE
    OBVIOUS
  <2> QED BY ONLY <1>1, <1>5, <1>6, <1>8, <2>1 DEF OwnerOK
<1>10. ASSUME NEW sg, ClaimsOK(sg, st) PROVE ClaimsOK(sg, t)
  <2>1. \A k : \A d \in DOMAIN t : Claims(t[d], k) => d \in DOMAIN st /\ Claims(st[d], k)
    BY <1>1, <1>5, <1>6 DEF Claims
  <2>2. \A k : \A d \in DOMAIN st : Claims(st[d], k) => d \in DOMAIN t /\ Claims(t[d], k)
    BY <1>6
  <2> QED BY ONLY <1>6, <1>8, <1>10, <2>1, <2>2 DEF ClaimsOK
<1> QED BY <1>4, <1>5, <1>7, <1>8, <1>9, <1>10 DEF DestroyBegins

\* Two steps that each leave the emissions and destructions alone leave them alone.
LEMMA SameTrans ==
    ASSUME NEW st, NEW t, NEW u, SameEmits(st, t), SameStops(st, t), SameEmits(t, u), SameStops(t, u)
    PROVE  SameEmits(st, u) /\ SameStops(st, u)
<1>1. SameEmits(st, u)
  BY DEF SameEmits
<1>2. SameStops(st, u)
  BY DEF SameStops
<1> QED BY <1>1, <1>2

\* What remains to be shown of a step that leaves the table, the handles and the emissions alone.
LEMMA KeepStep ==
    ASSUME SignalInv, UNCHANGED <<signals, handle>>, CallsOK(stack'),
           SameEmits(stack, stack'), SameStops(stack, stack'), sig' \in [Sig -> SigSet],
           owner' \in [held : BOOLEAN, destroyed : BOOLEAN],
           ListsOK(sig', handle), ClaimsOK(sig', stack'), OwnerOK(owner', stack'),
           TableOK(signals, sig', owner', stack'),
           \A d \in DOMAIN stack' : stack'[d].op = "stop" /\ stack'[d].pc # "members" =>
               d \in DOMAIN stack /\ stack[d].op = "stop" /\ stack[d].h = stack'[d].h /\ stack[d].pc # "members"
    PROVE  SignalInv'
<1>1. stack' \in Seq(FrameSet)
  BY DEF CallsOK
<1>2. /\ StopsOK(handle', stack') /\ SnapshotsOK(handle', stack')
      /\ \A d \in DOMAIN stack' : OrderOK(stack'[d])
      /\ \A y : Waiting(stack', y) = Waiting(stack, y)
  BY <1>1, QuietStep
<1>3. WeakOK(handle', stack')
  <2>1. \A y \in Handle : Entry(handle', stack', y) => Entry(handle, stack, y)
    BY DEF Entry
  <2> QED BY <1>2, <2>1, QuietWeak DEF WeakOK
<1>4. DataOK(signals', sig', handle', owner')
  BY DEF SignalInv, DataOK
<1>5. ListsOK(sig', handle') /\ TableOK(signals', sig', owner', stack')
  OBVIOUS
<1> QED BY <1>2, <1>3, <1>4, <1>5 DEF SignalInv

\* The signal is freed and the owner released, which may destroy it.
LEMMA FreeSignalInv == ASSUME SignalInv, FreeSignal PROVE SignalInv'
<1> DEFINE g == Top.signal
           n == Len(stack)
<1>1. /\ InFrame("stop", "free") /\ sig' = [sig EXCEPT ![g] = EmptySig("freed", Null)]
      /\ UNCHANGED <<signals, handle>>
  BY DEF FreeSignal
<1>2. /\ stack # <<>> /\ stack \in Seq(FrameSet) /\ n \in DOMAIN stack /\ Top = stack[n]
      /\ FrameOK(Top) /\ Top.op = "stop" /\ Top.pc = "free" /\ g \in Sig /\ Top.h \in Handle
      /\ n <= MaxDepth /\ Top \in FrameSet
  BY <1>1, StopTop
<1>3. "entry" \in StopPc /\ Top.pin \in BOOLEAN
  BY <1>2 DEF StopPc, FrameSet
<1>4. owner \in [held : BOOLEAN, destroyed : BOOLEAN] /\ OwnerOK(owner, stack)
  BY DEF SignalInv, DataOK
<1>5. PICK t : \E f \in FrameSet :
          /\ ReplacesTop(t, f) /\ f.op = "stop" /\ f.pc = "entry" /\ f.signal = g /\ f.h = Top.h /\ ~f.pin
          /\ \/ stack' = t /\ owner' = owner /\ (~owner.destroyed => owner.held \/ Pinned(t))
             \/ /\ owner' = [held |-> FALSE, destroyed |-> TRUE] /\ ~owner.destroyed /\ ~Pinned(t)
                /\ stack' = Append(t, DestroyFrame)
  <2>1. CASE Top.pin
    <3> DEFINE b == FALSE
               t == SetPcPin("entry", b)
    <3>1. UnrefOwner(owner.held, t)
      BY <2>1 DEF FreeSignal
    <3>2. b \in BOOLEAN
      OBVIOUS
    <3>3. \/ stack' = t /\ owner' = [owner EXCEPT !.held = owner.held] /\ (owner.held \/ Pinned(t) \/ owner.destroyed)
          \/ /\ owner' = [held |-> FALSE, destroyed |-> TRUE] /\ ~owner.destroyed /\ ~Pinned(t)
             /\ stack' = Append(t, DestroyFrame)
      BY <3>1, Zenon DEF UnrefOwner
    <3>4. [owner EXCEPT !.held = owner.held] = owner
      BY <1>4
    <3> HIDE DEF b
    <3>5. \E f \in FrameSet : /\ ReplacesTop(t, f) /\ f.op = "stop" /\ f.pc = "entry"
                              /\ f.signal = g /\ f.h = Top.h /\ f.pin = b
      BY <1>2, <1>3, <3>2, SetPcPinFacts
    <3>6. PICK f \in FrameSet : /\ ReplacesTop(t, f) /\ f.op = "stop" /\ f.pc = "entry"
                                /\ f.signal = g /\ f.h = Top.h /\ ~f.pin
      BY <3>5 DEF b
    <3>7. \/ stack' = t /\ owner' = owner /\ (~owner.destroyed => owner.held \/ Pinned(t))
          \/ /\ owner' = [held |-> FALSE, destroyed |-> TRUE] /\ ~owner.destroyed /\ ~Pinned(t)
             /\ stack' = Append(t, DestroyFrame)
      BY ONLY <3>3, <3>4, Zenon
    <3> QED BY ONLY <3>6, <3>7, Zenon
  <2>2. CASE ~Top.pin
    <3> DEFINE t == SetPc("entry")
    <3>1. stack' = t /\ owner' = owner
      BY <2>2 DEF FreeSignal
    <3>2. PICK f \in FrameSet : /\ ReplacesTop(t, f) /\ f.op = "stop" /\ f.pc = "entry"
                                /\ f.signal = g /\ f.h = Top.h /\ f.pin = Top.pin
      BY <1>2, <1>3, SetPcFacts
    <3>3. ~owner.destroyed => owner.held \/ Pinned(t)
      <4>1. \A d \in DOMAIN stack : stack[d].pin => d \in DOMAIN t /\ t[d].pin
        BY <1>2, <2>2, <3>2 DEF ReplacesTop
      <4>2. Pinned(stack) => Pinned(t)
        BY <4>1 DEF Pinned
      <4> QED BY <1>4, <4>2 DEF OwnerOK
    <3> QED BY <2>2, <3>1, <3>2, <3>3
  <2> QED BY <2>1, <2>2
<1>6. PICK f \in FrameSet :
          /\ ReplacesTop(t, f) /\ f.op = "stop" /\ f.pc = "entry" /\ f.signal = g /\ f.h = Top.h /\ ~f.pin
          /\ \/ stack' = t /\ owner' = owner /\ (~owner.destroyed => owner.held \/ Pinned(t))
             \/ /\ owner' = [held |-> FALSE, destroyed |-> TRUE] /\ ~owner.destroyed /\ ~Pinned(t)
                /\ stack' = Append(t, DestroyFrame)
  BY ONLY <1>5, Zenon
<1>a. /\ ReplacesTop(t, f) /\ f.op = "stop" /\ f.pc = "entry" /\ f.signal = g /\ f.h = Top.h /\ ~f.pin
      /\ f.pin \in BOOLEAN
  BY ONLY <1>6, f \in FrameSet DEF FrameSet
<1>7. FrameOK(f)
  BY ONLY <1>2, <1>3, <1>a DEF FrameOK
<1>8. CallsOK(t) /\ SameEmits(stack, t) /\ SameStops(stack, t) /\ Len(t) = n
  BY <1>1, <1>7, <1>a, StopTopStep
<1>9. /\ t \in Seq(FrameSet) /\ DOMAIN t = DOMAIN stack
      /\ \A d \in DOMAIN stack : t[d] = IF d = n THEN f ELSE stack[d]
  BY <1>a DEF ReplacesTop
<1>10. /\ sig' \in [Sig -> SigSet] /\ ListsOK(sig', handle) /\ ClaimsOK(sig', t)
       /\ sig'[g].mem = "freed" /\ \A k \in Sig : k # g => sig'[k] = sig[k]
       /\ \A m \in Name : signals[m] # g
  BY <1>1, <1>a, FreedFacts
<1>11. (Destroying(t) <=> Destroying(stack)) /\ (\A d \in DOMAIN stack : t[d].pin => stack[d].pin)
       /\ \A d \in DOMAIN stack : t[d].op = "destroy" <=> stack[d].op = "destroy"
  <2>1. Destroying(t) <=> Destroying(stack)
    BY <1>1, <1>a, TopDetached
  <2> QED BY <1>2, <1>9, <1>a, <2>1
<1>12. CASE stack' = t /\ owner' = owner /\ (~owner.destroyed => owner.held \/ Pinned(t))
  <2>1. OwnerOK(owner', stack')
    BY <1>4, <1>9, <1>11, <1>12 DEF OwnerOK
  <2>2. Gone(owner', stack') <=> Gone(owner, stack)
    BY <1>11, <1>12 DEF Gone
  <2>3. \A k : Detached(stack', k) <=> Detached(t, k)
    BY <1>12
  <2>4. TableOK(signals, sig', owner', stack')
    BY <1>1, <1>10, <1>a, <2>2, <2>3, FreedTable
  <2>5. \A d \in DOMAIN stack' : stack'[d].op = "stop" /\ stack'[d].pc # "members" =>
            d \in DOMAIN stack /\ stack[d].op = "stop" /\ stack[d].h = stack'[d].h /\ stack[d].pc # "members"
    BY <1>2, <1>9, <1>12, <1>a
  <2>6. /\ CallsOK(stack') /\ SameEmits(stack, stack') /\ SameStops(stack, stack')
        /\ ClaimsOK(sig', stack') /\ owner' \in [held : BOOLEAN, destroyed : BOOLEAN]
    BY <1>4, <1>8, <1>10, <1>12
  <2> QED BY <1>1, <1>10, <2>1, <2>4, <2>5, <2>6, KeepStep
<1>13. CASE /\ owner' = [held |-> FALSE, destroyed |-> TRUE] /\ ~owner.destroyed /\ ~Pinned(t)
            /\ stack' = Append(t, DestroyFrame)
  <2>1. ~Destroying(t) /\ Len(t) <= MaxDepth /\ ~owner.destroyed /\ ~Pinned(t)
    BY ONLY <1>2, <1>4, <1>8, <1>11, <1>13 DEF OwnerOK
  <2>2. \A d \in DOMAIN t : t[d].pc \in UserPc \cup {"entry"}
    BY ONLY <1>8, <1>9, <1>a DEF CallsOK
  <2>3. owner' = [held |-> FALSE, destroyed |-> TRUE]
    BY <1>13
  <2>4. stack' = Append(t, DestroyFrame)
    BY <1>13
  <2>5. /\ CallsOK(stack') /\ OwnerOK(owner', stack') /\ Destroying(stack') /\ stack' \in Seq(FrameSet)
        /\ SameEmits(t, stack') /\ SameStops(t, stack')
        /\ \A k : Detached(stack', k) <=> Detached(t, k)
        /\ \A sg : ClaimsOK(sg, t) => ClaimsOK(sg, stack')
        /\ \A d \in DOMAIN stack' : stack'[d].op = "stop" => d \in DOMAIN t /\ stack'[d] = t[d]
    <3>1. DestroyBegins(t, owner', stack')
      BY ONLY <1>8, <1>9, <2>1, <2>2, <2>3, <2>4, DestroyPush
    <3> QED BY ONLY <3>1 DEF DestroyBegins
  <2>6. SameEmits(stack, stack') /\ SameStops(stack, stack')
    BY ONLY <1>8, <2>5, SameTrans
  <2>7. Gone(owner', stack') <=> Gone(owner, stack)
    BY ONLY <2>1, <2>5 DEF Gone
  <2>8. TableOK(signals, sig', owner', stack')
    BY ONLY SignalInv, <1>1, <1>10, <1>a, <2>5, <2>7, FreedTable
  <2>9. \A d \in DOMAIN stack' : stack'[d].op = "stop" /\ stack'[d].pc # "members" =>
            d \in DOMAIN stack /\ stack[d].op = "stop" /\ stack[d].h = stack'[d].h /\ stack[d].pc # "members"
    BY ONLY <1>2, <1>9, <1>a, <2>5
  <2>10. ClaimsOK(sig', stack') /\ owner' \in [held : BOOLEAN, destroyed : BOOLEAN]
    BY ONLY <1>10, <2>3, <2>5
  <2> QED BY ONLY SignalInv, <1>1, <1>10, <2>5, <2>6, <2>8, <2>9, <2>10, KeepStep
<1> QED BY ONLY <1>6, <1>12, <1>13, Zenon

\* The lists do not depend on weak counts.
LEMMA ListsSame ==
    ASSUME SignalInv, NEW hd, \A y \in Handle : /\ hd[y].signal = handle[y].signal
                                                /\ hd[y].st = "live" <=> handle[y].st = "live"
    PROVE  ListsOK(sig, hd)
<1>1. ListsOK(sig, handle) /\ \A g \in Sig : sig[g].listeners \in Seq(Handle)
  BY DEF SignalInv, DataOK, SigSet
<1>2. \A g \in Sig : \A j \in DOMAIN sig[g].listeners : sig[g].listeners[j] \in Handle
  BY <1>1
<1> QED BY <1>1, <1>2 DEF ListsOK

\* The entry of the listener goes, with its weak reference.
LEMMA DropEntryInv == ASSUME SignalInv, DropEntry PROVE SignalInv'
<1> DEFINE x == Top.h
           n == Len(stack)
<1>1. /\ InFrame("stop", "entry") /\ handle' = DropWeak(handle, x) /\ stack' = SetPc("members")
      /\ UNCHANGED <<signals, sig, owner>>
  BY DEF DropEntry
<1>2. /\ stack # <<>> /\ stack \in Seq(FrameSet) /\ n \in DOMAIN stack /\ Top = stack[n]
      /\ FrameOK(Top) /\ Top.op = "stop" /\ Top.pc = "entry" /\ Top.signal \in Sig /\ x \in Handle
      /\ handle[x].st = "dying"
  BY <1>1, StopTop
<1>3. "members" \in StopPc
  BY DEF StopPc
<1>4. PICK f \in FrameSet : /\ ReplacesTop(stack', f) /\ f.op = "stop" /\ f.pc = "members"
                            /\ f.signal = Top.signal /\ f.h = x /\ f.pin = Top.pin
  BY <1>1, <1>2, <1>3, SetPcFacts
<1>5. FrameOK(f)
  BY <1>2, <1>3, <1>4 DEF FrameOK
<1>6. /\ CallsOK(stack') /\ SameEmits(stack, stack') /\ SameStops(stack, stack')
  BY <1>1, <1>4, <1>5, StopTopStep
<1>7. /\ stack' \in Seq(FrameSet) /\ DOMAIN stack' = DOMAIN stack
      /\ \A d \in DOMAIN stack : stack'[d] = IF d = n THEN f ELSE stack[d]
  BY <1>4 DEF ReplacesTop
<1>8. /\ handle \in [Handle -> HandleSet] /\ \A y \in Handle : handle[y].weak \in Nat
      /\ \A y : Cardinality(Waiting(stack, y)) \in Nat
  BY <1>2, WaitingCount DEF SignalInv, DataOK, HandleSet
<1>9. Entry(handle, stack, x) /\ handle[x].weak >= Cardinality(Waiting(stack, x)) + 1
  <2>1. Entry(handle, stack, x)
    BY <1>2 DEF Entry
  <2> QED BY <1>2, <2>1 DEF SignalInv, WeakOK
<1>10. handle[x].weak > 0
  BY <1>2, <1>8, <1>9
<1>11. /\ handle' \in [Handle -> HandleSet]
       /\ \A y \in Handle : y # x => handle'[y] = handle[y]
       /\ handle'[x].weak = handle[x].weak - 1 /\ handle'[x].signal = handle[x].signal
       /\ handle'[x].st = "dying"
  BY <1>1, <1>2, <1>8, <1>10, DropWeakFacts
<1> HIDE DEF x
<1>12. \A y \in Handle : handle'[y].st = handle[y].st /\ handle'[y].signal = handle[y].signal
  BY <1>2, <1>11
<1>13. /\ StopsOK(handle', stack') /\ SnapshotsOK(handle', stack')
       /\ \A d \in DOMAIN stack' : OrderOK(stack'[d])
       /\ \A y : Waiting(stack', y) = Waiting(stack, y)
  BY <1>6, <1>7, <1>12, QuietStep
<1>14. ~Entry(handle', stack', x)
  <2> SUFFICES ASSUME NEW d \in DOMAIN stack', stack'[d].op = "stop", stack'[d].h = x,
                      stack'[d].pc # "members"
               PROVE  FALSE
    BY <1>11 DEF Entry
  <2>1. d # n /\ stack[d].op = "stop" /\ stack[d].h = x
    BY <1>4, <1>7
  <2> QED BY <1>2, <1>7, <2>1 DEF SignalInv, StopsOK, x
<1>15. WeakOK(handle', stack')
  <2>1. ASSUME NEW y \in Handle
        PROVE  /\ handle'[y].weak >= Cardinality(Waiting(stack', y)) + (IF Entry(handle', stack', y) THEN 1 ELSE 0)
               /\ handle'[y].st = "freed" => handle'[y].weak = 0
    <3>1. CASE y = x
      BY <1>8, <1>9, <1>11, <1>13, <1>14, <3>1
    <3>2. CASE y # x
      <4>1. Entry(handle', stack', y) => Entry(handle, stack, y)
        <5>1. \A d \in DOMAIN stack : stack'[d].op = "stop" /\ stack'[d].h = y => stack'[d] = stack[d]
          BY <1>4, <1>7, <3>2
        <5> QED BY <1>7, <1>12, <5>1 DEF Entry
      <4> QED BY <1>11, <1>13, <3>2, <4>1, QuietWeak
    <3> QED BY <3>1, <3>2
  <2> QED BY <2>1 DEF WeakOK
<1>16. ListsOK(sig', handle')
  <2>1. ListsOK(sig, handle')
    BY <1>12, ListsSame
  <2> QED BY <1>1, <2>1
<1>17. ClaimsOK(sig', stack')
  <2>1. \A k \in Sig : Claims(f, k) <=> Claims(Top, k)
    BY <1>2, <1>4 DEF Claims
  <2>2. ClaimsOK(sig, stack')
    BY <1>2, <1>4, <2>1, TopClaims
  <2> QED BY <1>1, <2>2
<1>18. OwnerOK(owner', stack') /\ TableOK(signals', sig', owner', stack')
  <2>1. OwnerOK(owner, stack')
    BY <1>2, <1>4, TopOwner
  <2>2. TableOK(signals, sig, owner, stack')
    BY <1>1, <1>2, <1>4, TopTable
  <2> QED BY <1>1, <2>1, <2>2
<1>19. DataOK(signals', sig', handle', owner')
  BY <1>1, <1>11 DEF SignalInv, DataOK
<1> QED BY <1>6, <1>13, <1>15, <1>16, <1>17, <1>18, <1>19 DEF SignalInv

\* The handle is destroyed; its memory stays while an emission has a weak reference.
LEMMA HandleDestroyedInv == ASSUME SignalInv, HandleDestroyed PROVE SignalInv'
<1> DEFINE x == Top.h
           n == Len(stack)
           s == IF handle[x].weak = 0 THEN "freed" ELSE "dead"
<1>1. /\ InFrame("stop", "members") /\ handle' = [handle EXCEPT ![x].st = s] /\ stack' = Front(stack)
      /\ UNCHANGED <<signals, sig, owner>>
  BY DEF HandleDestroyed, Popped
<1>2. /\ stack # <<>> /\ stack \in Seq(FrameSet) /\ n \in DOMAIN stack /\ Top = stack[n]
      /\ FrameOK(Top) /\ Top.op = "stop" /\ Top.pc = "members" /\ Top.signal \in Sig /\ x \in Handle
      /\ handle[x].st = "dying"
  BY <1>1, StopTop
<1>3. CallsOK(stack')
  BY <1>1, <1>2, PopCalls DEF SignalInv
<1>4. /\ stack' \in Seq(FrameSet) /\ n \in Nat \ {0} /\ Len(stack') = n - 1
      /\ DOMAIN stack = 1..n /\ DOMAIN stack' = 1..(n - 1)
      /\ \A d \in DOMAIN stack' : stack'[d] = stack[d]
  BY <1>1, <1>2, PopFacts
<1>5. /\ \A d \in DOMAIN stack' : d \in DOMAIN stack /\ stack'[d] = stack[d] /\ d # n
      /\ \A d \in DOMAIN stack : d # n => d \in DOMAIN stack'
  BY <1>4
<1>6. handle \in [Handle -> HandleSet] /\ handle[x] \in HandleSet /\ \A y \in Handle : handle[y].weak \in Nat
  BY <1>2 DEF SignalInv, DataOK, HandleSet
<1>7. s \in {"freed", "dead"} /\ (s = "freed" => handle[x].weak = 0)
  OBVIOUS
<1> HIDE DEF s
<1> DEFINE r == [handle[x] EXCEPT !.st = s]
<1>8. r \in HandleSet /\ r.st = s /\ r.signal = handle[x].signal /\ r.weak = handle[x].weak
  BY <1>6, <1>7 DEF HandleSet
<1>9. handle' = [handle EXCEPT ![x] = r]
  BY <1>1
<1> HIDE DEF r, x, n
<1>10. /\ handle' \in [Handle -> HandleSet] /\ handle'[x] = r
       /\ \A y \in Handle : y # x => handle'[y] = handle[y]
  BY <1>2, <1>6, <1>8, <1>9
<1>11. SameEmits(stack, stack')
  BY <1>2, <1>5 DEF SameEmits
<1>12. /\ \A y : Waiting(stack', y) = Waiting(stack, y)
       /\ \A d \in DOMAIN stack' : OrderOK(stack'[d])
  BY <1>11, SameEmitsFacts DEF SignalInv
<1>13. \A d \in DOMAIN stack' : stack'[d].op = "stop" => stack'[d].h # x /\ stack'[d].h \in Handle
  <2>1. \A d \in DOMAIN stack : stack[d].op = "stop" /\ stack[d].h = x => d = n
    BY <1>2 DEF SignalInv, StopsOK, x
  <2> QED BY <1>5, <2>1, EmitHandles
<1>14. StopsOK(handle', stack')
  <2>1. StopsOK(handle, stack)
    BY DEF SignalInv
  <2>2. \A y \in Handle : handle'[y].st = "dying" => y # x /\ handle[y].st = "dying"
    BY <1>7, <1>8, <1>10
  <2>3. \A d \in DOMAIN stack : stack[d].op = "stop" /\ stack[d].h # x => d \in DOMAIN stack'
    BY <1>2, <1>5 DEF x
  <2> QED BY <1>5, <1>10, <1>13, <2>1, <2>2, <2>3 DEF StopsOK
<1>15. SnapshotsOK(handle', stack')
  <2>1. SnapshotsOK(handle, stack)
    BY DEF SignalInv
  <2>2. /\ DOMAIN stack' \subseteq DOMAIN stack
        /\ \A d \in DOMAIN stack : stack[d].op = "emit" =>
               \A j \in DOMAIN stack[d].allHandle : stack[d].allHandle[j] \in Handle
    BY <1>5, EmitHandles
  <2>3. \A y \in Handle : handle'[y].st = handle[y].st \/ (handle[y].st \notin {"live", "unused"}
                                                       /\ handle'[y].st \notin {"live", "unused"})
    BY <1>2, <1>7, <1>8, <1>10
  <2>4. \A d \in DOMAIN stack' : stack'[d] = stack[d]
    BY <1>5
  <2> QED BY <2>1, <2>2, <2>3, <2>4, SnapshotsSame
<1>16. WeakOK(handle', stack')
  <2>1. ASSUME NEW y \in Handle
        PROVE  /\ handle'[y].weak >= Cardinality(Waiting(stack', y)) + (IF Entry(handle', stack', y) THEN 1 ELSE 0)
               /\ handle'[y].st = "freed" => handle'[y].weak = 0
    <3>1. CASE y = x
      <4>1. ~Entry(handle', stack', x)
        BY <1>7, <1>8, <1>10, <1>13 DEF Entry
      <4>2. handle[x].weak >= Cardinality(Waiting(stack, x)) + (IF Entry(handle, stack, x) THEN 1 ELSE 0)
        BY <1>2 DEF SignalInv, WeakOK
      <4>3. Cardinality(Waiting(stack, x)) \in Nat
        BY <1>2, WaitingCount
      <4> QED BY <1>2, <1>6, <1>7, <1>8, <1>10, <1>12, <3>1, <4>1, <4>2, <4>3
    <3>2. CASE y # x
      <4>1. Entry(handle', stack', y) => Entry(handle, stack, y)
        BY <1>5, <1>10, <3>2 DEF Entry
      <4> QED BY <1>10, <1>12, <3>2, <4>1, QuietWeak
    <3> QED BY <3>1, <3>2
  <2> QED BY <2>1 DEF WeakOK
<1>17. ListsOK(sig', handle')
  <2>1. \A y \in Handle : /\ handle'[y].signal = handle[y].signal
                          /\ handle'[y].st = "live" <=> handle[y].st = "live"
    BY <1>2, <1>7, <1>8, <1>10
  <2>2. ListsOK(sig, handle')
    BY <2>1, ListsSame
  <2> QED BY <1>1, <2>2
<1>18. ~Top.pin
  BY <1>2 DEF FrameOK
<1>19. ClaimsOK(sig', stack')
  <2>1. \A k \in Sig, d \in DOMAIN stack : Claims(stack[d], k) => d \in DOMAIN stack'
    BY <1>2, <1>5 DEF Claims
  <2>2. ClaimsOK(sig, stack)
    BY DEF SignalInv
  <2>3. ClaimsOK(sig, stack')
    BY <1>5, <2>1, <2>2 DEF ClaimsOK
  <2> QED BY <1>1, <2>3
<1>20. OwnerOK(owner, stack') /\ TableOK(signals, sig, owner, stack')
  <2>1. Destroying(stack') <=> Destroying(stack)
    BY <1>2, <1>5 DEF Destroying
  <2>2. Pinned(stack') <=> Pinned(stack)
    BY <1>2, <1>5, <1>18 DEF Pinned
  <2>3. \A k : Detached(stack', k) <=> Detached(stack, k)
    BY <1>2, <1>5 DEF Detached
  <2>4. OwnerOK(owner, stack) /\ TableOK(signals, sig, owner, stack)
    BY DEF SignalInv
  <2>5. TableOK(signals, sig, owner, stack')
    BY <2>1, <2>3, <2>4 DEF TableOK, Gone
  <2>6. \A d \in DOMAIN stack : stack[d].op = "destroy" => d \in DOMAIN stack'
    BY <1>2, <1>5
  <2>7. OwnerOK(owner, stack')
    BY <1>5, <2>1, <2>2, <2>4, <2>6 DEF OwnerOK
  <2> QED BY <2>5, <2>7
<1>21. DataOK(signals', sig', handle', owner') /\ OwnerOK(owner', stack') /\ TableOK(signals', sig', owner', stack')
  BY <1>1, <1>10, <1>20 DEF SignalInv, DataOK
<1> QED BY <1>3, <1>12, <1>14, <1>15, <1>16, <1>17, <1>19, <1>21 DEF SignalInv

-----------------------------------------------------------------------------
(* The object *)

\* User code lets the object go.
LEMMA DropOwnerInv == ASSUME SignalInv, DropOwner PROVE SignalInv'
<1>1. /\ UserCode /\ Len(stack) < MaxDepth /\ owner.held /\ UNCHANGED <<signals, sig, handle>>
      /\ UnrefOwner(FALSE, stack)
  BY DEF DropOwner, MayCall
<1>2. /\ owner \in [held : BOOLEAN, destroyed : BOOLEAN] /\ OwnerOK(owner, stack) /\ stack \in Seq(FrameSet)
      /\ CallsOK(stack) /\ sig \in [Sig -> SigSet]
      /\ ListsOK(sig, handle) /\ ClaimsOK(sig, stack) /\ TableOK(signals, sig, owner, stack)
  BY DEF SignalInv, DataOK, CallsOK
<1>3. ~owner.destroyed /\ ~Destroying(stack)
  BY <1>1, <1>2 DEF OwnerOK
<1>4. CASE Pinned(stack)
  <2> DEFINE b == FALSE
  <2>1. owner' = [owner EXCEPT !.held = b] /\ stack' = stack
    BY <1>1, <1>4 DEF UnrefOwner
  <2>2. b \in BOOLEAN /\ ~b
    OBVIOUS
  <2> HIDE DEF b
  <2>3. owner' \in [held : BOOLEAN, destroyed : BOOLEAN] /\ owner'.destroyed = owner.destroyed /\ owner'.held = b
    BY <1>2, <2>1, <2>2
  <2>4. OwnerOK(owner', stack)
    BY <1>2, <1>3, <1>4, <2>3 DEF OwnerOK
  <2>5. TableOK(signals, sig, owner', stack)
    BY <1>2, <2>3 DEF TableOK, Gone
  <2>6. SameEmits(stack, stack') /\ SameStops(stack, stack') /\ CallsOK(stack') /\ ClaimsOK(sig', stack')
        /\ OwnerOK(owner', stack') /\ TableOK(signals, sig', owner', stack')
        /\ sig' \in [Sig -> SigSet] /\ ListsOK(sig', handle)
    BY <1>1, <1>2, <2>1, <2>4, <2>5 DEF SameEmits, SameStops
  <2>7. \A d \in DOMAIN stack' : stack'[d].op = "stop" /\ stack'[d].pc # "members" =>
            d \in DOMAIN stack /\ stack[d].op = "stop" /\ stack[d].h = stack'[d].h /\ stack[d].pc # "members"
    BY <2>1
  <2> QED BY <1>1, <2>3, <2>6, <2>7, KeepStep
<1>5. CASE ~Pinned(stack)
  <2>1. owner' = [held |-> FALSE, destroyed |-> TRUE] /\ stack' = Append(stack, DestroyFrame)
    BY <1>1, <1>3, <1>5 DEF UnrefOwner
  <2>2. /\ Len(stack) <= MaxDepth /\ \A d \in DOMAIN stack : stack[d].pc \in UserPc \cup {"entry"}
    BY <1>1, <1>2, UserFrames, ConstantsAssumption
  <2>3. DestroyBegins(stack, owner', stack')
    BY <1>2, <1>3, <1>5, <2>1, <2>2, DestroyPush
  <2>4. /\ CallsOK(stack') /\ OwnerOK(owner', stack') /\ Destroying(stack') /\ stack' \in Seq(FrameSet)
        /\ SameEmits(stack, stack') /\ SameStops(stack, stack')
        /\ \A k : Detached(stack', k) <=> Detached(stack, k)
        /\ ClaimsOK(sig, stack) => ClaimsOK(sig, stack')
        /\ \A d \in DOMAIN stack' : stack'[d].op = "stop" => d \in DOMAIN stack /\ stack'[d] = stack[d]
    BY <2>3 DEF DestroyBegins
  <2>5. TableOK(signals, sig, owner', stack')
    <3>1. Gone(owner', stack') <=> Gone(owner, stack)
      BY <1>3, <2>4 DEF Gone
    <3> QED BY <1>2, <2>4, <3>1 DEF TableOK
  <2>6. owner' \in [held : BOOLEAN, destroyed : BOOLEAN]
    BY <2>1
  <2>7. ClaimsOK(sig', stack') /\ TableOK(signals, sig', owner', stack') /\ sig' \in [Sig -> SigSet]
        /\ ListsOK(sig', handle)
    BY <1>1, <1>2, <2>4, <2>5
  <2> QED BY <1>1, <2>4, <2>6, <2>7, KeepStep
<1> QED BY <1>4, <1>5

\* User code takes the object again: not while it is being destroyed.
LEMMA HoldOwnerInv == ASSUME SignalInv, Liberties = {}, HoldOwner PROVE SignalInv'
<1> DEFINE b == TRUE
<1>1. /\ owner' = [owner EXCEPT !.held = b] /\ ~owner.destroyed /\ UNCHANGED <<signals, sig, handle, stack>>
  BY DEF HoldOwner
<1>2. /\ owner \in [held : BOOLEAN, destroyed : BOOLEAN] /\ OwnerOK(owner, stack) /\ stack \in Seq(FrameSet)
      /\ CallsOK(stack) /\ sig \in [Sig -> SigSet]
      /\ ListsOK(sig, handle) /\ ClaimsOK(sig, stack) /\ TableOK(signals, sig, owner, stack)
  BY DEF SignalInv, DataOK, CallsOK
<1>3. b \in BOOLEAN /\ b
  OBVIOUS
<1> HIDE DEF b
<1>4. owner' \in [held : BOOLEAN, destroyed : BOOLEAN] /\ owner'.destroyed = owner.destroyed /\ owner'.held = b
  BY <1>1, <1>2, <1>3
<1>5. OwnerOK(owner', stack)
  BY <1>1, <1>2, <1>3, <1>4 DEF OwnerOK
<1>6. TableOK(signals, sig, owner', stack)
  BY <1>2, <1>4 DEF TableOK, Gone
<1>7. SameEmits(stack, stack') /\ SameStops(stack, stack') /\ CallsOK(stack') /\ ClaimsOK(sig', stack')
      /\ OwnerOK(owner', stack') /\ TableOK(signals, sig', owner', stack')
      /\ sig' \in [Sig -> SigSet] /\ ListsOK(sig', handle)
  BY <1>1, <1>2, <1>5, <1>6 DEF SameEmits, SameStops
<1>8. \A d \in DOMAIN stack' : stack'[d].op = "stop" /\ stack'[d].pc # "members" =>
          d \in DOMAIN stack /\ stack[d].op = "stop" /\ stack[d].h = stack'[d].h /\ stack[d].pc # "members"
  BY <1>1
<1> QED BY <1>1, <1>4, <1>7, <1>8, KeepStep

\* The object is destroyed, and its signals are detached.
LEMMA OwnerDestroyedInv == ASSUME SignalInv, OwnerDestroyed PROVE SignalInv'
<1> DEFINE n == Len(stack)
<1>1. /\ stack # <<>> /\ stack[n].op = "destroy" /\ stack[n].pc = "dtor" /\ stack' = Front(stack)
      /\ signals' = [m \in Name |-> Null] /\ UNCHANGED <<sig, handle, owner>>
  BY DEF OwnerDestroyed, InFrame, Top, Popped
<1>2. /\ CallsOK(stack) /\ stack \in Seq(FrameSet) /\ OwnerOK(owner, stack) /\ ClaimsOK(sig, stack)
  BY DEF SignalInv, CallsOK
<1>3. CallsOK(stack')
  BY <1>1, <1>2, PopCalls
<1>4. /\ stack' \in Seq(FrameSet) /\ n \in Nat \ {0} /\ Len(stack') = n - 1
      /\ DOMAIN stack = 1..n /\ DOMAIN stack' = 1..(n - 1)
      /\ \A d \in DOMAIN stack' : stack'[d] = stack[d]
  BY <1>1, <1>2, PopFacts
<1>5. /\ \A d \in DOMAIN stack' : d \in DOMAIN stack /\ stack'[d] = stack[d] /\ d # n
      /\ \A d \in DOMAIN stack : d # n => d \in DOMAIN stack'
      /\ n \in DOMAIN stack
  BY <1>4
<1>6. SameEmits(stack, stack') /\ SameStops(stack, stack')
  BY <1>1, <1>5 DEF SameEmits, SameStops
<1>7. owner.destroyed /\ ~Destroying(stack')
  BY <1>1, <1>2, <1>5 DEF OwnerOK, Destroying
<1>8. ~Pinned(stack')
  <2> SUFFICES ASSUME NEW d \in DOMAIN stack', stack'[d].pin PROVE FALSE
    BY DEF Pinned
  <2>1. d \in DOMAIN stack /\ stack[d].pin
    BY <1>5
  <2>2. PICK e \in DOMAIN stack : e <= d /\ stack[e].op = "destroy"
    BY <1>2, <1>7, <2>1 DEF OwnerOK
  <2>3. e = n
    BY <1>1, <1>2, <1>5, <2>2 DEF OwnerOK
  <2> QED BY <1>4, <2>2, <2>3
<1> HIDE DEF n
<1>9. OwnerOK(owner', stack')
  BY <1>1, <1>2, <1>5, <1>7, <1>8 DEF OwnerOK, Pinned
<1>10. Gone(owner', stack')
  BY <1>1, <1>7 DEF Gone
<1>11. \A m \in Name : signals'[m] = Null
  BY <1>1
<1>12. TableOK(signals', sig', owner', stack')
  BY <1>10, <1>11 DEF TableOK
<1>13. ClaimsOK(sig', stack')
  <2>1. \A k \in Sig, d \in DOMAIN stack : Claims(stack[d], k) => d \in DOMAIN stack'
    BY <1>1, <1>5 DEF Claims
  <2>2. ClaimsOK(sig, stack')
    BY <1>2, <1>5, <2>1 DEF ClaimsOK
  <2> QED BY <1>1, <2>2
<1>14. /\ StopsOK(handle', stack') /\ SnapshotsOK(handle', stack')
       /\ \A d \in DOMAIN stack' : OrderOK(stack'[d])
       /\ \A y : Waiting(stack', y) = Waiting(stack, y)
  BY <1>1, <1>4, <1>6, QuietStep
<1>15. WeakOK(handle', stack')
  <2>1. \A y \in Handle : Entry(handle', stack', y) => Entry(handle, stack, y)
    BY <1>1, <1>5 DEF Entry
  <2> QED BY <1>1, <1>14, <2>1, QuietWeak DEF WeakOK
<1>16. DataOK(signals', sig', handle', owner') /\ ListsOK(sig', handle')
  BY <1>1 DEF SignalInv, DataOK
<1> QED BY <1>3, <1>9, <1>12, <1>13, <1>14, <1>15, <1>16 DEF SignalInv

-----------------------------------------------------------------------------
(* User code stops a listener *)

\* A sequence without one of its elements.
LEMMA RemoveAtFacts ==
    ASSUME NEW S, NEW s \in Seq(S), NEW i \in DOMAIN s
    PROVE  /\ RemoveAt(s, i) \in Seq(S)
           /\ Len(RemoveAt(s, i)) = Len(s) - 1
           /\ \A j \in 1..(Len(s) - 1) : RemoveAt(s, i)[j] = IF j < i THEN s[j] ELSE s[j + 1]
<1> DEFINE u == SubSeq(s, 1, i - 1)
           v == SubSeq(s, i + 1, Len(s))
<1>1. i \in 1..Len(s) /\ Len(s) \in Nat
  OBVIOUS
<1>2. u \in Seq(S) /\ Len(u) = i - 1 /\ \A j \in 1..(i - 1) : u[j] = s[j]
  BY <1>1
<1>3. v \in Seq(S) /\ Len(v) = Len(s) - i /\ \A j \in 1..(Len(s) - i) : v[j] = s[i + j]
  BY <1>1
<1> HIDE DEF u, v
<1>4. u \o v \in Seq(S) /\ Len(u \o v) = Len(s) - 1
  BY <1>1, <1>2, <1>3
<1>5. \A j \in 1..(Len(s) - 1) : (u \o v)[j] = IF j < i THEN s[j] ELSE s[j + 1]
  <2> SUFFICES ASSUME NEW j \in 1..(Len(s) - 1)
               PROVE  (u \o v)[j] = IF j < i THEN s[j] ELSE s[j + 1]
    OBVIOUS
  <2>1. (u \o v)[j] = IF j <= Len(u) THEN u[j] ELSE v[j - Len(u)]
    <3>1. j \in 1..(Len(u) + Len(v))
      BY ONLY <1>1, <1>2, <1>3, j \in 1..(Len(s) - 1)
    <3>2. u \in Seq(S) /\ v \in Seq(S)
      BY ONLY <1>2, <1>3
    <3> QED BY ONLY <3>1, <3>2
  <2>2. CASE j < i
    BY <1>1, <1>2, <2>1, <2>2
  <2>3. CASE ~(j < i)
    <3>1. j - Len(u) \in 1..(Len(s) - i) /\ i + (j - Len(u)) = j + 1
      BY <1>1, <1>2, <2>3
    <3>2. v[j - Len(u)] = s[j + 1]
      BY ONLY <1>3, <3>1
    <3>3. ~(j <= Len(u))
      BY ONLY <1>1, <1>2, <2>3, j \in 1..(Len(s) - 1)
    <3> QED BY ONLY <2>1, <2>3, <3>2, <3>3
  <2> QED BY <2>2, <2>3
<1> QED BY <1>4, <1>5 DEF RemoveAt, u, v

\* list_del: the other listeners stay in the list.
LEMMA UnlinkedFacts ==
    ASSUME NEW ls \in Seq(Handle), \A j, k \in DOMAIN ls : ls[j] = ls[k] => j = k,
           NEW h \in Handle, \E j \in DOMAIN ls : ls[j] = h, NEW m, m = Unlinked(ls, h)
    PROVE  /\ m \in Seq(Handle) /\ Len(ls) \in Nat \ {0} /\ Len(m) = Len(ls) - 1
           /\ \A j, k \in DOMAIN m : m[j] = m[k] => j = k
           /\ \A j \in DOMAIN m : m[j] # h /\ \E k \in DOMAIN ls : m[j] = ls[k]
           /\ \A k \in DOMAIN ls : ls[k] # h => \E j \in DOMAIN m : m[j] = ls[k]
<1> DEFINE i == CHOOSE j \in DOMAIN ls : ls[j] = h
<1>1. i \in DOMAIN ls /\ ls[i] = h
  OBVIOUS
<1>2. m = RemoveAt(ls, i)
  BY DEF Unlinked
<1> HIDE DEF i
<1>3. /\ m \in Seq(Handle) /\ Len(m) = Len(ls) - 1
      /\ \A j \in 1..(Len(ls) - 1) : m[j] = IF j < i THEN ls[j] ELSE ls[j + 1]
  BY <1>1, <1>2, RemoveAtFacts
<1>4. /\ Len(ls) \in Nat \ {0} /\ DOMAIN ls = 1..Len(ls) /\ i \in 1..Len(ls) /\ DOMAIN m = 1..(Len(ls) - 1)
  BY <1>1, <1>3
<1>5. \A j \in DOMAIN m : (IF j < i THEN j ELSE j + 1) \in DOMAIN ls /\ (IF j < i THEN j ELSE j + 1) # i
                          /\ m[j] = ls[IF j < i THEN j ELSE j + 1]
  BY <1>3, <1>4
<1>6. \A j, k \in DOMAIN m : m[j] = m[k] => j = k
  <2> SUFFICES ASSUME NEW j \in DOMAIN m, NEW k \in DOMAIN m, m[j] = m[k] PROVE j = k
    OBVIOUS
  <2>1. (IF j < i THEN j ELSE j + 1) = (IF k < i THEN k ELSE k + 1)
    BY <1>5
  <2> QED BY <1>4, <2>1
<1>7. \A j \in DOMAIN m : m[j] # h /\ \E k \in DOMAIN ls : m[j] = ls[k]
  BY <1>1, <1>5
<1>8. \A k \in DOMAIN ls : ls[k] # h => \E j \in DOMAIN m : m[j] = ls[k]
  <2> SUFFICES ASSUME NEW k \in DOMAIN ls, ls[k] # h PROVE \E j \in DOMAIN m : m[j] = ls[k]
    OBVIOUS
  <2>1. k # i
    BY <1>1
  <2>2. CASE k < i
    <3>1. k \in DOMAIN m /\ m[k] = ls[k]
      BY <1>3, <1>4, <2>2
    <3> QED BY <3>1
  <2>3. CASE ~(k < i)
    <3>1. k - 1 \in DOMAIN m /\ m[k - 1] = ls[k]
      BY <1>3, <1>4, <2>1, <2>3
    <3> QED BY <3>1
  <2> QED BY <2>2, <2>3
<1> QED BY <1>3, <1>4, <1>6, <1>7, <1>8

\* What unlinking a listener does to the lists and the handles.
LEMMA UnlinkFacts ==
    ASSUME SignalInv, NEW h \in Handle, handle[h].st = "live",
           handle' = [handle EXCEPT ![h].st = "dying"],
           sig' = [sig EXCEPT ![handle[h].signal].listeners = Unlinked(@, h),
                              ![handle[h].signal].nlisteners = @ - 1]
    PROVE  /\ handle[h].signal \in Sig
           /\ sig' \in [Sig -> SigSet] /\ handle' \in [Handle -> HandleSet]
           /\ \A k \in Sig : k # handle[h].signal => sig'[k] = sig[k]
           /\ \A k \in Sig : sig'[k].mem = sig[k].mem /\ sig'[k].name = sig[k].name
           /\ sig[handle[h].signal].mem = "live" /\ sig[handle[h].signal].listeners # <<>>
           /\ sig'[handle[h].signal].listeners = <<>> => Len(sig[handle[h].signal].listeners) = 1
           /\ handle'[h].st = "dying" /\ handle'[h].weak = handle[h].weak
           /\ \A y \in Handle : y # h => handle'[y] = handle[y]
           /\ ListsOK(sig', handle')
<1> DEFINE g == handle[h].signal
           ls == sig[g].listeners
           m == Unlinked(ls, h)
           c == sig[g].nlisteners - 1
           r == [sig[g] EXCEPT !.listeners = m, !.nlisteners = c]
           w == [handle[h] EXCEPT !.st = "dying"]
<1>1. ListsOK(sig, handle) /\ sig \in [Sig -> SigSet] /\ handle \in [Handle -> HandleSet] /\ handle[h] \in HandleSet
  BY DEF SignalInv, DataOK
<1>2. g \in Sig /\ \E j \in DOMAIN ls : ls[j] = h
  BY <1>1 DEF ListsOK
<1>3. sig[g] \in SigSet /\ ls \in Seq(Handle) /\ sig[g].nlisteners \in Nat
  BY <1>1, <1>2 DEF SigSet
<1>4. /\ sig[g].nlisteners = Len(ls) /\ \A j, k \in DOMAIN ls : ls[j] = ls[k] => j = k
  BY <1>1, <1>2 DEF ListsOK
<1>5. handle' = [handle EXCEPT ![h] = w] /\ sig' = [sig EXCEPT ![g] = r]
  BY <1>2
<1>a. handle[h].signal = g /\ sig[g].listeners = ls
  OBVIOUS
<1> HIDE DEF g, ls
<1>6. /\ m \in Seq(Handle) /\ Len(ls) \in Nat \ {0} /\ Len(m) = Len(ls) - 1
      /\ \A j, k \in DOMAIN m : m[j] = m[k] => j = k
      /\ \A j \in DOMAIN m : m[j] # h /\ \E k \in DOMAIN ls : m[j] = ls[k]
      /\ \A k \in DOMAIN ls : ls[k] # h => \E j \in DOMAIN m : m[j] = ls[k]
  BY ONLY <1>2, <1>3, <1>4, h \in Handle, UnlinkedFacts
<1> HIDE DEF m
<1>7. c \in Nat /\ c = Len(m) /\ (m = <<>> => Len(ls) = 1) /\ ls # <<>>
  <2>1. m = <<>> => Len(m) = 0
    OBVIOUS
  <2>2. ls = <<>> => Len(ls) = 0
    OBVIOUS
  <2> QED BY ONLY <1>3, <1>4, <1>6, <2>1, <2>2 DEF c
<1> HIDE DEF c
<1>8. w \in HandleSet /\ w.st = "dying" /\ w.signal = g /\ w.weak = handle[h].weak
  BY <1>1, <1>a DEF HandleSet
<1> HIDE DEF w
<1>9. r \in SigSet /\ r.mem = sig[g].mem /\ r.name = sig[g].name /\ r.listeners = m /\ r.nlisteners = c
  <2> DEFINE s == sig[g]
  <2>1. r = [s EXCEPT !.listeners = m, !.nlisteners = c] /\ s \in SigSet /\ m \in Seq(Handle) /\ c \in Nat
    BY <1>3, <1>6, <1>7
  <2> HIDE DEF s, r
  <2>2. r.mem = s.mem /\ r.name = s.name /\ r.listeners = m /\ r.nlisteners = c
    BY ONLY <2>1 DEF SigSet
  <2>3. DOMAIN r = {"mem", "name", "listeners", "nlisteners"}
    BY ONLY <2>1 DEF SigSet
  <2>4. r \in SigSet
    BY ONLY <2>1, <2>2, <2>3 DEF SigSet
  <2> QED BY <2>2, <2>4 DEF s
<1> HIDE DEF r
<1>10. handle' \in [Handle -> HandleSet] /\ handle'[h] = w /\ \A y \in Handle : y # h => handle'[y] = handle[y]
  BY ONLY <1>1, <1>5, <1>8, h \in Handle
<1>11. sig' \in [Sig -> SigSet] /\ sig'[g] = r /\ \A k \in Sig : k # g => sig'[k] = sig[k]
  BY ONLY <1>1, <1>2, <1>5, <1>9
<1>12. sig[g].mem = "live" /\ sig[g].name \in Name
  BY <1>1, <1>2, <1>7, <1>a DEF ListsOK
<1>13. \A y \in Handle : handle'[y].signal = handle[y].signal
  BY <1>8, <1>10, <1>a
<1>14. ASSUME NEW k \in Sig
       PROVE  /\ sig'[k].nlisteners = Len(sig'[k].listeners)
              /\ \A i, j \in DOMAIN sig'[k].listeners :
                     sig'[k].listeners[i] = sig'[k].listeners[j] => i = j
              /\ \A j \in DOMAIN sig'[k].listeners : /\ handle'[sig'[k].listeners[j]].st = "live"
                                                     /\ handle'[sig'[k].listeners[j]].signal = k
              /\ sig'[k].listeners # <<>> => sig'[k].mem = "live"
              /\ sig'[k].mem = "live" => sig'[k].name \in Name
  <2>1. CASE k = g
    <3>1. \A j \in DOMAIN ls : ls[j] \in Handle /\ handle[ls[j]].st = "live" /\ handle[ls[j]].signal = g
      BY <1>1, <1>2, <1>3, <1>a DEF ListsOK
    <3>2. \A j \in DOMAIN m : handle'[m[j]].st = "live" /\ handle'[m[j]].signal = g
      BY <1>6, <1>10, <3>1
    <3>3. /\ sig'[k].listeners = m /\ sig'[k].nlisteners = c /\ sig'[k].mem = "live" /\ sig'[k].name \in Name
      BY ONLY <1>9, <1>11, <1>12, <2>1
    <3> QED BY ONLY <1>6, <1>7, <2>1, <3>2, <3>3
  <2>2. CASE k # g
    <3>1. sig'[k] = sig[k] /\ sig[k].listeners \in Seq(Handle)
      BY <1>1, <1>11, <2>2 DEF SigSet
    <3>2. \A j \in DOMAIN sig[k].listeners : sig[k].listeners[j] \in Handle /\ sig[k].listeners[j] # h
      BY <1>1, <1>a, <2>2, <3>1 DEF ListsOK
    <3>3. \A j \in DOMAIN sig[k].listeners : handle'[sig[k].listeners[j]] = handle[sig[k].listeners[j]]
      BY ONLY <1>10, <3>2
    <3> QED BY ONLY <1>1, <3>1, <3>3, k \in Sig DEF ListsOK
  <2> QED BY <2>1, <2>2
<1>15. ASSUME NEW y \in Handle, handle'[y].st = "live"
       PROVE  /\ handle'[y].signal \in Sig
              /\ \E j \in DOMAIN sig'[handle'[y].signal].listeners : sig'[handle'[y].signal].listeners[j] = y
  <2>1. y # h /\ handle'[y] = handle[y]
    BY <1>8, <1>10, <1>15
  <2>2. /\ handle[y].signal \in Sig
        /\ \E j \in DOMAIN sig[handle[y].signal].listeners : sig[handle[y].signal].listeners[j] = y
    BY <1>1, <1>15, <2>1 DEF ListsOK
  <2>3. CASE handle[y].signal = g
    <3>1. PICK j \in DOMAIN ls : ls[j] = y
      BY <1>a, <2>2, <2>3
    <3>2. \E i \in DOMAIN m : m[i] = y
      BY <1>6, <2>1, <3>1
    <3>3. handle'[y].signal = g /\ sig'[g].listeners = m
      BY ONLY <1>9, <1>11, <2>1, <2>3
    <3> QED BY ONLY <1>2, <3>2, <3>3
  <2>4. CASE handle[y].signal # g
    BY <1>11, <2>1, <2>2, <2>4
  <2> QED BY <2>3, <2>4
<1>16. ListsOK(sig', handle')
  BY <1>14, <1>15 DEF ListsOK
<1>17. \A k \in Sig : sig'[k].mem = sig[k].mem /\ sig'[k].name = sig[k].name
  BY <1>9, <1>11
<1>18. sig'[g].listeners = <<>> => Len(sig[g].listeners) = 1
  BY <1>7, <1>9, <1>11, <1>a
<1> QED BY <1>2, <1>7, <1>8, <1>10, <1>11, <1>12, <1>16, <1>17, <1>18 DEF g, ls

\* t is st but for the emissions that have h to visit, which note that it was stopped.
Noted(st, t, h) ==
    /\ t \in Seq(FrameSet) /\ Len(t) = Len(st) /\ DOMAIN t = DOMAIN st
    /\ \A d \in DOMAIN st :
           /\ t[d].op = st[d].op /\ t[d].pc = st[d].pc /\ t[d].signal = st[d].signal /\ t[d].h = st[d].h
           /\ t[d].pin = st[d].pin /\ t[d].allHandle = st[d].allHandle /\ t[d].i = st[d].i
           /\ t[d].calls = st[d].calls
           /\ t[d].stopped = IF st[d].op = "emit" /\ Contains(st[d].allHandle, h)
                                /\ ~Contains(st[d].calls, h)
                               THEN st[d].stopped \cup {h} ELSE st[d].stopped

\* The emissions under way note that a handle was stopped, and nothing else changes.
LEMMA NoteFacts ==
    ASSUME NEW st \in Seq(FrameSet), NEW h \in Handle, NEW t, t = NoteStopped(st, h)
    PROVE  Noted(st, t, h)
<1>1. DOMAIN t = DOMAIN st /\ DOMAIN st = 1..Len(st) /\ Len(st) \in Nat
  BY DEF NoteStopped
<1>2. ASSUME NEW d \in DOMAIN st
      PROVE  /\ t[d] \in FrameSet
             /\ t[d].op = st[d].op /\ t[d].pc = st[d].pc /\ t[d].signal = st[d].signal /\ t[d].h = st[d].h
             /\ t[d].pin = st[d].pin /\ t[d].allHandle = st[d].allHandle /\ t[d].i = st[d].i
             /\ t[d].calls = st[d].calls
             /\ t[d].stopped = IF st[d].op = "emit" /\ Contains(st[d].allHandle, h)
                                  /\ ~Contains(st[d].calls, h)
                                 THEN st[d].stopped \cup {h} ELSE st[d].stopped
  <2> DEFINE r == st[d]
             c == r.op = "emit" /\ Contains(r.allHandle, h) /\ ~Contains(r.calls, h)
             s == r.stopped \cup {h}
             q == t[d]
  <2>1. r \in FrameSet
    OBVIOUS
  <2>2. s \in SUBSET Handle
    BY <2>1 DEF FrameSet
  <2>3. q = IF c THEN [r EXCEPT !.stopped = s] ELSE r
    BY DEF NoteStopped
  <2> HIDE DEF r, s, c, q
  <2>4. CASE ~c
    <3>1. q = r /\ ~c
      BY <2>3, <2>4
    <3> QED BY <2>1, <3>1 DEF q, r, c, s
  <2>5. CASE c
    <3>1. q = [r EXCEPT !.stopped = s]
      BY <2>3, <2>5
    <3>2. /\ q.op = r.op /\ q.pc = r.pc /\ q.signal = r.signal /\ q.h = r.h /\ q.pin = r.pin
          /\ q.allHandle = r.allHandle /\ q.i = r.i /\ q.calls = r.calls /\ q.stopped = s
      BY ONLY <2>1, <3>1 DEF FrameSet
    <3>3. q \in FrameSet
      BY ONLY <2>1, <2>2, <3>1 DEF FrameSet
    <3> QED BY <2>5, <3>2, <3>3 DEF q, r, c, s
  <2> QED BY <2>4, <2>5
<1>3. t \in Seq(FrameSet) /\ Len(t) = Len(st)
  <2>1. t = [d \in 1..Len(st) |-> t[d]]
    BY <1>1 DEF NoteStopped
  <2>2. \A d \in 1..Len(st) : t[d] \in FrameSet
    BY <1>1, <1>2
  <2> QED BY <1>1, <2>1, <2>2
<1> QED BY ONLY <1>1, <1>2, <1>3 DEF Noted

\* The frames of a stack but for the history of its emissions.
SameFrames(st, t) ==
    \A d \in DOMAIN st :
        /\ d \in DOMAIN t /\ t[d].op = st[d].op /\ t[d].pc = st[d].pc /\ t[d].signal = st[d].signal
        /\ t[d].h = st[d].h /\ t[d].pin = st[d].pin /\ t[d].allHandle = st[d].allHandle
        /\ t[d].i = st[d].i /\ t[d].calls = st[d].calls

\* The stack after user code dropped a handle.
LEMMA StopPush ==
    ASSUME SignalInv, NEW h \in Handle, NEW g \in Sig, UserCode, Len(stack) < MaxDepth,
           stack' = Append(NoteStopped(stack, h), CallFrame("stop", "unlinked", g, h, FALSE, <<>>))
    PROVE  /\ CallsOK(stack') /\ stack' \in Seq(FrameSet) /\ SameFrames(stack, stack')
           /\ Len(stack) \in Nat /\ DOMAIN stack = 1..Len(stack) /\ DOMAIN stack' = 1..(Len(stack) + 1)
           /\ \A d \in DOMAIN stack :
                  stack'[d].stopped = IF stack[d].op = "emit" /\ Contains(stack[d].allHandle, h)
                                         /\ ~Contains(stack[d].calls, h)
                                        THEN stack[d].stopped \cup {h} ELSE stack[d].stopped
           /\ stack'[Len(stack) + 1].op = "stop" /\ stack'[Len(stack) + 1].pc = "unlinked"
           /\ stack'[Len(stack) + 1].signal = g /\ stack'[Len(stack) + 1].h = h
           /\ ~stack'[Len(stack) + 1].pin
           /\ \A d \in DOMAIN stack : stack[d].pc \in UserPc \cup {"entry"}
<1> DEFINE t == NoteStopped(stack, h)
           f == CallFrame("stop", "unlinked", g, h, FALSE, <<>>)
<1>1. CallsOK(stack) /\ stack \in Seq(FrameSet)
  BY DEF SignalInv, CallsOK
<1>c. StopsFrom(f, g, h)
  BY StopFrame
<1>d. Noted(stack, t, h)
  BY <1>1, NoteFacts
<1>4. stack' = Append(t, f) /\ t = NoteStopped(stack, h) /\ f = CallFrame("stop", "unlinked", g, h, FALSE, <<>>)
  OBVIOUS
<1> HIDE DEF t, f
<1>2. /\ t \in Seq(FrameSet) /\ Len(t) = Len(stack) /\ DOMAIN t = DOMAIN stack
      /\ \A d \in DOMAIN stack :
             /\ t[d].op = stack[d].op /\ t[d].pc = stack[d].pc /\ t[d].signal = stack[d].signal /\ t[d].h = stack[d].h
             /\ t[d].pin = stack[d].pin /\ t[d].allHandle = stack[d].allHandle /\ t[d].i = stack[d].i
             /\ t[d].calls = stack[d].calls
             /\ t[d].stopped = IF stack[d].op = "emit" /\ Contains(stack[d].allHandle, h)
                                  /\ ~Contains(stack[d].calls, h)
                                 THEN stack[d].stopped \cup {h} ELSE stack[d].stopped
  BY ONLY <1>d DEF Noted
<1>3. /\ f \in FrameSet /\ f.op = "stop" /\ f.pc = "unlinked" /\ f.signal = g /\ f.h = h /\ f.pin = FALSE
  BY <1>c DEF StopsFrom
<1>5. ~f.pin
  BY <1>3
<1>6. FrameOK(f)
  BY <1>3, <1>5 DEF FrameOK, StopPc
<1>7. \A d \in DOMAIN stack : stack[d].pc \in UserPc \cup {"entry"}
  BY <1>1, UserFrames
<1>8. CallsOK(t)
  <2>1. \A d \in DOMAIN stack : FrameOK(stack[d])
    BY <1>1 DEF CallsOK
  <2>2. ASSUME NEW d \in DOMAIN t PROVE FrameOK(t[d])
    <3> DEFINE q == t[d]
               r == stack[d]
    <3>1. FrameOK(r) /\ q.op = r.op /\ q.pc = r.pc /\ q.signal = r.signal /\ q.h = r.h
          /\ q.pin = r.pin /\ q.allHandle = r.allHandle /\ q.i = r.i
      BY ONLY <1>2, <2>1, d \in DOMAIN t
    <3> HIDE DEF q, r
    <3>2. FrameOK(q)
      BY ONLY <3>1 DEF FrameOK
    <3> QED BY <3>2 DEF q
  <2> QED BY <1>1, <1>2, <2>2 DEF CallsOK
<1>a. stack' = Append(t, f) /\ \A d \in DOMAIN t : t[d].pc \in UserPc \cup {"entry"}
  BY <1>2, <1>4, <1>7
<1>9. CallsOK(stack')
  BY ONLY <1>2, <1>3, <1>6, <1>7, <1>8, <1>a, Len(stack) < MaxDepth, PushCalls
<1>10. /\ stack' \in Seq(FrameSet) /\ Len(t) \in Nat
       /\ DOMAIN t = 1..Len(t) /\ DOMAIN stack' = 1..(Len(t) + 1)
       /\ \A d \in DOMAIN t : stack'[d] = t[d]
       /\ stack'[Len(t) + 1] = f
  BY ONLY <1>2, <1>3, <1>a, PushFacts
<1>11. \A d \in DOMAIN stack : d \in DOMAIN stack' /\ stack'[d] = t[d]
  <2>1. DOMAIN t = DOMAIN stack
    BY ONLY <1>2
  <2> QED BY ONLY <1>10, <2>1
<1>12. SameFrames(stack, stack')
  <2>1. ASSUME NEW d \in DOMAIN stack
        PROVE  /\ t[d].op = stack[d].op /\ t[d].pc = stack[d].pc /\ t[d].signal = stack[d].signal
               /\ t[d].h = stack[d].h /\ t[d].pin = stack[d].pin /\ t[d].allHandle = stack[d].allHandle
               /\ t[d].i = stack[d].i /\ t[d].calls = stack[d].calls
    BY <1>2
  <2> QED BY ONLY <1>11, <2>1 DEF SameFrames
<1>13. \A d \in DOMAIN stack :
          stack'[d].stopped = IF stack[d].op = "emit" /\ Contains(stack[d].allHandle, h)
                                 /\ ~Contains(stack[d].calls, h)
                                THEN stack[d].stopped \cup {h} ELSE stack[d].stopped
  <2> SUFFICES ASSUME NEW d \in DOMAIN stack
               PROVE  stack'[d].stopped = IF stack[d].op = "emit" /\ Contains(stack[d].allHandle, h)
                                             /\ ~Contains(stack[d].calls, h)
                                            THEN stack[d].stopped \cup {h} ELSE stack[d].stopped
    OBVIOUS
  <2>1. stack'[d] = t[d]
    BY ONLY <1>11, d \in DOMAIN stack
  <2> QED BY <1>2, <2>1
<1>14. Len(stack) \in Nat /\ DOMAIN stack = 1..Len(stack) /\ DOMAIN stack' = 1..(Len(stack) + 1)
       /\ stack'[Len(stack) + 1] = f /\ stack' \in Seq(FrameSet)
  BY ONLY <1>2, <1>10
<1> QED BY ONLY <1>3, <1>5, <1>7, <1>9, <1>12, <1>13, <1>14

\* User code drops a handle: the listener is unlinked, and the emissions that have not
\* called it yet will not.
LEMMA StopListenerInv ==
    ASSUME SignalInv, Liberties = {}, NEW h \in Handle, StopListener(h)
    PROVE  SignalInv'
<1> DEFINE g == handle[h].signal
           n == Len(stack)
<1>1. /\ UserCode /\ n < MaxDepth /\ MayStop(h) /\ handle[h].st = "live" /\ UNCHANGED <<signals, owner>>
  BY DEF StopListener, MayCall
<1>2. /\ g \in Sig
      /\ sig' \in [Sig -> SigSet] /\ handle' \in [Handle -> HandleSet]
      /\ \A k \in Sig : k # g => sig'[k] = sig[k]
      /\ \A k \in Sig : sig'[k].mem = sig[k].mem /\ sig'[k].name = sig[k].name
      /\ sig[g].mem = "live" /\ sig[g].listeners # <<>>
      /\ sig'[g].listeners = <<>> => Len(sig[g].listeners) = 1
      /\ handle'[h].st = "dying" /\ handle'[h].weak = handle[h].weak
      /\ \A y \in Handle : y # h => handle'[y] = handle[y]
      /\ ListsOK(sig', handle')
  BY <1>1, UnlinkFacts DEF StopListener
<1>3. /\ CallsOK(stack') /\ stack' \in Seq(FrameSet) /\ SameFrames(stack, stack')
      /\ n \in Nat /\ DOMAIN stack = 1..n /\ DOMAIN stack' = 1..(n + 1)
      /\ \A d \in DOMAIN stack :
             stack'[d].stopped = IF stack[d].op = "emit" /\ Contains(stack[d].allHandle, h)
                                    /\ ~Contains(stack[d].calls, h)
                                   THEN stack[d].stopped \cup {h} ELSE stack[d].stopped
      /\ stack'[n + 1].op = "stop" /\ stack'[n + 1].pc = "unlinked"
      /\ stack'[n + 1].signal = g /\ stack'[n + 1].h = h
      /\ ~stack'[n + 1].pin
      /\ \A d \in DOMAIN stack : stack[d].pc \in UserPc \cup {"entry"}
  <2>1. stack' = Append(NoteStopped(stack, h), CallFrame("stop", "unlinked", g, h, FALSE, <<>>))
    BY DEF StopListener
  <2> HIDE DEF g
  <2> QED BY ONLY SignalInv, h \in Handle, <1>1, <1>2, <2>1, StopPush
<1>4. ~ \E d \in DOMAIN stack : stack[d].op = "listen" /\ stack[d].signal = g /\ Len(sig[g].listeners) = 1
  BY <1>1 DEF MayStop
<1>g. handle[h].signal = g
  OBVIOUS
<1> HIDE DEF g, n
<1>5. /\ \A d \in DOMAIN stack : d \in DOMAIN stack' /\ d # n + 1 /\ d < n + 1
      /\ \A d \in DOMAIN stack' : d = n + 1 \/ d \in DOMAIN stack
      /\ n + 1 \in DOMAIN stack'
  BY <1>3
<1>6. /\ ClaimsOK(sig, stack) /\ OwnerOK(owner, stack) /\ TableOK(signals, sig, owner, stack)
      /\ StopsOK(handle, stack) /\ SnapshotsOK(handle, stack) /\ (\A d \in DOMAIN stack : OrderOK(stack[d]))
      /\ WeakOK(handle, stack) /\ CallsOK(stack) /\ stack \in Seq(FrameSet)
      /\ signals \in [Name -> Sig \cup {Null}] /\ owner \in [held : BOOLEAN, destroyed : BOOLEAN]
      /\ handle \in [Handle -> HandleSet]
  BY DEF SignalInv, CallsOK, DataOK
<1>7. DataOK(signals', sig', handle', owner')
  BY <1>1, <1>2, <1>6 DEF DataOK
<1>8. ClaimsOK(sig', stack')
  <2>1. \A k : \A d \in DOMAIN stack : Claims(stack'[d], k) <=> Claims(stack[d], k)
    BY <1>3 DEF Claims, SameFrames
  <2>2. \A k : Claims(stack'[n + 1], k) <=> k = g
    BY <1>3 DEF Claims
  <2>3. ASSUME NEW d \in DOMAIN stack, Claims(stack[d], g), Len(sig[g].listeners) = 1 PROVE FALSE
    <3>1. stack[d].op = "stop" /\ stack[d].pc = "del_signal" /\ stack[d].signal = g
      BY <1>3, <1>4, <2>3 DEF Claims, UserPc
    <3> QED BY <1>2, <1>6, <3>1 DEF ClaimsOK
  <2>4. \A k \in Sig, d \in DOMAIN stack' : Claims(stack'[d], k) => sig'[k].mem = "live"
    BY <1>2, <1>5, <1>6, <2>1, <2>2 DEF ClaimsOK
  <2>5. ASSUME NEW k \in Sig, sig'[k].mem = "live", sig'[k].listeners = <<>>
        PROVE  \E d \in DOMAIN stack' : Claims(stack'[d], k)
    <3>1. CASE k = g
      BY <1>5, <2>2, <3>1
    <3>2. CASE k # g
      <4>1. sig[k].mem = "live" /\ sig[k].listeners = <<>>
        BY <1>2, <2>5, <3>2
      <4>2. PICK d \in DOMAIN stack : Claims(stack[d], k)
        BY <1>6, <4>1 DEF ClaimsOK
      <4> QED BY <1>5, <2>1, <4>2
    <3> QED BY <3>1, <3>2
  <2>6. ASSUME NEW k \in Sig, NEW d \in DOMAIN stack', NEW e \in DOMAIN stack',
               Claims(stack'[d], k), Claims(stack'[e], k), sig'[k].listeners = <<>>
        PROVE  d = e
    <3>1. CASE k = g
      <4>1. Len(sig[g].listeners) = 1
        BY <1>2, <2>6, <3>1
      <4>2. d \notin DOMAIN stack /\ e \notin DOMAIN stack
        BY <2>1, <2>3, <2>6, <3>1, <4>1
      <4> QED BY <1>5, <4>2
    <3>2. CASE k # g
      <4>1. d \in DOMAIN stack /\ e \in DOMAIN stack /\ sig[k].listeners = <<>>
        BY <1>2, <1>5, <2>2, <2>6, <3>2
      <4> QED BY <1>6, <2>1, <2>6, <4>1 DEF ClaimsOK
    <3> QED BY <3>1, <3>2
  <2>7. ASSUME NEW d \in DOMAIN stack', stack'[d].op = "stop", stack'[d].pc \in {"detach", "del_signal", "free"}
        PROVE  sig'[stack'[d].signal].listeners = <<>>
    <3>1. d \in DOMAIN stack
      BY <1>3, <1>5, <2>7
    <3>2. /\ stack[d].op = "stop" /\ stack[d].pc \in {"detach", "del_signal", "free"}
          /\ stack'[d].signal = stack[d].signal
      BY <1>3, <2>7, <3>1 DEF SameFrames
    <3>3. stack[d].signal \in Sig
      BY <1>6, <3>1, <3>2 DEF CallsOK, FrameOK
    <3>4. sig[stack[d].signal].listeners = <<>>
      BY <1>6, <3>1, <3>2 DEF ClaimsOK
    <3> QED BY <1>2, <3>2, <3>3, <3>4
  <2> QED BY <2>4, <2>5, <2>6, <2>7 DEF ClaimsOK
<1>9. Destroying(stack') <=> Destroying(stack)
  BY <1>3, <1>5 DEF Destroying, SameFrames
<1>10. Pinned(stack') <=> Pinned(stack)
  BY <1>3, <1>5 DEF Pinned, SameFrames
<1>11. OwnerOK(owner', stack')
  <2>1. owner.destroyed => \A d \in DOMAIN stack' : stack'[d].pin => \E e \in DOMAIN stack' : e <= d /\ stack'[e].op = "destroy"
    <3> SUFFICES ASSUME owner.destroyed, NEW d \in DOMAIN stack', stack'[d].pin
                 PROVE  \E e \in DOMAIN stack' : e <= d /\ stack'[e].op = "destroy"
      OBVIOUS
    <3>1. d \in DOMAIN stack /\ stack[d].pin
      BY <1>3, <1>5 DEF SameFrames
    <3>2. PICK e \in DOMAIN stack : e <= d /\ stack[e].op = "destroy"
      BY <1>6, <3>1 DEF OwnerOK
    <3> QED BY <1>3, <1>5, <3>2 DEF SameFrames
  <2>2. \A d, e \in DOMAIN stack' : stack'[d].op = "destroy" /\ stack'[e].op = "destroy" => d = e
    <3>1. \A d \in DOMAIN stack' : stack'[d].op = "destroy" => d \in DOMAIN stack /\ stack[d].op = "destroy"
      BY <1>3, <1>5 DEF SameFrames
    <3> QED BY <1>6, <3>1 DEF OwnerOK
  <2> QED BY <1>1, <1>6, <1>9, <1>10, <2>1, <2>2 DEF OwnerOK
<1>12. TableOK(signals', sig', owner', stack')
  <2>1. \A k : Detached(stack', k) <=> Detached(stack, k)
    BY <1>3, <1>5 DEF Detached, SameFrames
  <2>2. Gone(owner', stack') <=> Gone(owner, stack)
    BY <1>1, <1>9 DEF Gone
  <2>3. \A m \in Name : signals[m] # Null => signals[m] \in Sig
    BY <1>6
  <2>4. TableOK(signals, sig', owner', stack')
    BY <1>2, <1>6, <2>1, <2>2, <2>3 DEF TableOK
  <2>5. signals' = signals
    BY <1>1
  <2> QED BY <2>4, <2>5
<1>13. StopsOK(handle', stack')
  <2>1. \A d \in DOMAIN stack : stack[d].op = "stop" =>
            stack[d].h \in Handle /\ stack[d].h # h /\ handle[stack[d].h].st = "dying"
    BY <1>1, <1>6 DEF StopsOK, CallsOK, FrameOK
  <2>2. \A d \in DOMAIN stack' : stack'[d].op = "stop" =>
            \/ d = n + 1 /\ stack'[d].h = h
            \/ d \in DOMAIN stack /\ stack[d].op = "stop" /\ stack'[d].h = stack[d].h
    BY <1>3, <1>5 DEF SameFrames
  <2>3. \A d \in DOMAIN stack' : stack'[d].op = "stop" => handle'[stack'[d].h].st = "dying"
    BY <1>2, <2>1, <2>2
  <2>4. \A d, e \in DOMAIN stack' : stack'[d].op = "stop" /\ stack'[e].op = "stop" /\ stack'[d].h = stack'[e].h => d = e
    BY <1>6, <2>1, <2>2 DEF StopsOK
  <2>5. ASSUME NEW y \in Handle, handle'[y].st = "dying"
        PROVE  \E d \in DOMAIN stack' : stack'[d].op = "stop" /\ stack'[d].h = y
    <3>1. CASE y = h
      BY <1>3, <1>5, <3>1
    <3>2. CASE y # h
      <4>1. PICK d \in DOMAIN stack : stack[d].op = "stop" /\ stack[d].h = y
        BY <1>2, <1>6, <2>5, <3>2 DEF StopsOK
      <4> QED BY <1>3, <1>5, <4>1 DEF SameFrames
    <3> QED BY <3>1, <3>2
  <2> QED BY <2>3, <2>4, <2>5 DEF StopsOK
<1>14. /\ \A d \in DOMAIN stack' : stack'[d].op = "emit" =>
              /\ d \in DOMAIN stack /\ stack[d].op = "emit" /\ stack'[d].allHandle = stack[d].allHandle
              /\ stack'[d].calls = stack[d].calls /\ stack'[d].i = stack[d].i /\ stack'[d].pc = stack[d].pc
       /\ \A d \in DOMAIN stack : stack[d].op = "emit" =>
              \A j \in DOMAIN stack[d].allHandle : stack[d].allHandle[j] \in Handle
  BY <1>3, <1>5, EmitHandles DEF SameFrames
<1>15. ASSUME NEW d \in DOMAIN stack, stack[d].op = "emit", NEW j \in DOMAIN stack[d].allHandle
       PROVE  Contains(stack[d].allHandle, stack[d].allHandle[j])
  <2>1. stack[d].allHandle \in Seq(Handle)
    BY EmitHandles
  <2> QED BY <2>1 DEF Contains
<1>16. SnapshotsOK(handle', stack')
  <2>1. ASSUME NEW d \in DOMAIN stack', stack'[d].op = "emit", NEW j \in DOMAIN stack'[d].allHandle
        PROVE  LET y == stack'[d].allHandle[j] IN
               /\ handle'[y].st # "unused"
               /\ y \in stack'[d].stopped => handle'[y].st # "live" /\ ~Contains(stack'[d].calls, y)
               /\ ~Contains(stack'[d].calls, y) /\ handle'[y].st # "live" => y \in stack'[d].stopped
    <3> DEFINE y == stack[d].allHandle[j]
    <3>1. /\ d \in DOMAIN stack /\ stack[d].op = "emit" /\ stack'[d].allHandle = stack[d].allHandle
          /\ stack'[d].calls = stack[d].calls /\ j \in DOMAIN stack[d].allHandle /\ y \in Handle
      BY <1>14, <2>1
    <3>2. /\ handle[y].st # "unused"
          /\ y \in stack[d].stopped => handle[y].st # "live" /\ ~Contains(stack[d].calls, y)
          /\ ~Contains(stack[d].calls, y) /\ handle[y].st # "live" => y \in stack[d].stopped
      BY <1>6, <3>1 DEF SnapshotsOK
    <3>3. Contains(stack[d].allHandle, y)
      BY <1>15, <3>1
    <3>4. stack'[d].stopped = IF Contains(stack[d].allHandle, h) /\ ~Contains(stack[d].calls, h)
                                THEN stack[d].stopped \cup {h} ELSE stack[d].stopped
      BY <1>3, <3>1
    <3>5. stack'[d].allHandle[j] = y
      BY <3>1
    <3> HIDE DEF y
    <3>6. CASE y = h
      BY <1>1, <1>2, <3>1, <3>2, <3>3, <3>4, <3>5, <3>6
    <3>7. CASE y # h
      BY <1>2, <3>1, <3>2, <3>4, <3>5, <3>7
    <3> QED BY <3>6, <3>7
  <2>2. ASSUME NEW d \in DOMAIN stack', NEW e \in DOMAIN stack', stack'[d].op = "stop", stack'[e].op = "emit",
               NEW j \in DOMAIN stack'[e].allHandle, stack'[e].allHandle[j] = stack'[d].h
        PROVE  e < d
    <3>1. e \in DOMAIN stack /\ stack[e].op = "emit" /\ stack'[e].allHandle = stack[e].allHandle
      BY <1>14, <2>2
    <3>2. CASE d = n + 1
      BY <1>5, <3>1, <3>2
    <3>3. CASE d # n + 1
      <4>1. d \in DOMAIN stack /\ stack[d].op = "stop" /\ stack'[d].h = stack[d].h
        BY <1>3, <1>5, <2>2, <3>3 DEF SameFrames
      <4> QED BY <1>6, <2>2, <3>1, <4>1 DEF SnapshotsOK
    <3> QED BY <3>2, <3>3
  <2> QED BY <2>1, <2>2 DEF SnapshotsOK
<1>17. ASSUME NEW d \in DOMAIN stack' PROVE OrderOK(stack'[d])
  <2> SUFFICES ASSUME stack'[d].op = "emit" PROVE OrderOK(stack'[d])
    BY DEF OrderOK
  <2> DEFINE f == stack'[d]
             r == stack[d]
  <2>1. /\ d \in DOMAIN stack /\ r.op = "emit" /\ f.allHandle = r.allHandle /\ f.calls = r.calls
        /\ f.i = r.i /\ f.pc = r.pc
    BY <1>14
  <2>2. Reached(f) = Reached(r) /\ OrderOK(r)
    BY <1>6, <2>1 DEF Reached
  <2>3. \A j \in 1..Reached(r) : j \in DOMAIN r.allHandle
    <3>1. FrameOK(r) /\ r \in FrameSet
      BY <1>6, <2>1 DEF CallsOK
    <3>2. r.allHandle \in Seq(Handle) /\ r.i \in Nat
      BY <3>1 DEF FrameSet
    <3> HIDE DEF r
    <3>3. r.i <= Len(r.allHandle) + 1 /\ (r.pc = "handler" => r.i <= Len(r.allHandle))
      BY <2>1, <3>1, <3>2 DEF FrameOK
    <3> QED BY <3>2, <3>3 DEF Reached
  <2>4. f.stopped = IF Contains(r.allHandle, h) /\ ~Contains(r.calls, h)
                      THEN r.stopped \cup {h} ELSE r.stopped
    BY <1>3, <2>1
  <2>5. ASSUME NEW j \in 1..Reached(r)
        PROVE  Contains(r.calls, r.allHandle[j]) <=> r.allHandle[j] \notin f.stopped
    <3>1. Contains(r.calls, r.allHandle[j]) <=> r.allHandle[j] \notin r.stopped
      BY <2>1, <2>2 DEF OrderOK
    <3>2. r.allHandle[j] = h => h \notin r.stopped
      BY <1>1, <1>6, <2>1, <2>3 DEF SnapshotsOK
    <3> HIDE DEF f, r
    <3> QED BY <2>4, <3>1, <3>2
  <2> HIDE DEF f, r
  <2>6. OrderOK(f)
    BY <2>1, <2>2, <2>5 DEF OrderOK
  <2> QED BY <2>6 DEF f
<1>18. WeakOK(handle', stack')
  <2>1. \A y : Waiting(stack', y) = Waiting(stack, y)
    BY <1>3, <1>5, <1>14 DEF Waiting, SameFrames
  <2>2. ASSUME NEW y \in Handle, Entry(handle', stack', y) PROVE Entry(handle, stack, y)
    <3>1. CASE y = h
      BY <1>1, <3>1 DEF Entry
    <3>2. CASE y # h
      <4>1. handle'[y] = handle[y]
        BY <1>2, <3>2
      <4>2. \A d \in DOMAIN stack' : stack'[d].op = "stop" /\ stack'[d].h = y =>
                d \in DOMAIN stack /\ stack[d].op = "stop" /\ stack[d].h = y /\ stack[d].pc = stack'[d].pc
        BY <1>3, <1>5, <3>2 DEF SameFrames
      <4> QED BY <2>2, <4>1, <4>2 DEF Entry
    <3> QED BY <3>1, <3>2
  <2>3. ASSUME NEW y \in Handle
        PROVE  /\ handle'[y].weak >= Cardinality(Waiting(stack', y)) + (IF Entry(handle', stack', y) THEN 1 ELSE 0)
               /\ handle'[y].st = "freed" => handle'[y].weak = 0
    <3>1. /\ handle[y].weak >= Cardinality(Waiting(stack, y)) + (IF Entry(handle, stack, y) THEN 1 ELSE 0)
          /\ handle[y].st = "freed" => handle[y].weak = 0
      BY <1>6 DEF WeakOK
    <3>2. handle'[y].weak = handle[y].weak /\ (handle'[y].st = "freed" => handle[y].st = "freed")
      BY <1>2
    <3>3. handle[y].weak \in Nat /\ Cardinality(Waiting(stack, y)) \in Nat
      BY <1>6, WaitingCount DEF HandleSet
    <3> QED BY <2>1, <2>2, <3>1, <3>2, <3>3
  <2> QED BY <2>3 DEF WeakOK
<1> QED BY <1>2, <1>3, <1>7, <1>8, <1>11, <1>12, <1>13, <1>16, <1>17, <1>18 DEF SignalInv

-----------------------------------------------------------------------------
(* The invariant holds, and what it implies *)

\* Every step keeps the invariant.
LEMMA NextInv == ASSUME SignalInv, Liberties = {}, [Next]_vars PROVE SignalInv'
<1>1. ASSUME NEW n \in Name, NEW h \in Handle, ListenExisting(n, h) PROVE SignalInv'
  BY <1>1, ListenExistingInv
<1>2. ASSUME NEW n \in Name, NEW h \in Handle, NEW g \in Sig, ListenInternal(n, h, g) PROVE SignalInv'
  BY <1>2, ListenInternalInv
<1>3. ASSUME NEW n \in Name, NEW g \in Sig, ListenNew(n, g) PROVE SignalInv'
  BY <1>3, ListenNewInv
<1>4. ASSUME NEW h \in Handle, ListenAttach(h) PROVE SignalInv'
  BY <1>4, ListenAttachInv
<1>5. ASSUME NEW n \in Name, Emit(n) PROVE SignalInv'
  BY <1>5, EmitInv
<1>6. CASE EmitCall
  BY <1>6, EmitCallInv
<1>7. CASE EmitSkip
  BY <1>7, EmitSkipInv
<1>8. CASE EmitReturn
  BY <1>8, EmitReturnInv
<1>9. CASE EmitDone
  BY <1>9, EmitDoneInv
<1>10. ASSUME NEW h \in Handle, StopListener(h) PROVE SignalInv'
  BY <1>10, StopListenerInv
<1>11. CASE CheckLast
  BY <1>11, CheckLastInv
<1>12. CASE DetachSignal
  BY <1>12, DetachSignalInv
<1>13. CASE DelSignalReturns
  BY <1>13, DelSignalReturnsInv
<1>14. CASE FreeSignal
  BY <1>14, FreeSignalInv
<1>15. CASE DropEntry
  BY <1>15, DropEntryInv
<1>16. CASE HandleDestroyed
  BY <1>16, HandleDestroyedInv
<1>17. CASE DropOwner
  BY <1>17, DropOwnerInv
<1>18. CASE HoldOwner
  BY <1>18, HoldOwnerInv
<1>19. CASE OwnerDestroyed
  BY <1>19, OwnerDestroyedInv
<1>20. CASE UNCHANGED vars
  <2>1. signals' = signals /\ sig' = sig /\ handle' = handle /\ owner' = owner /\ stack' = stack
    BY <1>20 DEF vars
  <2> QED BY <2>1 DEF SignalInv
<1> QED BY <1>1, <1>2, <1>3, <1>4, <1>5, <1>6, <1>7, <1>8, <1>9, <1>10, <1>11, <1>12, <1>13, <1>14,
           <1>15, <1>16, <1>17, <1>18, <1>19, <1>20 DEF Next

\* The calls of every emission are those it owes.
LEMMA InvEmission == ASSUME SignalInv PROVE EmissionFaithful
<1> SUFFICES ASSUME NEW d \in DOMAIN stack, stack[d].op = "emit"
             PROVE  LET f == stack[d]
                        reached == IF f.pc = "handler" THEN f.i ELSE f.i - 1 IN
                    /\ IsInjective(f.allHandle)
                    /\ \A j \in 1..reached : Contains(f.calls, f.allHandle[j]) <=> f.allHandle[j] \notin f.stopped
                    /\ \A a \in DOMAIN f.calls : \E j \in 1..reached : f.calls[a] = f.allHandle[j]
                    /\ \A a, b \in DOMAIN f.calls : a < b =>
                           \E j, k \in DOMAIN f.allHandle :
                               j < k /\ f.calls[a] = f.allHandle[j] /\ f.calls[b] = f.allHandle[k]
  BY DEF EmissionFaithful
<1> DEFINE f == stack[d]
<1>1. FrameOK(f) /\ OrderOK(f) /\ f.op = "emit"
  BY DEF SignalInv, CallsOK
<1> HIDE DEF f
<1>2. IsInjective(f.allHandle)
  BY <1>1 DEF FrameOK, IsInjective
<1>3. LET reached == IF f.pc = "handler" THEN f.i ELSE f.i - 1 IN
      /\ \A j \in 1..reached : Contains(f.calls, f.allHandle[j]) <=> f.allHandle[j] \notin f.stopped
      /\ \A a \in DOMAIN f.calls : \E j \in 1..reached : f.calls[a] = f.allHandle[j]
      /\ \A a, b \in DOMAIN f.calls : a < b =>
             \E j, k \in DOMAIN f.allHandle :
                 j < k /\ f.calls[a] = f.allHandle[j] /\ f.calls[b] = f.allHandle[k]
  BY <1>1 DEF OrderOK, Reached
<1> QED BY <1>2, <1>3 DEF f

\* The structs, the lists, the table and the counts agree.
LEMMA InvSound == ASSUME SignalInv PROVE SignalsSound
<1>1. /\ DataOK(signals, sig, handle, owner) /\ CallsOK(stack)
      /\ ListsOK(sig, handle) /\ ClaimsOK(sig, stack)
      /\ TableOK(signals, sig, owner, stack) /\ StopsOK(handle, stack) /\ WeakOK(handle, stack)
  BY DEF SignalInv
<1>2. TypeOK
  <2>1. \A g \in Sig : /\ sig[g].mem \in {"unused", "live", "freed"} /\ sig[g].name \in Name \cup {Null}
                       /\ sig[g].nlisteners \in Nat /\ sig[g].listeners \in Seq(Handle)
    BY <1>1 DEF DataOK, SigSet
  <2>2. \A g \in Sig : ToSet(sig[g].listeners) \subseteq Handle
    BY <2>1 DEF ToSet
  <2>3. \A h \in Handle : /\ handle[h].st \in {"unused", "live", "dying", "dead", "freed"}
                          /\ handle[h].signal \in Sig \cup {Null} /\ handle[h].weak \in Nat
    BY <1>1 DEF DataOK, HandleSet
  <2> QED BY <1>1, <2>1, <2>2, <2>3 DEF TypeOK, DataOK, CallsOK
<1>3. SignalOwnership
  <2>1. ASSUME NEW g \in Sig
        PROVE  /\ sig[g].nlisteners = Len(sig[g].listeners)
               /\ IsInjective(sig[g].listeners)
    BY <1>1 DEF ListsOK, IsInjective
  <2>2. ASSUME NEW g \in Sig
        PROVE  sig[g].mem = "live" <=> sig[g].listeners # <<>> \/ \E d \in DOMAIN stack : Claims(stack[d], g)
    BY <1>1 DEF ListsOK, ClaimsOK
  <2>3. ASSUME NEW h \in Handle, handle[h].st = "live"
        PROVE  Contains(sig[handle[h].signal].listeners, h)
    <3>1. /\ handle[h].signal \in Sig
          /\ \E j \in DOMAIN sig[handle[h].signal].listeners : sig[handle[h].signal].listeners[j] = h
      BY <1>1, <2>3 DEF ListsOK
    <3>2. sig[handle[h].signal].listeners \in Seq(Handle)
      BY <1>1, <3>1 DEF DataOK, SigSet
    <3> QED BY <3>1, <3>2 DEF Contains
  <2> QED BY <2>1, <2>2, <2>3 DEF SignalOwnership, Claims
<1>4. SnapshotLive
  <2>1. ASSUME NEW d \in DOMAIN stack, stack[d].op = "emit", NEW j \in stack[d].i..Len(stack[d].allHandle)
        PROVE  handle[stack[d].allHandle[j]].st # "freed"
    <3> DEFINE y == stack[d].allHandle[j]
    <3>1. stack \in Seq(FrameSet) /\ FrameOK(stack[d]) /\ stack[d].allHandle \in Seq(Handle) /\ stack[d].i \in Nat
      BY EmitHandles
    <3>2. stack[d].i \in 1..(Len(stack[d].allHandle) + 1)
      BY <2>1, <3>1 DEF FrameOK
    <3>3. j \in DOMAIN stack[d].allHandle
      BY <3>1, <3>2
    <3>4. y \in Handle /\ d \in Waiting(stack, y)
      BY <2>1, <3>1, <3>3 DEF Waiting
    <3> HIDE DEF y
    <3>5. IsFiniteSet(Waiting(stack, y)) /\ Cardinality(Waiting(stack, y)) \in Nat
      BY <3>1, WaitingCount
    <3>6. Cardinality(Waiting(stack, y)) # 0
      BY <3>4, <3>5, FS_EmptySet
    <3>7. handle[y].weak \in Nat
      BY <1>1, <3>4 DEF DataOK, HandleSet
    <3>8. handle[y].weak >= Cardinality(Waiting(stack, y)) + (IF Entry(handle, stack, y) THEN 1 ELSE 0)
          /\ (handle[y].st = "freed" => handle[y].weak = 0)
      BY <1>1, <3>4 DEF WeakOK
    <3>9. handle[y].st # "freed"
      BY <3>5, <3>6, <3>7, <3>8
    <3> QED BY <3>9 DEF y
  <2> QED BY <1>1, <2>1 DEF SnapshotLive, StopsOK
<1>5. TableConsistent
  BY <1>1, DetachInTable DEF TableConsistent, TableOK
<1> QED BY <1>2, <1>3, <1>4, <1>5 DEF SignalsSound

\* Whatever handlers, __new_signal, __del_signal and destructors add, stop and destroy,
\* at any depth of nesting, di_emitn calls the listeners it found when it began, in
\* their order and once each, but for those stopped before their turn.  The invariant
\* is needed because a handle is called while it is being destroyed if it can be
\* upgraded: only the order of the calls on the stack excludes that.
THEOREM EmissionsAlwaysFaithful == Liberties = {} => (Spec => []EmissionFaithful)
<1>1. Liberties = {} /\ SignalInv /\ [Next]_vars => SignalInv'
  BY NextInv
<1>2. SignalInv => EmissionFaithful
  BY InvEmission
<1> SUFFICES ASSUME Liberties = {} PROVE Spec => []EmissionFaithful
  OBVIOUS
<1>3. SignalInv /\ [Next]_vars => SignalInv'
  BY <1>1
<1> QED BY InitInv, <1>2, <1>3, PTL DEF Spec

\* The signal structs, the lists of listeners, the table of the object and the weak
\* counts of the handles agree at every step of di_listen_to, di_emitn,
\* di_listen_handle_dtor and the destruction of the object, however they are nested: no
\* struct is used after it was freed and none is left behind.
THEOREM SignalsAlwaysSound == Liberties = {} => (Spec => []SignalsSound)
<1>1. Liberties = {} /\ SignalInv /\ [Next]_vars => SignalInv'
  BY NextInv
<1>2. SignalInv => SignalsSound
  BY InvSound
<1> SUFFICES ASSUME Liberties = {} PROVE Spec => []SignalsSound
  OBVIOUS
<1>3. SignalInv /\ [Next]_vars => SignalInv'
  BY <1>1
<1> QED BY InitInv, <1>2, <1>3, PTL DEF Spec
=============================================================================
