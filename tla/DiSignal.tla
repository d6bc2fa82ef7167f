------------------------------ MODULE DiSignal ------------------------------
(***************************************************************************)
(* Signals of one object (object.c): di_listen_to, di_emitn, the           *)
(* destructor of listen handles, and the detaching of signals when the     *)
(* object is destroyed.                                                    *)
(*                                                                         *)
(* Handlers, __new_signal, __del_signal and destructors are user code that *)
(* may call any of these operations again, so the running calls form an    *)
(* explicit stack; user code runs when the stack is empty or when the top  *)
(* frame has called out and waits for the call to return.                  *)
(*                                                                         *)
(* User code holds at most one strong reference to each listen handle, and *)
(* drops it to stop the listener.                                          *)
(***************************************************************************)
EXTENDS Integers, SequencesExt

CONSTANTS Name,       \* signal names
          Internal,   \* names starting with "__": no __new_signal/__del_signal
          Sig,        \* addresses of struct di_signal, each allocated once
          Handle,     \* listen handles, each allocated once
          Null,
          MaxDepth,   \* bound on nested calls made by user code
          Liberties   \* what user code may do:
                      \*  "stop_in_new_signal": drop the only listener of the
                      \*    signal for which __new_signal is running
                      \*  "resurrect": keep a reference to the object while it
                      \*    is being destroyed

ASSUME ConstantsAssumption ==
    /\ Internal \subseteq Name
    /\ Null \notin Sig \cup Handle
    /\ MaxDepth \in Nat \ {0}
    /\ Liberties \subseteq {"stop_in_new_signal", "resurrect"}

VARIABLES signals,   \* obj->signals: [Name -> Sig \cup {Null}]
          sig,       \* the di_signal structs
          handle,    \* the di_listen_handle structs with their listen_entry
          owner,     \* held by user code? destroyed?
          stack      \* running calls

vars == <<signals, sig, handle, owner, stack>>

EmptySig(mem, n) == [mem |-> mem, name |-> n, listeners |-> <<>>, nlisteners |-> 0]
NoHandle == [st |-> "unused", signal |-> Null, weak |-> 0]

\* calls and stopped are history: the handles whose handlers were called, and
\* the handles of all_handle whose destruction began before their turn.
CallFrame(op, pc, g, h, pin, all) ==
    [op |-> op, pc |-> pc, signal |-> g, h |-> h, pin |-> pin,
     allHandle |-> all, i |-> 1, calls |-> <<>>, stopped |-> {}]

Init ==
    /\ signals = [n \in Name |-> Null]
    /\ sig = [g \in Sig |-> EmptySig("unused", Null)]
    /\ handle = [h \in Handle |-> NoHandle]
    /\ owner = [held |-> TRUE, destroyed |-> FALSE]
    /\ stack = <<>>

Top == stack[Len(stack)]
Popped == Front(stack)
InFrame(op, pc) == stack # <<>> /\ Top.op = op /\ Top.pc = pc
SetPc(pc) == [stack EXCEPT ![Len(stack)].pc = pc]
SetPcPin(pc, pin) == [stack EXCEPT ![Len(stack)].pc = pc, ![Len(stack)].pin = pin]

UserPc == {"new_signal", "del_signal", "handler", "members", "dtor"}
UserCode == stack # <<>> => Top.pc \in UserPc
MayCall == UserCode /\ Len(stack) < MaxDepth

Pinned(stk) == \E d \in DOMAIN stk : stk[d].pin
\* The strong count of the object is not zero.
Referenced == owner.held \/ Pinned(stack)

DestroyFrame == CallFrame("destroy", "dtor", Null, Null, TRUE, <<>>)

\* The last strong reference of the object went away: di_destroy_object.  It
\* holds a reference (pin) while the dtor runs and the members are removed.
UnrefOwner(held, stk) ==
    IF held \/ Pinned(stk) \/ owner.destroyed
      THEN /\ owner' = [owner EXCEPT !.held = held]
           /\ stack' = stk
      ELSE /\ owner' = [held |-> FALSE, destroyed |-> TRUE]
           /\ stack' = Append(stk, DestroyFrame)

\* The memory of a listen handle is freed with its last weak reference.
DropWeak(hd, h) ==
    [hd EXCEPT ![h].weak = @ - 1,
               ![h].st = IF hd[h].st = "dead" /\ hd[h].weak = 1 THEN "freed" ELSE @]

-----------------------------------------------------------------------------
(* di_listen_to *)

\* The second half: the handle and its listener entry, which holds a weak
\* reference to the handle; list_add puts the entry first.
Attach(g, h) ==
    /\ handle[h].st = "unused"
    /\ handle' = [handle EXCEPT ![h] = [st |-> "live", signal |-> g, weak |-> 1]]
    /\ sig' = [sig EXCEPT ![g].listeners = <<h>> \o @, ![g].nlisteners = @ + 1]

\* assert(!obj->destroyed)
CanListen == UserCode /\ Referenced /\ ~owner.destroyed

ListenExisting(n, h) ==
    /\ CanListen
    /\ signals[n] # Null
    /\ Attach(signals[n], h)
    /\ UNCHANGED <<signals, owner, stack>>

\* A new signal with an internal name.
ListenInternal(n, h, g) ==
    /\ CanListen
    /\ signals[n] = Null
    /\ n \in Internal
    /\ sig[g].mem = "unused"
    /\ handle[h].st = "unused"
    /\ signals' = [signals EXCEPT ![n] = g]
    /\ sig' = [sig EXCEPT ![g] = [mem |-> "live", name |-> n, listeners |-> <<h>>,
                                  nlisteners |-> 1]]
    /\ handle' = [handle EXCEPT ![h] = [st |-> "live", signal |-> g, weak |-> 1]]
    /\ UNCHANGED <<owner, stack>>

\* A new signal: it is entered in the table, then __new_signal is called.
ListenNew(n, g) ==
    /\ CanListen
    /\ MayCall
    /\ signals[n] = Null
    /\ n \notin Internal
    /\ sig[g].mem = "unused"
    /\ signals' = [signals EXCEPT ![n] = g]
    /\ sig' = [sig EXCEPT ![g] = EmptySig("live", n)]
    /\ stack' = Append(stack, CallFrame("listen", "new_signal", g, Null, FALSE, <<>>))
    /\ UNCHANGED <<handle, owner>>

\* __new_signal returned: the listener is attached to the struct created before
\* the call.  Writing to a freed struct is undefined: there the model stops.
ListenAttach(h) ==
    /\ InFrame("listen", "new_signal")
    /\ sig[Top.signal].mem = "live"
    /\ Attach(Top.signal, h)
    /\ stack' = Popped
    /\ UNCHANGED <<signals, owner>>

-----------------------------------------------------------------------------
(* di_emitn *)

\* Weak references to all listen handles are collected first.
Emit(n) ==
    /\ MayCall
    /\ Referenced
    /\ signals[n] # Null
    /\ LET all == sig[signals[n]].listeners IN
       /\ stack' = Append(stack, CallFrame("emit", "next", Null, Null, FALSE, all))
       /\ handle' = [h \in Handle |-> IF Contains(all, h)
                                        THEN [handle[h] EXCEPT !.weak = @ + 1]
                                        ELSE handle[h]]
    /\ UNCHANGED <<signals, sig, owner>>

\* Mutant: the handler is called whether or not the handle could be upgraded.
EmitCallUnchecked ==
    /\ InFrame("emit", "next")
    /\ Top.i <= Len(Top.allHandle)
    /\ stack' = [stack EXCEPT ![Len(stack)].pc = "handler",
                              ![Len(stack)].calls = Append(@, Top.allHandle[Top.i])]
    /\ UNCHANGED <<signals, sig, handle, owner>>

\* The handle is upgraded: its strong count is positive while it is held or
\* being destroyed.  The handler is called.
EmitCall ==
    /\ InFrame("emit", "next")
    /\ Top.i <= Len(Top.allHandle)
    /\ handle[Top.allHandle[Top.i]].st \in {"live", "dying"}
    /\ stack' = [stack EXCEPT ![Len(stack)].pc = "handler",
                              ![Len(stack)].calls = Append(@, Top.allHandle[Top.i])]
    /\ UNCHANGED <<signals, sig, handle, owner>>

\* The listener has stopped: continue, without dropping the weak reference.
EmitSkip ==
    /\ InFrame("emit", "next")
    /\ Top.i <= Len(Top.allHandle)
    /\ handle[Top.allHandle[Top.i]].st \notin {"live", "dying"}
    /\ stack' = [stack EXCEPT ![Len(stack)].i = @ + 1]
    /\ UNCHANGED <<signals, sig, handle, owner>>

\* The handler returned and was released; the weak reference is dropped.
EmitReturn ==
    /\ InFrame("emit", "handler")
    /\ handle' = DropWeak(handle, Top.allHandle[Top.i])
    /\ stack' = [stack EXCEPT ![Len(stack)].pc = "next", ![Len(stack)].i = @ + 1]
    /\ UNCHANGED <<signals, sig, owner>>

EmitDone ==
    /\ InFrame("emit", "next")
    /\ Top.i > Len(Top.allHandle)
    /\ stack' = Popped
    /\ UNCHANGED <<signals, sig, handle, owner>>

-----------------------------------------------------------------------------
(* di_listen_handle_dtor *)

MayStop(h) ==
    "stop_in_new_signal" \in Liberties
    \/ ~ \E d \in DOMAIN stack : /\ stack[d].op = "listen"
                                 /\ stack[d].signal = handle[h].signal
                                 /\ Len(sig[handle[h].signal].listeners) = 1

\* list_del of the entry of h
Unlinked(ls, h) == RemoveAt(ls, CHOOSE i \in DOMAIN ls : ls[i] = h)

\* history: h stopped before the emissions under way reached it.
NoteStopped(stk, h) ==
    [d \in DOMAIN stk |->
        IF stk[d].op = "emit" /\ Contains(stk[d].allHandle, h) /\ ~Contains(stk[d].calls, h)
          THEN [stk[d] EXCEPT !.stopped = @ \cup {h}] ELSE stk[d]]

\* Mutant: nlisteners is decremented when the signal is freed only.
StopListenerUncounted(h) ==
    /\ MayCall
    /\ MayStop(h)
    /\ handle[h].st = "live"
    /\ handle' = [handle EXCEPT ![h].st = "dying"]
    /\ sig' = [sig EXCEPT ![handle[h].signal].listeners = Unlinked(@, h)]
    /\ stack' = Append(NoteStopped(stack, h),
                       CallFrame("stop", "unlinked", handle[h].signal, h, FALSE, <<>>))
    /\ UNCHANGED <<signals, owner>>

\* User code drops the handle, which is destroyed: the listener is unlinked.
StopListener(h) ==
    /\ MayCall
    /\ MayStop(h)
    /\ handle[h].st = "live"
    /\ handle' = [handle EXCEPT ![h].st = "dying"]
    /\ sig' = [sig EXCEPT ![handle[h].signal].listeners = Unlinked(@, h),
                          ![handle[h].signal].nlisteners = @ - 1]
    /\ stack' = Append(NoteStopped(stack, h),
                       CallFrame("stop", "unlinked", handle[h].signal, h, FALSE, <<>>))
    /\ UNCHANGED <<signals, owner>>

\* Is the list empty, and if so, can the owner be upgraded?
CheckLast ==
    /\ InFrame("stop", "unlinked")
    /\ stack' = IF sig[Top.signal].listeners # <<>> THEN SetPc("entry")
                ELSE IF Referenced
                       THEN SetPcPin("detach", TRUE)
                       ELSE SetPc("free")
    /\ UNCHANGED <<signals, sig, handle, owner>>

\* HASH_DEL, then __del_signal unless the name is internal.
DetachSignal ==
    /\ InFrame("stop", "detach")
    /\ signals' = [signals EXCEPT ![sig[Top.signal].name] = Null]
    /\ stack' = SetPc(IF sig[Top.signal].name \in Internal THEN "free" ELSE "del_signal")
    /\ UNCHANGED <<sig, handle, owner>>

DelSignalReturns ==
    /\ InFrame("stop", "del_signal")
    /\ stack' = SetPc("free")
    /\ UNCHANGED <<signals, sig, handle, owner>>

\* The signal struct is freed and the reference to the owner is released.
FreeSignal ==
    /\ InFrame("stop", "free")
    /\ sig' = [sig EXCEPT ![Top.signal] = EmptySig("freed", Null)]
    /\ IF Top.pin
         THEN UnrefOwner(owner.held, SetPcPin("entry", FALSE))
         ELSE stack' = SetPc("entry") /\ UNCHANGED owner
    /\ UNCHANGED <<signals, handle>>

\* The entry and its weak reference go; then the members of the handle, which
\* may run the destructor of the handler.
DropEntry ==
    /\ InFrame("stop", "entry")
    /\ handle' = DropWeak(handle, Top.h)
    /\ stack' = SetPc("members")
    /\ UNCHANGED <<signals, sig, owner>>

\* The destruction of the handle completes: its strong count is zero.
HandleDestroyed ==
    /\ InFrame("stop", "members")
    /\ handle' = [handle EXCEPT ![Top.h].st = IF handle[Top.h].weak = 0 THEN "freed"
                                              ELSE "dead"]
    /\ stack' = Popped
    /\ UNCHANGED <<signals, sig, owner>>

-----------------------------------------------------------------------------
(* The object *)

\* User code drops its reference to the object.
DropOwner ==
    /\ MayCall
    /\ owner.held
    /\ UnrefOwner(FALSE, stack)
    /\ UNCHANGED <<signals, sig, handle>>

\* User code takes a reference (di_upgrade_weak_ref succeeds).
HoldOwner ==
    /\ UserCode
    /\ ~owner.held
    /\ Referenced
    /\ owner.destroyed => "resurrect" \in Liberties
    /\ owner' = [owner EXCEPT !.held = TRUE]
    /\ UNCHANGED <<signals, sig, handle, stack>>

\* The end of di_destroy_object: all signals are detached, none is freed.
OwnerDestroyed ==
    /\ InFrame("destroy", "dtor")
    /\ signals' = [n \in Name |-> Null]
    /\ stack' = Popped
    /\ UNCHANGED <<sig, handle, owner>>

-----------------------------------------------------------------------------
Next ==
    \/ \E n \in Name, h \in Handle : ListenExisting(n, h)
    \/ \E n \in Name, h \in Handle, g \in Sig : ListenInternal(n, h, g)
    \/ \E n \in Name, g \in Sig : ListenNew(n, g)
    \/ \E h \in Handle : ListenAttach(h)
    \/ \E n \in Name : Emit(n)
    \/ EmitCall \/ EmitSkip \/ EmitReturn \/ EmitDone
    \/ \E h \in Handle : StopListener(h)
    \/ CheckLast \/ DetachSignal \/ DelSignalReturns \/ FreeSignal
    \/ DropEntry \/ HandleDestroyed
    \/ DropOwner \/ HoldOwner \/ OwnerDestroyed

Spec == Init /\ [][Next]_vars

-----------------------------------------------------------------------------
(* Properties *)

\* Type invariant of the signal structs, the handles and the call stack.
TypeOK ==
    /\ signals \in [Name -> Sig \cup {Null}]
    /\ \A g \in Sig : /\ sig[g].mem \in {"unused", "live", "freed"}
                      /\ sig[g].name \in Name \cup {Null}
                      /\ sig[g].nlisteners \in Nat
                      /\ ToSet(sig[g].listeners) \subseteq Handle
    /\ \A h \in Handle : /\ handle[h].st \in {"unused", "live", "dying", "dead", "freed"}
                         /\ handle[h].signal \in Sig \cup {Null}
                         /\ handle[h].weak \in Nat
    /\ owner \in [held : BOOLEAN, destroyed : BOOLEAN]
    /\ Len(stack) <= MaxDepth + 1

\* An emission calls the listeners it found when it started, in their order,
\* each once, and leaves out exactly those that were stopped before their turn,
\* whatever the handlers add, stop or destroy meanwhile ("If a listener is
\* removed before it's called during an emission, it's guaranteed to not be
\* called").
EmissionFaithful ==
    \A d \in DOMAIN stack :
        LET f == stack[d]
            reached == IF f.pc = "handler" THEN f.i ELSE f.i - 1 IN
        f.op = "emit" =>
            /\ IsInjective(f.allHandle)
            /\ \A j \in 1..reached : Contains(f.calls, f.allHandle[j]) <=> f.allHandle[j] \notin f.stopped
            /\ \A a \in DOMAIN f.calls : \E j \in 1..reached : f.calls[a] = f.allHandle[j]
            /\ \A a, b \in DOMAIN f.calls : a < b =>
                   \E j, k \in DOMAIN f.allHandle :
                       j < k /\ f.calls[a] = f.allHandle[j] /\ f.calls[b] = f.allHandle[k]

\* A signal struct is owned by its listeners: it is allocated exactly as long as
\* a listener is attached, a first listener is being attached, or its last
\* listener is being destroyed; nlisteners is the length of the list (asserted
\* in di_emitn), and a listener that was not stopped is in the list of a live
\* signal.
SignalOwnership ==
    /\ \A g \in Sig :
         /\ sig[g].nlisteners = Len(sig[g].listeners)
         /\ IsInjective(sig[g].listeners)
         /\ sig[g].mem = "live" <=>
              \/ sig[g].listeners # <<>>
              \/ \E d \in DOMAIN stack :
                     /\ stack[d].signal = g
                     /\ \/ stack[d].op = "listen"
                        \/ /\ stack[d].op = "stop"
                           /\ stack[d].pc \in {"unlinked", "detach", "del_signal", "free"}
    /\ \A h \in Handle :
         handle[h].st = "live" => Contains(sig[handle[h].signal].listeners, h)

\* No handle that an emission still has to visit has been freed, and none that
\* is being destroyed.
SnapshotLive ==
    \A d \in DOMAIN stack :
        /\ stack[d].op = "emit" =>
             \A j \in stack[d].i..Len(stack[d].allHandle) :
                 handle[stack[d].allHandle[j]].st # "freed"
        /\ stack[d].op = "stop" => handle[stack[d].h].st = "dying"

\* The table of the object holds only allocated signals, under their names, and
\* HASH_DEL is applied only to a signal that is in the table ("If the owner is
\* still alive, we also [...] detach the signal struct from the owner's
\* signals").
TableConsistent ==
    /\ \A n \in Name : signals[n] # Null =>
           sig[signals[n]].mem = "live" /\ sig[signals[n]].name = n
    /\ InFrame("stop", "detach") => signals[sig[Top.signal].name] = Top.signal

\* The signal for which __new_signal is running is still allocated, so that the
\* listener can be attached when the call returns.
NewSignalSurvives ==
    \A d \in DOMAIN stack : stack[d].op = "listen" => sig[stack[d].signal].mem = "live"
\* The signals of an object, their listeners and the emissions that go
\* through them agree: no struct is used after it was freed, none is left
\* behind, and the counts are those of the lists.
SignalsSound == TypeOK /\ SignalOwnership /\ SnapshotLive /\ TableConsistent
=============================================================================
