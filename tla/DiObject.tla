------------------------------ MODULE DiObject ------------------------------
(***************************************************************************)
(* Lifetime of deai objects (object.c, di_internal.h): strong and weak     *)
(* reference counts, members, finalisation and destruction.                *)
(*                                                                         *)
(* deai is single threaded, but dropping a reference may run a destructor, *)
(* a destructor may run arbitrary user code, and that code may drop more   *)
(* references.  The C call stack of di_destroy_object/di_finalize_object   *)
(* invocations is therefore explicit (variable stack); user code runs      *)
(* when the stack is empty (a main loop callback) or when the destructor   *)
(* of the top frame has been called and has not returned.                  *)
(*                                                                         *)
(* Every place that can hold an object pointer is a cell: a variable of    *)
(* the user code (a C local, a Lua variable, a root), a member of an       *)
(* object, or the reference a destroy/finalize frame takes on its object.  *)
(***************************************************************************)
EXTENDS Integers, Sequences, FiniteSets

CONSTANTS Object,      \* addresses of objects; each is allocated at most once
          Name,        \* member names
          Slot,        \* variables of the user code
          Null,        \* no object, no member
          MaxDepth,    \* bound on the depth of the destruction stack
          Liberties    \* what user code that is not tame may do in a destructor:
                       \*  "pull_next": remove the member that a running
                       \*    finalisation of the same object visits next
                       \*  "late_member": add members to an object whose
                       \*    destruction has begun

ASSUME ConstantsAssumption ==
    /\ IsFiniteSet(Object) /\ IsFiniteSet(Name) /\ IsFiniteSet(Slot)
    /\ Null \notin Object /\ Null \notin Name
    /\ MaxDepth \in Nat
    /\ Liberties \subseteq {"pull_next", "late_member"}

Var(s) == <<"var", s>>
Mem(o, n) == <<"mem", o, n>>
Frm(d) == <<"frm", d>>
VarCell == {Var(s) : s \in Slot}
MemCell == {Mem(o, n) : o \in Object, n \in Name}
FrmCell == {Frm(d) : d \in 1..MaxDepth}
Cell == VarCell \cup MemCell \cup FrmCell

VARIABLES mem,        \* is the struct di_object_internal allocated?
          refCount,   \* ref_count
          weakCount,  \* weak_ref_count
          destroyed,  \* destroyed
          dtor,       \* is the dtor pointer set?
          own,        \* the object a cell holds a strong reference to
          weak,       \* the object a cell holds a weak reference to
          stack,      \* running di_destroy_object/di_finalize_object calls
          liberties   \* what the user code of this program does: Liberties, or none of them

counts == <<mem, refCount, weakCount, destroyed>>
vars == <<mem, refCount, weakCount, destroyed, dtor, own, weak, stack>>

Frame == [op : {"destroy", "finalize"}, obj : Object,
          pc : {"enter", "dtor", "loop"}, next : Name \cup {Null}]

Enter(op, o) == [op |-> op, obj |-> o, pc |-> "enter", next |-> Null]
Depth == Len(stack)
Top == stack[Len(stack)]
Popped == SubSeq(stack, 1, Len(stack) - 1)

Vacant(c) == own[c] = Null /\ weak[c] = Null

Init ==
    /\ mem = [o \in Object |-> "unused"]
    /\ refCount = [o \in Object |-> 0]
    /\ weakCount = [o \in Object |-> 0]
    /\ destroyed = [o \in Object |-> FALSE]
    /\ dtor = [o \in Object |-> FALSE]
    /\ own = [c \in Cell |-> Null]
    /\ weak = [c \in Cell |-> Null]
    /\ stack = <<>>
    /\ liberties \in {{}, Liberties}

-----------------------------------------------------------------------------
(* Reference counting primitives *)

\* di_decrement_weak_ref_count: the last weak reference frees the struct.
DecrementWeakRefCount(o) ==
    /\ weakCount' = [weakCount EXCEPT ![o] = @ - 1]
    /\ mem' = IF weakCount[o] = 1 THEN [mem EXCEPT ![o] = "freed"] ELSE mem

\* Mutant: destroyed is not set.
DestroyObjectUnmarked(o, c, stk) ==
    /\ Len(stk) < MaxDepth
    /\ own' = [own EXCEPT ![c] = Null, ![Frm(Len(stk) + 1)] = o]
    /\ stack' = Append(stk, Enter("destroy", o))
    /\ UNCHANGED <<mem, refCount, weakCount, destroyed>>

\* di_destroy_object, as called by di_unref_object when the count reached 0:
\* it takes a reference of its own (so the count is 1 again), sets destroyed
\* and starts to finalise the object.  stk is the stack it is called on.
DestroyObject(o, c, stk) ==
    /\ Len(stk) < MaxDepth
    /\ destroyed' = [destroyed EXCEPT ![o] = TRUE]
    /\ own' = [own EXCEPT ![c] = Null, ![Frm(Len(stk) + 1)] = o]
    /\ stack' = Append(stk, Enter("destroy", o))
    /\ UNCHANGED <<mem, refCount, weakCount>>

\* Mutant: the last strong reference frees the struct, weak references or not.
UnrefObjectFrees(c, stk) ==
    LET o == own[c] IN
    \/ /\ refCount[o] # 1 \/ destroyed[o]
       /\ refCount' = [refCount EXCEPT ![o] = @ - 1]
       /\ own' = [own EXCEPT ![c] = Null]
       /\ stack' = stk
       /\ mem' = IF refCount[o] = 1 THEN [mem EXCEPT ![o] = "freed"] ELSE mem
       /\ UNCHANGED <<weakCount, destroyed>>
    \/ /\ refCount[o] = 1 /\ ~destroyed[o]
       /\ DestroyObject(o, c, stk)

\* di_unref_object on the strong reference that cell c holds.
UnrefObject(c, stk) ==
    LET o == own[c] IN
    \/ /\ refCount[o] # 1
       /\ refCount' = [refCount EXCEPT ![o] = @ - 1]
       /\ own' = [own EXCEPT ![c] = Null]
       /\ stack' = stk
       /\ UNCHANGED <<mem, weakCount, destroyed>>
    \/ /\ refCount[o] = 1
       /\ destroyed[o]
       /\ refCount' = [refCount EXCEPT ![o] = 0]
       /\ own' = [own EXCEPT ![c] = Null]
       /\ stack' = stk
       /\ DecrementWeakRefCount(o)
       /\ UNCHANGED destroyed
    \/ /\ refCount[o] = 1
       /\ ~destroyed[o]
       /\ DestroyObject(o, c, stk)

\* di_drop_weak_ref on the weak reference that cell c holds.
DropWeakRef(c) ==
    /\ weak' = [weak EXCEPT ![c] = Null]
    /\ DecrementWeakRefCount(weak[c])
    /\ UNCHANGED <<refCount, destroyed>>

\* di_free_value for DI_TYPE_OBJECT and DI_TYPE_WEAK_OBJECT.
FreeValue(c, stk) ==
    \/ /\ own[c] # Null
       /\ UnrefObject(c, stk)
       /\ UNCHANGED weak
    \/ /\ weak[c] # Null
       /\ DropWeakRef(c)
       /\ stack' = stk
       /\ UNCHANGED own

\* di_ref_object, the new reference being kept in cell c.
RefObject(o, c) ==
    /\ own' = [own EXCEPT ![c] = o]
    /\ refCount' = [refCount EXCEPT ![o] = @ + 1]
    /\ UNCHANGED <<mem, weakCount, destroyed, weak>>

\* Mutant: the pointer is stored and the count is not incremented.
WeaklyRefObjectUncounted(o, c) ==
    /\ weak' = [weak EXCEPT ![c] = o]
    /\ UNCHANGED <<mem, refCount, weakCount, destroyed, own>>

\* di_weakly_ref_object, the new weak reference being kept in cell c.
WeaklyRefObject(o, c) ==
    /\ weak' = [weak EXCEPT ![c] = o]
    /\ weakCount' = [weakCount EXCEPT ![o] = @ + 1]
    /\ UNCHANGED <<mem, refCount, destroyed, own>>

\* Mutant: an object pointer is copied like any other bytes.
CopyValueShallow(src, dst) ==
    /\ ~Vacant(src)
    /\ own' = [own EXCEPT ![dst] = own[src]]
    /\ weak' = [weak EXCEPT ![dst] = weak[src]]
    /\ UNCHANGED counts

\* di_copy_value for the two object types.
CopyValue(src, dst) ==
    \/ own[src] # Null /\ RefObject(own[src], dst)
    \/ weak[src] # Null /\ WeaklyRefObject(weak[src], dst)

-----------------------------------------------------------------------------
(* Operations of user code *)

UserCode == stack # <<>> => Top.pc = "dtor"

\* User code reaches an object through a variable, or because it is the
\* argument of the destructor it runs in.
Accessible(o) ==
    \/ \E s \in Slot : own[Var(s)] = o
    \/ stack # <<>> /\ Top.obj = o

\* A finalisation of o has saved a pointer to member n (next_m) and will
\* dereference it when the call it is in returns.
Pending(o, n) ==
    \E d \in DOMAIN stack :
        stack[d].obj = o /\ stack[d].pc = "loop" /\ stack[d].next = n

MayRemove(o, n) == "pull_next" \in liberties \/ ~Pending(o, n)
MayAdd(o) == "late_member" \in liberties \/ ~destroyed[o]

\* di_new_object, followed by di_set_object_dtor if the type has a dtor.
NewObject(o, s, hasDtor) ==
    /\ UserCode
    /\ mem[o] = "unused"
    /\ Vacant(Var(s))
    /\ mem' = [mem EXCEPT ![o] = "live"]
    /\ refCount' = [refCount EXCEPT ![o] = 1]
    /\ weakCount' = [weakCount EXCEPT ![o] = 1]
    /\ dtor' = [dtor EXCEPT ![o] = hasDtor]
    /\ own' = [own EXCEPT ![Var(s)] = o]
    /\ UNCHANGED <<destroyed, weak, stack>>

TakeRef(o, s) ==
    /\ UserCode
    /\ Accessible(o)
    /\ Vacant(Var(s))
    /\ RefObject(o, Var(s))
    /\ UNCHANGED <<dtor, stack>>

TakeWeakRef(o, s) ==
    /\ UserCode
    /\ Accessible(o)
    /\ Vacant(Var(s))
    /\ WeaklyRefObject(o, Var(s))
    /\ UNCHANGED <<dtor, stack>>

\* Mutant: ref_count is not looked at.
UpgradeWeakRefUnchecked(s, t) ==
    /\ UserCode
    /\ weak[Var(s)] # Null
    /\ Vacant(Var(t))
    /\ RefObject(weak[Var(s)], Var(t))
    /\ UNCHANGED <<dtor, stack>>

\* di_upgrade_weak_ref; when ref_count is 0 it returns NULL and changes nothing.
UpgradeWeakRef(s, t) ==
    /\ UserCode
    /\ weak[Var(s)] # Null
    /\ refCount[weak[Var(s)]] > 0
    /\ Vacant(Var(t))
    /\ RefObject(weak[Var(s)], Var(t))
    /\ UNCHANGED <<dtor, stack>>

\* User code drops the reference in one of its variables.
DropVariable(s) ==
    /\ UserCode
    /\ FreeValue(Var(s), stack)
    /\ UNCHANGED dtor

\* di_add_member_clone with a new name (with an existing one it returns
\* -EEXIST after freeing the clone it made).
AddMemberClone(o, n, s) ==
    /\ UserCode
    /\ Accessible(o)
    /\ MayAdd(o)
    /\ Vacant(Mem(o, n))
    /\ CopyValue(Var(s), Mem(o, n))
    /\ UNCHANGED <<dtor, stack>>

\* di_add_member_move: the value moves into the member; if the name exists,
\* di_add_member frees the value it was given.
AddMemberMove(o, n, s) ==
    /\ UserCode
    /\ Accessible(o)
    /\ MayAdd(o)
    /\ ~Vacant(Var(s))
    /\ \/ /\ Vacant(Mem(o, n))
          /\ own' = [own EXCEPT ![Mem(o, n)] = own[Var(s)], ![Var(s)] = Null]
          /\ weak' = [weak EXCEPT ![Mem(o, n)] = weak[Var(s)], ![Var(s)] = Null]
          /\ UNCHANGED <<counts, stack>>
       \/ /\ ~Vacant(Mem(o, n))
          /\ FreeValue(Var(s), stack)
    /\ UNCHANGED dtor

\* di_rawgetx: the value is cloned.
GetMember(o, n, s) ==
    /\ UserCode
    /\ Accessible(o)
    /\ Vacant(Var(s))
    /\ CopyValue(Mem(o, n), Var(s))
    /\ UNCHANGED <<dtor, stack>>

\* di_remove_member_raw: unlink the member, then free its value.
RemoveMemberRaw(o, n) ==
    /\ UserCode
    /\ Accessible(o)
    /\ MayRemove(o, n)
    /\ FreeValue(Mem(o, n), stack)
    /\ UNCHANGED dtor

\* di_finalize_object, called on an object that may still be referenced.
\* The guard leaves room on the stack for every destruction still to come.
FinalizeObject(o) ==
    /\ UserCode
    /\ Accessible(o)
    /\ \A n \in Name : MayRemove(o, n)
    /\ Len(stack) + Cardinality({x \in Object : ~destroyed[x]}) < MaxDepth
    /\ RefObject(o, Frm(Len(stack) + 1))
    /\ stack' = Append(stack, Enter("finalize", o))
    /\ UNCHANGED dtor

-----------------------------------------------------------------------------
(* Steps of _di_finalize_object, for the frame on top of the stack *)

Present(o) == {n \in Name : ~Vacant(Mem(o, n))}

\* The member visited next: members are visited in insertion order, any order
\* is possible here.
FirstOf(names) == IF names = {} THEN {Null} ELSE names

SetTop(pc, n) == [stack EXCEPT ![Len(stack)] = [@ EXCEPT !.pc = pc, !.next = n]]

\* The destructor is called, at most once: the pointer is cleared first.
CallDtor ==
    /\ stack # <<>>
    /\ Top.pc = "enter"
    /\ dtor[Top.obj]
    /\ dtor' = [dtor EXCEPT ![Top.obj] = FALSE]
    /\ stack' = SetTop("dtor", Null)
    /\ UNCHANGED <<counts, own, weak>>

\* The destructor returned, or there is none: start to remove the members.
StartRemoval ==
    /\ stack # <<>>
    /\ \/ Top.pc = "dtor"
       \/ Top.pc = "enter" /\ ~dtor[Top.obj]
    /\ \E n \in FirstOf(Present(Top.obj)) : stack' = SetTop("loop", n)
    /\ UNCHANGED <<counts, dtor, own, weak>>

\* Mutant: the link to the next member is read from the member just freed.
RemoveNextStale ==
    /\ stack # <<>>
    /\ Top.pc = "loop"
    /\ Top.next # Null
    /\ \E n \in FirstOf(Present(Top.obj)) :
           FreeValue(Mem(Top.obj, Top.next), SetTop("loop", n))
    /\ UNCHANGED dtor

\* One iteration: save next_m, unlink m and free its value.
RemoveNext ==
    /\ stack # <<>>
    /\ Top.pc = "loop"
    /\ Top.next # Null
    /\ \E n \in FirstOf(Present(Top.obj) \ {Top.next}) :
           FreeValue(Mem(Top.obj, Top.next), SetTop("loop", n))
    /\ UNCHANGED dtor

\* All members are gone: di_destroy_object/di_finalize_object drops its own
\* reference and returns.
Finish ==
    /\ stack # <<>>
    /\ Top.pc = "loop"
    /\ Top.next = Null
    /\ UnrefObject(Frm(Len(stack)), Popped)
    /\ UNCHANGED <<dtor, weak>>

FrameStep == CallDtor \/ StartRemoval \/ RemoveNext \/ Finish

Next ==
    \/ \E o \in Object, s \in Slot, hasDtor \in BOOLEAN : NewObject(o, s, hasDtor)
    \/ \E o \in Object, s \in Slot : TakeRef(o, s)
    \/ \E o \in Object, s \in Slot : TakeWeakRef(o, s)
    \/ \E s, t \in Slot : UpgradeWeakRef(s, t)
    \/ \E s \in Slot : DropVariable(s)
    \/ \E o \in Object, n \in Name, s \in Slot : AddMemberClone(o, n, s)
    \/ \E o \in Object, n \in Name, s \in Slot : AddMemberMove(o, n, s)
    \/ \E o \in Object, n \in Name, s \in Slot : GetMember(o, n, s)
    \/ \E o \in Object, n \in Name : RemoveMemberRaw(o, n)
    \/ \E o \in Object : FinalizeObject(o)
    \/ FrameStep

\* User code does not change its manners.
Step == Next /\ UNCHANGED liberties

Spec == Init /\ [][Step]_<<vars, liberties>>

-----------------------------------------------------------------------------
(* Properties *)

\* Type invariant of the object heap and of the destruction stack.
TypeOK ==
    /\ mem \in [Object -> {"unused", "live", "freed"}]
    /\ refCount \in [Object -> Nat]
    /\ weakCount \in [Object -> Nat]
    /\ destroyed \in [Object -> BOOLEAN]
    /\ dtor \in [Object -> BOOLEAN]
    /\ own \in [Cell -> Object \cup {Null}]
    /\ weak \in [Cell -> Object \cup {Null}]
    /\ stack \in Seq(Frame)
    /\ Len(stack) <= MaxDepth

\* ref_count is the number of strong references that exist, at every point of
\* every nested destruction (di_ref_object/di_unref_object are balanced).
RefCountExact ==
    \A o \in Object : refCount[o] = Cardinality({c \in Cell : own[c] = o})

\* weak_ref_count is the number of weak references, plus the one that a
\* non-zero strong count implicitly holds (comment in di_new_object).
WeakCountExact ==
    \A o \in Object :
        weakCount[o] = Cardinality({c \in Cell : weak[c] = o})
                         + (IF refCount[o] > 0 THEN 1 ELSE 0)

\* No use after free: every pointer held anywhere, in particular by the frame
\* of a running destruction, points to memory that is still allocated.
PointersLive ==
    \A c \in Cell : /\ own[c] # Null => mem[own[c]] = "live"
                    /\ weak[c] # Null => mem[weak[c]] = "live"

\* An object is destroyed by one di_destroy_object call only ("Try to never
\* call destroy twice on something"), and while the call runs it owns the
\* reference that keeps the object alive.
DestroyOnce ==
    \A d, e \in DOMAIN stack :
        /\ own[Frm(d)] = stack[d].obj
        /\ stack[d].op = "destroy" => destroyed[stack[d].obj]
        /\ (stack[d].op = "destroy" /\ stack[e].op = "destroy" /\ d # e)
               => stack[d].obj # stack[e].obj

\* The member pointer next_m that _di_finalize_object saved before it freed a
\* member is still valid when the nested calls return.
NextMemberValid ==
    \A d \in DOMAIN stack :
        (stack[d].pc = "loop" /\ stack[d].next # Null)
            => ~Vacant(Mem(stack[d].obj, stack[d].next))

Destroying(o) == \E d \in DOMAIN stack : stack[d].op = "destroy" /\ stack[d].obj = o

\* When di_destroy_object has returned, the destructor has run and every member
\* has been released, even if user code still holds references to the object:
\* nothing is left behind when the memory is freed.
DestroyedIsEmpty ==
    \A o \in Object :
        (destroyed[o] /\ ~Destroying(o))
            => ~dtor[o] /\ \A n \in Name : Vacant(Mem(o, n))

\* Where destructors take no liberties with the members under iteration, the
\* member that the loop of _di_finalize_object has saved is still there, and a
\* destroyed object has neither members nor a destructor.
RemovalSafe == liberties = {} => NextMemberValid /\ DestroyedIsEmpty

-----------------------------------------------------------------------------
(* Refinement: the counters implement reference tracking *)

LifeStage(m, isDestroyed) ==
    CASE m = "unused" -> "unborn"
      [] m = "freed" -> "freed"
      [] m = "live" -> IF isDestroyed THEN "ended" ELSE "alive"

LifeOf == [o \in Object |-> LifeStage(mem[o], destroyed[o])]

Life == INSTANCE ObjectLife WITH Place <- Cell, life <- LifeOf

\* The object layer implements ObjectLife: destruction starts with the release
\* of the last strong reference and only then, weak references upgrade only
\* while somebody owns the object, and the struct is freed by exactly the call
\* that releases the last reference of either kind.
ImplementsLife == Life!LifeSpec

-----------------------------------------------------------------------------
(* Liveness *)

\* The C code of a frame keeps running, and destructors return: a destructor
\* may run other operations any number of times, so its return (StartRemoval
\* of that frame) is enabled again and again, not continuously.
Fairness ==
    /\ WF_vars(FrameStep)
    /\ \A d \in 1..MaxDepth : SF_vars(StartRemoval /\ Len(stack) = d)

FairSpec == Spec /\ Fairness

\* Every destruction completes, however deeply the destructions it sets off
\* are nested: no destroy call waits for ever.
DestructionCompletes ==
    \A o \in Object : Destroying(o) ~> ~Destroying(o)
=============================================================================
