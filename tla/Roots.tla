------------------------------- MODULE Roots -------------------------------
(***************************************************************************)
(* The roots registry (main.c): named and anonymous roots, which keep the  *)
(* objects of a program alive, and quit, which drops them all.             *)
(*                                                                         *)
(* Removing a root may destroy its object; the destructor is user code     *)
(* that may call the registry again.  The running calls form a stack: a    *)
(* destructor ("end"), a loop over the members of the registry ("iter"),   *)
(* or di_roots_dtor ("drop").                                              *)
(***************************************************************************)
EXTENDS Integers, SequencesExt

CONSTANTS Object,     \* objects of the program, each created at most once
          Key,        \* names of named roots
          Null,
          IdSpace,    \* number of values of next_anonymous_root_id (2^64)
          MaxDepth,   \* bound on nested calls made by user code
          RootLiberties   \* what destructors may do:
                      \*  "pull_next": remove the root that a loop visits next
                      \*  "add_while_quitting": add roots during di_roots_dtor

ASSUME RootsAssumption ==
    /\ Null \notin Object \cup Key
    /\ IdSpace \in Nat \ {0, 1}
    /\ MaxDepth \in Nat \ {0}
    /\ RootLiberties \subseteq {"pull_next", "add_while_quitting"}

VARIABLES named,    \* the __root_ members, in insertion order: key and obj
          anon,     \* anonymous_roots, in insertion order: id and obj
          nextId,   \* next_anonymous_root_id
          issued,   \* history: the handles returned so far
          open,     \* are the methods of the registry still there?
          dtor,     \* is the dtor of the registry still to be called?
          inUse,     \* the objects user code refers to
          ended,    \* the objects that were destroyed
          stack     \* running calls

rootVars == <<named, anon, nextId, issued, open, dtor, inUse, ended, stack>>

RootsInit ==
    /\ named = <<>>
    /\ anon = <<>>
    /\ nextId = 1
    /\ issued = <<>>
    /\ open = TRUE
    /\ dtor = TRUE
    /\ inUse = Object
    /\ ended = {}
    /\ stack = <<>>

-----------------------------------------------------------------------------
(* Frames: rest is objects_to_free, next the saved pointer to the next member, *)
(* quit tells the loop of _di_finalize_object from that of di_clear_roots.     *)

Frame(op, rest, next, quit) == [op |-> op, rest |-> rest, next |-> next, quit |-> quit]
EndFrame == Frame("end", <<>>, Null, FALSE)

Top == Last(stack)
On(op) == stack # <<>> /\ Top.op = op
UserCode == stack # <<>> => Top.op = "end"
MayCall == UserCode /\ open /\ Len(stack) < MaxDepth

Keys(nm) == {nm[i].key : i \in DOMAIN nm}
IndexOfKey(nm, k) == CHOOSE i \in DOMAIN nm : nm[i].key = k
Without(nm, k) == RemoveAt(nm, IndexOfKey(nm, k))
FirstKey(nm) == IF nm = <<>> THEN Null ELSE Head(nm).key
KeyAfter(nm, k) ==
    LET i == IndexOfKey(nm, k)
    IN  IF i = Len(nm) THEN Null ELSE nm[i + 1].key

Pending(k) == \E d \in DOMAIN stack : stack[d].op = "iter" /\ stack[d].next = k
MayRemove(ks) == "pull_next" \in RootLiberties \/ \A k \in ks : ~Pending(k)
MayAdd == \/ "add_while_quitting" \in RootLiberties
          \/ \A d \in DOMAIN stack : stack[d].op # "drop"

Referenced(o, nm, an, hd, stk) ==
    \/ o \in hd
    \/ \E i \in DOMAIN nm : nm[i].obj = o
    \/ \E i \in DOMAIN an : an[i].obj = o
    \/ \E d \in DOMAIN stk : Contains(stk[d].rest, o)

\* di_unref_object of the reference that the new state no longer contains: an
\* object nobody refers to is destroyed, and its destructor runs.
Unref(o, nm, an, hd, stk) ==
    /\ named' = nm
    /\ anon' = an
    /\ inUse' = hd
    /\ IF Referenced(o, nm, an, hd, stk) \/ o \in ended
         THEN stack' = stk /\ UNCHANGED ended
         ELSE stack' = Append(stk, EndFrame) /\ ended' = ended \cup {o}

-----------------------------------------------------------------------------
(* Methods of the registry *)

\* di_add_root; it returns false when the key exists.
AddRoot(k, o) ==
    /\ MayCall /\ MayAdd
    /\ o \in inUse
    /\ k \notin Keys(named)
    /\ named' = Append(named, [key |-> k, obj |-> o])
    /\ UNCHANGED <<anon, nextId, issued, open, dtor, inUse, ended, stack>>

RootOf(k) == named[IndexOfKey(named, k)].obj

\* di_remove_root; it returns false when the key does not exist.
RemoveRoot(k) ==
    /\ MayCall
    /\ k \in Keys(named)
    /\ MayRemove({k})
    /\ Unref(RootOf(k), Without(named, k), anon, inUse, stack)
    /\ UNCHANGED <<nextId, issued, open, dtor>>

\* di_clear_roots starts its loop.
ClearRoots ==
    /\ MayCall
    /\ MayRemove(Key)
    /\ named # <<>>
    /\ stack' = Append(stack, Frame("iter", <<>>, FirstKey(named), FALSE))
    /\ UNCHANGED <<named, anon, nextId, issued, open, dtor, inUse, ended>>

\* di_add_anonymous_root; when the counter has overflown DI_CHECK aborts.
AddAnonymousRoot(o) ==
    /\ MayCall /\ MayAdd
    /\ o \in inUse
    /\ nextId # 0
    /\ anon' = Append(anon, [id |-> nextId, obj |-> o])
    /\ issued' = Append(issued, nextId)
    /\ nextId' = (nextId + 1) % IdSpace
    /\ UNCHANGED <<named, open, dtor, inUse, ended, stack>>

\* di_remove_anonymous_root with the handle of the i-th anonymous root; nothing
\* happens with any other handle.
RemoveAnonymousRoot(i) ==
    /\ MayCall
    /\ i \in DOMAIN anon
    /\ Unref(anon[i].obj, named, RemoveAt(anon, i), inUse, stack)
    /\ UNCHANGED <<nextId, issued, open, dtor>>

-----------------------------------------------------------------------------
(* quit and exit: di_finalize_object(roots) *)

AnonObjects == [i \in DOMAIN anon |-> anon[i].obj]

\* di_prepare_exit; di_roots_dtor empties the table before it drops anything.
Quit ==
    /\ MayCall
    /\ MayRemove(Key)
    /\ dtor
    /\ dtor' = FALSE
    /\ anon' = <<>>
    /\ stack' = Append(stack, Frame("drop", AnonObjects, Null, TRUE))
    /\ UNCHANGED <<named, nextId, issued, open, inUse, ended>>

\* The dtor is never called a second time: a quit nested in the first one, or
\* after it, goes straight to the members. quit is a method of deai, not of the
\* registry.
QuitAgain ==
    /\ UserCode /\ Len(stack) < MaxDepth
    /\ MayRemove(Key)
    /\ ~dtor
    /\ open' = FALSE
    /\ stack' = Append(stack, Frame("iter", <<>>, FirstKey(named), TRUE))
    /\ UNCHANGED <<named, anon, nextId, issued, dtor, inUse, ended>>

\* Mutant: the loop of di_roots_dtor does not advance.
DropNextStuck ==
    /\ On("drop")
    /\ Top.rest # <<>>
    /\ Unref(Head(Top.rest), named, anon, inUse, stack)
    /\ UNCHANGED <<nextId, issued, open, dtor>>

DropNext ==
    /\ On("drop")
    /\ Top.rest # <<>>
    /\ Unref(Head(Top.rest), named, anon, inUse,
             [stack EXCEPT ![Len(stack)].rest = Tail(@)])
    /\ UNCHANGED <<nextId, issued, open, dtor>>

\* di_roots_dtor returned: the members are removed, first the methods, which
\* were added first, then the named roots.
DropDone ==
    /\ On("drop")
    /\ Top.rest = <<>>
    /\ open' = FALSE
    /\ stack' = Append(Front(stack), Frame("iter", <<>>, FirstKey(named), TRUE))
    /\ UNCHANGED <<named, anon, nextId, issued, dtor, inUse, ended>>

\* Mutant: the next member is taken from the head of the list.
IterNextStale ==
    /\ On("iter")
    /\ Top.next \in Keys(named)
    /\ Unref(RootOf(Top.next), Without(named, Top.next), anon, inUse,
             [stack EXCEPT ![Len(stack)].next = FirstKey(named)])
    /\ UNCHANGED <<nextId, issued, open, dtor>>

\* One iteration of HASH_ITER in di_clear_roots, or of the loop in
\* _di_finalize_object: the successor is saved, then the member is removed.
\* With a dangling next_m the behaviour is undefined: there the model stops.
IterNext ==
    /\ On("iter")
    /\ Top.next \in Keys(named)
    /\ Unref(RootOf(Top.next), Without(named, Top.next), anon, inUse,
             [stack EXCEPT ![Len(stack)].next = KeyAfter(named, Top.next)])
    /\ UNCHANGED <<nextId, issued, open, dtor>>

IterDone ==
    /\ On("iter")
    /\ Top.next = Null
    /\ stack' = Front(stack)
    /\ UNCHANGED <<named, anon, nextId, issued, open, dtor, inUse, ended>>

-----------------------------------------------------------------------------
(* User code *)

EndReturns ==
    /\ On("end")
    /\ stack' = Front(stack)
    /\ UNCHANGED <<named, anon, nextId, issued, open, dtor, inUse, ended>>

\* User code drops a reference, or takes one (upgrades a weak reference).
ReleaseObject(o) ==
    /\ UserCode
    /\ Len(stack) < MaxDepth
    /\ o \in inUse
    /\ Unref(o, named, anon, inUse \ {o}, stack)
    /\ UNCHANGED <<nextId, issued, open, dtor>>

Take(o) ==
    /\ UserCode
    /\ o \notin inUse \cup ended
    /\ inUse' = inUse \cup {o}
    /\ UNCHANGED <<named, anon, nextId, issued, open, dtor, ended, stack>>

FrameStep == DropNext \/ DropDone \/ IterNext \/ IterDone

RootsNext ==
    \/ \E k \in Key, o \in Object : AddRoot(k, o)
    \/ \E k \in Key : RemoveRoot(k)
    \/ ClearRoots
    \/ \E o \in Object : AddAnonymousRoot(o)
    \/ \E i \in 1..IdSpace : RemoveAnonymousRoot(i)
    \/ Quit \/ QuitAgain
    \/ FrameStep
    \/ EndReturns
    \/ \E o \in Object : ReleaseObject(o) \/ Take(o)

RootsSpec == RootsInit /\ [][RootsNext]_rootVars

\* The loops keep running, and every destructor returns although it may run
\* other operations before.
RootsFairness ==
    /\ WF_rootVars(FrameStep)
    /\ \A d \in 1..(MaxDepth + 1) : SF_rootVars(EndReturns /\ Len(stack) = d)

RootsFairSpec == RootsSpec /\ RootsFairness

-----------------------------------------------------------------------------
(* Properties *)

\* Type invariant of the registry; at most one root for each key.
RootsTypeOK ==
    /\ \A i, j \in DOMAIN named : named[i].key = named[j].key => i = j
    /\ \A i \in DOMAIN named : named[i].key \in Key /\ named[i].obj \in Object
    /\ \A i \in DOMAIN anon : anon[i].id \in 0..(IdSpace - 1) /\ anon[i].obj \in Object
    /\ nextId \in 0..(IdSpace - 1)
    /\ {open, dtor} \subseteq BOOLEAN
    /\ inUse \subseteq Object /\ ended \subseteq Object
    /\ \A d \in DOMAIN stack : stack[d].op \in {"end", "drop", "iter"}

\* A root keeps its object alive until it is removed, whatever destructors do
\* while roots are being removed; so does objects_to_free.
RootsKeepAlive ==
    \A o \in ended : ~Referenced(o, named, anon, inUse, stack)

\* The handles of anonymous roots are greater than 0 ("The returned handle is
\* guaranteed to be greater than 0") and never reused, so that a stale handle
\* cannot remove the root of somebody else.
HandlesUnique ==
    /\ \A i \in DOMAIN issued : issued[i] > 0
    /\ IsInjective(issued)

\* The member a loop visits next is still there when the destructors that ran
\* meanwhile have returned ("destroying an object can cause another [...] root
\* to be removed anywhere on the list").
IterValid ==
    \A d \in DOMAIN stack :
        (stack[d].op = "iter" /\ stack[d].next # Null) => stack[d].next \in Keys(named)

Quitting == \E d \in DOMAIN stack : stack[d].quit

\* "Drop all the roots, this should stop the program": when the first quit has
\* returned there are no roots left, and there never are any again.
RootsDropped ==
    (~dtor /\ ~Quitting) => named = <<>> /\ anon = <<>>

\* The registry keeps the objects that are in it, and only those, through
\* removals set off by destructors, handles that are stale and quits.
RegistrySound == RootsTypeOK /\ RootsKeepAlive /\ HandlesUnique /\ IterValid /\ RootsDropped

\* A quit that has begun returns, however many destructors it sets off.
QuitCompletes == Quitting ~> ~Quitting
=============================================================================
