----------------------------- MODULE ObjectLife -----------------------------
(***************************************************************************)
(* What the object layer promises, without counters: places (cells) hold   *)
(* strong or weak references, an object ends when its last strong          *)
(* reference is released, whoever destroys it holds one more reference     *)
(* while doing so, and its memory is freed by the very step that releases  *)
(* the last reference of either kind.  DiObject implements this.           *)
(***************************************************************************)
CONSTANTS Object, Place, Null

VARIABLES own, weak, life

lifeVars == <<own, weak, life>>

LifeInit ==
    /\ own = [c \in Place |-> Null]
    /\ weak = [c \in Place |-> Null]
    /\ life = [o \in Object |-> "unborn"]

Free(c) == own[c] = Null /\ weak[c] = Null

Owned(o) == \E c \in Place : own[c] = o
OwnedElsewhere(o, c) == \E d \in Place \ {c} : own[d] = o
WeakElsewhere(o, c) == \E d \in Place \ {c} : weak[d] = o

Born(o, c) ==
    /\ life[o] = "unborn"
    /\ Free(c)
    /\ life' = [life EXCEPT ![o] = "alive"]
    /\ own' = [own EXCEPT ![c] = o]
    /\ UNCHANGED weak

\* A strong reference is only ever made from an object somebody owns.
Acquire(o, c) ==
    /\ Owned(o)
    /\ Free(c)
    /\ own' = [own EXCEPT ![c] = o]
    /\ UNCHANGED <<weak, life>>

WeakAcquire(o, c) ==
    /\ Owned(o) \/ \E d \in Place : weak[d] = o
    /\ Free(c)
    /\ weak' = [weak EXCEPT ![c] = o]
    /\ UNCHANGED <<own, life>>

Move(c, d) ==
    /\ ~Free(c)
    /\ Free(d)
    /\ own' = [own EXCEPT ![d] = own[c], ![c] = Null]
    /\ weak' = [weak EXCEPT ![d] = weak[c], ![c] = Null]
    /\ UNCHANGED life

\* A reference that is not the last one is released.
Release(c) ==
    /\ own[c] # Null
    /\ OwnedElsewhere(own[c], c)
    /\ own' = [own EXCEPT ![c] = Null]
    /\ UNCHANGED <<weak, life>>

\* The last strong reference of a living object: destruction starts, and the
\* destroyer owns the object from place e.
Expire(c, e) ==
    /\ own[c] # Null
    /\ life[own[c]] = "alive"
    /\ ~OwnedElsewhere(own[c], c)
    /\ c = e \/ Free(e)
    /\ life' = [life EXCEPT ![own[c]] = "ended"]
    /\ own' = [own EXCEPT ![c] = Null, ![e] = own[c]]
    /\ UNCHANGED weak

\* The last strong reference of an object that has been destroyed.
Abandon(c) ==
    /\ own[c] # Null
    /\ life[own[c]] = "ended"
    /\ ~OwnedElsewhere(own[c], c)
    /\ own' = [own EXCEPT ![c] = Null]
    /\ life' = IF \E d \in Place : weak[d] = own[c]
                 THEN life ELSE [life EXCEPT ![own[c]] = "freed"]
    /\ UNCHANGED weak

WeakRelease(c) ==
    /\ weak[c] # Null
    /\ weak' = [weak EXCEPT ![c] = Null]
    /\ life' = IF Owned(weak[c]) \/ WeakElsewhere(weak[c], c)
                 THEN life ELSE [life EXCEPT ![weak[c]] = "freed"]
    /\ UNCHANGED own

LifeNext ==
    \/ \E o \in Object, c \in Place :
           Born(o, c) \/ Acquire(o, c) \/ WeakAcquire(o, c)
    \/ \E c, d \in Place : Move(c, d) \/ Expire(c, d)
    \/ \E c \in Place : Release(c) \/ Abandon(c) \/ WeakRelease(c)

LifeSpec == LifeInit /\ [][LifeNext]_lifeVars
=============================================================================
