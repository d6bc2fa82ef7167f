----------------------------- MODULE LeakCheck -----------------------------
(***************************************************************************)
(* The search for leaked objects in builds that track objects (object.c):   *)
(* di_mark_and_sweep marks what can be reached from the roots through       *)
(* members, depth first, and warns of reference cycles.                     *)
(* The recursion is an explicit stack; one action is one turn of a loop.    *)
(***************************************************************************)
EXTENDS Naturals, Sequences

CONSTANTS
    Node,       \* the objects on the list all_objects
    Registry    \* the roots object, one of them

ASSUME LeakAssumption == Registry \in Node

VARIABLES
    edge,       \* the object members of each object
    anonRoots,  \* objects that are anonymous roots
    mark,       \* 0: not seen, 1: on the stack, 2: done
    dfs,        \* running calls of di_mark_and_sweep_dfs, innermost last
    todo,       \* anonymous roots that are still to be visited
    cycle,      \* a reference cycle was reported
    leak        \* the result: "none" so far, "leak" or "clean"

leakVars == <<edge, anonRoots, mark, dfs, todo, cycle, leak>>

LeakInit ==
    /\ edge \in [Node -> SUBSET Node]
    /\ anonRoots \in SUBSET (Node \ {Registry})
    /\ mark = [n \in Node |-> 0]
    /\ dfs = <<[node |-> Registry, todo |-> {Registry}]>>
    /\ todo = anonRoots
    /\ cycle = FALSE
    /\ leak = "none"

Call == dfs[Len(dfs)]
\* The members that Call still has to go through, without n.
Passed(n) == [dfs EXCEPT ![Len(dfs)].todo = @ \ {n}]

\* A call for an object that was seen before returns at once.  The first frame
\* stands for di_mark_and_sweep itself and the call for the registry.
VisitSeen(n) ==
    /\ dfs # <<>> /\ n \in Call.todo /\ mark[n] # 0
    /\ dfs' = Passed(n)
    /\ cycle' = (cycle \/ mark[n] = 1)
    /\ UNCHANGED <<edge, anonRoots, mark, todo, leak>>

VisitNew(n) ==
    /\ dfs # <<>> /\ n \in Call.todo /\ mark[n] = 0
    /\ mark' = [mark EXCEPT ![n] = 1]
    /\ dfs' = Append(Passed(n), [node |-> n, todo |-> edge[n]])
    /\ UNCHANGED <<edge, anonRoots, todo, cycle, leak>>

VisitEnds ==
    /\ dfs # <<>> /\ Call.todo = {}
    /\ mark' = IF Len(dfs) > 1 THEN [mark EXCEPT ![Call.node] = 2] ELSE mark
    /\ dfs' = SubSeq(dfs, 1, Len(dfs) - 1)
    /\ UNCHANGED <<edge, anonRoots, todo, cycle, leak>>

\* Mutant: the anonymous roots are not visited.
NextRootNone(n) ==
    /\ dfs = <<>> /\ n \in todo
    /\ todo' = todo \ {n}
    /\ UNCHANGED <<edge, anonRoots, mark, dfs, cycle, leak>>

\* The loop over the anonymous roots.
NextRoot(n) ==
    /\ dfs = <<>> /\ n \in todo
    /\ todo' = todo \ {n}
    /\ dfs' = <<[node |-> Registry, todo |-> {n}]>>
    /\ UNCHANGED <<edge, anonRoots, mark, cycle, leak>>

Sweep ==
    /\ dfs = <<>> /\ todo = {} /\ leak = "none"
    /\ leak' = IF \E n \in Node : mark[n] = 0 THEN "leak" ELSE "clean"
    /\ UNCHANGED <<edge, anonRoots, mark, dfs, todo, cycle>>

LeakNext ==
    \/ \E n \in Node : VisitSeen(n) \/ VisitNew(n) \/ NextRoot(n)
    \/ VisitEnds \/ Sweep

LeakSpec == LeakInit /\ [][LeakNext]_leakVars

----------------------------------------------------------------------------
\* Reachability along g: every set with the members of its objects that has
\* the beginning has the end.
Closed(g, D) == \A a \in D : g[a] \subseteq D
Refers(g, a, b) == \A D \in SUBSET Node : Closed(g, D) /\ g[a] \subseteq D => b \in D
ReachedFrom(g, roots, n) == \A D \in SUBSET Node : Closed(g, D) /\ roots \subseteq D => n \in D
Reached(n) == ReachedFrom(edge, anonRoots \cup {Registry}, n)

\* An object that is done refers only to objects that were seen: the search
\* never leaves a reachable object behind.
NothingBehind ==
    \A a \in Node : mark[a] = 2 => \A b \in edge[a] : mark[b] # 0

\* The result is a leak exactly if some object cannot be reached from the roots.
LeakExact == leak # "none" => (leak = "leak" <=> \E n \in Node : ~Reached(n))

\* A cycle is reported exactly if one can be reached from the roots.
CycleExact ==
    leak # "none" => (cycle <=> \E n \in Node : Reached(n) /\ Refers(edge, n, n))
\* The search finds exactly the objects that can be reached, and the cycles
\* among them.
SweepExact == NothingBehind /\ LeakExact /\ CycleExact
=============================================================================
