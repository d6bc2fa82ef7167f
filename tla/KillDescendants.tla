-------------------------- MODULE KillDescendants --------------------------
(***************************************************************************)
(* kill_all_descendants (main.c), called when deai is destroyed: it reads   *)
(* /proc one process after the other while processes fork and exit, links   *)
(* what it read into a list, and walks the list from its own process.       *)
(***************************************************************************)
EXTENDS Naturals

CONSTANTS
    MaxPid,     \* pids are 1..MaxPid, and none is used twice
    Self        \* the pid of deai; 1 is init

ASSUME KillAssumption == MaxPid \in Nat /\ Self \in 2..MaxPid

Pid == 1..MaxPid
Sentinel == 0
NoProcess == MaxPid + 1

VARIABLES
    parent,     \* the parent of each process, or NoProcess; 0 for init
    scan,       \* the next entry of /proc
    ppid,       \* what was read, or NoProcess
    nxt, prv,   \* the list through the struct _childp
    turn,       \* the next process to be linked
    visiting,   \* where the traversal is (curr)
    visited, killed,
    descended,  \* processes that Self or one of them has forked
    born,       \* pids given so far
    kill        \* "scan", "link", "walk", "done" or "undefined"

killVars == <<parent, scan, ppid, nxt, prv, turn, visiting, visited, killed, descended, born, kill>>

\* The processes that descend from root in a tree of parents: the least set with
\* the children of root and of its own members.
Below(par, root) ==
    {p \in Pid : \A D \in SUBSET Pid :
        (\A q \in Pid : par[q] \in D \cup {root} => q \in D) => p \in D}

IsTree(par) ==
    /\ par[1] = 0 /\ par[Self] # NoProcess
    /\ {p \in Pid : par[p] \in Pid} = Below(par, 1)

KillInit ==
    /\ parent \in {par \in [Pid -> Pid \cup {0, NoProcess}] : IsTree(par)}
    /\ scan = 1 /\ ppid = [p \in Pid |-> NoProcess]
    /\ nxt = [p \in Pid \cup {Sentinel} |-> p] /\ prv = nxt
    /\ turn = 1 /\ visiting = Self /\ visited = {Self} /\ killed = {}
    /\ descended = Below(parent, Self) /\ born = {p \in Pid : parent[p] # NoProcess}
    /\ kill = "scan"

----------------------------------------------------------------------------
(* The system, while /proc is read *)

Fork(p, q) ==
    /\ kill = "scan" /\ p # Self /\ parent[p] # NoProcess
    /\ q \notin born /\ born' = born \cup {q}
    /\ parent' = [parent EXCEPT ![q] = p]
    /\ descended' = IF p \in descended THEN descended \cup {q} ELSE descended
    /\ UNCHANGED <<scan, ppid, nxt, prv, turn, visiting, visited, killed, kill>>

\* The children of a process that exits become children of init.
ExitProcess(p) ==
    /\ kill = "scan" /\ p \notin {1, Self} /\ parent[p] # NoProcess
    /\ parent' = [q \in Pid |-> IF q = p THEN NoProcess ELSE IF parent[q] = p THEN 1 ELSE parent[q]]
    /\ UNCHANGED <<scan, ppid, nxt, prv, turn, visiting, visited, killed, descended, born, kill>>

----------------------------------------------------------------------------
(* kill_all_descendants *)

ReadEntry ==
    /\ kill = "scan"
    /\ ppid' = IF scan \in Pid THEN [ppid EXCEPT ![scan] = parent[scan]] ELSE ppid
    /\ scan' = scan + 1
    /\ kill' = IF scan = MaxPid THEN "link" ELSE kill
    /\ UNCHANGED <<parent, nxt, prv, turn, visiting, visited, killed, descended, born>>

ListedParent(p) == IF ppid[p] \in Pid /\ ppid[ppid[p]] # NoProcess THEN ppid[p] ELSE Sentinel

\* __list_splice of the ring of i between the nodes before and after: i itself
\* is spliced in only while the ring has no other node.
Splice(i, before, after) ==
    LET first == nxt[i]
        last == prv[i]
    IN /\ prv' = [prv EXCEPT ![first] = before, ![after] = last]
       /\ nxt' = [nxt EXCEPT ![before] = first, ![last] = after]

Link ==
    LET pp == ListedParent(turn) IN
    /\ kill = "link"
    /\ IF ppid[turn] # NoProcess THEN Splice(turn, pp, nxt[pp]) ELSE UNCHANGED <<nxt, prv>>
    /\ turn' = turn + 1
    /\ kill' = IF turn = MaxPid THEN "walk" ELSE kill
    /\ UNCHANGED <<parent, scan, ppid, visiting, visited, killed, descended, born>>

\* Mutant: the walk goes on past the descendants.
WalkOn ==
    LET c == nxt[visiting] IN
    /\ kill = "walk"
    /\ visiting' = c
    /\ kill' = IF c = Sentinel THEN "undefined" ELSE IF c \in visited THEN "done" ELSE "walk"
    /\ IF kill' = "walk" THEN killed' = killed \cup {c} /\ visited' = visited \cup {c}
       ELSE UNCHANGED <<killed, visited>>
    /\ UNCHANGED <<parent, scan, ppid, nxt, prv, turn, descended, born>>

\* The parent of the sentinel is not initialised.
Walk ==
    LET c == nxt[visiting] IN
    /\ kill = "walk"
    /\ visiting' = c
    /\ kill' = CASE c = Sentinel -> "undefined"
                 [] c # Sentinel /\ ListedParent(c) \notin visited -> "done"
                 [] OTHER -> "walk"
    /\ IF kill' = "walk" THEN killed' = killed \cup {c} /\ visited' = visited \cup {c}
       ELSE UNCHANGED <<killed, visited>>
    /\ UNCHANGED <<parent, scan, ppid, nxt, prv, turn, descended, born>>

KillNext ==
    \/ \E p, q \in Pid : Fork(p, q)
    \/ \E p \in Pid : ExitProcess(p)
    \/ ReadEntry \/ Link \/ Walk

KillSpec == KillInit /\ [][KillNext]_killVars

----------------------------------------------------------------------------
\* Only processes that deai or its descendants forked are killed, although /proc is
\* read while processes fork, exit and get new parents.
KillsOnlyDescendants == killed \subseteq descended

\* Where every process was listed after its parent, the list is the tree in
\* pre-order, and the walk kills every descendant that was read.
KillsAllListed ==
    kill \in {"done", "undefined"} /\ (\A p \in Pid : ListedParent(p) < p)
        => Below([p \in Pid |-> ListedParent(p)], Self) \ {q \in Pid : ppid[q] = NoProcess} \subseteq killed

\* The processes that are killed are the descendants that were read.
KillsDescendants == KillsOnlyDescendants /\ KillsAllListed
=============================================================================
