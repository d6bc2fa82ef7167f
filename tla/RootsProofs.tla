----------------------------- MODULE RootsProofs -----------------------------
(***************************************************************************)
(* Proofs about the life of the program: main from its start to its exit,   *)
(* the killing of descendants, the registry of roots when destructors       *)
(* neither remove the root that a loop visits next nor add roots while the  *)
(* registry is destroyed, and the search for what the roots do not keep.    *)
(***************************************************************************)
EXTENDS Roots, MainLoop, KillDescendants, LeakCheck, TLAPS

-----------------------------------------------------------------------------
(* MainLoop *)

\* References are counted; a failure is on its way to the exit status, and the
\* loop is never entered after one; without one the exit code is what was asked.
MainInv ==
    /\ keepers \in Nat /\ owned \in Nat
    /\ failed \in BOOLEAN /\ quit \in BOOLEAN
    /\ mpc = "mainloop" => keepers > 0 /\ owned = 0 /\ ~failed
    /\ mpc \in {"init", "load", "lookup", "call"} => ~failed
    /\ mpc \in {"init", "load", "lookup", "call", "inspect", "drop"} => owned > 0
    /\ mpc = "inspect" /\ failed =>
           (exitCode = EXIT_FAILURE /\ quit) \/ result = "error"
    /\ mpc = "inspect" /\ result = "error" => failed
    /\ mpc \in {"drop", "end"} /\ failed => exitCode = EXIT_FAILURE /\ quit
    /\ ~failed => exitCode = asked
    /\ StatusFaithful

\* The start of main.
LEMMA MainInitInv == MainInit => MainInv
<1> SUFFICES ASSUME MainInit PROVE MainInv
  OBVIOUS
<1>1. /\ mpc = "init" /\ keepers = 0 /\ owned = 1 /\ exitCode = 0 /\ asked = 0
      /\ ~failed /\ failed \in BOOLEAN /\ quit \in BOOLEAN
  BY DEF MainInit
<1> QED BY <1>1 DEF MainInv, StatusFaithful

\* Every step of main, and of the user code it calls, keeps the invariant.
LEMMA MainNextInv == ASSUME MainInv, [MainNext]_mainVars PROVE MainInv'
<1> USE DEF MainInv, StatusFaithful, EXIT_FAILURE
<1>1. CASE Parse
  BY <1>1 DEF Parse, ExitNow, Goto
<1>2. ASSUME NEW loads \in BOOLEAN, LoadPlugin(loads) PROVE MainInv'
  BY <1>2 DEF LoadPlugin
<1>3. CASE LoadEnds
  BY <1>3 DEF LoadEnds, Goto
<1>4. CASE Lookup
  <2>1. CASE ExitNow(EXIT_FAILURE)
    BY <2>1 DEF ExitNow
  <2>2. CASE /\ owned' \in {1, 2} /\ mpc' = "call" /\ mpc = "lookup"
             /\ UNCHANGED <<keepers, exitCode, quit, result, asked, failed, status>>
    BY <2>2
  <2> QED BY <1>4, <2>1, <2>2 DEF Lookup
<1>5. CASE CallFails
  BY <1>5 DEF CallFails
<1>6. ASSUME NEW r \in {"nil", "object", "error"}, CallReturns(r) PROVE MainInv'
  BY <1>6 DEF CallReturns
<1>7. CASE Inspect
  BY <1>7 DEF Inspect
<1>8. CASE Keep
  BY <1>8 DEF Keep, InUserCode, SettleMain
<1>9. CASE DropKeeper
  BY <1>9 DEF DropKeeper, InUserCode, SettleMain
<1>10. ASSUME NEW ec \in 0..2, NEW k \in 0..MaxKeepers, PrepareExit(ec, k) PROVE MainInv'
  BY <1>10 DEF PrepareExit, InUserCode, SettleMain
<1>11. CASE DropMain
  <2>1. CASE quit \/ keepers = 0
    <3>1. quit' = TRUE /\ mpc' = "end"
      BY <1>11, <2>1 DEF DropMain, DropMainTo
    <3> QED BY <1>11, <3>1 DEF DropMain, DropMainTo
  <2>2. CASE ~(quit \/ keepers = 0)
    <3>1. quit' = FALSE /\ mpc' = "mainloop" /\ ~failed
      BY <1>11, <2>2 DEF DropMain, DropMainTo
    <3> QED BY <1>11, <2>2, <3>1 DEF DropMain, DropMainTo
  <2> QED BY <2>1, <2>2
<1>12. CASE Interrupt
  BY <1>12 DEF Interrupt, Goto
<1>13. CASE End
  BY <1>13 DEF End
<1>14. CASE UNCHANGED mainVars
  BY <1>14 DEF mainVars
<1> QED
  BY <1>1, <1>2, <1>3, <1>4, <1>5, <1>6, <1>7, <1>8, <1>9, <1>10, <1>11, <1>12, <1>13, <1>14
  DEF MainNext

\* For any plugins and command lines, main reads p->loop only while deai exists,
\* although it has given its reference up, and the exit status tells a failure or
\* else the code last given to di:exit.
THEOREM MainAlwaysSound == MainSpec => []MainSound
<1>1. MainInv /\ [MainNext]_mainVars => MainInv'
  BY MainNextInv
<1>2. MainInv => MainSound
  BY DEF MainInv, MainSound, LoopHasDeai
<1> QED BY MainInitInv, <1>1, <1>2, PTL DEF MainSpec
-----------------------------------------------------------------------------
(* KillDescendants *)

KillTypeOK ==
    /\ parent \in [Pid -> Pid \cup {0, NoProcess}]
    /\ ppid \in [Pid -> Pid \cup {0, NoProcess}]
    /\ nxt \in [Pid \cup {Sentinel} -> Pid \cup {Sentinel}]
    /\ prv \in [Pid \cup {Sentinel} -> Pid \cup {Sentinel}]
    /\ visiting \in Pid \cup {Sentinel}
    /\ kill = "scan" => scan \in Pid
    /\ kill \in {"scan", "link"} => turn \in Pid
    /\ descended \subseteq Pid \ {1} /\ born \subseteq Pid

\* A pid that was not given yet is nobody's, and nobody's parent, now or when
\* /proc was read.
ParentsBorn ==
    /\ \A p \in Pid : parent[p] \in born \cup {0, NoProcess}
                      /\ ppid[p] \in born \cup {0, NoProcess}
    /\ \A p \in Pid : parent[p] # NoProcess => p \in born
    /\ 1 \in born

\* The children of deai and of its descendants are descendants, now and when /proc
\* was read.
ChildrenDescend ==
    \A p \in Pid : parent[p] \in descended \cup {Self} \/ ppid[p] \in descended \cup {Self}
                   => p \in descended

KillInv ==
    /\ KillTypeOK /\ ParentsBorn /\ ChildrenDescend
    /\ KillsOnlyDescendants /\ visited = killed \cup {Self}

\* Nothing of /proc was read, and the descendants are those in the tree.
LEMMA KillInitInv == KillInit => KillInv
<1> SUFFICES ASSUME KillInit PROVE KillInv
  OBVIOUS
<1> USE KillAssumption
<1>0. /\ parent \in [Pid -> Pid \cup {0, NoProcess}] /\ parent[1] = 0
      /\ parent[Self] # NoProcess
  BY DEF KillInit, IsTree
<1>1. descended = Below(parent, Self)
  BY DEF KillInit
<1>2. 1 \notin Below(parent, Self)
  <2> DEFINE D == Pid \ {1}
  <2>1. D \in SUBSET Pid /\ \A q \in Pid : parent[q] \in D \cup {Self} => q \in D
    BY <1>0 DEF Pid
  <2> QED BY <2>1 DEF Below
<1>3. \A p \in Pid : parent[p] \in Below(parent, Self) \cup {Self} => p \in Below(parent, Self)
  BY DEF Below
<1>4. KillTypeOK
  <2>1. descended \subseteq Pid \ {1}
    BY <1>1, <1>2 DEF Below
  <2>2. /\ ppid = [p \in Pid |-> NoProcess] /\ nxt = [p \in Pid \cup {Sentinel} |-> p]
        /\ prv = nxt /\ scan = 1 /\ turn = 1 /\ visiting = Self /\ kill = "scan"
        /\ born = {p \in Pid : parent[p] # NoProcess}
    BY DEF KillInit
  <2> QED BY <1>0, <2>1, <2>2 DEF KillTypeOK, Pid
<1>5. IsTree(parent)
  BY DEF KillInit
<1>6. \A p \in Pid : parent[p] \in Pid => parent[parent[p]] # NoProcess
  <2> SUFFICES ASSUME NEW p \in Pid, parent[p] \in Pid, parent[parent[p]] = NoProcess
               PROVE  FALSE
    OBVIOUS
  <2> DEFINE E == {q \in Pid : parent[q] \in Pid /\ q # p}
  <2>1. p \in Below(parent, 1)
    BY <1>5 DEF IsTree
  <2>2. E \in SUBSET Pid /\ p \notin E
    OBVIOUS
  <2>3. PICK q \in Pid : parent[q] \in E \cup {1} /\ q \notin E
    BY <2>1, <2>2 DEF Below
  <2>4. q = p
    BY <2>3 DEF Pid
  <2> QED BY <1>0, <2>3, <2>4, KillAssumption DEF NoProcess, Pid
<1>7. ParentsBorn
  BY <1>0, <1>6 DEF KillInit, ParentsBorn, NoProcess, Pid
<1>8. ChildrenDescend
  BY <1>1, <1>3, <1>4 DEF KillInit, ChildrenDescend, KillTypeOK, NoProcess, Pid
<1> QED
  BY <1>0, <1>4, <1>7, <1>8 DEF KillInit, KillInv, KillsOnlyDescendants, Pid

\* The system and kill_all_descendants keep the invariant.
LEMMA KillNextInv == ASSUME KillInv, [KillNext]_killVars PROVE KillInv'
<1> USE KillAssumption
<1>t. /\ KillTypeOK /\ ParentsBorn /\ ChildrenDescend
      /\ killed \subseteq descended /\ visited = killed \cup {Self}
  BY DEF KillInv, KillsOnlyDescendants
<1>1. ASSUME NEW p \in Pid, NEW q \in Pid, Fork(p, q) PROVE KillInv'
  <2>1. /\ p \in born /\ q # p /\ q # 1 /\ p # Self
        /\ parent' \in [Pid -> Pid \cup {0, NoProcess}]
        /\ \A r \in Pid : parent'[r] = IF r = q THEN p ELSE parent[r]
        /\ descended' = IF p \in descended THEN descended \cup {q} ELSE descended
        /\ born' = born \cup {q} /\ q \notin born
        /\ UNCHANGED <<scan, ppid, nxt, prv, turn, visiting, visited, killed, kill>>
    BY <1>1, <1>t DEF Fork, ParentsBorn, KillTypeOK
  <2>2. KillTypeOK'
    BY <1>t, <2>1 DEF KillTypeOK
  <2>3. ParentsBorn'
    BY <1>t, <2>1 DEF ParentsBorn, KillTypeOK
  <2>4. ChildrenDescend'
    BY <1>t, <2>1 DEF ChildrenDescend, ParentsBorn, KillTypeOK, NoProcess, Pid
  <2> QED BY <1>t, <2>1, <2>2, <2>3, <2>4 DEF KillInv, KillsOnlyDescendants
<1>2. ASSUME NEW p \in Pid, ExitProcess(p) PROVE KillInv'
  <2>1. /\ parent' = [q \in Pid |-> IF q = p THEN NoProcess ELSE IF parent[q] = p THEN 1 ELSE parent[q]]
        /\ UNCHANGED <<scan, ppid, nxt, prv, turn, visiting, visited, killed, descended, born, kill>>
    BY <1>2 DEF ExitProcess
  <2>2. KillTypeOK'
    BY <1>t, <2>1 DEF KillTypeOK, Pid
  <2>3. ParentsBorn'
    BY <1>t, <2>1 DEF ParentsBorn, KillTypeOK, NoProcess, Pid
  <2>4. ChildrenDescend'
    BY <1>t, <2>1 DEF ChildrenDescend, KillTypeOK, NoProcess, Pid
  <2> QED BY <1>t, <2>1, <2>2, <2>3, <2>4 DEF KillInv, KillsOnlyDescendants
<1>3. CASE ReadEntry
  <2>1. /\ scan \in Pid /\ ppid' = [ppid EXCEPT ![scan] = parent[scan]]
        /\ scan' = scan + 1
        /\ kill' = IF scan = MaxPid THEN "link" ELSE kill
        /\ kill = "scan"
        /\ UNCHANGED <<parent, nxt, prv, turn, visiting, visited, killed, descended, born>>
    BY <1>3, <1>t DEF ReadEntry, KillTypeOK
  <2>2. KillTypeOK'
    BY <1>t, <2>1 DEF KillTypeOK, Pid
  <2>3. ParentsBorn'
    BY <1>t, <2>1 DEF ParentsBorn, KillTypeOK
  <2>4. ChildrenDescend'
    BY <1>t, <2>1 DEF ChildrenDescend, KillTypeOK
  <2> QED BY <1>t, <2>1, <2>2, <2>3, <2>4 DEF KillInv, KillsOnlyDescendants
<1>4. CASE Link
  <2>1. /\ kill = "link" /\ turn \in Pid /\ turn' = turn + 1
        /\ kill' = IF turn = MaxPid THEN "walk" ELSE kill
        /\ UNCHANGED <<parent, scan, ppid, visiting, visited, killed, descended, born>>
    BY <1>4, <1>t DEF Link, KillTypeOK
  <2>2. /\ nxt' \in [Pid \cup {Sentinel} -> Pid \cup {Sentinel}]
        /\ prv' \in [Pid \cup {Sentinel} -> Pid \cup {Sentinel}]
    <3>1. ListedParent(turn) \in Pid \cup {Sentinel}
      BY <2>1 DEF ListedParent
    <3> QED BY <1>4, <1>t, <2>1, <3>1 DEF Link, Splice, KillTypeOK
  <2>3. KillTypeOK'
    BY <1>t, <2>1, <2>2 DEF KillTypeOK, Pid
  <2>4. ParentsBorn' /\ ChildrenDescend'
    BY <1>t, <2>1 DEF ParentsBorn, ChildrenDescend
  <2> QED BY <1>t, <2>1, <2>3, <2>4 DEF KillInv, KillsOnlyDescendants
<1>5. CASE Walk
  <2> DEFINE c == nxt[visiting]
  <2>1. /\ kill = "walk" /\ visiting' = c /\ c \in Pid \cup {Sentinel}
        /\ UNCHANGED <<parent, scan, ppid, nxt, prv, turn, descended, born>>
    BY <1>5, <1>t DEF Walk, KillTypeOK
  <2>2. kill' \in {"undefined", "done", "walk"}
    BY <1>5 DEF Walk
  <2>3. KillTypeOK'
    BY <1>t, <2>1, <2>2 DEF KillTypeOK
  <2>4. ParentsBorn' /\ ChildrenDescend'
    BY <1>t, <2>1 DEF ParentsBorn, ChildrenDescend
  <2>5. CASE kill' = "walk"
    <3>1. c # Sentinel /\ ListedParent(c) \in visited
      BY <1>5, <2>5 DEF Walk
    <3>2. killed' = killed \cup {c} /\ visited' = visited \cup {c}
      BY <1>5, <2>5 DEF Walk
    <3>3. ppid[c] \in visited
      BY <1>t, <3>1 DEF ListedParent, KillTypeOK, Sentinel, Pid
    <3>4. c \in descended
      BY <1>t, <2>1, <3>1, <3>3 DEF ChildrenDescend
    <3> QED BY <1>t, <2>1, <2>3, <2>4, <3>2, <3>4 DEF KillInv, KillsOnlyDescendants
  <2>6. CASE kill' # "walk"
    <3>1. UNCHANGED <<killed, visited>>
      BY <1>5, <2>6 DEF Walk
    <3> QED BY <1>t, <2>1, <2>3, <2>4, <3>1 DEF KillInv, KillsOnlyDescendants
  <2> QED BY <2>5, <2>6
<1>6. CASE UNCHANGED killVars
  BY <1>6 DEF killVars, KillInv, KillTypeOK, ParentsBorn, ChildrenDescend, KillsOnlyDescendants
<1> QED BY <1>1, <1>2, <1>3, <1>4, <1>5, <1>6 DEF KillNext

\* A process is below x exactly if its parent is x or below it.
LEMMA BelowFix ==
    ASSUME NEW f, NEW x, NEW i \in Pid
    PROVE  i \in Below(f, x) <=> f[i] = x \/ f[i] \in Below(f, x)
<1>1. \A q \in Pid : f[q] = x \/ f[q] \in Below(f, x) => q \in Below(f, x)
  BY DEF Below
<1>2. ASSUME i \in Below(f, x) PROVE f[i] = x \/ f[i] \in Below(f, x)
  <2> DEFINE D == {q \in Pid : f[q] = x \/ f[q] \in Below(f, x)}
  <2>1. D \in SUBSET Pid /\ \A q \in Pid : f[q] \in D \cup {x} => q \in D
    BY <1>1
  <2>2. i \in D
    BY <1>2, <2>1 DEF Below
  <2> QED BY <2>2
<1> QED BY <1>1, <1>2

\* Where parents come before their children, what is below x comes after it.
LEMMA BelowAfter ==
    ASSUME NEW f, \A p \in Pid : f[p] \in Nat /\ f[p] < p, NEW x \in Pid, NEW y \in Below(f, x)
    PROVE  y \in Pid /\ x < y
<1> DEFINE D == {q \in Pid : x < q}
<1>1. y \in Pid
  BY DEF Below
<1>2. D \in SUBSET Pid
  OBVIOUS
<1>3. ASSUME NEW q \in Pid, f[q] \in D \cup {x} PROVE q \in D
  BY <1>3, KillAssumption DEF Pid
<1>4. y \in D
  BY <1>2, <1>3 DEF Below
<1> QED BY <1>1, <1>4

Node0 == Pid \cup {Sentinel}

\* The list after each of the nodes N: nx[x] is the next one in the order of pos.
Ordered(N, nx, pos) ==
    /\ pos \in [Node0 -> Nat] /\ pos[Sentinel] = 0
    /\ \A x, y \in N \cup {Sentinel} : pos[x] = pos[y] => x = y
    /\ \A x \in N \cup {Sentinel} : nx[x] \in N \cup {Sentinel}
    /\ \A x \in N \cup {Sentinel} : nx[x] # Sentinel => pos[x] < pos[nx[x]]
    /\ \A x, y \in N \cup {Sentinel} : pos[x] < pos[y] => nx[x] # Sentinel /\ pos[nx[x]] <= pos[y]

\* What is below a process comes next after it in this order.
Together(f, N, pos) ==
    /\ \A x, y \in N : y \in Below(f, x) => pos[x] < pos[y]
    /\ \A x, y, z \in N : z \in Below(f, x) /\ pos[x] < pos[y] /\ pos[y] < pos[z] => y \in Below(f, x)

\* The order in which i comes after pp.
Inserted(pos, i, pp) ==
    [p \in Node0 |-> IF p = i THEN pos[pp] + 1 ELSE IF pos[p] > pos[pp] THEN pos[p] + 1 ELSE pos[p]]

\* The list with i put after pp.
LEMMA InsertOrdered ==
    ASSUME NEW N \in SUBSET Pid, NEW nx, NEW pos, Ordered(N, nx, pos),
           NEW i \in Pid, i \notin N, NEW pp \in N \cup {Sentinel}, NEW nx2,
           \A x \in N \cup {Sentinel} : x # pp => nx2[x] = nx[x], nx2[pp] = i, nx2[i] = nx[pp]
    PROVE  Ordered(N \cup {i}, nx2, Inserted(pos, i, pp))
<1> DEFINE M == N \cup {Sentinel}
           new == Inserted(pos, i, pp)
<1> i # Sentinel /\ N \cup {i} \cup {Sentinel} = M \cup {i} /\ i \notin M /\ pp \in M
  BY KillAssumption DEF Pid, Sentinel
<1>0. M \subseteq Node0 /\ i \in Node0
  BY DEF Node0
<1>1. /\ pos \in [Node0 -> Nat] /\ pos[Sentinel] = 0
      /\ \A x, y \in M : pos[x] = pos[y] => x = y
      /\ \A x \in M : nx[x] \in M
      /\ \A x \in M : nx[x] # Sentinel => pos[x] < pos[nx[x]]
      /\ \A x, y \in M : pos[x] < pos[y] => nx[x] # Sentinel /\ pos[nx[x]] <= pos[y]
  BY DEF Ordered
<1>2. \A x \in M : pos[x] \in Nat
  BY <1>0, <1>1
<1>3. new \in [Node0 -> Nat]
  BY <1>0, <1>1 DEF Inserted
<1>4. new[i] = pos[pp] + 1 /\ \A x \in M : new[x] = IF pos[x] > pos[pp] THEN pos[x] + 1 ELSE pos[x]
  BY <1>0 DEF Inserted
<1>5. new[Sentinel] = 0
  BY <1>1, <1>2, <1>4
<1> HIDE DEF new, M
<1>6. ASSUME NEW x \in M \cup {i}, NEW y \in M \cup {i}, new[x] = new[y] PROVE x = y
  <2>1. CASE x \in M /\ y \in M
    BY <1>1, <1>2, <1>4, <1>6, <2>1
  <2>2. CASE x = i /\ y \in M
    BY <1>2, <1>4, <1>6, <2>2
  <2>3. CASE x \in M /\ y = i
    BY <1>2, <1>4, <1>6, <2>3
  <2> QED BY <2>1, <2>2, <2>3
<1>7. ASSUME NEW x \in M \cup {i} PROVE nx2[x] \in M \cup {i}
  BY <1>1
<1>8. ASSUME NEW x \in M \cup {i}, nx2[x] # Sentinel PROVE new[x] < new[nx2[x]]
  <2>1. CASE x = pp
    BY <1>2, <1>4, <2>1
  <2>2. CASE x = i
    <3>1. nx[pp] \in M /\ pos[pp] < pos[nx[pp]]
      BY <1>1, <1>8, <2>2
    <3> QED BY <1>2, <1>4, <2>2, <3>1
  <2>3. CASE x \in M /\ x # pp
    <3>1. nx2[x] = nx[x] /\ nx[x] \in M /\ pos[x] < pos[nx[x]]
      BY <1>1, <1>8, <2>3
    <3> QED BY <1>2, <1>4, <2>3, <3>1
  <2> QED BY <2>1, <2>2, <2>3
<1>9. ASSUME NEW x \in M \cup {i}, NEW y \in M \cup {i}, new[x] < new[y]
      PROVE  nx2[x] # Sentinel /\ new[nx2[x]] <= new[y]
  <2>1. CASE x = pp
    <3>1. new[pp] = pos[pp] /\ pos[pp] \in Nat /\ new[y] \in Nat
      BY <1>2, <1>4
    <3> QED BY <1>4, <1>9, <2>1, <3>1
  <2>2. CASE x = i
    <3>1. y \in M /\ pos[pp] < pos[y] /\ new[y] = pos[y] + 1
      BY <1>2, <1>4, <1>9, <2>2
    <3>2. nx[pp] \in M /\ nx[pp] # Sentinel /\ pos[nx[pp]] <= pos[y]
      BY <1>1, <3>1
    <3>3. /\ pos[nx[pp]] \in Nat /\ pos[y] \in Nat
          /\ new[nx[pp]] = pos[nx[pp]] \/ new[nx[pp]] = pos[nx[pp]] + 1
      BY <1>2, <1>4, <3>1, <3>2
    <3>4. new[nx[pp]] <= pos[y] + 1
      BY <3>2, <3>3
    <3> QED BY <2>2, <3>1, <3>2, <3>4
  <2>3. CASE x \in M /\ x # pp
    <3>0. nx2[x] = nx[x]
      BY <2>3
    <3>1. CASE y \in M
      <4>1. pos[x] < pos[y]
        BY <1>2, <1>4, <1>9, <2>3, <3>1
      <4>2. nx[x] \in M /\ nx[x] # Sentinel /\ pos[nx[x]] <= pos[y]
        BY <1>1, <2>3, <3>1, <4>1
      <4> QED BY <1>2, <1>4, <3>0, <3>1, <4>2
    <3>2. CASE y = i
      <4>1. pos[x] < pos[pp]
        <5>1. pos[x] <= pos[pp]
          BY <1>2, <1>4, <1>9, <2>3, <3>2
        <5>2. pos[x] # pos[pp]
          BY <1>1, <2>3
        <5> QED BY <1>2, <2>3, <5>1, <5>2
      <4>2. nx[x] \in M /\ nx[x] # Sentinel /\ pos[nx[x]] <= pos[pp]
        BY <1>1, <2>3, <4>1
      <4> QED BY <1>2, <1>4, <3>0, <3>2, <4>2
    <3> QED BY <3>1, <3>2
  <2> QED BY <2>1, <2>2, <2>3
<1> QED BY <1>3, <1>5, <1>6, <1>7, <1>8, <1>9 DEF Ordered, new

\* A child put after its parent comes with what is below the parent.
LEMMA InsertTogether ==
    ASSUME NEW f, \A p \in Pid : f[p] \in Nat /\ f[p] < p,
           NEW N \in SUBSET Pid, NEW nx, NEW pos, Ordered(N, nx, pos), Together(f, N, pos),
           NEW i \in Pid, \A p \in N : p < i, f[i] \in N \cup {Sentinel}
    PROVE  Together(f, N \cup {i}, Inserted(pos, i, f[i]))
<1> DEFINE pp == f[i]
           new == Inserted(pos, i, pp)
<1>1. /\ i \notin N /\ i # Sentinel /\ Sentinel \notin N
  BY KillAssumption DEF Pid, Sentinel
<1>2. \A x \in N \cup {Sentinel} : pos[x] \in Nat
  BY DEF Ordered, Node0
<1>3. new[i] = pos[pp] + 1 /\ \A x \in N : new[x] = IF pos[x] > pos[pp] THEN pos[x] + 1 ELSE pos[x]
  BY <1>1 DEF Inserted, Node0
<1>4. /\ \A x \in N \cup {Sentinel} : pos[x] = pos[pp] => x = pp
      /\ \A x \in N : pos[x] > 0
  BY <1>1, <1>2 DEF Ordered
<1>5. \A y \in N \cup {i} : y \notin Below(f, i)
  <2> SUFFICES ASSUME NEW y \in N \cup {i}, y \in Below(f, i) PROVE FALSE
    OBVIOUS
  <2>1. i < y /\ y \in Pid
    BY BelowAfter
  <2> QED BY <2>1, KillAssumption DEF Pid
<1>6. ASSUME NEW x \in N, i \in Below(f, x)
      PROVE  pp \in N /\ (pp = x \/ pp \in Below(f, x)) /\ pos[x] <= pos[pp]
  <2>1. pp = x \/ pp \in Below(f, x)
    BY <1>6, BelowFix
  <2>2. pp \in N
    BY <1>1, <2>1 DEF Below, Pid, Sentinel
  <2>3. pos[x] <= pos[pp]
    BY <1>2, <2>1, <2>2 DEF Together
  <2> QED BY <2>1, <2>2, <2>3
<1>7. ASSUME NEW x \in N, pp = x \/ pp \in Below(f, x) PROVE i \in Below(f, x)
  BY <1>7, BelowFix
<1> HIDE DEF new, pp
<1>8. ASSUME NEW x \in N \cup {i}, NEW y \in N \cup {i}, y \in Below(f, x) PROVE new[x] < new[y]
  <2>1. x \in N
    BY <1>5, <1>8
  <2>2. CASE y \in N
    <3>1. pos[x] < pos[y]
      BY <1>8, <2>1, <2>2 DEF Together
    <3> QED BY <1>2, <1>3, <2>1, <2>2, <3>1 DEF pp
  <2>3. CASE y = i
    <3>1. pos[x] <= pos[pp] /\ pos[pp] \in Nat
      BY <1>2, <1>6, <1>8, <2>1, <2>3
    <3> QED BY <1>2, <1>3, <2>1, <2>3, <3>1
  <2> QED BY <2>2, <2>3
<1>9. ASSUME NEW x \in N \cup {i}, NEW y \in N \cup {i}, NEW z \in N \cup {i},
             z \in Below(f, x), new[x] < new[y], new[y] < new[z]
      PROVE  y \in Below(f, x)
  <2>0. x \in N /\ pos[pp] \in Nat
    BY <1>2, <1>5, <1>9 DEF pp
  <2>1. CASE y \in N /\ z \in N
    <3>1. pos[x] < pos[y] /\ pos[y] < pos[z]
      BY <1>2, <1>3, <1>9, <2>0, <2>1
    <3> QED BY <1>9, <2>0, <2>1, <3>1 DEF Together
  <2>2. CASE y = i
    <3>1. z \in N /\ pos[x] <= pos[pp] /\ pos[pp] < pos[z]
      BY <1>2, <1>3, <1>9, <2>0, <2>2
    <3>2. pp \in N
      BY <1>2, <1>4, <2>0, <3>1 DEF pp, Ordered
    <3>3. CASE pos[x] = pos[pp]
      BY <1>4, <1>7, <2>0, <2>2, <3>3
    <3>4. CASE pos[x] < pos[pp]
      <4>1. pp \in Below(f, x)
        BY <1>9, <2>0, <3>1, <3>2, <3>4 DEF Together
      <4> QED BY <1>7, <2>0, <2>2, <4>1
    <3> QED BY <1>2, <2>0, <3>1, <3>3, <3>4
  <2>3. CASE z = i
    <3>1. pp \in N /\ (pp = x \/ pp \in Below(f, x))
      BY <1>6, <1>9, <2>0, <2>3
    <3>2. y \in N /\ pos[x] < pos[y] /\ pos[y] <= pos[pp]
      BY <1>2, <1>3, <1>9, <2>0, <2>3
    <3>3. CASE pos[y] = pos[pp]
      <4>1. y = pp
        BY <1>4, <3>2, <3>3
      <4> QED BY <3>1, <3>2, <4>1, <1>2
    <3>4. CASE pos[y] < pos[pp]
      <4>1. pp # x
        BY <1>2, <2>0, <3>2, <3>4
      <4> QED BY <2>0, <3>1, <3>2, <3>4, <4>1 DEF Together
    <3> QED BY <1>2, <2>0, <3>2, <3>3, <3>4
  <2> QED BY <2>1, <2>2, <2>3
<1> QED BY <1>8, <1>9 DEF Together, new, pp

Listing == [p \in Pid |-> ListedParent(p)]
InOrder == \A p \in Pid : ListedParent(p) < p
Linked == {p \in Pid : p < turn /\ ppid[p] # NoProcess}

\* The walk has visited what is between Self and visiting, and in the end all that is
\* below Self.
Walked(pos) ==
    /\ kill = "walk" => /\ visiting \in Linked /\ pos[Self] <= pos[visiting]
                        /\ visited = {y \in Linked : pos[Self] <= pos[y] /\ pos[y] <= pos[visiting]}
    /\ kill \in {"done", "undefined"} => Below(Listing, Self) \cap Linked \subseteq visited

PreorderOK ==
    /\ \A p \in Pid \ Linked : nxt[p] = p /\ prv[p] = p
    /\ \E pos \in [Node0 -> Nat] :
           Ordered(Linked, nxt, pos) /\ Together(Listing, Linked, pos) /\ Walked(pos)

\* Self is listed; before the walk it is the only one visited; and where parents
\* are listed before their children, the list is a pre-order of what was linked.
ListInv ==
    /\ turn \in 1..(MaxPid + 1) /\ (kill \notin {"scan", "link"} => turn = MaxPid + 1)
    /\ scan \in Nat /\ parent[Self] # NoProcess
    /\ kill # "scan" \/ scan > Self => ppid[Self] # NoProcess
    /\ kill \in {"scan", "link", "walk", "done", "undefined"}
    /\ kill \in {"scan", "link"} => visiting = Self /\ visited = {Self}
    /\ kill = "scan" => turn = 1 /\ \A p \in Node0 : nxt[p] = p /\ prv[p] = p
    /\ kill # "scan" /\ InOrder => PreorderOK

\* Nothing is linked.
LEMMA ListInitInv == KillInit => ListInv
<1> SUFFICES ASSUME KillInit PROVE ListInv
  OBVIOUS
<1>1. /\ turn = 1 /\ scan = 1 /\ kill = "scan" /\ visiting = Self /\ visited = {Self}
      /\ nxt = [p \in Pid \cup {Sentinel} |-> p] /\ prv = nxt
  BY DEF KillInit
<1>2. parent[Self] # NoProcess
  BY DEF KillInit, IsTree
<1> QED BY <1>1, <1>2, KillAssumption DEF ListInv, Node0

\* Forks and exits change nothing that was read.
LEMMA SystemListInv ==
    ASSUME KillInv, ListInv, NEW p \in Pid, NEW q \in Pid, Fork(p, q) \/ ExitProcess(p)
    PROVE  ListInv'
<1>1. /\ kill = "scan"
      /\ UNCHANGED <<scan, ppid, nxt, prv, turn, visiting, visited, killed, kill>>
  BY DEF Fork, ExitProcess
<1>2. parent'[Self] # NoProcess
  <2>1. parent \in [Pid -> Pid \cup {0, NoProcess}] /\ Self \in Pid /\ 1 \in Pid
    BY KillAssumption DEF KillInv, KillTypeOK, Pid
  <2>2. parent[Self] # NoProcess
    BY DEF ListInv
  <2>3. NoProcess \notin Pid
    BY KillAssumption DEF Pid, NoProcess
  <2>4. CASE Fork(p, q)
    <3>1. parent' = [parent EXCEPT ![q] = p]
      BY <2>4 DEF Fork
    <3> QED BY <2>1, <2>2, <2>3, <3>1
  <2>5. CASE ExitProcess(p)
    <3>1. /\ p # Self
          /\ parent' = [r \in Pid |-> IF r = p THEN NoProcess ELSE IF parent[r] = p THEN 1 ELSE parent[r]]
      BY <2>5 DEF ExitProcess
    <3> QED BY <2>1, <2>2, <2>3, <3>1
  <2> QED BY <2>4, <2>5
<1> QED BY <1>1, <1>2 DEF ListInv

\* When /proc has been read nothing is linked yet.
LEMMA ReadListInv == ASSUME KillInv, ListInv, ReadEntry PROVE ListInv'
<1>1. /\ kill = "scan" /\ scan \in Pid /\ ppid' = [ppid EXCEPT ![scan] = parent[scan]]
      /\ scan' = scan + 1 /\ kill' = IF scan = MaxPid THEN "link" ELSE kill
      /\ UNCHANGED <<parent, nxt, prv, turn, visiting, visited, killed>>
  BY DEF ReadEntry, KillInv, KillTypeOK
<1>2. /\ turn = 1 /\ visiting = Self /\ visited = {Self} /\ \A p \in Node0 : nxt[p] = p /\ prv[p] = p
      /\ parent[Self] # NoProcess /\ (scan > Self => ppid[Self] # NoProcess)
  BY <1>1 DEF ListInv
<1>3. Self \in Pid /\ scan \in Nat /\ Self \in Nat /\ Self <= MaxPid /\ MaxPid \in Nat
  BY <1>1, KillAssumption DEF Pid
<1>4. kill' # "scan" \/ scan' > Self => ppid'[Self] # NoProcess
  <2>1. CASE scan = Self
    BY <1>1, <1>2, <2>1 DEF KillInv, KillTypeOK
  <2>2. CASE scan # Self
    <3>1. ppid'[Self] = ppid[Self]
      BY <1>1, <1>3, <2>2 DEF KillInv, KillTypeOK
    <3>2. kill' # "scan" \/ scan' > Self => scan > Self
      BY <1>1, <1>3, <2>2
    <3> QED BY <1>2, <3>1, <3>2
  <2> QED BY <2>1, <2>2
<1>5. Linked' = {}
  <2>1. \A p \in Pid : ~(p < 1)
    BY KillAssumption DEF Pid
  <2> QED BY <1>1, <1>2, <2>1 DEF Linked
<1>6. ASSUME kill' = "link" PROVE PreorderOK'
  <2> DEFINE pos == [p \in Node0 |-> 0]
  <2>1. \A p \in Pid \ Linked' : nxt'[p] = p /\ prv'[p] = p
    BY <1>1, <1>2 DEF Node0
  <2>2. Ordered(Linked', nxt', pos)
    <3>1. Sentinel \in Node0 /\ nxt'[Sentinel] = Sentinel
      BY <1>1, <1>2 DEF Node0
    <3> QED BY <1>5, <3>1 DEF Ordered
  <2>3. Together(Listing', Linked', pos)
    BY <1>5 DEF Together
  <2>4. Walked(pos)'
    BY <1>6 DEF Walked
  <2>5. pos \in [Node0 -> Nat]
    OBVIOUS
  <2> QED BY <2>1, <2>2, <2>3, <2>4, <2>5 DEF PreorderOK, Node0
<1>7. kill' \in {"scan", "link"}
  BY <1>1
<1> QED BY <1>1, <1>2, <1>3, <1>4, <1>6, <1>7 DEF ListInv

\* What is known of the listed parents where they come first.
LEMMA ListingFacts ==
    ASSUME KillInv, InOrder
    PROVE  /\ \A p \in Pid : Listing[p] \in Nat /\ Listing[p] < p
           /\ \A p \in Pid : Listing[p] = ListedParent(p)
           /\ \A p \in Pid : Listing[p] = Sentinel
                             \/ (Listing[p] \in Pid /\ ppid[Listing[p]] # NoProcess)
<1>1. \A p \in Pid : Listing[p] = ListedParent(p)
  BY DEF Listing
<1>2. \A p \in Pid : ListedParent(p) = Sentinel
                     \/ (ListedParent(p) \in Pid /\ ppid[ListedParent(p)] # NoProcess)
  BY DEF ListedParent
<1>3. \A p \in Pid : ListedParent(p) \in Nat
  BY <1>2, KillAssumption DEF Pid, Sentinel
<1> QED BY <1>1, <1>2, <1>3 DEF InOrder

\* A process that is linked is put after its parent.
LEMMA LinkOrder ==
    ASSUME KillInv, ListInv, Link, InOrder
    PROVE  /\ \A p \in Pid \ Linked' : nxt'[p] = p /\ prv'[p] = p
           /\ \E pos \in [Node0 -> Nat] : Ordered(Linked', nxt', pos) /\ Together(Listing, Linked', pos)
<1> DEFINE pp == Listing[turn]
<1>1. /\ kill = "link" /\ turn \in Pid /\ turn' = turn + 1 /\ ppid' = ppid
      /\ IF ppid[turn] # NoProcess THEN Splice(turn, pp, nxt[pp]) ELSE UNCHANGED <<nxt, prv>>
  BY DEF Link, KillInv, KillTypeOK, Listing
<1>2. /\ \A p \in Pid \ Linked : nxt[p] = p /\ prv[p] = p
      /\ \E pos \in [Node0 -> Nat] : Ordered(Linked, nxt, pos) /\ Together(Listing, Linked, pos)
  BY <1>1 DEF ListInv, PreorderOK
<1>3. \A p \in Pid : p < turn + 1 <=> p < turn \/ p = turn
  BY <1>1, KillAssumption DEF Pid
<1>4. CASE ppid[turn] = NoProcess
  <2>1. Linked' = Linked
    BY <1>1, <1>3, <1>4 DEF Linked
  <2> QED BY <1>1, <1>2, <1>4, <2>1
<1>5. CASE ppid[turn] # NoProcess
  <2>1. Linked' = Linked \cup {turn}
    BY <1>1, <1>3, <1>5 DEF Linked
  <2>2. turn \notin Linked /\ Linked \subseteq Pid /\ \A p \in Linked : p < turn
    BY <1>1, KillAssumption DEF Linked, Pid
  <2>3. pp \in Linked \cup {Sentinel} /\ pp \in Nat /\ pp < turn
    BY <1>1, ListingFacts DEF Linked
  <2>4. PICK pos \in [Node0 -> Nat] : Ordered(Linked, nxt, pos) /\ Together(Listing, Linked, pos)
    BY <1>2
  <2>5. nxt[pp] \in Linked \cup {Sentinel}
    BY <2>3, <2>4 DEF Ordered
  <2>6. nxt[turn] = turn /\ prv[turn] = turn
    BY <1>1, <1>2, <2>2
  <2>7. turn # Sentinel /\ turn # pp /\ nxt[pp] # turn /\ Sentinel \notin Pid
    BY <1>1, <2>2, <2>3, <2>5, KillAssumption DEF Sentinel, Pid
  <2>8. /\ nxt \in [Node0 -> Node0] /\ prv \in [Node0 -> Node0] /\ turn \in Node0 /\ pp \in Node0
        /\ nxt[pp] \in Node0
    BY <1>1, <2>2, <2>3, <2>5 DEF KillInv, KillTypeOK, Node0
  <2>9. /\ prv' = [prv EXCEPT ![turn] = pp, ![nxt[pp]] = turn]
        /\ nxt' = [nxt EXCEPT ![pp] = turn, ![turn] = nxt[pp]]
    BY <1>1, <1>5, <2>6 DEF Splice
  <2>10. /\ \A x \in Node0 : x # pp /\ x # turn => nxt'[x] = nxt[x]
         /\ \A x \in Node0 : x # nxt[pp] /\ x # turn => prv'[x] = prv[x]
         /\ nxt'[pp] = turn /\ nxt'[turn] = nxt[pp]
    BY <2>7, <2>8, <2>9
  <2>11. \A p \in Pid \ Linked' : nxt'[p] = p /\ prv'[p] = p
    <3> SUFFICES ASSUME NEW p \in Pid, p \notin Linked, p # turn PROVE nxt'[p] = p /\ prv'[p] = p
      BY <2>1
    <3>1. p \in Node0 /\ p # pp /\ p # nxt[pp]
      BY <2>3, <2>5, <2>7 DEF Node0
    <3> QED BY <1>2, <2>10, <3>1
  <2>12. Ordered(Linked', nxt', Inserted(pos, turn, pp))
    <3>1. PICK N, nx, nx2, i, q : N = Linked /\ nx = nxt /\ nx2 = nxt' /\ i = turn /\ q = pp
      OBVIOUS
    <3>2. /\ N \in SUBSET Pid /\ i \in Pid /\ i \notin N /\ q \in N \cup {Sentinel} /\ Ordered(N, nx, pos)
          /\ nx2[q] = i /\ nx2[i] = nx[q]
      BY <1>1, <2>2, <2>3, <2>4, <2>10, <3>1
    <3>3. \A x \in N \cup {Sentinel} : x # q => nx2[x] = nx[x]
      BY <2>2, <2>7, <2>10, <3>1 DEF Node0
    <3>4. Ordered(N \cup {i}, nx2, Inserted(pos, i, q))
      BY <3>2, <3>3, InsertOrdered
    <3> QED BY <2>1, <3>1, <3>4
  <2>13. Together(Listing, Linked', Inserted(pos, turn, pp))
    <3>1. PICK N, nx, f, i : N = Linked /\ nx = nxt /\ f = Listing /\ i = turn
      OBVIOUS
    <3>2. /\ N \in SUBSET Pid /\ i \in Pid /\ f[i] \in N \cup {Sentinel} /\ Ordered(N, nx, pos)
          /\ Together(f, N, pos) /\ \A p \in N : p < i
      BY <1>1, <2>2, <2>3, <2>4, <3>1
    <3>3. \A p \in Pid : f[p] \in Nat /\ f[p] < p
      BY <3>1, ListingFacts
    <3>4. Together(f, N \cup {i}, Inserted(pos, i, f[i]))
      BY <3>2, <3>3, InsertTogether
    <3> QED BY <2>1, <3>1, <3>4
  <2>14. Inserted(pos, turn, pp) \in [Node0 -> Nat]
    BY <2>8 DEF Inserted
  <2> QED BY <2>11, <2>12, <2>13, <2>14
<1> QED BY <1>4, <1>5

\* The last process that is linked, and those before it.
LEMMA LinkListInv == ASSUME KillInv, ListInv, Link PROVE ListInv'
<1>1. /\ kill = "link" /\ turn \in Pid /\ turn' = turn + 1
      /\ kill' = IF turn = MaxPid THEN "walk" ELSE kill
      /\ UNCHANGED <<parent, scan, ppid, visiting, visited, killed>>
  BY DEF Link, KillInv, KillTypeOK
<1>2. turn \in 1..MaxPid /\ MaxPid \in Nat /\ Self \in 2..MaxPid
  BY <1>1, KillAssumption DEF Pid
<1>3. InOrder' = InOrder /\ Listing' = Listing
  BY <1>1 DEF InOrder, Listing, ListedParent
<1>4. /\ ppid[Self] # NoProcess /\ visiting = Self /\ visited = {Self} /\ scan \in Nat
      /\ parent[Self] # NoProcess
  BY <1>1 DEF ListInv
<1>5. ASSUME InOrder PROVE PreorderOK'
  <2>1. \A p \in Pid \ Linked' : nxt'[p] = p /\ prv'[p] = p
    BY <1>5, LinkOrder
  <2>2. PICK pos \in [Node0 -> Nat] : Ordered(Linked', nxt', pos) /\ Together(Listing, Linked', pos)
    BY <1>5, LinkOrder
  <2>3. Walked(pos)'
    <3>1. CASE kill' = "walk"
      <4>1. turn' = MaxPid + 1
        BY <1>1, <3>1
      <4>2. Self \in Linked'
        BY <1>1, <1>2, <1>4, <4>1 DEF Linked, Pid
      <4>3. \A y \in Linked' : pos[y] \in Nat /\ (pos[y] = pos[Self] => y = Self)
        BY <2>2, <4>2 DEF Ordered, Node0, Linked
      <4>4. {Self} = {y \in Linked' : pos[Self] <= pos[y] /\ pos[y] <= pos[Self]}
        BY <4>2, <4>3
      <4> QED BY <1>1, <1>4, <3>1, <4>2, <4>3, <4>4 DEF Walked
    <3>2. CASE kill' = "link"
      BY <3>2 DEF Walked
    <3> QED BY <1>1, <3>1, <3>2
  <2> QED BY <1>3, <2>1, <2>2, <2>3 DEF PreorderOK, Node0
<1> QED BY <1>1, <1>2, <1>3, <1>4, <1>5 DEF ListInv

\* The walk leaves what is below Self behind only when it has visited all of it:
\* the next in the list, if any of them is left, is one whose parent was visited.
LEMMA WalkOrder ==
    ASSUME KillInv, ListInv, Walk, InOrder,
           NEW pos \in [Node0 -> Nat], Ordered(Linked, nxt, pos), Together(Listing, Linked, pos),
           Walked(pos)
    PROVE  Walked(pos)'
<1> DEFINE c == nxt[visiting]
<1>1. /\ kill = "walk" /\ visiting' = c
      /\ kill' = CASE c = Sentinel -> "undefined"
                   [] c # Sentinel /\ ListedParent(c) \notin visited -> "done"
                   [] OTHER -> "walk"
      /\ IF kill' = "walk" THEN visited' = visited \cup {c} ELSE UNCHANGED visited
      /\ UNCHANGED <<ppid, nxt, prv, turn>>
  BY DEF Walk
<1>2. Linked' = Linked /\ Listing' = Listing
  BY <1>1 DEF Linked, Listing, ListedParent
<1>3. /\ visiting \in Linked /\ pos[Self] <= pos[visiting]
      /\ visited = {y \in Linked : pos[Self] <= pos[y] /\ pos[y] <= pos[visiting]}
  BY <1>1 DEF Walked
<1>4. /\ turn = MaxPid + 1 /\ ppid[Self] # NoProcess
  BY <1>1 DEF ListInv
<1>5. Linked = {p \in Pid : ppid[p] # NoProcess} /\ Self \in Linked /\ Sentinel \notin Linked
  BY <1>4, KillAssumption DEF Linked, Pid, Sentinel
<1>6. /\ \A x \in Linked : pos[x] \in Nat
      /\ \A x, y \in Linked : pos[x] = pos[y] => x = y
      /\ c \in Linked \cup {Sentinel} /\ (c # Sentinel => pos[visiting] < pos[c])
      /\ \A y \in Linked : pos[visiting] < pos[y] => c # Sentinel /\ pos[c] <= pos[y]
  BY <1>3, <1>5 DEF Ordered, Node0
<1>7. ASSUME NEW z \in Linked, z \in Below(Listing, Self), z \notin visited
      PROVE  pos[visiting] < pos[z] /\ c \in Linked /\ pos[c] <= pos[z] /\ ListedParent(c) \in visited
  <2>1. pos[Self] < pos[z]
    BY <1>5, <1>7 DEF Together
  <2>2. pos[visiting] < pos[z]
    BY <1>3, <1>5, <1>6, <1>7, <2>1
  <2>3. c \in Linked /\ pos[visiting] < pos[c] /\ pos[c] <= pos[z]
    BY <1>6, <2>2
  <2>4. c \in Below(Listing, Self)
    <3>1. CASE pos[c] = pos[z]
      BY <1>6, <1>7, <2>3, <3>1
    <3>2. CASE pos[c] < pos[z]
      <4>1. pos[Self] < pos[c]
        BY <1>3, <1>5, <1>6, <2>3
      <4> QED BY <1>5, <1>7, <2>3, <3>2, <4>1 DEF Together
    <3> QED BY <1>6, <2>3, <3>1, <3>2
  <2> DEFINE d == Listing[c]
  <2>5. c \in Pid /\ d = ListedParent(c)
    BY <1>5, <2>3, ListingFacts
  <2>6. d = Self \/ d \in Below(Listing, Self)
    <3>1. PICK f : f = Listing
      OBVIOUS
    <3> QED BY <2>4, <2>5, <3>1, BelowFix
  <2>7. CASE d = Self
    <3>1. Self \in visited
      BY <1>3, <1>5, <1>6
    <3> QED BY <2>2, <2>3, <2>5, <2>7, <3>1
  <2>8. CASE d \in Below(Listing, Self)
    <3>1. d \in Pid
      BY <2>8 DEF Below
    <3>2. d \in Linked
      BY <1>5, <2>5, <3>1, ListingFacts, KillAssumption DEF Pid, Sentinel
    <3>3. c \in Below(Listing, d)
      <4>1. PICK f, e : f = Listing /\ e = c
        OBVIOUS
      <4>2. e \in Below(f, f[e])
        BY <2>5, <4>1, BelowFix
      <4> QED BY <4>1, <4>2
    <3>4. pos[Self] < pos[d] /\ pos[d] < pos[c]
      BY <1>5, <2>3, <2>8, <3>2, <3>3 DEF Together
    <3>5. pos[d] <= pos[visiting]
      BY <1>3, <1>6, <2>3, <3>2, <3>4
    <3>6. d \in visited
      BY <1>3, <1>5, <1>6, <3>2, <3>4, <3>5
    <3> QED BY <2>2, <2>3, <2>5, <3>6
  <2> QED BY <2>6, <2>7, <2>8
<1>8. CASE kill' = "walk"
  <2>1. c \in Linked /\ visited' = visited \cup {c} /\ pos[visiting] < pos[c]
    BY <1>1, <1>6, <1>8
  <2>2. ASSUME NEW y \in Linked
        PROVE  y \in visited \cup {c} <=> pos[Self] <= pos[y] /\ pos[y] <= pos[c]
    <3>1. pos[y] <= pos[c] <=> pos[y] <= pos[visiting] \/ y = c
      BY <1>3, <1>6, <2>1, <2>2
    <3>2. pos[Self] <= pos[c]
      BY <1>3, <1>5, <1>6, <2>1
    <3> QED BY <1>3, <3>1, <3>2
  <2>3. visited \cup {c} = {y \in Linked : pos[Self] <= pos[y] /\ pos[y] <= pos[c]}
    BY <1>3, <2>1, <2>2
  <2>4. pos[Self] <= pos[c]
    BY <1>3, <1>5, <1>6, <2>1
  <2> QED BY <1>1, <1>2, <1>8, <2>1, <2>3, <2>4 DEF Walked
<1>9. CASE kill' # "walk"
  <2>1. c = Sentinel \/ ListedParent(c) \notin visited
    BY <1>1, <1>9
  <2>2. \A z \in Linked : z \in Below(Listing, Self) => z \in visited
    BY <1>5, <1>7, <2>1
  <2>3. visited' = visited
    BY <1>1, <1>9
  <2> QED BY <1>2, <1>9, <2>2, <2>3 DEF Walked
<1> QED BY <1>8, <1>9

\* A step of the walk.
LEMMA WalkListInv == ASSUME KillInv, ListInv, Walk PROVE ListInv'
<1>1. /\ kill = "walk" /\ kill' \in {"undefined", "done", "walk"}
      /\ UNCHANGED <<parent, scan, ppid, nxt, prv, turn>>
  BY DEF Walk
<1>2. InOrder' = InOrder /\ Listing' = Listing /\ Linked' = Linked
  BY <1>1 DEF InOrder, Listing, ListedParent, Linked
<1>3. /\ turn = MaxPid + 1 /\ turn \in 1..(MaxPid + 1) /\ scan \in Nat
      /\ parent[Self] # NoProcess /\ ppid[Self] # NoProcess
  BY <1>1 DEF ListInv
<1>4. ASSUME InOrder PROVE PreorderOK'
  <2>1. PreorderOK
    BY <1>1, <1>4 DEF ListInv
  <2>2. PICK pos \in [Node0 -> Nat] :
           Ordered(Linked, nxt, pos) /\ Together(Listing, Linked, pos) /\ Walked(pos)
    BY <2>1 DEF PreorderOK
  <2>3. Walked(pos)'
    BY <1>4, <2>2, WalkOrder
  <2>4. \A p \in Pid \ Linked' : nxt'[p] = p /\ prv'[p] = p
    BY <1>1, <1>2, <2>1 DEF PreorderOK
  <2> QED BY <1>1, <1>2, <2>2, <2>3, <2>4 DEF PreorderOK, Node0
<1> QED BY <1>1, <1>2, <1>3, <1>4 DEF ListInv

\* Every step keeps the order of the list.
LEMMA ListNextInv == ASSUME KillInv, ListInv, [KillNext]_killVars PROVE ListInv'
<1>1. CASE UNCHANGED killVars
  BY <1>1 DEF killVars, ListInv, PreorderOK, Linked, Listing, ListedParent, InOrder, Walked
<1>2. ASSUME NEW p \in Pid, ExitProcess(p) PROVE ListInv'
  BY <1>2, SystemListInv
<1> QED BY <1>1, <1>2, SystemListInv, ReadListInv, LinkListInv, WalkListInv DEF KillNext

\* At the end of the walk the list was walked through to the last process below Self.
LEMMA ListedKilled == KillInv /\ ListInv => KillsAllListed
<1> SUFFICES ASSUME KillInv, ListInv, kill \in {"done", "undefined"}, InOrder
             PROVE  Below(Listing, Self) \ {q \in Pid : ppid[q] = NoProcess} \subseteq killed
  BY Zenon DEF KillsAllListed, InOrder, Listing
<1> SUFFICES ASSUME NEW q \in Below(Listing, Self), q \in Pid => ppid[q] # NoProcess
             PROVE  q \in killed
  OBVIOUS
<1>1. Below(Listing, Self) \cap Linked \subseteq visited
  BY DEF ListInv, PreorderOK, Walked
<1>2. q \in Pid /\ q # Self
  <2>1. PICK f : f = Listing
    OBVIOUS
  <2>2. \A p \in Pid : f[p] \in Nat /\ f[p] < p
    BY <2>1, ListingFacts
  <2>3. Self \in Pid
    BY KillAssumption DEF Pid
  <2>4. q \in Pid /\ Self < q
    BY <2>1, <2>2, <2>3, BelowAfter
  <2> QED BY <2>4, KillAssumption
<1>3. q \in Linked
  BY <1>2, KillAssumption DEF Linked, ListInv, Pid
<1> QED BY <1>1, <1>2, <1>3 DEF KillInv

\* For any number of pids, kill_all_descendants kills only what deai or its
\* descendants forked, although processes fork, exit and are given to init while
\* /proc is read; and where parents are listed before their children it kills every
\* descendant that was read.
THEOREM AlwaysKillsDescendants == KillSpec => []KillsDescendants
<1>1. KillInit => KillInv /\ ListInv
  BY KillInitInv, ListInitInv
<1>2. KillInv /\ ListInv /\ [KillNext]_killVars => KillInv' /\ ListInv'
  BY KillNextInv, ListNextInv
<1>3. KillInv /\ ListInv => KillsDescendants
  BY ListedKilled DEF KillInv, KillsDescendants
<1> QED BY <1>1, <1>2, <1>3, PTL DEF KillSpec

-----------------------------------------------------------------------------
(* Roots *)

RootRecord == [key : Key, obj : Object]
AnonRecord == [id : 0..(IdSpace - 1), obj : Object]
FrameSet == [op : {"end", "drop", "iter"}, rest : Seq(Object), next : Key \cup {Null}, quit : BOOLEAN]

OneRootForKey(nm) == \A i, j \in DOMAIN nm : nm[i].key = nm[j].key => i = j

\* The handles are below the next one, until that one has overflown.
HandlesBelow ==
    /\ \A i \in DOMAIN issued : issued[i] > 0 /\ (nextId # 0 => issued[i] < nextId)
    /\ \A i, j \in DOMAIN issued : issued[i] = issued[j] => i = j

Loops(st, d) == st[d].op = "iter" /\ st[d].next # Null

\* What a loop visits next is there, one loop at most has a member left to visit,
\* and none below di_roots_dtor has.
OneLoop(st, nm) ==
    /\ \A d \in DOMAIN st : Loops(st, d) => st[d].next \in Keys(nm)
    /\ \A d, e \in DOMAIN st : Loops(st, d) /\ Loops(st, e) => d = e
    /\ \A d, e \in DOMAIN st : Loops(st, d) /\ st[e].op = "drop" => ~(d < e)

Dropping(st) == \E d \in DOMAIN st : st[d].op = "drop"

\* di_roots_dtor runs in a quit, once, and what it emptied stays empty; the methods
\* are gone once it has returned.
QuitOrder(st, an, op, dt) ==
    /\ \A d \in DOMAIN st : st[d].op = "drop" => st[d].quit
    /\ dt => op /\ ~Dropping(st)
    /\ ~dt => an = <<>> /\ (~op \/ Dropping(st))

\* Without the methods, the roots that are left are those a quit is about to remove.
QuitLoop(st, nm, op) ==
    ~op => \/ nm = <<>>
           \/ \E d \in DOMAIN st : /\ st[d].op = "iter" /\ st[d].quit
                                   /\ st[d].next = FirstKey(nm)

CallsOK(st, nm, an, op, dt) ==
    /\ st \in Seq(FrameSet) /\ OneLoop(st, nm)
    /\ QuitOrder(st, an, op, dt) /\ QuitLoop(st, nm, op)

NamedOK(nm) == nm \in Seq(RootRecord) /\ OneRootForKey(nm)

RootsInv ==
    /\ NamedOK(named) /\ anon \in Seq(AnonRecord)
    /\ issued \in Seq(Nat) /\ nextId \in 0..(IdSpace - 1) /\ HandlesBelow
    /\ open \in BOOLEAN /\ dtor \in BOOLEAN
    /\ inUse \subseteq Object /\ ended \subseteq Object
    /\ CallsOK(stack, named, anon, open, dtor)
    /\ RootsKeepAlive

\* The empty registry.
LEMMA RootsInitInv == RootsInit => RootsInv
<1> SUFFICES ASSUME RootsInit PROVE RootsInv
  OBVIOUS
<1> USE RootsAssumption DEF RootsInit
<1>1. NamedOK(named) /\ anon \in Seq(AnonRecord)
  BY DEF NamedOK, OneRootForKey
<1>2. CallsOK(stack, named, anon, open, dtor)
  BY DEF CallsOK, OneLoop, QuitOrder, QuitLoop, Dropping
<1>3. issued \in Seq(Nat) /\ HandlesBelow /\ nextId \in 0..(IdSpace - 1)
  BY DEF HandlesBelow
<1>4. open \in BOOLEAN /\ dtor \in BOOLEAN /\ inUse \subseteq Object /\ ended \subseteq Object
  OBVIOUS
<1>5. RootsKeepAlive
  BY DEF RootsKeepAlive
<1> QED BY <1>1, <1>2, <1>3, <1>4, <1>5 DEF RootsInv

\* What RemoveAt leaves of a sequence.
LEMMA RemoveAtFacts ==
    ASSUME NEW S, NEW s \in Seq(S), NEW i \in DOMAIN s
    PROVE  /\ RemoveAt(s, i) \in Seq(S)
           /\ Len(RemoveAt(s, i)) = Len(s) - 1
           /\ \A j \in 1..(Len(s) - 1) : RemoveAt(s, i)[j] = IF j < i THEN s[j] ELSE s[j + 1]
<1> DEFINE u == SubSeq(s, 1, i - 1)
           v == SubSeq(s, i + 1, Len(s))
<1>1. i \in 1..Len(s) /\ Len(s) \in Nat
  OBVIOUS
<1>2. u \in Seq(S) /\ Len(u) = i - 1 /\ \A j \in 1..(i - 1) : u[j] = s[j]
  BY <1>1
<1>3. v \in Seq(S) /\ Len(v) = Len(s) - i /\ \A j \in 1..(Len(s) - i) : v[j] = s[i + j]
  BY <1>1
<1> HIDE DEF u, v
<1>4. u \o v \in Seq(S) /\ Len(u \o v) = Len(s) - 1
  BY <1>1, <1>2, <1>3
<1>5. \A j \in 1..(Len(s) - 1) : (u \o v)[j] = IF j < i THEN s[j] ELSE s[j + 1]
  <2> SUFFICES ASSUME NEW j \in 1..(Len(s) - 1)
               PROVE  (u \o v)[j] = IF j < i THEN s[j] ELSE s[j + 1]
    OBVIOUS
  <2>1. (u \o v)[j] = IF j <= Len(u) THEN u[j] ELSE v[j - Len(u)]
    <3>1. j \in 1..(Len(u) + Len(v))
      BY ONLY <1>1, <1>2, <1>3, j \in 1..(Len(s) - 1)
    <3>2. u \in Seq(S) /\ v \in Seq(S)
      BY ONLY <1>2, <1>3
    <3> QED BY ONLY <3>1, <3>2
  <2>2. CASE j < i
    BY <1>1, <1>2, <2>1, <2>2
  <2>3. CASE ~(j < i)
    <3>1. j - Len(u) \in 1..(Len(s) - i) /\ i + (j - Len(u)) = j + 1
      BY <1>1, <1>2, <2>3
    <3>2. v[j - Len(u)] = s[j + 1]
      BY ONLY <1>3, <3>1
    <3>3. ~(j <= Len(u))
      BY ONLY <1>1, <1>2, <2>3, j \in 1..(Len(s) - 1)
    <3> QED BY ONLY <2>1, <2>3, <3>2, <3>3
  <2> QED BY <2>2, <2>3
<1> QED BY <1>4, <1>5 DEF RemoveAt, u, v

\* Removing a key keeps the other roots in their order.
LEMMA WithoutFacts ==
    ASSUME NEW nm, NamedOK(nm), NEW k \in Keys(nm)
    PROVE  /\ IndexOfKey(nm, k) \in DOMAIN nm /\ nm[IndexOfKey(nm, k)].key = k
           /\ NamedOK(Without(nm, k))
           /\ Keys(Without(nm, k)) = Keys(nm) \ {k}
           /\ \A j \in DOMAIN Without(nm, k) : \E l \in DOMAIN nm : Without(nm, k)[j] = nm[l]
           /\ FirstKey(nm) = k => FirstKey(Without(nm, k)) = KeyAfter(nm, k)
           /\ KeyAfter(nm, k) \in (Keys(nm) \ {k}) \cup {Null}
<1> DEFINE i == IndexOfKey(nm, k)
           w == Without(nm, k)
<1>1. i \in DOMAIN nm /\ nm[i].key = k
  BY DEF Keys, IndexOfKey
<1>2. nm \in Seq(RootRecord) /\ OneRootForKey(nm)
  BY DEF NamedOK
<1>3. /\ w \in Seq(RootRecord) /\ Len(w) = Len(nm) - 1
      /\ \A j \in 1..(Len(nm) - 1) : w[j] = IF j < i THEN nm[j] ELSE nm[j + 1]
  BY <1>1, <1>2, RemoveAtFacts DEF Without
<1> HIDE DEF w
<1>a. i \in 1..Len(nm)
  BY <1>1, <1>2
<1> HIDE DEF i
<1>4. NamedOK(w)
  <2> SUFFICES ASSUME NEW a \in DOMAIN w, NEW b \in DOMAIN w, w[a].key = w[b].key PROVE a = b
    BY <1>3 DEF NamedOK, OneRootForKey
  <2>1. a \in 1..(Len(nm) - 1) /\ b \in 1..(Len(nm) - 1) /\ Len(nm) \in Nat
    BY <1>2, <1>3
  <2> DEFINE x == IF a < i THEN a ELSE a + 1
             y == IF b < i THEN b ELSE b + 1
  <2>2. w[a] = nm[x] /\ w[b] = nm[y] /\ x \in DOMAIN nm /\ y \in DOMAIN nm
    <3>1. w[a] = nm[x] /\ w[b] = nm[y]
      BY ONLY <1>3, <2>1
    <3>2. x \in 1..Len(nm) /\ y \in 1..Len(nm) /\ DOMAIN nm = 1..Len(nm)
      BY ONLY <1>2, <1>a, <2>1
    <3> QED BY <3>1, <3>2
  <2>3. x = y
    BY <1>2, <2>2 DEF OneRootForKey
  <2> QED BY <1>a, <2>1, <2>3
<1>5. \A j \in DOMAIN w : \E l \in DOMAIN nm : l # i /\ w[j] = nm[l]
  <2> SUFFICES ASSUME NEW j \in DOMAIN w PROVE \E l \in DOMAIN nm : l # i /\ w[j] = nm[l]
    OBVIOUS
  <2>1. j \in 1..(Len(nm) - 1) /\ Len(nm) \in Nat
    BY <1>2, <1>3
  <2>2. CASE j < i
    BY <1>2, <1>3, <1>a, <2>1, <2>2
  <2>3. CASE ~(j < i)
    <3>1. j + 1 \in DOMAIN nm /\ j + 1 # i /\ w[j] = nm[j + 1]
      BY <1>2, <1>3, <1>a, <2>1, <2>3
    <3> QED BY <3>1
  <2> QED BY <2>2, <2>3
<1>6. \A l \in DOMAIN nm : l # i => \E j \in DOMAIN w : w[j] = nm[l]
  <2> SUFFICES ASSUME NEW l \in DOMAIN nm, l # i PROVE \E j \in DOMAIN w : w[j] = nm[l]
    OBVIOUS
  <2>1. l \in 1..Len(nm) /\ Len(nm) \in Nat
    BY <1>2
  <2>2. CASE l < i
    <3>1. l \in DOMAIN w /\ w[l] = nm[l]
      BY <1>3, <1>a, <2>1, <2>2
    <3> QED BY <3>1
  <2>3. CASE ~(l < i)
    <3>0. l - 1 \in 1..(Len(nm) - 1) /\ ~(l - 1 < i) /\ (l - 1) + 1 = l
      BY ONLY <1>a, <2>1, <2>3, l # i
    <3>1. l - 1 \in DOMAIN w /\ w[l - 1] = nm[l]
      BY ONLY <1>3, <2>1, <3>0
    <3> QED BY <3>1
  <2> QED BY <2>2, <2>3
<1>7. Keys(w) = Keys(nm) \ {k}
  <2>1. \A l \in DOMAIN nm : nm[l].key = k <=> l = i
    BY <1>1, <1>2 DEF OneRootForKey, i
  <2> QED BY <1>5, <1>6, <2>1 DEF Keys
<1>8. FirstKey(nm) = k => FirstKey(w) = KeyAfter(nm, k)
  <2> SUFFICES ASSUME FirstKey(nm) = k PROVE FirstKey(w) = KeyAfter(nm, k)
    OBVIOUS
  <2>1. nm # <<>> /\ 1 \in DOMAIN nm /\ nm[1].key = k
    BY <1>2, <1>a DEF FirstKey
  <2>2. i = 1
    BY <1>1, <1>2, <2>1 DEF OneRootForKey, i
  <2>3. CASE Len(nm) = 1
    BY <1>2, <1>3, <2>2, <2>3 DEF FirstKey, KeyAfter, i
  <2>4. CASE Len(nm) # 1
    <3>1. Len(w) > 0 /\ w[1] = nm[2]
      BY <1>2, <1>3, <1>a, <2>2, <2>4
    <3>2. w # <<>> /\ Head(w) = w[1]
      BY <1>3, <3>1
    <3> QED BY <2>2, <2>4, <3>1, <3>2 DEF FirstKey, KeyAfter, i
  <2> QED BY <2>3, <2>4
<1>9. KeyAfter(nm, k) \in (Keys(nm) \ {k}) \cup {Null}
  <2>1. CASE i # Len(nm)
    <3>1. i + 1 \in DOMAIN nm /\ i + 1 # i
      BY <1>2, <1>a, <2>1
    <3>2. KeyAfter(nm, k) = nm[i + 1].key
      BY <2>1 DEF KeyAfter, i
    <3>3. nm[i + 1].key # k
      BY <1>1, <1>2, <3>1 DEF OneRootForKey, i
    <3> QED BY <3>1, <3>2, <3>3 DEF Keys
  <2>2. CASE i = Len(nm)
    BY <2>2 DEF KeyAfter, i
  <2> QED BY <2>1, <2>2
<1> QED BY <1>1, <1>4, <1>5, <1>7, <1>8, <1>9 DEF i, w

\* Null is not the key of a root: only an empty registry has no first key.
LEMMA FirstKeyFacts ==
    ASSUME NEW nm, NamedOK(nm)
    PROVE  /\ FirstKey(nm) \in Keys(nm) \cup {Null} /\ FirstKey(nm) \in Key \cup {Null}
           /\ FirstKey(nm) = Null <=> nm = <<>>
           /\ Keys(nm) \subseteq Key
<1>1. nm \in Seq(RootRecord)
  BY DEF NamedOK
<1>2. Keys(nm) \subseteq Key
  <2>1. \A i \in DOMAIN nm : nm[i] \in RootRecord
    BY <1>1
  <2>2. \A i \in DOMAIN nm : nm[i].key \in Key
    BY <2>1 DEF RootRecord
  <2> QED BY <2>2 DEF Keys
<1>3. CASE nm # <<>>
  <2>1. 1 \in DOMAIN nm /\ Head(nm) = nm[1] /\ FirstKey(nm) = nm[1].key
    BY <1>1, <1>3 DEF FirstKey
  <2>2. FirstKey(nm) \in Keys(nm)
    BY <2>1 DEF Keys
  <2> QED BY <1>2, <1>3, <2>2, RootsAssumption
<1>4. CASE nm = <<>>
  BY <1>2, <1>4 DEF FirstKey
<1> QED BY <1>3, <1>4

\* A call of a destructor changes nothing for the calls below it.
LEMMA PushEnd ==
    ASSUME NEW st, NEW nm, NEW an, NEW op, NEW dt, CallsOK(st, nm, an, op, dt)
    PROVE  CallsOK(Append(st, EndFrame), nm, an, op, dt)
<1>1. EndFrame \in FrameSet /\ EndFrame.op = "end"
  BY DEF EndFrame, Frame, FrameSet
<1>2. st \in Seq(FrameSet)
  BY DEF CallsOK
<1> DEFINE t == Append(st, EndFrame)
<1>3. /\ t \in Seq(FrameSet) /\ DOMAIN t = 1..(Len(st) + 1) /\ DOMAIN st = 1..Len(st)
      /\ Len(st) \in Nat
      /\ \A d \in DOMAIN st : t[d] = st[d]
      /\ t[Len(st) + 1].op = "end"
  BY <1>1, <1>2
<1> HIDE DEF t
<1>4. OneLoop(t, nm)
  BY <1>3 DEF CallsOK, OneLoop, Loops
<1>5. QuitOrder(t, an, op, dt)
  BY <1>3 DEF CallsOK, QuitOrder, Dropping
<1>6. QuitLoop(t, nm, op)
  BY <1>3 DEF CallsOK, QuitLoop
<1> QED BY <1>3, <1>4, <1>5, <1>6 DEF CallsOK, t

\* A loop over the members begins where no other has a member left: that of
\* di_clear_roots, or that of a quit, after which the methods are gone.
LEMMA PushIter ==
    ASSUME NEW st, NEW nm, NEW an, NEW op \in BOOLEAN, NEW dt \in BOOLEAN,
           NEW q \in BOOLEAN, NEW op2 \in BOOLEAN,
           st \in Seq(FrameSet), OneLoop(st, nm), NamedOK(nm),
           \A d \in DOMAIN st : ~Loops(st, d),
           QuitOrder(st, an, op2, dt), op2 \/ q
    PROVE  CallsOK(Append(st, Frame("iter", <<>>, FirstKey(nm), q)), nm, an, op2, dt)
<1> DEFINE f == Frame("iter", <<>>, FirstKey(nm), q)
           t == Append(st, f)
<1>1. /\ f \in FrameSet /\ f.op = "iter" /\ f.next = FirstKey(nm) /\ f.quit = q
  BY FirstKeyFacts DEF Frame, FrameSet
<1> HIDE DEF f
<1>3. /\ t \in Seq(FrameSet) /\ DOMAIN t = 1..(Len(st) + 1) /\ DOMAIN st = 1..Len(st)
      /\ Len(st) \in Nat
      /\ \A d \in DOMAIN st : t[d] = st[d]
      /\ t[Len(st) + 1] = f
  BY <1>1
<1> HIDE DEF t
<1>4. OneLoop(t, nm)
  <2>1. \A d \in DOMAIN st : ~Loops(t, d)
    BY <1>3 DEF Loops
  <2>2. \A d \in DOMAIN t : Loops(t, d) => d = Len(st) + 1 /\ t[d].next \in Keys(nm)
    BY <1>1, <1>3, <2>1, FirstKeyFacts DEF Loops
  <2> QED BY <1>1, <1>3, <2>2 DEF OneLoop
<1>5. QuitOrder(t, an, op2, dt)
  BY <1>1, <1>3 DEF QuitOrder, Dropping
<1>6. QuitLoop(t, nm, op2)
  BY <1>1, <1>3 DEF QuitLoop
<1> QED BY <1>3, <1>4, <1>5, <1>6 DEF CallsOK, t, f

\* A destructor, or a loop that has nothing left to visit, returns.
LEMMA PopDone ==
    ASSUME NEW st, NEW nm, NEW an, NEW op, NEW dt, CallsOK(st, nm, an, op, dt), NamedOK(nm),
           st # <<>>, Last(st).op = "end" \/ (Last(st).op = "iter" /\ Last(st).next = Null)
    PROVE  CallsOK(Front(st), nm, an, op, dt)
<1> DEFINE t == Front(st)
           n == Len(st)
<1>1. st \in Seq(FrameSet)
  BY DEF CallsOK
<1>2. n \in Nat \ {0} /\ DOMAIN st = 1..n /\ Last(st) = st[n]
  BY <1>1 DEF Last
<1>3. t \in Seq(FrameSet) /\ DOMAIN t = 1..(n - 1) /\ \A d \in 1..(n - 1) : t[d] = st[d]
  BY <1>1, <1>2 DEF Front
<1> HIDE DEF t, n
<1>4. OneLoop(t, nm)
  BY <1>2, <1>3 DEF CallsOK, OneLoop, Loops
<1>5. QuitOrder(t, an, op, dt)
  BY <1>2, <1>3 DEF CallsOK, QuitOrder, Dropping
<1>6. QuitLoop(t, nm, op)
  <2> SUFFICES ASSUME ~op, nm # <<>>
               PROVE  \E d \in DOMAIN t : t[d].op = "iter" /\ t[d].quit /\ t[d].next = FirstKey(nm)
    BY DEF QuitLoop
  <2>1. PICK d \in DOMAIN st : st[d].op = "iter" /\ st[d].quit /\ st[d].next = FirstKey(nm)
    BY DEF CallsOK, QuitLoop
  <2>2. d # n
    BY <1>2, <2>1, FirstKeyFacts
  <2> QED BY <1>2, <1>3, <2>1, <2>2
<1> QED BY <1>3, <1>4, <1>5, <1>6 DEF CallsOK, t

\* The frame on top advances to another member.
LEMMA TopNext ==
    ASSUME NEW st \in Seq(FrameSet), st # <<>>, NEW x \in Key \cup {Null},
           NEW t, t = [st EXCEPT ![Len(st)].next = x]
    PROVE  /\ t \in Seq(FrameSet) /\ DOMAIN t = DOMAIN st /\ Len(st) \in DOMAIN st
           /\ \A d \in DOMAIN st : /\ t[d].op = st[d].op /\ t[d].rest = st[d].rest
                                   /\ t[d].quit = st[d].quit
                                   /\ t[d].next = IF d = Len(st) THEN x ELSE st[d].next
<1>1. Len(st) \in DOMAIN st /\ \A d \in DOMAIN st : st[d] \in FrameSet
  OBVIOUS
<1> DEFINE f == [st[Len(st)] EXCEPT !.next = x]
<1>2. f \in FrameSet /\ f.op = st[Len(st)].op /\ f.rest = st[Len(st)].rest
      /\ f.quit = st[Len(st)].quit /\ f.next = x
  BY <1>1 DEF FrameSet
<1>3. t = [st EXCEPT ![Len(st)] = f]
  OBVIOUS
<1> HIDE DEF f
<1>4. [st EXCEPT ![Len(st)] = f] \in Seq(FrameSet)
  BY <1>1, <1>2
<1> QED BY <1>1, <1>2, <1>3, <1>4

\* The calls and the registry stay in order when a reference is given up, whether
\* or not a destructor is called.
LEMMA UnrefInv ==
    ASSUME RootsInv, NEW o \in Object, NEW nm, NEW an, NEW hd, NEW stk,
           Unref(o, nm, an, hd, stk), UNCHANGED <<nextId, issued, open, dtor>>,
           NamedOK(nm), an \in Seq(AnonRecord), hd \subseteq Object,
           CallsOK(stk, nm, an, open, dtor),
           \A x \in ended : ~Referenced(x, nm, an, hd, stk)
    PROVE  RootsInv'
<1>1. named' = nm /\ anon' = an /\ inUse' = hd
  BY DEF Unref
<1>2. /\ issued' \in Seq(Nat) /\ nextId' \in 0..(IdSpace - 1) /\ HandlesBelow'
      /\ open' \in BOOLEAN /\ dtor' \in BOOLEAN /\ open' = open /\ dtor' = dtor
  BY DEF RootsInv, HandlesBelow
<1>3. CASE Referenced(o, nm, an, hd, stk) \/ o \in ended
  <2>1. stack' = stk /\ ended' = ended
    BY <1>3 DEF Unref
  <2>2. RootsKeepAlive'
    BY <1>1, <2>1 DEF RootsKeepAlive
  <2>3. CallsOK(stack', named', anon', open', dtor')
    BY <1>1, <1>2, <2>1
  <2>4. ended' \subseteq Object
    BY <2>1 DEF RootsInv
  <2> QED BY <1>1, <1>2, <2>2, <2>3, <2>4 DEF RootsInv
<1>4. CASE ~(Referenced(o, nm, an, hd, stk) \/ o \in ended)
  <2>1. stack' = Append(stk, EndFrame) /\ ended' = ended \cup {o}
    BY <1>4 DEF Unref
  <2>2. CallsOK(stack', named', anon', open', dtor')
    BY <1>1, <1>2, <2>1, PushEnd
  <2>3. \A x \in ended' : ~Referenced(x, nm, an, hd, stk)
    BY <1>4, <2>1
  <2>4. \A x : Referenced(x, nm, an, hd, stack') => Referenced(x, nm, an, hd, stk)
    <3>1. stk \in Seq(FrameSet) /\ EndFrame \in FrameSet /\ EndFrame.rest = <<>>
      BY DEF CallsOK, EndFrame, Frame, FrameSet
    <3>2. /\ DOMAIN stack' = 1..(Len(stk) + 1) /\ DOMAIN stk = 1..Len(stk) /\ Len(stk) \in Nat
          /\ \A d \in DOMAIN stk : stack'[d] = stk[d]
          /\ stack'[Len(stk) + 1].rest = <<>>
      BY <2>1, <3>1
    <3> QED BY <3>2 DEF Referenced, Contains
  <2>5. RootsKeepAlive'
    BY <1>1, <2>3, <2>4 DEF RootsKeepAlive
  <2>6. ended' \subseteq Object
    BY <2>1 DEF RootsInv
  <2> QED BY <1>1, <1>2, <2>2, <2>5, <2>6 DEF RootsInv
<1> QED BY <1>3, <1>4

\* di_remove_root: no loop was about to visit the root.
LEMMA RemoveRootInv ==
    ASSUME RootsInv, RootLiberties = {}, NEW k \in Key, RemoveRoot(k) PROVE RootsInv'
<1> DEFINE w == Without(named, k)
<1>1. /\ k \in Keys(named) /\ ~Pending(k) /\ open /\ NamedOK(named)
      /\ Unref(RootOf(k), w, anon, inUse, stack) /\ UNCHANGED <<nextId, issued, open, dtor>>
  BY DEF RemoveRoot, MayRemove, MayCall, RootsInv
<1>2. /\ NamedOK(w) /\ Keys(w) = Keys(named) \ {k}
      /\ \A j \in DOMAIN w : \E l \in DOMAIN named : w[j] = named[l]
      /\ IndexOfKey(named, k) \in DOMAIN named
  BY <1>1, WithoutFacts
<1> HIDE DEF w
<1>3. RootOf(k) \in Object
  <2>1. named[IndexOfKey(named, k)] \in RootRecord
    BY <1>1, <1>2 DEF NamedOK
  <2> QED BY <2>1 DEF RootOf, RootRecord
<1>4. CallsOK(stack, w, anon, open, dtor)
  <2>1. CallsOK(stack, named, anon, open, dtor)
    BY DEF RootsInv
  <2>2. \A d \in DOMAIN stack : Loops(stack, d) => stack[d].next # k
    BY <1>1 DEF Pending, Loops
  <2>3. OneLoop(stack, w)
    BY <1>2, <2>1, <2>2 DEF CallsOK, OneLoop
  <2> QED BY <1>1, <2>1, <2>3 DEF CallsOK, QuitLoop
<1>5. \A x \in ended : ~Referenced(x, w, anon, inUse, stack)
  BY <1>2 DEF RootsInv, RootsKeepAlive, Referenced
<1>6. anon \in Seq(AnonRecord) /\ inUse \subseteq Object
  BY DEF RootsInv
<1> QED BY <1>1, <1>2, <1>3, <1>4, <1>5, <1>6, UnrefInv

\* One iteration of a loop: it is the only one with a member left to visit, and in a
\* quit that member is the first.
LEMMA IterNextInv == ASSUME RootsInv, IterNext PROVE RootsInv'
<1> DEFINE k == Top.next
           w == Without(named, k)
           x == KeyAfter(named, k)
           t == [stack EXCEPT ![Len(stack)].next = x]
           n == Len(stack)
<1>1. /\ stack # <<>> /\ Top.op = "iter" /\ k \in Keys(named) /\ NamedOK(named)
      /\ Unref(RootOf(k), w, anon, inUse, t) /\ UNCHANGED <<nextId, issued, open, dtor>>
  BY DEF IterNext, On, RootsInv
<1>2. /\ NamedOK(w) /\ Keys(w) = Keys(named) \ {k}
      /\ \A j \in DOMAIN w : \E l \in DOMAIN named : w[j] = named[l]
      /\ IndexOfKey(named, k) \in DOMAIN named
      /\ FirstKey(named) = k => FirstKey(w) = x
      /\ x \in (Keys(named) \ {k}) \cup {Null}
  BY <1>1, WithoutFacts
<1>3. RootOf(k) \in Object
  <2>1. named[IndexOfKey(named, k)] \in RootRecord
    BY <1>1, <1>2 DEF NamedOK
  <2> QED BY <2>1 DEF RootOf, RootRecord
<1>4. CallsOK(stack, named, anon, open, dtor) /\ stack \in Seq(FrameSet)
  BY DEF RootsInv, CallsOK
<1>5. k \in Key /\ k # Null /\ x \in Key \cup {Null}
  BY <1>1, <1>2, FirstKeyFacts, RootsAssumption
<1>6. /\ t \in Seq(FrameSet) /\ DOMAIN t = DOMAIN stack /\ n \in DOMAIN stack
      /\ \A d \in DOMAIN stack : /\ t[d].op = stack[d].op /\ t[d].rest = stack[d].rest
                                 /\ t[d].quit = stack[d].quit
                                 /\ t[d].next = IF d = n THEN x ELSE stack[d].next
  BY <1>1, <1>4, <1>5, TopNext
<1>7. stack[n].op = "iter" /\ stack[n].next = k
  BY <1>1 DEF Top, Last
<1> HIDE DEF w, x, t, n, k
<1>8. Loops(stack, n) /\ \A d \in DOMAIN stack : Loops(stack, d) => d = n
  BY <1>4, <1>5, <1>6, <1>7 DEF CallsOK, OneLoop, Loops
<1>9. \A d \in DOMAIN t : Loops(t, d) => d = n
  BY <1>6, <1>8 DEF Loops
<1>10. OneLoop(t, w)
  <2>1. \A d \in DOMAIN t : Loops(t, d) => t[d].next \in Keys(w)
    BY <1>2, <1>6, <1>9 DEF Loops
  <2>2. \A d, e \in DOMAIN t : Loops(t, d) /\ t[e].op = "drop" => ~(d < e)
    BY <1>4, <1>6, <1>8, <1>9 DEF CallsOK, OneLoop
  <2> QED BY <1>9, <2>1, <2>2 DEF OneLoop
<1>11. QuitOrder(t, anon, open, dtor)
  BY <1>4, <1>6 DEF CallsOK, QuitOrder, Dropping
<1>12. QuitLoop(t, w, open)
  <2> SUFFICES ASSUME ~open
               PROVE  \E d \in DOMAIN t : t[d].op = "iter" /\ t[d].quit /\ t[d].next = FirstKey(w)
    BY DEF QuitLoop
  <2>1. named # <<>>
    BY <1>1 DEF Keys
  <2>2. PICK d \in DOMAIN stack : stack[d].op = "iter" /\ stack[d].quit
                                  /\ stack[d].next = FirstKey(named)
    BY <1>4, <2>1 DEF CallsOK, QuitLoop
  <2>3. d = n
    BY <1>1, <1>8, <2>1, <2>2, FirstKeyFacts DEF Loops
  <2>4. FirstKey(w) = x
    BY <1>2, <1>7, <2>2, <2>3
  <2> QED BY <1>6, <2>2, <2>3, <2>4
<1>13. CallsOK(t, w, anon, open, dtor)
  BY <1>6, <1>10, <1>11, <1>12 DEF CallsOK
<1>14. \A y \in ended : ~Referenced(y, w, anon, inUse, t)
  BY <1>2, <1>6 DEF RootsInv, RootsKeepAlive, Referenced
<1>15. anon \in Seq(AnonRecord) /\ inUse \subseteq Object
  BY DEF RootsInv
<1> QED BY <1>1, <1>2, <1>3, <1>13, <1>14, <1>15, UnrefInv

\* One object of di_roots_dtor.
LEMMA DropNextInv == ASSUME RootsInv, DropNext PROVE RootsInv'
<1> DEFINE r == Tail(Top.rest)
           t == [stack EXCEPT ![Len(stack)].rest = r]
           n == Len(stack)
           o == Head(Top.rest)
<1>1. /\ stack # <<>> /\ Top.op = "drop" /\ Top.rest # <<>> /\ Top = stack[n]
      /\ UNCHANGED <<nextId, issued, open, dtor>>
  BY DEF DropNext, On, Top, Last
<1>2. Unref(o, named, anon, inUse, t)
  BY DEF DropNext, Top, Last
<1>3. CallsOK(stack, named, anon, open, dtor) /\ stack \in Seq(FrameSet) /\ n \in DOMAIN stack
  BY <1>1 DEF RootsInv, CallsOK
<1>4. Top \in FrameSet
  BY <1>1, <1>3
<1>5. Top.rest \in Seq(Object)
  BY <1>4 DEF FrameSet
<1>6. o \in Object /\ r \in Seq(Object) /\ \A i \in 1..Len(r) : i + 1 \in 1..Len(Top.rest) /\ r[i] = Top.rest[i + 1]
  BY <1>1, <1>5
<1>a. r \in Seq(Object) /\ stack # <<>> /\ stack \in Seq(FrameSet)
  BY <1>1, <1>3, <1>6
<1> DEFINE f == [stack[n] EXCEPT !.rest = r]
<1>b. t = [stack EXCEPT ![n] = f]
  OBVIOUS
<1> HIDE DEF r, o, t
<1>c. f \in FrameSet /\ f.op = stack[n].op /\ f.next = stack[n].next
      /\ f.quit = stack[n].quit /\ f.rest = r
  BY <1>1, <1>4, <1>a DEF FrameSet
<1> HIDE DEF f
<1>7. /\ t \in Seq(FrameSet) /\ DOMAIN t = DOMAIN stack
      /\ \A d \in DOMAIN stack : /\ t[d].op = stack[d].op /\ t[d].next = stack[d].next
                                 /\ t[d].quit = stack[d].quit
                                 /\ t[d].rest = IF d = n THEN r ELSE stack[d].rest
  BY <1>3, <1>a, <1>b, <1>c
<1> HIDE DEF n
<1>8. OneLoop(t, named) /\ QuitOrder(t, anon, open, dtor) /\ QuitLoop(t, named, open)
  <2>1. OneLoop(t, named)
    BY <1>3, <1>7 DEF CallsOK, OneLoop, Loops
  <2>2. QuitOrder(t, anon, open, dtor)
    BY <1>3, <1>7 DEF CallsOK, QuitOrder, Dropping
  <2>3. QuitLoop(t, named, open)
    BY <1>3, <1>7 DEF CallsOK, QuitLoop
  <2> QED BY <2>1, <2>2, <2>3
<1>9. CallsOK(t, named, anon, open, dtor)
  BY <1>7, <1>8 DEF CallsOK
<1>10. \A y \in ended : ~Referenced(y, named, anon, inUse, t)
  <2>1. \A y : Contains(r, y) => Contains(Top.rest, y)
    BY <1>6 DEF Contains
  <2>2. \A y : \A d \in DOMAIN t : Contains(t[d].rest, y) => Contains(stack[d].rest, y)
    BY <1>1, <1>7, <2>1
  <2> QED BY <1>7, <2>2 DEF RootsInv, RootsKeepAlive, Referenced
<1>11. NamedOK(named) /\ anon \in Seq(AnonRecord) /\ inUse \subseteq Object
  BY DEF RootsInv
<1> QED BY <1>1, <1>2, <1>6, <1>9, <1>10, <1>11, UnrefInv

\* di_roots_dtor returns: below it no loop has a member left to visit.
LEMMA DropDoneInv == ASSUME RootsInv, DropDone PROVE RootsInv'
<1> DEFINE b == Front(stack)
           n == Len(stack)
<1>1. /\ stack # <<>> /\ stack[n].op = "drop" /\ ~open' /\ open' \in BOOLEAN
      /\ stack' = Append(b, Frame("iter", <<>>, FirstKey(named), TRUE))
      /\ UNCHANGED <<named, anon, nextId, issued, dtor, inUse, ended>>
  BY DEF DropDone, On, Top, Last
<1>2. CallsOK(stack, named, anon, open, dtor) /\ stack \in Seq(FrameSet) /\ NamedOK(named)
      /\ dtor \in BOOLEAN /\ open \in BOOLEAN
  BY DEF RootsInv, CallsOK
<1>3. n \in Nat \ {0} /\ DOMAIN stack = 1..n
  BY <1>1, <1>2
<1>4. b \in Seq(FrameSet) /\ DOMAIN b = 1..(n - 1) /\ Len(b) = n - 1 /\ \A d \in 1..(n - 1) : b[d] = stack[d]
  BY <1>2, <1>3 DEF Front
<1> HIDE DEF b, n
<1>5. \A d \in DOMAIN b : ~Loops(b, d)
  <2>1. \A d \in 1..(n - 1) : ~Loops(stack, d)
    BY <1>1, <1>2, <1>3 DEF CallsOK, OneLoop
  <2> QED BY <1>4, <2>1 DEF Loops
<1>6. OneLoop(b, named)
  BY <1>5 DEF OneLoop
<1>7. ~dtor
  BY <1>1, <1>2, <1>3 DEF CallsOK, QuitOrder, Dropping
<1>8. QuitOrder(b, anon, open', dtor)
  BY <1>1, <1>2, <1>3, <1>4, <1>7 DEF CallsOK, QuitOrder
<1>9. CallsOK(stack', named, anon, open', dtor)
  BY <1>1, <1>2, <1>4, <1>5, <1>6, <1>8, PushIter
<1>10. RootsKeepAlive'
  <2> DEFINE f == Frame("iter", <<>>, FirstKey(named), TRUE)
  <2>1. f.rest = <<>> /\ f \in FrameSet
    BY <1>2, FirstKeyFacts DEF Frame, FrameSet
  <2> HIDE DEF f
  <2>2. /\ DOMAIN stack' = 1..n /\ \A d \in 1..(n - 1) : stack'[d] = stack[d]
        /\ stack'[n].rest = <<>>
    <3>1. stack' = Append(b, f)
      BY <1>1 DEF f
    <3> QED BY <1>3, <1>4, <2>1, <3>1
  <2>3. \A d \in DOMAIN stack' : \A y : Contains(stack'[d].rest, y) => Contains(stack[d].rest, y)
    BY <1>3, <2>2 DEF Contains
  <2> QED BY <1>1, <1>3, <2>2, <2>3 DEF RootsInv, RootsKeepAlive, Referenced
<1>11. HandlesBelow'
  BY <1>1 DEF RootsInv, HandlesBelow
<1>12. CallsOK(stack', named', anon', open', dtor')
  BY <1>1, <1>9
<1> QED BY <1>1, <1>10, <1>11, <1>12 DEF RootsInv

\* A new frame with nothing to free keeps what the registry keeps alive.
LEMMA PushAlive ==
    ASSUME RootsInv, NEW f, f.rest = <<>>, stack' = Append(stack, f),
           UNCHANGED <<named, anon, inUse, ended>>
    PROVE  RootsKeepAlive'
<1>1. stack \in Seq(FrameSet)
  BY DEF RootsInv, CallsOK
<1>2. /\ DOMAIN stack' = 1..(Len(stack) + 1) /\ DOMAIN stack = 1..Len(stack) /\ Len(stack) \in Nat
      /\ \A d \in DOMAIN stack : stack'[d] = stack[d]
      /\ stack'[Len(stack) + 1].rest = <<>>
  BY <1>1
<1> QED BY <1>2 DEF RootsInv, RootsKeepAlive, Referenced, Contains

\* Without liberties a loop is begun only where no other has a member left.
LEMMA NoLoop ==
    ASSUME RootsInv, RootLiberties = {}, MayRemove(Key) PROVE \A d \in DOMAIN stack : ~Loops(stack, d)
<1> SUFFICES ASSUME NEW d \in DOMAIN stack, Loops(stack, d) PROVE FALSE
  OBVIOUS
<1>1. stack[d].next \in Key
  BY FirstKeyFacts DEF RootsInv, CallsOK, OneLoop
<1> QED BY <1>1 DEF MayRemove, Pending, Loops

\* di_clear_roots begins.
LEMMA ClearRootsInv == ASSUME RootsInv, RootLiberties = {}, ClearRoots PROVE RootsInv'
<1> DEFINE f == Frame("iter", <<>>, FirstKey(named), FALSE)
<1>1. /\ open /\ open \in BOOLEAN /\ dtor \in BOOLEAN /\ MayRemove(Key) /\ stack' = Append(stack, f)
      /\ UNCHANGED <<named, anon, nextId, issued, open, dtor, inUse, ended>>
  BY DEF ClearRoots, MayCall, RootsInv
<1>2. /\ stack \in Seq(FrameSet) /\ OneLoop(stack, named) /\ NamedOK(named)
      /\ QuitOrder(stack, anon, open, dtor)
  BY DEF RootsInv, CallsOK
<1>3. CallsOK(stack', named, anon, open, dtor)
  BY <1>1, <1>2, NoLoop, PushIter
<1>4. f.rest = <<>>
  BY DEF Frame
<1>5. RootsKeepAlive'
  BY <1>1, <1>4, PushAlive
<1>6. HandlesBelow'
  BY <1>1 DEF RootsInv, HandlesBelow
<1>7. CallsOK(stack', named', anon', open', dtor')
  BY <1>1, <1>3
<1> QED BY <1>1, <1>5, <1>6, <1>7 DEF RootsInv

\* A quit within the first one begins its loop.
LEMMA QuitAgainInv == ASSUME RootsInv, RootLiberties = {}, QuitAgain PROVE RootsInv'
<1> DEFINE f == Frame("iter", <<>>, FirstKey(named), TRUE)
<1>1. /\ ~open' /\ open' \in BOOLEAN /\ open \in BOOLEAN /\ ~dtor /\ dtor \in BOOLEAN
      /\ MayRemove(Key) /\ stack' = Append(stack, f)
      /\ UNCHANGED <<named, anon, nextId, issued, dtor, inUse, ended>>
  BY DEF QuitAgain, RootsInv
<1>2. /\ stack \in Seq(FrameSet) /\ OneLoop(stack, named) /\ NamedOK(named)
      /\ QuitOrder(stack, anon, open, dtor)
  BY DEF RootsInv, CallsOK
<1>3. QuitOrder(stack, anon, open', dtor)
  BY <1>1, <1>2 DEF QuitOrder
<1>4. CallsOK(stack', named, anon, open', dtor)
  BY <1>1, <1>2, <1>3, NoLoop, PushIter
<1>5. f.rest = <<>>
  BY DEF Frame
<1>6. RootsKeepAlive'
  BY <1>1, <1>5, PushAlive
<1>7. HandlesBelow'
  BY <1>1 DEF RootsInv, HandlesBelow
<1>8. CallsOK(stack', named', anon', open', dtor')
  BY <1>1, <1>4
<1> QED BY <1>1, <1>6, <1>7, <1>8 DEF RootsInv

\* The first quit: the objects of the anonymous roots go from the table to
\* objects_to_free, which keeps them alive.
LEMMA QuitInv == ASSUME RootsInv, RootLiberties = {}, Quit PROVE RootsInv'
<1> DEFINE f == Frame("drop", AnonObjects, Null, TRUE)
           n == Len(stack)
<1>1. /\ ~dtor' /\ dtor' \in BOOLEAN /\ dtor /\ open /\ open \in BOOLEAN
      /\ MayRemove(Key) /\ stack' = Append(stack, f) /\ anon' = <<>>
      /\ UNCHANGED <<named, nextId, issued, open, inUse, ended>>
  BY DEF Quit, MayCall, RootsInv
<1>2. /\ stack \in Seq(FrameSet) /\ OneLoop(stack, named) /\ NamedOK(named)
      /\ QuitOrder(stack, anon, open, dtor) /\ anon \in Seq(AnonRecord)
  BY DEF RootsInv, CallsOK
<1>3. \A i \in DOMAIN anon : anon[i] \in AnonRecord
  BY <1>2
<1>4. AnonObjects \in Seq(Object) /\ Len(AnonObjects) = Len(anon)
      /\ \A i \in DOMAIN anon : AnonObjects[i] = anon[i].obj
  <2>1. \A i \in DOMAIN anon : anon[i].obj \in Object
    BY <1>3 DEF AnonRecord
  <2>2. DOMAIN anon = 1..Len(anon) /\ Len(anon) \in Nat
    BY <1>2
  <2> QED BY <2>1, <2>2 DEF AnonObjects
<1>5. f \in FrameSet /\ f.op = "drop" /\ f.rest = AnonObjects /\ f.quit /\ f.next = Null
  BY <1>4 DEF Frame, FrameSet
<1> HIDE DEF f
<1>6. /\ stack' \in Seq(FrameSet) /\ DOMAIN stack' = 1..(n + 1) /\ DOMAIN stack = 1..n /\ n \in Nat
      /\ \A d \in DOMAIN stack : stack'[d] = stack[d]
      /\ stack'[n + 1] = f
  BY <1>1, <1>2, <1>5
<1> HIDE DEF n
<1>7. \A d \in DOMAIN stack' : ~Loops(stack', d)
  <2>1. \A d \in DOMAIN stack : ~Loops(stack, d)
    BY <1>1, NoLoop
  <2> QED BY <1>5, <1>6, <2>1 DEF Loops
<1>8. OneLoop(stack', named')
  BY <1>7 DEF OneLoop
<1>9. QuitOrder(stack', anon', open', dtor')
  BY <1>1, <1>2, <1>5, <1>6 DEF QuitOrder, Dropping
<1>10. CallsOK(stack', named', anon', open', dtor')
  BY <1>1, <1>6, <1>8, <1>9 DEF CallsOK, QuitLoop
<1>11. RootsKeepAlive'
  <2>1. \A y : Contains(AnonObjects, y) => \E i \in DOMAIN anon : anon[i].obj = y
    BY <1>2, <1>4 DEF Contains
  <2>2. \A y : Referenced(y, named, <<>>, inUse, stack') => Referenced(y, named, anon, inUse, stack)
    <3> SUFFICES ASSUME NEW y, Referenced(y, named, <<>>, inUse, stack')
                 PROVE  Referenced(y, named, anon, inUse, stack)
      OBVIOUS
    <3>1. CASE \E d \in DOMAIN stack' : Contains(stack'[d].rest, y)
      <4>1. PICK d \in DOMAIN stack' : Contains(stack'[d].rest, y)
        BY <3>1
      <4>2. CASE d = n + 1
        BY <1>5, <1>6, <2>1, <4>1, <4>2 DEF Referenced
      <4>3. CASE d # n + 1
        <5>1. d \in DOMAIN stack /\ Contains(stack[d].rest, y)
          BY <1>6, <4>1, <4>3
        <5> QED BY <5>1 DEF Referenced
      <4> QED BY <4>2, <4>3
    <3>2. CASE ~\E d \in DOMAIN stack' : Contains(stack'[d].rest, y)
      BY <3>2 DEF Referenced
    <3> QED BY <3>1, <3>2
  <2> QED BY <1>1, <2>2 DEF RootsInv, RootsKeepAlive
<1>12. HandlesBelow'
  BY <1>1 DEF RootsInv, HandlesBelow
<1>13. anon' \in Seq(AnonRecord)
  BY <1>1
<1> QED BY <1>1, <1>10, <1>11, <1>12, <1>13 DEF RootsInv

\* A method is called: the registry is open, and without liberties nothing is added
\* while the registry is destroyed, so that the dtor is still to be called.
LEMMA AddAllowed ==
    ASSUME RootsInv, RootLiberties = {}, MayCall, MayAdd PROVE open /\ dtor /\ ~Dropping(stack)
  BY DEF RootsInv, CallsOK, QuitOrder, MayCall, MayAdd, Dropping

\* di_add_root.
LEMMA AddRootInv ==
    ASSUME RootsInv, RootLiberties = {}, NEW k \in Key, NEW o \in Object, AddRoot(k, o)
    PROVE  RootsInv'
<1> DEFINE f == [key |-> k, obj |-> o]
           n == Len(named)
<1>1. /\ open /\ o \in inUse /\ k \notin Keys(named) /\ named' = Append(named, f)
      /\ UNCHANGED <<anon, nextId, issued, open, dtor, inUse, ended, stack>>
  BY DEF AddRoot, MayCall
<1>2. f \in RootRecord /\ f.key = k /\ f.obj = o
  BY DEF RootRecord
<1>3. named \in Seq(RootRecord) /\ OneRootForKey(named)
  BY DEF RootsInv, NamedOK
<1> HIDE DEF f
<1>4. /\ named' \in Seq(RootRecord) /\ DOMAIN named' = 1..(n + 1) /\ DOMAIN named = 1..n /\ n \in Nat
      /\ \A i \in DOMAIN named : named'[i] = named[i]
      /\ named'[n + 1] = f
  BY <1>1, <1>2, <1>3
<1> HIDE DEF n
<1>5. \A i \in DOMAIN named : named[i].key # k
  BY <1>1 DEF Keys
<1>6. OneRootForKey(named')
  BY <1>2, <1>3, <1>4, <1>5 DEF OneRootForKey
<1>7. Keys(named) \subseteq Keys(named')
  BY <1>4 DEF Keys
<1>8. CallsOK(stack', named', anon', open', dtor')
  BY <1>1, <1>7 DEF RootsInv, CallsOK, OneLoop, QuitLoop
<1>9. RootsKeepAlive'
  <2>1. \A y : Referenced(y, named', anon', inUse', stack') => Referenced(y, named, anon, inUse, stack) \/ y = o
    BY <1>1, <1>2, <1>4 DEF Referenced
  <2>2. o \notin ended
    BY <1>1 DEF RootsInv, RootsKeepAlive, Referenced
  <2> QED BY <1>1, <2>1, <2>2 DEF RootsInv, RootsKeepAlive
<1>10. HandlesBelow'
  BY <1>1 DEF RootsInv, HandlesBelow
<1> QED BY <1>1, <1>4, <1>6, <1>8, <1>9, <1>10 DEF RootsInv, NamedOK

\* di_add_anonymous_root: the handle is new, and the last one makes the counter 0.
LEMMA AddAnonymousRootInv ==
    ASSUME RootsInv, RootLiberties = {}, NEW o \in Object, AddAnonymousRoot(o)
    PROVE  RootsInv'
<1> DEFINE f == [id |-> nextId, obj |-> o]
           n == Len(anon)
<1>1. /\ o \in inUse /\ nextId # 0 /\ anon' = Append(anon, f)
      /\ issued' = Append(issued, nextId) /\ nextId' = (nextId + 1) % IdSpace
      /\ UNCHANGED <<named, open, dtor, inUse, ended, stack>>
  BY DEF AddAnonymousRoot
<1>2. open /\ dtor
  BY AddAllowed DEF AddAnonymousRoot
<1>3. /\ anon \in Seq(AnonRecord) /\ issued \in Seq(Nat) /\ nextId \in 1..(IdSpace - 1)
      /\ IdSpace \in Nat \ {0, 1}
  BY <1>1, RootsAssumption DEF RootsInv
<1>4. f \in AnonRecord /\ f.obj = o
  BY <1>3 DEF AnonRecord
<1> HIDE DEF f
<1>5. /\ anon' \in Seq(AnonRecord) /\ DOMAIN anon' = 1..(n + 1) /\ DOMAIN anon = 1..n /\ n \in Nat
      /\ \A i \in DOMAIN anon : anon'[i] = anon[i]
      /\ anon'[n + 1] = f
  BY <1>1, <1>3, <1>4
<1> HIDE DEF n
<1>6. nextId' = IF nextId = IdSpace - 1 THEN 0 ELSE nextId + 1
  <2>1. CASE nextId = IdSpace - 1
    <3>1. IdSpace % IdSpace = 0
      BY <1>3
    <3> QED BY <1>1, <1>3, <2>1, <3>1
  <2>2. CASE nextId # IdSpace - 1
    <3>1. nextId + 1 \in 0..(IdSpace - 1)
      BY <1>3, <2>2
    <3>2. (nextId + 1) % IdSpace = nextId + 1
      BY <1>3, <3>1
    <3> QED BY <1>1, <2>2, <3>2
  <2> QED BY <2>1, <2>2
<1>7. nextId' \in 0..(IdSpace - 1) /\ (nextId' # 0 => nextId' = nextId + 1)
  BY <1>3, <1>6
<1>8. HandlesBelow'
  <2> DEFINE m == Len(issued)
  <2>1. /\ DOMAIN issued' = 1..(m + 1) /\ DOMAIN issued = 1..m /\ m \in Nat
        /\ \A i \in DOMAIN issued : issued'[i] = issued[i] /\ issued[i] \in Nat
        /\ issued'[m + 1] = nextId
    BY <1>1, <1>3
  <2> HIDE DEF m
  <2>2. \A i \in DOMAIN issued : issued[i] > 0 /\ issued[i] < nextId
    BY <1>1 DEF RootsInv, HandlesBelow
  <2>3. \A i, j \in DOMAIN issued : issued[i] = issued[j] => i = j
    BY DEF RootsInv, HandlesBelow
  <2>4. \A i \in DOMAIN issued' : issued'[i] > 0 /\ (nextId' # 0 => issued'[i] < nextId')
    BY <1>3, <1>7, <2>1, <2>2
  <2>5. \A i, j \in DOMAIN issued' : issued'[i] = issued'[j] => i = j
    BY <1>3, <2>1, <2>2, <2>3
  <2> QED BY <2>4, <2>5 DEF HandlesBelow
<1>9. CallsOK(stack', named', anon', open', dtor')
  BY <1>1, <1>2 DEF RootsInv, CallsOK, QuitOrder
<1>10. RootsKeepAlive'
  <2>1. \A y : Referenced(y, named', anon', inUse', stack') => Referenced(y, named, anon, inUse, stack) \/ y = o
    BY <1>1, <1>4, <1>5 DEF Referenced
  <2>2. o \notin ended
    BY <1>1 DEF RootsInv, RootsKeepAlive, Referenced
  <2> QED BY <1>1, <2>1, <2>2 DEF RootsInv, RootsKeepAlive
<1>11. issued' \in Seq(Nat)
  BY <1>1, <1>3
<1> QED BY <1>1, <1>5, <1>7, <1>8, <1>9, <1>10, <1>11 DEF RootsInv

\* di_remove_anonymous_root.
LEMMA RemoveAnonymousRootInv ==
    ASSUME RootsInv, NEW i \in 1..IdSpace, RemoveAnonymousRoot(i) PROVE RootsInv'
<1> DEFINE a == RemoveAt(anon, i)
<1>1. /\ i \in DOMAIN anon /\ open /\ anon \in Seq(AnonRecord)
      /\ Unref(anon[i].obj, named, a, inUse, stack) /\ UNCHANGED <<nextId, issued, open, dtor>>
  BY DEF RemoveAnonymousRoot, MayCall, RootsInv
<1>2. /\ a \in Seq(AnonRecord) /\ Len(a) = Len(anon) - 1
      /\ \A j \in 1..(Len(anon) - 1) : a[j] = IF j < i THEN anon[j] ELSE anon[j + 1]
  BY <1>1, RemoveAtFacts
<1> HIDE DEF a
<1>3. \A j \in DOMAIN a : \E l \in DOMAIN anon : a[j] = anon[l]
  <2> SUFFICES ASSUME NEW j \in DOMAIN a PROVE \E l \in DOMAIN anon : a[j] = anon[l]
    OBVIOUS
  <2>1. j \in 1..(Len(anon) - 1) /\ DOMAIN anon = 1..Len(anon) /\ Len(anon) \in Nat
    BY <1>1, <1>2
  <2>2. j \in DOMAIN anon /\ j + 1 \in DOMAIN anon
    BY <2>1
  <2> QED BY <1>2, <2>1, <2>2
<1>4. anon[i].obj \in Object
  <2>1. anon[i] \in AnonRecord
    BY <1>1
  <2> QED BY <2>1 DEF AnonRecord
<1>5. anon # <<>>
  BY <1>1
<1>6. CallsOK(stack, named, a, open, dtor)
  BY <1>5 DEF RootsInv, CallsOK, QuitOrder
<1>7. \A x \in ended : ~Referenced(x, named, a, inUse, stack)
  BY <1>3 DEF RootsInv, RootsKeepAlive, Referenced
<1>8. NamedOK(named) /\ inUse \subseteq Object
  BY DEF RootsInv
<1> QED BY <1>1, <1>2, <1>4, <1>6, <1>7, <1>8, UnrefInv

\* A loop or a destructor returns.
LEMMA ReturnInv == ASSUME RootsInv, IterDone \/ EndReturns PROVE RootsInv'
<1>1. /\ stack # <<>> /\ stack' = Front(stack)
      /\ Last(stack).op = "end" \/ (Last(stack).op = "iter" /\ Last(stack).next = Null)
      /\ UNCHANGED <<named, anon, nextId, issued, open, dtor, inUse, ended>>
  BY DEF IterDone, EndReturns, On, Top
<1>2. CallsOK(stack, named, anon, open, dtor) /\ stack \in Seq(FrameSet) /\ NamedOK(named)
  BY DEF RootsInv, CallsOK
<1>3. CallsOK(stack', named', anon', open', dtor')
  BY <1>1, <1>2, PopDone
<1>4. RootsKeepAlive'
  <2> DEFINE n == Len(stack)
  <2>1. n \in Nat \ {0} /\ DOMAIN stack = 1..n
    BY <1>1, <1>2
  <2>2. DOMAIN stack' = 1..(n - 1) /\ \A d \in 1..(n - 1) : stack'[d] = stack[d]
    BY <1>1, <1>2, <2>1 DEF Front
  <2> HIDE DEF n
  <2> QED BY <1>1, <2>1, <2>2 DEF RootsInv, RootsKeepAlive, Referenced
<1>5. HandlesBelow'
  BY <1>1 DEF RootsInv, HandlesBelow
<1> QED BY <1>1, <1>3, <1>4, <1>5 DEF RootsInv

\* User code drops a reference, or takes one.
LEMMA UserInv == ASSUME RootsInv, NEW o \in Object, ReleaseObject(o) \/ Take(o) PROVE RootsInv'
<1>1. CASE ReleaseObject(o)
  <2>1. /\ Unref(o, named, anon, inUse \ {o}, stack) /\ UNCHANGED <<nextId, issued, open, dtor>>
    BY <1>1 DEF ReleaseObject
  <2>2. /\ NamedOK(named) /\ anon \in Seq(AnonRecord) /\ inUse \ {o} \subseteq Object
        /\ CallsOK(stack, named, anon, open, dtor)
    BY DEF RootsInv
  <2>3. \A x \in ended : ~Referenced(x, named, anon, inUse \ {o}, stack)
    BY DEF RootsInv, RootsKeepAlive, Referenced
  <2> QED BY <2>1, <2>2, <2>3, UnrefInv
<1>2. CASE Take(o)
  <2>1. /\ o \notin ended /\ inUse' = inUse \cup {o}
        /\ UNCHANGED <<named, anon, nextId, issued, open, dtor, ended, stack>>
    BY <1>2 DEF Take
  <2>2. RootsKeepAlive'
    BY <2>1 DEF RootsInv, RootsKeepAlive, Referenced
  <2>3. HandlesBelow' /\ CallsOK(stack', named', anon', open', dtor')
    BY <2>1 DEF RootsInv, HandlesBelow
  <2> QED BY <2>1, <2>2, <2>3 DEF RootsInv
<1> QED BY <1>1, <1>2

\* Every step keeps the invariant, under the discipline of the destructors.
LEMMA RootsNextInv == ASSUME RootsInv, RootLiberties = {}, [RootsNext]_rootVars PROVE RootsInv'
<1>1. CASE UNCHANGED rootVars
  <2>1. UNCHANGED <<named, anon, nextId, issued, open, dtor, inUse, ended, stack>>
    BY <1>1 DEF rootVars
  <2>2. RootsKeepAlive' /\ HandlesBelow' /\ CallsOK(stack', named', anon', open', dtor')
    BY <2>1 DEF RootsInv, RootsKeepAlive, HandlesBelow
  <2> QED BY <2>1, <2>2 DEF RootsInv
<1>2. CASE RootsNext
  BY <1>2, AddRootInv, RemoveRootInv, ClearRootsInv, AddAnonymousRootInv, RemoveAnonymousRootInv,
     QuitInv, QuitAgainInv, DropNextInv, DropDoneInv, IterNextInv, ReturnInv, UserInv
  DEF RootsNext, FrameStep
<1> QED BY <1>1, <1>2

\* The invariant says what RegistrySound says.
LEMMA RootsInvSound == RootsInv => RegistrySound
<1> SUFFICES ASSUME RootsInv PROVE RegistrySound
  OBVIOUS
<1>1. /\ named \in Seq(RootRecord) /\ OneRootForKey(named) /\ anon \in Seq(AnonRecord)
      /\ stack \in Seq(FrameSet)
  BY DEF RootsInv, NamedOK, CallsOK
<1>2. /\ \A i \in DOMAIN named : named[i] \in RootRecord
      /\ \A i \in DOMAIN anon : anon[i] \in AnonRecord
      /\ \A d \in DOMAIN stack : stack[d] \in FrameSet
  BY <1>1
<1>3. RootsTypeOK
  <2>1. \A i \in DOMAIN named : named[i].key \in Key /\ named[i].obj \in Object
    BY <1>2 DEF RootRecord
  <2>2. \A i \in DOMAIN anon : anon[i].id \in 0..(IdSpace - 1) /\ anon[i].obj \in Object
    BY <1>2 DEF AnonRecord
  <2>3. \A d \in DOMAIN stack : stack[d].op \in {"end", "drop", "iter"}
    BY <1>2 DEF FrameSet
  <2>4. /\ nextId \in 0..(IdSpace - 1) /\ {open, dtor} \subseteq BOOLEAN
        /\ inUse \subseteq Object /\ ended \subseteq Object
    BY DEF RootsInv
  <2> QED BY <1>1, <2>1, <2>2, <2>3, <2>4 DEF RootsTypeOK, OneRootForKey
<1>4. HandlesUnique
  BY DEF RootsInv, HandlesBelow, HandlesUnique, IsInjective
<1>5. IterValid
  BY DEF RootsInv, CallsOK, OneLoop, Loops, IterValid
<1>6. RootsDropped
  <2> SUFFICES ASSUME ~dtor, ~Quitting PROVE named = <<>> /\ anon = <<>>
    BY DEF RootsDropped
  <2>1. \A d \in DOMAIN stack : ~stack[d].quit
    BY DEF Quitting
  <2>2. ~Dropping(stack)
    BY <2>1 DEF RootsInv, CallsOK, QuitOrder, Dropping
  <2>3. ~open /\ anon = <<>>
    BY <2>2 DEF RootsInv, CallsOK, QuitOrder
  <2> QED BY <2>1, <2>3 DEF RootsInv, CallsOK, QuitLoop
<1>7. RootsKeepAlive
  BY DEF RootsInv
<1> QED BY <1>3, <1>4, <1>5, <1>6, <1>7 DEF RegistrySound

\* For any objects, keys, depth of calls and width of the counter: where destructors
\* neither remove the root a loop visits next nor add roots to a registry that is being
\* destroyed, roots keep their objects alive, handles are positive and never given
\* twice, loops visit members that are there, and after the first quit nothing is left.
THEOREM RegistryAlwaysSound == RootLiberties = {} => (RootsSpec => []RegistrySound)
<1> SUFFICES ASSUME RootLiberties = {} PROVE RootsSpec => []RegistrySound
  OBVIOUS
<1>1. RootsInv /\ [RootsNext]_rootVars => RootsInv'
  BY RootsNextInv
<1> QED BY RootsInitInv, <1>1, RootsInvSound, PTL DEF RootsSpec

-----------------------------------------------------------------------------
(* LeakCheck *)

\* The calls of the search.
CallSet == [node : Node, todo : SUBSET Node]

LeakTypeOK ==
    /\ edge \in [Node -> SUBSET Node] /\ anonRoots \subseteq Node
    /\ mark \in [Node -> {0, 1, 2}] /\ dfs \in Seq(CallSet) /\ todo \subseteq anonRoots
    /\ cycle \in BOOLEAN /\ leak \in {"none", "leak", "clean"}
    /\ leak # "none" => dfs = <<>> /\ todo = {}

\* The objects that a call is visiting have the mark 1, and one call each.
OnStack ==
    /\ \A n \in Node : mark[n] = 1 => \E i \in 2..Len(dfs) : dfs[i].node = n
    /\ \A i \in 2..Len(dfs) : /\ mark[dfs[i].node] = 1
                              /\ \A j \in 2..Len(dfs) : dfs[i].node = dfs[j].node => i = j

\* A call goes through the members of its object, and its caller did so before.
PathOK ==
    \A i \in 2..Len(dfs) :
        /\ dfs[i].todo \subseteq edge[dfs[i].node]
        /\ \A j \in (i + 1)..Len(dfs) : Refers(edge, dfs[i].node, dfs[j].node)

InReach(g, R, n) == ReachedFrom(g, R \cup {Registry}, n)

\* What was seen or is to be visited can be reached.
SeenReached ==
    /\ \A n \in Node : mark[n] # 0 => InReach(edge, anonRoots, n)
    /\ \A i \in 1..Len(dfs) : \A n \in dfs[i].todo : InReach(edge, anonRoots, n)

\* No member and no root is left out.
NoneMissed ==
    /\ \A i \in 2..Len(dfs) : \A b \in edge[dfs[i].node] : b \in dfs[i].todo \/ mark[b] # 0
    /\ \A r \in anonRoots \cup {Registry} :
           mark[r] # 0 \/ r \in todo \/ (dfs # <<>> /\ r \in dfs[1].todo)

\* As long as no cycle was met, what is done refers to what was done before it.
Before(g, m, a, D) == Closed(g, D) /\ g[a] \subseteq D /\ a \notin D /\ \A n \in D : m[n] = 2
DoneInOrder ==
    /\ \A a \in Node : mark[a] = 2 => \E D \in SUBSET Node : Before(edge, mark, a, D)
    /\ \A i \in 2..Len(dfs) : \A b \in edge[dfs[i].node] :
           b \in dfs[i].todo \/ mark[b] = 2 \/ (i < Len(dfs) /\ b = dfs[i + 1].node)

\* A cycle that was reported is one.
CycleReal == cycle => \E n \in Node : InReach(edge, anonRoots, n) /\ Refers(edge, n, n)
CycleNone == ~cycle => DoneInOrder

\* The result tells whether there is an object that was not seen.
ResultOK == leak # "none" => (leak = "leak" <=> \E n \in Node : mark[n] = 0)

LeakInv ==
    /\ LeakTypeOK /\ OnStack /\ PathOK /\ SeenReached /\ NoneMissed
    /\ CycleReal /\ CycleNone /\ ResultOK /\ NothingBehind

\* A member of an object is referred to.
LEMMA RefersOne ==
    ASSUME NEW g \in [Node -> SUBSET Node], NEW a \in Node, NEW b \in g[a]
    PROVE  Refers(g, a, b)
BY DEF Refers

\* A member of what is referred to is.
LEMMA RefersMore ==
    ASSUME NEW g \in [Node -> SUBSET Node], NEW a \in Node, NEW b \in Node, Refers(g, a, b), NEW c \in g[b]
    PROVE  Refers(g, a, c)
BY DEF Refers, Closed

\* A member of what can be reached can be reached.
LEMMA ReachMore ==
    ASSUME NEW g \in [Node -> SUBSET Node], NEW R, NEW b \in Node, InReach(g, R, b), NEW c \in g[b]
    PROVE  InReach(g, R, c)
BY DEF InReach, ReachedFrom, Closed

\* The running calls have their types.
LEMMA CallTypes ==
    ASSUME LeakTypeOK
    PROVE  /\ Len(dfs) \in Nat
           /\ \A i \in 1..Len(dfs) : dfs[i].node \in Node /\ dfs[i].todo \in SUBSET Node
           /\ \A n \in Node : mark[n] \in {0, 1, 2} /\ edge[n] \in SUBSET Node
           /\ dfs # <<>> <=> Len(dfs) >= 1
<1>1. \A i \in 1..Len(dfs) : dfs[i] \in CallSet
  BY DEF LeakTypeOK
<1>2. \A i \in 1..Len(dfs) : dfs[i].node \in Node /\ dfs[i].todo \in SUBSET Node
  BY <1>1 DEF CallSet
<1>3. Len(dfs) \in Nat /\ (dfs # <<>> <=> Len(dfs) >= 1)
  BY DEF LeakTypeOK
<1>4. \A n \in Node : mark[n] \in {0, 1, 2} /\ edge[n] \in SUBSET Node
  BY DEF LeakTypeOK
<1>5. QED
  BY <1>2, <1>3, <1>4

\* The innermost call goes on after n.
LEMMA PassedFacts ==
    ASSUME LeakTypeOK, dfs # <<>>, NEW n
    PROVE  /\ Passed(n) \in Seq(CallSet) /\ Len(Passed(n)) = Len(dfs)
           /\ \A i \in 1..Len(dfs) : Passed(n)[i].node = dfs[i].node
           /\ \A i \in 1..Len(dfs) : i # Len(dfs) => Passed(n)[i].todo = dfs[i].todo
           /\ Passed(n)[Len(dfs)].todo = dfs[Len(dfs)].todo \ {n}
<1>1. dfs \in Seq(CallSet) /\ Len(dfs) \in Nat /\ Len(dfs) \in 1..Len(dfs)
  BY CallTypes DEF LeakTypeOK
<1> DEFINE c == [dfs[Len(dfs)] EXCEPT !.todo = @ \ {n}]
<1>2. dfs[Len(dfs)] \in CallSet
  BY <1>1
<1>3. c \in CallSet /\ c.node = dfs[Len(dfs)].node /\ c.todo = dfs[Len(dfs)].todo \ {n}
  BY <1>2 DEF CallSet
<1>4. Passed(n) = [dfs EXCEPT ![Len(dfs)] = c]
  BY DEF Passed
<1> HIDE DEF c
<1>5. /\ Passed(n) \in Seq(CallSet) /\ Len(Passed(n)) = Len(dfs)
      /\ Passed(n)[Len(dfs)] = c
      /\ \A i \in 1..Len(dfs) : i # Len(dfs) => Passed(n)[i] = dfs[i]
  BY <1>1, <1>3, <1>4
<1>6. QED
  BY <1>1, <1>3, <1>5

\* A call for an object that was seen before.
LEMMA VisitSeenInv ==
    ASSUME LeakInv, NEW n \in Node, VisitSeen(n)
    PROVE  LeakInv'
<1> USE DEF LeakInv
<1>1. /\ dfs # <<>> /\ n \in dfs[Len(dfs)].todo /\ mark[n] # 0 /\ dfs' = Passed(n)
      /\ edge' = edge /\ anonRoots' = anonRoots /\ mark' = mark /\ todo' = todo /\ leak' = leak
  BY DEF VisitSeen, Call
<1>2. PICK L \in Nat : L = Len(dfs) /\ L >= 1
  BY <1>1, CallTypes
<1>3. /\ dfs' \in Seq(CallSet) /\ Len(dfs') = L
      /\ \A i \in 1..L : dfs'[i].node = dfs[i].node
      /\ \A i \in 1..L : i # L => dfs'[i].todo = dfs[i].todo
      /\ dfs'[L].todo = dfs[L].todo \ {n}
  BY <1>1, <1>2, PassedFacts
<1>4. \A i \in 1..L : dfs'[i].todo \subseteq dfs[i].todo /\ dfs[i].todo \subseteq dfs'[i].todo \cup {n}
  BY <1>3
<1>5. dfs' # <<>>
  BY <1>2, <1>3
<1>6. leak = "none"
  BY <1>1 DEF LeakTypeOK
<1>7. cycle' \in BOOLEAN
  BY Zenon DEF VisitSeen
<1>8. LeakTypeOK'
  BY <1>1, <1>3, <1>6, <1>7 DEF LeakTypeOK
<1>9. OnStack'
  BY <1>1, <1>2, <1>3 DEF OnStack
<1>10. PathOK'
  BY <1>1, <1>2, <1>3, <1>4 DEF PathOK
<1>11. SeenReached'
  BY <1>1, <1>2, <1>3, <1>4 DEF SeenReached
<1>12. NoneMissed'
  BY <1>1, <1>2, <1>3, <1>4, <1>5 DEF NoneMissed
<1>13. ResultOK' /\ NothingBehind'
  BY <1>1, <1>6 DEF ResultOK, NothingBehind
<1>14. CASE mark[n] = 1
  <2>1. PICK i \in 2..L : dfs[i].node = n
    BY <1>2, <1>14 DEF OnStack
  <2>2. PICK t \in Node : t = dfs[L].node /\ n \in edge[t]
    BY <1>1, <1>2, <2>1, CallTypes DEF PathOK
  <2>4. Refers(edge, n, n)
    <3>1. CASE i = L
      BY <2>1, <2>2, <3>1, RefersOne DEF LeakTypeOK
    <3>2. CASE i # L
      <4>1. Refers(edge, n, t)
        BY <1>2, <2>1, <2>2, <3>2 DEF PathOK
      <4>2. QED
        BY <2>2, <4>1, RefersMore DEF LeakTypeOK
    <3>3. QED
      BY <3>1, <3>2
  <2>5. InReach(edge, anonRoots, n)
    BY <1>14 DEF SeenReached
  <2>6. cycle'
    BY <1>14, Zenon DEF VisitSeen
  <2>7. CycleReal' /\ CycleNone'
    BY <1>1, <2>4, <2>5, <2>6 DEF CycleReal, CycleNone
  <2>8. QED
    BY <1>8, <1>9, <1>10, <1>11, <1>12, <1>13, <2>7
<1>15. CASE mark[n] # 1
  <2>1. cycle' <=> cycle
    BY <1>15, Zenon DEF VisitSeen
  <2>2. CycleReal'
    BY <1>1, <2>1 DEF CycleReal
  <2>3. mark[n] = 2
    BY <1>1, <1>15, CallTypes
  <2>4. ASSUME DoneInOrder PROVE DoneInOrder'
    <3>1. \A a \in Node : mark'[a] = 2 => \E D \in SUBSET Node : Before(edge', mark', a, D)
      BY <1>1, <2>4 DEF DoneInOrder
    <3>2. ASSUME NEW i \in 2..L, NEW b \in edge[dfs[i].node]
          PROVE  b \in dfs'[i].todo \/ mark[b] = 2 \/ (i < L /\ b = dfs'[i + 1].node)
      <4>1. b \in dfs[i].todo \/ mark[b] = 2 \/ (i < L /\ b = dfs[i + 1].node)
        BY <1>2, <2>4 DEF DoneInOrder
      <4>2. QED
        BY <1>2, <1>3, <1>4, <2>3, <4>1
    <3>3. QED
      BY <1>1, <1>2, <1>3, <3>1, <3>2 DEF DoneInOrder
  <2>5. CycleNone'
    BY <2>1, <2>4 DEF CycleNone
  <2>6. QED
    BY <1>8, <1>9, <1>10, <1>11, <1>12, <1>13, <2>2, <2>5
<1>16. QED
  BY <1>14, <1>15

\* An object is visited for the first time.
LEMMA VisitNewInv ==
    ASSUME LeakInv, NEW n \in Node, VisitNew(n)
    PROVE  LeakInv'
<1> USE DEF LeakInv
<1> DEFINE c == [node |-> n, todo |-> edge[n]]
<1>1. /\ dfs # <<>> /\ n \in dfs[Len(dfs)].todo /\ mark[n] = 0 /\ dfs' = Append(Passed(n), c)
      /\ mark' = [mark EXCEPT ![n] = 1]
      /\ edge' = edge /\ anonRoots' = anonRoots /\ todo' = todo /\ leak' = leak /\ cycle' = cycle
  BY DEF VisitNew, Call
<1>2. PICK L \in Nat : L = Len(dfs) /\ L >= 1
  BY <1>1, CallTypes
<1>3. c \in CallSet /\ c.node = n /\ c.todo = edge[n]
  BY CallTypes DEF CallSet
<1> HIDE DEF c
<1>4. /\ dfs' \in Seq(CallSet) /\ Len(dfs') = L + 1
      /\ \A i \in 1..L : dfs'[i].node = dfs[i].node
      /\ \A i \in 1..L : i # L => dfs'[i].todo = dfs[i].todo
      /\ dfs'[L].todo = dfs[L].todo \ {n}
      /\ dfs'[L + 1].node = n /\ dfs'[L + 1].todo = edge[n]
  <2> DEFINE d == Passed(n)
  <2>1. /\ d \in Seq(CallSet) /\ Len(d) = L
        /\ \A i \in 1..L : d[i].node = dfs[i].node
        /\ \A i \in 1..L : i # L => d[i].todo = dfs[i].todo
        /\ d[L].todo = dfs[L].todo \ {n}
    BY <1>1, <1>2, PassedFacts
  <2>2. dfs' = Append(d, c)
    BY <1>1
  <2> HIDE DEF d
  <2>3. dfs' \in Seq(CallSet) /\ Len(dfs') = L + 1 /\ dfs'[L + 1] = c /\ \A i \in 1..L : dfs'[i] = d[i]
    BY <1>2, <1>3, <2>1, <2>2
  <2>4. QED
    BY <1>2, <1>3, <2>1, <2>3
<1>5. \A i \in 1..L : dfs'[i].todo \subseteq dfs[i].todo /\ dfs[i].todo \subseteq dfs'[i].todo \cup {n}
  BY <1>4
<1>6. dfs' # <<>>
  BY <1>2, <1>4
<1>7. leak = "none"
  BY <1>1 DEF LeakTypeOK
<1>8. mark' \in [Node -> {0, 1, 2}] /\ mark'[n] = 1 /\ \A x \in Node : x # n => mark'[x] = mark[x]
  BY <1>1 DEF LeakTypeOK
<1>9. LeakTypeOK'
  BY <1>1, <1>4, <1>7, <1>8 DEF LeakTypeOK
<1>10. \A i \in 1..L : dfs[i].node \in Node
  BY <1>2, CallTypes
<1>11. \A i \in 2..L : dfs[i].node # n /\ mark[dfs[i].node] = 1
  BY <1>1, <1>2 DEF OnStack
<1>12. OnStack'
  <2>1. ASSUME NEW x \in Node, mark'[x] = 1 PROVE \E i \in 2..(L + 1) : dfs'[i].node = x
    <3>1. CASE x = n
      BY <1>2, <1>4, <3>1
    <3>2. CASE x # n
      <4>1. PICK i \in 2..L : dfs[i].node = x
        BY <1>2, <1>8, <2>1, <3>2 DEF OnStack
      <4>2. i \in 2..(L + 1) /\ dfs'[i].node = x
        BY <1>2, <1>4, <4>1
      <4>3. QED
        BY <4>2
    <3>3. QED
      BY <3>1, <3>2
  <2>2. \A i \in 2..(L + 1) : mark'[dfs'[i].node] = 1
    BY <1>2, <1>4, <1>8, <1>10, <1>11
  <2>3. ASSUME NEW i \in 2..(L + 1), NEW j \in 2..(L + 1), dfs'[i].node = dfs'[j].node PROVE i = j
    <3>1. CASE i \in 2..L /\ j \in 2..L
      BY <1>2, <1>4, <2>3, <3>1 DEF OnStack
    <3>2. CASE i = L + 1 \/ j = L + 1
      BY <1>2, <1>4, <1>11, <2>3, <3>2
    <3>3. QED
      BY <3>1, <3>2
  <2>4. QED
    BY <1>4, <2>1, <2>2, <2>3 DEF OnStack
<1>13. PathOK'
  <2>1. ASSUME NEW i \in 2..(L + 1) PROVE dfs'[i].todo \subseteq edge[dfs'[i].node]
    <3>1. CASE i \in 2..L
      BY <1>2, <1>4, <1>5, <3>1 DEF PathOK
    <3>2. CASE i = L + 1
      BY <1>4, <3>2
    <3>3. QED
      BY <3>1, <3>2
  <2>2. ASSUME NEW i \in 2..(L + 1), NEW j \in (i + 1)..(L + 1)
        PROVE  Refers(edge, dfs'[i].node, dfs'[j].node)
    <3>1. CASE j # L + 1
      <4>1. i \in 2..L /\ j \in 2..L /\ j \in (i + 1)..L
        BY <3>1
      <4>2. dfs'[i].node = dfs[i].node /\ dfs'[j].node = dfs[j].node
        BY <1>4, <4>1
      <4>3. Refers(edge, dfs[i].node, dfs[j].node)
        BY <1>2, <4>1 DEF PathOK
      <4>4. QED
        BY <4>2, <4>3
    <3>2. CASE j = L + 1
      <4>1. i \in 2..L /\ L \in 2..L /\ dfs'[i].node = dfs[i].node /\ dfs'[j].node = n
        BY <1>4, <3>2
      <4>2. dfs[L].node \in Node /\ dfs[i].node \in Node /\ n \in edge[dfs[L].node]
        BY <1>1, <1>2, <1>10, <4>1 DEF PathOK
      <4>3. CASE i = L
        BY <4>1, <4>2, <4>3, RefersOne DEF LeakTypeOK
      <4>4. CASE i # L
        <5>1. Refers(edge, dfs[i].node, dfs[L].node)
          BY <1>2, <4>1, <4>4 DEF PathOK
        <5>2. QED
          BY <4>1, <4>2, <5>1, RefersMore DEF LeakTypeOK
      <4>5. QED
        BY <4>3, <4>4
    <3>3. QED
      BY <3>1, <3>2
  <2>3. QED
    BY <1>1, <1>4, <2>1, <2>2 DEF PathOK
<1>14. SeenReached'
  <2>1. InReach(edge, anonRoots, n)
    BY <1>1, <1>2 DEF SeenReached
  <2>2. \A x \in edge[n] : InReach(edge, anonRoots, x)
    BY <2>1, ReachMore DEF LeakTypeOK
  <2>3. \A x \in Node : mark'[x] # 0 => InReach(edge, anonRoots, x)
    BY <1>8, <2>1 DEF SeenReached
  <2>4. ASSUME NEW i \in 1..(L + 1), NEW x \in dfs'[i].todo PROVE InReach(edge, anonRoots, x)
    <3>1. CASE i \in 1..L
      BY <1>2, <1>5, <3>1 DEF SeenReached
    <3>2. CASE i = L + 1
      BY <1>4, <2>2, <3>2
    <3>3. QED
      BY <3>1, <3>2
  <2>5. QED
    BY <1>1, <1>4, <2>3, <2>4 DEF SeenReached
<1>15. \A x \in Node : mark[x] # 0 => mark'[x] # 0
  BY <1>8
<1>16. NoneMissed'
  <2>1. ASSUME NEW i \in 2..(L + 1), NEW b \in edge[dfs'[i].node] PROVE b \in dfs'[i].todo \/ mark'[b] # 0
    <3>1. CASE i \in 2..L
      <4>1. b \in Node
        BY <1>4, <1>10, <3>1, CallTypes
      <4>2. b \in dfs[i].todo \/ mark[b] # 0
        BY <1>2, <1>4, <3>1 DEF NoneMissed
      <4>3. QED
        BY <1>5, <1>8, <1>15, <3>1, <4>1, <4>2
    <3>2. CASE i = L + 1
      BY <1>4, <3>2
    <3>3. QED
      BY <3>1, <3>2
  <2>2. ASSUME NEW r \in anonRoots \cup {Registry} PROVE mark'[r] # 0 \/ r \in todo \/ r \in dfs'[1].todo
    <3>1. r \in Node
      BY LeakAssumption DEF LeakTypeOK
    <3>2. mark[r] # 0 \/ r \in todo \/ r \in dfs[1].todo
      BY DEF NoneMissed
    <3>3. 1 \in 1..L
      BY <1>2
    <3>4. QED
      BY <1>5, <1>8, <1>15, <3>1, <3>2, <3>3
  <2>3. QED
    BY <1>1, <1>4, <1>6, <2>1, <2>2 DEF NoneMissed
<1>17. ResultOK' /\ CycleReal'
  BY <1>1, <1>7 DEF ResultOK, CycleReal
<1>18. NothingBehind'
  BY <1>1, <1>8, <1>15, CallTypes DEF NothingBehind
<1>19. ASSUME DoneInOrder PROVE DoneInOrder'
  <2>1. ASSUME NEW a \in Node, mark'[a] = 2 PROVE \E D \in SUBSET Node : Before(edge, mark', a, D)
    <3>1. PICK D \in SUBSET Node : Before(edge, mark, a, D)
      BY <1>8, <1>19, <2>1 DEF DoneInOrder
    <3>2. Before(edge, mark', a, D)
      BY <1>1, <1>8, <3>1 DEF Before
    <3>3. QED
      BY <3>2
  <2>2. ASSUME NEW i \in 2..(L + 1), NEW b \in edge[dfs'[i].node]
        PROVE  b \in dfs'[i].todo \/ mark'[b] = 2 \/ (i < L + 1 /\ b = dfs'[i + 1].node)
    <3>1. CASE i = L + 1
      BY <1>4, <3>1
    <3>2. CASE i \in 2..L
      <4>1. b \in dfs[i].todo \/ mark[b] = 2 \/ (i < L /\ b = dfs[i + 1].node)
        BY <1>2, <1>4, <1>19, <3>2 DEF DoneInOrder
      <4>2. b \in Node
        BY <1>4, <1>10, <3>2, CallTypes
      <4>3. mark[b] = 2 => mark'[b] = 2
        BY <1>1, <1>8, <4>2
      <4>4. i < L => dfs'[i].todo = dfs[i].todo /\ dfs'[i + 1].node = dfs[i + 1].node
        BY <1>4, <3>2
      <4>5. CASE i < L
        BY <4>1, <4>3, <4>4, <4>5
      <4>6. CASE i = L
        BY <1>4, <4>1, <4>3, <4>6
      <4>7. QED
        BY <3>2, <4>5, <4>6
    <3>3. QED
      BY <3>1, <3>2
  <2>3. \A i \in 2..Len(dfs') : \A b \in edge'[dfs'[i].node] :
            b \in dfs'[i].todo \/ mark'[b] = 2 \/ (i < Len(dfs') /\ b = dfs'[i + 1].node)
    BY <1>1, <1>4, <2>2
  <2>4. \A a \in Node : mark'[a] = 2 => \E D \in SUBSET Node : Before(edge', mark', a, D)
    BY <1>1, <2>1
  <2>5. QED
    BY <2>3, <2>4 DEF DoneInOrder
<1>20. CycleNone'
  BY <1>1, <1>19 DEF CycleNone
<1>21. QED
  BY <1>9, <1>12, <1>13, <1>14, <1>16, <1>17, <1>18, <1>20

\* A call returns.
LEMMA VisitEndsInv ==
    ASSUME LeakInv, VisitEnds
    PROVE  LeakInv'
<1> USE DEF LeakInv
<1> DEFINE E == {}
<1>1. /\ dfs # <<>> /\ dfs[Len(dfs)].todo = E /\ dfs' = SubSeq(dfs, 1, Len(dfs) - 1)
      /\ mark' = (IF Len(dfs) > 1 THEN [mark EXCEPT ![dfs[Len(dfs)].node] = 2] ELSE mark)
      /\ edge' = edge /\ anonRoots' = anonRoots /\ todo' = todo /\ leak' = leak /\ cycle' = cycle
  BY DEF VisitEnds, Call
<1>2. PICK L \in Nat : L = Len(dfs) /\ L >= 1
  BY <1>1, CallTypes
<1>3. \A x : x \notin E
  OBVIOUS
<1> HIDE DEF E
<1>4. dfs' \in Seq(CallSet) /\ Len(dfs') = L - 1 /\ \A i \in 1..(L - 1) : dfs'[i] = dfs[i]
  BY <1>1, <1>2 DEF LeakTypeOK
<1>5. PICK t \in Node : t = dfs[L].node
  BY <1>2, CallTypes
<1>6. leak = "none"
  BY <1>1 DEF LeakTypeOK
<1>7. mark' \in [Node -> {0, 1, 2}] /\ \A x \in Node : mark[x] # 1 => mark'[x] = mark[x]
  <2>1. L > 1 => mark[t] = 1
    BY <1>2, <1>5 DEF OnStack
  <2>2. QED
    BY <1>1, <1>2, <1>5, <2>1 DEF LeakTypeOK
<1>8. \A x \in Node : mark[x] # 0 => mark'[x] # 0
  BY <1>1, <1>2, <1>5, <1>7 DEF LeakTypeOK
<1>9. L > 1 => mark[t] = 1 /\ mark'[t] = 2 /\ \A x \in Node : x # t => mark'[x] = mark[x]
  BY <1>1, <1>2, <1>5 DEF LeakTypeOK, OnStack
<1>10. LeakTypeOK'
  BY <1>1, <1>4, <1>6, <1>7 DEF LeakTypeOK
<1>11. \A i \in 1..(L - 1) : dfs[i].node \in Node
  BY <1>2, CallTypes
<1>12. \A i \in 2..(L - 1) : dfs[i].node # t /\ mark[dfs[i].node] = 1
  <2>1. ASSUME NEW i \in 2..(L - 1) PROVE dfs[i].node # t /\ mark[dfs[i].node] = 1
    <3>1. i \in 2..L /\ L \in 2..L /\ i # L
      BY <1>2
    <3>2. QED
      BY <1>2, <1>5, <3>1 DEF OnStack
  <2>2. QED
    BY <2>1
<1>13. OnStack'
  <2>1. ASSUME NEW x \in Node, mark'[x] = 1 PROVE \E i \in 2..(L - 1) : dfs'[i].node = x
    <3>1. mark[x] = 1
      BY <1>7, <2>1, CallTypes
    <3>2. PICK i \in 2..L : dfs[i].node = x
      BY <1>2, <3>1 DEF OnStack
    <3>3. i # L
      BY <1>5, <1>9, <2>1, <3>2
    <3>4. i \in 2..(L - 1) /\ dfs'[i].node = x
      BY <1>4, <3>2, <3>3
    <3>5. QED
      BY <3>4
  <2>2. ASSUME NEW i \in 2..(L - 1) PROVE dfs'[i].node = dfs[i].node /\ mark'[dfs[i].node] = 1
    <3>1. i \in 1..(L - 1) /\ L > 1
      BY <1>2
    <3>2. QED
      BY <1>4, <1>9, <1>11, <1>12, <3>1
  <2>3. ASSUME NEW i \in 2..(L - 1), NEW j \in 2..(L - 1), dfs'[i].node = dfs'[j].node PROVE i = j
    <3>1. i \in 2..L /\ j \in 2..L /\ dfs[i].node = dfs[j].node
      BY <1>2, <2>2, <2>3
    <3>2. QED
      BY <1>2, <3>1 DEF OnStack
  <2>4. QED
    BY <1>4, <2>1, <2>2, <2>3 DEF OnStack
<1>14. PathOK'
  <2>1. ASSUME NEW i \in 2..(L - 1)
        PROVE  /\ dfs'[i].todo \subseteq edge[dfs'[i].node]
               /\ \A j \in (i + 1)..(L - 1) : Refers(edge, dfs'[i].node, dfs'[j].node)
    <3>1. i \in 2..L /\ dfs'[i] = dfs[i] /\ \A j \in (i + 1)..(L - 1) : j \in (i + 1)..L /\ dfs'[j] = dfs[j]
      BY <1>2, <1>4
    <3>2. QED
      BY <1>2, <3>1 DEF PathOK
  <2>2. QED
    BY <1>1, <1>4, <2>1 DEF PathOK
<1>15. SeenReached'
  <2>1. \A x \in Node : mark'[x] # 0 => InReach(edge, anonRoots, x)
    BY <1>7, CallTypes DEF SeenReached
  <2>2. ASSUME NEW i \in 1..(L - 1), NEW x \in dfs'[i].todo PROVE InReach(edge, anonRoots, x)
    <3>1. i \in 1..L /\ x \in dfs[i].todo
      BY <1>2, <1>4
    <3>2. QED
      BY <1>2, <3>1 DEF SeenReached
  <2>3. QED
    BY <1>1, <1>4, <2>1, <2>2 DEF SeenReached
<1>16. NoneMissed'
  <2>1. ASSUME NEW i \in 2..(L - 1), NEW b \in edge[dfs'[i].node] PROVE b \in dfs'[i].todo \/ mark'[b] # 0
    <3>1. i \in 2..L /\ i \in 1..(L - 1) /\ dfs'[i] = dfs[i]
      BY <1>2, <1>4
    <3>2. b \in dfs[i].todo \/ mark[b] # 0
      BY <1>2, <3>1 DEF NoneMissed
    <3>3. b \in Node
      BY <1>11, <3>1, CallTypes
    <3>4. QED
      BY <1>8, <3>1, <3>2, <3>3
  <2>2. ASSUME NEW r \in anonRoots \cup {Registry}
        PROVE  mark'[r] # 0 \/ r \in todo \/ (dfs' # <<>> /\ r \in dfs'[1].todo)
    <3>1. r \in Node
      BY LeakAssumption DEF LeakTypeOK
    <3>2. mark[r] # 0 \/ r \in todo \/ r \in dfs[1].todo
      BY DEF NoneMissed
    <3>3. CASE L = 1
      BY <1>1, <1>2, <1>3, <1>8, <3>1, <3>2, <3>3
    <3>4. CASE L # 1
      <4>1. dfs' # <<>> /\ dfs'[1] = dfs[1]
        BY <1>2, <1>4, <3>4
      <4>2. QED
        BY <1>8, <3>1, <3>2, <4>1
    <3>5. QED
      BY <3>3, <3>4
  <2>3. QED
    BY <1>1, <1>4, <2>1, <2>2 DEF NoneMissed
<1>17. ResultOK' /\ CycleReal'
  BY <1>1, <1>6 DEF ResultOK, CycleReal
<1>18. NothingBehind'
  <2>1. ASSUME NEW a \in Node, mark'[a] = 2, NEW b \in edge[a] PROVE mark'[b] # 0
    <3>1. b \in Node
      BY CallTypes
    <3>2. CASE mark[a] = 2
      BY <1>8, <3>1, <3>2 DEF NothingBehind
    <3>3. CASE mark[a] # 2
      <4>1. L > 1 /\ a = t
        BY <1>1, <1>2, <1>9, <2>1, <3>3
      <4>2. b \notin dfs[L].todo /\ L \in 2..L
        BY <1>1, <1>2, <1>3, <4>1
      <4>3. mark[b] # 0
        BY <1>2, <1>5, <4>1, <4>2 DEF NoneMissed
      <4>4. QED
        BY <1>8, <3>1, <4>3
    <3>4. QED
      BY <3>2, <3>3
  <2>2. QED
    BY <1>1, <2>1 DEF NothingBehind
<1>19. ASSUME DoneInOrder PROVE DoneInOrder'
  <2>1. ASSUME NEW a \in Node, mark'[a] = 2 PROVE \E D \in SUBSET Node : Before(edge, mark', a, D)
    <3>1. CASE mark[a] = 2
      <4>1. PICK D \in SUBSET Node : Before(edge, mark, a, D)
        BY <1>19, <3>1 DEF DoneInOrder
      <4>2. Before(edge, mark', a, D)
        BY <1>7, <4>1 DEF Before
      <4>3. QED
        BY <4>2
    <3>2. CASE mark[a] # 2
      <4>1. L > 1 /\ a = t
        BY <1>1, <1>2, <1>9, <2>1, <3>2
      <4>2. DEFINE D == {x \in Node : mark[x] = 2}
      <4>3. ASSUME NEW x \in D PROVE edge[x] \subseteq D
        <5>1. PICK F \in SUBSET Node : Before(edge, mark, x, F)
          BY <1>19, <4>3 DEF DoneInOrder
        <5>2. QED
          BY <5>1 DEF Before
      <4>4. edge[a] \subseteq D
        <5>1. ASSUME NEW b \in edge[a] PROVE b \in D
          <6>1. b \notin dfs[L].todo /\ L \in 2..L /\ b \in Node
            BY <1>1, <1>2, <1>3, <4>1, CallTypes
          <6>2. mark[b] = 2
            BY <1>2, <1>5, <1>19, <4>1, <6>1 DEF DoneInOrder
          <6>3. QED
            BY <6>1, <6>2
        <5>2. QED
          BY <5>1
      <4>5. a \notin D /\ \A x \in D : mark'[x] = 2
        BY <1>7, <1>9, <3>2
      <4>6. D \in SUBSET Node
        OBVIOUS
      <4> HIDE DEF D
      <4>7. Before(edge, mark', a, D)
        BY <4>3, <4>4, <4>5 DEF Before, Closed
      <4>8. QED
        BY <4>6, <4>7
    <3>3. QED
      BY <3>1, <3>2
  <2>2. ASSUME NEW i \in 2..(L - 1), NEW b \in edge[dfs'[i].node]
        PROVE  b \in dfs'[i].todo \/ mark'[b] = 2 \/ (i < L - 1 /\ b = dfs'[i + 1].node)
    <3>1. i \in 2..L /\ i \in 1..(L - 1) /\ dfs'[i] = dfs[i] /\ i + 1 \in 1..L /\ L > 1
      BY <1>2, <1>4
    <3>2. b \in dfs[i].todo \/ mark[b] = 2 \/ b = dfs[i + 1].node
      BY <1>2, <1>19, <3>1 DEF DoneInOrder
    <3>3. b \in Node
      BY <1>11, <3>1, CallTypes
    <3>4. mark[b] = 2 => mark'[b] = 2
      BY <1>7, <3>3
    <3>5. CASE i = L - 1
      BY <1>5, <1>9, <3>1, <3>2, <3>4, <3>5
    <3>6. CASE i # L - 1
      <4>1. i < L - 1 /\ dfs'[i + 1] = dfs[i + 1]
        BY <1>2, <1>4, <3>6
      <4>2. QED
        BY <3>1, <3>2, <3>4, <4>1
    <3>7. QED
      BY <3>5, <3>6
  <2>3. \A i \in 2..Len(dfs') : \A b \in edge'[dfs'[i].node] :
            b \in dfs'[i].todo \/ mark'[b] = 2 \/ (i < Len(dfs') /\ b = dfs'[i + 1].node)
    BY <1>1, <1>4, <2>2
  <2>4. \A a \in Node : mark'[a] = 2 => \E D \in SUBSET Node : Before(edge', mark', a, D)
    BY <1>1, <2>1
  <2>5. QED
    BY <2>3, <2>4 DEF DoneInOrder
<1>20. CycleNone'
  BY <1>1, <1>19 DEF CycleNone
<1>21. QED
  BY <1>10, <1>13, <1>14, <1>15, <1>16, <1>17, <1>18, <1>20

\* The search begins with the registry.
LEMMA LeakInitInv == LeakInit => LeakInv
<1> SUFFICES ASSUME LeakInit PROVE LeakInv
  OBVIOUS
<1> DEFINE c == [node |-> Registry, todo |-> {Registry}]
<1>1. c \in CallSet /\ c.todo = {Registry}
  BY LeakAssumption DEF CallSet
<1>2. /\ edge \in [Node -> SUBSET Node] /\ anonRoots \subseteq Node /\ mark = [n \in Node |-> 0]
      /\ dfs = <<c>> /\ todo = anonRoots /\ cycle = FALSE /\ leak = "none"
  BY DEF LeakInit
<1> HIDE DEF c
<1>3. dfs \in Seq(CallSet) /\ Len(dfs) = 1 /\ dfs # <<>> /\ dfs[1] = c
  BY <1>1, <1>2
<1>4. cycle \in BOOLEAN /\ ~cycle
  BY <1>2, Zenon
<1>5. LeakTypeOK
  BY <1>2, <1>3, <1>4 DEF LeakTypeOK
<1>6. OnStack /\ PathOK /\ NothingBehind /\ ResultOK
  BY <1>2, <1>3 DEF OnStack, PathOK, NothingBehind, ResultOK
<1>7. NoneMissed
  BY <1>1, <1>2, <1>3 DEF NoneMissed
<1>8. InReach(edge, anonRoots, Registry)
  BY DEF InReach, ReachedFrom
<1>9. SeenReached
  BY <1>1, <1>2, <1>3, <1>8 DEF SeenReached
<1>10. DoneInOrder
  BY <1>2, <1>3 DEF DoneInOrder
<1>11. CycleReal /\ CycleNone
  BY <1>4, <1>10 DEF CycleReal, CycleNone
<1>12. QED
  BY <1>5, <1>6, <1>7, <1>9, <1>11 DEF LeakInv

\* The next anonymous root is visited.
LEMMA NextRootInv ==
    ASSUME LeakInv, NEW n \in Node, NextRoot(n)
    PROVE  LeakInv'
<1> USE DEF LeakInv
<1> DEFINE c == [node |-> Registry, todo |-> {n}]
<1>1. c \in CallSet /\ c.todo = {n}
  BY LeakAssumption DEF CallSet
<1>2. /\ dfs = <<>> /\ n \in todo /\ todo' = todo \ {n} /\ dfs' = <<c>>
      /\ edge' = edge /\ anonRoots' = anonRoots /\ mark' = mark /\ cycle' = cycle /\ leak' = leak
  BY DEF NextRoot
<1> HIDE DEF c
<1>3. dfs' \in Seq(CallSet) /\ Len(dfs') = 1 /\ dfs' # <<>> /\ dfs'[1] = c
  BY <1>1, <1>2
<1>4. Len(dfs) = 0
  BY <1>2
<1>5. LeakTypeOK'
  BY <1>2, <1>3 DEF LeakTypeOK
<1>6. OnStack'
  BY <1>2, <1>3, <1>4 DEF OnStack
<1>7. PathOK' /\ NothingBehind' /\ ResultOK'
  BY <1>2, <1>3 DEF PathOK, NothingBehind, ResultOK, LeakTypeOK
<1>8. NoneMissed'
  BY <1>1, <1>2, <1>3 DEF NoneMissed
<1>9. InReach(edge, anonRoots, n)
  BY <1>2 DEF InReach, ReachedFrom, LeakTypeOK
<1>10. SeenReached'
  BY <1>1, <1>2, <1>3, <1>9 DEF SeenReached
<1>11. DoneInOrder => DoneInOrder'
  <2>1. \A i \in 2..Len(dfs') : FALSE
    BY <1>3
  <2>2. QED
    BY <1>2, <2>1 DEF DoneInOrder
<1>12. CycleReal' /\ CycleNone'
  BY <1>2, <1>11 DEF CycleReal, CycleNone
<1>13. QED
  BY <1>5, <1>6, <1>7, <1>8, <1>10, <1>12

\* The result.
LEMMA SweepInv == ASSUME LeakInv, Sweep PROVE LeakInv'
<1>1. /\ dfs = <<>> /\ todo = {} /\ leak' = (IF \E n \in Node : mark[n] = 0 THEN "leak" ELSE "clean")
      /\ edge' = edge /\ anonRoots' = anonRoots /\ mark' = mark /\ cycle' = cycle /\ dfs' = dfs
      /\ todo' = todo
  BY DEF Sweep
<1>2. LeakTypeOK'
  BY <1>1 DEF LeakInv, LeakTypeOK
<1>3. ResultOK'
  BY <1>1 DEF ResultOK
<1>4. OnStack' /\ PathOK' /\ SeenReached' /\ NoneMissed' /\ NothingBehind'
  BY <1>1 DEF LeakInv, OnStack, PathOK, SeenReached, NoneMissed, NothingBehind
<1>5. DoneInOrder => DoneInOrder'
  BY <1>1 DEF DoneInOrder
<1>6. CycleReal' /\ CycleNone'
  BY <1>1, <1>5 DEF LeakInv, CycleReal, CycleNone
<1>7. QED
  BY <1>2, <1>3, <1>4, <1>6 DEF LeakInv

\* Every step keeps the invariant.
LEMMA LeakNextInv == ASSUME LeakInv, [LeakNext]_leakVars PROVE LeakInv'
<1>1. CASE UNCHANGED leakVars
  <2>1. /\ leak' = leak /\ edge' = edge /\ anonRoots' = anonRoots /\ mark' = mark /\ cycle' = cycle
        /\ dfs' = dfs /\ todo' = todo
    BY <1>1 DEF leakVars
  <2>2. LeakTypeOK' /\ ResultOK'
    BY <2>1 DEF LeakInv, LeakTypeOK, ResultOK
  <2>3. OnStack' /\ PathOK' /\ SeenReached' /\ NoneMissed' /\ NothingBehind'
    BY <2>1 DEF LeakInv, OnStack, PathOK, SeenReached, NoneMissed, NothingBehind
  <2>4. DoneInOrder => DoneInOrder'
    BY <2>1 DEF DoneInOrder
  <2>5. CycleReal' /\ CycleNone'
    BY <2>1, <2>4 DEF LeakInv, CycleReal, CycleNone
  <2>6. QED
    BY <2>2, <2>3, <2>5 DEF LeakInv
<1>2. CASE LeakNext
  BY <1>2, VisitSeenInv, VisitNewInv, NextRootInv, VisitEndsInv, SweepInv DEF LeakNext
<1>3. QED
  BY <1>1, <1>2

\* When the search has ended, what was seen is what can be reached.
LEMMA SeenAll ==
    ASSUME LeakInv, leak # "none"
    PROVE  \A n \in Node : mark[n] # 0 <=> InReach(edge, anonRoots, n)
<1>1. dfs = <<>> /\ todo = {}
  BY DEF LeakInv, LeakTypeOK
<1> DEFINE D == {n \in Node : mark[n] # 0}
<1>2. \A n \in Node : mark[n] \in {0, 2}
  <2>1. Len(dfs) = 0
    BY <1>1
  <2>2. ASSUME NEW n \in Node, mark[n] = 1 PROVE FALSE
    <3>1. PICK i \in 2..Len(dfs) : dfs[i].node = n
      BY <2>2 DEF LeakInv, OnStack
    <3>2. QED
      BY <2>1, <3>1
  <2>3. QED
    BY <2>2, CallTypes DEF LeakInv
<1>3. Closed(edge, D)
  BY <1>2, CallTypes DEF LeakInv, NothingBehind, Closed
<1>4. anonRoots \cup {Registry} \subseteq D
  BY <1>1, LeakAssumption DEF LeakInv, NoneMissed, LeakTypeOK
<1>5. ASSUME NEW n \in Node, InReach(edge, anonRoots, n) PROVE mark[n] # 0
  <2>1. D \in SUBSET Node
    OBVIOUS
  <2> HIDE DEF D
  <2>2. n \in D
    BY <1>3, <1>4, <1>5, <2>1 DEF InReach, ReachedFrom
  <2>3. QED
    BY <2>2 DEF D
<1>6. QED
  BY <1>5 DEF LeakInv, SeenReached

\* For any objects and references between them, also on cycles and with several
\* roots: di_mark_and_sweep never leaves a member of an object behind, reports a
\* leak exactly if some object cannot be reached from the registry and the
\* anonymous roots, and warns of a cycle exactly if one can be reached.
THEOREM SweepAlwaysExact == LeakSpec => []SweepExact
<1>1. LeakInit => LeakInv
  BY LeakInitInv
<1>2. LeakInv /\ [LeakNext]_leakVars => LeakInv'
  BY LeakNextInv
<1>3. LeakInv => SweepExact
  <2> SUFFICES ASSUME LeakInv PROVE SweepExact
    OBVIOUS
  <2>1. \A n \in Node : Reached(n) <=> InReach(edge, anonRoots, n)
    BY DEF Reached, InReach
  <2>2. LeakExact
    BY <2>1, SeenAll DEF LeakExact, LeakInv, ResultOK
  <2>3. ASSUME leak # "none", cycle PROVE \E n \in Node : Reached(n) /\ Refers(edge, n, n)
    BY <2>1, <2>3 DEF LeakInv, CycleReal
  <2>4. ASSUME leak # "none", ~cycle, NEW n \in Node, Reached(n), Refers(edge, n, n) PROVE FALSE
    <3>1. mark[n] = 2
      <4>1. mark[n] # 0 /\ Len(dfs) = 0
        BY <2>1, <2>4, SeenAll DEF LeakInv, LeakTypeOK
      <4>2. mark[n] # 1
        BY <4>1 DEF LeakInv, OnStack
      <4>3. QED
        BY <4>1, <4>2, CallTypes DEF LeakInv
    <3>2. PICK D \in SUBSET Node : Before(edge, mark, n, D)
      BY <2>4, <3>1 DEF LeakInv, CycleNone, DoneInOrder
    <3>3. QED
      BY <2>4, <3>2 DEF Before, Refers
  <2>5. CycleExact
    BY <2>3, <2>4 DEF CycleExact
  <2>6. QED
    BY <2>2, <2>5 DEF SweepExact, LeakInv
<1>4. QED
  BY <1>1, <1>2, <1>3, PTL DEF LeakSpec
============================================================================
