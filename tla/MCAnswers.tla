------------------------------ MODULE MCAnswers -----------------------------
(***************************************************************************)
(* Small instances of what must come to an end: the parts that wait for     *)
(* somebody outside of the program (a child process, a call over D-Bus, the *)
(* X server that is asked for another configuration), and the roots of the  *)
(* program, which quit takes down one after the other. A behaviour is one of*)
(* one part; the variables of the others stay as they are initially.        *)
(***************************************************************************)
EXTENDS Spawn, DBusCalls, Randr, Roots

VARIABLE part       \* the part that runs

MCInit ==
    /\ part \in {"spawn", "dbus", "randr", "roots"}
    /\ Init /\ DBusInit /\ RandrInit /\ RootsInit

SpawnStep == part = "spawn" /\ Next /\ UNCHANGED <<part, dbusVars, randrVars, rootVars>>
DbusStep == part = "dbus" /\ DBusNext /\ UNCHANGED <<part, vars, randrVars, rootVars>>
RandrStep == part = "randr" /\ RandrNext /\ UNCHANGED <<part, vars, dbusVars, rootVars>>
RootsStep == part = "roots" /\ RootsNext /\ UNCHANGED <<part, vars, dbusVars, randrVars>>

MCNext == SpawnStep \/ DbusStep \/ RandrStep \/ RootsStep

MCSpec == MCInit /\ [][MCNext]_<<part, vars, dbusVars, randrVars, rootVars>>

\* The fairness of each part asks for nothing while another one runs: none of the
\* steps it is about is enabled in the initial states.
MCFairSpec ==
    /\ MCSpec
    /\ WF_vars(Callback) /\ WF_vars(StartSigchld)
    /\ DBusFairness /\ RandrFairness /\ RootsFairness
=============================================================================
