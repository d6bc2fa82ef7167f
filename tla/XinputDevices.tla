---------------------------- MODULE XinputDevices ----------------------------
(***************************************************************************)
(* The XInput extension of a connection (plugins/xorg/xinput.c): its        *)
(* selection of events, the objects for devices and for their properties,   *)
(* and the signals of a hierarchy event, whose handlers are user code.      *)
(***************************************************************************)
EXTENDS Naturals, Sequences

CONSTANTS
    Device,         \* device ids
    MaxDevices,     \* bound on the device objects a script holds
    MaxInfos,       \* bound on the devices of a hierarchy event
    MaxEvents       \* bound on the hierarchy events of a behaviour

ASSUME XinputAssumption == {MaxDevices, MaxInfos, MaxEvents} \subseteq Nat

VARIABLES
    xi,         \* di_xorg_xinput: rc, whether dc is set, listeners of the event
    mask,       \* the mask the server has for this client
    owned,      \* the script holds the extension
    devices,    \* device objects the script holds
    props,      \* the script holds an object of properties
    infos,      \* the hierarchy event: the device and the flags of each info
    at,         \* the info that is handled
    flag,       \* the flag of it that is tested next
    signalled,  \* history: the signals emitted for the event
    hpc,        \* "none", "idle", "info", "emit" or "freed" after a use of a freed xi
    received    \* the hierarchy events received

handling == <<infos, at, flag, signalled, received>>
xinputVars == <<xi, mask, owned, devices, props, handling, hpc>>

Flags == <<"new-device", "device-enabled", "device-disabled">>
Info == [device : Device, flags : SUBSET {Flags[1], Flags[2], Flags[3]}]

XinputInit ==
    /\ xi = [rc |-> 0, dc |-> FALSE, listeners |-> 0] /\ mask = {}
    /\ owned = FALSE /\ devices = 0 /\ props = FALSE
    /\ infos = <<>> /\ at = 1 /\ flag = 1 /\ signalled = <<>>
    /\ hpc = "none" /\ received = 0

\* di_xorg_xi_start_listen_for_event
StartListen(x) == [x EXCEPT !.listeners = @ + 1]
MaskAfter(x) == IF x.listeners > 1 THEN mask ELSE mask \cup {"hierarchy"}

\* new_xinput, enable_hierarchy_event
NewXinput ==
    /\ hpc = "none"
    /\ xi' = StartListen([rc |-> 1, dc |-> TRUE, listeners |-> 0])
    /\ mask' = MaskAfter(xi')
    /\ owned' = TRUE /\ hpc' = "idle"
    /\ UNCHANGED <<devices, props, handling>>

ScriptRuns == hpc \in {"idle", "emit"}

\* di_xorg_free_xinput comes after dc was cleared, and leaves the mask alone.
UnrefXinput == xi' = [xi EXCEPT !.rc = @ - 1, !.dc = @ /\ xi.rc > 1]

DropXinput ==
    /\ ScriptRuns /\ owned
    /\ owned' = FALSE /\ UnrefXinput
    /\ UNCHANGED <<mask, devices, props, handling, hpc>>

\* di_xorg_make_object_for_devid for a device of di_xorg_get_all_devices, or
\* the object of the event kept by its handler
MakeDevice ==
    /\ ScriptRuns /\ devices < MaxDevices /\ (owned \/ hpc = "emit") /\ xi.dc
    /\ devices' = devices + 1 /\ xi' = [xi EXCEPT !.rc = @ + 1]
    /\ UNCHANGED <<mask, owned, props, handling, hpc>>

\* free_xi_device_object
DropDevice ==
    /\ ScriptRuns /\ devices > 0
    /\ devices' = devices - 1 /\ UnrefXinput
    /\ UNCHANGED <<mask, owned, props, handling, hpc>>

\* di_xorg_xinput_props: the object has the extension without a reference.
MakeProps ==
    /\ ScriptRuns /\ devices > 0 /\ props' = TRUE
    /\ UNCHANGED <<xi, mask, owned, devices, handling, hpc>>

DropProps ==
    /\ ScriptRuns /\ props /\ props' = FALSE
    /\ UNCHANGED <<xi, mask, owned, devices, handling, hpc>>

\* Any access through the object reads xi->dc.
UseProps ==
    /\ ScriptRuns /\ props /\ xi.rc = 0
    /\ hpc' = "freed"
    /\ UNCHANGED <<xi, mask, owned, devices, props, handling>>

DisconnectXinput ==
    /\ ScriptRuns /\ xi.dc
    /\ xi' = [xi EXCEPT !.dc = FALSE]
    /\ UNCHANGED <<mask, owned, devices, props, handling, hpc>>

----------------------------------------------------------------------------
(* handle_xinput_event *)

HierarchyEvent(event) ==
    /\ hpc = "idle" /\ xi.dc /\ "hierarchy" \in mask /\ received < MaxEvents
    /\ infos' = event /\ at' = 1 /\ flag' = 1 /\ signalled' = <<>>
    /\ received' = received + 1 /\ hpc' = "info"
    /\ UNCHANGED <<xi, mask, owned, devices, props>>

\* The object for the next device is made; nothing keeps xi between two devices,
\* and what follows reads it although a handler has freed it.
NextInfo ==
    /\ hpc = "info"
    /\ IF at > Len(infos) THEN hpc' = "idle" /\ UNCHANGED xi
       ELSE IF xi.rc = 0 THEN hpc' = "freed" /\ UNCHANGED xi
       ELSE hpc' = "emit" /\ xi' = [xi EXCEPT !.rc = @ + 1]
    /\ UNCHANGED <<mask, owned, devices, props, handling>>

\* The f-th flag is the next one that is set.
NextFlag(f) ==
    /\ f >= flag /\ Flags[f] \in infos[at].flags
    /\ \A g \in flag..(f - 1) : Flags[g] \notin infos[at].flags

Signal(f) == signalled' = Append(signalled, [info |-> at, device |-> infos[at].device, flag |-> f])

\* Mutant: only the first flag of a device is reported.
EmitFlagFirst(f) ==
    /\ hpc = "emit" /\ NextFlag(f)
    /\ Signal(f) /\ flag' = 4
    /\ UNCHANGED <<xi, mask, owned, devices, props, infos, at, received, hpc>>

\* The flags are tested one after the other; then the object is given up.
EmitFlag(f) ==
    /\ hpc = "emit" /\ NextFlag(f)
    /\ Signal(f) /\ flag' = f + 1
    /\ UNCHANGED <<xi, mask, owned, devices, props, infos, at, received, hpc>>

InfoEnds ==
    /\ hpc = "emit" /\ \A f \in flag..3 : Flags[f] \notin infos[at].flags
    /\ UnrefXinput /\ at' = at + 1 /\ flag' = 1 /\ hpc' = "info"
    /\ UNCHANGED <<mask, owned, devices, props, infos, signalled, received>>

HierarchyEvents == UNION {[1..n -> Info] : n \in 1..MaxInfos}

XinputNext ==
    \/ NewXinput \/ DropXinput \/ MakeDevice \/ DropDevice
    \/ MakeProps \/ DropProps \/ UseProps \/ DisconnectXinput
    \/ \E event \in HierarchyEvents : HierarchyEvent(event)
    \/ NextInfo \/ InfoEnds \/ \E f \in 1..3 : EmitFlag(f)

XinputSpec == XinputInit /\ [][XinputNext]_xinputVars
----------------------------------------------------------------------------
\* The count of the extension object is the reference of the script, one for
\* each device object and one for the object of the event (xinput.c:532).
XinputRefsExact ==
    xi.rc = (IF owned THEN 1 ELSE 0) + devices + (IF hpc = "emit" THEN 1 ELSE 0)

\* The event has flag f in its i-th info.
Reported(i, f) == i \in 1..Len(infos) /\ f \in 1..3 /\ Flags[f] \in infos[i].flags

\* The order of reports: info after info, flag after flag.
Earlier(i, f, j, g) == i < j \/ (i = j /\ f < g)

\* The report of flag f of the i-th info was emitted.
Signalled(i, f) == \E k \in 1..Len(signalled) : signalled[k].info = i /\ signalled[k].flag = f

\* The devices of a hierarchy event are reported with each of their changes, once
\* and in order, and all of them by the time the event was handled, although the
\* handlers disconnect or drop what they hold - unless xi was freed on the way: then
\* the reports stop after a device, and the extension is used after it was freed.
HierarchyFaithful ==
    /\ \A k \in 1..Len(signalled) :
          LET s == signalled[k] IN
          /\ Reported(s.info, s.flag) /\ s.device = infos[s.info].device
          /\ \A j \in 1..(k - 1) : Earlier(signalled[j].info, signalled[j].flag, s.info, s.flag)
          /\ \A i \in 1..Len(infos), f \in 1..3 :
                Reported(i, f) /\ Earlier(i, f, s.info, s.flag) => Signalled(i, f)
    /\ hpc = "idle" => \A i \in 1..Len(infos), f \in 1..3 : Reported(i, f) => Signalled(i, f)

\* This happens only to a script that has given up its reference to the extension
\* and all objects of devices, in a handler or before it uses properties
\* (xinput.c:597, 529).
FreedByScript == hpc = "freed" => ~owned /\ devices = 0

\* Device objects keep the extension, and hierarchy events are told in full, but
\* for the use of a freed extension, which is confined to scripts that keep neither
\* the extension nor a device.
DevicesFaithful == XinputRefsExact /\ HierarchyFaithful /\ FreedByScript
=============================================================================
