-------------------------------- MODULE Randr --------------------------------
(***************************************************************************)
(* The RandR extension of a connection (plugins/xorg/randr.c): the          *)
(* configuration timestamp kept in cts, the events that renew it, the       *)
(* objects for outputs and views, and the reading and setting of the        *)
(* configuration of a view while other clients change it.                   *)
(* Times count the changes of the server, which is external.                *)
(***************************************************************************)
EXTENDS Integers, Sequences

CONSTANTS
    Output,         \* the outputs of the screen
    X,              \* positions a script asks for
    MaxX,           \* INT16_MAX; the least position is -MaxX - 1
    Rotation,       \* rotations a script asks for
    Reflection,     \* reflections a script asks for
    MaxTime,        \* bound on the changes of the server
    MaxObjects      \* bound on the objects a script holds

ASSUME RandrAssumption ==
    /\ X \subseteq Int /\ Rotation \subseteq Int /\ Reflection \subseteq Int
    /\ MaxX \in Nat /\ MaxTime \in Nat /\ MaxObjects \in Nat

VARIABLES
    screen,     \* the server: config time, and the crtc of the view: when it
                \* changed, its place, and what the last set asked for
    rr,         \* di_xorg_randr: rc, whether dc is set, cts, selected
    events,     \* the notifications sent and not handled
    rpc,        \* "new", "idle", or the signal whose handlers run
    objects,    \* output and view objects a script holds
    setter,     \* set_view_config: phase, configuration asked for, cr
    config,     \* the last result of get_view_config, or Empty
    missed,     \* a change fell between the reading of cts and the selection
    overwrote   \* a set that succeeded changed the outputs of the view

randrVars == <<screen, rr, events, rpc, objects, setter, config, missed, overwrote>>

Empty == [x |-> 0, rotation |-> -1, reflection |-> -1]
NotSetting == [phase |-> "none", x |-> 0, bits |-> {}, time |-> 0, outputs |-> {},
               asked |-> <<0, 0, 0>>]

RandrInit ==
    /\ screen = [cts |-> 0, time |-> 0, x |-> 0, bits |-> {"rotate0"}, outputs |-> {}, asked |-> <<0, 0, 0>>]
    /\ rr = [rc |-> 0, dc |-> FALSE, cts |-> 0]
    /\ events = <<>> /\ rpc = "new" /\ objects = 0
    /\ setter = NotSetting /\ config = Empty /\ missed = FALSE /\ overwrote = FALSE

----------------------------------------------------------------------------
(* The server *)

Selected == rpc # "new" /\ rr.dc

\* Another client changes the configuration of the crtc.
OtherClient(outs) ==
    /\ screen.time < MaxTime
    /\ screen' = [screen EXCEPT !.time = @ + 1, !.outputs = outs]
    /\ events' = IF Selected THEN Append(events, [kind |-> "view-change", cts |-> screen.cts])
                 ELSE events
    /\ UNCHANGED <<rr, rpc, objects, setter, config, missed, overwrote>>

\* A monitor comes or goes: the configuration of the screen is a new one.
Hotplug(kind) ==
    /\ screen.time < MaxTime
    /\ screen' = [screen EXCEPT !.time = @ + 1, !.cts = screen.time + 1]
    /\ events' = IF Selected THEN Append(events, [kind |-> kind, cts |-> screen.time + 1])
                 ELSE events
    /\ missed' = (missed \/ (~Selected /\ rr.rc > 0))
    /\ UNCHANGED <<rr, rpc, objects, setter, config, overwrote>>

----------------------------------------------------------------------------
(* The extension object *)

\* new_randr reads the configuration time; the selection of events follows.
NewRandr ==
    /\ rpc = "new" /\ rr.rc = 0
    /\ rr' = [rc |-> 1, dc |-> TRUE, cts |-> screen.cts]
    /\ UNCHANGED <<screen, events, rpc, objects, setter, config, missed, overwrote>>

SelectInput ==
    /\ rpc = "new" /\ rr.rc > 0
    /\ rpc' = "idle"
    /\ UNCHANGED <<screen, rr, events, objects, setter, config, missed, overwrote>>

\* The connection is closed; free_randr finds no connection and does nothing.
Lost ==
    /\ rpc # "new" /\ setter.phase = "none" /\ rr.dc
    /\ rr' = [rr EXCEPT !.dc = FALSE]
    /\ events' = IF rpc = "idle" THEN <<>> ELSE <<Head(events)>>
    /\ UNCHANGED <<screen, rpc, objects, setter, config, missed, overwrote>>

\* A request with a configuration time that is not the server's is refused.
Answered == rr.dc /\ rr.cts = screen.cts

UserTurn == rpc # "new" /\ setter.phase = "none"

\* rr_outputs, get_view_outputs, get_output_view: make_object_for_output and
\* make_object_for_view take a reference; output_dtor and view_dtor drop it. The
\* script keeps the extension object itself (XorgConn is about its end). The times
\* agree: get_view_outputs would use the NULL it gets for a request that is refused.
MakeObject ==
    /\ UserTurn /\ rr.rc > 0 /\ rr.dc /\ objects < MaxObjects
    /\ rr' = [rr EXCEPT !.rc = @ + 1] /\ objects' = objects + 1
    /\ UNCHANGED <<screen, events, rpc, setter, config, missed, overwrote>>

DropObject ==
    /\ UserTurn /\ objects > 0 /\ objects' = objects - 1
    /\ rr' = [rr EXCEPT !.rc = @ - 1]
    /\ UNCHANGED <<screen, events, rpc, setter, config, missed, overwrote>>

----------------------------------------------------------------------------
(* handle_randr_event *)

\* The handlers of output-change run before cts is renewed.
Event ==
    /\ rpc = "idle" /\ setter.phase = "none" /\ rr.dc /\ events # <<>>
    /\ IF Head(events).kind = "screen-change"
       THEN rr' = [rr EXCEPT !.cts = Head(events).cts] /\ events' = Tail(events) /\ rpc' = rpc
       ELSE rr' = [rr EXCEPT !.rc = @ + 1] /\ rpc' = Head(events).kind /\ UNCHANGED events
    /\ UNCHANGED <<screen, objects, setter, config, missed, overwrote>>

HandlersReturn ==
    /\ rpc \in {"output-change", "view-change"} /\ setter.phase = "none"
    /\ rr' = [rr EXCEPT !.rc = @ - 1, !.cts = IF rpc = "output-change" THEN Head(events).cts ELSE @]
    /\ events' = Tail(events) /\ rpc' = "idle"
    /\ UNCHANGED <<screen, objects, setter, config, missed, overwrote>>

----------------------------------------------------------------------------
(* The configuration of a view *)

\* XCB_RANDR_ROTATION_*: a rotation as the server keeps it is a set of bits.
RotationBit == [r \in 0..3 |-> <<"rotate0", "rotate90", "rotate180", "rotate270">>[r + 1]]

Encode(rotation, reflection) ==
    {RotationBit[rotation]} \cup (IF reflection % 2 = 1 THEN {"reflectX"} ELSE {})
                            \cup (IF (reflection \div 2) % 2 = 1 THEN {"reflectY"} ELSE {})

Decode(c) ==
    [x |-> c.x,
     rotation |-> CHOOSE r \in 0..3 : /\ RotationBit[r] \in c.bits
                                      /\ \A s \in 0..3 : RotationBit[s] \in c.bits => r <= s,
     reflection |-> (IF "reflectX" \in c.bits THEN 1 ELSE 0)
                    + (IF "reflectY" \in c.bits THEN 2 ELSE 0)]

\* get_view_config: an empty object without a connection or when the server
\* refuses the configuration time
GetViewConfig ==
    /\ UserTurn /\ objects > 0
    /\ config' = IF Answered THEN Decode(screen) ELSE Empty
    /\ UNCHANGED <<screen, rr, events, rpc, objects, setter, missed, overwrote>>

\* set_view_config up to the first request: a position out of range and an
\* unknown rotation are ignored
SetViewConfig(x, rotation, reflection) ==
    /\ UserTurn /\ objects > 0 /\ rr.dc
    /\ x \in (-MaxX - 1)..MaxX /\ rotation \in 0..3
    /\ setter' = [NotSetting EXCEPT !.phase = "info", !.x = x,
                                      !.bits = Encode(rotation, reflection),
                                      !.asked = <<x, rotation, reflection>>]
    /\ UNCHANGED <<screen, rr, events, rpc, objects, config, missed, overwrote>>

\* Mutant: the outputs are those of the first attempt.
CrtcInfoOnce ==
    /\ setter.phase = "info"
    /\ setter' = IF ~Answered THEN NotSetting
                 ELSE [setter EXCEPT !.phase = "set", !.time = screen.time,
                                     !.outputs = IF setter.time = 0 THEN screen.outputs ELSE @]
    /\ UNCHANGED <<screen, rr, events, rpc, objects, config, missed, overwrote>>

\* Mutant: the time is that of the first attempt.
CrtcInfoStale ==
    /\ setter.phase = "info"
    /\ setter' = IF ~Answered THEN NotSetting
                 ELSE [setter EXCEPT !.phase = "set", !.time = IF @ = 0 THEN screen.time ELSE @,
                                     !.outputs = screen.outputs]
    /\ UNCHANGED <<screen, rr, events, rpc, objects, config, missed, overwrote>>

\* retry: the state of the crtc is read, its time and its outputs
CrtcInfo ==
    /\ setter.phase = "info"
    /\ setter' = IF ~Answered THEN NotSetting
                 ELSE [setter EXCEPT !.phase = "set", !.time = screen.time,
                                     !.outputs = screen.outputs]
    /\ UNCHANGED <<screen, rr, events, rpc, objects, config, missed, overwrote>>

\* The server takes the configuration if the crtc is as it was read; with
\* INVALID_TIME the setter tries again, with another failure it gives up.
SetCrtcConfig ==
    /\ setter.phase = "set"
    /\ IF ~Answered
       THEN setter' = NotSetting /\ UNCHANGED <<screen, events, overwrote>>
       ELSE IF setter.time < screen.time
       THEN setter' = [setter EXCEPT !.phase = "info"] /\ UNCHANGED <<screen, events, overwrote>>
       ELSE /\ screen' = [screen EXCEPT !.x = setter.x, !.bits = setter.bits,
                                        !.outputs = setter.outputs, !.asked = setter.asked]
            /\ overwrote' = (setter.outputs # screen.outputs)
            /\ events' = Append(events, [kind |-> "view-change", cts |-> screen.cts])
            /\ setter' = NotSetting
    /\ UNCHANGED <<rr, rpc, objects, config, missed>>

RandrNext ==
    \/ \E outs \in SUBSET Output : OtherClient(outs)
    \/ \E k \in {"screen-change", "output-change"} : Hotplug(k)
    \/ NewRandr \/ SelectInput \/ Lost \/ MakeObject \/ DropObject
    \/ Event \/ HandlersReturn \/ GetViewConfig
    \/ \E x \in X, t \in Rotation, f \in Reflection : Len(events) < MaxTime /\ SetViewConfig(x, t, f)
    \/ CrtcInfo \/ SetCrtcConfig

RandrSpec == RandrInit /\ [][RandrNext]_randrVars

RandrFairness == WF_randrVars(CrtcInfo) /\ WF_randrVars(SetCrtcConfig)
----------------------------------------------------------------------------
\* The count of the extension object is the reference of its user, one for
\* each object made for an output or a view, and one for the object of the
\* event whose handlers run (randr.c:346, 386).
RandrRefsExact ==
    rr.rc > 0 => rr.rc = 1 + objects + (IF rpc \in {"output-change", "view-change"} THEN 1 ELSE 0)

\* When every event was handled, cts is the configuration time of the server,
\* so that requests are not refused; unless a change fell into the time
\* between the reading of cts and the selection of events in new_randr.
TimeCurrent == rr.dc /\ rpc = "idle" /\ events = <<>> /\ ~missed => rr.cts = screen.cts

\* A configuration that was set is taken over by no change of another client
\* unseen: the outputs of the view are those it had (randr.c:231).
OutputsKept == ~overwrote

\* What get_view_config reports of the configuration that set_view_config put
\* in place is what was asked for, with the reflection modulo 4.
ConfigFaithful ==
    LET reported == Decode(screen) IN
    /\ reported.x = screen.asked[1] /\ reported.rotation = screen.asked[2]
    /\ reported.reflection = screen.asked[3] % 4

\* What randr.c knows of the server, and what it puts in place there, is
\* right in spite of events and other clients.
RandrSound == RandrRefsExact /\ TimeCurrent /\ OutputsKept /\ ConfigFaithful

\* set_view_config returns, however often it lost the race for the crtc.
Setting == setter.phase # "none"
SetReturns == Setting ~> ~Setting
=============================================================================
