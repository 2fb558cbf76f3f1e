------------------------------- MODULE Router -------------------------------
(***************************************************************************)
(* The MAVLink router (airlink_router.c) and its frame parser              *)
(* (airlink_mavlink.c), of one or more units.  Every function takes s_lock *)
(* for all it does, so each is one step; the send callbacks it makes under *)
(* the lock are the caller's part of that step (Passed).                   *)
(*                                                                         *)
(* A frame crosses a link in two halves, since a read of a socket or of    *)
(* the UART may end anywhere.  A frame put together from halves of         *)
(* different frames fails its CRC and is dropped, unless the header that   *)
(* ends up in it names a message the parser has no CRC for: then garbage   *)
(* is routed, by every router it comes to.  Of a half that starts with the *)
(* middle of a frame the parser skips everything, unless a byte of it      *)
(* looks like the start of a frame.                                        *)
(***************************************************************************)
EXTENDS Integers, FiniteSets, SequencesExt

CONSTANTS
    Units,
    VehicleSide,        \* endpoints of direction VEHICLE; the others are of direction GCS
    MaxEndpoints,       \* MAX_ENDPOINTS
    DedupEntries,       \* DEDUP_ENTRIES
    DedupWindow         \* DEDUP_WINDOW_US, in ticks

ASSUME RouterAssumption == {MaxEndpoints, DedupEntries, DedupWindow} \subseteq Nat \ {0}

VARIABLES
    s_endpoints,        \* of a unit: the registered endpoints, each with what its parser holds
    s_dedup,            \* of a unit: the frames remembered, oldest first, with their time
    s_fc_system_id,     \* 0 while s_fc_identity_known is false
    s_fc_armed,
    now,                \* esp_timer_get_time
    network             \* history: intact frames from network endpoints, their time and fate

router == <<s_endpoints, s_dedup, s_fc_system_id, s_fc_armed, now, network>>

RouterInit(endpoints) ==
    /\ s_endpoints = [u \in Units |-> [e \in endpoints[u] |-> <<>>]]
    /\ s_dedup = [u \in Units |-> <<>>]
    /\ s_fc_system_id = [u \in Units |-> 0]
    /\ s_fc_armed = [u \in Units |-> FALSE]
    /\ now = 0 /\ network = [u \in Units |-> <<>>]

Registered(u) == DOMAIN s_endpoints[u]

CanRegister(u, e) == e \notin Registered(u) /\ Cardinality(Registered(u)) < MaxEndpoints

\* airlink_router_register: with an empty parser.
Register(u, e) ==
    s_endpoints' = [s_endpoints EXCEPT ![u] = [d \in Registered(u) \cup {e} |->
                                                 IF d = e THEN <<>> ELSE s_endpoints[u][d]]]

\* airlink_router_unregister.
Unregister(u, e) ==
    s_endpoints' = [s_endpoints EXCEPT ![u] = [d \in Registered(u) \ {e} |-> s_endpoints[u][d]]]

-----------------------------------------------------------------------------
(* Parsing. *)

\* A frame is its number, its system and what a heartbeat in it says: of the autopilot
\* component (airlink_mavlink_heartbeat_is_autopilot), "armed" or "disarmed", or of
\* another component, "other"; "none" is any other message.
Frame(number, system, heartbeat) ==
    [number |-> number, system |-> system, heartbeat |-> heartbeat]

Garbage == Frame(0, 0, "none")

Halves(frame) == <<[frame |-> frame, part |-> "head"], [frame |-> frame, part |-> "tail"]>>

\* finish_frame: whether the CRC of what the two halves make is right.
Intact(first, second) == <<first, second>> = Halves(first.frame)

\* What the bytes of a read look like where the data is not a frame.
Looks == [magic : BOOLEAN, unknown_id : BOOLEAN]

\* airlink_mavlink_parse_byte over the bytes of one half, before a frame is complete.
StartFrame(half, look) == IF half.part = "head" \/ look.magic THEN <<half>> ELSE <<>>

-----------------------------------------------------------------------------
(* Routing. *)

\* Mutant: a ring that writes to its first entry only.
RememberOne(ring, entry) == <<entry>>

Remember(ring, entry) ==
    IF Len(ring) < DedupEntries THEN Append(ring, entry) ELSE Append(Tail(ring), entry)

\* duplicate_network_frame.
Duplicate(state, frame) ==
    \E i \in DOMAIN state.dedup : /\ state.dedup[i].frame = frame
                                  /\ now - state.dedup[i].time < DedupWindow

IsAutopilot(frame) == frame.heartbeat \in {"armed", "disarmed"}

\* Mutant: every heartbeat of the vehicle counts.
ObserveAnyComponent(state, frame) ==
    IF frame.heartbeat # "none" /\ (state.system \in {0, frame.system})
    THEN [state EXCEPT !.system = frame.system, !.armed = frame.heartbeat = "armed"] ELSE state

\* observe_vehicle_frame: the first autopilot heard is the flight controller.
Observe(state, frame) ==
    IF IsAutopilot(frame) /\ state.system \in {0, frame.system}
    THEN [state EXCEPT !.system = frame.system, !.armed = frame.heartbeat = "armed"] ELSE state

Pass(state, frame) == [state EXCEPT !.passed = Append(@, frame)]

\* A frame is complete: what airlink_router_ingest does with it.
Complete(state, e, frame) ==
    LET repeated == Duplicate(state, frame)
    IN  IF e \in VehicleSide THEN Pass(Observe(state, frame), frame)
        ELSE LET noted == [state EXCEPT !.seen = Append(@, [frame |-> frame, time |-> now,
                                                            routed |-> ~repeated])]
             IN  IF repeated THEN noted
                 ELSE Pass([noted EXCEPT !.dedup = Remember(@, [frame |-> frame, time |-> now])],
                           frame)

ParseHalf(state, e, half, look) ==
    IF state.parser = <<>> THEN [state EXCEPT !.parser = StartFrame(half, look)]
    ELSE LET first == state.parser[1]
             idle == [state EXCEPT !.parser = <<>>]
         IN  IF Intact(first, half) THEN Complete(idle, e, first.frame)
             ELSE IF look.unknown_id THEN Complete(idle, e, Garbage)
             ELSE idle

\* What airlink_router_ingest works on, for the endpoint e of unit u.
Before(u, e) ==
    [parser |-> s_endpoints[u][e], dedup |-> s_dedup[u], system |-> s_fc_system_id[u],
     armed |-> s_fc_armed[u], seen |-> network[u], passed |-> <<>>]

\* The loop of airlink_router_ingest: state[k] is reached after k halves.
Outcome(u, e, halves, look) ==
    LET state[k \in 0..Len(halves)] ==
            IF k = 0 THEN Before(u, e) ELSE ParseHalf(state[k - 1], e, halves[k], look)
    IN  state[Len(halves)]

\* The frames airlink_router_ingest hands to the send functions of the other side.
Passed(u, e, halves, look) == Outcome(u, e, halves, look).passed

\* airlink_router_ingest of a registered endpoint.
Ingest(u, e, halves, look) ==
    LET outcome == Outcome(u, e, halves, look)
    IN  /\ s_endpoints' = [s_endpoints EXCEPT ![u][e] = outcome.parser]
        /\ s_dedup' = [s_dedup EXCEPT ![u] = outcome.dedup]
        /\ s_fc_system_id' = [s_fc_system_id EXCEPT ![u] = outcome.system]
        /\ s_fc_armed' = [s_fc_armed EXCEPT ![u] = outcome.armed]
        /\ network' = [network EXCEPT ![u] = outcome.seen]
        /\ now' = now

-----------------------------------------------------------------------------
(* Properties. *)

\* De-duplication does what it is for and no more: a frame from the network is held
\* back exactly when the same frame was routed less than a window ago, unless a whole
\* ring of other frames has been routed since.
RepeatsHeldBack ==
    \A u \in Units : \A j \in DOMAIN network[u] :
        network[u][j].routed <=>
            ~ \E i \in 1..j - 1 :
                /\ network[u][i].routed /\ network[u][i].frame = network[u][j].frame
                /\ network[u][j].time - network[u][i].time < DedupWindow
                /\ Cardinality({k \in i + 1..j - 1 : network[u][k].routed}) < DedupEntries
=============================================================================
