----------------------------- MODULE Telemetry ------------------------------
(***************************************************************************)
(* Telemetry over Wi-Fi (airlink_wifi.c): the network task of the air unit *)
(* with its TCP and UDP clients, the bridge task of the ground unit, and   *)
(* the routers of both.  The tasks run beside the UART task of the air     *)
(* unit and the USB task of the ground unit, whose frames reach the queues *)
(* of the clients and of the bridge from inside the router's lock.         *)
(*                                                                         *)
(* A TCP connection is a link: it keeps what either side sent in order     *)
(* until the other has read it, while the station has Wi-Fi.  When it has  *)
(* none, neither data nor the end of the other side gets through.  A link  *)
(* is taken again when both sides have closed it.                          *)
(***************************************************************************)
EXTENDS Router

CONSTANTS
    Slots, UdpSlots,    \* the clients, 1..AIRLINK_MAX_TCP_CLIENTS and 1..AIRLINK_MAX_UDP_CLIENTS
    Links,              \* bound: connections that may exist at a time
    QueueDepth,         \* NET_PACKET_QUEUE
    Batch,              \* packets sent together: TCP_TX_BATCH_PACKETS
    Window,             \* halves that the buffers of a link hold in a direction
    Backlog,            \* of the listening socket
    MaxAttempts,        \* the exponent at which the delay of a reconnection stops to grow
    Environments        \* bounds and choices of what the surroundings do, see Init

ASSUME TelemetryAssumption ==
    /\ {QueueDepth, Batch, Window, Backlog, MaxAttempts} \subseteq Nat \ {0}
    /\ Slots \cup UdpSlots \cup Links \subseteq Nat \ {0}
    /\ Units = {"air", "ground"}

VARIABLES
    client,         \* s_tcp of the air unit
    udp,            \* s_udp
    udp_clients,    \* s_status.udp_clients
    task,           \* where the network task is
    backlog,        \* links that wait for accept
    link,
    bridge,         \* of the ground unit: s_bridge_socket, s_bridge_tx_queue, bridge_task
    sta,            \* the ground unit as a station
    attempts,       \* s_reconnect_attempts
    environment, fc, gcs, faults,   \* what was chosen, sent and done so far; fc has the last frame
    delivered       \* history: of a unit, the frames routed to its UART or USB

air == <<client, udp, udp_clients, task>>
ground == <<bridge, sta, attempts>>
outside == <<environment, fc, gcs, faults>>
vars == <<router, air, backlog, link, ground, outside, delivered>>

Uart == <<"uart", 0>>
Tcp(i) == <<"tcp", i>>
Udp(i) == <<"udp", i>>
UdpBroadcast == <<"udp", 0>>
Bridge == <<"bridge", 0>>
Usb == <<"usb", 0>>

\* The endpoints that lead to the vehicle, of either unit.
ASSUME SideAssumption == VehicleSide = {Uart, Bridge}

Heartbeat == {"armed", "disarmed", "other", "none"}

\* MAVLink sends from no system 0; what the flight controller and the GCS send is numbered
\* from 1.
ASSUME EnvironmentAssumption ==
    Environments \subseteq
        [down : Nat, up : Nat, kinds : SUBSET ((Nat \ {0}) \X Heartbeat), overflows : BOOLEAN,
         bridge : BOOLEAN, udp : SUBSET (Nat \ {0}), ticks : Nat, faults : Nat]

NoClient == [used |-> FALSE, link |-> 0, has_queue |-> FALSE, tx_queue |-> <<>>, pending |-> <<>>]
NoUdp == [used |-> FALSE, address |-> 0, failures |-> 0]
NoLink == [station |-> "none", peer |-> FALSE, air |-> "closed", down |-> <<>>, up |-> <<>>]
Disconnected == [socket |-> 0, connected |-> FALSE, at |-> "loop", tx_queue |-> <<>>, pending |-> <<>>]
Loop == [at |-> "loop", slot |-> 0, datagram |-> <<>>]

\* airlink_wifi_start of both units.  An environment says how many frames the flight
\* controller and the GCS send, of what kinds, and which disturbances there are.
Init ==
    /\ RouterInit([air |-> {Uart, UdpBroadcast}, ground |-> {Usb}])
    /\ client = [i \in Slots |-> NoClient]
    /\ udp = [i \in UdpSlots |-> NoUdp] /\ udp_clients = 0
    /\ task = Loop
    /\ backlog = <<>> /\ link = [l \in Links |-> NoLink]
    /\ bridge = Disconnected
    /\ sta = "connecting" /\ attempts = 0
    /\ environment \in Environments
    /\ fc = [sent |-> 0, frame |-> Garbage, whole |-> FALSE] /\ gcs = 0 /\ faults = 0
    /\ delivered = [u \in Units |-> <<>>]

Fault == faults < environment.faults /\ faults' = faults + 1

-----------------------------------------------------------------------------
(* Frames enter the routers. *)

\* Sending to a queue never waits: what finds it full is dropped.
Upto(n, s) == SubSeq(s, 1, Min({n, Len(s)}))

TcpSend(frames) ==
    [i \in Slots |->
        IF Tcp(i) \in Registered("air") /\ client[i].used
        THEN [client[i] EXCEPT !.tx_queue = Upto(QueueDepth, @ \o frames)] ELSE client[i]]

\* udp_send: after three failures in a row a client is given up.
UdpSend(frames, failing) ==
    [i \in UdpSlots |->
        IF frames = <<>> \/ Udp(i) \notin Registered("air") THEN udp[i]
        ELSE [udp[i] EXCEPT !.failures = IF i \in failing THEN @ + 1 ELSE 0]]

Whole == <<1, 2>>

\* uart_rx_task of the air unit: the halves that arrive; an overflow loses one of them.
UartRx(kind, received, look) ==
    LET frame == Frame(fc.sent + 1, kind[1], kind[2])
        halves == [k \in DOMAIN received |-> Halves(frame)[received[k]]]
    IN  /\ fc.sent < environment.down
        /\ fc' = [sent |-> fc.sent + 1, frame |-> frame, whole |-> received = Whole]
        /\ Ingest("air", Uart, halves, look)
        /\ LET frames == Passed("air", Uart, halves, look)
           IN  /\ client' = TcpSend(frames)
               /\ \E failing \in SUBSET UdpSlots :
                    /\ udp' = UdpSend(frames, failing)
                    /\ IF failing # {} \/ received # Whole
                       THEN /\ failing # {} => \A i \in failing : udp'[i].failures > udp[i].failures
                            /\ Fault
                       ELSE faults' = faults
        /\ UNCHANGED <<udp_clients, task, backlog, link, ground, environment, gcs, delivered>>

\* bridge_send, inside the router's lock.
BridgeSend(frames) ==
    IF Bridge \in Registered("ground") /\ bridge.connected
    THEN [bridge EXCEPT !.tx_queue =
            Upto(QueueDepth, @ \o [i \in DOMAIN frames |-> [frame |-> frames[i],
                                                            link |-> bridge.socket]])]
    ELSE bridge

\* The USB task of the ground unit hands over a frame of the GCS.
UsbRx ==
    LET halves == Halves(Frame(gcs + 1, 255, "none"))
        look == [magic |-> FALSE, unknown_id |-> FALSE]
    IN  /\ environment.udp = {} /\ gcs < environment.up
        /\ gcs' = gcs + 1
        /\ Ingest("ground", Usb, halves, look)
        /\ bridge' = BridgeSend(Passed("ground", Usb, halves, look))
        /\ UNCHANGED <<air, backlog, link, sta, attempts, environment, fc, faults, delivered>>

Tick ==
    /\ now < environment.ticks
    /\ now' = now + 1
    /\ UNCHANGED <<s_endpoints, s_dedup, s_fc_system_id, s_fc_armed, network, air, backlog, link,
                   ground, outside, delivered>>

Deliver(u, frames) == delivered' = [delivered EXCEPT ![u] = @ \o frames]

-----------------------------------------------------------------------------
(* The network task: TCP clients. *)

\* Mutant: a reconnecting station does not replace its stale client.
NeverStale(i) == FALSE

Stale(i) == /\ client[i].used /\ backlog # <<>>
            /\ link[client[i].link].station = link[Head(backlog)].station

\* accept_tcp, when no client of the same address is left: without a free slot, or
\* without memory for a queue, the connection is closed.
AcceptTcp ==
    LET free == {i \in Slots : ~client[i].used}
        slot == CHOOSE i \in free : \A j \in free : i <= j
        l == Head(backlog)
    IN  /\ task = Loop /\ backlog # <<>> /\ \A i \in Slots : ~Stale(i)
        /\ backlog' = Tail(backlog)
        /\ \/ /\ free = {} /\ faults' = faults
              /\ link' = [link EXCEPT ![l].air = "closed"] /\ UNCHANGED <<client, task>>
           \/ /\ free # {} /\ Fault
              /\ link' = [link EXCEPT ![l].air = "closed"] /\ UNCHANGED <<client, task>>
           \/ /\ free # {} /\ faults' = faults
              /\ client' = [client EXCEPT ![slot] = [NoClient EXCEPT !.used = TRUE, !.link = l,
                                                                    !.has_queue = TRUE]]
              /\ link' = [link EXCEPT ![l].air = "open"]
              /\ task' = [Loop EXCEPT !.at = "accepted", !.slot = slot]
        /\ UNCHANGED <<router, udp, udp_clients, ground, environment, fc, gcs, delivered>>

TcpUnchanged == UNCHANGED <<now, s_dedup, s_fc_system_id, s_fc_armed, network, udp, udp_clients,
                             ground, outside, delivered>>

RegisterTcp ==
    /\ task.at = "accepted"
    /\ CanRegister("air", Tcp(task.slot))
    /\ Register("air", Tcp(task.slot))
    /\ task' = Loop
    /\ UNCHANGED <<client, backlog, link>> /\ TcpUnchanged

Reaches(l) == link[l].station = "ground" => sta = "connected"

\* Why the network task closes a client: it is replaced, its peer has closed, nothing is
\* heard of the peer, or nothing of a batch could be sent for TCP_STALL_TIMEOUT_US.
Ends(i) ==
    LET l == link[client[i].link]
    IN  \/ Stale(i)
        \/ ~l.peer /\ Reaches(client[i].link)
        \/ l.station = "ground" /\ sta # "connected"
        \/ client[i].pending # <<>> /\ Len(l.down) >= Window

\* Mutant: the queue is deleted before the router forgets the client.
DeletesQueueFirst(i) ==
    /\ task = Loop /\ client[i].used /\ Ends(i)
    /\ client' = [client EXCEPT ![i].has_queue = FALSE]
    /\ task' = [Loop EXCEPT !.at = "unregistered", !.slot = i]
    /\ UNCHANGED <<s_endpoints, backlog, link>> /\ TcpUnchanged

\* close_tcp: first the router forgets the client, then its queue is deleted.
CloseTcp(i) ==
    /\ task = Loop /\ client[i].used /\ Ends(i)
    /\ Unregister("air", Tcp(i))
    /\ task' = [Loop EXCEPT !.at = "unregistered", !.slot = i]
    /\ UNCHANGED <<client, backlog, link>> /\ TcpUnchanged

FreeTcp ==
    /\ task.at = "unregistered"
    /\ link' = [link EXCEPT ![client[task.slot].link].air = "closed",
                            ![client[task.slot].link].up = <<>>]
    /\ client' = [client EXCEPT ![task.slot] = NoClient]
    /\ task' = Loop
    /\ UNCHANGED <<s_endpoints, backlog>> /\ TcpUnchanged

\* A read or a write moves one half, or all there is and room for.
Moves(halves, room) == {n \in {1, Len(halves)} : n <= Len(halves) /\ n <= room}

TcpReceive(i) ==
    LET l == client[i].link
        look == [magic |-> FALSE, unknown_id |-> FALSE]
    IN  /\ task = Loop /\ client[i].used /\ Reaches(l)
        /\ \E n \in Moves(link[l].up, Window) :
             LET read == SubSeq(link[l].up, 1, n)
             IN  /\ Ingest("air", Tcp(i), read, look)
                 /\ Deliver("air", Passed("air", Tcp(i), read, look))
                 /\ link' = [link EXCEPT ![l].up = SubSeq(@, n + 1, Len(@))]
        /\ UNCHANGED <<air, backlog, ground, outside>>

\* service_tcp_tx: a new batch is begun when the last one is sent.
ServiceTcpTx(i) ==
    LET c == client[i]
        taken == IF c.pending = <<>> THEN Upto(Batch, c.tx_queue) ELSE <<>>
        batch == c.pending \o FlattenSeq([k \in DOMAIN taken |-> Halves(taken[k])])
    IN  /\ task = Loop /\ c.used
        /\ \E n \in Moves(batch, Window - Len(link[c.link].down)) :
             /\ link' = [link EXCEPT ![c.link].down = @ \o SubSeq(batch, 1, n)]
             /\ client' = [client EXCEPT ![i].tx_queue = SubSeq(@, Len(taken) + 1, Len(@)),
                                         ![i].pending = SubSeq(batch, n + 1, Len(batch))]
        /\ UNCHANGED <<router, udp, udp_clients, task, backlog, ground, outside, delivered>>

-----------------------------------------------------------------------------
(* The network task: UDP clients. *)

UdpUnchanged == UNCHANGED <<client, backlog, link, ground, environment, fc, faults>>

\* A datagram of an address that is not known: register_udp, when it holds a frame and
\* a slot is free.
RegisterUdp(address, frame) ==
    LET free == {i \in UdpSlots : ~udp[i].used}
        slot == CHOOSE i \in free : \A j \in free : i <= j
    IN  /\ task = Loop /\ gcs < environment.up
        /\ \A i \in UdpSlots : udp[i].used => udp[i].address # address
        /\ free # {} /\ CanRegister("air", Udp(slot))
        /\ Register("air", Udp(slot))
        /\ udp' = [udp EXCEPT ![slot] = [NoUdp EXCEPT !.used = TRUE, !.address = address]]
        /\ task' = [at |-> "counting", slot |-> slot, datagram |-> Halves(frame)]
        /\ gcs' = gcs + 1
        /\ UNCHANGED <<s_dedup, s_fc_system_id, s_fc_armed, now, network, udp_clients, delivered>>
        /\ UdpUnchanged

IngestUdp(i, halves) ==
    LET look == [magic |-> FALSE, unknown_id |-> FALSE]
    IN  Ingest("air", Udp(i), halves, look) /\ Deliver("air", Passed("air", Udp(i), halves, look))

\* recount_clients, and the datagram that made it necessary.
CountUdp ==
    /\ task.at = "counting"
    /\ udp_clients' = Cardinality({i \in UdpSlots : udp[i].used})
    /\ IngestUdp(task.slot, task.datagram)
    /\ task' = Loop
    /\ UNCHANGED <<udp, gcs>> /\ UdpUnchanged

UdpReceive(i, frame) ==
    /\ task = Loop /\ udp[i].used /\ gcs < environment.up
    /\ IngestUdp(i, Halves(frame))
    /\ gcs' = gcs + 1
    /\ UNCHANGED <<udp, udp_clients, task>> /\ UdpUnchanged

\* expire_udp: after 30 seconds without a datagram, or three sends that failed.
ExpireUdp(i) ==
    /\ task = Loop /\ udp[i].used
    /\ IF udp[i].failures >= 3 THEN faults' = faults ELSE Fault
    /\ Unregister("air", Udp(i))
    /\ task' = [Loop EXCEPT !.at = "expired", !.slot = i]
    /\ UNCHANGED <<s_dedup, s_fc_system_id, s_fc_armed, now, network, udp, udp_clients, client,
                   backlog, link, ground, environment, fc, gcs, delivered>>

CountExpired ==
    /\ task.at = "expired"
    /\ udp' = [udp EXCEPT ![task.slot] = NoUdp]
    /\ udp_clients' = Cardinality({i \in UdpSlots : udp'[i].used})
    /\ task' = Loop
    /\ UNCHANGED <<router, gcs, delivered>> /\ UdpUnchanged

-----------------------------------------------------------------------------
(* The ground unit: station and bridge task. *)

StationUnchanged == UNCHANGED <<router, air, backlog, link, bridge, environment, fc, gcs, delivered>>

\* wifi_event, WIFI_EVENT_STA_DISCONNECTED: of a connection or of an attempt.
StaDisconnected ==
    /\ environment.bridge /\ sta \in {"connected", "connecting"} /\ Fault
    /\ sta' = "waiting"
    /\ attempts' = IF attempts > MaxAttempts THEN attempts ELSE attempts + 1
    /\ StationUnchanged

\* reconnect_timer, after a delay that grows with the attempts.
Reconnect ==
    /\ sta = "waiting"
    /\ sta' = "connecting"
    /\ UNCHANGED <<attempts, faults>> /\ StationUnchanged

\* wifi_event, IP_EVENT_STA_GOT_IP.
StaGotIp ==
    /\ sta = "connecting" /\ environment.bridge
    /\ sta' = "connected" /\ attempts' = 0
    /\ faults' = faults /\ StationUnchanged

BridgeUnchanged == UNCHANGED <<air, sta, attempts, outside>>

\* A station connects: the listener of the air unit takes it into its backlog.
Connect(station, l) ==
    /\ link[l].air = "closed" /\ ~link[l].peer /\ Len(backlog) < Backlog
    /\ link' = [link EXCEPT ![l] = [NoLink EXCEPT !.station = station, !.peer = TRUE,
                                                  !.air = "waiting"]]
    /\ backlog' = Append(backlog, l)

\* bridge_connect; only then bridge_connected is set.
BridgeConnect ==
    /\ bridge.at = "loop" /\ bridge.socket = 0 /\ sta = "connected"
    /\ CanRegister("ground", Bridge)
    /\ \E l \in Links :
        /\ Connect("ground", l)
        /\ bridge' = [bridge EXCEPT !.socket = l, !.at = "registered", !.pending = <<>>]
    /\ Register("ground", Bridge)
    /\ UNCHANGED <<now, s_dedup, s_fc_system_id, s_fc_armed, network, delivered>>
    /\ BridgeUnchanged

BridgeConnected ==
    /\ bridge.at = "registered"
    /\ bridge' = [bridge EXCEPT !.at = "loop", !.connected = TRUE]
    /\ UNCHANGED <<router, backlog, link, delivered>> /\ BridgeUnchanged

\* Mutant: bridge_task does not notice that the air unit has closed the connection.
IgnoresTheEnd ==
    \/ sta # "connected"
    \/ bridge.pending # <<>> /\ Len(link[bridge.socket].up) >= Window

\* Why bridge_task disconnects: no Wi-Fi, the end of the connection, or nothing of a
\* packet could be sent for TCP_STALL_TIMEOUT_US.
BridgeEnds ==
    LET l == link[bridge.socket]
    IN  \/ sta # "connected"
        \/ l.air = "closed"
        \/ bridge.pending # <<>> /\ Len(l.up) >= Window

\* bridge_disconnect: first the router forgets the bridge, then its queue is emptied.
BridgeDisconnect ==
    /\ bridge.at = "loop" /\ bridge.connected /\ BridgeEnds
    /\ Unregister("ground", Bridge)
    /\ bridge' = [bridge EXCEPT !.at = "unregistered"]
    /\ UNCHANGED <<now, s_dedup, s_fc_system_id, s_fc_armed, network, backlog, link, delivered>>
    /\ BridgeUnchanged

\* Mutant: the packets of the old connection stay in the queue.
ResetKeepingQueue == [Disconnected EXCEPT !.tx_queue = bridge.tx_queue]

BridgeReset == Disconnected

PeerCloses(l) == [link EXCEPT ![l].peer = FALSE, ![l].down = <<>>]

BridgeCleared ==
    /\ bridge.at = "unregistered"
    /\ bridge' = BridgeReset
    /\ link' = PeerCloses(bridge.socket)
    /\ UNCHANGED <<router, backlog, delivered>> /\ BridgeUnchanged

BridgeReceive ==
    LET l == bridge.socket
        look == [magic |-> FALSE, unknown_id |-> FALSE]
    IN  /\ bridge.at = "loop" /\ bridge.connected /\ sta = "connected"
        /\ \E n \in Moves(link[l].down, Window) :
             LET read == SubSeq(link[l].down, 1, n)
             IN  /\ Ingest("ground", Bridge, read, look)
                 /\ Deliver("ground", Passed("ground", Bridge, read, look))
                 /\ link' = [link EXCEPT ![l].down = SubSeq(@, n + 1, Len(@))]
        /\ UNCHANGED <<backlog, bridge>> /\ BridgeUnchanged

BridgeTransmit ==
    LET l == bridge.socket
        fresh == bridge.pending = <<>> /\ bridge.tx_queue # <<>>
        packet == IF fresh THEN Halves(Head(bridge.tx_queue).frame) ELSE bridge.pending
    IN  /\ bridge.at = "loop" /\ bridge.connected
        /\ \E n \in Moves(packet, Window - Len(link[l].up)) :
             /\ link' = [link EXCEPT ![l].up = @ \o SubSeq(packet, 1, n)]
             /\ bridge' = [bridge EXCEPT !.tx_queue = IF fresh THEN Tail(@) ELSE @,
                                         !.pending = SubSeq(packet, n + 1, Len(packet))]
        /\ UNCHANGED <<router, backlog, delivered>> /\ BridgeUnchanged

\* The ground unit restarts, after airlink_wifi_prepare_restart or without.
GroundRestarts ==
    /\ environment.bridge /\ Fault
    /\ s_endpoints' = [s_endpoints EXCEPT !["ground"] = [e \in {Usb} |-> <<>>]]
    /\ s_dedup' = [s_dedup EXCEPT !["ground"] = <<>>]
    /\ network' = [network EXCEPT !["ground"] = <<>>]
    /\ s_fc_system_id' = [s_fc_system_id EXCEPT !["ground"] = 0]
    /\ s_fc_armed' = [s_fc_armed EXCEPT !["ground"] = FALSE]
    /\ bridge' = Disconnected /\ sta' = "connecting" /\ attempts' = 0
    /\ link' = IF bridge.socket = 0 THEN link ELSE PeerCloses(bridge.socket)
    /\ UNCHANGED <<now, air, backlog, environment, fc, gcs, delivered>>

\* Another TCP client of the air unit, which need not read what it is sent.
OtherConnects ==
    /\ environment.bridge /\ Fault
    /\ \A l \in Links : link[l].station = "other" => ~link[l].peer
    /\ \E l \in Links : Connect("other", l)
    /\ UNCHANGED <<router, air, ground, environment, fc, gcs, delivered>>

OtherLeaves(l) ==
    /\ link[l].station = "other" /\ link[l].peer
    /\ link' = PeerCloses(l)
    /\ UNCHANGED <<router, air, backlog, ground, outside, delivered>>

-----------------------------------------------------------------------------
NetworkTask ==
    \/ AcceptTcp \/ RegisterTcp \/ FreeTcp \/ CountUdp \/ CountExpired
    \/ \E i \in Slots : CloseTcp(i) \/ TcpReceive(i) \/ ServiceTcpTx(i)
    \/ \E i \in UdpSlots : ExpireUdp(i)
    \/ \E n \in environment.udp :
        LET frame == Frame(n, 255, "none")
        IN  \/ \E address \in {1, 2} : RegisterUdp(address, frame)
            \/ \E i \in UdpSlots : UdpReceive(i, frame)

BridgeTask ==
    BridgeConnect \/ BridgeConnected \/ BridgeDisconnect \/ BridgeCleared \/ BridgeReceive
    \/ BridgeTransmit

Next ==
    \/ \E kind \in environment.kinds, look \in Looks :
        \E received \in {Whole} \cup (IF environment.overflows THEN {<<1>>, <<2>>} ELSE {}) :
            UartRx(kind, received, look)
    \/ UsbRx \/ Tick \/ NetworkTask \/ BridgeTask
    \/ StaDisconnected \/ Reconnect \/ StaGotIp \/ GroundRestarts
    \/ OtherConnects \/ \E l \in Links : OtherLeaves(l)

Spec == Init /\ [][Next]_vars

\* Both tasks are loops with a watchdog; the timer of a reconnection is started by the
\* event that makes it necessary, and the air unit is in reach.
FairSpec ==
    /\ Spec
    /\ WF_vars(AcceptTcp) /\ WF_vars(RegisterTcp) /\ WF_vars(FreeTcp)
    /\ \A i \in Slots : WF_vars(CloseTcp(i)) /\ WF_vars(TcpReceive(i)) /\ WF_vars(ServiceTcpTx(i))
    /\ WF_vars(BridgeConnect) /\ WF_vars(BridgeConnected) /\ WF_vars(BridgeDisconnect)
    /\ WF_vars(BridgeCleared) /\ WF_vars(BridgeReceive) /\ WF_vars(BridgeTransmit)
    /\ WF_vars(Reconnect) /\ WF_vars(StaGotIp)

-----------------------------------------------------------------------------
(* Properties. *)

\* What a router passes on are whole frames in the order they were sent, none twice,
\* whatever connections were lost or replaced in between and wherever reads and writes
\* cut the stream; only an overflow of the UART lets garbage through, which has number 0.
FramesInOrder ==
    environment.udp = {} =>
        \A u \in Units : \A k \in DOMAIN delivered[u] :
            LET number == delivered[u][k].number
            IN  IF number = 0 THEN u = "ground" /\ environment.overflows
                ELSE \A j \in 1..k - 1 : delivered[u][j].number < number

\* The router never calls into a client whose queue does not exist, although the network
\* task makes and deletes clients while other tasks route.
ClientsAreAlive ==
    \A i \in Slots : Tcp(i) \in Registered("air") => client[i].used /\ client[i].has_queue

\* A connection carries what was routed while it stood: nothing the ground unit queued
\* for an earlier connection comes out of the next one.
QueueOfThisConnection ==
    bridge.connected /\ bridge.at = "loop" =>
        \A k \in DOMAIN bridge.tx_queue : bridge.tx_queue[k].link = bridge.socket

\* What a step may do to the latch of either unit.
OnlyAutopilotDisarms ==
    /\ s_fc_armed["air"] /\ ~s_fc_armed'["air"] =>
         /\ fc'.sent > fc.sent /\ fc'.whole
         /\ fc'.frame.system = s_fc_system_id["air"] /\ fc'.frame.heartbeat = "disarmed"
    /\ s_fc_armed["ground"] /\ ~s_fc_armed'["ground"] =>
         \/ GroundRestarts
         \/ \E k \in Len(delivered["ground"]) + 1..Len(delivered'["ground"]) :
               LET frame == delivered'["ground"][k]
               IN  frame.system = s_fc_system_id["ground"] /\ frame.heartbeat = "disarmed"

\* A unit believes the autopilot alone: the armed latch is released only by a whole
\* heartbeat that says disarmed, of the autopilot component of the system heard first,
\* or by a restart.
DisarmedByAutopilot == [][OnlyAutopilotDisarms]_vars

\* The bridge comes back: once disturbances end, the ground unit has a connection that
\* the air unit serves.
Linked ==
    /\ sta = "connected" /\ bridge.connected
    /\ \E i \in Slots : client[i].link = bridge.socket /\ Tcp(i) \in Registered("air")

BridgeRecovers == <>[](environment.bridge => Linked)
=============================================================================
