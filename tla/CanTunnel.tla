------------------------------ MODULE CanTunnel -----------------------------
(***************************************************************************)
(* The DroneCAN tunnel (airlink_can.c with libcanard): one unit cuts the   *)
(* packets of its router into chunks and broadcasts each as a transfer of  *)
(* CAN frames, the other reassembles the transfers and hands the chunks to *)
(* its router.  Both directions are alike; the model has one of them.      *)
(*                                                                         *)
(* Between the tasks stand the router (CanRouterSend), the transmit interrupt *)
(* that releases the single static frame, and the receive interrupt whose  *)
(* queue may overflow: CAN itself delivers every frame once, in order.     *)
(* A transfer is its number in the order of broadcasting, which stands for *)
(* its content; the CRC of a multi-frame transfer checks exactly when the  *)
(* frames put together are all those of one transfer.  A keepalive is a    *)
(* transfer of a single frame.  NodeStatus and GetNodeInfo have            *)
(* descriptors of their own; in the transmit queue they are "other"        *)
(* frames, of lower priority (NodeStatus) or of any (a response).          *)
(***************************************************************************)
EXTENDS PacketQueues

CONSTANTS
    Chunks,         \* chunks per packet (280 bytes in chunks of 120)
    Frames,         \* CAN frames per chunk
    TransferIds,    \* 32: the numbers transfer ids are counted in
    RxDepth,        \* RX_QUEUE_DEPTH
    TunnelEnvironments    \* bounds: packets (at most MaxPackets), keepalives and transfers of
                    \* other types, and faults: lost frames, refused transfers, silences

ASSUME TunnelAssumption ==
    /\ {Chunks, RxDepth} \subseteq Nat \ {0}
    /\ TunnelEnvironments \subseteq [packets : 0..MaxPackets, others : Nat, faults : Nat]
    /\ Frames \in Nat /\ Frames > 1 /\ TransferIds \in Nat /\ TransferIds > 2

VARIABLES
    packet,         \* of can_task: the packet under way, its priority and offset
    tx_queue,       \* tx_queue of libcanard
    driver,         \* s_tx_frame while s_tx_busy
    transfer_id,    \* s_targetted_transfer_id
    rx_queue,       \* s_rx_queue of the other unit
    rx_state,       \* the CanardRxState of the tunnel there
    age,            \* of its timestamp: 1 after a second, 2 after two
    transfers,      \* history: how many transfers were broadcast
    sent,           \* history: packet and chunk of those that are no keepalives
    delivered,      \* history: the transfers that reached the router
    damaged,        \* history: transfers that lost a frame or were cut by a silence
    last_seen,      \* history: the last transfer rx_state got a frame of
    environment, others, faults

sender == <<packet, tx_queue, driver, transfer_id, transfers, sent>>
receiver == <<rx_queue, rx_state, age, delivered, last_seen>>
bounds == <<environment, others, faults>>
tunnel == <<queues, sender, receiver, damaged, bounds>>

NoPacket == [number |-> 0, priority |-> "medium", offset |-> 0]
NoRx == [known |-> FALSE, fresh |-> FALSE, transfer_id |-> 0, toggle |-> 0, payload |-> <<>>]

TunnelInit ==
    /\ QueuesInit
    /\ packet = NoPacket /\ tx_queue = <<>> /\ driver = <<>> /\ transfer_id = 0
    /\ rx_queue = <<>> /\ rx_state = NoRx /\ age = 0
    /\ transfers = 0 /\ sent = <<>> /\ delivered = <<>> /\ damaged = {} /\ last_seen = 0
    /\ environment \in TunnelEnvironments /\ others = 0 /\ faults = 0

Fault == faults < environment.faults /\ faults' = faults + 1
Other == others < environment.others /\ others' = others + 1

-----------------------------------------------------------------------------
(* Sending: libcanard's transmit queue and the driver. *)

Rank == [high |-> 1, medium |-> 2, low |-> 3]

\* pushTxQueue: before the first frame of a lower priority.
Push(queue, frame) ==
    LET lower == {i \in DOMAIN queue : Rank[queue[i].priority] > Rank[frame.priority]}
    IN  IF lower = {} THEN Append(queue, frame) ELSE InsertAt(queue, Min(lower), frame)

\* enqueueTxFrames: the frames of a transfer, with their place and toggle bit.
CanFrames(transfer, id, priority, count) ==
    [i \in 1..count |-> [transfer |-> transfer, id |-> id, priority |-> priority,
                         index |-> i, last |-> i = count, toggle |-> (i - 1) % 2]]

Enqueued(queue, frames) ==
    LET queued[n \in 0..Len(frames)] ==
            IF n = 0 THEN queue ELSE Push(queued[n - 1], frames[n])
    IN  queued[Len(frames)]

\* drain_canard_tx with submit_frame: the static frame must be free.
DrainInto(queue) ==
    IF queue # <<>> /\ driver = <<>>
    THEN driver' = <<Head(queue)>> /\ tx_queue' = Tail(queue)
    ELSE driver' = driver /\ tx_queue' = queue

\* Mutant: the loop of can_task does not drain.
NeverDrains == FALSE

Drain ==
    /\ tx_queue # <<>> /\ driver = <<>>
    /\ DrainInto(tx_queue)
    /\ UNCHANGED <<queues, packet, transfer_id, transfers, sent, receiver, damaged, bounds>>

RxFull == Len(rx_queue) >= RxDepth

\* on_tx_done: the frame was on the bus; on_rx of the other unit queues it or,
\* when the queue is full, drops it.
TxDone ==
    /\ driver # <<>>
    /\ driver' = <<>>
    /\ LET frame == driver[1]
       IN  IF frame.transfer = 0 \/ RxFull
           THEN /\ rx_queue' = rx_queue
                /\ damaged' = IF frame.transfer = 0 THEN damaged ELSE damaged \cup {frame.transfer}
                /\ IF frame.transfer = 0 THEN faults' = faults ELSE Fault
           ELSE rx_queue' = Append(rx_queue, frame) /\ UNCHANGED <<damaged, faults>>
    /\ UNCHANGED <<queues, packet, tx_queue, transfer_id, transfers, sent, rx_state, age, delivered,
                   last_seen, environment, others>>

-----------------------------------------------------------------------------
(* Sending: can_task. *)

\* canard_tx_idle.
TxIdle == tx_queue = <<>>

\* broadcast_targetted, with the drain that follows it.
BroadcastTargetted(priority, count) ==
    /\ transfers' = transfers + 1
    /\ transfer_id' = (transfer_id + 1) % TransferIds
    /\ DrainInto(Enqueued(tx_queue, CanFrames(transfers + 1, transfer_id, priority, count)))

Keepalive ==
    /\ TxIdle /\ Other
    /\ BroadcastTargetted("medium", 1)
    /\ UNCHANGED <<queues, packet, sent, receiver, damaged, environment, faults>>

\* NodeStatus every second, and GetNodeInfo responses from parse_dronecan.
OtherTransfer(priority) ==
    /\ priority = "low" => TxIdle
    /\ Other
    /\ DrainInto(Enqueued(tx_queue, CanFrames(0, 0, priority, 1)))
    /\ UNCHANGED <<queues, packet, transfer_id, transfers, sent, receiver, damaged, environment,
                   faults>>

\* can_router_send.
CanRouterSend(high_priority) ==
    /\ accepted < environment.packets
    /\ QueuePacket(high_priority)
    /\ UNCHANGED <<sender, receiver, damaged, bounds>>

\* can_router_send goes on, with the oldest normal packet or the new one.
CanReplaceOldest ==
    /\ DiscardOldest \/ SendAgain
    /\ UNCHANGED <<sender, receiver, damaged, bounds>>

\* Mutant: a high packet that waits interrupts the one under way.
HighInterrupts == packet = NoPacket \/ high # <<>>

\* dequeue_tunnel_packet is called only between packets.
Dequeues == packet = NoPacket

Current ==
    IF Dequeues
    THEN [number |-> Next_, offset |-> 0,
          priority |-> IF NormalsTurn \/ high = <<>> THEN "medium" ELSE "high"]
    ELSE packet

\* The next chunk of the packet under way or, after the last, of the next one; when
\* libcanard refuses the transfer the rest of the packet is dropped.
SendChunk ==
    /\ TxIdle
    /\ IF Dequeues THEN Dequeue ELSE UNCHANGED queues
    /\ LET p == Current
       IN  \/ /\ BroadcastTargetted(p.priority, Frames)
              /\ sent' = Append(sent, [packet |-> p.number, chunk |-> p.offset])
              /\ packet' = IF p.offset + 1 < Chunks THEN [p EXCEPT !.offset = @ + 1] ELSE NoPacket
              /\ faults' = faults
           \/ /\ Fault
              /\ packet' = NoPacket
              /\ UNCHANGED <<tx_queue, driver, transfer_id, transfers, sent>>
    /\ UNCHANGED <<receiver, damaged, environment, others>>

-----------------------------------------------------------------------------
(* Receiving: parse_dronecan and canardHandleRxFrame. *)

\* computeTransferIDForwardDistance.
Distance(a, b) == (a - b) % TransferIds

\* Mutant: an unfinished transfer goes on with the first frame of the next.
RestartUnlessExpected(frame) ==
    \/ ~rx_state.fresh \/ age = 2
    \/ frame.index = 1 /\ Distance(rx_state.transfer_id, frame.id) = 1

\* need_restart; the blocks of a payload are allocated with its second frame.
NeedRestart(frame) ==
    \/ ~rx_state.fresh \/ age = 2
    \/ /\ frame.index = 1
       /\ Distance(rx_state.transfer_id, frame.id) > 1 \/ Len(rx_state.payload) > 1
    \/ frame.index = 1 /\ age > 0 /\ Distance(frame.id, rx_state.transfer_id) < TransferIds \div 2

\* prepareForNextTransfer.
Prepared(state) ==
    [state EXCEPT !.transfer_id = (@ + 1) % TransferIds, !.toggle = 0, !.payload = <<>>]

\* on_transfer, receive_targetted: the chunk goes to the router.
Received(transfer, state) ==
    /\ rx_state' = Prepared(state)
    /\ delivered' = Append(delivered, transfer)

\* The number that stands for a payload put together, 0 if no transfer had it.
Content(payload) ==
    IF payload = [i \in 1..Frames |-> [transfer |-> payload[1].transfer, index |-> i]]
    THEN payload[1].transfer ELSE 0

\* Mutant: the CRC of the transfer is not compared.
NoCrc(payload) == TRUE

CrcMatches(payload) == Content(payload) # 0

Ignored(state) == rx_state' = state /\ delivered' = delivered

HandleRxFrame ==
    LET frame == Head(rx_queue)
        first == frame.index = 1
        known == IF rx_state.known THEN rx_state ELSE [NoRx EXCEPT !.known = TRUE]
        restart == NeedRestart(frame)
        state == IF restart THEN [known EXCEPT !.transfer_id = frame.id, !.toggle = 0,
                                               !.payload = <<>>]
                 ELSE known
        piece == [transfer |-> frame.transfer, index |-> frame.index]
        payload == IF first THEN <<piece>> ELSE Append(state.payload, piece)
        stored == [state EXCEPT !.payload = payload, !.fresh = first \/ @]
        fits == frame.toggle = state.toggle /\ frame.id = state.transfer_id
    IN  /\ rx_queue # <<>>
        /\ rx_queue' = Tail(rx_queue)
        /\ last_seen' = frame.transfer
        /\ \/ /\ ~first /\ ~rx_state.known        \* missed the start, nothing is kept
              /\ Ignored(rx_state) /\ age' = age
           \/ /\ ~first /\ rx_state.known /\ restart
              /\ Ignored([state EXCEPT !.transfer_id = (@ + 1) % TransferIds]) /\ age' = age
           \/ /\ first /\ frame.last
              /\ Received(frame.transfer, [stored EXCEPT !.fresh = TRUE]) /\ age' = 0
           \/ /\ first => ~frame.last
              /\ ~first => rx_state.known /\ ~restart
              /\ \/ /\ ~fits /\ Ignored(state) /\ age' = age
                 \/ /\ fits /\ ~frame.last
                    /\ Ignored([stored EXCEPT !.toggle = 1 - @])
                    /\ age' = IF first THEN 0 ELSE age
                 \/ /\ fits /\ frame.last /\ CrcMatches(payload)
                    /\ Received(Content(payload), stored) /\ age' = age
                 \/ /\ fits /\ frame.last /\ ~CrcMatches(payload)
                    /\ Ignored(Prepared(stored)) /\ age' = age
        /\ UNCHANGED <<queues, sender, damaged, bounds>>

\* A second passes; a transfer that is under way is cut.
Silence ==
    /\ rx_state.known /\ age < 2
    /\ Fault
    /\ age' = age + 1
    /\ damaged' = damaged \cup {transfers} \cup {last_seen}
                    \cup {frame.transfer : frame \in Range(rx_queue)}
    /\ UNCHANGED <<queues, sender, rx_queue, rx_state, delivered, last_seen, environment, others>>

\* canardCleanupStaleTransfers.
Cleanup ==
    /\ rx_state.known /\ age = 2
    /\ rx_state' = NoRx /\ age' = 0
    /\ UNCHANGED <<queues, sender, rx_queue, delivered, damaged, last_seen, bounds>>

TunnelNext ==
    \/ \E high_priority \in BOOLEAN : CanRouterSend(high_priority)
    \/ CanReplaceOldest
    \/ Keepalive \/ SendChunk \/ Drain \/ TxDone
    \/ \E priority \in {"high", "low"} : OtherTransfer(priority)
    \/ HandleRxFrame \/ Silence \/ Cleanup

TunnelSpec == TunnelInit /\ [][TunnelNext]_tunnel

\* can_task goes round and round, the router's calls do not wait, and CAN repeats a
\* frame until it is acknowledged.
FairTunnelSpec ==
    /\ TunnelSpec
    /\ WF_tunnel(SendChunk \/ Drain) /\ WF_tunnel(CanReplaceOldest)
    /\ WF_tunnel(TxDone) /\ WF_tunnel(HandleRxFrame)

-----------------------------------------------------------------------------
(* Properties. *)

\* What reaches the other router are transfers as they were broadcast, none twice and
\* none out of order, whatever frames are lost in between.
DeliveredInOrder ==
    \A i \in DOMAIN delivered : delivered[i] > (IF i = 1 THEN 0 ELSE delivered[i - 1])

\* The chunks of a packet follow each other on the bus, and so in the byte stream of
\* the other router: a packet is never cut open by another one of whatever priority,
\* and cut short only where libcanard refused a transfer.
ChunksStayTogether ==
    LET Goes(i) == sent[i + 1].packet = sent[i].packet /\ sent[i + 1].chunk = sent[i].chunk + 1
        Starts(i) == sent[i + 1].packet # sent[i].packet /\ sent[i + 1].chunk = 0
        Inner == 1..Len(sent) - 1
    IN  /\ \A i \in Inner : Goes(i) \/ Starts(i)
        /\ Cardinality({i \in Inner : Starts(i) /\ sent[i].chunk + 1 < Chunks}) <= faults

\* What reached the router last.
Newest == IF delivered = <<>> THEN 0 ELSE delivered[Len(delivered)]

\* So few were lost between any two deliveries that the transfer ids have not wrapped.
IdsNeverWrapped ==
    \A i \in DOMAIN delivered :
        delivered[i] - (IF i = 1 THEN 0 ELSE delivered[i - 1]) < TransferIds - 1

\* The receiver always finds its way back: a transfer all of whose frames arrive, one
\* after the other, is delivered, unless so many were lost before it, or before an
\* earlier one, that the transfer ids have wrapped.
WholeTransfersArrive ==
    [][\A frame \in Range(rx_queue) :
          /\ rx_queue # <<>> /\ rx_queue' = Tail(rx_queue)
          /\ frame = Head(rx_queue) /\ frame.last
          /\ frame.transfer \notin damaged
          /\ IdsNeverWrapped /\ frame.transfer - Newest < TransferIds - 1
          => delivered' = Append(delivered, frame.transfer)]_tunnel

\* The tunnel does not jam: a packet that waits, be it for room in the queue, is taken,
\* or makes room for a newer one, however high and normal packets, keepalives and
\* other transfers mix.
PacketWaits == high # <<>> \/ normal # <<>> \/ replacing # "no"
QueuesDrain == PacketWaits ~> ~PacketWaits
=============================================================================
