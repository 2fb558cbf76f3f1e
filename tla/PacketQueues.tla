---------------------------- MODULE PacketQueues ----------------------------
(***************************************************************************)
(* The two transmit queues in front of a slow link to the flight           *)
(* controller: those of the UART (airlink_uart.c) and of the DroneCAN      *)
(* tunnel (airlink_can.c) are the same code with other depths.  The router *)
(* puts packets in without waiting; the transmit task of the link takes    *)
(* them out, high priority first, but after a burst of high packets a      *)
(* normal one.  The router is the only one that puts packets in, one after *)
(* the other; between the three calls that replace the oldest packet of a  *)
(* full queue the transmit task may take packets out.                      *)
(***************************************************************************)
EXTENDS Integers, SequencesExt

CONSTANTS
    HighDepth, NormalDepth,     \* HIGH_QUEUE_DEPTH, NORMAL_QUEUE_DEPTH
    BurstLimit,                 \* HIGH_BURST_LIMIT
    MaxPackets                  \* bound: packets the router hands over

ASSUME DepthAssumption == {HighDepth, NormalDepth, BurstLimit} \subseteq Nat \ {0}
ASSUME PacketAssumption == MaxPackets \in Nat

VARIABLES
    high, normal,   \* the queues; a packet is its number in the router's order
    replacing,      \* of the router in the normal queue: "no", or the call it makes next to
                    \* put in the packet it accepted last, "discard" or "send"
    high_burst,     \* of the transmit task: high packets since the last normal one
    accepted,       \* history: packets the router handed over
    passed          \* history: high packets taken while a normal one has been waiting

queues == <<high, normal, replacing, high_burst, accepted, passed>>

QueuesInit ==
    /\ high = <<>> /\ normal = <<>> /\ replacing = "no"
    /\ high_burst = 0 /\ accepted = 0 /\ passed = 0

\* xQueueSend without waiting: a full queue takes nothing.
Offered(queue, depth, packet) == IF Len(queue) < depth THEN Append(queue, packet) ELSE queue

\* uart_router_send: a packet that finds its queue full is refused if it is high; if it
\* is normal the oldest one has to go.
QueuePacket(high_priority) ==
    LET packet == accepted + 1
    IN  /\ replacing = "no"
        /\ accepted < MaxPackets
        /\ accepted' = packet
        /\ high' = IF high_priority THEN Offered(high, HighDepth, packet) ELSE high
        /\ normal' = IF high_priority THEN normal ELSE Offered(normal, NormalDepth, packet)
        /\ replacing' = IF high_priority \/ Len(normal) < NormalDepth THEN "no" ELSE "discard"
        /\ UNCHANGED <<high_burst, passed>>

\* Without a packet to discard, the transmit task has taken them all, the new one is
\* dropped.
DiscardOldest ==
    /\ replacing = "discard"
    /\ IF normal # <<>> THEN normal' = Tail(normal) /\ replacing' = "send"
       ELSE normal' = normal /\ replacing' = "no"
    /\ UNCHANGED <<high, high_burst, accepted, passed>>

SendAgain ==
    /\ replacing = "send"
    /\ normal' = Offered(normal, NormalDepth, accepted)
    /\ replacing' = "no"
    /\ UNCHANGED <<high, high_burst, accepted, passed>>

\* Mutant: a burst has no limit.
NormalsNeverPreferred == FALSE

NormalsTurn == high_burst >= BurstLimit /\ normal # <<>>

\* The packet the transmit task takes next.
Next_ == IF NormalsTurn \/ high = <<>> THEN Head(normal) ELSE Head(high)

\* uart_tx_task takes it.
Dequeue ==
    /\ high # <<>> \/ normal # <<>>
    /\ IF NormalsTurn \/ high = <<>>
       THEN /\ normal' = Tail(normal) /\ high' = high
            /\ high_burst' = 0 /\ passed' = 0
       ELSE /\ high' = Tail(high) /\ normal' = normal
            /\ high_burst' = high_burst + 1
            /\ passed' = IF normal # <<>> THEN passed + 1 ELSE 0
    /\ UNCHANGED <<replacing, accepted>>

\* The normal queue is served: no more than a burst of high packets overtakes a
\* normal one that waits.
NormalIsServed == passed <= BurstLimit
=============================================================================
