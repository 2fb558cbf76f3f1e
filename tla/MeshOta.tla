------------------------------- MODULE MeshOta ------------------------------
(***************************************************************************)
(* The fleet OTA of the AirLink mesh (airlink_mesh.c).  The USB host feeds *)
(* an image to the ground root, which sends it to its targets in windows   *)
(* of chunks, repairs each window until every target acknowledged all of   *)
(* it, has every target verify the whole, and only then lets the targets   *)
(* activate it one after the other, from the leaves of the tree to itself. *)
(*                                                                         *)
(* An image is the sequence of its chunks and stands for itself and its    *)
(* version; the session number stands for the random session and for the   *)
(* image sent in it.  A node's flash is the stream of airlink_ota.c, taken *)
(* apart in OtaImage.  Packets travel in two queues per node, arrive at    *)
(* most once (ReplayWindow), and may be lost or overtaken by later ones.   *)
(* The root's waiting loops end on what they wait for, or at a deadline    *)
(* that may come at any moment, or, in a prompt environment, when no       *)
(* packet is under way any more and no restart is due.                     *)
(***************************************************************************)
EXTENDS Integers, Sequences, FiniteSetsExt

CONSTANTS
    Nodes,          \* the approved air nodes are 1..Nodes: their slots in s_nodes
    Layer,          \* the mesh layer of each node, 2..4
    WindowChunks,   \* OTA_WINDOW_CHUNKS
    TotalChunks,    \* length of an image in chunks
    Environments    \* the environments a behaviour may run in: whether answers come
                    \* before the deadlines, which nodes the host selects, the value
                    \* of OTA_REPAIR_ROUNDS, and two bounds: the transfers the host
                    \* starts, and the disturbances (in a prompt environment only
                    \* packets are lost)

Node == 1..Nodes
ASSUME NodesAssumption == Nodes \in Nat /\ Layer \in [Node -> 2..4]
ASSUME ChunkAssumption == {WindowChunks, TotalChunks} \subseteq Nat \ {0}
ASSUME EnvironmentAssumption == Environments \subseteq
    [prompt : BOOLEAN, selectable : SUBSET Node, rounds : Nat, sessions : Nat, faults : Nat]

Root == 0
Unit == Node \cup {Root}
Chunk == 0..TotalChunks - 1
NoBase == -1            \* UINT32_MAX

VARIABLES
    ota,            \* s_root_ota and where the task that serves it stands
    heard,          \* ota_ack_base, ota_ack_bitmap and ota_state of s_nodes
    view,           \* what HELLO and NODE_STATUS told the root of each node
    air,            \* s_air_ota of each node
    ota_stream,     \* the OTA stream of every unit
    firmware,       \* the image it runs and the one it last confirmed: they differ
                    \* while a new image is on trial
    boot_partition, \* the image its boot partition holds
    restarting,     \* units with a restart scheduled
    fc,             \* the state of each node's flight controller
    down, up,       \* packets on their way to and from each node
    sessions,       \* how many transfers were started
    targetsOf, verifiedBy,  \* history: for each session its targets, and the
                            \* targets that verified the image
    environment,    \* the environment of the behaviour
    faults          \* how many of its disturbances have happened

unit == <<firmware, boot_partition, restarting>>
fleet == <<air, ota_stream, unit, fc>>
net == <<down, up>>
history == <<sessions, targetsOf, verifiedBy>>
fleet_vars == <<ota, heard, view, fleet, net, history, environment, faults>>

NoOta == [phase |-> "idle", session |-> 0, targets |-> {}, own |-> FALSE, base |-> 0,
          received |-> 0, round |-> 0, left |-> {}, index |-> 0]
NoAck == [session |-> 0, base |-> 0, bitmap |-> {}, state |-> "idle"]
Unanswered == [NoAck EXCEPT !.base = NoBase, !.state = "receiving"]
NoAir == [active |-> FALSE, session |-> 0, base |-> 0, bitmap |-> {}, written |-> FALSE]
Free == [state |-> "free", chunks |-> <<>>]

\* A running fleet that has not seen a transfer yet.
FleetInit ==
    /\ ota = NoOta
    /\ heard = [n \in Node |-> NoAck]
    /\ view = [n \in Node |-> [fc |-> "disarmed", version |-> 0, valid |-> TRUE]]
    /\ air = [n \in Node |-> NoAir]
    /\ ota_stream = [u \in Unit |-> Free]
    /\ firmware = [u \in Unit |-> [running |-> 0, confirmed |-> 0]]
    /\ boot_partition = [u \in Unit |-> 0]
    /\ restarting = {}
    /\ fc = [n \in Node |-> "disarmed"]
    /\ down = [n \in Node |-> <<>>] /\ up = [n \in Node |-> <<>>]
    /\ sessions = 0
    /\ environment \in Environments
    /\ targetsOf = [s \in 1..environment.sessions |-> {}]
    /\ verifiedBy = [s \in 1..environment.sessions |-> {}]
    /\ faults = 0

\* ota_window_expected: the slots of the window that the image fills.
WindowSlots(base) == 0..Min({WindowChunks, TotalChunks - base}) - 1
BaseOf(chunk) == (chunk \div WindowChunks) * WindowChunks

\* What an abort of the stream leaves: a stream that is verified is not active.
Aborted(s) == IF s.state = "active" THEN Free ELSE s

\* airlink_ota_stream_begin succeeds: no stream, and no image on trial.
Accepts(u, s) == s.state = "free" /\ firmware[u].running = firmware[u].confirmed
Fresh == [state |-> "active", chunks |-> <<>>]

Disturbance(kind) ==
    /\ environment.prompt => kind = "loss"
    /\ faults < environment.faults
    /\ faults' = faults + 1

-----------------------------------------------------------------------------
(* The root: the calls of the USB task. *)

GlobalSafe == \A n \in Node : view[n].fc = "disarmed"

\* The deadline of a wait passes; what is waited for is looked at every 20 ms.
WaitEnds(done) ==
    environment.prompt =>
        ~done /\ restarting = {} /\ \A n \in Node : down[n] = <<>> /\ up[n] = <<>>

Packet(kind, chunk) == [kind |-> kind, session |-> ota.session, chunk |-> chunk]

InOrder(slots) ==
    CHOOSE s \in [1..Cardinality(slots) -> slots] : \A i, j \in DOMAIN s : i < j => s[i] < s[j]

\* The chunks of the current window that fill the slots.
ChunkPackets(slots) ==
    [i \in 1..Cardinality(slots) |-> Packet("chunk", ota.base + InOrder(slots)[i])]

\* root_ota_send_group.
SendGroup(targets, packets) ==
    down' = [n \in Node |-> IF n \in targets THEN down[n] \o packets ELSE down[n]]

\* The state of every target from which a wait starts.
ResetStates(targets, state) ==
    heard' = [n \in Node |-> IF n \in targets THEN [heard[n] EXCEPT !.state = state]
                                              ELSE heard[n]]

\* airlink_mesh_ota_abort: root_ota_cleanup forgets the transfer.
AbortOta ==
    /\ SendGroup(ota.targets, <<Packet("abort", 0)>>)
    /\ ota_stream' = [ota_stream EXCEPT ![Root] = Aborted(@)]
    /\ ota' = NoOta
    /\ UNCHANGED <<heard, view, air, unit, fc, up, history, environment>>

\* airlink_mesh_ota_begin: BEGIN goes out and READY is awaited.
OtaBegin(targets, own) ==
    LET session == sessions + 1
    IN  /\ ota.phase = "idle" /\ GlobalSafe /\ Root \notin restarting
        /\ sessions < environment.sessions
        /\ targets # {} \/ own
        /\ own => Accepts(Root, ota_stream[Root])
        /\ sessions' = session
        /\ ota' = [NoOta EXCEPT !.phase = "begin", !.session = session, !.targets = targets,
                                !.own = own]
        /\ ota_stream' = [ota_stream EXCEPT ![Root] = IF own THEN Fresh ELSE @]
        /\ ResetStates(targets, "idle")
        /\ SendGroup(targets, <<[kind |-> "begin", session |-> session, chunk |-> 0]>>)
        /\ targetsOf' = [targetsOf EXCEPT ![session] = targets]
        /\ UNCHANGED <<view, air, unit, fc, up, verifiedBy, environment, faults>>

\* root_ota_all_state.
AllIn(state) == \A n \in ota.targets : heard[n].state = state

RootMoves(changed) ==
    /\ ota' = changed
    /\ UNCHANGED <<heard, view, fleet, net, history, environment, faults>>

Whole(u) == ota_stream[u].state = "active" /\ Len(ota_stream[u].chunks) = TotalChunks

Begun == ota.phase = "begin" /\ AllIn("ready") /\ RootMoves([ota EXCEPT !.phase = "open"])

\* Mutant: the waits for READY and VERIFIED have no deadline.
GiveUpIfUnsafe ==
    /\ \/ ota.phase \in {"begin", "verify"} /\ ~GlobalSafe
       \/ ota.phase = "open"
    /\ AbortOta /\ UNCHANGED faults

\* The wait ends without the answers, or the host goes away (the USB session
\* closes after 60 seconds without a frame), or the next call finds the fleet
\* unsafe, or the root's own copy fails.
RootVerifies == ota.own => Whole(Root)

GiveUp ==
    /\ \/ ota.phase = "begin" /\ (~GlobalSafe \/ WaitEnds(AllIn("ready")))
       \/ ota.phase = "verify" /\ (~GlobalSafe \/ ~RootVerifies \/ WaitEnds(AllIn("verified")))
       \/ ota.phase = "open"
    /\ AbortOta /\ UNCHANGED faults

\* airlink_mesh_ota_write of the next chunk; the last of a window flushes it.
OtaWrite ==
    /\ ota.phase = "open" /\ GlobalSafe /\ ota.received < TotalChunks
    /\ ota.own => ota_stream[Root].state = "active"
    /\ ota_stream' = [ota_stream EXCEPT ![Root].chunks =
                         IF ota.own THEN Append(@, ota.received) ELSE @]
    /\ LET last == ota.received + 1 \in {ota.base + WindowChunks, TotalChunks}
       IN  /\ ota' = [ota EXCEPT !.received = @ + 1, !.round = 0,
                                 !.phase = IF last THEN "window" ELSE "open"]
           /\ IF last
              THEN /\ heard' = [n \in Node |-> IF n \in ota.targets THEN Unanswered ELSE heard[n]]
                   /\ SendGroup(ota.targets, ChunkPackets(WindowSlots(ota.base)))
              ELSE UNCHANGED <<heard, down>>
    /\ UNCHANGED <<view, air, unit, fc, up, history, environment, faults>>

Failed == \E n \in ota.targets : heard[n].state = "error"

Complete ==
    \A n \in ota.targets : heard[n].base = ota.base /\ heard[n].bitmap = WindowSlots(ota.base)

\* Mutant: one round less.
LastButOneRound == ota.round + 1 = environment.rounds

LastRound == ota.round = environment.rounds

WindowComplete ==
    /\ ota.phase = "window" /\ ~Failed /\ Complete
    /\ RootMoves([ota EXCEPT !.phase = "open", !.base = @ + WindowChunks])

\* At the deadline of a round the chunks a target has not acknowledged are sent
\* to it again.
Repair ==
    /\ ota.phase = "window" /\ ~Failed /\ WaitEnds(Complete)
    /\ ~LastRound
    /\ ota' = [ota EXCEPT !.round = @ + 1]
    /\ down' = [n \in Node |->
                  IF n \in ota.targets
                  THEN down[n] \o ChunkPackets(WindowSlots(ota.base) \ heard[n].bitmap)
                  ELSE down[n]]
    /\ UNCHANGED <<heard, view, fleet, up, history, environment, faults>>

\* root_ota_flush_window returns false.
WindowFails ==
    /\ ota.phase = "window"
    /\ \/ Failed
       \/ ~GlobalSafe
       \/ WaitEnds(Complete) /\ LastRound
    /\ AbortOta /\ UNCHANGED faults

\* airlink_mesh_ota_finish: every target is told to verify its image.
OtaFinish ==
    /\ ota.phase = "open" /\ GlobalSafe /\ ota.received = TotalChunks
    /\ ResetStates(ota.targets, "receiving")
    /\ SendGroup(ota.targets, <<Packet("verify", 0)>>)
    /\ ota' = [ota EXCEPT !.phase = "verify"]
    /\ UNCHANGED <<view, fleet, up, history, environment, faults>>

\* Mutant: the activation starts with the first verified target.
AnyVerified ==
    /\ ota.phase = "verify" /\ \E n \in ota.targets : heard[n].state = "verified"
    /\ ota_stream' = [ota_stream EXCEPT ![Root].state = IF ota.own THEN "verified" ELSE @]
    /\ ota' = [ota EXCEPT !.phase = "scan", !.left = ota.targets]
    /\ UNCHANGED <<heard, view, air, unit, fc, net, history, environment, faults>>

\* All targets verified it, and so does the root: the activation task starts.
AllVerified ==
    /\ ota.phase = "verify" /\ AllIn("verified") /\ RootVerifies
    /\ ota_stream' = [ota_stream EXCEPT ![Root].state = IF ota.own THEN "verified" ELSE @]
    /\ ota' = [ota EXCEPT !.phase = "scan", !.left = ota.targets]
    /\ UNCHANGED <<heard, view, air, unit, fc, net, history, environment, faults>>

-----------------------------------------------------------------------------
(* The root: root_ota_activation_task. *)

\* The loops over layers 4 to 1 and over the slots of s_nodes: the next target.
First(left) ==
    CHOOSE i \in left : \A j \in left :
        \/ Layer[i] > Layer[j]
        \/ Layer[i] = Layer[j] /\ i <= j

\* root_ota_activation_safe, for the slots the step leaves.
ActivationSafe(slots) ==
    \A n \in Node :
        IF n \in ota.targets /\ slots[n].state = "activating"
        THEN view[n].fc # "armed"
        ELSE view[n].fc = "disarmed"

\* The next target is commanded, or the activation ends for good: nobody is told.
Activate ==
    LET n == First(ota.left)
    IN  /\ ota.phase = "scan" /\ ota.left # {}
        /\ heard' = [heard EXCEPT ![n].state = "verified"]
        /\ view' = [view EXCEPT ![n].valid = FALSE]
        /\ IF ActivationSafe(heard')
           THEN /\ SendGroup({n}, <<Packet("activate", 0)>>)
                /\ ota' = [ota EXCEPT !.phase = "command", !.index = n, !.left = @ \ {n}]
                /\ UNCHANGED ota_stream
           ELSE /\ ota' = NoOta
                /\ ota_stream' = [ota_stream EXCEPT ![Root] = IF ota.own THEN Aborted(@) ELSE @]
                /\ UNCHANGED down
        /\ UNCHANGED <<air, unit, fc, up, history, environment, faults>>

Commanded ==
    /\ ota.phase = "command" /\ heard[ota.index].state = "activating"
    /\ RootMoves([ota EXCEPT !.phase = "rejoin"])

\* It does not answer within 5 seconds: "continue".
NotCommanded ==
    /\ ota.phase = "command" /\ WaitEnds(heard[ota.index].state = "activating")
    /\ RootMoves([ota EXCEPT !.phase = "scan"])

\* It is back with the new image confirmed, or 60 seconds have passed.
Rejoined ==
    /\ ota.phase = "rejoin"
    /\ view[ota.index] = [fc |-> view[ota.index].fc, version |-> ota.session, valid |-> TRUE]
       \/ WaitEnds(FALSE)
    /\ RootMoves([ota EXCEPT !.phase = "scan"])

\* All layers done: the root activates its own copy and restarts.
ActivateRoot ==
    /\ ota.phase = "scan" /\ ota.left = {}
    /\ IF ota.own
       THEN /\ boot_partition' = [boot_partition EXCEPT ![Root] = ota.session]
            /\ ota_stream' = [ota_stream EXCEPT ![Root] = Free]
            /\ restarting' = restarting \cup {Root}
       ELSE UNCHANGED <<boot_partition, ota_stream, restarting>>
    /\ ota' = NoOta
    /\ UNCHANGED <<heard, view, air, firmware, fc, net, history, environment, faults>>

-----------------------------------------------------------------------------
(* The root: what the receive task notes. *)

OnAck(n) ==
    /\ up[n] # <<>>
    /\ up' = [up EXCEPT ![n] = Tail(@)]
    /\ heard' = IF ota.phase # "idle" /\ Head(up[n]).session = ota.session
                THEN [heard EXCEPT ![n] = Head(up[n])]
                ELSE heard
    /\ UNCHANGED <<ota, view, fleet, down, history, environment, faults>>

\* HELLO and NODE_STATUS of a node that is in the mesh.
Presence(n) ==
    /\ view' = [view EXCEPT ![n] = [fc |-> fc[n], version |-> firmware[n].running,
                                    valid |-> firmware[n].running = firmware[n].confirmed]]
    /\ UNCHANGED <<ota, heard, fleet, net, history, environment, faults>>

-----------------------------------------------------------------------------
(* An air node: process_air_ota_begin, _chunk, _commit and OTA_ABORT. *)

\* The next packet of a node is taken, the answers are sent.
Arrives(n, kind) == down[n] # <<>> /\ Head(down[n]).kind = kind
Handles(n, answers) ==
    /\ down' = [down EXCEPT ![n] = Tail(@)]
    /\ up' = [up EXCEPT ![n] = @ \o answers]
    /\ UNCHANGED <<ota, heard, view, fc, firmware, sessions, targetsOf, environment>>

\* send_air_ota_ack.
Answer(session, base, bitmap, state) ==
    <<[session |-> session, base |-> base, bitmap |-> bitmap, state |-> state]>>

AirBecomes(n, a, s) ==
    /\ air' = [air EXCEPT ![n] = a]
    /\ ota_stream' = [ota_stream EXCEPT ![n] = s]

\* It is refused while the flight controller is armed, and by a node that does not
\* know yet that it is approved.
OnBegin(n) ==
    LET session == Head(down[n]).session
        a == air[n]
        again == a.active /\ a.session = session
        released == IF a.active THEN Aborted(ota_stream[n]) ELSE ota_stream[n]
    IN  /\ Arrives(n, "begin")
        /\ \/ /\ IF fc[n] = "disarmed" THEN Disturbance("approval") ELSE UNCHANGED faults
              /\ Handles(n, Answer(session, 0, {}, "error"))
              /\ AirBecomes(n, [a EXCEPT !.session = session], ota_stream[n])
           \/ /\ fc[n] = "disarmed" /\ again /\ UNCHANGED faults
              /\ Handles(n, Answer(session, a.base, a.bitmap, "ready"))
              /\ AirBecomes(n, a, ota_stream[n])
           \/ /\ fc[n] = "disarmed" /\ ~again /\ Accepts(n, released) /\ UNCHANGED faults
              /\ Handles(n, Answer(session, 0, {}, "ready"))
              /\ AirBecomes(n, [NoAir EXCEPT !.active = TRUE, !.session = session], Fresh)
           \/ /\ fc[n] = "disarmed" /\ ~again /\ ~Accepts(n, released) /\ UNCHANGED faults
              /\ Handles(n, Answer(session, 0, {}, "error"))
              /\ AirBecomes(n, [NoAir EXCEPT !.session = session], released)
        /\ UNCHANGED <<boot_partition, restarting, verifiedBy>>

\* The packet belongs to the transfer the node is in.
Current(n) == air[n].active /\ Head(down[n]).session = air[n].session

\* Mutant: a chunk of any other window starts it.
AnyNext(a, base) == TRUE

\* A chunk of another window counts only if it starts the next one.
StartsNext(a, base) == a.written /\ base = a.base + WindowChunks

OnChunk(n) ==
    LET a == air[n]
        chunk == Head(down[n]).chunk
        base == BaseOf(chunk)
        moves == base # a.base
        bitmap == (IF moves THEN {} ELSE a.bitmap) \cup {chunk - base}
        written == ~moves /\ a.written
        full == bitmap = WindowSlots(base) /\ ~written
        taken == Current(n) /\ (moves => StartsNext(a, base))
        Received(done) == [a EXCEPT !.base = base, !.bitmap = bitmap, !.written = done]
    IN  /\ Arrives(n, "chunk")
        /\ \/ /\ ~taken
              /\ Handles(n, IF Current(n)
                                     THEN Answer(a.session, a.base, a.bitmap, "receiving")
                                     ELSE <<>>)
              /\ AirBecomes(n, a, ota_stream[n])
              /\ UNCHANGED faults
           \/ /\ taken /\ ~full
              /\ Handles(n, Answer(a.session, base, bitmap, "receiving"))
              /\ AirBecomes(n, Received(written), ota_stream[n])
              /\ UNCHANGED faults
           \/ /\ taken /\ full /\ ota_stream[n].state = "active"  \* the window is written in order
              /\ Handles(n, Answer(a.session, base, bitmap, "receiving"))
              /\ AirBecomes(n, Received(TRUE),
                            [ota_stream[n] EXCEPT !.chunks = @ \o
                                [i \in 1..Cardinality(bitmap) |-> base + i - 1]])
              /\ UNCHANGED faults
           \/ /\ taken /\ full     \* the flash refuses it, or the stream was aborted
              /\ IF ota_stream[n].state = "active" THEN Disturbance("flash") ELSE UNCHANGED faults
              /\ Handles(n, Answer(a.session, base, bitmap, "error"))
              /\ AirBecomes(n, NoAir, Aborted(ota_stream[n]))
        /\ UNCHANGED <<boot_partition, restarting, verifiedBy>>

\* OTA_COMMIT without the activate flag: airlink_ota_stream_verify.
OnVerify(n) ==
    LET a == air[n]
        Ack_(state) == Answer(a.session, a.base, a.bitmap, state)
    IN  /\ Arrives(n, "verify")
        /\ \/ /\ ~Current(n)
              /\ Handles(n, <<>>)
              /\ UNCHANGED <<air, ota_stream, verifiedBy, faults>>
           \/ /\ Current(n) /\ a.written /\ Whole(n)
              /\ Handles(n, Ack_("verified"))
              /\ AirBecomes(n, a, [ota_stream[n] EXCEPT !.state = "verified"])
              /\ verifiedBy' = [verifiedBy EXCEPT ![a.session] = @ \cup {n}]
              /\ UNCHANGED faults
           \/ /\ Current(n)        \* incomplete, or the image does not check
              /\ IF a.written /\ Whole(n) THEN Disturbance("image") ELSE UNCHANGED faults
              /\ Handles(n, Ack_("error"))
              /\ AirBecomes(n, NoAir, Aborted(ota_stream[n]))
              /\ UNCHANGED verifiedBy
        /\ UNCHANGED <<boot_partition, restarting>>

\* OTA_COMMIT with it: the boot partition is set, the node restarts in a second.
OnActivate(n) ==
    LET a == air[n]
        Ack_(state) == Answer(a.session, a.base, a.bitmap, state)
    IN  /\ Arrives(n, "activate")
        /\ \/ /\ ~Current(n)
              /\ Handles(n, <<>>)
              /\ UNCHANGED <<air, ota_stream, boot_partition, restarting, faults>>
           \/ /\ Current(n) /\ ota_stream[n].state = "verified"
              /\ Handles(n, Ack_("activating"))
              /\ AirBecomes(n, a, Free)
              /\ boot_partition' = [boot_partition EXCEPT ![n] = a.session]
              /\ restarting' = restarting \cup {n}
              /\ UNCHANGED faults
           \/ /\ Current(n)        \* nothing is staged, or the flash refuses it
              /\ IF ota_stream[n].state = "verified" THEN Disturbance("flash")
                 ELSE UNCHANGED faults
              /\ Handles(n, Ack_("error"))
              /\ AirBecomes(n, NoAir, Aborted(ota_stream[n]))
              /\ UNCHANGED <<boot_partition, restarting>>
        /\ UNCHANGED verifiedBy

\* OTA_ABORT of whatever session.
OnAbort(n) ==
    /\ Arrives(n, "abort")
    /\ Handles(n, <<>>)
    /\ AirBecomes(n, NoAir, Aborted(ota_stream[n]))
    /\ UNCHANGED <<boot_partition, restarting, verifiedBy, faults>>

-----------------------------------------------------------------------------
(* Restarts, trials, and what disturbs the fleet. *)

\* A start: RAM is empty and the boot partition runs, a new image on trial; a
\* trial that was cut short is over, and the confirmed image runs again.
BootUnit(u) ==
    /\ ota_stream' = [ota_stream EXCEPT ![u] = Free]
    /\ firmware' = [firmware EXCEPT ![u].running = IF @ = firmware[u].confirmed
                                             THEN boot_partition[u] ELSE firmware[u].confirmed]
    /\ boot_partition' = [boot_partition EXCEPT ![u] = firmware'[u].running]
    /\ restarting' = restarting \ {u}
    /\ IF u = Root
       THEN /\ ota' = NoOta
            /\ view' = [n \in Node |-> [view[n] EXCEPT !.fc = "unknown"]]
            /\ UNCHANGED air
       ELSE /\ air' = [air EXCEPT ![u] = NoAir]
            /\ UNCHANGED <<ota, view>>
    /\ UNCHANGED <<heard, fc, net, history, environment>>

UnitRestarts(u) == u \in restarting /\ BootUnit(u) /\ UNCHANGED faults

UnitLosesPower(u) == Disturbance("power") /\ BootUnit(u)

\* The trial of a new image ends well (OtaImage).
ConfirmTrial(u) ==
    /\ firmware[u].running # firmware[u].confirmed
    /\ firmware' = [firmware EXCEPT ![u].confirmed = firmware[u].running]
    /\ UNCHANGED <<ota, heard, view, air, ota_stream, boot_partition, restarting, fc, net, history,
                   environment, faults>>

Lose(n) ==
    /\ Disturbance("loss")
    /\ \/ down[n] # <<>> /\ down' = [down EXCEPT ![n] = Tail(@)] /\ UNCHANGED up
       \/ up[n] # <<>> /\ up' = [up EXCEPT ![n] = Tail(@)] /\ UNCHANGED down
    /\ UNCHANGED <<ota, heard, view, fleet, history, environment>>

\* All other packets in the queue overtake the first.
Delay(n) ==
    /\ Disturbance("delay")
    /\ \/ Len(down[n]) > 1 /\ down' = [down EXCEPT ![n] = Append(Tail(@), Head(@))]
          /\ UNCHANGED up
       \/ Len(up[n]) > 1 /\ up' = [up EXCEPT ![n] = Append(Tail(@), Head(@))]
          /\ UNCHANGED down
    /\ UNCHANGED <<ota, heard, view, fleet, history, environment>>

\* The USB task of a unit takes the stream for its own and aborts it, unless an
\* upload over USB was begun within 30 seconds (OtaContention); at the root that
\* task also executes the calls above.
UsbTaskAborts(u) ==
    /\ Disturbance("usb")
    /\ ota_stream[u].state = "active"
    /\ u = Root => ota.phase = "open"
    /\ ota_stream' = [ota_stream EXCEPT ![u] = Free]
    /\ UNCHANGED <<ota, heard, view, air, unit, fc, net, history, environment>>

FcChanges(n) ==
    /\ Disturbance("fc")
    /\ fc' = [fc EXCEPT ![n] = IF @ = "armed" THEN "disarmed" ELSE "armed"]
    /\ UNCHANGED <<ota, heard, view, air, ota_stream, unit, net, history, environment>>

\* The root has not heard from a node for too long.
Silence(n) ==
    /\ Disturbance("silence")
    /\ view' = [view EXCEPT ![n].fc = "unknown"]
    /\ UNCHANGED <<ota, heard, fleet, net, history, environment>>

RootStep ==
    \/ Begun \/ GiveUp \/ WindowComplete \/ Repair \/ WindowFails \/ AllVerified
    \/ Activate \/ Commanded \/ NotCommanded \/ Rejoined \/ ActivateRoot

NodeStep(n) ==
    \/ OnBegin(n) \/ OnChunk(n) \/ OnVerify(n) \/ OnActivate(n) \/ OnAbort(n)

FleetNext ==
    \/ \E targets \in SUBSET environment.selectable, own \in BOOLEAN : OtaBegin(targets, own)
    \/ OtaWrite \/ OtaFinish \/ RootStep
    \/ \E n \in Node : NodeStep(n) \/ OnAck(n) \/ Presence(n)
    \/ \E n \in Node : Lose(n) \/ Delay(n) \/ FcChanges(n) \/ Silence(n)
    \/ \E u \in Unit : UnitRestarts(u) \/ ConfirmTrial(u) \/ UnitLosesPower(u) \/ UsbTaskAborts(u)

FleetSpec == FleetInit /\ [][FleetNext]_fleet_vars

\* The waiting loops run against the clock and usb_task closes a silent session:
\* the root never rests.  Nothing is assumed of the nodes or the radio.
FairFleetSpec == FleetSpec /\ WF_fleet_vars(RootStep)

-----------------------------------------------------------------------------
(* Properties. *)

\* Whatever order chunks, repairs and commands arrive in, what a node has written
\* to its flash is a beginning of the image, each chunk once and in its place.
ImageInOrder ==
    \A n \in Node : ota_stream[n].chunks = [i \in 1..Len(ota_stream[n].chunks) |-> i - 1]

\* ACCEPTANCE.md:17-18, "Before all targets verify, no target may select the staged
\* boot partition": no unit boots the image of a session that one of its targets
\* has not verified, however late the commands arrive.
AllVerifyFirst ==
    \A u \in Unit :
        LET session == boot_partition[u]
        IN  session # 0 => targetsOf[session] \subseteq verifiedBy[session]

\* Repair: as long as answers come before the deadlines, as many lost packets as there
\* are rounds of repair do not end a transfer while it sends a window, with one
\* exception: what was last heard of a target is about an earlier window.  Repair
\* takes the slots it names for chunks of this window (airlink_mesh.c:1450) and sends
\* nothing.
LossIsRepaired ==
    [][/\ ota.phase = "window" /\ ota'.phase = "idle"
       /\ environment.prompt /\ faults <= environment.rounds
       => \E n \in ota.targets : heard[n].base \notin {NoBase, ota.base}]_fleet_vars

\* Every transfer ends, whatever the nodes and the radio do: the root does not wait
\* for ever for one of them, and is free for the next transfer.
OtaEnds == ota.phase # "idle" /\ ~environment.prompt ~> ota.phase = "idle"
=============================================================================
