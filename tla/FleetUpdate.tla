----------------------------- MODULE FleetUpdate ----------------------------
(***************************************************************************)
(* The two-phase network update of the AirLink mesh (airlink_mesh.c): the  *)
(* ground root stages a new network configuration, sends PREPARE to every  *)
(* approved air node, waits for all of them, sends COMMIT, and activates   *)
(* its own copy last; each air node stages on PREPARE, activates on COMMIT *)
(* and restarts into the new network a second later.                       *)
(*                                                                         *)
(* Messages arrive in any order, each at most once (ReplayWindow) or       *)
(* never, and only while the receiver still runs the network they were     *)
(* sent on.  Nodes and root restart at any moment; flight controllers arm; *)
(* the operator reprovisions an air node over its own USB or removes it    *)
(* from the approval list between two updates.                             *)
(*                                                                         *)
(* The operator's commands are sequential: one task serves the USB         *)
(* session and is inside airlink_mesh_update_network for the whole update. *)
(* A record and its erasure from the staged pair are one step here;        *)
(* MeshConfigStore takes them apart.  A configuration stands for itself    *)
(* and for its SHA-256 digest.                                             *)
(***************************************************************************)
EXTENDS ABRecords, FiniteSets

CONSTANTS
    Node,           \* the air nodes
    Root,           \* the ground root
    Retry,          \* whether the operator submits a configuration again
    Plans           \* bounds, one plan per behaviour: which nodes are approved, how many
                    \* updates the operator starts, which kinds of disturbance may
                    \* happen and how many of them

Kind == {"fc", "radio", "power", "watchdog", "save", "removal"}
Plan == [approved : SUBSET Node, updates : Nat, faults : [kinds : SUBSET Kind, left : Nat]]

ASSUME NodeAssumption  == IsFiniteSet(Node) /\ Root \notin Node
ASSUME RetryAssumption == Retry \in BOOLEAN
ASSUME PlanAssumption  == Plans \subseteq Plan

VARIABLES
    phase,          \* where airlink_mesh_update_network stands
    txn,            \* s_config_transaction_generation and _digest
    prepared, committed, failed,    \* config_prepared, ... of s_nodes
    approved,       \* nodes on the approval list
    view,           \* what the root last heard of each node
    store,          \* active record of every unit, RAM and NVS (equal: ActiveIsDurable)
    pending,        \* its staged pair in NVS
    running,        \* the network it runs: the configuration it started with
    requested,      \* s_air_pending_generation and _digest of a node
    joined,         \* nodes with s_air_approved set
    fc,             \* what a node's router says of its flight controller
    restarting,     \* nodes with a delayed_restart_task
    msgs,           \* messages in flight
    staged,         \* history: nodes that accepted the running update's PREPARE
    decided,        \* history: records the root has sent COMMIT for
    submitted,      \* configurations the operator has submitted so far
    updates, faults \* what is left of the plan

root == <<phase, txn, prepared, committed, failed, approved, view>>
air  == <<requested, joined, fc, restarting>>
disk == <<store, pending, running>>
history == <<staged, decided, submitted, updates>>
vars == <<root, air, disk, msgs, history, faults>>

Unit == Node \cup {Root}
Fc == {"unknown", "disarmed", "armed"}
Phase == {"idle", "preparing", "ready", "decided", "committing", "activating", "restarting"}
View == [online : BOOLEAN, fc : Fc, generation : Nat]
Request == {"prepare", "abort", "commit"}
Response == {"prepared", "refused", "committed", "commit_failed"}
Message == [kind : Request \cup Response, node : Node, record : Record, network : Value]

Unheard == [online |-> FALSE, fc |-> "unknown", generation |-> 0]

\* A fleet after commissioning: every unit holds the same network under
\* generation 1, the root has approved nodes and has heard nobody yet.
Init ==
    /\ \E plan \in Plans :
          /\ approved = plan.approved
          /\ updates = plan.updates /\ faults = plan.faults
    /\ phase = "idle"
    /\ txn = Unreadable
    /\ prepared = {} /\ committed = {} /\ failed = {}
    /\ view = [n \in Node |-> Unheard]
    /\ store = [u \in Unit |-> Stored(Default, 1)]
    /\ pending = [u \in Unit |-> EmptyPair]
    /\ running = [u \in Unit |-> Default]
    /\ requested = [n \in Node |-> Unreadable]
    /\ joined = {}
    /\ fc = [n \in Node |-> "disarmed"]
    /\ restarting = {}
    /\ msgs = {}
    /\ staged = {} /\ decided = {} /\ submitted = {}

-----------------------------------------------------------------------------
(* The radio. *)

Sent(kind, targets, record, network) ==
    {[kind |-> kind, node |-> n, record |-> record, network |-> network] : n \in targets}

\* A packet is decoded with the key of the network the receiver runs.
Deliverable(m, receiver) == m \in msgs /\ running[receiver] = m.network

\* send_config_control_to_approved reaches for every approved node thought online.
Reachable == {n \in approved : view[n].online}

SendToReachable(kind, record) ==
    msgs' = msgs \cup Sent(kind, Reachable, record, running[Root])

\* send_config_response: the request is consumed and answered.
Reply(m, kind) ==
    msgs' = (msgs \ {m}) \cup Sent(kind, {m.node}, m.record, running[m.node])

Ignore(m) == msgs' = msgs \ {m}

-----------------------------------------------------------------------------
(* The root: airlink_mesh_update_network step by step. *)

\* airlink_mesh_global_safe on the root.
GlobalSafe ==
    /\ approved # {}
    /\ \A n \in approved : view[n].online /\ view[n].fc = "disarmed"

\* One above every generation the root knows of.
NextGeneration ==
    LET known == {store[Root].generation} \cup {view[n].generation : n \in approved}
    IN  1 + CHOOSE g \in known : \A h \in known : h <= g

BeginUpdate(c) ==
    /\ phase = "idle" /\ GlobalSafe
    /\ updates > 0 /\ (Retry \/ c \notin submitted)
    /\ phase' = "preparing"
    /\ txn' = Stored(c, NextGeneration)
    /\ pending' = [pending EXCEPT ![Root] = Written(@, c, NextGeneration)]
    /\ prepared' = {} /\ committed' = {} /\ failed' = {}
    /\ SendToReachable("prepare", txn')
    /\ staged' = {}
    /\ submitted' = submitted \cup {c}
    /\ updates' = updates - 1
    /\ UNCHANGED <<approved, view, store, running, air, decided, faults>>

\* Mutant: nodes that are offline are not waited for.
OnlineNodesReady ==
    /\ \A n \in approved : view[n].online => n \in prepared
    /\ failed \cap approved = {}

\* transaction_nodes_ready while preparing: everybody answered, nobody is lost.
NodesReady ==
    /\ \A n \in approved : view[n].online /\ n \in prepared
    /\ failed \cap approved = {}

RootMoves(from, to) ==
    /\ phase = from
    /\ phase' = to
    /\ UNCHANGED <<txn, prepared, committed, failed, approved, view, air, faults>>

\* The waiting loop ends with all answers in; the lock is released.
ObserveReady ==
    /\ NodesReady
    /\ RootMoves("preparing", "ready")
    /\ UNCHANGED <<disk, msgs, history>>

\* The armed states are checked once more ...
RecheckSafe ==
    /\ GlobalSafe
    /\ RootMoves("ready", "decided")
    /\ UNCHANGED <<disk, msgs, history>>

\* ... and COMMIT goes out under the lock, to whoever is online by then.
SendCommit ==
    /\ RootMoves("decided", "committing")
    /\ SendToReachable("commit", txn)
    /\ decided' = decided \cup {txn}
    /\ UNCHANGED <<disk, staged, submitted, updates>>

\* Mutant: the wrong control message is sent.
AbortByCommit ==
    /\ phase = "ready" => ~GlobalSafe
    /\ RootMoves("preparing", "idle") \/ RootMoves("ready", "idle")
    /\ SendToReachable("commit", txn)
    /\ pending' = [pending EXCEPT ![Root] = EmptyPair]
    /\ UNCHANGED <<store, running, history>>

\* The deadline passes, a node fails or the fleet is no longer safe.
AbortUpdate ==
    /\ phase = "ready" => ~GlobalSafe
    /\ RootMoves("preparing", "idle") \/ RootMoves("ready", "idle")
    /\ SendToReachable("abort", txn)
    /\ pending' = [pending EXCEPT ![Root] = EmptyPair]
    /\ UNCHANGED <<store, running, history>>

\* All acknowledgements, a failed one or the deadline: the root goes on.
EndCommitWait ==
    /\ RootMoves("committing", "activating")
    /\ UNCHANGED <<disk, msgs, history>>

\* airlink_mesh_config_commit_staged of one unit.
Committable(u) ==
    Newest(pending[u]).valid /\ Newest(pending[u]).generation > store[u].generation

CommitStaged(u) ==
    /\ store' = [store EXCEPT ![u] = Newest(pending[u])]
    /\ pending' = [pending EXCEPT ![u] = EmptyPair]
    /\ UNCHANGED running

\* After 1.2 seconds the root activates its own staged record, which nobody else
\* touches; the USB task answers the operator and restarts it.
ActivateRoot ==
    /\ Committable(Root)
    /\ RootMoves("activating", "restarting")
    /\ CommitStaged(Root)
    /\ UNCHANGED <<msgs, history>>

\* A start of the root: RAM is empty, the stored network is joined.
BootRoot ==
    /\ phase' = "idle"
    /\ txn' = Unreadable
    /\ prepared' = {} /\ committed' = {} /\ failed' = {}
    /\ view' = [n \in Node |-> Unheard]
    /\ running' = [running EXCEPT ![Root] = store[Root].value]
    /\ UNCHANGED <<approved, store, pending, air, msgs, history>>

RestartRoot == phase = "restarting" /\ BootRoot /\ UNCHANGED faults

-----------------------------------------------------------------------------
(* The root: what its receive and periodic tasks do meanwhile. *)

\* A CONFIG_RESPONSE that matches the active transaction is noted.
OnResponse(m) ==
    /\ m.kind \in Response
    /\ Deliverable(m, Root)
    /\ Ignore(m)
    /\ LET counts == /\ phase \in {"preparing", "ready", "decided", "committing"}
                     /\ m.record = txn
           Noted(set, kinds) ==
               IF counts /\ m.kind \in kinds THEN set \cup {m.node} ELSE set
       IN  /\ prepared'  = Noted(prepared, {"prepared"})
           /\ committed' = Noted(committed, {"committed"})
           /\ failed'    = Noted(failed, {"refused", "commit_failed"})
    /\ UNCHANGED <<phase, txn, approved, view, air, disk, history, faults>>

\* HELLO and NODE_STATUS of a node arrive, and the node gets the APPROVAL reply.
Presence(n) ==
    /\ running[n] = running[Root]
    /\ view' = [view EXCEPT ![n] = [online |-> TRUE, fc |-> fc[n],
                                    generation |-> store[n].generation]]
    /\ joined' = IF n \in approved THEN joined \cup {n} ELSE joined \ {n}
    /\ UNCHANGED <<phase, txn, prepared, committed, failed, approved,
                   requested, fc, restarting, disk, msgs, history, faults>>

-----------------------------------------------------------------------------
(* An air node: the CONFIG_ branches of process_air_packet. *)

OnPrepare(m) ==
    LET n == m.node
        accepted == /\ fc[n] = "disarmed"
                    /\ m.record.generation > store[n].generation
    IN  /\ m.kind = "prepare"
        /\ Deliverable(m, n)
        /\ \/ /\ n \in joined /\ accepted
              /\ pending' = [pending EXCEPT ![n] =
                                Written(@, m.record.value, m.record.generation)]
              /\ requested' = [requested EXCEPT ![n] = m.record]
              /\ staged' = IF m.record = txn THEN staged \cup {n} ELSE staged
              /\ Reply(m, "prepared")
           \/ /\ n \in joined /\ ~accepted
              /\ Reply(m, "refused")
              /\ UNCHANGED <<pending, requested, staged>>
           \/ /\ n \notin joined
              /\ Ignore(m)
              /\ UNCHANGED <<pending, requested, staged>>
        /\ UNCHANGED <<root, joined, fc, restarting, store, running,
                       decided, submitted, updates, faults>>

OnAbort(m) ==
    LET n == m.node
    IN  /\ m.kind = "abort"
        /\ Deliverable(m, n)
        /\ Ignore(m)
        /\ IF m.record = requested[n]
           THEN /\ pending' = [pending EXCEPT ![n] = EmptyPair]
                /\ requested' = [requested EXCEPT ![n] = Unreadable]
           ELSE UNCHANGED <<pending, requested>>
        /\ UNCHANGED <<root, joined, fc, restarting, store, running, history, faults>>

\* Mutant: a COMMIT that does not match is acknowledged all the same.
OnCommitAlwaysOk(m) ==
    LET n == m.node
    IN  /\ m.kind = "commit"
        /\ Deliverable(m, n)
        /\ Reply(m, "committed")
        /\ IF m.record = requested[n] /\ Committable(n)
           THEN CommitStaged(n) /\ restarting' = restarting \cup {n}
           ELSE UNCHANGED <<disk, restarting>>
        /\ UNCHANGED <<root, requested, joined, fc, history, faults>>

\* COMMIT is checked against the request only: neither the approval nor the
\* armed state is looked at again.
OnCommit(m) ==
    LET n == m.node
    IN  /\ m.kind = "commit"
        /\ Deliverable(m, n)
        /\ IF m.record = requested[n] /\ Committable(n)
           THEN /\ CommitStaged(n)
                /\ restarting' = restarting \cup {n}
                /\ Reply(m, "committed")
           ELSE /\ Reply(m, "commit_failed")
                /\ UNCHANGED <<disk, restarting>>
        /\ UNCHANGED <<root, requested, joined, fc, history, faults>>

\* A start of an air node: RAM is lost, the stored network is joined.  For the
\* first three seconds airlink_router_fc_seen is true although nothing was heard.
BootNode(n) ==
    /\ running' = [running EXCEPT ![n] = store[n].value]
    /\ requested' = [requested EXCEPT ![n] = Unreadable]
    /\ joined' = joined \ {n}
    /\ fc' \in {[fc EXCEPT ![n] = s] : s \in {"unknown", "disarmed"}}
    /\ restarting' = restarting \ {n}
    /\ UNCHANGED <<root, store, pending, msgs, history>>

\* delayed_restart_task.
DelayedRestart(n) == n \in restarting /\ BootNode(n) /\ UNCHANGED faults

\* A disarmed heartbeat of the flight controller.
HearDisarmed(n) ==
    /\ fc[n] # "disarmed"
    /\ fc' = [fc EXCEPT ![n] = "disarmed"]
    /\ UNCHANGED <<root, requested, joined, restarting, disk, msgs, history, faults>>

-----------------------------------------------------------------------------
(* Disturbances, bounded by the plan. *)

Fault(kind) ==
    /\ kind \in faults.kinds /\ faults.left > 0
    /\ faults' = [faults EXCEPT !.left = @ - 1]

\* An armed heartbeat, or three seconds without any; the latch of an armed state
\* outlasts the silence.
FcUnsafe(n) ==
    /\ Fault("fc")
    /\ fc[n] # "armed"
    /\ fc' \in {[fc EXCEPT ![n] = s] : s \in {"unknown", "armed"}}
    /\ UNCHANGED <<root, requested, joined, restarting, disk, msgs, history>>

\* The node's MESH_EVENT_PARENT_DISCONNECTED, or, at the root, its five silent
\* seconds (periodic_task).
Disconnect(n) ==
    /\ Fault("radio")
    /\ n \in joined
    /\ joined' = joined \ {n}
    /\ UNCHANGED <<root, requested, fc, restarting, disk, msgs, history>>

NodeLost(n) ==
    /\ Fault("radio")
    /\ view[n].online
    /\ view' = [view EXCEPT ![n].online = FALSE, ![n].fc = "unknown"]
    /\ UNCHANGED <<phase, txn, prepared, committed, failed, approved,
                   air, disk, msgs, history>>

PowerLossNode(n) == Fault("power") /\ BootNode(n)
PowerLossRoot == Fault("power") /\ BootRoot

\* usb_task is inside airlink_mesh_update_network and resets its task watchdog only once
\* per loop: an answer that stays out for five seconds panics and restarts the root, which
\* the 10 s of the deadline do not prevent.
WatchdogReset ==
    /\ Fault("watchdog")
    /\ \/ phase = "preparing" /\ ~NodesReady
       \/ phase = "committing" /\ ~(approved \subseteq committed)
    /\ BootRoot

\* "mesh import" on the node's own USB; it runs on until its next restart.
LocalSave(n, c) ==
    /\ Fault("save")
    /\ fc[n] # "armed"
    /\ store' = [store EXCEPT ![n] = Stored(c, store[n].generation + 1)]
    /\ UNCHANGED <<root, air, pending, running, msgs, history>>

\* airlink_mesh_remove_node between two updates.
RemoveNode(n) ==
    /\ Fault("removal")
    /\ phase = "idle" /\ n \in approved
    /\ approved' = approved \ {n}
    /\ UNCHANGED <<phase, txn, prepared, committed, failed, view, air, disk, msgs, history>>

RootStep ==
    \/ ObserveReady \/ RecheckSafe \/ SendCommit \/ AbortUpdate
    \/ EndCommitWait \/ ActivateRoot \/ RestartRoot

Next ==
    \/ \E c \in Value : BeginUpdate(c)
    \/ RootStep
    \/ \E m \in msgs : OnResponse(m) \/ OnPrepare(m) \/ OnAbort(m) \/ OnCommit(m)
    \/ \E n \in Node :
          \/ Presence(n) \/ HearDisarmed(n) \/ DelayedRestart(n)
          \/ FcUnsafe(n) \/ Disconnect(n) \/ NodeLost(n)
          \/ PowerLossNode(n) \/ RemoveNode(n)
          \/ \E c \in Value : LocalSave(n, c)
    \/ PowerLossRoot \/ WatchdogReset

Spec == Init /\ [][Next]_vars

-----------------------------------------------------------------------------
(* Properties. *)

TypeOK ==
    /\ phase \in Phase /\ txn \in Record
    /\ prepared \subseteq Node /\ committed \subseteq Node /\ failed \subseteq Node
    /\ approved \subseteq Node
    /\ view \in [Node -> View]
    /\ store \in [Unit -> Record]
    /\ pending \in [Unit -> Pair]
    /\ running \in [Unit -> Value]
    /\ requested \in [Node -> Record]
    /\ joined \subseteq Node /\ restarting \subseteq Node
    /\ fc \in [Node -> Fc]
    /\ msgs \subseteq Message
    /\ staged \subseteq Node /\ decided \subseteq Record /\ submitted \subseteq Value
    /\ updates \in Nat /\ faults \in [kinds : SUBSET Kind, left : Nat]

\* docs/MESH.md: "Network changes are prepared on every node before a commit is
\* sent": when COMMIT goes out, every approved node has staged this update's
\* record.  (It may have lost it to a restart or been reprovisioned since.)
CommitFollowsPrepare ==
    phase = "committing" => approved \subseteq staged

\* No air node ever activates a record the root has not decided to commit, above
\* all none that an aborted update left behind in the staged pair; only a save
\* over the node's own USB changes its configuration otherwise.
OnlyDecidedActivates ==
    [][ \A n \in Node :
          store'[n] # store[n]
          => store'[n] \in decided \/ \E c \in Value : LocalSave(n, c) ]_vars

\* An acknowledged COMMIT is durable: while the root counts it, the node's stored
\* configuration is the committed one, or one saved over it since.
AcknowledgedIsStored ==
    \A n \in committed :
        \/ store[n] = txn
        \/ store[n].generation > txn.generation

\* The root does not stay behind a fleet it has told to go over (the comment in
\* airlink_mesh_update_network: missing acknowledgements must not make the root
\* keep the old network): once COMMIT is sent, the command ends with the record
\* active at the root, unless the root loses its power.
RootKeepsPace ==
    [][ phase # "idle" /\ phase' = "idle" /\ txn \in decided
        => store'[Root] = txn \/ PowerLossRoot ]_vars
=============================================================================
