# AirLink: a TLA+ verification project

AirLink is the firmware of a flight-controller telemetry bridge (ESP32, C).  A
*ground root* and up to eight *air nodes* form an encrypted mesh; each air node
carries the MAVLink traffic of one flight controller, over a UART or through a
DroneCAN tunnel.  Without a mesh, one *air unit* serves ground stations over
Wi-Fi, among them a *ground unit* that bridges to USB.  This directory models the
parts of the firmware whose correctness depends on the order in which packets,
bytes, power losses, restarts and operator commands arrive.

## 1. Inventory

| Component (source) | State | Operations | Hard behaviour | What makes it correct |
|---|---|---|---|---|
| Packet codec (`airlink_mesh_codec.c`) | transmit session and sequence; per peer: session, highest sequence, 64-bit window, ring of retired sessions | encode, decode | lost, late, repeated packets; restarts of either side | a packet is processed at most once; first copies are not refused; the live sender is never shut out |
| Mesh configuration store (`airlink_mesh_config.c`) | active and staged configuration in A/B keys of NVS, a generation, a copy in RAM | save, stage, commit, abort, reset, init | power loss inside a write, between a write and an erasure, saves inside a transaction | behaves as one atomic register; commits what was staged |
| Approval list and node table (`airlink_mesh_config.c`, `airlink_mesh.c`) | A/B approval list, `s_nodes` | HELLO, NODE_STATUS, approve, remove, expire, start | the same fields written by packets, operator, timers and by other nodes' packets | only durably approved, unambiguous nodes feed the bus |
| Two-phase network update (`airlink_mesh.c`) | `s_config_*` at the root, `s_air_pending_*` at nodes, staged records | begin, PREPARE, answers, COMMIT, ABORT, activation | loss, reordering, restarts, arming, local saves, deadlines, the task watchdog | order of the decision, durability of acknowledgements, the root follows |
| Node configuration exchange (`airlink_mesh.c` 1235-1310) | one pending operation with a token | read, write, reboot | late answers, unlocked writes, other editors | an answer belongs to its question; a reported write is durable |
| Fleet OTA (`airlink_mesh.c` 553-672, 1312-1657) | window of acknowledged chunks, targets, activation order | begin, data, repair, verify, activate, abort | loss, stale acknowledgements, silent or armed nodes | images in order; nobody boots before everybody verified; termination |
| OTA stream and rollback (`airlink_ota.c`) | one stream, a rollback deadline, health heartbeats | begin, write, finish, abort, confirm | competing uploads, a deadline racing a heartbeat | one writer; only verified images boot; unhealthy images roll back |
| Base configuration (`airlink_config.c`, `airlink_provision.c`) | A/B records, identity, provisioning record | init, save, set identity, reset | several records per operation | no promised password is lost; what runs is stored |
| MAVLink router (`airlink_router.c`, `airlink_mavlink.c`) | endpoints with a parser each, 32-frame de-duplication ring, arming latch | register, unregister, ingest, observe | split frames, bursts, several heartbeats | repeats and nothing else held back; the latch follows the autopilot |
| Wi-Fi (`airlink_wifi.c`) | TCP/UDP client tables, unit-to-unit bridge, station state | accept, send, expire, connect | tasks sharing clients, half-open connections | no call into a dead client; whole frames in order; the bridge recovers |
| UART and DroneCAN (`airlink_uart.c`, `airlink_can.c`, `libcanard`) | priority queues, packet under way, transfer ids, receive state | enqueue, transmit, receive | drop-oldest against a running drain, starvation, lost frames | priorities without starvation, no torn packets, resynchronisation |
| USB (`airlink_usb.c`, `airlink_stream.c`) | escape matcher, session, buffers, reset window | multiplex, session, requests | the sequence inside traffic, a vanished host | no byte lost to the escape; two users never mix; sessions end |
| Web (`airlink_web.c`) | - | thin wrappers | uploads and edits beside other tasks | covered with what they wrap |
| LED, diagnostics, board, factory, start-up, host tools | - | hardware I/O, text | - | - |

How they interact.  The receive task decodes packets (codec) and calls the node
table, the two-phase update, the exchange and the OTA handlers under `s_lock`;
the USB task runs the operator's commands, which take the same lock for short
sections and poll between them.  They reach the two configuration stores.  The
node table tells the router which endpoints feed the shared bus; the router
tells the update, the exchange and the OTA whether a flight controller is armed.
UART, CAN, Wi-Fi and USB tasks all feed the router, whose send callbacks run under
its lock in the task that received the frame.  Every restart (power loss, the
one-second delayed restart of a node, the root's own, a watchdog panic) empties
RAM and reads the stores back.

The hazards of this code, with the line where each bites, are listed in
`PROJECT.json`; a hazard no property covers says why.

## 2. Plan

| Step | Module | State |
|---|---|---|
| 1 | `ReplayWindow` - codec sessions and window | checked, proved |
| 2 | `ABRecords`, `MeshConfigStore` - A/B records, active and staged configuration | checked, proved |
| 3 | `AtomicConfig` - what the store promises, refined by `MeshConfigStore` | checked, refinement proved |
| 4 | `MeshRegistry` (on `ABRecords`) - node table and approval list | checked, proved |
| 5 | `FleetUpdate` (on `ABRecords`) - the two-phase update over lossy messages | checked, proved |
| 6 | `OtaImage`, `OtaContention` - the upload stream, the trial of a new image, two uploaders | checked, safety of `OtaImage` proved |
| 7 | `MeshOta` - the fleet OTA | checked; `ImageInOrder` and `AllVerifyFirst` proved |
| 8 | `AppConfigStore` (on `ABRecords`), composed with the exchange, the console and the web server in `NodeConfig` | checked, proved; so is that `NodeConfig` implements `AppConfigStore` |
| 9 | `PacketQueues`, `CanTunnel` - priority queues and DroneCAN tunnel | checked, safety proved |
| 10 | `Router`, composed with Wi-Fi in `Telemetry` | checked, safety proved |
| 11 | `UsbSession` - the USB line | checked, safety proved |

Worth doing next: the proof of `LossIsRepaired`; the scan of
`airlink_ota_stream_verify` split against the USB task; transparent mode.

## 3. Modules and code

**`ReplayWindow`** is one receiver of one sender.  `session` and `next_sequence`
are the sender's, `window` is the receiver's `airlink_mesh_replay_window_t`, field
by field, with the 64-bit bitmap as a set of distances below `WindowSize` and the
ring of three retired sessions with `RetiredSlots` entries; `replay_accept`
(`airlink_mesh_codec.c` 99-139) is split into its branches.  Every packet sent may
arrive at any later time, repeatedly or never; where `late` is FALSE the network
forgets the packets of an ended session.  Encryption is modelled by its effect:
only packets the sender produced are decoded.

**`ABRecords`** is the pair of NVS keys every store uses: `Newest` (the loader's
choice), `SlotOf` (generation parity), `Written`, and `Interrupted`, the outcomes
of a write that loses power: nothing happened, it happened, and, with torn
writes, the record under that key is unreadable.

**`MeshConfigStore`** has `mesh` and `pending` (the four NVS keys), `s_config` and
`s_generation` (RAM).  One action per operation of `airlink_mesh_config.c`, one
per point where the power may fail inside it.  The request a COMMIT is compared
with lives in the caller; `requested` stands for it.  **`AtomicConfig`** is its
abstract specification: one register with a generation and at most one offer.
The refinement maps the register to RAM while there is power and to the newest
record while there is none, and the offer to `requested`.

**`MeshRegistry`** has one function of the MAC address per field of `node_slot_t`,
`rank` being the table order (0: no slot).  `Hello`, `Status`, `OtherPacket` are
the branches of `process_root_packet`, `Expire` is `periodic_task`, `Approve`,
`ApproveAbsent` and `Remove` the operator's commands with `save_approvals_locked`
inside.

**`FleetUpdate`** follows `airlink_mesh_update_network` statement by statement:
`BeginUpdate` (checks, staging, PREPARE), `ObserveReady`, `RecheckSafe` and
`SendCommit` (three separate looks at shared state), `AbortUpdate`,
`EndCommitWait`, `ActivateRoot`, `RestartRoot`.  `OnPrepare`, `OnAbort` and
`OnCommit` are the node's branches, `OnResponse` and `Presence` the root's.  A
message is delivered at most once (what `NeverProcessedTwice` states) and only
while its receiver runs the network it was encrypted for.  Power losses, lost
parents, arming, `mesh import` at a node, removals and the watchdog of the USB
task are disturbances.  A record and the erasure of its staged pair are one
step, `MeshConfigStore` takes them apart.

**`MeshOta`** is the root's transfer (`ota`, what it `heard` and its `view`), each
node's `s_air_ota`, and the `stream`, `boot` partition and running `image` of every
unit.  Packets travel in two queues per node; `Lose` and `Delay` disturb them.
Root steps are the calls of the USB host (`Begin`, `Write`, `Finish`), the waiting
loops (`Begun`, `Repair`, `WindowFails`, `GiveUp`, ...) and
`root_ota_activation_task` (`Activate` to `ActivateRoot`, target after target by
layer and slot); node steps are the branches of `process_air_packet`.  A
`prompt` environment is one whose deadlines pass only when nothing is under way;
in the others they may pass at any moment.

**`OtaImage`** is one unit: the two partitions and otadata, the stream
`s_stream`, `usb_task` as its user (`UsbClaim` and `UsbOpen` are the two sides of
the compare-and-swap), the two tasks of the trial.  `status_task` takes one step
per atomic load or store, because the confirmation task of higher priority may
interrupt it anywhere; the confirmation task takes one step per second, because
the ESP32-C5 has one core and nothing interrupts it.  `Tick` lets a second pass
when the confirmation task has run and the watchdog has been fed.  A rollback that
fails is tried again in the next second, at most `Refusals` times.  `Boot` is the
bootloader, external, as is what `esp_ota_begin` refuses.  **`OtaContention`** adds
the request handler of the web server on the same stream (`WebClaim` to
`WebReboot`) and what `usb_task` does to a stream that is not its own.

**`AppConfigStore`** is the base configuration reduced to the two fields its three
records decide, serial number and password.  Start-up is four steps (`Boot`, the
merge; `EraseProvision`; the save in `FinishBoot`), the factory command two, and
power may fail between any of them or inside a write.  `promised` is the history
of passwords the operator may rely on.  **`NodeConfig`** composes it with everybody
who changes it: the root's exchange over the radio (`Ask`, `OnResponse`,
`WriteBack`, `Returns`), the packet handlers of the node, the configuration
transaction of its console (`ConfigBegin` to `ConfigAbort`), and the editors that
read, change and save the whole record in two steps.

**`PacketQueues`** is the pair of transmit queues of `airlink_uart.c`, whose code
`airlink_can.c` repeats.  The router replaces the oldest packet of a full queue in
three calls (`QueuePacket`, `DiscardOldest`, `SendAgain`), the transmit task may take
packets between them.  **`CanTunnel`** extends it with `can_task` (`SendChunk`,
`Keepalive`, `Drain`), libcanard's priority queue and the interrupts (`TxDone`), and
with `canardHandleRxFrame` at the other end (`HandleRxFrame`, by its branches).  A
payload is the pieces put together; its CRC matches exactly when they are all
those of one transfer.

**`Router`** is `airlink_router_ingest` with a parser per endpoint.  A frame crosses
a link in two halves, so that reads and losses can cut it.  **`Telemetry`** composes
the routers of an air and a ground unit with the network task (`AcceptTcp`,
`CloseTcp`, `ServiceTcpTx`, the UDP clients), the bridge task, station events and
TCP links.  Steps where another task may come between two statements are apart:
`CloseTcp` and `FreeTcp`, `BridgeDisconnect` and `BridgeCleared`, registration and
the flag that follows it.

**`UsbSession`** is `usb_task` loop by loop: `Top`, a read of any length (`ReadMavlink`,
`ReadSession`, `ReadNothing`), `LeaveMavlink` and `OpenSession` (between which the
router may still send), the tokens of a read one at a time, and the requests as
far as the session answers for their effects.  The configuration transaction is
in `NodeConfig`, the image upload in `OtaContention`.  The router always has room
for the USB endpoint again: a root registers at most 11 of 16.

`MC...` modules give the bounds.  Operators whose comment starts with "Mutant" are
wrong variants of the definition below them; they are used to see that a property
notices such a bug.  `...Proofs` modules hold the theorems.

## 4. Runs

| Run | Question | Bounds |
|---|---|---|
| `Replay` | Is any packet processed twice, or a first copy refused, or the live sender locked out? | window of 2, ring of 2, 5 sequence numbers; 3 sessions with late packets, 4 without |
| `StoreUnit` | Does the store behave as one atomic register under torn writes and interrupted erasures? | 3 configurations, 5 generations: each key is overwritten twice |
| `RegistryIdentity` | Who feeds the bus, which approvals survive, who is isolated? | 3 addresses for 2 slots, 2 serials, 2 system ids, 3 list generations |
| `Fleet` | Does COMMIT follow a PREPARE by everybody, is an acknowledged COMMIT stored, is anything aborted activated? | 2 nodes, 1 update, any disturbance; 1 node, 2 updates, any 2 disturbances but removals |
| `FleetWatchdog` | Does the root follow its COMMIT? (violated) | 1 node, 1 update, its answer may stay out |
| `FleetOta` | Is the image written in order, booted only after all verified it, repaired; does a transfer end? | 2 nodes in a chain and the root, 2 chunks per window, 3 chunks; 3 repair rounds as in the code and 3 lost packets where deadlines pass only when nothing is under way, else 1 round and any one disturbance, for one transfer to any targets or two to one |
| `RemoteConfig` | Do credentials survive, is what runs stored, is what the root reports true? | 2 passwords, 1 serial; 5 disturbances in the workshop, or 3 exchanges and reboots with one, 2 with two disturbances |
| `OtaTrial` | What runs after uploads, restarts and trials; when is a trial passed, failed, over? | 2 chunks; times 6, 12, 2 and 3 for 30 s, 60 s, 3 s and 5 s; a rollback may fail once |
| `OtaShared` | Does an HTTP upload fail only for a cause of its own? (violated) | the same |
| `CanTunnel` | Priorities, order and integrity of the tunnel, and does the receiver resynchronise? | 4 packets without faults, 3 with one, 2 with two, queues of 2 and 1; 2 chunks of 4 frames; 4 transfer ids |
| `Telemetry` | De-duplication, whole frames in order, no dead client, no old queue, the latch, does the bridge come back? | 2 TCP and 2 UDP slots, 3 connections, queues of 2, up to 4 frames, up to 2 disturbances, an overflow of the UART with and without a bridge |
| `UsbSession` | Is the escape recognised and no byte lost; do users mix; does a session end and leave nothing behind? | up to 4 writes of the host, each read in any cut, 1 disturbance |

Why the bounds are enough.  The window only compares distances with
`WindowSize`; one more than the size reaches every branch, and the theorems cover
every size.  The stores alternate between two keys, so the third generation
overwrites the first and five pass through every arrangement.  Duplicate
isolation is decided pair by pair, so two slots show each case; the third address
fills the table.  One node suffices for hazards between two updates of the same
node, two for those between nodes.  Three chunks are a full and a short window,
so that chunks of one arrive in the other; a chain has a leaf that must go first.
The rounds of repair count for `LossIsRepaired` only, which is about environments
whose deadlines pass when nothing is under way: these have the 3 rounds of the code
and as many losses.
The times of `OtaTrial` keep their order and the deadline stays twice the window.
Four transfer ids let them wrap, four frames give a transfer a middle; a `NodeConfig`
exchange that is late meets the next one with two.  A link holds a whole frame and
no more, so sends are cut and stall; a third connection lets a new one arrive while
two stand.  The escape sequence of three tokens keeps the only structure the
matcher depends on, equal first bytes that also occur in telemetry.
`CHECK_DEADLOCK FALSE` stands where a bounded environment really ends.

`TypeOK` of the replay window, the stores, the registry, the update and the OTA image
is proved (section 6), so no run repeats it.

**Fairness.**  `FairSpec` of `MeshOta` assumes weak fairness of the root's waiting
loops and activation task only: they run against the clock, and `usb_task` closes
a session that is silent for a minute.  Nothing is assumed of nodes, radio or
host.  `FairSpec` of `OtaImage` assumes weak fairness of the confirmation task with
the clock and the watchdog: the task wakes by a timer, and the few tasks of higher
priority block for their input.  In `CanTunnel` it is `can_task`, the interrupt that
follows a frame (CAN repeats it until it is acknowledged), the receiving task and
the router's next call; in `Telemetry` the branches of the two task loops, which a watchdog supervises and
which serve every client in each round, and the reconnection while the air unit
is in reach; in `UsbSession` `usb_task` (priority 19) and time.  The environments
are finite, so disturbances end.

## 5. What the code does against its documentation

Found by a run:

- **`FleetWatchdog`**  The root waits for the fleet inside a request of `usb_task`,
  whose task watchdog (5 s, with panic, `sdkconfig.defaults` 20-23) is reset once per
  loop only.  An acknowledgement of COMMIT that is lost restarts the root before it
  activates its own copy, although a comment (`airlink_mesh.c` 1223-1225) says that
  missing acknowledgements must not make it keep the old network.  `airlink_mesh_ota_finish`
  (15 s) and `airlink_mesh_ota_begin` wait in the same way.
- **`OtaShared`**  `usb_task` takes any active stream for its own
  (`airlink_usb.c` 1296-1312).  Its deadline is only set by "ota begin" over USB, so
  an HTTP upload is aborted by the first 20 ms without a USB byte, and typed bytes
  are written into the image; `README.md` 87 offers the upload over HTTP.  The fleet
  OTA uses the same stream on every air node and, with the root included, at the
  root (`UsbTaskAborts` in `MeshOta`).

Seen while modelling, and left out of the runs' premises or properties:

- A HELLO recomputes the isolation from the approval list alone (`airlink_mesh.c`
  472), so a node isolated for a duplicate system id is back on the bus at its next
  HELLO; `docs/MESH.md` 26 says the isolation persists.
  `Hello` of `MeshRegistry` has this behaviour and no property claims the contrary.
- COMMIT is not checked against the armed state (752-763), only PREPARE is;
  `README.md` 67 says configuration changes are protected while armed.
- Answers are matched by generation and digest (519-524), and a configuration
  submitted again after an abort reuses both: with `Retry = TRUE` TLC refutes
  `CommitFollowsPrepare`.
- `airlink_mesh_config_commit_staged` (259) activates the newest staged record, not
  the one COMMIT names; when an ABORT is lost and the next update uses a lower
  generation of the other parity, because the node that had raised it was removed
  in between, the aborted configuration is activated.  `Fleet` allows no removal
  between two updates for that reason.
- The root keeps every acknowledgement of the session, whatever window it is of
  (`airlink_mesh.c` 526-532), and `Repair` resends what the bitmap lacks without a
  look at its base (1450).  When an acknowledgement of the window before comes last,
  every round resends nothing and the transfer fails, although chunks of the current
  window are missing.  It takes three losses with the three rounds of the code: both
  acknowledgements of window 0 are lost, the repair resends its two chunks, the first
  of the two new acknowledgements ends the window, the only chunk of the next one is
  lost, and then the second arrives.  `LossIsRepaired` says that only this makes a
  transfer fail that lost no more packets than there are rounds; with FALSE for its
  conclusion TLC shows the trace.
- libcanard tells transfers apart by an id of five bits.  A single-frame transfer is
  delivered under any id and sets what is expected next, so after a gap of almost a
  round of ids a whole transfer can look like a repeat.  `WholeTransfersArrive`
  is therefore about transfers less than a round after the newest delivered one
  (`IdsNeverWrapped`).
- `airlink_config_init` (423) erases the provisioning record before its password is
  saved: power that fails in between loses the password (`Faults` with `"window"`
  makes TLC refute `CredentialsKept`); `src/README.md` 58-59 says "after first use".

## 6. Proofs

The theorems hold for every value of the constants that satisfies the named
assumptions.  Each rests on the inductive invariant named with it.

| Module | Theorem | Argument |
|---|---|---|
| `MeshReceiverProofs` (`ReplayWindow`) | `TypeCorrect`, `FirstCopyAlwaysAccepted` | `highest` and `window` are exactly the accepted sequence numbers of the current session within reach (`IInv`); without that relation, a refusal could not be traced to an earlier acceptance |
| | `NeverProcessedTwice` | sessions are started in order and the ring holds every ended one; assumes that the sender uses at most one session more than the ring has entries (beyond that the ring forgets, and the code really accepts a repeat) |
| | `SenderIsHeard` | `LiveInv`: without late packets the window knows no session that was not drawn, the ring none that is running, and no sequence number that was not sent |
| (`MeshRegistry`) | `RegistryTypeCorrect`, `ApprovalListIsDurable`, `ApprovalListNeverRollsBack`, `BusIsTrusted` | `TrustInv`: an endpoint implies approval, no isolation and an entry in the RAM list, which `ListInv` ties to NVS |
| | `FirstNodeIsSpared` | ranks are distinct (`RanksDistinct`), so of two approved nodes with one system id the status check meets the later one |
| `ABRecordsProofs` | lemmas | what a write, an erasure and an interrupted write do to `Newest` |
| `MeshConfigStoreProofs` | `StoreTypeCorrect`, `RunningIsDurable`, `PowerLossNeverRollsBack`, `CommitsWhatWasStaged` | `DurableInv`: well-formed pairs (`generation` parity decides the key) and RAM equal to the newest durable record; assumes `WritesAreSafe`: writes are atomic, or generations advance one by one.  Without it the record a torn write destroys may be the current one |
| | `StoreImplementsAtomicConfig` | `StoreInv` adds that the newest committable record of the staged pair is `requested`, whatever earlier transactions left; then each step is a step of `AtomicConfig`, and erasures and start-ups of the staged pair are stutters.  Assumes `Jumps = {1}`, as updates of a node that follows its root do |
| `FleetUpdateProofs` | `FleetTypeCorrect` | types alone; the next generation exists because the generations known are finitely many |
| | `CommitAfterPrepare` | `PrepareInv`: no two updates use the same record (assumes `~Retry`), so an answer that matches the running update was given to its own PREPARE; every node counted has staged |
| | `AcknowledgedIsDurable` | `AckInv`: generations in a store only grow, and every acknowledgement in flight or counted names a record its node stores or has passed |
| | `OnlyDecidedIsActivated` | `DecidedInv`: no generation anywhere exceeds what the root will know when it begins the next update, so a decided record is above every record an aborted update left at a node.  Assumes `~Retry` and `RemovalComesLast`; without either TLC refutes it (section 5) |
| `OtaProofs` (`OtaImage`) | `OtaTypeCorrect`, `OnlyCheckedImagesRun` | `FlashInv`: the selected partition runs or waits, checked, for its restart, and no stream is open during a trial; a power loss at any point is then a case of one lemma on restarts.  Rests on what the external bootloader and `esp_ota_begin` do |
| | `ConfirmsAfterWindow` | `HealthInv`: a start of the window that counts is not older than the last unhealthy report, whichever stores are outstanding |
| | `RollsBackForCause` | `TrialInv`: until it is over the trial has not been healthy for the window and the watchdog time, or a confirmation has failed |
| (`MeshOta`) | `TransferIsConsistent`, `NoBootBeforeVerification`, `FlashInOrder` | `TransferInv`: every packet, answer and count belongs to a session that was begun, a target counted as verified has verified, and what a node holds is a beginning of the image; an activation packet then exists only when all have verified |
| `NodeConfigProofs` | `RunningConfigIsStored` | `StoreInv` with `BootInv`: while start-up runs, `todo` says what is missing, and what is missing is written one generation above the newest record |
| | `ReportedWriteIsDurable` | `ReportInv`: an answer that counts for a write was given to that very write, after it was saved, because tokens are not drawn twice; generations of readable records only grow |
| | `CredentialsAreKept` | `CredentialsInv`: what a start-up would load, from any intermediate state of the three records, has a promised password (`DiskKept`).  Assumes `"window" \notin Faults` (section 5) |
| | `ReadIsCurrent` | `CurrentInv`: what a read answers was run by the node after the question (`RunsInRan`) |
| | `EditingImplementsStore` | refinement, without a mapping: each step of an editor is a step of `AppConfigStore` or leaves the records alone |
| `TelemetryProofs` | `TelemetryTypeCorrect`, `ClientsAlive`, `QueueIsOfThisConnection` | `TelemetryInv`: the router knows exactly the clients in use but for the moment one is made or deleted (`task`), and the bridge is an endpoint while it has a connection.  Assumes `SideAssumption` (which endpoints lead to the vehicle) |
| | `DisarmedOnlyByAutopilot` | `AutopilotInv`: a unit that is armed knows a system other than 0.  Assumes `EnvironmentAssumption`: MAVLink sends from no system 0 |
| | `OnlyRepeatsHeldBack` | `RingInv`: the ring is the end of the routed part of the history, in its order |
| | `FramesStayInOrder` | `WayInv`, per unit a line (`Line`) of frames routed, halves under way and frames queued.  Frames stay in order across connections because a station has one client, accepted links come before those in the backlog and these in its order (`Sooner`), and the bridge sends on the last of its links (`Connections`, `UpInv`); what a stale link still holds is therefore older than anything a later one carries.  As the property, it is about environments without UDP, which may reorder datagrams |
| `LinkProofs` (`UsbSession`) | `LineNeverShared`, `TransferNeverOrphaned` | `LineInv`: the router forgets the endpoint before the queue is emptied and the mode changes last, so nothing can be queued in between; a transfer is received only in a session, and every way out of one aborts it |
| | `HostBytesInOrder`, `EscapeAlwaysRecognised` | `StreamInv`: what was given away, what the matcher holds and what is still to be read are together what the host wrote; the matcher holds the longest suffix that begins the escape.  Assumes `HostAssumption` |
| (`PacketQueues`, `CanTunnel`) | `NormalsServed` | `ServedInv`: the burst counter is the number of high packets since the normal one waits |
| | `PacketsStayWhole` | `ChunksInv`: a packet under way is in no queue and is the last on the bus |
| | `TransfersInOrder` | `OrderInv`: frames under way are in the order of their transfers, and the CRC ties what is put together to its last frame |
| | `WholeTransfersDelivered` | `TrackInv`: what is on its way follows what was taken without a gap, and the receiver expects an id between the newest delivery's and the next one's |

Only model-checked, because it is liveness under fairness: `OtaEnds`, `TrialEnds`,
`QueuesDrain`, `BridgeRecovers`, `SessionEnds`, `NothingHeldBack`.  One
safety property is not proved yet: `LossIsRepaired` needs a count, since each round
of repair that leaves a chunk missing has lost a packet of its own.
What recursive definitions compute (the loop of `airlink_router_ingest`,
`FlattenSeq`) is proved by well-founded induction over prefixes, since the
induction theorems that take an operator cannot be used.

## 7. Not modelled

JSON import and export, field validation, cryptography, the radio driver and
formatting are data or external.  A failing NVS call is a step that changes
nothing; the partial failure of an erasure (`airlink_mesh_config.c` 268) is open.
Status packets of a node arrive in order.  The scan of `airlink_ota_stream_verify`
is one step.  Transparent routing copies bytes without frames and has no state
beyond the endpoints.  Discovery, channel and country selection, Wi-Fi scans, DNS
names and status output neither guard nor change what the modules are about.
The router's statistics, bus-off recovery and passive observation of the CAN
driver, the UART driver's event queue (whose overflow is the lost half of
`UartRx`) and factory-test transmission are left out, and so is
`approved_group`, which reads `s_nodes` without its lock.
libcanard's refusal of a received frame for want of a block (`canard.c` 444-447,
558-563, 573-578) is left out: it costs the transfer, as a frame lost before the
receive queue does, which is modelled.  The router compares a CRC32 of frames and
`Router` the frames themselves.  Registration of an endpoint cannot fail in Wi-Fi
mode, where at most 14 of the router's 16 slots are used, so `AcceptTcp` has no such
path; it closes stale clients before it accepts, where the code does so just after,
in the same call.  `RestoreMavlink` is one step, as other tasks see the line only
through the registration that ends it.

Smaller things of the USB task that no property is about: the frame buffer is not
emptied when a session ends without its host, so the first request of the next one
is lost; bytes after a close frame in the same read are dropped; any byte, also of
a broken frame, refreshes the 60 s of a session; a stream opened with the root as a
target makes `usb_task` read request bytes as image data; a configuration
transaction survives a disconnect for up to 30 s.  Of the Wi-Fi task:
`tcp_queue_current` (533) reads client queues from the status task while the network
task may delete them, and `airlink_wifi_prepare_restart` uses sockets of other
tasks.  Editors that read, change and save the whole base configuration can undo
each other's change; the root reports its own write as durable, not as the last.

LED, diagnostics, board support, the factory test, the boot sequence and the host
tools hold no state whose order matters.
