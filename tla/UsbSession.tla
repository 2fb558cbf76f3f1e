----------------------------- MODULE UsbSession -----------------------------
(***************************************************************************)
(* The one USB CDC line of a unit configured for USB MAVLink               *)
(* (airlink_usb.c), shared by telemetry and by management: on a Mesh       *)
(* ground root the escape sequence opens a session of zero-delimited       *)
(* request frames, on any other unit it leaves MAVLink for the text CLI    *)
(* until the next boot.                                                    *)
(*                                                                         *)
(* What the host writes is a sequence of tokens.  "p", "p", "c" stands for *)
(* the escape sequence, whose first bytes are equal and also occur in      *)
(* telemetry; "x" is any other byte of telemetry.  A frame or a CLI line   *)
(* is a word and its delimiter, "0" or "n": a word that shares its frame   *)
(* with any other token fails COBS, the length or the CRC.                 *)
(*                                                                         *)
(* The effects of requests on the fleet are the subject of other modules;  *)
(* here they are what the session must answer for: a fleet transfer it     *)
(* started, the restart it asked for, the reset window it opened.          *)
(***************************************************************************)
EXTENDS Integers, SequencesExt

CONSTANTS
    Environments,       \* what a behaviour exercises, see Init
    QueueDepth,         \* USB_QUEUE_DEPTH
    RpcCapacity,        \* size of rpc_encoded (and of line), in tokens
    EscapeTimeout,      \* USB_ESCAPE_TIMEOUT_US, in ticks
    SessionTimeout,     \* the 60 s of s_binary_deadline_us, in ticks
    DownloadWindow      \* USB_DOWNLOAD_WINDOW_US, in ticks

ASSUME UsbAssumption ==
    {QueueDepth, RpcCapacity, EscapeTimeout, SessionTimeout, DownloadWindow} \subseteq Nat \ {0}

\* A host writes any sequences of tokens.
ASSUME HostAssumption ==
    Environments \subseteq [root : BOOLEAN, writes : SUBSET Seq(STRING), count : Nat,
                            frames : Nat, faults : Nat]

VARIABLES
    env,                \* the kind of unit, what the host may write and how often
    s_mode,             \* "mavlink" or "log_cli"
    s_binary_mode,
    registered,         \* whether the router has AIRLINK_ENDPOINT_ID_USB
    s_tx_queue,         \* frames of telemetry for the host
    escape,             \* the matcher: the tokens it holds back
    escape_left,        \* ticks until they are overdue
    binary_left,        \* ticks until s_binary_deadline_us
    download_left,      \* ticks until s_usb_download_deadline_us
    guard,              \* usb_reset_protection
    buffer,             \* rpc_encoded on a root, line on another unit
    pc, chunk,          \* where usb_task is, and what it has still to do of a read
    transfer,           \* s_root_ota: "none", "receiving" or "activating"
    armed,              \* airlink_router_fc_armed, or a node that is not known to be safe
    rx,                 \* written by the host and not read yet
    plugged,
    written,            \* history: everything the host wrote
    log,                \* history: what became of each token, oldest first
    shown               \* history: what the host was sent since its session or the boot

device == <<s_mode, s_binary_mode, registered, s_tx_queue, escape, escape_left, binary_left,
            download_left, guard, buffer, pc, chunk, transfer>>
history == <<written, log, shown>>
vars == <<env, device, armed, rx, plugged, history>>

Escape == <<"p", "p", "c">>                     \* USB_CLI_ESCAPE

Telemetry == "telemetry"

-----------------------------------------------------------------------------
(* The matcher (airlink_stream.c) and its use. *)

\* An entry of the history for each token: it went to the router as it came ("router") or
\* when it was overdue ("flushed"), or it was read as management ("session").
Fate(fate, tokens) == [i \in DOMAIN tokens |-> [fate |-> fate, token |-> tokens[i]]]

Held(k) == SubSeq(Escape, 1, k)

\* Mutant: after a mismatch only the last byte may start the sequence.
SuffixOfOne ==
    [k \in 0..Len(Escape) - 1 |->
        [token \in Range(Escape) |->
            IF k + 1 < Len(Escape) /\ token = Escape[k + 1] THEN k + 1
            ELSE IF token = Escape[1] THEN 1 ELSE 0]]

\* suffix_prefix: how many tokens are still held when a token that does not complete the
\* sequence follows the first k of it.
SuffixPrefix ==
    [k \in 0..Len(Escape) - 1 |->
        [token \in Range(Escape) |->
            Max({keep \in 0..Len(Escape) - 1 : IsSuffix(Held(keep), Append(Held(k), token))})]]

\* Mutant: the byte that decides is not forwarded.
EmitHeldOnly(held, token, keep) == SubSeq(held, 1, Len(held) - keep)

\* What can no longer match is forwarded.
Emit(held, token, keep) == SubSeq(Append(held, token), 1, Len(held) + 1 - keep)

\* airlink_escape_feed of one token; started_us is set when the first token is held.
FeedToken(state, token) ==
    LET keep == IF token \in Range(Escape) THEN SuffixPrefix[Len(state.held)][token] ELSE 0
    IN  IF state.matched THEN [state EXCEPT !.rest = Append(@, token)]
        ELSE IF Append(state.held, token) = Escape
             THEN [state EXCEPT !.held = <<>>, !.left = 0, !.matched = TRUE]
        ELSE [state EXCEPT !.held = Held(keep), !.emitted = @ \o Emit(state.held, token, keep),
                           !.left = IF keep = 0 THEN 0
                                    ELSE IF state.held = <<>> THEN EscapeTimeout ELSE @]

\* airlink_escape_feed of the first tokens of rx, one after the other.
Feed ==
    LET feed[n \in 0..Len(rx)] ==
            IF n = 0 THEN [held |-> escape, emitted |-> <<>>, matched |-> FALSE, rest |-> <<>>,
                           left |-> escape_left]
            ELSE FeedToken(feed[n - 1], rx[n])
    IN  feed

-----------------------------------------------------------------------------

Init ==
    /\ env \in Environments                     \* [root, writes, count, frames, faults]
    /\ s_mode = "mavlink" /\ s_binary_mode = FALSE /\ registered = TRUE
    /\ s_tx_queue = <<>> /\ escape = <<>> /\ escape_left = 0
    /\ binary_left = 0 /\ download_left = 0 /\ guard = TRUE
    /\ buffer = <<>> /\ pc = "top" /\ chunk = <<>>
    /\ transfer = "none" /\ armed = FALSE
    /\ rx = <<>> /\ plugged = TRUE
    /\ written = <<>> /\ log = <<>> /\ shown = <<>>

Send(outputs) == shown' = IF plugged THEN shown \o outputs ELSE shown

\* Mutant: the transfer waits for another host.
KeepTransfer == transfer' = transfer

\* airlink_mesh_ota_abort leaves an activation alone.
AbortTransfer == transfer' = IF transfer = "receiving" THEN "none" ELSE transfer

\* restore_usb_mavlink.
RestoreMavlink ==
    /\ AbortTransfer
    /\ s_binary_mode' = FALSE /\ binary_left' = 0
    /\ s_mode' = "mavlink" /\ registered' = TRUE

\* What the reset guard is after the deadline of the window was looked at.
GuardDue == guard \/ download_left = 0

\* The top of the loop of usb_task: the reset window, then everything queued for the host.
Top ==
    /\ pc = "top" /\ pc' = "read"
    /\ guard' = GuardDue
    /\ s_tx_queue' = <<>> /\ Send(s_tx_queue)
    /\ UNCHANGED <<env, s_mode, s_binary_mode, registered, escape, escape_left, binary_left,
                   download_left, buffer, chunk, transfer, armed, rx, plugged, written, log>>

\* Mutant: only a disconnect ends a session.
UnpluggedOnly == s_binary_mode /\ ~plugged

\* What ends a session without a request of the host.
Idle == s_binary_mode /\ (~plugged \/ binary_left = 0)

\* Mutant: a prefix is held back until more bytes come.
NeverOverdue == FALSE

Overdue == escape # <<>> /\ escape_left = 0

\* A read that times out: a session that is over ends, held tokens that are overdue go to
\* the router (airlink_escape_flush_expired).
ReadNothing ==
    /\ pc = "read" /\ rx = <<>> /\ pc' = "top"
    /\ IF Idle THEN RestoreMavlink
       ELSE UNCHANGED <<transfer, s_binary_mode, binary_left, s_mode, registered>>
    /\ IF s_mode' = "mavlink" /\ Overdue
       THEN escape' = <<>> /\ log' = log \o Fate("flushed", escape)
       ELSE UNCHANGED <<escape, log>>
    /\ UNCHANGED <<env, s_tx_queue, escape_left, download_left, guard, buffer, chunk, armed, rx,
                   plugged, written, shown>>

\* A read in MAVLink mode (escape_process).
ReadMavlink(size) ==
    /\ pc = "read" /\ s_mode = "mavlink"
    /\ rx' = SubSeq(rx, size + 1, Len(rx))
    /\ LET fed == Feed[size]
       IN  /\ escape' = fed.held /\ escape_left' = fed.left
           /\ log' = log \o Fate("router", fed.emitted)
                         \o (IF fed.matched THEN Fate("session", Escape) ELSE <<>>)
           /\ chunk' = fed.rest
           /\ IF fed.matched THEN pc' = "escaped" ELSE pc' = "top"
    /\ UNCHANGED <<env, s_mode, s_binary_mode, registered, s_tx_queue, binary_left, download_left,
                   guard, buffer, transfer, armed, plugged, written, shown>>

\* escape_process, first the router forgets the endpoint ...
LeaveMavlink ==
    /\ pc = "escaped" /\ pc' = "reset"
    /\ registered' = FALSE
    /\ UNCHANGED <<env, s_mode, s_binary_mode, s_tx_queue, escape, escape_left, binary_left,
                   download_left, guard, buffer, chunk, transfer, armed, rx, plugged, history>>

\* Mutant: what was queued for the GCS stays.
KeepQueue == s_tx_queue' = s_tx_queue

\* ... and then the queue is emptied.
QueueReset == s_tx_queue' = <<>>

OpenSession ==
    /\ pc = "reset" /\ pc' = "session"
    /\ QueueReset
    /\ s_mode' = "log_cli" /\ s_binary_mode' = env.root
    /\ binary_left' = IF env.root THEN SessionTimeout ELSE 0
    /\ shown' = IF env.root THEN <<>> ELSE <<"banner">>
    /\ UNCHANGED <<env, registered, escape, escape_left, download_left, guard, buffer, chunk,
                   transfer, armed, rx, plugged, written, log>>

ReadSession(size) ==
    /\ pc = "read" /\ s_mode = "log_cli" /\ pc' = "session"
    /\ rx' = SubSeq(rx, size + 1, Len(rx)) /\ chunk' = SubSeq(rx, 1, size)
    /\ binary_left' = IF s_binary_mode THEN SessionTimeout ELSE binary_left
    /\ UNCHANGED <<env, s_mode, s_binary_mode, registered, s_tx_queue, escape, escape_left,
                   download_left, guard, buffer, transfer, armed, plugged, history>>

-----------------------------------------------------------------------------
(* A session: the tokens of a read, one at a time. *)

Consume == chunk' = Tail(chunk) /\ log' = log \o Fate("session", <<Head(chunk)>>)

\* The rest of what was read is dropped.
Drop(tokens) == log' = log \o Fate("session", tokens)

Outside == UNCHANGED <<env, s_tx_queue, escape, escape_left, armed, plugged, written>>
SameSession == UNCHANGED <<s_mode, s_binary_mode, registered, binary_left, rx>>
SameWindow == UNCHANGED <<guard, download_left>>

Done ==
    /\ pc = "session" /\ chunk = <<>> /\ pc' = "top"
    /\ UNCHANGED <<env, s_mode, s_binary_mode, registered, s_tx_queue, escape, escape_left,
                   binary_left, download_left, guard, buffer, chunk, transfer, armed, rx, plugged,
                   history>>

Delimiter == IF s_binary_mode THEN "0" ELSE "n"

\* A byte of a frame or of a line: a full rpc_encoded starts again; a line that is full drops
\* the byte, as it does one that is not text.
Buffer ==
    /\ pc = "session" /\ chunk # <<>> /\ Head(chunk) # Delimiter
    /\ Consume
    /\ buffer' = IF Len(buffer) < RpcCapacity /\ (s_binary_mode \/ Head(chunk) # "0")
                 THEN Append(buffer, Head(chunk))
                 ELSE IF s_binary_mode THEN <<>> ELSE buffer
    /\ Outside /\ SameSession /\ SameWindow /\ UNCHANGED <<pc, transfer, shown>>

\* A delimiter completes the frame or line and empties the buffer.
Completes ==
    /\ pc = "session" /\ chunk # <<>> /\ Head(chunk) = Delimiter
    /\ buffer' = <<>>
    /\ Outside

Requests == {"list", "reboot", "begin", "finish", "abort"}

Is(word) == buffer = <<word>>

\* The intact close frame.
CloseFrame ==
    /\ Completes /\ s_binary_mode /\ Is("close")
    /\ RestoreMavlink /\ Drop(chunk)
    /\ chunk' = <<>> /\ pc' = "top"
    /\ SameWindow /\ UNCHANGED <<rx, shown>>

\* rpc_handle or handle_builtin of a restart: the unit boots into MAVLink mode.
Reboot ==
    /\ Completes /\ Is("reboot") /\ ~armed
    /\ s_mode' = "mavlink" /\ s_binary_mode' = FALSE /\ registered' = TRUE
    /\ binary_left' = 0 /\ download_left' = 0 /\ guard' = TRUE /\ transfer' = "none"
    /\ shown' = <<>> /\ Drop(chunk \o rx) /\ rx' = <<>>
    /\ chunk' = <<>> /\ pc' = "top"

\* rpc_handle of OTA_BEGIN, OTA_COMMIT and OTA_ABORT, as far as s_root_ota goes.
OtaRequest ==
    /\ Completes /\ s_binary_mode
    /\ \/ /\ Is("begin")
          /\ transfer' \in IF transfer = "none" /\ ~armed THEN {"none", "receiving"} ELSE {transfer}
       \/ /\ Is("finish")
          /\ transfer' \in IF transfer = "receiving" THEN {"none", "activating"} ELSE {transfer}
       \/ /\ Is("abort")
          /\ AbortTransfer
    /\ Consume /\ Send(<<buffer[1]>>)
    /\ SameSession /\ SameWindow /\ UNCHANGED pc

\* "usb download".
Download ==
    /\ Completes /\ ~s_binary_mode /\ Is("download") /\ ~armed
    /\ guard' = FALSE /\ download_left' = DownloadWindow
    /\ Consume /\ Send(<<"download">>)
    /\ SameSession /\ UNCHANGED <<pc, transfer>>

\* Every other request or command is answered, at least with an error.
AnswerOnly ==
    /\ Completes
    /\ IF s_binary_mode THEN Is("list") \/ (Is("reboot") /\ armed)
       ELSE buffer # <<>> /\ (Is("reboot") \/ Is("download") => armed)
    /\ Consume /\ Send(<<buffer[1]>>)
    /\ SameSession /\ SameWindow /\ UNCHANGED <<pc, transfer>>

\* An empty line; a frame that is none: it is ignored, or answered as malformed.
Malformed ==
    /\ Completes
    /\ IF s_binary_mode THEN ~ \E word \in Requests \cup {"close"} : Is(word) ELSE buffer = <<>>
    /\ Consume
    /\ \/ Send(<<>>)
       \/ buffer # <<>> /\ Send(<<"error">>)
    /\ SameSession /\ SameWindow /\ UNCHANGED <<pc, transfer>>

-----------------------------------------------------------------------------
(* Around the task. *)

\* usb_router_send, called by the tasks that ingest what vehicles send.
RouterSend ==
    /\ registered /\ env.frames > 0
    /\ env' = [env EXCEPT !.frames = @ - 1]
    /\ s_tx_queue' = IF Len(s_tx_queue) < QueueDepth THEN Append(s_tx_queue, Telemetry)
                     ELSE s_tx_queue
    /\ UNCHANGED <<s_mode, s_binary_mode, registered, escape, escape_left, binary_left,
                   download_left, guard, buffer, pc, chunk, transfer, armed, rx, plugged, history>>

HostWrites ==
    /\ plugged /\ env.count > 0
    /\ \E tokens \in env.writes :
        /\ rx' = rx \o tokens /\ written' = written \o tokens
        /\ env' = [env EXCEPT !.count = @ - 1]
    /\ UNCHANGED <<device, armed, plugged, log, shown>>

Plug ==
    /\ env.faults > 0
    /\ env' = [env EXCEPT !.faults = @ - 1]
    /\ plugged' = ~plugged
    /\ UNCHANGED <<device, armed, rx, history>>

\* A heartbeat or a node status changes what the armed guards see.
Arm ==
    /\ env.faults > 0
    /\ env' = [env EXCEPT !.faults = @ - 1]
    /\ armed' = ~armed
    /\ UNCHANGED <<device, rx, plugged, history>>

\* Other tasks of the root end a transfer: it is aborted, or its activation is over.
TransferEnds ==
    /\ transfer = "activating" \/ (transfer = "receiving" /\ armed)
    /\ transfer' = "none"
    /\ UNCHANGED <<env, s_mode, s_binary_mode, registered, s_tx_queue, escape, escape_left,
                   binary_left, download_left, guard, buffer, pc, chunk, armed, rx, plugged, history>>

Before(n) == IF n = 0 THEN 0 ELSE n - 1

Tick ==
    /\ escape_left + binary_left + download_left > 0
    /\ escape_left' = Before(escape_left) /\ binary_left' = Before(binary_left)
    /\ download_left' = Before(download_left)
    /\ UNCHANGED <<env, s_mode, s_binary_mode, registered, s_tx_queue, escape, guard, buffer, pc,
                   chunk, transfer, armed, rx, plugged, history>>

UsbTask ==
    \/ Top \/ ReadNothing
    \/ \E size \in 1..Len(rx) : ReadMavlink(size) \/ ReadSession(size)
    \/ LeaveMavlink \/ OpenSession \/ Done
    \/ Buffer \/ CloseFrame \/ Reboot \/ OtaRequest \/ Download \/ AnswerOnly \/ Malformed

Next == UsbTask \/ RouterSend \/ HostWrites \/ Plug \/ Arm \/ TransferEnds \/ Tick

Spec == Init /\ [][Next]_vars

\* usb_task is never starved (priority 19) and time goes on; the host owes nothing.
FairSpec == Spec /\ WF_vars(UsbTask) /\ WF_vars(Tick)

-----------------------------------------------------------------------------
(* Properties. *)

\* Holding bytes back for the escape sequence loses, repeats and reorders none: what went to
\* the router, to the matcher and to sessions, in this order, is what the host wrote.
BytesInOrder ==
    [i \in DOMAIN log |-> log[i].token] \o escape \o chunk \o rx = written

\* However the sequence is cut into reads and whatever precedes it, it is recognised: the
\* router never gets all of it, unless it was cut by the timeout.
EscapeRecognised ==
    \A i \in 1..Len(log) - Len(Escape) + 1 :
        ~ \A k \in DOMAIN Escape :
            log[i + k - 1] = [fate |-> "router", token |-> Escape[k]]

\* The two users of the line never mix: a session shows the host no telemetry, and outside a
\* session the unit is an endpoint of the router.
LineHasOneUser ==
    /\ s_binary_mode => Telemetry \notin Range(shown) /\ ~registered
    /\ s_mode = "mavlink" => registered \/ pc = "reset"

\* A fleet transfer does not outlive the session whose host feeds it.
TransferHasHost == transfer = "receiving" => s_binary_mode

\* Whatever the host leaves behind, a session ends and telemetry is back on the line.
SessionEnds == s_binary_mode ~> registered /\ s_mode = "mavlink"

\* A prefix of the escape sequence that was data reaches the router.
NothingHeldBack == escape # <<>> ~> escape = <<>>
=============================================================================
