------------------------------ MODULE OtaImage ------------------------------
(***************************************************************************)
(* The A/B firmware update of one AirLink unit (airlink_ota.c): an image   *)
(* is uploaded over USB into the partition that is not running, checked,   *)
(* and booted; the new image then has to confirm itself within a minute by *)
(* thirty seconds of healthy services, or the unit goes back to the old    *)
(* one.                                                                    *)
(*                                                                         *)
(* The processor has one core: rollback_confirmation_task (priority 8)     *)
(* runs its check without interruption and may itself interrupt            *)
(* status_task (priority 4) between any two of its atomic stores.  The     *)
(* task watchdog restarts a unit whose status_task is late.  The clock     *)
(* counts the seconds since the start and stands still once the image is   *)
(* confirmed, when nobody reads it any more.                               *)
(*                                                                         *)
(* The ESP-IDF bootloader and esp_ota_* functions are external; they are   *)
(* modelled as the code uses them, with rollback enabled.                  *)
(***************************************************************************)
EXTENDS Naturals

CONSTANTS
    Size,       \* length of an image in chunks
    Window,     \* OTA_CONFIRM_WINDOW_US, in seconds
    Lease,      \* OTA_HEALTH_LEASE_US
    Deadline,   \* OTA_CONFIRM_DEADLINE_US
    Watchdog,   \* CONFIG_ESP_TASK_WDT_TIMEOUT_S
    Refusals    \* bound: how often the rollback of a trial may fail

ASSUME OtaAssumption ==
    /\ Size \in Nat \ {0} /\ Window \in Nat \ {0} /\ Lease \in Nat
    /\ Watchdog \in Nat \ {0} /\ Deadline \in Nat /\ Deadline > Window
    /\ Refusals \in Nat

VARIABLES
    image,          \* what each partition holds
    state,          \* its esp_ota_img_states_t in otadata
    running, boot,  \* the running partition, and the one otadata selects
    stream,         \* s_stream
    in_progress,    \* s_in_progress
    usb,            \* where usb_task stands
    usb_expired,    \* whether s_usb_ota_deadline_us has passed
    clock,          \* seconds since the start (esp_timer_get_time)
    confirming,     \* whether rollback_confirmation_task is alive
    checked,        \* whether it has run in this second
    ready,          \* s_services_ready
    ready_since,    \* s_services_ready_since_us
    last_health,    \* s_last_health_us
    status,         \* where status_task stands
    sampled,        \* when it last fed the watchdog
    healthy_from,   \* history: since when every report was healthy (0: it was not)
    mark_failed     \* history: esp_ota_mark_app_valid_cancel_rollback failed

flash  == <<image, state, running, boot>>
upload == <<stream, in_progress, usb, usb_expired>>
health == <<ready, ready_since, last_health>>
timing == <<clock, confirming, checked, status, sampled, healthy_from, mark_failed>>
vars   == <<flash, upload, health, timing>>

Partition == {"ota_0", "ota_1"}
Other(p) == IF p = "ota_0" THEN "ota_1" ELSE "ota_0"

\* "foreign": an image that boots but has another project name or no hardware
\* marker; "broken": anything that does not boot (erased, partly written, garbage).
Image == {"airlink", "foreign", "broken"}
\* "valid" stands also for a partition flashed by cable, which has no state yet.
State == {"valid", "new", "pending", "invalid", "aborted"}

\* "kind" is the image that is being sent, "digest" whether it has the announced
\* SHA-256 digest (and version).
\* Over USB and HTTP a verified stream is activated at once, so "verified" is not kept.
Stream == [active : BOOLEAN, target : Partition, written : 0 .. Size,
           kind : Image, digest : BOOLEAN]
NoStream == [active |-> FALSE, target |-> "ota_0", written |-> 0,
             kind |-> "broken", digest |-> FALSE]

\* A unit flashed by cable, or one that has confirmed an earlier update.
Init ==
    /\ running = "ota_0" /\ boot = "ota_0"
    /\ \E other \in {"airlink", "broken"} :
           image = [p \in Partition |-> IF p = running THEN "airlink" ELSE other]
    /\ state = [p \in Partition |-> "valid"]
    /\ stream = NoStream /\ in_progress = FALSE
    /\ usb = "cli" /\ usb_expired = TRUE
    /\ clock = 1 /\ confirming = FALSE /\ checked = FALSE
    /\ ready = FALSE /\ ready_since = 0 /\ last_health = 0
    /\ status = "off" /\ sampled = 0
    /\ healthy_from = 0 /\ mark_failed = FALSE

-----------------------------------------------------------------------------
(* Starting. *)

\* The bootloader, given otadata: an image that was already on trial, or does not
\* check, loses to the other one; a new image is put on trial.
Boot(otadata, selected) ==
    LET fails == otadata[selected] = "pending" \/ image[selected] = "broken"
        chosen == IF fails THEN Other(selected) ELSE selected
    IN  /\ running' = chosen /\ boot' = chosen
        /\ state' = [p \in Partition |->
                       IF p = selected /\ fails THEN "aborted"
                       ELSE IF p = chosen /\ otadata[p] = "new" THEN "pending"
                       ELSE otadata[p]]

\* A start: RAM is initialised; airlink_ota_init starts the confirmation task,
\* which ends at once unless the image is on trial.
Restart(otadata, selected) ==
    /\ Boot(otadata, selected)
    /\ stream' = NoStream /\ in_progress' = FALSE
    /\ usb' = "cli" /\ usb_expired' = TRUE
    /\ clock' = 1 /\ checked' = FALSE
    /\ confirming' = (state'[running'] = "pending")
    /\ ready' = FALSE /\ ready_since' = 0 /\ last_health' = 0
    /\ status' = "off" /\ sampled' = 0
    /\ healthy_from' = 0 /\ mark_failed' = FALSE
    /\ UNCHANGED image

PowerLoss == Restart(state, boot)

-----------------------------------------------------------------------------
(* The upload stream. *)

\* airlink_ota_stream_begin up to its compare-and-swap.
Claim ==
    /\ ~stream.active
    /\ ~in_progress /\ in_progress' = TRUE

\* The rest of it: esp_ota_begin erases the other partition, which may fail, but
\* refuses at once while the running image is on trial.
Open(kind, digest) ==
    \/ /\ state[running] # "pending"
       /\ image' = [image EXCEPT ![Other(running)] = "broken"]
       /\ \/ /\ stream' = [active |-> TRUE, target |-> Other(running), written |-> 0,
                           kind |-> kind, digest |-> digest]
             /\ UNCHANGED in_progress
          \/ stream' = NoStream /\ in_progress' = FALSE
    \/ /\ state[running] = "pending"
       /\ stream' = NoStream /\ in_progress' = FALSE
       /\ UNCHANGED image

\* airlink_ota_stream_abort.
Abort ==
    IF stream.active THEN stream' = NoStream /\ in_progress' = FALSE
                     ELSE UNCHANGED <<stream, in_progress>>

\* n chunks arrive: more than announced abort the upload.
Write(n) ==
    IF stream.written + n <= Size
    THEN /\ stream' = [stream EXCEPT !.written = @ + n]
         /\ image' = IF stream.written + n = Size
                     THEN [image EXCEPT ![stream.target] = stream.kind] ELSE image
         /\ UNCHANGED in_progress
    ELSE Abort /\ UNCHANGED image

\* Mutant: only the digest is compared.
DigestChecks == stream.digest /\ image[stream.target] # "broken"

\* airlink_ota_stream_verify: digest, esp_ota_end, project name, hardware marker.
Checks == stream.digest /\ image[stream.target] = "airlink"

\* airlink_ota_stream_finish: a checked image is selected for the next start;
\* whatever happens, the stream is free again.
Finish ==
    /\ stream' = NoStream /\ in_progress' = FALSE
    /\ IF Checks
       THEN \/ boot' = stream.target /\ state' = [state EXCEPT ![stream.target] = "new"]
            \/ UNCHANGED <<boot, state>>        \* esp_ota_set_boot_partition failed
       ELSE UNCHANGED <<boot, state>>
    /\ UNCHANGED <<image, running>>

-----------------------------------------------------------------------------
(* usb_task. *)

\* "ota begin <bytes> <sha256>": the arming latch and the syntax may refuse it.
UsbClaim ==
    /\ usb = "cli"
    /\ Claim
    /\ usb' = "opening"
    /\ UNCHANGED <<flash, stream, usb_expired, health, timing>>

UsbOpen(kind, digest) ==
    /\ usb = "opening"
    /\ Open(kind, digest)
    /\ usb' = "cli"
    /\ usb_expired' = ~stream'.active
    /\ UNCHANGED <<state, running, boot, health, timing>>

\* While a stream is active all bytes are its data, and the last one finishes it.
UsbData(n) ==
    /\ usb = "cli" /\ stream.active /\ stream.written < Size
    /\ Write(n)
    /\ usb_expired' = (usb_expired /\ ~stream'.active)
    /\ UNCHANGED <<state, running, boot, usb, health, timing>>

\* The flash refuses a write.
UsbWriteFails ==
    /\ usb = "cli" /\ stream.active /\ stream.written < Size
    /\ Abort
    /\ UNCHANGED <<flash, usb, usb_expired, health, timing>>

UsbFinish ==
    /\ usb = "cli" /\ stream.active /\ stream.written = Size
    /\ Finish
    /\ usb' = IF boot' # boot THEN "rebooting" ELSE "cli"
    /\ UNCHANGED <<usb_expired, health, timing>>

\* Thirty seconds without a byte ...
UsbExpire ==
    /\ ~usb_expired /\ usb_expired' = TRUE
    /\ UNCHANGED <<flash, stream, in_progress, usb, health, timing>>

\* ... end the upload.
UsbTimeout ==
    /\ usb = "cli" /\ stream.active /\ usb_expired
    /\ Abort
    /\ UNCHANGED <<flash, usb, usb_expired, health, timing>>

UsbReboot == usb = "rebooting" /\ Restart(state, boot)

-----------------------------------------------------------------------------
(* status_task: airlink_ota_services_ready and airlink_ota_health_heartbeat.  *)

\* One round: the services are looked at and s_services_ready is exchanged.  The
\* history counts a report from here on.  (Rounds after the trial change nothing
\* anybody reads.)
Sample(healthy) ==
    /\ confirming
    /\ status \in {"off", "idle"} /\ sampled < clock
    /\ sampled' = clock
    /\ ready' = healthy
    /\ status' = IF healthy THEN IF ready THEN "report" ELSE "became_ready"
                 ELSE IF ready THEN "became_unready" ELSE "idle"
    /\ healthy_from' = IF ~healthy THEN 0
                       ELSE IF healthy_from = 0 THEN clock ELSE healthy_from
    /\ UNCHANGED <<flash, upload, ready_since, last_health,
                   clock, confirming, checked, mark_failed>>

\* Mutant: the window goes on when the services come back.
StoreFirstSince ==
    /\ status \in {"became_ready", "became_unready"}
    /\ ready_since' = IF ready_since = 0 THEN clock ELSE ready_since
    /\ status' = IF status = "became_ready" THEN "clear" ELSE "clear_unready"
    /\ UNCHANGED <<flash, upload, ready, last_health, clock, confirming, checked,
                   sampled, healthy_from, mark_failed>>

\* The stores that follow a change, one by one.
StoreSince ==
    /\ status \in {"became_ready", "became_unready"}
    /\ ready_since' = IF status = "became_ready" THEN clock ELSE 0
    /\ status' = IF status = "became_ready" THEN "clear" ELSE "clear_unready"
    /\ UNCHANGED <<flash, upload, ready, last_health, clock, confirming, checked,
                   sampled, healthy_from, mark_failed>>

ClearHealth ==
    /\ status \in {"clear", "clear_unready"}
    /\ last_health' = 0
    /\ status' = IF status = "clear" THEN "report" ELSE "idle"
    /\ UNCHANGED <<flash, upload, ready, ready_since, clock, confirming, checked,
                   sampled, healthy_from, mark_failed>>

\* The heartbeat loads s_services_ready, which the confirmation task may have
\* withdrawn, and stores the time.
HeartbeatLoad ==
    /\ status = "report"
    /\ status' = IF ready THEN "beat" ELSE "idle"
    /\ UNCHANGED <<flash, upload, health, clock, confirming, checked, sampled,
                   healthy_from, mark_failed>>

HeartbeatStore ==
    /\ status = "beat"
    /\ last_health' = clock
    /\ status' = "idle"
    /\ UNCHANGED <<flash, upload, ready, ready_since, clock, confirming, checked,
                   sampled, healthy_from, mark_failed>>

\* CONFIG_ESP_TASK_WDT_PANIC: a late status_task restarts the unit.
WatchdogPanic ==
    /\ confirming
    /\ status # "off" /\ clock - sampled >= Watchdog
    /\ Restart(state, boot)

-----------------------------------------------------------------------------
(* rollback_confirmation_task, once a second. *)

\* Mutant: the lease is one second short.
HealthyForLess ==
    /\ ready /\ ready_since > 0 /\ clock - ready_since >= Window
    /\ last_health >= ready_since /\ clock - last_health < Lease

HealthyForWindow ==
    /\ ready /\ ready_since > 0 /\ clock - ready_since >= Window
    /\ last_health >= ready_since /\ clock - last_health <= Lease

\* The deadline has not come, or the request to roll back fails: the task looks again in
\* the next second.
LooksAgain == clock < Deadline + Refusals

Confirm ==
    /\ confirming /\ ~checked
    /\ HealthyForWindow
    /\ state' = [state EXCEPT ![running] = "valid"]
    /\ confirming' = FALSE
    /\ UNCHANGED <<image, running, boot, upload, health,
                   clock, checked, status, sampled, healthy_from, mark_failed>>

\* esp_ota_mark_app_valid_cancel_rollback fails: the services are declared unready.
\* The deadline is looked at in the same round.
ConfirmFails ==
    /\ confirming /\ ~checked
    /\ HealthyForWindow /\ LooksAgain
    /\ checked' = TRUE /\ mark_failed' = TRUE
    /\ ready' = FALSE /\ ready_since' = 0 /\ last_health' = 0
    /\ UNCHANGED <<flash, upload, clock, confirming, status, sampled, healthy_from>>

NotYet ==
    /\ confirming /\ ~checked
    /\ ~HealthyForWindow /\ LooksAgain
    /\ checked' = TRUE
    /\ UNCHANGED <<flash, upload, health, clock, confirming, status, sampled,
                   healthy_from, mark_failed>>

\* esp_ota_mark_app_invalid_rollback_and_reboot, retried each second until it
\* succeeds.
GoBack == Restart([state EXCEPT ![running] = "invalid"], Other(running))

\* Mutant: a unit whose services are up just now is given more time.
RollBackUnlessReady ==
    /\ confirming /\ ~checked
    /\ ~HealthyForWindow /\ clock >= Deadline /\ ~ready
    /\ GoBack

RollBack ==
    /\ confirming /\ ~checked
    /\ ~HealthyForWindow /\ clock >= Deadline
    /\ GoBack

\* The confirmation fails when the deadline has come.
LastConfirmFails ==
    /\ confirming /\ ~checked
    /\ HealthyForWindow /\ clock >= Deadline
    /\ GoBack

\* A second passes: the confirmation task has had its turn and the watchdog has
\* been fed in time.
Tick ==
    /\ confirming /\ checked
    /\ status = "off" \/ clock - sampled < Watchdog
    /\ clock' = clock + 1
    /\ checked' = FALSE
    /\ UNCHANGED <<flash, upload, health, confirming, status, sampled,
                   healthy_from, mark_failed>>

-----------------------------------------------------------------------------
UsbStep ==
    \/ UsbClaim \/ UsbWriteFails \/ UsbFinish \/ UsbExpire \/ UsbTimeout
    \/ \E kind \in Image, digest \in BOOLEAN : UsbOpen(kind, digest)
    \/ \E n \in 1 .. Size : UsbData(n)

StatusStep ==
    \/ \E healthy \in BOOLEAN : Sample(healthy)
    \/ StoreSince \/ ClearHealth \/ HeartbeatLoad \/ HeartbeatStore

ConfirmStep == Confirm \/ ConfirmFails \/ NotYet \/ Tick

Reset == UsbReboot \/ WatchdogPanic \/ RollBack \/ LastConfirmFails \/ PowerLoss

Next == UsbStep \/ StatusStep \/ ConfirmStep \/ Reset

Spec == Init /\ [][Next]_vars

\* The clock, the task of highest priority and the watchdog always go on.
FairSpec == Spec /\ WF_vars(ConfirmStep \/ RollBack \/ WatchdogPanic)

-----------------------------------------------------------------------------
(* Properties. *)

TypeOK ==
    /\ image \in [Partition -> Image] /\ state \in [Partition -> State]
    /\ running \in Partition /\ boot \in Partition
    /\ stream \in Stream /\ in_progress \in BOOLEAN
    /\ usb \in {"cli", "opening", "rebooting"} /\ usb_expired \in BOOLEAN
    /\ clock \in 1 .. Deadline + Refusals
    /\ confirming \in BOOLEAN /\ checked \in BOOLEAN
    /\ ready \in BOOLEAN /\ ready_since \in 0 .. clock /\ last_health \in 0 .. clock
    /\ status \in {"off", "idle", "became_ready", "became_unready",
                   "clear", "clear_unready", "report", "beat"}
    /\ sampled \in 0 .. clock /\ healthy_from \in 0 .. clock
    /\ mark_failed \in BOOLEAN

\* README.md: "rollback-capable A/B OTA with hardware, image, project-name and
\* SHA-256 checks": only a checked image ever runs, and as long as it is on trial
\* the other partition holds one that was confirmed before, whole.
RunsCheckedImage ==
    /\ image[running] = "airlink"
    /\ state[running] = "pending"
       => image[Other(running)] = "airlink" /\ state[Other(running)] = "valid"

\* README.md: "A new image is confirmed only after a 30-second healthy service
\* window": at the confirmation every report of the last Window seconds was
\* healthy, in whatever order the two tasks' loads and stores fell.
ConfirmIsJustified ==
    [][ state[running] = "pending" /\ running' = running /\ state'[running] = "valid"
        => healthy_from > 0 /\ clock - healthy_from >= Window ]_vars

\* A healthy image is not thrown away: at a rollback the services were not
\* healthy for the window (the stores of a report may lag behind by the watchdog's
\* time), the status task was silent, or the confirmation could not be written.
RollbackIsJustified ==
    [][ RollBack => \/ mark_failed
                    \/ healthy_from = 0
                    \/ clock - healthy_from < Window + Watchdog
                    \/ clock - last_health > Lease ]_vars

\* A trial always comes to an end: the image is confirmed or the unit goes back.
TrialEnds == state[running] = "pending" ~> state[running] # "pending"
=============================================================================
