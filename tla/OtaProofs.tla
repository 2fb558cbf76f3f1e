------------------------------- MODULE OtaProofs ----------------------------
(***************************************************************************)
(* Proofs about the firmware updates of the AirLink.                       *)
(*                                                                         *)
(* OtaImage, one unit: type correctness, that only checked images run and  *)
(* a trial always has a confirmed image to fall back to, that a            *)
(* confirmation follows a healthy window, and that an image is given up    *)
(* for a cause only, for all sizes and times.                              *)
(*                                                                         *)
(* MeshOta, the fleet: that no unit boots an image that one of its targets *)
(* has not verified, and that the chunks of an image reach the flash of a  *)
(* node in order, for every number of nodes, every window and image size,  *)
(* and every loss, delay and restart.                                      *)
(***************************************************************************)
EXTENDS OtaImage, MeshOta, SequenceTheorems, FiniteSetTheorems, WellFoundedInduction, TLAPS

-----------------------------------------------------------------------------
(* The inductive invariant. *)

\* The deadline is looked at in every second that passes.
ClockInv == checked => clock < Deadline + Refusals

\* The selected partition runs, or is a checked new image that waits for the
\* restart; nothing is uploaded during a trial.
FlashInv ==
    /\ state[running] \in {"valid", "pending"}
    /\ confirming => state[running] = "pending"
    /\ state[running] = "pending" => ~stream.active /\ usb # "rebooting"
    /\ stream.active => stream.target = Other(running)
    /\ usb # "rebooting" => boot = running
    /\ usb = "rebooting" =>
           boot = Other(running) /\ state[boot] = "new" /\ image[boot] = "airlink"

\* A window that counts began after the last unhealthy report.
HealthInv ==
    /\ ready => healthy_from > 0
    /\ ready /\ ready_since > 0 => healthy_from <= ready_since
    /\ ~ready /\ status # "became_unready" => ready_since = 0
    /\ status = "became_ready" => ready /\ ready_since = 0
    /\ status = "became_unready" => ~ready

OtaInv == TypeOK /\ ClockInv /\ RunsCheckedImage /\ FlashInv /\ HealthInv

LEMMA OtherFact ==
    \A p \in Partition : /\ Other(p) \in Partition /\ Other(p) # p
                         /\ Other(Other(p)) = p
                         /\ \A q \in Partition : q = p \/ q = Other(p)
BY DEF Partition, Other

LEMMA NoStreamFact == NoStream \in Stream /\ ~NoStream.active
BY OtaAssumption DEF NoStream, Stream, Partition, Image

LEMMA InitInv == Init => OtaInv
<1> SUFFICES ASSUME Init PROVE OtaInv
  OBVIOUS
<1>1. /\ running = "ota_0" /\ boot = "ota_0" /\ running \in Partition
      /\ image \in [Partition -> Image] /\ image[running] = "airlink"
      /\ state \in [Partition -> State] /\ state[running] = "valid"
  BY DEF Init, Partition, Image, State
<1>2. /\ clock \in 1 .. Deadline + Refusals /\ ready_since \in 0 .. clock
      /\ last_health \in 0 .. clock /\ sampled \in 0 .. clock
      /\ healthy_from \in 0 .. clock
  BY OtaAssumption DEF Init
<1>3. TypeOK
  BY <1>1, <1>2, NoStreamFact DEF Init, TypeOK
<1> QED
  BY <1>1, <1>3, NoStreamFact
  DEF Init, OtaInv, ClockInv, RunsCheckedImage, FlashInv, HealthInv

-----------------------------------------------------------------------------
(* Restarts. *)

\* What a restart leaves behind when it is a trial's rollback or any other one.
LEMMA RestartInv ==
    ASSUME NEW otadata \in [Partition -> State], NEW selected \in Partition,
           TypeOK, Restart(otadata, selected),
           LET chosen == IF otadata[selected] = "pending" \/ image[selected] = "broken"
                         THEN Other(selected) ELSE selected
           IN  /\ image[chosen] = "airlink"
               /\ otadata[chosen] \in {"valid", "new"}
               /\ chosen # selected => otadata[chosen] = "valid"
               /\ otadata[chosen] = "new" =>
                      image[Other(chosen)] = "airlink" /\ otadata[Other(chosen)] = "valid"
    PROVE  OtaInv'
<1> DEFINE fails == otadata[selected] = "pending" \/ image[selected] = "broken"
           chosen == IF fails THEN Other(selected) ELSE selected
<1>1. /\ chosen \in Partition
      /\ running' = chosen /\ boot' = chosen /\ image' = image
      /\ state' = [p \in Partition |->
                       IF p = selected /\ fails THEN "aborted"
                       ELSE IF p = chosen /\ otadata[p] = "new" THEN "pending"
                       ELSE otadata[p]]
  BY OtherFact DEF Restart, Boot
<1>2. state' \in [Partition -> State]
  BY <1>1 DEF State
<1>3. confirming' \in BOOLEAN
  BY DEF Restart
<1>4. /\ 1 \in 1 .. Deadline + Refusals
      /\ clock' = 1 /\ ready_since' = 0 /\ last_health' = 0 /\ sampled' = 0
      /\ healthy_from' = 0
  BY OtaAssumption DEF Restart
<1>5. TypeOK'
  <2>1. clock' \in 1 .. Deadline + Refusals /\ 0 \in 0 .. clock'
    BY <1>4
  <2>2. /\ stream' \in Stream /\ in_progress' \in BOOLEAN /\ usb_expired' \in BOOLEAN
        /\ usb' = "cli" /\ status' = "off" /\ checked' \in BOOLEAN
        /\ ready' \in BOOLEAN /\ mark_failed' \in BOOLEAN
    BY NoStreamFact DEF Restart
  <2> QED
    BY <1>1, <1>2, <1>3, <1>4, <2>1, <2>2 DEF TypeOK
<1>6. ClockInv' /\ HealthInv'
  BY DEF Restart, ClockInv, HealthInv
<1>7. RunsCheckedImage' /\ state'[chosen] \in {"valid", "pending"}
  BY <1>1, OtherFact DEF RunsCheckedImage
<1>8. FlashInv'
  BY <1>1, <1>7 DEF FlashInv, Restart, NoStream
<1> QED
  BY <1>5, <1>6, <1>7, <1>8 DEF OtaInv

\* A power loss, a watchdog panic or the restart after an activation.
LEMMA AnyRestart ==
    ASSUME OtaInv, Restart(state, boot)
    PROVE  OtaInv'
<1>1. /\ TypeOK /\ state \in [Partition -> State] /\ boot \in Partition
      /\ running \in Partition
  BY DEF OtaInv, TypeOK
<1>2. CASE usb = "rebooting"
  <2>1. /\ boot = Other(running) /\ state[boot] = "new" /\ image[boot] = "airlink"
        /\ state[running] = "valid" /\ image[running] = "airlink"
    BY <1>2 DEF OtaInv, FlashInv, RunsCheckedImage
  <2> QED
    BY <1>1, <2>1, OtherFact, RestartInv
<1>3. CASE usb # "rebooting"
  <2>1. /\ boot = running /\ image[running] = "airlink"
        /\ state[running] \in {"valid", "pending"}
        /\ state[running] = "pending" =>
               image[Other(running)] = "airlink" /\ state[Other(running)] = "valid"
    BY <1>3 DEF OtaInv, FlashInv, RunsCheckedImage
  <2> QED
    BY <1>1, <2>1, OtherFact, RestartInv
<1> QED
  BY <1>2, <1>3

\* The end of a trial that did not succeed.
LEMMA GoBackInv ==
    ASSUME OtaInv, confirming, GoBack
    PROVE  OtaInv'
<1> DEFINE otadata == [state EXCEPT ![running] = "invalid"]
<1>1. /\ TypeOK /\ running \in Partition /\ Other(running) \in Partition
      /\ otadata \in [Partition -> State]
  BY OtherFact DEF OtaInv, TypeOK, State
<1>2. image[Other(running)] = "airlink" /\ otadata[Other(running)] = "valid"
  BY <1>1, OtherFact DEF OtaInv, FlashInv, RunsCheckedImage, TypeOK
<1>3. Restart(otadata, Other(running))
  BY DEF GoBack
<1> HIDE DEF otadata
<1> QED
  BY <1>1, <1>2, <1>3, OtherFact, RestartInv

-----------------------------------------------------------------------------
(* The other steps. *)

LEMMA UsbInv ==
    ASSUME OtaInv, UsbStep
    PROVE  OtaInv'
<1> USE OtherFact DEF OtaInv
<1>1. UNCHANGED <<running, health, timing>>
  BY DEF UsbStep, UsbClaim, UsbOpen, UsbData, UsbFinish, UsbWriteFails,
         UsbExpire, UsbTimeout,
         Finish, flash
<1>2. ClockInv' /\ HealthInv'
  BY <1>1 DEF ClockInv, HealthInv, health, timing
<1>3. /\ stream \in Stream /\ image \in [Partition -> Image]
      /\ state \in [Partition -> State] /\ boot \in Partition /\ running \in Partition
  BY DEF TypeOK
<1>4. ASSUME stream' \in Stream, image' \in [Partition -> Image],
             state' \in [Partition -> State], boot' \in Partition,
             in_progress' \in BOOLEAN, usb_expired' \in BOOLEAN,
             usb' \in {"cli", "opening", "rebooting"}
      PROVE  TypeOK'
  BY <1>1, <1>4 DEF TypeOK, health, timing
<1>5. NoStream \in Stream /\ ~NoStream.active
  BY NoStreamFact
<1>6. CASE UsbClaim
  <2>1. TypeOK'
    BY <1>3, <1>4, <1>6 DEF UsbClaim, Claim, flash, TypeOK
  <2>2. RunsCheckedImage' /\ FlashInv'
    BY <1>1, <1>6 DEF UsbClaim, Claim, flash, timing, RunsCheckedImage, FlashInv
  <2> QED BY <1>2, <2>1, <2>2
<1>7. ASSUME NEW kind \in Image, NEW digest \in BOOLEAN, UsbOpen(kind, digest)
      PROVE  OtaInv'
  <2>1. CASE state[running] # "pending" /\ stream' # NoStream
    <3>1. /\ stream' = [active |-> TRUE, target |-> Other(running), written |-> 0,
                        kind |-> kind, digest |-> digest]
          /\ image' = [image EXCEPT ![Other(running)] = "broken"]
          /\ UNCHANGED <<in_progress, state, boot>>
          /\ usb = "opening" /\ usb' = "cli"
      BY <1>7, <2>1 DEF UsbOpen, Open
    <3>2. usb_expired' \in BOOLEAN
      BY <1>7 DEF UsbOpen
    <3>3. stream' \in Stream /\ image' \in [Partition -> Image]
      <4>1. 0 \in 0 .. Size /\ Other(running) \in Partition
        BY <1>3, OtaAssumption
      <4>2. stream' \in Stream
        BY <1>7, <3>1, <4>1 DEF Stream
      <4>3. image' \in [Partition -> Image]
        BY <1>3, <3>1 DEF Image
      <4> QED BY <4>2, <4>3
    <3>4. TypeOK'
      BY <1>3, <1>4, <3>1, <3>2, <3>3 DEF TypeOK
    <3>5. RunsCheckedImage' /\ FlashInv'
      BY <1>1, <1>3, <2>1, <3>1 DEF RunsCheckedImage, FlashInv, timing
    <3> QED BY <1>2, <3>4, <3>5
  <2>2. CASE state[running] = "pending" \/ stream' = NoStream
    <3>1. /\ stream' = NoStream /\ in_progress' = FALSE
          /\ \/ image' = image
             \/ /\ state[running] # "pending"
                /\ image' = [image EXCEPT ![Other(running)] = "broken"]
          /\ UNCHANGED <<state, boot>>
          /\ usb = "opening" /\ usb' = "cli"
      BY <1>5, <1>7, <2>2 DEF UsbOpen, Open
    <3>2. usb_expired' \in BOOLEAN
      BY <1>7 DEF UsbOpen
    <3>3. image' \in [Partition -> Image]
      BY <1>3, <3>1 DEF Image
    <3>4. TypeOK'
      BY <1>3, <1>4, <1>5, <3>1, <3>2, <3>3 DEF TypeOK
    <3>5. RunsCheckedImage' /\ FlashInv'
      BY <1>1, <1>3, <1>5, <2>2, <3>1 DEF RunsCheckedImage, FlashInv, timing
    <3> QED BY <1>2, <3>4, <3>5
  <2> QED BY <2>1, <2>2
<1>8. ASSUME NEW n \in 1 .. Size, UsbData(n)
      PROVE  OtaInv'
  <2>1. /\ UNCHANGED <<state, boot, usb>> /\ usb = "cli" /\ stream.active
        /\ usb_expired' \in BOOLEAN
    BY <1>8 DEF UsbData, TypeOK
  <2>2. state[running] = "valid" /\ stream.target = Other(running)
    BY <2>1 DEF FlashInv
  <2>3. CASE stream.written + n <= Size
    <3>1. /\ stream' = [stream EXCEPT !.written = @ + n]
          /\ image' = image \/ image' = [image EXCEPT ![Other(running)] = stream.kind]
          /\ UNCHANGED in_progress
      BY <1>8, <2>2, <2>3 DEF UsbData, Write
    <3>2. /\ stream' \in Stream /\ stream'.active /\ stream'.target = stream.target
          /\ image' \in [Partition -> Image] /\ image'[running] = image[running]
      BY <1>3, <2>1, <2>3, <3>1, OtaAssumption DEF Stream
    <3>3. TypeOK'
      BY <1>3, <1>4, <2>1, <3>1, <3>2 DEF TypeOK
    <3>4. RunsCheckedImage' /\ FlashInv'
      BY <1>1, <2>1, <2>2, <3>2 DEF RunsCheckedImage, FlashInv, timing
    <3> QED BY <1>2, <3>3, <3>4
  <2>4. CASE ~(stream.written + n <= Size)
    <3>1. stream' = NoStream /\ in_progress' = FALSE /\ image' = image
      BY <1>8, <2>1, <2>4 DEF UsbData, Write, Abort
    <3>2. TypeOK'
      BY <1>3, <1>4, <1>5, <2>1, <3>1 DEF TypeOK
    <3>3. RunsCheckedImage' /\ FlashInv'
      BY <1>1, <1>5, <2>1, <3>1 DEF RunsCheckedImage, FlashInv, timing
    <3> QED BY <1>2, <3>2, <3>3
  <2> QED BY <2>3, <2>4
<1>9. CASE UsbFinish
  <2>1. /\ stream' = NoStream /\ in_progress' = FALSE /\ image' = image
        /\ usb = "cli" /\ stream.active /\ UNCHANGED usb_expired
        /\ usb' = IF boot' # boot THEN "rebooting" ELSE "cli"
    BY <1>9 DEF UsbFinish, Finish
  <2>2. /\ boot = running /\ stream.target = Other(running)
        /\ state[running] = "valid"
    BY <2>1 DEF FlashInv
  <2>3. CASE UNCHANGED <<boot, state>>
    <3>1. TypeOK'
      BY <1>3, <1>4, <1>5, <2>1, <2>3 DEF TypeOK
    <3>2. RunsCheckedImage' /\ FlashInv'
      BY <1>1, <1>5, <2>1, <2>2, <2>3 DEF RunsCheckedImage, FlashInv, timing
    <3> QED BY <1>2, <3>1, <3>2
  <2>4. CASE /\ Checks
             /\ boot' = stream.target
             /\ state' = [state EXCEPT ![stream.target] = "new"]
    <3>1. image[Other(running)] = "airlink"
      BY <2>2, <2>4 DEF Checks
    <3>2. /\ state' \in [Partition -> State]
          /\ state'[running] = "valid" /\ state'[Other(running)] = "new"
      BY <1>3, <2>2, <2>4 DEF State
    <3>3. usb' = "rebooting" /\ boot' = Other(running)
      BY <1>3, <2>1, <2>2, <2>4
    <3>4. TypeOK'
      BY <1>3, <1>4, <1>5, <2>1, <3>2, <3>3 DEF TypeOK
    <3>5. RunsCheckedImage' /\ FlashInv'
      BY <1>1, <1>5, <2>1, <2>2, <3>1, <3>2, <3>3
      DEF RunsCheckedImage, FlashInv, timing
    <3> QED BY <1>2, <3>4, <3>5
  <2> QED
    BY <1>9, <2>3, <2>4 DEF UsbFinish, Finish
<1>10. CASE UsbExpire
  <2>1. TypeOK'
    BY <1>3, <1>4, <1>10 DEF UsbExpire, flash, TypeOK
  <2>2. RunsCheckedImage' /\ FlashInv'
    BY <1>1, <1>10 DEF UsbExpire, flash, timing, RunsCheckedImage, FlashInv
  <2> QED BY <1>2, <2>1, <2>2
<1>11. CASE UsbTimeout \/ UsbWriteFails
  <2>1. stream' = NoStream /\ in_progress' = FALSE /\ UNCHANGED <<flash, usb, usb_expired>>
    BY <1>11 DEF UsbTimeout, UsbWriteFails, Abort
  <2>2. TypeOK'
    BY <1>3, <1>4, <1>5, <2>1 DEF flash, TypeOK
  <2>3. RunsCheckedImage' /\ FlashInv'
    BY <1>1, <1>5, <2>1 DEF flash, timing, RunsCheckedImage, FlashInv
  <2> QED BY <1>2, <2>2, <2>3
<1> QED
  BY <1>6, <1>7, <1>8, <1>9, <1>10, <1>11 DEF UsbStep

LEMMA StatusInv ==
    ASSUME OtaInv, StatusStep
    PROVE  OtaInv'
<1> USE DEF OtaInv
<1>1. UNCHANGED <<flash, upload, clock, confirming, checked, mark_failed>>
  BY DEF StatusStep, Sample, StoreSince, ClearHealth, HeartbeatLoad, HeartbeatStore, health
<1>2. ClockInv' /\ RunsCheckedImage' /\ FlashInv'
  BY <1>1 DEF ClockInv, RunsCheckedImage, FlashInv, flash, upload
<1>3. ASSUME ready' \in BOOLEAN, ready_since' \in 0 .. clock, last_health' \in 0 .. clock,
             status' \in {"off", "idle", "became_ready", "became_unready",
                          "clear", "clear_unready", "report", "beat"},
             sampled' \in 0 .. clock, healthy_from' \in 0 .. clock
      PROVE  TypeOK'
  BY <1>1, <1>3 DEF TypeOK, flash, upload
<1>4. clock \in Nat /\ clock > 0
  BY OtaAssumption DEF TypeOK
<1>5. ASSUME NEW healthy \in BOOLEAN, Sample(healthy)
      PROVE  OtaInv'
  <2>1. TypeOK'
    BY <1>3, <1>4, <1>5 DEF Sample, TypeOK
  <2>2. HealthInv'
    BY <1>4, <1>5 DEF Sample, HealthInv, TypeOK
  <2> QED BY <1>2, <2>1, <2>2
<1>6. CASE StoreSince
  <2>1. TypeOK'
    BY <1>3, <1>4, <1>6 DEF StoreSince, TypeOK
  <2>2. HealthInv'
    BY <1>4, <1>6 DEF StoreSince, HealthInv, TypeOK
  <2> QED BY <1>2, <2>1, <2>2
<1>7. CASE ClearHealth
  <2>1. TypeOK'
    BY <1>3, <1>4, <1>7 DEF ClearHealth, TypeOK
  <2>2. HealthInv'
    BY <1>7 DEF ClearHealth, HealthInv
  <2> QED BY <1>2, <2>1, <2>2
<1>8. CASE HeartbeatLoad
  <2>1. TypeOK'
    BY <1>3, <1>4, <1>8 DEF HeartbeatLoad, TypeOK, health
  <2>2. HealthInv'
    BY <1>8 DEF HeartbeatLoad, HealthInv, health
  <2> QED BY <1>2, <2>1, <2>2
<1>9. CASE HeartbeatStore
  <2>1. TypeOK'
    BY <1>3, <1>4, <1>9 DEF HeartbeatStore, TypeOK
  <2>2. HealthInv'
    BY <1>9 DEF HeartbeatStore, HealthInv
  <2> QED BY <1>2, <2>1, <2>2
<1> QED
  BY <1>5, <1>6, <1>7, <1>8, <1>9 DEF StatusStep

LEMMA ConfirmInv ==
    ASSUME OtaInv, ConfirmStep
    PROVE  OtaInv'
<1> USE DEF OtaInv
<1>1. CASE Confirm
  <2>1. /\ UNCHANGED <<image, running, boot, upload, health,
                       clock, checked, status, sampled, healthy_from, mark_failed>>
        /\ state' = [state EXCEPT ![running] = "valid"] /\ confirming' = FALSE
        /\ state[running] = "pending"
    BY <1>1 DEF Confirm, FlashInv
  <2>2. /\ state' \in [Partition -> State] /\ state'[running] = "valid"
    BY <2>1 DEF TypeOK, State
  <2>3. TypeOK' /\ ClockInv' /\ HealthInv'
    BY <2>1, <2>2 DEF TypeOK, ClockInv, HealthInv, upload, health
  <2>4. RunsCheckedImage' /\ FlashInv'
    BY <2>1, <2>2 DEF RunsCheckedImage, FlashInv, upload
  <2> QED BY <2>3, <2>4
<1>2. CASE ConfirmFails
  <2>1. TypeOK'
    <3>1. clock \in Nat /\ 0 \in 0 .. clock
      BY OtaAssumption DEF TypeOK
    <3> QED
      BY <1>2, <3>1 DEF ConfirmFails, TypeOK, flash, upload
  <2>2. ClockInv' /\ RunsCheckedImage' /\ FlashInv'
    BY <1>2 DEF ConfirmFails, LooksAgain, ClockInv, RunsCheckedImage, FlashInv, flash, upload
  <2>3. HealthInv'
    BY <1>2 DEF ConfirmFails, HealthyForWindow, HealthInv
  <2> QED BY <2>1, <2>2, <2>3
<1>3. CASE NotYet
  <2>1. TypeOK' /\ ClockInv'
    BY <1>3 DEF NotYet, LooksAgain, TypeOK, ClockInv, flash, upload, health
  <2>2. RunsCheckedImage' /\ FlashInv' /\ HealthInv'
    BY <1>3 DEF NotYet, RunsCheckedImage, FlashInv, HealthInv, flash, upload, health
  <2> QED BY <2>1, <2>2
<1>4. CASE Tick
  <2>1. TypeOK' /\ ClockInv'
    <3>1. clock \in Nat /\ clock > 0 /\ clock + 1 \in 1 .. Deadline + Refusals
      BY <1>4, OtaAssumption DEF Tick, TypeOK, ClockInv
    <3>2. \A t \in 0 .. clock : t \in 0 .. clock + 1
      BY <3>1
    <3>3. clock' \in 1 .. Deadline + Refusals /\ clock' = clock + 1
      BY <1>4, <3>1 DEF Tick
    <3> QED
      BY <1>4, <3>2, <3>3 DEF Tick, TypeOK, ClockInv, flash, upload, health
  <2>2. RunsCheckedImage' /\ FlashInv' /\ HealthInv'
    BY <1>4 DEF Tick, RunsCheckedImage, FlashInv, HealthInv, flash, upload, health
  <2> QED BY <2>1, <2>2
<1> QED
  BY <1>1, <1>2, <1>3, <1>4 DEF ConfirmStep

LEMMA StepInv == OtaInv /\ [Next]_vars => OtaInv'
<1> SUFFICES ASSUME OtaInv, [Next]_vars PROVE OtaInv'
  OBVIOUS
<1>1. CASE UsbStep      BY <1>1, UsbInv
<1>2. CASE StatusStep   BY <1>2, StatusInv
<1>3. CASE ConfirmStep  BY <1>3, ConfirmInv
<1>4. CASE Reset
  BY <1>4, AnyRestart, GoBackInv
  DEF Reset, UsbReboot, WatchdogPanic, RollBack, LastConfirmFails, PowerLoss
<1>5. CASE UNCHANGED vars
  BY <1>5 DEF vars, flash, upload, health, timing, OtaInv, TypeOK, ClockInv,
              RunsCheckedImage, FlashInv, HealthInv
<1> QED
  BY <1>1, <1>2, <1>3, <1>4, <1>5 DEF Next

LEMMA OtaInvariant == Spec => []OtaInv
BY InitInv, StepInv, PTL DEF Spec

-----------------------------------------------------------------------------
\* Every field keeps its type; the clock of a trial never passes the deadline.
THEOREM OtaTypeCorrect == Spec => []TypeOK
<1>1. OtaInv => TypeOK
  BY DEF OtaInv
<1> QED
  BY <1>1, OtaInvariant, PTL

\* Only images that passed every check of airlink_ota_stream_verify run, and a
\* trial always has a confirmed image to go back to.
THEOREM OnlyCheckedImagesRun == Spec => []RunsCheckedImage
<1>1. OtaInv => RunsCheckedImage
  BY DEF OtaInv
<1> QED
  BY <1>1, OtaInvariant, PTL

\* An image on trial stays the running one only through Confirm.
LEMMA OnlyConfirmConfirms ==
    ASSUME OtaInv, [Next]_vars,
           state[running] = "pending", running' = running, state'[running] = "valid"
    PROVE  Confirm
<1>1. /\ running \in Partition /\ boot = running /\ stream \in Stream
      /\ state \in [Partition -> State]
      /\ ~stream.active
      /\ Other(running) \in Partition /\ Other(running) # running
  BY OtherFact DEF OtaInv, TypeOK, FlashInv
<1>2. ASSUME UNCHANGED state PROVE FALSE
  BY <1>2
<1>3. CASE UsbStep
  BY <1>1, <1>2, <1>3
  DEF UsbStep, UsbClaim, UsbOpen, UsbData, UsbFinish, UsbWriteFails,
         UsbExpire, UsbTimeout, flash
<1>4. CASE StatusStep
  BY <1>2, <1>4
  DEF StatusStep, Sample, StoreSince, ClearHealth, HeartbeatLoad, HeartbeatStore, flash
<1>5. CASE ConfirmStep
  BY <1>2, <1>5 DEF ConfirmStep, ConfirmFails, NotYet, Tick, flash
<1>6. ASSUME Restart(state, boot) PROVE FALSE
  BY <1>1, <1>6 DEF Restart, Boot
<1>7. ASSUME GoBack PROVE FALSE
  <2>1. \/ running' = Other(running)
        \/ state'[Other(running)] = "aborted" /\ running' = Other(Other(running))
    BY <1>1, <1>7 DEF GoBack, Restart, Boot
  <2>2. state'[running] # "valid"
    BY <1>1, <1>7 DEF GoBack, Restart, Boot
  <2> QED BY <2>2
<1>8. CASE Reset
  BY <1>6, <1>7, <1>8
  DEF Reset, UsbReboot, WatchdogPanic, RollBack, LastConfirmFails, PowerLoss
<1>9. CASE UNCHANGED vars
  BY <1>2, <1>9 DEF vars, flash
<1> QED
  BY <1>3, <1>4, <1>5, <1>8, <1>9 DEF Next

\* Whatever the interleaving of the reports, a new image is confirmed only after
\* healthy reports for the whole window.
THEOREM ConfirmsAfterWindow == Spec => ConfirmIsJustified
<1>1. OtaInv /\ [Next]_vars =>
        [ state[running] = "pending" /\ running' = running /\ state'[running] = "valid"
          => healthy_from > 0 /\ clock - healthy_from >= Window ]_vars
  <2> SUFFICES ASSUME OtaInv, [Next]_vars,
                      state[running] = "pending", running' = running,
                      state'[running] = "valid"
               PROVE  healthy_from > 0 /\ clock - healthy_from >= Window
    OBVIOUS
  <2>1. HealthyForWindow
    BY OnlyConfirmConfirms DEF Confirm
  <2>2. /\ clock \in Nat /\ ready_since \in Nat /\ healthy_from \in Nat
        /\ healthy_from <= ready_since /\ healthy_from > 0
    BY <2>1, OtaAssumption DEF OtaInv, TypeOK, HealthInv, HealthyForWindow
  <2> QED
    BY <2>1, <2>2, OtaAssumption DEF HealthyForWindow
<1> QED
  BY <1>1, OtaInvariant, PTL DEF Spec, ConfirmIsJustified

-----------------------------------------------------------------------------
(* A healthy image is kept. *)

\* The watchdog sees to it that the round of status_task under way began in time.
Fed == status # "off" => clock <= sampled + Watchdog

\* While no confirmation has failed, the services count as ready since the first
\* healthy report, give or take the watchdog's time, and the heartbeat follows.
Counted ==
    /\ healthy_from = 0 => ~ready
    /\ healthy_from > 0 =>
           /\ ready /\ status \notin {"off", "became_unready", "clear_unready"}
           /\ status # "became_ready" =>
                  healthy_from <= ready_since /\ ready_since <= healthy_from + Watchdog
           /\ \/ status # "idle" /\ sampled = healthy_from
              \/ status \notin {"became_ready", "clear"} /\ last_health >= ready_since

TrialInv == Fed /\ (mark_failed \/ Counted)

\* The times are numbers.
LEMMA TimesFact ==
    ASSUME OtaInv
    PROVE  /\ clock \in Nat /\ sampled \in Nat /\ healthy_from \in Nat
           /\ ready_since \in Nat /\ last_health \in Nat
           /\ clock > 0 /\ sampled <= clock /\ ready_since <= clock
           /\ Window \in Nat \ {0} /\ Watchdog \in Nat \ {0}
           /\ ready \in BOOLEAN /\ mark_failed \in BOOLEAN
BY OtaAssumption DEF OtaInv, TypeOK

LEMMA RestartTrial ==
    ASSUME NEW otadata, NEW selected, Restart(otadata, selected)
    PROVE  TrialInv'
BY DEF Restart, TrialInv, Fed, Counted

LEMMA ReportTrial ==
    ASSUME OtaInv, TrialInv, StatusStep
    PROVE  TrialInv'
<1> USE TimesFact DEF TrialInv, Fed, Counted
<1>1. UNCHANGED <<clock, mark_failed>>
  BY DEF StatusStep, Sample, StoreSince, ClearHealth, HeartbeatLoad, HeartbeatStore
<1>2. ASSUME NEW healthy \in BOOLEAN, Sample(healthy) PROVE TrialInv'
  BY <1>1, <1>2 DEF Sample
<1>3. CASE StoreSince
  BY <1>1, <1>3 DEF StoreSince
<1>4. CASE ClearHealth
  BY <1>1, <1>4 DEF ClearHealth
<1>5. CASE HeartbeatLoad
  BY <1>1, <1>5 DEF HeartbeatLoad, health
<1>6. CASE HeartbeatStore
  BY <1>1, <1>6 DEF HeartbeatStore
<1> QED
  BY <1>2, <1>3, <1>4, <1>5, <1>6 DEF StatusStep

LEMMA ConfirmationTrial ==
    ASSUME OtaInv, TrialInv, ConfirmStep
    PROVE  TrialInv'
<1> USE TimesFact DEF TrialInv, Fed, Counted
<1>1. CASE Confirm
  BY <1>1 DEF Confirm, health
<1>2. CASE ConfirmFails
  BY <1>2 DEF ConfirmFails
<1>3. CASE NotYet
  BY <1>3 DEF NotYet, health
<1>4. CASE Tick
  BY <1>4 DEF Tick, health
<1> QED
  BY <1>1, <1>2, <1>3, <1>4 DEF ConfirmStep

LEMMA StepTrial == OtaInv /\ TrialInv /\ [Next]_vars => TrialInv'
<1> SUFFICES ASSUME OtaInv, TrialInv, [Next]_vars PROVE TrialInv'
  OBVIOUS
<1>1. CASE UsbStep
  BY <1>1 DEF UsbStep, UsbClaim, UsbOpen, UsbData, UsbFinish, UsbWriteFails,
              UsbExpire, UsbTimeout, health, timing, TrialInv, Fed, Counted
<1>2. CASE StatusStep
  BY <1>2, ReportTrial
<1>3. CASE ConfirmStep
  BY <1>3, ConfirmationTrial
<1>4. CASE Reset
  BY <1>4, RestartTrial
  DEF Reset, UsbReboot, WatchdogPanic, RollBack, LastConfirmFails, PowerLoss, GoBack
<1>5. CASE UNCHANGED vars
  BY <1>5 DEF vars, health, timing, TrialInv, Fed, Counted
<1> QED
  BY <1>1, <1>2, <1>3, <1>4, <1>5 DEF Next

\* For every interleaving of status_task with the confirmation task, and whatever the
\* window, the lease and the watchdog's time: rollback_confirmation_task gives up only
\* an image that was not healthy for long enough, was silent, or could not be confirmed.
THEOREM RollsBackForCause == Spec => RollbackIsJustified
<1>1. Init => OtaInv /\ TrialInv
  BY InitInv DEF Init, TrialInv, Fed, Counted
<1>2. OtaInv /\ TrialInv /\ [Next]_vars => (OtaInv /\ TrialInv)'
  BY StepInv, StepTrial
<1>3. OtaInv /\ TrialInv =>
        [ RollBack => \/ mark_failed
                      \/ healthy_from = 0
                      \/ clock - healthy_from < Window + Watchdog
                      \/ clock - last_health > Lease ]_vars
  <2> SUFFICES ASSUME OtaInv, TrialInv, ~mark_failed, healthy_from # 0,
                      ~(clock - healthy_from < Window + Watchdog),
                      ~(clock - last_health > Lease)
               PROVE  HealthyForWindow
    BY DEF RollBack
  <2>1. ready /\ status # "off" /\ clock <= sampled + Watchdog
    BY TimesFact DEF TrialInv, Fed, Counted
  <2>2. sampled # healthy_from
    BY <2>1, TimesFact
  <2>3. /\ healthy_from <= ready_since /\ ready_since <= healthy_from + Watchdog
        /\ last_health >= ready_since
    BY <2>2, TimesFact DEF TrialInv, Counted
  <2> QED
    BY <2>1, <2>3, TimesFact, OtaAssumption DEF HealthyForWindow
<1> QED
  BY <1>1, <1>2, <1>3, PTL DEF Spec, RollbackIsJustified

-----------------------------------------------------------------------------
(* Queues, and the enumeration of the slots of a window. *)

\* A non-empty set of naturals has a least element.
LEMMA LeastNat ==
    ASSUME NEW T, T \subseteq Nat, T # {}
    PROVE  \E x \in T : \A y \in T : x <= y
<1>1. PICK x \in T : \A y \in T : ~(<<y, x>> \in OpToRel(<, Nat))
  BY NatLessThanWellFounded, WFMin
<1>2. \A y \in T : ~(y < x)
  BY <1>1 DEF OpToRel
<1> QED
  BY <1>2

\* What a queue of elements of S remains when it is read or written.
LEMMA QueueFacts ==
    ASSUME NEW S, NEW q \in Seq(S)
    PROVE  /\ q # <<>> => Head(q) \in S /\ Tail(q) \in Seq(S)
           /\ \A p \in Seq(S) : q \o p \in Seq(S)
           /\ \A x \in S : <<x>> \in Seq(S) /\ Append(q, x) \in Seq(S)
           /\ <<>> \in Seq(S)
<1>1. q # <<>> => Head(q) \in S /\ Tail(q) \in Seq(S)
  BY HeadTailProperties
<1>2. \A p \in Seq(S) : q \o p \in Seq(S)
  BY ConcatProperties
<1>3. \A x \in S : <<x>> \in Seq(S) /\ Append(q, x) \in Seq(S)
  OBVIOUS
<1> QED
  BY <1>1, <1>2, <1>3

\* InOrder enumerates every bounded set of slots, upwards and to the last.
LEMMA InOrderFact ==
    ASSUME NEW b \in Nat, NEW slots, slots \subseteq 0..b
    PROVE  /\ Cardinality(slots) \in Nat
           /\ InOrder(slots) \in [1..Cardinality(slots) -> slots]
<1> DEFINE Ascending(s) == \A i, j \in DOMAIN s : i < j => s[i] < s[j]
           Listed(S) == \E s \in [1..Cardinality(S) -> S] : Ascending(s)
           T == {n \in Nat : \E S \in SUBSET (0..b) : Cardinality(S) = n /\ ~Listed(S)}
<1>1. \A S \in SUBSET (0..b) : IsFiniteSet(S) /\ Cardinality(S) \in Nat
  <2>1. IsFiniteSet(0..b)
    BY FS_Interval
  <2> QED
    BY <2>1, FS_Subset, FS_CardinalityType
<1>2. T = {}
  <2> SUFFICES ASSUME T # {} PROVE FALSE
    OBVIOUS
  <2>1. PICK n \in T : \A m \in T : n <= m
    <3> HIDE DEF Listed
    <3> QED BY LeastNat
  <2>2. PICK S \in SUBSET (0..b) : Cardinality(S) = n /\ ~Listed(S)
    BY <2>1
  <2>3. S # {}
    <3>1. [i \in 1..0 |-> 0] \in [1..0 -> {}] /\ Ascending([i \in 1..0 |-> 0])
      OBVIOUS
    <3>2. Listed({})
      BY <3>1, FS_EmptySet
    <3> QED
      BY <2>2, <3>2
  <2>4. PICK top \in S : \A x \in S : x <= top
    <3> DEFINE gaps == {b - x : x \in S}
    <3>1. gaps \subseteq Nat /\ gaps # {}
      <4>1. \A x \in S : b - x \in Nat
        BY <2>2
      <4>2. PICK x \in S : TRUE
        BY <2>3
      <4>3. b - x \in gaps
        OBVIOUS
      <4> QED BY <4>1, <4>3
    <3>2. PICK least \in gaps : \A y \in gaps : least <= y
      BY <3>1, LeastNat
    <3>3. PICK top \in S : least = b - top
      BY <3>2
    <3>4. \A x \in S : b - top <= b - x
      BY <3>2, <3>3
    <3>5. \A x \in S : x <= top
      BY <3>4
    <3> QED
      BY <3>5
  <2> DEFINE rest == S \ {top}
  <2>5. n \in Nat \ {0} /\ Cardinality(rest) = n - 1 /\ rest \in SUBSET (0..b)
    <3>1. Cardinality(rest) = n - 1 /\ Cardinality(rest) \in Nat
      BY <1>1, <2>2, <2>4, FS_RemoveElement
    <3> QED
      BY <2>1, <3>1
  <2>6. PICK s \in [1..n - 1 -> rest] : Ascending(s)
    <3>1. n - 1 \in Nat /\ n - 1 \notin T
      BY <2>1, <2>5
    <3>2. Listed(rest)
      <4> HIDE DEF Listed, rest
      <4> QED BY <2>5, <3>1
    <3> QED
      BY <2>5, <3>2
  <2> DEFINE longer == [i \in 1..n |-> IF i = n THEN top ELSE s[i]]
  <2>7. longer \in [1..n -> S]
    BY <2>5
  <2>8. Ascending(longer)
    <3> SUFFICES ASSUME NEW i \in 1..n, NEW j \in 1..n, i < j PROVE longer[i] < longer[j]
      OBVIOUS
    <3>1. i \in 1..n - 1 /\ s[i] \in rest
      BY <2>5
    <3>2. CASE j = n
      <4>1. s[i] <= top /\ s[i] # top /\ s[i] \in 0..b /\ top \in 0..b
        BY <2>2, <2>4, <3>1
      <4> QED
        BY <2>5, <3>1, <3>2, <4>1
    <3>3. CASE j # n
      <4>1. j \in 1..n - 1
        BY <2>5, <3>3
      <4> QED
        BY <2>5, <2>6, <3>1, <3>3, <4>1
    <3> QED
      BY <3>2, <3>3
  <2>9. Listed(S)
    <3> HIDE DEF longer
    <3> QED BY <2>2, <2>7, <2>8
  <2> QED
    BY <2>2, <2>9
<1>3. Listed(slots)
  <2> HIDE DEF Listed
  <2> QED BY <1>1, <1>2
<1> QED
  BY <1>1, <1>3 DEF InOrder

-----------------------------------------------------------------------------
(* Fleet OTA: the inductive invariant. *)

\* Every target of the session has verified its image.
Proven(s) == s \in 0..sessions /\ (s # 0 => targetsOf[s] \subseteq verifiedBy[s])

HistoryInv ==
    /\ environment \in Environments /\ environment.sessions \in Nat
    /\ sessions \in 0..environment.sessions
    /\ targetsOf \in [1..environment.sessions -> SUBSET Node]
    /\ verifiedBy \in [1..environment.sessions -> SUBSET Node]

\* Units boot, run and fall back to proven images only.
BootInv ==
    /\ boot_partition \in [Unit -> Nat]
    /\ firmware \in [Unit -> [running : Nat, confirmed : Nat]]
    /\ \A u \in Unit : /\ Proven(boot_partition[u])
                       /\ Proven(firmware[u].running) /\ Proven(firmware[u].confirmed)

\* What a node may be sent, and what it may answer.
Kind == {"begin", "chunk", "verify", "activate", "abort"}
Sent == {p \in [kind : Kind, session : Nat, chunk : Chunk] :
            p.session \in 1..sessions /\ (p.kind = "activate" => Proven(p.session))}
Ack == [session : Nat, base : Int, bitmap : SUBSET Int,
        state : {"idle", "ready", "receiving", "verified", "activating", "error"}]
Answered(n) == {a \in Ack : /\ a.session \in 1..sessions
                            /\ a.state = "verified" => n \in verifiedBy[a.session]}

NetInv ==
    /\ down \in [Node -> Seq(Sent)]
    /\ up \in [Node -> Seq(Ack)]
    /\ \A n \in Node : up[n] \in Seq(Answered(n))

Ota == [phase : {"idle", "begin", "open", "window", "verify", "scan", "command", "rejoin"},
        session : Nat, targets : SUBSET Node, own : BOOLEAN, base : Nat, received : Nat,
        round : Nat, left : SUBSET Node, index : Unit]

\* The root counts only answers of its session, and activates a proven image.
RootInv ==
    /\ ota \in Ota
    /\ heard \in [Node -> Ack]
    /\ ota.phase # "idle" => ota.session \in 1..sessions /\ ota.targets = targetsOf[ota.session]
    /\ ota.phase = "verify" =>
          \A n \in ota.targets : heard[n].state = "verified" => n \in verifiedBy[ota.session]
    /\ ota.phase \in {"scan", "command", "rejoin"} => Proven(ota.session)
    /\ ota.phase \in {"command", "rejoin"} => ota.index \in Node

Transfer == [active : BOOLEAN, session : Nat, base : Nat, bitmap : SUBSET Int, written : BOOLEAN]
UnitStream == [state : {"free", "active", "verified"}, chunks : Seq(Nat)]

\* How much of the image a node has written that is in a transfer.
WrittenBy(a) == IF a.written THEN Min({a.base + WindowChunks, TotalChunks}) ELSE a.base

\* What a node writes next continues what it wrote.
AirInv ==
    /\ air \in [Node -> Transfer]
    /\ ota_stream \in [Unit -> UnitStream]
    /\ \A n \in Node : air[n].active =>
          /\ air[n].session \in 1..sessions
          /\ ota_stream[n].state = "active" => Len(ota_stream[n].chunks) = WrittenBy(air[n])
    /\ ImageInOrder

TransferInv == HistoryInv /\ BootInv /\ NetInv /\ RootInv /\ AirInv

\* The history of the sessions only grows.
Grows ==
    /\ HistoryInv' /\ sessions <= sessions'
    /\ \A s \in 1..sessions : targetsOf'[s] = targetsOf[s] /\ verifiedBy[s] \subseteq verifiedBy'[s]

-----------------------------------------------------------------------------
(* Fleet OTA: what the steps leave as it was. *)

LEMMA GrowthFact ==
    ASSUME HistoryInv, Grows
    PROVE  /\ \A s : Proven(s) => Proven(s)'
           /\ Sent \subseteq Sent'
           /\ \A n : Answered(n) \subseteq Answered(n)'
<1>1. sessions \in Nat /\ sessions' \in Nat /\ sessions <= sessions'
  BY DEF HistoryInv, Grows
<1>2. 1..sessions \subseteq 1..sessions' /\ 0..sessions \subseteq 0..sessions'
  BY <1>1
<1>3. \A s : Proven(s) => Proven(s)'
  <2> SUFFICES ASSUME NEW s, Proven(s) PROVE Proven(s)'
    OBVIOUS
  <2>1. CASE s = 0
    BY <1>1, <2>1 DEF Proven
  <2>2. CASE s # 0
    <3>1. s \in 1..sessions
      BY <1>1, <2>2 DEF Proven
    <3> QED
      BY <1>2, <2>2, <3>1 DEF Proven, Grows
  <2> QED
    BY <2>1, <2>2
<1>4. Sent \subseteq Sent'
  BY <1>2, <1>3 DEF Sent
<1>5. \A n : Answered(n) \subseteq Answered(n)'
  BY <1>2 DEF Answered, Grows
<1> QED
  BY <1>3, <1>4, <1>5

LEMMA NetGrows ==
    ASSUME HistoryInv, Grows, NetInv
    PROVE  /\ down \in [Node -> Seq(Sent')]
           /\ up \in [Node -> Seq(Ack)] /\ \A n \in Node : up[n] \in Seq(Answered(n)')
<1>1. \A n \in Node : down[n] \in Seq(Sent')
  BY GrowthFact, SeqMonotonic DEF NetInv
<1>2. \A n \in Node : up[n] \in Seq(Answered(n)')
  <2> TAKE n \in Node
  <2>1. up[n] \in Seq(Answered(n)) /\ Answered(n) \subseteq Answered(n)'
    BY GrowthFact DEF NetInv
  <2> QED
    BY <2>1, SeqMonotonic
<1> QED
  BY <1>1, <1>2 DEF NetInv

\* A part of the state that a step leaves alone keeps its part of the invariant.
LEMMA FrameFact ==
    ASSUME TransferInv, Grows
    PROVE  /\ UNCHANGED unit => BootInv'
           /\ UNCHANGED net => NetInv'
           /\ UNCHANGED <<ota, heard>> => RootInv'
           /\ UNCHANGED <<air, ota_stream>> => AirInv'
<1> USE DEF TransferInv
<1>1. UNCHANGED unit => BootInv'
  BY GrowthFact DEF unit, BootInv
<1>2. UNCHANGED net => NetInv'
  BY NetGrows DEF net, NetInv
<1>3. \A s \in 1..sessions : s \in 1..sessions'
  BY DEF HistoryInv, Grows
<1>4. UNCHANGED <<ota, heard>> => RootInv'
  BY <1>3, GrowthFact DEF RootInv, Grows
<1>5. UNCHANGED <<air, ota_stream>> => AirInv'
  BY <1>3 DEF AirInv, ImageInOrder, WrittenBy
<1> QED
  BY <1>1, <1>2, <1>4, <1>5

LEMMA SameHistory ==
    ASSUME HistoryInv, UNCHANGED <<history, environment>>
    PROVE  Grows
BY DEF HistoryInv, Grows, history

-----------------------------------------------------------------------------
(* Fleet OTA: the steps of the root. *)

LEMMA MinFact ==
    ASSUME NEW a \in Int, NEW b \in Int
    PROVE  Min({a, b}) = IF a <= b THEN a ELSE b
<1>1. CASE a <= b
  <2>1. a \in {a, b} /\ \A y \in {a, b} : a <= y
    BY <1>1
  <2>2. \A x \in {a, b} : (\A y \in {a, b} : x <= y) => x = a
    BY <1>1
  <2> QED
    BY <1>1, <2>1, <2>2 DEF Min
<1>2. CASE ~(a <= b)
  <2>1. b \in {a, b} /\ \A y \in {a, b} : b <= y
    BY <1>2
  <2>2. \A x \in {a, b} : (\A y \in {a, b} : x <= y) => x = b
    BY <1>2
  <2> QED
    BY <1>2, <2>1, <2>2 DEF Min
<1> QED
  BY <1>1, <1>2

\* The slots of a window are those of chunks of the image.
LEMMA WindowFact ==
    ASSUME NEW base \in Nat
    PROVE  /\ WindowSlots(base) \subseteq 0..WindowChunks
           /\ \A x \in WindowSlots(base) : x \in Nat /\ x < WindowChunks /\ base + x \in Chunk
           /\ base < TotalChunks =>
                Cardinality(WindowSlots(base)) = Min({base + WindowChunks, TotalChunks}) - base
<1>1. WindowChunks \in Nat /\ TotalChunks \in Nat /\ WindowChunks > 0
  BY ChunkAssumption
<1> DEFINE size == IF WindowChunks <= TotalChunks - base THEN WindowChunks ELSE TotalChunks - base
<1>2. Min({WindowChunks, TotalChunks - base}) = size /\ size \in Int
  BY <1>1, MinFact
<1>3. WindowSlots(base) = 0..size - 1
  BY <1>2 DEF WindowSlots
<1>4. base < TotalChunks => Cardinality(WindowSlots(base)) = size /\ size > 0
  BY <1>1, <1>2, <1>3, FS_Interval
<1>5. Min({base + WindowChunks, TotalChunks}) =
          IF base + WindowChunks <= TotalChunks THEN base + WindowChunks ELSE TotalChunks
  BY <1>1, MinFact
<1> QED
  BY <1>1, <1>2, <1>3, <1>4, <1>5 DEF Chunk

LEMMA PacketFact ==
    ASSUME TransferInv, ota.phase # "idle", NEW chunk \in Chunk
    PROVE  /\ Packet("chunk", chunk) \in Sent /\ Packet("verify", chunk) \in Sent
           /\ Packet("abort", chunk) \in Sent
           /\ Proven(ota.session) => Packet("activate", chunk) \in Sent
<1>1. ota.session \in Nat /\ ota.session \in 1..sessions
  BY DEF TransferInv, RootInv, Ota
<1>2. ASSUME NEW kind \in Kind, kind = "activate" => Proven(ota.session)
      PROVE  Packet(kind, chunk) \in Sent
  BY <1>1, <1>2 DEF Packet, Sent
<1> QED
  BY <1>2 DEF Kind

LEMMA ChunkPacketsFact ==
    ASSUME TransferInv, ota.phase # "idle", NEW slots, slots \subseteq WindowSlots(ota.base)
    PROVE  ChunkPackets(slots) \in Seq(Sent)
<1>1. ota.base \in Nat
  BY DEF TransferInv, RootInv, Ota
<1>2. slots \subseteq 0..WindowChunks /\ WindowChunks \in Nat
  BY <1>1, WindowFact, ChunkAssumption
<1>3. Cardinality(slots) \in Nat /\ InOrder(slots) \in [1..Cardinality(slots) -> slots]
  BY <1>2, InOrderFact
<1>4. \A i \in 1..Cardinality(slots) : Packet("chunk", ota.base + InOrder(slots)[i]) \in Sent
  <2> TAKE i \in 1..Cardinality(slots)
  <2>1. ota.base + InOrder(slots)[i] \in Chunk
    BY <1>1, <1>3, WindowFact
  <2> QED
    BY <2>1, PacketFact
<1>5. ChunkPackets(slots) \in [1..Cardinality(slots) -> Sent]
  BY <1>4 DEF ChunkPackets
<1> QED
  BY <1>3, <1>5

LEMMA ZeroChunk == 0 \in Chunk
BY ChunkAssumption DEF Chunk

\* What is sent keeps the queues well-formed.
LEMMA SendFact ==
    ASSUME NEW S, down \in [Node -> Seq(S)], NEW targets, NEW packets \in Seq(S),
           SendGroup(targets, packets)
    PROVE  down' \in [Node -> Seq(S)]
<1>1. \A n \in Node : down[n] \o packets \in Seq(S)
  BY QueueFacts
<1> QED
  BY <1>1 DEF SendGroup

\* Giving up a transfer is always safe: a verified stream stays verified.
LEMMA AbortInv ==
    ASSUME TransferInv, ota.phase # "idle", AbortOta
    PROVE  TransferInv'
<1> USE DEF TransferInv
<1>1. Grows
  BY SameHistory DEF AbortOta
<1>2. BootInv'
  BY <1>1, FrameFact DEF AbortOta
<1>3. NetInv'
  <2>1. <<Packet("abort", 0)>> \in Seq(Sent')
    <3>1. Packet("abort", 0) \in Sent'
      BY <1>1, GrowthFact, PacketFact, ZeroChunk
    <3> QED
      BY <3>1
  <2>2. down' \in [Node -> Seq(Sent')]
    BY <1>1, <2>1, NetGrows, SendFact DEF AbortOta
  <2> QED
    BY <1>1, <2>2, NetGrows DEF AbortOta, NetInv
<1>4. RootInv'
  BY DEF AbortOta, RootInv, NoOta, Ota, Unit, Root
<1>5. AirInv'
  <2>1. /\ Root \in Unit /\ Root \notin Node /\ UNCHANGED <<air, sessions>>
        /\ ota_stream' = [ota_stream EXCEPT ![Root] = Aborted(@)]
    BY DEF AbortOta, history, Root, Unit, Node
  <2>2. ota_stream' \in [Unit -> UnitStream]
    BY <2>1 DEF AirInv, UnitStream, Aborted, Free
  <2> QED
    BY <2>1, <2>2 DEF AirInv, ImageInOrder, WrittenBy, Unit
<1> QED
  BY <1>1, <1>2, <1>3, <1>4, <1>5 DEF Grows

\* The root's own stream tells nothing of what the nodes have written.
LEMMA RootStreamFact ==
    ASSUME TransferInv, Grows, UNCHANGED air,
           ota_stream' = [ota_stream EXCEPT ![Root] = ota_stream'[Root]],
           ota_stream'[Root] \in UnitStream
    PROVE  AirInv'
<1>1. /\ Root \in Unit /\ Root \notin Node
      /\ \A s \in 1..sessions : s \in 1..sessions'
  BY DEF Root, Unit, Node, TransferInv, HistoryInv, Grows
<1>2. ota_stream' \in [Unit -> UnitStream]
  BY <1>1 DEF TransferInv, AirInv
<1>3. \A n \in Node : ota_stream'[n] = ota_stream[n]
  BY <1>1 DEF TransferInv, AirInv, Unit
<1> QED
  BY <1>1, <1>2, <1>3 DEF TransferInv, AirInv, ImageInOrder, WrittenBy

\* BEGIN of a session that no packet and no node knows yet.
LEMMA BeginInv ==
    ASSUME TransferInv, NEW targets \in SUBSET Node, NEW own \in BOOLEAN, OtaBegin(targets, own)
    PROVE  TransferInv'
<1> USE DEF TransferInv
<1> DEFINE session == sessions + 1
<1>1. /\ session \in 1..environment.sessions /\ sessions' = session /\ session \in Nat
      /\ UNCHANGED <<environment, verifiedBy, air, firmware, boot_partition, restarting, up>>
      /\ targetsOf' = [targetsOf EXCEPT ![session] = targets]
  BY DEF OtaBegin, HistoryInv, unit
<1>2. Grows
  BY <1>1 DEF HistoryInv, Grows
<1>3. BootInv'
  BY <1>1, <1>2, FrameFact DEF unit
<1>4. NetInv'
  <2>1. [kind |-> "begin", session |-> session, chunk |-> 0] \in Sent'
    BY <1>1, ZeroChunk DEF Sent, Kind
  <2>2. <<[kind |-> "begin", session |-> session, chunk |-> 0]>> \in Seq(Sent')
    BY <2>1
  <2>3. down' \in [Node -> Seq(Sent')]
    BY <1>2, <2>2, NetGrows, SendFact DEF OtaBegin
  <2> QED
    BY <1>1, <1>2, <2>3, NetGrows DEF NetInv
<1>5. RootInv'
  <2>1. ota' = [NoOta EXCEPT !.phase = "begin", !.session = session, !.targets = targets,
                             !.own = own]
    BY DEF OtaBegin
  <2>2. heard' \in [Node -> Ack]
    BY DEF OtaBegin, ResetStates, RootInv, Ack
  <2>3. targetsOf'[session] = targets /\ session \in 1..sessions'
    BY <1>1 DEF HistoryInv
  <2> QED
    BY <1>1, <2>1, <2>2, <2>3 DEF RootInv, NoOta, Ota, Unit, Root
<1>6. AirInv'
  <2>1. ota_stream' = [ota_stream EXCEPT ![Root] = IF own THEN Fresh ELSE @]
    BY DEF OtaBegin
  <2>2. Root \in Unit /\ <<>> \in Seq(Nat)
    BY DEF Root, Unit
  <2>3. /\ ota_stream' = [ota_stream EXCEPT ![Root] = ota_stream'[Root]]
        /\ ota_stream'[Root] \in UnitStream
    BY <2>1, <2>2 DEF AirInv, UnitStream, Fresh
  <2> QED
    BY <1>1, <1>2, <2>3, RootStreamFact
<1> QED
  BY <1>2, <1>3, <1>4, <1>5, <1>6 DEF Grows

\* A chunk of the host goes into the root's own copy and, with its window, out.
LEMMA WriteInv ==
    ASSUME TransferInv, OtaWrite
    PROVE  TransferInv'
<1> USE DEF TransferInv
<1>1. /\ UNCHANGED <<history, environment, air, firmware, boot_partition, restarting, up>>
      /\ ota.phase = "open" /\ ota.received \in Nat
  BY DEF OtaWrite, RootInv, Ota, unit
<1>2. Grows
  BY <1>1, SameHistory
<1>3. BootInv'
  BY <1>1, <1>2, FrameFact DEF unit
<1>4. NetInv'
  <2>1. ChunkPackets(WindowSlots(ota.base)) \in Seq(Sent)
    BY <1>1, ChunkPacketsFact
  <2>2. ChunkPackets(WindowSlots(ota.base)) \in Seq(Sent')
    BY <1>2, <2>1, GrowthFact, SeqMonotonic
  <2>3. down' \in [Node -> Seq(Sent')]
    BY <1>2, <2>2, NetGrows, SendFact DEF OtaWrite
  <2> QED
    BY <1>1, <1>2, <2>3, NetGrows DEF NetInv
<1>5. RootInv'
  <2>1. heard' \in [Node -> Ack]
    <3>1. \/ UNCHANGED heard
          \/ heard' = [n \in Node |-> IF n \in ota.targets THEN Unanswered ELSE heard[n]]
      BY DEF OtaWrite
    <3>2. NoAck \in Ack /\ NoBase \in Int
      BY DEF Ack, NoAck, NoBase
    <3>3. Unanswered \in Ack
      BY <3>2 DEF Ack, Unanswered
    <3> QED
      BY <3>1, <3>3 DEF RootInv
  <2>2. PICK phase \in {"open", "window"} :
            ota' = [ota EXCEPT !.received = ota.received + 1, !.round = 0, !.phase = phase]
    BY DEF OtaWrite
  <2>3. ota.session \in 1..sessions /\ ota.targets = targetsOf[ota.session]
    BY <1>1 DEF RootInv
  <2>4. /\ ota'.session = ota.session /\ ota'.targets = ota.targets
        /\ ota' \in Ota
    <3>1. ota \in Ota /\ ota.received + 1 \in Nat /\ phase \in {"open", "window"}
      BY <1>1, <2>2 DEF RootInv
    <3> QED
      BY <2>2, <3>1 DEF Ota
  <2> QED
    BY <1>1, <2>1, <2>2, <2>3, <2>4 DEF RootInv, history
<1>6. AirInv'
  <2>1. ota_stream' = [ota_stream EXCEPT ![Root].chunks =
                          IF ota.own THEN Append(@, ota.received) ELSE @]
    BY DEF OtaWrite
  <2>2. Root \in Unit
    BY DEF Root, Unit
  <2>3. Append(ota_stream[Root].chunks, ota.received) \in Seq(Nat)
    BY <1>1, <2>2 DEF AirInv, UnitStream
  <2>4. /\ ota_stream' = [ota_stream EXCEPT ![Root] = ota_stream'[Root]]
        /\ ota_stream'[Root] \in UnitStream
    BY <2>1, <2>2, <2>3 DEF AirInv, UnitStream
  <2> QED
    BY <1>1, <1>2, <2>4, RootStreamFact
<1> QED
  BY <1>2, <1>3, <1>4, <1>5, <1>6 DEF Grows

\* VERIFY goes out only after the answers to it were forgotten.
LEMMA FinishInv ==
    ASSUME TransferInv, OtaFinish
    PROVE  TransferInv'
<1> USE DEF TransferInv
<1>1. /\ UNCHANGED <<history, environment, unit, air, ota_stream, up>>
      /\ ota.phase = "open"
  BY DEF OtaFinish, fleet
<1>2. Grows
  BY <1>1, SameHistory
<1>3. BootInv' /\ AirInv'
  BY <1>1, <1>2, FrameFact
<1>4. NetInv'
  <2>1. Packet("verify", 0) \in Sent'
    BY <1>1, <1>2, GrowthFact, PacketFact, ZeroChunk
  <2>2. <<Packet("verify", 0)>> \in Seq(Sent')
    BY <2>1
  <2>3. down' \in [Node -> Seq(Sent')]
    BY <1>2, <2>2, NetGrows, SendFact DEF OtaFinish
  <2> QED
    BY <1>1, <1>2, <2>3, NetGrows DEF NetInv
<1>5. RootInv'
  <2>1. /\ heard' \in [Node -> Ack]
        /\ \A n \in ota.targets : heard'[n].state = "receiving"
    BY DEF OtaFinish, ResetStates, RootInv, Ack, Ota
  <2>2. ota' = [ota EXCEPT !.phase = "verify"]
    BY DEF OtaFinish
  <2>3. ota.session \in 1..sessions /\ ota.targets = targetsOf[ota.session]
    BY <1>1 DEF RootInv
  <2> QED
    BY <1>1, <2>1, <2>2, <2>3 DEF RootInv, Ota, history
<1> QED
  BY <1>2, <1>3, <1>4, <1>5 DEF Grows

\* A step that only moves the root on.
LEMMA MoveInv ==
    ASSUME TransferInv, ota.phase # "idle", NEW changed \in Ota, RootMoves(changed),
           changed.session = ota.session, changed.targets = ota.targets,
           changed.index = ota.index,
           \/ changed.phase = "open"
           \/ changed.phase = "scan" /\ ota.phase \in {"command", "rejoin"}
           \/ changed.phase = "rejoin" /\ ota.phase = "command"
    PROVE  TransferInv'
<1> USE DEF TransferInv
<1>1. /\ UNCHANGED <<history, environment, unit, air, ota_stream, net, heard>>
      /\ ota' = changed
  BY DEF RootMoves, fleet
<1>2. Grows
  BY <1>1, SameHistory
<1>3. BootInv' /\ NetInv' /\ AirInv'
  BY <1>1, <1>2, FrameFact
<1>4. RootInv'
  <2>1. \A s : Proven(s) => Proven(s)'
    BY <1>2, GrowthFact
  <2> QED
    BY <1>1, <2>1 DEF RootInv, history
<1> QED
  BY <1>2, <1>3, <1>4 DEF Grows

LEMMA MovesInv ==
    ASSUME TransferInv, Begun \/ WindowComplete \/ Commanded \/ NotCommanded \/ Rejoined
    PROVE  TransferInv'
<1>1. ota \in Ota /\ WindowChunks \in Nat
  BY ChunkAssumption DEF TransferInv, RootInv
<1>2. CASE Begun
  <2>1. [ota EXCEPT !.phase = "open"] \in Ota
    BY <1>1 DEF Ota
  <2> QED
    BY <1>1, <1>2, <2>1, MoveInv DEF Begun, Ota
<1>3. CASE WindowComplete
  <2>1. ota.base + WindowChunks \in Nat
    BY <1>1 DEF Ota
  <2>2. [ota EXCEPT !.phase = "open", !.base = ota.base + WindowChunks] \in Ota
    BY <1>1, <2>1 DEF Ota
  <2> QED
    BY <1>1, <1>3, <2>2, MoveInv DEF WindowComplete, Ota
<1>4. CASE Commanded
  <2>1. [ota EXCEPT !.phase = "rejoin"] \in Ota
    BY <1>1 DEF Ota
  <2> QED
    BY <1>1, <1>4, <2>1, MoveInv DEF Commanded, Ota
<1>5. CASE NotCommanded \/ Rejoined
  <2>1. [ota EXCEPT !.phase = "scan"] \in Ota
    BY <1>1 DEF Ota
  <2> QED
    BY <1>1, <1>5, <2>1, MoveInv DEF NotCommanded, Rejoined, Ota
<1> QED
  BY <1>2, <1>3, <1>4, <1>5

\* The chunks that a target lacks are sent to it once more.
LEMMA RepairInv ==
    ASSUME TransferInv, Repair
    PROVE  TransferInv'
<1> USE DEF TransferInv
<1>1. /\ UNCHANGED <<history, environment, unit, air, ota_stream, up, heard>>
      /\ ota.phase = "window" /\ ota' = [ota EXCEPT !.round = @ + 1]
  BY DEF Repair, fleet
<1>2. Grows
  BY <1>1, SameHistory
<1>3. BootInv' /\ AirInv'
  BY <1>1, <1>2, FrameFact
<1>4. NetInv'
  <2>1. \A n \in Node : ChunkPackets(WindowSlots(ota.base) \ heard[n].bitmap) \in Seq(Sent)
    BY <1>1, ChunkPacketsFact
  <2>2. \A n \in Node : down[n] \o ChunkPackets(WindowSlots(ota.base) \ heard[n].bitmap)
                            \in Seq(Sent)
    BY <2>1, QueueFacts DEF NetInv
  <2>3. down' \in [Node -> Seq(Sent)]
    BY <2>2 DEF Repair, NetInv
  <2>4. \A n \in Node : down'[n] \in Seq(Sent')
    BY <1>2, <2>3, GrowthFact, SeqMonotonic
  <2> QED
    BY <1>1, <1>2, <2>3, <2>4, NetGrows DEF NetInv
<1>5. RootInv'
  <2>1. ota.round + 1 \in Nat
    BY DEF RootInv, Ota
  <2> QED
    BY <1>1, <2>1 DEF RootInv, Ota, history
<1> QED
  BY <1>2, <1>3, <1>4, <1>5 DEF Grows

\* The activation starts with an image that every target verified.
LEMMA AllVerifiedInv ==
    ASSUME TransferInv, AllVerified
    PROVE  TransferInv'
<1> USE DEF TransferInv
<1>1. /\ UNCHANGED <<history, environment, unit, air, net, heard>>
      /\ ota.phase = "verify" /\ AllIn("verified")
      /\ ota' = [ota EXCEPT !.phase = "scan", !.left = ota.targets]
  BY DEF AllVerified
<1>2. Grows
  BY <1>1, SameHistory
<1>3. BootInv' /\ NetInv'
  BY <1>1, <1>2, FrameFact
<1>4. RootInv'
  <2>1. ota.session \in 1..sessions /\ ota.targets = targetsOf[ota.session]
    BY <1>1 DEF RootInv
  <2>2. ota.targets \subseteq verifiedBy[ota.session]
    BY <1>1 DEF RootInv, AllIn, Ota
  <2>3. Proven(ota.session)
    BY <2>1, <2>2 DEF Proven
  <2>4. Proven(ota.session)'
    BY <1>1, <2>3 DEF Proven, history
  <2> QED
    BY <1>1, <2>1, <2>4 DEF RootInv, Ota, history
<1>5. AirInv'
  <2>1. ota_stream' = [ota_stream EXCEPT ![Root].state = IF ota.own THEN "verified" ELSE @]
    BY DEF AllVerified
  <2>2. Root \in Unit
    BY DEF Root, Unit
  <2>3. /\ ota_stream' = [ota_stream EXCEPT ![Root] = ota_stream'[Root]]
        /\ ota_stream'[Root] \in UnitStream
    BY <2>1, <2>2 DEF AirInv, UnitStream
  <2> QED
    BY <1>1, <1>2, <2>3, RootStreamFact
<1> QED
  BY <1>2, <1>3, <1>4, <1>5 DEF Grows

\* The order of the activation picks a node that is left.
LEMMA FirstFact ==
    ASSUME NEW left \in SUBSET Node, left # {}
    PROVE  First(left) \in left
<1> DEFINE rank(i) == (4 - Layer[i]) * (Nodes + 1) + i
           ranks == {rank(i) : i \in left}
<1>1. \A i \in left : Layer[i] \in 2..4 /\ i \in 1..Nodes /\ Nodes \in Nat
  BY NodesAssumption DEF Node
<1>2. \A i \in left : rank(i) \in Nat
  BY <1>1
<1>3. ranks \subseteq Nat /\ ranks # {}
  <2>1. PICK i \in left : TRUE
    OBVIOUS
  <2>2. rank(i) \in ranks
    OBVIOUS
  <2> HIDE DEF rank
  <2> QED
    BY <1>2, <2>2
<1>4. PICK least \in ranks : \A y \in ranks : least <= y
  BY <1>3, LeastNat
<1>5. PICK i \in left : least = rank(i)
  BY <1>4
<1>6. \A j \in left : Layer[i] > Layer[j] \/ (Layer[i] = Layer[j] /\ i <= j)
  <2> TAKE j \in left
  <2>1. rank(i) <= rank(j)
    BY <1>4, <1>5
  <2>2. /\ Layer[i] \in 2..4 /\ Layer[j] \in 2..4
        /\ i \in 1..Nodes /\ j \in 1..Nodes /\ Nodes \in Nat
    BY <1>1
  <2>3. ASSUME Layer[i] < Layer[j] PROVE FALSE
    <3>1. CASE Layer[i] = 2 /\ Layer[j] = 3
      BY <2>1, <2>2, <3>1
    <3>2. CASE Layer[i] = 2 /\ Layer[j] = 4
      BY <2>1, <2>2, <3>2
    <3>3. CASE Layer[i] = 3 /\ Layer[j] = 4
      BY <2>1, <2>2, <3>3
    <3> QED
      BY <2>2, <2>3, <3>1, <3>2, <3>3
  <2>4. ASSUME Layer[i] = Layer[j] PROVE i <= j
    <3>1. rank(j) = (4 - Layer[i]) * (Nodes + 1) + j
      BY <2>4
    <3>2. (4 - Layer[i]) * (Nodes + 1) \in Int
      BY <2>2
    <3> QED
      BY <2>1, <2>2, <3>1, <3>2
  <2> QED
    BY <2>2, <2>3, <2>4
<1>7. PICK k \in left : k = First(left)
  BY <1>6 DEF First
<1> QED
  BY <1>7

\* The next target is commanded only while the image is proven.
LEMMA ActivateInv ==
    ASSUME TransferInv, Activate
    PROVE  TransferInv'
<1> USE DEF TransferInv
<1> DEFINE n == First(ota.left)
<1>1. /\ UNCHANGED <<history, environment, unit, air, up>>
      /\ ota.phase = "scan" /\ ota.left # {}
      /\ heard' = [heard EXCEPT ![n].state = "verified"]
  BY DEF Activate
<1>2. Grows
  BY <1>1, SameHistory
<1>3. BootInv'
  BY <1>1, <1>2, FrameFact
<1>4. n \in Node /\ ota \in Ota
  BY <1>1, FirstFact DEF RootInv, Ota
<1>5. heard' \in [Node -> Ack]
  BY <1>1, <1>4 DEF RootInv, Ack
<1>6. Proven(ota.session)
  BY <1>1 DEF RootInv
<1>7. CASE ActivationSafe(heard')
  <2>1. /\ SendGroup({n}, <<Packet("activate", 0)>>) /\ UNCHANGED ota_stream
        /\ ota' = [ota EXCEPT !.phase = "command", !.index = n, !.left = ota.left \ {n}]
    BY <1>7 DEF Activate
  <2>2. NetInv'
    <3>1. Packet("activate", 0) \in Sent'
      BY <1>1, <1>2, <1>6, GrowthFact, PacketFact, ZeroChunk
    <3>2. <<Packet("activate", 0)>> \in Seq(Sent')
      BY <3>1
    <3>3. down' \in [Node -> Seq(Sent')]
      BY <1>2, <2>1, <3>2, NetGrows, SendFact
    <3> QED
      BY <1>1, <1>2, <3>3, NetGrows DEF NetInv
  <2>3. AirInv'
    BY <1>1, <1>2, <2>1, FrameFact
  <2>4. RootInv'
    <3>1. \A s : Proven(s) => Proven(s)'
      BY <1>2, GrowthFact
    <3>2. /\ ota' \in Ota /\ ota'.phase = "command" /\ ota'.index \in Node
          /\ ota'.session = ota.session /\ ota'.targets = ota.targets
      BY <1>4, <2>1 DEF Ota, Unit
    <3>3. ota.session \in 1..sessions /\ ota.targets = targetsOf[ota.session]
      BY <1>1 DEF RootInv
    <3> QED
      BY <1>1, <1>5, <1>6, <3>1, <3>2, <3>3 DEF RootInv, history
  <2> QED
    BY <1>2, <1>3, <2>2, <2>3, <2>4 DEF Grows
<1>8. CASE ~ActivationSafe(heard')
  <2>1. /\ ota' = NoOta /\ UNCHANGED down
        /\ ota_stream' = [ota_stream EXCEPT ![Root] = IF ota.own THEN Aborted(@) ELSE @]
    BY <1>8 DEF Activate
  <2>2. NetInv'
    BY <1>1, <1>2, <2>1, FrameFact DEF net
  <2>3. RootInv'
    BY <1>5, <2>1 DEF RootInv, Ota, NoOta, Unit, Root
  <2>4. AirInv'
    <3>1. Root \in Unit
      BY DEF Root, Unit
    <3>2. /\ ota_stream' = [ota_stream EXCEPT ![Root] = ota_stream'[Root]]
          /\ ota_stream'[Root] \in UnitStream
      BY <2>1, <3>1 DEF AirInv, UnitStream, Aborted, Free
    <3> QED
      BY <1>1, <1>2, <3>2, RootStreamFact
  <2> QED
    BY <1>2, <1>3, <2>2, <2>3, <2>4 DEF Grows
<1> QED
  BY <1>7, <1>8

\* The root is a unit of its own: it activates what its targets have verified.
LEMMA ActivateRootInv ==
    ASSUME TransferInv, ActivateRoot
    PROVE  TransferInv'
<1> USE DEF TransferInv
<1>1. /\ UNCHANGED <<history, environment, air, firmware, net, heard>>
      /\ ota.phase = "scan" /\ ota' = NoOta
  BY DEF ActivateRoot
<1>2. Grows
  BY <1>1, SameHistory
<1>3. Root \in Unit /\ Root \notin Node
  BY DEF Root, Unit, Node
<1>4. BootInv'
  <2>1. \/ UNCHANGED boot_partition
        \/ boot_partition' = [boot_partition EXCEPT ![Root] = ota.session]
    BY DEF ActivateRoot
  <2>2. Proven(ota.session) /\ ota.session \in Nat
    BY <1>1 DEF RootInv, Ota
  <2>3. \A s : Proven(s) => Proven(s)'
    BY <1>2, GrowthFact
  <2>4. boot_partition' \in [Unit -> Nat] /\ \A u \in Unit : Proven(boot_partition'[u])
    BY <1>3, <2>1, <2>2 DEF BootInv
  <2> QED
    BY <1>1, <2>3, <2>4 DEF BootInv
<1>5. NetInv'
  BY <1>1, <1>2, FrameFact
<1>6. RootInv'
  BY <1>1 DEF RootInv, Ota, NoOta, Unit, Root
<1>7. AirInv'
  <2>1. \/ UNCHANGED ota_stream
        \/ ota_stream' = [ota_stream EXCEPT ![Root] = Free]
    BY DEF ActivateRoot
  <2>2. CASE UNCHANGED ota_stream
    BY <1>1, <1>2, <2>2, FrameFact
  <2>3. CASE ota_stream' = [ota_stream EXCEPT ![Root] = Free]
    <3>1. /\ ota_stream' = [ota_stream EXCEPT ![Root] = ota_stream'[Root]]
          /\ ota_stream'[Root] \in UnitStream
      BY <1>3, <2>3 DEF AirInv, UnitStream, Free
    <3> QED
      BY <1>1, <1>2, <3>1, RootStreamFact
  <2> QED
    BY <2>1, <2>2, <2>3
<1> QED
  BY <1>2, <1>4, <1>5, <1>6, <1>7 DEF Grows

\* An answer is counted only in its own session.
LEMMA OnAckInv ==
    ASSUME TransferInv, NEW n \in Node, OnAck(n)
    PROVE  TransferInv'
<1> USE DEF TransferInv
<1>1. /\ UNCHANGED <<history, environment, air, ota_stream, unit, ota, down>>
      /\ up[n] # <<>> /\ up' = [up EXCEPT ![n] = Tail(@)]
  BY DEF OnAck, fleet
<1>2. Grows
  BY <1>1, SameHistory
<1>3. BootInv' /\ AirInv'
  BY <1>1, <1>2, FrameFact
<1>4. Head(up[n]) \in Answered(n) /\ Head(up[n]) \in Ack /\ Tail(up[n]) \in Seq(Answered(n))
      /\ Tail(up[n]) \in Seq(Ack)
  BY <1>1, QueueFacts DEF NetInv
<1>5. NetInv'
  <2>1. up' \in [Node -> Seq(Ack)] /\ \A m \in Node : up'[m] \in Seq(Answered(m))
    BY <1>1, <1>4 DEF NetInv
  <2>2. \A m : Answered(m)' = Answered(m)
    BY <1>1 DEF Answered, history
  <2>3. Sent' = Sent
    BY <1>1 DEF Sent, Proven, history
  <2> QED
    BY <1>1, <2>1, <2>2, <2>3 DEF NetInv
<1>6. RootInv'
  <2>1. \/ UNCHANGED heard
        \/ /\ ota.phase # "idle" /\ Head(up[n]).session = ota.session
           /\ heard' = [heard EXCEPT ![n] = Head(up[n])]
    BY DEF OnAck
  <2>2. heard' \in [Node -> Ack]
    BY <1>4, <2>1 DEF RootInv
  <2>3. ASSUME ota.phase = "verify", NEW m \in ota.targets, heard'[m].state = "verified"
        PROVE  m \in verifiedBy[ota.session]
    BY <1>4, <2>1, <2>3 DEF RootInv, Ota, Answered
  <2>4. \A s : Proven(s) <=> Proven(s)'
    BY <1>1 DEF Proven, history
  <2> QED
    BY <1>1, <2>2, <2>3, <2>4 DEF RootInv, history
<1> QED
  BY <1>2, <1>3, <1>5, <1>6 DEF Grows

-----------------------------------------------------------------------------
(* Fleet OTA: the steps of the nodes. *)

\* The window of a chunk holds it.
LEMMA BaseFact ==
    ASSUME NEW chunk \in Chunk
    PROVE  /\ BaseOf(chunk) \in Nat /\ BaseOf(chunk) <= chunk
           /\ chunk \in Nat /\ chunk < TotalChunks
<1>1. chunk \in Nat /\ chunk < TotalChunks /\ WindowChunks \in Nat \ {0}
  BY ChunkAssumption DEF Chunk
<1> DEFINE q == chunk \div WindowChunks
<1>2. q \in Nat /\ chunk = WindowChunks * q + (chunk % WindowChunks)
      /\ chunk % WindowChunks \in 0..WindowChunks - 1
  BY <1>1
<1>3. q * WindowChunks \in Nat /\ WindowChunks * q = q * WindowChunks
  BY <1>1, <1>2
<1> HIDE DEF q
<1>4. q * WindowChunks <= chunk
  BY <1>1, <1>2, <1>3
<1> QED
  BY <1>1, <1>3, <1>4 DEF BaseOf, q

\* What a node is sent.
LEMMA PacketOf ==
    ASSUME TransferInv, NEW n \in Node, down[n] # <<>>
    PROVE  /\ Head(down[n]) \in Sent /\ Tail(down[n]) \in Seq(Sent)
           /\ Head(down[n]).session \in 1..sessions
           /\ Head(down[n]).session \in 1..environment.sessions
           /\ Head(down[n]).session \in Nat
           /\ Head(down[n]).chunk \in Chunk
           /\ Head(down[n]).kind = "activate" => Proven(Head(down[n]).session)
<1>1. Head(down[n]) \in Sent /\ Tail(down[n]) \in Seq(Sent)
  BY QueueFacts DEF TransferInv, NetInv
<1> QED
  BY <1>1 DEF Sent, TransferInv, HistoryInv

\* A packet is taken and answered.
LEMMA HandlesInv ==
    ASSUME TransferInv, Grows, NEW n \in Node, down[n] # <<>>, NEW answers,
           answers = <<>> \/ \E a \in Ack : a \in Answered(n)' /\ answers = <<a>>,
           Handles(n, answers)
    PROVE  NetInv' /\ RootInv'
<1> USE DEF TransferInv
<1>1. RootInv'
  BY FrameFact DEF Handles
<1>2. answers \in Seq(Ack) /\ answers \in Seq(Answered(n)')
  <2>1. CASE answers = <<>>
    BY <2>1
  <2>2. CASE \E a \in Ack : a \in Answered(n)' /\ answers = <<a>>
    BY <2>2
  <2> QED
    BY <2>1, <2>2
<1>3. Tail(down[n]) \in Seq(Sent')
  <2>1. down[n] \in Seq(Sent')
    BY NetGrows
  <2> QED
    BY <2>1, QueueFacts
<1>4. down' \in [Node -> Seq(Sent')]
  BY <1>3, NetGrows DEF Handles
<1>5. up[n] \o answers \in Seq(Ack) /\ up[n] \o answers \in Seq(Answered(n)')
  BY <1>2, NetGrows, QueueFacts
<1>6. up' = [up EXCEPT ![n] = @ \o answers]
  BY DEF Handles
<1>7. up' \in [Node -> Seq(Ack)]
  BY <1>5, <1>6 DEF NetInv
<1>8. \A m \in Node : up'[m] \in Seq(Answered(m)')
  BY <1>5, <1>6, NetGrows DEF NetInv
<1> QED
  BY <1>1, <1>4, <1>7, <1>8 DEF NetInv

\* The transfer and the stream of one node change together.
LEMMA AirBecomesInv ==
    ASSUME TransferInv, Grows, NEW n \in Node, NEW a \in Transfer, NEW s \in UnitStream,
           AirBecomes(n, a, s),
           a.active => /\ a.session \in 1..sessions
                       /\ s.state = "active" => Len(s.chunks) = WrittenBy(a),
           s.chunks = [i \in 1..Len(s.chunks) |-> i - 1]
    PROVE  AirInv'
<1>1. /\ n \in Unit /\ Node \subseteq Unit /\ \A i \in 1..sessions : i \in 1..sessions'
  BY DEF Unit, TransferInv, HistoryInv, Grows
<1>2. /\ air' = [air EXCEPT ![n] = a] /\ air \in [Node -> Transfer]
      /\ ota_stream' = [ota_stream EXCEPT ![n] = s] /\ ota_stream \in [Unit -> UnitStream]
  BY DEF AirBecomes, TransferInv, AirInv
<1>3. air' \in [Node -> Transfer] /\ ota_stream' \in [Unit -> UnitStream]
  BY <1>1, <1>2
<1>4. ASSUME NEW m \in Node
      PROVE  /\ air'[m].active =>
                 /\ air'[m].session \in 1..sessions'
                 /\ ota_stream'[m].state = "active" =>
                        Len(ota_stream'[m].chunks) = WrittenBy(air'[m])
             /\ ota_stream'[m].chunks = [i \in 1..Len(ota_stream'[m].chunks) |-> i - 1]
  <2>1. CASE m = n
    BY <1>1, <1>2, <2>1
  <2>2. CASE m # n
    <3>1. air'[m] = air[m] /\ ota_stream'[m] = ota_stream[m]
      BY <1>1, <1>2, <2>2
    <3> QED
      BY <1>1, <3>1 DEF TransferInv, AirInv, ImageInOrder
  <2> QED
    BY <2>1, <2>2
<1> QED
  BY <1>3, <1>4 DEF AirInv, ImageInOrder, WrittenBy

\* What is known of a node before it handles a packet.
LEMMA NodeFact ==
    ASSUME TransferInv, NEW n \in Node
    PROVE  /\ air[n] \in Transfer /\ ota_stream[n] \in UnitStream
           /\ ota_stream[n].chunks = [i \in 1..Len(ota_stream[n].chunks) |-> i - 1]
           /\ air[n].active =>
                /\ air[n].session \in 1..sessions
                /\ ota_stream[n].state = "active" =>
                       Len(ota_stream[n].chunks) = WrittenBy(air[n])
           /\ Aborted(ota_stream[n]) \in UnitStream /\ Free \in UnitStream
           /\ Aborted(ota_stream[n]).state # "active" /\ Free.state # "active"
           /\ Free.chunks = [i \in 1..Len(Free.chunks) |-> i - 1]
           /\ Aborted(ota_stream[n]).chunks = [i \in 1..Len(Aborted(ota_stream[n]).chunks) |-> i - 1]
           /\ NoAir \in Transfer /\ ~NoAir.active
<1>1. n \in Unit
  BY DEF Unit
<1>2. /\ air[n] \in Transfer /\ ota_stream[n] \in UnitStream
      /\ ota_stream[n].chunks = [i \in 1..Len(ota_stream[n].chunks) |-> i - 1]
      /\ air[n].active =>
           /\ air[n].session \in 1..sessions
           /\ ota_stream[n].state = "active" => Len(ota_stream[n].chunks) = WrittenBy(air[n])
  BY <1>1 DEF TransferInv, AirInv, ImageInOrder
<1>3. /\ Free \in UnitStream /\ Free.state # "active"
      /\ Free.chunks = <<>>
  BY DEF UnitStream, Free
<1>4. Free.chunks = [i \in 1..Len(Free.chunks) |-> i - 1]
  BY <1>3
<1>5. Aborted(ota_stream[n]) = Free \/ /\ Aborted(ota_stream[n]) = ota_stream[n]
                                       /\ ota_stream[n].state # "active"
  BY DEF Aborted
<1>6. NoAir \in Transfer /\ ~NoAir.active
  BY DEF Transfer, NoAir
<1> QED
  BY <1>2, <1>3, <1>4, <1>5, <1>6

\* A packet that neither verifies nor activates anything.
LEMMA PlainInv ==
    ASSUME TransferInv, NEW n \in Node, down[n] # <<>>, NEW answers,
           answers = <<>> \/ \E a \in Ack : a \in Answered(n) /\ answers = <<a>>,
           Handles(n, answers), UNCHANGED <<boot_partition, restarting, verifiedBy>>,
           NEW a \in Transfer, NEW s \in UnitStream, AirBecomes(n, a, s),
           a.active => /\ a.session \in 1..sessions
                       /\ s.state = "active" => Len(s.chunks) = WrittenBy(a),
           s.chunks = [i \in 1..Len(s.chunks) |-> i - 1]
    PROVE  TransferInv'
<1>1. UNCHANGED <<history, environment, unit>>
  BY DEF Handles, history, unit
<1>2. Grows
  BY <1>1, SameHistory DEF TransferInv
<1>3. BootInv'
  BY <1>1, <1>2, FrameFact
<1>4. Answered(n)' = Answered(n)
  BY <1>1 DEF Answered, history
<1>5. NetInv' /\ RootInv'
  BY <1>2, <1>4, HandlesInv
<1>6. AirInv'
  BY <1>2, AirBecomesInv
<1> QED
  BY <1>2, <1>3, <1>5, <1>6 DEF TransferInv, Grows

\* An answer that does not claim a verification.
LEMMA AnswerFact ==
    ASSUME NEW n \in Node, NEW session \in 1..sessions, NEW base \in Nat,
           NEW bitmap \in SUBSET Int,
           NEW reply \in {"ready", "receiving", "activating", "error"}
    PROVE  \E a \in Ack : a \in Answered(n) /\ Answer(session, base, bitmap, reply) = <<a>>
<1> DEFINE a == [session |-> session, base |-> base, bitmap |-> bitmap, state |-> reply]
<1>1. a \in Ack /\ a \in Answered(n)
  BY DEF Ack, Answered
<1>2. Answer(session, base, bitmap, reply) = <<a>>
  BY DEF Answer
<1> QED
  BY <1>1, <1>2

LEMMA OnBeginInv ==
    ASSUME TransferInv, NEW n \in Node, OnBegin(n)
    PROVE  TransferInv'
<1> DEFINE session == Head(down[n]).session
           a == air[n]
           again == a.active /\ a.session = session
           released == IF a.active THEN Aborted(ota_stream[n]) ELSE ota_stream[n]
<1>1. /\ down[n] # <<>> /\ UNCHANGED <<boot_partition, restarting, verifiedBy>>
      /\ session \in 1..sessions /\ session \in Nat
  BY PacketOf DEF OnBegin, Arrives
<1>2. /\ a \in Transfer /\ a.base \in Nat /\ a.bitmap \in SUBSET Int
      /\ a.active => a.session \in 1..sessions
  BY NodeFact DEF Transfer
<1>3. {} \in SUBSET Int /\ 0 \in Nat
  OBVIOUS
<1>4. \E b \in Ack : b \in Answered(n) /\ Answer(session, 0, {}, "error") = <<b>>
  BY <1>1, <1>3, AnswerFact
<1>5. CASE /\ Handles(n, Answer(session, 0, {}, "error"))
           /\ AirBecomes(n, [a EXCEPT !.session = session], ota_stream[n])
  <2>1. /\ [a EXCEPT !.session = session] \in Transfer
        /\ [a EXCEPT !.session = session].session = session
        /\ [a EXCEPT !.session = session].active = a.active
        /\ WrittenBy([a EXCEPT !.session = session]) = WrittenBy(a)
    BY <1>1, <1>2 DEF Transfer, WrittenBy
  <2> HIDE DEF session, a
  <2>2. ota_stream[n].state = "active" /\ a.active => Len(ota_stream[n].chunks) = WrittenBy(a)
    BY NodeFact DEF a
  <2> QED
    BY <1>1, <1>4, <1>5, <2>1, <2>2, NodeFact, PlainInv
<1>6. CASE /\ again
           /\ Handles(n, Answer(session, a.base, a.bitmap, "ready"))
           /\ AirBecomes(n, a, ota_stream[n])
  <2>1. \E b \in Ack : b \in Answered(n) /\ Answer(session, a.base, a.bitmap, "ready") = <<b>>
    BY <1>1, <1>2, AnswerFact
  <2> QED
    BY <1>1, <1>6, <2>1, NodeFact, PlainInv
<1>7. CASE /\ Handles(n, Answer(session, 0, {}, "ready"))
           /\ AirBecomes(n, [NoAir EXCEPT !.active = TRUE, !.session = session], Fresh)
  <2>1. \E b \in Ack : b \in Answered(n) /\ Answer(session, 0, {}, "ready") = <<b>>
    BY <1>1, <1>3, AnswerFact
  <2> DEFINE started == [NoAir EXCEPT !.active = TRUE, !.session = session]
  <2>2. started \in Transfer /\ started.session = session /\ WrittenBy(started) = 0
    BY <1>1 DEF NoAir, Transfer, WrittenBy
  <2>3. /\ Fresh \in UnitStream /\ Fresh.chunks = <<>> /\ Len(Fresh.chunks) = 0
        /\ Fresh.chunks = [i \in 1..Len(Fresh.chunks) |-> i - 1]
    BY DEF Fresh, UnitStream
  <2> HIDE DEF session, started
  <2> QED
    BY <1>1, <1>7, <2>1, <2>2, <2>3, PlainInv DEF started
<1>8. CASE /\ Handles(n, Answer(session, 0, {}, "error"))
           /\ AirBecomes(n, [NoAir EXCEPT !.session = session], released)
  <2>1. [NoAir EXCEPT !.session = session] \in Transfer
        /\ ~[NoAir EXCEPT !.session = session].active
    BY <1>1 DEF NoAir, Transfer
  <2>2. /\ released \in UnitStream
        /\ released.chunks = [i \in 1..Len(released.chunks) |-> i - 1]
    BY NodeFact
  <2> HIDE DEF session, released
  <2> QED
    BY <1>1, <1>4, <1>8, <2>1, <2>2, PlainInv
<1> QED
  BY <1>5, <1>6, <1>7, <1>8 DEF OnBegin

LEMMA OnAbortInv ==
    ASSUME TransferInv, NEW n \in Node, OnAbort(n)
    PROVE  TransferInv'
<1>1. /\ down[n] # <<>> /\ UNCHANGED <<boot_partition, restarting, verifiedBy>>
      /\ Handles(n, <<>>) /\ AirBecomes(n, NoAir, Aborted(ota_stream[n]))
  BY DEF OnAbort, Arrives
<1> QED
  BY <1>1, NodeFact, PlainInv

\* What is written of a full window continues the image.
Continued(chunks, base, size) == chunks \o [i \in 1..size |-> base + i - 1]

LEMMA ContinuedFact ==
    ASSUME NEW chunks \in Seq(Nat), NEW base \in Nat, NEW size \in Nat,
           chunks = [i \in 1..Len(chunks) |-> i - 1], Len(chunks) = base
    PROVE  /\ Continued(chunks, base, size) \in Seq(Nat)
           /\ Len(Continued(chunks, base, size)) = base + size
           /\ Continued(chunks, base, size) =
                  [i \in 1..Len(Continued(chunks, base, size)) |-> i - 1]
<1> DEFINE more == [i \in 1..size |-> base + i - 1]
           longer == chunks \o more
<1>1. more \in Seq(Nat) /\ Len(more) = size
  <2>1. \A i \in 1..size : base + i - 1 \in Nat
    OBVIOUS
  <2>2. more \in [1..size -> Nat]
    BY <2>1
  <2> QED
    BY <2>2
<1>2. /\ longer \in Seq(Nat) /\ Len(longer) = base + size
      /\ \A i \in 1..base + size : longer[i] = IF i <= base THEN chunks[i] ELSE more[i - base]
  <2> HIDE DEF more
  <2> QED BY <1>1, ConcatProperties
<1>3. \A i \in 1..base + size : longer[i] = i - 1
  <2> HIDE DEF longer
  <2> TAKE i \in 1..base + size
  <2>1. CASE i <= base
    <3>1. chunks[i] = i - 1
      BY <2>1
    <3> QED
      BY <1>2, <2>1, <3>1
  <2>2. CASE ~(i <= base)
    <3>1. i - base \in 1..size
      BY <2>2
    <3>2. more[i - base] = base + (i - base) - 1
      BY <3>1
    <3> QED
      BY <1>2, <2>2, <3>2
  <2> QED
    BY <2>1, <2>2
<1>4. DOMAIN longer = 1..base + size /\ longer = [i \in DOMAIN longer |-> longer[i]]
  <2> HIDE DEF longer
  <2>1. longer \in [1..Len(longer) -> Nat]
    BY <1>2
  <2> QED
    BY <1>2, <2>1
<1> HIDE DEF longer
<1>5. longer = [i \in 1..Len(longer) |-> i - 1]
  BY <1>2, <1>3, <1>4
<1> QED
  BY <1>2, <1>5 DEF longer, Continued

LEMMA OnChunkInv ==
    ASSUME TransferInv, NEW n \in Node, OnChunk(n)
    PROVE  TransferInv'
<1> DEFINE a == air[n]
           chunk == Head(down[n]).chunk
           base == BaseOf(chunk)
           moves == base # a.base
           bitmap == (IF moves THEN {} ELSE a.bitmap) \cup {chunk - base}
           written == ~moves /\ a.written
           full == bitmap = WindowSlots(base) /\ ~written
           taken == Current(n) /\ (moves => StartsNext(a, base))
           Received(done) == [a EXCEPT !.base = base, !.bitmap = bitmap, !.written = done]
           s == ota_stream[n]
<1>1. /\ down[n] # <<>> /\ UNCHANGED <<boot_partition, restarting, verifiedBy>>
      /\ chunk \in Chunk /\ base \in Nat /\ base <= chunk /\ chunk \in Nat /\ chunk < TotalChunks
  BY PacketOf, BaseFact DEF OnChunk, Arrives
<1>2. /\ a \in Transfer /\ a.base \in Nat /\ a.bitmap \in SUBSET Int /\ a.written \in BOOLEAN
      /\ a.active \in BOOLEAN
      /\ Current(n) => a.active /\ a.session \in 1..sessions
  BY NodeFact DEF Transfer, Current
<1>3. bitmap \in SUBSET Int
  BY <1>1, <1>2
<1>4. WindowChunks \in Nat /\ TotalChunks \in Nat /\ WindowChunks > 0
  BY ChunkAssumption
<1>5. Min({a.base + WindowChunks, TotalChunks}) =
          IF a.base + WindowChunks <= TotalChunks THEN a.base + WindowChunks ELSE TotalChunks
  <2> HIDE DEF a
  <2>1. a.base + WindowChunks \in Int /\ TotalChunks \in Int
    BY <1>2, <1>4
  <2> QED
    BY <2>1, MinFact
\* A chunk that is taken belongs to the window that comes next.
<1>6. taken => WrittenBy(a) = IF written THEN WrittenBy(a) ELSE base
  <2>1. CASE moves
    BY <1>1, <1>2, <1>4, <1>5, <2>1 DEF StartsNext, WrittenBy
  <2>2. CASE ~moves
    BY <2>2 DEF WrittenBy
  <2> QED
    BY <2>1, <2>2
<1>7. written => base = a.base /\ a.written
  OBVIOUS
<1>8. \A done \in BOOLEAN :
          /\ Received(done) \in Transfer
          /\ Received(done).active = a.active /\ Received(done).session = a.session
          /\ Received(done).base = base /\ Received(done).written = done
  <2> HIDE DEF a, base, bitmap
  <2> QED BY <1>1, <1>2, <1>3 DEF Transfer
<1>9. /\ s \in UnitStream /\ s.chunks \in Seq(Nat)
      /\ s.chunks = [i \in 1..Len(s.chunks) |-> i - 1]
      /\ a.active /\ s.state = "active" => Len(s.chunks) = WrittenBy(a)
  BY NodeFact DEF UnitStream
<1>10. Current(n) =>
          /\ \E b \in Ack : /\ b \in Answered(n)
                            /\ Answer(a.session, a.base, a.bitmap, "receiving") = <<b>>
          /\ \A reply \in {"receiving", "error"} :
                \E b \in Ack : b \in Answered(n) /\ Answer(a.session, base, bitmap, reply) = <<b>>
  <2> HIDE DEF a, base, bitmap
  <2> QED BY <1>1, <1>2, <1>3, AnswerFact
<1>11. CASE /\ ~taken
            /\ Handles(n, IF Current(n) THEN Answer(a.session, a.base, a.bitmap, "receiving")
                                        ELSE <<>>)
            /\ AirBecomes(n, a, s)
  <2> HIDE DEF taken
  <2> QED BY <1>1, <1>10, <1>11, NodeFact, PlainInv
<1>12. CASE /\ taken /\ ~full
            /\ Handles(n, Answer(a.session, base, bitmap, "receiving"))
            /\ AirBecomes(n, Received(written), s)
  <2>1. written \in BOOLEAN
    BY <1>2
  <2>2. WrittenBy(Received(written)) = WrittenBy(a)
    <3>1. Received(written).base = base /\ Received(written).written = written
      BY <1>8, <2>1
    <3>2. WrittenBy(a) = IF written THEN WrittenBy(a) ELSE base
      BY <1>6, <1>12
    <3> HIDE DEF Received, base, written
    <3>3. written => base = a.base /\ a.written
      BY <1>7 DEF written
    <3> QED
      BY <3>1, <3>2, <3>3 DEF WrittenBy
  <2>3. Current(n)
    BY <1>12
  <2> DEFINE r == Received(written)
  <2>4. r \in Transfer /\ r.session = a.session /\ r.active = a.active
    BY <1>8, <2>1
  <2> HIDE DEF r, s, a, base, bitmap, written, full, taken
  <2>5. AirBecomes(n, r, s) /\ WrittenBy(r) = WrittenBy(a)
    BY <1>12, <2>2 DEF r
  <2> QED
    BY <1>1, <1>2, <1>9, <1>10, <1>12, <2>3, <2>4, <2>5, PlainInv
<1>13. CASE /\ taken /\ full /\ s.state = "active"
            /\ Handles(n, Answer(a.session, base, bitmap, "receiving"))
            /\ AirBecomes(n, Received(TRUE),
                          [s EXCEPT !.chunks = @ \o [i \in 1..Cardinality(bitmap) |-> base + i - 1]])
  <2> DEFINE size == Cardinality(bitmap)
             longer == Continued(s.chunks, base, size)
             t == [s EXCEPT !.chunks = longer]
             r == Received(TRUE)
  <2>1. Current(n) /\ a.active /\ Len(s.chunks) = base
    BY <1>2, <1>6, <1>9, <1>13
  <2>2. size = Min({base + WindowChunks, TotalChunks}) - base /\ size \in Nat
    <3>1. base < TotalChunks
      BY <1>1, <1>4
    <3>2. size = Min({base + WindowChunks, TotalChunks}) - base
      <4> HIDE DEF base
      <4> QED BY <1>1, <1>13, <3>1, WindowFact
    <3>3. Min({base + WindowChunks, TotalChunks}) =
              IF base + WindowChunks <= TotalChunks THEN base + WindowChunks ELSE TotalChunks
      <4> HIDE DEF base
      <4> QED BY <1>1, <1>4, MinFact
    <3> QED
      BY <1>1, <1>4, <3>1, <3>2, <3>3
  <2>3. longer \in Seq(Nat) /\ Len(longer) = base + size
        /\ longer = [i \in 1..Len(longer) |-> i - 1]
    <3> DEFINE chunks == s.chunks
    <3>1. /\ chunks \in Seq(Nat) /\ base \in Nat /\ size \in Nat
          /\ chunks = [i \in 1..Len(chunks) |-> i - 1] /\ Len(chunks) = base
      BY <1>1, <1>9, <2>1, <2>2
    <3> HIDE DEF chunks, base, size
    <3>2. Continued(chunks, base, size) \in Seq(Nat)
          /\ Len(Continued(chunks, base, size)) = base + size
          /\ Continued(chunks, base, size) =
                [i \in 1..Len(Continued(chunks, base, size)) |-> i - 1]
      BY <3>1, ContinuedFact
    <3> QED
      BY <3>2 DEF chunks
  <2>4. r \in Transfer /\ r.session = a.session /\ r.base = base /\ r.written
    BY <1>8
  <2> HIDE DEF a, base, bitmap, size, longer, s
  <2>5. t \in UnitStream /\ t.chunks = longer
    BY <1>9, <2>3 DEF UnitStream
  <2>6. Len(t.chunks) = WrittenBy(r)
    <3>1. Min({base + WindowChunks, TotalChunks}) \in Int
      BY <1>1, <1>4, MinFact
    <3> QED
      BY <1>1, <2>2, <2>3, <2>4, <2>5, <3>1 DEF WrittenBy
  <2>7. AirBecomes(n, r, t)
    BY <1>13 DEF longer, size, Continued
  <2> HIDE DEF t, r
  <2>8. a.session \in 1..sessions
    BY <1>2, <2>1
  <2>9. t.chunks = [i \in 1..Len(t.chunks) |-> i - 1]
    BY <2>3, <2>5
  <2>10. \E b \in Ack : b \in Answered(n) /\ Answer(a.session, base, bitmap, "receiving") = <<b>>
    BY <1>10, <2>1
  <2> QED
    BY <1>1, <1>13, <2>4, <2>5, <2>6, <2>7, <2>8, <2>9, <2>10, PlainInv
<1>14. CASE /\ taken /\ full
            /\ Handles(n, Answer(a.session, base, bitmap, "error"))
            /\ AirBecomes(n, NoAir, Aborted(s))
  <2>1. Current(n)
    BY <1>14
  <2>2. \E b \in Ack : b \in Answered(n) /\ Answer(a.session, base, bitmap, "error") = <<b>>
    BY <1>10, <2>1
  <2> HIDE DEF a, base, bitmap, taken, full
  <2> QED
    BY <1>1, <1>14, <2>2, NodeFact, PlainInv
<1> QED
  BY <1>11, <1>12, <1>13, <1>14 DEF OnChunk

\* Nothing happens to the transfer and the stream of the node.
LEMMA SameAir ==
    ASSUME TransferInv, NEW n \in Node, UNCHANGED <<air, ota_stream>>
    PROVE  AirBecomes(n, air[n], ota_stream[n])
<1>1. air \in [Node -> Transfer] /\ ota_stream \in [Unit -> UnitStream] /\ n \in Unit
  BY DEF TransferInv, AirInv, Unit
<1> QED
  BY <1>1 DEF AirBecomes

\* A node that says so has verified the whole image of its session.
LEMMA OnVerifyInv ==
    ASSUME TransferInv, NEW n \in Node, OnVerify(n)
    PROVE  TransferInv'
<1> DEFINE a == air[n]
<1>1. down[n] # <<>> /\ UNCHANGED <<boot_partition, restarting>>
  BY DEF OnVerify, Arrives
<1>2. /\ a \in Transfer /\ a.base \in Nat /\ a.bitmap \in SUBSET Int
      /\ Current(n) => a.active /\ a.session \in 1..sessions
  BY NodeFact DEF Transfer, Current
<1>3. CASE Handles(n, <<>>) /\ UNCHANGED <<air, ota_stream, verifiedBy>>
  <2>1. AirBecomes(n, a, ota_stream[n])
    BY <1>3, SameAir
  <2> QED
    BY <1>1, <1>3, <2>1, NodeFact, PlainInv
<1>4. CASE /\ Current(n)
           /\ Handles(n, Answer(a.session, a.base, a.bitmap, "verified"))
           /\ AirBecomes(n, a, [ota_stream[n] EXCEPT !.state = "verified"])
           /\ verifiedBy' = [verifiedBy EXCEPT ![a.session] = @ \cup {n}]
  <2>1. /\ a.session \in 1..sessions /\ a.session \in 1..environment.sessions
        /\ UNCHANGED <<sessions, targetsOf, environment, firmware>>
    BY <1>2, <1>4 DEF TransferInv, HistoryInv, Handles
  <2>2. Grows
    BY <1>4, <2>1 DEF TransferInv, HistoryInv, Grows
  <2>3. BootInv'
    BY <1>1, <2>1, <2>2, FrameFact DEF unit
  <2>4. /\ [session |-> a.session, base |-> a.base, bitmap |-> a.bitmap, state |-> "verified"]
               \in Ack
        /\ n \in verifiedBy'[a.session] /\ a.session \in 1..sessions'
    BY <1>2, <1>4, <2>1 DEF Ack, TransferInv, HistoryInv
  <2>5. [session |-> a.session, base |-> a.base, bitmap |-> a.bitmap, state |-> "verified"]
            \in Answered(n)'
    BY <2>4 DEF Answered
  <2>6. NetInv' /\ RootInv'
    BY <1>1, <1>4, <2>2, <2>4, <2>5, HandlesInv DEF Answer
  <2>7. /\ [ota_stream[n] EXCEPT !.state = "verified"] \in UnitStream
        /\ [ota_stream[n] EXCEPT !.state = "verified"].chunks = ota_stream[n].chunks
        /\ [ota_stream[n] EXCEPT !.state = "verified"].state # "active"
    BY NodeFact DEF UnitStream
  <2>8. AirInv'
    BY <1>4, <2>1, <2>2, <2>7, NodeFact, AirBecomesInv
  <2> QED
    BY <2>2, <2>3, <2>6, <2>8 DEF TransferInv, Grows
<1>5. CASE /\ Current(n)
           /\ Handles(n, Answer(a.session, a.base, a.bitmap, "error"))
           /\ AirBecomes(n, NoAir, Aborted(ota_stream[n]))
           /\ UNCHANGED verifiedBy
  <2>1. \E b \in Ack : b \in Answered(n) /\ Answer(a.session, a.base, a.bitmap, "error") = <<b>>
    BY <1>2, <1>5, AnswerFact
  <2> QED
    BY <1>1, <1>5, <2>1, NodeFact, PlainInv
<1> QED
  BY <1>3, <1>4, <1>5 DEF OnVerify

\* The boot partition is set to what the session of the command has proven.
LEMMA OnActivateInv ==
    ASSUME TransferInv, NEW n \in Node, OnActivate(n)
    PROVE  TransferInv'
<1> DEFINE a == air[n]
<1>1. down[n] # <<>> /\ UNCHANGED verifiedBy /\ Head(down[n]).kind = "activate"
  BY DEF OnActivate, Arrives
<1>2. /\ a \in Transfer /\ a.base \in Nat /\ a.bitmap \in SUBSET Int /\ a.session \in Nat
      /\ Current(n) => a.active /\ a.session \in 1..sessions
  BY NodeFact DEF Transfer, Current
<1>3. CASE Handles(n, <<>>) /\ UNCHANGED <<air, ota_stream, boot_partition, restarting>>
  <2>1. AirBecomes(n, a, ota_stream[n])
    BY <1>3, SameAir
  <2> QED
    BY <1>1, <1>3, <2>1, NodeFact, PlainInv
<1>4. CASE /\ Current(n)
           /\ Handles(n, Answer(a.session, a.base, a.bitmap, "activating"))
           /\ AirBecomes(n, a, Free)
           /\ boot_partition' = [boot_partition EXCEPT ![n] = a.session]
  <2>1. UNCHANGED <<history, environment, firmware>>
    BY <1>1, <1>4 DEF Handles, history
  <2>2. Grows
    BY <2>1, SameHistory DEF TransferInv
  <2>3. BootInv'
    <3>1. Proven(a.session)
      BY <1>1, <1>4, PacketOf DEF Current
    <3>2. n \in Unit
      BY DEF Unit
    <3>3. /\ boot_partition' \in [Unit -> Nat]
          /\ \A u \in Unit : Proven(boot_partition'[u])
      BY <1>2, <1>4, <3>1, <3>2 DEF TransferInv, BootInv
    <3>4. \A s : Proven(s) => Proven(s)'
      BY <2>2, GrowthFact DEF TransferInv
    <3> QED
      BY <2>1, <3>3, <3>4 DEF TransferInv, BootInv
  <2>4. \E b \in Ack : /\ b \in Answered(n)
                       /\ Answer(a.session, a.base, a.bitmap, "activating") = <<b>>
    BY <1>2, <1>4, AnswerFact
  <2>5. Answered(n)' = Answered(n)
    BY <2>1 DEF Answered, history
  <2>6. NetInv' /\ RootInv'
    BY <1>1, <1>4, <2>2, <2>4, <2>5, HandlesInv
  <2>7. AirInv'
    BY <1>2, <1>4, <2>2, NodeFact, AirBecomesInv
  <2> QED
    BY <2>2, <2>3, <2>6, <2>7 DEF TransferInv, Grows
<1>5. CASE /\ Current(n)
           /\ Handles(n, Answer(a.session, a.base, a.bitmap, "error"))
           /\ AirBecomes(n, NoAir, Aborted(ota_stream[n]))
           /\ UNCHANGED <<boot_partition, restarting>>
  <2>1. \E b \in Ack : b \in Answered(n) /\ Answer(a.session, a.base, a.bitmap, "error") = <<b>>
    BY <1>2, <1>5, AnswerFact
  <2> QED
    BY <1>1, <1>5, <2>1, NodeFact, PlainInv
<1> QED
  BY <1>3, <1>4, <1>5 DEF OnActivate

-----------------------------------------------------------------------------
(* Fleet OTA: restarts, and what disturbs the fleet. *)

\* What a restart runs is proven: the boot partition or the confirmed image.
LEMMA BootUnitInv ==
    ASSUME TransferInv, NEW u \in Unit, BootUnit(u)
    PROVE  TransferInv'
<1> USE DEF TransferInv
<1>1. /\ UNCHANGED <<history, environment, net, heard>>
      /\ ota_stream' = [ota_stream EXCEPT ![u] = Free]
      /\ firmware' = [firmware EXCEPT ![u].running = firmware'[u].running]
      /\ firmware'[u].running \in {boot_partition[u], firmware[u].confirmed}
      /\ boot_partition' = [boot_partition EXCEPT ![u] = firmware'[u].running]
  BY DEF BootUnit, BootInv
<1>2. Grows
  BY <1>1, SameHistory
<1>3. BootInv'
  <2>1. firmware'[u].running \in Nat /\ Proven(firmware'[u].running)
    BY <1>1 DEF BootInv
  <2> DEFINE runs == firmware'[u].running
  <2>2. /\ firmware' = [firmware EXCEPT ![u].running = runs]
        /\ boot_partition' = [boot_partition EXCEPT ![u] = runs]
        /\ runs \in Nat /\ Proven(runs)
    BY <1>1, <2>1
  <2> HIDE DEF runs
  <2>3. /\ boot_partition' \in [Unit -> Nat]
        /\ firmware' \in [Unit -> [running : Nat, confirmed : Nat]]
        /\ \A v \in Unit : /\ Proven(boot_partition'[v])
                           /\ Proven(firmware'[v].running) /\ Proven(firmware'[v].confirmed)
    BY <2>2 DEF BootInv
  <2>4. \A s : Proven(s) => Proven(s)'
    BY <1>2, GrowthFact
  <2> QED
    BY <2>3, <2>4 DEF BootInv
<1>4. NetInv'
  BY <1>1, <1>2, FrameFact
<1>5. RootInv'
  <2>1. CASE u = Root
    <3>1. ota' = NoOta /\ UNCHANGED heard
      BY <1>1, <2>1 DEF BootUnit
    <3> QED
      BY <3>1 DEF RootInv, Ota, NoOta, Unit, Root
  <2>2. CASE u # Root
    <3>1. UNCHANGED <<ota, heard>>
      BY <1>1, <2>2 DEF BootUnit
    <3> QED
      BY <1>2, <3>1, FrameFact
  <2> QED
    BY <2>1, <2>2
<1>6. AirInv'
  <2>1. CASE u = Root
    <3>1. UNCHANGED air
      BY <2>1 DEF BootUnit
    <3>2. /\ ota_stream' = [ota_stream EXCEPT ![Root] = ota_stream'[Root]]
          /\ ota_stream'[Root] \in UnitStream
      BY <1>1, <2>1 DEF AirInv, UnitStream, Free
    <3> QED
      BY <1>2, <3>1, <3>2, RootStreamFact
  <2>2. CASE u # Root
    <3>1. u \in Node /\ AirBecomes(u, NoAir, Free)
      BY <1>1, <2>2 DEF BootUnit, AirBecomes, Unit
    <3> QED
      BY <1>2, <3>1, NodeFact, AirBecomesInv
  <2> QED
    BY <2>1, <2>2
<1> QED
  BY <1>2, <1>3, <1>4, <1>5, <1>6 DEF Grows

LEMMA ConfirmTrialInv ==
    ASSUME TransferInv, NEW u \in Unit, ConfirmTrial(u)
    PROVE  TransferInv'
<1> USE DEF TransferInv
<1>1. /\ UNCHANGED <<history, environment, net, heard, ota, air, ota_stream, boot_partition>>
      /\ firmware' = [firmware EXCEPT ![u].confirmed = firmware[u].running]
  BY DEF ConfirmTrial
<1>2. Grows
  BY <1>1, SameHistory
<1>3. BootInv'
  <2>1. /\ firmware' \in [Unit -> [running : Nat, confirmed : Nat]]
        /\ \A v \in Unit : /\ Proven(boot_partition[v])
                           /\ Proven(firmware'[v].running) /\ Proven(firmware'[v].confirmed)
    BY <1>1 DEF BootInv
  <2>2. \A s : Proven(s) => Proven(s)'
    BY <1>2, GrowthFact
  <2> QED
    BY <1>1, <2>1, <2>2 DEF BootInv
<1>4. NetInv' /\ RootInv' /\ AirInv'
  BY <1>1, <1>2, FrameFact
<1> QED
  BY <1>2, <1>3, <1>4 DEF Grows

\* Losing or delaying packets leaves only packets that were sent.
LEMMA RadioInv ==
    ASSUME TransferInv, NEW n \in Node, Lose(n) \/ Delay(n)
    PROVE  TransferInv'
<1> USE DEF TransferInv
<1>1. UNCHANGED <<history, environment, unit, air, ota_stream, ota, heard>>
  BY DEF Lose, Delay, fleet
<1>2. Grows
  BY <1>1, SameHistory
<1>3. BootInv' /\ RootInv' /\ AirInv'
  BY <1>1, <1>2, FrameFact
<1>4. /\ Sent' = Sent
      /\ \A m : Answered(m)' = Answered(m)
  BY <1>1 DEF Sent, Answered, Proven, history
<1>5. down' \in [Node -> Seq(Sent)]
  <2>1. \A q \in Seq(Sent) : q # <<>> => /\ Tail(q) \in Seq(Sent)
                                         /\ Append(Tail(q), Head(q)) \in Seq(Sent)
    BY QueueFacts
  <2>2. Len(down[n]) > 1 => down[n] # <<>>
    BY EmptySeq
  <2>3. \/ UNCHANGED down
        \/ down[n] # <<>> /\ down' = [down EXCEPT ![n] = Tail(@)]
        \/ down[n] # <<>> /\ down' = [down EXCEPT ![n] = Append(Tail(@), Head(@))]
    BY <2>2 DEF Lose, Delay
  <2> QED
    BY <2>1, <2>3 DEF NetInv
<1>6. up' \in [Node -> Seq(Ack)] /\ \A m \in Node : up'[m] \in Seq(Answered(m))
  <2>1. \A S : \A q \in Seq(S) : q # <<>> => /\ Tail(q) \in Seq(S)
                                             /\ Append(Tail(q), Head(q)) \in Seq(S)
    BY QueueFacts
  <2>2. Len(up[n]) > 1 => up[n] # <<>>
    BY EmptySeq
  <2>3. \/ UNCHANGED up
        \/ up[n] # <<>> /\ up' = [up EXCEPT ![n] = Tail(@)]
        \/ up[n] # <<>> /\ up' = [up EXCEPT ![n] = Append(Tail(@), Head(@))]
    BY <2>2 DEF Lose, Delay
  <2>4. up \in [Node -> Seq(Ack)] /\ \A m \in Node : up[m] \in Seq(Answered(m))
    BY DEF NetInv
  <2>5. up[n] # <<>> => /\ Tail(up[n]) \in Seq(Ack) /\ Tail(up[n]) \in Seq(Answered(n))
                        /\ Append(Tail(up[n]), Head(up[n])) \in Seq(Ack)
                        /\ Append(Tail(up[n]), Head(up[n])) \in Seq(Answered(n))
    BY <2>1, <2>4
  <2> QED
    BY <2>3, <2>4, <2>5
<1>7. NetInv'
  BY <1>4, <1>5, <1>6 DEF NetInv
<1> QED
  BY <1>2, <1>3, <1>7 DEF Grows

LEMMA UsbAbortInv ==
    ASSUME TransferInv, NEW u \in Unit, UsbTaskAborts(u)
    PROVE  TransferInv'
<1> USE DEF TransferInv
<1>1. /\ UNCHANGED <<history, environment, unit, net, ota, heard, air>>
      /\ ota_stream' = [ota_stream EXCEPT ![u] = Free]
  BY DEF UsbTaskAborts
<1>2. Grows
  BY <1>1, SameHistory
<1>3. BootInv' /\ RootInv' /\ NetInv'
  BY <1>1, <1>2, FrameFact
<1>4. AirInv'
  <2>1. CASE u = Root
    <3>1. /\ ota_stream' = [ota_stream EXCEPT ![Root] = ota_stream'[Root]]
          /\ ota_stream'[Root] \in UnitStream
      BY <1>1, <2>1 DEF AirInv, UnitStream, Free
    <3> QED
      BY <1>1, <1>2, <3>1, RootStreamFact
  <2>2. CASE u # Root
    <3>1. u \in Node
      BY <2>2 DEF Unit
    <3>2. AirBecomes(u, air[u], Free)
      BY <1>1, <3>1 DEF AirBecomes, AirInv
    <3> QED
      BY <1>2, <3>1, <3>2, NodeFact, AirBecomesInv
  <2> QED
    BY <2>1, <2>2
<1> QED
  BY <1>2, <1>3, <1>4 DEF Grows

-----------------------------------------------------------------------------
(* Fleet OTA: the theorems. *)

LEMMA FleetInitInv == FleetInit => TransferInv
<1> SUFFICES ASSUME FleetInit PROVE TransferInv
  OBVIOUS
<1>1. environment \in Environments /\ environment.sessions \in Nat
  BY EnvironmentAssumption DEF FleetInit
<1>2. HistoryInv
  BY <1>1 DEF FleetInit, HistoryInv
<1>3. BootInv
  BY DEF FleetInit, BootInv, Proven
<1>4. NetInv
  BY DEF FleetInit, NetInv
<1>5. RootInv
  <2>1. NoAck \in Ack
    BY DEF NoAck, Ack
  <2> QED
    BY <2>1 DEF FleetInit, RootInv, Ota, NoOta, Unit, Root
<1>6. AirInv
  <2>1. /\ Free \in UnitStream /\ Free.chunks = <<>>
        /\ NoAir \in Transfer /\ ~NoAir.active
    BY DEF Free, UnitStream, NoAir, Transfer
  <2> QED
    BY <2>1 DEF FleetInit, AirInv, ImageInOrder, Unit
<1> QED
  BY <1>2, <1>3, <1>4, <1>5, <1>6 DEF TransferInv

LEMMA FleetStepInv == TransferInv /\ [FleetNext]_fleet_vars => TransferInv'
<1> SUFFICES ASSUME TransferInv, [FleetNext]_fleet_vars PROVE TransferInv'
  OBVIOUS
\* Steps that touch nothing the invariant is about.
<1>1. ASSUME UNCHANGED <<ota, heard, air, ota_stream, unit, net, history, environment>>
      PROVE  TransferInv'
  <2>1. Grows
    BY <1>1, SameHistory DEF TransferInv
  <2> QED
    BY <1>1, <2>1, FrameFact DEF TransferInv, Grows
<1>2. ASSUME NEW targets \in SUBSET environment.selectable, NEW own \in BOOLEAN,
             OtaBegin(targets, own)
      PROVE  TransferInv'
  <2>1. targets \in SUBSET Node
    BY EnvironmentAssumption DEF TransferInv, HistoryInv
  <2> QED
    BY <1>2, <2>1, BeginInv
<1>3. CASE OtaWrite
  BY <1>3, WriteInv
<1>4. CASE OtaFinish
  BY <1>4, FinishInv
<1>5. CASE RootStep
  <2>1. CASE GiveUp \/ WindowFails
    BY <2>1, AbortInv DEF GiveUp, WindowFails
  <2>2. CASE Begun \/ WindowComplete \/ Commanded \/ NotCommanded \/ Rejoined
    BY <2>2, MovesInv
  <2>3. CASE Repair \/ AllVerified \/ Activate \/ ActivateRoot
    BY <2>3, RepairInv, AllVerifiedInv, ActivateInv, ActivateRootInv
  <2> QED
    BY <1>5, <2>1, <2>2, <2>3 DEF RootStep
<1>6. ASSUME NEW n \in Node, NodeStep(n) \/ OnAck(n) PROVE TransferInv'
  BY <1>6, OnBeginInv, OnChunkInv, OnVerifyInv, OnActivateInv, OnAbortInv, OnAckInv DEF NodeStep
<1>7. ASSUME NEW n \in Node, Presence(n) \/ FcChanges(n) \/ Silence(n) PROVE TransferInv'
  BY <1>1, <1>7 DEF Presence, FcChanges, Silence, fleet
<1>8. ASSUME NEW n \in Node, Lose(n) \/ Delay(n) PROVE TransferInv'
  BY <1>8, RadioInv
<1>9. ASSUME NEW u \in Unit, UnitRestarts(u) \/ ConfirmTrial(u) \/ UnitLosesPower(u) \/ UsbTaskAborts(u)
      PROVE  TransferInv'
  BY <1>9, BootUnitInv, ConfirmTrialInv, UsbAbortInv DEF UnitRestarts, UnitLosesPower
<1>10. CASE UNCHANGED fleet_vars
  BY <1>1, <1>10 DEF fleet_vars, fleet
<1> QED
  BY <1>2, <1>3, <1>4, <1>5, <1>6, <1>7, <1>8, <1>9, <1>10 DEF FleetNext

\* Whatever the host, the nodes and the radio do, the fleet OTA keeps its books: what
\* is on its way, what is counted and what is written belongs to a session, and only
\* sessions that all their targets verified are activated, booted or fallen back to.
THEOREM TransferIsConsistent == FleetSpec => []TransferInv
<1>1. FleetInit => TransferInv
  BY FleetInitInv
<1>2. TransferInv /\ [FleetNext]_fleet_vars => TransferInv'
  BY FleetStepInv
<1> QED
  BY <1>1, <1>2, PTL DEF FleetSpec

\* ACCEPTANCE.md:17-18, for every fleet, window and image: no unit boots the image of
\* a session that one of its targets has not verified.
THEOREM NoBootBeforeVerification == FleetSpec => []AllVerifyFirst
<1>1. TransferInv => AllVerifyFirst
  BY DEF TransferInv, BootInv, Proven, AllVerifyFirst
<1> QED
  BY <1>1, TransferIsConsistent, PTL

\* process_air_ota_chunk, for every order of chunks, repairs and commands: the flash of
\* a node holds a beginning of the image, each chunk once and in its place.
THEOREM FlashInOrder == FleetSpec => []ImageInOrder
<1>1. TransferInv => ImageInOrder
  BY DEF TransferInv, AirInv
<1> QED
  BY <1>1, TransferIsConsistent, PTL
=============================================================================
