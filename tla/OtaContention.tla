---------------------------- MODULE OtaContention ---------------------------
(***************************************************************************)
(* The web server's upload (airlink_ota_http_upload, POST /api/v1/ota) on  *)
(* the stream it shares with usb_task.  The stream does not know its       *)
(* owner: usb_task treats every active stream as its own, and the bytes an *)
(* operator types meanwhile as data of the image.  The check of a complete *)
(* image is one step.                                                      *)
(***************************************************************************)
EXTENDS OtaImage

VARIABLES
    web,        \* where the request handler stands
    received,   \* chunks of the request's body it has passed on
    owner,      \* history: the task that opened the stream
    cause       \* history: the request had a reason to fail

request == <<web, received, owner, cause>>

ContentionInit == Init /\ web = "idle" /\ received = 0 /\ owner = "usb" /\ cause = FALSE

\* Bytes from two sources make no image.
Mixed(n) == [stream EXCEPT !.written = @ + n, !.kind = "broken", !.digest = FALSE]

-----------------------------------------------------------------------------
WebClaim ==
    /\ web \in {"idle", "failed"} /\ usb # "rebooting"
    /\ Claim
    /\ web' = "opening" /\ cause' = FALSE
    /\ UNCHANGED <<flash, stream, usb, usb_expired, health, timing, received, owner>>

WebOpen(kind, digest) ==
    /\ web = "opening"
    /\ Open(kind, digest)
    /\ web' = IF stream'.active THEN "receiving" ELSE "failed"
    /\ received' = 0 /\ owner' = "web" /\ cause' = ~stream'.active
    /\ UNCHANGED <<state, running, boot, usb, usb_expired, health, timing>>

\* airlink_ota_stream_write of the next chunk; its failure aborts whatever stream
\* there is.
WebData ==
    /\ web = "receiving" /\ received < Size
    /\ received' = received + 1
    /\ IF stream.active
       THEN IF owner = "web" \/ stream.written = Size THEN Write(1)
            ELSE stream' = Mixed(1) /\ UNCHANGED <<image, in_progress>>
       ELSE UNCHANGED <<image, stream, in_progress>>
    /\ web' = IF stream'.active THEN "receiving" ELSE "failed"
    /\ UNCHANGED <<state, running, boot, usb, usb_expired, health, timing, owner, cause>>

\* The connection breaks, times out too often, or the flash refuses a write.
WebGivesUp ==
    /\ web = "receiving" /\ received < Size
    /\ Abort
    /\ web' = "failed" /\ cause' = TRUE
    /\ UNCHANGED <<flash, usb, usb_expired, health, timing, received, owner>>

WebFinish ==
    /\ web = "receiving" /\ received = Size
    /\ IF stream.active /\ stream.written = Size
       THEN Finish /\ cause' = (owner = "web" /\ boot' = boot)
       ELSE UNCHANGED <<flash, stream, in_progress, cause>>
    /\ web' = IF boot' # boot THEN "rebooting" ELSE "failed"
    /\ UNCHANGED <<usb, usb_expired, health, timing, received, owner>>

WebReboot == web = "rebooting" /\ Restart(state, boot)

-----------------------------------------------------------------------------
(* usb_task beside it. *)

UsbOwnOpen ==
    /\ \E kind \in Image, digest \in BOOLEAN : UsbOpen(kind, digest)
    /\ owner' = IF stream'.active THEN "usb" ELSE owner
    /\ UNCHANGED <<web, received, cause>>

\* Whatever arrives over USB while the web server's stream is active is written
\* into it; bytes too many, or the failing check of a full stream, end it.
UsbTyping(n) ==
    /\ usb = "cli" /\ stream.active /\ owner = "web"
    /\ IF stream.written + n < Size THEN stream' = Mixed(n) /\ UNCHANGED in_progress
                                   ELSE Abort
    /\ usb_expired' = (usb_expired /\ ~stream'.active)
    /\ UNCHANGED <<flash, usb, health, timing, request>>

UsbBeside ==
    \/ UsbOwnOpen
    \/ \E n \in 1 .. Size : UsbTyping(n)
    \/ owner = "usb" /\ UsbFinish /\ UNCHANGED request
    \/ owner = "usb" /\ (\E n \in 1 .. Size : UsbData(n)) /\ UNCHANGED request
    \/ owner = "usb" /\ UsbWriteFails /\ UNCHANGED request
    \/ (UsbClaim \/ UsbExpire \/ UsbTimeout) /\ UNCHANGED request

WebStep ==
    \/ WebClaim \/ WebData \/ WebGivesUp \/ WebFinish
    \/ \E kind \in Image, digest \in BOOLEAN : WebOpen(kind, digest)

ContentionReset ==
    /\ Reset \/ WebReboot
    /\ web' = "idle" /\ received' = 0 /\ owner' = "usb" /\ cause' = FALSE

ContentionNext ==
    \/ UsbBeside \/ WebStep
    \/ (StatusStep \/ ConfirmStep) /\ UNCHANGED request
    \/ ContentionReset

ContentionSpec == ContentionInit /\ [][ContentionNext]_<<vars, request>>

-----------------------------------------------------------------------------
\* README.md: "POST /api/v1/ota  Validate, write and activate an OTA application
\* image": a request fails only for a cause of its own, a bad image, a broken
\* connection, an image on trial or a failing flash.
UploadFailsForCause == web = "failed" => cause
=============================================================================
