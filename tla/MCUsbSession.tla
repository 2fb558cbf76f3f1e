---------------------------- MODULE MCUsbSession ----------------------------
(* Model-checking instance of UsbSession.  The environments: telemetry around the   *)
(* escape sequence; sessions of a ground root; a fleet transfer; the CLI of a unit. *)
EXTENDS UsbSession

MCEnvironments ==
    LET Open == Escape
        Host(root, writes, count, frames, faults) ==
            [root |-> root, writes |-> writes, count |-> count, frames |-> frames, faults |-> faults]
    IN  {Host(FALSE, {<<"p">>, <<"x">>, <<"p", "c">>, Open}, 4, 0, 0),
         Host(TRUE, {Open, <<"list", "0">>, <<"list">>, <<"close", "0">>}, 4, 1, 1),
         Host(TRUE, {Open, <<"p", "n">>, <<"reboot", "0">>}, 2, 2, 1),
         Host(TRUE, {Open, <<"begin", "0">>, <<"finish", "0", "abort", "0">>}, 3, 0, 1),
         Host(FALSE, {Open, <<"download", "n">>, <<"reboot", "n">>, <<"0">>}, 3, 0, 1)}
=============================================================================
