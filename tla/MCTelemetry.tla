---------------------------- MODULE MCTelemetry -----------------------------
(* Model-checking instance of Telemetry.  The environments: the bridge between two *)
(* units under disturbances; an autopilot among others on a UART that may overflow; *)
(* UDP clients that repeat each other's frames.                                     *)
EXTENDS Telemetry

MCVehicleSide == {Uart, Bridge}

MCEnvironments ==
    LET Quiet == [down |-> 0, up |-> 0, kinds |-> {<<1, "none">>}, overflows |-> FALSE,
                  bridge |-> FALSE, udp |-> {}, ticks |-> 0, faults |-> 0]
        Bridged == [Quiet EXCEPT !.bridge = TRUE, !.faults = 1]
    IN  {[Bridged EXCEPT !.down = 2],
         [Bridged EXCEPT !.down = 2, !.overflows = TRUE],
         [Bridged EXCEPT !.up = 2],
         [Bridged EXCEPT !.down = 1, !.up = 1],
         [Bridged EXCEPT !.up = 1, !.faults = 2],
         [Quiet EXCEPT !.down = 4, !.overflows = TRUE, !.faults = 2,
                       !.kinds = {<<1, "armed">>, <<1, "disarmed">>, <<1, "other">>, <<2, "disarmed">>}],
         [Quiet EXCEPT !.udp = {1, 2}, !.up = 5, !.ticks = 2, !.faults = 1]}
=============================================================================
