----------------------------- MODULE MCCanTunnel ----------------------------
(* Model-checking instance of CanTunnel: many packets and no fault, or few packets *)
(* and faults that make the receiver resynchronise.                                *)
EXTENDS CanTunnel

MCEnvironments == {[packets |-> 4, others |-> 0, faults |-> 0],
                   [packets |-> 3, others |-> 1, faults |-> 1],
                   [packets |-> 2, others |-> 0, faults |-> 2]}
=============================================================================
