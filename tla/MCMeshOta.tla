----------------------------- MODULE MCMeshOta -----------------------------
(* Model-checking instance of MeshOta. *)
EXTENDS MeshOta

\* The first node is the parent of the second.
Chain == [n \in Node |-> n + 1]

\* One transfer to any targets with one disturbance, two transfers to one target
\* with one, and one with as many losses as the code has rounds of repair.
FleetEnvironments ==
    {[prompt |-> FALSE, selectable |-> Node, rounds |-> 1, sessions |-> 1, faults |-> 1],
     [prompt |-> FALSE, selectable |-> {1}, rounds |-> 1, sessions |-> 2, faults |-> 1],
     [prompt |-> TRUE, selectable |-> Node, rounds |-> 3, sessions |-> 1, faults |-> 3]}
=============================================================================
