---------------------------- MODULE MCFleetUpdate ---------------------------
(* Model-checking instance of FleetUpdate. *)
EXTENDS FleetUpdate, TLC

Planned(nodes, count, kinds, many) ==
    [approved |-> nodes, updates |-> count, faults |-> [kinds |-> kinds, left |-> many]]

\* One update of the whole fleet under any disturbance; two updates of one node under two
\* disturbances that leave the approval list alone.
MCPlans ==
    {Planned(Node, 1, Kind, 1)}
      \cup {Planned({n}, 2, Kind \ {"removal"}, 2) : n \in Node}

\* One update of a node whose answer may be lost, and no other disturbance.
WatchdogPlans == {Planned({n}, 1, {"watchdog"}, 1) : n \in Node}

\* Air nodes are interchangeable, and so are the configurations to change to.
NodeSymmetry == Permutations(Node) \cup Permutations(Value \ {Default})
=============================================================================
