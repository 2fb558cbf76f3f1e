---------------------------- MODULE AtomicConfig ----------------------------
(***************************************************************************)
(* What the persistent mesh configuration of a node promises: one register *)
(* with a generation, written as a whole or not at all, and at most one    *)
(* offer of the ground root, which is accepted exactly as it was made and  *)
(* only while nothing else has been written since.  Power may fail at any  *)
(* moment; it takes the offer and nothing else.                            *)
(*                                                                         *)
(* MeshConfigStore implements this with two pairs of records, a RAM copy   *)
(* and erasures that any other step may come between.                      *)
(***************************************************************************)
EXTENDS Naturals

CONSTANTS
    Value,      \* the configurations
    Default     \* the one of a new node

VARIABLES
    config, generation,     \* the configuration the node runs, or will run when
                            \* its power is back
    offer,                  \* what the root has offered
    up                      \* the node has power

vars == <<config, generation, offer, up>>

NoOffer == [valid |-> FALSE, generation |-> 0, value |-> Default]

Init ==
    /\ config = Default /\ generation = 0
    /\ offer = NoOffer
    /\ up = TRUE

\* The register changes; the power may fail with the same stroke.
Become(c) ==
    /\ config' = c
    /\ generation' = generation + 1
    /\ up' \in BOOLEAN
    /\ offer' = IF up' THEN offer ELSE NoOffer

Write(c) == up /\ Become(c)

Accept ==
    /\ up
    /\ offer.valid /\ offer.generation = generation + 1
    /\ Become(offer.value)

Offer(c) ==
    /\ up
    /\ offer' = [valid |-> TRUE, generation |-> generation + 1, value |-> c]
    /\ UNCHANGED <<config, generation, up>>

Withdraw ==
    /\ up
    /\ offer' = NoOffer
    /\ UNCHANGED <<config, generation, up>>

Fail ==
    /\ up' = FALSE
    /\ offer' = NoOffer
    /\ UNCHANGED <<config, generation>>

Start ==
    /\ ~up
    /\ up' = TRUE
    /\ UNCHANGED <<config, generation, offer>>

Next ==
    \/ \E c \in Value : Write(c) \/ Offer(c)
    \/ Accept \/ Withdraw \/ Fail \/ Start

Spec == Init /\ [][Next]_vars
=============================================================================
