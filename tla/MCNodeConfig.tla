----------------------------- MODULE MCNodeConfig ---------------------------
(* Model-checking instance of NodeConfig. *)
EXTENDS NodeConfig

Configurations == [serial : Serial \cup {NoSerial}, password : Password]
FirstDefaults == CHOOSE c \in Configurations : c.serial = NoSerial

\* A life in the workshop, and one in the field with commands of the root.
NodeEnvironments ==
    {[workshop |-> TRUE, exchanges |-> 0, disturbances |-> 5],
     [workshop |-> FALSE, exchanges |-> 2, disturbances |-> 2],
     [workshop |-> FALSE, exchanges |-> 3, disturbances |-> 1]}
=============================================================================
