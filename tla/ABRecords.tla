------------------------------ MODULE ABRecords -----------------------------
(***************************************************************************)
(* The A/B record pairs AirLink keeps in NVS: every record carries a magic *)
(* number, a generation and a CRC; a generation's parity selects the key   *)
(* it is written under ("_a" even, "_b" odd), and start-up takes the       *)
(* readable record with the higher generation.  The mesh configuration,    *)
(* its staged successor, the approval list and the base configuration are  *)
(* all stored this way.                                                    *)
(***************************************************************************)
EXTENDS Integers

CONSTANTS
    Value,      \* the payloads a record may carry
    Default     \* the payload used when no record is readable

ASSUME DefaultAssumption == Default \in Value

Slot == {"a", "b"}

\* Mutant: every record goes under the same key.
SlotAlwaysA(generation) == "a"

\* The key suffix write_config_slot derives from a generation.
SlotOf(generation) == IF generation % 2 = 1 THEN "b" ELSE "a"

Record == [valid : BOOLEAN, generation : Nat, value : Value]

Stored(value, generation) ==
    [valid |-> TRUE, generation |-> generation, value |-> value]

\* What read_config_slot reports for a missing key, a wrong length or magic, a
\* CRC mismatch or a payload that does not validate.
Unreadable == [valid |-> FALSE, generation |-> 0, value |-> Default]

Pair == [Slot -> Record]
EmptyPair == [s \in Slot |-> Unreadable]

\* Mutant: generations are not compared.
NewestPrefersA(pair) == IF pair["a"].valid THEN pair["a"] ELSE pair["b"]

\* The record start-up and commit_staged select: the readable one with the
\* higher generation, "a" on a tie; Unreadable when there is none.
Newest(pair) ==
    IF /\ pair["a"].valid
       /\ ~pair["b"].valid \/ pair["a"].generation >= pair["b"].generation
    THEN pair["a"]
    ELSE pair["b"]

\* nvs_set_blob and nvs_commit of a record under its generation's key.
Written(pair, value, generation) ==
    [pair EXCEPT ![SlotOf(generation)] = Stored(value, generation)]

\* What a power loss during that write can leave: the old record, the new one
\* or, where the storage does not replace a blob atomically, neither.
Interrupted(pair, value, generation, torn) ==
    {pair, Written(pair, value, generation)}
      \cup (IF torn THEN {[pair EXCEPT ![SlotOf(generation)] = Unreadable]} ELSE {})
=============================================================================
