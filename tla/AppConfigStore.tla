---------------------------- MODULE AppConfigStore ---------------------------
(***************************************************************************)
(* The base configuration of a unit (airlink_config.c), an A/B pair of     *)
(* records, and the two other records its start-up merges: the factory     *)
(* identity in a partition of its own, written once by the factory         *)
(* command, and the one-time provisioning record the USB flasher leaves    *)
(* (airlink_provision.c).                                                  *)
(*                                                                         *)
(* A configuration is reduced to the two fields those records decide: the  *)
(* serial number and the password (ap_password and admin_password, always  *)
(* set together by start-up, reset and identity).  A schema-v1 record is a *)
(* record whose start-up must be followed by a save.                       *)
(*                                                                         *)
(* Failures covered: power loss between any two steps of start-up and of   *)
(* the factory command, or in the middle of a record write; a failed       *)
(* write; a provisioning partition that cannot be erased; NVS found        *)
(* damaged and erased.  Faults says which of them may happen; "window" is a   *)
(* power loss between the erasure of a provisioning record that counted    *)
(* and the end of that start-up.                                           *)
(***************************************************************************)
EXTENDS ABRecords

CONSTANTS
    Serial, Password,
    NoSerial,       \* the empty serial number of a unit without an identity
    None,           \* no provisioning record
    Invalid,        \* a provisioning record that does not validate
    Faults,         \* subset of FaultKinds
    MaxGeneration   \* bound: from it on no command and no flashing (the code
                    \* saturates at UINT32_MAX)

FaultKinds == {"torn", "window", "erase", "damage", "write"}

ASSUME ValueAssumption ==
    /\ Value = [serial : Serial \cup {NoSerial}, password : Password]
    /\ NoSerial \notin Serial
    /\ Password # {}
    /\ {None, Invalid} \cap Password = {} /\ None # Invalid
ASSUME FaultAssumption == Faults \subseteq FaultKinds
ASSUME GenerationAssumption == MaxGeneration \in Nat

VARIABLES
    slots,          \* NVS keys config_a and config_b
    legacy,         \* the keys that hold a schema-v1 record
    identity,       \* set with at most one factory identity
    provision,      \* the provisioning partition
    pc,             \* where the code stands
    s_config, s_generation,
    todo,           \* what start-up still has to store: "defaults", "save", "nothing"
    promised        \* history: the passwords the operator may rely on: the last one
                    \* a command, the flasher or a first start settled, and one
                    \* whose command was cut short

disk == <<slots, legacy, identity, provision>>
vars == <<disk, pc, s_config, s_generation, todo, promised>>

Identity == [serial : Serial, password : Password]

\* A unit in the factory, or one upgraded from the previous firmware.
Init ==
    /\ pc = "down"
    /\ identity = {}
    /\ provision = None
    /\ s_config = Default /\ s_generation = 0
    /\ todo = "nothing"
    /\ \/ slots = EmptyPair /\ legacy = {}
       \/ slots = Written(EmptyPair, Default, 1) /\ legacy = {"b"}
    /\ promised = Password

-----------------------------------------------------------------------------
(* Start-up: airlink_config_init. *)

\* load_defaults: the identity's credentials or random ones.
Defaults ==
    IF identity = {}
    THEN {[serial |-> NoSerial, password |-> p] : p \in Password}
    ELSE identity

Selected == IF Newest(slots) = slots["a"] THEN "a" ELSE "b"

\* The configurations the records select, before the provisioning record.
Loaded ==
    IF ~Newest(slots).valid THEN Defaults
    ELSE IF identity = {} THEN {Newest(slots).value}
    ELSE {[Newest(slots).value EXCEPT !.serial = i.serial] : i \in identity}

\* Mutant: a provisioning record replaces the credentials of a factory identity.
AlwaysProvisioned(c) ==
    IF provision \in Password THEN [c EXCEPT !.password = provision] ELSE c

\* A valid provisioning record counts only on a unit without an identity.
Provisioned(c) ==
    IF provision \in Password /\ identity = {}
    THEN [c EXCEPT !.password = provision]
    ELSE c

\* Mutant: only a migrated record is saved again.
TodoMigration(c) ==
    IF ~Newest(slots).valid THEN "defaults"
    ELSE IF Selected \in legacy THEN "save"
    ELSE "nothing"

\* What is left to store: the defaults, or a change to the selected record.
Todo(c) ==
    IF ~Newest(slots).valid THEN "defaults"
    ELSE IF c # Newest(slots).value \/ Selected \in legacy THEN "save"
    ELSE "nothing"

Boot ==
    /\ pc = "down"
    /\ \E c \in Loaded :
          /\ s_config' = Provisioned(c)
          /\ todo' = Todo(Provisioned(c))
    /\ s_generation' = IF Newest(slots).valid THEN Newest(slots).generation ELSE 1
    /\ pc' = IF provision = None THEN "store" ELSE "erase"
    /\ UNCHANGED <<disk, promised>>

\* provisioning_record_erase, whatever the record held; a failure is only logged.
EraseProvision ==
    /\ pc = "erase"
    /\ \/ /\ provision' = None
          /\ pc' = IF provision \in Password /\ identity = {} THEN "erased" ELSE "store"
       \/ /\ "erase" \in Faults
          /\ provision' = provision
          /\ pc' = "store"
    /\ UNCHANGED <<slots, legacy, identity, s_config, s_generation, todo, promised>>

\* write_record: the new record takes the place of whatever its key held.
Store(c, generation) ==
    /\ slots' = Written(slots, c, generation)
    /\ legacy' = legacy \ {SlotOf(generation)}

\* save_locked.
SaveLocked(c) ==
    /\ Store(c, s_generation + 1)
    /\ s_config' = c
    /\ s_generation' = s_generation + 1

FinishBoot ==
    /\ pc \in {"store", "erased"}
    /\ pc' = "up"
    /\ \/ todo = "nothing" /\ UNCHANGED <<slots, legacy, s_config, s_generation>>
       \/ todo = "defaults" /\ Store(s_config, 1) /\ UNCHANGED <<s_config, s_generation>>
       \/ todo = "save" /\ SaveLocked(s_config)
    /\ promised' = {s_config.password}
    /\ todo' = "nothing"
    /\ UNCHANGED <<identity, provision>>

-----------------------------------------------------------------------------
(* Commands. *)

\* airlink_config_save of a configuration that was read before (NodeConfig).
Save(c) ==
    /\ pc = "up" /\ s_generation < MaxGeneration
    /\ SaveLocked(c)
    /\ promised' = {c.password}
    /\ UNCHANGED <<identity, provision, pc, todo>>

\* airlink_config_factory_reset.
FactoryReset ==
    /\ pc = "up" /\ s_generation < MaxGeneration
    /\ \E c \in Defaults : SaveLocked(c) /\ promised' = {c.password}
    /\ UNCHANGED <<identity, provision, pc, todo>>

\* airlink_config_set_identity up to write_identity: another identity is never
\* replaced.
WriteIdentity(i) ==
    /\ pc = "up" /\ s_generation < MaxGeneration
    /\ identity \subseteq {i}
    /\ identity' = {i}
    /\ pc' = "identity"
    /\ UNCHANGED <<slots, legacy, provision, s_config, s_generation, todo, promised>>

\* The rest of it, under the same lock: both credentials go into the configuration.
AdoptIdentity ==
    /\ pc = "identity"
    /\ \E i \in identity : SaveLocked(i) /\ promised' = {i.password}
    /\ pc' = "up"
    /\ UNCHANGED <<identity, provision, todo>>

\* That save fails: the command reports the error, the identity stays.
AdoptionFails ==
    /\ "write" \in Faults
    /\ pc = "identity"
    /\ pc' = "up"
    /\ UNCHANGED <<disk, s_config, s_generation, todo, promised>>

-----------------------------------------------------------------------------
(* Power loss, and what happens to a unit that is off. *)

\* The configurations the code may be writing, under the generation they get.
InProgress ==
    IF pc \in {"store", "erased"} /\ todo # "nothing"
    THEN {Stored(s_config, IF todo = "defaults" THEN 1 ELSE s_generation + 1)}
    ELSE {Stored(c, s_generation + 1) :
              c \in IF pc = "identity" THEN identity
                    ELSE IF pc = "up" /\ s_generation < MaxGeneration THEN Value ELSE {}}

PowerLoss ==
    /\ pc # "down"
    /\ pc = "erased" => "window" \in Faults
    /\ \/ UNCHANGED <<slots, legacy, promised>>
       \/ \E r \in InProgress :
             /\ slots' \in Interrupted(slots, r.value, r.generation, "torn" \in Faults)
             /\ legacy' = IF slots' = slots THEN legacy ELSE legacy \ {SlotOf(r.generation)}
             /\ promised' = promised \cup {r.value.password}
    /\ pc' = "down"
    /\ todo' = "nothing" /\ s_config' = Default /\ s_generation' = 0
    /\ UNCHANGED <<identity, provision>>

\* The USB flasher leaves a provisioning record (a damaged one, if it is cut
\* short); the operator notes its password.
Flash(record) ==
    /\ pc = "down" /\ s_generation < MaxGeneration
    /\ record = Invalid => provision = None
    /\ provision' = record
    /\ promised' = IF record = Invalid \/ identity # {} THEN promised ELSE {record}
    /\ UNCHANGED <<slots, legacy, identity, pc, s_config, s_generation, todo>>

\* nvs_flash_init finds the partition damaged and it is erased; the identity
\* lies in another partition.
DamagedNvs ==
    /\ "damage" \in Faults
    /\ pc = "down"
    /\ slots' = EmptyPair
    /\ legacy' = {}
    /\ promised' = IF provision \in Password /\ identity = {} THEN promised ELSE Password
    /\ UNCHANGED <<identity, provision, pc, s_config, s_generation, todo>>

\* What follows once a start-up or the factory command has begun.
Proceeds == Boot \/ EraseProvision \/ FinishBoot \/ AdoptIdentity \/ AdoptionFails

\* The factory and the flasher.
Workshop ==
    \/ \E i \in Identity : WriteIdentity(i)
    \/ \E record \in Password \cup {Invalid} : Flash(record)
    \/ DamagedNvs

Next ==
    \/ Proceeds
    \/ Workshop
    \/ FactoryReset
    \/ \E c \in Value : Save(c)
    \/ PowerLoss

Spec == Init /\ [][Next]_vars

-----------------------------------------------------------------------------
(* Properties. *)

TypeOK ==
    /\ slots \in Pair
    /\ legacy \subseteq Slot
    /\ identity \subseteq Identity
    /\ provision \in Password \cup {None, Invalid}
    /\ pc \in {"down", "erase", "erased", "store", "up", "identity"}
    /\ s_config \in Value
    /\ s_generation \in Nat
    /\ todo \in {"nothing", "defaults", "save"}
    /\ promised \subseteq Password

\* airlink_config_init, "A valid A/B configuration owns later password changes;
\* never replace them merely because a factory identity is present": every
\* start-up without a provisioning record to use up arrives at a password the
\* operator was promised (or at that of a record that could not be erased), and a
\* unit with a factory identity at its serial number, wherever power was lost before.
CredentialsKept ==
    pc = "store" =>
        /\ s_config.password \in promised \cup {provision}
        /\ \A i \in identity : s_config.serial = i.serial

\* What runs is what a restart would bring back: while commands are served the
\* newest readable record is the running configuration, in the current schema.
RunningIsStored ==
    pc \in {"up", "identity"} =>
        /\ Newest(slots) = Stored(s_config, s_generation)
        /\ Selected \notin legacy
=============================================================================
