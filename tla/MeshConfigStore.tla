--------------------------- MODULE MeshConfigStore --------------------------
(***************************************************************************)
(* The persistent mesh configuration of one node                           *)
(* (airlink_mesh_config.c): an A/B pair of active records, an A/B pair of  *)
(* staged ("pending") records, and their RAM copy.  The USB task saves     *)
(* (mesh create, import, role, reset); the mesh receive task stages,       *)
(* commits and aborts on behalf of the ground root.                        *)
(*                                                                         *)
(* Failures covered: power loss at any point, also in the middle of a      *)
(* record write, between the commit of a staged record and the erasure of  *)
(* the staged pair, and between the two erasures; a save by the USB task   *)
(* between the same steps (only the write runs under s_lock).              *)
(*                                                                         *)
(* An nvs_* call that fails leaves records and RAM as they were: a step    *)
(* that changes nothing.  Validation of a configuration's contents and the *)
(* JSON conversions are left out: Value holds valid configurations, and    *)
(* Default is what defaults() builds (mesh off, not configured).           *)
(***************************************************************************)
EXTENDS ABRecords

CONSTANTS
    MaxGeneration,  \* the generation at which a save refuses to go on (UINT32_MAX)
    Jumps,          \* how far beyond the node's own generation a staged one lies
    TornWrites      \* whether a power loss can destroy the record being written

ASSUME GenerationAssumption == MaxGeneration \in Nat
ASSUME JumpsAssumption      == Jumps \subseteq Nat \ {0}
ASSUME TornAssumption       == TornWrites \in BOOLEAN

VARIABLES
    mesh,           \* NVS keys mesh_a and mesh_b
    pending,        \* NVS keys pending_a and pending_b
    up,             \* the firmware is running
    s_config,       \* RAM copy of the active configuration; while the node is
    s_generation,   \* down, both keep what was running when power was lost
    requested,      \* the record staged by the transaction in progress, which is
                    \* what COMMIT is checked against (s_air_pending_generation
                    \* and s_air_pending_digest); lost with RAM
    erasing         \* the key airlink_mesh_config_abort_staged erases next

vars == <<mesh, pending, up, s_config, s_generation, requested, erasing>>

Init ==
    /\ mesh = EmptyPair
    /\ pending = EmptyPair
    /\ up = TRUE
    /\ s_config = Default
    /\ s_generation = 0
    /\ requested = Unreadable
    /\ erasing = "none"

-----------------------------------------------------------------------------
(* Operations. *)

\* The new record becomes the running one (s_config and s_generation).
Activate(value, generation) ==
    /\ mesh' = Written(mesh, value, generation)
    /\ s_config' = value
    /\ s_generation' = generation

\* airlink_mesh_config_save, and airlink_mesh_config_reset with Default.
Save(c) ==
    /\ up
    /\ s_generation < MaxGeneration
    /\ Activate(c, s_generation + 1)
    /\ UNCHANGED <<pending, up, requested, erasing>>

\* airlink_mesh_config_stage as PREPARE calls it; a generation that is not
\* beyond the node's own is refused.
Stage(c, generation) ==
    /\ up /\ erasing = "none"
    /\ generation > s_generation
    /\ pending' = Written(pending, c, generation)
    /\ requested' = Stored(c, generation)
    /\ UNCHANGED <<mesh, up, s_config, s_generation, erasing>>

\* Mutant: the generation of the staged record is not checked.
AnyCommittable == Newest(pending).valid

\* The record airlink_mesh_config_commit_staged picks.
Committable == Newest(pending).valid /\ Newest(pending).generation > s_generation

\* airlink_mesh_config_commit_staged up to the unlock: a COMMIT is only passed on
\* after a successful stage in the same run of the firmware.  The erasure of the
\* staged pair follows outside the lock.
CommitStaged ==
    /\ up /\ erasing = "none"
    /\ requested.valid
    /\ Committable
    /\ Activate(Newest(pending).value, Newest(pending).generation)
    /\ erasing' = "a"
    /\ UNCHANGED <<pending, up, requested>>

\* airlink_mesh_config_abort_staged, called for an ABORT.
AbortStaged ==
    /\ up /\ erasing = "none"
    /\ requested.valid
    /\ requested' = Unreadable
    /\ erasing' = "a"
    /\ UNCHANGED <<mesh, pending, up, s_config, s_generation>>

EraseA ==
    /\ up /\ erasing = "a"
    /\ pending' = [pending EXCEPT !["a"] = Unreadable]
    /\ erasing' = "b"
    /\ UNCHANGED <<mesh, up, s_config, s_generation, requested>>

EraseB ==
    /\ up /\ erasing = "b"
    /\ pending' = [pending EXCEPT !["b"] = Unreadable]
    /\ erasing' = "none"
    /\ UNCHANGED <<mesh, up, s_config, s_generation, requested>>

-----------------------------------------------------------------------------
(* Power loss and start-up. *)

Halt ==
    /\ up' = FALSE
    /\ requested' = Unreadable
    /\ erasing' = "none"
    /\ UNCHANGED <<s_config, s_generation>>

PowerLoss ==
    /\ up
    /\ Halt
    /\ UNCHANGED <<mesh, pending>>

PowerLossInSave(c) ==
    /\ up
    /\ s_generation < MaxGeneration
    /\ mesh' \in Interrupted(mesh, c, s_generation + 1, TornWrites)
    /\ Halt
    /\ UNCHANGED pending

PowerLossInStage(c, generation) ==
    /\ up /\ erasing = "none"
    /\ generation > s_generation
    /\ pending' \in Interrupted(pending, c, generation, TornWrites)
    /\ Halt
    /\ UNCHANGED mesh

PowerLossInCommit ==
    /\ up /\ erasing = "none"
    /\ requested.valid
    /\ Committable
    /\ mesh' \in Interrupted(mesh, Newest(pending).value, Newest(pending).generation,
                             TornWrites)
    /\ Halt
    /\ UNCHANGED pending

\* airlink_mesh_config_init: the newest readable record, or the defaults.  A
\* staged record is reported but neither applied nor removed.
Boot ==
    /\ ~up
    /\ up' = TRUE
    /\ s_config' = Newest(mesh).value
    /\ s_generation' = Newest(mesh).generation
    /\ UNCHANGED <<mesh, pending, requested, erasing>>

StageGenerations == {s_generation + j : j \in Jumps} \cap 0 .. MaxGeneration

Next ==
    \/ \E c \in Value : Save(c) \/ PowerLossInSave(c)
    \/ \E c \in Value, g \in StageGenerations : Stage(c, g) \/ PowerLossInStage(c, g)
    \/ CommitStaged \/ AbortStaged \/ EraseA \/ EraseB
    \/ PowerLoss \/ PowerLossInCommit \/ Boot

Spec == Init /\ [][Next]_vars

-----------------------------------------------------------------------------
(* Properties. *)

TypeOK ==
    /\ mesh \in Pair
    /\ pending \in Pair
    /\ up \in BOOLEAN
    /\ s_config \in Value
    /\ s_generation \in Nat
    /\ requested \in Record
    /\ erasing \in {"none", "a", "b"}

\* While the node runs, a restart at any moment would bring back exactly the
\* configuration it runs now: the newest durable record is the running one.
ActiveIsDurable ==
    up => /\ Newest(mesh).generation = s_generation
          /\ Newest(mesh).value = s_config

\* No power loss, wherever it strikes, rolls the node back: the start-up after it
\* finds the configuration that was running, or the newer one whose write was
\* in progress (A/B records of write_config_slot and airlink_mesh_config_init).
NothingLost ==
    ~up => \/ Newest(mesh).generation > s_generation
           \/ /\ Newest(mesh).generation = s_generation
              /\ Newest(mesh).value = s_config

\* A commit activates the record the transaction staged, and no staged record
\* that an earlier transaction left behind in the other key.
CommitActivatesRequested ==
    [][CommitStaged => Stored(s_config', s_generation') = requested]_vars

\* The pairs of records, their RAM copy and the erasures behave as one register
\* with one offer (AtomicConfig).  What counts is what the node runs or, without
\* power, what its next start will run: no power loss may change it, none may
\* leave half of a write, a commit activates what the transaction staged and
\* nothing an earlier one left behind, and one that a local save has overtaken
\* is refused.
Atomic == INSTANCE AtomicConfig WITH
    config     <- IF up THEN s_config ELSE Newest(mesh).value,
    generation <- IF up THEN s_generation ELSE Newest(mesh).generation,
    offer      <- requested

StoreIsAtomic == Atomic!Spec
=============================================================================
