------------------------ MODULE MeshConfigStoreProofs -----------------------
(***************************************************************************)
(* Proofs about MeshConfigStore for every set of configurations, generation*)
(* bound and set of jumps: types, durability, and, last, that the store    *)
(* implements the single register of AtomicConfig.                         *)
(***************************************************************************)
EXTENDS MeshConfigStore, ABRecordsProofs

\* Interrupted writes are harmless when the storage replaces a blob atomically,
\* and otherwise as long as generations advance one by one.
WritesAreSafe == TornWrites => Jumps = {1}

\* With unit jumps no staged record is more than one generation ahead.
StagedIsNext ==
    Jumps = {1} => \A s \in Slot : pending[s].generation <= s_generation + 1

DurableInv ==
    /\ TypeOK
    /\ WellFormed(mesh)
    /\ WellFormed(pending)
    /\ ActiveIsDurable
    /\ NothingLost
    /\ StagedIsNext

-----------------------------------------------------------------------------
(* Type correctness. *)

LEMMA NextTypeOK == TypeOK /\ [Next]_vars => TypeOK'
<1> SUFFICES ASSUME TypeOK, [Next]_vars PROVE TypeOK'
  OBVIOUS
<1> USE GenerationAssumption, JumpsAssumption, TornAssumption DEF TypeOK
<1>1. Unreadable \in Record
  BY RecordTypes
<1>2. /\ Newest(mesh).value \in Value /\ Newest(mesh).generation \in Nat
      /\ Newest(pending).value \in Value /\ Newest(pending).generation \in Nat
  BY NewestType DEF Record
<1>3. \A s \in Slot : [pending EXCEPT ![s] = Unreadable] \in Pair
  BY <1>1 DEF Pair
<1>4. ASSUME NEW c \in Value, Save(c) PROVE TypeOK'
  BY <1>4, WrittenType DEF Save, Activate
<1>5. ASSUME NEW c \in Value, PowerLossInSave(c) PROVE TypeOK'
  <2>1. mesh' \in Pair
    BY <1>5, InterruptedType DEF PowerLossInSave
  <2> QED BY <1>1, <1>5, <2>1 DEF PowerLossInSave, Halt
<1>6. ASSUME NEW c \in Value, NEW g \in StageGenerations, Stage(c, g) PROVE TypeOK'
  <2>1. g \in Nat
    BY DEF StageGenerations
  <2> QED BY <1>6, <2>1, WrittenType, RecordTypes DEF Stage
<1>7. ASSUME NEW c \in Value, NEW g \in StageGenerations, PowerLossInStage(c, g)
      PROVE  TypeOK'
  <2>1. pending' \in Pair
    BY <1>7, InterruptedType DEF PowerLossInStage, StageGenerations
  <2> QED BY <1>1, <1>7, <2>1 DEF PowerLossInStage, Halt
<1>8. CASE CommitStaged
  BY <1>2, <1>8, WrittenType DEF CommitStaged, Activate
<1>9. CASE AbortStaged
  BY <1>1, <1>9 DEF AbortStaged
<1>10. CASE EraseA
  BY <1>3, <1>10 DEF EraseA, Slot
<1>11. CASE EraseB
  BY <1>3, <1>11 DEF EraseB, Slot
<1>12. CASE PowerLoss
  BY <1>1, <1>12 DEF PowerLoss, Halt
<1>13. CASE PowerLossInCommit
  <2>1. mesh' \in Pair
    BY <1>2, <1>13, InterruptedType DEF PowerLossInCommit
  <2> QED BY <1>1, <1>13, <2>1 DEF PowerLossInCommit, Halt
<1>14. CASE Boot
  BY <1>2, <1>14 DEF Boot
<1>15. CASE UNCHANGED vars
  BY <1>15 DEF vars
<1> QED BY <1>4, <1>5, <1>6, <1>7, <1>8, <1>9, <1>10, <1>11, <1>12, <1>13, <1>14, <1>15
        DEF Next

LEMMA InitDurableInv == Init => DurableInv
<1> SUFFICES ASSUME Init PROVE DurableInv
  OBVIOUS
<1>1. TypeOK
  BY RecordTypes, DefaultAssumption DEF Init, TypeOK
<1>2. \A s \in Slot : EmptyPair[s] = Unreadable
  BY DEF EmptyPair
<1>3. Unreadable.valid = FALSE
  BY DEF Unreadable
<1>4. WellFormed(EmptyPair) /\ Newest(EmptyPair) = Unreadable
  BY <1>2, <1>3 DEF WellFormed, Newest, Slot
<1> QED BY <1>1, <1>2, <1>4
        DEF Init, DurableInv, ActiveIsDurable, NothingLost, StagedIsNext, Unreadable

\* Every variable keeps its type, for every configuration set and bound.
THEOREM StoreTypeCorrect == Spec => []TypeOK
<1>1. Init => TypeOK
  BY InitDurableInv DEF DurableInv
<1> QED BY <1>1, NextTypeOK, PTL DEF Spec

-----------------------------------------------------------------------------
(* Power losses. *)

\* The staged pair stays well formed and, with unit jumps, at most one ahead.
LEMMA PendingStaysNext ==
    ASSUME DurableInv, [Next]_vars, s_generation' >= s_generation, s_generation' \in Nat
    PROVE  WellFormed(pending') /\ StagedIsNext'
<1> USE JumpsAssumption, TornAssumption DEF DurableInv, TypeOK
<1>1. /\ \A s \in Slot : pending[s].generation \in Nat
      /\ Unreadable.generation = 0 /\ Unreadable.valid = FALSE
  BY DEF Pair, Record, Unreadable
<1>2. ASSUME UNCHANGED pending PROVE WellFormed(pending') /\ StagedIsNext'
  BY <1>1, <1>2 DEF StagedIsNext
<1>3. ASSUME NEW t \in Slot, pending' = [pending EXCEPT ![t] = Unreadable]
      PROVE  WellFormed(pending') /\ StagedIsNext'
  <2>1. \A s \in Slot : pending'[s] = pending[s] \/ pending'[s] = Unreadable
    BY <1>3 DEF Pair
  <2> QED BY <1>1, <2>1 DEF WellFormed, StagedIsNext
<1>4. ASSUME NEW c \in Value, NEW g \in StageGenerations, g > s_generation,
             pending' = Written(pending, c, g)
      PROVE  WellFormed(pending') /\ StagedIsNext'
  <2>1. g \in Nat /\ (Jumps = {1} => g = s_generation + 1)
    BY DEF StageGenerations
  <2>2. /\ SlotOf(g) \in Slot /\ pending'[SlotOf(g)] = Stored(c, g)
        /\ \A s \in Slot : s # SlotOf(g) => pending'[s] = pending[s]
    BY <1>4, <2>1, SlotAlternates DEF Written, Pair
  <2>3. Stored(c, g).valid /\ Stored(c, g).generation = g /\ g > 0
    BY <1>4, <2>1 DEF Stored
  <2>4. WellFormed(pending')
    BY <2>2, <2>3 DEF WellFormed
  <2>5. StagedIsNext'
    BY <1>1, <2>1, <2>2, <2>3 DEF StagedIsNext
  <2> QED BY <2>4, <2>5
<1>5. ASSUME NEW c \in Value, Save(c) \/ PowerLossInSave(c)
      PROVE  WellFormed(pending') /\ StagedIsNext'
  BY <1>2, <1>5 DEF Save, PowerLossInSave
<1>6. ASSUME NEW c \in Value, NEW g \in StageGenerations, Stage(c, g)
      PROVE  WellFormed(pending') /\ StagedIsNext'
  BY <1>4, <1>6 DEF Stage
<1>7. ASSUME NEW c \in Value, NEW g \in StageGenerations, PowerLossInStage(c, g)
      PROVE  WellFormed(pending') /\ StagedIsNext'
  <2>1. g \in Nat /\ SlotOf(g) \in Slot
    BY SlotAlternates DEF StageGenerations
  <2>2. \/ pending' = pending
        \/ pending' = Written(pending, c, g)
        \/ pending' = [pending EXCEPT ![SlotOf(g)] = Unreadable]
    BY <1>7 DEF PowerLossInStage, Interrupted
  <2> QED BY <1>2, <1>3, <1>4, <1>7, <2>1, <2>2 DEF PowerLossInStage
<1>8. CASE EraseA \/ EraseB
  BY <1>3, <1>8 DEF EraseA, EraseB, Slot
<1>9. CASE CommitStaged \/ AbortStaged \/ PowerLoss \/ PowerLossInCommit \/ Boot
           \/ UNCHANGED vars
  BY <1>2, <1>9 DEF CommitStaged, AbortStaged, PowerLoss, PowerLossInCommit, Boot, vars
<1> QED BY <1>5, <1>6, <1>7, <1>8, <1>9 DEF Next

\* What one step does to the active records and the running configuration.
LEMMA StepKeepsDurable ==
    ASSUME DurableInv, [Next]_vars, WritesAreSafe
    PROVE  /\ WellFormed(mesh') /\ ActiveIsDurable' /\ NothingLost'
           /\ s_generation' >= s_generation
<1> USE GenerationAssumption, JumpsAssumption, TornAssumption DEF DurableInv, TypeOK
<1> DEFINE new == Newest(mesh)
           sel == Newest(pending)
<1>1. /\ new \in Record /\ sel \in Record /\ s_generation \in Nat
      /\ \A v \in Value, g \in Nat : Stored(v, g).generation = g /\ Stored(v, g).value = v
  BY NewestType DEF Stored
<1>2. ASSUME NEW v \in Value, NEW g \in Nat, up, g > s_generation, Activate(v, g), up'
      PROVE  /\ WellFormed(mesh') /\ ActiveIsDurable' /\ NothingLost'
             /\ s_generation' >= s_generation
  <2>1. g > new.generation
    BY <1>2 DEF ActiveIsDurable
  <2>2. WellFormed(mesh') /\ Newest(mesh') = Stored(v, g)
    BY <1>2, <2>1, WrittenIsNewest DEF Activate
  <2> QED BY <1>1, <1>2, <2>2 DEF Activate, ActiveIsDurable, NothingLost
<1>3. ASSUME NEW v \in Value, NEW g \in Nat, up, g > s_generation,
             TornWrites => g = s_generation + 1,
             mesh' \in Interrupted(mesh, v, g, TornWrites), Halt
      PROVE  /\ WellFormed(mesh') /\ ActiveIsDurable' /\ NothingLost'
             /\ s_generation' >= s_generation
  <2>1. new.generation = s_generation /\ new.value = s_config
    BY <1>3 DEF ActiveIsDurable
  <2>2. WellFormed(mesh') /\ (Newest(mesh') = new \/ Newest(mesh') = Stored(v, g))
    BY <1>3, <2>1, InterruptedKeepsNewest
  <2> QED BY <1>1, <1>3, <2>1, <2>2 DEF Halt, ActiveIsDurable, NothingLost
<1>4. Committable => sel.value \in Value /\ sel.generation \in Nat
                     /\ sel.generation > s_generation
                     /\ (TornWrites => sel.generation = s_generation + 1)
  <2>1. sel.generation \in Nat /\ sel.value \in Value
    BY <1>1 DEF Record
  <2>2. Jumps = {1} => sel.generation <= s_generation + 1
    BY NewestType DEF StagedIsNext, Slot
  <2> QED BY <1>1, <2>1, <2>2 DEF Committable, WritesAreSafe
<1>5. ASSUME NEW c \in Value, Save(c)
      PROVE  /\ WellFormed(mesh') /\ ActiveIsDurable' /\ NothingLost'
             /\ s_generation' >= s_generation
  BY <1>1, <1>2, <1>5 DEF Save
<1>6. ASSUME NEW c \in Value, PowerLossInSave(c)
      PROVE  /\ WellFormed(mesh') /\ ActiveIsDurable' /\ NothingLost'
             /\ s_generation' >= s_generation
  BY <1>1, <1>3, <1>6 DEF PowerLossInSave
<1>7. CASE CommitStaged
  BY <1>2, <1>4, <1>7 DEF CommitStaged
<1>8. CASE PowerLossInCommit
  BY <1>3, <1>4, <1>8 DEF PowerLossInCommit
<1>9. ASSUME up, Halt, UNCHANGED mesh
      PROVE  /\ WellFormed(mesh') /\ ActiveIsDurable' /\ NothingLost'
             /\ s_generation' >= s_generation
  BY <1>1, <1>9 DEF Halt, ActiveIsDurable, NothingLost
<1>10. ASSUME NEW c \in Value, NEW g \in StageGenerations, PowerLossInStage(c, g)
       PROVE  /\ WellFormed(mesh') /\ ActiveIsDurable' /\ NothingLost'
              /\ s_generation' >= s_generation
  BY <1>9, <1>10 DEF PowerLossInStage
<1>11. CASE PowerLoss
  BY <1>9, <1>11 DEF PowerLoss
<1>12. CASE Boot
  <2>1. new.generation \in Nat /\ new.generation >= s_generation
    BY <1>1, <1>12 DEF Boot, NothingLost, Record
  <2> QED BY <1>12, <2>1 DEF Boot, ActiveIsDurable, NothingLost
<1>13. ASSUME UNCHANGED <<mesh, up, s_config, s_generation>>
       PROVE  /\ WellFormed(mesh') /\ ActiveIsDurable' /\ NothingLost'
              /\ s_generation' >= s_generation
  BY <1>1, <1>13 DEF ActiveIsDurable, NothingLost
<1>14. ASSUME NEW c \in Value, NEW g \in StageGenerations, Stage(c, g)
       PROVE  /\ WellFormed(mesh') /\ ActiveIsDurable' /\ NothingLost'
              /\ s_generation' >= s_generation
  BY <1>13, <1>14 DEF Stage
<1>15. CASE AbortStaged \/ EraseA \/ EraseB \/ UNCHANGED vars
  BY <1>13, <1>15 DEF AbortStaged, EraseA, EraseB, vars
<1> QED BY <1>5, <1>6, <1>7, <1>8, <1>10, <1>11, <1>12, <1>14, <1>15 DEF Next

LEMMA NextDurableInv ==
    ASSUME WritesAreSafe
    PROVE  DurableInv /\ [Next]_vars => DurableInv'
<1> SUFFICES ASSUME DurableInv, [Next]_vars PROVE DurableInv'
  OBVIOUS
<1>1. TypeOK'
  BY NextTypeOK DEF DurableInv
<1>2. /\ WellFormed(mesh') /\ ActiveIsDurable' /\ NothingLost'
      /\ s_generation' >= s_generation
  BY StepKeepsDurable
<1>3. WellFormed(pending') /\ StagedIsNext'
  BY <1>1, <1>2, PendingStaysNext DEF TypeOK
<1> QED BY <1>1, <1>2, <1>3 DEF DurableInv

\* For every set of configurations, every bound and every set of jumps, power may
\* fail at any point without rolling a node back behind what it was running;
\* where an interrupted write can destroy a record, this needs staged
\* generations to follow the node's own one by one.
THEOREM PowerLossNeverRollsBack ==
    ASSUME WritesAreSafe
    PROVE  Spec => []NothingLost
<1>1. DurableInv => NothingLost
  BY DEF DurableInv
<1> QED BY <1>1, InitDurableInv, NextDurableInv, PTL DEF Spec

\* What the node runs is what its newest durable record holds.
THEOREM RunningIsDurable ==
    ASSUME WritesAreSafe
    PROVE  Spec => []ActiveIsDurable
<1>1. DurableInv => ActiveIsDurable
  BY DEF DurableInv
<1> QED BY <1>1, InitDurableInv, NextDurableInv, PTL DEF Spec

-----------------------------------------------------------------------------
(* A commit activates what its transaction staged. *)

\* While a transaction's record is staged, it is in its key and no staged record
\* is newer; once the node's generation has passed it, nothing staged is ahead.
RequestedInv ==
    requested.valid =>
        /\ up
        /\ \A s \in Slot : pending[s].generation <= requested.generation
        /\ \/ pending[SlotOf(requested.generation)] = requested
           \/ requested.generation <= s_generation
        /\ erasing # "none" => requested.generation <= s_generation

LEMMA CommittedIsRequested ==
    ASSUME Jumps = {1}, DurableInv, RequestedInv, requested.valid,
           erasing = "none", Committable
    PROVE  Newest(pending) = requested
<1> USE DEF DurableInv, TypeOK
<1>1. /\ requested.generation \in Nat /\ s_generation \in Nat
      /\ SlotOf(requested.generation) \in Slot
      /\ Newest(pending).generation \in Nat
      /\ Newest(pending).generation > s_generation
  BY SlotAlternates, NewestType DEF Record, Committable
<1>2. Newest(pending).generation <= requested.generation
  BY NewestType DEF RequestedInv, Slot
<1>3. pending[SlotOf(requested.generation)] = requested
  BY <1>1, <1>2 DEF RequestedInv
<1>4. requested.generation <= Newest(pending).generation
  BY <1>1, <1>3, NewestIsHighest
<1> QED BY <1>1, <1>2, <1>3, <1>4, NewestIsHighest

LEMMA NextRequestedInv ==
    ASSUME Jumps = {1}
    PROVE  DurableInv /\ RequestedInv /\ [Next]_vars => RequestedInv'
<1> SUFFICES ASSUME DurableInv, RequestedInv, [Next]_vars PROVE RequestedInv'
  OBVIOUS
<1> USE GenerationAssumption, JumpsAssumption, TornAssumption DEF DurableInv, TypeOK
<1>1. /\ Unreadable.valid = FALSE /\ Unreadable.generation = 0
      /\ requested.generation \in Nat /\ s_generation \in Nat
      /\ SlotOf(requested.generation) \in Slot
      /\ \A s \in Slot : pending[s] \in Record /\ pending[s].generation \in Nat
  BY SlotAlternates DEF Unreadable, Record, Pair
<1>2. s_generation' >= s_generation /\ s_generation' \in Nat
  BY StepKeepsDurable, NextTypeOK DEF WritesAreSafe
<1>3. ASSUME requested' = Unreadable PROVE RequestedInv'
  BY <1>1, <1>3 DEF RequestedInv
<1>4. ASSUME UNCHANGED <<pending, requested, up, erasing>> PROVE RequestedInv'
  BY <1>1, <1>2, <1>4 DEF RequestedInv
<1>5. ASSUME NEW c \in Value, NEW g \in StageGenerations, Stage(c, g)
      PROVE  RequestedInv'
  <2>1. g \in Nat /\ g = s_generation + 1 /\ SlotOf(g) \in Slot
    BY SlotAlternates DEF StageGenerations
  <2>2. /\ requested' = Stored(c, g) /\ up' /\ erasing' = "none"
        /\ pending'[SlotOf(g)] = Stored(c, g)
        /\ \A s \in Slot : s # SlotOf(g) => pending'[s] = pending[s]
    BY <1>5, <2>1 DEF Stage, Written, Pair
  <2>3. Stored(c, g).generation = g
    BY DEF Stored
  <2>4. \A s \in Slot : pending[s].generation <= g
    BY <2>1 DEF StagedIsNext
  <2> QED BY <1>1, <2>1, <2>2, <2>3, <2>4 DEF RequestedInv
<1>6. CASE EraseA \/ EraseB
  <2>1. PICK t \in Slot : /\ pending' = [pending EXCEPT ![t] = Unreadable]
                          /\ UNCHANGED <<requested, up, s_generation>>
                          /\ erasing # "none"
    BY <1>6 DEF EraseA, EraseB, Slot
  <2>2. \A s \in Slot : pending'[s] = pending[s] \/ pending'[s] = Unreadable
    BY <2>1 DEF Pair
  <2> QED BY <1>1, <2>1, <2>2 DEF RequestedInv
<1>7. CASE CommitStaged
  <2>1. Newest(pending) = requested
    BY <1>7, CommittedIsRequested DEF CommitStaged
  <2> QED BY <1>1, <1>2, <1>7, <2>1 DEF CommitStaged, Activate, RequestedInv
<1>8. ASSUME NEW c \in Value, Save(c) PROVE RequestedInv'
  BY <1>4, <1>8 DEF Save
<1>9. ASSUME NEW c \in Value, PowerLossInSave(c) PROVE RequestedInv'
  BY <1>3, <1>9 DEF PowerLossInSave, Halt
<1>10. ASSUME NEW c \in Value, NEW g \in StageGenerations, PowerLossInStage(c, g)
       PROVE  RequestedInv'
  BY <1>3, <1>10 DEF PowerLossInStage, Halt
<1>11. CASE PowerLoss \/ PowerLossInCommit \/ AbortStaged
  BY <1>3, <1>11 DEF PowerLoss, PowerLossInCommit, AbortStaged, Halt
<1>12. CASE Boot
  BY <1>1, <1>12 DEF Boot, RequestedInv
<1>13. CASE UNCHANGED vars
  BY <1>4, <1>13 DEF vars
<1> QED BY <1>5, <1>6, <1>7, <1>8, <1>9, <1>10, <1>11, <1>12, <1>13 DEF Next

\* With unit jumps a commit activates the very record its transaction staged,
\* whatever earlier transactions, saves and power losses left in NVS.
THEOREM CommitsWhatWasStaged ==
    ASSUME Jumps = {1}
    PROVE  Spec => CommitActivatesRequested
<1> WritesAreSafe
  BY DEF WritesAreSafe
<1>1. Init => RequestedInv
  BY DEF Init, RequestedInv, Unreadable
<1>2. DurableInv /\ RequestedInv /\ [Next]_vars
        => [CommitStaged => Stored(s_config', s_generation') = requested]_vars
  <2>1. ASSUME DurableInv, RequestedInv, CommitStaged
        PROVE  Stored(s_config', s_generation') = requested
    <3>1. Newest(pending) = requested /\ requested.valid /\ requested \in Record
      BY <2>1, CommittedIsRequested DEF CommitStaged, DurableInv, TypeOK
    <3>2. requested = Stored(requested.value, requested.generation)
      BY <3>1 DEF Record, Stored
    <3> QED BY <2>1, <3>1, <3>2 DEF CommitStaged, Activate
  <2> QED BY <2>1
<1> QED BY <1>1, <1>2, InitDurableInv, NextDurableInv, NextRequestedInv, PTL
        DEF Spec, CommitActivatesRequested

-----------------------------------------------------------------------------
(* The store implements one atomic register. *)

StoreInv == DurableInv /\ RequestedInv

LEMMA InitIsAtomic == Init => Atomic!Init
BY DEF Init, Atomic!Init, Atomic!NoOffer, Unreadable

\* A loss of power in the middle of a write leaves the record in use or the new one.
LEMMA InterruptedWrite ==
    ASSUME Jumps = {1}, StoreInv, up, NEW v \in Value,
           mesh' \in Interrupted(mesh, v, s_generation + 1, TornWrites), Halt
    PROVE  \/ /\ Newest(mesh').value = s_config
              /\ Newest(mesh').generation = s_generation
           \/ /\ Newest(mesh').value = v
              /\ Newest(mesh').generation = s_generation + 1
<1>1. /\ s_generation \in Nat /\ s_generation + 1 \in Nat /\ mesh \in Pair /\ WellFormed(mesh)
      /\ Newest(mesh).generation = s_generation /\ Newest(mesh).value = s_config
  BY DEF StoreInv, DurableInv, TypeOK, ActiveIsDurable
<1>2. Newest(mesh') = Newest(mesh) \/ Newest(mesh') = Stored(v, s_generation + 1)
  BY <1>1, TornAssumption, InterruptedKeepsNewest
<1> QED
  BY <1>1, <1>2 DEF Stored

\* A commit finds the record its transaction staged, one ahead of the running one.
LEMMA CommitFindsOffer ==
    ASSUME Jumps = {1}, StoreInv, requested.valid, erasing = "none", Committable
    PROVE  /\ Newest(pending) = requested
           /\ requested.value \in Value
           /\ requested.generation = s_generation + 1
<1>1. Newest(pending) = requested /\ requested \in Record /\ s_generation \in Nat
  BY CommittedIsRequested DEF StoreInv, DurableInv, TypeOK
<1>2. requested.generation \in Nat /\ requested.generation > s_generation
  BY <1>1 DEF Record, Committable
<1>3. Newest(pending).generation <= s_generation + 1
  BY NewestType DEF StoreInv, DurableInv, TypeOK, StagedIsNext, Slot
<1> QED
  BY <1>1, <1>2, <1>3 DEF Record

LEMMA StepIsAtomic ==
    ASSUME Jumps = {1}, StoreInv, [Next]_vars
    PROVE  [Atomic!Next]_(Atomic!vars)
<1> USE DEF Atomic!NoOffer
<1>1. /\ Unreadable = Atomic!NoOffer
      /\ s_generation \in Nat /\ up \in BOOLEAN
      /\ up => Newest(mesh).generation = s_generation /\ Newest(mesh).value = s_config
  BY DEF Unreadable, StoreInv, DurableInv, TypeOK, ActiveIsDurable
<1>2. ASSUME NEW c \in Value, Save(c) PROVE Atomic!Write(c)
  BY <1>2 DEF Save, Activate, Atomic!Write, Atomic!Become
<1>3. ASSUME NEW c \in Value, PowerLossInSave(c) PROVE Atomic!Write(c) \/ Atomic!Fail
  <2>1. up /\ Halt /\ mesh' \in Interrupted(mesh, c, s_generation + 1, TornWrites)
    BY <1>3 DEF PowerLossInSave
  <2>2. \/ /\ Newest(mesh').value = s_config
           /\ Newest(mesh').generation = s_generation
        \/ /\ Newest(mesh').value = c
           /\ Newest(mesh').generation = s_generation + 1
    BY <2>1, InterruptedWrite
  <2> QED
    BY <1>1, <2>1, <2>2 DEF Halt, Atomic!Write, Atomic!Become, Atomic!Fail
<1>4. ASSUME NEW c \in Value, NEW g \in StageGenerations, Stage(c, g) PROVE Atomic!Offer(c)
  <2>1. g = s_generation + 1
    BY <1>1 DEF StageGenerations
  <2> QED
    BY <1>4, <2>1 DEF Stage, Stored, Atomic!Offer
<1>5. ASSUME Halt, up, UNCHANGED mesh PROVE Atomic!Fail
  BY <1>1, <1>5 DEF Halt, Atomic!Fail
<1>6. ASSUME CommitStaged PROVE Atomic!Accept
  BY <1>6, CommitFindsOffer
  DEF CommitStaged, Activate, Atomic!Accept, Atomic!Become
<1>7. ASSUME PowerLossInCommit PROVE Atomic!Accept \/ Atomic!Fail
  <2>1. /\ Newest(pending) = requested /\ requested.value \in Value
        /\ requested.generation = s_generation + 1 /\ requested.valid
    BY <1>7, CommitFindsOffer DEF PowerLossInCommit
  <2>2. /\ up /\ Halt
        /\ mesh' \in Interrupted(mesh, requested.value, s_generation + 1, TornWrites)
    BY <1>7, <2>1 DEF PowerLossInCommit
  <2>3. \/ /\ Newest(mesh').value = s_config
           /\ Newest(mesh').generation = s_generation
        \/ /\ Newest(mesh').value = requested.value
           /\ Newest(mesh').generation = s_generation + 1
    BY <2>1, <2>2, InterruptedWrite
  <2> QED
    BY <1>1, <2>1, <2>2, <2>3 DEF Halt, Atomic!Accept, Atomic!Become, Atomic!Fail
<1>8. ASSUME AbortStaged PROVE Atomic!Withdraw
  BY <1>1, <1>8 DEF AbortStaged, Atomic!Withdraw
<1>9. ASSUME Boot PROVE Atomic!Start
  BY <1>9 DEF Boot, Atomic!Start
<1>10. ASSUME EraseA \/ EraseB \/ UNCHANGED vars PROVE UNCHANGED Atomic!vars
  BY <1>10 DEF EraseA, EraseB, vars, Atomic!vars
<1>11. ASSUME NEW c \in Value, NEW g \in StageGenerations, PowerLossInStage(c, g)
       PROVE  Atomic!Fail
  BY <1>5, <1>11 DEF PowerLossInStage
<1>12. ASSUME PowerLoss PROVE Atomic!Fail
  BY <1>5, <1>12 DEF PowerLoss
<1> QED
  BY <1>2, <1>3, <1>4, <1>6, <1>7, <1>8, <1>9, <1>10, <1>11, <1>12 DEF Next, Atomic!Next

\* The two pairs of records, the RAM copy and the erasures that anything may come
\* between behave as one register with at most one offer, for every set of
\* configurations and wherever the power fails, while staged generations follow
\* the node's own one by one.
THEOREM StoreImplementsAtomicConfig ==
    ASSUME Jumps = {1}
    PROVE  Spec => StoreIsAtomic
<1> WritesAreSafe
  BY DEF WritesAreSafe
<1>1. Init => StoreInv
  BY InitDurableInv DEF StoreInv, Init, RequestedInv, Unreadable
<1>2. StoreInv /\ [Next]_vars => StoreInv'
  BY NextDurableInv, NextRequestedInv DEF StoreInv
<1>3. StoreInv /\ [Next]_vars => [Atomic!Next]_(Atomic!vars)
  BY StepIsAtomic
<1> QED
  BY <1>1, <1>2, <1>3, InitIsAtomic, PTL DEF Spec, StoreIsAtomic, Atomic!Spec
=============================================================================
