-------------------------- MODULE NodeConfigProofs --------------------------
(***************************************************************************)
(* What holds of the base configuration of an air node for every set of    *)
(* passwords and serial numbers, every number of editors, exchanges and    *)
(* disturbances, and whichever of the failures happen.                     *)
(*                                                                         *)
(* RunningIsStored rests on what start-up has still to store (BootInv):    *)
(* with nothing left the selected record is the running configuration, and *)
(* what is left is written one generation above it.  ReportedIsDurable     *)
(* rests on the tokens: an answer that counts for a write was given to     *)
(* that very write (WriteAsked), after it was saved (AnsweredIsSaved), and *)
(* the generations of the records only grow.  CredentialsKept rests on     *)
(* what a start-up would load at any moment (DiskKept), ReportedIsCurrent  *)
(* on what the node ran since the question (RunsInRan).                    *)
(***************************************************************************)
EXTENDS NodeConfig, ABRecordsProofs

-----------------------------------------------------------------------------
(* The store. *)

\* What is left to store at start-up, and where it will go.
BootInv ==
    pc \in {"erase", "erased", "store"} =>
        /\ todo = "defaults" <=> ~Newest(slots).valid
        /\ todo = "defaults" => s_generation = 1
        /\ todo # "defaults" => s_generation = Newest(slots).generation
        /\ todo = "nothing" => s_config = Newest(slots).value /\ Selected \notin legacy

StoreInv == TypeOK /\ WellFormed(slots) /\ BootInv /\ RunningIsStored

LEMMA EmptyPairFacts ==
    /\ EmptyPair \in Pair /\ WellFormed(EmptyPair)
    /\ Newest(EmptyPair) = Unreadable /\ Unreadable.generation = 0 /\ Unreadable.valid = FALSE
<1>1. \A s \in Slot : EmptyPair[s] = Unreadable
  BY DEF EmptyPair
<1>2. Unreadable.valid = FALSE /\ Unreadable.generation = 0
  BY DEF Unreadable
<1>3. EmptyPair \in Pair
  BY RecordTypes, DefaultAssumption
<1> QED
  BY <1>1, <1>2, <1>3 DEF WellFormed, Newest, Slot

\* A write above the newest record becomes the selected one, in the current schema.
LEMMA StoreSelects ==
    ASSUME slots \in Pair, WellFormed(slots), NEW c \in Value, NEW g \in Nat,
           g > Newest(slots).generation, Store(c, g)
    PROVE  /\ slots' \in Pair /\ WellFormed(slots')
           /\ Newest(slots') = Stored(c, g)
           /\ Selected' \notin legacy'
<1>1. slots' \in Pair /\ WellFormed(slots') /\ Newest(slots') = Stored(c, g)
  BY WrittenType, WrittenIsNewest DEF Store
<1>2. \A s \in Slot : slots[s].generation \in Nat /\ slots[s].generation < g
  BY NewestIsHighest, NewestType DEF Pair, Record
<1>3. SlotOf(g) \in Slot /\ slots'[SlotOf(g)] = Stored(c, g)
  BY SlotAlternates DEF Store, Written, Pair
<1>4. Selected' = SlotOf(g)
  <2>1. CASE SlotOf(g) = "a"
    BY <1>1, <1>3, <2>1 DEF Selected
  <2>2. CASE SlotOf(g) = "b"
    <3>1. slots'["a"] = slots["a"]
      BY <2>2 DEF Store, Written, Pair, Slot
    <3>2. slots'["a"] # Stored(c, g)
      BY <1>2, <3>1 DEF Stored, Slot
    <3> QED
      BY <1>1, <2>2, <3>2 DEF Selected
  <2> QED
    BY <1>3, <2>1, <2>2 DEF Slot
<1> QED
  BY <1>1, <1>4 DEF Store

\* The generation of the newest record is a number, and 0 only without a record.
LEMMA NewestNumbers ==
    ASSUME slots \in Pair, WellFormed(slots)
    PROVE  /\ Newest(slots) \in Record /\ Newest(slots).generation \in Nat
           /\ Newest(slots).value \in Value
           /\ ~Newest(slots).valid => Newest(slots).generation = 0
           /\ Newest(slots).valid => Newest(slots).generation > 0
<1>1. Newest(slots) \in Record /\ Newest(slots) \in {slots["a"], slots["b"]}
  BY NewestType
<1> QED
  BY <1>1 DEF Record, WellFormed, Slot, Unreadable

\* The configurations start-up may arrive at.
LEMMA LoadedType ==
    ASSUME TypeOK, WellFormed(slots)
    PROVE  /\ Defaults \subseteq Value /\ Identity \subseteq Value
           /\ \A c \in Loaded : c \in Value /\ Provisioned(c) \in Value
<1>1. Identity \subseteq Value
  BY ValueAssumption DEF Identity
<1>2. Defaults \subseteq Value
  BY <1>1, ValueAssumption DEF Defaults, TypeOK
<1>3. \A c \in Loaded : c \in Value
  <2>1. Newest(slots).value \in Value
    BY NewestNumbers DEF TypeOK
  <2>2. \A i \in identity : [Newest(slots).value EXCEPT !.serial = i.serial] \in Value
    BY <2>1, ValueAssumption DEF TypeOK, Identity
  <2> QED
    BY <1>2, <2>1, <2>2 DEF Loaded
<1>4. \A c \in Value : Provisioned(c) \in Value
  BY ValueAssumption DEF Provisioned
<1> QED
  BY <1>1, <1>2, <1>3, <1>4

LEMMA InitStoreInv == Init => StoreInv
<1> SUFFICES ASSUME Init PROVE StoreInv
  OBVIOUS
<1>1. slots \in Pair /\ WellFormed(slots)
  <2>1. CASE slots = EmptyPair
    BY <2>1, EmptyPairFacts
  <2>2. CASE slots = Written(EmptyPair, Default, 1)
    BY <2>2, EmptyPairFacts, WrittenType, WrittenIsNewest, DefaultAssumption
  <2> QED
    BY <2>1, <2>2 DEF Init
<1>2. Password \subseteq Password /\ Default \in Value /\ {} \subseteq Slot /\ {"b"} \subseteq Slot
  BY DefaultAssumption DEF Slot
<1> QED
  BY <1>1, <1>2 DEF Init, StoreInv, TypeOK, BootInv, RunningIsStored

\* A save by a running node.
LEMMA SaveLockedKeeps ==
    ASSUME StoreInv, pc \in {"up", "identity"}, NEW c \in Value, SaveLocked(c)
    PROVE  /\ slots' \in Pair /\ WellFormed(slots') /\ legacy' \subseteq Slot
           /\ s_config' \in Value /\ s_generation' \in Nat
           /\ Newest(slots') = Stored(s_config', s_generation') /\ Selected' \notin legacy'
           /\ Newest(slots').generation > Newest(slots).generation
<1>1. /\ slots \in Pair /\ WellFormed(slots) /\ s_generation \in Nat /\ legacy \subseteq Slot
      /\ Newest(slots).generation = s_generation
  BY DEF StoreInv, TypeOK, RunningIsStored, Stored
<1>2. s_generation + 1 \in Nat /\ s_generation + 1 > Newest(slots).generation
  BY <1>1
<1>3. /\ slots' \in Pair /\ WellFormed(slots')
      /\ Newest(slots') = Stored(c, s_generation + 1) /\ Selected' \notin legacy'
  BY <1>1, <1>2, StoreSelects DEF SaveLocked
<1>4. Stored(c, s_generation + 1).generation = s_generation + 1
  BY DEF Stored
<1> QED
  BY <1>1, <1>2, <1>3, <1>4 DEF SaveLocked, Store

LEMMA StartUpKeeps ==
    ASSUME StoreInv, Boot \/ EraseProvision \/ FinishBoot
    PROVE  StoreInv' /\ Newest(slots').generation >= Newest(slots).generation
<1> USE DEF StoreInv
<1>1. /\ slots \in Pair /\ Newest(slots).generation \in Nat
      /\ ~Newest(slots).valid => Newest(slots).generation = 0
  BY NewestNumbers DEF TypeOK
<1>2. CASE Boot
  <2>1. PICK c \in Loaded : s_config' = Provisioned(c) /\ todo' = Todo(Provisioned(c))
    BY <1>2 DEF Boot
  <2>2. Provisioned(c) \in Value
    BY LoadedType
  <2>3. UNCHANGED <<slots, legacy, identity, provision, promised>>
    BY <1>2 DEF Boot, disk
  <2>4. s_generation' = IF Newest(slots).valid THEN Newest(slots).generation ELSE 1
    BY <1>2 DEF Boot
  <2>5. pc' \in {"erase", "store"}
    BY <1>2 DEF Boot
  <2>6. BootInv'
    BY <2>1, <2>3, <2>4 DEF BootInv, Todo, Selected
  <2>7. TypeOK'
    BY <1>1, <2>1, <2>2, <2>3, <2>4, <2>5 DEF TypeOK, Todo
  <2> QED
    BY <1>1, <2>3, <2>5, <2>6, <2>7 DEF RunningIsStored
<1>3. CASE EraseProvision
  <2>1. UNCHANGED <<slots, legacy, identity, s_config, s_generation, todo, promised>>
        /\ pc = "erase" /\ pc' \in {"erased", "store"}
    BY <1>3 DEF EraseProvision
  <2>2. provision' \in Password \cup {None, Invalid}
    BY <1>3 DEF EraseProvision, TypeOK
  <2>3. BootInv'
    BY <2>1 DEF BootInv, Selected
  <2> QED
    BY <1>1, <2>1, <2>2, <2>3 DEF TypeOK, RunningIsStored
<1>4. CASE FinishBoot
  <2>1. /\ pc \in {"store", "erased"} /\ pc' = "up" /\ todo' = "nothing"
        /\ promised' = {s_config.password} /\ UNCHANGED <<identity, provision>>
        /\ s_config.password \in Password
    BY <1>4, ValueAssumption DEF FinishBoot, TypeOK
  <2>2. /\ slots' \in Pair /\ WellFormed(slots') /\ legacy' \subseteq Slot
        /\ s_config' \in Value /\ s_generation' \in Nat
        /\ Newest(slots') = Stored(s_config', s_generation') /\ Selected' \notin legacy'
        /\ Newest(slots').generation >= Newest(slots).generation
    <3>1. CASE todo = "nothing" /\ UNCHANGED <<slots, legacy, s_config, s_generation>>
      <4>1. Newest(slots).valid /\ Newest(slots) \in Record
        BY <2>1, <3>1, NewestNumbers DEF BootInv, TypeOK
      <4>2. Newest(slots) = Stored(s_config, s_generation)
        BY <2>1, <3>1, <4>1 DEF BootInv, Stored, Record
      <4> QED
        BY <1>1, <2>1, <3>1, <4>2 DEF BootInv, TypeOK, Selected
    <3>2. CASE todo = "defaults" /\ Store(s_config, 1) /\ UNCHANGED <<s_config, s_generation>>
      <4>1. Newest(slots).generation = 0 /\ s_generation = 1 /\ s_config \in Value
        BY <1>1, <2>1, <3>2 DEF BootInv, TypeOK
      <4>2. /\ slots' \in Pair /\ WellFormed(slots')
            /\ Newest(slots') = Stored(s_config, 1) /\ Selected' \notin legacy'
        BY <1>1, <3>2, <4>1, StoreSelects
      <4> QED
        BY <3>2, <4>1, <4>2 DEF Store, Stored, TypeOK
    <3>3. CASE todo = "save" /\ SaveLocked(s_config)
      <4>1. /\ s_generation = Newest(slots).generation /\ s_config \in Value
            /\ s_generation + 1 \in Nat /\ s_generation + 1 > Newest(slots).generation
        BY <1>1, <2>1, <3>3 DEF BootInv, TypeOK
      <4>2. /\ slots' \in Pair /\ WellFormed(slots')
            /\ Newest(slots') = Stored(s_config, s_generation + 1) /\ Selected' \notin legacy'
        BY <1>1, <3>3, <4>1, StoreSelects DEF SaveLocked
      <4>3. Stored(s_config, s_generation + 1).generation = s_generation + 1
        BY DEF Stored
      <4> QED
        BY <1>1, <3>3, <4>1, <4>2, <4>3 DEF SaveLocked, Store, TypeOK
    <3> QED
      BY <1>4, <3>1, <3>2, <3>3 DEF FinishBoot
  <2> QED
    BY <2>1, <2>2 DEF TypeOK, BootInv, RunningIsStored
<1> QED
  BY <1>2, <1>3, <1>4

LEMMA CommandKeeps ==
    ASSUME StoreInv,
           \/ FactoryReset \/ AdoptIdentity \/ AdoptionFails
           \/ \E c \in Value : Save(c)
           \/ \E i \in Identity : WriteIdentity(i)
    PROVE  StoreInv' /\ Newest(slots').generation >= Newest(slots).generation
<1> USE DEF StoreInv
<1>1. /\ slots \in Pair /\ Newest(slots).generation \in Nat /\ identity \subseteq Identity
      /\ Defaults \subseteq Value /\ Identity \subseteq Value
      /\ \A c \in Value : c.password \in Password
  BY NewestNumbers, LoadedType, ValueAssumption DEF TypeOK
<1>2. ASSUME NEW c \in Value, pc \in {"up", "identity"}, SaveLocked(c), promised' = {c.password},
             pc' = "up", UNCHANGED <<identity, provision, todo>>
      PROVE  StoreInv' /\ Newest(slots').generation >= Newest(slots).generation
  <2>1. /\ slots' \in Pair /\ WellFormed(slots') /\ legacy' \subseteq Slot
        /\ s_config' \in Value /\ s_generation' \in Nat
        /\ Newest(slots') = Stored(s_config', s_generation') /\ Selected' \notin legacy'
        /\ Newest(slots').generation > Newest(slots).generation
    BY <1>2, SaveLockedKeeps
  <2>2. Newest(slots').generation \in Nat
    BY <2>1 DEF Stored
  <2>3. promised' \subseteq Password
    BY <1>1, <1>2
  <2> QED
    BY <1>1, <1>2, <2>1, <2>2, <2>3 DEF TypeOK, BootInv, RunningIsStored
<1>3. ASSUME NEW c \in Value, Save(c)
      PROVE  StoreInv' /\ Newest(slots').generation >= Newest(slots).generation
  BY <1>2, <1>3 DEF Save
<1>4. CASE FactoryReset
  <2>1. PICK c \in Defaults : SaveLocked(c) /\ promised' = {c.password}
    BY <1>4 DEF FactoryReset
  <2> QED
    BY <1>1, <1>2, <1>4, <2>1 DEF FactoryReset
<1>5. CASE AdoptIdentity
  <2>1. PICK i \in identity : SaveLocked(i) /\ promised' = {i.password}
    BY <1>5 DEF AdoptIdentity
  <2> QED
    BY <1>1, <1>2, <1>5, <2>1 DEF AdoptIdentity
<1>6. CASE AdoptionFails
  BY <1>1, <1>6 DEF AdoptionFails, disk, TypeOK, BootInv, RunningIsStored, Selected
<1>7. ASSUME NEW i \in Identity, WriteIdentity(i)
      PROVE  StoreInv' /\ Newest(slots').generation >= Newest(slots).generation
  BY <1>1, <1>7 DEF WriteIdentity, TypeOK, BootInv, RunningIsStored, Selected
<1> QED
  BY <1>3, <1>4, <1>5, <1>6, <1>7

\* A write that is cut short is one above the newest record, and leaves that record or
\* itself as the newest.
LEMMA InterruptedWrite ==
    ASSUME StoreInv, NEW r \in InProgress,
           NEW p \in Interrupted(slots, r.value, r.generation, "torn" \in Faults)
    PROVE  /\ r.value \in Value /\ r.generation \in Nat
           /\ r.generation = Newest(slots).generation + 1
           /\ p \in Pair /\ WellFormed(p)
           /\ Newest(p) = Newest(slots) \/ Newest(p) = Stored(r.value, r.generation)
<1> USE DEF StoreInv
<1>1. /\ slots \in Pair /\ Newest(slots).generation \in Nat
      /\ ~Newest(slots).valid => Newest(slots).generation = 0
      /\ s_generation \in Nat /\ s_config \in Value
  BY NewestNumbers DEF TypeOK
<1>2. r.value \in Value /\ r.generation = Newest(slots).generation + 1
  <2>1. CASE pc \in {"store", "erased"} /\ todo # "nothing"
    BY <1>1, <2>1 DEF InProgress, BootInv, Stored
  <2>2. CASE ~(pc \in {"store", "erased"} /\ todo # "nothing")
    <3>1. CASE pc \in {"up", "identity"}
      <4>1. s_generation = Newest(slots).generation /\ identity \subseteq Value
        BY <3>1, LoadedType DEF RunningIsStored, Stored, TypeOK
      <4> QED
        BY <1>1, <2>2, <4>1 DEF InProgress, Stored
    <3>2. CASE pc \notin {"up", "identity"}
      BY <2>2, <3>2 DEF InProgress
    <3> QED
      BY <3>1, <3>2
  <2> QED
    BY <2>1, <2>2
<1>3. r.generation \in Nat /\ r.generation > Newest(slots).generation
  BY <1>1, <1>2
<1> DEFINE torn == "torn" \in Faults
<1>4. torn \in BOOLEAN /\ p \in Interrupted(slots, r.value, r.generation, torn)
  OBVIOUS
<1> HIDE DEF torn
<1>5. p \in Pair
  BY <1>1, <1>2, <1>3, <1>4, InterruptedType
<1>6. /\ WellFormed(p)
      /\ Newest(p) = Newest(slots) \/ Newest(p) = Stored(r.value, r.generation)
  BY <1>1, <1>2, <1>3, <1>4, InterruptedKeepsNewest
<1> QED
  BY <1>2, <1>3, <1>5, <1>6

LEMMA PowerLossKeeps ==
    ASSUME StoreInv, PowerLoss
    PROVE  StoreInv' /\ Newest(slots').generation >= Newest(slots).generation
<1> USE DEF StoreInv
<1>1. slots \in Pair /\ Newest(slots).generation \in Nat /\ \A c \in Value : c.password \in Password
  BY NewestNumbers, ValueAssumption DEF TypeOK
<1>2. /\ slots' \in Pair /\ WellFormed(slots') /\ legacy' \subseteq Slot
      /\ promised' \subseteq Password
      /\ Newest(slots').generation >= Newest(slots).generation
  <2>1. CASE UNCHANGED <<slots, legacy, promised>>
    BY <1>1, <2>1 DEF TypeOK
  <2>2. ASSUME NEW r \in InProgress,
               slots' \in Interrupted(slots, r.value, r.generation, "torn" \in Faults),
               legacy' = IF slots' = slots THEN legacy ELSE legacy \ {SlotOf(r.generation)},
               promised' = promised \cup {r.value.password}
        PROVE  /\ slots' \in Pair /\ WellFormed(slots') /\ legacy' \subseteq Slot
               /\ promised' \subseteq Password
               /\ Newest(slots').generation >= Newest(slots).generation
    <3>1. /\ r.value \in Value /\ r.generation \in Nat
          /\ r.generation = Newest(slots).generation + 1
          /\ slots' \in Pair /\ WellFormed(slots')
          /\ Newest(slots') = Newest(slots) \/ Newest(slots') = Stored(r.value, r.generation)
      BY <2>2, InterruptedWrite
    <3> QED
      BY <1>1, <2>2, <3>1 DEF Stored, TypeOK
  <2> QED
    BY <2>1, <2>2 DEF PowerLoss
<1> QED
  BY <1>2, DefaultAssumption DEF PowerLoss, TypeOK, BootInv, RunningIsStored

\* What happens to a unit that is off.
LEMMA OffKeeps ==
    ASSUME StoreInv, DamagedNvs \/ \E record \in Password \cup {Invalid} : Flash(record)
    PROVE  /\ StoreInv'
           /\ DamagedNvs \/ Newest(slots').generation >= Newest(slots).generation
<1> USE DEF StoreInv
<1>1. slots \in Pair /\ Newest(slots).generation \in Nat
  BY NewestNumbers DEF TypeOK
<1>2. CASE DamagedNvs
  <2>1. promised' \subseteq Password
    BY <1>2 DEF DamagedNvs, TypeOK
  <2> QED
    BY <1>2, <2>1, EmptyPairFacts DEF DamagedNvs, TypeOK, BootInv, RunningIsStored
<1>3. ASSUME NEW record \in Password \cup {Invalid}, Flash(record)
      PROVE  StoreInv' /\ Newest(slots').generation >= Newest(slots).generation
  <2>1. promised' \subseteq Password
    BY <1>3 DEF Flash, TypeOK
  <2> QED
    BY <1>1, <1>3, <2>1 DEF Flash, TypeOK, BootInv, RunningIsStored
<1> QED
  BY <1>2, <1>3

-----------------------------------------------------------------------------
(* Steps of the node and of the root are steps of the store. *)

\* What a step does to the records; only damaged NVS takes the newest away.
Kept == StoreInv' /\ Newest(slots').generation >= Newest(slots).generation

LEMMA NothingStored == ASSUME StoreInv, UNCHANGED vars PROVE Kept
<1>1. Newest(slots).generation \in Nat
  BY NewestNumbers DEF StoreInv, TypeOK
<1> QED
  BY <1>1 DEF vars, disk, Kept, StoreInv, TypeOK, BootInv, RunningIsStored, Selected

LEMMA SavesKeep == ASSUME StoreInv, NEW c \in Value, Save(c) PROVE Kept
BY CommandKeeps DEF Kept

LEMMA ProceedsKeeps == ASSUME StoreInv, Proceeds PROVE Kept
BY StartUpKeeps, CommandKeeps DEF Proceeds, Kept

LEMMA WorkshopKeeps ==
    ASSUME StoreInv, Workshop
    PROVE  /\ StoreInv'
           /\ DamagedNvs \/ Newest(slots').generation >= Newest(slots).generation
BY OffKeeps, CommandKeeps DEF Workshop

-----------------------------------------------------------------------------
(* Types of the composition. *)

\* Everything but the store.
NodeTypes ==
    /\ rpc \in [command : {"none", "read", "write"}, step : {"read", "write"}, config : Value]
    /\ exchange \in [active : BOOLEAN, token : Nat, done : BOOLEAN,
                     result : Result, value : Value]
    /\ tokens \in 0..environment.exchanges
    /\ net \subseteq Request \cup Response
    /\ staged \subseteq Value
    /\ draft \in [Editors -> SUBSET Value]
    /\ written \in [1..environment.exchanges -> SUBSET Nat]
    /\ environment.exchanges \in Nat
    /\ reported \in Nat

\* Every packet but a reboot carries the token of an exchange that was started; one that
\* carries the token of the write in progress is about this write.
TokensAreKnown == \A m \in net : m.kind # "reboot" => m.token \in 1..tokens
ExchangeIsKnown == exchange.active => exchange.token \in 1..tokens
WriteAsked ==
    exchange.active /\ rpc.step = "write"
    => \A m \in net : m.kind # "reboot" /\ m.token = exchange.token
                      => m.kind \in {"write", "writeResponse"}

\* An answer of success was given to a write that was saved.
AnsweredIsSaved ==
    \A m \in net : m.kind = "writeResponse" /\ m.result = "ok" => written[m.token] # {}
NotedIsSaved ==
    exchange.active /\ rpc.step = "write" /\ Succeeded => written[exchange.token] # {}
ReportedIsSaved == reported # 0 => reported \in 1..tokens /\ written[reported] # {}

\* No write was saved above the newest record.
WrittenIsStored ==
    \A t \in 1..environment.exchanges : \A g \in written[t] : g <= Newest(slots).generation

ReportInv ==
    /\ NodeTypes
    /\ TokensAreKnown /\ ExchangeIsKnown /\ WriteAsked
    /\ AnsweredIsSaved /\ NotedIsSaved /\ ReportedIsSaved /\ WrittenIsStored

NodeInv == StoreInv /\ ReportInv

LEMMA InitNodeInv == NodeInit => NodeInv
<1> SUFFICES ASSUME NodeInit PROVE NodeInv
  OBVIOUS
<1>1. StoreInv
  BY InitStoreInv DEF NodeInit
<1>2. environment.exchanges \in Nat /\ Default \in Value
  BY EnvironmentAssumption, DefaultAssumption DEF NodeInit
<1>3. written = [t \in 1..environment.exchanges |-> {}]
  BY DEF NodeInit
<1>4. NodeTypes
  BY <1>2, <1>3 DEF NodeInit, NodeTypes, NoRpc, NoExchange, Result
<1>5. WrittenIsStored
  BY <1>3 DEF WrittenIsStored
<1> QED
  BY <1>1, <1>2, <1>4, <1>5
  DEF NodeInit, NodeInv, ReportInv, TokensAreKnown, ExchangeIsKnown, WriteAsked, AnsweredIsSaved,
      NotedIsSaved, ReportedIsSaved, NoExchange

\* Records only grow: what was saved stays stored.
LEMMA StaysStored ==
    ASSUME NodeInv, Kept, UNCHANGED <<written, environment>>
    PROVE  WrittenIsStored'
<1>1. /\ Newest(slots).generation \in Nat /\ Newest(slots').generation \in Nat
      /\ Newest(slots').generation >= Newest(slots).generation
  BY NewestNumbers, NewestType DEF NodeInv, Kept, StoreInv, TypeOK, Record
<1>2. \A t \in 1..environment.exchanges : written[t] \subseteq Nat
  BY DEF NodeInv, ReportInv, NodeTypes
<1> QED
  BY <1>1, <1>2 DEF NodeInv, ReportInv, WrittenIsStored

\* A new question of the root.
LEMMA AskKeeps ==
    ASSUME ReportInv, NEW config \in Value,
           \/ Ask("read", config) /\ rpc'.step = "read"
           \/ Ask("write", config) /\ rpc'.step = "write",
           rpc' \in [command : {"none", "read", "write"}, step : {"read", "write"}, config : Value],
           UNCHANGED <<node, written, reported, world>>
    PROVE  /\ NodeTypes' /\ TokensAreKnown' /\ ExchangeIsKnown' /\ WriteAsked'
           /\ AnsweredIsSaved' /\ NotedIsSaved' /\ ReportedIsSaved'
<1> USE DEF ReportInv, NodeTypes
<1>1. PICK kind \in {"read", "write"} : Ask(kind, config) /\ rpc'.step = kind
  OBVIOUS
<1>2. /\ tokens \in Nat /\ tokens' = tokens + 1 /\ tokens' \in 0..environment.exchanges
      /\ exchange' = [NoExchange EXCEPT !.active = TRUE, !.token = tokens']
      /\ net' = net \cup {[kind |-> kind, token |-> tokens', config |-> config]}
      /\ UNCHANGED <<environment, staged, draft, written, reported>>
  BY <1>1 DEF Ask, node, world
<1>3. [kind |-> kind, token |-> tokens', config |-> config] \in Request
  BY <1>2 DEF Request, Token
<1>4. NodeTypes'
  <2>1. exchange' \in [active : BOOLEAN, token : Nat, done : BOOLEAN, result : Result, value : Value]
    <3>1. exchange' = [active |-> TRUE, token |-> tokens', done |-> FALSE, result |-> "storage",
                       value |-> Default]
      BY <1>2 DEF NoExchange
    <3>2. tokens' \in Nat
      BY <1>2
    <3> QED
      BY <3>1, <3>2, DefaultAssumption DEF Result
  <2>2. net' \subseteq Request \cup Response
    BY <1>2, <1>3
  <2> QED
    BY <1>2, <2>1, <2>2
<1>5. \A m \in net' : m \in net \/ (m.kind = kind /\ m.token = tokens')
  BY <1>2
<1>6. \A m \in net : m.kind # "reboot" => m.token \in 1..tokens /\ m.token # tokens'
  BY <1>2 DEF TokensAreKnown
<1>7. TokensAreKnown'
  BY <1>2, <1>5, <1>6 DEF TokensAreKnown
<1>8. WriteAsked'
  BY <1>1, <1>2, <1>5, <1>6 DEF WriteAsked, NoExchange
<1>9. AnsweredIsSaved'
  BY <1>2, <1>5 DEF AnsweredIsSaved
<1>10. ExchangeIsKnown' /\ NotedIsSaved' /\ ReportedIsSaved'
  BY <1>2 DEF ExchangeIsKnown, NotedIsSaved, ReportedIsSaved, NoExchange, Succeeded
<1> QED
  BY <1>4, <1>7, <1>8, <1>9, <1>10

LEMMA RootKeeps ==
    ASSUME NodeInv,
           \/ \E command \in {"read", "write"} : Command(command)
           \/ RootStep \/ Reboot
           \/ \E p \in Password : WriteBack(p)
           \/ \E m \in net : OnResponse(m) \/ Lose(m)
    PROVE  NodeInv'
<1> USE DEF NodeInv
<1>0. Kept /\ UNCHANGED <<written, environment>>
  BY NothingStored
  DEF Command, RootStep, ReadReturns, WriteReturns, CommandFails, Returns, Reboot, WriteBack,
      OnResponse, Lose, world
<1>1. StoreInv' /\ WrittenIsStored'
  BY <1>0, StaysStored DEF Kept
<1>2. ASSUME NEW command \in {"read", "write"}, Command(command) PROVE ReportInv'
  <2>1. Ask("read", Default) /\ rpc' = [NoRpc EXCEPT !.command = command]
        /\ UNCHANGED <<node, written, reported, world>>
    BY <1>2 DEF Command
  <2>2. rpc' \in [command : {"none", "read", "write"}, step : {"read", "write"}, config : Value]
        /\ rpc'.step = "read"
    BY <2>1, DefaultAssumption DEF NoRpc
  <2> QED
    BY <1>1, <2>1, <2>2, AskKeeps, DefaultAssumption DEF ReportInv
<1>3. ASSUME NEW p \in Password, WriteBack(p) PROVE ReportInv'
  <2> DEFINE c == [exchange.value EXCEPT !.password = p]
  <2>1. /\ Ask("write", c) /\ rpc' = [rpc EXCEPT !.step = "write", !.config = c]
        /\ UNCHANGED <<node, written, reported, world>>
    BY <1>3 DEF WriteBack
  <2>2. c \in Value
    BY ValueAssumption DEF ReportInv, NodeTypes
  <2>3. rpc' \in [command : {"none", "read", "write"}, step : {"read", "write"}, config : Value]
        /\ rpc'.step = "write"
    BY <2>1, <2>2 DEF ReportInv, NodeTypes
  <2> HIDE DEF c
  <2> QED
    BY <1>1, <2>1, <2>2, <2>3, AskKeeps DEF ReportInv
<1>4. CASE RootStep
  <2>1. /\ rpc' = NoRpc /\ exchange' = NoExchange
        /\ reported' = reported \/ (WriteReturns /\ reported' = exchange.token)
        /\ UNCHANGED <<tokens, net, written, environment, staged, draft>>
    BY <1>4 DEF RootStep, ReadReturns, WriteReturns, CommandFails, Returns, node, world
  <2>2. NodeTypes'
    BY <2>1, DefaultAssumption DEF ReportInv, NodeTypes, NoRpc, NoExchange, Result
  <2>3. ReportedIsSaved'
    <3>1. CASE reported' = reported
      BY <2>1, <3>1 DEF ReportInv, ReportedIsSaved
    <3>2. CASE WriteReturns /\ reported' = exchange.token
      BY <2>1, <3>2 DEF ReportInv, WriteReturns, Returns, NotedIsSaved, ExchangeIsKnown,
                        ReportedIsSaved
    <3> QED
      BY <2>1, <3>1, <3>2
  <2> QED
    BY <1>1, <2>1, <2>2, <2>3
    DEF ReportInv, TokensAreKnown, ExchangeIsKnown, WriteAsked, AnsweredIsSaved, NotedIsSaved,
        NoExchange
<1>5. CASE Reboot
  <2>1. /\ tokens \in Nat /\ tokens' = tokens + 1 /\ tokens' \in 0..environment.exchanges
        /\ net' = net \cup {[kind |-> "reboot"]}
        /\ UNCHANGED <<rpc, exchange, reported, staged, draft, written, environment>>
    BY <1>5 DEF Reboot, node, world, ReportInv, NodeTypes
  <2>2. [kind |-> "reboot"] \in Request
    BY DEF Request
  <2>3. NodeTypes'
    BY <2>1, <2>2 DEF ReportInv, NodeTypes
  <2>4. \A m \in net' : m \in net \/ m.kind = "reboot"
    BY <2>1
  <2> QED
    BY <1>1, <2>1, <2>3, <2>4
    DEF ReportInv, TokensAreKnown, ExchangeIsKnown, WriteAsked, AnsweredIsSaved, NotedIsSaved,
        ReportedIsSaved, Succeeded
<1>6. ASSUME NEW m \in net, OnResponse(m) PROVE ReportInv'
  <2>1. /\ m \in Response /\ net' = net \ {m}
        /\ UNCHANGED <<rpc, tokens, written, reported, staged, draft, environment>>
    BY <1>6 DEF OnResponse, node, world
  <2>2. \/ exchange' = exchange
        \/ /\ Answers(m)
           /\ exchange'.active = exchange.active /\ exchange'.token = exchange.token
           /\ exchange'.result = m.result /\ exchange'.done = TRUE
           /\ exchange' \in [active : BOOLEAN, token : Nat, done : BOOLEAN,
                             result : Result, value : Value]
    BY <1>6, <2>1 DEF OnResponse, Response, ReportInv, NodeTypes
  <2>3. NodeTypes'
    BY <2>1, <2>2 DEF ReportInv, NodeTypes
  <2>4. exchange'.active = exchange.active /\ exchange'.token = exchange.token
    BY <2>2
  <2>5. NotedIsSaved'
    BY <2>1, <2>2 DEF ReportInv, NotedIsSaved, Answers, WriteAsked, AnsweredIsSaved, Succeeded
  <2> QED
    BY <1>1, <2>1, <2>3, <2>4, <2>5
    DEF ReportInv, TokensAreKnown, ExchangeIsKnown, WriteAsked, AnsweredIsSaved, ReportedIsSaved
<1>7. ASSUME NEW m \in net, Lose(m) PROVE ReportInv'
  <2>1. /\ net' = net \ {m}
        /\ UNCHANGED <<rpc, exchange, tokens, written, reported, staged, draft, environment>>
    BY <1>7 DEF Lose, root, node, world
  <2> QED
    BY <1>1, <2>1
    DEF ReportInv, NodeTypes, TokensAreKnown, ExchangeIsKnown, WriteAsked, AnsweredIsSaved,
        NotedIsSaved, ReportedIsSaved, Succeeded
<1> QED
  BY <1>1, <1>2, <1>3, <1>4, <1>5, <1>6, <1>7

\* What the node is asked.
LEMMA NodeAnswers ==
    ASSUME NodeInv, NEW m \in net, OnRead(m) \/ OnWrite(m) \/ OnReboot(m)
    PROVE  NodeInv'
<1> USE DEF NodeInv
<1>1. /\ m \in Request \cup Response /\ environment.exchanges \in Nat
      /\ m.kind # "reboot" => m.token \in 1..tokens /\ m.token \in 1..environment.exchanges
      /\ m.kind = "write" => m.config \in Value /\ m.token \in Nat \ {0}
      /\ s_config \in Value
  BY DEF ReportInv, NodeTypes, TokensAreKnown, StoreInv, TypeOK, Request, Response, Token
<1>2. CASE OnRead(m)
  <2>1. /\ m.kind = "read"
        /\ net' = (net \ {m}) \cup {Reply("readResponse", m, "ok", s_config)}
        /\ UNCHANGED <<vars, rpc, exchange, tokens, reported, staged, draft, written, environment>>
    BY <1>2 DEF OnRead, Takes, root, node, world
  <2>2. Kept
    BY <2>1, NothingStored
  <2>3. /\ Reply("readResponse", m, "ok", s_config) \in Response
        /\ Reply("readResponse", m, "ok", s_config).token = m.token
        /\ Reply("readResponse", m, "ok", s_config).kind = "readResponse"
    BY <1>1, <2>1 DEF Reply, Response, Result, Token
  <2>4. NodeTypes'
    BY <2>1, <2>3 DEF ReportInv, NodeTypes
  <2>5. \A a \in net' : a \in net \/ (a.kind = "readResponse" /\ a.token = m.token)
    BY <2>1, <2>3
  <2>6. WriteAsked'
    BY <2>1, <2>5 DEF ReportInv, WriteAsked
  <2> QED
    BY <1>1, <2>1, <2>2, <2>4, <2>5, <2>6, StaysStored
    DEF Kept, ReportInv, TokensAreKnown, ExchangeIsKnown, AnsweredIsSaved, NotedIsSaved,
        ReportedIsSaved, Succeeded
<1>3. CASE OnWrite(m)
  <2>1. PICK result \in Result :
           /\ net' = (net \ {m}) \cup {Reply("writeResponse", m, result, Default)}
           /\ \/ /\ result = "ok" /\ Save(m.config)
                 /\ written' = [written EXCEPT ![m.token] = {s_generation'}]
              \/ result # "ok" /\ UNCHANGED vars /\ UNCHANGED written
    BY <1>3 DEF OnWrite, Result
  <2>2. /\ m.kind = "write"
        /\ UNCHANGED <<rpc, exchange, tokens, reported, staged, draft, environment>>
    BY <1>3 DEF OnWrite, Takes, root, world
  <2>3. /\ Reply("writeResponse", m, result, Default) \in Response
        /\ Reply("writeResponse", m, result, Default).token = m.token
        /\ Reply("writeResponse", m, result, Default).kind = "writeResponse"
        /\ Reply("writeResponse", m, result, Default).result = result
    BY <1>1, <2>1, <2>2, DefaultAssumption DEF Reply, Response, Token
  <2>4. Kept
    BY <1>1, <2>1, <2>2, SavesKeep, NothingStored
  <2>5. /\ s_generation' \in Nat
        /\ Save(m.config) => Newest(slots').generation = s_generation'
    BY <2>4 DEF Kept, StoreInv, TypeOK, RunningIsStored, Save, Stored
  <2>6. /\ written' \in [1..environment.exchanges -> SUBSET Nat]
        /\ \A t \in 1..environment.exchanges : written[t] # {} => written'[t] # {}
        /\ result = "ok" => written'[m.token] # {}
    <3>1. written \in [1..environment.exchanges -> SUBSET Nat] /\ tokens \in 0..environment.exchanges
      BY DEF ReportInv, NodeTypes
    <3>2. m.token \in 1..environment.exchanges
      BY <1>1, <2>2, <3>1 DEF ReportInv, TokensAreKnown
    <3>3. CASE written' = [written EXCEPT ![m.token] = {s_generation'}]
      BY <2>5, <3>1, <3>2, <3>3
    <3>4. CASE result # "ok" /\ UNCHANGED written
      BY <3>1, <3>4
    <3> QED
      BY <2>1, <3>3, <3>4
  <2>7. NodeTypes'
    BY <2>1, <2>2, <2>3, <2>6 DEF ReportInv, NodeTypes
  <2>8. \A a \in net' : \/ a \in net
                        \/ /\ a.kind = "writeResponse" /\ a.token = m.token
                           /\ a.result = result
    BY <2>1, <2>3
  <2>9. TokensAreKnown' /\ WriteAsked' /\ ExchangeIsKnown'
    BY <1>1, <2>2, <2>8 DEF ReportInv, TokensAreKnown, WriteAsked, ExchangeIsKnown
  <2>10. tokens \in 0..environment.exchanges
    BY DEF ReportInv, NodeTypes
  <2>11. AnsweredIsSaved'
    <3>1. \A a \in net : a.kind = "writeResponse" => a.token \in 1..environment.exchanges
      BY <1>1, <2>10 DEF ReportInv, TokensAreKnown
    <3> QED
      BY <2>6, <2>8, <3>1 DEF ReportInv, AnsweredIsSaved
  <2>12. NotedIsSaved' /\ ReportedIsSaved'
    <3>1. exchange.active => exchange.token \in 1..environment.exchanges
      BY <1>1, <2>10 DEF ReportInv, ExchangeIsKnown
    <3>2. reported # 0 => reported \in 1..environment.exchanges
      BY <1>1, <2>10 DEF ReportInv, ReportedIsSaved
    <3> QED
      BY <2>2, <2>6, <3>1, <3>2 DEF ReportInv, NotedIsSaved, ReportedIsSaved, Succeeded
  <2>13. WrittenIsStored'
    <3>1. CASE UNCHANGED written
      BY <2>2, <2>4, <3>1, StaysStored
    <3>2. CASE Save(m.config) /\ written' = [written EXCEPT ![m.token] = {s_generation'}]
      <4>1. /\ Newest(slots).generation \in Nat /\ Newest(slots').generation = s_generation'
            /\ Newest(slots').generation >= Newest(slots).generation
        BY <2>4, <2>5, <3>2, NewestNumbers DEF Kept, StoreInv, TypeOK
      <4>2. \A t \in 1..environment.exchanges :
               written'[t] = written[t] \/ written'[t] = {s_generation'}
        BY <3>2 DEF ReportInv, NodeTypes
      <4>3. \A t \in 1..environment.exchanges : written[t] \subseteq Nat
        BY DEF ReportInv, NodeTypes
      <4> QED
        BY <2>2, <2>5, <4>1, <4>2, <4>3 DEF ReportInv, WrittenIsStored
    <3> QED
      BY <2>1, <3>1, <3>2
  <2> QED
    BY <2>4, <2>7, <2>9, <2>11, <2>12, <2>13 DEF Kept, ReportInv
<1>4. CASE OnReboot(m)
  <2>1. /\ net' = net \ {m}
        /\ UNCHANGED <<vars, rpc, exchange, tokens, reported, staged, draft, written, environment>>
    BY <1>4 DEF OnReboot, root, world
  <2>2. Kept
    BY <2>1, NothingStored
  <2> QED
    BY <2>1, <2>2, StaysStored
    DEF Kept, ReportInv, NodeTypes, TokensAreKnown, ExchangeIsKnown, WriteAsked, AnsweredIsSaved,
        NotedIsSaved, ReportedIsSaved, Succeeded
<1> QED
  BY <1>2, <1>3, <1>4

\* What the node does by itself or at the hands of others concerns no exchange.
LEMMA LocalKeeps ==
    ASSUME NodeInv, Kept, UNCHANGED <<root, net, written, environment>>,
           staged' \subseteq Value, draft' \in [Editors -> SUBSET Value]
    PROVE  NodeInv'
<1>1. WrittenIsStored'
  BY StaysStored
<1> QED
  BY <1>1
  DEF NodeInv, Kept, root, ReportInv, NodeTypes, TokensAreKnown, ExchangeIsKnown, WriteAsked,
      AnsweredIsSaved, NotedIsSaved, ReportedIsSaved, Succeeded

LEMMA NodeActs ==
    ASSUME NodeInv,
           \/ \E e \in Editors, p \in Password : EditBegin(e, p)
           \/ \E e \in Editors : EditEnd(e)
           \/ \E p \in Password : ConfigStage(p)
           \/ ConfigBegin \/ ConfigCommit \/ ConfigAbort
           \/ Continues \/ Resets \/ Stops \/ FcChanges \/ UNCHANGED allvars
    PROVE  NodeInv'
<1> USE DEF NodeInv
<1>1. /\ s_config \in Value /\ staged \subseteq Value /\ draft \in [Editors -> SUBSET Value]
      /\ \A c \in Value, p \in Password : [c EXCEPT !.password = p] \in Value
  BY ValueAssumption DEF StoreInv, TypeOK, ReportInv, NodeTypes
<1>2. ASSUME NEW e \in Editors, NEW p \in Password, EditBegin(e, p) PROVE NodeInv'
  <2>1. draft' \in [Editors -> SUBSET Value]
    BY <1>1, <1>2 DEF EditBegin
  <2> QED
    BY <1>1, <1>2, <2>1, NothingStored, LocalKeeps DEF EditBegin, LocalEdit, Disturbance
<1>3. ASSUME NEW e \in Editors, EditEnd(e) PROVE NodeInv'
  <2>1. draft' \in [Editors -> SUBSET Value] /\ draft[e] \subseteq Value
    BY <1>1, <1>3 DEF EditEnd
  <2>2. Kept
    BY <1>3, <2>1, SavesKeep, NothingStored DEF EditEnd
  <2> QED
    BY <1>1, <1>3, <2>1, <2>2, LocalKeeps DEF EditEnd, LocalEdit, world
<1>4. ASSUME NEW p \in Password, ConfigStage(p) PROVE NodeInv'
  <2>1. staged' \subseteq Value
    BY <1>1, <1>4 DEF ConfigStage
  <2> QED
    BY <1>1, <1>4, <2>1, NothingStored, LocalKeeps DEF ConfigStage, LocalEdit, world
<1>5. CASE ConfigBegin \/ ConfigAbort
  <2>1. staged' \subseteq Value
    BY <1>1, <1>5 DEF ConfigBegin, ConfigAbort
  <2> QED
    BY <1>1, <1>5, <2>1, NothingStored, LocalKeeps
    DEF ConfigBegin, ConfigAbort, LocalEdit, Disturbance, world
<1>6. CASE ConfigCommit
  <2>1. Kept
    BY <1>1, <1>6, SavesKeep DEF ConfigCommit
  <2> QED
    BY <1>1, <1>6, <2>1, LocalKeeps DEF ConfigCommit, LocalEdit, world
<1>7. CASE Continues
  BY <1>1, <1>7, ProceedsKeeps, LocalKeeps DEF Continues, NodeStep, node, world
<1>8. CASE Resets
  <2>1. Kept
    BY <1>8, CommandKeeps DEF Resets, Kept
  <2> QED
    BY <1>1, <1>8, <2>1, LocalKeeps DEF Resets, NodeStep, node, Disturbance
<1>9. CASE Stops
  <2>1. Kept
    BY <1>9, PowerLossKeeps DEF Stops, Kept
  <2>2. staged' \subseteq Value /\ draft' \in [Editors -> SUBSET Value]
        /\ UNCHANGED <<root, net, written, environment>>
    BY <1>9 DEF Stops, Disturbance, world
  <2> QED
    BY <2>1, <2>2, LocalKeeps
<1>10. CASE FcChanges \/ UNCHANGED allvars
  <2>1. UNCHANGED <<vars, root, net, written, environment, staged, draft>>
    BY <1>10 DEF FcChanges, Disturbance, allvars, node, world
  <2> QED
    BY <1>1, <2>1, NothingStored, LocalKeeps
<1> QED
  BY <1>2, <1>3, <1>4, <1>5, <1>6, <1>7, <1>8, <1>9, <1>10

\* Damaged NVS takes the writes of the root with it, and the history says so.
LEMMA WorkshopActs == ASSUME NodeInv, AtWorkshop PROVE NodeInv'
<1> USE DEF NodeInv
<1>1. /\ Workshop /\ UNCHANGED <<root, net, staged, draft, environment>>
      /\ written' = [t \in DOMAIN written |->
                        IF DamagedNvs /\ written[t] # {} THEN {0} ELSE written[t]]
  BY DEF AtWorkshop, NodeStep, node, Disturbance
<1>2. StoreInv' /\ (DamagedNvs \/ Newest(slots').generation >= Newest(slots).generation)
  BY <1>1, WorkshopKeeps
<1>3. DOMAIN written = 1..environment.exchanges
  BY DEF ReportInv, NodeTypes
<1>4. CASE ~DamagedNvs
  <2>1. written' = written
    BY <1>1, <1>3, <1>4 DEF ReportInv, NodeTypes
  <2>2. staged' \subseteq Value /\ draft' \in [Editors -> SUBSET Value]
    BY <1>1 DEF ReportInv, NodeTypes
  <2> QED
    BY <1>1, <1>2, <1>4, <2>1, <2>2, LocalKeeps DEF Kept
<1>5. CASE DamagedNvs
  <2>1. /\ written' \in [1..environment.exchanges -> SUBSET Nat]
        /\ \A t \in 1..environment.exchanges :
              /\ written'[t] = {0} \/ written'[t] = {}
              /\ written[t] # {} => written'[t] # {}
    <3>1. written' = [t \in 1..environment.exchanges |-> IF written[t] # {} THEN {0} ELSE {}]
      BY <1>1, <1>3, <1>5
    <3>2. \A t \in 1..environment.exchanges :
             written'[t] = IF written[t] # {} THEN {0} ELSE {}
      BY <3>1
    <3>3. {0} \in SUBSET Nat /\ {} \in SUBSET Nat
      OBVIOUS
    <3>4. written' \in [1..environment.exchanges -> SUBSET Nat]
      BY <3>1, <3>3
    <3> QED
      BY <3>2, <3>4
  <2>2. Newest(slots').generation \in Nat
    BY <1>2, NewestType DEF StoreInv, TypeOK, Record
  <2>3. WrittenIsStored'
    <3>1. \A t \in 1..environment.exchanges, g \in Nat : g \in written'[t] => g = 0
      BY <2>1
    <3>2. \A t \in 1..environment.exchanges : written'[t] \subseteq Nat
      BY <2>1
    <3>3. environment' = environment
      BY <1>1
    <3> QED
      BY <2>2, <3>1, <3>2, <3>3 DEF WrittenIsStored
  <2>4. NodeTypes'
    BY <1>1, <2>1 DEF ReportInv, NodeTypes, root
  <2>5. tokens \in 0..environment.exchanges /\ environment.exchanges \in Nat
    BY DEF ReportInv, NodeTypes
  <2>6. /\ \A m \in net : m.kind = "writeResponse" => m.token \in 1..environment.exchanges
        /\ exchange.active => exchange.token \in 1..environment.exchanges
        /\ reported # 0 => reported \in 1..environment.exchanges
    BY <2>5 DEF ReportInv, TokensAreKnown, ExchangeIsKnown, ReportedIsSaved
  <2>7. AnsweredIsSaved' /\ NotedIsSaved' /\ ReportedIsSaved'
    BY <1>1, <2>1, <2>6
    DEF root, ReportInv, AnsweredIsSaved, NotedIsSaved, ReportedIsSaved, Succeeded
  <2> QED
    BY <1>1, <1>2, <2>3, <2>4, <2>7
    DEF root, ReportInv, TokensAreKnown, ExchangeIsKnown, WriteAsked
<1> QED
  BY <1>4, <1>5

LEMMA NextNodeInv == NodeInv /\ [NodeNext]_allvars => NodeInv'
<1> SUFFICES ASSUME NodeInv, [NodeNext]_allvars PROVE NodeInv'
  OBVIOUS
<1> QED
  BY RootKeeps, NodeAnswers, NodeActs, WorkshopActs DEF NodeNext

\* While the node serves commands, a restart at any moment brings back exactly the
\* configuration it runs, whoever edits it and wherever power was lost or a record
\* was destroyed before.
THEOREM RunningConfigIsStored == NodeSpec => []RunningIsStored
<1>1. NodeInv => RunningIsStored
  BY DEF NodeInv, StoreInv
<1> QED
  BY InitNodeInv, NextNodeInv, <1>1, PTL DEF NodeSpec

\* A write the root reports as saved is in the node's newest record or below a later
\* one, whatever answers arrive late and however often the node restarts.
THEOREM ReportedWriteIsDurable == NodeSpec => []ReportedIsDurable
<1>1. NodeInv => ReportedIsDurable
  <2> SUFFICES ASSUME NodeInv, reported # 0
               PROVE  \E g \in written[reported] : Newest(slots).generation >= g
    BY DEF ReportedIsDurable
  <2>1. reported \in 1..environment.exchanges /\ written[reported] # {}
    BY DEF NodeInv, ReportInv, NodeTypes, ReportedIsSaved
  <2>2. written[reported] \subseteq Nat /\ Newest(slots).generation \in Nat
    BY <2>1, NewestNumbers DEF NodeInv, ReportInv, NodeTypes, StoreInv, TypeOK
  <2> QED
    BY <2>1, <2>2 DEF NodeInv, ReportInv, WrittenIsStored
<1> QED
  BY InitNodeInv, NextNodeInv, <1>1, PTL DEF NodeSpec

-----------------------------------------------------------------------------
(* The passwords and the serial number. *)

\* The next start-up will use the provisioning record.
Pending == provision \in Password /\ identity = {}

\* What the records would bring back, what start-up has decided and what runs are
\* passwords the operator relies on, and there is one factory identity at most.
OneIdentity == \A i, j \in identity : i = j
DiskKept == pc # "erased" /\ ~Pending => \A c \in Loaded : c.password \in promised
BootKept ==
    pc \in {"erase", "store"} =>
        /\ s_config.password \in promised \/ (Pending /\ s_config.password = provision)
        /\ \A i \in identity : s_config.serial = i.serial
RunKept == pc \in {"up", "identity"} => s_config.password \in promised

CredentialsInv == OneIdentity /\ DiskKept /\ BootKept /\ RunKept

\* A readable newest record decides the password that is loaded, an identity the
\* serial number.
LEMMA LoadedPassword ==
    ASSUME TypeOK, WellFormed(slots), NEW c \in Loaded
    PROVE  /\ Newest(slots).valid => c.password = Newest(slots).value.password
           /\ c.password \in Password
           /\ OneIdentity => \A i \in identity : c.serial = i.serial
<1>1. c \in Value /\ Newest(slots).value \in Value
  BY LoadedType, NewestNumbers DEF TypeOK
<1>2. CASE ~Newest(slots).valid
  BY <1>1, <1>2, ValueAssumption DEF Loaded, Defaults, OneIdentity
<1>3. CASE Newest(slots).valid /\ identity = {}
  BY <1>1, <1>3, ValueAssumption DEF Loaded
<1>4. CASE Newest(slots).valid /\ identity # {}
  <2>1. PICK i \in identity : c = [Newest(slots).value EXCEPT !.serial = i.serial]
    BY <1>4 DEF Loaded
  <2>2. c.password = Newest(slots).value.password /\ c.serial = i.serial
    BY <1>1, <2>1, ValueAssumption
  <2> QED
    BY <1>1, <2>2, ValueAssumption DEF OneIdentity
<1> QED
  BY <1>2, <1>3, <1>4

LEMMA InitCredentials == Init => CredentialsInv
<1> SUFFICES ASSUME Init PROVE CredentialsInv
  OBVIOUS
<1>1. StoreInv
  BY InitStoreInv
<1>2. \A c \in Loaded : c.password \in promised
  BY <1>1, LoadedPassword DEF Init, StoreInv
<1> QED
  BY <1>2 DEF Init, CredentialsInv, OneIdentity, DiskKept, BootKept, RunKept

\* A step after which the node runs.
LEMMA RunningKeeps ==
    ASSUME StoreInv', OneIdentity', pc' \in {"up", "identity"}, s_config'.password \in promised'
    PROVE  CredentialsInv'
<1>1. DiskKept'
  <2>1. Newest(slots').valid /\ Newest(slots').value = s_config'
    BY DEF StoreInv, RunningIsStored, Stored
  <2>2. TypeOK' /\ WellFormed(slots')
    BY DEF StoreInv
  <2>3. \A c \in Loaded' : c.password = Newest(slots').value.password
    <3>1. Newest(slots').value \in Value
      BY <2>2, NewestType DEF TypeOK, Record
    <3>2. CASE identity' = {}
      BY <2>1, <3>2 DEF Loaded
    <3>3. CASE identity' # {}
      <4>1. \A i \in identity' : [Newest(slots').value EXCEPT !.serial = i.serial].password
                                 = Newest(slots').value.password
        BY <3>1, ValueAssumption
      <4> QED
        BY <2>1, <3>3, <4>1 DEF Loaded
    <3> QED
      BY <3>2, <3>3
  <2> QED
    BY <2>1, <2>3 DEF DiskKept
<1> QED
  BY <1>1 DEF CredentialsInv, BootKept, RunKept

\* Start-up.
LEMMA StartUpCredentials ==
    ASSUME StoreInv, CredentialsInv, Boot \/ EraseProvision \/ FinishBoot
    PROVE  CredentialsInv'
<1> USE DEF CredentialsInv
<1>1. TypeOK /\ WellFormed(slots) /\ StoreInv'
  BY StartUpKeeps DEF StoreInv
<1>2. CASE Boot
  <2>1. PICK c \in Loaded : s_config' = Provisioned(c)
    BY <1>2 DEF Boot
  <2>2. /\ UNCHANGED <<slots, legacy, identity, provision, promised>>
        /\ pc = "down" /\ pc' \in {"erase", "store"}
    BY <1>2 DEF Boot, disk
  <2>3. c \in Value /\ \A i \in identity : c.serial = i.serial
    BY <1>1, LoadedPassword, LoadedType
  <2>4. CASE Pending
    <3>1. s_config' = [c EXCEPT !.password = provision] /\ provision \in Password /\ identity = {}
      BY <2>1, <2>4 DEF Provisioned, Pending
    <3>2. s_config'.password = provision
      BY <2>3, <3>1, ValueAssumption
    <3> QED
      BY <2>2, <2>4, <3>1, <3>2
      DEF OneIdentity, DiskKept, BootKept, RunKept, Pending
  <2>5. CASE ~Pending
    <3>1. s_config' = c /\ c.password \in promised
      BY <2>1, <2>2, <2>5 DEF Provisioned, Pending, DiskKept
    <3> QED
      BY <2>2, <2>3, <2>5, <3>1
      DEF OneIdentity, DiskKept, BootKept, RunKept, Pending, Loaded, Defaults
  <2> QED
    BY <2>4, <2>5
<1>3. CASE EraseProvision
  <2>1. /\ UNCHANGED <<slots, identity, s_config, promised>> /\ pc = "erase"
        /\ \/ Pending /\ pc' = "erased"
           \/ ~Pending /\ provision' = None /\ pc' = "store"
           \/ provision' = provision /\ pc' = "store"
    BY <1>3 DEF EraseProvision, Pending
  <2>2. Loaded' = Loaded
    BY <2>1 DEF Loaded, Defaults
  <2>3. None \notin Password
    BY ValueAssumption
  <2> QED
    BY <2>1, <2>2, <2>3 DEF OneIdentity, DiskKept, BootKept, RunKept, Pending
<1>4. CASE FinishBoot
  <2>1. /\ s_config' = s_config /\ promised' = {s_config.password} /\ pc' = "up"
        /\ UNCHANGED identity
    BY <1>4 DEF FinishBoot, SaveLocked
  <2> QED
    BY <1>1, <2>1, RunningKeeps DEF OneIdentity
<1> QED
  BY <1>2, <1>3, <1>4

\* Commands of a running node.
LEMMA CommandCredentials ==
    ASSUME StoreInv, CredentialsInv,
           \/ FactoryReset \/ AdoptIdentity \/ AdoptionFails
           \/ \E c \in Value : Save(c)
           \/ \E i \in Identity : WriteIdentity(i)
    PROVE  CredentialsInv'
<1> USE DEF CredentialsInv
<1>1. StoreInv'
  BY CommandKeeps
<1>2. pc' \in {"up", "identity"}
  BY DEF FactoryReset, AdoptIdentity, AdoptionFails, Save, WriteIdentity
<1>3. OneIdentity'
  BY DEF OneIdentity, FactoryReset, AdoptIdentity, AdoptionFails, Save, WriteIdentity, disk
<1>4. s_config'.password \in promised'
  <2>1. CASE FactoryReset
    BY <2>1 DEF FactoryReset, SaveLocked
  <2>2. CASE AdoptIdentity
    BY <2>2 DEF AdoptIdentity, SaveLocked
  <2>3. CASE AdoptionFails \/ \E i \in Identity : WriteIdentity(i)
    BY <2>3 DEF AdoptionFails, WriteIdentity, RunKept
  <2>4. CASE \E c \in Value : Save(c)
    BY <2>4 DEF Save, SaveLocked
  <2> QED
    BY <2>1, <2>2, <2>3, <2>4
<1> QED
  BY <1>1, <1>2, <1>3, <1>4, RunningKeeps

\* Wherever power fails, except in the window, the records bring back a password that
\* was promised before, or the one being written.
LEMMA PowerLossCredentials ==
    ASSUME StoreInv, CredentialsInv, PowerLoss, "window" \notin Faults
    PROVE  CredentialsInv'
<1> USE DEF CredentialsInv
<1>1. TypeOK /\ WellFormed(slots) /\ StoreInv'
  BY PowerLossKeeps DEF StoreInv
<1>2. pc # "erased" /\ pc' = "down" /\ UNCHANGED <<identity, provision>>
  BY DEF PowerLoss
<1>3. DiskKept'
  <2>1. CASE UNCHANGED <<slots, legacy, promised>>
    BY <1>2, <2>1 DEF DiskKept, Pending, Loaded, Defaults
  <2>2. ASSUME NEW r \in InProgress,
               slots' \in Interrupted(slots, r.value, r.generation, "torn" \in Faults),
               promised' = promised \cup {r.value.password}
        PROVE  DiskKept'
    <3>1. \/ Newest(slots') = Newest(slots)
          \/ Newest(slots') = Stored(r.value, r.generation) /\ r.value \in Value
      BY <2>2, InterruptedWrite
    <3>2. CASE Newest(slots') = Newest(slots)
      BY <1>2, <2>2, <3>2 DEF DiskKept, Pending, Loaded, Defaults
    <3>3. CASE Newest(slots') = Stored(r.value, r.generation) /\ r.value \in Value
      <4>1. Newest(slots').valid /\ Newest(slots').value = r.value
        BY <3>3 DEF Stored
      <4>2. \A i \in identity : [r.value EXCEPT !.serial = i.serial].password = r.value.password
        BY <3>3, ValueAssumption
      <4> QED
        BY <1>2, <2>2, <4>1, <4>2 DEF DiskKept, Loaded
    <3> QED
      BY <3>1, <3>2, <3>3
  <2> QED
    BY <2>1, <2>2 DEF PowerLoss
<1> QED
  BY <1>2, <1>3 DEF OneIdentity, BootKept, RunKept

\* What happens to a unit that is off.
LEMMA OffCredentials ==
    ASSUME StoreInv, CredentialsInv,
           DamagedNvs \/ \E record \in Password \cup {Invalid} : Flash(record)
    PROVE  CredentialsInv'
<1> USE DEF CredentialsInv
<1>1. TypeOK /\ WellFormed(slots)
  BY DEF StoreInv
<1>2. CASE DamagedNvs
  <2>1. /\ slots' = EmptyPair /\ UNCHANGED <<identity, provision, pc, s_config>> /\ pc = "down"
        /\ promised' = IF Pending THEN promised ELSE Password
    BY <1>2 DEF DamagedNvs, Pending
  <2>2. Loaded' = Defaults
    BY <2>1, EmptyPairFacts DEF Loaded, Defaults
  <2>3. \A c \in Defaults : c.password \in Password
    BY <1>1, ValueAssumption DEF Defaults, TypeOK, Identity
  <2> QED
    BY <2>1, <2>2, <2>3 DEF OneIdentity, DiskKept, BootKept, RunKept, Pending
<1>3. ASSUME NEW record \in Password \cup {Invalid}, Flash(record)
      PROVE  CredentialsInv'
  <2>1. /\ UNCHANGED <<slots, identity, pc, s_config>> /\ pc = "down" /\ provision' = record
        /\ record = Invalid => provision = None
        /\ promised' = IF record = Invalid \/ identity # {} THEN promised ELSE {record}
    BY <1>3 DEF Flash
  <2>2. None \notin Password /\ Invalid \notin Password
    BY ValueAssumption
  <2>3. Loaded' = Loaded
    BY <2>1 DEF Loaded, Defaults
  <2> QED
    BY <2>1, <2>2, <2>3 DEF OneIdentity, DiskKept, BootKept, RunKept, Pending
<1> QED
  BY <1>2, <1>3

LEMMA StoreCredentials ==
    ASSUME StoreInv, CredentialsInv, [Next]_vars, "window" \notin Faults
    PROVE  CredentialsInv'
<1>1. CASE UNCHANGED vars
  BY <1>1
  DEF vars, disk, CredentialsInv, OneIdentity, DiskKept, BootKept, RunKept, Pending, Loaded, Defaults
<1> QED
  BY <1>1, StartUpCredentials, CommandCredentials, PowerLossCredentials, OffCredentials
  DEF Next, Proceeds, Workshop

\* Whatever the root, the console and the web server do to the records, they do by the
\* operations of the store.
LEMMA StoreSteps == ASSUME NodeInv, [NodeNext]_allvars PROVE [Next]_vars
<1> USE DEF NodeInv
<1>1. /\ \A m \in net : m.kind = "write" => m.config \in Value
      /\ staged \subseteq Value /\ \A e \in Editors : draft[e] \subseteq Value
  BY DEF ReportInv, NodeTypes, Request, Response
<1>2. ASSUME NEW m \in net, OnResponse(m) \/ OnRead(m) \/ OnWrite(m) \/ OnReboot(m) \/ Lose(m)
      PROVE  [Next]_vars
  BY <1>1, <1>2 DEF OnResponse, OnRead, OnWrite, OnReboot, Lose, Takes, Next
<1>3. ASSUME NEW e \in Editors, EditEnd(e) \/ \E p \in Password : EditBegin(e, p)
      PROVE  [Next]_vars
  BY <1>1, <1>3 DEF EditEnd, EditBegin, Next
<1>4. CASE ConfigBegin \/ ConfigCommit \/ ConfigAbort \/ \E p \in Password : ConfigStage(p)
  BY <1>1, <1>4 DEF ConfigBegin, ConfigCommit, ConfigAbort, ConfigStage, Next
<1>5. CASE Continues \/ Resets \/ AtWorkshop \/ Stops \/ FcChanges
  BY <1>5 DEF Continues, Resets, AtWorkshop, Stops, FcChanges, Next
<1>6. CASE \/ RootStep \/ Reboot
           \/ \E command \in {"read", "write"} : Command(command)
           \/ \E p \in Password : WriteBack(p)
  BY <1>6 DEF RootStep, ReadReturns, WriteReturns, CommandFails, Returns, Reboot, Command, WriteBack
<1>7. CASE UNCHANGED allvars
  BY <1>7 DEF allvars
<1> QED
  BY <1>2, <1>3, <1>4, <1>5, <1>6, <1>7 DEF NodeNext

\* Remote and local editing, answers that come late and restarts included, the node's
\* records behave as the store alone: NodeConfig implements AppConfigStore.
THEOREM EditingImplementsStore == NodeSpec => Spec
<1>1. NodeInit => Init
  BY DEF NodeInit
<1> QED
  BY <1>1, InitNodeInv, NextNodeInv, StoreSteps, PTL DEF NodeSpec, Spec

\* Unless power fails between the erasure of a provisioning record that counted and
\* the end of that start-up, start-up arrives at a password the operator was promised
\* and at the serial number of the factory identity.
THEOREM CredentialsAreKept ==
    ASSUME "window" \notin Faults
    PROVE  NodeSpec => []CredentialsKept
<1>1. CredentialsInv => CredentialsKept
  BY DEF CredentialsInv, BootKept, CredentialsKept, Pending
<1>2. NodeInit => CredentialsInv
  BY InitCredentials DEF NodeInit
<1>3. NodeInv /\ CredentialsInv /\ [NodeNext]_allvars => CredentialsInv'
  BY StoreSteps, StoreCredentials DEF NodeInv
<1> QED
  BY InitNodeInv, NextNodeInv, <1>1, <1>2, <1>3, PTL DEF NodeSpec

-----------------------------------------------------------------------------
(* What the root reads. *)

\* The question of a read is answered as a read.
StepOfWrite == rpc.step = "write" => rpc.command = "write"
ReadAsked ==
    exchange.active /\ rpc.step = "read"
    => \A m \in net : m.kind # "reboot" /\ m.token = exchange.token
                      => m.kind \in {"read", "readResponse"}

\* What the node runs, what it answered and what the root noted of the answer.
RunsInRan == exchange.active /\ pc \in {"up", "identity"} => s_config \in ran
AnsweredIsCurrent ==
    exchange.active =>
        \A m \in net : m.kind = "readResponse" /\ m.token = exchange.token => m.config \in ran
NotedIsCurrent == exchange.active /\ rpc.step = "read" /\ Succeeded => exchange.value \in ran

CurrentInv == StepOfWrite /\ ReadAsked /\ RunsInRan /\ AnsweredIsCurrent /\ NotedIsCurrent

LEMMA InitCurrentInv == NodeInit => CurrentInv
BY DEF NodeInit, CurrentInv, StepOfWrite, ReadAsked, RunsInRan, AnsweredIsCurrent,
       NotedIsCurrent, NoRpc, NoExchange

\* A new question: nothing under way carries its token.
LEMMA AskIsCurrent ==
    ASSUME NodeInv, NEW kind \in {"read", "write"}, NEW config \in Value, Ask(kind, config),
           rpc'.step = kind, rpc'.step = "write" => rpc'.command = "write",
           UNCHANGED vars
    PROVE  CurrentInv'
<1>1. /\ tokens \in Nat /\ tokens' = tokens + 1
      /\ exchange' = [NoExchange EXCEPT !.active = TRUE, !.token = tokens']
      /\ net' = net \cup {[kind |-> kind, token |-> tokens', config |-> config]}
      /\ ran' = IF pc \in {"up", "identity"} THEN {s_config} ELSE {}
  BY DEF Ask, NodeInv, ReportInv, NodeTypes
<1>2. \A m \in net' : m \in net \/ (m.kind = kind /\ m.token = tokens')
  BY <1>1
<1>3. \A m \in net : m.kind # "reboot" => m.token # tokens'
  BY <1>1 DEF NodeInv, ReportInv, TokensAreKnown
<1>4. exchange'.token = tokens' /\ exchange'.done = FALSE
  BY <1>1 DEF NoExchange
<1>5. ReadAsked' /\ AnsweredIsCurrent'
  BY <1>2, <1>3, <1>4 DEF ReadAsked, AnsweredIsCurrent
<1>6. RunsInRan'
  BY <1>1 DEF RunsInRan, vars
<1>7. StepOfWrite' /\ NotedIsCurrent'
  BY <1>4 DEF StepOfWrite, NotedIsCurrent, Succeeded
<1> QED
  BY <1>5, <1>6, <1>7 DEF CurrentInv

LEMMA RootIsCurrent ==
    ASSUME NodeInv, CurrentInv,
           \/ \E command \in {"read", "write"} : Command(command)
           \/ RootStep \/ Reboot
           \/ \E p \in Password : WriteBack(p)
           \/ \E m \in net : OnResponse(m) \/ Lose(m)
    PROVE  CurrentInv'
<1> USE DEF CurrentInv
<1>1. ASSUME NEW command \in {"read", "write"}, Command(command) PROVE CurrentInv'
  <2>1. Ask("read", Default) /\ rpc' = [NoRpc EXCEPT !.command = command] /\ UNCHANGED vars
    BY <1>1 DEF Command
  <2>2. rpc'.step = "read"
    BY <2>1 DEF NoRpc
  <2> QED
    BY <2>1, <2>2, AskIsCurrent, DefaultAssumption
<1>2. ASSUME NEW p \in Password, WriteBack(p) PROVE CurrentInv'
  <2> DEFINE c == [exchange.value EXCEPT !.password = p]
  <2>1. /\ Ask("write", c) /\ rpc' = [rpc EXCEPT !.step = "write", !.config = c]
        /\ UNCHANGED vars /\ rpc = [NoRpc EXCEPT !.command = "write"]
    BY <1>2 DEF WriteBack
  <2>2. c \in Value
    BY ValueAssumption DEF NodeInv, ReportInv, NodeTypes
  <2>3. rpc'.step = "write" /\ rpc'.command = "write"
    BY <2>1 DEF NoRpc
  <2> HIDE DEF c
  <2> QED
    BY <2>1, <2>2, <2>3, AskIsCurrent
<1>3. CASE RootStep
  BY <1>3
  DEF RootStep, ReadReturns, WriteReturns, CommandFails, Returns, NoRpc, NoExchange, StepOfWrite,
      ReadAsked, RunsInRan, AnsweredIsCurrent, NotedIsCurrent
<1>4. CASE Reboot
  <2>1. /\ net' = net \cup {[kind |-> "reboot"]} /\ UNCHANGED <<vars, rpc, exchange, ran>>
    BY <1>4 DEF Reboot
  <2>2. \A m \in net' : m \in net \/ m.kind = "reboot"
    BY <2>1
  <2> QED
    BY <2>1, <2>2
    DEF vars, StepOfWrite, ReadAsked, RunsInRan, AnsweredIsCurrent, NotedIsCurrent, Succeeded
<1>5. ASSUME NEW m \in net, OnResponse(m) PROVE CurrentInv'
  <2>1. net' = net \ {m} /\ m \in Response /\ UNCHANGED <<vars, rpc, ran>>
    BY <1>5 DEF OnResponse, node, world
  <2>2. \/ exchange' = exchange
        \/ /\ Answers(m)
           /\ exchange' = [exchange EXCEPT !.done = TRUE, !.result = m.result,
                                           !.value = IF m.kind = "readResponse" /\ m.result = "ok"
                                                     THEN m.config ELSE @]
    BY <1>5 DEF OnResponse
  <2>3. CASE exchange' = exchange
    BY <2>1, <2>3
    DEF vars, StepOfWrite, ReadAsked, RunsInRan, AnsweredIsCurrent, NotedIsCurrent, Succeeded
  <2>4. CASE exchange' # exchange
    <3>1. /\ Answers(m) /\ exchange'.active = exchange.active /\ exchange'.token = exchange.token
          /\ exchange'.result = m.result
          /\ m.kind = "readResponse" /\ m.result = "ok" => exchange'.value = m.config
      BY <2>2, <2>4 DEF NodeInv, ReportInv, NodeTypes
    <3>2. NotedIsCurrent'
      <4>1. exchange.active /\ m.kind \in {"readResponse", "writeResponse"}
            /\ m.token = exchange.token
        BY <3>1 DEF Answers
      <4>2. rpc.step = "read" => m.kind = "readResponse"
        BY <4>1 DEF ReadAsked
      <4> QED
        BY <2>1, <3>1, <4>1, <4>2 DEF NotedIsCurrent, AnsweredIsCurrent, Succeeded
    <3> QED
      BY <2>1, <3>1, <3>2 DEF vars, StepOfWrite, ReadAsked, RunsInRan, AnsweredIsCurrent
  <2> QED
    BY <2>3, <2>4
<1>6. ASSUME NEW m \in net, Lose(m) PROVE CurrentInv'
  <2>1. net' = net \ {m} /\ UNCHANGED <<vars, rpc, exchange, ran>>
    BY <1>6 DEF Lose, root
  <2> QED
    BY <2>1
    DEF vars, StepOfWrite, ReadAsked, RunsInRan, AnsweredIsCurrent, NotedIsCurrent, Succeeded
<1> QED
  BY <1>1, <1>2, <1>3, <1>4, <1>5, <1>6

\* Whatever the node saves or starts with while it is asked is among what it ran.
LEMMA RunningIsRecorded ==
    ASSUME CurrentInv, ran \subseteq ran', RunsInRan', UNCHANGED <<rpc, exchange>>,
           \A m \in net' : \/ m \in net
                           \/ /\ rpc.step = "read" \/ m.token # exchange.token
                              /\ m.kind = "readResponse" /\ m.config \in ran'
                           \/ /\ rpc.step = "write" \/ m.token # exchange.token
                              /\ m.kind = "writeResponse"
                           \/ ~exchange.active
    PROVE  CurrentInv'
BY DEF CurrentInv, StepOfWrite, ReadAsked, AnsweredIsCurrent, NotedIsCurrent, Succeeded

LEMMA NodeAnswersCurrent ==
    ASSUME NodeInv, CurrentInv, NEW m \in net, OnRead(m) \/ OnWrite(m) \/ OnReboot(m)
    PROVE  CurrentInv'
<1> USE DEF CurrentInv
<1>1. CASE OnRead(m)
  <2>1. /\ m.kind = "read" /\ pc = "up"
        /\ net' = (net \ {m}) \cup {Reply("readResponse", m, "ok", s_config)}
        /\ UNCHANGED <<vars, rpc, exchange, ran>>
    BY <1>1 DEF OnRead, Takes, root
  <2>2. /\ Reply("readResponse", m, "ok", s_config).token = m.token
        /\ Reply("readResponse", m, "ok", s_config).kind = "readResponse"
        /\ Reply("readResponse", m, "ok", s_config).config = s_config
    BY DEF Reply
  <2>3. exchange.active => s_config \in ran
    BY <2>1 DEF RunsInRan
  <2>4. exchange.active /\ m.token = exchange.token => rpc.step = "read"
    BY <2>1 DEF NodeInv, ReportInv, NodeTypes, WriteAsked
  <2>5. RunsInRan'
    BY <2>1 DEF vars, RunsInRan
  <2>6. \A a \in net' : a \in net \/ a = Reply("readResponse", m, "ok", s_config)
    BY <2>1
  <2> QED
    BY <2>1, <2>2, <2>3, <2>4, <2>5, <2>6, RunningIsRecorded
<1>2. CASE OnWrite(m)
  <2>1. PICK result \in Result :
           /\ net' = (net \ {m}) \cup {Reply("writeResponse", m, result, Default)}
           /\ \/ Save(m.config) /\ Runs(m.config)
              \/ UNCHANGED vars /\ ran' = ran
    BY <1>2 DEF OnWrite, Result
  <2>2. m.kind = "write" /\ UNCHANGED <<rpc, exchange>>
    BY <1>2 DEF OnWrite, Takes, root
  <2>3. /\ Reply("writeResponse", m, result, Default).token = m.token
        /\ Reply("writeResponse", m, result, Default).kind = "writeResponse"
    BY DEF Reply
  <2>4. exchange.active /\ m.token = exchange.token => rpc.step = "write"
    BY <2>2 DEF NodeInv, ReportInv, NodeTypes, ReadAsked
  <2>5. RunsInRan' /\ ran \subseteq ran'
    BY <2>1, <2>2 DEF vars, RunsInRan, Runs, Save, SaveLocked
  <2>6. \A a \in net' : a \in net \/ a = Reply("writeResponse", m, result, Default)
    BY <2>1
  <2> QED
    BY <2>2, <2>3, <2>4, <2>5, <2>6, RunningIsRecorded
<1>3. CASE OnReboot(m)
  <2>1. net' = net \ {m} /\ UNCHANGED <<vars, rpc, exchange, ran>>
    BY <1>3 DEF OnReboot, root
  <2> QED
    BY <2>1, RunningIsRecorded DEF vars, RunsInRan
<1> QED
  BY <1>1, <1>2, <1>3

LEMMA NodeStaysCurrent ==
    ASSUME CurrentInv,
           \/ \E e \in Editors, p \in Password : EditBegin(e, p)
           \/ \E e \in Editors : EditEnd(e)
           \/ \E p \in Password : ConfigStage(p)
           \/ ConfigBegin \/ ConfigCommit \/ ConfigAbort
           \/ Continues \/ Resets \/ AtWorkshop \/ Stops \/ FcChanges \/ UNCHANGED allvars
    PROVE  CurrentInv'
<1> USE DEF CurrentInv
<1>1. UNCHANGED <<rpc, exchange, net>>
  BY DEF EditBegin, EditEnd, ConfigStage, ConfigBegin, ConfigCommit, ConfigAbort, LocalEdit,
         Continues, Resets, AtWorkshop, NodeStep, Stops, FcChanges, root, allvars
<1>2. RunsInRan' /\ ran \subseteq ran'
  <2>1. ASSUME NEW c, Save(c), Runs(c) PROVE RunsInRan' /\ ran \subseteq ran'
    BY <1>1, <2>1 DEF RunsInRan, Runs, Save, SaveLocked
  <2>2. CASE UNCHANGED <<vars, ran>>
    BY <1>1, <2>2 DEF vars, RunsInRan
  <2>3. CASE NodeStep
    BY <1>1, <2>3 DEF NodeStep, Runs, RunsInRan
  <2>4. CASE Stops
    BY <2>4 DEF Stops, PowerLoss, RunsInRan
  <2> QED
    BY <2>1, <2>2, <2>3, <2>4
    DEF EditBegin, EditEnd, ConfigStage, ConfigBegin, ConfigCommit, ConfigAbort, Continues, Resets,
        AtWorkshop, FcChanges, allvars
<1> QED
  BY <1>1, <1>2, RunningIsRecorded

\* A configuration the root reads, to show it or to change a field of it, was running
\* at the node while it asked: no late answer to an earlier question is taken for it.
THEOREM ReadIsCurrent == NodeSpec => ReportedIsCurrent
<1>1. NodeInv /\ CurrentInv /\ [NodeNext]_allvars => CurrentInv'
  BY RootIsCurrent, NodeAnswersCurrent, NodeStaysCurrent DEF NodeNext
<1>2. NodeInv /\ CurrentInv /\ [NodeNext]_allvars
      => [ReadReturns \/ (\E p \in Password : WriteBack(p)) => exchange.value \in ran]_allvars
  <2> SUFFICES ASSUME NodeInv, CurrentInv, ReadReturns \/ \E p \in Password : WriteBack(p)
               PROVE  exchange.value \in ran
    OBVIOUS
  <2>1. CASE ReadReturns
    <3>1. exchange.active /\ Succeeded /\ rpc.command = "read"
      BY <2>1 DEF ReadReturns, Returns
    <3>2. rpc.step = "read"
      BY <3>1 DEF CurrentInv, StepOfWrite, NodeInv, ReportInv, NodeTypes
    <3> QED
      BY <3>1, <3>2 DEF CurrentInv, NotedIsCurrent
  <2>2. CASE \E p \in Password : WriteBack(p)
    <3>1. exchange.active /\ Succeeded /\ rpc.step = "read"
      BY <2>2 DEF WriteBack, NoRpc
    <3> QED
      BY <3>1 DEF CurrentInv, NotedIsCurrent
  <2> QED
    BY <2>1, <2>2
<1> QED
  BY InitNodeInv, NextNodeInv, InitCurrentInv, <1>1, <1>2, PTL DEF NodeSpec, ReportedIsCurrent
=============================================================================
