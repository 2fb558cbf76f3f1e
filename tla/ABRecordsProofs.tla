--------------------------- MODULE ABRecordsProofs --------------------------
(***************************************************************************)
(* What the A/B record operators guarantee for every payload and           *)
(* generation.  The stores built on ABRecords cite these lemmas.           *)
(***************************************************************************)
EXTENDS ABRecords, TLAPS

\* A pair as the writers leave it: a readable record sits under the key of its
\* generation's parity, and everything else reads as nothing.
WellFormed(pair) ==
    \A s \in Slot :
        IF pair[s].valid
        THEN pair[s].generation > 0 /\ SlotOf(pair[s].generation) = s
        ELSE pair[s] = Unreadable

\* Two consecutive generations never share a key.
LEMMA SlotAlternates ==
    ASSUME NEW g \in Nat
    PROVE  SlotOf(g) \in Slot /\ SlotOf(g + 1) # SlotOf(g)
BY DEF SlotOf, Slot

LEMMA RecordTypes ==
    ASSUME NEW v \in Value, NEW g \in Nat
    PROVE  Stored(v, g) \in Record /\ Unreadable \in Record /\ EmptyPair \in Pair
BY DefaultAssumption DEF Stored, Unreadable, Record, EmptyPair, Pair

LEMMA NewestType ==
    ASSUME NEW pair \in Pair
    PROVE  Newest(pair) \in Record /\ Newest(pair) \in {pair["a"], pair["b"]}
BY DEF Newest, Pair, Slot

LEMMA WrittenType ==
    ASSUME NEW pair \in Pair, NEW v \in Value, NEW g \in Nat
    PROVE  Written(pair, v, g) \in Pair
BY SlotAlternates, RecordTypes DEF Written, Pair

LEMMA InterruptedType ==
    ASSUME NEW pair \in Pair, NEW v \in Value, NEW g \in Nat, NEW torn \in BOOLEAN
    PROVE  Interrupted(pair, v, g, torn) \subseteq Pair
<1>1. Unreadable \in Record
  BY RecordTypes
<1>2. [pair EXCEPT ![SlotOf(g)] = Unreadable] \in Pair
  BY <1>1, SlotAlternates DEF Pair
<1> QED BY <1>2, WrittenType DEF Interrupted

\* The selected record has the highest generation, and no other has as high a one.
LEMMA NewestIsHighest ==
    ASSUME NEW pair \in Pair, WellFormed(pair), NEW s \in Slot
    PROVE  /\ pair[s].generation <= Newest(pair).generation
           /\ pair[s].generation = Newest(pair).generation => pair[s] = Newest(pair)
<1>1. pair["a"].generation \in Nat /\ pair["b"].generation \in Nat
  BY DEF Pair, Slot, Record
<1>2. /\ ~pair["a"].valid => pair["a"] = Unreadable
      /\ ~pair["b"].valid => pair["b"] = Unreadable
      /\ pair["a"].valid => pair["a"].generation > 0
                            /\ SlotOf(pair["a"].generation) = "a"
      /\ pair["b"].valid => pair["b"].generation > 0
                            /\ SlotOf(pair["b"].generation) = "b"
  BY DEF WellFormed, Slot
<1>3. pair["a"].valid /\ pair["b"].valid => pair["a"].generation # pair["b"].generation
  BY <1>2
<1>4. Unreadable.generation = 0
  BY DEF Unreadable
<1>5. s = "a" \/ s = "b"
  BY DEF Slot
<1> QED BY <1>1, <1>2, <1>3, <1>4, <1>5 DEF Newest

\* A record written with a generation beyond every stored one is selected.
LEMMA WrittenIsNewest ==
    ASSUME NEW pair \in Pair, WellFormed(pair), NEW v \in Value, NEW g \in Nat,
           g > Newest(pair).generation
    PROVE  /\ WellFormed(Written(pair, v, g))
           /\ Newest(Written(pair, v, g)) = Stored(v, g)
<1> DEFINE p == Written(pair, v, g)
<1>1. /\ \A s \in Slot : pair[s].generation \in Nat /\ pair[s].generation < g
      /\ Newest(pair).generation \in Nat
  BY NewestIsHighest, NewestType DEF Pair, Record
<1>2. SlotOf(g) \in Slot /\ p[SlotOf(g)] = Stored(v, g)
      /\ \A s \in Slot : s # SlotOf(g) => p[s] = pair[s]
  BY SlotAlternates DEF Written, Pair
<1>3. Stored(v, g).valid /\ Stored(v, g).generation = g /\ g > 0
  BY <1>1 DEF Stored
<1>4. WellFormed(p)
  BY <1>2, <1>3 DEF WellFormed
<1>5. p \in Pair
  BY WrittenType
<1>6. \A s \in Slot : p[s].generation <= g
  BY <1>1, <1>2, <1>3
<1>7. Newest(p).generation = g
  <2>1. g <= Newest(p).generation
    BY <1>2, <1>3, <1>4, <1>5, NewestIsHighest
  <2>2. Newest(p).generation <= g
    BY <1>5, <1>6, NewestType DEF Slot
  <2>3. Newest(p).generation \in Nat
    BY <1>5, NewestType DEF Record
  <2> QED BY <2>1, <2>2, <2>3
<1>8. Newest(p) = Stored(v, g)
  BY <1>2, <1>3, <1>4, <1>5, <1>7, NewestIsHighest
<1> QED BY <1>4, <1>8

\* Losing the record under the key of the next generation loses nothing newer
\* than the selected record: A/B writes never touch the active one.
LEMMA TornNextIsHarmless ==
    ASSUME NEW pair \in Pair, WellFormed(pair), NEW g \in Nat,
           g = Newest(pair).generation + 1
    PROVE  /\ WellFormed([pair EXCEPT ![SlotOf(g)] = Unreadable])
           /\ Newest([pair EXCEPT ![SlotOf(g)] = Unreadable]) = Newest(pair)
<1> DEFINE p == [pair EXCEPT ![SlotOf(g)] = Unreadable]
<1>1. Newest(pair).generation \in Nat /\ Newest(pair) \in {pair["a"], pair["b"]}
  BY NewestType DEF Record
<1>2. SlotOf(g) \in Slot /\ SlotOf(g) # SlotOf(Newest(pair).generation)
  BY <1>1, SlotAlternates
<1>3. p[SlotOf(g)] = Unreadable /\ \A s \in Slot : s # SlotOf(g) => p[s] = pair[s]
  BY <1>2 DEF Pair
<1>4. Unreadable.valid = FALSE /\ Unreadable.generation = 0
  BY DEF Unreadable
<1>5. WellFormed(p)
  BY <1>3, <1>4 DEF WellFormed
<1>6. CASE Newest(pair).valid
  <2>1. PICK s \in Slot : Newest(pair) = pair[s]
    BY <1>1 DEF Slot
  <2>2. s # SlotOf(g) /\ pair[s].generation > 0
    BY <1>2, <1>6, <2>1 DEF WellFormed
  <2>3. p[s] = Newest(pair)
    BY <1>3, <2>1, <2>2
  <2> QED BY <1>2, <1>3, <1>4, <1>5, <1>6, <2>2, <2>3 DEF Newest, Slot
<1>7. CASE ~Newest(pair).valid
  <2>1. pair["a"] = Unreadable /\ pair["b"] = Unreadable
    BY <1>7 DEF Newest, WellFormed, Slot
  <2> QED BY <1>2, <1>3, <1>4, <1>5, <2>1 DEF Newest, Slot
<1> QED BY <1>5, <1>6, <1>7

\* An interrupted write of a record newer than the running one leaves a pair
\* whose newest record is the running one or the new one.
LEMMA InterruptedKeepsNewest ==
    ASSUME NEW pair \in Pair, WellFormed(pair), NEW v \in Value, NEW g \in Nat,
           g > Newest(pair).generation, NEW torn \in BOOLEAN,
           torn => g = Newest(pair).generation + 1,
           NEW p \in Interrupted(pair, v, g, torn)
    PROVE  /\ WellFormed(p)
           /\ Newest(p) = Newest(pair) \/ Newest(p) = Stored(v, g)
<1>1. CASE p = pair
  BY <1>1
<1>2. CASE p = Written(pair, v, g)
  BY <1>2, WrittenIsNewest
<1>3. CASE torn /\ p = [pair EXCEPT ![SlotOf(g)] = Unreadable]
  BY <1>3, TornNextIsHarmless
<1> QED BY <1>1, <1>2, <1>3 DEF Interrupted
=============================================================================
