-------------------------- MODULE FleetUpdateProofs -------------------------
(***************************************************************************)
(* What the two-phase update guarantees for every number of air nodes,     *)
(* updates and disturbances.                                               *)
(*                                                                         *)
(* CommitFollowsPrepare rests on the origin of every answer: a "prepared"  *)
(* that matches the running transaction was sent by a node that accepted   *)
(* this very PREPARE (AnswersAreCurrent).  It needs the configurations of  *)
(* two updates to differ (~Retry): the answers to an earlier update then   *)
(* carry another digest.                                                   *)
(*                                                                         *)
(* AcknowledgedIsStored rests on what a node's staged pair holds: while a  *)
(* request is remembered, the pair is empty or has that very record under  *)
(* its key (StagedPairs), so that a COMMIT that matches the request        *)
(* activates this record or a newer one.                                   *)
(*                                                                         *)
(* OnlyDecidedActivates rests on what the generations in play may be       *)
(* (DecidedInv): none exceeds what the root will know when it begins the   *)
(* next update, so a decided record is above every record that an aborted  *)
(* update left at a node; and the pair of a request that a COMMIT may      *)
(* answer activates the record of that request.  It needs ~Retry, and      *)
(* that nobody is removed from the approval list before the last update.   *)
(***************************************************************************)
EXTENDS FleetUpdate, ABRecordsProofs, FiniteSetTheorems

-----------------------------------------------------------------------------
(* The next generation. *)

\* A finite set of numbers has a greatest element.
LEMMA GreatestExists ==
    ASSUME NEW S \in SUBSET Nat, IsFiniteSet(S), S # {}
    PROVE  \E g \in S : \A h \in S : h <= g
<1> DEFINE HasGreatest(T) == \E g \in T : \A h \in T : h <= g
           Bad == {T \in FiniteSubsetsOf(Nat) : T # {} /\ ~HasGreatest(T)}
<1>1. SUFFICES ASSUME Bad # {} PROVE FALSE
  BY DEF FiniteSubsetsOf
<1>2. PICK T \in Bad : \A U \in Bad : <<U, T>> \notin StrictSubsetOrdering(Nat)
  <2>1. Bad \subseteq FiniteSubsetsOf(Nat)
    OBVIOUS
  <2> QED
    BY <1>1, <2>1, FS_StrictSubsetOrderingWellFounded, WFMin
<1>3. PICK x \in T : TRUE
  OBVIOUS
<1>4. T \in SUBSET Nat /\ IsFiniteSet(T) /\ ~HasGreatest(T)
  BY DEF FiniteSubsetsOf
<1>5. T \ {x} \in FiniteSubsetsOf(Nat)
  BY <1>4, FS_RemoveElement DEF FiniteSubsetsOf
<1>6. <<T \ {x}, T>> \in StrictSubsetOrdering(Nat)
  BY <1>3, <1>4 DEF StrictSubsetOrdering
<1>7. T \ {x} = {} \/ HasGreatest(T \ {x})
  BY <1>2, <1>5, <1>6
<1>8. CASE T \ {x} = {}
  <2>1. \A h \in T : h <= x
    BY <1>3, <1>4, <1>8
  <2> QED
    BY <1>3, <1>4, <2>1
<1>9. CASE HasGreatest(T \ {x})
  <2>1. PICK g \in T \ {x} : \A h \in T \ {x} : h <= g
    BY <1>9
  <2>2. g \in Nat /\ x \in Nat
    BY <1>3, <1>4, <2>1
  <2>3. \A h \in T : h <= IF g <= x THEN x ELSE g
    BY <1>4, <2>1, <2>2
  <2> QED
    BY <1>3, <1>4, <2>1, <2>3
<1> QED
  BY <1>7, <1>8, <1>9

\* The generation of an update is one above the highest generation the root knows.
LEMMA NextGenerationIsNext ==
    ASSUME TypeOK
    PROVE  \E top \in {store[Root].generation} \cup {view[n].generation : n \in approved} :
              /\ top \in Nat /\ NextGeneration = 1 + top
              /\ top >= store[Root].generation
              /\ \A n \in approved : top >= view[n].generation
<1> DEFINE heard == [n \in approved |-> view[n].generation]
           Heard == {view[n].generation : n \in approved}
           known == {store[Root].generation} \cup Heard
<1>1. /\ Root \in Unit /\ store[Root] \in Record /\ approved \subseteq Node
      /\ \A n \in approved : view[n] \in View
  BY DEF TypeOK, Unit
<1>2. known \in SUBSET Nat
  BY <1>1 DEF Record, View
<1>3. IsFiniteSet(approved)
  BY <1>1, NodeAssumption, FS_Subset
<1>4. heard \in Surjection(approved, Heard)
  BY DEF Surjection
<1>5. IsFiniteSet(known)
  BY <1>3, <1>4, FS_Surjection, FS_Singleton, FS_Union
<1>6. \E g \in known : \A h \in known : h <= g
  BY <1>2, <1>5, GreatestExists
<1> DEFINE top == CHOOSE g \in known : \A h \in known : h <= g
<1>7. top \in known /\ \A h \in known : h <= top
  BY <1>6
<1>8. NextGeneration = 1 + top
  BY DEF NextGeneration
<1> HIDE DEF top
<1>9. top \in Nat /\ top >= store[Root].generation /\ \A n \in approved : top >= view[n].generation
  BY <1>2, <1>7
<1> QED
  BY <1>7, <1>8, <1>9

LEMMA NextGenerationAbove ==
    ASSUME TypeOK
    PROVE  /\ NextGeneration \in Nat
           /\ NextGeneration > store[Root].generation
           /\ \A n \in approved : NextGeneration > view[n].generation
<1>1. /\ store[Root].generation \in Nat
      /\ \A n \in approved : view[n].generation \in Nat
  BY DEF TypeOK, Record, View, Unit
<1> QED
  BY <1>1, NextGenerationIsNext

-----------------------------------------------------------------------------
(* Types. *)

\* Messages of a known kind about a record are messages.
LEMMA SentType ==
    ASSUME NEW kind \in Request \cup Response, NEW targets \in SUBSET Node,
           NEW record \in Record, NEW network \in Value
    PROVE  Sent(kind, targets, record, network) \subseteq Message
BY DEF Sent, Message

\* What the fields of well-typed variables are.
LEMMA UnitTypes ==
    ASSUME TypeOK, NEW u \in Unit
    PROVE  /\ store[u] \in Record /\ pending[u] \in Pair /\ running[u] \in Value
           /\ store[u].generation \in Nat /\ store[u].value \in Value
           /\ Newest(pending[u]) \in Record
BY NewestType DEF TypeOK, Record

LEMMA MessageTypes ==
    ASSUME TypeOK, NEW m \in msgs
    PROVE  /\ m \in Message /\ m.node \in Node /\ m.node \in Unit /\ m.record \in Record
           /\ m.record.value \in Value /\ m.record.generation \in Nat
BY DEF TypeOK, Message, Record, Unit

LEMMA InitTypeOK == Init => TypeOK
<1> SUFFICES ASSUME Init PROVE TypeOK
  OBVIOUS
<1>1. Unreadable \in Record /\ EmptyPair \in Pair /\ Stored(Default, 1) \in Record
  BY RecordTypes, DefaultAssumption
<1>2. Unheard \in View
  BY DEF Unheard, View, Fc
<1> QED
  BY <1>1, <1>2, DefaultAssumption, PlanAssumption DEF Init, Plan, TypeOK, Phase, Fc, Unit

\* A message about the running transaction, to whoever can be reached.
LEMMA SendType ==
    ASSUME TypeOK, NEW kind \in Request, NEW record \in Record,
           SendToReachable(kind, record)
    PROVE  msgs' \subseteq Message
<1>1. Reachable \in SUBSET Node /\ running[Root] \in Value
  BY DEF TypeOK, Reachable, Unit
<1> QED
  BY <1>1, SentType DEF SendToReachable, TypeOK

LEMMA ReplyType ==
    ASSUME TypeOK, NEW m \in msgs, NEW kind \in Response, Reply(m, kind)
    PROVE  msgs' \subseteq Message
BY MessageTypes, UnitTypes, SentType DEF Reply, TypeOK

LEMMA BeginUpdateType ==
    ASSUME TypeOK, NEW c \in Value, BeginUpdate(c)
    PROVE  TypeOK'
<1>1. NextGeneration \in Nat
  BY NextGenerationAbove
<1>2. Stored(c, NextGeneration) \in Record
  BY <1>1, RecordTypes
<1>3. pending' \in [Unit -> Pair]
  BY <1>1, WrittenType, UnitTypes DEF BeginUpdate, TypeOK
<1>4. msgs' \subseteq Message
  BY <1>2, SendType DEF BeginUpdate, Request
<1>5. updates' \in Nat
  BY DEF BeginUpdate, TypeOK
<1> QED
  BY <1>2, <1>3, <1>4, <1>5 DEF BeginUpdate, TypeOK, Phase, air

\* The steps of the root after it has begun.
LEMMA RootStepType ==
    ASSUME TypeOK, RootStep
    PROVE  TypeOK'
<1>1. Unreadable \in Record /\ EmptyPair \in Pair /\ Root \in Unit
  BY RecordTypes, DefaultAssumption DEF Unit
<1>2. Unheard \in View
  BY DEF Unheard, View, Fc
<1>3. CASE ObserveReady \/ RecheckSafe \/ EndCommitWait
  BY <1>3 DEF ObserveReady, RecheckSafe, EndCommitWait, RootMoves, TypeOK, Phase,
              air, disk, history
<1>4. CASE SendCommit
  <2>1. msgs' \subseteq Message
    BY <1>4, SendType DEF SendCommit, Request, TypeOK
  <2> QED
    BY <1>4, <2>1 DEF SendCommit, RootMoves, TypeOK, Phase, air, disk
<1>5. CASE AbortUpdate
  <2>1. msgs' \subseteq Message
    BY <1>5, SendType DEF AbortUpdate, Request, TypeOK
  <2> QED
    BY <1>1, <1>5, <2>1 DEF AbortUpdate, RootMoves, TypeOK, Phase, air, history
<1>6. CASE ActivateRoot
  BY <1>1, <1>6, UnitTypes
  DEF ActivateRoot, CommitStaged, RootMoves, TypeOK, Phase, air, history
<1>7. CASE RestartRoot
  BY <1>1, <1>2, <1>7, UnitTypes DEF RestartRoot, BootRoot, TypeOK, Phase, air, history
<1> QED
  BY <1>3, <1>4, <1>5, <1>6, <1>7 DEF RootStep

\* What the root hears.
LEMMA RootHearsType ==
    ASSUME TypeOK,
           \/ \E m \in msgs : OnResponse(m)
           \/ \E n \in Node : Presence(n)
    PROVE  TypeOK'
<1>1. CASE \E m \in msgs : OnResponse(m)
  <2>1. PICK m \in msgs : OnResponse(m)
    BY <1>1
  <2>2. m.node \in Node
    BY MessageTypes
  <2>3. prepared' \subseteq Node /\ committed' \subseteq Node /\ failed' \subseteq Node
    BY <2>1, <2>2 DEF OnResponse, TypeOK
  <2>4. msgs' \subseteq Message
    BY <2>1 DEF OnResponse, Ignore, TypeOK
  <2> QED
    BY <2>1, <2>3, <2>4 DEF OnResponse, TypeOK, air, disk, history
<1>2. CASE \E n \in Node : Presence(n)
  <2>1. PICK n \in Node : Presence(n)
    BY <1>2
  <2>2. [online |-> TRUE, fc |-> fc[n], generation |-> store[n].generation] \in View
    BY UnitTypes DEF TypeOK, View, Unit
  <2> QED
    BY <2>1, <2>2 DEF Presence, TypeOK, disk, history
<1> QED
  BY <1>1, <1>2

\* What the air nodes hear.
LEMMA AirType ==
    ASSUME TypeOK, NEW m \in msgs, OnPrepare(m) \/ OnAbort(m) \/ OnCommit(m)
    PROVE  TypeOK'
<1> DEFINE n == m.node
<1>1. n \in Node /\ n \in Unit /\ m.record \in Record
      /\ m.record.value \in Value /\ m.record.generation \in Nat
  BY MessageTypes
<1>2. Unreadable \in Record /\ EmptyPair \in Pair
  BY RecordTypes, DefaultAssumption
<1>3. msgs' \subseteq Message
  <2>1. msgs \ {m} \subseteq Message
    BY DEF TypeOK
  <2> QED
    BY <2>1, ReplyType DEF OnPrepare, OnAbort, OnCommit, Ignore, Response
<1>4. CASE OnPrepare(m)
  <2>1. Written(pending[n], m.record.value, m.record.generation) \in Pair
    BY <1>1, WrittenType, UnitTypes
  <2>2. pending' \in [Unit -> Pair] /\ requested' \in [Node -> Record] /\ staged' \subseteq Node
    BY <1>1, <1>4, <2>1 DEF OnPrepare, TypeOK
  <2> QED
    BY <1>3, <1>4, <2>2 DEF OnPrepare, TypeOK, root
<1>5. CASE OnAbort(m)
  BY <1>1, <1>2, <1>3, <1>5 DEF OnAbort, TypeOK, root, history
<1>6. CASE OnCommit(m)
  <2>1. Newest(pending[n]) \in Record
    BY <1>1, UnitTypes
  <2>2. store' \in [Unit -> Record] /\ pending' \in [Unit -> Pair]
        /\ running' = running /\ restarting' \subseteq Node
    BY <1>1, <1>2, <1>6, <2>1 DEF OnCommit, CommitStaged, TypeOK, disk
  <2> QED
    BY <1>3, <1>6, <2>2 DEF OnCommit, TypeOK, root, history
<1> QED
  BY <1>4, <1>5, <1>6

\* A disturbance takes one off what the plan has left.
LEMMA FaultType ==
    ASSUME TypeOK, NEW kind \in Kind, Fault(kind)
    PROVE  faults' \in [kinds : SUBSET Kind, left : Nat]
<1>1. faults.left \in Nat /\ faults.left - 1 \in Nat /\ faults.kinds \subseteq Kind
  BY DEF TypeOK, Fault
<1> QED
  BY <1>1 DEF TypeOK, Fault

\* Restarts, the flight controller, the radio and the operator's other doings.
LEMMA OthersType ==
    ASSUME TypeOK, NEW n \in Node,
           \/ HearDisarmed(n) \/ DelayedRestart(n) \/ FcUnsafe(n) \/ Disconnect(n)
           \/ NodeLost(n) \/ PowerLossNode(n) \/ RemoveNode(n)
           \/ \E c \in Value : LocalSave(n, c)
    PROVE  TypeOK'
<1>1. n \in Unit /\ Unreadable \in Record /\ fc \in [Node -> Fc]
  BY RecordTypes, DefaultAssumption DEF Unit, TypeOK
<1>2. Fault("fc") \/ Fault("radio") \/ Fault("power") \/ Fault("save") \/ Fault("removal")
      => faults' \in [kinds : SUBSET Kind, left : Nat]
  BY FaultType DEF Kind
<1>3. CASE HearDisarmed(n)
  BY <1>1, <1>3 DEF HearDisarmed, TypeOK, Fc, root, disk, history
<1>4. CASE DelayedRestart(n) \/ PowerLossNode(n)
  <2>1. BootNode(n) /\ faults' \in [kinds : SUBSET Kind, left : Nat]
    BY <1>2, <1>4 DEF DelayedRestart, PowerLossNode, TypeOK
  <2>2. running' \in [Unit -> Value]
    BY <1>1, <2>1, UnitTypes DEF BootNode, TypeOK
  <2>3. fc' \in [Node -> Fc]
    BY <1>1, <2>1 DEF BootNode, Fc
  <2> QED
    BY <1>1, <2>1, <2>2, <2>3 DEF BootNode, TypeOK, root, history
<1>5. CASE FcUnsafe(n)
  <2>1. fc' \in [Node -> Fc]
    BY <1>1, <1>5 DEF FcUnsafe, Fc
  <2> QED
    BY <1>2, <1>5, <2>1 DEF FcUnsafe, TypeOK, root, disk, history
<1>6. CASE Disconnect(n)
  BY <1>2, <1>6 DEF Disconnect, TypeOK, root, disk, history
<1>7. CASE NodeLost(n)
  <2>1. /\ view \in [Node -> View]
        /\ view' = [view EXCEPT ![n] = [@ EXCEPT !.online = FALSE, !.fc = "unknown"]]
    BY <1>7 DEF NodeLost, TypeOK
  <2>2. [view[n] EXCEPT !.online = FALSE, !.fc = "unknown"] \in View
    BY <2>1 DEF View, Fc
  <2>3. view' \in [Node -> View]
    BY <2>1, <2>2
  <2> QED
    BY <1>2, <1>7, <2>3 DEF NodeLost, TypeOK, air, disk, history
<1>8. CASE RemoveNode(n)
  BY <1>2, <1>8 DEF RemoveNode, TypeOK, air, disk, history
<1>9. CASE \E c \in Value : LocalSave(n, c)
  <2>1. PICK c \in Value : LocalSave(n, c)
    BY <1>9
  <2>2. Stored(c, store[n].generation + 1) \in Record
    <3>1. store[n].generation + 1 \in Nat
      BY <1>1, UnitTypes
    <3> QED
      BY <3>1, RecordTypes
  <2> QED
    BY <1>2, <2>1, <2>2 DEF LocalSave, TypeOK, root, air, history
<1> QED
  BY <1>3, <1>4, <1>5, <1>6, <1>7, <1>8, <1>9

\* The root goes down: its power is lost or its watchdog fires.
RootFalls == PowerLossRoot \/ WatchdogReset

LEMMA RootFallsType ==
    ASSUME TypeOK, RootFalls
    PROVE  TypeOK'
<1>1. Unreadable \in Record /\ Root \in Unit /\ Unheard \in View
  BY RecordTypes, DefaultAssumption DEF Unit, Unheard, View, Fc
<1>2. BootRoot /\ faults' \in [kinds : SUBSET Kind, left : Nat]
  BY FaultType DEF RootFalls, PowerLossRoot, WatchdogReset, Kind
<1> QED
  BY <1>1, <1>2, UnitTypes DEF BootRoot, TypeOK, Phase, air, history

LEMMA NextTypeOK == TypeOK /\ [Next]_vars => TypeOK'
<1> SUFFICES ASSUME TypeOK, [Next]_vars PROVE TypeOK'
  OBVIOUS
<1>1. CASE Next
  BY <1>1, BeginUpdateType, RootStepType, RootHearsType, AirType, OthersType,
     RootFallsType DEF Next, RootFalls
<1>2. CASE UNCHANGED vars
  BY <1>2 DEF vars, root, air, disk, history, TypeOK
<1> QED
  BY <1>1, <1>2

\* Every variable of the update keeps its type: phases, answers, staged pairs and
\* messages, for every fleet and every bound.
THEOREM FleetTypeCorrect == Spec => []TypeOK
BY InitTypeOK, NextTypeOK, PTL DEF Spec

-----------------------------------------------------------------------------
(* COMMIT follows PREPARE. *)

\* Every message is about a record an update stages ...
MessagesSubmitted == \A m \in msgs : m.record.valid /\ m.record.value \in submitted

TransactionSubmitted == phase # "idle" => txn.valid /\ txn.value \in submitted

\* ... and an answer that matches the running transaction belongs to it.
AnswersAreCurrent ==
    \A m \in msgs : m.kind = "prepared" /\ m.record = txn => m.node \in staged

PreparedIsStaged == prepared \subseteq staged

AllPrepared ==
    phase \in {"ready", "decided", "committing"} => approved \subseteq prepared

PrepareInv ==
    /\ MessagesSubmitted /\ TransactionSubmitted /\ AnswersAreCurrent
    /\ PreparedIsStaged /\ AllPrepared

\* The fields of the messages one call sends.
LEMMA SentFields ==
    ASSUME NEW kind, NEW targets, NEW record, NEW network,
           NEW m \in Sent(kind, targets, record, network)
    PROVE  m.kind = kind /\ m.node \in targets /\ m.record = record
BY DEF Sent

LEMMA InitPrepareInv == Init => PrepareInv
BY DEF Init, PrepareInv, MessagesSubmitted, TransactionSubmitted, AnswersAreCurrent,
       PreparedIsStaged, AllPrepared

\* A new update: no message in flight carries its configuration yet.
LEMMA BeginUpdatePrepare ==
    ASSUME PrepareInv, ~Retry, NEW c \in Value, BeginUpdate(c)
    PROVE  PrepareInv'
<1> USE DEF PrepareInv
<1>1. /\ c \notin submitted /\ submitted' = submitted \cup {c}
      /\ txn'.valid /\ txn'.value = c
      /\ prepared' = {} /\ staged' = {} /\ phase' = "preparing"
  BY DEF BeginUpdate, Stored
<1>2. \A m \in msgs' : m \in msgs \/ (m.kind = "prepare" /\ m.record = txn')
  BY SentFields DEF BeginUpdate, SendToReachable
<1>3. MessagesSubmitted'
  BY <1>1, <1>2 DEF MessagesSubmitted
<1>4. AnswersAreCurrent'
  BY <1>1, <1>2 DEF AnswersAreCurrent, MessagesSubmitted
<1> QED
  BY <1>1, <1>3, <1>4 DEF TransactionSubmitted, PreparedIsStaged, AllPrepared

\* Later steps of the root send nothing but requests about its transaction.
LEMMA RootStepPrepare ==
    ASSUME PrepareInv, RootStep
    PROVE  PrepareInv'
<1> USE DEF PrepareInv
<1>1. CASE ObserveReady \/ RecheckSafe \/ EndCommitWait \/ ActivateRoot
  <2>1. /\ UNCHANGED <<txn, prepared, approved, msgs, history>>
        /\ phase # "idle" /\ phase' # "idle"
    BY <1>1 DEF ObserveReady, RecheckSafe, EndCommitWait, ActivateRoot, RootMoves
  <2>2. phase' \in {"ready", "decided", "committing"} => approved \subseteq prepared
    BY <1>1 DEF ObserveReady, NodesReady, RecheckSafe, EndCommitWait, ActivateRoot,
                RootMoves, AllPrepared
  <2> QED
    BY <2>1, <2>2 DEF history, MessagesSubmitted, TransactionSubmitted,
                      AnswersAreCurrent, PreparedIsStaged, AllPrepared
<1>2. CASE SendCommit \/ AbortUpdate
  <2>1. /\ UNCHANGED <<txn, prepared, approved, staged, submitted>>
        /\ phase \in {"preparing", "ready", "decided"} /\ phase' \in {"idle", "committing"}
        /\ phase' = "committing" => phase = "decided"
    BY <1>2 DEF SendCommit, AbortUpdate, RootMoves, history
  <2>2. \A m \in msgs' : m \in msgs \/ (m.kind \in {"commit", "abort"} /\ m.record = txn)
    BY <1>2, SentFields DEF SendCommit, AbortUpdate, SendToReachable
  <2>3. MessagesSubmitted' /\ AnswersAreCurrent'
    BY <2>1, <2>2 DEF MessagesSubmitted, AnswersAreCurrent, TransactionSubmitted
  <2> QED
    BY <2>1, <2>3 DEF TransactionSubmitted, PreparedIsStaged, AllPrepared
<1>3. CASE RestartRoot
  BY <1>3 DEF RestartRoot, BootRoot, history, Unreadable, MessagesSubmitted,
              TransactionSubmitted, AnswersAreCurrent, PreparedIsStaged, AllPrepared
<1> QED
  BY <1>1, <1>2, <1>3 DEF RootStep

LEMMA OnResponsePrepare ==
    ASSUME PrepareInv, NEW m \in msgs, OnResponse(m)
    PROVE  PrepareInv'
<1> USE DEF PrepareInv
<1>1. /\ UNCHANGED <<phase, txn, approved, staged, submitted>>
      /\ msgs' \subseteq msgs
      /\ prepared \subseteq prepared'
  BY DEF OnResponse, Ignore, history
<1>2. PreparedIsStaged'
  BY <1>1 DEF OnResponse, PreparedIsStaged, AnswersAreCurrent
<1> QED
  BY <1>1, <1>2 DEF MessagesSubmitted, TransactionSubmitted, AnswersAreCurrent, AllPrepared

\* An answer of an air node repeats the record it was asked about; "prepared"
\* about the running transaction is noted in staged.
LEMMA AirPrepare ==
    ASSUME PrepareInv, NEW m \in msgs, OnPrepare(m) \/ OnAbort(m) \/ OnCommit(m)
    PROVE  PrepareInv'
<1> USE DEF PrepareInv
<1>1. UNCHANGED <<root, submitted>>
  BY DEF OnPrepare, OnAbort, OnCommit, history
<1>2. /\ staged \subseteq staged'
      /\ \A a \in msgs' :
             a \in msgs \/ (/\ a.record = m.record
                            /\ a.kind = "prepared" /\ a.record = txn => a.node \in staged')
  <2>1. CASE OnPrepare(m)
    <3>1. CASE Reply(m, "prepared") /\ staged' = IF m.record = txn THEN staged \cup {m.node} ELSE staged
      BY <3>1, SentFields DEF Reply
    <3>2. CASE (Reply(m, "refused") \/ Ignore(m)) /\ UNCHANGED staged
      BY <3>2, SentFields DEF Reply, Ignore
    <3> QED
      BY <2>1, <3>1, <3>2 DEF OnPrepare
  <2>2. CASE OnAbort(m)
    BY <2>2 DEF OnAbort, Ignore, history
  <2>3. CASE OnCommit(m)
    BY <2>3, SentFields DEF OnCommit, Reply, history
  <2> QED
    BY <2>1, <2>2, <2>3
<1>3. MessagesSubmitted' /\ AnswersAreCurrent'
  BY <1>1, <1>2 DEF root, MessagesSubmitted, AnswersAreCurrent
<1> QED
  BY <1>1, <1>2, <1>3 DEF root, TransactionSubmitted, PreparedIsStaged, AllPrepared

\* Nothing else touches the transaction while it runs.
LEMMA OthersPrepare ==
    ASSUME PrepareInv, NEW n \in Node,
           \/ Presence(n) \/ HearDisarmed(n) \/ DelayedRestart(n) \/ FcUnsafe(n)
           \/ Disconnect(n) \/ NodeLost(n) \/ PowerLossNode(n) \/ RemoveNode(n)
           \/ \E c \in Value : LocalSave(n, c)
    PROVE  PrepareInv'
<1>1. UNCHANGED <<phase, txn, prepared, staged, submitted, msgs>>
  BY DEF Presence, HearDisarmed, DelayedRestart, FcUnsafe, Disconnect, NodeLost,
         PowerLossNode, BootNode, RemoveNode, LocalSave, root, history
<1>2. approved' = approved \/ phase = "idle"
  BY DEF Presence, HearDisarmed, DelayedRestart, FcUnsafe, Disconnect, NodeLost,
         PowerLossNode, BootNode, RemoveNode, LocalSave, root
<1> QED
  BY <1>1, <1>2 DEF PrepareInv, MessagesSubmitted, TransactionSubmitted,
                    AnswersAreCurrent, PreparedIsStaged, AllPrepared

LEMMA NextPrepareInv == ~Retry /\ PrepareInv /\ [Next]_vars => PrepareInv'
<1> SUFFICES ASSUME ~Retry, PrepareInv, [Next]_vars PROVE PrepareInv'
  OBVIOUS
<1>1. CASE RootFalls
  BY <1>1 DEF RootFalls, PowerLossRoot, WatchdogReset, BootRoot, history, Unreadable, PrepareInv, MessagesSubmitted,
              TransactionSubmitted, AnswersAreCurrent, PreparedIsStaged, AllPrepared
<1>2. CASE UNCHANGED vars
  BY <1>2 DEF vars, root, history, PrepareInv, MessagesSubmitted,
              TransactionSubmitted, AnswersAreCurrent, PreparedIsStaged, AllPrepared
<1>3. CASE Next /\ ~RootFalls
  BY <1>3, BeginUpdatePrepare, RootStepPrepare, OnResponsePrepare, AirPrepare,
     OthersPrepare DEF Next, RootFalls
<1> QED
  BY <1>1, <1>2, <1>3

\* COMMIT goes out only after every approved node has accepted this very update,
\* whatever is lost, late or restarted, when no configuration is submitted twice.
\* (The answers to a submission that is repeated unchanged match both.)
THEOREM CommitAfterPrepare == ~Retry => (Spec => []CommitFollowsPrepare)
<1> SUFFICES ASSUME ~Retry PROVE Spec => []CommitFollowsPrepare
  OBVIOUS
<1>1. PrepareInv /\ [Next]_vars => PrepareInv'
  BY NextPrepareInv
<1>2. PrepareInv => CommitFollowsPrepare
  BY DEF PrepareInv, PreparedIsStaged, AllPrepared, CommitFollowsPrepare
<1> QED
  BY InitPrepareInv, <1>1, <1>2, PTL DEF Spec

-----------------------------------------------------------------------------
(* An acknowledged COMMIT is durable. *)

\* The node stores the record, or one saved or committed over it since.
Holds(n, record) ==
    store[n] = record \/ store[n].generation > record.generation

MessagesValid == \A m \in msgs : m.record.valid
TransactionValid == phase # "idle" => txn.valid

\* What a remembered request says about the staged pair.
StagedPairs ==
    \A n \in Node :
        /\ WellFormed(pending[n])
        /\ requested[n].valid =>
              \/ pending[n] = EmptyPair
              \/ pending[n][SlotOf(requested[n].generation)] = requested[n]

AcknowledgementsHold ==
    \A m \in msgs : m.kind = "committed" => Holds(m.node, m.record)

CommittedHold == \A n \in committed : Holds(n, txn)

AckInv ==
    /\ TypeOK
    /\ MessagesValid /\ TransactionValid /\ StagedPairs
    /\ AcknowledgementsHold /\ CommittedHold

\* Stored generations only grow, so what a node holds it goes on holding.
LEMMA StoresAdvance ==
    ASSUME TypeOK, NEW n \in Node, NEW record \in Record, Holds(n, record),
           \/ store'[n] = store[n]
           \/ store'[n] \in Record /\ store'[n].generation > store[n].generation
    PROVE  Holds(n, record)'
<1>1. store[n].generation \in Nat /\ record.generation \in Nat
  BY UnitTypes DEF Unit, Record
<1>2. CASE store'[n] = store[n]
  BY <1>2 DEF Holds
<1>3. CASE store'[n] \in Record /\ store'[n].generation > store[n].generation
  BY <1>1, <1>3 DEF Holds, Record
<1> QED
  BY <1>2, <1>3

LEMMA EmptyIsWellFormed == WellFormed(EmptyPair)
BY DEF WellFormed, EmptyPair, Unreadable

LEMMA InitAckInv == Init => AckInv
<1> SUFFICES ASSUME Init PROVE AckInv
  OBVIOUS
<1>1. StagedPairs
  BY EmptyIsWellFormed DEF Init, StagedPairs, Unit, Unreadable
<1> QED
  BY <1>1, InitTypeOK DEF Init, AckInv, MessagesValid, TransactionValid,
                          AcknowledgementsHold, CommittedHold

\* The root's own steps leave the air nodes' storage alone and send no answer.
LEMMA RootAck ==
    ASSUME AckInv, RootStep \/ RootFalls \/ \E c \in Value : BeginUpdate(c)
    PROVE  /\ MessagesValid' /\ TransactionValid' /\ StagedPairs'
           /\ AcknowledgementsHold' /\ CommittedHold'
<1> USE DEF AckInv
<1>1. UNCHANGED requested
      /\ \A n \in Node : store'[n] = store[n] /\ pending'[n] = pending[n]
  <2>1. \A n \in Node : n # Root /\ n \in Unit
    BY NodeAssumption DEF Unit
  <2> QED
    BY <2>1 DEF RootStep, ObserveReady, RecheckSafe, SendCommit, AbortUpdate, EndCommitWait,
                ActivateRoot, CommitStaged, RestartRoot, RootFalls, PowerLossRoot, WatchdogReset,
                BootRoot, BeginUpdate,
                RootMoves, TypeOK, air, disk
<1>2. StagedPairs'
  BY <1>1 DEF StagedPairs
<1>3. \A m \in msgs' : m \in msgs \/ (m.kind \in Request /\ m.record = txn' /\ txn'.valid)
  <2>1. CASE RootStep \/ RootFalls
    <3>1. CASE SendCommit \/ AbortUpdate
      <4>1. txn' = txn /\ phase # "idle"
        BY <3>1 DEF SendCommit, AbortUpdate, RootMoves
      <4>2. \A m \in msgs' : m \in msgs \/ (m.kind \in Request /\ m.record = txn)
        BY <3>1, SentFields DEF SendCommit, AbortUpdate, SendToReachable, Request
      <4> QED
        BY <4>1, <4>2 DEF TransactionValid
    <3>2. CASE ~(SendCommit \/ AbortUpdate)
      BY <2>1, <3>2 DEF RootStep, ObserveReady, RecheckSafe, EndCommitWait, ActivateRoot,
                        RestartRoot, RootFalls, PowerLossRoot, WatchdogReset,
                BootRoot
    <3> QED
      BY <3>1, <3>2
  <2>2. CASE \E c \in Value : BeginUpdate(c)
    <3>1. PICK c \in Value : BeginUpdate(c)
      BY <2>2
    <3>2. txn'.valid
      BY <3>1 DEF BeginUpdate, Stored
    <3>3. msgs' = msgs \cup Sent("prepare", Reachable, txn', running[Root])
      BY <3>1 DEF BeginUpdate, SendToReachable
    <3> QED
      BY <3>2, <3>3, SentFields DEF Request
  <2> QED
    BY <2>1, <2>2
<1>4. MessagesValid'
  BY <1>3 DEF MessagesValid
<1>5. AcknowledgementsHold'
  <2>1. \A m \in msgs : m.node \in Node
    BY MessageTypes
  <2> QED
    BY <1>1, <1>3, <2>1 DEF AcknowledgementsHold, Holds, Request
<1>6. TransactionValid' /\ CommittedHold'
  <2>1. \/ txn' = txn /\ committed' = committed /\ phase # "idle"
        \/ committed' = {} /\ (phase' = "idle" \/ txn'.valid)
    BY DEF RootStep, ObserveReady, RecheckSafe, SendCommit, AbortUpdate, EndCommitWait,
           ActivateRoot, RestartRoot, RootFalls, PowerLossRoot, WatchdogReset,
                BootRoot, BeginUpdate, RootMoves, Stored
  <2>2. committed \subseteq Node
    BY DEF TypeOK
  <2> QED
    BY <1>1, <2>1, <2>2 DEF TransactionValid, CommittedHold, Holds
<1> QED
  BY <1>2, <1>4, <1>5, <1>6

\* An answer counts only for the record it names.
LEMMA OnResponseAck ==
    ASSUME AckInv, NEW m \in msgs, OnResponse(m)
    PROVE  /\ MessagesValid' /\ TransactionValid' /\ StagedPairs'
           /\ AcknowledgementsHold' /\ CommittedHold'
<1> USE DEF AckInv
<1>1. UNCHANGED <<phase, txn, requested, store, pending>> /\ msgs' \subseteq msgs
  BY DEF OnResponse, Ignore, air, disk
<1>2. CommittedHold'
  BY <1>1 DEF OnResponse, CommittedHold, AcknowledgementsHold, Holds
<1> QED
  BY <1>1, <1>2 DEF MessagesValid, TransactionValid, StagedPairs, AcknowledgementsHold, Holds

LEMMA OnPrepareAck ==
    ASSUME AckInv, NEW m \in msgs, OnPrepare(m)
    PROVE  /\ MessagesValid' /\ TransactionValid' /\ StagedPairs'
           /\ AcknowledgementsHold' /\ CommittedHold'
<1> USE DEF AckInv
<1> DEFINE n == m.node
           g == m.record.generation
<1>1. /\ n \in Node /\ n \in Unit /\ m.record \in Record /\ m.record.valid
      /\ m.record.value \in Value /\ g \in Nat
  BY MessageTypes DEF MessagesValid
<1>2. UNCHANGED <<phase, txn, committed, store>>
  BY DEF OnPrepare, root
<1>3. \A a \in msgs' : a \in msgs \/ (a.kind # "committed" /\ a.record = m.record)
  BY SentFields DEF OnPrepare, Reply, Ignore
<1>4. StagedPairs'
  <2>1. CASE UNCHANGED <<pending, requested>>
    BY <2>1 DEF StagedPairs
  <2>2. CASE /\ g > store[n].generation
             /\ pending' = [pending EXCEPT ![n] = Written(@, m.record.value, g)]
             /\ requested' = [requested EXCEPT ![n] = m.record]
    <3>1. m.record = Stored(m.record.value, g)
      BY <1>1 DEF Record, Stored
    <3>2. g > 0
      BY <1>1, <2>2, UnitTypes
    <3>3. SlotOf(g) \in Slot /\ pending[n] \in Pair /\ WellFormed(pending[n])
      BY <1>1, SlotAlternates, UnitTypes DEF StagedPairs
    <3>4. pending'[n] = [pending[n] EXCEPT ![SlotOf(g)] = m.record]
      BY <1>1, <2>2, <3>1 DEF Written, TypeOK
    <3>5. WellFormed(pending'[n]) /\ pending'[n][SlotOf(g)] = m.record
      BY <1>1, <3>2, <3>3, <3>4 DEF WellFormed, Pair
    <3>6. requested'[n] = m.record
      BY <1>1, <2>2 DEF TypeOK
    <3>7. \A k \in Node \ {n} : pending'[k] = pending[k] /\ requested'[k] = requested[k]
      BY <2>2 DEF TypeOK, Unit
    <3> QED
      BY <1>1, <3>5, <3>6, <3>7 DEF StagedPairs
  <2> QED
    BY <2>1, <2>2 DEF OnPrepare
<1> QED
  BY <1>1, <1>2, <1>3, <1>4 DEF MessagesValid, TransactionValid, AcknowledgementsHold,
                                CommittedHold, Holds

\* A COMMIT that matches the request activates the requested record or a newer one.
LEMMA OnCommitAck ==
    ASSUME AckInv, NEW m \in msgs, OnCommit(m)
    PROVE  /\ MessagesValid' /\ TransactionValid' /\ StagedPairs'
           /\ AcknowledgementsHold' /\ CommittedHold'
<1> USE DEF AckInv
<1> DEFINE n == m.node
<1>1. /\ n \in Node /\ n \in Unit /\ m.record \in Record /\ m.record.valid
      /\ m.record.generation \in Nat
  BY MessageTypes DEF MessagesValid
<1>2. UNCHANGED <<phase, txn, committed, requested>>
  BY DEF OnCommit, root
<1>3. CASE m.record = requested[n] /\ Committable(n)
  <2>1. /\ store' = [store EXCEPT ![n] = Newest(pending[n])]
        /\ pending' = [pending EXCEPT ![n] = EmptyPair]
        /\ Reply(m, "committed")
    BY <1>3 DEF OnCommit, CommitStaged
  <2>2. /\ pending[n] \in Pair /\ WellFormed(pending[n])
        /\ SlotOf(m.record.generation) \in Slot
        /\ Newest(pending[n]) \in Record
    BY <1>1, SlotAlternates, UnitTypes DEF StagedPairs
  <2>3. pending[n] # EmptyPair
    BY <1>3 DEF Committable, Newest, EmptyPair, Unreadable, Slot
  <2>4. pending[n][SlotOf(m.record.generation)] = m.record
    BY <1>1, <1>3, <2>3 DEF StagedPairs
  <2>5. Newest(pending[n]) = m.record \/ Newest(pending[n]).generation > m.record.generation
    BY <1>1, <2>2, <2>4, NewestIsHighest DEF Record
  <2>6. store'[n] = Newest(pending[n]) /\ store'[n].generation > store[n].generation
    BY <1>1, <1>3, <2>1 DEF Committable, TypeOK
  <2>7. \A k \in Node \ {n} : store'[k] = store[k] /\ pending'[k] = pending[k]
    BY <2>1 DEF TypeOK, Unit
  <2>8. \A k \in Node, r \in Record : Holds(k, r) => Holds(k, r)'
    BY <2>2, <2>6, <2>7, StoresAdvance
  <2>9. Holds(n, m.record)'
    BY <2>5, <2>6 DEF Holds
  <2>10. \A a \in msgs' : a \in msgs \/ (a.node = n /\ a.record = m.record)
    BY <2>1, SentFields DEF Reply
  <2>11. AcknowledgementsHold'
    BY <2>8, <2>9, <2>10, MessageTypes DEF AcknowledgementsHold
  <2>12. CommittedHold'
    BY <1>2, <2>8 DEF CommittedHold, TypeOK
  <2>13. StagedPairs'
    BY <1>1, <1>2, <2>1, <2>7, EmptyIsWellFormed DEF StagedPairs, TypeOK
  <2> QED
    BY <1>1, <1>2, <2>10, <2>11, <2>12, <2>13 DEF MessagesValid, TransactionValid
<1>4. CASE ~(m.record = requested[n] /\ Committable(n))
  <2>1. UNCHANGED <<store, pending>> /\ Reply(m, "commit_failed")
    BY <1>4 DEF OnCommit, disk
  <2>2. \A a \in msgs' : a \in msgs \/ (a.kind # "committed" /\ a.record = m.record)
    BY <2>1, SentFields DEF Reply
  <2> QED
    BY <1>1, <1>2, <2>1, <2>2 DEF MessagesValid, TransactionValid, StagedPairs,
                                  AcknowledgementsHold, CommittedHold, Holds
<1> QED
  BY <1>3, <1>4

\* Whatever else happens at an air node leaves its staged pair or its request
\* behind, and its storage only moves on.
LEMMA NodeAck ==
    ASSUME AckInv, NEW n \in Node,
           \/ HearDisarmed(n) \/ DelayedRestart(n) \/ FcUnsafe(n) \/ Disconnect(n)
           \/ PowerLossNode(n) \/ (\E m \in msgs : m.node = n /\ OnAbort(m))
           \/ \E c \in Value : LocalSave(n, c)
    PROVE  /\ MessagesValid' /\ TransactionValid' /\ StagedPairs'
           /\ AcknowledgementsHold' /\ CommittedHold'
<1> USE DEF AckInv
<1>1. UNCHANGED <<phase, txn, committed>> /\ msgs' \subseteq msgs
  BY DEF HearDisarmed, DelayedRestart, FcUnsafe, Disconnect, PowerLossNode, BootNode,
         OnAbort, Ignore, LocalSave, root
<1>2. \A k \in Node :
        \/ pending'[k] = pending[k] /\ requested'[k] = requested[k]
        \/ pending'[k] = pending[k] /\ requested'[k] = Unreadable
        \/ pending'[k] = EmptyPair  /\ requested'[k] = Unreadable
  BY DEF HearDisarmed, DelayedRestart, FcUnsafe, Disconnect, PowerLossNode, BootNode,
         OnAbort, LocalSave, air, disk, TypeOK, Unit
<1>3. StagedPairs'
  BY <1>2, EmptyIsWellFormed DEF StagedPairs, Unreadable
<1>4. \A k \in Node, r \in Record : Holds(k, r) => Holds(k, r)'
  <2>1. CASE UNCHANGED store
    BY <2>1 DEF Holds
  <2>2. CASE \E c \in Value : LocalSave(n, c)
    <3>1. PICK c \in Value : LocalSave(n, c)
      BY <2>2
    <3>2. store[n].generation + 1 \in Nat /\ store[n].generation + 1 > store[n].generation
      BY UnitTypes DEF Unit
    <3>3. /\ store'[n] = Stored(c, store[n].generation + 1)
          /\ \A k \in Node \ {n} : store'[k] = store[k]
      BY <3>1 DEF LocalSave, TypeOK, Unit
    <3>4. store'[n] \in Record /\ store'[n].generation > store[n].generation
      BY <3>2, <3>3, RecordTypes DEF Stored
    <3> QED
      BY <3>3, <3>4, StoresAdvance
  <2> QED
    BY <2>1, <2>2 DEF HearDisarmed, DelayedRestart, FcUnsafe, Disconnect, PowerLossNode,
                      BootNode, OnAbort, disk
<1>5. AcknowledgementsHold'
  BY <1>1, <1>4, MessageTypes DEF AcknowledgementsHold
<1>6. CommittedHold'
  BY <1>1, <1>4 DEF CommittedHold, TypeOK
<1> QED
  BY <1>1, <1>3, <1>5, <1>6 DEF MessagesValid, TransactionValid

\* What the root knows or the operator removes concerns nothing of this.
LEMMA RootViewAck ==
    ASSUME AckInv, NEW n \in Node, Presence(n) \/ NodeLost(n) \/ RemoveNode(n)
    PROVE  /\ MessagesValid' /\ TransactionValid' /\ StagedPairs'
           /\ AcknowledgementsHold' /\ CommittedHold'
<1>1. UNCHANGED <<phase, txn, committed, requested, store, pending, msgs>>
  BY DEF Presence, NodeLost, RemoveNode, air, disk
<1> QED
  BY <1>1 DEF AckInv, MessagesValid, TransactionValid, StagedPairs, AcknowledgementsHold,
              CommittedHold, Holds

LEMMA NextAckInv == AckInv /\ [Next]_vars => AckInv'
<1> SUFFICES ASSUME AckInv, [Next]_vars PROVE AckInv'
  OBVIOUS
<1>1. TypeOK'
  BY NextTypeOK DEF AckInv
<1>2. CASE Next
  <2>1. \A m \in msgs : m.node \in Node
    BY MessageTypes DEF AckInv
  <2> QED
    BY <1>1, <1>2, <2>1, RootAck, OnResponseAck, OnPrepareAck, OnCommitAck, NodeAck,
       RootViewAck DEF Next, RootFalls, AckInv
<1>3. CASE UNCHANGED vars
  BY <1>1, <1>3 DEF vars, root, air, disk, AckInv, MessagesValid, TransactionValid,
                    StagedPairs, AcknowledgementsHold, CommittedHold, Holds
<1> QED
  BY <1>2, <1>3

\* An acknowledgement the root counts means that the node's stored configuration
\* is the committed one or a newer one: no restart, late message or local save in
\* any order undoes a COMMIT that was acknowledged.
THEOREM AcknowledgedIsDurable == Spec => []AcknowledgedIsStored
<1>1. AckInv => AcknowledgedIsStored
  BY DEF AckInv, CommittedHold, Holds, AcknowledgedIsStored
<1> QED
  BY InitAckInv, NextAckInv, <1>1, PTL DEF Spec

-----------------------------------------------------------------------------
(* Only decided records are activated. *)

\* Updates are decided about a list of nodes that nobody is taken from before the last
\* one: otherwise generations may go down, and a record that an aborted update left at a
\* node whose ABORT was lost may be above the one that COMMIT names.
RemovalComesLast ==
    \A plan \in Plans : "removal" \in plan.faults.kinds => plan.updates <= 1

\* The generations a node may still activate: of staged records and of PREPAREs.
InPlay ==
    {g \in Nat :
        \/ \E n \in Node, s \in Slot : pending[n][s].valid /\ pending[n][s].generation = g
        \/ \E m \in msgs : m.kind = "prepare" /\ m.record.generation = g}

\* The root will know of such a generation when it begins another update.
Known(g) ==
    \/ g <= store[Root].generation + 1
    \/ \E k \in approved : /\ g <= store[k].generation + 1
                           /\ view[k].online => g <= view[k].generation + 1

ViewsLag == \A n \in Node : view[n].generation <= store[n].generation
KnownInPlay == updates > 0 => \A g \in InPlay : Known(g)
RemovalIsLast == "removal" \in faults.kinds /\ updates > 0 => updates <= 1 /\ InPlay = {}
RunningIsHighest == phase # "idle" => \A g \in InPlay : g <= txn.generation

CommitsDecided == \A m \in msgs : m.kind = "commit" => m.record \in decided
DecidedSubmitted == \A r \in decided : r.valid /\ r.value \in submitted
RequestsSubmitted == \A n \in Node : requested[n].valid => requested[n].value \in submitted

\* A PREPARE in flight is of an update that is not decided; of the running one there is
\* one for each node that has not accepted it.
PreparesUndecided == \A m \in msgs : m.kind = "prepare" => m.record \notin decided
PreparesUnanswered ==
    phase # "idle" =>
        \A m \in msgs : m.kind = "prepare" /\ m.record = txn
                        => m.node \in approved \ staged /\ m.network = running[Root]

\* The staged pair of a node that remembers a request COMMIT may name would activate
\* this very record.
Live(r) == r \in decided \/ (phase # "idle" /\ r = txn)
NewestRequested ==
    \A n \in Node : Live(requested[n]) => pending[n] = EmptyPair \/ Newest(pending[n]) = requested[n]

DecidedInv ==
    /\ ViewsLag /\ KnownInPlay /\ RemovalIsLast /\ RunningIsHighest
    /\ CommitsDecided /\ DecidedSubmitted /\ RequestsSubmitted
    /\ PreparesUndecided /\ PreparesUnanswered /\ NewestRequested

LEMMA InitDecidedInv == RemovalComesLast /\ Init => DecidedInv
<1> SUFFICES ASSUME RemovalComesLast, Init PROVE DecidedInv
  OBVIOUS
<1>1. \A n \in Node : /\ n \in Unit /\ pending[n] = EmptyPair /\ requested[n] = Unreadable
                      /\ view[n] = Unheard /\ store[n] = Stored(Default, 1)
  BY DEF Init, Unit
<1>2. \A s \in Slot : ~EmptyPair[s].valid
  BY DEF EmptyPair, Unreadable
<1>3. InPlay = {}
  BY <1>1, <1>2 DEF Init, InPlay
<1>4. ViewsLag
  BY <1>1 DEF ViewsLag, Unheard, Stored
<1>5. RemovalIsLast
  BY <1>3 DEF RemovalIsLast, Init, RemovalComesLast
<1> QED
  BY <1>1, <1>3, <1>4, <1>5
  DEF Init, DecidedInv, KnownInPlay, RunningIsHighest, CommitsDecided, DecidedSubmitted,
      RequestsSubmitted, PreparesUndecided, PreparesUnanswered, NewestRequested, Live, Unreadable

\* A step that starts no update, accepts no PREPARE and sends no COMMIT.
Quiet ==
    /\ \A m \in msgs' : m \in msgs \/ m.kind \notin {"prepare", "commit"}
    /\ UNCHANGED <<decided, submitted, updates>> /\ faults'.kinds = faults.kinds
    /\ \A n \in Node : /\ pending'[n] \in {pending[n], EmptyPair}
                       /\ requested'[n] \in {requested[n], Unreadable}
    /\ \/ phase' = "idle"
       \/ phase # "idle" /\ UNCHANGED <<txn, approved, staged>> /\ running'[Root] = running[Root]
    /\ \A u \in Unit : store'[u].generation >= store[u].generation
    /\ \A n \in Node : \/ view'[n] = view[n]
                       \/ view'[n].generation = store[n].generation
                       \/ ~view'[n].online /\ view'[n].generation = 0
                       \/ ~view'[n].online /\ view'[n].generation = view[n].generation
    /\ approved' = approved \/ "removal" \in faults.kinds

LEMMA QuietKeeps ==
    ASSUME TypeOK, TypeOK', TransactionValid, DecidedInv, Quiet
    PROVE  DecidedInv'
<1> USE DEF DecidedInv
<1>1. InPlay' \subseteq InPlay
  <2>1. \A s \in Slot : ~EmptyPair[s].valid
    BY DEF EmptyPair, Unreadable
  <2>2. \A m \in msgs' : m.kind = "prepare" => m \in msgs
    BY DEF Quiet
  <2>3. \A n \in Node : pending'[n] = pending[n] \/ pending'[n] = EmptyPair
    BY DEF Quiet
  <2> QED
    BY <2>1, <2>2, <2>3 DEF InPlay
<1>2. \A u \in Unit : /\ store[u].generation \in Nat /\ store'[u].generation \in Nat
                      /\ store'[u].generation >= store[u].generation
  BY DEF TypeOK, Quiet, Record
<1>3. /\ Root \in Unit /\ Node \subseteq Unit /\ approved \subseteq Node
      /\ \A n \in Node : view[n].generation \in Nat /\ view'[n].generation \in Nat
  BY DEF Unit, TypeOK, View
<1>4. ViewsLag'
  BY <1>2, <1>3 DEF ViewsLag, Quiet
<1>5. updates' = updates /\ faults'.kinds = faults.kinds
  BY DEF Quiet
<1>6. RemovalIsLast'
  BY <1>1, <1>5 DEF RemovalIsLast
<1>7. KnownInPlay'
  <2>1. CASE updates = 0 \/ "removal" \in faults.kinds
    BY <1>1, <1>5, <2>1 DEF KnownInPlay, RemovalIsLast, TypeOK
  <2>2. CASE updates # 0 /\ "removal" \notin faults.kinds
    <3>1. approved' = approved /\ updates > 0
      BY <2>2 DEF Quiet, TypeOK
    <3>2. SUFFICES ASSUME NEW g \in InPlay PROVE Known(g)'
      BY <1>1 DEF KnownInPlay
    <3>3. Known(g) /\ g \in Nat
      BY <3>1 DEF KnownInPlay, InPlay
    <3>4. CASE g <= store[Root].generation + 1
      BY <1>2, <1>3, <3>3, <3>4 DEF Known
    <3>5. ASSUME NEW k \in approved, g <= store[k].generation + 1,
                 view[k].online => g <= view[k].generation + 1
          PROVE  Known(g)'
      <4>1. k \in Node /\ g <= store'[k].generation + 1
        BY <1>2, <1>3, <3>3, <3>5
      <4>2. view'[k].online => g <= view'[k].generation + 1
        BY <1>2, <1>3, <3>5, <4>1 DEF Quiet
      <4> QED
        BY <3>1, <4>1, <4>2 DEF Known
    <3> QED
      BY <3>3, <3>4, <3>5 DEF Known
  <2> QED
    BY <2>1, <2>2
<1>8. RunningIsHighest'
  BY <1>1 DEF RunningIsHighest, Quiet
<1>9. CommitsDecided' /\ DecidedSubmitted' /\ RequestsSubmitted' /\ PreparesUndecided'
  BY DEF Quiet, CommitsDecided, DecidedSubmitted, RequestsSubmitted, PreparesUndecided, Unreadable
<1>10. PreparesUnanswered'
  BY DEF Quiet, PreparesUnanswered
<1>11. NewestRequested'
  <2>1. ~Live(Unreadable)
    BY DEF Live, DecidedSubmitted, TransactionValid, Unreadable
  <2>2. \A r : Live(r)' => Live(r)
    BY DEF Live, Quiet
  <2>3. \A n \in Node : /\ pending'[n] = pending[n] \/ pending'[n] = EmptyPair
                        /\ requested'[n] = requested[n] \/ requested'[n] = Unreadable
    BY DEF Quiet
  <2> QED
    BY <2>1, <2>2, <2>3 DEF NewestRequested
<1> QED
  BY <1>4, <1>6, <1>7, <1>8, <1>9, <1>10, <1>11

\* Most steps are quiet.
LEMMA RootIsQuiet ==
    ASSUME TypeOK, RootFalls \/ (RootStep /\ ~SendCommit)
    PROVE  Quiet
<1>1. UNCHANGED <<approved, requested, staged, decided, submitted, updates>>
      /\ faults'.kinds = faults.kinds
  BY DEF RootStep, ObserveReady, RecheckSafe, AbortUpdate, EndCommitWait, ActivateRoot, RestartRoot,
         RootFalls, PowerLossRoot, WatchdogReset, Fault, BootRoot, RootMoves, TypeOK, air, history
<1>2. \A n \in Node : n # Root /\ n \in Unit /\ pending'[n] = pending[n]
  BY NodeAssumption
  DEF Unit, RootStep, ObserveReady, RecheckSafe, AbortUpdate, EndCommitWait, ActivateRoot,
      CommitStaged, RestartRoot, RootFalls, PowerLossRoot, WatchdogReset, BootRoot, RootMoves,
      TypeOK, disk
<1>3. \A u \in Unit : store'[u].generation >= store[u].generation
  <2>1. \A u \in Unit : store[u].generation \in Nat /\ Newest(pending[u]).generation \in Nat
    BY UnitTypes DEF Record
  <2>2. \/ store' = store
        \/ Committable(Root) /\ store' = [store EXCEPT ![Root] = Newest(pending[Root])]
    BY DEF RootStep, ObserveReady, RecheckSafe, AbortUpdate, EndCommitWait, ActivateRoot,
           CommitStaged, RestartRoot, RootFalls, PowerLossRoot, WatchdogReset, BootRoot, RootMoves,
           disk
  <2> QED
    BY <2>1, <2>2 DEF Committable, TypeOK
<1>4. \A m \in msgs' : m \in msgs \/ m.kind \notin {"prepare", "commit"}
  <2>1. CASE AbortUpdate
    BY <2>1, SentFields DEF AbortUpdate, SendToReachable
  <2>2. CASE ~AbortUpdate
    BY <2>2
    DEF RootStep, ObserveReady, RecheckSafe, EndCommitWait, ActivateRoot, RestartRoot, RootFalls,
        PowerLossRoot, WatchdogReset, BootRoot
  <2> QED
    BY <2>1, <2>2
<1>5. \/ phase' = "idle"
      \/ phase # "idle" /\ txn' = txn /\ running'[Root] = running[Root]
  BY DEF RootStep, ObserveReady, RecheckSafe, AbortUpdate, EndCommitWait, ActivateRoot,
         CommitStaged, RestartRoot, RootFalls, PowerLossRoot, WatchdogReset, BootRoot, RootMoves,
         disk
<1>6. \A n \in Node : \/ view'[n] = view[n]
                      \/ ~view'[n].online /\ view'[n].generation = 0
  BY DEF RootStep, ObserveReady, RecheckSafe, AbortUpdate, EndCommitWait, ActivateRoot, RestartRoot,
         RootFalls, PowerLossRoot, WatchdogReset, BootRoot, RootMoves, Unheard
<1> QED
  BY <1>1, <1>2, <1>3, <1>4, <1>5, <1>6 DEF Quiet

LEMMA HearingIsQuiet ==
    ASSUME TypeOK, NEW m \in msgs,
           \/ OnResponse(m) \/ OnAbort(m) \/ OnCommit(m)
           \/ OnPrepare(m) /\ UNCHANGED <<pending, requested, staged>>
    PROVE  Quiet
<1>1. m.node \in Node /\ m.node \in Unit
  BY MessageTypes
<1>2. \A u \in Unit : store[u].generation \in Nat
  BY UnitTypes
<1>3. CASE OnResponse(m)
  <2>1. /\ UNCHANGED <<phase, txn, approved, view, air, disk, history, faults>> /\ msgs' \subseteq msgs
    BY <1>3 DEF OnResponse, Ignore
  <2> QED
    BY <1>2, <2>1 DEF Quiet, air, disk, history
<1>4. CASE OnAbort(m)
  <2>1. UNCHANGED <<root, store, running, history, faults>> /\ msgs' \subseteq msgs
    BY <1>4 DEF OnAbort, Ignore
  <2>2. \A n \in Node : /\ pending'[n] \in {pending[n], EmptyPair}
                        /\ requested'[n] \in {requested[n], Unreadable}
    BY <1>1, <1>4 DEF OnAbort, TypeOK, Unit
  <2> QED
    BY <1>2, <2>1, <2>2 DEF Quiet, root, history
<1>5. CASE OnCommit(m)
  <2>1. \A a \in msgs' : a \in msgs \/ a.kind \notin {"prepare", "commit"}
    BY <1>5, SentFields DEF OnCommit, Reply
  <2>2. \A u \in Unit : store'[u].generation >= store[u].generation
    BY <1>1, <1>2, <1>5, UnitTypes DEF OnCommit, CommitStaged, Committable, TypeOK, disk, Record
  <2>3. \A n \in Node : pending'[n] \in {pending[n], EmptyPair}
    BY <1>5 DEF OnCommit, CommitStaged, TypeOK, disk, Unit
  <2>4. running' = running /\ UNCHANGED <<root, requested, history, faults>>
    BY <1>5 DEF OnCommit, CommitStaged, disk
  <2> QED
    BY <2>1, <2>2, <2>3, <2>4 DEF Quiet, root, history
<1>6. CASE OnPrepare(m) /\ UNCHANGED <<pending, requested, staged>>
  <2>1. \A a \in msgs' : a \in msgs \/ a.kind \notin {"prepare", "commit"}
    BY <1>6, SentFields DEF OnPrepare, Reply, Ignore
  <2>2. UNCHANGED <<root, store, running, decided, submitted, updates, faults>>
    BY <1>6 DEF OnPrepare
  <2> QED
    BY <1>2, <1>6, <2>1, <2>2 DEF Quiet, root
<1> QED
  BY <1>3, <1>4, <1>5, <1>6

LEMMA OthersAreQuiet ==
    ASSUME TypeOK, NEW n \in Node,
           \/ Presence(n) \/ HearDisarmed(n) \/ DelayedRestart(n) \/ FcUnsafe(n)
           \/ Disconnect(n) \/ NodeLost(n) \/ PowerLossNode(n) \/ RemoveNode(n)
           \/ \E c \in Value : LocalSave(n, c)
    PROVE  Quiet
<1>1. n # Root /\ n \in Unit /\ Root \in Unit
  BY NodeAssumption DEF Unit
<1>2. /\ UNCHANGED <<msgs, pending, staged, decided, submitted, updates, phase, txn>>
      /\ faults'.kinds = faults.kinds /\ running'[Root] = running[Root]
  BY <1>1
  DEF Presence, HearDisarmed, DelayedRestart, FcUnsafe, Disconnect, NodeLost, PowerLossNode,
      BootNode, RemoveNode, LocalSave, Fault, TypeOK, root, air, disk, history
<1>3. \A k \in Node : requested'[k] \in {requested[k], Unreadable}
  BY DEF Presence, HearDisarmed, DelayedRestart, FcUnsafe, Disconnect, NodeLost, PowerLossNode,
         BootNode, RemoveNode, LocalSave, TypeOK, air
<1>4. approved' = approved \/ ("removal" \in faults.kinds /\ phase = "idle")
  BY DEF Presence, HearDisarmed, DelayedRestart, FcUnsafe, Disconnect, NodeLost, PowerLossNode,
         BootNode, RemoveNode, LocalSave, Fault, root
<1>5. \A u \in Unit : store'[u].generation >= store[u].generation
  <2>1. \A u \in Unit : store[u].generation \in Nat
    BY UnitTypes
  <2>2. CASE store' = store
    BY <2>1, <2>2
  <2>3. CASE \E c \in Value : LocalSave(n, c)
    BY <1>1, <2>1, <2>3 DEF LocalSave, Stored, TypeOK
  <2> QED
    BY <2>2, <2>3 DEF Presence, HearDisarmed, DelayedRestart, FcUnsafe, Disconnect, NodeLost,
                      PowerLossNode, BootNode, RemoveNode, disk
<1>6. \A k \in Node : \/ view'[k] = view[k]
                      \/ view'[k].generation = store[k].generation
                      \/ ~view'[k].online /\ view'[k].generation = view[k].generation
  <2>1. \A k \in Node : view[k] \in View
    BY DEF TypeOK
  <2>2. CASE Presence(n)
    BY <2>2 DEF Presence, TypeOK
  <2>3. CASE NodeLost(n)
    BY <2>1, <2>3 DEF NodeLost, TypeOK, View
  <2>4. CASE view' = view
    BY <2>4
  <2> QED
    BY <2>2, <2>3, <2>4 DEF HearDisarmed, DelayedRestart, FcUnsafe, Disconnect, PowerLossNode,
                            BootNode, RemoveNode, LocalSave, root
<1> QED
  BY <1>2, <1>3, <1>4, <1>5, <1>6 DEF Quiet

LEMMA NothingIsQuiet == ASSUME TypeOK, UNCHANGED vars PROVE Quiet
<1>1. \A u \in Unit : store[u].generation \in Nat
  BY UnitTypes
<1> QED
  BY <1>1 DEF vars, root, air, disk, history, Quiet

\* A new update: its generation is above everything in play, its configuration is new.
LEMMA BeginKeeps ==
    ASSUME AckInv, PrepareInv, DecidedInv, ~Retry, NEW c \in Value, BeginUpdate(c)
    PROVE  DecidedInv'
<1> USE DEF DecidedInv, AckInv, PrepareInv
<1> DEFINE g == NextGeneration
<1>1. /\ phase = "idle" /\ GlobalSafe /\ updates > 0 /\ c \notin submitted
      /\ phase' = "preparing" /\ txn' = Stored(c, g) /\ staged' = {}
      /\ pending' = [pending EXCEPT ![Root] = Written(@, c, g)]
      /\ msgs' = msgs \cup Sent("prepare", Reachable, txn', running[Root])
      /\ submitted' = submitted \cup {c} /\ updates' = updates - 1
      /\ UNCHANGED <<approved, view, store, running, requested, decided, faults>>
  BY DEF BeginUpdate, SendToReachable, air
<1>2. /\ g \in Nat /\ g > store[Root].generation
      /\ \A k \in approved : g > view[k].generation
  BY NextGenerationAbove
<1>3. \E k \in approved : TRUE
  BY <1>1 DEF GlobalSafe
<1>4. txn'.generation = g /\ txn'.value = c /\ txn'.valid
  BY <1>1 DEF Stored
<1>5. \A n \in Node : n # Root /\ pending'[n] = pending[n] /\ requested'[n] = requested[n]
  BY <1>1, NodeAssumption DEF TypeOK, Unit
<1>6. \A m \in msgs' : \/ m \in msgs
                       \/ /\ m.kind = "prepare" /\ m.record = txn' /\ m.network = running[Root]
                          /\ m.node \in approved
  BY <1>1 DEF Sent, Reachable
<1>7. \A h \in InPlay' : h \in InPlay \/ h = g
  BY <1>4, <1>5, <1>6 DEF InPlay
<1>8. \A h \in InPlay : h <= g
  <2>1. \A u \in Unit : store[u].generation \in Nat
    BY UnitTypes
  <2>2. /\ approved \subseteq Node /\ Root \in Unit
        /\ \A k \in approved : view[k].online /\ view[k].generation \in Nat
    BY <1>1 DEF GlobalSafe, TypeOK, View, Unit
  <2>3. \A h \in InPlay : h \in Nat /\ Known(h)
    BY <1>1 DEF KnownInPlay, InPlay
  <2> QED
    BY <1>2, <2>1, <2>2, <2>3 DEF Known
<1>9. RunningIsHighest'
  BY <1>2, <1>4, <1>7, <1>8 DEF RunningIsHighest
<1>10. CommitsDecided' /\ DecidedSubmitted' /\ RequestsSubmitted' /\ ViewsLag'
  BY <1>1, <1>6 DEF CommitsDecided, DecidedSubmitted, RequestsSubmitted, ViewsLag
<1>11. PreparesUndecided'
  BY <1>1, <1>4, <1>6 DEF PreparesUndecided, DecidedSubmitted
<1>12. PreparesUnanswered'
  <2>1. \A m \in msgs : m.record # txn'
    BY <1>1, <1>4 DEF MessagesSubmitted
  <2> QED
    BY <1>1, <1>6, <2>1 DEF PreparesUnanswered
<1>13. NewestRequested'
  <2>1. \A n \in Node : requested[n] # txn'
    BY <1>1, <1>4 DEF RequestsSubmitted
  <2> QED
    BY <1>1, <1>5, <2>1 DEF NewestRequested, Live
<1>14. RemovalIsLast'
  BY <1>1 DEF RemovalIsLast, TypeOK
<1>15. KnownInPlay'
  <2>1. Known(g)
    <3>1. PICK top \in {store[Root].generation} \cup {view[k].generation : k \in approved} :
            top \in Nat /\ g = 1 + top
      BY NextGenerationIsNext
    <3>2. CASE top = store[Root].generation
      <4>1. store[Root].generation \in Nat
        BY UnitTypes DEF Unit
      <4> QED
        BY <3>1, <3>2, <4>1 DEF Known
    <3>3. CASE \E k \in approved : top = view[k].generation
      <4>1. PICK k \in approved : top = view[k].generation
        BY <3>3
      <4>2. k \in Node /\ k \in Unit /\ view[k].generation \in Nat /\ store[k].generation \in Nat
            /\ view[k].generation <= store[k].generation
        BY UnitTypes DEF TypeOK, View, Unit, ViewsLag
      <4> QED
        BY <3>1, <4>1, <4>2 DEF Known
    <3> QED
      BY <3>1, <3>2, <3>3
  <2>2. \A h : Known(h)' <=> Known(h)
    BY <1>1 DEF Known
  <2> HIDE DEF g
  <2> QED
    BY <1>1, <1>7, <2>1, <2>2 DEF KnownInPlay
<1> QED
  BY <1>9, <1>10, <1>11, <1>12, <1>13, <1>14, <1>15

\* COMMIT goes out when every approved node has accepted the running PREPARE, so none
\* of those is under way any more.
LEMMA SendCommitKeeps ==
    ASSUME AckInv, PrepareInv, DecidedInv, SendCommit
    PROVE  DecidedInv'
<1> USE DEF DecidedInv, AckInv, PrepareInv
<1>1. /\ phase = "decided" /\ phase' = "committing" /\ decided' = decided \cup {txn}
      /\ UNCHANGED <<txn, approved, view, requested, staged, submitted, updates, faults>>
      /\ UNCHANGED <<store, pending, running>>
  BY DEF SendCommit, RootMoves, air, disk
<1>2. \A m \in msgs' : m \in msgs \/ (m.kind = "commit" /\ m.record = txn)
  BY SentFields DEF SendCommit, SendToReachable
<1>3. msgs \subseteq msgs'
  BY DEF SendCommit, SendToReachable
<1>4. txn.valid /\ txn.value \in submitted
  BY <1>1 DEF TransactionSubmitted
<1>5. InPlay' = InPlay
  BY <1>1, <1>2, <1>3 DEF InPlay
<1>6. CommitsDecided' /\ DecidedSubmitted' /\ RequestsSubmitted' /\ ViewsLag'
  BY <1>1, <1>2, <1>4 DEF CommitsDecided, DecidedSubmitted, RequestsSubmitted, ViewsLag
<1>7. PreparesUndecided'
  <2>1. approved \subseteq staged
    BY <1>1 DEF AllPrepared, PreparedIsStaged
  <2>2. \A m \in msgs : m.kind = "prepare" => m.record # txn
    BY <1>1, <2>1 DEF PreparesUnanswered
  <2> QED
    BY <1>1, <1>2, <2>2 DEF PreparesUndecided
<1>8. PreparesUnanswered'
  BY <1>1, <1>2 DEF PreparesUnanswered
<1>9. NewestRequested'
  BY <1>1 DEF NewestRequested, Live
<1>10. RemovalIsLast' /\ RunningIsHighest'
  BY <1>1, <1>5 DEF RemovalIsLast, RunningIsHighest
<1>11. KnownInPlay'
  BY <1>1, <1>5 DEF KnownInPlay, Known
<1> QED
  BY <1>6, <1>7, <1>8, <1>9, <1>10, <1>11

\* A PREPARE is accepted: of the running update, nothing above it is staged.
LEMMA AcceptKeeps ==
    ASSUME AckInv, PrepareInv, DecidedInv, NEW m \in msgs, OnPrepare(m),
           m.record.generation > store[m.node].generation,
           pending' = [pending EXCEPT ![m.node] =
                          Written(@, m.record.value, m.record.generation)],
           requested' = [requested EXCEPT ![m.node] = m.record],
           staged' = IF m.record = txn THEN staged \cup {m.node} ELSE staged,
           Reply(m, "prepared")
    PROVE  DecidedInv'
<1> USE DEF DecidedInv, AckInv, PrepareInv
<1> DEFINE n == m.node
           g == m.record.generation
<1>1. /\ n \in Node /\ n \in Unit /\ m.record \in Record /\ m.record.valid
      /\ m.record.value \in Value /\ m.record.value \in submitted /\ g \in Nat /\ m.kind = "prepare"
  BY MessageTypes DEF MessagesSubmitted, OnPrepare
<1>2. /\ UNCHANGED <<phase, txn, approved, view, store, running, decided, submitted, updates, faults>>
      /\ m.network = running[n]
  BY DEF OnPrepare, root, Deliverable
<1>3. \A a \in msgs' : (a \in msgs /\ a # m) \/ a.kind = "prepared"
  BY SentFields DEF Reply
<1>4. m.record = Stored(m.record.value, g)
  BY <1>1 DEF Record, Stored
<1>5. SlotOf(g) \in Slot /\ pending[n] \in Pair /\ WellFormed(pending[n]) /\ g > 0
  BY <1>1, SlotAlternates, UnitTypes DEF StagedPairs
<1>6. /\ pending'[n] = [pending[n] EXCEPT ![SlotOf(g)] = m.record]
      /\ requested'[n] = m.record
      /\ \A k \in Node \ {n} : pending'[k] = pending[k] /\ requested'[k] = requested[k]
  BY <1>1, <1>4 DEF Written, TypeOK, Unit
<1>7. \A s \in Slot : IF s = SlotOf(g) THEN pending'[n][s] = m.record
                                       ELSE pending'[n][s] = pending[n][s]
  BY <1>5, <1>6 DEF Pair
<1>8. InPlay' \subseteq InPlay
  <2>1. g \in InPlay
    BY <1>1 DEF InPlay
  <2>2. \A k \in Node, s \in Slot : \/ pending'[k][s] = pending[k][s]
                                    \/ pending'[k][s].generation = g
    BY <1>6, <1>7
  <2>3. \A a \in msgs' : a.kind = "prepare" => a \in msgs
    BY <1>3
  <2> HIDE DEF g
  <2> QED
    BY <2>1, <2>2, <2>3 DEF InPlay
<1>9. KnownInPlay' /\ RemovalIsLast' /\ RunningIsHighest' /\ ViewsLag'
  BY <1>2, <1>8 DEF KnownInPlay, RemovalIsLast, RunningIsHighest, ViewsLag, Known
<1>10. CommitsDecided' /\ DecidedSubmitted' /\ PreparesUndecided'
  BY <1>2, <1>3 DEF CommitsDecided, DecidedSubmitted, PreparesUndecided
<1>11. RequestsSubmitted'
  BY <1>1, <1>2, <1>6 DEF RequestsSubmitted
<1>12. PreparesUnanswered'
  <2> SUFFICES ASSUME phase # "idle", NEW a \in msgs', a.kind = "prepare", a.record = txn
               PROVE  a.node \in approved \ staged' /\ a.network = running[Root]
    BY <1>2 DEF PreparesUnanswered
  <2>1. a \in msgs /\ a # m
    BY <1>3
  <2>2. a.node \in approved \ staged /\ a.network = running[Root]
    BY <2>1 DEF PreparesUnanswered
  <2>3. m.record = txn => a.node # n
    <3>1. m.record = txn => m.network = running[Root]
      BY <1>1 DEF PreparesUnanswered
    <3>2. a \in Message /\ m \in Message
      BY <2>1 DEF TypeOK
    <3> QED
      BY <1>1, <2>1, <2>2, <3>1, <3>2 DEF Message
  <2> QED
    BY <2>2, <2>3
<1>13. NewestRequested'
  <2>1. \A k \in Node \ {n} : Live(requested'[k]) => pending'[k] = EmptyPair \/ Newest(pending'[k]) = requested'[k]
    BY <1>6 DEF NewestRequested
  <2>2. Live(m.record) => Newest(pending'[n]) = m.record
    <3> SUFFICES ASSUME Live(m.record) PROVE Newest(pending'[n]) = m.record
      OBVIOUS
    <3>1. phase # "idle" /\ m.record = txn
      BY <1>1 DEF Live, PreparesUndecided
    <3>2. \A s \in Slot : pending[n][s].valid => pending[n][s].generation <= g
      <4>1. \A s \in Slot : pending[n][s].generation \in Nat
        BY <1>5 DEF Pair, Record
      <4> QED
        BY <1>1, <3>1, <4>1 DEF RunningIsHighest, InPlay
    <3>3. pending'[n] \in Pair /\ WellFormed(pending'[n])
      BY <1>1, <1>5, <1>6, <1>7 DEF Pair, WellFormed
    <3>4. \A s \in Slot : pending'[n][s].valid => pending'[n][s].generation <= g
      BY <1>1, <1>7, <3>2
    <3>5. /\ Newest(pending'[n]) \in Record
          /\ Newest(pending'[n]) \in {pending'[n]["a"], pending'[n]["b"]}
          /\ g <= Newest(pending'[n]).generation
          /\ g = Newest(pending'[n]).generation => m.record = Newest(pending'[n])
      BY <1>5, <1>7, <3>3, NewestType, NewestIsHighest
    <3>6. Newest(pending'[n]).generation <= g
      <4>1. ~Newest(pending'[n]).valid => Newest(pending'[n]).generation = 0
        BY <3>3, <3>5 DEF WellFormed, Slot, Unreadable
      <4> QED
        BY <1>1, <3>4, <3>5, <4>1 DEF Slot
    <3> QED
      BY <1>1, <3>5, <3>6 DEF Record
  <2>3. \A r : Live(r)' <=> Live(r)
    BY <1>2 DEF Live
  <2> QED
    BY <1>1, <1>6, <2>1, <2>2, <2>3 DEF NewestRequested
<1> QED
  BY <1>9, <1>10, <1>11, <1>12, <1>13

LEMMA NextDecidedInv ==
    ASSUME ~Retry, AckInv, PrepareInv, DecidedInv, [Next]_vars
    PROVE  DecidedInv'
<1>1. TypeOK /\ TypeOK' /\ TransactionValid
  BY NextTypeOK DEF AckInv
<1>2. CASE \E m \in msgs : OnPrepare(m)
  <2>1. PICK m \in msgs : OnPrepare(m)
    BY <1>2
  <2>2. CASE UNCHANGED <<pending, requested, staged>>
    BY <1>1, <2>1, <2>2, HearingIsQuiet, QuietKeeps
  <2>3. CASE ~UNCHANGED <<pending, requested, staged>>
    BY <2>1, <2>3, AcceptKeeps DEF OnPrepare
  <2> QED
    BY <2>2, <2>3
<1>3. CASE \E m \in msgs : OnResponse(m) \/ OnAbort(m) \/ OnCommit(m)
  BY <1>1, <1>3, HearingIsQuiet, QuietKeeps
<1>4. CASE SendCommit
  BY <1>4, SendCommitKeeps
<1>5. CASE \E c \in Value : BeginUpdate(c)
  BY <1>5, BeginKeeps
<1>6. CASE RootFalls \/ (RootStep /\ ~SendCommit)
  BY <1>1, <1>6, RootIsQuiet, QuietKeeps
<1>7. CASE UNCHANGED vars
  BY <1>1, <1>7, NothingIsQuiet, QuietKeeps
<1>8. ASSUME NEW n \in Node,
             \/ Presence(n) \/ HearDisarmed(n) \/ DelayedRestart(n) \/ FcUnsafe(n)
             \/ Disconnect(n) \/ NodeLost(n) \/ PowerLossNode(n) \/ RemoveNode(n)
             \/ \E c \in Value : LocalSave(n, c)
      PROVE  DecidedInv'
  BY <1>1, <1>8, OthersAreQuiet, QuietKeeps
<1> QED
  BY <1>2, <1>3, <1>4, <1>5, <1>6, <1>7, <1>8 DEF Next, RootFalls

\* A node's record changes by a COMMIT or by a save over its own USB.
LEMMA WhoActivates ==
    ASSUME TypeOK, Next, NEW n \in Node, store'[n] # store[n]
    PROVE  \/ \E m \in msgs : m.node = n /\ OnCommit(m)
           \/ \E c \in Value : LocalSave(n, c)
<1>1. n # Root /\ n \in Unit
  BY NodeAssumption DEF Unit
<1>2. CASE RootStep \/ RootFalls \/ \E c \in Value : BeginUpdate(c)
  BY <1>1, <1>2
  DEF RootStep, ObserveReady, RecheckSafe, SendCommit, AbortUpdate, EndCommitWait, ActivateRoot,
      CommitStaged, RestartRoot, RootFalls, PowerLossRoot, WatchdogReset, BootRoot, BeginUpdate,
      RootMoves, TypeOK, disk
<1>3. ASSUME NEW m \in msgs, OnResponse(m) \/ OnPrepare(m) \/ OnAbort(m)
      PROVE  FALSE
  BY <1>3 DEF OnResponse, OnPrepare, OnAbort, disk
<1>4. ASSUME NEW m \in msgs, OnCommit(m)
      PROVE  m.node = n
  BY <1>1, <1>4 DEF OnCommit, CommitStaged, TypeOK, disk
<1>5. ASSUME NEW k \in Node,
             \/ Presence(k) \/ HearDisarmed(k) \/ DelayedRestart(k) \/ FcUnsafe(k)
             \/ Disconnect(k) \/ NodeLost(k) \/ PowerLossNode(k) \/ RemoveNode(k)
      PROVE  FALSE
  BY <1>5 DEF Presence, HearDisarmed, DelayedRestart, FcUnsafe, Disconnect, NodeLost,
              PowerLossNode, BootNode, RemoveNode, disk
<1>6. ASSUME NEW k \in Node, NEW c \in Value, LocalSave(k, c)
      PROVE  k = n
  BY <1>1, <1>6 DEF LocalSave, TypeOK
<1> QED
  BY <1>2, <1>3, <1>4, <1>5, <1>6 DEF Next, RootFalls

\* A node activates only records the root has sent COMMIT for, whatever is lost, late or
\* restarted, when no configuration is submitted twice and no node is taken from the
\* approval list between two updates.  (A removal may let generations go down: then a
\* record of an aborted update may be activated in place of the one COMMIT names.)
THEOREM OnlyDecidedIsActivated ==
    ASSUME ~Retry, RemovalComesLast
    PROVE  Spec => OnlyDecidedActivates
<1>1. Init => AckInv /\ PrepareInv /\ DecidedInv
  BY InitAckInv, InitPrepareInv, InitDecidedInv
<1>2. AckInv /\ PrepareInv /\ DecidedInv /\ [Next]_vars => (AckInv /\ PrepareInv /\ DecidedInv)'
  BY NextAckInv, NextPrepareInv, NextDecidedInv
<1>3. AckInv /\ DecidedInv /\ [Next]_vars
      => [ \A n \in Node : store'[n] # store[n]
                           => store'[n] \in decided \/ \E c \in Value : LocalSave(n, c) ]_vars
  <2> SUFFICES ASSUME AckInv, DecidedInv, Next, NEW n \in Node, store'[n] # store[n],
                      NEW m \in msgs, m.node = n, OnCommit(m)
               PROVE  store'[n] \in decided
    BY WhoActivates DEF AckInv
  <2>1. /\ m.record = requested[n] /\ Committable(n)
        /\ store' = [store EXCEPT ![n] = Newest(pending[n])]
        /\ m.kind = "commit"
    BY DEF OnCommit, CommitStaged, disk
  <2>2. store'[n] = Newest(pending[n])
    BY <2>1 DEF AckInv, TypeOK, Unit
  <2>3. m.record \in decided
    BY <2>1 DEF DecidedInv, CommitsDecided
  <2>4. pending[n] # EmptyPair
    BY <2>1 DEF Committable, Newest, EmptyPair, Unreadable, Slot
  <2>5. Newest(pending[n]) = requested[n]
    BY <2>1, <2>3, <2>4 DEF DecidedInv, NewestRequested, Live
  <2> QED
    BY <2>1, <2>2, <2>3, <2>5
<1> QED
  BY <1>1, <1>2, <1>3, PTL DEF Spec, OnlyDecidedActivates
=============================================================================
