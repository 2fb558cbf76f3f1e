------------------------- MODULE MeshReceiverProofs -------------------------
(***************************************************************************)
(* Proofs about what the receive task of the mesh keeps: the replay window *)
(* (ReplayWindow), for every window size, ring length, sequence bound and  *)
(* set of session ids, and the ground root's registry of nodes             *)
(* (MeshRegistry), for every set of addresses, serials and system ids and  *)
(* every table size and generation bound.  The two specifications share no *)
(* variable.                                                               *)
(***************************************************************************)
EXTENDS ReplayWindow, MeshRegistry, ABRecordsProofs, FiniteSetTheorems, TLAPS

-----------------------------------------------------------------------------
(* The inductive invariant, part by part. *)

\* Every set bit of the bitmap stands for a packet that was heard.
SeenWasHeard ==
    window.initialized =>
        \A d \in window.seen :
            [session |-> window.session,
             sequence |-> window.highest_sequence - d] \in heard

\* Every packet heard in the running session is at most the highest one, and
\* its bit is set as long as the bitmap reaches back to it.
HeardIsSeen ==
    window.initialized =>
        \A p \in heard : p.session = window.session =>
            /\ p.sequence <= window.highest_sequence
            /\ \/ window.highest_sequence - p.sequence >= WindowSize
               \/ window.highest_sequence - p.sequence \in window.seen

\* The ring fills from slot 0 and holds as many different ids as it counts,
\* none of them the running one.
RingOK ==
    /\ window.count < RetiredSlots => window.next = window.count
    /\ Retired(window) \subseteq Session
    /\ Cardinality(Retired(window)) = window.count
    /\ window.initialized =>
           window.session \in Session /\ window.session \notin Retired(window)
    /\ ~window.initialized => window.count = 0

\* Nothing that was heard is forgotten: its session runs or is in the ring.
HeardRemembered ==
    /\ ~window.initialized => heard = {}
    /\ \A p \in heard : p.session = window.session \/ p.session \in Retired(window)

IInv == TypeOK /\ SeenWasHeard /\ HeardIsSeen /\ RingOK /\ HeardRemembered /\ NoRepeat

-----------------------------------------------------------------------------
(* Facts about the window operators. *)

\* Retiring a session keeps the window well formed (the ring index wraps).
LEMMA RetireType ==
    ASSUME NEW w \in Window
    PROVE  RetireSession(w) \in Window
<1> USE RetiredAssumption, WindowAssumption, SequenceAssumption
<1>1. CASE ~w.initialized
  BY <1>1 DEF RetireSession
<1>2. CASE w.initialized
  <2>1. (w.next + 1) % RetiredSlots \in RetiredIndex
    BY DEF Window, RetiredIndex
  <2>2. [w.retired EXCEPT ![w.next] = w.session]
          \in [RetiredIndex -> Session \cup {NoSession}]
    BY DEF Window
  <2>3. (IF w.count < RetiredSlots THEN w.count + 1 ELSE w.count) \in 0 .. RetiredSlots
    BY DEF Window
  <2> QED BY <1>2, <2>1, <2>2, <2>3 DEF RetireSession, Window
<1> QED BY <1>1, <1>2 DEF Window

\* replay_accept leaves a well-formed window.
LEMMA AcceptedType ==
    ASSUME NEW w \in Window, NEW p \in Packet, Accepts(w, p)
    PROVE  Accepted(w, p) \in Window
<1> USE WindowAssumption, SequenceAssumption, RetiredAssumption
<1>1. CASE IsNewSession(w, p)
  <2>1. RetireSession(w) \in Window
    BY RetireType
  <2>2. p.session \in Session /\ p.sequence \in 0 .. MaxSequence /\ {0} \in SUBSET Distance
    BY DEF Packet, Distance
  <2>3. StartSession(w, p) \in Window
    BY <2>1, <2>2 DEF StartSession, Window
  <2> QED BY <1>1, <2>3 DEF Accepted
<1>2. CASE ~IsNewSession(w, p) /\ p.sequence > w.highest_sequence
  <2>1. Shifted(w.seen, p.sequence - w.highest_sequence) \in SUBSET Distance
    BY DEF Shifted
  <2>2. p.sequence \in 0 .. MaxSequence
    BY DEF Packet
  <2> QED BY <1>2, <2>1, <2>2 DEF Accepted, Window
<1>3. CASE ~IsNewSession(w, p) /\ ~(p.sequence > w.highest_sequence)
  <2>1. w.highest_sequence - p.sequence \in Distance
    BY <1>3 DEF Accepts, Distance, Window, Packet
  <2>2. w.seen \cup {w.highest_sequence - p.sequence} \in SUBSET Distance
    BY <2>1 DEF Window
  <2> QED BY <1>3, <2>2 DEF Accepted, Window
<1> QED BY <1>1, <1>2, <1>3

\* The fields of the window after a new session has started.
LEMMA StartFields ==
    ASSUME NEW w \in Window, NEW p \in Packet, IsNewSession(w, p)
    PROVE  /\ Accepted(w, p).initialized = TRUE
           /\ Accepted(w, p).session = p.session
           /\ Accepted(w, p).highest_sequence = p.sequence
           /\ Accepted(w, p).seen = {0}
           /\ Accepted(w, p).retired = RetireSession(w).retired
           /\ Accepted(w, p).count = RetireSession(w).count
           /\ Accepted(w, p).next = RetireSession(w).next
<1>1. RetireSession(w) \in Window
  BY RetireType
<1> QED BY <1>1 DEF Accepted, StartSession, Window

\* A packet of the running session touches neither the session nor the ring.
LEMMA SameSessionFields ==
    ASSUME NEW w \in Window, NEW p \in Packet, ~IsNewSession(w, p)
    PROVE  /\ Accepted(w, p).initialized = w.initialized
           /\ Accepted(w, p).session = w.session
           /\ Accepted(w, p).retired = w.retired
           /\ Accepted(w, p).count = w.count
           /\ Accepted(w, p).next = w.next
           /\ p.sequence > w.highest_sequence =>
                /\ Accepted(w, p).highest_sequence = p.sequence
                /\ Accepted(w, p).seen = Shifted(w.seen, p.sequence - w.highest_sequence)
           /\ ~(p.sequence > w.highest_sequence) =>
                /\ Accepted(w, p).highest_sequence = w.highest_sequence
                /\ Accepted(w, p).seen = w.seen \cup {w.highest_sequence - p.sequence}
BY DEF Accepted, Window

LEMMA EmptyWindowType == EmptyWindow \in Window
BY WindowAssumption, RetiredAssumption, SequenceAssumption
   DEF EmptyWindow, Window, RetiredIndex

-----------------------------------------------------------------------------
(* Type correctness. *)

LEMMA InitTypeOK == Init => TypeOK
BY SequenceAssumption, EmptyWindowType DEF Init, TypeOK

LEMMA NextTypeOK == TypeOK /\ [Next]_vars => TypeOK'
<1> SUFFICES ASSUME TypeOK, [Next]_vars PROVE TypeOK'
  OBVIOUS
<1> USE SequenceAssumption DEF TypeOK
<1>1. CASE Send
  <2>1. [session |-> session, sequence |-> next_sequence] \in Packet
    BY <1>1 DEF Send, Packet
  <2> QED BY <1>1, <2>1 DEF Send
<1>2. ASSUME NEW p \in sent, Receive(p) PROVE TypeOK'
  BY <1>2, AcceptedType DEF Receive
<1>3. CASE SenderRestart
  BY <1>3 DEF SenderRestart
<1>4. CASE ReceiverRestart
  BY <1>4, EmptyWindowType DEF ReceiverRestart
<1>5. CASE UNCHANGED vars
  BY <1>5 DEF vars
<1> QED BY <1>1, <1>2, <1>3, <1>4, <1>5 DEF Next

\* Every variable keeps its type, for every window size and ring length.
THEOREM TypeCorrect == Spec => []TypeOK
BY InitTypeOK, NextTypeOK, PTL DEF Spec

-----------------------------------------------------------------------------
(* No first copy is refused. *)

\* Accepting a packet keeps the bitmap free of bits nobody earned.
LEMMA AcceptKeepsSeenWasHeard ==
    ASSUME TypeOK, SeenWasHeard, NEW p \in sent, Receive(p)
    PROVE  SeenWasHeard'
<1> USE DEF TypeOK
<1>1. p \in Packet /\ p = [session |-> p.session, sequence |-> p.sequence]
  BY DEF Packet
<1>2. window' = Accepted(window, p) /\ heard' = heard \cup {p}
  BY DEF Receive
<1>3. CASE IsNewSession(window, p)
  <2>1. window'.session = p.session /\ window'.highest_sequence = p.sequence /\ window'.seen = {0}
    BY <1>1, <1>2, <1>3, StartFields
  <2>2. p.sequence - 0 = p.sequence
    BY <1>1 DEF Packet
  <2> QED BY <1>1, <1>2, <2>1, <2>2 DEF SeenWasHeard
<1>4. CASE ~IsNewSession(window, p)
  <2>1. /\ window.initialized /\ window.session = p.session
        /\ window'.session = window.session
    BY <1>1, <1>2, <1>4, SameSessionFields DEF IsNewSession
  <2>2. window.highest_sequence \in Int /\ p.sequence \in Int
    BY <1>1 DEF Packet, Window
  <2>3. SUFFICES ASSUME NEW d \in window'.seen
                 PROVE  [session |-> window'.session,
                         sequence |-> window'.highest_sequence - d] \in heard'
    BY DEF SeenWasHeard
  <2>4. CASE p.sequence > window.highest_sequence
    <3>1. /\ window'.highest_sequence = p.sequence
          /\ d \in Shifted(window.seen, p.sequence - window.highest_sequence)
      BY <1>1, <1>2, <1>4, <2>4, SameSessionFields
    <3>2. CASE d = 0
      <4>1. p.sequence - 0 = p.sequence
        BY <2>2
      <4> QED BY <1>1, <1>2, <2>1, <3>1, <3>2, <4>1
    <3>3. CASE d - (p.sequence - window.highest_sequence) \in window.seen
      <4>1. d \in Int
        BY <3>1 DEF Shifted, Distance
      <4>2. p.sequence - d
              = window.highest_sequence - (d - (p.sequence - window.highest_sequence))
        BY <2>2, <4>1
      <4> QED BY <1>2, <2>1, <3>1, <3>3, <4>2 DEF SeenWasHeard
    <3> QED BY <3>1, <3>2, <3>3 DEF Shifted
  <2>5. CASE ~(p.sequence > window.highest_sequence)
    <3>1. /\ window'.highest_sequence = window.highest_sequence
          /\ d \in window.seen \cup {window.highest_sequence - p.sequence}
      BY <1>1, <1>2, <1>4, <2>5, SameSessionFields
    <3>2. CASE d \in window.seen
      BY <1>2, <2>1, <3>1, <3>2 DEF SeenWasHeard
    <3>3. CASE d = window.highest_sequence - p.sequence
      <4>1. window.highest_sequence - d = p.sequence
        BY <2>2, <3>3
      <4> QED BY <1>1, <1>2, <2>1, <3>1, <4>1
    <3> QED BY <3>1, <3>2, <3>3
  <2> QED BY <2>4, <2>5
<1> QED BY <1>3, <1>4

LEMMA NextSeenWasHeard == TypeOK /\ SeenWasHeard /\ [Next]_vars => SeenWasHeard'
<1> SUFFICES ASSUME TypeOK, SeenWasHeard, [Next]_vars PROVE SeenWasHeard'
  OBVIOUS
<1>1. CASE Send
  BY <1>1 DEF Send, SeenWasHeard
<1>2. ASSUME NEW p \in sent, Receive(p) PROVE SeenWasHeard'
  BY <1>2, AcceptKeepsSeenWasHeard
<1>3. CASE SenderRestart
  BY <1>3 DEF SenderRestart, SeenWasHeard
<1>4. CASE ReceiverRestart
  BY <1>4 DEF ReceiverRestart, SeenWasHeard, EmptyWindow
<1>5. CASE UNCHANGED vars
  BY <1>5 DEF vars, SeenWasHeard
<1> QED BY <1>1, <1>2, <1>3, <1>4, <1>5 DEF Next

LEMMA SeenGivesFirstCopy == TypeOK /\ SeenWasHeard => FirstCopyAccepted
<1> SUFFICES ASSUME TypeOK, SeenWasHeard, NEW p \in sent,
                    window.initialized, p.session = window.session, p \notin heard,
                    window.highest_sequence < p.sequence + WindowSize
             PROVE  Accepts(window, p)
  BY DEF FirstCopyAccepted
<1>1. p \in Packet /\ p = [session |-> p.session, sequence |-> p.sequence]
  BY DEF TypeOK, Packet
<1>2. window.highest_sequence \in Int /\ p.sequence \in Int /\ WindowSize \in Int
  BY <1>1, WindowAssumption DEF TypeOK, Window, Packet
<1>3. CASE p.sequence > window.highest_sequence
  BY <1>3 DEF Accepts, IsNewSession
<1>4. CASE ~(p.sequence > window.highest_sequence)
  <2>1. window.highest_sequence - p.sequence < WindowSize
    BY <1>2
  <2>2. window.highest_sequence - (window.highest_sequence - p.sequence) = p.sequence
    BY <1>2
  <2>3. window.highest_sequence - p.sequence \notin window.seen
    BY <1>1, <2>2 DEF SeenWasHeard
  <2> QED BY <2>1, <2>3 DEF Accepts, IsNewSession
<1> QED BY <1>3, <1>4

\* Whatever the order of arrival, the first copy of a packet of the running
\* session that lies within the window is accepted (replay_accept).
THEOREM FirstCopyAlwaysAccepted == Spec => []FirstCopyAccepted
<1>1. Init => SeenWasHeard
  BY DEF Init, SeenWasHeard, EmptyWindow
<1> QED BY <1>1, InitTypeOK, NextTypeOK, NextSeenWasHeard, SeenGivesFirstCopy, PTL DEF Spec

-----------------------------------------------------------------------------
(* No packet is processed twice. *)

\* What RetireSession does to the ring when a running session ends and the ring
\* still has a free slot.
LEMMA RetireIntoFreeSlot ==
    ASSUME NEW w \in Window, w.initialized, w.count < RetiredSlots, w.next = w.count
    PROVE  /\ RetireSession(w).count = w.count + 1
           /\ RetireSession(w).next = (w.count + 1) % RetiredSlots
           /\ Retired(RetireSession(w)) = Retired(w) \cup {w.session}
<1> DEFINE r == RetireSession(w)
<1> USE RetiredAssumption
<1>1. /\ r.count = w.count + 1
      /\ r.next = (w.count + 1) % RetiredSlots
      /\ r.retired = [w.retired EXCEPT ![w.count] = w.session]
  BY DEF RetireSession, Window
<1>2. w.count \in RetiredIndex /\ w.retired \in [RetiredIndex -> Session \cup {NoSession}]
  BY DEF Window, RetiredIndex
<1>3. r.retired[w.count] = w.session
  BY <1>1, <1>2
<1>4. \A i \in 0 .. w.count - 1 : r.retired[i] = w.retired[i]
  BY <1>1, <1>2 DEF RetiredIndex
<1>5. 0 .. r.count - 1 = (0 .. w.count - 1) \cup {w.count}
  BY <1>1, <1>2 DEF RetiredIndex
<1>6. Retired(r) \subseteq Retired(w) \cup {w.session}
  BY <1>3, <1>4, <1>5 DEF Retired
<1>7. Retired(w) \cup {w.session} \subseteq Retired(r)
  BY <1>3, <1>4, <1>5 DEF Retired
<1> QED BY <1>1, <1>6, <1>7

\* A session unknown to window and ring leaves no room for a full ring: all the
\* sender's sessions would have to fit beside it.
LEMMA RingHasRoom ==
    ASSUME TypeOK, RingOK, window.initialized,
           Cardinality(Session) <= RetiredSlots + 1,
           NEW s \in Session, s # window.session, s \notin Retired(window)
    PROVE  window.count < RetiredSlots
<1> DEFINE R == Retired(window)
<1>1. IsFiniteSet(Session) /\ R \subseteq Session /\ window.session \in Session
  BY SessionAssumption DEF RingOK
<1>2. IsFiniteSet(R)
  BY <1>1, FS_Subset
<1>3. IsFiniteSet(R \cup {window.session})
      /\ Cardinality(R \cup {window.session}) = Cardinality(R) + 1
  BY <1>1, <1>2, FS_AddElement DEF RingOK
<1>4. Cardinality((R \cup {window.session}) \cup {s})
        = Cardinality(R \cup {window.session}) + 1
  BY <1>3, FS_AddElement
<1>5. Cardinality((R \cup {window.session}) \cup {s}) <= Cardinality(Session)
  BY <1>1, FS_Subset
<1>6. Cardinality(R) = window.count /\ window.count \in Nat /\ Cardinality(Session) \in Nat
  BY <1>1, FS_CardinalityType DEF RingOK, TypeOK, Window
<1> QED BY <1>3, <1>4, <1>5, <1>6, RetiredAssumption

\* The ring after a new session has started remembers the ended one and all the
\* ones it remembered before.
LEMMA StartKeepsRing ==
    ASSUME TypeOK, RingOK, Cardinality(Session) <= RetiredSlots + 1,
           NEW p \in Packet, IsNewSession(window, p), Accepts(window, p),
           window' = Accepted(window, p)
    PROVE  /\ RingOK'
           /\ window.initialized => Retired(window') = Retired(window) \cup {window.session}
<1> USE RetiredAssumption DEF TypeOK
<1>1. /\ window'.initialized /\ window'.session = p.session
      /\ window'.retired = RetireSession(window).retired
      /\ window'.count = RetireSession(window).count
      /\ window'.next = RetireSession(window).next
  BY StartFields
<1>2. Retired(window') = Retired(RetireSession(window))
  BY <1>1 DEF Retired
<1>3. p.session \in Session /\ p.session \notin Retired(window)
  BY DEF Accepts, Packet
<1>4. CASE ~window.initialized
  <2>1. RetireSession(window) = window
    BY <1>4 DEF RetireSession
  <2> QED BY <1>1, <1>2, <1>3, <1>4, <2>1 DEF RingOK
<1>5. CASE window.initialized
  <2>1. p.session # window.session
    BY <1>5 DEF IsNewSession
  <2>2. window.count < RetiredSlots /\ window.next = window.count /\ window.count \in Nat
    BY <1>3, <1>5, <2>1, RingHasRoom DEF RingOK, Window
  <2>3. /\ window'.count = window.count + 1
        /\ window'.next = (window.count + 1) % RetiredSlots
        /\ Retired(window') = Retired(window) \cup {window.session}
    BY <1>1, <1>2, <1>5, <2>2, RetireIntoFreeSlot
  <2>4. window'.count < RetiredSlots => window'.next = window'.count
    BY <2>2, <2>3
  <2>5. window.session \in Session /\ window.session \notin Retired(window)
        /\ Retired(window) \subseteq Session
    BY <1>5 DEF RingOK
  <2>6. IsFiniteSet(Retired(window))
    BY <2>5, SessionAssumption, FS_Subset
  <2>7. Cardinality(Retired(window')) = window'.count
    BY <2>3, <2>5, <2>6, FS_AddElement DEF RingOK
  <2> QED BY <1>1, <1>3, <2>1, <2>3, <2>4, <2>5, <2>7 DEF RingOK
<1> QED BY <1>4, <1>5

\* Accepting the first packet of a new session keeps the invariant.
LEMMA NewSessionKeepsInv ==
    ASSUME IInv, Cardinality(Session) <= RetiredSlots + 1,
           NEW p \in sent, Receive(p), IsNewSession(window, p)
    PROVE  HeardIsSeen' /\ RingOK' /\ HeardRemembered' /\ NoRepeat'
<1> USE DEF IInv, TypeOK
<1>1. /\ p \in Packet /\ Accepts(window, p) /\ window' = Accepted(window, p)
      /\ heard' = heard \cup {p} /\ repeats' = repeats \cup (heard \cap {p})
  BY DEF Receive
<1>2. RingOK' /\ (window.initialized => Retired(window') = Retired(window) \cup {window.session})
  BY <1>1, StartKeepsRing
<1>3. /\ window'.initialized /\ window'.session = p.session
      /\ window'.highest_sequence = p.sequence /\ window'.seen = {0}
  BY <1>1, StartFields
<1>4. \A q \in heard : q.session # p.session
  BY <1>1 DEF Accepts, IsNewSession, HeardRemembered
<1>5. HeardIsSeen'
  <2>1. \A q \in heard' : q.session = p.session => q = p
    BY <1>1, <1>4
  <2>2. p.sequence <= p.sequence /\ p.sequence - p.sequence = 0
    BY <1>1 DEF Packet
  <2> QED BY <1>3, <2>1, <2>2 DEF HeardIsSeen
<1>6. HeardRemembered'
  BY <1>1, <1>2, <1>3 DEF HeardRemembered
<1>7. NoRepeat'
  BY <1>1, <1>4 DEF NoRepeat
<1> QED BY <1>2, <1>5, <1>6, <1>7

\* Accepting a packet of the running session keeps the invariant.
LEMMA SameSessionKeepsInv ==
    ASSUME IInv, NEW p \in sent, Receive(p), ~IsNewSession(window, p)
    PROVE  HeardIsSeen' /\ RingOK' /\ HeardRemembered' /\ NoRepeat'
<1> USE DEF IInv, TypeOK
<1> DEFINE high == window.highest_sequence
<1>1. /\ p \in Packet /\ Accepts(window, p) /\ window' = Accepted(window, p)
      /\ heard' = heard \cup {p} /\ repeats' = repeats \cup (heard \cap {p})
  BY DEF Receive
<1>2. /\ window.initialized /\ window.session = p.session
      /\ window'.initialized = window.initialized /\ window'.session = window.session
      /\ window'.retired = window.retired /\ window'.count = window.count
      /\ window'.next = window.next
  BY <1>1, SameSessionFields DEF IsNewSession
<1>3. Retired(window') = Retired(window)
  BY <1>2 DEF Retired
<1>4. RingOK'
  BY <1>2, <1>3 DEF RingOK
<1>5. HeardRemembered'
  BY <1>1, <1>2, <1>3 DEF HeardRemembered
<1>6. /\ high \in Nat /\ p.sequence \in Nat /\ WindowSize \in Nat \ {0}
      /\ \A q \in heard' : q.sequence \in Nat
  BY <1>1, WindowAssumption DEF Packet, Window
<1>7. p \notin heard
  <2>1. \/ p.sequence > high
        \/ high - p.sequence < WindowSize /\ high - p.sequence \notin window.seen
    BY <1>1 DEF Accepts
  <2> QED BY <1>2, <1>6, <2>1 DEF HeardIsSeen
<1>8. NoRepeat'
  BY <1>1, <1>7 DEF NoRepeat
<1>9. HeardIsSeen'
  <2>1. SUFFICES ASSUME NEW q \in heard', q.session = window'.session
                 PROVE  /\ q.sequence <= window'.highest_sequence
                        /\ \/ window'.highest_sequence - q.sequence >= WindowSize
                           \/ window'.highest_sequence - q.sequence \in window'.seen
    BY DEF HeardIsSeen
  <2>2. q \in heard => /\ q.sequence <= high
                       /\ \/ high - q.sequence >= WindowSize
                          \/ high - q.sequence \in window.seen
    BY <1>2, <2>1 DEF HeardIsSeen
  <2>3. q \in heard \/ q = p
    BY <1>1
  <2>4. CASE p.sequence > high
    <3> DEFINE k == p.sequence - high
    <3>1. window'.highest_sequence = p.sequence /\ window'.seen = Shifted(window.seen, k)
      BY <1>1, <2>4, SameSessionFields
    <3>2. CASE q = p
      <4>1. p.sequence - p.sequence = 0 /\ 0 \in Distance
        BY <1>6 DEF Distance
      <4>2. 0 \in Shifted(window.seen, k)
        BY <4>1 DEF Shifted
      <4> QED BY <1>6, <3>1, <3>2, <4>1, <4>2
    <3>3. CASE q \in heard
      <4>1. q.sequence <= high /\ q.sequence \in Nat
        BY <1>6, <2>2, <3>3
      <4>2. p.sequence - q.sequence = (high - q.sequence) + k /\ k > 0
        BY <1>6, <2>4, <4>1
      <4>3. CASE (high - q.sequence) + k >= WindowSize
        BY <1>6, <3>1, <4>1, <4>2, <4>3
      <4>4. CASE ~((high - q.sequence) + k >= WindowSize)
        <5>1. (high - q.sequence) + k \in Distance
          BY <1>6, <4>1, <4>2, <4>4 DEF Distance
        <5>2. high - q.sequence \in window.seen
          BY <1>6, <2>2, <3>3, <4>1, <4>2, <4>4
        <5>3. ((high - q.sequence) + k) - k = high - q.sequence
              /\ (high - q.sequence) + k >= k
          BY <1>6, <4>1
        <5>4. (high - q.sequence) + k \in Shifted(window.seen, k)
          BY <5>1, <5>2, <5>3 DEF Shifted
        <5> QED BY <1>6, <3>1, <4>1, <4>2, <5>4
      <4> QED BY <4>3, <4>4
    <3> QED BY <2>3, <3>2, <3>3
  <2>5. CASE ~(p.sequence > high)
    <3>1. window'.highest_sequence = high
          /\ window'.seen = window.seen \cup {high - p.sequence}
      BY <1>1, <2>5, SameSessionFields
    <3> QED BY <1>6, <2>2, <2>3, <2>5, <3>1
  <2> QED BY <2>4, <2>5
<1> QED BY <1>4, <1>5, <1>8, <1>9

LEMMA InitIInv == Init => IInv
<1> SUFFICES ASSUME Init PROVE IInv
  OBVIOUS
<1>1. TypeOK
  BY InitTypeOK
<1>2. window = EmptyWindow /\ heard = {} /\ repeats = {}
  BY DEF Init
<1>3. Retired(window) = {}
  BY <1>2 DEF Retired, EmptyWindow
<1>4. RingOK
  BY <1>2, <1>3, FS_EmptySet DEF RingOK, EmptyWindow
<1> QED BY <1>1, <1>2, <1>4
        DEF IInv, SeenWasHeard, HeardIsSeen, HeardRemembered, NoRepeat, EmptyWindow

LEMMA NextIInv ==
    ASSUME Cardinality(Session) <= RetiredSlots + 1
    PROVE  IInv /\ [Next]_vars => IInv'
<1> SUFFICES ASSUME IInv, [Next]_vars PROVE IInv'
  OBVIOUS
<1>1. TypeOK' /\ SeenWasHeard'
  BY NextTypeOK, NextSeenWasHeard DEF IInv
<1>2. ASSUME UNCHANGED <<window, heard, repeats>> PROVE IInv'
  BY <1>1, <1>2 DEF IInv, HeardIsSeen, RingOK, Retired, HeardRemembered, NoRepeat
<1>3. ASSUME NEW p \in sent, Receive(p) PROVE IInv'
  BY <1>1, <1>3, NewSessionKeepsInv, SameSessionKeepsInv DEF IInv
<1>4. CASE ReceiverRestart
  <2>1. window' = EmptyWindow /\ heard' = {} /\ repeats' = repeats
    BY <1>4 DEF ReceiverRestart
  <2>2. Retired(window') = {}
    BY <2>1 DEF Retired, EmptyWindow
  <2>3. RingOK'
    BY <2>1, <2>2, FS_EmptySet DEF RingOK, EmptyWindow
  <2> QED BY <1>1, <2>1, <2>3
          DEF IInv, HeardIsSeen, HeardRemembered, NoRepeat, EmptyWindow
<1>5. CASE Send
  BY <1>2, <1>5 DEF Send
<1>6. CASE SenderRestart
  BY <1>2, <1>6 DEF SenderRestart
<1>7. CASE UNCHANGED vars
  BY <1>2, <1>7 DEF vars
<1> QED BY <1>3, <1>4, <1>5, <1>6, <1>7 DEF Next

\* Within one run of the receiver no packet is processed twice, for every window
\* size and ring length, provided the sender draws at most one session more than
\* the ring remembers: beyond that the ring forgets, and a packet of a forgotten
\* session would be taken for a new one.
THEOREM NeverProcessedTwice ==
    ASSUME Cardinality(Session) <= RetiredSlots + 1
    PROVE  Spec => []NoRepeat
<1>1. Init => IInv
  BY InitIInv
<1>2. IInv /\ [Next]_vars => IInv'
  BY NextIInv
<1>3. IInv => NoRepeat
  BY DEF IInv
<1> QED BY <1>1, <1>2, <1>3, PTL DEF Spec

-----------------------------------------------------------------------------
(* The running sender is never shut out. *)

\* Without late packets the window knows sessions that were drawn, the ring none
\* that is running, and no sequence number that was not sent.
LiveInv ==
    /\ session \in used
    /\ \A p \in sent : p.session = session => p.sequence < next_sequence
    /\ \A p \in sent : p.session \in used
    /\ window.count < RetiredSlots => window.next = window.count
    /\ ~late =>
         /\ window.initialized => window.session \in used
         /\ Retired(window) \subseteq used \ {session}
         /\ window.initialized /\ window.session = session
              => window.highest_sequence < next_sequence

\* Retiring a session adds no other to the ring, which fills slot by slot.
LEMMA RetireAddsOne ==
    ASSUME NEW w \in Window, w.initialized, w.count < RetiredSlots => w.next = w.count
    PROVE  /\ Retired(RetireSession(w)) \subseteq Retired(w) \cup {w.session}
           /\ RetireSession(w).count < RetiredSlots
                => RetireSession(w).next = RetireSession(w).count
<1> USE RetiredAssumption
<1> DEFINE r == RetireSession(w)
<1>1. /\ w.count \in 0 .. RetiredSlots /\ w.next \in 0 .. RetiredSlots - 1
      /\ w.retired \in [0 .. RetiredSlots - 1 -> Session \cup {NoSession}]
  BY DEF Window, RetiredIndex
<1>2. /\ r.retired = [w.retired EXCEPT ![w.next] = w.session]
      /\ r.count = IF w.count < RetiredSlots THEN w.count + 1 ELSE w.count
      /\ r.next = (w.next + 1) % RetiredSlots
  BY DEF RetireSession, Window
<1>3. ASSUME NEW i \in 0 .. r.count - 1 PROVE r.retired[i] \in Retired(w) \cup {w.session}
  <2>1. i \in 0 .. RetiredSlots - 1
    BY <1>1, <1>2
  <2>2. CASE i = w.next
    BY <1>1, <1>2, <2>1, <2>2
  <2>3. CASE i # w.next
    <3>1. i \in 0 .. w.count - 1
      BY <1>1, <1>2, <2>1, <2>3
    <3>2. r.retired[i] = w.retired[i]
      BY <1>1, <1>2, <2>1, <2>3
    <3> QED BY <3>1, <3>2 DEF Retired
  <2> QED BY <2>2, <2>3
<1>4. r.count < RetiredSlots => r.next = r.count
  BY <1>1, <1>2
<1> QED BY <1>3, <1>4 DEF Retired

LEMMA ReceiveKeepsLive ==
    ASSUME TypeOK, LiveInv, NEW p \in sent, Receive(p)
    PROVE  LiveInv'
<1>1. /\ p \in Packet /\ window \in Window /\ Accepts(window, p)
      /\ window' = Accepted(window, p)
      /\ late' = late /\ session' = session /\ used' = used /\ sent' = sent
      /\ next_sequence' = next_sequence
      /\ ~late => p.session = session
  BY DEF TypeOK, Receive
<1>2. CASE ~IsNewSession(window, p)
  <2>1. /\ window'.initialized = window.initialized /\ window'.session = window.session
        /\ window'.retired = window.retired /\ window'.count = window.count
        /\ window'.next = window.next
        /\ window'.highest_sequence \in {window.highest_sequence, p.sequence}
    BY <1>1, <1>2, SameSessionFields
  <2>2. Retired(window') = Retired(window)
    BY <2>1 DEF Retired
  <2>3. window.session = p.session
    BY <1>2 DEF IsNewSession
  <2> QED BY <1>1, <2>1, <2>2, <2>3 DEF LiveInv
<1>3. CASE IsNewSession(window, p)
  <2>1. /\ window'.initialized = TRUE /\ window'.session = p.session
        /\ window'.highest_sequence = p.sequence
        /\ window'.retired = RetireSession(window).retired
        /\ window'.count = RetireSession(window).count
        /\ window'.next = RetireSession(window).next
    BY <1>1, <1>3, StartFields
  <2>2. Retired(window') = Retired(RetireSession(window))
    BY <2>1 DEF Retired
  <2>3. CASE ~window.initialized
    <3>1. RetireSession(window) = window
      BY <2>3 DEF RetireSession
    <3> QED BY <1>1, <2>1, <2>2, <3>1 DEF LiveInv
  <2>4. CASE window.initialized
    <3>1. /\ Retired(window') \subseteq Retired(window) \cup {window.session}
          /\ window'.count < RetiredSlots => window'.next = window'.count
      BY <1>1, <2>1, <2>2, <2>4, RetireAddsOne DEF LiveInv
    <3>2. window.session # p.session
      BY <1>3, <2>4 DEF IsNewSession
    <3> QED BY <1>1, <2>1, <2>4, <3>1, <3>2 DEF LiveInv
  <2> QED BY <2>3, <2>4
<1> QED BY <1>2, <1>3

LEMMA NextLiveInv == TypeOK /\ LiveInv /\ [Next]_vars => LiveInv'
<1> SUFFICES ASSUME TypeOK, LiveInv, [Next]_vars PROVE LiveInv'
  OBVIOUS
<1> USE SequenceAssumption, RetiredAssumption
<1>1. CASE Send
  <2>1. next_sequence \in Nat /\ window.highest_sequence \in Nat
        /\ \A q \in sent : q.sequence \in Nat
    BY DEF TypeOK, Window, Packet
  <2> QED BY <1>1, <2>1 DEF Send, LiveInv
<1>2. ASSUME NEW p \in sent, Receive(p) PROVE LiveInv'
  BY <1>2, ReceiveKeepsLive
<1>3. CASE SenderRestart
  BY <1>3 DEF SenderRestart, LiveInv
<1>4. CASE ReceiverRestart
  <2>1. window'.initialized = FALSE /\ window'.count = 0 /\ window'.next = 0
    BY <1>4 DEF ReceiverRestart, EmptyWindow
  <2>2. Retired(window') = {}
    BY <2>1 DEF Retired
  <2> QED BY <1>4, <2>1, <2>2 DEF ReceiverRestart, LiveInv
<1>5. CASE UNCHANGED vars
  BY <1>5 DEF vars, LiveInv
<1> QED BY <1>1, <1>2, <1>3, <1>4, <1>5 DEF Next

\* A peer that is alive always gets its next packet through, however often both
\* sides restart, as long as packets of an ended session do not arrive late.
THEOREM SenderIsHeard == Spec => []SenderNotShutOut
<1>1. Init => LiveInv
  <2> SUFFICES ASSUME Init PROVE LiveInv
    OBVIOUS
  <2>1. Retired(EmptyWindow) = {}
    BY DEF Retired, EmptyWindow
  <2> QED BY <2>1 DEF Init, LiveInv, EmptyWindow
<1>2. TypeOK /\ LiveInv => SenderNotShutOut
  <2> SUFFICES ASSUME TypeOK, LiveInv, ~late, NEW seq \in next_sequence .. MaxSequence
               PROVE  Accepts(window, [session |-> session, sequence |-> seq])
    BY DEF SenderNotShutOut
  <2>1. next_sequence \in Nat /\ window.highest_sequence \in Nat
    BY DEF TypeOK, Window
  <2> QED BY <2>1 DEF LiveInv, Accepts, IsNewSession
<1> QED BY <1>1, <1>2, InitTypeOK, NextTypeOK, NextLiveInv, PTL DEF Spec

-----------------------------------------------------------------------------
(* The registry of nodes: the inductive invariant. *)

\* What the operator's and the storage's part of the state keeps.
ListInv ==
    /\ RegistryTypeOK
    /\ WellFormed(allow)
    /\ ApprovalsDurable

\* An approved node has a slot, and its serial and address are on the running
\* list.
ApprovedIsListed ==
    \A m \in Mac : approved[m] => m \in Present /\ <<serial[m], m>> \in s_approvals

TrustInv ==
    /\ ListInv
    /\ ApprovedIsListed
    /\ \A m \in Mac : endpoint[m] => approved[m] /\ isolation[m] = "none"

-----------------------------------------------------------------------------
(* The approval list. *)

\* What one step may do to the list.
ListStep ==
    \/ UNCHANGED list
    \/ \E v \in SUBSET Approval : Save(v)
    \/ \E v \in SUBSET Approval : PowerLossInSave(v)
    \/ PowerLoss

LEMMA StepsOfTheList ==
    ASSUME RegistryTypeOK, [RegistryNext]_registry_vars
    PROVE  ListStep
<1> USE DEF RegistryTypeOK, ListStep
<1>1. ASSUME NEW m \in Mac, NEW s \in Serial, ApprovalAdd(s, m) PROVE ListStep
  <2>1. s_approvals \cup {<<s, m>>} \in SUBSET Approval
    BY DEF Approval
  <2> QED BY <1>1, <2>1 DEF ApprovalAdd
<1>2. ASSUME NEW m \in Mac, NEW s \in Serial,
             Hello(m, s) \/ ApproveAbsent(s, m) \/ Approve(s, m) \/ Remove(s, m)
      PROVE  ListStep
  <2>1. CASE Hello(m, s)
    BY <2>1 DEF Hello
  <2>2. CASE ApproveAbsent(s, m)
    BY <1>1, <2>2 DEF ApproveAbsent
  <2>3. CASE Approve(s, m)
    BY <1>1, <2>3 DEF Approve
  <2>4. CASE Remove(s, m)
    <3>1. s_approvals \ {<<s, m>>} \in SUBSET Approval
      OBVIOUS
    <3> QED BY <2>4, <3>1 DEF Remove
  <2> QED BY <1>2, <2>1, <2>2, <2>3, <2>4
<1>3. ASSUME NEW m \in Mac, Expire(m) \/ OtherPacket(m) PROVE ListStep
  BY <1>3 DEF Expire, OtherPacket
<1>4. ASSUME NEW m \in Mac, NEW id \in SystemId \cup {None}, Status(m, id)
      PROVE  ListStep
  BY <1>4 DEF Status
<1>5. ASSUME NEW entry \in Approval,
             \/ PowerLossInSave(s_approvals \cup {entry})
             \/ PowerLossInSave(s_approvals \ {entry})
      PROVE  ListStep
  <2>1. /\ s_approvals \cup {entry} \in SUBSET Approval
        /\ s_approvals \ {entry} \in SUBSET Approval
    OBVIOUS
  <2> QED BY <1>5, <2>1
<1>6. CASE UNCHANGED registry_vars
  BY <1>6 DEF registry_vars
<1> QED BY <1>2, <1>3, <1>4, <1>5, <1>6 DEF RegistryNext

\* The list keeps its type, stays durable, and is never rolled back.
LEMMA ListStepIsSafe ==
    ASSUME RegistryTypeOK, WellFormed(allow), ApprovalsDurable, ListStep
    PROVE  /\ s_approvals' \in SUBSET Approval
           /\ s_approval_generation' \in Nat
           /\ allow' \in Pair
           /\ WellFormed(allow')
           /\ ApprovalsDurable'
           /\ \/ s_approval_generation' > s_approval_generation
              \/ UNCHANGED <<s_approvals, s_approval_generation>>
<1> USE ValueAssumption DEF RegistryTypeOK, ApprovalsDurable
<1>1. CASE UNCHANGED list
  BY <1>1 DEF list
<1>2. ASSUME NEW v \in SUBSET Approval, Save(v)
      PROVE  /\ allow' \in Pair /\ WellFormed(allow')
             /\ Newest(allow') = Stored(v, s_approval_generation + 1)
             /\ s_approvals' = v
             /\ s_approval_generation' = s_approval_generation + 1
  BY <1>2, WrittenType, WrittenIsNewest DEF Save
<1>3. ASSUME NEW p \in Pair, Newest(p) = Newest(allow) \/
             \E v \in Value : Newest(p) = Stored(v, s_approval_generation + 1),
             WellFormed(p), allow' = p, Restart
      PROVE  /\ s_approvals' \in SUBSET Approval
             /\ s_approval_generation' \in Nat
             /\ ApprovalsDurable'
             /\ \/ s_approval_generation' > s_approval_generation
                \/ UNCHANGED <<s_approvals, s_approval_generation>>
  BY <1>3 DEF Restart, Stored
<1>4. CASE PowerLoss
  BY <1>3, <1>4 DEF PowerLoss
<1>5. ASSUME NEW v \in SUBSET Approval, PowerLossInSave(v)
      PROVE  /\ allow' \in Pair /\ WellFormed(allow')
             /\ \/ Newest(allow') = Newest(allow)
                \/ Newest(allow') = Stored(v, s_approval_generation + 1)
             /\ Restart
  <2>1. allow' \in Interrupted(allow, v, s_approval_generation + 1, TRUE)
    BY <1>5 DEF PowerLossInSave
  <2>2. v \in Value /\ s_approval_generation + 1 \in Nat
    OBVIOUS
  <2>3. Interrupted(allow, v, s_approval_generation + 1, TRUE) \subseteq Pair
    BY <2>2, InterruptedType
  <2>4. s_approval_generation + 1 > Newest(allow).generation
    OBVIOUS
  <2>5. /\ WellFormed(allow')
        /\ \/ Newest(allow') = Newest(allow)
           \/ Newest(allow') = Stored(v, s_approval_generation + 1)
    BY <2>1, <2>2, <2>4, InterruptedKeepsNewest
  <2>6. allow' \in Pair
    BY <2>1, <2>3
  <2>7. Restart
    BY <1>5 DEF PowerLossInSave
  <2> QED BY <2>5, <2>6, <2>7
<1>6. CASE \E v \in SUBSET Approval : Save(v)
  BY <1>2, <1>6 DEF Stored
<1>7. CASE \E v \in SUBSET Approval : PowerLossInSave(v)
  <2>1. PICK v \in SUBSET Approval : PowerLossInSave(v)
    BY <1>7
  <2>2. /\ allow' \in Pair /\ WellFormed(allow') /\ Restart
        /\ \/ Newest(allow') = Newest(allow)
           \/ Newest(allow') = Stored(v, s_approval_generation + 1)
    BY <1>5, <2>1
  <2> QED BY <1>3, <2>2
<1> QED BY <1>1, <1>4, <1>6, <1>7 DEF ListStep

-----------------------------------------------------------------------------
(* Type correctness. *)

LEMMA NextRegistryTypeOK ==
    ASSUME RegistryTypeOK, WellFormed(allow), ApprovalsDurable, [RegistryNext]_registry_vars
    PROVE  RegistryTypeOK'
<1>1. /\ s_approvals' \in SUBSET Approval
      /\ s_approval_generation' \in Nat
      /\ allow' \in Pair
  BY StepsOfTheList, ListStepIsSafe
<1>2. Cardinality(Present) \in Nat
  <2>1. IsFiniteSet(Present)
    BY MacAssumption, FS_Subset DEF Present
  <2> QED BY <2>1, FS_CardinalityType
<1> DEFINE NodesOK == /\ rank' \in [Mac -> Nat]
                      /\ serial' \in [Mac -> Serial \cup {None}]
                      /\ approved' \in [Mac -> BOOLEAN]
                      /\ isolation' \in [Mac -> Reason]
                      /\ online' \in [Mac -> BOOLEAN]
                      /\ system_id' \in [Mac -> SystemId \cup {None}]
                      /\ endpoint' \in [Mac -> BOOLEAN]
<1> SUFFICES NodesOK
  BY <1>1 DEF RegistryTypeOK
<1> USE DEF RegistryTypeOK, Reason
<1>3. ASSUME NEW m \in Mac, Seen(m)
      PROVE  rank' \in [Mac -> Nat] /\ online' \in [Mac -> BOOLEAN]
  BY <1>2, <1>3 DEF Seen
<1>4. ASSUME NEW m \in Mac, NEW s \in Serial,
             Hello(m, s) \/ ApproveAbsent(s, m) \/ Approve(s, m) \/ Remove(s, m)
      PROVE  NodesOK
  <2>1. CASE Hello(m, s)
    BY <1>3, <2>1 DEF Hello
  <2>2. CASE ApproveAbsent(s, m)
    BY <2>2 DEF ApproveAbsent, nodes
  <2>3. CASE Approve(s, m)
    BY <2>3 DEF Approve
  <2>4. CASE Remove(s, m)
    BY <2>4 DEF Remove
  <2> QED BY <1>4, <2>1, <2>2, <2>3, <2>4
<1>5. ASSUME NEW m \in Mac, Expire(m) \/ OtherPacket(m) PROVE NodesOK
  BY <1>3, <1>5 DEF Expire, OtherPacket
<1>6. ASSUME NEW m \in Mac, NEW id \in SystemId \cup {None}, Status(m, id)
      PROVE  NodesOK
  BY <1>3, <1>6 DEF Status
<1>7. ASSUME Restart PROVE NodesOK
  BY <1>7 DEF Restart
<1>8. CASE UNCHANGED registry_vars
  BY <1>8 DEF registry_vars, nodes
<1> QED BY <1>4, <1>5, <1>6, <1>7, <1>8 DEF RegistryNext, PowerLoss, PowerLossInSave

LEMMA InitListInv == RegistryInit => ListInv
<1> SUFFICES ASSUME RegistryInit PROVE ListInv
  OBVIOUS
<1>1. \A s \in Slot : EmptyPair[s] = Unreadable
  BY DEF EmptyPair
<1>2. WellFormed(EmptyPair) /\ Newest(EmptyPair) = Unreadable
  BY <1>1 DEF WellFormed, Newest, Slot, Unreadable
<1>3. RegistryTypeOK
  BY RecordTypes, ValueAssumption DEF RegistryInit, RegistryTypeOK, Reason
<1> QED BY <1>2, <1>3, ValueAssumption
        DEF RegistryInit, ListInv, ApprovalsDurable, Unreadable

LEMMA NextListInv == ListInv /\ [RegistryNext]_registry_vars => ListInv'
BY NextRegistryTypeOK, StepsOfTheList, ListStepIsSafe DEF ListInv

\* Every variable keeps the type of its C declaration.
THEOREM RegistryTypeCorrect == RegistrySpec => []RegistryTypeOK
<1>1. ListInv => RegistryTypeOK
  BY DEF ListInv
<1> QED BY <1>1, InitListInv, NextListInv, PTL DEF RegistrySpec

\* The approval list the root works with is always the one a restart would find.
THEOREM ApprovalListIsDurable == RegistrySpec => []ApprovalsDurable
<1>1. ListInv => ApprovalsDurable
  BY DEF ListInv
<1> QED BY <1>1, InitListInv, NextListInv, PTL DEF RegistrySpec

\* No approval and no removal is ever undone by a power loss.
THEOREM ApprovalListNeverRollsBack == RegistrySpec => ApprovalsNeverRollBack
<1>1. ListInv /\ [RegistryNext]_registry_vars
      => [ \/ s_approval_generation' > s_approval_generation
           \/ UNCHANGED <<s_approvals, s_approval_generation>> ]_registry_vars
  BY StepsOfTheList, ListStepIsSafe DEF ListInv
<1> QED BY <1>1, InitListInv, NextListInv, PTL DEF RegistrySpec, ApprovalsNeverRollBack

-----------------------------------------------------------------------------
(* Who feeds the bus. *)

LEMMA NextTrustInv == TrustInv /\ [RegistryNext]_registry_vars => TrustInv'
<1> SUFFICES ASSUME TrustInv, [RegistryNext]_registry_vars PROVE TrustInv'
  OBVIOUS
<1> DEFINE Trusted == /\ ApprovedIsListed
                      /\ \A m \in Mac : endpoint[m] => approved[m] /\ isolation[m] = "none"
<1>1. ListInv'
  BY NextListInv DEF TrustInv
<1> SUFFICES Trusted'
  BY <1>1 DEF TrustInv
<1> USE DEF TrustInv, ListInv, RegistryTypeOK, ApprovedIsListed
<1> DEFINE Ranked == \A n \in Mac : rank[n] > 0 => rank'[n] > 0
<1>11. Cardinality(Present) \in Nat
  <2>1. IsFiniteSet(Present)
    BY MacAssumption, FS_Subset DEF Present
  <2> QED BY <2>1, FS_CardinalityType
<1>12. ASSUME NEW m \in Mac, Seen(m) PROVE Ranked /\ rank'[m] > 0
  BY <1>11, <1>12 DEF Seen, Present
<1>2. ASSUME NEW m \in Mac, NEW s \in Serial, Hello(m, s) PROVE Trusted'
  BY <1>2, <1>12 DEF Hello, list, Present
<1>3. ASSUME NEW m \in Mac, NEW s \in Serial, ApprovalAdd(s, m)
      PROVE  s_approvals \subseteq s_approvals' /\ <<s, m>> \in s_approvals'
  BY <1>3 DEF ApprovalAdd, Save, list
<1>4. ASSUME NEW m \in Mac, NEW s \in Serial, ApproveAbsent(s, m) PROVE Trusted'
  BY <1>3, <1>4 DEF ApproveAbsent, nodes, Present
<1>5. ASSUME NEW m \in Mac, NEW s \in Serial, Approve(s, m) PROVE Trusted'
  BY <1>3, <1>5 DEF Approve, Present
<1>6. ASSUME NEW m \in Mac, NEW s \in Serial, Remove(s, m) PROVE Trusted'
  <2>1. s_approvals' = s_approvals \ {<<s, m>>} /\ serial' = serial
    BY <1>6 DEF Remove, Save
  <2>2. CASE m \in Present
    BY <1>6, <2>1, <2>2 DEF Remove, Present
  <2>3. CASE m \notin Present
    <3>1. approved' = approved /\ isolation' = isolation /\ endpoint' = endpoint
      BY <1>6, <2>3 DEF Remove
    <3>2. rank' = rank
      BY <1>6 DEF Remove
    <3> QED BY <2>1, <2>3, <3>1, <3>2 DEF Present
  <2> QED BY <2>2, <2>3
<1>7. ASSUME NEW m \in Mac, Expire(m) \/ OtherPacket(m) PROVE Trusted'
  BY <1>7, <1>12 DEF Expire, OtherPacket, list, Present
<1>8. ASSUME NEW m \in Mac, NEW id \in SystemId \cup {None}, Status(m, id)
      PROVE  Trusted'
  BY <1>8, <1>12 DEF Status, list, Present
<1>9. ASSUME Restart PROVE Trusted'
  BY <1>9 DEF Restart
<1>10. CASE UNCHANGED registry_vars
  BY <1>10 DEF registry_vars, nodes, list, Present
<1> QED BY <1>2, <1>4, <1>5, <1>6, <1>7, <1>8, <1>9, <1>10
        DEF RegistryNext, PowerLoss, PowerLossInSave

\* However packets, operator commands and power losses interleave, an endpoint on
\* the MAVLink bus belongs to a node that is approved, durably, and not isolated.
THEOREM BusIsTrusted == RegistrySpec => []OnlyTrustedFeedTheBus
<1>1. RegistryInit => TrustInv
  BY InitListInv DEF RegistryInit, TrustInv, ApprovedIsListed
<1>2. TrustInv => OnlyTrustedFeedTheBus
  BY DEF TrustInv, ListInv, ApprovedIsListed, ApprovalsDurable, OnlyTrustedFeedTheBus
<1> QED BY <1>1, <1>2, NextTrustInv, PTL DEF RegistrySpec

-----------------------------------------------------------------------------
(* Which node of a clashing pair is isolated. *)

\* The slots are numbered in the order in which they were taken.
RanksDistinct ==
    /\ \A m \in Mac : rank[m] <= Cardinality(Present)
    /\ \A m, n \in Present : rank[m] = rank[n] => m = n

OrderInv == TrustInv /\ RanksDistinct

LEMMA PresentIsFinite ==
    /\ IsFiniteSet(Present)
    /\ Cardinality(Present) \in Nat
    /\ \A m \in Mac \ Present :
           Cardinality(Present \cup {m}) = Cardinality(Present) + 1
<1>1. IsFiniteSet(Present)
  BY MacAssumption, FS_Subset DEF Present
<1> QED BY <1>1, FS_CardinalityType, FS_AddElement

LEMMA NextRanksDistinct ==
    ASSUME RegistryTypeOK, RanksDistinct, [RegistryNext]_registry_vars
    PROVE  RanksDistinct'
<1> USE DEF RegistryTypeOK
<1>1. CASE UNCHANGED rank
  BY <1>1 DEF RanksDistinct, Present
<1>2. ASSUME NEW m \in Mac, Seen(m) PROVE RanksDistinct'
  <2>1. CASE m \in Present
    BY <1>1, <1>2, <2>1 DEF Seen
  <2>2. CASE m \notin Present
    <3>1. rank' = [rank EXCEPT ![m] = Cardinality(Present) + 1]
      BY <1>2, <2>2 DEF Seen
    <3>2. Present' = Present \cup {m}
      BY <3>1, PresentIsFinite DEF Present
    <3>3. Cardinality(Present') = Cardinality(Present) + 1
      BY <2>2, <3>2, PresentIsFinite
    <3>4. \A n \in Mac : rank'[n] = IF n = m THEN Cardinality(Present) + 1 ELSE rank[n]
      BY <3>1
    <3>5. \A n \in Mac : rank'[n] <= Cardinality(Present')
      BY <3>3, <3>4, PresentIsFinite DEF RanksDistinct
    <3>6. ASSUME NEW n \in Present', NEW o \in Present', rank'[n] = rank'[o]
          PROVE  n = o
      <4>1. n \in Mac /\ o \in Mac
        BY DEF Present
      <4>2. CASE n \in Present /\ o \in Present
        <5>1. rank[n] = rank[o]
          BY <2>2, <3>4, <3>6, <4>1, <4>2
        <5> QED BY <4>2, <5>1 DEF RanksDistinct
      <4>3. \A k \in Present : rank'[k] < Cardinality(Present) + 1
        BY <2>2, <3>4, PresentIsFinite DEF RanksDistinct, Present
      <4>4. rank'[m] = Cardinality(Present) + 1
        BY <3>4
      <4>5. (n = m \/ n \in Present) /\ (o = m \/ o \in Present)
        BY <3>2
      <4> QED BY <3>6, <4>2, <4>3, <4>4, <4>5, PresentIsFinite
    <3> QED BY <3>5, <3>6 DEF RanksDistinct
  <2> QED BY <2>1, <2>2
<1>3. ASSUME Restart PROVE RanksDistinct'
  <2>1. Present' = {}
    BY <1>3 DEF Restart, Present
  <2>2. Cardinality(Present') = 0
    BY <2>1, FS_EmptySet
  <2> QED BY <1>3, <2>1, <2>2 DEF Restart, RanksDistinct
<1>4. ASSUME NEW m \in Mac, NEW s \in Serial,
             Hello(m, s) \/ ApproveAbsent(s, m) \/ Approve(s, m) \/ Remove(s, m)
      PROVE  RanksDistinct'
  BY <1>1, <1>2, <1>4 DEF Hello, ApproveAbsent, Approve, Remove, nodes
<1>5. ASSUME NEW m \in Mac, Expire(m) \/ OtherPacket(m) PROVE RanksDistinct'
  BY <1>1, <1>2, <1>5 DEF Expire, OtherPacket
<1>6. ASSUME NEW m \in Mac, NEW id \in SystemId \cup {None}, Status(m, id)
      PROVE  RanksDistinct'
  BY <1>2, <1>6 DEF Status
<1>7. CASE UNCHANGED registry_vars
  BY <1>1, <1>7 DEF registry_vars, nodes
<1> QED BY <1>3, <1>4, <1>5, <1>6, <1>7 DEF RegistryNext, PowerLoss, PowerLossInSave

LEMMA NextOrderInv == OrderInv /\ [RegistryNext]_registry_vars => OrderInv'
BY NextTrustInv, NextRanksDistinct DEF OrderInv, TrustInv, ListInv

\* Whoever refresh_duplicate_isolation picks came after an approved node with the
\* same system id, once the candidate has a slot.
LEMMA IsolatedCameLater ==
    ASSUME RegistryTypeOK, RanksDistinct,
           NEW c \in Present, NEW id \in SystemId, NEW m \in Isolated(c, id, TRUE)
    PROVE  \/ /\ m \in Rivals(c, id)
              /\ rank[c] \in 1 .. rank[m] - 1
           \/ /\ m = c
              /\ \E r \in Rivals(c, id) : rank[r] \in 1 .. rank[m] - 1
<1> USE DEF RegistryTypeOK
<1>1. CASE m \in Rivals(c, id) /\ rank[m] > rank[c]
  BY <1>1 DEF Rivals, Present
<1>2. CASE m = c /\ \E r \in Rivals(c, id) : rank[r] <= rank[m]
  <2>1. PICK r \in Rivals(c, id) : rank[r] <= rank[m]
    BY <1>2
  <2>2. r \in Present /\ r # m
    BY <1>2, <2>1 DEF Rivals
  <2>3. rank[r] # rank[m]
    BY <1>2, <2>2 DEF RanksDistinct
  <2> QED BY <1>2, <2>1, <2>2, <2>3 DEF Present
<1> QED BY <1>1, <1>2 DEF Isolated

\* The step in which a node becomes isolated for its system id: somebody who was
\* there before it, and is approved, has the same id.
CameLater(m) ==
    \E n \in Mac : /\ rank'[n] \in 1 .. rank'[m] - 1
                  /\ approved'[n] /\ system_id'[n] = system_id'[m]

NewlyIsolated(m) ==
    isolation[m] # "duplicate_system_id" /\ isolation'[m] = "duplicate_system_id"

LEMMA IsolationIsJustified ==
    ASSUME OrderInv, [RegistryNext]_registry_vars,
           NEW m \in Mac, NewlyIsolated(m)
    PROVE  CameLater(m)
<1> USE DEF OrderInv, TrustInv, ListInv, RegistryTypeOK
<1>1. ASSUME NEW c \in Mac, NEW s \in Serial, Approve(s, c) PROVE CameLater(m)
  <2>1. m \in Isolated(c, system_id[c], TRUE)
    BY <1>1 DEF Approve, NewlyIsolated
  <2>2. c \in Present /\ system_id[c] \in SystemId
    BY <1>1, <2>1 DEF Approve, Isolated
  <2>3. \/ m \in Rivals(c, system_id[c]) /\ rank[c] \in 1 .. rank[m] - 1
        \/ m = c /\ \E r \in Rivals(c, system_id[c]) : rank[r] \in 1 .. rank[m] - 1
    BY <2>1, <2>2, IsolatedCameLater
  <2>4. /\ rank' = rank /\ system_id' = system_id
        /\ \A n \in Mac : approved'[n] = (n = c \/ approved[n])
    BY <1>1 DEF Approve
  <2> QED BY <2>3, <2>4 DEF Rivals, Present, CameLater
<1>2. ASSUME NEW c \in Mac, NEW id \in SystemId \cup {None}, Status(c, id)
      PROVE  CameLater(m)
  <2>1. m \in Isolated(c, id, approved[c])
    BY <1>2 DEF Status, NewlyIsolated
  <2>2. approved[c] = TRUE /\ id \in SystemId
    BY <2>1 DEF Isolated
  <2>3. c \in Present
    BY <2>2 DEF ApprovedIsListed
  <2>4. m \in Isolated(c, id, TRUE)
    BY <2>1, <2>2
  <2>5. \/ m \in Rivals(c, id) /\ rank[c] \in 1 .. rank[m] - 1
        \/ m = c /\ \E r \in Rivals(c, id) : rank[r] \in 1 .. rank[m] - 1
    BY <2>2, <2>3, <2>4, IsolatedCameLater
  <2>6. /\ rank' = rank /\ approved' = approved
        /\ \A n \in Mac : system_id'[n] = IF n = c THEN id ELSE system_id[n]
    BY <1>2, <2>3 DEF Status, Seen
  <2> QED BY <2>2, <2>5, <2>6 DEF Rivals, Present, CameLater
<1>3. ASSUME NEW c \in Mac, NEW s \in Serial,
             Hello(c, s) \/ ApproveAbsent(s, c) \/ Remove(s, c)
      PROVE  FALSE
  BY <1>3 DEF Hello, ApproveAbsent, Remove, nodes, NewlyIsolated
<1>4. ASSUME NEW c \in Mac, Expire(c) \/ OtherPacket(c) PROVE FALSE
  BY <1>4 DEF Expire, OtherPacket, NewlyIsolated
<1>5. ASSUME Restart PROVE FALSE
  BY <1>5 DEF Restart, NewlyIsolated
<1>6. CASE UNCHANGED registry_vars
  BY <1>6 DEF registry_vars, nodes, NewlyIsolated
<1> QED BY <1>1, <1>2, <1>3, <1>4, <1>5, <1>6
        DEF RegistryNext, PowerLoss, PowerLossInSave

\* Duplicate isolation never hits the node that was there first, for any number
\* of nodes, approvals, removals, silences and restarts.
THEOREM FirstNodeIsSpared == RegistrySpec => LaterNodeIsIsolated
<1>1. RegistryInit => OrderInv
  <2>1. RegistryInit => Present = {}
    BY DEF RegistryInit, Present
  <2>2. RegistryInit => TrustInv
    BY InitListInv DEF RegistryInit, TrustInv, ApprovedIsListed
  <2>3. RegistryInit => RanksDistinct
    BY <2>1, FS_EmptySet DEF RegistryInit, RanksDistinct
  <2> QED BY <2>2, <2>3 DEF OrderInv
<1>2. OrderInv /\ [RegistryNext]_registry_vars
      => [ \A m \in Mac :
             isolation[m] # "duplicate_system_id" /\ isolation'[m] = "duplicate_system_id"
             => \E n \in Mac : /\ rank'[n] \in 1 .. rank'[m] - 1
                               /\ approved'[n] /\ system_id'[n] = system_id'[m] ]_registry_vars
  BY IsolationIsJustified DEF NewlyIsolated, CameLater
<1> QED BY <1>1, <1>2, NextOrderInv, PTL DEF RegistrySpec, LaterNodeIsIsolated

=============================================================================
