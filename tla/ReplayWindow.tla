---------------------------- MODULE ReplayWindow ----------------------------
(***************************************************************************)
(* One authenticated packet stream of the AirLink mesh: the sender's       *)
(* sequence counter (airlink_mesh_encode), a radio network that loses,     *)
(* delays, reorders and repeats packets, and the receiver's replay window  *)
(* (replay_accept, called by airlink_mesh_decode_ex after the packet has   *)
(* been authenticated).                                                    *)
(*                                                                         *)
(* Failures covered: the sender restarts and draws a fresh random session  *)
(* id (airlink_mesh_start); the receiver restarts and forgets its window;  *)
(* packets of an earlier session arrive late.                              *)
(*                                                                         *)
(* The window belongs to one peer.  On the ground root rx_task picks it by *)
(* the link address and requires header.source to be that address, and an  *)
(* air node hears one fixed root, so the "new sender" branch of            *)
(* replay_accept is taken exactly when the window is not initialized.      *)
(* The 64-bit bitmap is the set of distances whose bit is 1; bits shifted  *)
(* out at the top are dropped, as in the code.                             *)
(***************************************************************************)
EXTENDS Integers, FiniteSets

CONSTANTS
    Session,        \* the random 128-bit session ids the sender may draw
    NoSession,      \* content of an unused slot of the retired ring
    MaxSequence,    \* the value at which next_sequence refuses to go on (UINT64_MAX)
    WindowSize,     \* 64: number of bits of seen_bitmap
    RetiredSlots,   \* 3: length of retired_session_ids
    LateRestarts    \* bound: restarts of the sender while packets of an ended session
                    \* can still arrive

ASSUME SessionAssumption  == IsFiniteSet(Session) /\ NoSession \notin Session
ASSUME SequenceAssumption == MaxSequence \in Nat \ {0}
ASSUME WindowAssumption   == WindowSize \in Nat \ {0}
ASSUME RetiredAssumption  == RetiredSlots \in Nat \ {0}
ASSUME LateAssumption     == LateRestarts \in Nat

VARIABLES
    late,           \* whether packets of an ended session can still arrive
    session,        \* session id of the sender's running firmware
    used,           \* session ids drawn so far (they are never drawn again)
    next_sequence,  \* sequence number of the next packet of that session
    sent,           \* every packet ever put on the air: it may arrive at any
                    \* later time, any number of times, or never
    window,         \* the receiver's airlink_mesh_replay_window_t
    heard,          \* packets accepted since the receiver started
    repeats         \* packets accepted again after having been heard

vars == <<late, session, used, next_sequence, sent, window, heard, repeats>>

Packet == [session : Session, sequence : 1 .. MaxSequence]
Distance == 0 .. WindowSize - 1
RetiredIndex == 0 .. RetiredSlots - 1

Window ==
    [ initialized      : BOOLEAN,
      session          : Session \cup {NoSession},
      highest_sequence : 0 .. MaxSequence,
      seen             : SUBSET Distance,
      retired          : [RetiredIndex -> Session \cup {NoSession}],
      count            : 0 .. RetiredSlots,
      next             : RetiredIndex ]

EmptyWindow ==
    [ initialized      |-> FALSE,
      session          |-> NoSession,
      highest_sequence |-> 0,
      seen             |-> {},
      retired          |-> [i \in RetiredIndex |-> NoSession],
      count            |-> 0,
      next             |-> 0 ]

-----------------------------------------------------------------------------
(* The window algorithm. *)

\* The session ids the window still remembers as ended.
Retired(w) == {w.retired[i] : i \in 0 .. w.count - 1}

IsNewSession(w, p) == ~w.initialized \/ w.session # p.session

\* Mutant: a new session is not looked up in the ring.
AcceptsRetired(w, p) ==
    \/ IsNewSession(w, p)
    \/ p.sequence > w.highest_sequence
    \/ LET distance == w.highest_sequence - p.sequence
       IN  distance < WindowSize /\ distance \notin w.seen

\* The test part of replay_accept.
Accepts(w, p) ==
    IF IsNewSession(w, p)
    THEN p.session \notin Retired(w)
    ELSE \/ p.sequence > w.highest_sequence
         \/ LET distance == w.highest_sequence - p.sequence
            IN  distance < WindowSize /\ distance \notin w.seen

\* Ending the running session: its id goes into the ring, over the oldest one.
RetireSession(w) ==
    IF w.initialized
    THEN [w EXCEPT !.retired[w.next] = w.session,
                   !.count = IF @ < RetiredSlots THEN @ + 1 ELSE @,
                   !.next = (@ + 1) % RetiredSlots]
    ELSE w

\* Mutant: the highest sequence number of the old session is kept.
StartKeepingHighest(w, p) ==
    [RetireSession(w) EXCEPT !.initialized = TRUE,
                             !.session = p.session,
                             !.highest_sequence = IF @ > p.sequence THEN @ ELSE p.sequence,
                             !.seen = {0}]

StartSession(w, p) ==
    [RetireSession(w) EXCEPT !.initialized = TRUE,
                             !.session = p.session,
                             !.highest_sequence = p.sequence,
                             !.seen = {0}]

\* Mutant: the bitmap is not shifted.
ShiftedBy0(seen, distance) == {0} \cup seen

\* A packet beyond the highest one shifts the bitmap up by the distance.
Shifted(seen, distance) ==
    {d \in Distance : d = 0 \/ (d >= distance /\ d - distance \in seen)}

\* The window after an accepted packet.
Accepted(w, p) ==
    IF IsNewSession(w, p)
    THEN StartSession(w, p)
    ELSE IF p.sequence > w.highest_sequence
         THEN [w EXCEPT !.seen = Shifted(@, p.sequence - w.highest_sequence),
                        !.highest_sequence = p.sequence]
         ELSE [w EXCEPT !.seen = @ \cup {w.highest_sequence - p.sequence}]

-----------------------------------------------------------------------------
(* The state machine. *)

Init ==
    /\ late \in BOOLEAN
    /\ session \in Session
    /\ used = {session}
    /\ next_sequence = 1
    /\ sent = {}
    /\ window = EmptyWindow
    /\ heard = {}
    /\ repeats = {}

\* airlink_mesh_encode: stamp the packet and advance the counter.
Send ==
    /\ next_sequence < MaxSequence
    /\ sent' = sent \cup {[session |-> session, sequence |-> next_sequence]}
    /\ next_sequence' = next_sequence + 1
    /\ UNCHANGED <<late, session, used, window, heard, repeats>>

\* airlink_mesh_decode_ex on an authentic packet.  A refused packet is dropped
\* and leaves the window as it was (DECODE_REPLAY).
Receive(p) ==
    /\ late \/ p.session = session
    /\ Accepts(window, p)
    /\ window' = Accepted(window, p)
    /\ heard' = heard \cup {p}
    /\ repeats' = repeats \cup (heard \cap {p})
    /\ UNCHANGED <<late, session, used, next_sequence, sent>>

\* The sender reboots: airlink_mesh_start draws a new session and restarts at 1.
SenderRestart ==
    /\ late => Cardinality(used) <= LateRestarts
    /\ \E s \in Session \ used :
         /\ session' = s
         /\ used' = used \cup {s}
    /\ next_sequence' = 1
    /\ UNCHANGED <<late, sent, window, heard, repeats>>

\* The receiver reboots: the window is a static variable and starts at zero.
ReceiverRestart ==
    /\ window.initialized
    /\ window' = EmptyWindow
    /\ heard' = {}
    /\ UNCHANGED <<late, session, used, next_sequence, sent, repeats>>

Next ==
    \/ Send
    \/ \E p \in sent : Receive(p)
    \/ SenderRestart
    \/ ReceiverRestart

Spec == Init /\ [][Next]_vars

-----------------------------------------------------------------------------
(* Properties. *)

\* Every variable keeps the shape of its C declaration.
TypeOK ==
    /\ late \in BOOLEAN
    /\ session \in Session
    /\ used \subseteq Session
    /\ next_sequence \in 1 .. MaxSequence
    /\ sent \subseteq Packet
    /\ window \in Window
    /\ heard \subseteq Packet
    /\ repeats \subseteq Packet

\* A packet is processed at most once by one run of the receiver, however often
\* and however late the network delivers it (replay_accept).  The ring of
\* retired sessions remembers RetiredSlots ids, so this needs the sender to
\* restart at most RetiredSlots times during that run.
NoRepeat == repeats = {}

\* A first copy is never mistaken for a repeat: a packet of the running session
\* that has not been heard and lies within the window is accepted, whatever the
\* order of arrival (the bitmap shift of replay_accept keeps exactly the bits of
\* packets that were heard).
FirstCopyAccepted ==
    \A p \in sent :
        ( /\ window.initialized /\ p.session = window.session
          /\ p \notin heard
          /\ window.highest_sequence < p.sequence + WindowSize )
        => Accepts(window, p)

\* The receiver never shuts out the peer that is alive: the sender's running
\* session is not among the retired ones, so its next packet gets through.  It
\* needs packets of an ended session to be gone when the new session starts:
\* an unseen packet of an ended session that arrives after the new session's
\* first one retires the new session for good.
SenderNotShutOut ==
    ~late => \A seq \in next_sequence .. MaxSequence :
        Accepts(window, [session |-> session, sequence |-> seq])
=============================================================================
