-------------------------- MODULE TelemetryProofs ---------------------------
(***************************************************************************)
(* Proofs about Telemetry for any number of clients and connections, any   *)
(* sizes of queues, buffers and rings, and every environment.  The second  *)
(* half is about the order of frames: what is on its way through a link    *)
(* follows what was routed, precedes what waits, and links are served in   *)
(* the order of the backlog.                                               *)
(***************************************************************************)
EXTENDS Telemetry, SequenceTheorems, FiniteSetTheorems, WellFoundedInduction, TLAPS

-----------------------------------------------------------------------------
(* The inductive invariant, part by part. *)

\* No frame of a flight controller comes from system 0.
AnyFrame == {f \in [number : Nat, system : Nat, heartbeat : Heartbeat] :
                IsAutopilot(f) => f.system # 0}
HalfFrame == [frame : AnyFrame, part : {"head", "tail"}]
Parser == {<<>>} \cup {<<half>> : half \in HalfFrame}
Noted == [frame : AnyFrame, time : Nat]
Seen == [frame : AnyFrame, time : Nat, routed : BOOLEAN]
Queued == [frame : AnyFrame, link : Links \cup {0}]
BridgeState == [socket : Links \cup {0}, connected : BOOLEAN,
                at : {"loop", "registered", "unregistered"},
                tx_queue : Seq(Queued), pending : Seq(HalfFrame)]

TcpClient == [used : BOOLEAN, link : Links \cup {0}, has_queue : BOOLEAN,
              tx_queue : Seq(AnyFrame), pending : Seq(HalfFrame)]
TaskState == [at : {"loop", "accepted", "unregistered", "counting", "expired"},
              slot : Nat, datagram : Seq(HalfFrame)]
Link == [station : {"none", "ground", "other"}, peer : BOOLEAN,
         air : {"closed", "waiting", "open"}, down : Seq(HalfFrame), up : Seq(HalfFrame)]
UdpClient == [used : BOOLEAN, address : Nat, failures : Nat]

\* Types of the routers; a unit that is armed knows whose word that is.
RouterInv ==
    /\ now \in Nat
    /\ DOMAIN s_endpoints = Units
    /\ \A u \in Units : \A e \in Registered(u) : s_endpoints[u][e] \in Parser
    /\ s_dedup \in [Units -> Seq(Noted)]
    /\ s_fc_system_id \in [Units -> Nat]
    /\ s_fc_armed \in [Units -> BOOLEAN]
    /\ network \in [Units -> Seq(Seen)]
    /\ \A u \in Units : s_fc_armed[u] => s_fc_system_id[u] # 0

OutsideInv ==
    /\ environment \in Environments
    /\ fc \in [sent : Nat, frame : AnyFrame, whole : BOOLEAN]
    /\ gcs \in Nat /\ faults \in Nat
    /\ delivered \in [Units -> Seq(AnyFrame)]

\* The links, and who waits for accept.
LinkInv ==
    /\ link \in [Links -> Link]
    /\ backlog \in Seq(Links)

\* The clients of the air unit: the router knows exactly those in use, except while the
\* network task makes or deletes one.
ClientInv ==
    /\ client \in [Slots -> TcpClient]
    /\ udp \in [UdpSlots -> UdpClient]
    /\ task \in TaskState
    /\ task.at \in {"accepted", "unregistered"} => task.slot \in Slots
    /\ task.at \in {"counting", "expired"} => task.slot \in UdpSlots
    /\ \A i \in Slots : client[i].used => client[i].has_queue /\ client[i].link \in Links
    /\ task.at \in {"accepted", "unregistered"} => client[task.slot].used
    /\ \A i \in Slots :
           Tcp(i) \in Registered("air") <=>
               client[i].used /\ ~(task.at \in {"accepted", "unregistered"} /\ task.slot = i)
    /\ task.at = "counting" => udp[task.slot].used
    /\ \A i \in UdpSlots :
           Udp(i) \in Registered("air") <=> udp[i].used /\ ~(task.at = "expired" /\ task.slot = i)
    /\ Uart \in Registered("air")

\* The bridge of the ground unit: it is an endpoint while it has a connection, and its
\* queue holds packets of that connection only.
BridgeInv ==
    /\ bridge \in BridgeState
    /\ bridge.socket = 0 => ~bridge.connected /\ bridge.at = "loop"
    /\ bridge.at = "registered" => ~bridge.connected
    /\ ~bridge.connected => bridge.tx_queue = <<>>
    /\ \A k \in DOMAIN bridge.tx_queue : bridge.tx_queue[k].link = bridge.socket
    /\ Bridge \in Registered("ground") <=> bridge.socket # 0 /\ bridge.at # "unregistered"
    /\ Usb \in Registered("ground")
    /\ sta \in {"connecting", "connected", "waiting"} /\ attempts \in Nat

TelemetryInv == RouterInv /\ OutsideInv /\ LinkInv /\ ClientInv /\ BridgeInv

-----------------------------------------------------------------------------
(* Recursion over the halves of a read. *)

\* A non-empty set of naturals has a least element.
LEMMA LeastNat ==
    ASSUME NEW T, T \subseteq Nat, T # {}
    PROVE  \E x \in T : \A y \in T : x <= y
<1>1. PICK x \in T : \A y \in T : ~(<<y, x>> \in OpToRel(<, Nat))
  BY NatLessThanWellFounded, WFMin
<1>2. \A y \in T : ~(y < x)
  BY <1>1 DEF OpToRel
<1> QED
  BY <1>2

\* The steps, one after the other, lead from base through S.
CanRun(n, S, base, step) ==
    \E f \in [0..n -> S] : f[0] = base /\ \A k \in 1..n : f[k] = step[k][f[k - 1]]

\* Steps that stay in S can be run one after the other.
LEMMA RunExists ==
    ASSUME NEW n \in Nat, NEW S, NEW base \in S, NEW step \in [1..n -> [S -> S]]
    PROVE  CanRun(n, S, base, step)
<1> DEFINE Runs(m) == CanRun(m, S, base, step)
           T == {m \in 0..n : ~Runs(m)}
<1> USE DEF CanRun
<1>1. T = {}
  <2> SUFFICES ASSUME T # {} PROVE FALSE
    OBVIOUS
  <2>1. T \subseteq Nat
    OBVIOUS
  <2>2. PICK m \in T : \A y \in T : m <= y
    <3> HIDE DEF Runs
    <3> QED BY <2>1, LeastNat
  <2>3. m # 0
    <3> DEFINE first == [k \in 0..0 |-> base]
    <3>1. first \in [0..0 -> S] /\ first[0] = base /\ 1..0 = {}
      OBVIOUS
    <3>2. Runs(0)
      <4> HIDE DEF first
      <4> QED BY <3>1
    <3> QED
      BY <2>2, <3>2
  <2>4. m \in 1..n /\ m - 1 \in 0..n /\ m - 1 \notin T
    <3> HIDE DEF Runs
    <3>1. m \in 1..n /\ m - 1 \in 0..n /\ ~(m <= m - 1)
      BY <2>2, <2>3
    <3> QED BY <2>2, <3>1
  <2>5. PICK f \in [0..m - 1 -> S] :
             f[0] = base /\ \A k \in 1..m - 1 : f[k] = step[k][f[k - 1]]
    BY <2>4
  <2> DEFINE longer == [k \in 0..m |-> IF k = m THEN step[m][f[m - 1]] ELSE f[k]]
  <2>6. longer \in [0..m -> S]
    BY <2>4, <2>5
  <2>7. longer[0] = base /\ \A k \in 1..m : longer[k] = step[k][longer[k - 1]]
    BY <2>4, <2>5
  <2>8. Runs(m)
    <3> HIDE DEF longer
    <3> QED BY <2>6, <2>7
  <2> QED
    BY <2>2, <2>8
<1>2. Runs(n)
  <2> HIDE DEF Runs
  <2> QED BY <1>1
<1> QED
  BY <1>2

\* What every step of the loop in airlink_router_ingest keeps, the loop keeps.
LEMMA OutcomeIn ==
    ASSUME NEW u, NEW e, NEW Half, NEW halves \in Seq(Half), NEW look,
           NEW Good, Before(u, e) \in Good,
           \A state \in Good, half \in Half : ParseHalf(state, e, half, look) \in Good
    PROVE  Outcome(u, e, halves, look) \in Good
<1> DEFINE n == Len(halves)
           IsPass(f) == f = [k \in 0..n |-> IF k = 0 THEN Before(u, e)
                                            ELSE ParseHalf(f[k - 1], e, halves[k], look)]
           state == CHOOSE f : IsPass(f)
<1>1. n \in Nat /\ \A k \in 1..n : halves[k] \in Half
  BY LenProperties
<1>2. \E f : IsPass(f)
  <2> DEFINE step == [k \in 1..n |-> [s \in Good |-> ParseHalf(s, e, halves[k], look)]]
  <2>1. step \in [1..n -> [Good -> Good]]
    BY <1>1
  <2>2. PICK f \in [0..n -> Good] : f[0] = Before(u, e) /\ \A k \in 1..n : f[k] = step[k][f[k - 1]]
    <3> HIDE DEF step, n
    <3>1. CanRun(n, Good, Before(u, e), step)
      BY <1>1, <2>1, RunExists
    <3> QED BY <3>1 DEF CanRun
  <2>3. \A k \in 0..n : f[k] = IF k = 0 THEN Before(u, e)
                               ELSE ParseHalf(f[k - 1], e, halves[k], look)
    <3> SUFFICES ASSUME NEW k \in 0..n, k # 0
                 PROVE  f[k] = ParseHalf(f[k - 1], e, halves[k], look)
      BY <2>2
    <3>1. k \in 1..n /\ k - 1 \in 0..n /\ f[k - 1] \in Good
      BY <1>1, <2>2
    <3> QED BY <2>2, <3>1
  <2>4. IsPass(f)
    BY <2>2, <2>3
  <2> QED
    BY <2>4
<1>3. IsPass(state)
  <2> HIDE DEF IsPass
  <2> QED BY <1>2
<1>4. \A k \in 0..n : state[k] \in Good
  <2> DEFINE T == {k \in 0..n : state[k] \notin Good}
  <2> SUFFICES ASSUME T # {} PROVE FALSE
    OBVIOUS
  <2>1. PICK k \in T : \A y \in T : k <= y
    <3>1. T \subseteq Nat
      BY <1>1
    <3> HIDE DEF T
    <3> QED BY <3>1, LeastNat
  <2>2. \A j \in 0..n : state[j] = IF j = 0 THEN Before(u, e)
                                   ELSE ParseHalf(state[j - 1], e, halves[j], look)
    <3> HIDE DEF state
    <3> QED BY <1>3
  <2> HIDE DEF state
  <2>3. k # 0
    BY <2>1, <2>2
  <2>4. k \in 1..n /\ k - 1 \in 0..n /\ state[k - 1] \in Good
    BY <1>1, <2>1, <2>3
  <2> QED
    BY <1>1, <2>1, <2>2, <2>3, <2>4
<1>5. Outcome(u, e, halves, look) = state[n]
  BY DEF Outcome
<1> QED
  BY <1>1, <1>4, <1>5
-----------------------------------------------------------------------------
(* The parser and the loop of airlink_router_ingest keep their types. *)

\* What the loop works on.
LoopState ==
    {state \in [parser : Parser, dedup : Seq(Noted), system : Nat, armed : BOOLEAN,
                seen : Seq(Seen), passed : Seq(AnyFrame)] :
        state.armed => state.system # 0}

\* What two halves make that are let through.
Finished(first, second) == IF Intact(first, second) THEN first.frame ELSE Garbage

\* A half that completes a frame, or what the parser takes for one.
LEMMA ParseCompletes ==
    ASSUME NEW state, state.parser # <<>>, NEW e, NEW half, NEW look
    PROVE  LET idle == [state EXCEPT !.parser = <<>>]
               done == Complete(idle, e, Finished(state.parser[1], half))
           IN  /\ ParseHalf(state, e, half, look) \in {idle, done}
               /\ Intact(state.parser[1], half) => ParseHalf(state, e, half, look) = done
               /\ ~Intact(state.parser[1], half) /\ ~look.unknown_id =>
                      ParseHalf(state, e, half, look) = idle
BY DEF ParseHalf, Finished

LEMMA FrameFacts ==
    /\ Garbage \in AnyFrame /\ Garbage.heartbeat = "none"
    /\ \A number, system \in Nat, heartbeat \in Heartbeat :
           system # 0 => Frame(number, system, heartbeat) \in AnyFrame
    /\ \A frame \in AnyFrame : Halves(frame) \in Seq(HalfFrame) /\ Len(Halves(frame)) = 2
    /\ \A first, second \in HalfFrame : Finished(first, second) \in AnyFrame
    /\ \A half \in HalfFrame, look \in Looks : StartFrame(half, look) \in Parser
<1>1. Garbage \in AnyFrame /\ Garbage.heartbeat = "none"
  BY DEF Garbage, Frame, AnyFrame, IsAutopilot, Heartbeat
<1>2. \A number, system \in Nat, heartbeat \in Heartbeat :
         system # 0 => Frame(number, system, heartbeat) \in AnyFrame
  BY DEF Frame, AnyFrame
<1>3. \A frame \in AnyFrame : Halves(frame) \in Seq(HalfFrame) /\ Len(Halves(frame)) = 2
  BY DEF Halves, HalfFrame
<1>4. \A first, second \in HalfFrame : Finished(first, second) \in AnyFrame
  BY <1>1 DEF Finished, HalfFrame
<1>5. \A half \in HalfFrame, look \in Looks : StartFrame(half, look) \in Parser
  BY DEF StartFrame, Parser
<1> QED
  BY <1>1, <1>2, <1>3, <1>4, <1>5

LEMMA RememberFact ==
    ASSUME NEW ring \in Seq(Noted), NEW entry \in Noted
    PROVE  Remember(ring, entry) \in Seq(Noted)
<1>1. CASE Len(ring) < DedupEntries
  BY <1>1 DEF Remember
<1>2. CASE ~(Len(ring) < DedupEntries)
  <2>1. ring # <<>>
    BY <1>2, RouterAssumption, EmptySeq
  <2>2. Tail(ring) \in Seq(Noted)
    BY <2>1, HeadTailProperties
  <2> QED
    BY <1>2, <2>2 DEF Remember
<1> QED
  BY <1>1, <1>2

LEMMA CompleteType ==
    ASSUME now \in Nat, NEW state \in LoopState, NEW e, NEW frame \in AnyFrame
    PROVE  Complete(state, e, frame) \in LoopState
<1> USE DEF LoopState
<1>1. ASSUME NEW s \in LoopState PROVE Pass(s, frame) \in LoopState
  <2>1. Append(s.passed, frame) \in Seq(AnyFrame)
    OBVIOUS
  <2> QED
    BY <2>1 DEF Pass
<1>2. Observe(state, frame) \in LoopState
  BY DEF Observe, AnyFrame, IsAutopilot
<1> DEFINE noted == [state EXCEPT !.seen = Append(@, [frame |-> frame, time |-> now,
                                                     routed |-> ~Duplicate(state, frame)])]
           kept == [noted EXCEPT !.dedup = Remember(@, [frame |-> frame, time |-> now])]
<1>3. noted \in LoopState
  <2>1. [frame |-> frame, time |-> now, routed |-> ~Duplicate(state, frame)] \in Seen
    BY DEF Seen, Duplicate
  <2>2. Append(state.seen, [frame |-> frame, time |-> now, routed |-> ~Duplicate(state, frame)])
          \in Seq(Seen)
    BY <2>1
  <2> QED
    BY <2>2
<1>4. kept \in LoopState
  <2>1. [frame |-> frame, time |-> now] \in Noted
    BY DEF Noted
  <2>2. Remember(noted.dedup, [frame |-> frame, time |-> now]) \in Seq(Noted)
    BY <1>3, <2>1, RememberFact
  <2> HIDE DEF noted
  <2> QED
    BY <1>3, <2>2
<1>5. Pass(Observe(state, frame), frame) \in LoopState /\ Pass(kept, frame) \in LoopState
  <2> HIDE DEF kept, LoopState
  <2> QED BY <1>1, <1>2, <1>4
<1> QED
  <2> HIDE DEF LoopState
  <2> QED BY <1>3, <1>5 DEF Complete

LEMMA ParseHalfType ==
    ASSUME now \in Nat, NEW state \in LoopState, NEW e, NEW half \in HalfFrame, NEW look \in Looks
    PROVE  ParseHalf(state, e, half, look) \in LoopState
<1>1. CASE state.parser = <<>>
  BY <1>1, FrameFacts DEF ParseHalf, LoopState
<1>2. CASE state.parser # <<>>
  <2>1. state.parser[1] \in HalfFrame
    BY <1>2 DEF LoopState, Parser
  <2>2. [state EXCEPT !.parser = <<>>] \in LoopState
    BY DEF LoopState, Parser
  <2> QED
    <3> DEFINE frame == Finished(state.parser[1], half)
               idle == [state EXCEPT !.parser = <<>>]
    <3>1. frame \in AnyFrame
      BY <2>1, FrameFacts
    <3> HIDE DEF frame
    <3>2. Complete(idle, e, frame) \in LoopState
      <4> HIDE DEF idle
      <4> QED BY <2>2, <3>1, CompleteType DEF idle
    <3>3. ParseHalf(state, e, half, look) \in {idle, Complete(idle, e, frame)}
      BY <1>2, ParseCompletes DEF frame
    <3> QED
      BY <2>2, <3>2, <3>3
<1> QED
  BY <1>1, <1>2

-----------------------------------------------------------------------------
(* One step of a router. *)

LEMMA OutcomeFacts ==
    ASSUME RouterInv, NEW u \in Units, NEW e \in Registered(u),
           NEW halves \in Seq(HalfFrame), NEW look \in Looks
    PROVE  /\ Outcome(u, e, halves, look) \in LoopState
           /\ Passed(u, e, halves, look) \in Seq(AnyFrame)
<1>1. Before(u, e) \in LoopState
  BY EmptySeq DEF RouterInv, Before, LoopState
<1>2. \A state \in LoopState, half \in HalfFrame : ParseHalf(state, e, half, look) \in LoopState
  BY ParseHalfType DEF RouterInv
<1>3. Outcome(u, e, halves, look) \in LoopState
  BY <1>1, <1>2, OutcomeIn
<1> QED
  BY <1>3 DEF Passed, LoopState

\* Who is an endpoint of whom stays.
SameEndpoints == \A u \in Units : Registered(u)' = Registered(u)

LEMMA IngestKeeps ==
    ASSUME RouterInv, NEW u \in Units, NEW e \in Registered(u),
           NEW halves \in Seq(HalfFrame), NEW look \in Looks, Ingest(u, e, halves, look)
    PROVE  RouterInv' /\ SameEndpoints
<1> DEFINE out == Outcome(u, e, halves, look)
<1>1. out \in LoopState
  BY OutcomeFacts
<1>2. /\ s_endpoints' = [s_endpoints EXCEPT ![u][e] = out.parser]
      /\ s_dedup' = [s_dedup EXCEPT ![u] = out.dedup]
      /\ s_fc_system_id' = [s_fc_system_id EXCEPT ![u] = out.system]
      /\ s_fc_armed' = [s_fc_armed EXCEPT ![u] = out.armed]
      /\ network' = [network EXCEPT ![u] = out.seen]
      /\ now' = now
  BY DEF Ingest
<1> HIDE DEF out
<1>3. DOMAIN s_endpoints' = Units /\ SameEndpoints
  BY <1>2 DEF RouterInv, SameEndpoints, Registered
<1>4. \A v \in Units : \A d \in Registered(v)' : s_endpoints'[v][d] \in Parser
  BY <1>1, <1>2, <1>3 DEF RouterInv, SameEndpoints, Registered, LoopState
<1>5. s_dedup' \in [Units -> Seq(Noted)] /\ network' \in [Units -> Seq(Seen)]
  BY <1>1, <1>2 DEF RouterInv, LoopState
<1>6. /\ s_fc_system_id' \in [Units -> Nat] /\ s_fc_armed' \in [Units -> BOOLEAN]
      /\ \A v \in Units : s_fc_armed'[v] => s_fc_system_id'[v] # 0
  BY <1>1, <1>2 DEF RouterInv, LoopState
<1> QED
  BY <1>2, <1>3, <1>4, <1>5, <1>6 DEF RouterInv

LEMMA RegisterKeeps ==
    ASSUME RouterInv, NEW u \in Units, NEW e, Register(u, e),
           UNCHANGED <<s_dedup, s_fc_system_id, s_fc_armed, now, network>>
    PROVE  /\ RouterInv'
           /\ \A v \in Units : Registered(v)' = IF v = u THEN Registered(u) \cup {e} ELSE Registered(v)
<1> DEFINE endpoints == [d \in Registered(u) \cup {e} |-> IF d = e THEN <<>> ELSE s_endpoints[u][d]]
<1>1. s_endpoints' = [s_endpoints EXCEPT ![u] = endpoints]
  BY DEF Register
<1>2. \A d \in Registered(u) \cup {e} : endpoints[d] \in Parser
  BY DEF RouterInv, Parser
<1>3. DOMAIN endpoints = Registered(u) \cup {e}
  OBVIOUS
<1> HIDE DEF endpoints
<1> QED
  BY <1>1, <1>2, <1>3 DEF RouterInv, Registered

LEMMA UnregisterKeeps ==
    ASSUME RouterInv, NEW u \in Units, NEW e, Unregister(u, e),
           UNCHANGED <<s_dedup, s_fc_system_id, s_fc_armed, now, network>>
    PROVE  /\ RouterInv'
           /\ \A v \in Units : Registered(v)' = IF v = u THEN Registered(u) \ {e} ELSE Registered(v)
<1> DEFINE endpoints == [d \in Registered(u) \ {e} |-> s_endpoints[u][d]]
<1>1. s_endpoints' = [s_endpoints EXCEPT ![u] = endpoints]
  BY DEF Unregister
<1>2. \A d \in Registered(u) \ {e} : endpoints[d] \in Parser
  BY DEF RouterInv
<1>3. DOMAIN endpoints = Registered(u) \ {e}
  OBVIOUS
<1> HIDE DEF endpoints
<1> QED
  BY <1>1, <1>2, <1>3 DEF RouterInv, Registered

\* Each part of the invariant looks at its own variables.
LEMMA Untouched ==
    /\ RouterInv /\ UNCHANGED router => RouterInv' /\ SameEndpoints
    /\ OutsideInv /\ UNCHANGED <<environment, fc, gcs, faults, delivered>> => OutsideInv'
    /\ LinkInv /\ UNCHANGED <<link, backlog>> => LinkInv'
    /\ ClientInv /\ UNCHANGED <<client, udp, task>> /\ Registered("air")' = Registered("air")
          => ClientInv'
    /\ BridgeInv /\ UNCHANGED ground /\ Registered("ground")' = Registered("ground")
          => BridgeInv'
<1>1. RouterInv /\ UNCHANGED router => RouterInv' /\ SameEndpoints
  BY DEF RouterInv, router, SameEndpoints, Registered
<1>2. OutsideInv /\ UNCHANGED <<environment, fc, gcs, faults, delivered>> => OutsideInv'
  BY DEF OutsideInv
<1>3. LinkInv /\ UNCHANGED <<link, backlog>> => LinkInv'
  BY DEF LinkInv
<1>4. ClientInv /\ UNCHANGED <<client, udp, task>> /\ Registered("air")' = Registered("air")
          => ClientInv'
  BY DEF ClientInv
<1>5. BridgeInv /\ UNCHANGED ground /\ Registered("ground")' = Registered("ground")
          => BridgeInv'
  BY DEF BridgeInv, ground
<1> QED
  BY <1>1, <1>2, <1>3, <1>4, <1>5

-----------------------------------------------------------------------------
(* Queues. *)

LEMMA SliceFact ==
    ASSUME NEW S, NEW s \in Seq(S), NEW n \in 0..Len(s)
    PROVE  /\ SubSeq(s, 1, n) \in Seq(S)
           /\ SubSeq(s, n + 1, Len(s)) \in Seq(S)
<1>1. Len(s) \in Nat /\ \A i \in 1..Len(s) : s[i] \in S
  BY LenProperties
<1>2. \A i \in 1..n : s[i] \in S
  BY <1>1
<1>3. \A i \in n + 1..Len(s) : s[i] \in S
  BY <1>1
<1> QED
  BY <1>1, <1>2, <1>3, SubSeqProperties

\* A queue that is full takes the first of what it is given.
LEMMA UptoFact ==
    ASSUME NEW S, NEW s \in Seq(S), NEW n \in Nat
    PROVE  /\ Upto(n, s) \in Seq(S)
           /\ Len(Upto(n, s)) <= Len(s)
           /\ \A k \in DOMAIN Upto(n, s) : k \in DOMAIN s /\ Upto(n, s)[k] = s[k]
<1>1. Len(s) \in Nat /\ DOMAIN s = 1..Len(s) /\ \A i \in 1..Len(s) : s[i] \in S
  BY LenProperties
<1>2. Min({n, Len(s)}) \in 0..Len(s)
  BY <1>1 DEF Min
<1> DEFINE m == Min({n, Len(s)})
<1> HIDE DEF m
<1>3. \A i \in 1..m : s[i] \in S
  BY <1>1, <1>2 DEF m
<1>4. /\ SubSeq(s, 1, m) \in Seq(S) /\ Len(SubSeq(s, 1, m)) = m
      /\ \A i \in 1..m : SubSeq(s, 1, m)[i] = s[i]
  <2>1. m \in Nat
    BY <1>1, <1>2 DEF m
  <2> QED
    BY <1>3, <2>1, SubSeqProperties
<1>5. DOMAIN SubSeq(s, 1, m) = 1..m
  BY <1>4, LenProperties
<1>6. Upto(n, s) = SubSeq(s, 1, m) /\ m \in 0..Len(s)
  BY <1>2 DEF Upto, m
<1> QED
  BY <1>1, <1>4, <1>5, <1>6

LEMMA QueueFacts ==
    ASSUME NEW S, NEW q \in Seq(S)
    PROVE  /\ q # <<>> => Head(q) \in S /\ Tail(q) \in Seq(S)
           /\ \A p \in Seq(S) : q \o p \in Seq(S)
           /\ \A x \in S : Append(q, x) \in Seq(S)
<1>1. q # <<>> => Head(q) \in S /\ Tail(q) \in Seq(S)
  BY HeadTailProperties
<1>2. \A p \in Seq(S) : q \o p \in Seq(S)
  BY ConcatProperties
<1> QED
  BY <1>1, <1>2

\* A batch of packets is the sequence of their halves.
LEMMA FlattenFact ==
    ASSUME NEW S, NEW seqs \in Seq(Seq(S))
    PROVE  FlattenSeq(seqs) \in Seq(S)
<1> DEFINE n == Len(seqs)
           Flat(f) == f = [i \in 1..n |-> IF i = 1 THEN seqs[i] ELSE f[i - 1] \o seqs[i]]
           flat == CHOOSE f : Flat(f)
<1>1. n \in Nat /\ \A k \in 1..n : seqs[k] \in Seq(S)
  BY LenProperties
<1>2. CASE n = 0
  BY <1>2, EmptySeq DEF FlattenSeq
<1>3. CASE n # 0
  <2>1. \E f : Flat(f)
    <3> DEFINE m == n - 1
               step == [k \in 1..m |-> [s \in Seq(S) |-> s \o seqs[k + 1]]]
    <3>1. m \in Nat /\ step \in [1..m -> [Seq(S) -> Seq(S)]] /\ seqs[1] \in Seq(S)
      BY <1>1, <1>3, ConcatProperties
    <3>2. PICK g \in [0..m -> Seq(S)] : g[0] = seqs[1] /\ \A k \in 1..m : g[k] = step[k][g[k - 1]]
      <4> HIDE DEF step, m
      <4>1. CanRun(m, Seq(S), seqs[1], step)
        BY <3>1, RunExists
      <4> QED BY <4>1 DEF CanRun
    <3> DEFINE f == [i \in 1..n |-> g[i - 1]]
    <3>3. \A i \in 1..n : f[i] = IF i = 1 THEN seqs[i] ELSE f[i - 1] \o seqs[i]
      <4>1. \A i \in 1..n : f[i] = g[i - 1]
        OBVIOUS
      <4> HIDE DEF f
      <4> SUFFICES ASSUME NEW i \in 1..n PROVE f[i] = IF i = 1 THEN seqs[i] ELSE f[i - 1] \o seqs[i]
        OBVIOUS
      <4>2. CASE i = 1
        BY <3>2, <4>1, <4>2
      <4>3. CASE i # 1
        <5>1. i - 1 \in 1..m /\ i - 2 \in 0..m /\ (i - 1) - 1 = i - 2 /\ (i - 1) + 1 = i
          BY <1>1, <4>3
        <5>2. g[i - 2] \in Seq(S) /\ i - 1 \in 1..n
          <6>1. i - 1 \in 1..n
            BY <1>1, <4>3
          <6>2. g[i - 2] \in Seq(S)
            <7> HIDE DEF m
            <7> QED BY <3>2, <5>1
          <6> QED BY <6>1, <6>2
        <5>3. g[i - 1] = g[i - 2] \o seqs[i]
          BY <3>2, <5>1, <5>2
        <5> QED BY <4>1, <4>3, <5>1, <5>2, <5>3
      <4> QED BY <4>2, <4>3
    <3>4. Flat(f)
      BY <3>3
    <3> QED BY <3>4
  <2>2. Flat(flat)
    <3> HIDE DEF Flat
    <3> QED BY <2>1
  <2>3. \A i \in 1..n : flat[i] = IF i = 1 THEN seqs[i] ELSE flat[i - 1] \o seqs[i]
    <3> HIDE DEF flat
    <3> QED BY <2>2
  <2> HIDE DEF flat
  <2> DEFINE T == {k \in 1..n : flat[k] \notin Seq(S)}
  <2>4. T = {}
    <3> SUFFICES ASSUME T # {} PROVE FALSE
      OBVIOUS
    <3>1. PICK k \in T : \A y \in T : k <= y
      <4>1. T \subseteq Nat
        BY <1>1
      <4> HIDE DEF T
      <4> QED BY <4>1, LeastNat
    <3>2. k # 1
      BY <1>1, <2>3, <3>1
    <3>3. k \in 1..n /\ k - 1 \in 1..n /\ flat[k - 1] \in Seq(S) /\ seqs[k] \in Seq(S)
      BY <1>1, <3>1, <3>2
    <3>4. flat[k] = flat[k - 1] \o seqs[k]
      BY <2>3, <3>2, <3>3
    <3>5. flat[k] \in Seq(S)
      BY <3>3, <3>4, ConcatProperties
    <3> QED BY <3>1, <3>5
  <2>5. flat[n] \in Seq(S)
    BY <1>1, <1>3, <2>4
  <2>6. FlattenSeq(seqs) = flat[n]
    BY <1>3 DEF FlattenSeq, flat
  <2> QED BY <2>5, <2>6
<1> QED
  BY <1>2, <1>3

-----------------------------------------------------------------------------
(* The inductive invariant is kept: frames that enter the routers. *)

LEMMA EndpointFacts ==
    /\ {"air", "ground"} = Units
    /\ \A i, j : /\ Tcp(i) = Tcp(j) => i = j
                 /\ Udp(i) = Udp(j) => i = j
                 /\ Tcp(i) # Udp(j) /\ Tcp(i) # Uart /\ Udp(i) # Uart
                 /\ Tcp(i) \notin VehicleSide /\ Udp(i) \notin VehicleSide
    /\ Uart \in VehicleSide /\ Bridge \in VehicleSide /\ Usb \notin VehicleSide
    /\ Usb # Bridge
BY TelemetryAssumption, SideAssumption DEF Tcp, Udp, Uart, Bridge, Usb

LEMMA EnvironmentFacts ==
    ASSUME OutsideInv
    PROVE  /\ environment.kinds \subseteq (Nat \ {0}) \X Heartbeat
           /\ environment.udp \subseteq Nat \ {0}
           /\ environment.overflows \in BOOLEAN /\ environment.bridge \in BOOLEAN
           /\ environment.ticks \in Nat /\ environment.faults \in Nat
BY EnvironmentAssumption DEF OutsideInv

NoLook == [magic |-> FALSE, unknown_id |-> FALSE]

\* A frame the GCS sends, and what goes round when it is cut.
LEMMA GcsFrame ==
    ASSUME NEW n \in Nat
    PROVE  /\ Frame(n, 255, "none") \in AnyFrame
           /\ Halves(Frame(n, 255, "none")) \in Seq(HalfFrame)
           /\ NoLook \in Looks
<1>1. Frame(n, 255, "none") \in AnyFrame
  BY FrameFacts DEF Heartbeat
<1> QED
  BY <1>1, FrameFacts DEF NoLook, Looks

\* What the UART hands over of a frame.
LEMMA UartFrame ==
    ASSUME TelemetryInv, NEW kind \in environment.kinds,
           NEW received \in {Whole, << 1 >>, << 2 >>}
    PROVE  LET frame == Frame(fc.sent + 1, kind[1], kind[2])
           IN  /\ frame \in AnyFrame
               /\ [k \in DOMAIN received |-> Halves(frame)[received[k]]] \in Seq(HalfFrame)
<1> DEFINE frame == Frame(fc.sent + 1, kind[1], kind[2])
<1>1. kind[1] \in Nat \ {0} /\ kind[2] \in Heartbeat
  BY EnvironmentFacts DEF TelemetryInv
<1>2. fc.sent + 1 \in Nat
  BY DEF TelemetryInv, OutsideInv
<1>3. frame \in AnyFrame
  BY <1>1, <1>2, FrameFacts
<1>4. Halves(frame)[1] \in HalfFrame /\ Halves(frame)[2] \in HalfFrame
  <2> HIDE DEF frame
  <2> QED BY <1>3 DEF Halves, HalfFrame
<1> HIDE DEF frame
<1>5. received \in Seq({1, 2})
  <2>1. <<1, 2>> \in Seq({1, 2}) /\ <<1>> \in Seq({1, 2}) /\ <<2>> \in Seq({1, 2})
    OBVIOUS
  <2> QED BY <2>1 DEF Whole
<1>6. DOMAIN received = 1..Len(received) /\ \A k \in 1..Len(received) : received[k] \in {1, 2}
  BY <1>5, LenProperties
<1>7. \A k \in 1..Len(received) : Halves(frame)[received[k]] \in HalfFrame
  BY <1>4, <1>6
<1>8. [k \in DOMAIN received |-> Halves(frame)[received[k]]] \in Seq(HalfFrame)
  BY <1>5, <1>6, <1>7
<1> QED
  BY <1>3, <1>8 DEF frame

LEMMA SendTypes ==
    ASSUME TelemetryInv, NEW frames \in Seq(AnyFrame), NEW failing
    PROVE  /\ TcpSend(frames) \in [Slots -> TcpClient]
           /\ \A i \in Slots : /\ TcpSend(frames)[i].used = client[i].used
                               /\ TcpSend(frames)[i].has_queue = client[i].has_queue
                               /\ TcpSend(frames)[i].link = client[i].link
           /\ UdpSend(frames, failing) \in [UdpSlots -> UdpClient]
           /\ \A i \in UdpSlots : UdpSend(frames, failing)[i].used = udp[i].used
<1>1. client \in [Slots -> TcpClient] /\ udp \in [UdpSlots -> UdpClient]
  BY DEF TelemetryInv, ClientInv
<1>2. ASSUME NEW i \in Slots
      PROVE  /\ TcpSend(frames)[i] \in TcpClient
             /\ TcpSend(frames)[i].used = client[i].used
             /\ TcpSend(frames)[i].has_queue = client[i].has_queue
             /\ TcpSend(frames)[i].link = client[i].link
  <2>1. client[i] \in TcpClient
    BY <1>1
  <2>2. Upto(QueueDepth, client[i].tx_queue \o frames) \in Seq(AnyFrame)
    <3>1. client[i].tx_queue \o frames \in Seq(AnyFrame)
      BY <2>1, ConcatProperties DEF TcpClient
    <3> QED
      BY <3>1, UptoFact, TelemetryAssumption
  <2>3. \/ TcpSend(frames)[i] = client[i]
        \/ TcpSend(frames)[i] =
             [client[i] EXCEPT !.tx_queue = Upto(QueueDepth, client[i].tx_queue \o frames)]
    BY DEF TcpSend
  <2> QED
    BY <2>1, <2>2, <2>3 DEF TcpClient
<1>3. TcpSend(frames) = [i \in Slots |-> TcpSend(frames)[i]]
  BY DEF TcpSend
<1>4. ASSUME NEW i \in UdpSlots
      PROVE  /\ UdpSend(frames, failing)[i] \in UdpClient
             /\ UdpSend(frames, failing)[i].used = udp[i].used
  <2>1. udp[i] \in UdpClient
    BY <1>1
  <2>2. \/ UdpSend(frames, failing)[i] = udp[i]
        \/ UdpSend(frames, failing)[i] = [udp[i] EXCEPT !.failures = udp[i].failures + 1]
        \/ UdpSend(frames, failing)[i] = [udp[i] EXCEPT !.failures = 0]
    BY DEF UdpSend
  <2> QED
    BY <2>1, <2>2 DEF UdpClient
<1>5. UdpSend(frames, failing) = [i \in UdpSlots |-> UdpSend(frames, failing)[i]]
  BY DEF UdpSend
<1>6. TcpSend(frames) \in [Slots -> TcpClient]
  BY <1>2, <1>3
<1>7. UdpSend(frames, failing) \in [UdpSlots -> UdpClient]
  BY <1>4, <1>5
<1> QED
  BY <1>2, <1>4, <1>6, <1>7

LEMMA UartRxInv ==
    ASSUME TelemetryInv, NEW kind \in environment.kinds, NEW look \in Looks,
           NEW received \in {Whole, << 1 >>, << 2 >>}, UartRx(kind, received, look)
    PROVE  TelemetryInv'
<1> DEFINE frame == Frame(fc.sent + 1, kind[1], kind[2])
           halves == [k \in DOMAIN received |-> Halves(frame)[received[k]]]
           frames == Passed("air", Uart, halves, look)
<1>1. frame \in AnyFrame /\ halves \in Seq(HalfFrame)
  BY UartFrame
<1>2. /\ fc' = [sent |-> fc.sent + 1, frame |-> frame, whole |-> received = Whole]
      /\ Ingest("air", Uart, halves, look)
      /\ client' = TcpSend(frames)
      /\ \E failing \in SUBSET UdpSlots : udp' = UdpSend(frames, failing)
      /\ faults' \in {faults, faults + 1}
      /\ UNCHANGED <<udp_clients, task, backlog, link, ground, environment, gcs, delivered>>
  BY DEF UartRx, Fault
<1> HIDE DEF halves, frame
<1> USE DEF TelemetryInv
<1>3. "air" \in Units /\ Uart \in Registered("air")
  BY EndpointFacts DEF ClientInv
<1>4. RouterInv' /\ SameEndpoints /\ frames \in Seq(AnyFrame)
  BY <1>1, <1>2, <1>3, IngestKeeps, OutcomeFacts
<1>5. OutsideInv'
  BY <1>1, <1>2 DEF OutsideInv
<1>6. LinkInv'
  BY <1>2, Untouched
<1>7. ClientInv'
  <2> HIDE DEF frames
  <2>1. PICK failing \in SUBSET UdpSlots : udp' = UdpSend(frames, failing)
    BY <1>2
  <2>2. Registered("air")' = Registered("air")
    BY <1>4, EndpointFacts DEF SameEndpoints
  <2>3. task' = task
    BY <1>2
  <2>4. /\ client' \in [Slots -> TcpClient] /\ udp' \in [UdpSlots -> UdpClient]
        /\ \A i \in Slots : /\ client'[i].used = client[i].used
                            /\ client'[i].has_queue = client[i].has_queue
                            /\ client'[i].link = client[i].link
        /\ \A i \in UdpSlots : udp'[i].used = udp[i].used
    BY <1>2, <1>4, <2>1, SendTypes
  <2> QED
    BY <2>2, <2>3, <2>4 DEF ClientInv
<1>8. BridgeInv'
  BY <1>2, <1>4, Untouched, EndpointFacts DEF SameEndpoints
<1> QED
  BY <1>4, <1>5, <1>6, <1>7, <1>8

LEMMA UsbRxInv ==
    ASSUME TelemetryInv, UsbRx
    PROVE  TelemetryInv'
<1> DEFINE halves == Halves(Frame(gcs + 1, 255, "none"))
           frames == Passed("ground", Usb, halves, NoLook)
<1> USE DEF TelemetryInv
<1>1. gcs + 1 \in Nat
  BY DEF OutsideInv
<1>2. halves \in Seq(HalfFrame) /\ NoLook \in Looks
  BY <1>1, GcsFrame
<1>3. /\ gcs' = gcs + 1
      /\ Ingest("ground", Usb, halves, NoLook)
      /\ bridge' = BridgeSend(frames)
      /\ UNCHANGED <<air, backlog, link, sta, attempts, environment, fc, faults, delivered>>
  BY DEF UsbRx, NoLook
<1> HIDE DEF halves
<1>4. "ground" \in Units /\ "air" \in Units /\ Usb \in Registered("ground")
  BY EndpointFacts DEF BridgeInv, BridgeState
<1>5. RouterInv' /\ SameEndpoints /\ frames \in Seq(AnyFrame)
  BY <1>2, <1>3, <1>4, IngestKeeps, OutcomeFacts
<1> HIDE DEF frames
<1>6. OutsideInv'
  BY <1>1, <1>3 DEF OutsideInv
<1>7. LinkInv'
  BY <1>3, Untouched
<1>8. ClientInv'
  BY <1>3, <1>4, <1>5, Untouched DEF SameEndpoints, air
<1>9. BridgeInv'
  <2> DEFINE new == [i \in DOMAIN frames |-> [frame |-> frames[i], link |-> bridge.socket]]
  <2>1. new \in Seq(Queued) /\ \A k \in DOMAIN new : new[k].link = bridge.socket
    <3>1. DOMAIN frames = 1..Len(frames) /\ Len(frames) \in Nat
          /\ \A k \in 1..Len(frames) : frames[k] \in AnyFrame
      BY <1>5, LenProperties
    <3> QED
      BY <3>1 DEF BridgeInv, BridgeState, Queued
  <2> HIDE DEF new
  <2> DEFINE longer == bridge.tx_queue \o new
  <2>2. longer \in Seq(Queued) /\ \A k \in DOMAIN longer : longer[k].link = bridge.socket
    <3>1. bridge.tx_queue \in Seq(Queued)
      BY DEF BridgeInv, BridgeState
    <3>2. /\ longer \in Seq(Queued) /\ Len(longer) = Len(bridge.tx_queue) + Len(new)
          /\ DOMAIN longer = 1..Len(longer)
          /\ \A k \in 1..Len(bridge.tx_queue) + Len(new) :
                longer[k] = IF k <= Len(bridge.tx_queue) THEN bridge.tx_queue[k]
                            ELSE new[k - Len(bridge.tx_queue)]
      BY <2>1, <3>1, ConcatProperties, LenProperties
    <3>3. /\ DOMAIN bridge.tx_queue = 1..Len(bridge.tx_queue) /\ Len(bridge.tx_queue) \in Nat
          /\ DOMAIN new = 1..Len(new) /\ Len(new) \in Nat
      BY <2>1, <3>1, LenProperties
    <3>4. ASSUME NEW k \in DOMAIN longer PROVE longer[k].link = bridge.socket
      <4>1. CASE k <= Len(bridge.tx_queue)
        BY <3>2, <3>3, <4>1 DEF BridgeInv, BridgeState
      <4>2. CASE ~(k <= Len(bridge.tx_queue))
        <5>1. k - Len(bridge.tx_queue) \in DOMAIN new
          BY <3>2, <3>3, <4>2
        <5> QED BY <2>1, <3>2, <4>2, <5>1
      <4> QED BY <4>1, <4>2
    <3> QED BY <3>2, <3>4
  <2>3. Upto(QueueDepth, longer) \in Seq(Queued)
        /\ \A k \in DOMAIN Upto(QueueDepth, longer) :
              Upto(QueueDepth, longer)[k].link = bridge.socket
    <3> HIDE DEF longer
    <3> QED BY <2>2, UptoFact, TelemetryAssumption
  <2>4. CASE bridge' = bridge
    BY <1>3, <1>4, <1>5, <2>4 DEF BridgeInv, BridgeState, SameEndpoints
  <2>5. CASE bridge.connected /\ bridge' = [bridge EXCEPT !.tx_queue = Upto(QueueDepth, longer)]
    BY <1>3, <1>4, <1>5, <2>3, <2>5 DEF BridgeInv, BridgeState, SameEndpoints
  <2> QED
    BY <1>3, <2>4, <2>5 DEF BridgeSend, new
<1> QED
  BY <1>5, <1>6, <1>7, <1>8, <1>9

LEMMA TickInv ==
    ASSUME TelemetryInv, Tick
    PROVE  TelemetryInv'
<1> USE DEF TelemetryInv
<1>1. now' = now + 1 /\ UNCHANGED <<s_endpoints, s_dedup, s_fc_system_id, s_fc_armed, network,
                                    air, backlog, link, ground, outside, delivered>>
  BY DEF Tick
<1>2. RouterInv' /\ SameEndpoints
  BY <1>1 DEF RouterInv, Registered, SameEndpoints
<1> QED
  BY <1>1, <1>2, Untouched, EndpointFacts DEF SameEndpoints, air, outside

-----------------------------------------------------------------------------
(* The network task and its TCP clients. *)

\* What a link becomes when one field of it changes.
LEMMA LinkFact ==
    ASSUME LinkInv, NEW l \in Links, NEW changed \in Link,
           link' = [link EXCEPT ![l] = changed]
    PROVE  link' \in [Links -> Link]
BY DEF LinkInv

LEMMA AcceptTcpInv ==
    ASSUME TelemetryInv, AcceptTcp
    PROVE  TelemetryInv'
<1> DEFINE free == {i \in Slots : ~client[i].used}
           slot == CHOOSE i \in free : \A j \in free : i <= j
           l == Head(backlog)
<1> USE DEF TelemetryInv
<1>1. /\ task = Loop /\ backlog # <<>> /\ backlog' = Tail(backlog)
      /\ UNCHANGED <<router, udp, udp_clients, ground, environment, fc, gcs, delivered>>
      /\ faults' \in {faults, faults + 1}
      /\ \/ link' = [link EXCEPT ![l].air = "closed"] /\ UNCHANGED <<client, task>>
         \/ /\ free # {}
            /\ client' = [client EXCEPT ![slot] = [NoClient EXCEPT !.used = TRUE, !.link = l,
                                                                  !.has_queue = TRUE]]
            /\ link' = [link EXCEPT ![l].air = "open"]
            /\ task' = [Loop EXCEPT !.at = "accepted", !.slot = slot]
  BY DEF AcceptTcp, Fault
<1>2. free # {} => slot \in free
  <2> SUFFICES ASSUME free # {} PROVE slot \in free
    OBVIOUS
  <2>1. free \subseteq Nat
    BY TelemetryAssumption
  <2>2. \E i \in free : \A j \in free : i <= j
    <3> HIDE DEF free
    <3> QED BY <2>1, LeastNat
  <2> QED
    BY <2>2
<1> HIDE DEF slot
<1>3. RouterInv' /\ SameEndpoints
  BY <1>1, Untouched
<1>4. OutsideInv'
  BY <1>1 DEF OutsideInv
<1>5. l \in Links /\ Tail(backlog) \in Seq(Links)
  BY <1>1, QueueFacts DEF LinkInv
<1> HIDE DEF l
<1>6. LinkInv'
  <2>1. /\ [link[l] EXCEPT !.air = "closed"] \in Link /\ [link[l] EXCEPT !.air = "open"] \in Link
    BY <1>5 DEF LinkInv, Link
  <2>2. link' \in [Links -> Link]
    BY <1>1, <1>5, <2>1 DEF LinkInv
  <2> QED
    BY <1>1, <1>5, <2>2 DEF LinkInv
<1>7. ClientInv'
  <2>1. CASE UNCHANGED <<client, task>>
    BY <1>1, <1>3, <2>1, Untouched, EndpointFacts DEF SameEndpoints
  <2>2. CASE /\ free # {}
             /\ client' = [client EXCEPT ![slot] = [NoClient EXCEPT !.used = TRUE, !.link = l,
                                                                  !.has_queue = TRUE]]
             /\ task' = [Loop EXCEPT !.at = "accepted", !.slot = slot]
    <3>1. slot \in Slots /\ ~client[slot].used /\ slot \in Nat
      BY <1>2, <2>2, TelemetryAssumption
    <3> DEFINE fresh == [NoClient EXCEPT !.used = TRUE, !.link = l, !.has_queue = TRUE]
    <3>2. fresh \in TcpClient /\ fresh.used /\ fresh.has_queue /\ fresh.link = l
      BY <1>5, EmptySeq DEF NoClient, TcpClient
    <3> HIDE DEF fresh
    <3>3. client' \in [Slots -> TcpClient]
          /\ \A i \in Slots : client'[i] = IF i = slot THEN fresh ELSE client[i]
      BY <2>2, <3>1, <3>2 DEF ClientInv, fresh
    <3>4. /\ task' \in TaskState
          /\ task'.at = "accepted" /\ task'.slot = slot
      BY <2>2, <3>1, EmptySeq DEF Loop, TaskState
    <3>5. Registered("air")' = Registered("air")
      BY <1>3, EndpointFacts DEF SameEndpoints
    <3>6. task.at = "loop"
      BY <1>1 DEF Loop
    <3>7. \A i \in Slots : client'[i].used => client'[i].has_queue /\ client'[i].link \in Links
      BY <1>5, <3>2, <3>3 DEF ClientInv
    <3>8. \A i \in Slots : Tcp(i) \in Registered("air")' <=>
                               client'[i].used /\ ~(task'.slot = i)
      BY <3>1, <3>2, <3>3, <3>4, <3>5, <3>6 DEF ClientInv
    <3>9. \A i \in UdpSlots : Udp(i) \in Registered("air")' <=> udp'[i].used
      BY <1>1, <3>5, <3>6 DEF ClientInv
    <3>10. udp' \in [UdpSlots -> UdpClient] /\ Uart \in Registered("air")'
      BY <1>1, <3>5 DEF ClientInv
    <3>11. client'[task'.slot].used /\ task'.slot \in Slots
      BY <3>1, <3>2, <3>3, <3>4
    <3> QED
      BY <3>3, <3>4, <3>7, <3>8, <3>9, <3>10, <3>11 DEF ClientInv
  <2> QED
    BY <1>1, <2>1, <2>2
<1>8. BridgeInv'
  BY <1>1, <1>3, Untouched, EndpointFacts DEF SameEndpoints
<1> QED
  BY <1>3, <1>4, <1>6, <1>7, <1>8

LEMMA RegisterTcpInv ==
    ASSUME TelemetryInv, RegisterTcp
    PROVE  TelemetryInv'
<1> USE DEF TelemetryInv
<1>1. /\ task.at = "accepted" /\ Register("air", Tcp(task.slot)) /\ task' = Loop
      /\ UNCHANGED <<client, backlog, link, now, s_dedup, s_fc_system_id, s_fc_armed, network,
                     udp, udp_clients, ground, outside, delivered>>
  BY DEF RegisterTcp, TcpUnchanged
<1>2. RouterInv' /\ \A v \in Units : Registered(v)' = IF v = "air"
                       THEN Registered("air") \cup {Tcp(task.slot)} ELSE Registered(v)
  BY <1>1, RegisterKeeps, EndpointFacts
<1>3. OutsideInv' /\ LinkInv' /\ BridgeInv'
  BY <1>1, <1>2, Untouched, EndpointFacts DEF outside
<1>4. ClientInv'
  <2>1. task.slot \in Slots /\ client[task.slot].used /\ task'.at = "loop"
    BY <1>1 DEF ClientInv, Loop
  <2>2. task' \in TaskState
    BY <1>1, EmptySeq DEF Loop, TaskState
  <2>3. Registered("air")' = Registered("air") \cup {Tcp(task.slot)}
    BY <1>2, EndpointFacts
  <2>4. \A i \in Slots : Tcp(i) \in Registered("air")' <=> client'[i].used
    BY <1>1, <2>1, <2>3, EndpointFacts DEF ClientInv
  <2>5. \A i \in UdpSlots : Udp(i) \in Registered("air")' <=> udp'[i].used
    BY <1>1, <2>3, EndpointFacts DEF ClientInv
  <2> QED
    BY <1>1, <2>1, <2>2, <2>3, <2>4, <2>5 DEF ClientInv
<1> QED
  BY <1>2, <1>3, <1>4

LEMMA CloseTcpInv ==
    ASSUME TelemetryInv, NEW i \in Slots, CloseTcp(i)
    PROVE  TelemetryInv'
<1> USE DEF TelemetryInv
<1>1. /\ task = Loop /\ client[i].used /\ Unregister("air", Tcp(i))
      /\ task' = [Loop EXCEPT !.at = "unregistered", !.slot = i]
      /\ UNCHANGED <<client, backlog, link, now, s_dedup, s_fc_system_id, s_fc_armed, network,
                     udp, udp_clients, ground, outside, delivered>>
  BY DEF CloseTcp, TcpUnchanged
<1>2. RouterInv' /\ \A v \in Units : Registered(v)' = IF v = "air"
                       THEN Registered("air") \ {Tcp(i)} ELSE Registered(v)
  BY <1>1, UnregisterKeeps, EndpointFacts
<1>3. OutsideInv' /\ LinkInv' /\ BridgeInv'
  BY <1>1, <1>2, Untouched, EndpointFacts DEF outside
<1>4. ClientInv'
  <2>1. task'.at = "unregistered" /\ task'.slot = i /\ task.at = "loop"
    BY <1>1 DEF Loop
  <2>2. task' \in TaskState
    BY <1>1, EmptySeq, TelemetryAssumption DEF Loop, TaskState
  <2>3. Registered("air")' = Registered("air") \ {Tcp(i)}
    BY <1>2, EndpointFacts
  <2>4. \A j \in Slots : Tcp(j) \in Registered("air")' <=> client'[j].used /\ ~(task'.slot = j)
    BY <1>1, <2>1, <2>3, EndpointFacts DEF ClientInv
  <2>5. /\ \A j \in UdpSlots : Udp(j) \in Registered("air")' <=> udp'[j].used
        /\ Uart \in Registered("air")'
    BY <1>1, <2>1, <2>3, EndpointFacts DEF ClientInv
  <2> QED
    BY <1>1, <2>1, <2>2, <2>4, <2>5 DEF ClientInv
<1> QED
  BY <1>2, <1>3, <1>4

LEMMA FreeTcpInv ==
    ASSUME TelemetryInv, FreeTcp
    PROVE  TelemetryInv'
<1> USE DEF TelemetryInv
<1> DEFINE l == client[task.slot].link
<1>1. /\ task.at = "unregistered" /\ task' = Loop
      /\ link' = [link EXCEPT ![l].air = "closed", ![l].up = <<>>]
      /\ client' = [client EXCEPT ![task.slot] = NoClient]
      /\ UNCHANGED <<s_endpoints, backlog, now, s_dedup, s_fc_system_id, s_fc_armed, network,
                     udp, udp_clients, ground, outside, delivered>>
  BY DEF FreeTcp, TcpUnchanged
<1>2. RouterInv' /\ SameEndpoints
  BY <1>1, Untouched DEF router
<1>3. OutsideInv' /\ BridgeInv'
  BY <1>1, <1>2, Untouched, EndpointFacts DEF outside, SameEndpoints
<1>4. task.slot \in Slots /\ client[task.slot].used /\ l \in Links
  BY <1>1 DEF ClientInv
<1> HIDE DEF l
<1>5. LinkInv'
  <2>1. [link[l] EXCEPT !.air = "closed", !.up = <<>>] \in Link
    BY <1>4, EmptySeq DEF LinkInv, Link
  <2>2. link' = [link EXCEPT ![l] = [link[l] EXCEPT !.air = "closed", !.up = <<>>]]
    BY <1>1, <1>4 DEF LinkInv
  <2> QED
    BY <1>1, <1>4, <2>1, <2>2, LinkFact DEF LinkInv
<1>6. ClientInv'
  <2>1. NoClient \in TcpClient /\ NoClient.used = FALSE
    BY EmptySeq DEF NoClient, TcpClient
  <2>2. /\ client' \in [Slots -> TcpClient]
        /\ \A i \in Slots : client'[i] = IF i = task.slot THEN NoClient ELSE client[i]
    BY <1>1, <1>4, <2>1 DEF ClientInv
  <2>3. /\ task' \in TaskState
        /\ task'.at = "loop"
    BY <1>1, EmptySeq DEF Loop, TaskState
  <2>4. Registered("air")' = Registered("air")
    BY <1>2, EndpointFacts DEF SameEndpoints
  <2>5. \A i \in Slots : Tcp(i) \in Registered("air")' <=> client'[i].used
    BY <1>1, <1>4, <2>1, <2>2, <2>4 DEF ClientInv
  <2>6. /\ \A i \in UdpSlots : Udp(i) \in Registered("air")' <=> udp'[i].used
        /\ Uart \in Registered("air")'
    BY <1>1, <2>4 DEF ClientInv
  <2>7. \A i \in Slots : client'[i].used => client'[i].has_queue /\ client'[i].link \in Links
    BY <2>1, <2>2 DEF ClientInv
  <2> QED
    BY <1>1, <2>2, <2>3, <2>5, <2>6, <2>7 DEF ClientInv
<1> QED
  BY <1>2, <1>3, <1>5, <1>6

\* A read takes a beginning of what a link holds.
LEMMA MovesFact ==
    ASSUME NEW S, NEW halves \in Seq(S), NEW room, NEW n \in Moves(halves, room)
    PROVE  /\ n \in 0..Len(halves)
           /\ SubSeq(halves, 1, n) \in Seq(S)
           /\ SubSeq(halves, n + 1, Len(halves)) \in Seq(S)
<1>1. n \in 0..Len(halves)
  BY LenProperties DEF Moves
<1> QED
  BY <1>1, SliceFact

LEMMA DeliverKeeps ==
    ASSUME OutsideInv, NEW u \in Units, NEW frames \in Seq(AnyFrame), Deliver(u, frames)
    PROVE  delivered' \in [Units -> Seq(AnyFrame)]
<1>1. delivered[u] \o frames \in Seq(AnyFrame)
  BY ConcatProperties DEF OutsideInv
<1> QED
  BY <1>1 DEF Deliver, OutsideInv

\* What a client has sent goes through the router.
LEMMA TcpReads ==
    ASSUME TelemetryInv, NEW i \in Slots, TcpReceive(i)
    PROVE  /\ Tcp(i) \in Registered("air")
           /\ UNCHANGED <<air, backlog, ground, outside>>
           /\ \E l \in Links, read \in Seq(HalfFrame), rest \in Seq(HalfFrame) :
                /\ Ingest("air", Tcp(i), read, NoLook)
                /\ Deliver("air", Passed("air", Tcp(i), read, NoLook))
                /\ link' = [link EXCEPT ![l] = [link[l] EXCEPT !.up = rest]]
<1> USE DEF TelemetryInv
<1> DEFINE l == client[i].link
<1>1. /\ task = Loop /\ client[i].used /\ UNCHANGED <<air, backlog, ground, outside>>
      /\ \E n \in Moves(link[l].up, Window) :
            /\ Ingest("air", Tcp(i), SubSeq(link[l].up, 1, n), NoLook)
            /\ Deliver("air", Passed("air", Tcp(i), SubSeq(link[l].up, 1, n), NoLook))
            /\ link' = [link EXCEPT ![l].up = SubSeq(@, n + 1, Len(@))]
  BY DEF TcpReceive, NoLook
<1>2. l \in Links
  BY <1>1 DEF ClientInv
<1> HIDE DEF l
<1>3. link[l].up \in Seq(HalfFrame)
  BY <1>2 DEF LinkInv, Link
<1>4. PICK n \in Moves(link[l].up, Window) :
         /\ Ingest("air", Tcp(i), SubSeq(link[l].up, 1, n), NoLook)
         /\ Deliver("air", Passed("air", Tcp(i), SubSeq(link[l].up, 1, n), NoLook))
         /\ link' = [link EXCEPT ![l].up = SubSeq(@, n + 1, Len(@))]
  BY <1>1
<1> DEFINE read == SubSeq(link[l].up, 1, n)
           rest == SubSeq(link[l].up, n + 1, Len(link[l].up))
<1>5. read \in Seq(HalfFrame) /\ rest \in Seq(HalfFrame)
  BY <1>3, MovesFact
<1>6. link' = [link EXCEPT ![l] = [link[l] EXCEPT !.up = rest]]
  BY <1>2, <1>4 DEF LinkInv
<1>7. Ingest("air", Tcp(i), read, NoLook) /\ Deliver("air", Passed("air", Tcp(i), read, NoLook))
  BY <1>4
<1> HIDE DEF read, rest
<1>8. Tcp(i) \in Registered("air")
  BY <1>1 DEF ClientInv, Loop
<1> QED
  BY <1>1, <1>2, <1>5, <1>6, <1>7, <1>8

LEMMA TcpReceiveInv ==
    ASSUME TelemetryInv, NEW i \in Slots, TcpReceive(i)
    PROVE  TelemetryInv'
<1> USE DEF TelemetryInv
<1>1. Tcp(i) \in Registered("air") /\ UNCHANGED <<air, backlog, ground, outside>>
  BY TcpReads
<1>2. PICK l \in Links, read \in Seq(HalfFrame), rest \in Seq(HalfFrame) :
         /\ Ingest("air", Tcp(i), read, NoLook)
         /\ Deliver("air", Passed("air", Tcp(i), read, NoLook))
         /\ link' = [link EXCEPT ![l] = [link[l] EXCEPT !.up = rest]]
  BY TcpReads
<1>3. "air" \in Units /\ NoLook \in Looks
  BY EndpointFacts DEF NoLook, Looks
<1>4. RouterInv' /\ SameEndpoints /\ Passed("air", Tcp(i), read, NoLook) \in Seq(AnyFrame)
  BY <1>1, <1>2, <1>3, IngestKeeps, OutcomeFacts
<1>5. OutsideInv'
  BY <1>1, <1>2, <1>3, <1>4, DeliverKeeps DEF OutsideInv, outside
<1>6. LinkInv'
  <2>1. [link[l] EXCEPT !.up = rest] \in Link
    BY DEF LinkInv, Link
  <2> QED
    BY <1>1, <1>2, <2>1, LinkFact DEF LinkInv
<1>7. ClientInv' /\ BridgeInv'
  BY <1>1, <1>4, Untouched, EndpointFacts DEF air, SameEndpoints
<1> QED
  BY <1>4, <1>5, <1>6, <1>7

LEMMA ServiceTcpTxInv ==
    ASSUME TelemetryInv, NEW i \in Slots, ServiceTcpTx(i)
    PROVE  TelemetryInv'
<1> USE DEF TelemetryInv
<1> DEFINE c == client[i]
           taken == IF c.pending = <<>> THEN Upto(Batch, c.tx_queue) ELSE <<>>
           packets == [k \in DOMAIN taken |-> Halves(taken[k])]
           batch == c.pending \o FlattenSeq(packets)
<1>1. /\ task = Loop /\ c.used
      /\ \E n \in Moves(batch, Window - Len(link[c.link].down)) :
            /\ link' = [link EXCEPT ![c.link].down = @ \o SubSeq(batch, 1, n)]
            /\ client' = [client EXCEPT ![i].tx_queue = SubSeq(@, Len(taken) + 1, Len(@)),
                                        ![i].pending = SubSeq(batch, n + 1, Len(batch))]
      /\ UNCHANGED <<router, udp, udp_clients, task, backlog, ground, outside, delivered>>
  BY DEF ServiceTcpTx
<1>2. c \in TcpClient /\ c.link \in Links
  BY <1>1 DEF ClientInv
<1>3. taken \in Seq(AnyFrame) /\ Len(taken) \in 0..Len(c.tx_queue)
  <2>1. c.tx_queue \in Seq(AnyFrame)
    BY <1>2 DEF TcpClient
  <2>2. Upto(Batch, c.tx_queue) \in Seq(AnyFrame) /\ Len(Upto(Batch, c.tx_queue)) <= Len(c.tx_queue)
    BY <2>1, UptoFact, TelemetryAssumption
  <2>3. Len(Upto(Batch, c.tx_queue)) \in Nat /\ Len(c.tx_queue) \in Nat /\ Len(<<>>) = 0
        /\ <<>> \in Seq(AnyFrame)
    BY <2>1, <2>2, LenProperties, EmptySeq
  <2> HIDE DEF c
  <2>4. CASE c.pending = <<>>
    BY <2>2, <2>3, <2>4
  <2>5. CASE c.pending # <<>>
    BY <2>3, <2>5
  <2> QED
    BY <2>4, <2>5
<1>4. batch \in Seq(HalfFrame)
  <2> HIDE DEF taken, c
  <2>1. DOMAIN taken = 1..Len(taken) /\ Len(taken) \in Nat
        /\ \A k \in 1..Len(taken) : taken[k] \in AnyFrame
    BY <1>3, LenProperties
  <2>2. packets \in Seq(Seq(HalfFrame))
    BY <2>1, FrameFacts
  <2>3. FlattenSeq(packets) \in Seq(HalfFrame)
    <3> HIDE DEF packets
    <3> QED BY <2>2, FlattenFact
  <2>4. c.pending \in Seq(HalfFrame)
    BY <1>2 DEF TcpClient
  <2> QED
    BY <2>3, <2>4, ConcatProperties
<1> HIDE DEF batch, taken
<1>5. PICK n \in Moves(batch, Window - Len(link[c.link].down)) :
         /\ link' = [link EXCEPT ![c.link].down = @ \o SubSeq(batch, 1, n)]
         /\ client' = [client EXCEPT ![i].tx_queue = SubSeq(@, Len(taken) + 1, Len(@)),
                                     ![i].pending = SubSeq(batch, n + 1, Len(batch))]
  BY <1>1
<1> DEFINE sent == SubSeq(batch, 1, n)
           rest == SubSeq(batch, n + 1, Len(batch))
           queue == SubSeq(c.tx_queue, Len(taken) + 1, Len(c.tx_queue))
           after == [c EXCEPT !.tx_queue = queue, !.pending = rest]
<1>6. sent \in Seq(HalfFrame) /\ rest \in Seq(HalfFrame) /\ queue \in Seq(AnyFrame)
  <2>1. c.tx_queue \in Seq(AnyFrame)
    BY <1>2 DEF TcpClient
  <2> QED
    BY <1>3, <1>4, <2>1, MovesFact, SliceFact
<1>7. /\ link' = [link EXCEPT ![c.link] = [link[c.link] EXCEPT !.down = link[c.link].down \o sent]]
      /\ client' = [client EXCEPT ![i] = after]
  BY <1>2, <1>5 DEF LinkInv, ClientInv
<1> HIDE DEF sent, rest, queue
<1>8. RouterInv' /\ SameEndpoints /\ OutsideInv' /\ BridgeInv'
  BY <1>1, Untouched, EndpointFacts DEF outside, SameEndpoints
<1>9. LinkInv'
  <2>1. link[c.link] \in Link
    BY <1>2 DEF LinkInv
  <2>2. link[c.link].down \o sent \in Seq(HalfFrame)
    BY <1>6, <2>1, ConcatProperties DEF Link
  <2>3. [link[c.link] EXCEPT !.down = link[c.link].down \o sent] \in Link
    BY <2>1, <2>2 DEF Link
  <2> QED
    BY <1>1, <1>2, <1>7, <2>3, LinkFact DEF LinkInv
<1>10. ClientInv'
  <2>1. after \in TcpClient /\ after.used = c.used /\ after.has_queue = c.has_queue
        /\ after.link = c.link
    BY <1>2, <1>6 DEF TcpClient
  <2> HIDE DEF after
  <2>2. /\ client' \in [Slots -> TcpClient]
        /\ \A j \in Slots : /\ client'[j].used = client[j].used
                            /\ client'[j].has_queue = client[j].has_queue
                            /\ client'[j].link = client[j].link
    BY <1>7, <2>1 DEF ClientInv
  <2>3. Registered("air")' = Registered("air") /\ task' = task /\ udp' = udp
    BY <1>1, <1>8, EndpointFacts DEF SameEndpoints
  <2> QED
    BY <2>2, <2>3 DEF ClientInv
<1> QED
  BY <1>8, <1>9, <1>10

-----------------------------------------------------------------------------
(* The network task and its UDP clients. *)

LEMMA NewUdpFact ==
    ASSUME NEW a \in Nat
    PROVE  /\ [NoUdp EXCEPT !.used = TRUE, !.address = a] \in UdpClient
           /\ [NoUdp EXCEPT !.used = TRUE, !.address = a].used = TRUE
BY DEF NoUdp, UdpClient

LEMMA RegisterUdpInv ==
    ASSUME TelemetryInv, NEW address \in {1, 2}, NEW m \in environment.udp,
           RegisterUdp(address, Frame(m, 255, "none"))
    PROVE  TelemetryInv'
<1> DEFINE free == {i \in UdpSlots : ~udp[i].used}
           slot == CHOOSE i \in free : \A j \in free : i <= j
           frame == Frame(m, 255, "none")
           new == [NoUdp EXCEPT !.used = TRUE, !.address = address]
<1> USE DEF TelemetryInv
<1>1. /\ task = Loop /\ free # {} /\ Register("air", Udp(slot))
      /\ udp' = [udp EXCEPT ![slot] = new]
      /\ task' = [at |-> "counting", slot |-> slot, datagram |-> Halves(frame)]
      /\ gcs' = gcs + 1
      /\ UNCHANGED <<s_dedup, s_fc_system_id, s_fc_armed, now, network, delivered>>
      /\ UNCHANGED <<client, backlog, link, ground, environment, fc, faults>>
  BY DEF RegisterUdp, UdpUnchanged
<1>2. slot \in free
  <2>1. free \subseteq Nat
    BY TelemetryAssumption
  <2>2. \E i \in free : \A j \in free : i <= j
    <3> HIDE DEF free
    <3> QED BY <1>1, <2>1, LeastNat
  <2> QED
    BY <2>2
<1> HIDE DEF slot
<1>3. slot \in UdpSlots /\ ~udp[slot].used /\ slot \in Nat
  BY <1>2, TelemetryAssumption
<1>4. m \in Nat /\ Halves(frame) \in Seq(HalfFrame)
  BY EnvironmentFacts, GcsFrame
<1> HIDE DEF frame
<1>5. RouterInv' /\ \A v \in Units : Registered(v)' = IF v = "air"
                       THEN Registered("air") \cup {Udp(slot)} ELSE Registered(v)
  BY <1>1, RegisterKeeps, EndpointFacts
<1>6. OutsideInv'
  BY <1>1 DEF OutsideInv
<1>7. LinkInv' /\ BridgeInv'
  BY <1>1, <1>5, Untouched, EndpointFacts
<1>8. ClientInv'
  <2>1. new \in UdpClient /\ new.used
    <3>1. address \in Nat
      OBVIOUS
    <3> QED BY <3>1, NewUdpFact
  <2> HIDE DEF new
  <2>2. /\ udp' \in [UdpSlots -> UdpClient]
        /\ \A i \in UdpSlots : udp'[i] = IF i = slot THEN new ELSE udp[i]
    BY <1>1, <1>3, <2>1 DEF ClientInv
  <2>3. /\ task' \in TaskState
        /\ task'.at = "counting" /\ task'.slot = slot /\ task.at = "loop"
    BY <1>1, <1>3, <1>4 DEF Loop, TaskState
  <2>4. Registered("air")' = Registered("air") \cup {Udp(slot)}
    BY <1>5, EndpointFacts
  <2>5. \A i \in Slots : Tcp(i) \in Registered("air")' <=> client'[i].used
    BY <1>1, <2>3, <2>4, EndpointFacts DEF ClientInv
  <2>6. \A i \in UdpSlots : Udp(i) \in Registered("air")' <=> udp'[i].used
    BY <1>1, <1>3, <2>1, <2>2, <2>3, <2>4, EndpointFacts DEF ClientInv
  <2>7. Uart \in Registered("air")'
    BY <2>4 DEF ClientInv
  <2>8. udp'[slot].used
    BY <1>3, <2>1, <2>2
  <2> QED
    BY <1>1, <1>3, <2>2, <2>3, <2>5, <2>6, <2>7, <2>8 DEF ClientInv
<1> QED
  BY <1>5, <1>6, <1>7, <1>8

\* A datagram goes through the router.
LEMMA IngestUdpKeeps ==
    ASSUME TelemetryInv, NEW i \in UdpSlots, Udp(i) \in Registered("air"),
           NEW halves \in Seq(HalfFrame), IngestUdp(i, halves)
    PROVE  RouterInv' /\ SameEndpoints /\ delivered' \in [Units -> Seq(AnyFrame)]
<1> USE DEF TelemetryInv
<1>1. /\ Ingest("air", Udp(i), halves, NoLook)
      /\ Deliver("air", Passed("air", Udp(i), halves, NoLook))
  BY DEF IngestUdp, NoLook
<1>2. "air" \in Units /\ NoLook \in Looks
  BY EndpointFacts DEF NoLook, Looks
<1>3. RouterInv' /\ SameEndpoints /\ Passed("air", Udp(i), halves, NoLook) \in Seq(AnyFrame)
  BY <1>1, <1>2, IngestKeeps, OutcomeFacts
<1> QED
  BY <1>1, <1>2, <1>3, DeliverKeeps

LEMMA CountUdpInv ==
    ASSUME TelemetryInv, CountUdp
    PROVE  TelemetryInv'
<1> USE DEF TelemetryInv
<1>1. /\ task.at = "counting" /\ task' = Loop /\ IngestUdp(task.slot, task.datagram)
      /\ UNCHANGED <<udp, gcs>>
      /\ UNCHANGED <<client, backlog, link, ground, environment, fc, faults>>
  BY DEF CountUdp, UdpUnchanged
<1>2. task.slot \in UdpSlots /\ Udp(task.slot) \in Registered("air")
      /\ task.datagram \in Seq(HalfFrame)
  BY <1>1 DEF ClientInv, TaskState
<1>3. RouterInv' /\ SameEndpoints /\ delivered' \in [Units -> Seq(AnyFrame)]
  BY <1>1, <1>2, IngestUdpKeeps
<1>4. OutsideInv' /\ LinkInv' /\ BridgeInv'
  BY <1>1, <1>3, Untouched, EndpointFacts DEF OutsideInv, SameEndpoints
<1>5. ClientInv'
  <2>1. Registered("air")' = Registered("air")
    BY <1>3, EndpointFacts DEF SameEndpoints
  <2>2. task' \in TaskState /\ task'.at = "loop"
    BY <1>1, EmptySeq DEF Loop, TaskState
  <2> QED
    BY <1>1, <2>1, <2>2 DEF ClientInv
<1> QED
  BY <1>3, <1>4, <1>5

LEMMA UdpReceiveInv ==
    ASSUME TelemetryInv, NEW i \in UdpSlots, NEW m \in environment.udp,
           UdpReceive(i, Frame(m, 255, "none"))
    PROVE  TelemetryInv'
<1> USE DEF TelemetryInv
<1> DEFINE halves == Halves(Frame(m, 255, "none"))
<1>1. /\ task = Loop /\ udp[i].used /\ IngestUdp(i, halves) /\ gcs' = gcs + 1
      /\ UNCHANGED <<udp, udp_clients, task>>
      /\ UNCHANGED <<client, backlog, link, ground, environment, fc, faults>>
  BY DEF UdpReceive, UdpUnchanged
<1>2. m \in Nat /\ halves \in Seq(HalfFrame)
  BY EnvironmentFacts, GcsFrame
<1> HIDE DEF halves
<1>3. Udp(i) \in Registered("air")
  BY <1>1 DEF ClientInv, Loop
<1>4. RouterInv' /\ SameEndpoints /\ delivered' \in [Units -> Seq(AnyFrame)]
  BY <1>1, <1>2, <1>3, IngestUdpKeeps
<1>5. OutsideInv' /\ LinkInv' /\ BridgeInv' /\ ClientInv'
  BY <1>1, <1>4, Untouched, EndpointFacts DEF OutsideInv, SameEndpoints
<1> QED
  BY <1>4, <1>5

LEMMA ExpireUdpInv ==
    ASSUME TelemetryInv, NEW i \in UdpSlots, ExpireUdp(i)
    PROVE  TelemetryInv'
<1> USE DEF TelemetryInv
<1>1. /\ task = Loop /\ udp[i].used /\ Unregister("air", Udp(i))
      /\ task' = [Loop EXCEPT !.at = "expired", !.slot = i]
      /\ faults' \in {faults, faults + 1}
      /\ UNCHANGED <<s_dedup, s_fc_system_id, s_fc_armed, now, network, udp, udp_clients, client,
                     backlog, link, ground, environment, fc, gcs, delivered>>
  BY DEF ExpireUdp, Fault
<1>2. RouterInv' /\ \A v \in Units : Registered(v)' = IF v = "air"
                       THEN Registered("air") \ {Udp(i)} ELSE Registered(v)
  BY <1>1, UnregisterKeeps, EndpointFacts
<1>3. OutsideInv'
  BY <1>1 DEF OutsideInv
<1>4. LinkInv' /\ BridgeInv'
  BY <1>1, <1>2, Untouched, EndpointFacts
<1>5. ClientInv'
  <2>1. task'.at = "expired" /\ task'.slot = i /\ task.at = "loop"
    BY <1>1 DEF Loop
  <2>2. task' \in TaskState
    BY <1>1, EmptySeq, TelemetryAssumption DEF Loop, TaskState
  <2>3. Registered("air")' = Registered("air") \ {Udp(i)}
    BY <1>2, EndpointFacts
  <2>4. \A j \in UdpSlots : Udp(j) \in Registered("air")' <=> udp'[j].used /\ ~(task'.slot = j)
    BY <1>1, <2>1, <2>3, EndpointFacts DEF ClientInv
  <2>5. /\ \A j \in Slots : Tcp(j) \in Registered("air")' <=> client'[j].used
        /\ Uart \in Registered("air")'
    BY <1>1, <2>1, <2>3, EndpointFacts DEF ClientInv
  <2> QED
    BY <1>1, <2>1, <2>2, <2>4, <2>5 DEF ClientInv
<1> QED
  BY <1>2, <1>3, <1>4, <1>5

LEMMA CountExpiredInv ==
    ASSUME TelemetryInv, CountExpired
    PROVE  TelemetryInv'
<1> USE DEF TelemetryInv
<1>1. /\ task.at = "expired" /\ task' = Loop /\ udp' = [udp EXCEPT ![task.slot] = NoUdp]
      /\ UNCHANGED <<router, gcs, delivered>>
      /\ UNCHANGED <<client, backlog, link, ground, environment, fc, faults>>
  BY DEF CountExpired, UdpUnchanged
<1>2. RouterInv' /\ SameEndpoints /\ OutsideInv' /\ LinkInv' /\ BridgeInv'
  BY <1>1, Untouched, EndpointFacts DEF SameEndpoints
<1>3. ClientInv'
  <2>1. NoUdp \in UdpClient /\ NoUdp.used = FALSE /\ task.slot \in UdpSlots
    BY <1>1 DEF NoUdp, UdpClient, ClientInv
  <2>2. /\ udp' \in [UdpSlots -> UdpClient]
        /\ \A i \in UdpSlots : udp'[i] = IF i = task.slot THEN NoUdp ELSE udp[i]
    BY <1>1, <2>1 DEF ClientInv
  <2>3. /\ task' \in TaskState
        /\ task'.at = "loop"
    BY <1>1, EmptySeq DEF Loop, TaskState
  <2>4. Registered("air")' = Registered("air")
    BY <1>2, EndpointFacts DEF SameEndpoints
  <2>5. \A i \in UdpSlots : Udp(i) \in Registered("air")' <=> udp'[i].used
    BY <1>1, <2>1, <2>2, <2>4 DEF ClientInv
  <2>6. /\ \A i \in Slots : Tcp(i) \in Registered("air")' <=> client'[i].used
        /\ Uart \in Registered("air")'
    BY <1>1, <2>4 DEF ClientInv
  <2> QED
    BY <1>1, <2>2, <2>3, <2>5, <2>6 DEF ClientInv
<1> QED
  BY <1>2, <1>3

-----------------------------------------------------------------------------
(* The ground unit. *)

LEMMA StationInv ==
    ASSUME TelemetryInv, StaDisconnected \/ Reconnect \/ StaGotIp
    PROVE  TelemetryInv'
<1> USE DEF TelemetryInv
<1>1. /\ UNCHANGED <<router, air, backlog, link, bridge, environment, fc, gcs, delivered>>
      /\ faults' \in {faults, faults + 1} /\ sta' \in {"connecting", "connected", "waiting"}
      /\ attempts' \in {attempts, attempts + 1, 0}
  BY DEF StaDisconnected, Reconnect, StaGotIp, StationUnchanged, Fault
<1>2. RouterInv' /\ SameEndpoints /\ LinkInv' /\ ClientInv'
  BY <1>1, Untouched, EndpointFacts DEF SameEndpoints, air
<1>3. OutsideInv'
  BY <1>1 DEF OutsideInv
<1>4. BridgeInv'
  BY <1>1, <1>2, EndpointFacts DEF BridgeInv, BridgeState, SameEndpoints
<1> QED
  BY <1>2, <1>3, <1>4

LEMMA ConnectKeeps ==
    ASSUME LinkInv, NEW station \in {"ground", "other"}, NEW l \in Links, Connect(station, l)
    PROVE  LinkInv'
<1>1. [NoLink EXCEPT !.station = station, !.peer = TRUE, !.air = "waiting"] \in Link
  BY EmptySeq DEF NoLink, Link
<1>2. Append(backlog, l) \in Seq(Links)
  BY QueueFacts DEF LinkInv
<1> QED
  BY <1>1, <1>2, LinkFact DEF Connect, LinkInv

LEMMA PeerClosesKeeps ==
    ASSUME LinkInv, NEW l \in Links, link' = PeerCloses(l), UNCHANGED backlog
    PROVE  LinkInv'
<1>1. link[l] \in Link
  BY DEF LinkInv
<1>2. [link[l] EXCEPT !.peer = FALSE, !.down = <<>>] \in Link
  BY <1>1, EmptySeq DEF Link
<1>3. link' = [link EXCEPT ![l] = [link[l] EXCEPT !.peer = FALSE, !.down = <<>>]]
  BY <1>1 DEF PeerCloses, LinkInv
<1> QED
  BY <1>2, <1>3, LinkFact DEF LinkInv

LEMMA BridgeConnectInv ==
    ASSUME TelemetryInv, BridgeConnect
    PROVE  TelemetryInv'
<1> USE DEF TelemetryInv
<1>1. PICK l \in Links :
         /\ Connect("ground", l)
         /\ bridge' = [bridge EXCEPT !.socket = l, !.at = "registered", !.pending = <<>>]
  BY DEF BridgeConnect
<1>2. /\ bridge.at = "loop" /\ bridge.socket = 0 /\ Register("ground", Bridge)
      /\ UNCHANGED <<now, s_dedup, s_fc_system_id, s_fc_armed, network, delivered>>
      /\ UNCHANGED <<air, sta, attempts, outside>>
  BY DEF BridgeConnect, BridgeUnchanged
<1>3. RouterInv' /\ \A v \in Units : Registered(v)' = IF v = "ground"
                       THEN Registered("ground") \cup {Bridge} ELSE Registered(v)
  BY <1>2, RegisterKeeps, EndpointFacts
<1>4. LinkInv'
  BY <1>1, ConnectKeeps
<1>5. OutsideInv' /\ ClientInv'
  BY <1>2, <1>3, Untouched, EndpointFacts DEF outside, air
<1>6. BridgeInv'
  <2>1. l # 0 /\ ~bridge.connected /\ bridge.tx_queue = <<>>
    BY <1>1, <1>2, TelemetryAssumption DEF BridgeInv, BridgeState
  <2>2. Registered("ground")' = Registered("ground") \cup {Bridge}
    BY <1>3, EndpointFacts
  <2>3. /\ bridge'.socket = l /\ bridge'.at = "registered" /\ bridge'.connected = FALSE
        /\ bridge'.tx_queue = <<>> /\ DOMAIN bridge'.tx_queue = {}
    BY <1>1, <2>1 DEF BridgeInv, BridgeState
  <2>4. bridge' \in BridgeState
    BY <1>1, EmptySeq DEF BridgeInv, BridgeState
  <2> QED
    BY <1>2, <2>1, <2>2, <2>3, <2>4 DEF BridgeInv, BridgeState
<1> QED
  BY <1>3, <1>4, <1>5, <1>6

LEMMA BridgeConnectedInv ==
    ASSUME TelemetryInv, BridgeConnected
    PROVE  TelemetryInv'
<1> USE DEF TelemetryInv
<1>1. /\ bridge.at = "registered" /\ bridge' = [bridge EXCEPT !.at = "loop", !.connected = TRUE]
      /\ UNCHANGED <<router, backlog, link, delivered>> /\ UNCHANGED <<air, sta, attempts, outside>>
  BY DEF BridgeConnected, BridgeUnchanged
<1>2. RouterInv' /\ SameEndpoints /\ OutsideInv' /\ LinkInv' /\ ClientInv'
  BY <1>1, Untouched, EndpointFacts DEF SameEndpoints, air, outside
<1>3. Registered("ground")' = Registered("ground")
  BY <1>2, EndpointFacts DEF SameEndpoints
<1>4. BridgeInv'
  BY <1>1, <1>3 DEF BridgeInv, BridgeState
<1> QED
  BY <1>2, <1>4

LEMMA BridgeDisconnectInv ==
    ASSUME TelemetryInv, BridgeDisconnect
    PROVE  TelemetryInv'
<1> USE DEF TelemetryInv
<1>1. /\ bridge.at = "loop" /\ bridge.connected /\ Unregister("ground", Bridge)
      /\ bridge' = [bridge EXCEPT !.at = "unregistered"]
      /\ UNCHANGED <<now, s_dedup, s_fc_system_id, s_fc_armed, network, backlog, link, delivered>>
      /\ UNCHANGED <<air, sta, attempts, outside>>
  BY DEF BridgeDisconnect, BridgeUnchanged
<1>2. RouterInv' /\ \A v \in Units : Registered(v)' = IF v = "ground"
                       THEN Registered("ground") \ {Bridge} ELSE Registered(v)
  BY <1>1, UnregisterKeeps, EndpointFacts
<1>3. OutsideInv' /\ LinkInv' /\ ClientInv'
  BY <1>1, <1>2, Untouched, EndpointFacts DEF outside, air
<1>4. Registered("ground")' = Registered("ground") \ {Bridge}
  BY <1>2, EndpointFacts
<1>5. BridgeInv'
  BY <1>1, <1>4, EndpointFacts DEF BridgeInv, BridgeState
<1> QED
  BY <1>2, <1>3, <1>5

LEMMA DisconnectedFact ==
    /\ Disconnected.socket = 0 /\ Disconnected.connected = FALSE /\ Disconnected.at = "loop"
    /\ Disconnected.tx_queue = <<>> /\ DOMAIN Disconnected.tx_queue = {}
    /\ Disconnected \in BridgeState
BY EmptySeq DEF Disconnected, BridgeState

LEMMA BridgeClearedInv ==
    ASSUME TelemetryInv, BridgeCleared
    PROVE  TelemetryInv'
<1> USE DEF TelemetryInv
<1>1. /\ bridge.at = "unregistered" /\ bridge' = Disconnected
      /\ link' = PeerCloses(bridge.socket)
      /\ UNCHANGED <<router, backlog, delivered>> /\ UNCHANGED <<air, sta, attempts, outside>>
  BY DEF BridgeCleared, BridgeUnchanged, BridgeReset
<1>2. RouterInv' /\ SameEndpoints /\ OutsideInv' /\ ClientInv'
  BY <1>1, Untouched, EndpointFacts DEF SameEndpoints, air, outside
<1>3. Registered("ground")' = Registered("ground")
  BY <1>2, EndpointFacts DEF SameEndpoints
<1>4. bridge.socket \in Links
  BY <1>1 DEF BridgeInv, BridgeState
<1>5. LinkInv'
  BY <1>1, <1>4, PeerClosesKeeps
<1>6. BridgeInv'
  <2>1. Bridge \notin Registered("ground")' /\ Usb \in Registered("ground")'
    BY <1>1, <1>3 DEF BridgeInv, BridgeState
  <2> QED
    BY <1>1, <2>1, DisconnectedFact DEF BridgeInv, BridgeState
<1> QED
  BY <1>2, <1>5, <1>6

\* What the air unit has sent goes through the router of the ground unit.
LEMMA BridgeReads ==
    ASSUME TelemetryInv, BridgeReceive
    PROVE  /\ Bridge \in Registered("ground")
           /\ UNCHANGED <<backlog, bridge, air, sta, attempts, outside>>
           /\ \E l \in Links, read \in Seq(HalfFrame), rest \in Seq(HalfFrame) :
                /\ Ingest("ground", Bridge, read, NoLook)
                /\ Deliver("ground", Passed("ground", Bridge, read, NoLook))
                /\ link' = [link EXCEPT ![l] = [link[l] EXCEPT !.down = rest]]
<1> USE DEF TelemetryInv
<1> DEFINE l == bridge.socket
<1>1. /\ bridge.at = "loop" /\ bridge.connected
      /\ UNCHANGED <<backlog, bridge, air, sta, attempts, outside>>
      /\ \E n \in Moves(link[l].down, Window) :
            /\ Ingest("ground", Bridge, SubSeq(link[l].down, 1, n), NoLook)
            /\ Deliver("ground", Passed("ground", Bridge, SubSeq(link[l].down, 1, n), NoLook))
            /\ link' = [link EXCEPT ![l].down = SubSeq(@, n + 1, Len(@))]
  BY DEF BridgeReceive, BridgeUnchanged, NoLook
<1>2. l \in Links /\ l # 0
  BY <1>1, TelemetryAssumption DEF BridgeInv, BridgeState
<1>3. Bridge \in Registered("ground")
  BY <1>1, <1>2 DEF BridgeInv
<1> HIDE DEF l
<1>4. link[l].down \in Seq(HalfFrame)
  BY <1>2 DEF LinkInv, Link
<1>5. PICK n \in Moves(link[l].down, Window) :
         /\ Ingest("ground", Bridge, SubSeq(link[l].down, 1, n), NoLook)
         /\ Deliver("ground", Passed("ground", Bridge, SubSeq(link[l].down, 1, n), NoLook))
         /\ link' = [link EXCEPT ![l].down = SubSeq(@, n + 1, Len(@))]
  BY <1>1
<1> DEFINE read == SubSeq(link[l].down, 1, n)
           rest == SubSeq(link[l].down, n + 1, Len(link[l].down))
<1>6. read \in Seq(HalfFrame) /\ rest \in Seq(HalfFrame)
  BY <1>4, MovesFact
<1>7. link' = [link EXCEPT ![l] = [link[l] EXCEPT !.down = rest]]
  BY <1>2, <1>5 DEF LinkInv
<1>8. Ingest("ground", Bridge, read, NoLook) /\ Deliver("ground", Passed("ground", Bridge, read, NoLook))
  BY <1>5
<1> HIDE DEF read, rest
<1> QED
  BY <1>1, <1>2, <1>3, <1>6, <1>7, <1>8

LEMMA BridgeReceiveInv ==
    ASSUME TelemetryInv, BridgeReceive
    PROVE  TelemetryInv'
<1> USE DEF TelemetryInv
<1>1. /\ Bridge \in Registered("ground")
      /\ UNCHANGED <<backlog, bridge, air, sta, attempts, outside>>
  BY BridgeReads
<1>2. PICK l \in Links, read \in Seq(HalfFrame), rest \in Seq(HalfFrame) :
         /\ Ingest("ground", Bridge, read, NoLook)
         /\ Deliver("ground", Passed("ground", Bridge, read, NoLook))
         /\ link' = [link EXCEPT ![l] = [link[l] EXCEPT !.down = rest]]
  BY BridgeReads
<1>3. "ground" \in Units /\ NoLook \in Looks
  BY EndpointFacts DEF NoLook, Looks
<1>4. RouterInv' /\ SameEndpoints /\ Passed("ground", Bridge, read, NoLook) \in Seq(AnyFrame)
  BY <1>1, <1>2, <1>3, IngestKeeps, OutcomeFacts
<1>5. OutsideInv'
  BY <1>1, <1>2, <1>3, <1>4, DeliverKeeps DEF OutsideInv, outside
<1>6. LinkInv'
  <2>1. [link[l] EXCEPT !.down = rest] \in Link
    BY DEF LinkInv, Link
  <2> QED
    BY <1>1, <1>2, <2>1, LinkFact DEF LinkInv
<1>7. ClientInv' /\ BridgeInv'
  BY <1>1, <1>4, Untouched, EndpointFacts DEF air, ground, SameEndpoints
<1> QED
  BY <1>4, <1>5, <1>6, <1>7

LEMMA BridgeTransmitInv ==
    ASSUME TelemetryInv, BridgeTransmit
    PROVE  TelemetryInv'
<1> USE DEF TelemetryInv
<1> DEFINE l == bridge.socket
           fresh == bridge.pending = <<>> /\ bridge.tx_queue # <<>>
           packet == IF fresh THEN Halves(Head(bridge.tx_queue).frame) ELSE bridge.pending
           left == IF fresh THEN Tail(bridge.tx_queue) ELSE bridge.tx_queue
<1>1. /\ bridge.at = "loop" /\ bridge.connected
      /\ UNCHANGED <<router, backlog, delivered>> /\ UNCHANGED <<air, sta, attempts, outside>>
      /\ \E n \in Moves(packet, Window - Len(link[l].up)) :
            /\ link' = [link EXCEPT ![l].up = @ \o SubSeq(packet, 1, n)]
            /\ bridge' = [bridge EXCEPT !.tx_queue = IF fresh THEN Tail(@) ELSE @,
                                        !.pending = SubSeq(packet, n + 1, Len(packet))]
  BY DEF BridgeTransmit, BridgeUnchanged
<1>2. l \in Links /\ l # 0
  BY <1>1 DEF BridgeInv, BridgeState
<1>3. bridge.tx_queue \in Seq(Queued) /\ bridge.pending \in Seq(HalfFrame)
  BY DEF BridgeInv, BridgeState
<1>4. packet \in Seq(HalfFrame)
  <2>1. CASE fresh
    <3>1. Head(bridge.tx_queue) \in Queued
      BY <1>3, <2>1, QueueFacts
    <3>2. Head(bridge.tx_queue).frame \in AnyFrame
      BY <3>1 DEF Queued
    <3> QED
      BY <2>1, <3>2, FrameFacts
  <2>2. CASE ~fresh
    BY <1>3, <2>2
  <2> QED
    BY <2>1, <2>2
<1>5. left \in Seq(Queued) /\ \A k \in DOMAIN left : left[k].link = l
  <2>1. CASE fresh
    <3>1. /\ Tail(bridge.tx_queue) \in Seq(Queued)
          /\ Len(Tail(bridge.tx_queue)) = Len(bridge.tx_queue) - 1
          /\ \A k \in 1..Len(Tail(bridge.tx_queue)) :
                Tail(bridge.tx_queue)[k] = bridge.tx_queue[k + 1]
      BY <1>3, <2>1, HeadTailProperties
    <3>2. /\ DOMAIN bridge.tx_queue = 1..Len(bridge.tx_queue) /\ Len(bridge.tx_queue) \in Nat
          /\ DOMAIN Tail(bridge.tx_queue) = 1..Len(Tail(bridge.tx_queue))
      BY <1>3, <3>1, LenProperties
    <3>3. \A k \in DOMAIN Tail(bridge.tx_queue) : k + 1 \in DOMAIN bridge.tx_queue
      BY <3>1, <3>2
    <3> QED
      BY <2>1, <3>1, <3>2, <3>3 DEF BridgeInv
  <2>2. CASE ~fresh
    BY <1>3, <2>2 DEF BridgeInv
  <2> QED
    BY <2>1, <2>2
<1>6. PICK n \in Moves(packet, Window - Len(link[l].up)) :
         /\ link' = [link EXCEPT ![l].up = @ \o SubSeq(packet, 1, n)]
         /\ bridge' = [bridge EXCEPT !.tx_queue = left,
                                     !.pending = SubSeq(packet, n + 1, Len(packet))]
  BY <1>1
<1> HIDE DEF packet, left, l
<1> DEFINE sent == SubSeq(packet, 1, n)
           rest == SubSeq(packet, n + 1, Len(packet))
<1>7. sent \in Seq(HalfFrame) /\ rest \in Seq(HalfFrame)
  BY <1>4, MovesFact
<1>8. /\ link' = [link EXCEPT ![l] = [link[l] EXCEPT !.up = link[l].up \o sent]]
      /\ bridge' = [bridge EXCEPT !.tx_queue = left, !.pending = rest]
  BY <1>2, <1>6 DEF LinkInv
<1> HIDE DEF sent, rest
<1>9. RouterInv' /\ SameEndpoints /\ OutsideInv' /\ ClientInv'
  BY <1>1, Untouched, EndpointFacts DEF outside, air, SameEndpoints
<1>10. LinkInv'
  <2>1. link[l] \in Link
    BY <1>2 DEF LinkInv
  <2>2. link[l].up \o sent \in Seq(HalfFrame)
    BY <1>7, <2>1, ConcatProperties DEF Link
  <2>3. [link[l] EXCEPT !.up = link[l].up \o sent] \in Link
    BY <2>1, <2>2 DEF Link
  <2> QED
    BY <1>1, <1>2, <1>8, <2>3, LinkFact DEF LinkInv
<1>11. BridgeInv'
  <2>1. /\ bridge'.socket = l /\ bridge'.connected = bridge.connected /\ bridge'.at = "loop"
        /\ bridge'.tx_queue = left
    BY <1>1, <1>8 DEF BridgeInv, BridgeState, l
  <2>2. bridge' \in BridgeState
    BY <1>5, <1>7, <1>8 DEF BridgeInv, BridgeState
  <2>3. Registered("ground")' = Registered("ground")
    BY <1>9, EndpointFacts DEF SameEndpoints
  <2> QED
    BY <1>1, <1>2, <1>5, <2>1, <2>2, <2>3 DEF BridgeInv, l
<1> QED
  BY <1>9, <1>10, <1>11

LEMMA GroundRestartsInv ==
    ASSUME TelemetryInv, GroundRestarts
    PROVE  TelemetryInv'
<1> USE DEF TelemetryInv
<1>1. /\ s_endpoints' = [s_endpoints EXCEPT !["ground"] = [e \in {Usb} |-> <<>>]]
      /\ s_dedup' = [s_dedup EXCEPT !["ground"] = <<>>]
      /\ network' = [network EXCEPT !["ground"] = <<>>]
      /\ s_fc_system_id' = [s_fc_system_id EXCEPT !["ground"] = 0]
      /\ s_fc_armed' = [s_fc_armed EXCEPT !["ground"] = FALSE]
      /\ bridge' = Disconnected /\ sta' = "connecting" /\ attempts' = 0
      /\ link' = IF bridge.socket = 0 THEN link ELSE PeerCloses(bridge.socket)
      /\ UNCHANGED <<now, air, backlog, environment, fc, gcs, delivered>>
      /\ faults' = faults + 1
  BY DEF GroundRestarts, Fault
<1>2. Registered("ground")' = {Usb} /\ Registered("air")' = Registered("air")
  BY <1>1, EndpointFacts DEF RouterInv, Registered
<1>3. RouterInv'
  <2>1. \A e \in Registered("ground")' : s_endpoints'["ground"][e] \in Parser
    BY <1>1, <1>2, EndpointFacts DEF RouterInv, Parser
  <2>2. \A e \in Registered("air")' : s_endpoints'["air"][e] \in Parser
    BY <1>1, <1>2, EndpointFacts DEF RouterInv
  <2>3. s_dedup' \in [Units -> Seq(Noted)] /\ network' \in [Units -> Seq(Seen)]
    BY <1>1, EmptySeq DEF RouterInv
  <2>4. /\ s_fc_system_id' \in [Units -> Nat] /\ s_fc_armed' \in [Units -> BOOLEAN]
        /\ \A v \in Units : s_fc_armed'[v] => s_fc_system_id'[v] # 0
    BY <1>1 DEF RouterInv
  <2>5. DOMAIN s_endpoints' = Units /\ now' \in Nat
    BY <1>1 DEF RouterInv
  <2> QED
    BY <2>1, <2>2, <2>3, <2>4, <2>5, EndpointFacts DEF RouterInv
<1>4. OutsideInv'
  BY <1>1 DEF OutsideInv
<1>5. LinkInv'
  <2>1. CASE bridge.socket = 0
    BY <1>1, <2>1, Untouched
  <2>2. CASE bridge.socket # 0
    <3>1. bridge.socket \in Links
      BY <2>2 DEF BridgeInv, BridgeState
    <3> QED
      BY <1>1, <2>2, <3>1, PeerClosesKeeps
  <2> QED
    BY <2>1, <2>2
<1>6. ClientInv'
  BY <1>1, <1>2, Untouched DEF air
<1>7. BridgeInv'
  BY <1>1, <1>2, DisconnectedFact, EndpointFacts DEF BridgeInv
<1> QED
  BY <1>3, <1>4, <1>5, <1>6, <1>7

LEMMA OtherClientsInv ==
    ASSUME TelemetryInv, OtherConnects \/ \E l \in Links : OtherLeaves(l)
    PROVE  TelemetryInv'
<1> USE DEF TelemetryInv
<1>1. CASE OtherConnects
  <2>1. /\ \E l \in Links : Connect("other", l)
        /\ faults' = faults + 1
        /\ UNCHANGED <<router, air, ground, environment, fc, gcs, delivered>>
    BY <1>1 DEF OtherConnects, Fault
  <2>2. LinkInv'
    BY <2>1, ConnectKeeps
  <2>3. OutsideInv'
    BY <2>1 DEF OutsideInv
  <2> QED
    BY <2>1, <2>2, <2>3, Untouched, EndpointFacts DEF SameEndpoints, air
<1>2. CASE \E l \in Links : OtherLeaves(l)
  <2>1. /\ \E l \in Links : link' = PeerCloses(l)
        /\ UNCHANGED <<router, air, backlog, ground, outside, delivered>>
    BY <1>2 DEF OtherLeaves
  <2>2. LinkInv'
    BY <2>1, PeerClosesKeeps
  <2> QED
    BY <2>1, <2>2, Untouched, EndpointFacts DEF SameEndpoints, air, outside
<1> QED
  BY <1>1, <1>2

-----------------------------------------------------------------------------
(* The invariant holds of every reachable state. *)

LEMMA InitTelemetryInv ==
    ASSUME Init
    PROVE  TelemetryInv
<1>1. /\ RouterInit([air |-> {Uart, UdpBroadcast}, ground |-> {Usb}])
      /\ client = [i \in Slots |-> NoClient]
      /\ udp = [i \in UdpSlots |-> NoUdp] /\ task = Loop
      /\ backlog = <<>> /\ link = [l \in Links |-> NoLink]
      /\ bridge = Disconnected /\ sta = "connecting" /\ attempts = 0
      /\ environment \in Environments
      /\ fc = [sent |-> 0, frame |-> Garbage, whole |-> FALSE] /\ gcs = 0 /\ faults = 0
      /\ delivered = [u \in Units |-> <<>>]
  BY DEF Init
<1>2. /\ Registered("air") = {Uart, UdpBroadcast} /\ Registered("ground") = {Usb}
      /\ DOMAIN s_endpoints = Units
      /\ \A u \in Units : \A e \in Registered(u) : s_endpoints[u][e] = <<>>
  BY <1>1, EndpointFacts DEF RouterInit, Registered
<1>3. RouterInv
  <2>1. s_dedup \in [Units -> Seq(Noted)] /\ network \in [Units -> Seq(Seen)]
    BY <1>1, EmptySeq DEF RouterInit
  <2>2. /\ s_fc_system_id \in [Units -> Nat] /\ s_fc_armed \in [Units -> BOOLEAN]
        /\ \A u \in Units : ~s_fc_armed[u] /\ now \in Nat
    BY <1>1 DEF RouterInit
  <2> QED
    BY <1>2, <2>1, <2>2, EndpointFacts DEF RouterInv, Parser
<1>4. OutsideInv
  BY <1>1, EmptySeq, FrameFacts DEF OutsideInv
<1>5. LinkInv
  BY <1>1, EmptySeq DEF LinkInv, Link, NoLink
<1>6. ClientInv
  <2>1. NoClient \in TcpClient /\ NoUdp \in UdpClient /\ Loop \in TaskState
    BY EmptySeq DEF NoClient, NoUdp, Loop, TcpClient, UdpClient, TaskState
  <2>2. \A i : /\ Tcp(i) \notin {Uart, UdpBroadcast}
               /\ i \in UdpSlots => Udp(i) \notin {Uart, UdpBroadcast}
    BY TelemetryAssumption DEF Tcp, Udp, Uart, UdpBroadcast
  <2>3. \A i \in Slots : ~client[i].used
    BY <1>1 DEF NoClient
  <2>4. \A i \in UdpSlots : ~udp[i].used
    BY <1>1 DEF NoUdp
  <2>5. task.at = "loop"
    BY <1>1 DEF Loop
  <2> QED
    BY <1>1, <1>2, <2>1, <2>2, <2>3, <2>4, <2>5 DEF ClientInv
<1>7. BridgeInv
  BY <1>1, <1>2, DisconnectedFact, EndpointFacts DEF BridgeInv
<1> QED
  BY <1>3, <1>4, <1>5, <1>6, <1>7 DEF TelemetryInv

LEMMA NextTelemetryInv ==
    ASSUME TelemetryInv, [Next]_vars
    PROVE  TelemetryInv'
<1>1. CASE UNCHANGED vars
  BY <1>1, Untouched, EndpointFacts DEF vars, air, ground, outside, TelemetryInv, SameEndpoints
<1>2. ASSUME NEW kind \in environment.kinds, NEW look \in Looks,
             NEW received \in {Whole, << 1 >>, << 2 >>}, UartRx(kind, received, look)
      PROVE  TelemetryInv'
  BY <1>2, UartRxInv
<1>3. CASE UsbRx \/ Tick
  BY <1>3, UsbRxInv, TickInv
<1>4. CASE NetworkTask
  <2>1. CASE AcceptTcp \/ RegisterTcp \/ FreeTcp \/ CountUdp \/ CountExpired
    BY <2>1, AcceptTcpInv, RegisterTcpInv, FreeTcpInv, CountUdpInv, CountExpiredInv
  <2>2. ASSUME NEW i \in Slots, CloseTcp(i) \/ TcpReceive(i) \/ ServiceTcpTx(i)
        PROVE  TelemetryInv'
    BY <2>2, CloseTcpInv, TcpReceiveInv, ServiceTcpTxInv
  <2>3. ASSUME NEW i \in UdpSlots, ExpireUdp(i)
        PROVE  TelemetryInv'
    BY <2>3, ExpireUdpInv
  <2>4. ASSUME NEW n \in environment.udp, NEW address \in {1, 2},
               RegisterUdp(address, Frame(n, 255, "none"))
        PROVE  TelemetryInv'
    BY <2>4, RegisterUdpInv
  <2>5. ASSUME NEW n \in environment.udp, NEW i \in UdpSlots,
               UdpReceive(i, Frame(n, 255, "none"))
        PROVE  TelemetryInv'
    BY <2>5, UdpReceiveInv
  <2> QED
    BY <1>4, <2>1, <2>2, <2>3, <2>4, <2>5 DEF NetworkTask
<1>5. CASE BridgeTask
  BY <1>5, BridgeConnectInv, BridgeConnectedInv, BridgeDisconnectInv, BridgeClearedInv,
     BridgeReceiveInv, BridgeTransmitInv DEF BridgeTask
<1>6. CASE StaDisconnected \/ Reconnect \/ StaGotIp
  BY <1>6, StationInv
<1>7. CASE GroundRestarts
  BY <1>7, GroundRestartsInv
<1>8. CASE OtherConnects \/ \E l \in Links : OtherLeaves(l)
  BY <1>8, OtherClientsInv
<1> QED
  BY <1>1, <1>2, <1>3, <1>4, <1>5, <1>6, <1>7, <1>8 DEF Next

\* Whatever the tasks of both units interleave and whatever the surroundings do, the
\* router of the air unit knows exactly the clients that are in use and not just being
\* made or deleted, and the bridge is an endpoint exactly while it has a connection
\* (airlink_wifi.c: accept_tcp, close_tcp, register_udp, expire_udp, bridge_task).
THEOREM TelemetryTypeCorrect == Spec => []TelemetryInv
<1>1. Init => TelemetryInv
  BY InitTelemetryInv
<1>2. TelemetryInv /\ [Next]_vars => TelemetryInv'
  BY NextTelemetryInv
<1> QED
  BY <1>1, <1>2, PTL DEF Spec

\* The router never calls into a client of the air unit whose queue does not exist
\* (tcp_send of airlink_wifi.c, called under the lock of the router).
THEOREM ClientsAlive == Spec => []ClientsAreAlive
<1>1. TelemetryInv => ClientsAreAlive
  BY DEF TelemetryInv, ClientInv, ClientsAreAlive
<1> QED
  BY <1>1, TelemetryTypeCorrect, PTL

\* The queue of the bridge never holds a packet of an earlier connection
\* (bridge_connect and bridge_disconnect of airlink_wifi.c).
THEOREM QueueIsOfThisConnection == Spec => []QueueOfThisConnection
<1>1. TelemetryInv => QueueOfThisConnection
  BY DEF TelemetryInv, BridgeInv, QueueOfThisConnection
<1> QED
  BY <1>1, TelemetryTypeCorrect, PTL
-----------------------------------------------------------------------------
(* What a step does to the routers, for the properties that are about them alone. *)

\* The endpoint of the UART keeps what its parser holds, and the flight controller is silent.
UartRests == s_endpoints'["air"][Uart] = s_endpoints["air"][Uart] /\ fc' = fc

\* Nothing is remembered or forgotten, and nobody is believed.
Rests == UNCHANGED <<s_dedup, s_fc_system_id, s_fc_armed, network>> /\ UartRests

\* A frame or a part of one comes from the network or from the USB.
NetworkRead(u, e, halves) ==
    e \in Registered(u) \ VehicleSide /\ Ingest(u, e, halves, NoLook) /\ UartRests

\* The ground unit reads what the air unit has sent.
BridgeRead(halves) ==
    /\ Bridge \in Registered("ground") /\ Ingest("ground", Bridge, halves, NoLook) /\ UartRests
    /\ Deliver("ground", Passed("ground", Bridge, halves, NoLook))

RouterStep ==
    \/ Rests
    \/ \E u \in Units : \E e \in Registered(u), halves \in Seq(HalfFrame) :
          NetworkRead(u, e, halves)
    \/ \E halves \in Seq(HalfFrame) : BridgeRead(halves)
    \/ \E kind \in environment.kinds, look \in Looks, received \in {Whole, <<1>>, <<2>>} :
          UartRx(kind, received, look)
    \/ GroundRestarts /\ UartRests

\* Only the router's own endpoint is touched by a read.
LEMMA OthersRest ==
    ASSUME RouterInv, NEW u \in Units, NEW e \in Registered(u), NEW halves, NEW look,
           Ingest(u, e, halves, look), Uart \in Registered("air"), u = "ground" \/ e # Uart
    PROVE  s_endpoints'["air"][Uart] = s_endpoints["air"][Uart]
<1>1. s_endpoints' = [s_endpoints EXCEPT ![u][e] = Outcome(u, e, halves, look).parser]
  BY DEF Ingest
<1> QED
  BY <1>1, EndpointFacts DEF RouterInv, Registered

LEMMA NetworkSteps ==
    ASSUME TelemetryInv, NetworkTask
    PROVE  RouterStep
<1> USE DEF TelemetryInv
<1>1. Uart \in Registered("air") /\ "air" \in Units /\ DOMAIN s_endpoints = Units
  BY EndpointFacts DEF ClientInv, RouterInv
<1>2. ASSUME NEW e, Register("air", e), e # Uart
      PROVE  s_endpoints'["air"][Uart] = s_endpoints["air"][Uart]
  BY <1>1, <1>2 DEF Register
<1>3. ASSUME NEW e, Unregister("air", e), e # Uart
      PROVE  s_endpoints'["air"][Uart] = s_endpoints["air"][Uart]
  BY <1>1, <1>3 DEF Unregister, Registered
<1>4. CASE AcceptTcp \/ FreeTcp \/ CountExpired
  BY <1>4 DEF AcceptTcp, FreeTcp, CountExpired, TcpUnchanged, UdpUnchanged, router, outside,
     RouterStep, Rests, UartRests
<1>5. CASE RegisterTcp
  BY <1>2, <1>5, EndpointFacts DEF RegisterTcp, TcpUnchanged, outside, RouterStep, Rests, UartRests
<1>6. CASE CountUdp
  <2>1. /\ Udp(task.slot) \in Registered("air") /\ task.datagram \in Seq(HalfFrame)
        /\ Ingest("air", Udp(task.slot), task.datagram, NoLook) /\ fc' = fc
    BY <1>6 DEF CountUdp, ClientInv, TaskState, UdpUnchanged, IngestUdp, NoLook
  <2> QED
    BY <1>1, <2>1, OthersRest, EndpointFacts DEF RouterStep, NetworkRead, UartRests
<1>7. ASSUME NEW i \in Slots, CloseTcp(i)
      PROVE  RouterStep
  BY <1>3, <1>7, EndpointFacts DEF CloseTcp, TcpUnchanged, outside, RouterStep, Rests, UartRests
<1>8. ASSUME NEW i \in Slots, TcpReceive(i)
      PROVE  RouterStep
  <2>1. PICK read \in Seq(HalfFrame) : Ingest("air", Tcp(i), read, NoLook)
    BY <1>8, TcpReads
  <2>2. Tcp(i) \in Registered("air") /\ fc' = fc
    BY <1>8, TcpReads DEF outside
  <2> QED
    BY <1>1, <2>1, <2>2, OthersRest, EndpointFacts DEF RouterStep, NetworkRead, UartRests
<1>9. ASSUME NEW i \in Slots, ServiceTcpTx(i)
      PROVE  RouterStep
  BY <1>9 DEF ServiceTcpTx, router, outside, RouterStep, Rests, UartRests
<1>10. ASSUME NEW i \in UdpSlots, ExpireUdp(i)
       PROVE  RouterStep
  BY <1>3, <1>10, EndpointFacts DEF ExpireUdp, RouterStep, Rests, UartRests
<1>11. ASSUME NEW n \in environment.udp, NEW address \in {1, 2},
              RegisterUdp(address, Frame(n, 255, "none"))
       PROVE  RouterStep
  BY <1>2, <1>11, EndpointFacts DEF RegisterUdp, UdpUnchanged, RouterStep, Rests, UartRests
<1>12. ASSUME NEW n \in environment.udp, NEW i \in UdpSlots, UdpReceive(i, Frame(n, 255, "none"))
       PROVE  RouterStep
  <2> DEFINE halves == Halves(Frame(n, 255, "none"))
  <2>1. n \in Nat /\ halves \in Seq(HalfFrame)
    BY EnvironmentFacts, GcsFrame
  <2>2. /\ Udp(i) \in Registered("air") /\ fc' = fc
        /\ Ingest("air", Udp(i), halves, NoLook)
    BY <1>12 DEF UdpReceive, ClientInv, Loop, UdpUnchanged, IngestUdp, NoLook
  <2> HIDE DEF halves
  <2> QED
    BY <1>1, <2>1, <2>2, OthersRest, EndpointFacts DEF RouterStep, NetworkRead, UartRests
<1> QED
  <2> HIDE DEF TelemetryInv
  <2> QED
    BY <1>4, <1>5, <1>6, <1>7, <1>8, <1>9, <1>10, <1>11, <1>12 DEF NetworkTask

LEMMA BridgeSteps ==
    ASSUME TelemetryInv, BridgeTask
    PROVE  RouterStep
<1> USE DEF TelemetryInv
<1>1. Uart \in Registered("air") /\ "ground" \in Units /\ DOMAIN s_endpoints = Units
  BY EndpointFacts DEF ClientInv, RouterInv
<1>2. CASE BridgeConnected \/ BridgeCleared \/ BridgeTransmit
  BY <1>2 DEF BridgeConnected, BridgeCleared, BridgeTransmit, BridgeUnchanged, router, outside,
     RouterStep, Rests, UartRests
<1>3. CASE BridgeConnect
  BY <1>1, <1>3 DEF BridgeConnect, BridgeUnchanged, outside, Register, RouterStep, Rests, UartRests
<1>4. CASE BridgeDisconnect
  BY <1>1, <1>4
  DEF BridgeDisconnect, BridgeUnchanged, outside, Unregister, RouterStep, Rests, UartRests
<1>5. CASE BridgeReceive
  <2>1. Bridge \in Registered("ground") /\ fc' = fc
    BY <1>5, BridgeReads DEF outside
  <2>2. PICK read \in Seq(HalfFrame) :
           /\ Ingest("ground", Bridge, read, NoLook)
           /\ Deliver("ground", Passed("ground", Bridge, read, NoLook))
    BY <1>5, BridgeReads
  <2>3. BridgeRead(read)
    BY <1>1, <2>1, <2>2, OthersRest DEF BridgeRead, UartRests
  <2> QED
    BY <2>3 DEF RouterStep
<1> QED
  BY <1>2, <1>3, <1>4, <1>5 DEF BridgeTask

LEMMA NextRouterStep ==
    ASSUME TelemetryInv, [Next]_vars
    PROVE  RouterStep
<1>1. CASE UNCHANGED vars
  BY <1>1 DEF vars, router, outside, RouterStep, Rests, UartRests
<1>2. ASSUME NEW kind \in environment.kinds, NEW look \in Looks,
             NEW received \in {Whole, << 1 >>, << 2 >>}, UartRx(kind, received, look)
      PROVE  RouterStep
  BY <1>2 DEF RouterStep
<1>3. CASE Tick
  BY <1>3 DEF Tick, outside, RouterStep, Rests, UartRests
<1>4. CASE UsbRx
  <2> DEFINE halves == Halves(Frame(gcs + 1, 255, "none"))
  <2>1. gcs + 1 \in Nat
    BY DEF TelemetryInv, OutsideInv
  <2>2. halves \in Seq(HalfFrame)
    BY <2>1, GcsFrame
  <2>3. Ingest("ground", Usb, halves, NoLook) /\ fc' = fc
    BY <1>4 DEF UsbRx, NoLook
  <2>4. Usb \in Registered("ground") /\ "ground" \in Units /\ RouterInv /\ Uart \in Registered("air")
    BY EndpointFacts DEF TelemetryInv, BridgeInv, ClientInv
  <2> HIDE DEF halves
  <2> QED
    BY <2>2, <2>3, <2>4, OthersRest, EndpointFacts DEF RouterStep, NetworkRead, UartRests
<1>5. CASE StaDisconnected \/ Reconnect \/ StaGotIp
  BY <1>5 DEF StaDisconnected, Reconnect, StaGotIp, StationUnchanged, router,
     RouterStep, Rests, UartRests
<1>6. CASE GroundRestarts
  <2>1. s_endpoints'["air"] = s_endpoints["air"] /\ fc' = fc
    BY <1>6 DEF GroundRestarts, TelemetryInv, RouterInv
  <2> QED
    BY <1>6, <2>1 DEF RouterStep, UartRests
<1>7. CASE OtherConnects \/ \E l \in Links : OtherLeaves(l)
  BY <1>7 DEF OtherConnects, OtherLeaves, router, outside, RouterStep, Rests, UartRests
<1> QED
  BY <1>1, <1>2, <1>3, <1>4, <1>5, <1>6, <1>7, NetworkSteps, BridgeSteps DEF Next
-----------------------------------------------------------------------------
(* The armed latch. *)

\* What the parser of the UART holds comes from a frame that has been sent.
AutopilotInv ==
    s_endpoints["air"][Uart] # <<>> => s_endpoints["air"][Uart][1].frame.number <= fc.sent

\* What goes for the state of a router while it takes in halves of one new frame: its
\* latch is as before, unless the whole of the frame came, and says disarmed.
BelievesFrame(frame, got, sent, system, armed) ==
    {state \in LoopState :
        /\ state.parser # <<>> => state.parser[1] \in got \/ state.parser[1].frame.number <= sent
        /\ armed => /\ state.system = system
                    /\ \/ state.armed
                       \/ /\ frame.system = system /\ frame.heartbeat = "disarmed"
                          /\ \A k \in {1, 2} : Halves(frame)[k] \in got}

\* A half of the new frame is completed by nothing but the other half of it.
LEMMA NewFrameOnly ==
    ASSUME NEW frame \in AnyFrame, NEW sent \in Nat, frame.number = sent + 1,
           NEW got, \A half \in got : \E k \in {1, 2} : half = Halves(frame)[k],
           NEW first \in HalfFrame, first \in got \/ first.frame.number <= sent, NEW half \in got
    PROVE  \/ Finished(first, half) = Garbage
           \/ /\ Finished(first, half) = frame
              /\ \A k \in {1, 2} : Halves(frame)[k] \in got
<1>1. half.frame = frame /\ (half.part = "tail" => half = Halves(frame)[2])
  BY DEF Halves
<1>2. CASE Finished(first, half) # Garbage
  <2>1. first = Halves(first.frame)[1] /\ half = Halves(first.frame)[2]
        /\ Finished(first, half) = first.frame
    BY <1>2 DEF Finished, Intact, Halves
  <2>2. first.frame = frame /\ half.part = "tail"
    BY <1>1, <2>1 DEF Halves
  <2>3. first \in got
    BY <2>2
  <2> QED
    BY <2>1, <2>2, <2>3
<1> QED
  BY <1>2

LEMMA ParseBelieves ==
    ASSUME now \in Nat, NEW frame \in AnyFrame, NEW sent \in Nat, frame.number = sent + 1,
           NEW got, got \subseteq HalfFrame, \A half \in got : \E k \in {1, 2} : half = Halves(frame)[k],
           NEW system \in Nat, NEW armed \in BOOLEAN, armed => system # 0,
           NEW state \in BelievesFrame(frame, got, sent, system, armed),
           NEW half \in got, NEW look \in Looks
    PROVE  ParseHalf(state, Uart, half, look) \in BelievesFrame(frame, got, sent, system, armed)
<1> DEFINE after == ParseHalf(state, Uart, half, look)
<1>1. state \in LoopState /\ after \in LoopState
  BY ParseHalfType DEF BelievesFrame
<1> SUFFICES after \in BelievesFrame(frame, got, sent, system, armed)
  OBVIOUS
<1> HIDE DEF after
<1>2. CASE state.parser = <<>>
  <2>1. after = [state EXCEPT !.parser = StartFrame(half, look)]
    BY <1>2 DEF ParseHalf, after
  <2>2. StartFrame(half, look) \in {<<>>, <<half>>}
    BY DEF StartFrame
  <2>3. after.parser \in {<<>>, <<half>>} /\ after.system = state.system /\ after.armed = state.armed
    BY <1>1, <2>1, <2>2 DEF LoopState
  <2> QED
    BY <1>1, <2>3 DEF BelievesFrame
<1>3. CASE state.parser # <<>>
  <2> DEFINE first == state.parser[1]
             cleared == [state EXCEPT !.parser = <<>>]
             whole == Finished(first, half)
  <2>1. first \in HalfFrame /\ (first \in got \/ first.frame.number <= sent)
    BY <1>1, <1>3 DEF BelievesFrame, LoopState, Parser
  <2>2. \/ whole = Garbage
        \/ whole = frame /\ \A k \in {1, 2} : Halves(frame)[k] \in got
    BY <2>1, NewFrameOnly
  <2>3. after \in {cleared, Complete(cleared, Uart, whole)}
    BY <1>3, ParseCompletes DEF after
  <2>4. after \in {cleared, Pass(Observe(cleared, whole), whole)}
    BY <2>3, EndpointFacts DEF Complete
  <2>5. cleared \in LoopState /\ cleared.parser = <<>>
        /\ cleared.system = state.system /\ cleared.armed = state.armed
    BY <1>1 DEF LoopState, Parser
  <2>6. Observe(cleared, whole) \in {cleared, [cleared EXCEPT !.system = whole.system,
                                                             !.armed = whole.heartbeat = "armed"]}
    BY DEF Observe
  <2> HIDE DEF cleared, whole, first
  <2>7. after.parser = <<>>
    BY <2>4, <2>5, <2>6 DEF Pass, LoopState
  <2>8. CASE armed
    <3>1. state.system = system /\ system # 0
      BY <2>8 DEF BelievesFrame
    <3>2. \/ after.system = state.system /\ after.armed = state.armed
          \/ /\ IsAutopilot(whole) /\ whole.system = system
             /\ after.system = whole.system /\ after.armed = (whole.heartbeat = "armed")
      BY <2>4, <2>5, <3>1 DEF Observe, Pass, LoopState
    <3>3. CASE after.system = state.system /\ after.armed = state.armed
      BY <1>1, <2>7, <3>3 DEF BelievesFrame
    <3>4. CASE /\ IsAutopilot(whole) /\ whole.system = system
               /\ after.system = whole.system /\ after.armed = (whole.heartbeat = "armed")
      <4>1. whole = frame /\ \A k \in {1, 2} : Halves(frame)[k] \in got
        BY <2>2, <3>4, FrameFacts DEF IsAutopilot
      <4> QED
        BY <1>1, <2>7, <3>4, <4>1 DEF BelievesFrame, IsAutopilot
    <3> QED
      BY <3>2, <3>3, <3>4
  <2>9. CASE ~armed
    BY <1>1, <2>7, <2>9 DEF BelievesFrame
  <2> QED
    BY <2>8, <2>9
<1> QED
  BY <1>2, <1>3
LEMMA UartBelieves ==
    ASSUME TelemetryInv, AutopilotInv, NEW kind \in environment.kinds, NEW look \in Looks,
           NEW received \in {Whole, << 1 >>, << 2 >>}, UartRx(kind, received, look)
    PROVE  /\ AutopilotInv'
           /\ s_fc_armed["air"] /\ ~s_fc_armed'["air"] =>
                 /\ fc'.sent > fc.sent /\ fc'.whole
                 /\ fc'.frame.system = s_fc_system_id["air"] /\ fc'.frame.heartbeat = "disarmed"
           /\ s_fc_armed'["ground"] = s_fc_armed["ground"]
<1> DEFINE frame == Frame(fc.sent + 1, kind[1], kind[2])
           halves == [k \in DOMAIN received |-> Halves(frame)[received[k]]]
           got == {halves[k] : k \in DOMAIN received}
           out == Outcome("air", Uart, halves, look)
           Good == BelievesFrame(frame, got, fc.sent, s_fc_system_id["air"], s_fc_armed["air"])
<1>1. /\ fc' = [sent |-> fc.sent + 1, frame |-> frame, whole |-> received = Whole]
      /\ Ingest("air", Uart, halves, look)
  BY DEF UartRx
<1>2. frame \in AnyFrame /\ halves \in Seq(HalfFrame) /\ frame.number = fc.sent + 1
  BY UartFrame DEF Frame
<1>3. /\ fc.sent \in Nat /\ now \in Nat /\ Uart \in Registered("air") /\ "air" \in Units
      /\ "ground" \in Units /\ DOMAIN s_endpoints = Units
      /\ s_fc_armed \in [Units -> BOOLEAN] /\ s_fc_system_id \in [Units -> Nat]
      /\ s_fc_armed["air"] => s_fc_system_id["air"] # 0
  BY EndpointFacts DEF TelemetryInv, RouterInv, OutsideInv, ClientInv
<1>4. received \in Seq({1, 2}) /\ DOMAIN received = 1..Len(received)
      /\ \A k \in DOMAIN received : received[k] \in {1, 2}
  <2>1. <<1, 2>> \in Seq({1, 2}) /\ <<1>> \in Seq({1, 2}) /\ <<2>> \in Seq({1, 2})
    OBVIOUS
  <2>2. received \in Seq({1, 2})
    BY <2>1 DEF Whole
  <2> QED
    BY <2>2, LenProperties
<1>5. /\ \A half \in got : \E k \in {1, 2} : half = Halves(frame)[k]
      /\ (\A k \in {1, 2} : Halves(frame)[k] \in got) => received = Whole
  <2>1. Halves(frame)[1] # Halves(frame)[2]
    BY DEF Halves
  <2>2. CASE received = Whole
    BY <1>4, <2>2
  <2>3. CASE received = <<1>> \/ received = <<2>>
    <3>1. got \subseteq {Halves(frame)[received[1]]}
      BY <2>3
    <3> QED
      BY <1>4, <2>1, <2>3, <3>1
  <2> QED
    BY <2>2, <2>3
<1>6. halves \in Seq(got) /\ got \subseteq HalfFrame
  <2>1. DOMAIN halves = 1..Len(received) /\ Len(received) \in Nat
    BY <1>4, LenProperties
  <2> QED
    BY <1>2, <1>4, <2>1, LenProperties
<1> HIDE DEF frame, halves, got
<1>7. Before("air", Uart) \in Good
  <2>1. Before("air", Uart) \in LoopState
    BY <1>3, EmptySeq DEF TelemetryInv, RouterInv, Before, LoopState
  <2>2. /\ Before("air", Uart).parser = s_endpoints["air"][Uart]
        /\ Before("air", Uart).system = s_fc_system_id["air"]
        /\ Before("air", Uart).armed = s_fc_armed["air"]
    BY DEF Before
  <2> QED
    BY <2>1, <2>2 DEF BelievesFrame, AutopilotInv
<1>8. \A state \in Good, half \in got : ParseHalf(state, Uart, half, look) \in Good
  BY <1>2, <1>3, <1>5, <1>6, ParseBelieves
<1>9. out \in Good
  <2> HIDE DEF Good
  <2> QED BY <1>6, <1>7, <1>8, OutcomeIn
<1>10. /\ s_endpoints'["air"][Uart] = out.parser
       /\ s_fc_armed'["air"] = out.armed /\ s_fc_armed'["ground"] = s_fc_armed["ground"]
  BY <1>1, <1>3 DEF Ingest, Registered
<1> HIDE DEF out
<1>11. AutopilotInv'
  <2>1. \A half \in got : half.frame.number = fc.sent + 1
    BY <1>2, <1>5 DEF Halves
  <2>2. CASE out.parser # <<>>
    <3>1. out.parser[1] \in got \/ out.parser[1].frame.number <= fc.sent
      BY <1>9, <2>2 DEF BelievesFrame
    <3>2. out.parser[1].frame.number \in Nat
      BY <1>9, <2>2 DEF BelievesFrame, LoopState, Parser, HalfFrame, AnyFrame
    <3>3. out.parser[1].frame.number <= fc.sent + 1
      BY <1>3, <2>1, <3>1, <3>2
    <3> QED
      BY <1>1, <1>10, <3>3 DEF AutopilotInv
  <2> QED
    BY <1>10, <2>2 DEF AutopilotInv
<1>12. ASSUME s_fc_armed["air"], ~out.armed
       PROVE  frame.system = s_fc_system_id["air"] /\ frame.heartbeat = "disarmed" /\ received = Whole
  BY <1>5, <1>9, <1>12 DEF BelievesFrame
<1> QED
  BY <1>1, <1>3, <1>10, <1>11, <1>12

\* The GCS side is not believed.
LEMMA NetworkUnbelieved ==
    ASSUME RouterInv, NEW u \in Units, NEW e \in Registered(u) \ VehicleSide,
           NEW halves \in Seq(HalfFrame), Ingest(u, e, halves, NoLook)
    PROVE  s_fc_armed' = s_fc_armed
<1> DEFINE Good == {state \in LoopState : state.armed = s_fc_armed[u]}
<1>1. Before(u, e) \in Good
  BY EmptySeq DEF RouterInv, Before, LoopState
<1>2. NoLook \in Looks /\ now \in Nat
  BY DEF NoLook, Looks, RouterInv
<1>3. ASSUME NEW state \in Good, NEW half \in HalfFrame
      PROVE  ParseHalf(state, e, half, NoLook) \in Good
  <2>1. ParseHalf(state, e, half, NoLook) \in LoopState
    BY <1>2, ParseHalfType
  <2>2. ParseHalf(state, e, half, NoLook).armed = state.armed
    BY DEF ParseHalf, Complete, Pass, LoopState
  <2> QED
    BY <2>1, <2>2
<1>4. Outcome(u, e, halves, NoLook) \in Good
  <2> HIDE DEF Good
  <2> QED BY <1>1, <1>3, OutcomeIn
<1> QED
  BY <1>4 DEF Ingest, RouterInv

\* What is appended is found at the end.
LEMMA ConcatEnd ==
    ASSUME NEW S, NEW s \in Seq(S), NEW r \in Seq(S), NEW k \in DOMAIN r
    PROVE  /\ Len(s) + k \in Len(s) + 1..Len(s \o r)
           /\ (s \o r)[Len(s) + k] = r[k]
<1>1. Len(s) \in Nat /\ Len(r) \in Nat /\ k \in 1..Len(r)
  BY LenProperties
<1>2. Len(s \o r) = Len(s) + Len(r)
  BY ConcatProperties
<1>3. Len(s) + k \in 1..Len(s) + Len(r) /\ ~(Len(s) + k <= Len(s)) /\ (Len(s) + k) - Len(s) = k
  BY <1>1
<1>4. (s \o r)[Len(s) + k] = r[(Len(s) + k) - Len(s)]
  BY <1>3, ConcatProperties
<1> QED
  BY <1>1, <1>2, <1>3, <1>4

\* The ground unit believes what the air unit passes on.
LEMMA BridgeBelieves ==
    ASSUME TelemetryInv, NEW halves \in Seq(HalfFrame), BridgeRead(halves)
    PROVE  /\ s_fc_armed'["air"] = s_fc_armed["air"]
           /\ s_fc_armed["ground"] /\ ~s_fc_armed'["ground"] =>
                 \E k \in Len(delivered["ground"]) + 1..Len(delivered'["ground"]) :
                    LET frame == delivered'["ground"][k]
                    IN  /\ frame.system = s_fc_system_id["ground"]
                        /\ frame.heartbeat = "disarmed"
<1> DEFINE system == s_fc_system_id["ground"]
           out == Outcome("ground", Bridge, halves, NoLook)
           Said(frames) == \E k \in DOMAIN frames : /\ frames[k].system = system
                                                    /\ frames[k].heartbeat = "disarmed"
           Good == {state \in LoopState :
                       s_fc_armed["ground"] =>
                          state.system = system /\ (state.armed \/ Said(state.passed))}
<1>1. /\ "ground" \in Units /\ now \in Nat /\ s_fc_armed \in [Units -> BOOLEAN]
      /\ s_fc_armed["ground"] => system # 0
      /\ delivered \in [Units -> Seq(AnyFrame)] /\ NoLook \in Looks
  BY EndpointFacts DEF TelemetryInv, RouterInv, OutsideInv, NoLook, Looks
<1>2. Before("ground", Bridge) \in Good
  <2>1. Before("ground", Bridge) \in LoopState
    BY <1>1, EmptySeq DEF TelemetryInv, RouterInv, Before, LoopState, BridgeRead
  <2> QED
    BY <2>1 DEF Before
<1>3. ASSUME NEW state \in Good, NEW half \in HalfFrame
      PROVE  ParseHalf(state, Bridge, half, NoLook) \in Good
  <2> DEFINE after == ParseHalf(state, Bridge, half, NoLook)
  <2>1. after \in LoopState /\ state \in LoopState
    BY <1>1, ParseHalfType
  <2> SUFFICES after \in Good
    OBVIOUS
  <2> HIDE DEF after
  <2>2. CASE state.parser = <<>>
    <3>1. after = [state EXCEPT !.parser = StartFrame(half, NoLook)]
      BY <2>2 DEF ParseHalf, after
    <3>2. after.system = state.system /\ after.armed = state.armed /\ after.passed = state.passed
      BY <2>1, <3>1 DEF LoopState
    <3> QED BY <2>1, <3>2
  <2>3. CASE state.parser # <<>>
    <3> DEFINE cleared == [state EXCEPT !.parser = <<>>]
               frame == Finished(state.parser[1], half)
    <3>1. after \in {cleared, Pass(Observe(cleared, frame), frame)}
      BY <2>3, ParseCompletes, EndpointFacts DEF Complete, after
    <3>2. cleared \in LoopState /\ cleared.system = state.system /\ cleared.armed = state.armed
          /\ cleared.passed = state.passed
      BY <2>1 DEF LoopState, Parser
    <3> HIDE DEF cleared, frame
    <3>3. CASE after = cleared
      BY <2>1, <3>2, <3>3
    <3>4. CASE after = Pass(Observe(cleared, frame), frame)
      <4>1. after.passed = Append(state.passed, frame)
        BY <3>2, <3>4 DEF Pass, Observe, LoopState
      <4>2. after.passed[Len(after.passed)] = frame /\ Len(after.passed) \in DOMAIN after.passed
            /\ \A k \in DOMAIN state.passed : k \in DOMAIN after.passed /\ after.passed[k] = state.passed[k]
        <5>1. state.passed \in Seq(AnyFrame) /\ after.passed \in Seq(AnyFrame)
          BY <2>1 DEF LoopState
        <5> QED
          BY <4>1, <5>1, AppendProperties
      <4>3. \/ after.system = state.system /\ after.armed = state.armed
            \/ /\ IsAutopilot(frame) /\ state.system \in {0, frame.system}
               /\ after.system = frame.system /\ after.armed = (frame.heartbeat = "armed")
        BY <3>2, <3>4 DEF Pass, Observe, LoopState
      <4>4. Said(state.passed) => Said(after.passed)
        BY <4>2
      <4>5. ASSUME frame.system = system, frame.heartbeat = "disarmed"
            PROVE  Said(after.passed)
        BY <4>2, <4>5
      <4> HIDE DEF Said
      <4>6. CASE after.system = state.system /\ after.armed = state.armed
        BY <2>1, <4>4, <4>6
      <4>7. CASE /\ IsAutopilot(frame) /\ state.system \in {0, frame.system}
                 /\ after.system = frame.system /\ after.armed = (frame.heartbeat = "armed")
        BY <1>1, <2>1, <4>5, <4>7 DEF IsAutopilot
      <4> QED
        BY <4>3, <4>6, <4>7
    <3> QED
      BY <3>1, <3>3, <3>4
  <2> QED
    BY <2>2, <2>3
<1>4. out \in Good
  <2> HIDE DEF Good
  <2> QED BY <1>2, <1>3, OutcomeIn
<1>5. /\ s_fc_armed' = [s_fc_armed EXCEPT !["ground"] = out.armed]
      /\ delivered'["ground"] = delivered["ground"] \o out.passed
  BY <1>1 DEF BridgeRead, Ingest, Deliver, Passed
<1> HIDE DEF out
<1>6. ASSUME s_fc_armed["ground"], ~out.armed
      PROVE  \E k \in Len(delivered["ground"]) + 1..Len(delivered'["ground"]) :
                    LET frame == delivered'["ground"][k]
                    IN  /\ frame.system = system
                        /\ frame.heartbeat = "disarmed"
  <2>1. PICK k \in DOMAIN out.passed :
           out.passed[k].system = system /\ out.passed[k].heartbeat = "disarmed"
    BY <1>4, <1>6
  <2>2. out.passed \in Seq(AnyFrame) /\ delivered["ground"] \in Seq(AnyFrame)
    BY <1>1, <1>4 DEF LoopState
  <2>3. /\ Len(delivered["ground"]) + k \in Len(delivered["ground"]) + 1..Len(delivered'["ground"])
        /\ delivered'["ground"][Len(delivered["ground"]) + k] = out.passed[k]
    <3> DEFINE old == delivered["ground"]
    <3>1. /\ Len(old) + k \in Len(old) + 1..Len(old \o out.passed)
          /\ (old \o out.passed)[Len(old) + k] = out.passed[k]
      <4> HIDE DEF old
      <4>1. old \in Seq(AnyFrame)
        BY <2>2 DEF old
      <4> QED BY <2>1, <2>2, <4>1, ConcatEnd
    <3> QED
      BY <1>5, <3>1
  <2> QED
    BY <2>1, <2>3
<1> QED
  BY <1>1, <1>5, <1>6
LEMMA NextAutopilot ==
    ASSUME TelemetryInv, AutopilotInv, RouterStep
    PROVE  AutopilotInv' /\ OnlyAutopilotDisarms
<1>1. UartRests => AutopilotInv'
  BY DEF UartRests, AutopilotInv
<1>2. CASE Rests
  BY <1>1, <1>2 DEF Rests, OnlyAutopilotDisarms
<1>3. ASSUME NEW u \in Units, NEW e \in Registered(u), NEW halves \in Seq(HalfFrame),
             NetworkRead(u, e, halves)
      PROVE  s_fc_armed' = s_fc_armed /\ AutopilotInv'
  BY <1>1, <1>3, NetworkUnbelieved DEF NetworkRead, TelemetryInv
<1>4. ASSUME NEW halves \in Seq(HalfFrame), BridgeRead(halves)
      PROVE  /\ s_fc_armed'["air"] = s_fc_armed["air"] /\ AutopilotInv'
             /\ s_fc_armed["ground"] /\ ~s_fc_armed'["ground"] =>
                   \E k \in Len(delivered["ground"]) + 1..Len(delivered'["ground"]) :
                      LET frame == delivered'["ground"][k]
                      IN  /\ frame.system = s_fc_system_id["ground"]
                          /\ frame.heartbeat = "disarmed"
  BY <1>1, <1>4, BridgeBelieves DEF BridgeRead
<1>5. ASSUME NEW kind \in environment.kinds, NEW look \in Looks,
             NEW received \in {Whole, << 1 >>, << 2 >>}, UartRx(kind, received, look)
      PROVE  /\ AutopilotInv'
             /\ s_fc_armed["air"] /\ ~s_fc_armed'["air"] =>
                   /\ fc'.sent > fc.sent /\ fc'.whole
                   /\ fc'.frame.system = s_fc_system_id["air"]
                   /\ fc'.frame.heartbeat = "disarmed"
             /\ s_fc_armed'["ground"] = s_fc_armed["ground"]
  BY <1>5, UartBelieves
<1>6. CASE GroundRestarts /\ UartRests
  <2>1. s_fc_armed'["air"] = s_fc_armed["air"]
    BY <1>6, EndpointFacts DEF GroundRestarts, TelemetryInv, RouterInv
  <2> QED
    BY <1>1, <1>6, <2>1 DEF OnlyAutopilotDisarms
<1> QED
  BY <1>2, <1>3, <1>4, <1>5, <1>6 DEF RouterStep, OnlyAutopilotDisarms

\* The armed latch of either unit is released only by the autopilot it heard first, in a
\* heartbeat that arrived whole, or by a restart: no frame of the network, no frame put
\* together from parts of two and no other vehicle can do it (observe_vehicle_frame of
\* airlink_router.c and the parser it is called from).
THEOREM DisarmedOnlyByAutopilot == Spec => DisarmedByAutopilot
<1> DEFINE Inv == TelemetryInv /\ AutopilotInv
<1>1. Init => Inv
  <2>1. Init => s_endpoints["air"][Uart] = <<>>
    BY EndpointFacts DEF Init, RouterInit
  <2> QED
    BY <2>1, InitTelemetryInv DEF AutopilotInv
<1>2. Inv /\ [Next]_vars => Inv' /\ OnlyAutopilotDisarms
  BY NextTelemetryInv, NextRouterStep, NextAutopilot
<1> QED
  <2> HIDE DEF Inv
  <2> QED BY <1>1, <1>2, PTL DEF Spec, DisarmedByAutopilot

-----------------------------------------------------------------------------
(* De-duplication. *)

\* How many frames were routed after entry k of the history.
RoutedIn(seen, first, last) == {j \in first..last : seen[j].routed}
RoutedAfter(seen, k) == Cardinality(RoutedIn(seen, k + 1, Len(seen)))

\* The ring holds the frames that were routed last, one entry each, in their order.
RingHolds(ring, seen) ==
    /\ Len(ring) <= DedupEntries
    /\ \A k \in DOMAIN seen :
          seen[k].routed /\ RoutedAfter(seen, k) < DedupEntries =>
             /\ RoutedAfter(seen, k) < Len(ring)
             /\ ring[Len(ring) - RoutedAfter(seen, k)] = [frame |-> seen[k].frame,
                                                          time |-> seen[k].time]
    /\ \A i \in DOMAIN ring : \E k \in DOMAIN seen :
          seen[k].routed /\ RoutedAfter(seen, k) = Len(ring) - i

\* Entry k of the history was routed, and is reason enough to hold entry j back.
Repeats(seen, k, j) ==
    /\ seen[k].routed /\ seen[k].frame = seen[j].frame
    /\ seen[j].time - seen[k].time < DedupWindow
    /\ Cardinality(RoutedIn(seen, k + 1, j - 1)) < DedupEntries

HeldBack(seen) ==
    \A j \in DOMAIN seen : seen[j].routed <=> ~ \E k \in 1..j - 1 : Repeats(seen, k, j)

RingOf(ring, seen) == RingHolds(ring, seen) /\ HeldBack(seen)

RingInv == \A u \in Units : RingOf(s_dedup[u], network[u])

LEMMA RoutedFinite ==
    ASSUME NEW seen, NEW first \in Int, NEW last \in Int
    PROVE  IsFiniteSet(RoutedIn(seen, first, last))
           /\ Cardinality(RoutedIn(seen, first, last)) \in Nat
<1>1. IsFiniteSet(first..last)
  BY FS_Interval
<1>2. RoutedIn(seen, first, last) \subseteq first..last
  BY DEF RoutedIn
<1> QED
  BY <1>1, <1>2, FS_Subset, FS_CardinalityType

\* One more entry in the history.
LEMMA RoutedAppend ==
    ASSUME NEW seen \in Seq(Seen), NEW entry \in Seen
    PROVE  LET longer == Append(seen, entry)
           IN  /\ longer \in Seq(Seen) /\ Len(longer) = Len(seen) + 1
               /\ longer[Len(seen) + 1] = entry
               /\ \A j \in 1..Len(seen) : longer[j] = seen[j]
               /\ RoutedAfter(longer, Len(seen) + 1) = 0
               /\ \A k \in 1..Len(seen) :
                     RoutedAfter(longer, k) = RoutedAfter(seen, k) + (IF entry.routed THEN 1 ELSE 0)
               /\ \A k, j \in 1..Len(seen) + 1 :
                     RoutedIn(longer, k + 1, j - 1) = RoutedIn(seen, k + 1, j - 1)
<1> DEFINE longer == Append(seen, entry)
           n == Len(seen)
<1>1. /\ longer \in Seq(Seen) /\ Len(longer) = n + 1 /\ longer[n + 1] = entry
      /\ \A j \in 1..n : longer[j] = seen[j]
      /\ n \in Nat
  BY AppendProperties, LenProperties
<1> HIDE DEF longer, n
<1>2. RoutedAfter(longer, n + 1) = 0
  <2>1. RoutedIn(longer, (n + 1) + 1, n + 1) = {}
    BY <1>1 DEF RoutedIn
  <2> QED
    BY <1>1, <2>1, FS_EmptySet DEF RoutedAfter
<1>3. ASSUME NEW k \in 1..n
      PROVE  RoutedAfter(longer, k) = RoutedAfter(seen, k) + (IF entry.routed THEN 1 ELSE 0)
  <2>1. RoutedIn(longer, k + 1, n + 1) =
          RoutedIn(seen, k + 1, n) \cup (IF entry.routed THEN {n + 1} ELSE {})
    BY <1>1 DEF RoutedIn
  <2>2. n + 1 \notin RoutedIn(seen, k + 1, n)
    BY <1>1 DEF RoutedIn
  <2>3. /\ IsFiniteSet(RoutedIn(seen, k + 1, n))
        /\ Cardinality(RoutedIn(seen, k + 1, n)) \in Nat
    BY <1>1, RoutedFinite
  <2>4. Cardinality(RoutedIn(seen, k + 1, n) \cup {n + 1}) = Cardinality(RoutedIn(seen, k + 1, n)) + 1
    BY <2>2, <2>3, FS_AddElement
  <2>5. /\ RoutedAfter(longer, k) = Cardinality(RoutedIn(longer, k + 1, n + 1))
        /\ RoutedAfter(seen, k) = Cardinality(RoutedIn(seen, k + 1, n))
    BY <1>1 DEF RoutedAfter, n
  <2>6. CASE entry.routed
    BY <2>1, <2>4, <2>5, <2>6
  <2>7. CASE ~entry.routed
    BY <2>1, <2>3, <2>5, <2>7
  <2> QED
    BY <2>6, <2>7
<1>4. ASSUME NEW k \in 1..n + 1, NEW j \in 1..n + 1
      PROVE  RoutedIn(longer, k + 1, j - 1) = RoutedIn(seen, k + 1, j - 1)
  BY <1>1 DEF RoutedIn
<1> QED
  BY <1>1, <1>2, <1>3, <1>4 DEF longer, n

\* The ring remembers a frame exactly as long as it is to be held back.
LEMMA DuplicateFact ==
    ASSUME NEW state \in LoopState, NEW frame \in AnyFrame, now \in Nat,
           RingHolds(state.dedup, state.seen)
    PROVE  Duplicate(state, frame) <=>
              \E k \in DOMAIN state.seen :
                 /\ state.seen[k].routed /\ state.seen[k].frame = frame
                 /\ now - state.seen[k].time < DedupWindow
                 /\ RoutedAfter(state.seen, k) < DedupEntries
<1> DEFINE ring == state.dedup
           seen == state.seen
<1>1. /\ ring \in Seq(Noted) /\ seen \in Seq(Seen) /\ Len(ring) \in Nat
      /\ DOMAIN ring = 1..Len(ring) /\ DOMAIN seen = 1..Len(seen) /\ Len(seen) \in Nat
  BY LenProperties DEF LoopState
<1>2. ASSUME NEW i \in DOMAIN ring, ring[i].frame = frame, now - ring[i].time < DedupWindow
      PROVE  \E k \in DOMAIN seen : /\ seen[k].routed /\ seen[k].frame = frame
                                    /\ now - seen[k].time < DedupWindow
                                    /\ RoutedAfter(seen, k) < DedupEntries
  <2>1. PICK k \in DOMAIN seen : seen[k].routed /\ RoutedAfter(seen, k) = Len(ring) - i
    BY DEF RingHolds
  <2>2. RoutedAfter(seen, k) < DedupEntries /\ Len(ring) - RoutedAfter(seen, k) = i
    BY <1>1, <2>1, RouterAssumption DEF RingHolds
  <2>3. ring[i] = [frame |-> seen[k].frame, time |-> seen[k].time]
    BY <2>1, <2>2 DEF RingHolds
  <2> QED
    BY <1>2, <2>1, <2>2, <2>3
<1>3. ASSUME NEW k \in DOMAIN seen, seen[k].routed, seen[k].frame = frame,
             now - seen[k].time < DedupWindow, RoutedAfter(seen, k) < DedupEntries
      PROVE  Duplicate(state, frame)
  <2> DEFINE i == Len(ring) - RoutedAfter(seen, k)
  <2>1. RoutedAfter(seen, k) \in Nat
    BY <1>1, RoutedFinite DEF RoutedAfter
  <2>2. /\ RoutedAfter(seen, k) < Len(ring)
        /\ ring[i] = [frame |-> seen[k].frame, time |-> seen[k].time]
    BY <1>3 DEF RingHolds
  <2>3. i \in DOMAIN ring
    BY <1>1, <2>1, <2>2
  <2> HIDE DEF i
  <2> QED
    BY <1>3, <2>2, <2>3 DEF Duplicate
<1> QED
  BY <1>2, <1>3 DEF Duplicate

\* The ring after a frame was routed: everything moves one place towards the old end.
LEMMA RememberPlaces ==
    ASSUME NEW ring \in Seq(Noted), NEW entry \in Noted, Len(ring) <= DedupEntries
    PROVE  LET kept == Remember(ring, entry)
           IN  /\ kept \in Seq(Noted) /\ Len(kept) \in 1..DedupEntries
               /\ kept[Len(kept)] = entry
               /\ Len(kept) <= Len(ring) + 1
               /\ Len(ring) < DedupEntries => Len(kept) = Len(ring) + 1
               /\ Len(ring) = DedupEntries => Len(kept) = DedupEntries
               /\ \A d \in Nat : d + 1 < Len(kept) => kept[Len(kept) - (d + 1)] = ring[Len(ring) - d]
<1>1. Len(ring) \in Nat /\ DedupEntries \in Nat \ {0}
  BY LenProperties, RouterAssumption
<1>2. CASE Len(ring) < DedupEntries
  <2>1. Remember(ring, entry) = Append(ring, entry)
    BY <1>2 DEF Remember
  <2>2. /\ Append(ring, entry) \in Seq(Noted) /\ Len(Append(ring, entry)) = Len(ring) + 1
        /\ Append(ring, entry)[Len(ring) + 1] = entry
        /\ \A i \in 1..Len(ring) : Append(ring, entry)[i] = ring[i]
    BY AppendProperties
  <2>3. ASSUME NEW d \in Nat, d + 1 < Len(ring) + 1
        PROVE  Append(ring, entry)[(Len(ring) + 1) - (d + 1)] = ring[Len(ring) - d]
    <3>1. (Len(ring) + 1) - (d + 1) = Len(ring) - d /\ Len(ring) - d \in 1..Len(ring)
      BY <1>1, <2>3
    <3> QED BY <2>2, <3>1
  <2> QED
    BY <1>1, <1>2, <2>1, <2>2, <2>3
<1>3. CASE Len(ring) = DedupEntries
  <2> DEFINE tail == Tail(ring)
  <2>1. Remember(ring, entry) = Append(tail, entry) /\ ring # <<>>
    BY <1>1, <1>3, EmptySeq DEF Remember
  <2>2. /\ tail \in Seq(Noted) /\ Len(tail) = Len(ring) - 1
        /\ \A i \in 1..Len(tail) : tail[i] = ring[i + 1]
    BY <2>1, HeadTailProperties
  <2> HIDE DEF tail
  <2>3. /\ Append(tail, entry) \in Seq(Noted) /\ Len(Append(tail, entry)) = Len(tail) + 1
        /\ Append(tail, entry)[Len(tail) + 1] = entry
        /\ \A i \in 1..Len(tail) : Append(tail, entry)[i] = tail[i]
    BY <2>2, AppendProperties
  <2>4. ASSUME NEW d \in Nat, d + 1 < Len(ring)
        PROVE  Append(tail, entry)[Len(ring) - (d + 1)] = ring[Len(ring) - d]
    <3>1. Len(ring) - (d + 1) \in 1..Len(tail) /\ (Len(ring) - (d + 1)) + 1 = Len(ring) - d
      BY <1>1, <2>2, <2>4
    <3> QED BY <2>2, <2>3, <3>1
  <2> QED
    BY <1>1, <1>3, <2>1, <2>2, <2>3, <2>4
<1>4. Len(ring) < DedupEntries \/ Len(ring) = DedupEntries
  BY <1>1
<1> QED
  BY <1>2, <1>3, <1>4

\* A frame that is routed.
LEMMA RingRouted ==
    ASSUME NEW ring \in Seq(Noted), NEW seen \in Seq(Seen), NEW entry \in Seen, entry.routed,
           RingHolds(ring, seen)
    PROVE  RingHolds(Remember(ring, [frame |-> entry.frame, time |-> entry.time]),
                     Append(seen, entry))
<1> DEFINE note == [frame |-> entry.frame, time |-> entry.time]
           kept == Remember(ring, note)
           longer == Append(seen, entry)
           n == Len(seen)
           size == Len(ring)
           count == Len(kept)
<1>1. n \in Nat /\ size \in Nat /\ DOMAIN seen = 1..n /\ DOMAIN ring = 1..size
      /\ DedupEntries \in Nat \ {0}
  BY LenProperties, RouterAssumption
<1>2. note \in Noted /\ size <= DedupEntries
  BY DEF Noted, Seen, RingHolds
<1>3. /\ kept \in Seq(Noted) /\ count \in 1..DedupEntries /\ kept[count] = note
      /\ count <= size + 1
      /\ size < DedupEntries => count = size + 1
      /\ size = DedupEntries => count = DedupEntries
      /\ \A d \in Nat : d + 1 < count => kept[count - (d + 1)] = ring[size - d]
  BY <1>2, RememberPlaces
<1>4. /\ longer \in Seq(Seen) /\ Len(longer) = n + 1 /\ longer[n + 1] = entry
      /\ \A j \in 1..n : longer[j] = seen[j]
      /\ RoutedAfter(longer, n + 1) = 0
      /\ \A k \in 1..n : RoutedAfter(longer, k) = RoutedAfter(seen, k) + 1
  BY RoutedAppend
<1> HIDE DEF note, kept, longer, n, size, count
<1>5. DOMAIN kept = 1..count /\ DOMAIN longer = 1..n + 1
  BY <1>3, <1>4, LenProperties DEF count
<1>6. \A k \in 1..n : RoutedAfter(seen, k) \in Nat
  BY <1>1, RoutedFinite DEF RoutedAfter, n
<1>7. \A k \in 1..n : seen[k].routed /\ RoutedAfter(seen, k) < DedupEntries =>
         /\ RoutedAfter(seen, k) < size
         /\ ring[size - RoutedAfter(seen, k)] = [frame |-> seen[k].frame, time |-> seen[k].time]
  BY <1>1 DEF RingHolds, size
<1>8. \A i \in 1..size : \E k \in 1..n : seen[k].routed /\ RoutedAfter(seen, k) = size - i
  BY <1>1 DEF RingHolds, size
<1>9. ASSUME NEW k \in 1..n + 1, longer[k].routed, RoutedAfter(longer, k) < DedupEntries
      PROVE  /\ RoutedAfter(longer, k) < count
             /\ kept[count - RoutedAfter(longer, k)] = [frame |-> longer[k].frame,
                                                        time |-> longer[k].time]
  <2>1. CASE k = n + 1
    <3>1. RoutedAfter(longer, k) = 0 /\ count - 0 = count
      BY <1>3, <1>4, <2>1
    <3> QED BY <1>3, <1>4, <2>1, <3>1 DEF note
  <2>2. CASE k \in 1..n
    <3> DEFINE d == RoutedAfter(seen, k)
    <3>1. d \in Nat /\ RoutedAfter(longer, k) = d + 1 /\ longer[k] = seen[k]
      BY <1>4, <1>6, <2>2
    <3>2. d < size /\ ring[size - d] = [frame |-> seen[k].frame, time |-> seen[k].time]
      BY <1>1, <1>7, <1>9, <2>2, <3>1
    <3> HIDE DEF d
    <3>3. d + 1 < count
      BY <1>1, <1>2, <1>3, <1>9, <3>1, <3>2
    <3> QED
      BY <1>3, <3>1, <3>2, <3>3
  <2> QED
    BY <1>1, <2>1, <2>2
<1>10. ASSUME NEW i \in 1..count
       PROVE  \E k \in 1..n + 1 : longer[k].routed /\ RoutedAfter(longer, k) = count - i
  <2>1. CASE i = count
    <3>1. n + 1 \in 1..n + 1 /\ count - i = 0
      BY <1>1, <1>3, <2>1
    <3> QED BY <1>4, <3>1
  <2>2. CASE i # count
    <3>1. size - (count - i - 1) \in 1..size
      BY <1>1, <1>2, <1>3, <2>2
    <3>2. PICK k \in 1..n : seen[k].routed /\ RoutedAfter(seen, k) = size - (size - (count - i - 1))
      BY <1>8, <3>1
    <3>3. k \in 1..n + 1 /\ longer[k].routed /\ RoutedAfter(longer, k) = count - i
      BY <1>1, <1>3, <1>4, <3>2
    <3> QED BY <3>3
  <2> QED
    BY <2>1, <2>2
<1>11. RingHolds(kept, longer)
  <2>1. Len(kept) = count /\ count <= DedupEntries
    BY <1>1, <1>3 DEF count
  <2>2. \A k \in DOMAIN longer :
           longer[k].routed /\ RoutedAfter(longer, k) < DedupEntries =>
              /\ RoutedAfter(longer, k) < Len(kept)
              /\ kept[Len(kept) - RoutedAfter(longer, k)] = [frame |-> longer[k].frame,
                                                             time |-> longer[k].time]
    BY <1>5, <1>9, <2>1
  <2>3. \A i \in DOMAIN kept : \E k \in DOMAIN longer :
           longer[k].routed /\ RoutedAfter(longer, k) = Len(kept) - i
    BY <1>5, <1>10, <2>1
  <2> QED
    BY <2>1, <2>2, <2>3 DEF RingHolds
<1> QED
  BY <1>11 DEF kept, longer, note

\* A frame that is held back.
LEMMA RingHeld ==
    ASSUME NEW ring \in Seq(Noted), NEW seen \in Seq(Seen), NEW entry \in Seen, ~entry.routed,
           RingHolds(ring, seen)
    PROVE  RingHolds(ring, Append(seen, entry))
<1> DEFINE longer == Append(seen, entry)
           n == Len(seen)
<1>1. n \in Nat /\ DOMAIN seen = 1..n
  BY LenProperties
<1>2. /\ longer \in Seq(Seen) /\ Len(longer) = n + 1 /\ longer[n + 1] = entry
      /\ \A j \in 1..n : longer[j] = seen[j]
      /\ \A k \in 1..n : RoutedAfter(longer, k) = RoutedAfter(seen, k) + 0
  BY RoutedAppend
<1> HIDE DEF longer, n
<1>3. \A k \in 1..n : RoutedAfter(longer, k) = RoutedAfter(seen, k)
  <2>1. \A k \in 1..n : RoutedAfter(seen, k) \in Nat
    BY <1>1, RoutedFinite DEF RoutedAfter, n
  <2> QED BY <1>2, <2>1
<1>4. DOMAIN longer = 1..n + 1
  BY <1>2, LenProperties
<1>5. \A k \in 1..n + 1 : longer[k].routed => k \in 1..n /\ longer[k] = seen[k]
  BY <1>1, <1>2
<1>6. RingHolds(ring, longer)
  <2>1. Len(ring) <= DedupEntries
    BY DEF RingHolds
  <2>2. \A k \in DOMAIN longer :
           longer[k].routed /\ RoutedAfter(longer, k) < DedupEntries =>
              /\ RoutedAfter(longer, k) < Len(ring)
              /\ ring[Len(ring) - RoutedAfter(longer, k)] = [frame |-> longer[k].frame,
                                                             time |-> longer[k].time]
    BY <1>1, <1>3, <1>4, <1>5 DEF RingHolds
  <2>3. ASSUME NEW i \in DOMAIN ring
        PROVE  \E k \in DOMAIN longer :
                  longer[k].routed /\ RoutedAfter(longer, k) = Len(ring) - i
    <3>1. PICK k \in 1..n : seen[k].routed /\ RoutedAfter(seen, k) = Len(ring) - i
      BY <1>1 DEF RingHolds
    <3>2. k \in DOMAIN longer /\ longer[k].routed /\ RoutedAfter(longer, k) = Len(ring) - i
      BY <1>1, <1>2, <1>3, <1>4, <3>1
    <3> QED BY <3>2
  <2> QED
    BY <2>1, <2>2, <2>3 DEF RingHolds
<1> QED
  BY <1>6 DEF longer

\* What is decided about a frame is what the history says.
LEMMA HeldBackNext ==
    ASSUME now \in Nat, NEW state \in LoopState, NEW frame \in AnyFrame,
           RingOf(state.dedup, state.seen)
    PROVE  HeldBack(Append(state.seen, [frame |-> frame, time |-> now,
                                        routed |-> ~Duplicate(state, frame)]))
<1> DEFINE entry == [frame |-> frame, time |-> now, routed |-> ~Duplicate(state, frame)]
           seen == state.seen
           longer == Append(seen, entry)
           n == Len(seen)
<1>1. seen \in Seq(Seen) /\ entry \in Seen
  BY DEF LoopState, Seen, Duplicate
<1>2. n \in Nat /\ DOMAIN seen = 1..n
  BY <1>1, LenProperties
<1> HIDE DEF entry
<1>3. /\ longer \in Seq(Seen) /\ Len(longer) = n + 1 /\ longer[n + 1] = entry
      /\ \A j \in 1..n : longer[j] = seen[j]
      /\ \A k, j \in 1..n + 1 : RoutedIn(longer, k + 1, j - 1) = RoutedIn(seen, k + 1, j - 1)
  BY <1>1, RoutedAppend
<1>4. \A k \in 1..n : RoutedAfter(seen, k) = Cardinality(RoutedIn(seen, k + 1, (n + 1) - 1))
  BY <1>2 DEF RoutedAfter
<1>5. Duplicate(state, frame) <=>
         \E k \in 1..n : /\ seen[k].routed /\ seen[k].frame = frame
                         /\ now - seen[k].time < DedupWindow
                         /\ RoutedAfter(seen, k) < DedupEntries
  BY <1>2, DuplicateFact DEF RingOf
<1> HIDE DEF longer, seen, n
<1>6. ASSUME NEW j \in 1..n, NEW k \in 1..j - 1
      PROVE  Repeats(longer, k, j) <=> Repeats(seen, k, j)
  BY <1>2, <1>3 DEF Repeats
<1>7. ASSUME NEW k \in 1..n
      PROVE  Repeats(longer, k, n + 1) <=>
                /\ seen[k].routed /\ seen[k].frame = frame
                /\ now - seen[k].time < DedupWindow
                /\ RoutedAfter(seen, k) < DedupEntries
  <2>1. k \in 1..n + 1 /\ n + 1 \in 1..n + 1
    BY <1>2
  <2>2. /\ longer[k] = seen[k] /\ longer[n + 1] = entry
        /\ RoutedIn(longer, k + 1, (n + 1) - 1) = RoutedIn(seen, k + 1, (n + 1) - 1)
    BY <1>3, <2>1
  <2>3. entry.frame = frame /\ entry.time = now
    BY DEF entry
  <2> QED
    BY <1>4, <2>2, <2>3 DEF Repeats
<1>8. ASSUME NEW j \in 1..n + 1
      PROVE  longer[j].routed <=> ~ \E k \in 1..j - 1 : Repeats(longer, k, j)
  <2>1. CASE j \in 1..n
    <3>1. seen[j].routed <=> ~ \E k \in 1..j - 1 : Repeats(seen, k, j)
      BY <1>2, <2>1 DEF RingOf, HeldBack, seen
    <3> QED BY <1>3, <1>6, <2>1, <3>1
  <2>2. CASE j = n + 1
    <3>1. 1..j - 1 = 1..n
      BY <1>2, <2>2
    <3>2. longer[j].routed <=> ~Duplicate(state, frame)
      <4>1. longer[j] = entry
        BY <1>3, <2>2
      <4>2. entry.routed = ~Duplicate(state, frame)
        BY DEF entry
      <4> QED BY <4>1, <4>2, Zenon
    <3> QED BY <1>5, <1>7, <2>2, <3>1, <3>2
  <2> QED
    BY <1>2, <2>1, <2>2
<1>9. HeldBack(longer)
  BY <1>3, <1>8, LenProperties DEF HeldBack
<1> QED
  BY <1>9 DEF longer, seen, entry

\* One half goes through the parser of an endpoint.
LEMMA ParseKeepsRing ==
    ASSUME now \in Nat, NEW state \in LoopState, RingOf(state.dedup, state.seen),
           NEW e, NEW half \in HalfFrame, NEW look \in Looks
    PROVE  LET after == ParseHalf(state, e, half, look)
           IN  RingOf(after.dedup, after.seen)
<1> DEFINE after == ParseHalf(state, e, half, look)
           cleared == [state EXCEPT !.parser = <<>>]
           frame == Finished(state.parser[1], half)
           routed == ~Duplicate(cleared, frame)
           entry == [frame |-> frame, time |-> now, routed |-> routed]
           ring == IF routed THEN Remember(state.dedup, [frame |-> frame, time |-> now])
                             ELSE state.dedup
<1>1. CASE state.parser = <<>>
  <2>1. after = [state EXCEPT !.parser = StartFrame(half, look)]
    BY <1>1 DEF ParseHalf
  <2>2. after.dedup = state.dedup /\ after.seen = state.seen
    BY <2>1 DEF LoopState
  <2> QED
    BY <2>2
<1>2. CASE state.parser # <<>>
  <2>1. state.parser[1] \in HalfFrame
    BY <1>2 DEF LoopState, Parser
  <2>2. cleared \in LoopState /\ cleared.dedup = state.dedup /\ cleared.seen = state.seen
    BY DEF LoopState, Parser
  <2>3. frame \in AnyFrame
    BY <2>1, FrameFacts
  <2>4. after \in {cleared, Complete(cleared, e, frame)}
    BY <1>2, ParseCompletes
  <2> HIDE DEF after, cleared, frame
  <2>5. \/ after.dedup = state.dedup /\ after.seen = state.seen
        \/ after.dedup = ring /\ after.seen = Append(state.seen, entry)
    <3>1. CASE after = cleared
      BY <2>2, <3>1
    <3>2. CASE after = Complete(cleared, e, frame) /\ e \in VehicleSide
      <4>1. after = Pass(Observe(cleared, frame), frame)
        BY <3>2 DEF Complete
      <4> QED
        BY <2>2, <4>1 DEF Pass, Observe, LoopState
    <3>3. CASE after = Complete(cleared, e, frame) /\ e \notin VehicleSide
      <4> DEFINE noted == [cleared EXCEPT !.seen = Append(@, entry)]
      <4>1. after = IF ~routed THEN noted
                    ELSE Pass([noted EXCEPT !.dedup = Remember(@, [frame |-> frame, time |-> now])],
                              frame)
        BY <3>3 DEF Complete
      <4> HIDE DEF entry, routed
      <4>2. noted.seen = Append(state.seen, entry) /\ noted.dedup = state.dedup
        BY <2>2 DEF LoopState
      <4> QED
        BY <2>2, <4>1, <4>2 DEF Pass, LoopState
    <3> QED
      BY <2>4, <3>1, <3>2, <3>3
  <2>6. RingOf(ring, Append(state.seen, entry))
    <3>1. HeldBack(Append(state.seen, entry))
      BY <2>2, <2>3, HeldBackNext
    <3>2. entry \in Seen /\ state.dedup \in Seq(Noted) /\ state.seen \in Seq(Seen)
          /\ RingHolds(state.dedup, state.seen)
      BY <2>3 DEF Seen, Duplicate, LoopState, RingOf
    <3>3. CASE routed
      <4>1. entry.routed /\ [frame |-> frame, time |-> now] = [frame |-> entry.frame,
                                                              time |-> entry.time]
        BY <3>3
      <4> HIDE DEF entry, routed
      <4>2. RingHolds(Remember(state.dedup, [frame |-> entry.frame, time |-> entry.time]),
                      Append(state.seen, entry))
        BY <3>2, <4>1, RingRouted
      <4> QED
        BY <3>1, <3>3, <4>1, <4>2 DEF RingOf
    <3>4. CASE ~routed
      <4>1. ~entry.routed
        BY <3>4
      <4> HIDE DEF entry, routed
      <4> QED
        BY <3>1, <3>2, <3>4, <4>1, RingHeld DEF RingOf
    <3> QED
      BY <3>3, <3>4
  <2>7. RingOf(after.dedup, after.seen)
    <3> HIDE DEF entry, ring
    <3> QED BY <2>5, <2>6
  <2> QED
    BY <2>7 DEF after
<1> QED
  BY <1>1, <1>2

LEMMA RingEmpty == RingOf(<<>>, <<>>)
<1>1. DOMAIN <<>> = {} /\ Len(<<>>) = 0
  OBVIOUS
<1> QED
  BY <1>1, RouterAssumption DEF RingOf, RingHolds, HeldBack

LEMMA IngestKeepsRing ==
    ASSUME RouterInv, RingInv, NEW u \in Units, NEW e \in Registered(u),
           NEW halves \in Seq(HalfFrame), NEW look \in Looks, Ingest(u, e, halves, look)
    PROVE  RingInv'
<1> DEFINE Good == {state \in LoopState : RingOf(state.dedup, state.seen)}
           out == Outcome(u, e, halves, look)
<1>1. Before(u, e) \in LoopState
  BY EmptySeq DEF RouterInv, Before, LoopState
<1>2. Before(u, e) \in Good
  BY <1>1 DEF RingInv, Before
<1>3. now \in Nat
  BY DEF RouterInv
<1>4. \A state \in Good, half \in HalfFrame : ParseHalf(state, e, half, look) \in Good
  BY <1>3, ParseHalfType, ParseKeepsRing
<1>5. out \in Good
  <2> HIDE DEF Good
  <2> QED BY <1>2, <1>4, OutcomeIn
<1>6. s_dedup' = [s_dedup EXCEPT ![u] = out.dedup] /\ network' = [network EXCEPT ![u] = out.seen]
  BY DEF Ingest
<1> HIDE DEF out
<1>7. ASSUME NEW v \in Units
      PROVE  RingOf(s_dedup'[v], network'[v])
  BY <1>5, <1>6 DEF RouterInv, RingInv
<1> QED
  BY <1>7 DEF RingInv

LEMMA NextRingInv ==
    ASSUME TelemetryInv, RingInv, RouterStep
    PROVE  RingInv'
<1>1. CASE Rests
  BY <1>1 DEF Rests, RingInv
<1>2. ASSUME NEW u \in Units, NEW e \in Registered(u), NEW halves \in Seq(HalfFrame),
             NetworkRead(u, e, halves)
      PROVE  RingInv'
  BY <1>2, IngestKeepsRing DEF NetworkRead, NoLook, Looks, TelemetryInv
<1>3. ASSUME NEW halves \in Seq(HalfFrame), BridgeRead(halves)
      PROVE  RingInv'
  BY <1>3, IngestKeepsRing, EndpointFacts DEF BridgeRead, NoLook, Looks, TelemetryInv
<1>4. ASSUME NEW kind \in environment.kinds, NEW look \in Looks,
             NEW received \in {Whole, << 1 >>, << 2 >>}, UartRx(kind, received, look)
      PROVE  RingInv'
  <2> DEFINE halves == [k \in DOMAIN received |->
                          Halves(Frame(fc.sent + 1, kind[1], kind[2]))[received[k]]]
  <2>1. halves \in Seq(HalfFrame)
    BY UartFrame
  <2>2. Ingest("air", Uart, halves, look)
    BY <1>4 DEF UartRx
  <2>3. "air" \in Units /\ Uart \in Registered("air") /\ RouterInv
    BY EndpointFacts DEF TelemetryInv, ClientInv
  <2> HIDE DEF halves
  <2> QED
    BY <2>1, <2>2, <2>3, IngestKeepsRing
<1>5. CASE GroundRestarts
  <2>1. /\ s_dedup' = [s_dedup EXCEPT !["ground"] = <<>>]
        /\ network' = [network EXCEPT !["ground"] = <<>>]
    BY <1>5 DEF GroundRestarts
  <2>2. RingOf(<<>>, <<>>)
    BY RingEmpty
  <2> QED
    BY <2>1, <2>2 DEF RingInv, TelemetryInv, RouterInv
<1> QED
  BY <1>1, <1>2, <1>3, <1>4, <1>5 DEF RouterStep

\* In both units a frame from the network is held back exactly when the same frame was
\* routed less than a window ago and the ring still has room for it: a ring that writes
\* over its entries tells what the whole history would (duplicate_network_frame of
\* airlink_router.c).
THEOREM OnlyRepeatsHeldBack == Spec => []RepeatsHeldBack
<1> DEFINE Inv == TelemetryInv /\ RingInv
<1>1. Init => Inv
  <2> SUFFICES ASSUME Init PROVE RingInv
    BY InitTelemetryInv
  <2>1. \A u \in Units : s_dedup[u] = <<>> /\ network[u] = <<>>
    BY DEF Init, RouterInit
  <2> QED
    BY <2>1, RingEmpty DEF RingInv
<1>2. Inv /\ [Next]_vars => Inv'
  BY NextTelemetryInv, NextRouterStep, NextRingInv
<1>3. Inv => RepeatsHeldBack
  <2> SUFFICES ASSUME Inv, NEW u \in Units, NEW j \in DOMAIN network[u]
               PROVE  network[u][j].routed <=>
                        ~ \E i \in 1..j - 1 :
                            /\ network[u][i].routed /\ network[u][i].frame = network[u][j].frame
                            /\ network[u][j].time - network[u][i].time < DedupWindow
                            /\ Cardinality({k \in i + 1..j - 1 : network[u][k].routed})
                                 < DedupEntries
    BY Zenon DEF RepeatsHeldBack
  <2>1. network[u][j].routed <=> ~ \E i \in 1..j - 1 : Repeats(network[u], i, j)
    BY DEF RingInv, RingOf, HeldBack
  <2> QED
    BY <2>1, Zenon DEF Repeats, RoutedIn
<1> QED
  <2> HIDE DEF Inv
  <2> QED BY <1>1, <1>2, <1>3, PTL DEF Spec
-----------------------------------------------------------------------------
(* The order of frames on their way between the units, by their numbers; garbage has *)
(* number 0.                                                                         *)

\* Number b may be routed after number a.
After(a, b) == b = 0 \/ a < b
Precede(A, B) == \A a \in A, b \in B : After(a, b)

Numbers(s) == {s[k].frame.number : k \in 1..Len(s)}
FrameNumbers(q) == {q[k].number : k \in 1..Len(q)}

\* The halves of whole frames in order, cut off anywhere.
Stream(s) ==
    /\ s # <<>> => s[1].part = "head"
    /\ \A k \in 1..Len(s) - 1 :
           IF s[k].part = "head" THEN s[k + 1] = [frame |-> s[k].frame, part |-> "tail"]
           ELSE s[k + 1].part = "head"
    /\ \A j, k \in 1..Len(s) :
           j < k /\ s[k].part = "head" => After(s[j].frame.number, s[k].frame.number)

Ended(s) == s # <<>> => s[Len(s)].part = "tail"

InOrder(q) == \A j, k \in 1..Len(q) : j < k => After(q[j].number, q[k].number)

\* Frames that were routed, halves that are on their way, frames that wait.
Line(done, s, q) ==
    /\ InOrder(done) /\ Stream(s) /\ InOrder(q)
    /\ Precede(FrameNumbers(done), Numbers(s)) /\ Precede(FrameNumbers(done), FrameNumbers(q))
    /\ Precede(Numbers(s), FrameNumbers(q))

-----------------------------------------------------------------------------
(* Who is connected to whom. *)

Closing(i) == task.at = "unregistered" /\ task.slot = i
Waits(l) == link[l].air = "waiting"

\* A link is in the backlog, or it has one client, or it is closed; stations have one
\* client at most; the bridge holds its end of its link.
Connections ==
    /\ \A i \in UdpSlots : ~udp[i].used
    /\ s_endpoints["ground"][Usb] = <<>>
    /\ \A i \in Slots : client[i].used => link[client[i].link].air = "open"
    /\ \A i, j \in Slots : client[i].used /\ client[j].used /\ i # j =>
           link[client[i].link].station # link[client[j].link].station
    /\ \A k \in 1..Len(backlog) : Waits(backlog[k])
    /\ \A j, k \in 1..Len(backlog) : j # k => backlog[j] # backlog[k]
    /\ \A l \in Links : Waits(l) => \E k \in 1..Len(backlog) : backlog[k] = l
    /\ bridge.socket # 0 => link[bridge.socket].station = "ground" /\ link[bridge.socket].peer

\* From the flight controller to the ground unit.
Downs == {n \in 0..fc.sent : n = 0 => environment.overflows}

UartParser ==
    LET parser == s_endpoints["air"][Uart]
    IN  parser # <<>> => environment.overflows /\ parser[1].frame.number \in Downs

DownWay == s_endpoints["ground"][Bridge] \o link[bridge.socket].down

DownInv ==
    /\ UartParser
    /\ InOrder(delivered["ground"]) /\ FrameNumbers(delivered["ground"]) \subseteq Downs
    /\ \A i \in Slots : client[i].used =>
           /\ InOrder(client[i].tx_queue)
           /\ Numbers(client[i].pending) \cup FrameNumbers(client[i].tx_queue) \subseteq Downs
    /\ Bridge \in Registered("ground") =>
           /\ Line(delivered["ground"], DownWay, <<>>) /\ Numbers(DownWay) \subseteq Downs
           /\ Waits(bridge.socket) => DownWay = <<>>
           /\ \A i \in Slots : client[i].used /\ client[i].link = bridge.socket =>
                  LET way == DownWay \o client[i].pending
                  IN  Line(delivered["ground"], way, client[i].tx_queue) /\ Ended(way)

\* From the ground unit to the flight controller.
AirParser(i) == IF Tcp(i) \in Registered("air") THEN s_endpoints["air"][Tcp(i)] ELSE <<>>

\* What is on its way through a link that the air unit has not given up.
Ways(l) ==
    (IF Waits(l) THEN {link[l].up} ELSE {})
        \cup {AirParser(i) \o link[l].up :
                 i \in {i \in Slots : client[i].used /\ client[i].link = l /\ ~Closing(i)}}

\* A link is served before another one.
Sooner(l, m) ==
    Waits(m) /\ (Waits(l) => \E j, k \in 1..Len(backlog) : j < k /\ backlog[j] = l /\ backlog[k] = m)

Payloads(q) == [k \in 1..Len(q) |-> q[k].frame]
Held == Numbers(bridge.pending) \cup FrameNumbers(Payloads(bridge.tx_queue))

UpInv ==
    /\ InOrder(delivered["air"]) /\ FrameNumbers(delivered["air"]) \subseteq 1..gcs
    /\ \A l \in Links : \A s \in Ways(l) :
           /\ Line(delivered["air"], s, <<>>) /\ Numbers(s) \subseteq 1..gcs
           /\ link[l].station # "ground" => s = <<>>
    /\ \A l, m \in Links : \A s \in Ways(l), t \in Ways(m) :
           l # m /\ Sooner(l, m) => Precede(Numbers(s), Numbers(t))
    /\ \A m \in Links : m = bridge.socket => \A t \in Ways(m) :
           /\ Line(delivered["air"], t \o bridge.pending, Payloads(bridge.tx_queue))
           /\ Ended(t \o bridge.pending) /\ Held \subseteq 1..gcs
           /\ \A l \in Links \ {m} : \A s \in Ways(l) :
                  link[l].station = "ground" => Sooner(l, m) /\ Precede(Numbers(s), Held)

WayInv == environment.udp = {} => Connections /\ DownInv /\ UpInv

\* Nothing is a stream, and its numbers are none.
LEMMA StreamFacts ==
    /\ Stream(<<>>) /\ Ended(<<>>) /\ Numbers(<<>>) = {} /\ FrameNumbers(<<>>) = {} /\ InOrder(<<>>)
    /\ \A s \in Seq(HalfFrame) : Numbers(s) \subseteq Nat
    /\ \A q \in Seq(AnyFrame) : FrameNumbers(q) \subseteq Nat
<1>1. Len(<<>>) = 0
  BY EmptySeq
<1>2. Stream(<<>>) /\ Ended(<<>>) /\ Numbers(<<>>) = {} /\ FrameNumbers(<<>>) = {} /\ InOrder(<<>>)
  BY <1>1 DEF Stream, Ended, Numbers, FrameNumbers, InOrder
<1>3. ASSUME NEW s \in Seq(HalfFrame) PROVE Numbers(s) \subseteq Nat
  <2>1. \A k \in 1..Len(s) : s[k] \in HalfFrame
    BY ElementOfSeq
  <2>2. \A half \in HalfFrame : half.frame.number \in Nat
    BY DEF HalfFrame, AnyFrame
  <2>3. \A k \in 1..Len(s) : s[k].frame.number \in Nat
    BY <2>1, <2>2
  <2> QED BY <2>3 DEF Numbers
<1>4. ASSUME NEW q \in Seq(AnyFrame) PROVE FrameNumbers(q) \subseteq Nat
  <2>1. \A k \in 1..Len(q) : q[k].number \in Nat
    BY ElementOfSeq DEF AnyFrame
  <2> QED BY <2>1 DEF FrameNumbers
<1> QED
  BY <1>2, <1>3, <1>4

\* What follows a stream that has ended.
LEMMA StreamJoin ==
    ASSUME NEW s \in Seq(HalfFrame), NEW t \in Seq(HalfFrame), Stream(s), Ended(s), Stream(t),
           Precede(Numbers(s), Numbers(t))
    PROVE  /\ s \o t \in Seq(HalfFrame) /\ Stream(s \o t)
           /\ Ended(t) => Ended(s \o t)
<1> DEFINE r == s \o t
<1>1. /\ r \in Seq(HalfFrame) /\ Len(r) = Len(s) + Len(t) /\ Len(s) \in Nat /\ Len(t) \in Nat
      /\ \A i \in 1..Len(s) : r[i] = s[i] /\ i \in 1..Len(r)
      /\ \A i \in 1..Len(t) : r[Len(s) + i] = t[i] /\ Len(s) + i \in 1..Len(r)
      /\ \A i \in 1..Len(r) : \/ i \in 1..Len(s) /\ r[i] = s[i]
                              \/ i > Len(s) /\ i - Len(s) \in 1..Len(t) /\ r[i] = t[i - Len(s)]
  BY ConcatProperties, LenProperties
<1>2. \A i \in 1..Len(s) : s[i] \in HalfFrame
  BY ElementOfSeq
<1>3. \A i \in 1..Len(t) : t[i] \in HalfFrame
  BY ElementOfSeq
<1>4. (s = <<>> <=> Len(s) = 0) /\ (t = <<>> <=> Len(t) = 0) /\ (r = <<>> <=> Len(r) = 0)
  <2>1. \A q \in Seq(HalfFrame) : q = <<>> <=> Len(q) = 0
    BY EmptySeq
  <2> HIDE DEF r
  <2> QED BY <1>1, <2>1
<1> HIDE DEF r
<1>5. r # <<>> => r[1].part = "head"
  <2>1. CASE Len(s) = 0
    BY <1>1, <1>4, <2>1 DEF Stream
  <2>2. CASE Len(s) # 0
    BY <1>1, <1>4, <2>2 DEF Stream
  <2> QED BY <2>1, <2>2
<1>6. ASSUME NEW k \in 1..Len(r) - 1
      PROVE  IF r[k].part = "head" THEN r[k + 1] = [frame |-> r[k].frame, part |-> "tail"]
             ELSE r[k + 1].part = "head"
  <2>1. CASE k < Len(s)
    <3>1. k \in 1..Len(s) - 1 /\ r[k] = s[k] /\ r[k + 1] = s[k + 1]
      BY <1>1, <2>1
    <3> QED BY <3>1 DEF Stream
  <2>2. CASE k = Len(s)
    <3>1. r[k] = s[Len(s)] /\ r[k + 1] = t[1] /\ s # <<>> /\ t # <<>>
      BY <1>1, <1>4, <2>2
    <3> QED BY <3>1 DEF Stream, Ended
  <2>3. CASE k > Len(s)
    <3>1. k \in 1..Len(r) /\ k + 1 \in 1..Len(r) /\ k > Len(s) /\ k + 1 > Len(s)
          /\ (k + 1) - Len(s) = (k - Len(s)) + 1
      BY <1>1, <2>3
    <3>2. r[k] = t[k - Len(s)] /\ r[k + 1] = t[(k + 1) - Len(s)]
      BY <1>1, <3>1
    <3>3. k - Len(s) \in 1..Len(t) - 1
      BY <1>1, <3>1
    <3>4. r[k + 1] = t[(k - Len(s)) + 1]
      BY <3>1, <3>2
    <3> QED BY <3>2, <3>3, <3>4 DEF Stream
  <2> QED BY <1>1, <2>1, <2>2, <2>3
<1>7. ASSUME NEW j \in 1..Len(r), NEW k \in 1..Len(r), j < k, r[k].part = "head"
      PROVE  After(r[j].frame.number, r[k].frame.number)
  <2>1. CASE k <= Len(s)
    <3>1. j \in 1..Len(s) /\ k \in 1..Len(s) /\ r[j] = s[j] /\ r[k] = s[k]
      BY <1>1, <1>7, <2>1
    <3> QED BY <1>7, <3>1 DEF Stream
  <2>2. CASE j <= Len(s) /\ k > Len(s)
    <3>1. /\ j \in 1..Len(s) /\ r[j] = s[j]
          /\ k - Len(s) \in 1..Len(t) /\ r[k] = t[k - Len(s)]
      BY <1>1, <2>2
    <3> QED BY <3>1, Zenon DEF Precede, Numbers
  <2>3. CASE j > Len(s) /\ k > Len(s)
    <3>1. /\ j - Len(s) \in 1..Len(t) /\ r[j] = t[j - Len(s)] /\ j - Len(s) < k - Len(s)
          /\ k - Len(s) \in 1..Len(t) /\ r[k] = t[k - Len(s)]
      BY <1>1, <1>7, <2>3
    <3> QED BY <1>7, <3>1 DEF Stream
  <2> QED BY <1>1, <1>7, <2>1, <2>2, <2>3
<1>8. ASSUME Ended(t), r # <<>> PROVE r[Len(r)].part = "tail"
  <2>1. CASE t = <<>>
    BY <1>1, <1>4, <1>8, <2>1 DEF Ended
  <2>2. CASE t # <<>>
    BY <1>1, <1>4, <1>8, <2>2 DEF Ended
  <2> QED BY <2>1, <2>2
<1>9. Stream(r)
  BY <1>5, <1>6, <1>7 DEF Stream
<1>10. Ended(t) => Ended(r)
  BY <1>8 DEF Ended
<1> QED
  BY <1>1, <1>9, <1>10 DEF r

\* The numbers of what is put together, and of parts.
LEMMA JoinedNumbers ==
    ASSUME NEW s \in Seq(HalfFrame), NEW t \in Seq(HalfFrame)
    PROVE  Numbers(s \o t) = Numbers(s) \cup Numbers(t)
<1> DEFINE r == s \o t
<1>1. /\ Len(s) \in Nat /\ Len(t) \in Nat
      /\ \A i \in 1..Len(s) : r[i] = s[i] /\ i \in 1..Len(r)
      /\ \A i \in 1..Len(t) : r[Len(s) + i] = t[i] /\ Len(s) + i \in 1..Len(r)
      /\ \A i \in 1..Len(r) : \/ i \in 1..Len(s) /\ r[i] = s[i]
                              \/ i - Len(s) \in 1..Len(t) /\ r[i] = t[i - Len(s)]
  BY ConcatProperties, LenProperties
<1> HIDE DEF r
<1>2. Numbers(r) \subseteq Numbers(s) \cup Numbers(t)
  BY <1>1 DEF Numbers
<1>3. Numbers(s) \subseteq Numbers(r)
  BY <1>1 DEF Numbers
<1>4. Numbers(t) \subseteq Numbers(r)
  <2> SUFFICES ASSUME NEW i \in 1..Len(t) PROVE t[i].frame.number \in Numbers(r)
    BY Zenon DEF Numbers
  <2>1. r[Len(s) + i] = t[i] /\ Len(s) + i \in 1..Len(r)
    BY <1>1
  <2> QED BY <2>1 DEF Numbers
<1> QED
  BY <1>2, <1>3, <1>4 DEF r

\* The numbers of queues that are put together, and their order.
LEMMA JoinedFrames ==
    ASSUME NEW p \in Seq(AnyFrame), NEW q \in Seq(AnyFrame)
    PROVE  /\ FrameNumbers(p \o q) = FrameNumbers(p) \cup FrameNumbers(q)
           /\ InOrder(p) /\ InOrder(q) /\ Precede(FrameNumbers(p), FrameNumbers(q))
                 <=> InOrder(p \o q)
<1> DEFINE r == p \o q
<1>1. /\ Len(p) \in Nat /\ Len(q) \in Nat /\ Len(r) = Len(p) + Len(q)
      /\ \A i \in 1..Len(p) : r[i] = p[i] /\ i \in 1..Len(r)
      /\ \A i \in 1..Len(q) : r[Len(p) + i] = q[i] /\ Len(p) + i \in 1..Len(r)
      /\ \A i \in 1..Len(r) : \/ i \in 1..Len(p) /\ r[i] = p[i]
                              \/ i > Len(p) /\ i - Len(p) \in 1..Len(q) /\ r[i] = q[i - Len(p)]
  BY ConcatProperties, LenProperties
<1> HIDE DEF r
<1>2. FrameNumbers(r) \subseteq FrameNumbers(p) \cup FrameNumbers(q)
  BY <1>1 DEF FrameNumbers
<1>3. FrameNumbers(p) \subseteq FrameNumbers(r)
  BY <1>1 DEF FrameNumbers
<1>4. FrameNumbers(q) \subseteq FrameNumbers(r)
  <2> SUFFICES ASSUME NEW i \in 1..Len(q) PROVE q[i].number \in FrameNumbers(r)
    BY Zenon DEF FrameNumbers
  <2>1. r[Len(p) + i] = q[i] /\ Len(p) + i \in 1..Len(r)
    BY <1>1
  <2> QED BY <2>1 DEF FrameNumbers
<1>5. ASSUME InOrder(p), InOrder(q), Precede(FrameNumbers(p), FrameNumbers(q)),
             NEW j \in 1..Len(r), NEW k \in 1..Len(r), j < k
      PROVE  After(r[j].number, r[k].number)
  <2>1. CASE k <= Len(p)
    <3>1. j \in 1..Len(p) /\ k \in 1..Len(p) /\ r[j] = p[j] /\ r[k] = p[k]
      BY <1>1, <1>5, <2>1
    <3> QED BY <1>5, <3>1 DEF InOrder
  <2>2. CASE j <= Len(p) /\ k > Len(p)
    <3>1. j \in 1..Len(p) /\ r[j] = p[j] /\ k - Len(p) \in 1..Len(q) /\ r[k] = q[k - Len(p)]
      BY <1>1, <2>2
    <3> QED BY <1>5, <3>1, Zenon DEF Precede, FrameNumbers
  <2>3. CASE j > Len(p) /\ k > Len(p)
    <3>1. /\ j - Len(p) \in 1..Len(q) /\ r[j] = q[j - Len(p)] /\ j - Len(p) < k - Len(p)
          /\ k - Len(p) \in 1..Len(q) /\ r[k] = q[k - Len(p)]
      BY <1>1, <1>5, <2>3
    <3> QED BY <1>5, <3>1, Zenon DEF InOrder
  <2> QED BY <1>1, <1>5, <2>1, <2>2, <2>3
<1>6. ASSUME InOrder(r) PROVE InOrder(p) /\ InOrder(q) /\ Precede(FrameNumbers(p), FrameNumbers(q))
  <2>1. InOrder(p)
    BY <1>1, <1>6 DEF InOrder
  <2>2. ASSUME NEW j \in 1..Len(q), NEW k \in 1..Len(q), j < k
        PROVE  After(q[j].number, q[k].number)
    <3>1. /\ Len(p) + j \in 1..Len(r) /\ Len(p) + k \in 1..Len(r) /\ Len(p) + j < Len(p) + k
          /\ r[Len(p) + j] = q[j] /\ r[Len(p) + k] = q[k]
      BY <1>1, <2>2
    <3> QED BY <1>6, <3>1 DEF InOrder
  <2>3. ASSUME NEW j \in 1..Len(p), NEW k \in 1..Len(q)
        PROVE  After(p[j].number, q[k].number)
    <3>1. /\ j \in 1..Len(r) /\ Len(p) + k \in 1..Len(r) /\ j < Len(p) + k
          /\ r[j] = p[j] /\ r[Len(p) + k] = q[k]
      BY <1>1
    <3> QED BY <1>6, <3>1 DEF InOrder
  <2> QED BY <2>1, <2>2, <2>3 DEF InOrder, Precede, FrameNumbers
<1>7. InOrder(p) /\ InOrder(q) /\ Precede(FrameNumbers(p), FrameNumbers(q)) => InOrder(r)
  BY <1>5 DEF InOrder
<1> QED
  BY <1>2, <1>3, <1>4, <1>6, <1>7 DEF r

\* What there is room for in a queue is in order.
LEMMA UptoOrder ==
    ASSUME NEW s \in Seq(AnyFrame), NEW n \in Nat
    PROVE  /\ FrameNumbers(Upto(n, s)) \subseteq FrameNumbers(s)
           /\ InOrder(s) => InOrder(Upto(n, s))
<1> DEFINE t == Upto(n, s)
<1>1. t \in Seq(AnyFrame) /\ \A k \in DOMAIN t : k \in DOMAIN s /\ t[k] = s[k]
  BY UptoFact
<1>2. DOMAIN t = 1..Len(t) /\ DOMAIN s = 1..Len(s)
  BY <1>1, LenProperties
<1> HIDE DEF t
<1>3. \A k \in 1..Len(t) : k \in 1..Len(s) /\ t[k] = s[k]
  BY <1>1, <1>2
<1> QED
  BY <1>3, Zenon DEF FrameNumbers, InOrder, t

\* Two parts of a stream.
LEMMA StreamSplit ==
    ASSUME NEW s \in Seq(HalfFrame), NEW t \in Seq(HalfFrame), Stream(s \o t)
    PROVE  /\ Stream(s)
           /\ Ended(s) => Stream(t) /\ Precede(Numbers(s), Numbers(t))
           /\ Ended(s \o t) => Ended(t)
           /\ Ended(s \o t) /\ t = <<>> => Ended(s)
<1> DEFINE r == s \o t
<1>1. /\ r \in Seq(HalfFrame) /\ Len(r) = Len(s) + Len(t) /\ Len(s) \in Nat /\ Len(t) \in Nat
      /\ \A i \in 1..Len(s) : r[i] = s[i] /\ i \in 1..Len(r)
      /\ \A i \in 1..Len(t) : r[Len(s) + i] = t[i] /\ Len(s) + i \in 1..Len(r)
  BY ConcatProperties, LenProperties
<1>2. (s = <<>> <=> Len(s) = 0) /\ (t = <<>> <=> Len(t) = 0) /\ (r = <<>> <=> Len(r) = 0)
  <2>1. \A q \in Seq(HalfFrame) : q = <<>> <=> Len(q) = 0
    BY EmptySeq
  <2> HIDE DEF r
  <2> QED BY <1>1, <2>1
<1>3. Stream(r)
  OBVIOUS
<1>4. r = s \o t
  OBVIOUS
<1> HIDE DEF r
<1>5. Stream(s)
  <2>1. s # <<>> => s[1].part = "head"
    BY <1>1, <1>2, <1>3 DEF Stream
  <2>2. ASSUME NEW k \in 1..Len(s) - 1
        PROVE  IF s[k].part = "head" THEN s[k + 1] = [frame |-> s[k].frame, part |-> "tail"]
               ELSE s[k + 1].part = "head"
    <3>1. k \in 1..Len(r) - 1 /\ r[k] = s[k] /\ r[k + 1] = s[k + 1]
      BY <1>1
    <3> QED BY <1>3, <3>1 DEF Stream
  <2>3. \A j, k \in 1..Len(s) :
           j < k /\ s[k].part = "head" => After(s[j].frame.number, s[k].frame.number)
    BY <1>1, <1>3 DEF Stream
  <2> QED BY <2>1, <2>2, <2>3, Zenon DEF Stream
<1>6. ASSUME Ended(s), t # <<>> PROVE t[1].part = "head"
  <2>1. CASE Len(s) = 0
    BY <1>1, <1>2, <1>3, <1>6, <2>1 DEF Stream
  <2>2. CASE Len(s) # 0
    <3>1. Len(s) \in 1..Len(r) - 1 /\ r[Len(s)] = s[Len(s)] /\ r[Len(s) + 1] = t[1]
      BY <1>1, <1>2, <1>6, <2>2
    <3>2. s[Len(s)].part = "tail"
      BY <1>2, <1>6, <2>2 DEF Ended
    <3> QED BY <1>3, <3>1, <3>2, Zenon DEF Stream
  <2> QED BY <2>1, <2>2
<1>7. ASSUME NEW k \in 1..Len(t) - 1
      PROVE  IF t[k].part = "head" THEN t[k + 1] = [frame |-> t[k].frame, part |-> "tail"]
             ELSE t[k + 1].part = "head"
  <2>1. k \in 1..Len(t) /\ k + 1 \in 1..Len(t) /\ Len(s) + k \in 1..Len(r) - 1
        /\ Len(s) + (k + 1) = (Len(s) + k) + 1
    BY <1>1
  <2>2. r[Len(s) + k] = t[k] /\ r[(Len(s) + k) + 1] = t[k + 1]
    BY <1>1, <2>1
  <2> QED BY <1>3, <2>1, <2>2 DEF Stream
<1>8. ASSUME NEW j \in 1..Len(t), NEW k \in 1..Len(t), j < k, t[k].part = "head"
      PROVE  After(t[j].frame.number, t[k].frame.number)
  <2>1. /\ Len(s) + j \in 1..Len(r) /\ Len(s) + k \in 1..Len(r) /\ Len(s) + j < Len(s) + k
        /\ r[Len(s) + j] = t[j] /\ r[Len(s) + k] = t[k]
    BY <1>1, <1>8
  <2> QED BY <1>3, <1>8, <2>1, Zenon DEF Stream
<1>9. ASSUME Ended(s), NEW j \in 1..Len(s), NEW k \in 1..Len(t)
      PROVE  After(s[j].frame.number, t[k].frame.number)
  <2>1. /\ j \in 1..Len(r) /\ Len(s) + k \in 1..Len(r) /\ j < Len(s) + k
        /\ r[j] = s[j] /\ r[Len(s) + k] = t[k]
    BY <1>1
  <2>2. CASE t[k].part = "head"
    BY <1>3, <2>1, <2>2 DEF Stream
  <2>3. CASE t[k].part # "head"
    <3>1. k # 1
      BY <1>1, <1>2, <1>6, <1>9, <2>3
    <3>2. k - 1 \in 1..Len(t) - 1 /\ (k - 1) + 1 = k /\ k - 1 \in 1..Len(t)
      BY <1>1, <3>1
    <3>3. t[k - 1].part = "head" /\ t[k] = [frame |-> t[k - 1].frame, part |-> "tail"]
      BY <1>7, <2>3, <3>2
    <3>4. t[k].frame.number = t[k - 1].frame.number
      BY <3>3
    <3>5. \A i \in 1..Len(t) : /\ r[Len(s) + i] = t[i] /\ Len(s) + i \in 1..Len(r)
                               /\ j < Len(s) + i
      BY <1>1
    <3>6. \A i \in 1..Len(t) :
             t[i].part = "head" => After(s[j].frame.number, t[i].frame.number)
      BY <1>3, <2>1, <3>5, Zenon DEF Stream
    <3>7. After(s[j].frame.number, t[k - 1].frame.number)
      BY <3>2, <3>3, <3>6
    <3> QED BY <3>4, <3>7
  <2> QED BY <2>2, <2>3
<1>10. Ended(s) => Stream(t) /\ Precede(Numbers(s), Numbers(t))
  <2>1. Ended(s) => Stream(t)
    BY <1>6, <1>7, <1>8 DEF Stream
  <2>2. Ended(s) => Precede(Numbers(s), Numbers(t))
    BY <1>9 DEF Precede, Numbers
  <2> QED BY <2>1, <2>2
<1>11. Ended(r) => Ended(t) /\ (t = <<>> => Ended(s))
  BY <1>1, <1>2 DEF Ended
<1> QED
  BY <1>4, <1>5, <1>10, <1>11

\* Number sets that precede each other.
LEMMA PrecedeFacts ==
    /\ \A A, B, C : Precede(A \cup B, C) <=> Precede(A, C) /\ Precede(B, C)
    /\ \A A, B, C : Precede(A, B \cup C) <=> Precede(A, B) /\ Precede(A, C)
    /\ \A A, B, C, D : Precede(A, B) /\ C \subseteq A /\ D \subseteq B => Precede(C, D)
    /\ \A A : Precede(A, {}) /\ Precede({}, A)
BY DEF Precede

\* The router of the receiver takes the beginning of a stream.
LEMMA LineReads ==
    ASSUME NEW done \in Seq(AnyFrame), NEW d \in Seq(HalfFrame), NEW s \in Seq(HalfFrame),
           NEW q \in Seq(AnyFrame), NEW passed \in Seq(AnyFrame),
           Line(done, d \o s, q), Ended(d), InOrder(passed), FrameNumbers(passed) \subseteq Numbers(d)
    PROVE  Line(done \o passed, s, q)
<1>1. /\ InOrder(done) /\ Stream(d \o s) /\ InOrder(q)
      /\ Precede(FrameNumbers(done), Numbers(d \o s))
      /\ Precede(FrameNumbers(done), FrameNumbers(q)) /\ Precede(Numbers(d \o s), FrameNumbers(q))
  BY DEF Line
<1>2. Stream(s) /\ Precede(Numbers(d), Numbers(s))
  BY <1>1, StreamSplit
<1>3. Numbers(d \o s) = Numbers(d) \cup Numbers(s)
  BY JoinedNumbers
<1>4. FrameNumbers(done \o passed) = FrameNumbers(done) \cup FrameNumbers(passed)
  BY JoinedFrames
<1>5. Precede(FrameNumbers(done), FrameNumbers(passed))
  BY <1>1, <1>3, PrecedeFacts
<1>6. InOrder(done \o passed)
  BY <1>1, <1>5, JoinedFrames
<1>7. Precede(FrameNumbers(done \o passed), Numbers(s))
  <2>1. Precede(FrameNumbers(done), Numbers(s))
    BY <1>1, <1>3, PrecedeFacts
  <2>2. Precede(FrameNumbers(passed), Numbers(s))
    BY <1>2, PrecedeFacts
  <2> QED BY <1>4, <2>1, <2>2, PrecedeFacts
<1>8. Precede(FrameNumbers(done \o passed), FrameNumbers(q)) /\ Precede(Numbers(s), FrameNumbers(q))
  <2>1. Precede(Numbers(d), FrameNumbers(q)) /\ Precede(Numbers(s), FrameNumbers(q))
    BY <1>1, <1>3, PrecedeFacts
  <2>2. Precede(FrameNumbers(passed), FrameNumbers(q))
    BY <2>1, PrecedeFacts
  <2> QED BY <1>1, <1>4, <2>1, <2>2, PrecedeFacts
<1> QED
  BY <1>1, <1>2, <1>6, <1>7, <1>8 DEF Line

\* Frames that wait are sent.
LEMMA LineTakes ==
    ASSUME NEW done \in Seq(AnyFrame), NEW s \in Seq(HalfFrame), NEW batch \in Seq(HalfFrame),
           NEW taken \in Seq(AnyFrame), NEW q \in Seq(AnyFrame),
           Line(done, s, taken \o q), Ended(s), Stream(batch), Ended(batch),
           Numbers(batch) \subseteq FrameNumbers(taken)
    PROVE  Line(done, s \o batch, q) /\ Ended(s \o batch)
<1>1. /\ InOrder(done) /\ Stream(s) /\ InOrder(taken \o q)
      /\ Precede(FrameNumbers(done), Numbers(s))
      /\ Precede(FrameNumbers(done), FrameNumbers(taken \o q))
      /\ Precede(Numbers(s), FrameNumbers(taken \o q))
  BY DEF Line
<1>2. /\ FrameNumbers(taken \o q) = FrameNumbers(taken) \cup FrameNumbers(q)
      /\ InOrder(q) /\ Precede(FrameNumbers(taken), FrameNumbers(q))
  BY <1>1, JoinedFrames
<1>3. Precede(Numbers(s), Numbers(batch))
  BY <1>1, <1>2, PrecedeFacts
<1>4. Stream(s \o batch) /\ Ended(s \o batch) /\ Numbers(s \o batch) = Numbers(s) \cup Numbers(batch)
  BY <1>1, <1>3, StreamJoin, JoinedNumbers
<1>5. /\ Precede(FrameNumbers(done), Numbers(s \o batch))
      /\ Precede(FrameNumbers(done), FrameNumbers(q)) /\ Precede(Numbers(s \o batch), FrameNumbers(q))
  <2>1. /\ Precede(FrameNumbers(done), FrameNumbers(taken)) /\ Precede(FrameNumbers(done), FrameNumbers(q))
        /\ Precede(Numbers(s), FrameNumbers(q))
    BY <1>1, <1>2, PrecedeFacts
  <2>2. Precede(FrameNumbers(done), Numbers(batch)) /\ Precede(Numbers(batch), FrameNumbers(q))
    BY <1>2, <2>1, PrecedeFacts
  <2> QED BY <1>1, <1>4, <2>1, <2>2, PrecedeFacts
<1> QED
  BY <1>1, <1>2, <1>4, <1>5 DEF Line

\* Frames are queued behind the others, as many as there is room for.
LEMMA LineGets ==
    ASSUME NEW done \in Seq(AnyFrame), NEW s \in Seq(HalfFrame), NEW q \in Seq(AnyFrame),
           NEW frames \in Seq(AnyFrame), NEW n \in Nat, Line(done, s, q), InOrder(frames),
           Precede(FrameNumbers(done) \cup Numbers(s) \cup FrameNumbers(q), FrameNumbers(frames))
    PROVE  Line(done, s, Upto(n, q \o frames))
<1> DEFINE r == q \o frames
<1>1. /\ InOrder(done) /\ Stream(s) /\ InOrder(q)
      /\ Precede(FrameNumbers(done), Numbers(s)) /\ Precede(FrameNumbers(done), FrameNumbers(q))
      /\ Precede(Numbers(s), FrameNumbers(q))
  BY DEF Line
<1>2. r \in Seq(AnyFrame) /\ InOrder(r) /\ FrameNumbers(r) = FrameNumbers(q) \cup FrameNumbers(frames)
  BY <1>1, ConcatProperties, JoinedFrames, PrecedeFacts
<1> HIDE DEF r
<1>3. InOrder(Upto(n, r)) /\ FrameNumbers(Upto(n, r)) \subseteq FrameNumbers(r)
  BY <1>2, UptoOrder
<1>4. Precede(FrameNumbers(done), FrameNumbers(Upto(n, r)))
        /\ Precede(Numbers(s), FrameNumbers(Upto(n, r)))
  <2>1. Precede(FrameNumbers(done), FrameNumbers(frames)) /\ Precede(Numbers(s), FrameNumbers(frames))
    BY PrecedeFacts
  <2>2. Precede(FrameNumbers(done), FrameNumbers(r)) /\ Precede(Numbers(s), FrameNumbers(r))
    BY <1>1, <1>2, <2>1, PrecedeFacts
  <2> QED BY <1>3, <2>2, PrecedeFacts
<1> QED
  BY <1>1, <1>3, <1>4 DEF Line, r

\* A part that was lost.
LEMMA LineCut ==
    ASSUME NEW done \in Seq(AnyFrame), NEW s \in Seq(HalfFrame), NEW t \in Seq(HalfFrame),
           NEW q, Line(done, s \o t, q)
    PROVE  Line(done, s, <<>>)
<1>1. Stream(s) /\ Numbers(s) \subseteq Numbers(s \o t) /\ InOrder(<<>>) /\ FrameNumbers(<<>>) = {}
  BY StreamSplit, JoinedNumbers, StreamFacts DEF Line
<1> QED
  BY <1>1, PrecedeFacts DEF Line

\* What every step of the loop in airlink_router_ingest leads to, the loop leads to.
LEMMA OutcomeAt ==
    ASSUME NEW u, NEW e, NEW Half, NEW halves \in Seq(Half), NEW look,
           NEW Good, Before(u, e) \in Good,
           \A state \in Good, half \in Half : ParseHalf(state, e, half, look) \in Good,
           NEW At, Before(u, e) \in At[0],
           \A k \in 1..Len(halves) : \A state \in Good :
               state \in At[k - 1] => ParseHalf(state, e, halves[k], look) \in At[k]
    PROVE  Outcome(u, e, halves, look) \in Good /\ Outcome(u, e, halves, look) \in At[Len(halves)]
<1> DEFINE n == Len(halves)
           IsPass(f) == f = [k \in 0..n |-> IF k = 0 THEN Before(u, e)
                                            ELSE ParseHalf(f[k - 1], e, halves[k], look)]
           state == CHOOSE f : IsPass(f)
<1>1. n \in Nat /\ \A k \in 1..n : halves[k] \in Half
  BY LenProperties
<1>2. \E f : IsPass(f)
  <2> DEFINE step == [k \in 1..n |-> [s \in Good |-> ParseHalf(s, e, halves[k], look)]]
  <2>1. step \in [1..n -> [Good -> Good]]
    BY <1>1
  <2>2. PICK f \in [0..n -> Good] : f[0] = Before(u, e) /\ \A k \in 1..n : f[k] = step[k][f[k - 1]]
    <3> HIDE DEF step, n
    <3>1. CanRun(n, Good, Before(u, e), step)
      BY <1>1, <2>1, RunExists, Zenon
    <3> QED BY <3>1, Zenon DEF CanRun
  <2>3. \A k \in 0..n : f[k] = IF k = 0 THEN Before(u, e)
                               ELSE ParseHalf(f[k - 1], e, halves[k], look)
    <3> SUFFICES ASSUME NEW k \in 0..n, k # 0
                 PROVE  f[k] = ParseHalf(f[k - 1], e, halves[k], look)
      BY <2>2
    <3>1. k \in 1..n /\ k - 1 \in 0..n /\ f[k - 1] \in Good
      BY <1>1, <2>2
    <3> QED BY <2>2, <3>1, Zenon
  <2>4. IsPass(f)
    BY <2>2, <2>3
  <2> QED
    BY <2>4
<1>3. IsPass(state)
  <2> HIDE DEF IsPass
  <2> QED BY <1>2
<1>4. \A k \in 0..n : state[k] \in Good /\ state[k] \in At[k]
  <2> DEFINE T == {k \in 0..n : ~(state[k] \in Good /\ state[k] \in At[k])}
  <2> SUFFICES ASSUME T # {} PROVE FALSE
    BY Zenon
  <2>1. PICK k \in T : \A y \in T : k <= y
    <3>1. T \subseteq Nat
      BY <1>1
    <3> HIDE DEF T
    <3> QED BY <3>1, LeastNat, Zenon
  <2>2. \A j \in 0..n : state[j] = IF j = 0 THEN Before(u, e)
                                   ELSE ParseHalf(state[j - 1], e, halves[j], look)
    <3> HIDE DEF state
    <3> QED BY <1>3, Zenon
  <2> HIDE DEF state
  <2>3. k # 0
    BY <2>1, <2>2
  <2>4. k \in 1..n /\ k - 1 \in 0..n /\ state[k - 1] \in Good /\ state[k - 1] \in At[k - 1]
    BY <1>1, <2>1, <2>3
  <2>5. state[k] = ParseHalf(state[k - 1], e, halves[k], look)
    BY <2>1, <2>2, <2>3
  <2> QED
    BY <1>1, <2>1, <2>4, <2>5
<1>5. Outcome(u, e, halves, look) = state[n]
  BY DEF Outcome
<1> QED
  BY <1>1, <1>4, <1>5

\* A batch of packets, piece by piece.
LEMMA FlattenSteps ==
    ASSUME NEW S, NEW seqs \in Seq(Seq(S)), Len(seqs) # 0
    PROVE  \E flat : /\ FlattenSeq(seqs) = flat[Len(seqs)] /\ flat[1] = seqs[1]
                     /\ \A i \in 2..Len(seqs) : flat[i] = flat[i - 1] \o seqs[i]
                     /\ \A i \in 1..Len(seqs) : flat[i] \in Seq(S)
<1> DEFINE n == Len(seqs)
           Flat(f) == f = [i \in 1..n |-> IF i = 1 THEN seqs[i] ELSE f[i - 1] \o seqs[i]]
           flat == CHOOSE f : Flat(f)
<1>1. n \in Nat /\ n # 0 /\ \A k \in 1..n : seqs[k] \in Seq(S)
  BY LenProperties
<1>2. \E f : Flat(f)
  <2> DEFINE m == n - 1
             step == [k \in 1..m |-> [s \in Seq(S) |-> s \o seqs[k + 1]]]
  <2>1. m \in Nat /\ step \in [1..m -> [Seq(S) -> Seq(S)]] /\ seqs[1] \in Seq(S)
    BY <1>1, ConcatProperties
  <2>2. PICK g \in [0..m -> Seq(S)] : g[0] = seqs[1] /\ \A k \in 1..m : g[k] = step[k][g[k - 1]]
    <3> HIDE DEF step, m
    <3>1. CanRun(m, Seq(S), seqs[1], step)
      BY <2>1, RunExists, Zenon
    <3> QED BY <3>1, Zenon DEF CanRun
  <2> DEFINE f == [i \in 1..n |-> g[i - 1]]
  <2>3. \A i \in 1..n : f[i] = IF i = 1 THEN seqs[i] ELSE f[i - 1] \o seqs[i]
    <3>1. \A i \in 1..n : f[i] = g[i - 1]
      OBVIOUS
    <3> HIDE DEF f
    <3> SUFFICES ASSUME NEW i \in 1..n PROVE f[i] = IF i = 1 THEN seqs[i] ELSE f[i - 1] \o seqs[i]
      OBVIOUS
    <3>2. CASE i = 1
      BY <2>2, <3>1, <3>2
    <3>3. CASE i # 1
      <4>1. i - 1 \in 1..m /\ i - 2 \in 0..m /\ (i - 1) - 1 = i - 2 /\ (i - 1) + 1 = i
        BY <1>1, <3>3
      <4>2. i - 1 \in 1..n
        BY <1>1, <3>3
      <4>3. g[i - 2] \in Seq(S)
        <5> HIDE DEF m
        <5> QED BY <2>2, <4>1, Zenon
      <4>4. g[i - 1] = g[i - 2] \o seqs[i]
        BY <2>2, <4>1, <4>3, Zenon
      <4> QED BY <3>1, <3>3, <4>1, <4>2, <4>4, Zenon
    <3> QED BY <3>2, <3>3
  <2>4. Flat(f)
    BY <2>3, Zenon
  <2> QED BY <2>4, Zenon
<1>3. Flat(flat)
  <2> HIDE DEF Flat
  <2> QED BY <1>2
<1>4. \A i \in 1..n : flat[i] = IF i = 1 THEN seqs[i] ELSE flat[i - 1] \o seqs[i]
  <2> HIDE DEF flat
  <2> QED BY <1>3, Zenon
<1>5. FlattenSeq(seqs) = flat[n]
  BY DEF FlattenSeq
<1> HIDE DEF flat
<1> DEFINE T == {k \in 1..n : flat[k] \notin Seq(S)}
<1>6. T = {}
  <2> SUFFICES ASSUME T # {} PROVE FALSE
    OBVIOUS
  <2>1. PICK k \in T : \A y \in T : k <= y
    <3>1. T \subseteq Nat
      BY <1>1
    <3> HIDE DEF T
    <3> QED BY <3>1, LeastNat, Zenon
  <2>2. k # 1
    BY <1>1, <1>4, <2>1, Zenon
  <2>3. k \in 1..n /\ k - 1 \in 1..n /\ flat[k - 1] \in Seq(S) /\ seqs[k] \in Seq(S)
    BY <1>1, <2>1, <2>2
  <2>4. flat[k] = flat[k - 1] \o seqs[k]
    BY <1>4, <2>2, <2>3, Zenon
  <2>5. flat[k] \in Seq(S)
    BY <2>3, <2>4, ConcatProperties
  <2> QED BY <2>1, <2>5
<1>7. flat[1] = seqs[1] /\ \A i \in 2..n : flat[i] = flat[i - 1] \o seqs[i]
  <2>1. 1 \in 1..n /\ \A i \in 2..n : i \in 1..n /\ i # 1
    BY <1>1
  <2> QED BY <1>4, <2>1, Zenon
<1>8. \A i \in 1..n : flat[i] \in Seq(S)
  BY <1>6, Zenon
<1> QED
  BY <1>5, <1>7, <1>8, Zenon

\* A sequence without elements.
LEMMA EmptyLen ==
    ASSUME NEW S, NEW s \in Seq(S)
    PROVE  Len(s) \in Nat /\ (s = <<>> <=> Len(s) = 0)
BY EmptySeq, LenProperties

\* A parser holds nothing or one half.
LEMMA ParserSeq == \A p \in Parser : p \in Seq(HalfFrame)
<1>1. <<>> \in Seq(HalfFrame)
  BY EmptySeq
<1>2. \A half \in HalfFrame : << half >> \in Seq(HalfFrame)
  OBVIOUS
<1> QED BY <1>1, <1>2, Zenon DEF Parser

\* The halves of one frame.
LEMMA HalvesStream ==
    ASSUME NEW frame \in AnyFrame
    PROVE  /\ Halves(frame) \in Seq(HalfFrame) /\ Stream(Halves(frame)) /\ Ended(Halves(frame))
           /\ Numbers(Halves(frame)) = {frame.number}
<1> DEFINE s == Halves(frame)
<1>1. /\ s \in Seq(HalfFrame) /\ Len(s) = 2
      /\ s[1] = [frame |-> frame, part |-> "head"] /\ s[2] = [frame |-> frame, part |-> "tail"]
  BY FrameFacts DEF Halves
<1> HIDE DEF s
<1>2. s # <<>> /\ 1..Len(s) = {1, 2} /\ 1..Len(s) - 1 = {1}
  <2>1. s # <<>>
    <3>1. s \in Seq(HalfFrame) /\ Len(s) # 0
      BY <1>1
    <3> QED BY <3>1, EmptyLen
  <2>2. 1..2 = {1, 2} /\ 1..2 - 1 = {1}
    OBVIOUS
  <2> QED BY <1>1, <2>1, <2>2
<1>3. \A j, k \in {1, 2} : j < k => k = 2
  OBVIOUS
<1>4. Stream(s)
  BY <1>1, <1>2, <1>3 DEF Stream
<1>5. Ended(s) /\ Numbers(s) = {frame.number}
  BY <1>1, <1>2 DEF Ended, Numbers
<1> QED
  BY <1>1, <1>4, <1>5 DEF s

\* A batch of packets in order is a stream.
LEMMA BatchStream ==
    ASSUME NEW taken \in Seq(AnyFrame), InOrder(taken)
    PROVE  LET batch == FlattenSeq([k \in DOMAIN taken |-> Halves(taken[k])])
           IN  /\ batch \in Seq(HalfFrame) /\ Stream(batch) /\ Ended(batch)
               /\ Numbers(batch) \subseteq FrameNumbers(taken)
<1> DEFINE n == Len(taken)
           packets == [k \in DOMAIN taken |-> Halves(taken[k])]
           Upon(k) == {taken[j].number : j \in 1..k}
<1>1. n \in Nat /\ DOMAIN taken = 1..n /\ \A k \in 1..n : taken[k] \in AnyFrame
  BY LenProperties
<1>2. \A k \in 1..n : /\ packets[k] \in Seq(HalfFrame) /\ Stream(packets[k]) /\ Ended(packets[k])
                      /\ Numbers(packets[k]) = {taken[k].number}
  BY <1>1, HalvesStream
<1>3. packets \in Seq(Seq(HalfFrame)) /\ Len(packets) = n
  BY <1>1, <1>2
<1> HIDE DEF packets
<1>4. CASE n = 0
  <2>1. FlattenSeq(packets) = <<>>
    BY <1>3, <1>4, EmptySeq DEF FlattenSeq
  <2> QED BY <2>1, StreamFacts, EmptySeq DEF packets
<1>5. CASE n # 0
  <2>1. PICK flat : /\ FlattenSeq(packets) = flat[n] /\ flat[1] = packets[1]
                    /\ \A i \in 2..n : flat[i] = flat[i - 1] \o packets[i]
                    /\ \A i \in 1..n : flat[i] \in Seq(HalfFrame)
    <3>1. Len(packets) # 0
      BY <1>3, <1>5
    <3>2. \E f : /\ FlattenSeq(packets) = f[Len(packets)] /\ f[1] = packets[1]
                 /\ \A i \in 2..Len(packets) : f[i] = f[i - 1] \o packets[i]
                 /\ \A i \in 1..Len(packets) : f[i] \in Seq(HalfFrame)
      BY <1>3, <3>1, FlattenSteps, Zenon
    <3> QED BY <1>3, <3>2, Zenon
  <2> DEFINE Good(k) == Stream(flat[k]) /\ Ended(flat[k]) /\ Numbers(flat[k]) \subseteq Upon(k)
             T == {k \in 1..n : ~Good(k)}
  <2>2. T = {}
    <3> SUFFICES ASSUME T # {} PROVE FALSE
      OBVIOUS
    <3>1. PICK k \in T : \A y \in T : k <= y
      <4>1. T \subseteq Nat
        BY <1>1
      <4> HIDE DEF T
      <4> QED BY <4>1, LeastNat, Zenon
    <3>2. k \in 1..n /\ ~Good(k)
      BY <3>1
    <3>3. CASE k = 1
      <4>1. 1 \in 1..1
        OBVIOUS
      <4> QED BY <1>1, <1>2, <2>1, <3>2, <3>3, <4>1, Zenon
    <3>4. CASE k # 1
      <4>1. k \in 2..n /\ k - 1 \in 1..n /\ k - 1 < k
        BY <1>1, <3>2, <3>4
      <4>2. Good(k - 1)
        <5>1. k - 1 \notin T
          <6> HIDE DEF T
          <6> QED BY <3>1, <4>1
        <5> QED BY <4>1, <5>1
      <4>3. flat[k - 1] \in Seq(HalfFrame) /\ flat[k] = flat[k - 1] \o packets[k]
        BY <2>1, <4>1, Zenon
      <4>4. \A j \in 1..k - 1 : After(taken[j].number, taken[k].number)
        BY <1>1, <4>1 DEF InOrder
      <4>5. Precede(Numbers(flat[k - 1]), Numbers(packets[k]))
        <5>1. \A a \in Upon(k - 1) : After(a, taken[k].number)
          BY <4>4
        <5>2. Numbers(packets[k]) = {taken[k].number} /\ Numbers(flat[k - 1]) \subseteq Upon(k - 1)
          BY <1>2, <3>2, <4>2, Zenon
        <5> HIDE DEF Upon
        <5> QED BY <5>1, <5>2 DEF Precede
      <4>6. Stream(flat[k]) /\ Ended(flat[k]) /\ Numbers(flat[k]) = Numbers(flat[k - 1]) \cup {taken[k].number}
        <5> HIDE DEF Upon, T
        <5>1. /\ packets[k] \in Seq(HalfFrame) /\ Stream(packets[k]) /\ Ended(packets[k])
              /\ Numbers(packets[k]) = {taken[k].number}
          BY <1>2, <3>2, Zenon
        <5>2. Stream(flat[k - 1] \o packets[k]) /\ Ended(flat[k - 1] \o packets[k])
          BY <4>2, <4>3, <4>5, <5>1, StreamJoin, Zenon
        <5>3. Numbers(flat[k - 1] \o packets[k]) = Numbers(flat[k - 1]) \cup Numbers(packets[k])
          BY <4>3, <5>1, JoinedNumbers
        <5> QED BY <4>3, <5>1, <5>2, <5>3
      <4>7. 1..k - 1 \subseteq 1..k /\ k \in 1..k
        BY <4>1
      <4> QED BY <3>2, <4>2, <4>6, <4>7
    <3> QED BY <3>3, <3>4
  <2>3. Good(n) /\ flat[n] \in Seq(HalfFrame)
    <3>1. n \in 1..n
      BY <1>1, <1>5
    <3> QED BY <2>1, <2>2, <3>1, Zenon
  <2> QED
    BY <2>1, <2>3 DEF FrameNumbers, packets
<1> QED
  BY <1>4, <1>5

\* What the loop has made of the stream w when rest is still to be read.
Reads(state, w, rest) ==
    \E d \in Seq(HalfFrame) :
        /\ w = d \o (state.parser \o rest) /\ Ended(d)
        /\ InOrder(state.passed) /\ FrameNumbers(state.passed) \subseteq Numbers(d)

\* Whoever the sender is, a frame that is complete is passed on or held back.
LEMMA CompletePasses ==
    ASSUME NEW state \in LoopState, NEW e, NEW frame
    PROVE  /\ Complete(state, e, frame).parser = state.parser
           /\ Complete(state, e, frame).passed \in {state.passed, Append(state.passed, frame)}
BY DEF Complete, Pass, Observe, LoopState

\* Of a stream a parser passes on the frames that are complete.
LEMMA ParseStream ==
    ASSUME NEW state \in LoopState, NEW e, NEW half \in HalfFrame, NEW rest \in Seq(HalfFrame),
           NEW w \in Seq(HalfFrame), Stream(w), Reads(state, w, << half >> \o rest)
    PROVE  Reads(ParseHalf(state, e, half, NoLook), w, rest)
<1>1. PICK d \in Seq(HalfFrame) :
         /\ w = d \o (state.parser \o (<< half >> \o rest)) /\ Ended(d)
         /\ InOrder(state.passed) /\ FrameNumbers(state.passed) \subseteq Numbers(d)
  BY Zenon DEF Reads
<1> DEFINE one == << half >>
           p == state.parser
           t == p \o (one \o rest)
<1>2. one \in Seq(HalfFrame) /\ Len(one) = 1 /\ one[1] = half
  OBVIOUS
<1> HIDE DEF one
<1>3. p \in Seq(HalfFrame) /\ state.passed \in Seq(AnyFrame)
  BY ParserSeq DEF LoopState
<1>4. one \o rest \in Seq(HalfFrame) /\ t \in Seq(HalfFrame)
  BY <1>2, <1>3, ConcatProperties
<1>5. Stream(t) /\ Precede(Numbers(d), Numbers(t))
  BY <1>1, <1>4, StreamSplit, Zenon DEF one
<1>6. CASE p = <<>>
  <2>1. t = one \o rest
    BY <1>4, <1>6, ConcatEmptySeq
  <2>2. Len(t) = 1 + Len(rest) /\ Len(rest) \in Nat /\ t[1] = half
    <3>1. Len(one \o rest) = Len(one) + Len(rest) /\ Len(rest) \in Nat
          /\ \A i \in 1..Len(one) + Len(rest) :
                 (one \o rest)[i] = IF i <= Len(one) THEN one[i] ELSE rest[i - Len(one)]
      BY <1>2, ConcatProperties, LenProperties, Zenon
    <3> QED BY <1>2, <2>1, <3>1
  <2>3. half.part = "head"
    <3>1. t # <<>>
      <4>1. Len(t) # 0
        BY <2>2
      <4> HIDE DEF t
      <4> QED BY <1>4, <4>1, EmptyLen
    <3> QED BY <1>5, <2>2, <3>1 DEF Stream
  <2>4. ParseHalf(state, e, half, NoLook) = [state EXCEPT !.parser = one]
    BY <1>6, <2>3 DEF ParseHalf, StartFrame, one
  <2> QED
    BY <1>1, <2>1, <2>4, Zenon DEF Reads, LoopState, one
<1>7. CASE p # <<>>
  <2>1. PICK first \in HalfFrame : p = << first >>
    BY <1>7 DEF LoopState, Parser
  <2>2. Len(p) = 1 /\ p[1] = first
    BY <2>1
  <2>3. /\ Len(t) = 2 + Len(rest) /\ Len(rest) \in Nat /\ t[1] = first /\ t[2] = half
    <3>1. Len(one \o rest) = 1 + Len(rest) /\ Len(rest) \in Nat /\ (one \o rest)[1] = half
      <4>1. Len(one \o rest) = Len(one) + Len(rest) /\ Len(rest) \in Nat
            /\ \A i \in 1..Len(one) + Len(rest) :
                   (one \o rest)[i] = IF i <= Len(one) THEN one[i] ELSE rest[i - Len(one)]
        BY <1>2, ConcatProperties, LenProperties, Zenon
      <4> QED BY <1>2, <4>1
    <3> DEFINE v == one \o rest
    <3>2. /\ Len(p \o v) = Len(p) + Len(v)
          /\ \A i \in 1..Len(p) + Len(v) : (p \o v)[i] = IF i <= Len(p) THEN p[i] ELSE v[i - Len(p)]
      BY <1>3, <1>4, ConcatProperties, Zenon
    <3> HIDE DEF v
    <3>3. t = p \o v /\ Len(v) = 1 + Len(rest) /\ v[1] = half
      BY <3>1 DEF v
    <3> HIDE DEF t, p
    <3> QED
      BY <2>2, <3>1, <3>2, <3>3
  <2>4. first.part = "head" /\ half = [frame |-> first.frame, part |-> "tail"]
    <3>1. t # <<>> /\ 1 \in 1..Len(t) - 1 /\ 1 + 1 = 2
      <4>1. Len(t) # 0 /\ 1 \in 1..Len(t) - 1
        BY <2>3
      <4> HIDE DEF t
      <4> QED BY <1>4, <4>1, EmptyLen
    <3>2. first.part = "head"
      BY <1>5, <2>3, <3>1 DEF Stream
    <3> QED BY <1>5, <2>3, <3>1, <3>2, Zenon DEF Stream
  <2> DEFINE both == p \o one
             next == d \o both
             idle == [state EXCEPT !.parser = <<>>]
             done == Complete(idle, e, first.frame)
  <2>5. Intact(first, half)
    <3>1. first = [frame |-> first.frame, part |-> "head"]
      BY <2>4 DEF HalfFrame
    <3> QED BY <2>4, <3>1 DEF Intact, Halves
  <2>6. ParseHalf(state, e, half, NoLook) = done
    BY <1>7, <2>2, <2>5 DEF ParseHalf
  <2>7. idle \in LoopState /\ idle.parser = <<>> /\ idle.passed = state.passed
    BY Zenon DEF LoopState, Parser
  <2>8. done.parser = <<>> /\ done.passed \in {state.passed, Append(state.passed, first.frame)}
    BY <2>7, CompletePasses, Zenon
  <2> HIDE DEF idle, done
  <2>9. both \in Seq(HalfFrame) /\ next \in Seq(HalfFrame) /\ t = both \o rest
    <3>1. both \in Seq(HalfFrame)
      BY <1>2, <1>3, ConcatProperties
    <3>2. next \in Seq(HalfFrame)
      <4> HIDE DEF both
      <4> QED BY <3>1, ConcatProperties
    <3>3. (p \o one) \o rest = p \o (one \o rest)
      <4> HIDE DEF p
      <4> QED BY <1>2, <1>3, ConcatAssociative
    <3> QED BY <3>1, <3>2, <3>3
  <2>10. both = Halves(first.frame)
    <3>1. first = [frame |-> first.frame, part |-> "head"]
      BY <2>4 DEF HalfFrame
    <3> DEFINE s == Halves(first.frame)
    <3>2. s \in Seq(HalfFrame) /\ Len(s) = 2 /\ s[1] = first /\ s[2] = half
      BY <2>4, <3>1, FrameFacts DEF Halves, HalfFrame
    <3>3. Len(both) = 2 /\ both[1] = p[1] /\ both[2] = one[1]
      <4>1. /\ Len(p \o one) = Len(p) + Len(one)
            /\ \A i \in 1..Len(p) + Len(one) :
                   (p \o one)[i] = IF i <= Len(p) THEN p[i] ELSE one[i - Len(p)]
        <5> HIDE DEF p
        <5> QED BY <1>2, <1>3, ConcatProperties, Zenon
      <4> HIDE DEF p
      <4> QED BY <1>2, <2>2, <4>1
    <3> HIDE DEF s, both, p
    <3>4. both = s
      <4>1. both \in Seq(HalfFrame) /\ Len(both) = Len(s)
        BY <2>9, <3>2, <3>3
      <4>2. both[1] = s[1] /\ both[2] = s[2]
        BY <1>2, <2>2, <3>2, <3>3
      <4>3. \A i \in 1..Len(both) : i \in {1, 2}
        BY <3>3
      <4>4. \A i \in 1..Len(both) : both[i] = s[i]
        BY <4>2, <4>3
      <4> QED BY <3>2, <4>1, <4>4, SeqEqual
    <3> QED BY <3>4 DEF s
  <2>11. first.frame \in AnyFrame
    BY DEF HalfFrame
  <2> HIDE DEF both, t
  <2>12. Stream(both) /\ Ended(both) /\ Numbers(both) = {first.frame.number}
    BY <2>10, <2>11, HalvesStream
  <2>13. Numbers(t) = Numbers(both) \cup Numbers(rest)
    BY <2>9, JoinedNumbers
  <2>14. Numbers(next) = Numbers(d) \cup {first.frame.number}
    BY <2>9, <2>12, JoinedNumbers
  <2>15. Ended(next)
    <3>1. Stream(d)
      BY <1>1, <1>4, StreamSplit, Zenon DEF one, t
    <3>2. Precede(Numbers(d), Numbers(both))
      BY <1>5, <2>13, PrecedeFacts
    <3> QED BY <1>1, <2>9, <2>12, <3>1, <3>2, StreamJoin, Zenon
  <2>16. w = next \o (done.parser \o rest)
    <3>1. w = d \o (both \o rest)
      BY <1>1, <2>9, Zenon DEF one, t
    <3>2. done.parser \o rest = rest
      BY <2>8, ConcatEmptySeq
    <3>3. (d \o both) \o rest = d \o (both \o rest)
      BY <2>9, ConcatAssociative
    <3> QED BY <3>1, <3>2, <3>3
  <2>17. InOrder(done.passed) /\ FrameNumbers(done.passed) \subseteq Numbers(next)
    <3>1. CASE done.passed = state.passed
      BY <1>1, <2>14, <3>1
    <3>2. CASE done.passed = Append(state.passed, first.frame)
      <4> DEFINE new == << first.frame >>
      <4>1. new \in Seq(AnyFrame) /\ FrameNumbers(new) = {first.frame.number} /\ InOrder(new)
        BY <2>11 DEF FrameNumbers, InOrder
      <4> HIDE DEF new
      <4>2. done.passed = state.passed \o new
        BY <1>3, <2>11, <3>2, AppendIsConcat, Zenon DEF new
      <4>3. Precede(FrameNumbers(state.passed), FrameNumbers(new))
        BY <1>1, <1>5, <2>12, <2>13, <4>1, PrecedeFacts
      <4> QED BY <1>1, <1>3, <2>14, <4>1, <4>2, <4>3, JoinedFrames, Zenon
    <3> QED BY <2>8, <3>1, <3>2, Zenon
  <2> QED
    BY <2>6, <2>9, <2>15, <2>16, <2>17, Zenon DEF Reads
<1> QED
  BY <1>6, <1>7

\* A read takes a beginning of what the parser and the link hold.
LEMMA ReadStream ==
    ASSUME RouterInv, NEW u \in Units, NEW e \in Registered(u), NEW held \in Seq(HalfFrame),
           NEW n \in 0..Len(held), Stream(s_endpoints[u][e] \o held)
    PROVE  Reads(Outcome(u, e, SubSeq(held, 1, n), NoLook), s_endpoints[u][e] \o held,
                 SubSeq(held, n + 1, Len(held)))
<1> DEFINE w == s_endpoints[u][e] \o held
           halves == SubSeq(held, 1, n)
           Rest(k) == SubSeq(held, k + 1, Len(held))
           At == [k \in 0..n |-> {state \in LoopState : Reads(state, w, Rest(k))}]
<1>1. s_endpoints[u][e] \in Seq(HalfFrame)
  BY ParserSeq DEF RouterInv
<1>2. w \in Seq(HalfFrame) /\ Len(held) \in Nat /\ \A k \in 1..Len(held) : held[k] \in HalfFrame
  BY <1>1, ConcatProperties, LenProperties
<1>3. /\ halves \in Seq(HalfFrame) /\ Len(halves) = n /\ n \in Nat
      /\ \A k \in 1..n : halves[k] = held[k]
  <2>1. n \in Nat /\ 1 \in Int /\ \A k \in 1..n : held[k] \in HalfFrame
    BY <1>2
  <2> QED BY <2>1, SubSeqProperties
<1>4. NoLook \in Looks /\ now \in Nat
  BY DEF NoLook, Looks, RouterInv
<1>5. Before(u, e) \in LoopState
  BY EmptySeq DEF RouterInv, Before, LoopState
<1>6. \A state \in LoopState, half \in HalfFrame : ParseHalf(state, e, half, NoLook) \in LoopState
  BY <1>4, ParseHalfType
<1>7. Before(u, e) \in At[0]
  <2>1. Rest(0) = held
    BY SubSeqFull
  <2>2. w = <<>> \o w /\ <<>> \in Seq(HalfFrame)
    BY <1>2, ConcatEmptySeq, EmptySeq
  <2>3. Before(u, e).parser = s_endpoints[u][e] /\ Before(u, e).passed = <<>>
    BY DEF Before
  <2>4. Reads(Before(u, e), w, Rest(0))
    <3>1. InOrder(<<>>) /\ FrameNumbers(<<>>) = {} /\ Ended(<<>>)
      BY StreamFacts
    <3>2. w = <<>> \o (Before(u, e).parser \o Rest(0))
      BY <2>1, <2>2, <2>3, Zenon
    <3> HIDE DEF w, Rest
    <3> QED BY <2>2, <2>3, <3>1, <3>2, Zenon DEF Reads
  <2> QED BY <1>3, <1>5, <2>4
<1>8. ASSUME NEW k \in 1..n, NEW state \in LoopState, state \in At[k - 1]
      PROVE  ParseHalf(state, e, halves[k], NoLook) \in At[k]
  <2>1. k \in 1..Len(held) /\ Len(held) \in k..Len(held) /\ (k - 1) + 1 = k /\ k - 1 \in 0..n
        /\ k \in 0..n /\ k \in 0..Len(held)
    BY <1>2, <1>3
  <2>2. Rest(k - 1) = << held[k] >> \o Rest(k)
    BY <2>1, SubSeqRecursiveFirst
  <2>3. Rest(k) \in Seq(HalfFrame) /\ held[k] \in HalfFrame
    BY <1>2, <2>1, SliceFact
  <2>4. Reads(state, w, Rest(k - 1)) /\ halves[k] = held[k]
    BY <1>3, <1>8, <2>1
  <2> HIDE DEF w, Rest, halves
  <2>5. Reads(ParseHalf(state, e, held[k], NoLook), w, Rest(k))
    BY <1>2, <2>2, <2>3, <2>4, ParseStream, Zenon DEF w
  <2>6. ParseHalf(state, e, held[k], NoLook) \in LoopState
    BY <1>6, <2>3
  <2> QED BY <2>1, <2>4, <2>5, <2>6
<1> HIDE DEF w, halves, Rest
<1>9. Outcome(u, e, halves, NoLook) \in At[n]
  <2> HIDE DEF At
  <2> QED BY <1>3, <1>5, <1>6, <1>7, <1>8, OutcomeAt, Zenon
<1>10. Reads(Outcome(u, e, halves, NoLook), w, Rest(n))
  BY <1>3, <1>9
<1> QED
  BY <1>10 DEF w, halves, Rest

-----------------------------------------------------------------------------
(* Frames on their way down. *)

\* The types of what is on its way down.
LEMMA DownTypes ==
    ASSUME TelemetryInv
    PROVE  /\ delivered["ground"] \in Seq(AnyFrame) /\ delivered["air"] \in Seq(AnyFrame)
           /\ \A i \in Slots : /\ client[i].pending \in Seq(HalfFrame)
                               /\ client[i].tx_queue \in Seq(AnyFrame)
           /\ Bridge \in Registered("ground") =>
                 /\ bridge.socket \in Links /\ bridge.socket # 0
                 /\ s_endpoints["ground"][Bridge] \in Seq(HalfFrame)
                 /\ link[bridge.socket].down \in Seq(HalfFrame)
                 /\ DownWay \in Seq(HalfFrame)
           /\ Downs \subseteq Nat /\ fc.sent \in Nat
<1> USE DEF TelemetryInv
<1>1. delivered["ground"] \in Seq(AnyFrame) /\ delivered["air"] \in Seq(AnyFrame) /\ fc.sent \in Nat
  BY EndpointFacts DEF OutsideInv
<1>2. \A i \in Slots : client[i].pending \in Seq(HalfFrame) /\ client[i].tx_queue \in Seq(AnyFrame)
  BY DEF ClientInv, TcpClient
<1>3. ASSUME Bridge \in Registered("ground")
      PROVE  /\ bridge.socket \in Links /\ bridge.socket # 0
             /\ s_endpoints["ground"][Bridge] \in Seq(HalfFrame)
             /\ link[bridge.socket].down \in Seq(HalfFrame)
             /\ DownWay \in Seq(HalfFrame)
  <2>1. bridge.socket \in Links /\ bridge.socket # 0
    BY <1>3 DEF BridgeInv, BridgeState
  <2>2. s_endpoints["ground"][Bridge] \in Seq(HalfFrame)
    BY <1>3, ParserSeq, EndpointFacts DEF RouterInv
  <2>3. link[bridge.socket].down \in Seq(HalfFrame)
    BY <2>1 DEF LinkInv, Link
  <2> QED BY <2>1, <2>2, <2>3, ConcatProperties DEF DownWay
<1>4. Downs \subseteq Nat
  BY <1>1 DEF Downs
<1> QED
  BY <1>1, <1>2, <1>3, <1>4

\* A step that only takes clients and the connection away keeps the order.
LEMMA DownKept ==
    ASSUME DownInv, environment' = environment, fc' = fc,
           delivered'["ground"] = delivered["ground"],
           s_endpoints'["air"][Uart] = s_endpoints["air"][Uart],
           Bridge \in Registered("ground")' =>
               /\ Bridge \in Registered("ground") /\ bridge'.socket = bridge.socket
               /\ s_endpoints'["ground"][Bridge] = s_endpoints["ground"][Bridge]
               /\ link'[bridge.socket].down = link[bridge.socket].down
               /\ link'[bridge.socket].air = "waiting" => link[bridge.socket].air = "waiting",
           \A i \in Slots : client'[i].used =>
               /\ client[i].used /\ client'[i].link = client[i].link
               /\ client'[i].pending = client[i].pending /\ client'[i].tx_queue = client[i].tx_queue
    PROVE  DownInv'
<1>1. Downs' = Downs
  BY DEF Downs
<1>2. UartParser'
  BY <1>1 DEF DownInv, UartParser
<1>3. Bridge \in Registered("ground")' => DownWay' = DownWay
  BY Zenon DEF DownWay
<1>4. InOrder(delivered'["ground"]) /\ FrameNumbers(delivered'["ground"]) \subseteq Downs'
  BY <1>1 DEF DownInv
<1>5. \A i \in Slots : client'[i].used =>
         /\ InOrder(client'[i].tx_queue)
         /\ Numbers(client'[i].pending) \cup FrameNumbers(client'[i].tx_queue) \subseteq Downs'
  BY <1>1 DEF DownInv
<1>6. ASSUME Bridge \in Registered("ground")'
      PROVE  /\ Line(delivered'["ground"], DownWay', <<>>) /\ Numbers(DownWay') \subseteq Downs'
             /\ link'[bridge'.socket].air = "waiting" => DownWay' = <<>>
             /\ \A i \in Slots : client'[i].used /\ client'[i].link = bridge'.socket =>
                    /\ Line(delivered'["ground"], DownWay' \o client'[i].pending, client'[i].tx_queue)
                    /\ Ended(DownWay' \o client'[i].pending)
  <2>1. DownWay' = DownWay /\ Bridge \in Registered("ground")
    BY <1>3, <1>6
  <2>2. /\ Line(delivered["ground"], DownWay, <<>>) /\ Numbers(DownWay) \subseteq Downs
        /\ link[bridge.socket].air = "waiting" => DownWay = <<>>
        /\ \A i \in Slots : client[i].used /\ client[i].link = bridge.socket =>
               /\ Line(delivered["ground"], DownWay \o client[i].pending, client[i].tx_queue)
               /\ Ended(DownWay \o client[i].pending)
    BY <2>1 DEF DownInv, Waits
  <2> QED BY <1>1, <1>6, <2>1, <2>2
<1> QED
  BY <1>2, <1>4, <1>5, <1>6 DEF DownInv, Waits

\* What two halves or one make of the parser.
LEMMA OutcomeShort ==
    ASSUME RouterInv, NEW u \in Units, NEW e \in Registered(u), NEW look \in Looks,
           NEW halves \in Seq(HalfFrame), Len(halves) \in {1, 2}
    PROVE  LET one == ParseHalf(Before(u, e), e, halves[1], look)
           IN  /\ one \in LoopState
               /\ Len(halves) = 1 => Outcome(u, e, halves, look) = one
               /\ Len(halves) = 2 =>
                     Outcome(u, e, halves, look) = ParseHalf(one, e, halves[2], look)
<1> DEFINE n == Len(halves)
           one == ParseHalf(Before(u, e), e, halves[1], look)
           two == ParseHalf(one, e, halves[2], look)
           At == [k \in 0..n |-> IF k = 0 THEN {Before(u, e)} ELSE IF k = 1 THEN {one} ELSE {two}]
<1>1. now \in Nat /\ Before(u, e) \in LoopState
  BY EmptySeq DEF RouterInv, Before, LoopState
<1>2. \A state \in LoopState, half \in HalfFrame : ParseHalf(state, e, half, look) \in LoopState
  BY <1>1, ParseHalfType
<1>3. n \in {1, 2} /\ 1 \in 1..n /\ \A k \in 1..n : halves[k] \in HalfFrame
  <2>1. \A k \in 1..n : halves[k] \in HalfFrame
    BY ElementOfSeq
  <2>2. n \in {1, 2}
    OBVIOUS
  <2>3. \A m \in {1, 2} : 1 \in 1..m
    OBVIOUS
  <2> HIDE DEF n
  <2> QED BY <2>1, <2>2, <2>3
<1>4. one \in LoopState
  BY <1>1, <1>2, <1>3
<1>5. At[0] = {Before(u, e)} /\ At[1] = {one} /\ (n = 2 => At[2] = {two})
  <2> HIDE DEF one, two
  <2> QED BY <1>3
<1>6. ASSUME NEW k \in 1..n, NEW state \in LoopState, state \in At[k - 1]
      PROVE  ParseHalf(state, e, halves[k], look) \in At[k]
  <2>1. CASE k = 1
    BY <1>5, <1>6, <2>1
  <2>2. CASE k # 1
    <3>1. k = 2 /\ n = 2 /\ k - 1 = 1
      BY <1>3, <2>2
    <3>2. state = one
      BY <1>5, <1>6, <3>1
    <3> QED BY <1>5, <3>1, <3>2
  <2> QED BY <2>1, <2>2
<1>7. Before(u, e) \in At[0]
  BY <1>5
<1>8. Outcome(u, e, halves, look) \in At[n]
  <2> HIDE DEF At
  <2> QED BY <1>1, <1>2, <1>6, <1>7, OutcomeAt, Zenon
<1> QED
  <2> HIDE DEF one, two, At
  <2>1. CASE n = 1
    BY <1>4, <1>5, <1>8, <2>1 DEF one, two
  <2>2. CASE n = 2
    BY <1>4, <1>5, <1>8, <2>2 DEF one, two
  <2> QED BY <1>3, <2>1, <2>2

\* Of a frame that comes through the UART at most one is passed on: the frame itself,
\* or garbage after an overflow.
LEMMA UartPasses ==
    ASSUME TelemetryInv, UartParser, NEW kind \in environment.kinds, NEW look \in Looks,
           NEW received \in {Whole, << 1 >>, << 2 >>}, received = Whole \/ environment.overflows
    PROVE  LET frame == Frame(fc.sent + 1, kind[1], kind[2])
               halves == [k \in DOMAIN received |-> Halves(frame)[received[k]]]
               out == Outcome("air", Uart, halves, look)
           IN  /\ out.passed \in {<<>>, << Garbage >>, << frame >>}
               /\ out.passed = << Garbage >> => environment.overflows
               /\ out.parser # <<>> =>
                     environment.overflows /\ out.parser[1].frame.number \in Downs \cup {fc.sent + 1}
<1> DEFINE frame == Frame(fc.sent + 1, kind[1], kind[2])
           halves == [k \in DOMAIN received |-> Halves(frame)[received[k]]]
           before == Before("air", Uart)
           one == ParseHalf(before, Uart, halves[1], look)
           out == Outcome("air", Uart, halves, look)
<1>1. frame \in AnyFrame /\ halves \in Seq(HalfFrame) /\ frame.number = fc.sent + 1
  BY UartFrame, Zenon DEF Frame
<1>2. /\ received \in Seq({1, 2}) /\ DOMAIN received = 1..Len(received)
      /\ Len(received) \in {1, 2} /\ received[1] \in {1, 2}
      /\ Len(received) = 2 => received[1] = 1 /\ received[2] = 2
      /\ received = Whole <=> Len(received) = 2
  <2>1. /\ <<1, 2>> \in Seq({1, 2}) /\ <<1>> \in Seq({1, 2}) /\ <<2>> \in Seq({1, 2})
        /\ Len(<<1, 2>>) = 2 /\ Len(<<1>>) = 1 /\ Len(<<2>>) = 1
        /\ <<1, 2>>[1] = 1 /\ <<1, 2>>[2] = 2 /\ <<1>>[1] = 1 /\ <<2>>[1] = 2
    OBVIOUS
  <2>2. received \in Seq({1, 2}) /\ Len(received) \in {1, 2} /\ received[1] \in {1, 2}
        /\ (Len(received) = 2 => received[1] = 1 /\ received[2] = 2)
        /\ (received = Whole <=> Len(received) = 2)
    <3> DEFINE a == <<1, 2>>
               b == <<1>>
               c == <<2>>
    <3>1. received \in {a, b, c} /\ Whole = a
      BY DEF Whole
    <3>2. /\ a \in Seq({1, 2}) /\ b \in Seq({1, 2}) /\ c \in Seq({1, 2})
          /\ Len(a) = 2 /\ Len(b) = 1 /\ Len(c) = 1
          /\ a[1] = 1 /\ a[2] = 2 /\ b[1] = 1 /\ c[1] = 2
      BY <2>1
    <3> HIDE DEF a, b, c
    <3> QED BY <3>1, <3>2
  <2>3. DOMAIN received = 1..Len(received)
    BY <2>2, LenProperties
  <2> QED BY <2>2, <2>3
<1>3. /\ Halves(frame)[1] = [frame |-> frame, part |-> "head"]
      /\ Halves(frame)[2] = [frame |-> frame, part |-> "tail"]
  BY DEF Halves
<1>4. /\ Len(halves) = Len(received) /\ halves[1].frame = frame /\ halves[1] \in HalfFrame
      /\ Len(received) = 2 => /\ halves[1] = [frame |-> frame, part |-> "head"]
                              /\ halves[2] = [frame |-> frame, part |-> "tail"]
  <2> HIDE DEF frame
  <2>1. DOMAIN halves = 1..Len(received) /\ \A k \in 1..Len(received) : halves[k] = Halves(frame)[received[k]]
    BY <1>2
  <2>2. Len(halves) = Len(received)
    <3> HIDE DEF halves
    <3> QED BY <1>1, <1>2, <2>1, LenProperties
  <2>3. 1 \in 1..Len(received) /\ (Len(received) = 2 => 2 \in 1..Len(received))
    BY <1>2
  <2>4. halves[1] \in HalfFrame
    <3> HIDE DEF halves
    <3> QED BY <1>1, <2>2, <2>3, ElementOfSeq
  <2> HIDE DEF halves
  <2>5. halves[1].frame = frame
    BY <1>2, <1>3, <2>1, <2>3
  <2>6. Len(received) = 2 => /\ halves[1] = [frame |-> frame, part |-> "head"]
                             /\ halves[2] = [frame |-> frame, part |-> "tail"]
    BY <1>2, <1>3, <2>1, <2>3
  <2> QED BY <2>2, <2>4, <2>5, <2>6
<1> HIDE DEF frame, halves
<1>5. /\ one \in LoopState
      /\ Len(halves) = 1 => out = one
      /\ Len(halves) = 2 => out = ParseHalf(one, Uart, halves[2], look)
  <2>1. RouterInv /\ "air" \in Units /\ Uart \in Registered("air")
    BY EndpointFacts DEF TelemetryInv, ClientInv
  <2> QED BY <1>1, <1>2, <1>4, <2>1, OutcomeShort, Zenon
<1>6. before.passed = <<>> /\ before.parser = s_endpoints["air"][Uart] /\ before \in LoopState
  BY EmptySeq, EndpointFacts DEF Before, TelemetryInv, ClientInv, RouterInv, LoopState
<1>7. before.parser # <<>> => /\ environment.overflows /\ before.parser[1].frame.number \in Downs
                              /\ before.parser[1].frame # frame
  <2>1. fc.sent + 1 \notin Downs
    BY DownTypes DEF Downs
  <2> QED BY <1>1, <1>6, <2>1 DEF UartParser
<1> HIDE DEF before
<1>8. ASSUME NEW state \in LoopState, state.passed = <<>>, NEW f
      PROVE  LET idle == [state EXCEPT !.parser = <<>>]
             IN  /\ Complete(idle, Uart, f).parser = <<>>
                 /\ Complete(idle, Uart, f).passed \in {<<>>, << f >>}
                 /\ idle.parser = <<>> /\ idle.passed = <<>>
  <2> DEFINE idle == [state EXCEPT !.parser = <<>>]
  <2>1. idle \in LoopState /\ idle.parser = <<>> /\ idle.passed = <<>>
    BY <1>8, Zenon DEF LoopState, Parser
  <2> HIDE DEF idle
  <2>2. /\ Complete(idle, Uart, f).parser = <<>>
        /\ Complete(idle, Uart, f).passed \in {<<>>, Append(<<>>, f)}
    BY <2>1, CompletePasses, Zenon
  <2>3. Append(<<>>, f) = << f >>
    OBVIOUS
  <2> QED BY <2>1, <2>2, <2>3 DEF idle
<1>9. \/ one.parser = << halves[1] >> /\ one.passed = <<>>
      \/ one.parser = <<>> /\ one.passed \in {<<>>, << Garbage >>} /\ environment.overflows
  <2>1. CASE before.parser = <<>>
    <3>1. one = [before EXCEPT !.parser = StartFrame(halves[1], look)]
      BY <2>1 DEF ParseHalf
    <3>2. one.parser = StartFrame(halves[1], look) /\ one.passed = <<>>
      BY <1>6, <3>1 DEF LoopState
    <3>3. StartFrame(halves[1], look) # <<>> => StartFrame(halves[1], look) = << halves[1] >>
      BY DEF StartFrame
    <3>4. ASSUME StartFrame(halves[1], look) = <<>> PROVE environment.overflows
      <4>1. halves[1].part # "head"
        <5>1. << halves[1] >> # <<>>
          OBVIOUS
        <5> QED BY <3>4, <5>1 DEF StartFrame
      <4> QED BY <1>2, <1>4, <4>1
    <3> QED BY <3>2, <3>3, <3>4
  <2>2. CASE before.parser # <<>>
    <3>1. ~Intact(before.parser[1], halves[1])
      <4>1. halves[1].frame # before.parser[1].frame
        BY <1>4, <1>7, <2>2
      <4> QED BY <4>1 DEF Intact, Halves
    <3>2. one \in {[before EXCEPT !.parser = <<>>], Complete([before EXCEPT !.parser = <<>>], Uart, Garbage)}
      BY <2>2, <3>1 DEF ParseHalf
    <3> QED BY <1>6, <1>7, <1>8, <2>2, <3>2, Zenon
  <2> QED BY <2>1, <2>2
<1>10. CASE Len(halves) = 1
  <2>1. out = one /\ environment.overflows
    BY <1>2, <1>4, <1>5, <1>10
  <2>2. << halves[1] >>[1] = halves[1] /\ halves[1].frame.number = fc.sent + 1
    BY <1>1, <1>4
  <2> HIDE DEF one, out
  <2> QED BY <1>9, <2>1, <2>2, Zenon DEF out, frame, halves
<1>11. CASE Len(halves) = 2
  <2>1. /\ out = ParseHalf(one, Uart, halves[2], look)
        /\ halves[1] = [frame |-> frame, part |-> "head"]
        /\ halves[2] = [frame |-> frame, part |-> "tail"]
    BY <1>4, <1>5, <1>11
  <2> HIDE DEF one, out
  <2>2. CASE one.parser = << halves[1] >> /\ one.passed = <<>>
    <3>1. one.parser # <<>> /\ one.parser[1] = halves[1]
      BY <2>2
    <3>2. Intact(halves[1], halves[2])
      BY <2>1 DEF Intact, Halves
    <3>3. out = Complete([one EXCEPT !.parser = <<>>], Uart, frame)
      BY <1>4, <2>1, <3>1, <3>2 DEF ParseHalf
    <3>4. out.parser = <<>> /\ out.passed \in {<<>>, << frame >>}
      BY <1>5, <1>8, <2>2, <3>3
    <3>5. << frame >> = << Garbage >> => frame.number = 0
      <4>1. << frame >>[1] = frame /\ << Garbage >>[1] = Garbage
        OBVIOUS
      <4> QED BY <4>1 DEF Garbage, Frame
    <3>6. frame.number # 0 /\ << Garbage >> # <<>>
      BY <1>1, DownTypes
    <3> QED BY <3>4, <3>5, <3>6, Zenon DEF out, frame, halves
  <2>3. CASE one.parser = <<>> /\ one.passed \in {<<>>, << Garbage >>} /\ environment.overflows
    <3>1. out = [one EXCEPT !.parser = StartFrame(halves[2], look)]
      BY <2>1, <2>3 DEF ParseHalf
    <3>2. out.parser = StartFrame(halves[2], look) /\ out.passed = one.passed
      BY <1>5, <3>1 DEF LoopState
    <3>3. StartFrame(halves[2], look) # <<>> => StartFrame(halves[2], look) = << halves[2] >>
      BY DEF StartFrame
    <3>4. << halves[2] >>[1] = halves[2] /\ halves[2].frame.number = fc.sent + 1
      BY <1>1, <2>1
    <3> QED BY <2>3, <3>2, <3>3, <3>4, Zenon DEF out, frame, halves
  <2> QED BY <1>9, <2>2, <2>3, Zenon DEF one
<1> QED
  BY <1>2, <1>4, <1>10, <1>11, Zenon DEF frame, halves

-----------------------------------------------------------------------------
(* Who is connected to whom stays as it is. *)

\* The types of connections and of what is on its way up.
LEMMA WayTypes ==
    ASSUME TelemetryInv
    PROVE  /\ \A l \in Links : /\ link[l] \in Link
                               /\ link[l].up \in Seq(HalfFrame) /\ link[l].down \in Seq(HalfFrame)
           /\ DOMAIN link = Links /\ DOMAIN client = Slots
           /\ backlog \in Seq(Links) /\ Len(backlog) \in Nat
           /\ \A k \in 1..Len(backlog) : backlog[k] \in Links
           /\ \A i \in Slots : client[i].used => client[i].link \in Links
           /\ bridge.socket # 0 => bridge.socket \in Links
           /\ 0 \notin Links
           /\ bridge.pending \in Seq(HalfFrame) /\ bridge.tx_queue \in Seq(Queued)
           /\ Payloads(bridge.tx_queue) \in Seq(AnyFrame)
           /\ \A i \in Slots : AirParser(i) \in Seq(HalfFrame)
           /\ \A l \in Links : Ways(l) \subseteq Seq(HalfFrame)
           /\ gcs \in Nat
<1> USE DEF TelemetryInv
<1>1. /\ \A l \in Links : /\ link[l] \in Link
                          /\ link[l].up \in Seq(HalfFrame) /\ link[l].down \in Seq(HalfFrame)
      /\ DOMAIN link = Links
  BY DEF LinkInv, Link
<1>2. backlog \in Seq(Links) /\ Len(backlog) \in Nat /\ \A k \in 1..Len(backlog) : backlog[k] \in Links
  BY ElementOfSeq, LenProperties DEF LinkInv
<1>3. DOMAIN client = Slots /\ \A i \in Slots : client[i].used => client[i].link \in Links
  BY DEF ClientInv
<1>4. /\ bridge.socket # 0 => bridge.socket \in Links
      /\ bridge.pending \in Seq(HalfFrame) /\ bridge.tx_queue \in Seq(Queued)
  BY DEF BridgeInv, BridgeState
<1>5. Payloads(bridge.tx_queue) \in Seq(AnyFrame)
  <2>1. Len(bridge.tx_queue) \in Nat /\ \A k \in 1..Len(bridge.tx_queue) : bridge.tx_queue[k] \in Queued
    BY <1>4, ElementOfSeq, LenProperties
  <2>2. \A k \in 1..Len(bridge.tx_queue) : bridge.tx_queue[k].frame \in AnyFrame
    BY <2>1 DEF Queued
  <2> QED BY <2>1, <2>2 DEF Payloads
<1>6. ASSUME NEW i \in Slots PROVE AirParser(i) \in Seq(HalfFrame)
  <2>1. CASE Tcp(i) \in Registered("air")
    <3>1. s_endpoints["air"][Tcp(i)] \in Parser
      BY <2>1, EndpointFacts DEF RouterInv
    <3> QED BY <2>1, <3>1, ParserSeq DEF AirParser
  <2>2. CASE Tcp(i) \notin Registered("air")
    BY <2>2, EmptySeq DEF AirParser
  <2> QED BY <2>1, <2>2
<1>7. ASSUME NEW l \in Links, NEW s \in Ways(l) PROVE s \in Seq(HalfFrame)
  <2>1. s = link[l].up \/ \E i \in Slots : s = AirParser(i) \o link[l].up
    BY DEF Ways
  <2> QED BY <1>1, <1>6, <2>1, ConcatProperties, Zenon
<1>8. gcs \in Nat /\ 0 \notin Links
  BY TelemetryAssumption DEF OutsideInv
<1> QED
  BY <1>1, <1>2, <1>3, <1>4, <1>5, <1>6, <1>7, <1>8

\* A step that neither makes nor ends a connection at the air unit.
LEMMA ConnectionsKept ==
    ASSUME TelemetryInv, Connections, backlog' = backlog,
           \A i \in UdpSlots : udp'[i].used => udp[i].used,
           s_endpoints'["ground"][Usb] = <<>>,
           \A i \in Slots : client'[i].used => client[i].used /\ client'[i].link = client[i].link,
           \A l \in Links : link'[l].air = link[l].air /\ link'[l].station = link[l].station,
           bridge'.socket # 0 => bridge'.socket = bridge.socket /\ link'[bridge.socket].peer
    PROVE  Connections'
<1>1. \A i \in Slots : client[i].used => client[i].link \in Links
  BY WayTypes
<1>2. \A k \in 1..Len(backlog) : backlog[k] \in Links
  BY WayTypes
<1>3. bridge.socket # 0 => bridge.socket \in Links
  BY WayTypes
<1>4. \A i \in UdpSlots : ~udp'[i].used
  BY DEF Connections
<1>5. \A i \in Slots : client'[i].used => link'[client'[i].link].air = "open"
  BY <1>1 DEF Connections
<1>6. \A i, j \in Slots : client'[i].used /\ client'[j].used /\ i # j =>
         link'[client'[i].link].station # link'[client'[j].link].station
  BY <1>1 DEF Connections
<1>7. \A k \in 1..Len(backlog') : link'[backlog'[k]].air = "waiting"
  BY <1>2 DEF Connections, Waits
<1>8. \A j, k \in 1..Len(backlog') : j # k => backlog'[j] # backlog'[k]
  BY DEF Connections
<1>9. \A l \in Links : link'[l].air = "waiting" => \E k \in 1..Len(backlog') : backlog'[k] = l
  BY DEF Connections, Waits
<1>10. bridge'.socket # 0 => link'[bridge'.socket].station = "ground" /\ link'[bridge'.socket].peer
  BY <1>3 DEF Connections
<1> QED
  BY <1>4, <1>5, <1>6, <1>7, <1>8, <1>9, <1>10 DEF Connections, Waits

\* What an active client of a link holds of it.
LEMMA WaysOf ==
    ASSUME TelemetryInv, Connections, NEW l \in Links
    PROVE  /\ Waits(l) => Ways(l) = {link[l].up}
           /\ \A i \in Slots : client[i].used /\ client[i].link = l /\ ~Closing(i) =>
                 Ways(l) = {AirParser(i) \o link[l].up}
           /\ ~Waits(l) => \A s \in Ways(l) :
                 \E i \in Slots : /\ client[i].used /\ client[i].link = l /\ ~Closing(i)
                                  /\ s = AirParser(i) \o link[l].up
           /\ link[l].air = "closed" => Ways(l) = {}
<1>1. \A i \in Slots : client[i].used /\ client[i].link = l => link[l].air = "open"
  BY DEF Connections
<1>2. \A i, j \in Slots : client[i].used /\ client[j].used /\ client[i].link = l /\ client[j].link = l
                             => i = j
  BY DEF Connections
<1>3. Waits(l) => {i \in Slots : client[i].used /\ client[i].link = l /\ ~Closing(i)} = {}
  BY <1>1 DEF Waits
<1>4. Waits(l) => Ways(l) = {link[l].up}
  BY <1>3 DEF Ways
<1>5. ASSUME NEW i \in Slots, client[i].used, client[i].link = l, ~Closing(i)
      PROVE  Ways(l) = {AirParser(i) \o link[l].up}
  <2>1. ~Waits(l) /\ {j \in Slots : client[j].used /\ client[j].link = l /\ ~Closing(j)} = {i}
    BY <1>1, <1>2, <1>5 DEF Waits
  <2> QED BY <2>1, Zenon DEF Ways
<1>6. ASSUME ~Waits(l), NEW s \in Ways(l)
      PROVE  \E i \in Slots : /\ client[i].used /\ client[i].link = l /\ ~Closing(i)
                              /\ s = AirParser(i) \o link[l].up
  BY <1>6 DEF Ways
<1>7. ASSUME link[l].air = "closed" PROVE Ways(l) = {}
  BY <1>1, <1>7 DEF Ways, Waits
<1> QED
  BY <1>4, <1>5, <1>6, <1>7, Zenon

\* A step that only takes ways away keeps the order of the others.
LEMMA UpKept ==
    ASSUME TelemetryInv, UpInv, gcs' = gcs, delivered'["air"] = delivered["air"], backlog' = backlog,
           \A l \in Links : /\ link'[l].air = "waiting" <=> link[l].air = "waiting"
                            /\ link'[l].station = link[l].station,
           \A l \in Links : Ways(l)' \subseteq Ways(l),
           bridge'.socket # 0 => /\ bridge'.socket = bridge.socket
                                 /\ bridge'.pending = bridge.pending
                                 /\ bridge'.tx_queue = bridge.tx_queue
    PROVE  UpInv'
<1>1. InOrder(delivered'["air"]) /\ FrameNumbers(delivered'["air"]) \subseteq 1..gcs'
  BY DEF UpInv
<1>2. \A l \in Links : \A s \in Ways(l)' :
         /\ Line(delivered'["air"], s, <<>>) /\ Numbers(s) \subseteq 1..gcs'
         /\ link'[l].station # "ground" => s = <<>>
  BY DEF UpInv
<1>3. \A l \in Links, m \in Links : Sooner(l, m)' <=> Sooner(l, m)
  BY DEF Sooner, Waits
<1>4. \A l, m \in Links : \A s \in Ways(l)', t \in Ways(m)' :
         l # m /\ Sooner(l, m)' => Precede(Numbers(s), Numbers(t))
  BY <1>3 DEF UpInv
<1>5. ASSUME NEW m \in Links, m = bridge'.socket, NEW t \in Ways(m)'
      PROVE  /\ Line(delivered'["air"], t \o bridge'.pending, Payloads(bridge'.tx_queue))
             /\ Ended(t \o bridge'.pending) /\ Held' \subseteq 1..gcs'
             /\ \A l \in Links \ {m} : \A s \in Ways(l)' :
                    link'[l].station = "ground" => Sooner(l, m)' /\ Precede(Numbers(s), Held')
  <2>1. m = bridge.socket /\ Held' = Held
    BY <1>5, WayTypes DEF Held
  <2>2. /\ Line(delivered["air"], t \o bridge.pending, Payloads(bridge.tx_queue))
        /\ Ended(t \o bridge.pending) /\ Held \subseteq 1..gcs
        /\ \A l \in Links \ {m} : \A s \in Ways(l) :
               link[l].station = "ground" => Sooner(l, m) /\ Precede(Numbers(s), Held)
    BY <1>5, <2>1 DEF UpInv
  <2>3. \A l \in Links \ {m} : \A s \in Ways(l)' :
           link'[l].station = "ground" => Sooner(l, m)' /\ Precede(Numbers(s), Held')
    BY <1>3, <2>1, <2>2
  <2>4. bridge'.pending = bridge.pending /\ bridge'.tx_queue = bridge.tx_queue
    BY <1>5, WayTypes
  <2> QED BY <2>1, <2>2, <2>3, <2>4
<1> QED
  BY <1>1, <1>2, <1>4, <1>5 DEF UpInv

-----------------------------------------------------------------------------
(* Every step keeps the order of what is on its way down. *)

\* One frame is in order.
LEMMA ShortOrder ==
    \A f \in AnyFrame : /\ << f >> \in Seq(AnyFrame) /\ InOrder(<< f >>)
                        /\ FrameNumbers(<< f >>) = {f.number}
<1> SUFFICES ASSUME NEW f \in AnyFrame
             PROVE  /\ << f >> \in Seq(AnyFrame) /\ InOrder(<< f >>)
                    /\ FrameNumbers(<< f >>) = {f.number}
  BY Zenon
<1>1. << f >> \in Seq(AnyFrame) /\ Len(<< f >>) = 1 /\ << f >>[1] = f /\ 1..1 = {1}
  OBVIOUS
<1> QED
  BY <1>1 DEF InOrder, FrameNumbers

\* A frame of the flight controller is queued behind all that is on its way.
LEMMA UartRxDown ==
    ASSUME TelemetryInv, DownInv, NEW kind \in environment.kinds, NEW look \in Looks,
           NEW received \in {Whole, << 1 >>, << 2 >>}, received = Whole \/ environment.overflows,
           UartRx(kind, received, look)
    PROVE  DownInv'
<1> DEFINE frame == Frame(fc.sent + 1, kind[1], kind[2])
           halves == [k \in DOMAIN received |-> Halves(frame)[received[k]]]
           out == Outcome("air", Uart, halves, look)
           frames == out.passed
<1>1. /\ fc'.sent = fc.sent + 1 /\ Ingest("air", Uart, halves, look)
      /\ client' = TcpSend(frames)
      /\ UNCHANGED <<link, bridge, environment, delivered>>
  BY DEF UartRx, Passed, ground
<1>2. /\ frames \in {<<>>, << Garbage >>, << frame >>}
      /\ frames = << Garbage >> => environment.overflows
      /\ out.parser # <<>> =>
            environment.overflows /\ out.parser[1].frame.number \in Downs \cup {fc.sent + 1}
  BY UartPasses, Zenon DEF DownInv
<1>3. frame \in AnyFrame /\ frame.number = fc.sent + 1 /\ Garbage \in AnyFrame /\ Garbage.number = 0
  BY UartFrame, FrameFacts, Zenon DEF Frame, Garbage
<1>4. s_endpoints'["air"][Uart] = out.parser /\ s_endpoints'["ground"] = s_endpoints["ground"]
  <2>1. s_endpoints' = [s_endpoints EXCEPT !["air"][Uart] = out.parser]
    BY <1>1 DEF Ingest
  <2> HIDE DEF out
  <2> QED
    BY <2>1, EndpointFacts DEF TelemetryInv, RouterInv, ClientInv, Registered
<1> HIDE DEF frame, halves, out, frames
<1>5. Downs' = Downs \cup {fc.sent + 1}
  BY <1>1, DownTypes DEF Downs
<1>6. /\ frames \in Seq(AnyFrame) /\ InOrder(frames)
      /\ FrameNumbers(frames) \subseteq Downs' /\ Precede(Downs, FrameNumbers(frames))
  <2>1. CASE frames = <<>>
    <3>1. <<>> \in Seq(AnyFrame) /\ InOrder(<<>>) /\ FrameNumbers(<<>>) = {}
      BY EmptySeq, StreamFacts
    <3>2. Precede(Downs, {})
      BY PrecedeFacts
    <3> QED BY <2>1, <3>1, <3>2
  <2>2. CASE frames = << Garbage >>
    <3>1. 0 \in Downs' /\ Precede(Downs, {0})
      BY <1>1, <1>2, <2>2, DownTypes DEF Downs, Precede, After
    <3> QED BY <1>3, <2>2, <3>1, ShortOrder
  <2>3. CASE frames = << frame >>
    <3>1. Precede(Downs, {fc.sent + 1})
      BY DownTypes DEF Downs, Precede, After
    <3> QED BY <1>3, <1>5, <2>3, <3>1, ShortOrder
  <2> QED BY <1>2, <2>1, <2>2, <2>3
<1>7. ASSUME NEW i \in Slots
      PROVE  /\ client'[i].used = client[i].used /\ client'[i].link = client[i].link
             /\ client'[i].pending = client[i].pending
             /\ client'[i].tx_queue \in {client[i].tx_queue,
                                         Upto(QueueDepth, client[i].tx_queue \o frames)}
  BY <1>1 DEF TcpSend, TelemetryInv, ClientInv, TcpClient
<1>8. UartParser'
  BY <1>1, <1>2, <1>4, <1>5 DEF UartParser
<1>9. InOrder(delivered'["ground"]) /\ FrameNumbers(delivered'["ground"]) \subseteq Downs'
  BY <1>1, <1>5 DEF DownInv
<1>10. ASSUME NEW i \in Slots, client'[i].used
       PROVE  /\ InOrder(client'[i].tx_queue)
              /\ Numbers(client'[i].pending) \cup FrameNumbers(client'[i].tx_queue) \subseteq Downs'
  <2>1. /\ InOrder(client[i].tx_queue)
        /\ Numbers(client[i].pending) \cup FrameNumbers(client[i].tx_queue) \subseteq Downs
    BY <1>7, <1>10 DEF DownInv
  <2>2. client[i].tx_queue \in Seq(AnyFrame) /\ QueueDepth \in Nat
    BY DownTypes, TelemetryAssumption
  <2>3. FrameNumbers(Upto(QueueDepth, client[i].tx_queue \o frames))
            \subseteq FrameNumbers(client[i].tx_queue) \cup FrameNumbers(frames)
        /\ InOrder(Upto(QueueDepth, client[i].tx_queue \o frames))
    <3>1. client[i].tx_queue \o frames \in Seq(AnyFrame)
      BY <1>6, <2>2, ConcatProperties
    <3>2. FrameNumbers(client[i].tx_queue \o frames)
              = FrameNumbers(client[i].tx_queue) \cup FrameNumbers(frames)
      BY <1>6, <2>2, JoinedFrames
    <3>3. Precede(FrameNumbers(client[i].tx_queue), FrameNumbers(frames))
      BY <1>6, <2>1, PrecedeFacts
    <3>4. InOrder(client[i].tx_queue \o frames)
      BY <1>6, <2>1, <2>2, <3>3, JoinedFrames
    <3> QED BY <2>2, <3>1, <3>2, <3>4, UptoOrder, Zenon
  <2> QED BY <1>5, <1>6, <1>7, <2>1, <2>3
<1>11. ASSUME Bridge \in Registered("ground")'
       PROVE  /\ Line(delivered'["ground"], DownWay', <<>>) /\ Numbers(DownWay') \subseteq Downs'
              /\ link'[bridge'.socket].air = "waiting" => DownWay' = <<>>
              /\ \A i \in Slots : client'[i].used /\ client'[i].link = bridge'.socket =>
                    /\ Line(delivered'["ground"], DownWay' \o client'[i].pending, client'[i].tx_queue)
                    /\ Ended(DownWay' \o client'[i].pending)
  <2>1. Bridge \in Registered("ground") /\ DownWay' = DownWay
    BY <1>1, <1>4, <1>11 DEF Registered, DownWay
  <2>2. /\ Line(delivered["ground"], DownWay, <<>>) /\ Numbers(DownWay) \subseteq Downs
        /\ link[bridge.socket].air = "waiting" => DownWay = <<>>
        /\ \A i \in Slots : client[i].used /\ client[i].link = bridge.socket =>
               /\ Line(delivered["ground"], DownWay \o client[i].pending, client[i].tx_queue)
               /\ Ended(DownWay \o client[i].pending)
    BY <2>1 DEF DownInv, Waits
  <2>3. ASSUME NEW i \in Slots, client[i].used, client[i].link = bridge.socket
        PROVE  Line(delivered["ground"], DownWay \o client[i].pending,
                    Upto(QueueDepth, client[i].tx_queue \o frames))
    <3> DEFINE way == DownWay \o client[i].pending
    <3>1. /\ delivered["ground"] \in Seq(AnyFrame) /\ DownWay \in Seq(HalfFrame)
          /\ client[i].pending \in Seq(HalfFrame) /\ client[i].tx_queue \in Seq(AnyFrame)
          /\ QueueDepth \in Nat
      BY <2>1, DownTypes, TelemetryAssumption, Zenon
    <3>2. way \in Seq(HalfFrame) /\ Numbers(way) = Numbers(DownWay) \cup Numbers(client[i].pending)
      BY <3>1, ConcatProperties, JoinedNumbers
    <3>3. Numbers(client[i].pending) \cup FrameNumbers(client[i].tx_queue) \subseteq Downs
          /\ FrameNumbers(delivered["ground"]) \subseteq Downs
      BY <2>3 DEF DownInv
    <3>4. FrameNumbers(delivered["ground"]) \cup Numbers(way) \cup FrameNumbers(client[i].tx_queue)
              \subseteq Downs
      BY <2>2, <3>2, <3>3
    <3> HIDE DEF way
    <3>5. Precede(FrameNumbers(delivered["ground"]) \cup Numbers(way)
                      \cup FrameNumbers(client[i].tx_queue), FrameNumbers(frames))
      BY <1>6, <3>4, PrecedeFacts
    <3>6. Line(delivered["ground"], way, client[i].tx_queue)
      BY <2>2, <2>3 DEF way
    <3> QED BY <1>6, <3>1, <3>2, <3>5, <3>6, LineGets, Zenon DEF way
  <2>4. Numbers(DownWay') \subseteq Downs'
    BY <1>5, <2>1, <2>2
  <2> QED BY <1>1, <1>7, <2>1, <2>2, <2>3, <2>4
<1> QED
  BY <1>8, <1>9, <1>10, <1>11 DEF DownInv, Waits

\* A client that is new has nothing to send.
LEMMA AcceptTcpDown ==
    ASSUME TelemetryInv, Connections, DownInv, AcceptTcp
    PROVE  DownInv'
<1> DEFINE free == {i \in Slots : ~client[i].used}
           slot == CHOOSE i \in free : \A j \in free : i <= j
           l == Head(backlog)
           new == [NoClient EXCEPT !.used = TRUE, !.link = l, !.has_queue = TRUE]
<1>1. /\ task = Loop /\ backlog # <<>>
      /\ UNCHANGED <<router, ground, environment, fc, delivered>>
      /\ \/ link' = [link EXCEPT ![l].air = "closed"] /\ UNCHANGED client
         \/ client' = [client EXCEPT ![slot] = new] /\ link' = [link EXCEPT ![l].air = "open"]
  BY DEF AcceptTcp
<1> HIDE DEF l
<1>2. l \in Links /\ Waits(l)
  <2>1. l = backlog[1] /\ 1 \in 1..Len(backlog)
    BY <1>1, WayTypes, EmptyLen DEF l
  <2> QED BY <2>1, WayTypes DEF Connections
<1>3. \A m \in Links : /\ link'[m].down = link[m].down
                       /\ link'[m].air = "waiting" => Waits(m)
  <2>1. PICK x \in {"closed", "open"} : link' = [link EXCEPT ![l].air = x]
    BY <1>1
  <2>2. link[l] \in Link /\ DOMAIN link = Links
    BY <1>2, WayTypes
  <2>3. link' = [link EXCEPT ![l] = [link[l] EXCEPT !.air = x]]
    BY <2>1
  <2> QED BY <1>2, <2>2, <2>3 DEF Link, Waits
<1>4. /\ new.used /\ new.link = l /\ new.pending = <<>> /\ new.tx_queue = <<>>
  BY DEF NoClient
<1> HIDE DEF slot, new, l, free
<1>5. s_endpoints' = s_endpoints /\ bridge' = bridge /\ fc' = fc /\ environment' = environment
      /\ delivered' = delivered
  BY <1>1 DEF router, ground
<1>6. Downs' = Downs /\ UartParser' /\ \A m \in Links : link'[m].down = link[m].down
  <2>1. Downs' = Downs
    BY <1>5 DEF Downs
  <2> QED BY <1>5, <1>3, <2>1 DEF UartParser, DownInv
<1>7. \A i \in Slots : client'[i] = client[i] \/ client'[i] = new
  BY <1>1, WayTypes
<1>8. \A i \in Slots : client'[i].used =>
         /\ InOrder(client'[i].tx_queue)
         /\ Numbers(client'[i].pending) \cup FrameNumbers(client'[i].tx_queue) \subseteq Downs'
  BY <1>4, <1>6, <1>7, StreamFacts DEF DownInv
<1>9. ASSUME Bridge \in Registered("ground")'
      PROVE  /\ Line(delivered'["ground"], DownWay', <<>>) /\ Numbers(DownWay') \subseteq Downs'
             /\ link'[bridge'.socket].air = "waiting" => DownWay' = <<>>
             /\ \A i \in Slots : client'[i].used /\ client'[i].link = bridge'.socket =>
                    /\ Line(delivered'["ground"], DownWay' \o client'[i].pending, client'[i].tx_queue)
                    /\ Ended(DownWay' \o client'[i].pending)
  <2>1. Bridge \in Registered("ground") /\ bridge.socket \in Links
    BY <1>5, <1>9, DownTypes DEF Registered
  <2>2. DownWay' = DownWay
    BY <1>5, <1>6, <2>1, Zenon DEF DownWay
  <2>3. /\ Line(delivered["ground"], DownWay, <<>>) /\ Numbers(DownWay) \subseteq Downs
        /\ link[bridge.socket].air = "waiting" => DownWay = <<>>
        /\ \A i \in Slots : client[i].used /\ client[i].link = bridge.socket =>
               /\ Line(delivered["ground"], DownWay \o client[i].pending, client[i].tx_queue)
               /\ Ended(DownWay \o client[i].pending)
    BY <2>1 DEF DownInv, Waits
  <2>4. ASSUME l = bridge.socket
        PROVE  Line(delivered["ground"], DownWay \o <<>>, <<>>) /\ Ended(DownWay \o <<>>)
    <3>1. DownWay = <<>> /\ <<>> \o <<>> = <<>>
      BY <1>2, <2>3, <2>4 DEF Waits
    <3> QED BY <2>3, <3>1, StreamFacts
  <2>5. link'[bridge'.socket].air = "waiting" => DownWay' = <<>>
    BY <1>5, <1>3, <2>1, <2>2, <2>3 DEF Waits
  <2> QED BY <1>4, <1>5, <1>6, <1>7, <2>2, <2>3, <2>4, <2>5, Zenon
<1> QED
  BY <1>5, <1>6, <1>8, <1>9 DEF DownInv, Waits

\* A beginning and the rest.
LEMMA CutFact ==
    ASSUME NEW S, NEW s \in Seq(S), NEW n \in 0..Len(s)
    PROVE  SubSeq(s, 1, n) \o SubSeq(s, n + 1, Len(s)) = s
<1>1. Len(s) \in Nat
  BY LenProperties
<1>2. 1 \in 1..Len(s) + 1 /\ n \in 1 - 1..Len(s) /\ Len(s) \in n..Len(s)
  BY <1>1
<1>3. SubSeq(s, 1, n) \o SubSeq(s, n + 1, Len(s)) = SubSeq(s, 1, Len(s))
  BY <1>2, ConcatAdjacentSubSeq, Zenon
<1> QED
  BY <1>3, SubSeqFull, Zenon

\* Parts of a stream may be put together in any order.
LEMMA HalvesAssociative == \A r, s, t \in Seq(HalfFrame) : (r \o s) \o t = r \o (s \o t)
BY ConcatAssociative

\* What service_tcp_tx takes out of a queue is its beginning.
LEMMA TakenFact ==
    ASSUME NEW q \in Seq(AnyFrame), NEW taken, taken \in {<<>>, Upto(Batch, q)}
    PROVE  /\ taken \in Seq(AnyFrame) /\ SubSeq(q, Len(taken) + 1, Len(q)) \in Seq(AnyFrame)
           /\ q = taken \o SubSeq(q, Len(taken) + 1, Len(q))
<1>1. Len(q) \in Nat /\ <<>> \in Seq(AnyFrame) /\ Len(<<>>) = 0
  BY LenProperties, EmptySeq
<1>2. \E n \in 0..Len(q) : taken = SubSeq(q, 1, n) /\ Len(taken) = n
  <2>1. CASE taken = <<>>
    <3>1. SubSeq(q, 1, 0) = <<>>
      BY SubSeqEmpty
    <3> QED BY <1>1, <2>1, <3>1
  <2>2. CASE taken = Upto(Batch, q)
    <3> DEFINE n == Min({Batch, Len(q)})
    <3>1. n \in 0..Len(q) /\ Batch \in Nat
      BY <1>1, TelemetryAssumption DEF Min
    <3>2. taken = SubSeq(q, 1, n)
      BY <2>2 DEF Upto
    <3> HIDE DEF n
    <3>3. Len(SubSeq(q, 1, n)) = n
      <4>1. n \in Int /\ \A i \in 1..n : q[i] \in AnyFrame
        BY <1>1, <3>1, ElementOfSeq
      <4>2. Len(SubSeq(q, 1, n)) = IF 1 <= n THEN n - 1 + 1 ELSE 0
        BY <4>1, SubSeqProperties
      <4> QED BY <1>1, <3>1, <4>2
    <3> QED BY <3>1, <3>2, <3>3
  <2> QED BY <2>1, <2>2
<1>3. PICK n \in 0..Len(q) : taken = SubSeq(q, 1, n) /\ Len(taken) = n
  BY <1>2
<1> QED
  BY <1>3, CutFact, SliceFact, Zenon

\* What a client sends follows what the link holds.
LEMMA ServiceTcpTxDown ==
    ASSUME TelemetryInv, Connections, DownInv, NEW i \in Slots, ServiceTcpTx(i)
    PROVE  DownInv'
<1> DEFINE c == client[i]
           taken == IF c.pending = <<>> THEN Upto(Batch, c.tx_queue) ELSE <<>>
           fresh == FlattenSeq([k \in DOMAIN taken |-> Halves(taken[k])])
           batch == c.pending \o fresh
           queue == SubSeq(c.tx_queue, Len(taken) + 1, Len(c.tx_queue))
<1>1. /\ c.used /\ UNCHANGED <<router, ground, outside, delivered>>
      /\ \E n \in Moves(batch, Window - Len(link[c.link].down)) :
            /\ link' = [link EXCEPT ![c.link].down = @ \o SubSeq(batch, 1, n)]
            /\ client' = [client EXCEPT ![i].tx_queue = queue,
                                        ![i].pending = SubSeq(batch, n + 1, Len(batch))]
  BY Zenon DEF ServiceTcpTx
<1>2. c.link \in Links /\ c.pending \in Seq(HalfFrame) /\ c.tx_queue \in Seq(AnyFrame)
  BY <1>1, WayTypes, DownTypes, Zenon
<1>3. taken \in Seq(AnyFrame) /\ queue \in Seq(AnyFrame) /\ c.tx_queue = taken \o queue
  BY <1>2, TakenFact, Zenon
<1> HIDE DEF taken, queue, c
<1>4. /\ InOrder(c.tx_queue)
      /\ Numbers(c.pending) \cup FrameNumbers(c.tx_queue) \subseteq Downs
  BY <1>1 DEF DownInv, c
<1>5. /\ fresh \in Seq(HalfFrame) /\ Stream(fresh) /\ Ended(fresh)
      /\ Numbers(fresh) \subseteq FrameNumbers(taken)
  <2>1. InOrder(taken)
    BY <1>3, <1>4, JoinedFrames
  <2> QED BY <1>3, <2>1, BatchStream
<1> HIDE DEF fresh
<1>6. batch \in Seq(HalfFrame) /\ Numbers(batch) = Numbers(c.pending) \cup Numbers(fresh)
  BY <1>2, <1>5, ConcatProperties, JoinedNumbers
<1>7. PICK n \in Moves(batch, Window - Len(link[c.link].down)) :
         /\ link' = [link EXCEPT ![c.link].down = @ \o SubSeq(batch, 1, n)]
         /\ client' = [client EXCEPT ![i].tx_queue = queue,
                                     ![i].pending = SubSeq(batch, n + 1, Len(batch))]
  BY <1>1, Zenon
<1> DEFINE sent == SubSeq(batch, 1, n)
           rest == SubSeq(batch, n + 1, Len(batch))
<1>8. sent \in Seq(HalfFrame) /\ rest \in Seq(HalfFrame) /\ sent \o rest = batch
  BY <1>6, MovesFact, CutFact, Zenon
<1>9. /\ \A m \in Links : link'[m].air = link[m].air
                          /\ link'[m].down = IF m = c.link THEN link[m].down \o sent ELSE link[m].down
      /\ \A j \in Slots : j # i => client'[j] = client[j]
      /\ client'[i].used /\ client'[i].link = c.link
      /\ client'[i].tx_queue = queue /\ client'[i].pending = rest
  <2>1. link[c.link] \in Link /\ DOMAIN link = Links /\ DOMAIN client = Slots /\ c \in TcpClient
    BY <1>2, WayTypes DEF TelemetryInv, ClientInv, c
  <2>2. link' = [link EXCEPT ![c.link] = [link[c.link] EXCEPT !.down = link[c.link].down \o sent]]
    BY <1>7
  <2>3. client' = [client EXCEPT ![i] = [c EXCEPT !.tx_queue = queue, !.pending = rest]]
    BY <1>7, Zenon DEF c
  <2> HIDE DEF sent, rest
  <2>4. \A m \in Links : link'[m].air = link[m].air
                         /\ link'[m].down = IF m = c.link THEN link[m].down \o sent ELSE link[m].down
    BY <1>2, <2>1, <2>2 DEF Link
  <2>5. /\ \A j \in Slots : j # i => client'[j] = client[j]
        /\ client'[i] = [c EXCEPT !.tx_queue = queue, !.pending = rest]
    BY <2>1, <2>3
  <2>6. c.used
    BY <1>1
  <2>7. /\ client'[i].used /\ client'[i].link = c.link
        /\ client'[i].tx_queue = queue /\ client'[i].pending = rest
    BY <2>1, <2>5, <2>6 DEF TcpClient
  <2> QED BY <2>4, <2>5, <2>7
<1> HIDE DEF sent, rest, batch
<1>10. /\ Numbers(sent) \cup Numbers(rest) \cup FrameNumbers(queue) \subseteq Downs
       /\ InOrder(queue)
  <2>1. Numbers(batch) = Numbers(sent) \cup Numbers(rest)
    BY <1>8, JoinedNumbers, Zenon
  <2>2. FrameNumbers(c.tx_queue) = FrameNumbers(taken) \cup FrameNumbers(queue) /\ InOrder(queue)
    BY <1>3, <1>4, JoinedFrames
  <2> QED BY <1>4, <1>5, <1>6, <2>1, <2>2
<1>11. Downs' = Downs /\ bridge' = bridge /\ delivered' = delivered /\ s_endpoints' = s_endpoints
       /\ environment' = environment
  BY <1>1 DEF Downs, outside, router, ground
<1>12. UartParser'
  BY <1>11 DEF UartParser, DownInv
<1>13. \A j \in Slots : client'[j].used =>
          /\ InOrder(client'[j].tx_queue)
          /\ Numbers(client'[j].pending) \cup FrameNumbers(client'[j].tx_queue) \subseteq Downs'
  BY <1>9, <1>10, <1>11 DEF DownInv
<1>14. ASSUME Bridge \in Registered("ground")'
       PROVE  /\ Line(delivered'["ground"], DownWay', <<>>) /\ Numbers(DownWay') \subseteq Downs'
              /\ link'[bridge'.socket].air = "waiting" => DownWay' = <<>>
              /\ \A j \in Slots : client'[j].used /\ client'[j].link = bridge'.socket =>
                    /\ Line(delivered'["ground"], DownWay' \o client'[j].pending, client'[j].tx_queue)
                    /\ Ended(DownWay' \o client'[j].pending)
  <2>1. /\ Bridge \in Registered("ground") /\ bridge.socket \in Links
        /\ delivered["ground"] \in Seq(AnyFrame)
        /\ s_endpoints["ground"][Bridge] \in Seq(HalfFrame)
        /\ link[bridge.socket].down \in Seq(HalfFrame) /\ DownWay \in Seq(HalfFrame)
    BY <1>11, <1>14, DownTypes DEF Registered
  <2>2. /\ Line(delivered["ground"], DownWay, <<>>) /\ Numbers(DownWay) \subseteq Downs
        /\ link[bridge.socket].air = "waiting" => DownWay = <<>>
        /\ \A j \in Slots : client[j].used /\ client[j].link = bridge.socket =>
               /\ Line(delivered["ground"], DownWay \o client[j].pending, client[j].tx_queue)
               /\ Ended(DownWay \o client[j].pending)
    BY <2>1 DEF DownInv, Waits
  <2>3. CASE c.link # bridge.socket
    <3>1. DownWay' = DownWay
      BY <1>9, <1>11, <2>1, <2>3, Zenon DEF DownWay
    <3>2. \A j \in Slots : client'[j].used /\ client'[j].link = bridge.socket =>
             client'[j] = client[j]
      BY <1>9, <2>3
    <3> QED BY <1>9, <1>11, <2>1, <2>2, <3>1, <3>2
  <2>4. CASE c.link = bridge.socket
    <3>1. DownWay' = DownWay \o sent
      <4>1. DownWay' = s_endpoints["ground"][Bridge] \o (link[bridge.socket].down \o sent)
        BY <1>9, <1>11, <2>1, <2>4, Zenon DEF DownWay
      <4>2. (s_endpoints["ground"][Bridge] \o link[bridge.socket].down) \o sent
                = s_endpoints["ground"][Bridge] \o (link[bridge.socket].down \o sent)
        BY <1>8, <2>1, HalvesAssociative, Zenon
      <4> QED BY <4>1, <4>2 DEF DownWay
    <3>2. DownWay' \o rest = (DownWay \o c.pending) \o fresh
      <4>1. (DownWay \o sent) \o rest = DownWay \o (sent \o rest)
        BY <1>8, <2>1, HalvesAssociative, Zenon
      <4>2. (DownWay \o c.pending) \o fresh = DownWay \o (c.pending \o fresh)
        BY <1>2, <1>5, <2>1, HalvesAssociative, Zenon
      <4> QED BY <1>8, <3>1, <4>1, <4>2 DEF batch
    <3>3. Line(delivered["ground"], DownWay \o c.pending, taken \o queue) /\ Ended(DownWay \o c.pending)
      BY <1>1, <1>3, <2>2, <2>4, Zenon DEF c
    <3>4. Line(delivered["ground"], DownWay' \o rest, queue) /\ Ended(DownWay' \o rest)
      <4>1. DownWay \o c.pending \in Seq(HalfFrame)
        BY <1>2, <2>1, ConcatProperties
      <4> QED BY <1>3, <1>5, <2>1, <3>2, <3>3, <4>1, LineTakes, Zenon
    <3>5. DownWay' \in Seq(HalfFrame) /\ Numbers(DownWay') = Numbers(DownWay) \cup Numbers(sent)
      BY <1>8, <2>1, <3>1, ConcatProperties, JoinedNumbers
    <3>6. Line(delivered["ground"], DownWay', <<>>) /\ Numbers(DownWay') \subseteq Downs
      BY <1>8, <1>10, <2>1, <2>2, <3>4, <3>5, LineCut
    <3>7. link'[bridge.socket].air # "waiting"
      BY <1>1, <1>9, <2>1, <2>4 DEF Connections, c
    <3>8. \A j \in Slots : client'[j].used /\ client'[j].link = bridge.socket => j = i
      BY <1>1, <1>9, <2>4 DEF Connections, c
    <3> QED BY <1>9, <1>11, <3>4, <3>6, <3>7, <3>8
  <2> QED BY <2>3, <2>4
<1> QED
  BY <1>11, <1>12, <1>13, <1>14 DEF DownInv, Waits

\* A connection that is new holds nothing.
LEMMA BridgeConnectDown ==
    ASSUME TelemetryInv, Connections, DownInv, BridgeConnect
    PROVE  DownInv'
<1>1. PICK l \in Links :
         /\ Connect("ground", l) /\ bridge'.socket = l
  BY DEF BridgeConnect, TelemetryInv, BridgeInv, BridgeState
<1>2. /\ Register("ground", Bridge) /\ UNCHANGED <<client, environment, fc, delivered>>
  BY DEF BridgeConnect, BridgeUnchanged, outside, air
<1>3. /\ s_endpoints'["air"] = s_endpoints["air"] /\ s_endpoints'["ground"][Bridge] = <<>>
  BY <1>2, EndpointFacts DEF Register, TelemetryInv, RouterInv
<1>4. link'[l].down = <<>>
  BY <1>1, WayTypes DEF Connect, NoLink
<1>5. \A i \in Slots : client[i].used => client[i].link # l
  BY <1>1 DEF Connect, Connections
<1>6. Downs' = Downs /\ UartParser'
  BY <1>2, <1>3 DEF Downs, UartParser, DownInv
<1>7. DownWay' = <<>>
  <2>1. <<>> \o <<>> = <<>>
    OBVIOUS
  <2> QED BY <1>1, <1>3, <1>4, <2>1 DEF DownWay
<1>8. Line(delivered["ground"], <<>>, <<>>) /\ Numbers(<<>>) = {}
  <2>1. /\ InOrder(delivered["ground"]) /\ Stream(<<>>) /\ InOrder(<<>>)
        /\ Numbers(<<>>) = {} /\ FrameNumbers(<<>>) = {}
    BY StreamFacts DEF DownInv
  <2>2. \A A : Precede(A, {}) /\ Precede({}, A)
    BY PrecedeFacts
  <2> QED BY <2>1, <2>2, Zenon DEF Line
<1> QED
  BY <1>1, <1>2, <1>5, <1>6, <1>7, <1>8 DEF DownInv, Waits

\* What the bridge routes follows what was routed.
LEMMA BridgeReceiveDown ==
    ASSUME TelemetryInv, DownInv, BridgeReceive
    PROVE  DownInv'
<1> DEFINE l == bridge.socket
           held == link[l].down
           parser == s_endpoints["ground"][Bridge]
<1>1. /\ bridge.connected /\ bridge.at = "loop"
      /\ UNCHANGED <<bridge, client, environment, fc>>
      /\ \E n \in Moves(held, Window) :
            /\ Ingest("ground", Bridge, SubSeq(held, 1, n), NoLook)
            /\ Deliver("ground", Passed("ground", Bridge, SubSeq(held, 1, n), NoLook))
            /\ link' = [link EXCEPT ![l].down = SubSeq(@, n + 1, Len(@))]
  BY Zenon DEF BridgeReceive, BridgeUnchanged, NoLook, air, outside
<1>2. /\ Bridge \in Registered("ground") /\ l \in Links /\ parser \in Seq(HalfFrame)
      /\ held \in Seq(HalfFrame) /\ DownWay \in Seq(HalfFrame)
      /\ delivered["ground"] \in Seq(AnyFrame)
  BY <1>1, DownTypes DEF TelemetryInv, BridgeInv
<1>3. /\ Line(delivered["ground"], DownWay, <<>>) /\ Numbers(DownWay) \subseteq Downs
      /\ link[l].air = "waiting" => DownWay = <<>>
      /\ \A j \in Slots : client[j].used /\ client[j].link = l =>
             /\ Line(delivered["ground"], DownWay \o client[j].pending, client[j].tx_queue)
             /\ Ended(DownWay \o client[j].pending)
  BY <1>2 DEF DownInv, Waits
<1>4. DownWay = parser \o held
  BY DEF DownWay
<1> HIDE DEF parser, held, l
<1>5. PICK n \in Moves(held, Window) :
         /\ Ingest("ground", Bridge, SubSeq(held, 1, n), NoLook)
         /\ Deliver("ground", Passed("ground", Bridge, SubSeq(held, 1, n), NoLook))
         /\ link' = [link EXCEPT ![l].down = SubSeq(@, n + 1, Len(@))]
  BY <1>1, Zenon
<1> DEFINE out == Outcome("ground", Bridge, SubSeq(held, 1, n), NoLook)
           rest == SubSeq(held, n + 1, Len(held))
           passed == out.passed
<1>6. n \in 0..Len(held) /\ SubSeq(held, 1, n) \in Seq(HalfFrame) /\ rest \in Seq(HalfFrame)
  BY <1>2, MovesFact
<1>7. out \in LoopState /\ passed \in Seq(AnyFrame) /\ out.parser \in Seq(HalfFrame)
  <2>1. out \in LoopState
    BY <1>2, <1>6, EndpointFacts, OutcomeFacts, Zenon DEF TelemetryInv, NoLook, Looks
  <2> HIDE DEF out
  <2> QED BY <2>1, ParserSeq DEF LoopState
<1>8. Reads(out, DownWay, rest)
  <2>1. Stream(DownWay) /\ RouterInv /\ "ground" \in Units
    BY <1>3, EndpointFacts DEF Line, TelemetryInv
  <2> QED BY <1>2, <1>4, <1>6, <2>1, ReadStream DEF parser
<1>9. /\ s_endpoints'["ground"][Bridge] = out.parser /\ s_endpoints'["air"] = s_endpoints["air"]
      /\ Registered("ground")' = Registered("ground")
  <2>1. s_endpoints' = [s_endpoints EXCEPT !["ground"][Bridge] = out.parser]
    BY <1>5 DEF Ingest
  <2> HIDE DEF out
  <2> QED
    BY <1>2, <2>1, EndpointFacts DEF TelemetryInv, RouterInv, Registered
<1>10. /\ delivered'["ground"] = delivered["ground"] \o passed
       /\ link'[l].down = rest /\ link'[l].air = link[l].air
  <2>1. delivered'["ground"] = delivered["ground"] \o passed
    <3>1. delivered' = [delivered EXCEPT !["ground"] = @ \o passed]
      BY <1>5 DEF Deliver, Passed
    <3> HIDE DEF passed
    <3> QED BY <3>1, EndpointFacts DEF TelemetryInv, OutsideInv
  <2>2. link' = [link EXCEPT ![l] = [link[l] EXCEPT !.down = rest]]
    BY <1>5 DEF held
  <2> HIDE DEF rest, passed
  <2> QED BY <1>2, <2>1, <2>2, WayTypes DEF Link
<1> HIDE DEF out, rest
<1>11. PICK d \in Seq(HalfFrame) :
          /\ DownWay = d \o (out.parser \o rest) /\ Ended(d)
          /\ InOrder(passed) /\ FrameNumbers(passed) \subseteq Numbers(d)
  BY <1>8, Zenon DEF Reads
<1> HIDE DEF passed
<1> DEFINE way == out.parser \o rest
<1>12. way \in Seq(HalfFrame) /\ DownWay' = way
  <2>1. way \in Seq(HalfFrame)
    BY <1>6, <1>7, ConcatProperties
  <2>2. bridge'.socket = l
    BY <1>1 DEF l
  <2> QED BY <1>9, <1>10, <2>1, <2>2, Zenon DEF DownWay
<1>13. DownWay = d \o way
  BY <1>11
<1> HIDE DEF way
<1>14. Numbers(DownWay) = Numbers(d) \cup Numbers(way)
  BY <1>12, <1>13, JoinedNumbers
<1>15. Line(delivered'["ground"], way, <<>>)
  <2>1. <<>> \in Seq(AnyFrame)
    BY EmptySeq
  <2> QED BY <1>2, <1>3, <1>7, <1>10, <1>11, <1>12, <1>13, <2>1, LineReads, Zenon
<1>16. ASSUME NEW j \in Slots, client[j].used, client[j].link = l
       PROVE  Line(delivered'["ground"], way \o client[j].pending, client[j].tx_queue)
              /\ Ended(way \o client[j].pending)
  <2>1. client[j].pending \in Seq(HalfFrame) /\ client[j].tx_queue \in Seq(AnyFrame)
    BY DownTypes
  <2>2. DownWay \o client[j].pending = d \o (way \o client[j].pending)
        /\ way \o client[j].pending \in Seq(HalfFrame)
    BY <1>12, <1>13, <2>1, HalvesAssociative, ConcatProperties, Zenon
  <2>3. Line(delivered["ground"], d \o (way \o client[j].pending), client[j].tx_queue)
        /\ Ended(d \o (way \o client[j].pending))
    BY <1>3, <1>16, <2>2, Zenon
  <2>4. Line(delivered'["ground"], way \o client[j].pending, client[j].tx_queue)
    BY <1>2, <1>7, <1>10, <1>11, <2>1, <2>2, <2>3, LineReads, Zenon
  <2>5. Ended(way \o client[j].pending)
    <3>1. Stream(d \o (way \o client[j].pending))
      BY <2>3 DEF Line
    <3> QED BY <2>2, <2>3, <3>1, StreamSplit, Zenon
  <2> QED BY <2>4, <2>5
<1>17. Downs' = Downs /\ UartParser'
  BY <1>1, <1>9 DEF Downs, UartParser, DownInv
<1>18. InOrder(delivered'["ground"]) /\ FrameNumbers(delivered'["ground"]) \subseteq Downs'
  <2>1. FrameNumbers(delivered'["ground"]) = FrameNumbers(delivered["ground"]) \cup FrameNumbers(passed)
    BY <1>2, <1>7, <1>10, JoinedFrames
  <2> QED BY <1>3, <1>11, <1>14, <1>15, <1>17, <2>1 DEF Line, DownInv
<1>19. DownWay = <<>> => way = <<>>
  <2>1. d \o way = <<>> <=> d = <<>> /\ way = <<>>
    BY <1>12, ConcatEqualIffEmpty
  <2> QED BY <1>13, <2>1
<1>20. client' = client /\ bridge'.socket = l
  BY <1>1 DEF l
<1>21. Numbers(DownWay') \subseteq Downs'
  BY <1>3, <1>12, <1>14, <1>17
<1>22. \A j \in Slots : client'[j].used =>
          /\ InOrder(client'[j].tx_queue)
          /\ Numbers(client'[j].pending) \cup FrameNumbers(client'[j].tx_queue) \subseteq Downs'
  BY <1>17, <1>20 DEF DownInv
<1>23. link'[bridge'.socket].air = "waiting" => DownWay' = <<>>
  BY <1>3, <1>10, <1>12, <1>19, <1>20
<1> QED
  BY <1>12, <1>15, <1>16, <1>17, <1>18, <1>20, <1>21, <1>22, <1>23 DEF DownInv, Waits

-----------------------------------------------------------------------------
(* Every step keeps the order of what is on its way up. *)

\* What a step leaves of the ways through a link.
LEMMA WaysKept ==
    ASSUME NEW l \in Links, link'[l].up = link[l].up,
           link'[l].air = "waiting" => link[l].air = "waiting",
           \A i \in Slots : client'[i].used /\ client'[i].link = l /\ ~Closing(i)' =>
               /\ client[i].used /\ client[i].link = l /\ ~Closing(i)
               /\ AirParser(i)' = AirParser(i)
    PROVE  Ways(l)' \subseteq Ways(l)
<1> SUFFICES ASSUME NEW s \in Ways(l)' PROVE s \in Ways(l)
  OBVIOUS
<1>1. \/ link'[l].air = "waiting" /\ s = link'[l].up
      \/ \E i \in Slots : /\ client'[i].used /\ client'[i].link = l /\ ~Closing(i)'
                          /\ s = AirParser(i)' \o link'[l].up
  BY DEF Ways, Waits
<1>2. CASE link'[l].air = "waiting" /\ s = link'[l].up
  BY <1>2 DEF Ways, Waits
<1>3. ASSUME NEW i \in Slots, client'[i].used, client'[i].link = l, ~Closing(i)',
             s = AirParser(i)' \o link'[l].up
      PROVE  s \in Ways(l)
  BY <1>3, Zenon DEF Ways
<1> QED
  BY <1>1, <1>2, <1>3

\* The frames of packets that wait.
LEMMA PayloadConcat ==
    /\ \A q \in Seq(Queued) : /\ Payloads(q) \in Seq(AnyFrame) /\ Len(Payloads(q)) = Len(q)
                              /\ Len(q) \in Nat /\ \A k \in 1..Len(q) : Payloads(q)[k] = q[k].frame
    /\ \A q, p \in Seq(Queued) : Payloads(q \o p) = Payloads(q) \o Payloads(p)
<1>1. ASSUME NEW p \in Seq(Queued)
      PROVE  Payloads(p) \in Seq(AnyFrame) /\ Len(Payloads(p)) = Len(p) /\ Len(p) \in Nat
             /\ \A k \in 1..Len(p) : Payloads(p)[k] = p[k].frame
  <2>1. Len(p) \in Nat /\ \A k \in 1..Len(p) : p[k] \in Queued
    BY LenProperties, ElementOfSeq
  <2>2. \A k \in 1..Len(p) : p[k].frame \in AnyFrame
    BY <2>1 DEF Queued
  <2> QED BY <2>1, <2>2 DEF Payloads
<1>2. ASSUME NEW q \in Seq(Queued), NEW p \in Seq(Queued)
      PROVE  Payloads(q \o p) = Payloads(q) \o Payloads(p)
  <2> DEFINE r == q \o p
             a == Payloads(q)
             b == Payloads(p)
             s == a \o b
  <2>1. /\ r \in Seq(Queued) /\ Len(r) = Len(q) + Len(p)
        /\ \A k \in 1..Len(q) + Len(p) : r[k] = IF k <= Len(q) THEN q[k] ELSE p[k - Len(q)]
    BY ConcatProperties
  <2>2. /\ a \in Seq(AnyFrame) /\ b \in Seq(AnyFrame) /\ Len(a) = Len(q) /\ Len(b) = Len(p)
        /\ Len(q) \in Nat /\ Len(p) \in Nat
        /\ \A k \in 1..Len(q) : a[k] = q[k].frame
        /\ \A k \in 1..Len(p) : b[k] = p[k].frame
    BY <1>1
  <2> HIDE DEF r, a, b
  <2>3. /\ s \in Seq(AnyFrame) /\ Len(s) = Len(q) + Len(p)
        /\ \A k \in 1..Len(q) + Len(p) : s[k] = IF k <= Len(q) THEN a[k] ELSE b[k - Len(q)]
    <3>1. a \in Seq(AnyFrame) /\ b \in Seq(AnyFrame)
      BY <2>2
    <3>2. /\ s \in Seq(AnyFrame) /\ Len(s) = Len(a) + Len(b)
          /\ \A k \in 1..Len(a) + Len(b) : s[k] = IF k <= Len(a) THEN a[k] ELSE b[k - Len(a)]
      BY <3>1, ConcatProperties
    <3> HIDE DEF s
    <3> QED BY <2>2, <3>2
  <2>4. Payloads(r) \in Seq(AnyFrame) /\ Len(Payloads(r)) = Len(r)
        /\ \A k \in 1..Len(r) : Payloads(r)[k] = r[k].frame
    BY <1>1, <2>1, Zenon
  <2> HIDE DEF s
  <2>5. ASSUME NEW k \in 1..Len(s) PROVE Payloads(r)[k] = s[k]
    <3>1. CASE k <= Len(q)
      <4>1. k \in 1..Len(q) /\ k \in 1..Len(q) + Len(p)
        BY <2>2, <2>3, <3>1
      <4> QED BY <2>1, <2>2, <2>3, <2>4, <3>1, <4>1, Zenon
    <3>2. CASE ~(k <= Len(q))
      <4>1. k - Len(q) \in 1..Len(p) /\ k \in 1..Len(q) + Len(p)
        BY <2>2, <2>3, <3>2
      <4> QED BY <2>1, <2>2, <2>3, <2>4, <3>2, <4>1, Zenon
    <3> QED BY <3>1, <3>2
  <2>6. Payloads(r) = s
    BY <2>1, <2>3, <2>4, <2>5, SeqEqual
  <2> QED BY <2>6 DEF r, s, a, b
<1> QED
  BY <1>1, <1>2

\* The first packet that waits, and what there is room for.
LEMMA PayloadFacts ==
    ASSUME NEW q \in Seq(Queued)
    PROVE  /\ q # <<>> => /\ Head(q).frame \in AnyFrame /\ Payloads(Tail(q)) \in Seq(AnyFrame)
                          /\ Payloads(q) = << Head(q).frame >> \o Payloads(Tail(q))
           /\ \A n \in Nat : Payloads(Upto(n, q)) = Upto(n, Payloads(q))
           /\ Payloads(<<>>) = <<>>
<1>1. ASSUME q # <<>>
      PROVE  /\ Head(q).frame \in AnyFrame /\ Payloads(Tail(q)) \in Seq(AnyFrame)
             /\ Payloads(q) = << Head(q).frame >> \o Payloads(Tail(q))
  <2>1. Head(q) \in Queued /\ Tail(q) \in Seq(Queued) /\ q = << Head(q) >> \o Tail(q)
    <3>1. Head(q) \in Queued /\ Tail(q) \in Seq(Queued)
      BY <1>1, HeadTailProperties
    <3>2. Len(q) \in Nat /\ Len(q) # 0
      BY <1>1, EmptyLen
    <3>3. Len(q) \in 1..Len(q) /\ 1 \in 1..Len(q) /\ 1 + 1 = 2
      BY <3>2
    <3>4. SubSeq(q, 1, Len(q)) = << q[1] >> \o SubSeq(q, 1 + 1, Len(q))
      BY <3>3, SubSeqRecursiveFirst
    <3>5. SubSeq(q, 1, Len(q)) = q /\ Tail(q) = SubSeq(q, 2, Len(q)) /\ Head(q) = q[1]
      BY <1>1, SubSeqFull, TailIsSubSeq
    <3> QED BY <3>1, <3>3, <3>4, <3>5
  <2> DEFINE first == << Head(q) >>
  <2>2. first \in Seq(Queued) /\ Len(first) = 1 /\ first[1] = Head(q)
    BY <2>1
  <2> HIDE DEF first
  <2>3. Payloads(first) = << Head(q).frame >>
    <3>1. Payloads(first) = [k \in 1..1 |-> first[k].frame]
      BY <2>2 DEF Payloads
    <3>2. [k \in 1..1 |-> first[k].frame] = << first[1].frame >>
      OBVIOUS
    <3> QED BY <2>2, <3>1, <3>2
  <2>4. Payloads(first \o Tail(q)) = Payloads(first) \o Payloads(Tail(q))
    BY <2>1, <2>2, PayloadConcat, Zenon
  <2>5. Head(q).frame \in AnyFrame
    BY <2>1 DEF Queued
  <2>6. Payloads(Tail(q)) \in Seq(AnyFrame)
    BY <2>1, PayloadConcat, Zenon
  <2> QED BY <2>1, <2>3, <2>4, <2>5, <2>6, Zenon DEF first
<1>2. ASSUME NEW n \in Nat PROVE Payloads(Upto(n, q)) = Upto(n, Payloads(q))
  <2>1. Payloads(q) \in Seq(AnyFrame) /\ Len(Payloads(q)) = Len(q) /\ Len(q) \in Nat
        /\ \A k \in 1..Len(q) : Payloads(q)[k] = q[k].frame
    BY PayloadConcat
  <2> DEFINE m == Min({n, Len(q)})
             a == SubSeq(q, 1, m)
             b == SubSeq(Payloads(q), 1, m)
  <2>2. m \in 0..Len(q)
    BY <2>1 DEF Min
  <2>3. Upto(n, q) = a /\ Upto(n, Payloads(q)) = b
    BY <2>1 DEF Upto
  <2> HIDE DEF m
  <2>4. a \in Seq(Queued) /\ Len(a) = m /\ \A k \in 1..m : a[k] = q[k]
    <3>1. m \in Int /\ 1 \in Int /\ (\A k \in 1..m : q[k] \in Queued) /\ m \in Nat
      BY <2>1, <2>2, ElementOfSeq
    <3> QED BY <3>1, SubSeqProperties
  <2>5. b \in Seq(AnyFrame) /\ Len(b) = m /\ \A k \in 1..m : b[k] = Payloads(q)[k]
    <3> DEFINE p == Payloads(q)
    <3> HIDE DEF p
    <3>1. m \in Int /\ 1 \in Int /\ (\A k \in 1..m : p[k] \in AnyFrame) /\ m \in Nat
      BY <2>1, <2>2, ElementOfSeq DEF p
    <3>2. SubSeq(p, 1, m) \in Seq(AnyFrame) /\ Len(SubSeq(p, 1, m)) = m
          /\ \A k \in 1..m : SubSeq(p, 1, m)[k] = p[k]
      BY <3>1, SubSeqProperties
    <3> QED BY <3>2 DEF p
  <2> HIDE DEF a, b
  <2>6. Payloads(a) \in Seq(AnyFrame) /\ Len(Payloads(a)) = Len(a)
        /\ \A k \in 1..Len(a) : Payloads(a)[k] = a[k].frame
    BY <2>4, PayloadConcat
  <2>7. \A k \in 1..Len(b) : Payloads(a)[k] = b[k]
    BY <2>1, <2>2, <2>4, <2>5, <2>6
  <2>8. Payloads(a) = b
    BY <2>4, <2>5, <2>6, <2>7, SeqEqual
  <2> QED BY <2>3, <2>8
<1>3. Payloads(<<>>) = <<>>
  <2>1. <<>> \in Seq(Queued) /\ Len(<<>>) = 0
    BY EmptySeq
  <2>2. Payloads(<<>>) \in Seq(AnyFrame) /\ Len(Payloads(<<>>)) = Len(<<>>)
    BY <2>1, PayloadConcat, Zenon
  <2> QED BY <2>1, <2>2, EmptyLen
<1> QED
  BY <1>1, <1>2, <1>3

\* What a router passes on goes before all that follows.
LEMMA LineJoins ==
    ASSUME NEW done \in Seq(AnyFrame), NEW passed \in Seq(AnyFrame), NEW s, NEW q,
           Line(done, s, q), InOrder(done \o passed),
           Precede(FrameNumbers(passed), Numbers(s)), Precede(FrameNumbers(passed), FrameNumbers(q))
    PROVE  Line(done \o passed, s, q)
<1>1. FrameNumbers(done \o passed) = FrameNumbers(done) \cup FrameNumbers(passed)
  BY JoinedFrames
<1>2. /\ Precede(FrameNumbers(done \o passed), Numbers(s))
      /\ Precede(FrameNumbers(done \o passed), FrameNumbers(q))
  BY <1>1, PrecedeFacts DEF Line
<1> QED
  BY <1>2 DEF Line

\* A frame that comes through the USB port is passed on or not, and whole.
LEMMA UsbPasses ==
    ASSUME TelemetryInv, s_endpoints["ground"][Usb] = <<>>
    PROVE  LET frame == Frame(gcs + 1, 255, "none")
               out == Outcome("ground", Usb, Halves(frame), NoLook)
           IN  /\ frame \in AnyFrame /\ frame.number = gcs + 1
               /\ out.passed \in {<<>>, << frame >>} /\ out.parser = <<>>
<1> DEFINE frame == Frame(gcs + 1, 255, "none")
           halves == Halves(frame)
           before == Before("ground", Usb)
           one == ParseHalf(before, Usb, halves[1], NoLook)
           out == Outcome("ground", Usb, halves, NoLook)
<1>1. frame \in AnyFrame /\ frame.number = gcs + 1 /\ halves \in Seq(HalfFrame) /\ Len(halves) = 2
  <2>1. gcs + 1 \in Nat
    BY WayTypes
  <2> QED BY <2>1, GcsFrame, FrameFacts DEF Frame
<1>2. /\ halves[1] = [frame |-> frame, part |-> "head"]
      /\ halves[2] = [frame |-> frame, part |-> "tail"]
  BY DEF Halves
<1> HIDE DEF frame, halves
<1>3. one \in LoopState /\ out = ParseHalf(one, Usb, halves[2], NoLook)
  <2>1. RouterInv /\ "ground" \in Units /\ Usb \in Registered("ground") /\ NoLook \in Looks
    BY EndpointFacts DEF TelemetryInv, BridgeInv, NoLook, Looks
  <2> QED BY <1>1, <2>1, OutcomeShort
<1>4. before.passed = <<>> /\ before.parser = <<>> /\ before \in LoopState
  BY EmptySeq, EndpointFacts DEF Before, TelemetryInv, BridgeInv, RouterInv, LoopState
<1> HIDE DEF before
<1>5. one.parser = << halves[1] >> /\ one.passed = <<>>
  <2>1. StartFrame(halves[1], NoLook) = << halves[1] >>
    BY <1>2 DEF StartFrame
  <2>2. one = [before EXCEPT !.parser = << halves[1] >>]
    BY <1>4, <2>1 DEF ParseHalf
  <2> QED BY <1>4, <2>2 DEF LoopState
<1> HIDE DEF one, out
<1>6. out = Complete([one EXCEPT !.parser = <<>>], Usb, frame)
  <2>1. one.parser # <<>> /\ one.parser[1] = halves[1] /\ halves[1].frame = frame
    BY <1>2, <1>5
  <2>2. Intact(halves[1], halves[2])
    BY <1>2 DEF Intact, Halves
  <2> QED BY <1>3, <2>1, <2>2 DEF ParseHalf
<1> DEFINE idle == [one EXCEPT !.parser = <<>>]
<1>7. idle \in LoopState /\ idle.parser = <<>> /\ idle.passed = <<>>
  BY <1>3, <1>5, Zenon DEF LoopState, Parser
<1> HIDE DEF idle
<1>8. out.parser = <<>> /\ out.passed \in {<<>>, Append(<<>>, frame)}
  BY <1>6, <1>7, CompletePasses, Zenon DEF idle
<1>9. Append(<<>>, frame) = << frame >>
  OBVIOUS
<1> QED
  BY <1>1, <1>8, <1>9 DEF out, halves, frame

\* What the router hands to the bridge is queued behind the other packets.
LEMMA BridgeGets ==
    ASSUME TelemetryInv, NEW frames \in Seq(AnyFrame), bridge' = BridgeSend(frames)
    PROVE  /\ bridge'.socket = bridge.socket /\ bridge'.pending = bridge.pending
           /\ Payloads(bridge'.tx_queue) \in
                 {Payloads(bridge.tx_queue), Upto(QueueDepth, Payloads(bridge.tx_queue) \o frames)}
<1> DEFINE new == [i \in DOMAIN frames |-> [frame |-> frames[i], link |-> bridge.socket]]
           q == bridge.tx_queue
<1>1. bridge \in BridgeState /\ q \in Seq(Queued)
  BY DEF TelemetryInv, BridgeInv, BridgeState
<1>2. bridge' = bridge \/ bridge' = [bridge EXCEPT !.tx_queue = Upto(QueueDepth, q \o new)]
  BY DEF BridgeSend
<1>3. DOMAIN frames = 1..Len(frames) /\ Len(frames) \in Nat /\ \A i \in 1..Len(frames) : frames[i] \in AnyFrame
  BY LenProperties, ElementOfSeq
<1>4. new \in Seq(Queued) /\ Payloads(new) = frames
  <2>1. bridge.socket \in Links \cup {0}
    BY <1>1 DEF BridgeState
  <2>2. \A i \in 1..Len(frames) : new[i] \in Queued /\ new[i].frame = frames[i]
    BY <1>3, <2>1 DEF Queued
  <2>3. new \in Seq(Queued) /\ Len(new) = Len(frames)
    BY <1>3, <2>2
  <2> HIDE DEF new
  <2>4. /\ Payloads(new) \in Seq(AnyFrame) /\ Len(Payloads(new)) = Len(frames)
        /\ \A i \in 1..Len(frames) : Payloads(new)[i] = frames[i]
    BY <2>2, <2>3, PayloadConcat
  <2> QED BY <2>3, <2>4, SeqEqual
<1> HIDE DEF new, q
<1>5. q \o new \in Seq(Queued) /\ Payloads(q \o new) = Payloads(q) \o frames
  BY <1>1, <1>4, ConcatProperties, PayloadConcat, Zenon
<1>6. Payloads(Upto(QueueDepth, q \o new)) = Upto(QueueDepth, Payloads(q) \o frames)
  BY <1>5, PayloadFacts, TelemetryAssumption, Zenon
<1>7. CASE bridge' = bridge
  BY <1>7
<1>8. CASE bridge' = [bridge EXCEPT !.tx_queue = Upto(QueueDepth, q \o new)]
  <2>1. /\ bridge'.socket = bridge.socket /\ bridge'.pending = bridge.pending
        /\ bridge'.tx_queue = Upto(QueueDepth, q \o new)
    BY <1>1, <1>8 DEF BridgeState
  <2> QED BY <1>6, <2>1 DEF q
<1> QED
  BY <1>2, <1>7, <1>8

\* The air unit does nothing.
LEMMA WaysSame ==
    ASSUME UNCHANGED <<link, client, task, backlog>>, s_endpoints'["air"] = s_endpoints["air"]
    PROVE  /\ \A l \in Links : Ways(l)' = Ways(l)
           /\ \A l, m \in Links : Sooner(l, m)' <=> Sooner(l, m)
<1>1. ASSUME NEW l \in Links PROVE Ways(l)' = Ways(l)
  BY DEF Ways, AirParser, Waits, Closing, Registered
<1>2. \A l, m \in Links : Sooner(l, m)' <=> Sooner(l, m)
  BY DEF Sooner, Waits
<1> QED
  BY <1>1, <1>2

\* A frame of the GCS is queued behind all that is on its way.
LEMMA UsbRxUp ==
    ASSUME TelemetryInv, Connections, UpInv, UsbRx
    PROVE  UpInv'
<1> DEFINE frame == Frame(gcs + 1, 255, "none")
           out == Outcome("ground", Usb, Halves(frame), NoLook)
           frames == out.passed
           done == delivered["air"]
           q == Payloads(bridge.tx_queue)
<1>1. /\ gcs' = gcs + 1 /\ Ingest("ground", Usb, Halves(frame), NoLook)
      /\ bridge' = BridgeSend(frames)
      /\ UNCHANGED <<client, task, link, backlog, delivered>>
  BY DEF UsbRx, NoLook, Passed, air
<1>2. frame \in AnyFrame /\ frame.number = gcs + 1 /\ frames \in {<<>>, << frame >>}
  BY UsbPasses DEF Connections
<1>3. s_endpoints'["air"] = s_endpoints["air"]
  <2>1. s_endpoints' = [s_endpoints EXCEPT !["ground"][Usb] = out.parser]
    BY <1>1 DEF Ingest
  <2> HIDE DEF out
  <2> QED BY <2>1, EndpointFacts DEF TelemetryInv, RouterInv
<1> HIDE DEF frame, out, frames
<1>4. /\ \A l \in Links : Ways(l)' = Ways(l)
      /\ \A l, m \in Links : Sooner(l, m)' <=> Sooner(l, m)
  BY <1>1, <1>3, WaysSame
<1>5. frames \in Seq(AnyFrame) /\ InOrder(frames) /\ FrameNumbers(frames) \subseteq {gcs + 1}
  <2>1. <<>> \in Seq(AnyFrame) /\ InOrder(<<>>) /\ FrameNumbers(<<>>) = {}
    BY EmptySeq, StreamFacts
  <2> QED BY <1>2, <2>1, ShortOrder, Zenon
<1>6. gcs \in Nat /\ 1..gcs \subseteq 1..gcs' /\ gcs + 1 \in 1..gcs'
  BY <1>1, WayTypes
<1>7. \A A : A \subseteq 1..gcs => Precede(A, FrameNumbers(frames))
  BY <1>5, <1>6 DEF Precede, After
<1>8. /\ bridge'.socket = bridge.socket /\ bridge'.pending = bridge.pending
      /\ Payloads(bridge'.tx_queue) \in {q, Upto(QueueDepth, q \o frames)}
  BY <1>1, <1>5, BridgeGets
<1>9. InOrder(delivered'["air"]) /\ FrameNumbers(delivered'["air"]) \subseteq 1..gcs'
  BY <1>1, <1>6 DEF UpInv
<1>10. \A l \in Links : \A s \in Ways(l)' :
          /\ Line(delivered'["air"], s, <<>>) /\ Numbers(s) \subseteq 1..gcs'
          /\ link'[l].station # "ground" => s = <<>>
  BY <1>1, <1>4, <1>6 DEF UpInv
<1>11. \A l, m \in Links : \A s \in Ways(l)', t \in Ways(m)' :
          l # m /\ Sooner(l, m)' => Precede(Numbers(s), Numbers(t))
  BY <1>4 DEF UpInv
<1>12. ASSUME NEW m \in Links, m = bridge'.socket, NEW t \in Ways(m)'
       PROVE  /\ Line(delivered'["air"], t \o bridge'.pending, Payloads(bridge'.tx_queue))
              /\ Ended(t \o bridge'.pending) /\ Held' \subseteq 1..gcs'
              /\ \A l \in Links \ {m} : \A s \in Ways(l)' :
                     link'[l].station = "ground" => Sooner(l, m)' /\ Precede(Numbers(s), Held')
  <2>1. m = bridge.socket /\ t \in Ways(m)
    BY <1>4, <1>8, <1>12
  <2>2. /\ Line(done, t \o bridge.pending, q)
        /\ Ended(t \o bridge.pending) /\ Held \subseteq 1..gcs
        /\ \A l \in Links \ {m} : \A s \in Ways(l) :
               link[l].station = "ground" => Sooner(l, m) /\ Precede(Numbers(s), Held)
    BY <2>1 DEF UpInv
  <2>3. /\ done \in Seq(AnyFrame) /\ t \in Seq(HalfFrame) /\ bridge.pending \in Seq(HalfFrame)
        /\ q \in Seq(AnyFrame) /\ QueueDepth \in Nat
    BY <2>1, WayTypes, DownTypes, TelemetryAssumption, Zenon
  <2>4. t \o bridge.pending \in Seq(HalfFrame)
        /\ Numbers(t \o bridge.pending) = Numbers(t) \cup Numbers(bridge.pending)
    BY <2>3, ConcatProperties, JoinedNumbers
  <2>5. FrameNumbers(done) \cup Numbers(t \o bridge.pending) \cup FrameNumbers(q) \subseteq 1..gcs
    BY <2>1, <2>2, <2>4 DEF UpInv, Held
  <2>6. Line(done, t \o bridge.pending, Upto(QueueDepth, q \o frames))
    BY <1>5, <1>7, <2>2, <2>3, <2>4, <2>5, LineGets, Zenon
  <2>7. Held' \subseteq Held \cup FrameNumbers(frames)
    <3>1. q \o frames \in Seq(AnyFrame) /\ FrameNumbers(q \o frames) = FrameNumbers(q) \cup FrameNumbers(frames)
      BY <1>5, <2>3, ConcatProperties, JoinedFrames
    <3>2. FrameNumbers(Upto(QueueDepth, q \o frames)) \subseteq FrameNumbers(q) \cup FrameNumbers(frames)
      BY <2>3, <3>1, UptoOrder, Zenon
    <3> QED BY <1>8, <3>2 DEF Held
  <2>8. Held' \subseteq 1..gcs'
    BY <1>5, <1>6, <2>2, <2>7
  <2>9. ASSUME NEW l \in Links \ {m}, NEW s \in Ways(l)', link'[l].station = "ground"
        PROVE  Sooner(l, m)' /\ Precede(Numbers(s), Held')
    <3>1. s \in Ways(l) /\ Sooner(l, m) /\ Precede(Numbers(s), Held)
      BY <1>1, <1>4, <2>2, <2>9
    <3>2. Numbers(s) \subseteq 1..gcs
      BY <3>1 DEF UpInv
    <3>3. Precede(Numbers(s), FrameNumbers(frames))
      BY <1>7, <3>2
    <3>4. Precede(Numbers(s), Held \cup FrameNumbers(frames))
      BY <3>1, <3>3, PrecedeFacts
    <3>5. Precede(Numbers(s), Held')
      BY <2>7, <3>4, PrecedeFacts
    <3> QED BY <1>4, <3>1, <3>5
  <2> QED BY <1>1, <1>8, <2>2, <2>6, <2>8, <2>9
<1> QED
  BY <1>9, <1>10, <1>11, <1>12 DEF UpInv

\* What a client routes follows what was routed, and goes before all that waits.
LEMMA TcpReceiveUp ==
    ASSUME TelemetryInv, Connections, UpInv, NEW i \in Slots, TcpReceive(i)
    PROVE  UpInv'
<1>1. PICK l \in Links : l = client[i].link
  BY WayTypes DEF TcpReceive
<1> DEFINE held == link[l].up
           parser == s_endpoints["air"][Tcp(i)]
           w == parser \o held
           done == delivered["air"]
<1>2. /\ task = Loop /\ client[i].used /\ l = client[i].link
      /\ UNCHANGED <<client, task, backlog, bridge, gcs>>
      /\ \E n \in Moves(held, Window) :
            /\ Ingest("air", Tcp(i), SubSeq(held, 1, n), NoLook)
            /\ Deliver("air", Passed("air", Tcp(i), SubSeq(held, 1, n), NoLook))
            /\ link' = [link EXCEPT ![l].up = SubSeq(@, n + 1, Len(@))]
  BY <1>1, Zenon DEF TcpReceive, NoLook, air, ground, outside
<1>3. Tcp(i) \in Registered("air") /\ ~Closing(i) /\ link[l].air = "open"
  BY <1>2 DEF TelemetryInv, ClientInv, Loop, Closing, Connections
<1>4. /\ held \in Seq(HalfFrame) /\ parser \in Seq(HalfFrame) /\ w \in Seq(HalfFrame)
      /\ done \in Seq(AnyFrame) /\ AirParser(i) = parser
  BY <1>3, WayTypes, DownTypes, ConcatProperties DEF AirParser
<1>5. Ways(l) = {w}
  <2>1. Ways(l) = {AirParser(i) \o held}
    BY <1>2, <1>3, WaysOf, Zenon
  <2> QED BY <1>4, <2>1
<1>6. PICK n \in Moves(held, Window) :
         /\ Ingest("air", Tcp(i), SubSeq(held, 1, n), NoLook)
         /\ Deliver("air", Passed("air", Tcp(i), SubSeq(held, 1, n), NoLook))
         /\ link' = [link EXCEPT ![l].up = SubSeq(@, n + 1, Len(@))]
  BY <1>2, Zenon
<1> DEFINE out == Outcome("air", Tcp(i), SubSeq(held, 1, n), NoLook)
           rest == SubSeq(held, n + 1, Len(held))
           passed == out.passed
           way == out.parser \o rest
           after == done \o passed
<1>7. /\ link' = [link EXCEPT ![l] = [link[l] EXCEPT !.up = rest]]
      /\ w = parser \o held /\ parser = s_endpoints["air"][Tcp(i)]
  BY <1>6
<1> HIDE DEF held, parser, w
<1>8. n \in 0..Len(held) /\ SubSeq(held, 1, n) \in Seq(HalfFrame) /\ rest \in Seq(HalfFrame)
  BY <1>4, MovesFact
<1>9. out \in LoopState /\ passed \in Seq(AnyFrame) /\ out.parser \in Seq(HalfFrame)
  <2>1. out \in LoopState
    BY <1>3, <1>8, EndpointFacts, OutcomeFacts, Zenon DEF TelemetryInv, NoLook, Looks
  <2> HIDE DEF out
  <2> QED BY <2>1, ParserSeq DEF LoopState
<1>10. Line(done, w, <<>>) /\ Numbers(w) \subseteq 1..gcs
      /\ (link[l].station # "ground" => w = <<>>)
  BY <1>3, <1>5 DEF UpInv
<1>11. Reads(out, w, rest)
  <2>1. Stream(w) /\ RouterInv /\ "air" \in Units
    BY <1>10, EndpointFacts DEF Line, TelemetryInv
  <2> QED BY <1>3, <1>4, <1>7, <1>8, <2>1, ReadStream
<1>12. /\ s_endpoints'["air"] = [s_endpoints["air"] EXCEPT ![Tcp(i)] = out.parser]
       /\ delivered'["air"] = after
  <2>1. s_endpoints' = [s_endpoints EXCEPT !["air"][Tcp(i)] = out.parser]
    BY <1>6 DEF Ingest
  <2>2. delivered' = [delivered EXCEPT !["air"] = @ \o passed]
    BY <1>6 DEF Deliver, Passed
  <2> HIDE DEF out, passed
  <2> QED BY <2>1, <2>2, EndpointFacts, Zenon DEF TelemetryInv, RouterInv, OutsideInv
<1>13. PICK d \in Seq(HalfFrame) :
          /\ w = d \o way /\ Ended(d)
          /\ InOrder(passed) /\ FrameNumbers(passed) \subseteq Numbers(d)
  BY <1>11, Zenon DEF Reads
<1> HIDE DEF out, passed, rest
<1>14. way \in Seq(HalfFrame)
  BY <1>8, <1>9, ConcatProperties
<1>15. /\ Registered("air")' = Registered("air")
       /\ \A j \in Slots : AirParser(j)' = IF j = i THEN out.parser ELSE AirParser(j)
       /\ \A j \in Slots : Closing(j)' <=> Closing(j)
  <2>1. Registered("air")' = Registered("air")
    BY <1>12 DEF Registered
  <2>2. \A j \in Slots : AirParser(j)' = IF j = i THEN out.parser ELSE AirParser(j)
    BY <1>3, <1>12, <2>1, EndpointFacts, Zenon DEF AirParser, Registered
  <2> QED BY <1>2, <2>1, <2>2 DEF Closing
<1>16. \A m \in Links : /\ link'[m].air = link[m].air /\ link'[m].station = link[m].station
                        /\ link'[m].up = IF m = l THEN rest ELSE link[m].up
  BY <1>3, <1>7, WayTypes, Zenon DEF Link
<1>17. \A a, b \in Links : Sooner(a, b)' <=> Sooner(a, b)
  BY <1>2, <1>16 DEF Sooner, Waits
<1>18. Ways(l)' = {way}
  <2>1. \A j \in Slots : client[j].used /\ client[j].link = l => j = i
    BY <1>2 DEF Connections
  <2>2. {j \in Slots : client'[j].used /\ client'[j].link = l /\ ~Closing(j)'} = {i}
    BY <1>2, <1>3, <1>15, <2>1
  <2>3. link'[l].air # "waiting" /\ link'[l].up = rest /\ AirParser(i)' = out.parser
    BY <1>3, <1>15, <1>16
  <2> QED BY <2>2, <2>3, Zenon DEF Ways, Waits
<1>19. ASSUME NEW m \in Links, m # l PROVE Ways(m)' = Ways(m)
  <2>1. \A j \in Slots : client[j].used /\ client[j].link = m => j # i
    BY <1>2, <1>19
  <2>2. link'[m].up = link[m].up /\ link'[m].air = link[m].air
    BY <1>16, <1>19
  <2>3. {j \in Slots : client'[j].used /\ client'[j].link = m /\ ~Closing(j)'}
            = {j \in Slots : client[j].used /\ client[j].link = m /\ ~Closing(j)}
    BY <1>2, <1>15
  <2>4. \A j \in {j \in Slots : client[j].used /\ client[j].link = m /\ ~Closing(j)} :
           AirParser(j)' = AirParser(j)
    BY <1>15, <2>1
  <2> QED BY <2>2, <2>3, <2>4, Zenon DEF Ways, Waits
<1> HIDE DEF way
<1>20. Numbers(w) = Numbers(d) \cup Numbers(way)
  BY <1>13, <1>14, JoinedNumbers
<1>21. Line(after, way, <<>>)
  <2>1. <<>> \in Seq(AnyFrame)
    BY EmptySeq
  <2> QED BY <1>4, <1>9, <1>10, <1>13, <1>14, <2>1, LineReads, Zenon
<1>22. w = <<>> => way = <<>>
  <2>1. d \o way = <<>> <=> d = <<>> /\ way = <<>>
    BY <1>13, <1>14, ConcatEqualIffEmpty
  <2> QED BY <1>13, <2>1
<1>23. InOrder(after) /\ FrameNumbers(after) \subseteq 1..gcs
  <2>1. FrameNumbers(after) = FrameNumbers(done) \cup FrameNumbers(passed)
    BY <1>4, <1>9, JoinedFrames
  <2>2. FrameNumbers(done) \subseteq 1..gcs
    BY DEF UpInv
  <2> QED BY <1>10, <1>13, <1>20, <1>21, <2>1, <2>2 DEF Line
<1> HIDE DEF after
<1>24. ASSUME NEW m \in Links, m # l, NEW s \in Ways(m)
       PROVE  Precede(Numbers(w), Numbers(s))
  <2>1. CASE link[l].station # "ground"
    BY <1>10, <2>1, StreamFacts, PrecedeFacts, Zenon
  <2>2. CASE link[m].station # "ground"
    <3>1. s = <<>>
      BY <1>24, <2>2 DEF UpInv
    <3> QED BY <3>1, StreamFacts, PrecedeFacts, Zenon
  <2>3. CASE link[l].station = "ground" /\ link[m].station = "ground"
    <3>1. Waits(m)
      <4> SUFFICES ASSUME ~Waits(m) PROVE FALSE
        OBVIOUS
      <4>1. PICK j \in Slots : client[j].used /\ client[j].link = m
        BY <1>24, WaysOf
      <4>2. j # i
        BY <1>2, <1>24, <4>1
      <4> QED BY <1>2, <2>3, <4>1, <4>2 DEF Connections
    <3>2. Sooner(l, m)
      BY <1>3, <3>1 DEF Sooner, Waits
    <3> QED BY <1>3, <1>5, <1>24, <3>2 DEF UpInv
  <2> QED BY <2>1, <2>2, <2>3
<1>25. ASSUME NEW m \in Links, m = bridge.socket, m # l, NEW t \in Ways(m)
       PROVE  Precede(Numbers(w), Held)
  <2>1. CASE link[l].station # "ground"
    BY <1>10, <2>1, StreamFacts, PrecedeFacts, Zenon
  <2>2. CASE link[l].station = "ground"
    <3>1. l \in Links \ {m} /\ w \in Ways(l)
      BY <1>3, <1>5, <1>25
    <3> QED BY <1>25, <2>2, <3>1 DEF UpInv
  <2> QED BY <2>1, <2>2
<1>26. \A A : Precede(Numbers(w), A) => Precede(FrameNumbers(passed), A) /\ Precede(Numbers(way), A)
  BY <1>13, <1>20, PrecedeFacts
<1>27. ASSUME NEW m \in Links, NEW s \in Ways(m)'
       PROVE  /\ Line(after, s, <<>>) /\ Numbers(s) \subseteq 1..gcs
              /\ link[m].station # "ground" => s = <<>>
  <2>1. CASE m = l
    BY <1>10, <1>18, <1>20, <1>21, <1>22, <1>27, <2>1
  <2>2. CASE m # l
    <3>1. /\ s \in Ways(m) /\ Line(done, s, <<>>) /\ Numbers(s) \subseteq 1..gcs
          /\ link[m].station # "ground" => s = <<>>
      BY <1>19, <1>27, <2>2 DEF UpInv
    <3>2. Precede(FrameNumbers(passed), Numbers(s)) /\ Precede(FrameNumbers(passed), FrameNumbers(<<>>))
      BY <1>24, <1>26, <2>2, <3>1, StreamFacts, PrecedeFacts
    <3>3. Line(after, s, <<>>)
      BY <1>4, <1>9, <1>23, <3>1, <3>2, LineJoins DEF after
    <3> QED BY <3>1, <3>3
  <2> QED BY <2>1, <2>2
<1>28. ASSUME NEW a \in Links, NEW b \in Links, NEW s \in Ways(a)', NEW t \in Ways(b)',
              a # b, Sooner(a, b)
       PROVE  Precede(Numbers(s), Numbers(t))
  <2>1. b # l
    BY <1>3, <1>28 DEF Sooner, Waits
  <2>2. t \in Ways(b)
    BY <1>19, <1>28, <2>1
  <2>3. CASE a = l
    BY <1>18, <1>24, <1>26, <1>28, <2>1, <2>2, <2>3
  <2>4. CASE a # l
    BY <1>19, <1>28, <2>2, <2>4 DEF UpInv
  <2> QED BY <2>3, <2>4
<1>29. ASSUME NEW m \in Links, m = bridge.socket, NEW t \in Ways(m)'
       PROVE  /\ Line(after, t \o bridge.pending, Payloads(bridge.tx_queue))
              /\ Ended(t \o bridge.pending) /\ Held \subseteq 1..gcs
              /\ \A a \in Links \ {m} : \A s \in Ways(a)' :
                     link[a].station = "ground" => Sooner(a, m) /\ Precede(Numbers(s), Held)
  <2> DEFINE p == bridge.pending
             q == Payloads(bridge.tx_queue)
  <2>1. /\ p \in Seq(HalfFrame) /\ q \in Seq(AnyFrame)
        /\ Held = Numbers(p) \cup FrameNumbers(q)
    BY WayTypes DEF Held
  <2>2. \A s \in Ways(m) :
           /\ Line(done, s \o p, q) /\ Ended(s \o p) /\ Held \subseteq 1..gcs
           /\ \A a \in Links \ {m} : \A r \in Ways(a) :
                  link[a].station = "ground" => Sooner(a, m) /\ Precede(Numbers(r), Held)
    BY <1>29 DEF UpInv
  <2> HIDE DEF p, q
  <2>3. CASE m = l
    <3>1. t = way /\ w \in Ways(m)
      BY <1>5, <1>18, <1>29, <2>3
    <3>2. w \o p = d \o (way \o p) /\ way \o p \in Seq(HalfFrame)
      BY <1>13, <1>14, <2>1, HalvesAssociative, ConcatProperties, Zenon
    <3>3. Line(done, d \o (way \o p), q) /\ Ended(d \o (way \o p))
      BY <2>2, <3>1, <3>2, Zenon
    <3>4. Line(after, way \o p, q)
      BY <1>4, <1>9, <1>13, <2>1, <3>2, <3>3, LineReads, Zenon DEF after
    <3>5. Ended(way \o p)
      <4>1. Stream(d \o (way \o p))
        BY <3>3 DEF Line
      <4> QED BY <1>13, <3>2, <3>3, <4>1, StreamSplit, Zenon
    <3>6. \A a \in Links \ {m} : Ways(a)' = Ways(a)
      BY <1>19, <2>3
    <3> QED BY <2>2, <3>1, <3>4, <3>5, <3>6 DEF p, q
  <2>4. CASE m # l
    <3>1. t \in Ways(m)
      BY <1>19, <1>29, <2>4
    <3>2. Precede(Numbers(w), Held) /\ Precede(Numbers(w), Numbers(t))
      BY <1>24, <1>25, <1>29, <2>4, <3>1
    <3>3. t \in Seq(HalfFrame) /\ Numbers(t \o p) = Numbers(t) \cup Numbers(p)
      BY <2>1, <3>1, WayTypes, JoinedNumbers
    <3>4. Precede(FrameNumbers(passed), Numbers(t \o p)) /\ Precede(FrameNumbers(passed), FrameNumbers(q))
      <4>1. Precede(FrameNumbers(passed), Numbers(t)) /\ Precede(FrameNumbers(passed), Held)
        BY <1>26, <3>2
      <4> QED BY <2>1, <3>3, <4>1, PrecedeFacts, Zenon
    <3>5. Line(after, t \o p, q)
      BY <1>4, <1>9, <1>23, <2>2, <3>1, <3>4, LineJoins DEF after
    <3>6. ASSUME NEW a \in Links \ {m}, NEW s \in Ways(a)', link[a].station = "ground"
          PROVE  Sooner(a, m) /\ Precede(Numbers(s), Held)
      <4>1. CASE a = l
        <5>1. s = way /\ w \in Ways(a)
          BY <1>5, <1>18, <3>6, <4>1
        <5>2. Sooner(a, m)
          BY <2>2, <3>1, <3>6, <5>1
        <5> QED BY <1>26, <3>2, <5>1, <5>2
      <4>2. CASE a # l
        <5>1. s \in Ways(a)
          BY <1>19, <3>6, <4>2
        <5> QED BY <2>2, <3>1, <3>6, <5>1
      <4> QED BY <4>1, <4>2
    <3> QED BY <2>2, <3>1, <3>5, <3>6 DEF p, q
  <2> QED BY <2>3, <2>4
<1>30. /\ gcs' = gcs /\ bridge' = bridge /\ Held' = Held
       /\ \A m \in Links : link'[m].station = link[m].station
  BY <1>2, <1>16 DEF Held
<1>31. \A m \in Links : m = bridge'.socket => \A t \in Ways(m)' :
          /\ Line(delivered'["air"], t \o bridge'.pending, Payloads(bridge'.tx_queue))
          /\ Ended(t \o bridge'.pending) /\ Held' \subseteq 1..gcs'
          /\ \A a \in Links \ {m} : \A s \in Ways(a)' :
                 link'[a].station = "ground" => Sooner(a, m)' /\ Precede(Numbers(s), Held')
  BY <1>12, <1>17, <1>29, <1>30, Zenon
<1> QED
  BY <1>12, <1>17, <1>23, <1>27, <1>28, <1>30, <1>31 DEF UpInv

\* Of two links only one is served before the other.
LEMMA SoonerOnce ==
    ASSUME TelemetryInv, Connections, NEW l \in Links, NEW m \in Links, Sooner(l, m), Sooner(m, l)
    PROVE  FALSE
<1>1. PICK j, k \in 1..Len(backlog) : j < k /\ backlog[j] = l /\ backlog[k] = m
  BY DEF Sooner
<1>2. PICK a, b \in 1..Len(backlog) : a < b /\ backlog[a] = m /\ backlog[b] = l
  BY DEF Sooner
<1>3. \A x, y \in 1..Len(backlog) : x # y => backlog[x] # backlog[y]
  BY DEF Connections
<1>4. j = b /\ k = a
  BY <1>1, <1>2, <1>3
<1>5. Len(backlog) \in Nat
  BY WayTypes
<1> QED
  BY <1>1, <1>2, <1>4, <1>5

\* What the bridge sends follows what the link holds.
LEMMA BridgeTransmitUp ==
    ASSUME TelemetryInv, Connections, UpInv, BridgeTransmit
    PROVE  UpInv'
<1>1. PICK l \in Links : l = bridge.socket
  BY WayTypes DEF BridgeTransmit, TelemetryInv, BridgeInv
<1> DEFINE fresh == bridge.pending = <<>> /\ bridge.tx_queue # <<>>
           packet == IF fresh THEN Halves(Head(bridge.tx_queue).frame) ELSE bridge.pending
           queue == IF fresh THEN Tail(bridge.tx_queue) ELSE bridge.tx_queue
           done == delivered["air"]
           p == bridge.pending
           q == Payloads(bridge.tx_queue)
           w == Payloads(queue)
<1>2. /\ UNCHANGED <<client, task, backlog, s_endpoints, delivered, gcs>>
      /\ \E n \in Moves(packet, Window - Len(link[l].up)) :
            /\ link' = [link EXCEPT ![l].up = @ \o SubSeq(packet, 1, n)]
            /\ bridge' = [bridge EXCEPT !.tx_queue = queue,
                                        !.pending = SubSeq(packet, n + 1, Len(packet))]
  BY <1>1, Zenon DEF BridgeTransmit, BridgeUnchanged, air, router, outside
<1>3. bridge.tx_queue \in Seq(Queued) /\ p \in Seq(HalfFrame) /\ q \in Seq(AnyFrame)
      /\ done \in Seq(AnyFrame)
  BY WayTypes, DownTypes
<1>4. /\ packet \in Seq(HalfFrame) /\ w \in Seq(AnyFrame)
      /\ Numbers(packet) \cup FrameNumbers(w) = Held
      /\ \A t \in Seq(HalfFrame) :
            Line(done, t \o p, q) /\ Ended(t \o p) =>
                Line(done, t \o packet, w) /\ Ended(t \o packet)
  <2>1. CASE fresh
    <3> DEFINE f == Head(bridge.tx_queue).frame
    <3>1. f \in AnyFrame /\ w \in Seq(AnyFrame) /\ q = << f >> \o w /\ packet = Halves(f) /\ p = <<>>
      BY <1>3, <2>1, PayloadFacts, Zenon
    <3> HIDE DEF f, w, q, packet, p
    <3>2. << f >> \in Seq(AnyFrame) /\ FrameNumbers(<< f >>) = {f.number}
      BY <3>1, ShortOrder
    <3>3. /\ packet \in Seq(HalfFrame) /\ Stream(packet) /\ Ended(packet)
          /\ Numbers(packet) = {f.number}
      BY <3>1, HalvesStream
    <3>4. FrameNumbers(q) = {f.number} \cup FrameNumbers(w)
      BY <3>1, <3>2, JoinedFrames, Zenon
    <3>5. Held = {f.number} \cup FrameNumbers(w)
      BY <3>1, <3>4, StreamFacts DEF Held, p, q
    <3>6. ASSUME NEW t \in Seq(HalfFrame), Line(done, t \o p, q), Ended(t \o p)
          PROVE  Line(done, t \o packet, w) /\ Ended(t \o packet)
      <4>1. t \o p = t
        BY <3>1, ConcatEmptySeq
      <4> DEFINE taken == << f >>
      <4>2. /\ taken \in Seq(AnyFrame) /\ Line(done, t, taken \o w) /\ Ended(t)
            /\ Numbers(packet) \subseteq FrameNumbers(taken)
        BY <3>1, <3>2, <3>3, <3>6, <4>1
      <4> HIDE DEF taken, done
      <4> QED BY <1>3, <3>1, <3>3, <4>2, LineTakes
    <3> QED BY <3>1, <3>3, <3>5, <3>6
  <2>2. CASE ~fresh
    <3>1. packet = p /\ w = q
      BY <2>2
    <3> HIDE DEF packet, w
    <3> QED BY <1>3, <3>1 DEF Held
  <2> QED BY <2>1, <2>2
<1>5. link[l].station = "ground"
  BY <1>1, WayTypes DEF Connections
<1> HIDE DEF packet
<1>6. PICK n \in Moves(packet, Window - Len(link[l].up)) :
         /\ link' = [link EXCEPT ![l].up = @ \o SubSeq(packet, 1, n)]
         /\ bridge' = [bridge EXCEPT !.tx_queue = queue,
                                     !.pending = SubSeq(packet, n + 1, Len(packet))]
  BY <1>2, Zenon
<1> DEFINE sent == SubSeq(packet, 1, n)
           left == SubSeq(packet, n + 1, Len(packet))
<1>7. sent \in Seq(HalfFrame) /\ left \in Seq(HalfFrame) /\ sent \o left = packet
  BY <1>4, MovesFact, CutFact, Zenon
<1>8. bridge'.socket = l /\ bridge'.pending = left /\ Payloads(bridge'.tx_queue) = w
  BY <1>1, <1>6, Zenon DEF TelemetryInv, BridgeInv, BridgeState
<1>9. \A m \in Links : /\ link'[m].air = link[m].air /\ link'[m].station = link[m].station
                       /\ link'[m].up = IF m = l THEN link[m].up \o sent ELSE link[m].up
  <2>1. link' = [link EXCEPT ![l] = [link[l] EXCEPT !.up = @ \o sent]]
    BY <1>6
  <2> HIDE DEF sent
  <2> QED BY <2>1, WayTypes DEF Link
<1> HIDE DEF sent, left, w, q, p, queue
<1>10. /\ \A j \in Slots : AirParser(j)' = AirParser(j) /\ (Closing(j)' <=> Closing(j))
       /\ \A a, b \in Links : Sooner(a, b)' <=> Sooner(a, b)
  BY <1>2, <1>9 DEF AirParser, Registered, Closing, Sooner, Waits
<1>11. ASSUME NEW m \in Links, m # l PROVE Ways(m)' = Ways(m)
  <2>1. link'[m].up = link[m].up /\ link'[m].air = link[m].air
    BY <1>9, <1>11
  <2>2. {j \in Slots : client'[j].used /\ client'[j].link = m /\ ~Closing(j)'}
            = {j \in Slots : client[j].used /\ client[j].link = m /\ ~Closing(j)}
    BY <1>2, <1>10
  <2> QED BY <1>10, <2>1, <2>2, Zenon DEF Ways, Waits
<1>12. \A s \in Ways(l)' : \E t \in Ways(l) : s = t \o sent
  <2> SUFFICES ASSUME NEW s \in Ways(l)' PROVE \E t \in Ways(l) : s = t \o sent
    OBVIOUS
  <2>1. link'[l].up = link[l].up \o sent /\ link[l].up \in Seq(HalfFrame)
    BY <1>9, WayTypes, Zenon
  <2>2. \/ link[l].air = "waiting" /\ s = link'[l].up
        \/ \E j \in Slots : /\ client[j].used /\ client[j].link = l /\ ~Closing(j)
                            /\ s = AirParser(j) \o link'[l].up
    <3>1. \/ link'[l].air = "waiting" /\ s = link'[l].up
          \/ \E j \in Slots : /\ client'[j].used /\ client'[j].link = l /\ ~Closing(j)'
                              /\ s = AirParser(j)' \o link'[l].up
      BY DEF Ways, Waits
    <3> QED BY <1>2, <1>9, <1>10, <3>1, Zenon
  <2>3. ASSUME NEW j \in Slots, client[j].used, client[j].link = l, ~Closing(j),
               s = AirParser(j) \o link'[l].up
        PROVE  \E t \in Ways(l) : s = t \o sent
    <3>1. AirParser(j) \o (link[l].up \o sent) = (AirParser(j) \o link[l].up) \o sent
      <4>1. AirParser(j) \in Seq(HalfFrame)
        BY WayTypes
      <4> QED BY <1>7, <2>1, <4>1, HalvesAssociative, Zenon
    <3>2. AirParser(j) \o link[l].up \in Ways(l)
      BY <2>3 DEF Ways
    <3> QED BY <2>1, <2>3, <3>1, <3>2, Zenon
  <2>4. CASE link[l].air = "waiting" /\ s = link'[l].up
    BY <2>1, <2>4, Zenon DEF Ways, Waits
  <2> QED BY <2>2, <2>3, <2>4, Zenon
<1>13. Numbers(packet) = Numbers(sent) \cup Numbers(left)
  BY <1>7, JoinedNumbers, Zenon
<1>14. Held' = Numbers(left) \cup FrameNumbers(w)
  BY <1>8 DEF Held
<1>15. ASSUME NEW t \in Ways(l)
       PROVE  /\ Line(done, (t \o sent) \o left, w) /\ Ended((t \o sent) \o left)
              /\ Line(done, t \o sent, <<>>) /\ t \o sent \in Seq(HalfFrame)
              /\ Numbers(t \o sent) = Numbers(t) \cup Numbers(sent)
              /\ Held \subseteq 1..gcs /\ Numbers(t) \subseteq 1..gcs
              /\ \A a \in Links \ {l} : \A s \in Ways(a) :
                     link[a].station = "ground" => Sooner(a, l) /\ Precede(Numbers(s), Held)
  <2>1. /\ Line(done, t \o p, q) /\ Ended(t \o p) /\ Held \subseteq 1..gcs
        /\ Numbers(t) \subseteq 1..gcs
        /\ \A a \in Links \ {l} : \A s \in Ways(a) :
               link[a].station = "ground" => Sooner(a, l) /\ Precede(Numbers(s), Held)
    BY <1>1 DEF UpInv, p, q
  <2>2. t \in Seq(HalfFrame)
    BY WayTypes
  <2>3. t \o sent \in Seq(HalfFrame) /\ (t \o sent) \o left = t \o packet
        /\ Numbers(t \o sent) = Numbers(t) \cup Numbers(sent)
    BY <1>7, <2>2, HalvesAssociative, ConcatProperties, JoinedNumbers, Zenon
  <2>4. Line(done, (t \o sent) \o left, w) /\ Ended((t \o sent) \o left)
    BY <1>4, <2>1, <2>2, <2>3
  <2>5. Line(done, t \o sent, <<>>)
    BY <1>3, <1>7, <2>3, <2>4, LineCut, Zenon
  <2> QED BY <2>1, <2>3, <2>4, <2>5
<1>16. ASSUME NEW m \in Links, NEW s \in Ways(m)'
       PROVE  /\ Line(done, s, <<>>) /\ Numbers(s) \subseteq 1..gcs
              /\ link[m].station # "ground" => s = <<>>
  <2>1. CASE m = l
    <3>1. PICK t \in Ways(l) : s = t \o sent
      BY <1>12, <1>16, <2>1, Zenon
    <3> QED BY <1>4, <1>5, <1>13, <1>15, <2>1, <3>1
  <2>2. CASE m # l
    BY <1>11, <1>16, <2>2 DEF UpInv
  <2> QED BY <2>1, <2>2
<1>17. ASSUME NEW a \in Links, NEW b \in Links, NEW s \in Ways(a)', NEW r \in Ways(b)',
              a # b, Sooner(a, b)
       PROVE  Precede(Numbers(s), Numbers(r))
  <2>1. CASE a = l
    <3>1. r \in Ways(b)
      BY <1>11, <1>17, <2>1
    <3>2. PICK t \in Ways(l) : s = t \o sent
      BY <1>12, <1>17, <2>1, Zenon
    <3>3. link[b].station # "ground"
      <4> SUFFICES ASSUME link[b].station = "ground" PROVE FALSE
        OBVIOUS
      <4>1. b \in Links \ {l}
        BY <1>17, <2>1
      <4>2. Sooner(b, l)
        BY <1>15, <3>1, <3>2, <4>1
      <4> QED BY <1>17, <2>1, <4>2, SoonerOnce
    <3>4. r = <<>>
      BY <3>1, <3>3 DEF UpInv
    <3> QED BY <3>4, StreamFacts, PrecedeFacts, Zenon
  <2>2. CASE b = l
    <3>1. s \in Ways(a) /\ a \in Links \ {l}
      BY <1>11, <1>17, <2>2
    <3>2. PICK t \in Ways(l) : r = t \o sent
      BY <1>12, <1>17, <2>2, Zenon
    <3>3. Precede(Numbers(s), Numbers(t))
      BY <1>17, <2>2, <3>1, <3>2 DEF UpInv
    <3>4. Precede(Numbers(s), Numbers(sent))
      <4>1. CASE link[a].station # "ground"
        <5>1. s = <<>>
          BY <3>1, <4>1 DEF UpInv
        <5> QED BY <5>1, StreamFacts, PrecedeFacts, Zenon
      <4>2. CASE link[a].station = "ground"
        <5>1. Precede(Numbers(s), Held)
          BY <1>15, <3>1, <3>2, <4>2
        <5> QED BY <1>4, <1>13, <5>1, PrecedeFacts
      <4> QED BY <4>1, <4>2
    <3>5. Numbers(r) = Numbers(t) \cup Numbers(sent)
      BY <1>15, <3>2
    <3> QED BY <3>3, <3>4, <3>5, PrecedeFacts
  <2>3. CASE a # l /\ b # l
    BY <1>11, <1>17, <2>3 DEF UpInv
  <2> QED BY <2>1, <2>2, <2>3
<1>18. ASSUME NEW s \in Ways(l)'
       PROVE  /\ Line(done, s \o left, w) /\ Ended(s \o left) /\ Held' \subseteq 1..gcs
              /\ \A a \in Links \ {l} : \A r \in Ways(a)' :
                     link[a].station = "ground" => Sooner(a, l) /\ Precede(Numbers(r), Held')
  <2>1. PICK t \in Ways(l) : s = t \o sent
    BY <1>12, <1>18
  <2>2. Held' \subseteq Held
    BY <1>4, <1>13, <1>14
  <2>3. ASSUME NEW a \in Links \ {l}, NEW r \in Ways(a)', link[a].station = "ground"
        PROVE  Sooner(a, l) /\ Precede(Numbers(r), Held')
    <3>1. r \in Ways(a)
      BY <1>11, <2>3
    <3>2. Sooner(a, l) /\ Precede(Numbers(r), Held)
      BY <1>15, <2>1, <2>3, <3>1
    <3> QED BY <2>2, <3>2, PrecedeFacts
  <2> QED BY <1>15, <2>1, <2>2, <2>3
<1>19. /\ InOrder(delivered'["air"]) /\ FrameNumbers(delivered'["air"]) \subseteq 1..gcs'
       /\ delivered'["air"] = done /\ gcs' = gcs
  BY <1>2 DEF UpInv
<1>20. \A m \in Links : m = bridge'.socket => \A t \in Ways(m)' :
          /\ Line(delivered'["air"], t \o bridge'.pending, Payloads(bridge'.tx_queue))
          /\ Ended(t \o bridge'.pending) /\ Held' \subseteq 1..gcs'
          /\ \A a \in Links \ {m} : \A s \in Ways(a)' :
                 link'[a].station = "ground" => Sooner(a, m)' /\ Precede(Numbers(s), Held')
  BY <1>8, <1>9, <1>10, <1>18, <1>19
<1> QED
  BY <1>9, <1>10, <1>16, <1>17, <1>19, <1>20 DEF UpInv

\* A connection that is new waits behind the others, and nothing is on its way.
LEMMA ConnectWays ==
    ASSUME TelemetryInv, Connections, NEW station, NEW l \in Links, Connect(station, l),
           client' = client, task' = task, s_endpoints'["air"] = s_endpoints["air"]
    PROVE  /\ Ways(l)' = {<<>>} /\ \A m \in Links : m # l => Ways(m)' = Ways(m)
           /\ \A m \in Links : link'[m].station = IF m = l THEN station ELSE link[m].station
           /\ \A a \in Links : a # l => Sooner(a, l)'
           /\ \A a, b \in Links : b # l /\ Sooner(a, b)' => a # l /\ Sooner(a, b)
           /\ \A a, b \in Links : a # l /\ b # l /\ Sooner(a, b) => Sooner(a, b)'
<1> DEFINE new == [NoLink EXCEPT !.station = station, !.peer = TRUE, !.air = "waiting"]
           n == Len(backlog)
<1>1. /\ link[l].air = "closed" /\ backlog' = Append(backlog, l) /\ link' = [link EXCEPT ![l] = new]
      /\ new.station = station /\ new.air = "waiting" /\ new.up = <<>>
  BY DEF Connect, NoLink
<1> HIDE DEF new
<1>2. \A m \in Links : link'[m] = IF m = l THEN new ELSE link[m]
  BY <1>1, WayTypes
<1>3. \A j \in Slots : /\ AirParser(j)' = AirParser(j) /\ (Closing(j)' <=> Closing(j))
                       /\ client[j].used => client[j].link # l
  BY <1>1 DEF AirParser, Registered, Closing, Connections
<1>4. Ways(l)' = {<<>>}
  <2>1. {j \in Slots : client'[j].used /\ client'[j].link = l /\ ~Closing(j)'} = {}
    BY <1>3
  <2> QED BY <1>1, <1>2, <2>1 DEF Ways, Waits
<1>5. ASSUME NEW m \in Links, m # l PROVE Ways(m)' = Ways(m)
  <2>1. {j \in Slots : client'[j].used /\ client'[j].link = m /\ ~Closing(j)'}
            = {j \in Slots : client[j].used /\ client[j].link = m /\ ~Closing(j)}
    BY <1>3
  <2>2. link'[m] = link[m]
    BY <1>2, <1>5
  <2> QED BY <1>3, <2>1, <2>2, Zenon DEF Ways, Waits
<1>6. /\ n \in Nat /\ Len(backlog') = n + 1 /\ backlog'[n + 1] = l
      /\ \A k \in 1..n : backlog'[k] = backlog[k] /\ backlog[k] # l /\ k \in 1..n + 1
      /\ \A k \in 1..n + 1 : k = n + 1 \/ k \in 1..n
  <2>1. backlog \in Seq(Links) /\ n \in Nat
    BY WayTypes
  <2>2. \A k \in 1..n : backlog[k] # l
    BY <1>1 DEF Connections, Waits
  <2> QED BY <1>1, <2>1, <2>2
<1>7. \A m \in Links : Waits(m)' <=> m = l \/ Waits(m)
  BY <1>1, <1>2 DEF Waits
<1> HIDE DEF n
<1>8. ASSUME NEW a \in Links, a # l PROVE Sooner(a, l)'
  <2>1. CASE ~Waits(a)
    BY <1>7, <1>8, <2>1 DEF Sooner
  <2>2. CASE Waits(a)
    <3>1. PICK k \in 1..n : backlog[k] = a
      BY <2>2 DEF Connections, n
    <3>2. k \in 1..Len(backlog') /\ n + 1 \in 1..Len(backlog') /\ k < n + 1 /\ backlog'[k] = a
      BY <1>6, <3>1
    <3> QED BY <1>6, <1>7, <3>2 DEF Sooner
  <2> QED BY <2>1, <2>2
<1>9. ASSUME NEW a \in Links, NEW b \in Links, b # l, Sooner(a, b)' PROVE a # l /\ Sooner(a, b)
  <2>1. Waits(b)
    BY <1>7, <1>9 DEF Sooner
  <2>2. CASE Waits(a)'
    <3>1. PICK j, k \in 1..Len(backlog') : j < k /\ backlog'[j] = a /\ backlog'[k] = b
      BY <1>9, <2>2 DEF Sooner
    <3>2. k \in 1..n /\ j \in 1..n
      BY <1>6, <1>9, <3>1
    <3>3. backlog[j] = a /\ backlog[k] = b /\ a # l
      BY <1>6, <3>1, <3>2
    <3> QED BY <2>1, <3>1, <3>2, <3>3 DEF Sooner, n
  <2>3. CASE ~Waits(a)'
    BY <1>7, <2>1, <2>3 DEF Sooner
  <2> QED BY <2>2, <2>3
<1>10. ASSUME NEW a \in Links, NEW b \in Links, a # l, b # l, Sooner(a, b) PROVE Sooner(a, b)'
  <2>1. Waits(b)' /\ (Waits(a)' <=> Waits(a))
    BY <1>7, <1>10 DEF Sooner
  <2>2. CASE Waits(a)
    <3>1. PICK j, k \in 1..n : j < k /\ backlog[j] = a /\ backlog[k] = b
      BY <1>10, <2>2 DEF Sooner, n
    <3>2. /\ j \in 1..Len(backlog') /\ k \in 1..Len(backlog')
          /\ backlog'[j] = a /\ backlog'[k] = b
      BY <1>6, <3>1
    <3> QED BY <2>1, <3>1, <3>2 DEF Sooner
  <2>3. CASE ~Waits(a)
    BY <2>1, <2>3 DEF Sooner
  <2> QED BY <2>2, <2>3
<1> QED
  BY <1>1, <1>2, <1>4, <1>5, <1>8, <1>9, <1>10

\* Nothing follows everything, and goes before it.
LEMMA NothingOnItsWay ==
    ASSUME UpInv
    PROVE  /\ Line(delivered["air"], <<>>, <<>>) /\ Numbers(<<>>) = {} /\ Ended(<<>>)
           /\ \A A : Precede(A, Numbers(<<>>)) /\ Precede(Numbers(<<>>), A)
<1>1. /\ InOrder(delivered["air"]) /\ Stream(<<>>) /\ InOrder(<<>>) /\ Ended(<<>>)
      /\ Numbers(<<>>) = {} /\ FrameNumbers(<<>>) = {}
  BY StreamFacts DEF UpInv
<1>2. \A A : Precede(A, {}) /\ Precede({}, A)
  BY PrecedeFacts
<1> QED
  BY <1>1, <1>2 DEF Line

\* A connection of the bridge that is new waits behind the earlier ones.
LEMMA BridgeConnectUp ==
    ASSUME TelemetryInv, Connections, UpInv, BridgeConnect
    PROVE  UpInv'
<1>1. PICK l \in Links :
         /\ Connect("ground", l) /\ bridge'.socket = l /\ bridge'.pending = <<>>
         /\ bridge'.tx_queue = bridge.tx_queue
  BY DEF BridgeConnect, TelemetryInv, BridgeInv, BridgeState
<1>2. /\ bridge.socket = 0 /\ Register("ground", Bridge)
      /\ UNCHANGED <<client, task, gcs, delivered>>
  BY DEF BridgeConnect, BridgeUnchanged, outside, air
<1>3. s_endpoints'["air"] = s_endpoints["air"]
  BY <1>2, EndpointFacts DEF Register, TelemetryInv, RouterInv
<1>4. /\ Ways(l)' = {<<>>} /\ \A m \in Links : m # l => Ways(m)' = Ways(m)
      /\ \A m \in Links : link'[m].station = IF m = l THEN "ground" ELSE link[m].station
      /\ \A a \in Links : a # l => Sooner(a, l)'
      /\ \A a, b \in Links : b # l /\ Sooner(a, b)' => a # l /\ Sooner(a, b)
  BY <1>1, <1>2, <1>3, ConnectWays
<1>5. bridge.tx_queue = <<>> /\ Payloads(<<>>) = <<>>
  <2>1. <<>> \in Seq(Queued)
    BY EmptySeq
  <2> QED BY <1>2, <2>1, PayloadFacts, Zenon DEF TelemetryInv, BridgeInv
<1>6. Held' = {}
  <2>1. Numbers(<<>>) = {} /\ FrameNumbers(<<>>) = {}
    BY StreamFacts
  <2> QED BY <1>1, <1>5, <2>1 DEF Held
<1>7. /\ Line(delivered["air"], <<>>, <<>>) /\ Numbers(<<>>) = {} /\ Ended(<<>>)
      /\ \A A : Precede(A, Numbers(<<>>)) /\ Precede(Numbers(<<>>), A)
  BY NothingOnItsWay
<1>8. InOrder(delivered'["air"]) /\ FrameNumbers(delivered'["air"]) \subseteq 1..gcs'
  BY <1>2 DEF UpInv
<1>9. \A m \in Links : \A s \in Ways(m)' :
         /\ Line(delivered'["air"], s, <<>>) /\ Numbers(s) \subseteq 1..gcs'
         /\ link'[m].station # "ground" => s = <<>>
  BY <1>2, <1>4, <1>7 DEF UpInv
<1>10. ASSUME NEW a \in Links, NEW b \in Links, NEW s \in Ways(a)', NEW t \in Ways(b)',
              a # b, Sooner(a, b)'
       PROVE  Precede(Numbers(s), Numbers(t))
  <2>1. CASE b = l
    BY <1>4, <1>7, <1>10, <2>1
  <2>2. CASE b # l
    BY <1>4, <1>10, <2>2 DEF UpInv
  <2> QED BY <2>1, <2>2
<1>11. ASSUME NEW t \in Ways(l)'
       PROVE  /\ Line(delivered["air"], t \o <<>>, Payloads(bridge'.tx_queue))
              /\ Ended(t \o <<>>) /\ Held' \subseteq 1..gcs
              /\ \A a \in Links \ {l} : \A s \in Ways(a)' : Sooner(a, l)' /\ Precede(Numbers(s), Held')
  <2>1. t = <<>> /\ <<>> \o <<>> = <<>>
    BY <1>4
  <2> QED BY <1>1, <1>4, <1>5, <1>6, <1>7, <2>1, PrecedeFacts
<1> QED
  BY <1>1, <1>2, <1>8, <1>9, <1>10, <1>11 DEF UpInv

\* Another station does not come between the connections of the bridge.
LEMMA OtherConnectsUp ==
    ASSUME TelemetryInv, Connections, UpInv, OtherConnects
    PROVE  UpInv'
<1>1. PICK l \in Links : Connect("other", l)
  BY DEF OtherConnects
<1>2. UNCHANGED <<client, task, gcs, delivered, bridge, s_endpoints>>
  BY DEF OtherConnects, router, air, ground
<1>3. /\ Ways(l)' = {<<>>} /\ \A m \in Links : m # l => Ways(m)' = Ways(m)
      /\ \A m \in Links : link'[m].station = IF m = l THEN "other" ELSE link[m].station
      /\ \A a \in Links : a # l => Sooner(a, l)'
      /\ \A a, b \in Links : b # l /\ Sooner(a, b)' => a # l /\ Sooner(a, b)
      /\ \A a, b \in Links : a # l /\ b # l /\ Sooner(a, b) => Sooner(a, b)'
  BY <1>1, <1>2, ConnectWays
<1>4. bridge.socket # l
  BY <1>1, WayTypes DEF Connect, Connections
<1>5. /\ Line(delivered["air"], <<>>, <<>>) /\ Numbers(<<>>) = {} /\ Ended(<<>>)
      /\ \A A : Precede(A, Numbers(<<>>)) /\ Precede(Numbers(<<>>), A)
  BY NothingOnItsWay
<1>6. InOrder(delivered'["air"]) /\ FrameNumbers(delivered'["air"]) \subseteq 1..gcs'
  BY <1>2 DEF UpInv
<1>7. \A m \in Links : \A s \in Ways(m)' :
         /\ Line(delivered'["air"], s, <<>>) /\ Numbers(s) \subseteq 1..gcs'
         /\ link'[m].station # "ground" => s = <<>>
  BY <1>2, <1>3, <1>5 DEF UpInv
<1>8. ASSUME NEW a \in Links, NEW b \in Links, NEW s \in Ways(a)', NEW t \in Ways(b)',
             a # b, Sooner(a, b)'
      PROVE  Precede(Numbers(s), Numbers(t))
  <2>1. CASE b = l
    BY <1>3, <1>5, <1>8, <2>1
  <2>2. CASE b # l
    BY <1>3, <1>8, <2>2 DEF UpInv
  <2> QED BY <2>1, <2>2
<1>9. ASSUME NEW m \in Links, m = bridge.socket, NEW t \in Ways(m)'
      PROVE  /\ Line(delivered["air"], t \o bridge.pending, Payloads(bridge.tx_queue))
             /\ Ended(t \o bridge.pending) /\ Held \subseteq 1..gcs
             /\ \A a \in Links \ {m} : \A s \in Ways(a)' :
                    link'[a].station = "ground" => Sooner(a, m)' /\ Precede(Numbers(s), Held)
  <2>1. t \in Ways(m) /\ m # l
    BY <1>3, <1>4, <1>9
  <2>2. /\ Line(delivered["air"], t \o bridge.pending, Payloads(bridge.tx_queue))
        /\ Ended(t \o bridge.pending) /\ Held \subseteq 1..gcs
        /\ \A a \in Links \ {m} : \A s \in Ways(a) :
               link[a].station = "ground" => Sooner(a, m) /\ Precede(Numbers(s), Held)
    BY <1>9, <2>1 DEF UpInv
  <2>3. ASSUME NEW a \in Links \ {m}, NEW s \in Ways(a)', link'[a].station = "ground"
        PROVE  Sooner(a, m)' /\ Precede(Numbers(s), Held)
    <3>1. a # l /\ link[a].station = "ground"
      BY <1>3, <2>3
    <3>2. s \in Ways(a)
      BY <1>3, <2>3, <3>1
    <3>3. Sooner(a, m) /\ Precede(Numbers(s), Held)
      BY <2>2, <3>1, <3>2
    <3> QED BY <1>3, <2>1, <3>1, <3>3
  <2> QED BY <2>2, <2>3
<1>10. Held' = Held
  BY <1>2 DEF Held
<1>11. \A m \in Links : m = bridge'.socket => \A t \in Ways(m)' :
          /\ Line(delivered'["air"], t \o bridge'.pending, Payloads(bridge'.tx_queue))
          /\ Ended(t \o bridge'.pending) /\ Held' \subseteq 1..gcs'
          /\ \A a \in Links \ {m} : \A s \in Ways(a)' :
                 link'[a].station = "ground" => Sooner(a, m)' /\ Precede(Numbers(s), Held')
  BY <1>2, <1>9, <1>10
<1> QED
  BY <1>6, <1>7, <1>8, <1>11 DEF UpInv

\* What is left when the first of those who wait is taken.
LEMMA TailPlaces ==
    ASSUME NEW q \in Seq(Links), q # <<>>
    PROVE  /\ Len(q) \in Nat /\ Len(q) # 0 /\ Len(Tail(q)) = Len(q) - 1
           /\ q[1] = Head(q) /\ 1 \in 1..Len(q)
           /\ \A k \in 1..Len(Tail(q)) : Tail(q)[k] = q[k + 1] /\ k + 1 \in 1..Len(q)
           /\ \A k \in 1..Len(q) : k # 1 => k - 1 \in 1..Len(Tail(q)) /\ Tail(q)[k - 1] = q[k]
<1>1. Len(q) \in Nat /\ Len(q) # 0
  BY EmptyLen
<1>2. /\ Len(Tail(q)) = Len(q) - 1
      /\ \A k \in 1..Len(q) - 1 : Tail(q)[k] = q[k + 1]
  BY HeadTailProperties
<1>3. ASSUME NEW k \in 1..Len(q), k # 1
      PROVE  k - 1 \in 1..Len(Tail(q)) /\ Tail(q)[k - 1] = q[k]
  <2>1. k - 1 \in 1..Len(q) - 1 /\ (k - 1) + 1 = k
    BY <1>1, <1>3
  <2>2. Tail(q)[k - 1] = q[(k - 1) + 1]
    BY <1>2, <2>1
  <2> QED BY <1>2, <2>1, <2>2
<1> QED
  BY <1>1, <1>2, <1>3

\* The link at the head of the backlog gets its client, or is closed.
LEMMA AcceptTcpUp ==
    ASSUME TelemetryInv, Connections, UpInv, AcceptTcp
    PROVE  UpInv'
<1> DEFINE free == {i \in Slots : ~client[i].used}
           slot == CHOOSE i \in free : \A j \in free : i <= j
<1>1. PICK l \in Links : l = Head(backlog)
  <2>1. Head(backlog) \in Links
    BY QueueFacts DEF AcceptTcp, TelemetryInv, LinkInv
  <2> QED BY <2>1
<1> DEFINE new == [NoClient EXCEPT !.used = TRUE, !.link = l, !.has_queue = TRUE]
<1>2. /\ task = Loop /\ backlog # <<>> /\ backlog' = Tail(backlog) /\ \A i \in Slots : ~Stale(i)
      /\ UNCHANGED <<s_endpoints, bridge, gcs, delivered>>
      /\ \/ /\ link' = [link EXCEPT ![l].air = "closed"] /\ UNCHANGED <<client, task>>
         \/ /\ free # {} /\ link' = [link EXCEPT ![l].air = "open"]
            /\ client' = [client EXCEPT ![slot] = new]
            /\ task' = [Loop EXCEPT !.at = "accepted", !.slot = slot]
  BY <1>1 DEF AcceptTcp, router, ground
<1>3. free # {} => slot \in Slots /\ ~client[slot].used
  <2> SUFFICES ASSUME free # {} PROVE slot \in free
    OBVIOUS
  <2>1. free \subseteq Nat
    BY TelemetryAssumption
  <2>2. \E i \in free : \A j \in free : i <= j
    <3> HIDE DEF free
    <3> QED BY <2>1, LeastNat, Zenon
  <2> HIDE DEF free
  <2> QED BY <2>2
<1>4. new.used /\ new.link = l
  BY DEF NoClient
<1> HIDE DEF slot, new, free
<1>5. \A i \in Slots : ~Closing(i) /\ ~Closing(i)'
  <2>1. task = Loop /\ (task' = Loop \/ task' = [Loop EXCEPT !.at = "accepted", !.slot = slot])
    BY <1>2
  <2>2. Loop.at = "loop" /\ [Loop EXCEPT !.at = "accepted", !.slot = slot].at = "accepted"
    BY DEF Loop
  <2> QED BY <2>1, <2>2, Zenon DEF Closing
<1>6. \A m \in Links : /\ link'[m].station = link[m].station /\ link'[m].up = link[m].up
                       /\ m # l => link'[m].air = link[m].air
                       /\ m = l => link'[m].air # "waiting"
  <2>1. PICK x \in {"closed", "open"} : link' = [link EXCEPT ![l] = [link[l] EXCEPT !.air = x]]
    BY <1>2
  <2> QED BY <2>1, WayTypes DEF Link
<1>7. \A i \in Slots : client'[i] = client[i] \/ (~client[i].used /\ client'[i] = new)
  BY <1>2, <1>3, WayTypes
<1>8. /\ Len(backlog) \in Nat /\ Len(backlog) # 0 /\ Len(backlog') = Len(backlog) - 1
      /\ backlog[1] = l /\ 1 \in 1..Len(backlog)
      /\ \A k \in 1..Len(backlog') : backlog'[k] = backlog[k + 1] /\ k + 1 \in 1..Len(backlog)
      /\ \A k \in 1..Len(backlog) : k # 1 =>
             k - 1 \in 1..Len(backlog') /\ backlog'[k - 1] = backlog[k]
  <2>1. backlog \in Seq(Links)
    BY WayTypes
  <2> QED BY <1>1, <1>2, <2>1, TailPlaces
<1>9. /\ Waits(l) /\ \A j, k \in 1..Len(backlog) : j # k => backlog[j] # backlog[k]
      /\ \A i \in Slots : client[i].used =>
             client[i].link # l /\ link[client[i].link].station # link[l].station
  BY <1>1, <1>2, <1>8 DEF Connections, Waits, Stale
<1>10. \A m \in Links : Waits(m)' <=> m # l /\ Waits(m)
  BY <1>6 DEF Waits
<1>11. ASSUME NEW m \in Links, m # l PROVE Ways(m)' \subseteq Ways(m)
  <2>1. \A i \in Slots : client'[i].used /\ client'[i].link = m /\ ~Closing(i)' =>
           client[i].used /\ client[i].link = m /\ ~Closing(i) /\ AirParser(i)' = AirParser(i)
    BY <1>2, <1>4, <1>5, <1>7, <1>11 DEF AirParser, Registered
  <2> QED BY <1>6, <1>11, <2>1, WaysKept
<1>12. Ways(l)' \subseteq Ways(l)
  <2> SUFFICES ASSUME NEW s \in Ways(l)' PROVE s \in Ways(l)
    OBVIOUS
  <2>1. Ways(l) = {link[l].up}
    BY <1>9, WaysOf
  <2>2. PICK i \in Slots : client'[i].used /\ client'[i].link = l /\ s = AirParser(i)' \o link'[l].up
    BY <1>6 DEF Ways, Waits
  <2>3. ~client[i].used
    BY <1>7, <1>9, <2>2
  <2>4. AirParser(i)' = <<>>
    BY <1>2, <2>3 DEF AirParser, Registered, TelemetryInv, ClientInv
  <2>5. <<>> \o link[l].up = link[l].up
    BY WayTypes, ConcatEmptySeq
  <2> QED BY <1>6, <2>1, <2>2, <2>4, <2>5
<1>13. ASSUME NEW a \in Links, NEW b \in Links, a # b, Sooner(a, b)' PROVE Sooner(a, b)
  <2>1. Waits(b) /\ b # l
    BY <1>10, <1>13 DEF Sooner
  <2>2. CASE a = l
    <3>1. PICK k \in 1..Len(backlog) : backlog[k] = b
      BY <2>1 DEF Connections
    <3>2. 1 < k
      BY <1>8, <2>1, <3>1
    <3> QED BY <1>8, <2>1, <2>2, <3>1, <3>2 DEF Sooner
  <2>3. CASE a # l /\ Waits(a)
    <3>1. PICK j, k \in 1..Len(backlog') : j < k /\ backlog'[j] = a /\ backlog'[k] = b
      BY <1>10, <1>13, <2>3 DEF Sooner
    <3>2. /\ j + 1 \in 1..Len(backlog) /\ k + 1 \in 1..Len(backlog) /\ j + 1 < k + 1
          /\ backlog[j + 1] = a /\ backlog[k + 1] = b
      BY <1>8, <3>1
    <3> QED BY <2>1, <3>2 DEF Sooner
  <2>4. CASE ~Waits(a)
    BY <2>1, <2>4 DEF Sooner
  <2> QED BY <2>2, <2>3, <2>4
<1>14. ASSUME NEW a \in Links, NEW b \in Links, b # l, Sooner(a, b) PROVE Sooner(a, b)'
  <2>1. Waits(b) /\ Waits(b)'
    BY <1>10, <1>14 DEF Sooner
  <2>2. CASE Waits(a)'
    <3>1. PICK j, k \in 1..Len(backlog) : j < k /\ backlog[j] = a /\ backlog[k] = b
      BY <1>10, <1>14, <2>2 DEF Sooner
    <3>2. j # 1 /\ k # 1
      BY <1>8, <1>10, <1>14, <2>2, <3>1
    <3>3. /\ j - 1 \in 1..Len(backlog') /\ k - 1 \in 1..Len(backlog') /\ j - 1 < k - 1
          /\ backlog'[j - 1] = a /\ backlog'[k - 1] = b
      BY <1>8, <3>1, <3>2
    <3> QED BY <2>1, <3>3, Zenon DEF Sooner
  <2>3. CASE ~Waits(a)'
    BY <2>1, <2>3 DEF Sooner
  <2> QED BY <2>2, <2>3
<1>15. ASSUME NEW a \in Links, a # l, NEW s \in Ways(a), link[a].station = "ground",
              link[l].station = "ground"
       PROVE  ~Sooner(a, l)
  <2> SUFFICES ASSUME Sooner(a, l) PROVE FALSE
    OBVIOUS
  <2>1. Waits(a)
    <3> SUFFICES ASSUME ~Waits(a) PROVE FALSE
      OBVIOUS
    <3>1. PICK i \in Slots : client[i].used /\ client[i].link = a
      BY <1>15, WaysOf
    <3> QED BY <1>9, <1>15, <3>1
  <2>2. PICK j, k \in 1..Len(backlog) : j < k /\ backlog[j] = a /\ backlog[k] = l
    BY <2>1 DEF Sooner
  <2>3. k = 1
    BY <1>8, <1>9, <2>2
  <2> QED BY <1>8, <2>2, <2>3
<1>16. ASSUME NEW m \in Links, m = bridge.socket, NEW t \in Ways(m)'
       PROVE  /\ Line(delivered["air"], t \o bridge.pending, Payloads(bridge.tx_queue))
              /\ Ended(t \o bridge.pending) /\ Held \subseteq 1..gcs
              /\ \A a \in Links \ {m} : \A s \in Ways(a)' :
                     link[a].station = "ground" => Sooner(a, m)' /\ Precede(Numbers(s), Held)
  <2>1. t \in Ways(m)
    BY <1>11, <1>12, <1>16
  <2>2. /\ Line(delivered["air"], t \o bridge.pending, Payloads(bridge.tx_queue))
        /\ Ended(t \o bridge.pending) /\ Held \subseteq 1..gcs
        /\ \A a \in Links \ {m} : \A s \in Ways(a) :
               link[a].station = "ground" => Sooner(a, m) /\ Precede(Numbers(s), Held)
    BY <1>16, <2>1 DEF UpInv
  <2>3. ASSUME NEW a \in Links \ {m}, NEW s \in Ways(a)', link[a].station = "ground"
        PROVE  Sooner(a, m)' /\ Precede(Numbers(s), Held)
    <3>1. s \in Ways(a)
      BY <1>11, <1>12, <2>3
    <3>2. Sooner(a, m) /\ Precede(Numbers(s), Held)
      BY <2>2, <2>3, <3>1
    <3>3. m # l
      <4>1. m = l => link[l].station = "ground"
        BY <1>16, WayTypes DEF Connections
      <4> QED BY <1>15, <2>3, <3>1, <3>2, <4>1
    <3> QED BY <1>14, <3>2, <3>3
  <2> QED BY <2>2, <2>3
<1>17. Held' = Held /\ bridge' = bridge /\ gcs' = gcs /\ delivered'["air"] = delivered["air"]
  BY <1>2 DEF Held
<1>18. InOrder(delivered'["air"]) /\ FrameNumbers(delivered'["air"]) \subseteq 1..gcs'
  BY <1>17 DEF UpInv
<1>19. ASSUME NEW m \in Links, NEW s \in Ways(m)'
       PROVE  /\ Line(delivered["air"], s, <<>>) /\ Numbers(s) \subseteq 1..gcs
              /\ link[m].station # "ground" => s = <<>>
  <2>1. s \in Ways(m)
    BY <1>11, <1>12, <1>19
  <2> QED BY <2>1 DEF UpInv
<1>20. ASSUME NEW a \in Links, NEW b \in Links, NEW s \in Ways(a)', NEW t \in Ways(b)',
              a # b, Sooner(a, b)'
       PROVE  Precede(Numbers(s), Numbers(t))
  <2>1. s \in Ways(a) /\ t \in Ways(b) /\ Sooner(a, b)
    BY <1>11, <1>12, <1>13, <1>20
  <2> QED BY <1>20, <2>1 DEF UpInv
<1>21. \A m \in Links : m = bridge'.socket => \A t \in Ways(m)' :
          /\ Line(delivered'["air"], t \o bridge'.pending, Payloads(bridge'.tx_queue))
          /\ Ended(t \o bridge'.pending) /\ Held' \subseteq 1..gcs'
          /\ \A a \in Links \ {m} : \A s \in Ways(a)' :
                 link'[a].station = "ground" => Sooner(a, m)' /\ Precede(Numbers(s), Held')
  BY <1>6, <1>16, <1>17
<1>22. \A m \in Links : \A s \in Ways(m)' :
          /\ Line(delivered'["air"], s, <<>>) /\ Numbers(s) \subseteq 1..gcs'
          /\ link'[m].station # "ground" => s = <<>>
  BY <1>6, <1>17, <1>19
<1> QED
  BY <1>18, <1>20, <1>21, <1>22 DEF UpInv

-----------------------------------------------------------------------------
(* Steps that leave the way of the frames alone, or only end it. *)

\* What the ground unit and the stations do to a connection but for its frames.
LEMMA GroundKept ==
    ASSUME TelemetryInv, Connections, DownInv, UpInv,
           UNCHANGED <<client, udp, task, backlog, environment, fc, gcs, delivered>>,
           s_endpoints'["air"] = s_endpoints["air"], s_endpoints'["ground"][Usb] = <<>>,
           \A l \in Links : /\ link'[l].air = link[l].air /\ link'[l].station = link[l].station
                            /\ link'[l].up = link[l].up,
           bridge'.socket # 0 =>
               /\ bridge'.socket = bridge.socket /\ bridge'.pending = bridge.pending
               /\ bridge'.tx_queue = bridge.tx_queue
               /\ link'[bridge.socket].peer = link[bridge.socket].peer
               /\ link'[bridge.socket].down = link[bridge.socket].down,
           Bridge \in Registered("ground")' =>
               /\ bridge'.socket # 0 /\ Bridge \in Registered("ground")
               /\ s_endpoints'["ground"][Bridge] = s_endpoints["ground"][Bridge]
    PROVE  Connections' /\ DownInv' /\ UpInv'
<1>1. Connections'
  <2>1. bridge'.socket # 0 => link'[bridge.socket].peer
    BY DEF Connections
  <2> QED BY <2>1, ConnectionsKept
<1>2. DownInv'
  BY WayTypes, DownKept
<1>3. UpInv'
  <2>1. \A j \in Slots : AirParser(j)' = AirParser(j) /\ (Closing(j)' <=> Closing(j))
    BY DEF AirParser, Registered, Closing
  <2>2. ASSUME NEW l \in Links PROVE Ways(l)' \subseteq Ways(l)
    BY <2>1, WaysKept
  <2> QED BY <2>2, UpKept
<1> QED
  BY <1>1, <1>2, <1>3

\* What changes when a station leaves its connection.
LEMMA PeerClosesWay ==
    ASSUME TelemetryInv, NEW l \in Links, link' = PeerCloses(l)
    PROVE  \A m \in Links :
              /\ link'[m].air = link[m].air /\ link'[m].station = link[m].station
              /\ link'[m].up = link[m].up
              /\ m # l => link'[m] = link[m]
<1>1. link' = [link EXCEPT ![l] = [link[l] EXCEPT !.peer = FALSE, !.down = <<>>]]
  BY WayTypes, Zenon DEF PeerCloses
<1> QED
  BY <1>1, WayTypes DEF Link

\* What the ground unit does with the connection, and a station that leaves.
LEMMA GroundSteps ==
    ASSUME TelemetryInv, Connections, DownInv, UpInv,
           \/ UNCHANGED vars \/ Tick \/ StaDisconnected \/ Reconnect \/ StaGotIp
           \/ BridgeConnected \/ BridgeDisconnect \/ BridgeCleared \/ GroundRestarts
           \/ \E l \in Links : OtherLeaves(l)
    PROVE  Connections' /\ DownInv' /\ UpInv'
<1>1. /\ Usb # Bridge /\ s_endpoints["ground"][Usb] = <<>> /\ DOMAIN s_endpoints = Units
      /\ {"air", "ground"} = Units
      /\ Bridge \in Registered("ground") <=> bridge.socket # 0 /\ bridge.at # "unregistered"
      /\ bridge.socket # 0 => bridge.socket \in Links
  BY EndpointFacts, WayTypes DEF Connections, TelemetryInv, BridgeInv, RouterInv
<1>2. CASE \/ UNCHANGED vars \/ Tick \/ StaDisconnected \/ Reconnect \/ StaGotIp
  <2>1. UNCHANGED <<client, udp, task, backlog, environment, fc, gcs, delivered, s_endpoints, link, bridge>>
    BY <1>2 DEF vars, router, air, ground, outside, Tick, StaDisconnected, Reconnect, StaGotIp,
       StationUnchanged
  <2> QED BY <1>1, <2>1, GroundKept DEF Registered
<1>3. CASE BridgeConnected
  <2>1. /\ UNCHANGED <<client, udp, task, backlog, environment, fc, gcs, delivered, s_endpoints, link>>
        /\ bridge' = [bridge EXCEPT !.at = "loop", !.connected = TRUE]
    BY <1>3 DEF router, air, outside, BridgeConnected, BridgeUnchanged
  <2>2. /\ bridge'.socket = bridge.socket /\ bridge'.pending = bridge.pending
        /\ bridge'.tx_queue = bridge.tx_queue
    BY <2>1 DEF TelemetryInv, BridgeInv, BridgeState
  <2> QED BY <1>1, <2>1, <2>2, GroundKept DEF Registered
<1>4. CASE BridgeDisconnect
  <2>1. /\ UNCHANGED <<client, udp, task, backlog, environment, fc, gcs, delivered, link>>
        /\ bridge' = [bridge EXCEPT !.at = "unregistered"] /\ Unregister("ground", Bridge)
    BY <1>4 DEF air, outside, BridgeDisconnect, BridgeUnchanged
  <2>2. /\ bridge'.socket = bridge.socket /\ bridge'.pending = bridge.pending
        /\ bridge'.tx_queue = bridge.tx_queue
    BY <2>1 DEF TelemetryInv, BridgeInv, BridgeState
  <2>3. /\ s_endpoints'["air"] = s_endpoints["air"]
        /\ s_endpoints'["ground"] = [d \in Registered("ground") \ {Bridge} |-> s_endpoints["ground"][d]]
    BY <1>1, <2>1 DEF Unregister
  <2>4. Bridge \notin Registered("ground")' /\ s_endpoints'["ground"][Usb] = <<>>
    BY <1>1, <2>3 DEF Registered, TelemetryInv, BridgeInv
  <2> QED BY <1>1, <2>1, <2>2, <2>3, <2>4, GroundKept
<1>5. CASE BridgeCleared
  <2>1. /\ UNCHANGED <<client, udp, task, backlog, environment, fc, gcs, delivered, s_endpoints>>
        /\ bridge.at = "unregistered" /\ bridge' = Disconnected /\ link' = PeerCloses(bridge.socket)
    BY <1>5 DEF router, air, outside, BridgeCleared, BridgeReset, BridgeUnchanged
  <2>2. bridge.socket \in Links /\ Bridge \notin Registered("ground")'
    BY <1>1, <2>1 DEF Registered, TelemetryInv, BridgeInv
  <2>3. \A m \in Links : /\ link'[m].air = link[m].air /\ link'[m].station = link[m].station
                         /\ link'[m].up = link[m].up
    BY <2>1, <2>2, PeerClosesWay
  <2>4. bridge'.socket = 0
    BY <2>1 DEF Disconnected
  <2> QED BY <1>1, <2>1, <2>2, <2>3, <2>4, GroundKept
<1>6. CASE GroundRestarts
  <2>1. /\ UNCHANGED <<client, udp, task, backlog, environment, fc, gcs, delivered>>
        /\ s_endpoints' = [s_endpoints EXCEPT !["ground"] = [e \in {Usb} |-> <<>>]]
        /\ bridge' = Disconnected
        /\ link' = IF bridge.socket = 0 THEN link ELSE PeerCloses(bridge.socket)
    BY <1>6 DEF air, GroundRestarts
  <2>2. /\ s_endpoints'["air"] = s_endpoints["air"] /\ s_endpoints'["ground"] = [e \in {Usb} |-> <<>>]
    BY <1>1, <2>1
  <2>3. Bridge \notin Registered("ground")' /\ s_endpoints'["ground"][Usb] = <<>>
    BY <1>1, <2>2 DEF Registered
  <2>4. \A m \in Links : /\ link'[m].air = link[m].air /\ link'[m].station = link[m].station
                         /\ link'[m].up = link[m].up
    <3>1. CASE bridge.socket = 0
      BY <2>1, <3>1
    <3>2. CASE bridge.socket # 0
      BY <1>1, <2>1, <3>2, PeerClosesWay
    <3> QED BY <3>1, <3>2
  <2>5. bridge'.socket = 0
    BY <2>1 DEF Disconnected
  <2> QED BY <1>1, <2>1, <2>2, <2>3, <2>4, <2>5, GroundKept
<1>7. ASSUME NEW l \in Links, OtherLeaves(l)
      PROVE  Connections' /\ DownInv' /\ UpInv'
  <2>1. /\ UNCHANGED <<client, udp, task, backlog, environment, fc, gcs, delivered, s_endpoints, bridge>>
        /\ link[l].station = "other" /\ link' = PeerCloses(l)
    BY <1>7 DEF router, air, ground, outside, OtherLeaves
  <2>2. \A m \in Links : /\ link'[m].air = link[m].air /\ link'[m].station = link[m].station
                         /\ link'[m].up = link[m].up
                         /\ m # l => link'[m] = link[m]
    BY <2>1, PeerClosesWay
  <2>3. bridge.socket # l
    BY <2>1, WayTypes DEF Connections
  <2>4. bridge'.socket # 0 => link'[bridge.socket] = link[bridge.socket]
    BY <1>1, <2>1, <2>2, <2>3
  <2>5. /\ Bridge \in Registered("ground")' =>
               bridge'.socket # 0 /\ Bridge \in Registered("ground")
    BY <1>1, <2>1 DEF Registered
  <2> QED BY <1>1, <2>1, <2>2, <2>4, <2>5, GroundKept
<1> QED
  BY <1>2, <1>3, <1>4, <1>5, <1>6, <1>7

-----------------------------------------------------------------------------
(* Steps that make and end clients of the air unit. *)

\* A client is registered with an empty parser.
LEMMA RegisterTcpWays ==
    ASSUME TelemetryInv, Connections, DownInv, UpInv, RegisterTcp
    PROVE  Connections' /\ DownInv' /\ UpInv'
<1>1. /\ task.at = "accepted" /\ task' = Loop
      /\ CanRegister("air", Tcp(task.slot)) /\ Register("air", Tcp(task.slot))
      /\ UNCHANGED <<client, udp, backlog, link, bridge, environment, fc, gcs, delivered>>
  BY DEF RegisterTcp, TcpUnchanged, ground, outside
<1>2. /\ s_endpoints'["ground"] = s_endpoints["ground"]
      /\ s_endpoints'["air"] = [d \in Registered("air") \cup {Tcp(task.slot)} |->
                                   IF d = Tcp(task.slot) THEN <<>> ELSE s_endpoints["air"][d]]
      /\ Tcp(task.slot) \notin Registered("air") /\ Uart \in Registered("air")
      /\ Uart # Tcp(task.slot)
  BY <1>1, EndpointFacts, Zenon DEF Register, CanRegister, TelemetryInv, RouterInv, ClientInv
<1>3. s_endpoints'["air"][Uart] = s_endpoints["air"][Uart]
  BY <1>2
<1>4. \A j \in Slots : /\ AirParser(j)' = AirParser(j) /\ ~Closing(j) /\ ~Closing(j)'
  <2>1. \A j \in Slots : ~Closing(j) /\ ~Closing(j)'
    BY <1>1 DEF Closing, Loop
  <2>2. Registered("air")' = Registered("air") \cup {Tcp(task.slot)}
    BY <1>2 DEF Registered
  <2> QED BY <1>2, <2>1, <2>2 DEF AirParser
<1>5. Connections'
  BY <1>1, <1>2, ConnectionsKept DEF Connections
<1>6. DownInv'
  BY <1>1, <1>2, <1>3, DownKept DEF Registered
<1>7. \A l \in Links : Ways(l)' \subseteq Ways(l)
  BY <1>1, <1>4, WaysKept
<1>8. UpInv'
  BY <1>1, <1>7, UpKept
<1> QED
  BY <1>5, <1>6, <1>8

\* A client that is forgotten gives its link up.
LEMMA CloseTcpWays ==
    ASSUME TelemetryInv, Connections, DownInv, UpInv, NEW i \in Slots, CloseTcp(i)
    PROVE  Connections' /\ DownInv' /\ UpInv'
<1>1. /\ task = Loop /\ Unregister("air", Tcp(i))
      /\ task' = [Loop EXCEPT !.at = "unregistered", !.slot = i]
      /\ UNCHANGED <<client, udp, backlog, link, bridge, environment, fc, gcs, delivered>>
  BY DEF CloseTcp, TcpUnchanged, ground, outside
<1>2. /\ s_endpoints'["ground"] = s_endpoints["ground"]
      /\ s_endpoints'["air"] = [d \in Registered("air") \ {Tcp(i)} |-> s_endpoints["air"][d]]
      /\ Uart \in Registered("air")
  BY <1>1, EndpointFacts, Zenon DEF Unregister, TelemetryInv, RouterInv, ClientInv
<1>3. s_endpoints'["air"][Uart] = s_endpoints["air"][Uart]
  BY <1>2, EndpointFacts
<1>4. \A j \in Slots : ~Closing(j)' => AirParser(j)' = AirParser(j) /\ ~Closing(j)
  <2>1. /\ \A j \in Slots : ~Closing(j)
        /\ \A j \in Slots : ~Closing(j)' => j # i
    BY <1>1 DEF Closing, Loop
  <2>2. Registered("air")' = Registered("air") \ {Tcp(i)}
    BY <1>2 DEF Registered
  <2>3. \A j \in Slots : j # i => Tcp(j) # Tcp(i)
    BY EndpointFacts
  <2> QED BY <1>2, <2>1, <2>2, <2>3 DEF AirParser
<1>5. Connections'
  BY <1>1, <1>2, ConnectionsKept DEF Connections
<1>6. DownInv'
  BY <1>1, <1>2, <1>3, DownKept DEF Registered
<1>7. \A l \in Links : Ways(l)' \subseteq Ways(l)
  BY <1>1, <1>4, WaysKept
<1>8. UpInv'
  BY <1>1, <1>7, UpKept
<1> QED
  BY <1>5, <1>6, <1>8

\* A client that is freed closes its link.
LEMMA FreeTcpWays ==
    ASSUME TelemetryInv, Connections, DownInv, UpInv, FreeTcp
    PROVE  Connections' /\ DownInv' /\ UpInv'
<1>1. task.slot \in Slots /\ client[task.slot].used /\ task.at = "unregistered"
  BY DEF FreeTcp, TelemetryInv, ClientInv
<1>2. PICK i \in Slots : i = task.slot
  BY <1>1
<1>3. PICK l \in Links : l = client[i].link
  BY <1>1, <1>2, WayTypes
<1>4. /\ task' = Loop /\ link' = [link EXCEPT ![l].air = "closed", ![l].up = <<>>]
      /\ client' = [client EXCEPT ![i] = NoClient]
      /\ UNCHANGED <<udp, backlog, s_endpoints, bridge, environment, fc, gcs, delivered>>
  BY <1>2, <1>3 DEF FreeTcp, TcpUnchanged, ground, outside
<1>5. /\ link[l].air = "open" /\ \A k \in 1..Len(backlog) : backlog[k] # l
      /\ \A j \in Slots : client[j].used /\ j # i => client[j].link # l
  BY <1>1, <1>2, <1>3 DEF Connections, Waits
<1>6. \A m \in Links :
         /\ link'[m].station = link[m].station /\ link'[m].peer = link[m].peer
         /\ link'[m].down = link[m].down
         /\ m # l => link'[m] = link[m]
         /\ m = l => link'[m].air = "closed"
  <2>1. link' = [link EXCEPT ![l] = [link[l] EXCEPT !.air = "closed", !.up = <<>>]]
    BY <1>4, WayTypes, Zenon
  <2> QED BY <2>1, WayTypes DEF Link
<1>7. \A j \in Slots : /\ j # i => client'[j] = client[j]
                       /\ ~client'[i].used
                       /\ AirParser(j)' = AirParser(j) /\ ~Closing(j)'
                       /\ j # i => ~Closing(j)
  <2>1. \A j \in Slots : client'[j] = IF j = i THEN NoClient ELSE client[j]
    BY <1>4, WayTypes
  <2>2. \A j \in Slots : ~Closing(j)' /\ (j # i => ~Closing(j)) /\ AirParser(j)' = AirParser(j)
    BY <1>2, <1>4 DEF Closing, Loop, AirParser, Registered
  <2> QED BY <2>1, <2>2 DEF NoClient
<1>8. \A j \in Slots : client'[j].used => j # i /\ client[j].used /\ client'[j] = client[j]
  BY <1>7
<1>9. Connections'
  <2>1. \A j \in Slots : client'[j].used => link'[client'[j].link] = link[client[j].link]
    BY <1>5, <1>6, <1>8, WayTypes
  <2>2. \A k \in 1..Len(backlog) : link'[backlog[k]] = link[backlog[k]]
    BY <1>5, <1>6, WayTypes
  <2>3. \A m \in Links : Waits(m)' => Waits(m)
    BY <1>6 DEF Waits
  <2>4. bridge.socket # 0 => link'[bridge.socket].station = "ground" /\ link'[bridge.socket].peer
    BY <1>6, WayTypes DEF Connections
  <2>5. \A j \in Slots : client'[j].used => link'[client'[j].link].air = "open"
    BY <1>8, <2>1 DEF Connections
  <2>6. \A j, k \in Slots : client'[j].used /\ client'[k].used /\ j # k =>
           link'[client'[j].link].station # link'[client'[k].link].station
    BY <1>8, <2>1 DEF Connections
  <2>7. \A k \in 1..Len(backlog') : link'[backlog'[k]].air = "waiting"
    <3>1. backlog' = backlog /\ \A k \in 1..Len(backlog) : link[backlog[k]].air = "waiting"
      BY <1>4 DEF Connections, Waits
    <3> QED BY <2>2, <3>1
  <2> QED BY <1>4, <2>3, <2>4, <2>5, <2>6, <2>7, Zenon DEF Connections, Waits
<1>10. DownInv'
  <2>1. Bridge \in Registered("ground") => bridge.socket \in Links
    BY DownTypes
  <2>2. Bridge \in Registered("ground")' <=> Bridge \in Registered("ground")
    BY <1>4 DEF Registered
  <2>3. Bridge \in Registered("ground") =>
           /\ link'[bridge.socket].down = link[bridge.socket].down
           /\ link'[bridge.socket].air = "waiting" => link[bridge.socket].air = "waiting"
    BY <1>6, <2>1
  <2> QED BY <1>4, <1>8, <2>2, <2>3, DownKept
<1>11. ASSUME NEW m \in Links PROVE Ways(m)' \subseteq Ways(m)
  <2>1. CASE m = l
    <3>1. \A j \in Slots : ~(client'[j].used /\ client'[j].link = l)
      BY <1>5, <1>8
    <3>2. ~Waits(l)'
      BY <1>6 DEF Waits
    <3> QED BY <2>1, <3>1, <3>2 DEF Ways
  <2>2. CASE m # l
    BY <1>6, <1>7, <1>8, <2>2, WaysKept
  <2> QED BY <2>1, <2>2
<1>12. UpInv'
  <2>1. \A m \in Links : link'[m].air = "waiting" <=> link[m].air = "waiting"
    BY <1>5, <1>6
  <2> QED BY <1>4, <1>6, <1>11, <2>1, UpKept, Zenon
<1> QED
  BY <1>9, <1>10, <1>12

\* A UDP client that is freed.
LEMMA CountExpiredWays ==
    ASSUME TelemetryInv, Connections, DownInv, UpInv, CountExpired
    PROVE  Connections' /\ DownInv' /\ UpInv'
<1>1. /\ task.at = "expired" /\ task' = Loop /\ udp' = [udp EXCEPT ![task.slot] = NoUdp]
      /\ UNCHANGED <<client, backlog, link, bridge, environment, fc, gcs, delivered, s_endpoints>>
  BY DEF CountExpired, UdpUnchanged, ground, router
<1>2. \A i \in UdpSlots : udp'[i].used => udp[i].used
  BY <1>1 DEF NoUdp, TelemetryInv, ClientInv
<1>3. \A j \in Slots : AirParser(j)' = AirParser(j) /\ ~Closing(j) /\ ~Closing(j)'
  BY <1>1 DEF AirParser, Registered, Closing, Loop
<1>4. Connections'
  BY <1>1, <1>2, ConnectionsKept DEF Connections
<1>5. DownInv'
  BY <1>1, DownKept DEF Registered
<1>6. \A l \in Links : Ways(l)' \subseteq Ways(l)
  BY <1>1, <1>3, WaysKept
<1>7. UpInv'
  BY <1>1, <1>6, UpKept
<1> QED
  BY <1>4, <1>5, <1>7

\* Without datagrams there are no UDP clients.
LEMMA NoUdpSteps ==
    ASSUME TelemetryInv, Connections, environment.udp = {}
    PROVE  /\ \A i \in UdpSlots : ~ExpireUdp(i) /\ \A f : ~UdpReceive(i, f)
           /\ ~CountUdp
BY Zenon DEF Connections, TelemetryInv, ClientInv, ExpireUdp, UdpReceive, CountUdp

-----------------------------------------------------------------------------
(* Steps that move frames, where they do not matter. *)

\* A read goes to one parser.
LEMMA OneParser ==
    ASSUME RouterInv, NEW u \in Units, NEW e \in Registered(u), NEW halves, NEW look,
           Ingest(u, e, halves, look)
    PROVE  /\ \A v \in Units : v # u => s_endpoints'[v] = s_endpoints[v]
           /\ \A v \in Units : Registered(v)' = Registered(v)
           /\ \A d \in Registered(u) : d # e => s_endpoints'[u][d] = s_endpoints[u][d]
           /\ s_endpoints'[u][e] = Outcome(u, e, halves, look).parser
<1> DEFINE parser == Outcome(u, e, halves, look).parser
<1>1. s_endpoints' = [s_endpoints EXCEPT ![u][e] = parser]
  BY DEF Ingest
<1> HIDE DEF parser
<1>2. s_endpoints' = [s_endpoints EXCEPT ![u] = [s_endpoints[u] EXCEPT ![e] = parser]]
  BY <1>1
<1>3. /\ \A v \in Units : v # u => s_endpoints'[v] = s_endpoints[v]
      /\ s_endpoints'[u] = [s_endpoints[u] EXCEPT ![e] = parser]
  BY <1>2 DEF RouterInv
<1> QED
  BY <1>3 DEF Registered, parser

\* A frame of the flight controller and what goes up.
LEMMA UartRxWays ==
    ASSUME TelemetryInv, Connections, UpInv, NEW kind \in environment.kinds, NEW look \in Looks,
           NEW received \in {Whole, << 1 >>, << 2 >>}, UartRx(kind, received, look)
    PROVE  Connections' /\ UpInv'
<1> DEFINE halves == [k \in DOMAIN received |-> Halves(Frame(fc.sent + 1, kind[1], kind[2]))[received[k]]]
           frames == Passed("air", Uart, halves, look)
<1>1. /\ Ingest("air", Uart, halves, look) /\ client' = TcpSend(frames)
      /\ \E failing \in SUBSET UdpSlots : udp' = UdpSend(frames, failing)
      /\ UNCHANGED <<task, backlog, link, bridge, gcs, delivered>>
  BY Zenon DEF UartRx, ground
<1> HIDE DEF halves, frames
<1>2. \A i \in Slots : client'[i].used = client[i].used /\ client'[i].link = client[i].link
  BY <1>1 DEF TcpSend, TelemetryInv, ClientInv, TcpClient
<1>3. \A i \in UdpSlots : udp'[i].used = udp[i].used
  BY <1>1 DEF UdpSend, TelemetryInv, ClientInv, UdpClient
<1>4. /\ s_endpoints'["ground"] = s_endpoints["ground"] /\ Registered("air")' = Registered("air")
      /\ \A d \in Registered("air") : d # Uart => s_endpoints'["air"][d] = s_endpoints["air"][d]
  <2>1. RouterInv /\ Uart \in Registered("air")
    BY DEF TelemetryInv, ClientInv
  <2> QED BY <1>1, <2>1, OneParser, EndpointFacts
<1>5. Connections'
  BY <1>1, <1>2, <1>3, <1>4, ConnectionsKept DEF Connections
<1>6. \A j \in Slots : AirParser(j)' = AirParser(j) /\ (Closing(j)' <=> Closing(j))
  BY <1>1, <1>4, EndpointFacts DEF AirParser, Closing
<1>7. \A l \in Links : Ways(l)' \subseteq Ways(l)
  BY <1>1, <1>2, <1>6, WaysKept
<1>8. UpInv'
  BY <1>1, <1>7, UpKept
<1> QED
  BY <1>5, <1>8

\* A frame of the GCS and what goes down.
LEMMA UsbRxWays ==
    ASSUME TelemetryInv, Connections, DownInv, UsbRx
    PROVE  Connections' /\ DownInv'
<1> DEFINE frame == Frame(gcs + 1, 255, "none")
           out == Outcome("ground", Usb, Halves(frame), NoLook)
<1>1. /\ Ingest("ground", Usb, Halves(frame), NoLook) /\ bridge' = BridgeSend(out.passed)
      /\ UNCHANGED <<client, udp, link, backlog, environment, fc, delivered>>
  BY DEF UsbRx, NoLook, Passed, air
<1>2. out.parser = <<>> /\ out.passed \in Seq(AnyFrame)
  <2>1. frame \in AnyFrame /\ out.passed \in {<<>>, << frame >>} /\ out.parser = <<>>
    BY UsbPasses DEF Connections
  <2> HIDE DEF frame, out
  <2> QED BY <2>1, EmptySeq, ShortOrder, Zenon
<1>3. /\ s_endpoints'["air"] = s_endpoints["air"] /\ Registered("ground")' = Registered("ground")
      /\ \A d \in Registered("ground") : d # Usb => s_endpoints'["ground"][d] = s_endpoints["ground"][d]
      /\ s_endpoints'["ground"][Usb] = <<>>
  <2>1. RouterInv /\ Usb \in Registered("ground")
    BY DEF TelemetryInv, BridgeInv
  <2> HIDE DEF frame
  <2> QED BY <1>1, <1>2, <2>1, OneParser, EndpointFacts
<1>4. bridge'.socket = bridge.socket
  <2> HIDE DEF out
  <2> QED BY <1>1, <1>2, BridgeGets
<1>5. Connections'
  BY <1>1, <1>3, <1>4, ConnectionsKept DEF Connections
<1>6. DownInv'
  <2>1. s_endpoints'["air"][Uart] = s_endpoints["air"][Uart]
    BY <1>3
  <2> QED BY <1>1, <1>3, <1>4, <2>1, EndpointFacts, DownKept
<1> QED
  BY <1>5, <1>6

\* A read of the air unit and what goes down.
LEMMA TcpReceiveWays ==
    ASSUME TelemetryInv, Connections, DownInv, NEW i \in Slots, TcpReceive(i)
    PROVE  Connections' /\ DownInv'
<1>1. Tcp(i) \in Registered("air") /\ UNCHANGED <<client, udp, backlog, bridge, environment, fc>>
  BY TcpReads DEF air, ground, outside
<1>2. PICK l \in Links, read \in Seq(HalfFrame), rest \in Seq(HalfFrame) :
         /\ Ingest("air", Tcp(i), read, NoLook)
         /\ Deliver("air", Passed("air", Tcp(i), read, NoLook))
         /\ link' = [link EXCEPT ![l] = [link[l] EXCEPT !.up = rest]]
  BY TcpReads, Zenon
<1>3. \A m \in Links : /\ link'[m].air = link[m].air /\ link'[m].station = link[m].station
                       /\ link'[m].peer = link[m].peer /\ link'[m].down = link[m].down
  BY <1>2, WayTypes, Zenon DEF Link
<1>4. delivered'["ground"] = delivered["ground"]
  BY <1>2, EndpointFacts DEF Deliver, TelemetryInv, OutsideInv
<1>5. /\ s_endpoints'["ground"] = s_endpoints["ground"]
      /\ s_endpoints'["air"][Uart] = s_endpoints["air"][Uart]
  <2>1. RouterInv /\ Uart \in Registered("air") /\ Tcp(i) # Uart
    BY EndpointFacts DEF TelemetryInv, ClientInv
  <2> QED BY <1>1, <1>2, <2>1, OneParser, EndpointFacts
<1>6. Connections'
  BY <1>1, <1>3, <1>5, WayTypes, ConnectionsKept, Zenon DEF Connections
<1>7. DownInv'
  <2>1. Bridge \in Registered("ground") => bridge.socket \in Links
    BY DownTypes
  <2> QED BY <1>1, <1>3, <1>4, <1>5, <2>1, DownKept DEF Registered
<1> QED
  BY <1>6, <1>7

\* A write of the air unit and what goes up.
LEMMA ServiceTcpTxWays ==
    ASSUME TelemetryInv, Connections, UpInv, NEW i \in Slots, ServiceTcpTx(i)
    PROVE  Connections' /\ UpInv'
<1>1. PICK l \in Links : l = client[i].link
  BY WayTypes DEF ServiceTcpTx
<1> DEFINE c == client[i]
           taken == IF c.pending = <<>> THEN Upto(Batch, c.tx_queue) ELSE <<>>
           batch == c.pending \o FlattenSeq([k \in DOMAIN taken |-> Halves(taken[k])])
           queue == SubSeq(c.tx_queue, Len(taken) + 1, Len(c.tx_queue))
<1>2. /\ \E down : link' = [link EXCEPT ![l] = [link[l] EXCEPT !.down = down]]
      /\ \E rest : client' = [client EXCEPT ![i] = [client[i] EXCEPT !.tx_queue = queue,
                                                                     !.pending = rest]]
      /\ UNCHANGED <<s_endpoints, udp, task, backlog, bridge, gcs, delivered>>
  <2>1. /\ UNCHANGED <<router, udp, task, backlog, ground, outside, delivered>>
        /\ \E n \in Moves(batch, Window - Len(link[c.link].down)) :
              /\ link' = [link EXCEPT ![c.link].down = @ \o SubSeq(batch, 1, n)]
              /\ client' = [client EXCEPT ![i].tx_queue = queue,
                                          ![i].pending = SubSeq(batch, n + 1, Len(batch))]
    BY Zenon DEF ServiceTcpTx
  <2> HIDE DEF taken, batch, queue
  <2>2. PICK n : /\ link' = [link EXCEPT ![l].down = @ \o SubSeq(batch, 1, n)]
                 /\ client' = [client EXCEPT ![i].tx_queue = queue,
                                             ![i].pending = SubSeq(batch, n + 1, Len(batch))]
    BY <1>1, <2>1, Zenon
  <2>3. link' = [link EXCEPT ![l] = [link[l] EXCEPT !.down = link[l].down \o SubSeq(batch, 1, n)]]
    BY <2>2
  <2>4. client' = [client EXCEPT ![i] = [client[i] EXCEPT !.tx_queue = queue,
                                              !.pending = SubSeq(batch, n + 1, Len(batch))]]
    BY <2>2, WayTypes, Zenon
  <2> QED BY <2>1, <2>3, <2>4, Zenon DEF router, ground, outside
<1> HIDE DEF c, taken, batch, queue
<1>3. \A m \in Links : /\ link'[m].air = link[m].air /\ link'[m].station = link[m].station
                       /\ link'[m].peer = link[m].peer /\ link'[m].up = link[m].up
  BY <1>2, WayTypes DEF Link
<1>4. \A j \in Slots : client'[j].used = client[j].used /\ client'[j].link = client[j].link
  BY <1>2 DEF TelemetryInv, ClientInv, TcpClient
<1>5. Connections'
  BY <1>2, <1>3, <1>4, WayTypes, ConnectionsKept DEF Connections
<1>6. \A j \in Slots : AirParser(j)' = AirParser(j) /\ (Closing(j)' <=> Closing(j))
  BY <1>2 DEF AirParser, Registered, Closing
<1>7. \A m \in Links : Ways(m)' \subseteq Ways(m)
  BY <1>3, <1>4, <1>6, WaysKept
<1>8. UpInv'
  BY <1>2, <1>3, <1>7, UpKept
<1> QED
  BY <1>5, <1>8

\* A read of the bridge and what goes up.
LEMMA BridgeReceiveWays ==
    ASSUME TelemetryInv, Connections, UpInv, BridgeReceive
    PROVE  Connections' /\ UpInv'
<1>1. Bridge \in Registered("ground") /\ UNCHANGED <<client, udp, task, backlog, bridge, gcs>>
  BY BridgeReads DEF air, outside
<1>2. PICK l \in Links, read \in Seq(HalfFrame), rest \in Seq(HalfFrame) :
         /\ Ingest("ground", Bridge, read, NoLook)
         /\ Deliver("ground", Passed("ground", Bridge, read, NoLook))
         /\ link' = [link EXCEPT ![l] = [link[l] EXCEPT !.down = rest]]
  BY BridgeReads
<1>3. \A m \in Links : /\ link'[m].air = link[m].air /\ link'[m].station = link[m].station
                       /\ link'[m].peer = link[m].peer /\ link'[m].up = link[m].up
  BY <1>2, WayTypes DEF Link
<1>4. delivered'["air"] = delivered["air"]
  BY <1>2, EndpointFacts DEF Deliver, TelemetryInv, OutsideInv
<1>5. /\ s_endpoints'["air"] = s_endpoints["air"]
      /\ s_endpoints'["ground"][Usb] = s_endpoints["ground"][Usb]
  <2>1. RouterInv /\ Usb \in Registered("ground") /\ Usb # Bridge
    BY EndpointFacts DEF TelemetryInv, BridgeInv
  <2> QED BY <1>1, <1>2, <2>1, OneParser, EndpointFacts
<1>6. Connections'
  BY <1>1, <1>3, <1>5, WayTypes, ConnectionsKept, Zenon DEF Connections
<1>7. \A j \in Slots : AirParser(j)' = AirParser(j) /\ (Closing(j)' <=> Closing(j))
  BY <1>1, <1>5 DEF AirParser, Registered, Closing
<1>8. \A m \in Links : Ways(m)' \subseteq Ways(m)
  BY <1>1, <1>3, <1>7, WaysKept
<1>9. UpInv'
  BY <1>1, <1>3, <1>4, <1>8, UpKept
<1> QED
  BY <1>6, <1>9

\* A write of the bridge and what goes down.
LEMMA BridgeTransmitWays ==
    ASSUME TelemetryInv, Connections, DownInv, BridgeTransmit
    PROVE  Connections' /\ DownInv'
<1>1. PICK l \in Links : l = bridge.socket
  BY WayTypes DEF BridgeTransmit, TelemetryInv, BridgeInv
<1>2. /\ \E up : link' = [link EXCEPT ![l] = [link[l] EXCEPT !.up = up]]
      /\ \E queue, rest : bridge' = [bridge EXCEPT !.tx_queue = queue, !.pending = rest]
      /\ UNCHANGED <<s_endpoints, client, udp, backlog, environment, fc, delivered>>
  BY <1>1, Zenon DEF BridgeTransmit, BridgeUnchanged, router, air, outside
<1>3. \A m \in Links : /\ link'[m].air = link[m].air /\ link'[m].station = link[m].station
                       /\ link'[m].peer = link[m].peer /\ link'[m].down = link[m].down
  BY <1>2, WayTypes DEF Link
<1>4. bridge'.socket = bridge.socket
  BY <1>2 DEF TelemetryInv, BridgeInv, BridgeState
<1>5. Connections'
  BY <1>1, <1>2, <1>3, <1>4, ConnectionsKept DEF Connections
<1>6. DownInv'
  BY <1>1, <1>2, <1>3, <1>4, DownKept DEF Registered
<1> QED
  BY <1>5, <1>6

-----------------------------------------------------------------------------
(* Connections begin. *)

\* A connection that is new waits and takes a link nobody holds.
LEMMA ConnectKeepsOthers ==
    ASSUME TelemetryInv, Connections, NEW station, NEW l \in Links, Connect(station, l),
           UNCHANGED <<client, udp>>, s_endpoints'["ground"][Usb] = <<>>,
           \/ bridge'.socket = bridge.socket
           \/ bridge'.socket = l /\ station = "ground"
    PROVE  /\ Connections'
           /\ \A m \in Links : m # l => link'[m] = link[m]
           /\ link[l].air = "closed" /\ ~link[l].peer
<1> DEFINE new == [NoLink EXCEPT !.station = station, !.peer = TRUE, !.air = "waiting"]
           n == Len(backlog)
<1>1. /\ link[l].air = "closed" /\ ~link[l].peer
      /\ backlog' = Append(backlog, l) /\ link' = [link EXCEPT ![l] = new]
      /\ new.station = station /\ new.air = "waiting" /\ new.peer
  BY DEF Connect, NoLink
<1> HIDE DEF new
<1>2. \A m \in Links : link'[m] = IF m = l THEN new ELSE link[m]
  BY <1>1, WayTypes
<1>3. /\ n \in Nat /\ Len(backlog') = n + 1 /\ backlog'[n + 1] = l
      /\ \A k \in 1..n : /\ backlog'[k] = backlog[k] /\ backlog[k] \in Links /\ backlog[k] # l
                         /\ k \in 1..n + 1
      /\ \A k \in 1..n + 1 : k = n + 1 \/ k \in 1..n
  <2>1. backlog \in Seq(Links) /\ n \in Nat /\ \A k \in 1..n : backlog[k] \in Links
    BY WayTypes
  <2>2. \A k \in 1..n : backlog[k] # l
    BY <1>1 DEF Connections, Waits
  <2> QED BY <1>1, <2>1, <2>2
<1>4. \A i \in Slots : client[i].used => client[i].link \in Links /\ client[i].link # l
  BY <1>1, WayTypes DEF Connections
<1>5. /\ \A i \in UdpSlots : ~udp'[i].used
      /\ \A i \in Slots : client'[i].used => link'[client'[i].link].air = "open"
      /\ \A i, j \in Slots : client'[i].used /\ client'[j].used /\ i # j =>
             link'[client'[i].link].station # link'[client'[j].link].station
  BY <1>2, <1>4 DEF Connections
<1>6. /\ \A k \in 1..n : link[backlog[k]].air = "waiting"
      /\ \A j, k \in 1..n : j # k => backlog[j] # backlog[k]
      /\ \A m \in Links : link[m].air = "waiting" => \E k \in 1..n : backlog[k] = m
  BY DEF Connections, Waits
<1> HIDE DEF n
<1>7. ASSUME NEW k \in 1..n + 1 PROVE link'[backlog'[k]].air = "waiting"
  BY <1>1, <1>2, <1>3, <1>6
<1>8. ASSUME NEW j \in 1..n + 1, NEW k \in 1..n + 1, j # k PROVE backlog'[j] # backlog'[k]
  BY <1>3, <1>6, <1>8
<1>9. ASSUME NEW m \in Links, link'[m].air = "waiting" PROVE \E k \in 1..n + 1 : backlog'[k] = m
  <2>1. CASE m = l
    BY <1>3, <2>1
  <2>2. CASE m # l
    <3>1. PICK k \in 1..n : backlog[k] = m
      BY <1>2, <1>6, <1>9, <2>2
    <3> QED BY <1>3, <3>1
  <2> QED BY <2>1, <2>2
<1>10. bridge'.socket # 0 => link'[bridge'.socket].station = "ground" /\ link'[bridge'.socket].peer
  <2>1. CASE bridge'.socket = bridge.socket
    <3>1. bridge.socket # 0 => bridge.socket # l /\ bridge.socket \in Links
      BY <1>1, WayTypes DEF Connections
    <3> QED BY <1>2, <2>1, <3>1 DEF Connections
  <2>2. CASE bridge'.socket = l /\ station = "ground"
    BY <1>1, <1>2, <2>2
  <2> QED BY <2>1, <2>2
<1>11. Connections'
  BY <1>3, <1>5, <1>7, <1>8, <1>9, <1>10 DEF Connections, Waits
<1> QED
  BY <1>1, <1>2, <1>11

\* The bridge holds its end of the connection it makes.
LEMMA BridgeConnectWays ==
    ASSUME TelemetryInv, Connections, BridgeConnect
    PROVE  Connections'
<1>1. PICK l \in Links : Connect("ground", l) /\ bridge'.socket = l
  BY DEF BridgeConnect, TelemetryInv, BridgeInv, BridgeState
<1>2. CanRegister("ground", Bridge) /\ Register("ground", Bridge) /\ UNCHANGED <<client, udp>>
  BY DEF BridgeConnect, BridgeUnchanged, air
<1>3. s_endpoints'["ground"] = [d \in Registered("ground") \cup {Bridge} |->
                                   IF d = Bridge THEN <<>> ELSE s_endpoints["ground"][d]]
  BY <1>2, EndpointFacts, Zenon DEF Register, TelemetryInv, RouterInv
<1>4. s_endpoints'["ground"][Usb] = <<>>
  BY <1>3, EndpointFacts DEF TelemetryInv, BridgeInv, Connections
<1> QED
  BY <1>1, <1>2, <1>4, ConnectKeepsOthers

\* Another station takes a link of its own.
LEMMA OtherConnectsWays ==
    ASSUME TelemetryInv, Connections, DownInv, OtherConnects
    PROVE  Connections' /\ DownInv'
<1>1. PICK l \in Links : Connect("other", l)
  BY DEF OtherConnects
<1>2. UNCHANGED <<client, udp, bridge, s_endpoints, environment, fc, delivered>>
  BY DEF OtherConnects, router, air, ground
<1>3. /\ Connections' /\ link[l].air = "closed" /\ ~link[l].peer
      /\ \A m \in Links : m # l => link'[m] = link[m]
  <2>1. s_endpoints'["ground"][Usb] = <<>>
    BY <1>2 DEF Connections
  <2> QED BY <1>1, <1>2, <2>1, ConnectKeepsOthers
<1>4. DownInv'
  <2>1. ASSUME Bridge \in Registered("ground") PROVE link'[bridge.socket] = link[bridge.socket]
    <3>1. bridge.socket \in Links /\ bridge.socket # l
      BY <1>3, <2>1, DownTypes DEF Connections
    <3> QED BY <1>3, <3>1
  <2> QED BY <1>2, <2>1, DownKept DEF Registered
<1> QED
  BY <1>3, <1>4

\* A client is made for a station that has none.
LEMMA AcceptTcpWays ==
    ASSUME TelemetryInv, Connections, AcceptTcp
    PROVE  Connections'
<1> DEFINE free == {i \in Slots : ~client[i].used}
           slot == CHOOSE i \in free : \A j \in free : i <= j
<1>1. PICK l \in Links : l = Head(backlog)
  <2>1. Head(backlog) \in Links
    BY QueueFacts DEF AcceptTcp, TelemetryInv, LinkInv
  <2> QED BY <2>1
<1> DEFINE new == [NoClient EXCEPT !.used = TRUE, !.link = l, !.has_queue = TRUE]
<1>2. /\ backlog # <<>> /\ backlog' = Tail(backlog) /\ \A i \in Slots : ~Stale(i)
      /\ UNCHANGED <<s_endpoints, bridge, udp>>
      /\ \/ /\ link' = [link EXCEPT ![l].air = "closed"] /\ UNCHANGED client
         \/ /\ link' = [link EXCEPT ![l].air = "open"]
            /\ client' = [client EXCEPT ![slot] = new]
  BY <1>1 DEF AcceptTcp, router, ground
<1>3. new.link = l
  BY DEF NoClient
<1> HIDE DEF slot, new, free
<1>4. PICK x \in {"closed", "open"} :
         /\ link' = [link EXCEPT ![l].air = x]
         /\ \/ client' = client
            \/ x = "open" /\ client' = [client EXCEPT ![slot] = new]
  BY <1>2
<1>5. \A m \in Links : /\ link'[m].station = link[m].station /\ link'[m].peer = link[m].peer
                       /\ m # l => link'[m].air = link[m].air
                       /\ m = l => link'[m].air = x
  <2>1. link' = [link EXCEPT ![l] = [link[l] EXCEPT !.air = x]]
    BY <1>4
  <2> QED BY <2>1, WayTypes DEF Link
<1>6. \A i \in Slots : client'[i] = client[i] \/ (i = slot /\ x = "open" /\ client'[i] = new)
  BY <1>4, WayTypes
<1>7. /\ Len(backlog) \in Nat /\ Len(backlog') = Len(backlog) - 1 /\ backlog[1] = l
      /\ 1 \in 1..Len(backlog)
      /\ \A k \in 1..Len(backlog') : backlog'[k] = backlog[k + 1] /\ k + 1 \in 1..Len(backlog)
      /\ \A k \in 1..Len(backlog) : k # 1 =>
             k - 1 \in 1..Len(backlog') /\ backlog'[k - 1] = backlog[k]
  <2>1. backlog \in Seq(Links)
    BY WayTypes
  <2> QED BY <1>1, <1>2, <2>1, TailPlaces
<1>8. /\ \A k \in 1..Len(backlog) : backlog[k] \in Links /\ link[backlog[k]].air = "waiting"
      /\ \A j, k \in 1..Len(backlog) : j # k => backlog[j] # backlog[k]
      /\ \A m \in Links : link[m].air = "waiting" => \E k \in 1..Len(backlog) : backlog[k] = m
  BY WayTypes DEF Connections, Waits
<1>9. \A i \in Slots : client[i].used =>
         /\ client[i].link \in Links /\ client[i].link # l
         /\ link[client[i].link].station # link[l].station
         /\ link[client[i].link].air = "open"
  BY <1>1, <1>2, <1>7, <1>8, WayTypes DEF Connections, Stale
<1>10. ASSUME NEW i \in Slots, client'[i].used PROVE link'[client'[i].link].air = "open"
  BY <1>3, <1>5, <1>6, <1>9, <1>10
<1>11. ASSUME NEW i \in Slots, NEW j \in Slots, client'[i].used, client'[j].used, i # j
       PROVE  link'[client'[i].link].station # link'[client'[j].link].station
  <2>1. client'[i] = client[i] \/ client'[j] = client[j]
    BY <1>6, <1>11
  <2>2. \A k \in Slots : client[k].used => link'[client[k].link].station = link[client[k].link].station
    BY <1>5, <1>9
  <2>3. \A k \in Slots : client'[k] # client[k] => link'[client'[k].link].station = link[l].station
    BY <1>3, <1>5, <1>6
  <2>4. CASE client'[i] = client[i] /\ client'[j] = client[j]
    BY <1>11, <2>2, <2>4 DEF Connections
  <2>5. CASE client'[i] = client[i] /\ client'[j] # client[j]
    BY <1>9, <1>11, <2>2, <2>3, <2>5
  <2>6. CASE client'[i] # client[i] /\ client'[j] = client[j]
    BY <1>9, <1>11, <2>2, <2>3, <2>6
  <2> QED BY <2>1, <2>4, <2>5, <2>6
<1>12. ASSUME NEW k \in 1..Len(backlog') PROVE link'[backlog'[k]].air = "waiting"
  <2>1. backlog'[k] = backlog[k + 1] /\ k + 1 \in 1..Len(backlog) /\ k + 1 # 1
    BY <1>7
  <2>2. backlog[k + 1] # l
    BY <1>7, <1>8, <2>1
  <2> QED BY <1>5, <1>8, <2>1, <2>2
<1>13. ASSUME NEW j \in 1..Len(backlog'), NEW k \in 1..Len(backlog'), j # k
       PROVE  backlog'[j] # backlog'[k]
  <2>1. j + 1 # k + 1
    BY <1>7, <1>13
  <2> QED BY <1>7, <1>8, <2>1
<1>14. ASSUME NEW m \in Links, link'[m].air = "waiting" PROVE \E k \in 1..Len(backlog') : backlog'[k] = m
  <2>1. m # l /\ link[m].air = "waiting"
    BY <1>5, <1>14
  <2>2. PICK k \in 1..Len(backlog) : backlog[k] = m
    BY <1>8, <2>1
  <2>3. k # 1
    BY <1>7, <2>1, <2>2
  <2> QED BY <1>7, <2>2, <2>3
<1>15. bridge'.socket # 0 => link'[bridge'.socket].station = "ground" /\ link'[bridge'.socket].peer
  BY <1>2, <1>5, WayTypes DEF Connections
<1>16. (\A i \in UdpSlots : ~udp'[i].used) /\ s_endpoints'["ground"][Usb] = <<>>
  BY <1>2 DEF Connections
<1> QED
  BY <1>10, <1>11, <1>12, <1>13, <1>14, <1>15, <1>16 DEF Connections, Waits

-----------------------------------------------------------------------------
(* The order of frames is inductive. *)

\* Nobody is connected at first.
LEMMA InitWayInv ==
    ASSUME Init
    PROVE  WayInv
<1>1. /\ RouterInit([air |-> {Uart, UdpBroadcast}, ground |-> {Usb}])
      /\ client = [i \in Slots |-> NoClient] /\ udp = [i \in UdpSlots |-> NoUdp] /\ task = Loop
      /\ backlog = <<>> /\ link = [l \in Links |-> NoLink]
      /\ bridge = Disconnected /\ delivered = [u \in Units |-> <<>>]
  BY DEF Init
<1>2. /\ s_endpoints["ground"][Usb] = <<>> /\ s_endpoints["air"][Uart] = <<>>
      /\ Bridge \notin Registered("ground")
  BY <1>1, EndpointFacts DEF RouterInit, Registered
<1>3. /\ \A i \in Slots : ~client[i].used
      /\ \A i \in UdpSlots : ~udp[i].used
      /\ \A l \in Links : link[l].air = "closed"
      /\ bridge.socket = 0 /\ Len(backlog) = 0 /\ 1..0 = {} /\ 0 \notin Links
  BY <1>1, EmptyLen, TelemetryAssumption DEF NoClient, NoUdp, NoLink, Disconnected
<1>4. InOrder(<<>>) /\ FrameNumbers(<<>>) = {}
  BY StreamFacts
<1>5. Connections
  BY <1>2, <1>3 DEF Connections, Waits
<1>6. DownInv
  BY <1>1, <1>2, <1>3, <1>4, EndpointFacts DEF DownInv, UartParser
<1>7. UpInv
  <2>1. \A l \in Links : Ways(l) = {}
    BY <1>3 DEF Ways, Waits
  <2> QED BY <1>1, <1>3, <1>4, <2>1, EndpointFacts DEF UpInv
<1> QED
  BY <1>5, <1>6, <1>7 DEF WayInv

\* Every step keeps the order of what is on its way.
LEMMA NextWays ==
    ASSUME TelemetryInv, Connections, DownInv, UpInv, environment.udp = {}, [Next]_vars
    PROVE  Connections' /\ DownInv' /\ UpInv'
<1>1. CASE \/ UNCHANGED vars \/ Tick \/ StaDisconnected \/ Reconnect \/ StaGotIp
           \/ BridgeConnected \/ BridgeDisconnect \/ BridgeCleared \/ GroundRestarts
           \/ \E l \in Links : OtherLeaves(l)
  BY <1>1, GroundSteps
<1>2. ASSUME NEW kind \in environment.kinds, NEW look \in Looks,
             NEW received \in {Whole} \cup (IF environment.overflows THEN {<< 1 >>, << 2 >>} ELSE {}),
             UartRx(kind, received, look)
      PROVE  Connections' /\ DownInv' /\ UpInv'
  <2>1. received \in {Whole, << 1 >>, << 2 >>} /\ (received = Whole \/ environment.overflows)
    OBVIOUS
  <2> QED BY <1>2, <2>1, UartRxWays, UartRxDown
<1>3. CASE UsbRx
  BY <1>3, UsbRxWays, UsbRxUp
<1>4. CASE NetworkTask
  <2>1. CASE AcceptTcp
    BY <2>1, AcceptTcpWays, AcceptTcpDown, AcceptTcpUp
  <2>2. CASE RegisterTcp \/ FreeTcp \/ CountExpired
    BY <2>2, RegisterTcpWays, FreeTcpWays, CountExpiredWays
  <2>3. ASSUME NEW i \in Slots, CloseTcp(i)
        PROVE  Connections' /\ DownInv' /\ UpInv'
    BY <2>3, CloseTcpWays
  <2>4. ASSUME NEW i \in Slots, TcpReceive(i)
        PROVE  Connections' /\ DownInv' /\ UpInv'
    BY <2>4, TcpReceiveWays, TcpReceiveUp
  <2>5. ASSUME NEW i \in Slots, ServiceTcpTx(i)
        PROVE  Connections' /\ DownInv' /\ UpInv'
    BY <2>5, ServiceTcpTxWays, ServiceTcpTxDown
  <2> QED
    BY <1>4, <2>1, <2>2, <2>3, <2>4, <2>5, NoUdpSteps DEF NetworkTask
<1>5. CASE BridgeConnect
  BY <1>5, BridgeConnectWays, BridgeConnectDown, BridgeConnectUp
<1>6. CASE BridgeReceive
  BY <1>6, BridgeReceiveWays, BridgeReceiveDown
<1>7. CASE BridgeTransmit
  BY <1>7, BridgeTransmitWays, BridgeTransmitUp
<1>8. CASE OtherConnects
  BY <1>8, OtherConnectsWays, OtherConnectsUp
<1> QED
  BY <1>1, <1>2, <1>3, <1>4, <1>5, <1>6, <1>7, <1>8 DEF Next, BridgeTask

\* No step chooses the environment again.
LEMMA EnvironmentStays ==
    ASSUME [Next]_vars
    PROVE  environment' = environment
<1>1. CASE UNCHANGED vars
  BY <1>1 DEF vars, outside
<1>2. CASE NetworkTask
  BY <1>2, Zenon DEF NetworkTask, AcceptTcp, RegisterTcp, FreeTcp, CountUdp, CountExpired, CloseTcp,
     TcpReceive, ServiceTcpTx, ExpireUdp, RegisterUdp, UdpReceive, TcpUnchanged, UdpUnchanged, outside
<1>3. CASE BridgeTask
  BY <1>3, Zenon DEF BridgeTask, BridgeConnect, BridgeConnected, BridgeDisconnect, BridgeCleared,
     BridgeReceive, BridgeTransmit, BridgeUnchanged, outside
<1>4. CASE \E kind \in environment.kinds, look \in Looks :
             \E received \in {Whole} \cup (IF environment.overflows THEN {<< 1 >>, << 2 >>} ELSE {}) :
                 UartRx(kind, received, look)
  BY <1>4 DEF UartRx
<1>5. CASE \/ UsbRx \/ Tick \/ StaDisconnected \/ Reconnect \/ StaGotIp \/ GroundRestarts
           \/ OtherConnects \/ \E l \in Links : OtherLeaves(l)
  BY <1>5 DEF UsbRx, Tick, StaDisconnected, Reconnect, StaGotIp, GroundRestarts, OtherConnects,
     OtherLeaves, StationUnchanged, outside
<1> QED
  BY <1>1, <1>2, <1>3, <1>4, <1>5 DEF Next

\* What has been routed is in order.
LEMMA WaysInOrder ==
    ASSUME TelemetryInv, WayInv
    PROVE  FramesInOrder
<1> SUFFICES ASSUME environment.udp = {}, NEW u \in Units, NEW k \in DOMAIN delivered[u]
             PROVE  LET number == delivered[u][k].number
                    IN  IF number = 0 THEN u = "ground" /\ environment.overflows
                        ELSE \A j \in 1..k - 1 : delivered[u][j].number < number
  BY DEF FramesInOrder
<1>1. DownInv /\ UpInv
  BY DEF WayInv
<1>2. u \in {"air", "ground"} /\ delivered[u] \in Seq(AnyFrame) /\ k \in 1..Len(delivered[u])
  BY EndpointFacts, DownTypes, LenProperties
<1>3. /\ InOrder(delivered[u])
      /\ u = "air" => FrameNumbers(delivered[u]) \subseteq 1..gcs
      /\ u = "ground" => FrameNumbers(delivered[u]) \subseteq Downs
  BY <1>1, <1>2 DEF DownInv, UpInv
<1>4. delivered[u][k].number \in FrameNumbers(delivered[u])
  BY <1>2 DEF FrameNumbers
<1>5. delivered[u][k].number = 0 => u = "ground" /\ environment.overflows
  BY <1>2, <1>3, <1>4, WayTypes DEF Downs
<1>6. ASSUME NEW j \in 1..k - 1, delivered[u][k].number # 0
      PROVE  delivered[u][j].number < delivered[u][k].number
  <2>1. j \in 1..Len(delivered[u]) /\ j < k
    BY <1>2, LenProperties
  <2> QED BY <1>2, <1>3, <1>6, <2>1 DEF InOrder, After
<1> QED
  BY <1>5, <1>6

\* What the routers of both units pass on are whole frames in the order they were sent,
\* none twice, whatever connections are lost, replaced or made in between and wherever
\* reads and writes cut the stream (airlink_wifi.c and airlink_router.c): what is on its
\* way through a link follows what was routed, and is followed by what waits for it.
THEOREM FramesStayInOrder == Spec => []FramesInOrder
<1>1. Init => WayInv
  BY InitWayInv
<1>2. TelemetryInv /\ WayInv /\ [Next]_vars => WayInv'
  <2> SUFFICES ASSUME TelemetryInv, WayInv, [Next]_vars, environment'.udp = {}
               PROVE  Connections' /\ DownInv' /\ UpInv'
    BY DEF WayInv
  <2>1. environment.udp = {}
    BY EnvironmentStays
  <2> QED BY <2>1, NextWays DEF WayInv
<1>3. TelemetryInv /\ WayInv => FramesInOrder
  BY WaysInOrder
<1> QED
  BY <1>1, <1>2, <1>3, TelemetryTypeCorrect, PTL DEF Spec
=============================================================================
