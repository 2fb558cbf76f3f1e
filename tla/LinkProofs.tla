----------------------------- MODULE LinkProofs -----------------------------
(***************************************************************************)
(* What holds of the two links to the outside, USB and the DroneCAN tunnel.*)
(*                                                                         *)
(* Telemetry and management never mix on the USB line, for every host,     *)
(* every way its bytes are cut into reads, and every queue and timeout.    *)
(* The argument is the order of the steps that leave MAVLink: the router   *)
(* forgets the endpoint before the queue is emptied, so nothing can be     *)
(* queued between the two (Muted), and the mode changes last (LineInv).    *)
(* The bytes of the host are followed through the escape matcher by        *)
(* StreamInv.                                                              *)
(*                                                                         *)
(* In the tunnel, for every number of chunks and frames and every depth of *)
(* the queues, packets stay whole because one under way is in no queue and *)
(* is the last on the bus (ChunksInv), and transfers arrive in order       *)
(* because the frames under way are in the order of their transfers and    *)
(* the CRC ties what is put together to its last frame (OrderInv).         *)
(* A whole transfer gets through because what is on its way follows what   *)
(* was taken without a gap, and the receiver expects an id between that of *)
(* the newest delivery and the next one: ids then tell a transfer that     *)
(* comes too early from one that is under way (TrackInv).                  *)
(***************************************************************************)
EXTENDS UsbSession, CanTunnel, SequenceTheorems, FiniteSetTheorems, WellFoundedInduction, TLAPS

\* What a session answers to a host.
Answer == Requests \cup {"error"}

\* While the CLI or a session has the line nothing is queued, and nothing can be.
Muted == s_mode = "log_cli" => ~registered /\ s_tx_queue = <<>>

\* Only the two steps in between find MAVLink mode without the endpoint.
InBetween == pc \in {"escaped", "reset"} => s_mode = "mavlink"
Attached  == s_mode = "mavlink" => (registered <=> pc # "reset")

SessionShown == s_binary_mode => s_mode = "log_cli" /\ shown \in Seq(Answer)

LineInv ==
    /\ s_mode \in {"mavlink", "log_cli"}
    /\ Muted /\ InBetween /\ Attached /\ SessionShown
    /\ TransferHasHost

LEMMA InitLineInv == Init => LineInv
BY DEF Init, LineInv, Muted, InBetween, Attached, SessionShown, TransferHasHost

\* Answers keep what a session shows free of telemetry.
LEMMA SendsAnswers ==
    ASSUME NEW outputs \in Seq(Answer), Send(outputs), shown \in Seq(Answer)
    PROVE  shown' \in Seq(Answer)
BY DEF Send

\* The steps of usb_task outside a session.
LEMMA LoopLineInv ==
    ASSUME LineInv,
           \/ Top \/ ReadNothing \/ LeaveMavlink \/ OpenSession \/ Done
           \/ \E size \in 1..Len(rx) : ReadMavlink(size) \/ ReadSession(size)
    PROVE  LineInv'
<1> USE DEF LineInv, Muted, InBetween, Attached, SessionShown, TransferHasHost
<1>1. CASE Top
  <2>1. s_binary_mode => shown' \in Seq(Answer)
    <3>1. SUFFICES ASSUME s_binary_mode PROVE shown' \in Seq(Answer)
      OBVIOUS
    <3>2. s_tx_queue = <<>> /\ <<>> \in Seq(Answer) /\ shown \in Seq(Answer)
      BY <3>1
    <3> QED
      BY <1>1, <3>2, SendsAnswers DEF Top
  <2> QED
    BY <1>1, <2>1 DEF Top
<1>2. CASE ReadNothing
  BY <1>2 DEF ReadNothing, RestoreMavlink, AbortTransfer
<1>3. CASE LeaveMavlink
  BY <1>3 DEF LeaveMavlink, history
<1>4. CASE OpenSession
  BY <1>4 DEF OpenSession, QueueReset
<1>5. CASE Done
  BY <1>5 DEF Done, history
<1>6. ASSUME NEW size \in 1..Len(rx), ReadMavlink(size) PROVE LineInv'
  BY <1>6 DEF ReadMavlink
<1>7. ASSUME NEW size \in 1..Len(rx), ReadSession(size) PROVE LineInv'
  BY <1>7 DEF ReadSession, history
<1> QED
  BY <1>1, <1>2, <1>3, <1>4, <1>5, <1>6, <1>7

\* The steps of a session.
LEMMA SessionLineInv ==
    ASSUME LineInv,
           Buffer \/ CloseFrame \/ Reboot \/ OtaRequest \/ Download \/ AnswerOnly \/ Malformed
    PROVE  LineInv'
<1> USE DEF LineInv, Muted, InBetween, Attached, SessionShown, TransferHasHost,
            Completes, SameSession, Outside
<1>1. CASE Buffer
  BY <1>1 DEF Buffer
<1>2. CASE CloseFrame
  BY <1>2 DEF CloseFrame, RestoreMavlink, AbortTransfer
<1>3. CASE Reboot
  BY <1>3 DEF Reboot
<1>4. CASE OtaRequest
  <2>1. s_binary_mode /\ <<buffer[1]>> \in Seq(Answer) /\ Send(<<buffer[1]>>)
    BY <1>4 DEF OtaRequest, Is, Answer, Requests
  <2>2. shown' \in Seq(Answer)
    BY <2>1, SendsAnswers
  <2> QED
    BY <1>4, <2>2 DEF OtaRequest
<1>5. CASE Download
  BY <1>5 DEF Download
<1>6. CASE AnswerOnly
  <2>1. s_binary_mode => <<buffer[1]>> \in Seq(Answer)
    BY <1>6 DEF AnswerOnly, Is, Answer, Requests
  <2>2. s_binary_mode => shown' \in Seq(Answer)
    BY <1>6, <2>1, SendsAnswers DEF AnswerOnly
  <2> QED
    BY <1>6, <2>2 DEF AnswerOnly
<1>7. CASE Malformed
  <2>1. <<>> \in Seq(Answer) /\ <<"error">> \in Seq(Answer)
    BY DEF Answer
  <2>2. s_binary_mode => shown' \in Seq(Answer)
    BY <1>7, <2>1, SendsAnswers DEF Malformed
  <2> QED
    BY <1>7, <2>2 DEF Malformed
<1> QED
  BY <1>1, <1>2, <1>3, <1>4, <1>5, <1>6, <1>7

LEMMA NextLineInv == LineInv /\ [Next]_vars => LineInv'
<1> SUFFICES ASSUME LineInv, [Next]_vars PROVE LineInv'
  OBVIOUS
<1>1. CASE UsbTask
  BY <1>1, LoopLineInv, SessionLineInv DEF UsbTask
<1>2. CASE RouterSend
  <2>1. s_mode = "mavlink"
    BY <1>2 DEF RouterSend, LineInv, Muted
  <2> QED
    BY <1>2, <2>1 DEF RouterSend, history, LineInv, Muted, InBetween, Attached, SessionShown,
                      TransferHasHost
<1>3. CASE HostWrites \/ Plug \/ Arm \/ UNCHANGED vars
  BY <1>3 DEF HostWrites, Plug, Arm, vars, device, history, LineInv, Muted, InBetween, Attached,
              SessionShown, TransferHasHost
<1>4. CASE TransferEnds \/ Tick
  BY <1>4 DEF TransferEnds, Tick, history, LineInv, Muted, InBetween, Attached, SessionShown,
              TransferHasHost
<1> QED
  BY <1>1, <1>2, <1>3, <1>4 DEF Next

\* In a session the host is shown answers only and the router does not know the line;
\* in MAVLink mode the unit is an endpoint of the router, but for the moment in which
\* escape_process has unregistered it.
THEOREM LineNeverShared == Spec => []LineHasOneUser
<1>1. LineInv => LineHasOneUser
  <2> SUFFICES ASSUME LineInv PROVE LineHasOneUser
    OBVIOUS
  <2>1. s_binary_mode => ~registered /\ shown \in Seq(Answer)
    BY DEF LineInv, SessionShown, Muted
  <2>2. Telemetry \notin Answer
    BY DEF Telemetry, Answer, Requests
  <2>3. s_binary_mode => Telemetry \notin Range(shown)
    BY <2>1, <2>2 DEF Range
  <2>4. s_mode = "mavlink" => registered \/ pc = "reset"
    BY DEF LineInv, Attached
  <2> QED
    BY <2>1, <2>3, <2>4 DEF LineHasOneUser
<1> QED
  BY InitLineInv, NextLineInv, <1>1, PTL DEF Spec

\* A fleet transfer never outlives the session of the host that feeds it, however
\* that session ends.
THEOREM TransferNeverOrphaned == Spec => []TransferHasHost
<1>1. LineInv => TransferHasHost
  BY DEF LineInv
<1> QED
  BY InitLineInv, NextLineInv, <1>1, PTL DEF Spec

-----------------------------------------------------------------------------
(* The matcher of the escape sequence: three states, and what each token does to them. *)

Token == STRING \cup {"p", "c"}
Entry == [fate : {"router", "flushed", "session"}, token : Token]

LEMMA HeldFacts ==
    /\ Held(0) = <<>> /\ Held(1) = <<"p">> /\ Held(2) = <<"p", "p">>
    /\ Range(Escape) = {"p", "c"} /\ Len(Escape) = 3 /\ Escape \in Seq(Token)
    /\ \A k \in 0..2 : /\ Held(k) \in Seq(Token) /\ Len(Held(k)) = k
                       /\ \A i \in 1..k : Held(k)[i] = "p"
<1>1. Len(Escape) = 3 /\ Escape \in Seq(Token)
      /\ Escape[1] = "p" /\ Escape[2] = "p" /\ Escape[3] = "c"
  BY DEF Escape, Token
<1>2. ASSUME NEW k \in 0..2
      PROVE  /\ Held(k) \in Seq(Token) /\ Len(Held(k)) = k
             /\ \A i \in 1..k : Held(k)[i] = "p"
  <2>1. \A i \in 1..k : Escape[i] = "p" /\ Escape[i] \in Token
    BY <1>1 DEF Token
  <2>2. /\ SubSeq(Escape, 1, k) \in Seq(Token)
        /\ Len(SubSeq(Escape, 1, k)) = (IF 1 <= k THEN k - 1 + 1 ELSE 0)
        /\ \A i \in 1..k - 1 + 1 : SubSeq(Escape, 1, k)[i] = Escape[1 + i - 1]
    BY <2>1, SubSeqProperties
  <2> QED
    BY <2>1, <2>2 DEF Held
<1>3. Held(0) = <<>> /\ Held(1) = <<"p">> /\ Held(2) = <<"p", "p">>
  <2>1. <<>> \in Seq(Token) /\ <<"p">> \in Seq(Token) /\ <<"p", "p">> \in Seq(Token)
    BY DEF Token
  <2>2. \A s, t \in Seq(Token) : Len(s) = Len(t) /\ (\A i \in 1..Len(s) : s[i] = t[i]) => s = t
    BY SeqEqual
  <2> QED BY <1>2, <2>1, <2>2
<1>4. Range(Escape) = {"p", "c"}
  <2>1. DOMAIN Escape = 1..3
    BY <1>1, LenProperties
  <2> QED BY <1>1, <2>1 DEF Range
<1> QED
  BY <1>1, <1>2, <1>3, <1>4

\* A suffix, element by element.
LEMMA SuffixIs ==
    ASSUME NEW s \in Seq(Token), NEW t \in Seq(Token)
    PROVE  IsSuffix(s, t) <=> /\ Len(s) <= Len(t)
                              /\ \A i \in 1..Len(s) : s[(Len(s) - i) + 1] = t[(Len(t) - i) + 1]
<1>1. Len(s) \in Nat /\ Len(t) \in Nat
  BY LenProperties
<1>2. \A r \in Seq(Token) :
         /\ Reverse(r) \in Seq(Token) /\ Len(Reverse(r)) = Len(r)
         /\ \A i \in 1..Len(r) : Reverse(r)[i] = r[(Len(r) - i) + 1]
  BY LenProperties DEF Reverse
<1> DEFINE u == Reverse(s)
           v == Reverse(t)
           n == Len(s)
<1>3. IsSuffix(s, t) <=> n <= Len(t) /\ SubSeq(u, 1, n) = SubSeq(v, 1, n)
  BY <1>2 DEF IsSuffix, IsPrefix
<1>4. u \in Seq(Token) /\ v \in Seq(Token) /\ Len(u) = n /\ Len(v) = Len(t)
  BY <1>2
<1> HIDE DEF u, v
<1>5. ASSUME n <= Len(t)
      PROVE  SubSeq(u, 1, n) = SubSeq(v, 1, n) <=> \A i \in 1..n : u[i] = v[i]
  <2>1. \A i \in 1..n : u[i] \in Token /\ v[i] \in Token
    BY <1>1, <1>4, <1>5, ElementOfSeq
  <2>2. /\ SubSeq(u, 1, n) \in Seq(Token) /\ SubSeq(v, 1, n) \in Seq(Token)
        /\ Len(SubSeq(u, 1, n)) = n /\ Len(SubSeq(v, 1, n)) = n
        /\ \A i \in 1..n : SubSeq(u, 1, n)[i] = u[i] /\ SubSeq(v, 1, n)[i] = v[i]
    BY <1>1, <2>1, SubSeqProperties
  <2> QED
    BY <2>2, SeqEqual
<1> QED
  BY <1>1, <1>2, <1>3, <1>5 DEF u, v

\* The longest held sequence that the last tokens can start.
LEMMA SuffixFacts ==
    /\ SuffixPrefix[0]["p"] = 1 /\ SuffixPrefix[1]["p"] = 2 /\ SuffixPrefix[2]["p"] = 2
    /\ SuffixPrefix[0]["c"] = 0 /\ SuffixPrefix[1]["c"] = 0
<1> DEFINE Fits(k, token) == {keep \in 0..2 : IsSuffix(Held(keep), Append(Held(k), token))}
<1>1. \A k \in 0..2, token \in {"p", "c"} : SuffixPrefix[k][token] = Max(Fits(k, token))
  BY HeldFacts DEF SuffixPrefix
<1>2. ASSUME NEW T \in SUBSET (0..2), NEW top \in T, \A keep \in T : keep <= top
      PROVE  Max(T) = top
  <2> DEFINE Greatest(x) == x \in T /\ \A keep \in T : x >= keep
  <2>1. \A x : Greatest(x) <=> x = top
    <3>1. T \subseteq Int /\ top \in Int
      BY <1>2
    <3>2. ASSUME NEW x, Greatest(x) PROVE x = top
      <4>1. x \in Int /\ x >= top /\ x <= top
        BY <1>2, <3>1, <3>2
      <4> QED BY <3>1, <4>1
    <3>3. Greatest(top)
      BY <1>2, <3>1
    <3> QED BY <3>2, <3>3
  <2> QED BY <2>1 DEF Max
<1>3. \A keep, k \in 0..2, token \in {"p", "c"} :
         IsSuffix(Held(keep), Append(Held(k), token)) <=>
            keep <= k + 1 /\ (keep > 0 => token = "p")
  <2> SUFFICES ASSUME NEW keep \in 0..2, NEW k \in 0..2, NEW token \in {"p", "c"}
               PROVE  IsSuffix(Held(keep), Append(Held(k), token)) <=>
                         keep <= k + 1 /\ (keep > 0 => token = "p")
    OBVIOUS
  <2> DEFINE s == Held(keep)
             t == Append(Held(k), token)
  <2>1. /\ s \in Seq(Token) /\ Len(s) = keep /\ \A i \in 1..keep : s[i] = "p"
        /\ t \in Seq(Token) /\ Len(t) = k + 1 /\ t[k + 1] = token /\ \A i \in 1..k : t[i] = "p"
    <3>1. Held(k) \in Seq(Token) /\ Len(Held(k)) = k /\ (\A i \in 1..k : Held(k)[i] = "p")
          /\ Held(keep) \in Seq(Token) /\ Len(Held(keep)) = keep
          /\ (\A i \in 1..keep : Held(keep)[i] = "p") /\ token \in Token
      BY HeldFacts DEF Token
    <3>2. /\ t \in Seq(Token) /\ Len(t) = Len(Held(k)) + 1 /\ t[Len(Held(k)) + 1] = token
          /\ \A i \in 1..Len(Held(k)) : t[i] = Held(k)[i]
      BY <3>1, AppendProperties
    <3> QED
      BY <3>1, <3>2
  <2> HIDE DEF s, t
  <2>2. IsSuffix(s, t) <=> /\ keep <= k + 1
                           /\ \A i \in 1..keep : s[(keep - i) + 1] = t[((k + 1) - i) + 1]
    BY <2>1, SuffixIs
  <2>3. \A i \in 1..keep : s[(keep - i) + 1] = "p"
    BY <2>1
  <2>4. keep <= k + 1 =>
          \A i \in 1..keep : t[((k + 1) - i) + 1] = IF i = 1 THEN token ELSE "p"
    BY <2>1
  <2>5. IsSuffix(s, t) <=> keep <= k + 1 /\ (keep > 0 => token = "p")
    BY <2>2, <2>3, <2>4
  <2> QED
    BY <2>5 DEF s, t
<1>4. Fits(0, "p") = {0, 1} /\ Fits(1, "p") = {0, 1, 2} /\ Fits(2, "p") = {0, 1, 2}
      /\ Fits(0, "c") = {0} /\ Fits(1, "c") = {0}
  BY <1>3
<1> HIDE DEF Fits
<1> QED
  BY <1>1, <1>2, <1>4


\* A token that does not complete the sequence: what is forwarded and what is still held
\* are together what came, and as much is held as may be the beginning of the sequence.
LEMMA MatcherStep ==
    ASSUME NEW k \in 0..2, NEW token \in Token, Append(Held(k), token) # Escape
    PROVE  LET keep == IF token \in Range(Escape) THEN SuffixPrefix[k][token] ELSE 0
           IN  /\ keep \in 0..2
               /\ token = "p" => keep >= 1 /\ (k >= 1 => keep = 2)
               /\ token = "c" => k # 2
               /\ Emit(Held(k), token, keep) \in Seq(Token)
               /\ Emit(Held(k), token, keep) \o Held(keep) = Append(Held(k), token)
<1> DEFINE keep == IF token \in Range(Escape) THEN SuffixPrefix[k][token] ELSE 0
           t == Append(Held(k), token)
           m == k + 1 - keep
<1>1. Held(k) \in Seq(Token) /\ Len(Held(k)) = k /\ \A i \in 1..k : Held(k)[i] = "p"
  BY HeldFacts
<1>2. /\ t \in Seq(Token) /\ Len(t) = k + 1 /\ t[k + 1] = token
      /\ \A i \in 1..k : t[i] = "p"
  <2>1. /\ t \in Seq(Token) /\ Len(t) = Len(Held(k)) + 1 /\ t[Len(Held(k)) + 1] = token
        /\ \A i \in 1..Len(Held(k)) : t[i] = Held(k)[i]
    BY <1>1, AppendProperties
  <2> QED BY <1>1, <2>1
<1>3. ~(k = 2 /\ token = "c")
  <2> SUFFICES ASSUME k = 2, token = "c" PROVE FALSE
    OBVIOUS
  <2>1. Append(<<"p", "p">>, "c") = <<"p", "p", "c">>
    <3> DEFINE a == Append(<<"p", "p">>, "c")
               b == <<"p", "p", "c">>
    <3>1. <<"p", "p">> \in Seq(Token) /\ "c" \in Token /\ Len(<<"p", "p">>) = 2
          /\ b \in Seq(Token) /\ Len(b) = 3 /\ b[1] = "p" /\ b[2] = "p" /\ b[3] = "c"
      BY DEF Token
    <3>2. a \in Seq(Token) /\ Len(a) = 3 /\ a[1] = "p" /\ a[2] = "p" /\ a[3] = "c"
      BY <3>1, AppendProperties
    <3> HIDE DEF a, b
    <3>3. \A i \in 1..3 : a[i] = b[i]
      BY <3>1, <3>2
    <3>4. a = b
      BY <3>1, <3>2, <3>3, SeqEqual
    <3> QED BY <3>4 DEF a, b
  <2>2. Append(Held(k), token) = Escape
    BY <2>1, HeldFacts DEF Escape
  <2> QED BY <2>2
<1>4. /\ keep \in 0..2 /\ keep <= k + 1 /\ (keep > 0 => token = "p")
      /\ token = "p" => keep >= 1 /\ (k >= 1 => keep = 2)
  <2>1. CASE token = "p"
    <3>1. keep = SuffixPrefix[k]["p"]
      BY <2>1, HeldFacts
    <3> HIDE DEF keep
    <3> QED BY <2>1, <3>1, SuffixFacts
  <2>2. CASE token = "c"
    <3>1. keep = SuffixPrefix[k]["c"] /\ k \in {0, 1}
      BY <1>3, <2>2, HeldFacts
    <3>2. keep = 0
      <4> HIDE DEF keep
      <4> QED BY <3>1, SuffixFacts
    <3> QED BY <2>2, <3>2
  <2>3. CASE token \notin {"p", "c"}
    BY <2>3, HeldFacts
  <2> QED
    BY <2>1, <2>2, <2>3
<1> HIDE DEF keep, t
<1>5. Emit(Held(k), token, keep) = SubSeq(t, 1, m)
  BY <1>1 DEF Emit, t
<1>6. /\ SubSeq(t, 1, m) \in Seq(Token) /\ Len(SubSeq(t, 1, m)) = m
      /\ \A i \in 1..m : SubSeq(t, 1, m)[i] = t[i]
  <2>1. m \in 0..k + 1 /\ \A i \in 1..m : t[i] \in Token
    BY <1>2, <1>4, ElementOfSeq
  <2> QED
    BY <2>1, SubSeqProperties
<1>7. Held(keep) \in Seq(Token) /\ Len(Held(keep)) = keep /\ \A i \in 1..keep : Held(keep)[i] = "p"
  BY <1>4, HeldFacts
<1>8. SubSeq(t, 1, m) \o Held(keep) = t
  <2> DEFINE whole == SubSeq(t, 1, m) \o Held(keep)
           first == SubSeq(t, 1, m)
           last == Held(keep)
  <2>1. whole = first \o last /\ first \in Seq(Token) /\ last \in Seq(Token)
        /\ Len(first) = m /\ Len(last) = keep
    BY <1>6, <1>7
  <2> HIDE DEF whole, first, last
  <2>5. whole \in Seq(Token) /\ Len(whole) = Len(first) + Len(last)
    BY <2>1, ConcatProperties
  <2>6. \A i \in 1..Len(first) + Len(last) : whole[i] = IF i <= Len(first) THEN first[i]
                                                         ELSE last[i - Len(first)]
    BY <2>1, ConcatProperties
  <2>2. m + keep = k + 1 /\ m \in Nat
    BY <1>4
  <2>7. whole \in Seq(Token) /\ Len(whole) = k + 1
        /\ \A i \in 1..k + 1 : whole[i] = IF i <= m THEN first[i] ELSE last[i - m]
    BY <2>1, <2>2, <2>5, <2>6
  <2>3. \A i \in 1..k + 1 : whole[i] = t[i]
    <3> SUFFICES ASSUME NEW i \in 1..k + 1 PROVE whole[i] = t[i]
      OBVIOUS
    <3>1. CASE i <= m
      BY <1>6, <2>2, <2>7, <3>1 DEF first
    <3>2. CASE i > m
      <4>1. i - m \in 1..keep /\ token = "p"
        BY <1>4, <2>2, <3>2
      <4>2. whole[i] = "p"
        BY <1>7, <2>2, <2>7, <3>2, <4>1 DEF last
      <4>3. t[i] = "p"
        BY <1>2, <4>1
      <4> QED BY <4>2, <4>3
    <3> QED
      BY <2>2, <3>1, <3>2
  <2>4. whole = t
    BY <1>2, <2>3, <2>7, SeqEqual
  <2> QED
    BY <2>4 DEF whole
<1>9. Emit(Held(k), token, keep) \in Seq(Token) /\ Emit(Held(k), token, keep) \o Held(keep) = t
  BY <1>5, <1>6, <1>8
<1> QED
  BY <1>3, <1>4, <1>9 DEF keep, t

-----------------------------------------------------------------------------
(* The history, with what is held back as if it had been forwarded. *)

Sent(token) == [fate |-> "router", token |-> token]

\* The router has not got the escape sequence.
NoEscapeIn(l) ==
    \A i \in 1..Len(l) - 2 : ~(l[i] = Sent("p") /\ l[i + 1] = Sent("p") /\ l[i + 2] = Sent("c"))

\* No more than k tokens at the end may be the beginning of the sequence.
Knows(l, k) ==
    /\ Len(l) >= 1 /\ l[Len(l)] = Sent("p") => k >= 1
    /\ Len(l) >= 2 /\ l[Len(l)] = Sent("p") /\ l[Len(l) - 1] = Sent("p") => k >= 2

TokensOf(l) == [i \in DOMAIN l |-> l[i].token]

Logged(l, fate, tokens) == l \o Fate(fate, tokens)

LEMMA TokensOfFacts ==
    ASSUME NEW l \in Seq(Entry)
    PROVE  /\ TokensOf(l) \in Seq(Token) /\ Len(TokensOf(l)) = Len(l)
           /\ \A i \in 1..Len(l) : TokensOf(l)[i] = l[i].token
<1>1. Len(l) \in Nat /\ DOMAIN l = 1..Len(l) /\ \A i \in 1..Len(l) : l[i] \in Entry
  BY LenProperties
<1>2. \A i \in 1..Len(l) : l[i].token \in Token
  BY <1>1 DEF Entry
<1> QED
  BY <1>1, <1>2 DEF TokensOf

LEMMA FateFacts ==
    \A l \in Seq(Entry), fate \in {"router", "flushed", "session"}, tokens \in Seq(Token) :
        /\ Logged(l, fate, tokens) \in Seq(Entry)
        /\ Len(Logged(l, fate, tokens)) = Len(l) + Len(tokens)
        /\ \A i \in 1..Len(l) : Logged(l, fate, tokens)[i] = l[i]
        /\ \A i \in 1..Len(tokens) :
              Logged(l, fate, tokens)[Len(l) + i] = [fate |-> fate, token |-> tokens[i]]
        /\ TokensOf(Logged(l, fate, tokens)) = TokensOf(l) \o tokens
<1> SUFFICES ASSUME NEW l \in Seq(Entry), NEW fate \in {"router", "flushed", "session"},
                    NEW tokens \in Seq(Token)
             PROVE  /\ Logged(l, fate, tokens) \in Seq(Entry)
                    /\ Len(Logged(l, fate, tokens)) = Len(l) + Len(tokens)
                    /\ \A i \in 1..Len(l) : Logged(l, fate, tokens)[i] = l[i]
                    /\ \A i \in 1..Len(tokens) :
                          Logged(l, fate, tokens)[Len(l) + i] = [fate |-> fate, token |-> tokens[i]]
                    /\ TokensOf(Logged(l, fate, tokens)) = TokensOf(l) \o tokens
  OBVIOUS
<1> DEFINE more == Fate(fate, tokens)
           both == l \o more
<1>1. Len(l) \in Nat /\ Len(tokens) \in Nat /\ DOMAIN tokens = 1..Len(tokens) /\ DOMAIN l = 1..Len(l)
      /\ (\A i \in 1..Len(tokens) : tokens[i] \in Token) /\ (\A i \in 1..Len(l) : l[i] \in Entry)
  BY LenProperties
<1>2. /\ more \in Seq(Entry) /\ Len(more) = Len(tokens)
      /\ \A i \in 1..Len(tokens) : more[i] = [fate |-> fate, token |-> tokens[i]]
  BY <1>1 DEF Fate, Entry
<1> HIDE DEF more
<1>3. /\ both \in Seq(Entry) /\ Len(both) = Len(l) + Len(more)
      /\ \A i \in 1..Len(l) + Len(more) : both[i] = IF i <= Len(l) THEN l[i] ELSE more[i - Len(l)]
  <2>1. more \in Seq(Entry)
    BY <1>2
  <2>2. both \in Seq(Entry)
    BY <2>1, ConcatProperties
  <2>3. Len(both) = Len(l) + Len(more)
    BY <2>1, ConcatProperties
  <2>4. \A i \in 1..Len(l) + Len(more) : both[i] = IF i <= Len(l) THEN l[i] ELSE more[i - Len(l)]
    BY <2>1, ConcatProperties
  <2> QED BY <2>2, <2>3, <2>4
<1> HIDE DEF both
<1>4. \A i \in 1..Len(l) : both[i] = l[i]
  BY <1>1, <1>2, <1>3
<1>5. ASSUME NEW i \in 1..Len(tokens)
      PROVE  both[Len(l) + i] = [fate |-> fate, token |-> tokens[i]]
  <2>1. Len(l) + i \in 1..Len(l) + Len(more) /\ ~(Len(l) + i <= Len(l)) /\ (Len(l) + i) - Len(l) = i
    BY <1>1, <1>2
  <2> QED
    BY <1>2, <1>3, <2>1
<1>6. ASSUME NEW s \in Seq(Entry)
      PROVE  /\ TokensOf(s) \in Seq(Token) /\ Len(TokensOf(s)) = Len(s)
             /\ \A i \in 1..Len(s) : TokensOf(s)[i] = s[i].token
  BY TokensOfFacts
<1>7. TokensOf(both) = TokensOf(l) \o tokens
  <2> DEFINE a == TokensOf(both)
             b == TokensOf(l) \o tokens
  <2>1. a \in Seq(Token) /\ Len(a) = Len(l) + Len(tokens)
        /\ \A i \in 1..Len(l) + Len(tokens) : a[i] = both[i].token
    <3>1. both \in Seq(Entry)
      BY <1>3
    <3>2. a \in Seq(Token) /\ Len(a) = Len(both) /\ \A i \in 1..Len(both) : a[i] = both[i].token
      BY <1>6, <3>1
    <3> QED BY <1>2, <1>3, <3>2
  <2>6. TokensOf(l) \in Seq(Token)
    BY <1>6
  <2>7. b \in Seq(Token)
    BY <2>6, ConcatProperties
  <2>8. Len(b) = Len(TokensOf(l)) + Len(tokens)
    BY <2>6, ConcatProperties
  <2>2. \A i \in 1..Len(TokensOf(l)) + Len(tokens) :
           b[i] = IF i <= Len(TokensOf(l)) THEN TokensOf(l)[i] ELSE tokens[i - Len(TokensOf(l))]
    BY <2>6, ConcatProperties
  <2>3. Len(TokensOf(l)) = Len(l) /\ \A i \in 1..Len(l) : TokensOf(l)[i] = l[i].token
    BY <1>6
  <2> HIDE DEF a, b
  <2>4. ASSUME NEW i \in 1..Len(l) + Len(tokens) PROVE a[i] = b[i]
    <3>1. CASE i <= Len(l)
      <4>1. i \in 1..Len(l) /\ i \in 1..Len(l) + Len(tokens)
        BY <1>1, <3>1
      <4> QED
        BY <1>4, <2>1, <2>2, <2>3, <3>1, <4>1
    <3>2. CASE i > Len(l)
      <4>1. i - Len(l) \in 1..Len(tokens) /\ Len(l) + (i - Len(l)) = i
        BY <1>1, <3>2
      <4>3. PICK j \in 1..Len(tokens) : j = i - Len(l) /\ Len(l) + j = i
        BY <4>1
      <4>2. both[i].token = tokens[i - Len(l)]
        <5>1. both[Len(l) + j] = [fate |-> fate, token |-> tokens[j]]
          BY <1>5
        <5> QED BY <4>3, <5>1
      <4> QED
        BY <1>1, <2>1, <2>2, <2>3, <3>2, <4>2
    <3> QED
      BY <1>1, <3>1, <3>2
  <2>5. a = b
    BY <2>1, <2>3, <2>4, <2>7, <2>8, SeqEqual
  <2> QED
    BY <2>5 DEF a, b
<1> QED
  <2>1. Logged(l, fate, tokens) = both /\ Fate(fate, tokens) = more
    BY DEF more, both, Logged
  <2> QED
    BY <1>2, <1>3, <1>4, <1>5, <1>6, <1>7, <2>1

-----------------------------------------------------------------------------
(* What the router has been sent, and what sending more of it makes true.     *)

Stream(l, tokens) == Logged(l, "router", tokens)

LEMMA ToSession ==
    ASSUME NEW l \in Seq(Entry), NEW tokens \in Seq(Token)
    PROVE  TokensOf(Logged(l, "session", tokens)) = TokensOf(l) \o tokens
BY FateFacts

\* What is held back is known, and the sequence has not been sent.
Clean(l, k) == NoEscapeIn(l) /\ Knows(l, k)

LEMMA StreamAppend ==
    ASSUME NEW l \in Seq(Entry), NEW tokens \in Seq(Token), NEW token \in Token
    PROVE  /\ Stream(l, tokens) \in Seq(Entry)
           /\ Stream(l, Append(tokens, token)) = Append(Stream(l, tokens), Sent(token))
<1> DEFINE a == Stream(l, Append(tokens, token))
           b == Append(Stream(l, tokens), Sent(token))
           s == Stream(l, tokens)
           t == Append(tokens, token)
<1>1. t \in Seq(Token) /\ Len(t) = Len(tokens) + 1 /\ t[Len(tokens) + 1] = token
      /\ (\A i \in 1..Len(tokens) : t[i] = tokens[i])
  BY AppendProperties
<1>2. Len(l) \in Nat /\ Len(tokens) \in Nat
  BY LenProperties
<1> HIDE DEF t
<1>3. /\ s \in Seq(Entry) /\ Len(s) = Len(l) + Len(tokens)
      /\ \A i \in 1..Len(l) : s[i] = l[i]
      /\ \A i \in 1..Len(tokens) : s[Len(l) + i] = Sent(tokens[i])
  BY FateFacts DEF Stream, Sent
<1>4. /\ a \in Seq(Entry) /\ Len(a) = Len(l) + Len(t)
      /\ \A i \in 1..Len(l) : a[i] = l[i]
      /\ \A i \in 1..Len(t) : a[Len(l) + i] = Sent(t[i])
  BY <1>1, FateFacts DEF Stream, Sent, t
<1> HIDE DEF a, s
<1>5. Sent(token) \in Entry
  BY DEF Sent, Entry
<1>6. b \in Seq(Entry) /\ Len(b) = Len(s) + 1 /\ b[Len(s) + 1] = Sent(token)
      /\ (\A i \in 1..Len(s) : b[i] = s[i])
  <2>1. b = Append(s, Sent(token)) /\ s \in Seq(Entry)
    BY <1>3 DEF s
  <2> HIDE DEF b
  <2>2. /\ Append(s, Sent(token)) \in Seq(Entry) /\ Len(Append(s, Sent(token))) = Len(s) + 1
        /\ \A i \in 1..Len(s) : Append(s, Sent(token))[i] = s[i]
        /\ Append(s, Sent(token))[Len(s) + 1] = Sent(token)
    BY <1>5, <2>1, AppendProperties
  <2> QED BY <2>1, <2>2
<1> HIDE DEF b
<1>7. ASSUME NEW i \in 1..Len(a) PROVE a[i] = b[i]
  <2>1. CASE i <= Len(l)
    BY <1>2, <1>3, <1>4, <1>6, <2>1
  <2>2. CASE i > Len(l)
    <3>1. PICK j \in 1..Len(t) : i = Len(l) + j
      <4>1. i - Len(l) \in 1..Len(t) /\ i = Len(l) + (i - Len(l))
        BY <1>1, <1>2, <1>4, <2>2
      <4> QED BY <4>1
    <3>2. a[i] = Sent(t[j])
      BY <1>4, <3>1
    <3>3. CASE j <= Len(tokens)
      <4>1. j \in 1..Len(tokens) /\ i \in 1..Len(s)
        BY <1>1, <1>2, <1>3, <3>1, <3>3
      <4>2. b[i] = s[Len(l) + j] /\ s[Len(l) + j] = Sent(tokens[j]) /\ t[j] = tokens[j]
        BY <1>1, <1>3, <1>6, <3>1, <4>1
      <4> QED BY <3>2, <4>2
    <3>4. CASE j > Len(tokens)
      <4>1. j = Len(tokens) + 1 /\ i = Len(s) + 1
        <5>1. j \in Nat /\ i = Len(l) + j /\ j <= Len(tokens) + 1
          BY <1>1, <3>1
        <5> QED BY <1>2, <1>3, <3>4, <5>1
      <4> QED BY <1>1, <1>6, <3>2, <4>1
    <3> QED BY <1>1, <1>2, <3>3, <3>4
  <2> QED BY <1>2, <1>4, <2>1, <2>2
<1>8. Len(a) = Len(b)
  BY <1>1, <1>2, <1>3, <1>4, <1>6
<1>9. a = b
  BY <1>4, <1>6, <1>7, <1>8, SeqEqual
<1> QED
  BY <1>3, <1>9 DEF a, b, s, t

\* What is sent in two parts is sent.
LEMMA StreamConcat ==
    ASSUME NEW l \in Seq(Entry), NEW first \in Seq(Token), NEW second \in Seq(Token)
    PROVE  Stream(Stream(l, first), second) = Stream(l, first \o second)
<1> DEFINE a == Stream(Stream(l, first), second)
           b == Stream(l, first \o second)
           s == Stream(l, first)
           t == first \o second
<1>1. t \in Seq(Token)
  BY ConcatProperties
<1>2. Len(t) = Len(first) + Len(second)
  BY ConcatProperties
<1>3. \A i \in 1..Len(first) + Len(second) :
         t[i] = IF i <= Len(first) THEN first[i] ELSE second[i - Len(first)]
  BY ConcatProperties
<1>4. Len(l) \in Nat /\ Len(first) \in Nat /\ Len(second) \in Nat
  BY LenProperties
<1> HIDE DEF t
<1>5. /\ s \in Seq(Entry) /\ Len(s) = Len(l) + Len(first)
      /\ \A i \in 1..Len(l) : s[i] = l[i]
      /\ \A i \in 1..Len(first) : s[Len(l) + i] = Sent(first[i])
  BY FateFacts DEF Stream, Sent
<1>6. /\ b \in Seq(Entry) /\ Len(b) = Len(l) + Len(t)
      /\ \A i \in 1..Len(l) : b[i] = l[i]
      /\ \A i \in 1..Len(t) : b[Len(l) + i] = Sent(t[i])
  BY <1>1, FateFacts DEF Stream, Sent, t
<1>7. a = Stream(s, second)
  OBVIOUS
<1> HIDE DEF s, a, b
<1>8. /\ a \in Seq(Entry) /\ Len(a) = Len(s) + Len(second)
      /\ \A i \in 1..Len(s) : a[i] = s[i]
      /\ \A i \in 1..Len(second) : a[Len(s) + i] = Sent(second[i])
  BY <1>5, <1>7, FateFacts DEF Stream, Sent
<1>9. ASSUME NEW i \in 1..Len(a) PROVE a[i] = b[i]
  <2>1. CASE i <= Len(l)
    <3>1. i \in 1..Len(l) /\ i \in 1..Len(s)
      BY <1>4, <1>5, <2>1
    <3> QED BY <1>5, <1>6, <1>8, <3>1
  <2>2. CASE i > Len(l) /\ i <= Len(s)
    <3>1. PICK j \in 1..Len(first) : i = Len(l) + j
      <4>1. i - Len(l) \in 1..Len(first) /\ i = Len(l) + (i - Len(l))
        BY <1>4, <1>5, <2>2
      <4> QED BY <4>1
    <3>2. j \in 1..Len(t) /\ t[j] = first[j] /\ i \in 1..Len(s)
      BY <1>2, <1>3, <1>4, <1>5, <2>2, <3>1
    <3>3. b[Len(l) + j] = Sent(t[j]) /\ s[Len(l) + j] = Sent(first[j])
      BY <1>5, <1>6, <3>1, <3>2
    <3> QED BY <1>8, <3>1, <3>2, <3>3
  <2>3. CASE i > Len(s)
    <3>1. PICK j \in 1..Len(second) : i = Len(s) + j
      <4>1. i - Len(s) \in 1..Len(second) /\ i = Len(s) + (i - Len(s))
        BY <1>4, <1>5, <1>8, <2>3
      <4> QED BY <4>1
    <3>2. PICK m \in 1..Len(t) : m = Len(first) + j
      <4>1. Len(first) + j \in 1..Len(t)
        BY <1>2, <1>4, <3>1
      <4> QED BY <4>1
    <3>3. t[m] = second[j]
      <4>1. ~(m <= Len(first)) /\ m - Len(first) = j
        BY <1>4, <3>1, <3>2
      <4> QED BY <1>2, <1>3, <3>2, <4>1
    <3>4. i = Len(l) + m
      BY <1>4, <1>5, <3>1, <3>2
    <3>5. a[Len(s) + j] = Sent(second[j]) /\ b[Len(l) + m] = Sent(t[m])
      BY <1>6, <1>8, <3>1, <3>2
    <3> QED BY <3>1, <3>3, <3>4, <3>5
  <2> QED BY <1>4, <1>5, <1>8, <2>1, <2>2, <2>3
<1>10. Len(a) = Len(b)
  BY <1>2, <1>4, <1>5, <1>6, <1>8
<1>11. a = b
  BY <1>6, <1>8, <1>9, <1>10, SeqEqual
<1> QED
  BY <1>11 DEF a, b, s, t

\* One token more: if the last two may begin the sequence, c is not the third.
LEMMA CleanAppend ==
    ASSUME NEW l \in Seq(Entry), NEW token \in Token, NEW k \in 0..2, NEW keep \in 0..2,
           Clean(l, k),
           token = "p" => keep >= 1 /\ (k >= 1 => keep = 2), token = "c" => k # 2
    PROVE  Clean(Append(l, Sent(token)), keep)
<1> DEFINE more == Append(l, Sent(token))
<1>1. Sent(token) \in Entry /\ Len(l) \in Nat
  BY LenProperties DEF Sent, Entry
<1>2. /\ Len(more) = Len(l) + 1 /\ more[Len(l) + 1] = Sent(token)
      /\ \A i \in 1..Len(l) : more[i] = l[i]
  BY <1>1, AppendProperties
<1>3. \A other : Sent(token) = Sent(other) <=> token = other
  BY DEF Sent
<1> HIDE DEF more
<1>4. NoEscapeIn(more)
  <2> SUFFICES ASSUME NEW i \in 1..Len(more) - 2, more[i] = Sent("p"), more[i + 1] = Sent("p"),
                      more[i + 2] = Sent("c")
               PROVE  FALSE
    BY DEF NoEscapeIn
  <2>1. CASE i + 2 <= Len(l)
    <3>1. i \in 1..Len(l) - 2 /\ i \in 1..Len(l) /\ i + 1 \in 1..Len(l) /\ i + 2 \in 1..Len(l)
      BY <1>1, <1>2, <2>1
    <3> QED
      BY <1>2, <3>1 DEF Clean, NoEscapeIn
  <2>2. CASE i + 2 = Len(l) + 1
    <3>1. i = Len(l) - 1 /\ i + 1 = Len(l) /\ Len(l) >= 2 /\ i \in 1..Len(l) /\ i + 1 \in 1..Len(l)
      BY <1>1, <1>2, <2>2
    <3>2. l[Len(l)] = Sent("p") /\ l[Len(l) - 1] = Sent("p") /\ token = "c"
      BY <1>2, <1>3, <2>2, <3>1
    <3> QED
      BY <1>1, <3>1, <3>2 DEF Clean, Knows
  <2> QED
    BY <1>1, <1>2, <2>1, <2>2
<1>5. Knows(more, keep)
  <2>1. more[Len(more)] = Sent("p") => token = "p"
    BY <1>2, <1>3
  <2>2. Len(more) >= 2 /\ more[Len(more) - 1] = Sent("p") => Len(l) >= 1 /\ l[Len(l)] = Sent("p")
    BY <1>1, <1>2
  <2> QED
    BY <2>1, <2>2 DEF Clean, Knows
<1> QED
  BY <1>4, <1>5 DEF Clean, more

\* The beginning of what is free of the sequence is free of it; what is not sent to the
\* router ends what the matcher has to know.
LEMMA CleanPrefix ==
    ASSUME NEW l \in Seq(Entry), NEW fate \in {"router", "flushed", "session"},
           NEW tokens \in Seq(Token), NoEscapeIn(Logged(l, fate, tokens))
    PROVE  NoEscapeIn(l)
<1>1. Len(l) \in Nat /\ Len(tokens) \in Nat
  BY LenProperties
<1> DEFINE both == Logged(l, fate, tokens)
<1>2. Len(both) = Len(l) + Len(tokens) /\ \A i \in 1..Len(l) : both[i] = l[i]
  BY FateFacts
<1> HIDE DEF both
<1>3. NoEscapeIn(both)
  BY DEF both
<1>4. \A i \in 1..Len(l) - 2 : /\ i \in 1..Len(both) - 2 /\ both[i] = l[i]
                               /\ both[i + 1] = l[i + 1] /\ both[i + 2] = l[i + 2]
  BY <1>1, <1>2
<1> QED
  BY <1>3, <1>4 DEF NoEscapeIn

LEMMA NotToRouter ==
    ASSUME NEW l \in Seq(Entry), NEW fate \in {"flushed", "session"},
           NEW tokens \in Seq(Token), tokens # <<>>, NoEscapeIn(l)
    PROVE  Logged(l, fate, tokens) \in Seq(Entry) /\ Clean(Logged(l, fate, tokens), 0)
<1> DEFINE both == Logged(l, fate, tokens)
<1>1. Len(l) \in Nat /\ Len(tokens) \in Nat \ {0}
  BY LenProperties, EmptySeq
<1>2. /\ both \in Seq(Entry) /\ Len(both) = Len(l) + Len(tokens)
      /\ \A i \in 1..Len(l) : both[i] = l[i]
      /\ \A i \in 1..Len(tokens) : both[Len(l) + i] = [fate |-> fate, token |-> tokens[i]]
  <2>1. fate \in {"router", "flushed", "session"}
    OBVIOUS
  <2> QED BY <2>1, FateFacts
<1>3. \A token, other : [fate |-> fate, token |-> token] # Sent(other)
  BY DEF Sent
<1> HIDE DEF both
<1>4. \A i \in Len(l) + 1..Len(both) : \A other : both[i] # Sent(other)
  <2> SUFFICES ASSUME NEW i \in Len(l) + 1..Len(both), NEW other PROVE both[i] # Sent(other)
    OBVIOUS
  <2>1. PICK j \in 1..Len(tokens) : i = Len(l) + j
    <3>1. i - Len(l) \in 1..Len(tokens) /\ i = Len(l) + (i - Len(l))
      BY <1>1, <1>2
    <3> QED BY <3>1
  <2>2. both[Len(l) + j] = [fate |-> fate, token |-> tokens[j]]
    BY <1>2
  <2>3. [fate |-> fate, token |-> tokens[j]] # Sent(other)
    BY <1>3
  <2> QED
    BY <2>1, <2>2, <2>3
<1>5. NoEscapeIn(both)
  <2> SUFFICES ASSUME NEW i \in 1..Len(both) - 2, both[i] = Sent("p"), both[i + 1] = Sent("p"),
                      both[i + 2] = Sent("c")
               PROVE  FALSE
    BY DEF NoEscapeIn
  <2>1. i + 2 <= Len(l)
    BY <1>1, <1>2, <1>4
  <2>2. i \in 1..Len(l) - 2 /\ i \in 1..Len(l) /\ i + 1 \in 1..Len(l) /\ i + 2 \in 1..Len(l)
    BY <1>1, <2>1
  <2> QED
    BY <1>2, <2>2 DEF NoEscapeIn
<1>6. Knows(both, 0)
  <2>1. Len(both) \in Len(l) + 1..Len(both)
    BY <1>1, <1>2
  <2> QED
    BY <1>4, <2>1 DEF Knows
<1> QED
  BY <1>2, <1>5, <1>6 DEF Clean, both

-----------------------------------------------------------------------------
(* airlink_escape_feed, one token after the other.                           *)

FedState(lefts) ==
    [held : Seq(Token), emitted : Seq(Token), matched : BOOLEAN, rest : Seq(Token), left : lefts]

\* After the log l and the tokens that came: what is forwarded, what is held and what is left
\* for the session are together what came.
Tracks(l, state, came) ==
    /\ state.matched => /\ state.held = <<>> /\ NoEscapeIn(Stream(l, state.emitted))
                        /\ state.emitted \o (Escape \o state.rest) = came
    /\ ~state.matched => /\ state.rest = <<>> /\ state.emitted \o state.held = came
                         /\ \E k \in 0..2 : state.held = Held(k) /\ Clean(Stream(l, came), k)

\* A token more at the end of a concatenation.
LEMMA ConcatAppend ==
    ASSUME NEW s \in Seq(Token), NEW t \in Seq(Token), NEW token \in Token
    PROVE  s \o Append(t, token) = Append(s \o t, token)
<1>1. Append(t, token) = t \o <<token>> /\ <<token>> \in Seq(Token)
  BY AppendIsConcat
<1>2. s \o t \in Seq(Token)
  BY ConcatProperties
<1>3. Append(s \o t, token) = (s \o t) \o <<token>>
  BY <1>2, AppendIsConcat
<1>4. (s \o t) \o <<token>> = s \o (t \o <<token>>)
  BY <1>1, ConcatAssociative
<1> QED
  BY <1>1, <1>3, <1>4

LEMMA Associative == \A r, t, u \in Seq(Token) : (r \o t) \o u = r \o (t \o u)
BY ConcatAssociative

LEMMA FeedTokenKeeps ==
    ASSUME NEW l \in Seq(Entry), NEW lefts, 0 \in lefts, EscapeTimeout \in lefts,
           NEW state \in FedState(lefts), NEW came \in Seq(Token), NEW token \in Token,
           Tracks(l, state, came)
    PROVE  /\ FeedToken(state, token) \in FedState(lefts)
           /\ Tracks(l, FeedToken(state, token), Append(came, token))
<1> DEFINE next == FeedToken(state, token)
<1>1. /\ state.held \in Seq(Token) /\ state.emitted \in Seq(Token) /\ state.matched \in BOOLEAN
      /\ state.rest \in Seq(Token) /\ state.left \in lefts
  BY DEF FedState
<1>2. Append(came, token) \in Seq(Token)
  BY AppendProperties
<1>3. Escape \in Seq(Token) /\ <<>> \in Seq(Token)
  BY HeldFacts
<1>4. CASE state.matched
  <2>1. next = [state EXCEPT !.rest = Append(@, token)]
    BY <1>4 DEF FeedToken
  <2>2. Append(state.rest, token) \in Seq(Token)
    BY <1>1, AppendProperties
  <2>3. next \in FedState(lefts) /\ next.matched /\ next.held = state.held
        /\ next.emitted = state.emitted /\ next.rest = Append(state.rest, token)
    BY <1>4, <2>1, <2>2 DEF FedState
  <2>4. Escape \o Append(state.rest, token) = Append(Escape \o state.rest, token)
    BY <1>1, <1>3, ConcatAppend
  <2>5. Escape \o state.rest \in Seq(Token)
    BY <1>1, <1>3, ConcatProperties
  <2>6. state.emitted \o Append(Escape \o state.rest, token)
          = Append(state.emitted \o (Escape \o state.rest), token)
    BY <1>1, <2>5, ConcatAppend
  <2> HIDE DEF next
  <2> QED
    BY <1>4, <2>3, <2>4, <2>6 DEF Tracks, next
<1>5. CASE ~state.matched /\ Append(state.held, token) = Escape
  <2>1. next = [state EXCEPT !.held = <<>>, !.left = 0, !.matched = TRUE]
    BY <1>5 DEF FeedToken
  <2>2. next \in FedState(lefts) /\ next.matched /\ next.held = <<>>
        /\ next.emitted = state.emitted /\ next.rest = state.rest
    BY <1>1, <1>3, <2>1 DEF FedState
  <2>3. /\ state.rest = <<>> /\ state.emitted \o state.held = came
        /\ NoEscapeIn(Stream(l, came))
    BY <1>5 DEF Tracks, Clean
  <2>4. Escape \o <<>> = Escape
    BY <1>3, ConcatEmptySeq
  <2>5. state.emitted \o Append(state.held, token) = Append(came, token)
    BY <1>1, <2>3, ConcatAppend
  <2>6. NoEscapeIn(Stream(l, state.emitted))
    <3>1. Logged(l, "router", state.emitted) \in Seq(Entry)
      BY <1>1, FateFacts
    <3>2. Stream(l, came) = Logged(Logged(l, "router", state.emitted), "router", state.held)
      BY <1>1, <2>3, StreamConcat DEF Stream
    <3> QED
      BY <1>1, <2>3, <3>1, <3>2, CleanPrefix DEF Stream
  <2> HIDE DEF next
  <2> QED
    BY <1>5, <2>2, <2>3, <2>4, <2>5, <2>6 DEF Tracks, next
<1>6. CASE ~state.matched /\ Append(state.held, token) # Escape
  <2>1. PICK k \in 0..2 : state.held = Held(k) /\ Clean(Stream(l, came), k)
    BY <1>6 DEF Tracks
  <2>2. state.rest = <<>> /\ state.emitted \o state.held = came
    BY <1>6 DEF Tracks
  <2> DEFINE keep == IF token \in Range(Escape) THEN SuffixPrefix[k][token] ELSE 0
             out == Emit(Held(k), token, keep)
  <2>3. /\ keep \in 0..2 /\ (token = "p" => keep >= 1 /\ (k >= 1 => keep = 2))
        /\ (token = "c" => k # 2) /\ out \in Seq(Token)
        /\ out \o Held(keep) = Append(Held(k), token)
    BY <1>6, <2>1, MatcherStep
  <2>4. Len(state.held) = k
    BY <2>1, HeldFacts
  <2>5. \E left \in lefts :
          next = [state EXCEPT !.held = Held(keep), !.emitted = @ \o out, !.left = left]
    BY <1>1, <1>6, <2>1, <2>4 DEF FeedToken
  <2> HIDE DEF next, keep, out
  <2>6. Held(keep) \in Seq(Token)
    BY <2>3, HeldFacts
  <2>7. state.emitted \o out \in Seq(Token)
    BY <1>1, <2>3, ConcatProperties
  <2>8. /\ next \in FedState(lefts) /\ ~next.matched /\ next.held = Held(keep)
        /\ next.emitted = state.emitted \o out /\ next.rest = <<>>
    BY <1>1, <1>6, <2>2, <2>5, <2>6, <2>7 DEF FedState
  <2>9. (state.emitted \o out) \o Held(keep) = state.emitted \o (out \o Held(keep))
    <3>1. state.emitted \in Seq(Token) /\ out \in Seq(Token)
      BY <1>1, <2>3
    <3> QED
      BY <2>6, <3>1, Associative, Zenon
  <2>10. state.emitted \o Append(state.held, token) = Append(came, token)
    BY <1>1, <2>2, ConcatAppend
  <2>11. next.emitted \o next.held = Append(came, token)
    BY <2>1, <2>3, <2>8, <2>9, <2>10
  <2>12. Clean(Stream(l, Append(came, token)), keep)
    <3>1. Stream(l, came) \in Seq(Entry)
          /\ Stream(l, Append(came, token)) = Append(Stream(l, came), Sent(token))
      BY StreamAppend
    <3>2. Clean(Append(Stream(l, came), Sent(token)), keep)
      BY <2>1, <2>3, <3>1, CleanAppend
    <3> QED
      BY <3>1, <3>2
  <2> QED
    BY <2>3, <2>8, <2>11, <2>12 DEF Tracks, next
<1> QED
  BY <1>1, <1>4, <1>5, <1>6

\* Induction.
LEMMA LeastNat ==
    ASSUME NEW T, T \subseteq Nat, T # {}
    PROVE  \E x \in T : \A y \in T : x <= y
<1>1. PICK x \in T : \A y \in T : ~(<<y, x>> \in OpToRel(<, Nat))
  BY NatLessThanWellFounded, WFMin
<1>2. \A y \in T : ~(y < x)
  BY <1>1 DEF OpToRel
<1> QED
  BY <1>2

\* What has come from the host when n tokens of rx are fed.
Came(n) == escape \o SubSeq(rx, 1, n)

Lefts == {escape_left, 0, EscapeTimeout}

\* What the loop over the tokens is when it defines a function.
IsFeed(f) ==
    f = [n \in 0..Len(rx) |->
            IF n = 0 THEN [held |-> escape, emitted |-> <<>>, matched |-> FALSE, rest |-> <<>>,
                           left |-> escape_left]
            ELSE FeedToken(f[n - 1], rx[n])]

LEMMA CameFacts ==
    ASSUME rx \in Seq(Token), escape \in Seq(Token)
    PROVE  /\ Came(0) = escape
           /\ \A n \in 0..Len(rx) : Came(n) \in Seq(Token)
           /\ \A n \in 1..Len(rx) : Came(n) = Append(Came(n - 1), rx[n])
<1>1. Len(rx) \in Nat /\ \A i \in 1..Len(rx) : rx[i] \in Token
  BY LenProperties
<1>2. \A n \in 0..Len(rx) : SubSeq(rx, 1, n) \in Seq(Token)
  <2> SUFFICES ASSUME NEW n \in 0..Len(rx) PROVE SubSeq(rx, 1, n) \in Seq(Token)
    OBVIOUS
  <2>1. \A i \in 1..n : rx[i] \in Token
    BY <1>1
  <2> QED BY <1>1, <2>1, SubSeqProperties
<1>3. \A n \in 0..Len(rx) : Came(n) \in Seq(Token)
  <2> SUFFICES ASSUME NEW n \in 0..Len(rx) PROVE escape \o SubSeq(rx, 1, n) \in Seq(Token)
    BY DEF Came
  <2> QED BY <1>2, ConcatProperties
<1>4. Came(0) = escape
  <2>1. SubSeq(rx, 1, 0) = <<>>
    BY SubSeqEmpty
  <2> QED BY <2>1, ConcatEmptySeq DEF Came
<1>5. ASSUME NEW n \in 1..Len(rx) PROVE Came(n) = Append(Came(n - 1), rx[n])
  <2>1. SubSeq(rx, 1, n) = SubSeq(rx, 1, n - 1) \o <<rx[n]>>
    BY <1>1, SubSeqRecursiveSecond
  <2>2. n - 1 \in 0..Len(rx) /\ rx[n] \in Token
    BY <1>1
  <2>3. SubSeq(rx, 1, n - 1) \in Seq(Token)
    BY <1>2, <2>2
  <2>4. SubSeq(rx, 1, n) = Append(SubSeq(rx, 1, n - 1), rx[n])
    BY <2>1, <2>2, <2>3, AppendIsConcat
  <2> QED
    BY <2>2, <2>3, <2>4, ConcatAppend DEF Came
<1> QED
  BY <1>3, <1>4, <1>5

LEMMA FeedTracks ==
    ASSUME log \in Seq(Entry), rx \in Seq(Token), escape \in Seq(Token),
           \E k \in 0..2 : escape = Held(k) /\ Clean(Stream(log, escape), k),
           NEW size \in 0..Len(rx)
    PROVE  Feed[size] \in FedState(Lefts) /\ Tracks(log, Feed[size], Came(size))
<1> DEFINE Good(n) == {state \in FedState(Lefts) : Tracks(log, state, Came(n))}
           first == [held |-> escape, emitted |-> <<>>, matched |-> FALSE, rest |-> <<>>,
                     left |-> escape_left]
<1>1. Len(rx) \in Nat /\ \A n \in 1..Len(rx) : rx[n] \in Token
  BY LenProperties
<1>2. first \in Good(0)
  <2>1. <<>> \in Seq(Token) /\ escape_left \in Lefts
    BY EmptySeq DEF Lefts
  <2>2. first \in FedState(Lefts)
    BY <2>1 DEF FedState
  <2>3. <<>> \o escape = escape
    BY ConcatEmptySeq
  <2>4. Tracks(log, first, escape)
    BY <2>3 DEF Tracks
  <2> QED
    BY <2>2, <2>4, CameFacts
<1>3. ASSUME NEW n \in 1..Len(rx), NEW state \in Good(n - 1)
      PROVE  FeedToken(state, rx[n]) \in Good(n)
  <2>1. n - 1 \in 0..Len(rx) /\ n \in 0..Len(rx)
    BY <1>1
  <2>2. Came(n - 1) \in Seq(Token) /\ Came(n) = Append(Came(n - 1), rx[n]) /\ rx[n] \in Token
    BY <1>1, <2>1, CameFacts
  <2>3. 0 \in Lefts /\ EscapeTimeout \in Lefts
    BY DEF Lefts
  <2>4. state \in FedState(Lefts) /\ Tracks(log, state, Came(n - 1))
    OBVIOUS
  <2>5. /\ FeedToken(state, rx[n]) \in FedState(Lefts)
        /\ Tracks(log, FeedToken(state, rx[n]), Append(Came(n - 1), rx[n]))
    BY <2>2, <2>3, <2>4, FeedTokenKeeps
  <2> QED
    BY <2>2, <2>5
<1> HIDE DEF Good, first
<1> DEFINE Fed(m) == \E f \in [0..m -> FedState(Lefts)] :
                        /\ f[0] = first /\ \A n \in 0..m : f[n] \in Good(n)
                        /\ \A n \in 1..m : f[n] = FeedToken(f[n - 1], rx[n])
           T == {m \in 0..Len(rx) : ~Fed(m)}
<1>4. T = {}
  <2> SUFFICES ASSUME T # {} PROVE FALSE
    OBVIOUS
  <2>1. T \subseteq Nat
    BY <1>1
  <2>2. PICK m \in T : \A y \in T : m <= y
    <3> HIDE DEF Fed
    <3> QED BY <2>1, LeastNat
  <2>3. m # 0
    <3> DEFINE alone == [n \in 0..0 |-> first]
    <3>1. first \in FedState(Lefts)
      BY <1>2 DEF Good
    <3>2. alone \in [0..0 -> FedState(Lefts)] /\ alone[0] = first /\ 1..0 = {}
          /\ \A n \in 0..0 : alone[n] \in Good(n)
      BY <1>2, <3>1
    <3>3. Fed(0)
      <4> HIDE DEF alone
      <4> QED BY <3>2
    <3> QED
      BY <2>2, <3>3
  <2>4. m \in 1..Len(rx) /\ m - 1 \in 0..Len(rx) /\ m - 1 \notin T
    <3> HIDE DEF Fed
    <3>1. m \in 1..Len(rx) /\ m - 1 \in 0..Len(rx) /\ ~(m <= m - 1)
      BY <1>1, <2>2, <2>3
    <3> QED BY <2>2, <3>1
  <2>5. PICK f \in [0..m - 1 -> FedState(Lefts)] :
             /\ f[0] = first /\ \A n \in 0..m - 1 : f[n] \in Good(n)
             /\ \A n \in 1..m - 1 : f[n] = FeedToken(f[n - 1], rx[n])
    BY <2>4
  <2> DEFINE longer == [n \in 0..m |-> IF n = m THEN FeedToken(f[m - 1], rx[m]) ELSE f[n]]
  <2>6. FeedToken(f[m - 1], rx[m]) \in Good(m)
    <3>1. f[m - 1] \in Good(m - 1)
      BY <2>4, <2>5
    <3> QED BY <1>3, <2>4, <3>1
  <2>7. FeedToken(f[m - 1], rx[m]) \in FedState(Lefts)
    BY <2>6 DEF Good
  <2>8. longer \in [0..m -> FedState(Lefts)]
    BY <2>4, <2>5, <2>7
  <2>9. /\ longer[0] = first /\ \A n \in 0..m : longer[n] \in Good(n)
        /\ \A n \in 1..m : longer[n] = FeedToken(longer[n - 1], rx[n])
    BY <2>4, <2>5, <2>6
  <2>10. Fed(m)
    <3> HIDE DEF longer
    <3> QED BY <2>8, <2>9
  <2> QED
    BY <2>2, <2>10
<1>5. PICK f \in [0..Len(rx) -> FedState(Lefts)] :
           /\ f[0] = first /\ \A n \in 0..Len(rx) : f[n] \in Good(n)
           /\ \A n \in 1..Len(rx) : f[n] = FeedToken(f[n - 1], rx[n])
  <2>1. Fed(Len(rx))
    <3> HIDE DEF Fed
    <3> QED BY <1>1, <1>4
  <2> QED BY <2>1
<1>6. IsFeed(f)
  BY <1>1, <1>5 DEF IsFeed, first
<1> DEFINE g == CHOOSE h : IsFeed(h)
<1>7. IsFeed(g)
  BY <1>6
<1>8. Feed = g
  BY DEF Feed, IsFeed
<1> HIDE DEF g
<1>9. g[0] = first /\ \A n \in 1..Len(rx) : g[n] = FeedToken(g[n - 1], rx[n])
  <2>1. \A n \in 0..Len(rx) : g[n] = IF n = 0 THEN first ELSE FeedToken(g[n - 1], rx[n])
    <3>1. g = [n \in 0..Len(rx) |-> IF n = 0 THEN first ELSE FeedToken(g[n - 1], rx[n])]
      BY <1>7, Zenon DEF IsFeed, first
    <3> QED BY <3>1, Zenon
  <2> QED BY <1>1, <2>1
<1>10. g[size] = f[size]
  <2> DEFINE U == {n \in 0..Len(rx) : g[n] # f[n]}
  <2> SUFFICES ASSUME U # {} PROVE FALSE
    OBVIOUS
  <2>1. U \subseteq Nat
    BY <1>1
  <2>2. PICK n \in U : \A y \in U : n <= y
    <3> HIDE DEF U
    <3> QED BY <2>1, LeastNat
  <2>3. n \in 1..Len(rx) /\ n - 1 \in 0..Len(rx) /\ n - 1 \notin U
    BY <1>1, <1>5, <1>9, <2>2
  <2> QED
    BY <1>5, <1>9, <2>2, <2>3
<1> QED
  BY <1>5, <1>8, <1>10 DEF Good

-----------------------------------------------------------------------------
(* The bytes of the host, over the steps of usb_task.                        *)

\* What is held back is the beginning of the sequence that the last tokens may be, and the
\* router has not got the sequence, not even if what is held back follows.
HoldsPrefix == \E k \in 0..2 : escape = Held(k) /\ Clean(Stream(log, escape), k)

Environment ==
    [root : BOOLEAN, writes : SUBSET Seq(STRING), count : Nat, frames : Nat, faults : Nat]

StreamTypes ==
    /\ env \in Environment
    /\ pc \in {"top", "read", "escaped", "reset", "session"}
    /\ log \in Seq(Entry) /\ chunk \in Seq(Token) /\ rx \in Seq(Token)
    /\ written \in Seq(Token)

\* Whoever has the line, the other has nothing left of it.
OneReader ==
    /\ pc \in {"top", "read"} => chunk = <<>>
    /\ s_mode = "log_cli" \/ pc \in {"escaped", "reset", "session"} => escape = <<>>

StreamInv == StreamTypes /\ HoldsPrefix /\ BytesInOrder /\ OneReader

LEMMA HoldsTokens == HoldsPrefix => escape \in Seq(Token)
BY HeldFacts DEF HoldsPrefix

LEMMA Closed == \A r, t \in Seq(Token) : r \o t \in Seq(Token)
BY ConcatProperties

LEMMA Empty == <<>> \in Seq(Token) /\ \A s \in Seq(Token) : s \o <<>> = s /\ <<>> \o s = s
BY ConcatEmptySeq, EmptySeq

\* What the history and the unit have of the bytes of the host, and what waits.
Order(l, e, c, r) == ((TokensOf(l) \o e) \o c) \o r
Waiting(e, c, r) == e \o (c \o r)

LEMMA WaitingTokens ==
    \A e, c, r \in Seq(Token) : Waiting(e, c, r) \in Seq(Token)
BY Closed DEF Waiting

LEMMA OrderIs ==
    \A l \in Seq(Entry), e, c, r \in Seq(Token) :
        Order(l, e, c, r) = TokensOf(l) \o Waiting(e, c, r)
<1> SUFFICES ASSUME NEW l \in Seq(Entry), NEW e \in Seq(Token), NEW c \in Seq(Token),
                    NEW r \in Seq(Token)
             PROVE  Order(l, e, c, r) = TokensOf(l) \o Waiting(e, c, r)
  OBVIOUS
<1> DEFINE t == TokensOf(l)
<1>1. t \in Seq(Token)
  BY TokensOfFacts
<1>2. Order(l, e, c, r) = ((t \o e) \o c) \o r
  BY DEF Order
<1> HIDE DEF t
<1>3. t \o e \in Seq(Token) /\ c \o r \in Seq(Token)
  BY <1>1, Closed
<1>4. ((t \o e) \o c) \o r = (t \o e) \o (c \o r)
  BY <1>3, Associative, Zenon
<1>5. (t \o e) \o (c \o r) = t \o (e \o (c \o r))
  BY <1>1, <1>3, Associative, Zenon
<1>7. Order(l, e, c, r) = t \o (e \o (c \o r))
  BY <1>2, <1>4, <1>5, Zenon
<1> QED
  BY <1>7 DEF t, Waiting

LEMMA BytesWait ==
    ASSUME log \in Seq(Entry), escape \in Seq(Token), chunk \in Seq(Token), rx \in Seq(Token)
    PROVE  BytesInOrder <=> TokensOf(log) \o Waiting(escape, chunk, rx) = written
<1>1. BytesInOrder <=> Order(log, escape, chunk, rx) = written
  BY DEF BytesInOrder, TokensOf, Order
<1>2. Order(log, escape, chunk, rx) = TokensOf(log) \o Waiting(escape, chunk, rx)
  BY OrderIs
<1> QED BY <1>1, <1>2

LEMMA BytesWaitNext ==
    ASSUME log' \in Seq(Entry), escape' \in Seq(Token), chunk' \in Seq(Token), rx' \in Seq(Token)
    PROVE  BytesInOrder' <=> TokensOf(log') \o Waiting(escape', chunk', rx') = written'
<1>1. BytesInOrder' <=> Order(log', escape', chunk', rx') = written'
  BY DEF BytesInOrder, TokensOf, Order
<1>2. Order(log', escape', chunk', rx') = TokensOf(log') \o Waiting(escape', chunk', rx')
  BY OrderIs
<1> QED BY <1>1, <1>2

\* What is logged is what no longer waits.
LEMMA OrderKept ==
    ASSUME BytesInOrder, NEW moved \in Seq(Token),
           log \in Seq(Entry), escape \in Seq(Token), chunk \in Seq(Token), rx \in Seq(Token),
           log' \in Seq(Entry), escape' \in Seq(Token), chunk' \in Seq(Token),
           rx' \in Seq(Token), UNCHANGED written,
           TokensOf(log') = TokensOf(log) \o moved,
           moved \o Waiting(escape', chunk', rx') = Waiting(escape, chunk, rx)
    PROVE  BytesInOrder'
<1> DEFINE t == TokensOf(log)
           t2 == TokensOf(log')
           w == Waiting(escape, chunk, rx)
           w2 == Waiting(escape', chunk', rx')
<1>1. t \in Seq(Token)
  BY TokensOfFacts
<1>2. w2 \in Seq(Token)
  BY WaitingTokens
<1>3. t \o w = written
  BY BytesWait
<1>4. t2 = t \o moved /\ moved \o w2 = w /\ written' = written
  OBVIOUS
<1>5. t2 \o w2 = written' => BytesInOrder'
  BY BytesWaitNext
<1> HIDE DEF t, t2, w, w2
<1>6. (t \o moved) \o w2 = t \o (moved \o w2)
  <2>1. \A q, u, v \in Seq(Token) : (q \o u) \o v = q \o (u \o v)
    BY Associative
  <2> QED BY <1>1, <1>2, <2>1, Zenon
<1>7. t2 \o w2 = written'
  BY <1>3, <1>4, <1>6, Zenon
<1> QED
  BY <1>5, <1>7

\* A step that leaves the bytes of the host alone.
LEMMA StreamUnchanged ==
    ASSUME StreamInv, UNCHANGED <<log, escape, chunk, rx, written>>, StreamTypes', OneReader'
    PROVE  StreamInv'
BY DEF StreamInv, HoldsPrefix, BytesInOrder

\* A step of which none of the bytes go to the router.
LEMMA StreamTaken ==
    ASSUME StreamInv, NEW fate \in {"flushed", "session"}, NEW moved \in Seq(Token),
           moved # <<>>, log' = log \o Fate(fate, moved), escape' = <<>>,
           chunk' \in Seq(Token), rx' \in Seq(Token), UNCHANGED written,
           moved \o (chunk' \o rx') = Waiting(escape, chunk, rx)
    PROVE  log' \in Seq(Entry) /\ HoldsPrefix' /\ BytesInOrder'
<1>1. log \in Seq(Entry) /\ chunk \in Seq(Token) /\ rx \in Seq(Token) /\ escape \in Seq(Token)
  BY HoldsTokens DEF StreamInv, StreamTypes
<1>2. log' = Logged(log, fate, moved) /\ fate \in {"router", "flushed", "session"}
  BY DEF Logged
<1>3. NoEscapeIn(log)
  <2>1. NoEscapeIn(Logged(log, "router", escape))
    BY DEF StreamInv, HoldsPrefix, Clean, Stream
  <2> QED
    BY <1>1, <2>1, CleanPrefix
<1>4. log' \in Seq(Entry) /\ Clean(log', 0)
  BY <1>1, <1>2, <1>3, NotToRouter
<1>5. HoldsPrefix'
  <2>1. Stream(log', <<>>) = log'
    <3>1. Fate("router", <<>>) = <<>>
      BY DEF Fate
    <3> QED BY <1>4, <3>1, ConcatEmptySeq DEF Stream, Logged
  <2>2. escape' = Held(0) /\ Clean(Stream(log', escape'), 0)
    BY <1>4, <2>1, HeldFacts
  <2> QED BY <2>2 DEF HoldsPrefix
<1>6. TokensOf(log') = TokensOf(log) \o moved
  <2>1. TokensOf(Logged(log, fate, moved)) = TokensOf(log) \o moved
    BY <1>1, <1>2, FateFacts
  <2> QED BY <1>2, <2>1
<1>7. moved \o Waiting(escape', chunk', rx') = Waiting(escape, chunk, rx) /\ escape' \in Seq(Token)
  <2>1. chunk' \o rx' \in Seq(Token)
    BY Closed
  <2>2. escape' \o (chunk' \o rx') = chunk' \o rx'
    BY <2>1, Empty, Zenon
  <2> QED BY <2>2, Empty DEF Waiting
<1>8. BytesInOrder'
  BY <1>1, <1>4, <1>6, <1>7, OrderKept DEF StreamInv
<1> QED
  BY <1>4, <1>5, <1>8

\* What a read takes and what it leaves is what was there.
LEMMA ReadSplits ==
    ASSUME rx \in Seq(Token), NEW size \in 1..Len(rx)
    PROVE  /\ SubSeq(rx, 1, size) \in Seq(Token) /\ SubSeq(rx, size + 1, Len(rx)) \in Seq(Token)
           /\ SubSeq(rx, 1, size) \o SubSeq(rx, size + 1, Len(rx)) = rx
           /\ SubSeq(rx, 1, size) # <<>>
<1>1. Len(rx) \in Nat /\ \A i \in 1..Len(rx) : rx[i] \in Token
  BY LenProperties
<1>2. SubSeq(rx, 1, size) \in Seq(Token) /\ Len(SubSeq(rx, 1, size)) = IF 1 <= size THEN size - 1 + 1 ELSE 0
  <2>1. \A i \in 1..size : rx[i] \in Token
    BY <1>1
  <2> QED BY <2>1, SubSeqProperties
<1>3. SubSeq(rx, size + 1, Len(rx)) \in Seq(Token)
  <2>1. \A i \in size + 1..Len(rx) : rx[i] \in Token
    BY <1>1
  <2>2. size + 1 \in Int /\ Len(rx) \in Int
    BY <1>1
  <2> QED BY <2>1, <2>2, SubSeqProperties
<1>4. SubSeq(rx, 1, size) \o SubSeq(rx, size + 1, Len(rx)) = SubSeq(rx, 1, Len(rx))
  <2>1. 1 \in 1..Len(rx) + 1 /\ size \in 1 - 1..Len(rx) /\ Len(rx) \in size..Len(rx)
    BY <1>1
  <2> QED BY <2>1, ConcatAdjacentSubSeq
<1>5. SubSeq(rx, 1, Len(rx)) = rx
  BY SubSeqFull
<1>6. SubSeq(rx, 1, size) # <<>>
  BY <1>1, <1>2, EmptySeq
<1> QED
  BY <1>2, <1>3, <1>4, <1>5, <1>6

\* A read in MAVLink mode, over the matcher.
LEMMA ReadMavlinkStream ==
    ASSUME StreamInv, NEW size \in 1..Len(rx), ReadMavlink(size)
    PROVE  StreamInv'
<1> DEFINE fed == Feed[size]
           came == Came(size)
           left == SubSeq(rx, size + 1, Len(rx))
           taken == SubSeq(rx, 1, size)
<1>1. /\ log \in Seq(Entry) /\ chunk = <<>> /\ rx \in Seq(Token) /\ escape \in Seq(Token)
      /\ BytesInOrder
  BY HoldsTokens DEF StreamInv, StreamTypes, OneReader, ReadMavlink
<1>2. fed \in FedState(Lefts) /\ Tracks(log, fed, came)
  <2>1. size \in 0..Len(rx)
    BY <1>1, LenProperties
  <2> QED
    BY <1>1, <2>1, FeedTracks DEF StreamInv, HoldsPrefix
<1>3. left \in Seq(Token) /\ came \in Seq(Token) /\ came \o left = Waiting(escape, chunk, rx)
  <2>1. taken \in Seq(Token) /\ left \in Seq(Token) /\ taken \o left = rx
    BY <1>1, ReadSplits
  <2>2. came = escape \o taken
    BY DEF Came
  <2> HIDE DEF taken, left, came
  <2>3. (escape \o taken) \o left = escape \o (taken \o left)
    BY <1>1, <2>1, Associative, Zenon
  <2>4. <<>> \o rx = rx
    BY <1>1, Empty
  <2>5. came \in Seq(Token)
    BY <1>1, <2>1, <2>2, Closed
  <2> QED
    BY <1>1, <2>1, <2>2, <2>3, <2>4, <2>5 DEF Waiting
<1>4. /\ escape' = fed.held /\ chunk' = fed.rest /\ rx' = left /\ UNCHANGED <<env, s_mode, written>>
      /\ log' = (log \o Fate("router", fed.emitted))
                   \o (IF fed.matched THEN Fate("session", Escape) ELSE <<>>)
      /\ pc' = IF fed.matched THEN "escaped" ELSE "top"
      /\ s_mode = "mavlink"
  BY DEF ReadMavlink
<1> HIDE DEF fed, came, left, taken
<1>5. /\ fed.held \in Seq(Token) /\ fed.emitted \in Seq(Token) /\ fed.rest \in Seq(Token)
      /\ fed.matched \in BOOLEAN
  BY <1>2 DEF FedState
<1>6. /\ Stream(log, fed.emitted) \in Seq(Entry)
      /\ log \o Fate("router", fed.emitted) = Stream(log, fed.emitted)
      /\ TokensOf(Stream(log, fed.emitted)) = TokensOf(log) \o fed.emitted
  BY <1>1, <1>5, FateFacts DEF Stream, Logged
<1>7. CASE ~fed.matched
  <2>1. log' = Stream(log, fed.emitted)
    BY <1>4, <1>6, <1>7, ConcatEmptySeq
  <2>2. /\ fed.rest = <<>> /\ fed.emitted \o fed.held = came
        /\ \E k \in 0..2 : fed.held = Held(k) /\ Clean(Stream(log, came), k)
    BY <1>2, <1>7 DEF Tracks
  <2>3. Stream(log', escape') = Stream(log, came)
    <3>1. Stream(Stream(log, fed.emitted), fed.held) = Stream(log, fed.emitted \o fed.held)
      BY <1>1, <1>5, StreamConcat
    <3> QED BY <1>4, <2>1, <2>2, <3>1
  <2>4. HoldsPrefix'
    BY <1>4, <2>2, <2>3 DEF HoldsPrefix
  <2>5. StreamTypes' /\ OneReader'
    BY <1>3, <1>4, <1>5, <1>6, <1>7, <2>1, <2>2 DEF StreamInv, StreamTypes, OneReader
  <2>6. fed.emitted \o Waiting(escape', chunk', rx') = Waiting(escape, chunk, rx)
    <3>1. Waiting(escape', chunk', rx') = fed.held \o left
      <4>1. <<>> \o left = left
        BY <1>3, Empty
      <4> QED BY <1>4, <2>2, <4>1 DEF Waiting
    <3>2. fed.emitted \o (fed.held \o left) = (fed.emitted \o fed.held) \o left
      BY <1>3, <1>5, Associative, Zenon
    <3> QED BY <1>3, <2>2, <3>1, <3>2
  <2>7. escape' \in Seq(Token) /\ chunk' \in Seq(Token) /\ rx' \in Seq(Token)
        /\ log' \in Seq(Entry) /\ TokensOf(log') = TokensOf(log) \o fed.emitted
        /\ chunk \in Seq(Token) /\ UNCHANGED written
    BY <1>1, <1>3, <1>4, <1>5, <1>6, <2>1, Empty
  <2>8. BytesInOrder'
    BY <1>1, <1>5, <2>6, <2>7, OrderKept
  <2> QED BY <2>4, <2>5, <2>8 DEF StreamInv
<1>8. CASE fed.matched
  <2> DEFINE output == Stream(log, fed.emitted)
             moved == fed.emitted \o Escape
  <2>1. fed.held = <<>> /\ NoEscapeIn(output) /\ fed.emitted \o (Escape \o fed.rest) = came
    BY <1>2, <1>8 DEF Tracks
  <2>2. Escape \in Seq(Token) /\ Escape # <<>>
    BY HeldFacts, EmptySeq
  <2>3. log' = Logged(output, "session", Escape)
    BY <1>4, <1>6, <1>8 DEF Logged
  <2>4. log' \in Seq(Entry) /\ Clean(log', 0)
    BY <1>6, <2>1, <2>2, <2>3, NotToRouter
  <2>5. HoldsPrefix'
    <3>1. Stream(log', <<>>) = log'
      <4>1. Fate("router", <<>>) = <<>>
        BY DEF Fate
      <4> QED BY <2>4, <4>1, ConcatEmptySeq DEF Stream, Logged
    <3>2. escape' = Held(0) /\ Clean(Stream(log', escape'), 0)
      BY <1>4, <2>1, <2>4, <3>1, HeldFacts
    <3> QED BY <3>2 DEF HoldsPrefix
  <2>6. StreamTypes' /\ OneReader'
    BY <1>3, <1>4, <1>5, <1>8, <2>1, <2>4 DEF StreamInv, StreamTypes, OneReader
  <2>7. moved \in Seq(Token)
    BY <1>5, <2>2, Closed
  <2>8. TokensOf(log') = TokensOf(log) \o moved
    <3>1. TokensOf(log') = TokensOf(output) \o Escape
      <4>1. output \in Seq(Entry)
        BY <1>6
      <4> HIDE DEF output
      <4> QED BY <2>2, <2>3, <4>1, ToSession
    <3>2. TokensOf(log) \in Seq(Token)
      BY <1>1, TokensOfFacts
    <3>3. (TokensOf(log) \o fed.emitted) \o Escape = TokensOf(log) \o moved
      BY <1>5, <2>2, <3>2, Associative, Zenon
    <3> QED BY <1>6, <3>1, <3>3
  <2>9. moved \o Waiting(escape', chunk', rx') = Waiting(escape, chunk, rx)
    <3>1. Waiting(escape', chunk', rx') = fed.rest \o left
      <4>1. fed.rest \o left \in Seq(Token)
        BY <1>3, <1>5, Closed
      <4>2. <<>> \o (fed.rest \o left) = fed.rest \o left
        BY <4>1, Empty
      <4> QED BY <1>4, <2>1, <4>2 DEF Waiting
    <3>2. moved \o (fed.rest \o left) = (moved \o fed.rest) \o left
      <4> HIDE DEF moved
      <4> QED BY <1>3, <1>5, <2>7, Associative, Zenon
    <3>3. moved \o fed.rest = fed.emitted \o (Escape \o fed.rest)
      BY <1>5, <2>2, Associative, Zenon
    <3> QED BY <1>3, <2>1, <3>1, <3>2, <3>3
  <2>10. escape' \in Seq(Token) /\ chunk' \in Seq(Token) /\ rx' \in Seq(Token)
         /\ chunk \in Seq(Token) /\ UNCHANGED written
    BY <1>1, <1>3, <1>4, <1>5, Empty
  <2> HIDE DEF moved, output
  <2>11. BytesInOrder'
    BY <1>1, <2>4, <2>7, <2>8, <2>9, <2>10, OrderKept
  <2> QED BY <2>5, <2>6, <2>11 DEF StreamInv
<1> QED
  BY <1>5, <1>7, <1>8

\* The first token of a chunk and the others.
LEMMA HeadFirst ==
    ASSUME NEW s \in Seq(Token), s # <<>>
    PROVE  /\ <<Head(s)>> \in Seq(Token) /\ <<Head(s)>> # <<>> /\ Tail(s) \in Seq(Token)
           /\ <<Head(s)>> \o Tail(s) = s
<1>1. Len(s) \in Nat \ {0}
  BY EmptySeq
<1>2. Head(s) \in Token /\ Tail(s) \in Seq(Token) /\ Head(s) = s[1]
  BY HeadTailProperties
<1>3. Tail(s) = SubSeq(s, 2, Len(s))
  BY TailIsSubSeq
<1>4. SubSeq(s, 1, Len(s)) = <<s[1]>> \o SubSeq(s, 1 + 1, Len(s))
  <2>1. 1 \in 1..Len(s) /\ Len(s) \in 1..Len(s)
    BY <1>1
  <2> QED BY <2>1, SubSeqRecursiveFirst
<1>5. SubSeq(s, 1, Len(s)) = s
  BY SubSeqFull
<1>6. <<Head(s)>> \in Seq(Token) /\ <<Head(s)>> # <<>>
  BY <1>2
<1>7. <<Head(s)>> \o Tail(s) = s
  <2>1. 1 + 1 = 2
    OBVIOUS
  <2> QED BY <1>2, <1>3, <1>4, <1>5, <2>1
<1> QED
  BY <1>2, <1>6, <1>7

\* A session consumes a token.
LEMMA ConsumeStream ==
    ASSUME StreamInv, pc = "session", chunk # <<>>, Consume, pc' = "session",
           UNCHANGED <<env, s_mode, escape, rx, written>>
    PROVE  StreamInv'
<1>1. /\ log \in Seq(Entry) /\ chunk \in Seq(Token) /\ rx \in Seq(Token) /\ escape = <<>>
  BY DEF StreamInv, StreamTypes, OneReader
<1> DEFINE first == <<Head(chunk)>>
           remaining == Tail(chunk)
<1>2. first \in Seq(Token) /\ first # <<>> /\ remaining \in Seq(Token) /\ first \o remaining = chunk
  BY <1>1, HeadFirst
<1>3. log' = log \o Fate("session", first) /\ chunk' = remaining /\ rx' = rx /\ escape' = <<>>
  BY <1>1 DEF Consume
<1> HIDE DEF first, remaining
<1>4. first \o (chunk' \o rx') = Waiting(escape, chunk, rx)
  <2>1. chunk \o rx \in Seq(Token)
    BY <1>1, Closed
  <2>2. <<>> \o (chunk \o rx) = chunk \o rx
    BY <2>1, Empty
  <2>3. first \o (remaining \o rx) = (first \o remaining) \o rx
    BY <1>1, <1>2, Associative, Zenon
  <2> QED
    BY <1>1, <1>2, <1>3, <2>2, <2>3 DEF Waiting
<1>5. log' \in Seq(Entry) /\ HoldsPrefix' /\ BytesInOrder'
  <2>1. chunk' \in Seq(Token) /\ rx' \in Seq(Token) /\ UNCHANGED written
    BY <1>1, <1>2, <1>3
  <2>2. "session" \in {"flushed", "session"}
    OBVIOUS
  <2> QED
    BY <1>2, <1>3, <1>4, <2>1, <2>2, StreamTaken
<1> QED
  BY <1>1, <1>2, <1>3, <1>5 DEF StreamInv, StreamTypes, OneReader

\* A session drops everything it has read, and perhaps everything the host wrote.
LEMMA DropStream ==
    ASSUME StreamInv, pc = "session", chunk # <<>>, NEW dropped \in {chunk, chunk \o rx},
           rx' = (IF dropped = chunk THEN rx ELSE <<>>), Drop(dropped), chunk' = <<>>, pc' = "top",
           s_mode' = "mavlink", UNCHANGED <<env, escape, written>>
    PROVE  StreamInv'
<1>1. /\ log \in Seq(Entry) /\ chunk \in Seq(Token) /\ rx \in Seq(Token) /\ escape = <<>>
  BY DEF StreamInv, StreamTypes, OneReader
<1>2. chunk \o rx \in Seq(Token) /\ <<>> \in Seq(Token)
  BY <1>1, Closed, Empty
<1>3. dropped \in Seq(Token) /\ dropped # <<>>
  <2>1. Len(chunk) \in Nat \ {0} /\ Len(rx) \in Nat
    BY <1>1, EmptySeq, LenProperties
  <2>2. Len(chunk \o rx) = Len(chunk) + Len(rx)
    BY <1>1, ConcatProperties
  <2>3. chunk \o rx # <<>>
    BY <2>1, <2>2, EmptySeq
  <2> QED BY <1>1, <1>2, <2>3
<1>4. log' = log \o Fate("session", dropped) /\ escape' = <<>> /\ rx' \in Seq(Token)
      /\ chunk' \in Seq(Token)
  BY <1>1, <1>2 DEF Drop
<1>5. dropped \o (chunk' \o rx') = Waiting(escape, chunk, rx)
  <2>1. <<>> \o (chunk \o rx) = chunk \o rx
    BY <1>2, Empty
  <2>2. Waiting(escape, chunk, rx) = chunk \o rx
    BY <1>1, <2>1 DEF Waiting
  <2>3. chunk' \o rx' = rx'
    BY <1>4, Empty
  <2>4. CASE dropped = chunk
    BY <2>2, <2>3, <2>4
  <2>5. CASE dropped # chunk
    <3>1. dropped = chunk \o rx /\ rx' = <<>>
      BY <2>5
    <3>2. (chunk \o rx) \o <<>> = chunk \o rx
      BY <1>2, Empty
    <3> QED BY <2>2, <2>3, <3>1, <3>2
  <2> QED BY <2>4, <2>5
<1>6. log' \in Seq(Entry) /\ HoldsPrefix' /\ BytesInOrder'
  <2>1. "session" \in {"flushed", "session"}
    OBVIOUS
  <2> QED
    BY <1>3, <1>4, <1>5, <2>1, StreamTaken
<1> QED
  BY <1>1, <1>2, <1>4, <1>6 DEF StreamInv, StreamTypes, OneReader

\* The steps of usb_task outside a session.
LEMMA LoopStream ==
    ASSUME StreamInv,
           \/ Top \/ ReadNothing \/ LeaveMavlink \/ OpenSession \/ Done
           \/ \E size \in 1..Len(rx) : ReadMavlink(size) \/ ReadSession(size)
    PROVE  StreamInv'
<1>1. CASE Top
  BY <1>1, StreamUnchanged DEF Top, StreamInv, StreamTypes, OneReader
<1>2. CASE ReadNothing
  <2>1. /\ pc = "read" /\ pc' = "top" /\ UNCHANGED <<env, chunk, rx, written>>
        /\ s_mode' = s_mode \/ s_mode' = "mavlink"
    BY <1>2 DEF ReadNothing, RestoreMavlink
  <2>2. CASE UNCHANGED <<escape, log>>
    BY <2>1, <2>2, StreamUnchanged DEF StreamInv, StreamTypes, OneReader
  <2>3. CASE ~UNCHANGED <<escape, log>>
    <3>1. escape # <<>> /\ escape' = <<>> /\ log' = log \o Fate("flushed", escape)
      BY <1>2, <2>3 DEF ReadNothing, Overdue
    <3>2. escape \in Seq(Token) /\ chunk = <<>> /\ rx \in Seq(Token) /\ chunk \in Seq(Token)
      BY <2>1, HoldsTokens DEF StreamInv, StreamTypes, OneReader
    <3>3. escape \o (chunk' \o rx') = Waiting(escape, chunk, rx)
      BY <2>1 DEF Waiting
    <3>4. log' \in Seq(Entry) /\ HoldsPrefix' /\ BytesInOrder'
      <4>1. "flushed" \in {"flushed", "session"} /\ chunk' \in Seq(Token) /\ rx' \in Seq(Token)
            /\ UNCHANGED written
        BY <2>1, <3>2
      <4> QED BY <3>1, <3>2, <3>3, <4>1, StreamTaken
    <3> QED
      BY <2>1, <3>1, <3>4 DEF StreamInv, StreamTypes, OneReader
  <2> QED BY <2>2, <2>3
<1>3. CASE LeaveMavlink
  BY <1>3, StreamUnchanged DEF LeaveMavlink, history, StreamInv, StreamTypes, OneReader
<1>4. CASE OpenSession
  BY <1>4, StreamUnchanged DEF OpenSession, StreamInv, StreamTypes, OneReader
<1>5. CASE Done
  <2>1. UNCHANGED <<env, log, escape, chunk, rx, written, s_mode>> /\ pc = "session" /\ pc' = "top"
        /\ chunk = <<>>
    BY <1>5 DEF Done, history
  <2> QED
    BY <2>1, StreamUnchanged DEF StreamInv, StreamTypes, OneReader
<1>6. ASSUME NEW size \in 1..Len(rx), ReadMavlink(size) PROVE StreamInv'
  BY <1>6, ReadMavlinkStream
<1>7. ASSUME NEW size \in 1..Len(rx), ReadSession(size) PROVE StreamInv'
  <2> DEFINE taken == SubSeq(rx, 1, size)
             left == SubSeq(rx, size + 1, Len(rx))
  <2>1. /\ chunk' = taken /\ rx' = left /\ pc = "read" /\ pc' = "session"
        /\ UNCHANGED <<env, s_mode, escape, log, written>> /\ s_mode = "log_cli"
    BY <1>7 DEF ReadSession, history
  <2>2. /\ log \in Seq(Entry) /\ chunk = <<>> /\ rx \in Seq(Token) /\ escape = <<>>
        /\ chunk \in Seq(Token) /\ BytesInOrder
    BY <2>1 DEF StreamInv, StreamTypes, OneReader
  <2>3. taken \in Seq(Token) /\ left \in Seq(Token) /\ taken \o left = rx
    BY <1>7, <2>2, ReadSplits
  <2> HIDE DEF taken, left
  <2>4. <<>> \o rx = rx
    BY <2>2, Empty
  <2>5. Waiting(escape', chunk', rx') = Waiting(escape, chunk, rx)
    BY <2>1, <2>2, <2>3, <2>4 DEF Waiting
  <2>6. BytesInOrder'
    <3>1. escape \in Seq(Token) /\ escape' \in Seq(Token) /\ chunk' \in Seq(Token)
          /\ rx' \in Seq(Token) /\ log' \in Seq(Entry)
      BY <2>1, <2>2, <2>3
    <3>2. TokensOf(log) \o Waiting(escape, chunk, rx) = written
      BY <2>2, <3>1, BytesWait
    <3>3. TokensOf(log') \o Waiting(escape', chunk', rx') = written'
      BY <2>1, <2>5, <3>2
    <3> QED BY <3>1, <3>3, BytesWaitNext
  <2>7. HoldsPrefix'
    BY <2>1 DEF StreamInv, HoldsPrefix
  <2> QED
    BY <2>1, <2>2, <2>3, <2>6, <2>7 DEF StreamInv, StreamTypes, OneReader
<1> QED
  BY <1>1, <1>2, <1>3, <1>4, <1>5, <1>6, <1>7

\* The steps of a session.
LEMMA SessionStream ==
    ASSUME StreamInv,
           Buffer \/ CloseFrame \/ Reboot \/ OtaRequest \/ Download \/ AnswerOnly \/ Malformed
    PROVE  StreamInv'
<1>1. CASE Buffer \/ OtaRequest \/ Download \/ AnswerOnly \/ Malformed
  <2>1. pc = "session" /\ chunk # <<>> /\ Consume /\ pc' = "session"
        /\ UNCHANGED <<env, s_mode, escape, rx, written>>
    BY <1>1 DEF Buffer, OtaRequest, Download, AnswerOnly, Malformed, Completes, Outside, SameSession
  <2> QED
    BY <2>1, ConsumeStream
<1>2. CASE CloseFrame
  <2>1. pc = "session" /\ chunk # <<>> /\ Drop(chunk) /\ chunk' = <<>> /\ pc' = "top"
        /\ s_mode' = "mavlink" /\ UNCHANGED <<env, escape, written, rx>>
    BY <1>2 DEF CloseFrame, Completes, Outside, RestoreMavlink
  <2> QED
    BY <2>1, DropStream
<1>3. CASE Reboot
  <2>1. pc = "session" /\ chunk # <<>> /\ Drop(chunk \o rx) /\ chunk' = <<>> /\ pc' = "top"
        /\ s_mode' = "mavlink" /\ UNCHANGED <<env, escape, written>> /\ rx' = <<>>
    BY <1>3 DEF Reboot, Completes, Outside
  <2>2. rx' = IF chunk \o rx = chunk THEN rx ELSE <<>>
    <3>1. chunk \in Seq(Token) /\ rx \in Seq(Token)
      BY DEF StreamInv, StreamTypes
    <3>2. chunk \o rx = chunk => rx = <<>>
      BY <3>1, ConcatEqualIffEmpty
    <3> QED BY <2>1, <3>2
  <2> QED
    BY <2>1, <2>2, DropStream
<1> QED
  BY <1>1, <1>2, <1>3

\* What the environment may still do.
LEMMA EnvironmentSpent ==
    ASSUME env \in Environment,
           \/ env.count > 0 /\ env' = [env EXCEPT !.count = @ - 1]
           \/ env.frames > 0 /\ env' = [env EXCEPT !.frames = @ - 1]
           \/ env.faults > 0 /\ env' = [env EXCEPT !.faults = @ - 1]
    PROVE  env' \in Environment
<1>1. CASE env.count > 0 /\ env' = [env EXCEPT !.count = @ - 1]
  <2>1. env.count - 1 \in Nat
    BY <1>1 DEF Environment
  <2> QED BY <1>1, <2>1 DEF Environment
<1>2. CASE env.frames > 0 /\ env' = [env EXCEPT !.frames = @ - 1]
  <2>1. env.frames - 1 \in Nat
    BY <1>2 DEF Environment
  <2> QED BY <1>2, <2>1 DEF Environment
<1>3. CASE env.faults > 0 /\ env' = [env EXCEPT !.faults = @ - 1]
  <2>1. env.faults - 1 \in Nat
    BY <1>3 DEF Environment
  <2> QED BY <1>3, <2>1 DEF Environment
<1> QED
  BY <1>1, <1>2, <1>3

LEMMA NextStream == StreamInv /\ [Next]_vars => StreamInv'
<1> SUFFICES ASSUME StreamInv, [Next]_vars PROVE StreamInv'
  OBVIOUS
<1>1. CASE UsbTask
  BY <1>1, LoopStream, SessionStream DEF UsbTask
<1>2. CASE HostWrites
  <2>1. PICK tokens \in env.writes : rx' = rx \o tokens /\ written' = written \o tokens
    BY <1>2 DEF HostWrites
  <2>2. /\ UNCHANGED <<log, escape, chunk, pc, s_mode>> /\ env' = [env EXCEPT !.count = @ - 1]
        /\ env.count > 0
    BY <1>2 DEF HostWrites, device
  <2>3. /\ log \in Seq(Entry) /\ chunk \in Seq(Token) /\ rx \in Seq(Token) /\ escape \in Seq(Token)
        /\ written \in Seq(Token) /\ tokens \in Seq(Token)
    <3>1. tokens \in Seq(STRING)
      BY DEF StreamInv, StreamTypes, Environment
    <3>2. tokens \in Seq(Token)
      BY <3>1, SeqMonotonic DEF Token
    <3> QED BY <3>2, HoldsTokens DEF StreamInv, StreamTypes
  <2>4. rx' \in Seq(Token) /\ written' \in Seq(Token)
    BY <2>1, <2>3, Closed
  <2>5. BytesInOrder'
    <3> DEFINE t == TokensOf(log)
               w == chunk \o rx
    <3>1. t \in Seq(Token) /\ w \in Seq(Token)
      BY <2>3, Closed, TokensOfFacts
    <3>2. t \o (escape \o w) = written
      BY <2>3, BytesWait DEF StreamInv, Waiting
    <3>3. chunk \o (rx \o tokens) = w \o tokens
      BY <2>3, Associative, Zenon
    <3> HIDE DEF t, w
    <3>4. escape \o w \in Seq(Token)
      BY <2>3, <3>1, Closed
    <3> DEFINE ahead == escape \o w
    <3>10. \A q, u, v \in Seq(Token) : (q \o u) \o v = q \o (u \o v)
      BY Associative
    <3>11. escape \in Seq(Token) /\ tokens \in Seq(Token)
      BY <2>3
    <3>5. escape \o (w \o tokens) = (escape \o w) \o tokens
      BY <3>1, <3>10, <3>11, Zenon
    <3>6. t \o ((escape \o w) \o tokens) = (t \o (escape \o w)) \o tokens
      <4>1. ahead \in Seq(Token)
        BY <3>4
      <4> HIDE DEF ahead
      <4>2. t \o (ahead \o tokens) = (t \o ahead) \o tokens
        BY <3>1, <3>10, <3>11, <4>1, Zenon
      <4> QED BY <4>2 DEF ahead
    <3>7. t \o (escape \o (chunk \o (rx \o tokens))) = written \o tokens
      BY <3>2, <3>3, <3>5, <3>6, Zenon
    <3>8. TokensOf(log') \o Waiting(escape', chunk', rx') = written'
      BY <2>1, <2>2, <3>7 DEF t, Waiting
    <3>9. log' \in Seq(Entry) /\ escape' \in Seq(Token) /\ chunk' \in Seq(Token) /\ rx' \in Seq(Token)
      BY <2>2, <2>3, <2>4
    <3> QED BY <3>8, <3>9, BytesWaitNext
  <2>6. HoldsPrefix'
    BY <2>2 DEF StreamInv, HoldsPrefix
  <2> QED
    BY <2>2, <2>4, <2>5, <2>6, EnvironmentSpent DEF StreamInv, StreamTypes, OneReader
<1>3. CASE RouterSend \/ Plug \/ Arm
  <2>1. /\ UNCHANGED <<log, escape, chunk, rx, written, pc, s_mode>>
        /\ \/ env.frames > 0 /\ env' = [env EXCEPT !.frames = @ - 1]
           \/ env.faults > 0 /\ env' = [env EXCEPT !.faults = @ - 1]
    BY <1>3 DEF RouterSend, Plug, Arm, device, history
  <2>2. StreamTypes'
    BY <2>1, EnvironmentSpent DEF StreamInv, StreamTypes
  <2>3. OneReader'
    BY <2>1 DEF StreamInv, OneReader
  <2> QED
    BY <2>1, <2>2, <2>3, StreamUnchanged
<1>4. CASE TransferEnds \/ Tick \/ UNCHANGED vars
  <2>1. UNCHANGED <<log, escape, chunk, rx, written, pc, s_mode, env>>
    BY <1>4 DEF TransferEnds, Tick, vars, device, history
  <2>2. StreamTypes'
    BY <2>1 DEF StreamInv, StreamTypes
  <2>3. OneReader'
    BY <2>1 DEF StreamInv, OneReader
  <2> QED
    BY <2>1, <2>2, <2>3, StreamUnchanged
<1> QED
  BY <1>1, <1>2, <1>3, <1>4 DEF Next

LEMMA InitStream == Init => StreamInv
<1> SUFFICES ASSUME Init PROVE StreamInv
  OBVIOUS
<1>1. env \in Environment
  BY HostAssumption DEF Init, Environment
<1>2. log = <<>> /\ escape = <<>> /\ chunk = <<>> /\ rx = <<>> /\ written = <<>> /\ pc = "top"
      /\ s_mode = "mavlink"
  BY DEF Init
<1>3. <<>> \in Seq(Entry) /\ Len(<<>>) = 0 /\ <<>> \in Seq(Token)
  BY EmptySeq
<1>4. HoldsPrefix
  <2>1. Fate("router", <<>>) = <<>> /\ <<>> \o <<>> = <<>>
    BY <1>3, ConcatEmptySeq DEF Fate
  <2>2. Stream(log, escape) = <<>>
    BY <1>2, <2>1 DEF Stream, Logged
  <2>3. Clean(<<>>, 0)
    BY <1>3 DEF Clean, NoEscapeIn, Knows
  <2>4. escape = Held(0)
    BY <1>2, HeldFacts
  <2> QED BY <2>2, <2>3, <2>4 DEF HoldsPrefix
<1>5. BytesInOrder
  <2>1. TokensOf(<<>>) = <<>>
    BY DEF TokensOf
  <2>2. <<>> \o (<<>> \o (<<>> \o <<>>)) = <<>>
    BY <1>3, ConcatEmptySeq
  <2> QED BY <1>2, <1>3, <2>1, <2>2, BytesWait DEF Waiting
<1> QED
  BY <1>1, <1>2, <1>3, <1>4, <1>5 DEF StreamInv, StreamTypes, OneReader

\* Holding bytes back for the escape sequence, cutting what the host writes into reads,
\* sessions, timeouts and restarts lose, repeat and reorder no byte.
THEOREM HostBytesInOrder == Spec => []BytesInOrder
<1>1. StreamInv => BytesInOrder
  BY DEF StreamInv
<1> QED
  BY InitStream, NextStream, <1>1, PTL DEF Spec

\* However the sequence is cut into reads and whatever precedes it, the router never gets
\* all of it, unless the timeout cut it.
THEOREM EscapeAlwaysRecognised == Spec => []EscapeRecognised
<1>1. StreamInv => EscapeRecognised
  <2> SUFFICES ASSUME StreamInv PROVE EscapeRecognised
    OBVIOUS
  <2>1. log \in Seq(Entry) /\ escape \in Seq(Token)
    BY HoldsTokens DEF StreamInv, StreamTypes
  <2>2. NoEscapeIn(log)
    <3>1. NoEscapeIn(Logged(log, "router", escape))
      BY DEF StreamInv, HoldsPrefix, Clean, Stream
    <3> QED BY <2>1, <3>1, CleanPrefix
  <2>3. Len(Escape) = 3 /\ DOMAIN Escape = 1..3 /\ Escape[1] = "p" /\ Escape[2] = "p"
        /\ Escape[3] = "c"
    BY DEF Escape
  <2>4. SUFFICES ASSUME NEW i \in 1..Len(log) - Len(Escape) + 1,
                        \A k \in DOMAIN Escape :
                            log[i + k - 1] = [fate |-> "router", token |-> Escape[k]]
                 PROVE  FALSE
    BY DEF EscapeRecognised
  <2>5. Len(log) \in Nat
    BY <2>1, LenProperties
  <2>6. i \in 1..Len(log) - 2 /\ i + 1 - 1 = i /\ i + 2 - 1 = i + 1 /\ i + 3 - 1 = i + 2
    BY <2>3, <2>5
  <2>7. log[i] = Sent("p") /\ log[i + 1] = Sent("p") /\ log[i + 2] = Sent("c")
    <3>1. 1 \in DOMAIN Escape /\ 2 \in DOMAIN Escape /\ 3 \in DOMAIN Escape
      BY <2>3
    <3>2. /\ log[i + 1 - 1] = [fate |-> "router", token |-> Escape[1]]
          /\ log[i + 2 - 1] = [fate |-> "router", token |-> Escape[2]]
          /\ log[i + 3 - 1] = [fate |-> "router", token |-> Escape[3]]
      BY <2>4, <3>1
    <3> QED BY <2>3, <2>6, <3>2 DEF Sent
  <2> QED
    BY <2>2, <2>6, <2>7 DEF NoEscapeIn
<1> QED
  BY InitStream, NextStream, <1>1, PTL DEF Spec
-----------------------------------------------------------------------------
(* The packet queues in front of a link: those of the tunnel, and of the UART. *)

\* What the queues hold.
QueueTypes ==
    /\ high \in Seq(Nat) /\ normal \in Seq(Nat) /\ replacing \in {"no", "discard", "send"}
    /\ high_burst \in Nat /\ accepted \in Nat /\ passed \in Nat

\* The router puts a packet in, or makes room for one.
RouterFills ==
    (\E high_priority \in BOOLEAN : QueuePacket(high_priority)) \/ DiscardOldest \/ SendAgain

\* A high packet that overtakes a waiting one counts in the burst.
ServedInv == QueueTypes /\ passed <= high_burst /\ passed <= BurstLimit

LEMMA QueuesServed ==
    ASSUME ServedInv,
           Dequeue \/ UNCHANGED queues \/ RouterFills
    PROVE  ServedInv'
<1>1. /\ replacing \in {"no", "discard", "send"}
      /\ HighDepth \in Nat \ {0} /\ NormalDepth \in Nat \ {0} /\ BurstLimit \in Nat \ {0}
      /\ high \in Seq(Nat) /\ normal \in Seq(Nat)
      /\ high_burst \in Nat /\ accepted \in Nat /\ passed \in Nat
      /\ passed <= high_burst /\ passed <= BurstLimit
  BY DepthAssumption DEF ServedInv, QueueTypes
<1>2. CASE Dequeue
  <2>1. CASE NormalsTurn \/ high = <<>>
    <3>1. normal # <<>>
      BY <1>2, <2>1 DEF Dequeue, NormalsTurn
    <3>2. Tail(normal) \in Seq(Nat)
      BY <1>1, <3>1, HeadTailProperties
    <3>3. /\ normal' = Tail(normal) /\ high' = high /\ accepted' = accepted
          /\ high_burst' = 0 /\ passed' = 0 /\ replacing' = replacing
      BY <1>2, <2>1 DEF Dequeue
    <3> QED
      BY <1>1, <3>2, <3>3 DEF ServedInv, QueueTypes
  <2>2. CASE ~(NormalsTurn \/ high = <<>>)
    <3>1. Tail(high) \in Seq(Nat)
      BY <1>1, <2>2, HeadTailProperties
    <3>2. /\ high' = Tail(high) /\ UNCHANGED <<normal, replacing, accepted>>
          /\ high_burst' = high_burst + 1
          /\ passed' = IF normal # <<>> THEN passed + 1 ELSE 0
      BY <1>2, <2>2 DEF Dequeue
    <3>3. normal # <<>> => ~(high_burst >= BurstLimit)
      BY <2>2 DEF NormalsTurn
    <3>4. passed' <= high_burst' /\ passed' <= BurstLimit /\ passed' \in Nat /\ high_burst' \in Nat
      BY <1>1, <3>2, <3>3
    <3> QED
      BY <1>1, <3>1, <3>2, <3>4 DEF ServedInv, QueueTypes
  <2> QED
    BY <2>1, <2>2
<1>3. CASE UNCHANGED queues
  BY <1>3 DEF queues, ServedInv, QueueTypes
<1>4. ASSUME RouterFills
      PROVE  ServedInv'
  <2>1. accepted' \in {accepted, accepted + 1} /\ UNCHANGED <<high_burst, passed>>
    BY <1>4 DEF RouterFills, QueuePacket, DiscardOldest, SendAgain
  <2>2. ASSUME NEW queue \in Seq(Nat), NEW depth, NEW number \in Nat
        PROVE  Offered(queue, depth, number) \in Seq(Nat)
    BY <2>2, AppendProperties DEF Offered
  <2>3. normal # <<>> => Tail(normal) \in Seq(Nat)
    BY <1>1, HeadTailProperties
  <2>4. high' \in Seq(Nat) /\ normal' \in Seq(Nat) /\ replacing' \in {"no", "discard", "send"}
    <3>1. ASSUME NEW high_priority \in BOOLEAN, QueuePacket(high_priority)
          PROVE  high' \in Seq(Nat) /\ normal' \in Seq(Nat) /\ replacing' \in {"no", "discard"}
      <4>1. accepted + 1 \in Nat
        BY <1>1
      <4> QED BY <1>1, <2>2, <3>1, <4>1 DEF QueuePacket
    <3>2. CASE DiscardOldest
      BY <1>1, <2>3, <3>2 DEF DiscardOldest
    <3>3. CASE SendAgain
      BY <1>1, <2>2, <3>3 DEF SendAgain
    <3> QED BY <1>4, <3>1, <3>2, <3>3 DEF RouterFills
  <2> QED
    BY <1>1, <2>1, <2>4 DEF ServedInv, QueueTypes
<1> QED
  BY <1>2, <1>3, <1>4

\* Every step of the tunnel leaves the queues alone, fills them or takes a packet.
LEMMA QueueSteps ==
    ASSUME [TunnelNext]_tunnel
    PROVE  Dequeue \/ UNCHANGED queues \/ RouterFills
BY DEF TunnelNext, tunnel, RouterFills, CanRouterSend, CanReplaceOldest, Keepalive, SendChunk,
       Drain, TxDone, OtherTransfer, HandleRxFrame, Silence, Cleanup

\* A normal packet that waits is overtaken by no more than a burst of high ones.
THEOREM NormalsServed == TunnelSpec => []NormalIsServed
<1>1. TunnelInit => ServedInv
  BY DepthAssumption DEF TunnelInit, QueuesInit, ServedInv, QueueTypes
<1>2. ServedInv /\ [TunnelNext]_tunnel => ServedInv'
  BY QueuesServed, QueueSteps
<1>3. ServedInv => NormalIsServed
  BY DEF ServedInv, NormalIsServed
<1> QED
  BY <1>1, <1>2, <1>3, PTL DEF TunnelSpec
-----------------------------------------------------------------------------
(* The chunks on the bus.  A packet under way is in neither queue and was the *)
(* last on the bus, so the next chunk is its next one or the first of another; *)
(* every packet cut short paid for it with a refused transfer.                 *)

Within(queue, number)  == \A i \in 1..Len(queue) : queue[i] \in 1..number
Without(queue, number) == \A i \in 1..Len(queue) : queue[i] # number
Distinct(queue)        == \A i, j \in 1..Len(queue) : i # j => queue[i] # queue[j]
Apart(queue, other)    == \A i \in 1..Len(queue), j \in 1..Len(other) : queue[i] # other[j]

DistinctPackets ==
    /\ Within(high, accepted) /\ Within(normal, accepted)
    /\ Distinct(high) /\ Distinct(normal) /\ Apart(high, normal)
    /\ replacing # "no" =>
          accepted >= 1 /\ Without(high, accepted) /\ Without(normal, accepted)

\* A packet that has left the queues, or was dropped.
Taken(number) ==
    /\ number <= accepted /\ Without(high, number) /\ Without(normal, number)
    /\ replacing # "no" => number # accepted

LEMMA QueueTail ==
    ASSUME NEW q \in Seq(Nat), q # <<>>, NEW bound \in Nat, Within(q, bound), Distinct(q)
    PROVE  /\ Tail(q) \in Seq(Nat) /\ Head(q) \in 1..bound
           /\ Within(Tail(q), bound) /\ Distinct(Tail(q)) /\ Without(Tail(q), Head(q))
           /\ \A n : Without(q, n) => Without(Tail(q), n) /\ n # Head(q)
           /\ \A r \in Seq(Nat) : /\ Apart(q, r) => Apart(Tail(q), r) /\ Without(r, Head(q))
                                  /\ Apart(r, q) => Apart(r, Tail(q)) /\ Without(r, Head(q))
<1> DEFINE rest == Tail(q)
           first == Head(q)
<1>1. /\ rest \in Seq(Nat) /\ Len(rest) = Len(q) - 1 /\ Len(q) \in Nat /\ Len(q) > 0
      /\ first = q[1]
      /\ \A i \in 1..Len(rest) : rest[i] = q[i + 1] /\ i + 1 \in 1..Len(q) /\ i + 1 # 1
  OBVIOUS
<1> HIDE DEF rest, first
<1>2. first \in 1..bound /\ 1 \in 1..Len(q)
  BY <1>1 DEF Within
<1>3. Within(rest, bound) /\ Without(rest, first)
  BY <1>1, <1>2 DEF Within, Without, Distinct
<1>4. Distinct(rest)
  <2> SUFFICES ASSUME NEW i \in 1..Len(rest), NEW j \in 1..Len(rest), i # j
               PROVE  rest[i] # rest[j]
    BY DEF Distinct
  <2>1. i + 1 # j + 1
    BY <1>1
  <2> QED BY <1>1, <2>1 DEF Distinct
<1>5. ASSUME NEW n, Without(q, n) PROVE Without(rest, n) /\ n # first
  BY <1>1, <1>2, <1>5 DEF Without
<1>6. ASSUME NEW r \in Seq(Nat), Apart(q, r) PROVE Apart(rest, r) /\ Without(r, first)
  BY <1>1, <1>2, <1>6 DEF Apart, Without
<1>7. ASSUME NEW r \in Seq(Nat), Apart(r, q) PROVE Apart(r, rest) /\ Without(r, first)
  BY <1>1, <1>2, <1>7 DEF Apart, Without
<1> QED
  BY <1>1, <1>2, <1>3, <1>4, <1>5, <1>6, <1>7 DEF rest, first

LEMMA QueueAppend ==
    ASSUME NEW q \in Seq(Nat), NEW bound \in Nat, Within(q, bound), Distinct(q)
    PROVE  /\ Append(q, bound + 1) \in Seq(Nat)
           /\ Within(Append(q, bound + 1), bound + 1) /\ Distinct(Append(q, bound + 1))
           /\ Within(q, bound + 1)
           /\ \A n \in Nat : n <= bound /\ Without(q, n) => Without(Append(q, bound + 1), n)
           /\ \A r \in Seq(Nat) : Within(r, bound) =>
                 /\ Apart(q, r) => Apart(Append(q, bound + 1), r)
                 /\ Apart(r, q) => Apart(r, Append(q, bound + 1))
<1> DEFINE longer == Append(q, bound + 1)
<1>1. /\ longer \in Seq(Nat) /\ Len(longer) = Len(q) + 1 /\ Len(q) \in Nat
      /\ \A i \in 1..Len(longer) : \/ i \in 1..Len(q) /\ longer[i] = q[i]
                                   \/ i = Len(q) + 1 /\ longer[i] = bound + 1
  BY AppendProperties
<1> HIDE DEF longer
<1>2. \A i \in 1..Len(q) : q[i] \in 1..bound /\ q[i] # bound + 1
  BY DEF Within
<1>3. Within(longer, bound + 1) /\ Within(q, bound + 1)
  <2>1. bound + 1 \in 1..bound + 1 /\ \A n \in 1..bound : n \in 1..bound + 1
    OBVIOUS
  <2> QED BY <1>1, <1>2, <2>1 DEF Within
<1>4. Distinct(longer)
  BY <1>1, <1>2 DEF Distinct
<1>5. ASSUME NEW n \in Nat, n <= bound, Without(q, n) PROVE Without(longer, n)
  BY <1>1, <1>5 DEF Without
<1>6. ASSUME NEW r \in Seq(Nat), Within(r, bound), Apart(q, r) PROVE Apart(longer, r)
  <2>1. \A i \in 1..Len(r) : r[i] # bound + 1
    BY <1>6 DEF Within
  <2> QED BY <1>1, <1>6, <2>1 DEF Apart
<1>7. ASSUME NEW r \in Seq(Nat), Within(r, bound), Apart(r, q) PROVE Apart(r, longer)
  <2>1. \A i \in 1..Len(r) : r[i] # bound + 1
    BY <1>7 DEF Within
  <2> QED BY <1>1, <1>7, <2>1 DEF Apart
<1> QED
  BY <1>1, <1>3, <1>4, <1>5, <1>6, <1>7 DEF longer

\* The packet taken leaves the queues, and what had left them stays away.
LEMMA DequeueTakes ==
    ASSUME QueueTypes, DistinctPackets, Dequeue, NEW number, number = Next_
    PROVE  /\ DistinctPackets' /\ number \in Nat /\ Taken(number)'
           /\ \A n \in Nat : Taken(n) => Taken(n)' /\ n # number
<1>1. /\ high \in Seq(Nat) /\ normal \in Seq(Nat) /\ accepted \in Nat
      /\ UNCHANGED <<replacing, accepted>>
      /\ Within(high, accepted) /\ Within(normal, accepted)
      /\ Distinct(high) /\ Distinct(normal) /\ Apart(high, normal)
      /\ replacing # "no" =>
            accepted >= 1 /\ Without(high, accepted) /\ Without(normal, accepted)
  BY DEF QueueTypes, DistinctPackets, Dequeue
<1>2. CASE NormalsTurn \/ high = <<>>
  <2>1. normal # <<>> /\ normal' = Tail(normal) /\ high' = high /\ number = Head(normal)
    BY <1>2 DEF Dequeue, NormalsTurn, Next_
  <2>2. DistinctPackets' /\ number \in Nat /\ Taken(number)'
    BY <1>1, <2>1, QueueTail DEF DistinctPackets, Taken
  <2>3. ASSUME NEW n \in Nat, Taken(n) PROVE Taken(n)' /\ n # number
    BY <1>1, <2>1, <2>3, QueueTail DEF Taken
  <2> QED BY <2>2, <2>3
<1>3. CASE ~(NormalsTurn \/ high = <<>>)
  <2>1. high # <<>> /\ high' = Tail(high) /\ normal' = normal /\ number = Head(high)
    BY <1>3 DEF Dequeue, Next_
  <2>2. DistinctPackets' /\ number \in Nat /\ Taken(number)'
    BY <1>1, <2>1, QueueTail DEF DistinctPackets, Taken
  <2>3. ASSUME NEW n \in Nat, Taken(n) PROVE Taken(n)' /\ n # number
    BY <1>1, <2>1, <2>3, QueueTail DEF Taken
  <2> QED BY <2>2, <2>3
<1> QED
  BY <1>2, <1>3

LEMMA QueuedIsNew ==
    ASSUME QueueTypes, DistinctPackets, RouterFills
    PROVE  DistinctPackets' /\ \A n \in Nat : Taken(n) => Taken(n)'
<1>1. /\ high \in Seq(Nat) /\ normal \in Seq(Nat) /\ accepted \in Nat
      /\ Within(high, accepted) /\ Within(normal, accepted)
      /\ Distinct(high) /\ Distinct(normal) /\ Apart(high, normal)
      /\ replacing # "no" =>
            accepted >= 1 /\ Without(high, accepted) /\ Without(normal, accepted)
  BY DEF QueueTypes, DistinctPackets
<1>2. ASSUME NEW high_priority \in BOOLEAN, QueuePacket(high_priority)
      PROVE  DistinctPackets' /\ \A n \in Nat : Taken(n) => Taken(n)'
  <2>1. /\ accepted' = accepted + 1
        /\ high' = high \/ (high' = Append(high, accepted + 1) /\ normal' = normal)
        /\ normal' = normal \/ (normal' = Append(normal, accepted + 1) /\ high' = high)
        /\ replacing' # "no" => high' = high /\ normal' = normal
    <3>1. CASE high_priority
      BY <1>2, <3>1 DEF QueuePacket, Offered
    <3>2. CASE ~high_priority
      BY <1>2, <3>2 DEF QueuePacket, Offered
    <3> QED BY <3>1, <3>2
  <2>2. Within(high, accepted + 1) /\ Within(normal, accepted + 1)
    BY <1>1, QueueAppend
  <2>3. Without(high, accepted + 1) /\ Without(normal, accepted + 1)
    BY <1>1 DEF Within, Without
  <2>4. DistinctPackets'
    <3>1. CASE high' = high /\ normal' = normal
      BY <1>1, <2>1, <2>2, <2>3, <3>1 DEF DistinctPackets
    <3>2. CASE high' = Append(high, accepted + 1) /\ normal' = normal /\ replacing' = "no"
      <4>1. Within(high', accepted + 1) /\ Distinct(high') /\ Apart(high', normal)
        BY <1>1, <3>2, QueueAppend
      <4> QED BY <1>1, <2>1, <2>2, <3>2, <4>1 DEF DistinctPackets
    <3>3. CASE normal' = Append(normal, accepted + 1) /\ high' = high /\ replacing' = "no"
      <4>1. Within(normal', accepted + 1) /\ Distinct(normal') /\ Apart(high, normal')
        BY <1>1, <3>3, QueueAppend
      <4> QED BY <1>1, <2>1, <2>2, <3>3, <4>1 DEF DistinctPackets
    <3>4. Append(high, accepted + 1) # high /\ Append(normal, accepted + 1) # normal
      BY <1>1, AppendProperties
    <3> QED BY <2>1, <3>1, <3>2, <3>3, <3>4
  <2>5. ASSUME NEW n \in Nat, Taken(n) PROVE Taken(n)'
    <3>1. n <= accepted /\ Without(high, n) /\ Without(normal, n)
      BY <2>5 DEF Taken
    <3>2. /\ Without(Append(high, accepted + 1), n)
          /\ Without(Append(normal, accepted + 1), n)
      BY <1>1, <3>1, QueueAppend
    <3>3. Without(high', n) /\ Without(normal', n)
      BY <2>1, <3>1, <3>2
    <3> QED BY <1>1, <2>1, <3>1, <3>3 DEF Taken
  <2> QED BY <2>4, <2>5
<1>3. CASE DiscardOldest
  <2>1. /\ accepted' = accepted /\ high' = high /\ replacing # "no"
        /\ \/ normal' = normal /\ replacing' = "no"
           \/ normal # <<>> /\ normal' = Tail(normal)
    BY <1>3 DEF DiscardOldest
  <2>2. CASE normal' = normal /\ replacing' = "no"
    BY <1>1, <2>1, <2>2 DEF DistinctPackets, Taken
  <2>3. CASE normal # <<>> /\ normal' = Tail(normal)
    <3>1. /\ Within(normal', accepted) /\ Distinct(normal') /\ Apart(high, normal')
          /\ \A n : Without(normal, n) => Without(normal', n)
      BY <1>1, <2>3, QueueTail
    <3>2. replacing' # "no" => replacing # "no"
      BY <2>1
    <3> QED BY <1>1, <2>1, <3>1, <3>2 DEF DistinctPackets, Taken
  <2> QED BY <2>1, <2>2, <2>3
<1>4. CASE SendAgain
  <2>1. /\ accepted' = accepted /\ high' = high /\ replacing # "no" /\ replacing' = "no"
        /\ normal' = normal \/ normal' = Append(normal, accepted)
    BY <1>4 DEF SendAgain, Offered
  <2> DEFINE bound == accepted - 1
  <2>2. bound \in Nat /\ bound + 1 = accepted
    BY <1>1, <2>1
  <2>3. Within(normal, bound) /\ Within(high, bound)
    BY <1>1, <2>1, <2>2 DEF Within, Without
  <2>4. \A n \in Nat : Taken(n) => n <= bound /\ Without(high, n) /\ Without(normal, n)
    BY <1>1, <2>1, <2>2 DEF Taken
  <2> HIDE DEF bound
  <2>5. /\ Within(normal', accepted) /\ Distinct(normal') /\ Apart(high, normal')
        /\ \A n \in Nat : n <= bound /\ Without(normal, n) => Without(normal', n)
    BY <1>1, <2>1, <2>2, <2>3, QueueAppend
  <2>6. \A n \in Nat : Taken(n) => Taken(n)'
    BY <1>1, <2>1, <2>2, <2>4, <2>5 DEF Taken
  <2> QED BY <1>1, <2>1, <2>5, <2>6 DEF DistinctPackets
<1> QED
  BY <1>2, <1>3, <1>4 DEF RouterFills

Chunk == [packet : Nat, chunk : Nat]

Goes(s, i)    == s[i + 1].packet = s[i].packet /\ s[i + 1].chunk = s[i].chunk + 1
Starts(s, i)  == s[i + 1].packet # s[i].packet /\ s[i + 1].chunk = 0
Unbroken(s)   == \A i \in 1..Len(s) - 1 : Goes(s, i) \/ Starts(s, i)
CutShort(s)   == {i \in 1..Len(s) - 1 : Starts(s, i) /\ s[i].chunk + 1 < Chunks}
Unfinished(s) == s # <<>> /\ s[Len(s)].chunk + 1 < Chunks

\* A packet that was given up and not yet followed by another.
Abandoned == IF packet = NoPacket /\ Unfinished(sent) THEN 1 ELSE 0

UnderWay ==
    /\ sent # <<>> => Taken(sent[Len(sent)].packet)
    /\ packet # NoPacket =>
          /\ sent # <<>> /\ packet.offset < Chunks
          /\ sent[Len(sent)].packet = packet.number
          /\ sent[Len(sent)].chunk + 1 = packet.offset

ChunksInv ==
    /\ ServedInv /\ DistinctPackets
    /\ packet \in [number : Nat, priority : {"high", "medium"}, offset : Nat]
    /\ sent \in Seq(Chunk) /\ faults \in Nat
    /\ UnderWay
    /\ Unbroken(sent)
    /\ Cardinality(CutShort(sent)) + Abandoned <= faults

LEMMA CutShortCount ==
    ASSUME NEW s \in Seq(Chunk)
    PROVE  /\ IsFiniteSet(CutShort(s)) /\ Cardinality(CutShort(s)) \in Nat
           /\ Cardinality(CutShort(s) \cup {Len(s)}) = Cardinality(CutShort(s)) + 1
<1>1. Len(s) \in Nat /\ IsFiniteSet(1..Len(s) - 1)
  BY FS_Interval
<1>2. CutShort(s) \subseteq 1..Len(s) - 1
  BY DEF CutShort
<1>3. IsFiniteSet(CutShort(s)) /\ Cardinality(CutShort(s)) \in Nat
  BY <1>1, <1>2, FS_Subset, FS_CardinalityType
<1>4. Len(s) \notin CutShort(s)
  BY <1>1, <1>2
<1> QED
  BY <1>3, <1>4, FS_AddElement

LEMMA CutShortNat == \A s \in Seq(Chunk) : Cardinality(CutShort(s)) \in Nat
BY CutShortCount

\* One more chunk that goes on with the last packet or starts another.
LEMMA ChunkAppended ==
    ASSUME NEW s \in Seq(Chunk), NEW c \in Chunk, Unbroken(s),
           s # <<>> => \/ c.packet = s[Len(s)].packet /\ c.chunk = s[Len(s)].chunk + 1
                       \/ c.packet # s[Len(s)].packet /\ c.chunk = 0
    PROVE  /\ Append(s, c) \in Seq(Chunk) /\ Append(s, c) # <<>>
           /\ Append(s, c)[Len(Append(s, c))] = c
           /\ Unbroken(Append(s, c))
           /\ CutShort(Append(s, c)) \subseteq CutShort(s) \cup {Len(s)}
           /\ ~Unfinished(s) \/ c.packet = s[Len(s)].packet => CutShort(Append(s, c)) = CutShort(s)
<1> DEFINE more == Append(s, c)
<1>1. /\ more \in Seq(Chunk) /\ Len(more) = Len(s) + 1 /\ Len(s) \in Nat
      /\ more[Len(s) + 1] = c /\ \A i \in 1..Len(s) : more[i] = s[i]
  BY AppendProperties
<1>2. more # <<>>
  BY <1>1, EmptySeq
<1> HIDE DEF more
<1>4. \A i \in 1..Len(s) - 1 : /\ Goes(more, i) <=> Goes(s, i)
                               /\ Starts(more, i) <=> Starts(s, i)
  BY <1>1 DEF Goes, Starts
<1>5. ASSUME NEW i \in 1..Len(more) - 1, i \notin 1..Len(s) - 1
      PROVE  i = Len(s) /\ s # <<>> /\ more[i] = s[Len(s)] /\ more[i + 1] = c
  BY <1>1, <1>5, EmptySeq
<1>6. Unbroken(more)
  <2>1. ASSUME NEW i \in 1..Len(more) - 1 PROVE Goes(more, i) \/ Starts(more, i)
    <3>1. CASE i \in 1..Len(s) - 1
      BY <1>4, <3>1 DEF Unbroken
    <3>2. CASE i \notin 1..Len(s) - 1
      BY <1>5, <3>2 DEF Goes, Starts
    <3> QED BY <3>1, <3>2
  <2> QED BY <2>1 DEF Unbroken
<1>7. 1..Len(s) - 1 \subseteq 1..Len(more) - 1 /\ \A i \in 1..Len(s) - 1 : more[i] = s[i]
  BY <1>1
<1>8. CutShort(s) \subseteq CutShort(more)
  BY <1>4, <1>7 DEF CutShort
<1>9. CutShort(more) \subseteq CutShort(s) \cup {Len(s)}
  <2>1. ASSUME NEW i \in CutShort(more), i # Len(s) PROVE i \in CutShort(s)
    <3>1. i \in 1..Len(s) - 1
      BY <1>5, <2>1 DEF CutShort
    <3> QED BY <1>4, <1>7, <3>1 DEF CutShort
  <2> QED BY <2>1
<1>10. ASSUME ~Unfinished(s) \/ c.packet = s[Len(s)].packet PROVE Len(s) \notin CutShort(more)
  <2> SUFFICES ASSUME Len(s) \in CutShort(more) PROVE FALSE
    OBVIOUS
  <2>1. Len(s) \in 1..Len(more) - 1 /\ Starts(more, Len(s)) /\ more[Len(s)].chunk + 1 < Chunks
    BY DEF CutShort
  <2>2. s # <<>> /\ more[Len(s)] = s[Len(s)] /\ more[Len(s) + 1] = c
    BY <1>1, <2>1, EmptySeq
  <2> QED BY <1>10, <2>1, <2>2 DEF Starts, Unfinished
<1> QED
  BY <1>1, <1>2, <1>6, <1>8, <1>9, <1>10 DEF more

\* can_task goes on with a packet, or takes the next one.
LEMMA SendChunkKeeps ==
    ASSUME ChunksInv, SendChunk
    PROVE  ChunksInv'
<1> PICK p : p = Current
  OBVIOUS
<1> DEFINE Packet == [number : Nat, priority : {"high", "medium"}, offset : Nat]
           c == [packet |-> p.number, chunk |-> p.offset]
           l == sent[Len(sent)]
<1>1. /\ ServedInv /\ QueueTypes /\ DistinctPackets /\ UnderWay /\ Unbroken(sent) /\ faults \in Nat
      /\ packet \in Packet
      /\ sent \in Seq(Chunk)
      /\ Cardinality(CutShort(sent)) + Abandoned <= faults
      /\ Chunks \in Nat /\ Chunks > 0
  BY TunnelAssumption DEF ChunksInv, ServedInv
<1>2. NoPacket \in Packet
  BY DEF NoPacket
<1>3. sent # <<>> => l \in Chunk /\ l.packet \in Nat /\ Taken(l.packet)
  <2> SUFFICES ASSUME sent # <<>> PROVE l \in Chunk /\ Taken(l.packet)
    BY DEF Chunk
  <2>1. Len(sent) \in 1..Len(sent)
    BY <1>1, EmptySeq
  <2> QED BY <1>1, <2>1, ElementOfSeq DEF UnderWay
<1>4. /\ ServedInv' /\ DistinctPackets' /\ \A n \in Nat : Taken(n) => Taken(n)'
      /\ p \in Packet /\ Taken(p.number)'
      /\ sent # <<>> => \/ p.number = l.packet /\ p.offset = l.chunk + 1 /\ packet # NoPacket
                        \/ p.number # l.packet /\ p.offset = 0 /\ packet = NoPacket
      /\ packet # NoPacket => sent # <<>>
  <2>1. CASE packet = NoPacket
    <3>1. Dequeue /\ p = [number |-> Next_, offset |-> 0,
                          priority |-> IF NormalsTurn \/ high = <<>> THEN "medium" ELSE "high"]
      BY <2>1 DEF SendChunk, Dequeues, Current
    <3>2. ServedInv'
      BY <1>1, <3>1, QueuesServed
    <3>3. p.number = Next_ /\ p.offset = 0
      BY <3>1
    <3>4. /\ DistinctPackets' /\ p.number \in Nat /\ Taken(p.number)'
          /\ \A n \in Nat : Taken(n) => Taken(n)' /\ n # p.number
      BY <1>1, <3>1, <3>3, DequeueTakes
    <3>5. p \in Packet
      BY <3>1, <3>3, <3>4
    <3> QED BY <1>3, <2>1, <3>2, <3>3, <3>4, <3>5
  <2>2. CASE packet # NoPacket
    <3>1. UNCHANGED queues /\ p = packet
      BY <2>2 DEF SendChunk, Dequeues, Current
    <3>2. ServedInv'
      BY <1>1, <3>1, QueuesServed
    <3>3. DistinctPackets' /\ \A n \in Nat : Taken(n) => Taken(n)'
      BY <1>1, <3>1 DEF queues, DistinctPackets, Taken
    <3>4. sent # <<>> /\ l.packet = packet.number /\ l.chunk + 1 = packet.offset
      BY <1>1, <2>2 DEF UnderWay
    <3> QED BY <1>1, <1>3, <2>2, <3>1, <3>2, <3>3, <3>4
  <2> QED BY <2>1, <2>2
<1>5. CASE /\ sent' = Append(sent, c)
           /\ packet' = IF p.offset + 1 < Chunks THEN [p EXCEPT !.offset = @ + 1] ELSE NoPacket
           /\ faults' = faults
  <2>1. c \in Chunk /\ p.offset \in Nat
    BY <1>4 DEF Chunk
  <2>2. \/ p.offset + 1 < Chunks /\ packet' = [p EXCEPT !.offset = p.offset + 1]
        \/ ~(p.offset + 1 < Chunks) /\ packet' = NoPacket
    BY <1>5
  <2>3. packet' \in Packet /\ (packet' # NoPacket =>
           packet'.number = p.number /\ packet'.offset = p.offset + 1 /\ p.offset + 1 < Chunks)
    BY <1>2, <1>4, <2>1, <2>2
  <2>4. p.offset + 1 < Chunks => packet' # NoPacket
    BY <1>4, <2>1, <2>2 DEF NoPacket
  <2>5. sent # <<>> => \/ c.packet = l.packet /\ c.chunk = l.chunk + 1 /\ packet # NoPacket
                       \/ c.packet # l.packet /\ c.chunk = 0 /\ packet = NoPacket
    BY <1>4
  <2>6. /\ sent' \in Seq(Chunk) /\ sent' # <<>> /\ sent'[Len(sent')] = c /\ Unbroken(sent')
        /\ CutShort(sent') \subseteq CutShort(sent) \cup {Len(sent)}
        /\ ~Unfinished(sent) \/ c.packet = l.packet => CutShort(sent') = CutShort(sent)
    BY <1>1, <1>5, <2>1, <2>5, ChunkAppended
  <2>7. UnderWay'
    BY <1>4, <2>3, <2>6 DEF UnderWay
  <2>8. Abandoned' = 0
    BY <1>5, <2>4, <2>6 DEF Abandoned, Unfinished
  <2>9. Cardinality(CutShort(sent')) <= faults
    <3>0. Cardinality(CutShort(sent)) \in Nat /\ Cardinality(CutShort(sent')) \in Nat
      BY <1>1, <2>6, CutShortNat
    <3>1. CASE Abandoned = 1
      <4> DEFINE larger == CutShort(sent) \cup {Len(sent)}
      <4>1. IsFiniteSet(larger) /\ Cardinality(larger) = Cardinality(CutShort(sent)) + 1
        BY <1>1, CutShortCount, FS_AddElement
      <4>2. CutShort(sent') \subseteq larger
        BY <2>6
      <4> HIDE DEF larger
      <4>3. Cardinality(CutShort(sent')) <= Cardinality(larger)
        BY <4>1, <4>2, FS_Subset
      <4> QED BY <1>1, <3>0, <3>1, <4>1, <4>3
    <3>2. CASE Abandoned # 1
      <4>1. ~Unfinished(sent) \/ packet # NoPacket
        BY <3>2 DEF Abandoned
      <4>2. ~Unfinished(sent) \/ c.packet = l.packet
        BY <2>5, <4>1 DEF Unfinished
      <4>3. CutShort(sent') = CutShort(sent) /\ Abandoned = 0
        BY <2>6, <3>2, <4>2 DEF Abandoned
      <4> QED BY <1>1, <3>0, <4>3
    <3> QED BY <3>1, <3>2
  <2>10. Cardinality(CutShort(sent')) \in Nat
    BY <2>6, CutShortNat
  <2>11. Cardinality(CutShort(sent')) + Abandoned' <= faults'
    BY <1>5, <2>8, <2>9, <2>10
  <2> QED
    BY <1>1, <1>4, <1>5, <2>3, <2>6, <2>7, <2>8, <2>11 DEF ChunksInv
<1>6. CASE Fault /\ packet' = NoPacket /\ UNCHANGED sent
  <2>1. faults' = faults + 1
    BY <1>6 DEF Fault
  <2>2. UnderWay'
    BY <1>3, <1>4, <1>6 DEF UnderWay
  <2>3. Abandoned \in {0, 1} /\ Abandoned' \in {0, 1}
    BY DEF Abandoned
  <2>4. Cardinality(CutShort(sent)) + Abandoned' <= faults'
    <3>1. Cardinality(CutShort(sent)) \in Nat
      BY <1>1, CutShortNat
    <3> QED BY <1>1, <2>1, <2>3, <3>1
  <2> QED
    BY <1>1, <1>2, <1>4, <1>6, <2>1, <2>2, <2>4 DEF ChunksInv
<1> QED
  BY <1>5, <1>6 DEF SendChunk

LEMMA OtherChunkSteps ==
    ASSUME ChunksInv, [TunnelNext]_tunnel, ~SendChunk
    PROVE  ChunksInv'
<1>1. /\ ServedInv /\ QueueTypes /\ DistinctPackets /\ UnderWay /\ faults \in Nat
      /\ sent \in Seq(Chunk) /\ Cardinality(CutShort(sent)) + Abandoned <= faults
  BY DEF ChunksInv, ServedInv
<1>2. /\ UNCHANGED <<packet, sent>> /\ (faults' = faults \/ faults' = faults + 1)
      /\ UNCHANGED queues \/ RouterFills
  BY DEF TunnelNext, tunnel, RouterFills, CanRouterSend, CanReplaceOldest, Keepalive, Drain,
         TxDone, OtherTransfer, Fault, HandleRxFrame, Silence, Cleanup, sender, bounds
<1>3. ServedInv'
  BY <1>1, <1>2, QueuesServed
<1>4. DistinctPackets' /\ \A n \in Nat : Taken(n) => Taken(n)'
  <2>1. CASE UNCHANGED queues
    BY <1>1, <2>1 DEF queues, DistinctPackets, Taken
  <2>2. CASE RouterFills
    BY <1>1, <2>2, QueuedIsNew
  <2> QED BY <1>2, <2>1, <2>2
<1>5. UnderWay'
  <2>1. sent # <<>> => sent[Len(sent)].packet \in Nat
    <3> SUFFICES ASSUME sent # <<>> PROVE sent[Len(sent)] \in Chunk
      BY DEF Chunk
    <3>1. Len(sent) \in 1..Len(sent)
      BY <1>1, EmptySeq
    <3> QED BY <1>1, <3>1, ElementOfSeq
  <2> QED BY <1>1, <1>2, <1>4, <2>1 DEF UnderWay
<1>6. Abandoned' = Abandoned /\ Abandoned \in {0, 1}
  BY <1>2 DEF Abandoned
<1>7. Cardinality(CutShort(sent)) + Abandoned <= faults'
  <2>1. Cardinality(CutShort(sent)) \in Nat
    BY <1>1, CutShortNat
  <2> QED BY <1>1, <1>2, <1>6, <2>1
<1> QED
  BY <1>1, <1>2, <1>3, <1>4, <1>5, <1>6, <1>7 DEF ChunksInv

LEMMA InitChunks == TunnelInit => ChunksInv
<1> SUFFICES ASSUME TunnelInit PROVE ChunksInv
  OBVIOUS
<1>1. ServedInv /\ DistinctPackets
  BY DepthAssumption DEF TunnelInit, QueuesInit, ServedInv, QueueTypes, DistinctPackets, Within,
     Distinct, Apart
<1>2. packet = NoPacket /\ sent = <<>> /\ faults = 0
  BY DEF TunnelInit
<1>3. <<>> \in Seq(Chunk) /\ Len(<<>>) = 0
  BY EmptySeq
<1>4. CutShort(sent) = {} /\ Unbroken(sent) /\ Abandoned = 0 /\ UnderWay
  BY <1>2, <1>3 DEF CutShort, Unbroken, Abandoned, Unfinished, UnderWay
<1>5. NoPacket \in [number : Nat, priority : {"high", "medium"}, offset : Nat]
  BY DEF NoPacket
<1>6. Cardinality(CutShort(sent)) = 0
  BY <1>4, FS_EmptySet
<1> QED
  BY <1>1, <1>2, <1>3, <1>4, <1>5, <1>6 DEF ChunksInv

\* No packet is torn: the chunks of one follow each other, all of them unless libcanard
\* refused a transfer.
THEOREM PacketsStayWhole == TunnelSpec => []ChunksStayTogether
<1>1. ChunksInv /\ [TunnelNext]_tunnel => ChunksInv'
  BY SendChunkKeeps, OtherChunkSteps
<1>2. ChunksInv => ChunksStayTogether
  <2> SUFFICES ASSUME ChunksInv PROVE ChunksStayTogether
    OBVIOUS
  <2>1. Cardinality(CutShort(sent)) <= faults
    <3>1. /\ sent \in Seq(Chunk) /\ faults \in Nat /\ Abandoned \in {0, 1}
          /\ Cardinality(CutShort(sent)) + Abandoned <= faults
      BY DEF ChunksInv, Abandoned
    <3>2. Cardinality(CutShort(sent)) \in Nat
      BY <3>1, CutShortNat
    <3> QED BY <3>1, <3>2
  <2> QED
    BY <2>1 DEF ChunksInv, ChunksStayTogether, Unbroken, CutShort, Goes, Starts
<1> QED
  BY InitChunks, <1>1, <1>2, PTL DEF TunnelSpec

-----------------------------------------------------------------------------
(* The order of delivery.  The frames on their way are, from the reassembly   *)
(* back to the transmit queue, in the order of their transfers, each transfer *)
(* up to its last frame, and all of them newer than what was delivered.       *)

CanFrame == [transfer : Nat, id : Nat, priority : {"high", "medium", "low"}, index : Nat,
             last : BOOLEAN, toggle : Nat]

Numbered(frame) == frame.transfer # 0
Earlier(f, g) ==
    Numbered(f) /\ Numbered(g) =>
        f.transfer < g.transfer \/ (f.transfer = g.transfer /\ ~f.last /\ f.index < g.index)

Ordered(q)  == \A i, j \in 1..Len(q) : i < j => Earlier(q[i], q[j])
Ahead(q, r) == \A i \in 1..Len(q), j \in 1..Len(r) : Earlier(q[i], r[j])
Newer(q, newest, count) ==
    \A i \in 1..Len(q) : Numbered(q[i]) => newest < q[i].transfer /\ q[i].transfer <= count

Pipeline(r, d, q, newest, count) ==
    /\ r \in Seq(CanFrame) /\ d \in Seq(CanFrame) /\ q \in Seq(CanFrame)
    /\ newest \in Nat /\ count \in Nat /\ newest <= count
    /\ Len(d) <= 1 /\ \A i \in 1..Len(r) : Numbered(r[i])
    /\ Ordered(r) /\ Ordered(q) /\ Ahead(r, d) /\ Ahead(r, q) /\ Ahead(d, q)
    /\ Newer(r, newest, count) /\ Newer(d, newest, count) /\ Newer(q, newest, count)

LEMMA FrameTail ==
    ASSUME NEW q \in Seq(CanFrame), q # <<>>
    PROVE  /\ Tail(q) \in Seq(CanFrame) /\ Len(Tail(q)) = Len(q) - 1 /\ Len(q) \in Nat /\ Len(q) > 0
           /\ Head(q) = q[1] /\ Head(q) \in CanFrame
           /\ \A i \in 1..Len(Tail(q)) : Tail(q)[i] = q[i + 1] /\ i + 1 \in 1..Len(q)
<1>1. 1 \in 1..Len(q)
  BY EmptySeq
<1> QED
  BY <1>1, ElementOfSeq

LEMMA RestOrdered ==
    ASSUME NEW q \in Seq(CanFrame), NEW rest \in Seq(CanFrame), Ordered(q),
           \A i \in 1..Len(rest) : rest[i] = q[i + 1] /\ i + 1 \in 1..Len(q)
    PROVE  Ordered(rest)
<1> SUFFICES ASSUME NEW i \in 1..Len(rest), NEW j \in 1..Len(rest), i < j
             PROVE  Earlier(rest[i], rest[j])
  BY DEF Ordered
<1>1. i + 1 < j + 1 /\ i + 1 \in 1..Len(q) /\ j + 1 \in 1..Len(q)
  OBVIOUS
<1>2. Earlier(q[i + 1], q[j + 1])
  BY <1>1 DEF Ordered
<1> QED
  BY <1>2

LEMMA OneFrame ==
    ASSUME NEW f \in CanFrame
    PROVE  <<f>> \in Seq(CanFrame) /\ Len(<<f>>) = 1 /\ <<f>>[1] = f
OBVIOUS

LEMMA NoFrame ==
    /\ <<>> \in Seq(CanFrame) /\ Len(<<>>) = 0 /\ Ordered(<<>>)
    /\ \A q : Ahead(q, <<>>) /\ Ahead(<<>>, q)
    /\ \A newest, count : Newer(<<>>, newest, count)
BY EmptySeq DEF Ordered, Ahead, Newer

\* The first queued frame goes to the driver.
LEMMA Drained ==
    ASSUME NEW r, NEW q, NEW newest, NEW count, Pipeline(r, <<>>, q, newest, count), q # <<>>
    PROVE  Pipeline(r, <<Head(q)>>, Tail(q), newest, count)
<1> DEFINE f == Head(q)
           d == <<f>>
           rest == Tail(q)
<1>1. /\ rest \in Seq(CanFrame) /\ Len(rest) = Len(q) - 1 /\ Len(q) \in Nat /\ Len(q) > 0
      /\ f = q[1] /\ f \in CanFrame
      /\ \A i \in 1..Len(rest) : rest[i] = q[i + 1] /\ i + 1 \in 1..Len(q)
  BY FrameTail DEF Pipeline
<1>2. d \in Seq(CanFrame) /\ Len(d) = 1 /\ d[1] = q[1] /\ 1 \in 1..Len(q)
  BY <1>1, OneFrame
<1> HIDE DEF f, d, rest
<1>3. /\ Ordered(q) /\ Ahead(r, q) /\ Newer(q, newest, count)
      /\ r \in Seq(CanFrame) /\ q \in Seq(CanFrame)
  BY DEF Pipeline
<1>4. Ordered(rest)
  BY <1>1, <1>3, RestOrdered
<1>5. Ahead(d, rest)
  <2>1. ASSUME NEW j \in 1..Len(rest) PROVE Earlier(q[1], rest[j])
    <3>1. j + 1 \in 1..Len(q) /\ 1 < j + 1 /\ rest[j] = q[j + 1]
      BY <1>1
    <3> QED BY <1>2, <1>3, <3>1 DEF Ordered
  <2> QED BY <1>2, <2>1 DEF Ahead
<1>6. Ahead(r, d) /\ Ahead(r, rest)
  <2>1. ASSUME NEW i \in 1..Len(r), NEW j \in 1..Len(q) PROVE Earlier(r[i], q[j])
    BY <1>3 DEF Ahead
  <2>2. Ahead(r, d)
    BY <1>2, <2>1 DEF Ahead
  <2>3. Ahead(r, rest)
    BY <1>1, <2>1 DEF Ahead
  <2> QED BY <2>2, <2>3
<1>7. Newer(d, newest, count) /\ Newer(rest, newest, count)
  <2>1. \A i \in 1..Len(q) : Numbered(q[i]) => newest < q[i].transfer /\ q[i].transfer <= count
    BY <1>3 DEF Newer
  <2>2. Newer(d, newest, count)
    BY <1>2, <2>1 DEF Newer
  <2>3. Newer(rest, newest, count)
    BY <1>1, <2>1 DEF Newer
  <2> QED BY <2>2, <2>3
<1>8. Pipeline(r, d, rest, newest, count)
  BY <1>1, <1>2, <1>4, <1>5, <1>6, <1>7 DEF Pipeline
<1> QED
  BY <1>8 DEF d, f, rest

\* The frame of the driver reached the bus: it is lost, or the other unit has it.
LEMMA Arrived ==
    ASSUME NEW r, NEW d, NEW q, NEW newest, NEW count, Pipeline(r, d, q, newest, count), d # <<>>
    PROVE  /\ Pipeline(r, <<>>, q, newest, count)
           /\ Numbered(d[1]) => Pipeline(Append(r, d[1]), <<>>, q, newest, count)
<1>1. Pipeline(r, <<>>, q, newest, count)
  BY NoFrame DEF Pipeline
<1>2. ASSUME Numbered(d[1]) PROVE Pipeline(Append(r, d[1]), <<>>, q, newest, count)
  <2> DEFINE more == Append(r, d[1])
  <2>1. /\ r \in Seq(CanFrame) /\ d \in Seq(CanFrame) /\ 1 \in 1..Len(d) /\ d[1] \in CanFrame
        /\ \A i \in 1..Len(r) : Numbered(r[i])
        /\ Ordered(r) /\ Ahead(r, d) /\ Ahead(r, q) /\ Ahead(d, q)
        /\ Newer(r, newest, count) /\ Newer(d, newest, count)
    BY EmptySeq, ElementOfSeq DEF Pipeline
  <2>2. /\ more \in Seq(CanFrame) /\ Len(more) = Len(r) + 1 /\ Len(r) \in Nat
        /\ \A i \in 1..Len(more) : \/ i \in 1..Len(r) /\ more[i] = r[i]
                                   \/ i = Len(r) + 1 /\ more[i] = d[1]
    BY <2>1, AppendProperties
  <2> HIDE DEF more
  <2>3. \A i \in 1..Len(more) : Numbered(more[i])
    BY <1>2, <2>1, <2>2
  <2>4. Ordered(more)
    <3> SUFFICES ASSUME NEW i \in 1..Len(more), NEW j \in 1..Len(more), i < j
                 PROVE  Earlier(more[i], more[j])
      BY DEF Ordered
    <3>1. i \in 1..Len(r) /\ more[i] = r[i]
      BY <2>2
    <3>2. CASE j \in 1..Len(r) /\ more[j] = r[j]
      BY <2>1, <3>1, <3>2 DEF Ordered
    <3>3. CASE more[j] = d[1]
      BY <2>1, <3>1, <3>3 DEF Ahead
    <3> QED BY <2>2, <3>2, <3>3
  <2>5. Ahead(more, q)
    BY <2>1, <2>2 DEF Ahead
  <2>6. Newer(more, newest, count)
    BY <2>1, <2>2 DEF Newer
  <2> QED
    BY <1>1, <2>2, <2>3, <2>4, <2>5, <2>6, NoFrame DEF more, Pipeline
<1> QED
  BY <1>1, <1>2

\* The receiver takes the next frame; after the last one of a transfer nothing of it, or
\* of an earlier one, is left.
LEMMA Handled ==
    ASSUME NEW r, NEW d, NEW q, NEW newest, NEW count, Pipeline(r, d, q, newest, count), r # <<>>
    PROVE  /\ Head(r) \in CanFrame /\ newest < Head(r).transfer
           /\ Pipeline(Tail(r), d, q, newest, count)
           /\ Head(r).last => Pipeline(Tail(r), d, q, Head(r).transfer, count)
<1> DEFINE f == Head(r)
           rest == Tail(r)
<1>1. /\ rest \in Seq(CanFrame) /\ Len(rest) = Len(r) - 1 /\ Len(r) \in Nat /\ Len(r) > 0
      /\ f = r[1] /\ f \in CanFrame /\ 1 \in 1..Len(r)
      /\ \A i \in 1..Len(rest) : rest[i] = r[i + 1] /\ i + 1 \in 1..Len(r)
  BY FrameTail DEF Pipeline
<1>2. /\ \A i \in 1..Len(r) : Numbered(r[i])
      /\ Ordered(r) /\ Ahead(r, d) /\ Ahead(r, q)
      /\ Newer(r, newest, count) /\ Newer(d, newest, count) /\ Newer(q, newest, count)
      /\ newest \in Nat /\ count \in Nat /\ newest <= count
      /\ r \in Seq(CanFrame) /\ d \in Seq(CanFrame) /\ q \in Seq(CanFrame)
  BY DEF Pipeline
<1> HIDE DEF f, rest
<1>3. /\ \A i \in 1..Len(rest) : Numbered(rest[i])
      /\ Ordered(rest) /\ Ahead(rest, d) /\ Ahead(rest, q) /\ Newer(rest, newest, count)
  <2>1. \A i \in 1..Len(rest) : Numbered(rest[i])
    BY <1>1, <1>2
  <2>2. Ordered(rest)
    BY <1>1, <1>2, RestOrdered
  <2>3. Ahead(rest, d) /\ Ahead(rest, q)
    BY <1>1, <1>2 DEF Ahead
  <2>4. Newer(rest, newest, count)
    BY <1>1, <1>2 DEF Newer
  <2> QED BY <2>1, <2>2, <2>3, <2>4
<1>4. Pipeline(rest, d, q, newest, count)
  BY <1>1, <1>3 DEF Pipeline
<1>5. newest < f.transfer /\ f.transfer <= count /\ f.transfer \in Nat /\ Numbered(f)
  BY <1>1, <1>2 DEF Newer, CanFrame
<1>6. ASSUME f.last PROVE Pipeline(rest, d, q, f.transfer, count)
  <2>1. ASSUME NEW g \in CanFrame, Earlier(f, g), Numbered(g) PROVE f.transfer < g.transfer
    BY <1>5, <1>6, <2>1 DEF Earlier
  <2>2. Newer(rest, f.transfer, count)
    <3> SUFFICES ASSUME NEW i \in 1..Len(rest), Numbered(rest[i])
                 PROVE  f.transfer < rest[i].transfer /\ rest[i].transfer <= count
      BY DEF Newer
    <3>1. rest[i] \in CanFrame /\ Earlier(f, rest[i])
      <4>1. i + 1 \in 1..Len(r) /\ 1 < i + 1 /\ rest[i] = r[i + 1]
        BY <1>1
      <4>2. Earlier(r[1], r[i + 1])
        BY <1>1, <1>2, <4>1 DEF Ordered
      <4> QED BY <1>1, <4>1, <4>2, ElementOfSeq
    <3> QED BY <1>3, <2>1, <3>1 DEF Newer
  <2>3. Newer(d, f.transfer, count)
    <3> SUFFICES ASSUME NEW i \in 1..Len(d), Numbered(d[i])
                 PROVE  f.transfer < d[i].transfer /\ d[i].transfer <= count
      BY DEF Newer
    <3>1. d[i] \in CanFrame /\ Earlier(f, d[i])
      BY <1>1, <1>2, ElementOfSeq DEF Ahead
    <3> QED BY <1>2, <2>1, <3>1 DEF Newer
  <2>4. Newer(q, f.transfer, count)
    <3> SUFFICES ASSUME NEW i \in 1..Len(q), Numbered(q[i])
                 PROVE  f.transfer < q[i].transfer /\ q[i].transfer <= count
      BY DEF Newer
    <3>1. q[i] \in CanFrame /\ Earlier(f, q[i])
      BY <1>1, <1>2, ElementOfSeq DEF Ahead
    <3> QED BY <1>2, <2>1, <3>1 DEF Newer
  <2> QED
    BY <1>4, <1>5, <2>2, <2>3, <2>4 DEF Pipeline
<1> QED
  BY <1>1, <1>4, <1>5, <1>6 DEF f, rest

\* More is q with f put in at k.
Inserted(more, q, f, k) ==
    /\ more \in Seq(CanFrame) /\ Len(more) = Len(q) + 1 /\ k \in 1..Len(more)
    /\ \A j \in 1..Len(more) :
          \/ j < k /\ j \in 1..Len(q) /\ more[j] = q[j]
          \/ j = k /\ more[j] = f
          \/ j > k /\ j - 1 \in 1..Len(q) /\ more[j] = q[j - 1]

LEMMA InsertAtInserts ==
    ASSUME NEW q \in Seq(CanFrame), NEW f \in CanFrame, NEW k \in 1..Len(q)
    PROVE  Inserted(InsertAt(q, k, f), q, f, k)
<1> DEFINE front == SubSeq(q, 1, k - 1)
           back == SubSeq(q, k, Len(q))
           one == <<f>>
           start == front \o one
           more == start \o back
<1>1. Len(q) \in Nat /\ k \in Nat /\ k > 0 /\ k <= Len(q)
  OBVIOUS
<1>2. /\ front \in Seq(CanFrame) /\ Len(front) = k - 1
      /\ \A j \in 1..k - 1 : front[j] = q[j]
  <2>1. \A j \in 1..k - 1 : q[j] \in CanFrame
    BY <1>1, ElementOfSeq
  <2> QED BY <1>1, <2>1, SubSeqProperties
<1>3. /\ back \in Seq(CanFrame) /\ Len(back) = Len(q) - k + 1
      /\ \A j \in 1..Len(q) - k + 1 : back[j] = q[k + j - 1]
  <2>1. \A j \in k..Len(q) : q[j] \in CanFrame
    BY <1>1, ElementOfSeq
  <2> QED BY <1>1, <2>1, SubSeqProperties
<1>4. one \in Seq(CanFrame) /\ Len(one) = 1 /\ one[1] = f
  BY OneFrame
<1> HIDE DEF front, back, one
<1>5. /\ start \in Seq(CanFrame) /\ Len(start) = k
      /\ start[k] = f /\ \A j \in 1..k - 1 : start[j] = q[j]
  <2>1. /\ start \in Seq(CanFrame) /\ Len(start) = Len(front) + Len(one)
        /\ \A j \in 1..Len(front) + Len(one) :
              start[j] = IF j <= Len(front) THEN front[j] ELSE one[j - Len(front)]
    BY <1>2, <1>4, ConcatProperties
  <2> HIDE DEF start
  <2>2. Len(start) = k
    BY <1>1, <1>2, <1>4, <2>1
  <2>3. start[k] = f
    BY <1>1, <1>2, <1>4, <2>1
  <2>4. \A j \in 1..k - 1 : start[j] = q[j]
    BY <1>1, <1>2, <1>4, <2>1
  <2> QED BY <2>1, <2>2, <2>3, <2>4
<1> HIDE DEF start
<1>6. /\ more \in Seq(CanFrame) /\ Len(more) = Len(q) + 1
      /\ \A j \in 1..k : more[j] = start[j]
      /\ \A j \in k + 1..Len(q) + 1 : more[j] = back[j - k]
  <2>1. /\ more \in Seq(CanFrame) /\ Len(more) = Len(start) + Len(back)
        /\ \A j \in 1..Len(start) + Len(back) :
              more[j] = IF j <= Len(start) THEN start[j] ELSE back[j - Len(start)]
    BY <1>3, <1>5, ConcatProperties
  <2> HIDE DEF more
  <2>2. Len(more) = Len(q) + 1
    BY <1>1, <1>3, <1>5, <2>1
  <2>3. \A j \in 1..k : more[j] = start[j]
    BY <1>1, <1>3, <1>5, <2>1
  <2>4. \A j \in k + 1..Len(q) + 1 : more[j] = back[j - k]
    BY <1>1, <1>3, <1>5, <2>1
  <2> QED BY <2>1, <2>2, <2>3, <2>4
<1> HIDE DEF more
<1>7. Inserted(more, q, f, k)
  <2>1. ASSUME NEW j \in 1..Len(more)
        PROVE  \/ j < k /\ j \in 1..Len(q) /\ more[j] = q[j]
               \/ j = k /\ more[j] = f
               \/ j > k /\ j - 1 \in 1..Len(q) /\ more[j] = q[j - 1]
    <3>1. CASE j < k
      BY <1>1, <1>5, <1>6, <3>1
    <3>2. CASE j = k
      BY <1>1, <1>5, <1>6, <3>2
    <3>3. CASE j > k
      <4>1. j - k \in 1..Len(q) - k + 1 /\ k + (j - k) - 1 = j - 1 /\ j - 1 \in 1..Len(q)
        BY <1>1, <1>6, <3>3
      <4>2. more[j] = back[j - k]
        BY <1>1, <1>6, <3>3
      <4> QED BY <1>3, <3>3, <4>1, <4>2
    <3> QED BY <1>1, <1>6, <3>1, <3>2, <3>3
  <2> QED BY <1>1, <1>6, <2>1 DEF Inserted
<1> QED
  BY <1>7 DEF InsertAt, more, start, front, back, one

LEMMA AppendInserts ==
    ASSUME NEW q \in Seq(CanFrame), NEW f \in CanFrame
    PROVE  Inserted(Append(q, f), q, f, Len(q) + 1)
<1> DEFINE more == Append(q, f)
<1>1. /\ more \in Seq(CanFrame) /\ Len(more) = Len(q) + 1 /\ Len(q) \in Nat
      /\ \A j \in 1..Len(more) : \/ j \in 1..Len(q) /\ j < Len(q) + 1 /\ more[j] = q[j]
                                 \/ j = Len(q) + 1 /\ more[j] = f
  BY AppendProperties
<1> HIDE DEF more
<1>2. Inserted(more, q, f, Len(q) + 1)
  BY <1>1 DEF Inserted
<1> QED
  BY <1>2 DEF more

LEMMA PushInserts ==
    ASSUME NEW q \in Seq(CanFrame), NEW f \in CanFrame
    PROVE  \E k \in Nat : Inserted(Push(q, f), q, f, k)
<1> DEFINE lower == {i \in DOMAIN q : Rank[q[i].priority] > Rank[f.priority]}
<1>1. CASE lower = {}
  <2>1. Push(q, f) = Append(q, f)
    BY <1>1 DEF Push
  <2>2. Len(q) + 1 \in Nat
    OBVIOUS
  <2> QED BY <2>1, <2>2, AppendInserts
<1>2. CASE lower # {}
  <2>1. lower \subseteq 1..Len(q) /\ lower \subseteq Nat
    OBVIOUS
  <2>2. Min(lower) \in lower
    <3>1. \E x \in lower : \A y \in lower : x <= y
      BY <1>2, <2>1, LeastNat
    <3> QED BY <3>1 DEF Min
  <2>3. Push(q, f) = InsertAt(q, Min(lower), f)
    BY <1>2 DEF Push
  <2>4. Min(lower) \in 1..Len(q) /\ Min(lower) \in Nat
    BY <2>1, <2>2
  <2> HIDE DEF lower
  <2>5. Inserted(Push(q, f), q, f, Min(lower))
    BY <2>3, <2>4, InsertAtInserts
  <2> QED BY <2>4, <2>5
<1> QED
  BY <1>1, <1>2

\* A frame of another type changes no order.
LEMMA PushedOther ==
    ASSUME NEW r, NEW d, NEW q, NEW newest, NEW count, Pipeline(r, d, q, newest, count),
           NEW f \in CanFrame, ~Numbered(f)
    PROVE  Pipeline(r, d, Push(q, f), newest, count)
<1> DEFINE more == Push(q, f)
<1>1. q \in Seq(CanFrame) /\ Ordered(q) /\ Ahead(r, q) /\ Ahead(d, q) /\ Newer(q, newest, count)
      /\ r \in Seq(CanFrame) /\ d \in Seq(CanFrame)
  BY DEF Pipeline
<1>2. PICK k \in Nat : Inserted(more, q, f, k)
  BY <1>1, PushInserts
<1> HIDE DEF more
<1>3. /\ more \in Seq(CanFrame) /\ Len(more) = Len(q) + 1 /\ Len(q) \in Nat
      /\ \A j \in 1..Len(more) :
            \/ j < k /\ j \in 1..Len(q) /\ more[j] = q[j]
            \/ j = k /\ more[j] = f
            \/ j > k /\ j - 1 \in 1..Len(q) /\ more[j] = q[j - 1]
  BY <1>1, <1>2 DEF Inserted
<1>4. \A g : Earlier(f, g) /\ Earlier(g, f)
  BY DEF Earlier
<1>5. Ordered(more)
  <2> SUFFICES ASSUME NEW i \in 1..Len(more), NEW j \in 1..Len(more), i < j
               PROVE  Earlier(more[i], more[j])
    BY DEF Ordered
  <2>1. CASE i = k \/ j = k
    BY <1>3, <1>4, <2>1
  <2>2. CASE i # k /\ j # k
    <3> DEFINE m == IF i < k THEN i ELSE i - 1
               n == IF j < k THEN j ELSE j - 1
    <3>1. m \in 1..Len(q) /\ more[i] = q[m]
      BY <1>3, <2>2
    <3>2. n \in 1..Len(q) /\ more[j] = q[n]
      BY <1>3, <2>2
    <3>3. m < n
      BY <1>3, <2>2
    <3> HIDE DEF m, n
    <3> QED BY <1>1, <3>1, <3>2, <3>3 DEF Ordered
  <2> QED BY <2>1, <2>2
<1>6. \A j \in 1..Len(more) : more[j] = f \/ \E m \in 1..Len(q) : more[j] = q[m]
  BY <1>3
<1>7. Ahead(r, more) /\ Ahead(d, more)
  BY <1>1, <1>4, <1>6 DEF Ahead
<1>8. Newer(more, newest, count)
  BY <1>1, <1>6 DEF Newer
<1>9. Pipeline(r, d, more, newest, count)
  BY <1>3, <1>5, <1>7, <1>8 DEF Pipeline
<1> QED
  BY <1>9 DEF more

\* What enqueueTxFrames is when its loop defines a function.
IsQueued(g, queue, frames) ==
    g = [n \in 0..Len(frames) |-> IF n = 0 THEN queue ELSE Push(g[n - 1], frames[n])]

LEMMA EnqueuedIs ==
    ASSUME NEW queue, NEW frames, Len(frames) \in Nat, NEW w, IsQueued(w, queue, frames)
    PROVE  Enqueued(queue, frames) = w[Len(frames)]
<1> DEFINE g == CHOOSE h : IsQueued(h, queue, frames)
           U == {n \in 0..Len(frames) : g[n] # w[n]}
<1>1. IsQueued(g, queue, frames)
  OBVIOUS
<1>2. Enqueued(queue, frames) = g[Len(frames)]
  BY DEF Enqueued, IsQueued
<1> HIDE DEF g
<1>3. \A n \in 0..Len(frames) : g[n] = IF n = 0 THEN queue ELSE Push(g[n - 1], frames[n])
  <2>1. g = [n \in 0..Len(frames) |-> IF n = 0 THEN queue ELSE Push(g[n - 1], frames[n])]
    BY <1>1, Zenon DEF IsQueued
  <2> QED BY <2>1, Zenon
<1>4. \A n \in 0..Len(frames) : w[n] = IF n = 0 THEN queue ELSE Push(w[n - 1], frames[n])
  <2>1. w = [n \in 0..Len(frames) |-> IF n = 0 THEN queue ELSE Push(w[n - 1], frames[n])]
    BY Zenon DEF IsQueued
  <2> QED BY <2>1, Zenon
<1>5. U = {}
  <2> SUFFICES ASSUME U # {} PROVE FALSE
    OBVIOUS
  <2>1. U \subseteq Nat
    OBVIOUS
  <2>2. PICK n \in U : \A y \in U : n <= y
    <3> HIDE DEF U
    <3> QED BY <2>1, LeastNat
  <2>3. n \in 1..Len(frames) /\ n - 1 \in 0..Len(frames) /\ n - 1 \notin U
    BY <1>3, <1>4, <2>2
  <2> QED
    BY <1>3, <1>4, <2>2, <2>3
<1> QED
  BY <1>2, <1>5

\* In an empty queue the frames of one transfer keep their order.
LEMMA EnqueuedAlone ==
    ASSUME NEW frames \in Seq(CanFrame), NEW priority,
           \A i \in 1..Len(frames) : frames[i].priority = priority
    PROVE  Enqueued(<<>>, frames) = frames
<1> DEFINE FirstFrames(n) == SubSeq(frames, 1, n)
           w == [n \in 0..Len(frames) |-> FirstFrames(n)]
<1>1. Len(frames) \in Nat /\ \A i \in 1..Len(frames) : frames[i] \in CanFrame
  BY LenProperties
<1>2. \A n \in 0..Len(frames) :
         /\ FirstFrames(n) \in Seq(CanFrame) /\ Len(FirstFrames(n)) = n
         /\ \A i \in 1..n : FirstFrames(n)[i] = frames[i]
  <2> SUFFICES ASSUME NEW n \in 0..Len(frames)
               PROVE  /\ FirstFrames(n) \in Seq(CanFrame) /\ Len(FirstFrames(n)) = n
                      /\ \A i \in 1..n : FirstFrames(n)[i] = frames[i]
    OBVIOUS
  <2>1. \A i \in 1..n : frames[i] \in CanFrame
    BY <1>1
  <2> QED BY <1>1, <2>1, SubSeqProperties
<1>3. FirstFrames(0) = <<>>
  BY SubSeqEmpty
<1>4. ASSUME NEW n \in 1..Len(frames) PROVE FirstFrames(n) = Append(FirstFrames(n - 1), frames[n])
  <2>1. FirstFrames(n) = FirstFrames(n - 1) \o <<frames[n]>>
    BY <1>1, SubSeqRecursiveSecond
  <2>2. n - 1 \in 0..Len(frames) /\ frames[n] \in CanFrame
    BY <1>1
  <2>3. FirstFrames(n - 1) \in Seq(CanFrame)
    BY <1>2, <2>2
  <2> HIDE DEF FirstFrames
  <2> QED
    BY <2>1, <2>2, <2>3, AppendIsConcat
<1>5. FirstFrames(Len(frames)) = frames
  BY SubSeqFull
<1> HIDE DEF FirstFrames
<1>6. ASSUME NEW n \in 1..Len(frames) PROVE Push(FirstFrames(n - 1), frames[n]) = FirstFrames(n)
  <2> DEFINE q == FirstFrames(n - 1)
  <2>1. n - 1 \in 0..Len(frames)
    BY <1>1
  <2>2. q \in Seq(CanFrame) /\ Len(q) = n - 1 /\ \A i \in 1..n - 1 : q[i] = frames[i]
    BY <1>2, <2>1
  <2>3. \A i \in DOMAIN q : q[i].priority = frames[n].priority
    BY <1>1, <2>1, <2>2
  <2> HIDE DEF q
  <2>4. Rank[frames[n].priority] \in {1, 2, 3}
    BY <1>1 DEF Rank, CanFrame
  <2>5. \A i \in DOMAIN q : ~(Rank[q[i].priority] > Rank[frames[n].priority])
    BY <2>3, <2>4
  <2>6. {i \in DOMAIN q : Rank[q[i].priority] > Rank[frames[n].priority]} = {}
    BY <2>5
  <2>7. Push(q, frames[n]) = Append(q, frames[n])
    BY <2>6 DEF Push
  <2> QED
    BY <1>4, <2>7 DEF q
<1>7. IsQueued(w, <<>>, frames)
  <2>1. ASSUME NEW n \in 0..Len(frames)
        PROVE  FirstFrames(n) = IF n = 0 THEN <<>> ELSE Push(w[n - 1], frames[n])
    <3>1. CASE n = 0
      BY <1>3, <3>1
    <3>2. CASE n # 0
      <4>1. n \in 1..Len(frames) /\ n - 1 \in 0..Len(frames)
        BY <1>1, <3>2
      <4> QED BY <1>6, <3>2, <4>1
    <3> QED BY <3>1, <3>2
  <2> QED BY <2>1 DEF IsQueued
<1> QED
  <2>1. Enqueued(<<>>, frames) = w[Len(frames)]
    BY <1>1, <1>7, EnqueuedIs
  <2> QED BY <1>1, <1>5, <2>1

LEMMA EnqueuedOne ==
    ASSUME NEW queue, NEW frames, Len(frames) = 1
    PROVE  Enqueued(queue, frames) = Push(queue, frames[1])
<1> DEFINE w == [n \in 0..1 |-> IF n = 0 THEN queue ELSE Push(queue, frames[1])]
<1>1. \A n \in 0..1 : w[n] = IF n = 0 THEN queue ELSE Push(w[n - 1], frames[n])
  OBVIOUS
<1>2. IsQueued(w, queue, frames)
  <2>1. w = [n \in 0..1 |-> IF n = 0 THEN queue ELSE Push(w[n - 1], frames[n])]
    BY <1>1
  <2> HIDE DEF w
  <2> QED BY <2>1 DEF IsQueued
<1>3. Enqueued(queue, frames) = w[1]
  <2> HIDE DEF w
  <2>1. Len(frames) \in Nat
    OBVIOUS
  <2>2. Enqueued(queue, frames) = w[Len(frames)]
    BY <1>2, <2>1, EnqueuedIs
  <2> QED BY <2>2
<1> QED
  BY <1>3

\* The frames of one transfer.
FramesOf(frames, number, id, priority, count) ==
    /\ frames \in Seq(CanFrame) /\ Len(frames) = count
    /\ \A i \in 1..count :
           /\ frames[i].transfer = number /\ frames[i].id = id /\ frames[i].priority = priority
           /\ frames[i].index = i /\ frames[i].toggle = (i - 1) % 2
           /\ frames[i].last <=> i = count

LEMMA CanFramesFacts ==
    ASSUME NEW number \in Nat, NEW id \in Nat, NEW priority \in {"high", "medium", "low"},
           NEW count \in Nat \ {0}
    PROVE  FramesOf(CanFrames(number, id, priority, count), number, id, priority, count)
<1> DEFINE frames == CanFrames(number, id, priority, count)
           Frame(i) == [transfer |-> number, id |-> id, priority |-> priority, index |-> i,
                        last |-> i = count, toggle |-> (i - 1) % 2]
<1>1. ASSUME NEW i \in 1..count PROVE Frame(i) \in CanFrame
  <2>1. (i - 1) % 2 \in Nat /\ i \in Nat
    OBVIOUS
  <2> QED BY <2>1 DEF CanFrame
<1>2. \A i \in 1..count :
         /\ Frame(i).transfer = number /\ Frame(i).id = id /\ Frame(i).priority = priority
         /\ Frame(i).index = i /\ Frame(i).toggle = (i - 1) % 2
         /\ Frame(i).last <=> i = count
  OBVIOUS
<1>3. frames = [i \in 1..count |-> Frame(i)]
  BY DEF CanFrames
<1> HIDE DEF frames, Frame
<1>4. frames \in [1..count -> CanFrame]
  BY <1>1, <1>3
<1>5. frames \in Seq(CanFrame) /\ Len(frames) = count
  BY <1>4
<1>6. \A i \in 1..count : frames[i] = Frame(i)
  BY <1>3
<1> QED
  BY <1>2, <1>5, <1>6 DEF frames, FramesOf

\* A transfer broadcast when the transmit queue is empty.
LEMMA BroadcastLast ==
    ASSUME NEW r, NEW d, NEW newest, NEW count, Pipeline(r, d, <<>>, newest, count),
           NEW frames, NEW id, NEW priority, NEW size \in Nat,
           FramesOf(frames, count + 1, id, priority, size)
    PROVE  Pipeline(r, d, frames, newest, count + 1)
<1>1. /\ r \in Seq(CanFrame) /\ d \in Seq(CanFrame)
      /\ newest \in Nat /\ count \in Nat /\ newest <= count
      /\ Newer(r, newest, count) /\ Newer(d, newest, count)
      /\ frames \in Seq(CanFrame) /\ Len(frames) = size
      /\ \A i \in 1..size : /\ frames[i].transfer = count + 1 /\ frames[i].index = i
                            /\ frames[i].last <=> i = size
  BY DEF Pipeline, FramesOf
<1>2. Ordered(frames)
  <2> SUFFICES ASSUME NEW i \in 1..Len(frames), NEW j \in 1..Len(frames), i < j
               PROVE  Earlier(frames[i], frames[j])
    BY DEF Ordered
  <2> QED BY <1>1 DEF Earlier
<1>3. ASSUME NEW s \in Seq(CanFrame), Newer(s, newest, count)
      PROVE  Ahead(s, frames) /\ Newer(s, newest, count + 1)
  <2>1. ASSUME NEW i \in 1..Len(s), Numbered(s[i])
        PROVE  newest < s[i].transfer /\ s[i].transfer < count + 1 /\ s[i].transfer <= count + 1
    <3>1. newest < s[i].transfer /\ s[i].transfer <= count /\ s[i] \in CanFrame
      BY <1>3, <2>1, ElementOfSeq DEF Newer
    <3>2. s[i].transfer \in Nat
      BY <3>1 DEF CanFrame
    <3> QED BY <1>1, <3>1, <3>2
  <2>2. Newer(s, newest, count + 1)
    BY <2>1 DEF Newer
  <2>3. Ahead(s, frames)
    <3> SUFFICES ASSUME NEW i \in 1..Len(s), NEW j \in 1..Len(frames)
                 PROVE  Earlier(s[i], frames[j])
      BY DEF Ahead
    <3>1. frames[j].transfer = count + 1
      BY <1>1
    <3>2. Numbered(s[i]) => s[i].transfer < frames[j].transfer
      <4> SUFFICES ASSUME Numbered(s[i]) PROVE s[i].transfer < count + 1
        BY <3>1
      <4> QED BY <2>1
    <3> QED BY <3>2 DEF Earlier
  <2> QED BY <2>2, <2>3
<1>4. Newer(frames, newest, count + 1)
  BY <1>1 DEF Newer
<1>5. /\ Ahead(r, frames) /\ Ahead(d, frames)
      /\ Newer(r, newest, count + 1) /\ Newer(d, newest, count + 1)
  BY <1>1, <1>3
<1>6. newest <= count + 1 /\ count + 1 \in Nat
  BY <1>1
<1> QED
  BY <1>1, <1>2, <1>4, <1>5, <1>6 DEF Pipeline

Piece == [transfer : Nat, index : Nat]
RxState == [known : BOOLEAN, fresh : BOOLEAN, transfer_id : Nat, toggle : Int,
            payload : Seq(Piece)]

OrderInv ==
    /\ ChunksInv
    /\ transfer_id \in Nat /\ rx_state \in RxState /\ delivered \in Seq(Nat)
    /\ Pipeline(rx_queue, driver, tx_queue, Newest, transfers)
    /\ DeliveredInOrder

LEMMA DrainKeeps ==
    ASSUME NEW q, NEW newest, NEW count, Pipeline(rx_queue, driver, q, newest, count), DrainInto(q)
    PROVE  Pipeline(rx_queue, driver', tx_queue', newest, count)
<1>1. CASE q # <<>> /\ driver = <<>>
  <2>1. driver' = <<Head(q)>> /\ tx_queue' = Tail(q)
    BY <1>1 DEF DrainInto
  <2>2. Pipeline(rx_queue, <<>>, q, newest, count)
    BY <1>1
  <2> QED BY <1>1, <2>1, <2>2, Drained
<1>2. CASE ~(q # <<>> /\ driver = <<>>)
  BY <1>2 DEF DrainInto
<1> QED
  BY <1>1, <1>2

LEMMA BroadcastKeeps ==
    ASSUME OrderInv, TxIdle, NEW priority \in {"high", "medium", "low"}, NEW count \in Nat \ {0},
           BroadcastTargetted(priority, count)
    PROVE  /\ transfer_id' \in Nat
           /\ Pipeline(rx_queue, driver', tx_queue', Newest, transfers')
<1> DEFINE frames == CanFrames(transfers + 1, transfer_id, priority, count)
<1>1. /\ transfer_id \in Nat /\ tx_queue = <<>>
      /\ Pipeline(rx_queue, driver, <<>>, Newest, transfers) /\ transfers \in Nat
      /\ TransferIds \in Nat /\ TransferIds > 0
  BY TunnelAssumption DEF OrderInv, TxIdle, Pipeline
<1>2. FramesOf(frames, transfers + 1, transfer_id, priority, count)
  <2>1. transfers + 1 \in Nat
    BY <1>1
  <2> QED BY <1>1, <2>1, CanFramesFacts
<1>3. transfers' = transfers + 1 /\ transfer_id' = (transfer_id + 1) % TransferIds
      /\ DrainInto(Enqueued(<<>>, frames))
  BY <1>1 DEF BroadcastTargetted
<1> HIDE DEF frames
<1>4. Enqueued(<<>>, frames) = frames
  <2>1. frames \in Seq(CanFrame) /\ \A i \in 1..Len(frames) : frames[i].priority = priority
    BY <1>2 DEF FramesOf
  <2> QED BY <2>1, EnqueuedAlone
<1>5. Pipeline(rx_queue, driver, frames, Newest, transfers + 1)
  BY <1>1, <1>2, BroadcastLast
<1>6. Pipeline(rx_queue, driver', tx_queue', Newest, transfers + 1)
  BY <1>3, <1>4, <1>5, DrainKeeps
<1>7. transfer_id' \in Nat
  BY <1>1, <1>3
<1> QED
  BY <1>3, <1>6, <1>7

LEMMA OtherKeeps ==
    ASSUME OrderInv, NEW priority \in {"high", "medium", "low"},
           DrainInto(Enqueued(tx_queue, CanFrames(0, 0, priority, 1)))
    PROVE  Pipeline(rx_queue, driver', tx_queue', Newest, transfers)
<1> DEFINE frames == CanFrames(0, 0, priority, 1)
           f == frames[1]
<1>1. frames \in Seq(CanFrame) /\ Len(frames) = 1 /\ f.transfer = 0
  <2>1. FramesOf(frames, 0, 0, priority, 1)
    BY CanFramesFacts
  <2> HIDE DEF frames
  <2> QED BY <2>1 DEF FramesOf
<1>2. f \in CanFrame /\ ~Numbered(f)
  BY <1>1, ElementOfSeq DEF Numbered
<1>3. Enqueued(tx_queue, frames) = Push(tx_queue, f)
  BY <1>1, EnqueuedOne
<1>4. DrainInto(Push(tx_queue, f))
  BY <1>3
<1> HIDE DEF f
<1>5. Pipeline(rx_queue, driver, Push(tx_queue, f), Newest, transfers)
  BY <1>2, PushedOther DEF OrderInv
<1> QED
  BY <1>4, <1>5, DrainKeeps

\* The CRC holds only for the transfer whose last frame it came with.
LEMMA ContentIsLast ==
    ASSUME NEW s \in Seq(Piece), NEW piece \in Piece, CrcMatches(Append(s, piece))
    PROVE  Content(Append(s, piece)) = piece.transfer
<1> DEFINE payload == Append(s, piece)
           whole == [i \in 1..Frames |-> [transfer |-> payload[1].transfer, index |-> i]]
<1>1. payload \in Seq(Piece) /\ Len(payload) = Len(s) + 1 /\ Len(s) \in Nat
      /\ payload[Len(s) + 1] = piece
  BY AppendProperties
<1>2. PICK t : /\ payload = [i \in 1..Frames |-> [transfer |-> t, index |-> i]]
               /\ Content(payload) = t
  <2>1. payload = whole /\ Content(payload) = payload[1].transfer
    BY DEF CrcMatches, Content
  <2> QED BY <2>1
<1> HIDE DEF payload
<1>3. Len(s) + 1 \in DOMAIN payload /\ DOMAIN payload = 1..Frames
  <2>1. DOMAIN payload = 1..Frames
    BY <1>2
  <2>2. DOMAIN payload = 1..Len(payload)
    BY <1>1, LenProperties
  <2>3. Len(s) + 1 \in 1..Len(payload)
    BY <1>1
  <2> QED BY <2>1, <2>2, <2>3
<1>4. payload[Len(s) + 1].transfer = t
  BY <1>2, <1>3
<1> QED
  BY <1>1, <1>2, <1>4 DEF payload

\* A transfer reaches the router with its last frame.
LEMMA DeliverKeeps ==
    ASSUME OrderInv, rx_queue # <<>>, Head(rx_queue).last,
           delivered' = Append(delivered, Head(rx_queue).transfer),
           rx_queue' = Tail(rx_queue), UNCHANGED <<driver, tx_queue, transfers>>
    PROVE  /\ delivered' \in Seq(Nat) /\ DeliveredInOrder'
           /\ Pipeline(rx_queue', driver', tx_queue', Newest', transfers')
<1> DEFINE number == Head(rx_queue).transfer
<1>1. /\ Head(rx_queue) \in CanFrame /\ Newest < number
      /\ Pipeline(Tail(rx_queue), driver, tx_queue, number, transfers)
  BY Handled DEF OrderInv
<1>2. number \in Nat /\ delivered \in Seq(Nat) /\ Len(delivered) \in Nat
  BY <1>1 DEF CanFrame, OrderInv
<1> HIDE DEF number
<1>3. /\ delivered' \in Seq(Nat) /\ Len(delivered') = Len(delivered) + 1
      /\ delivered'[Len(delivered) + 1] = number
      /\ \A i \in 1..Len(delivered) : delivered'[i] = delivered[i]
  BY <1>2, AppendProperties DEF number
<1>4. Newest' = number
  <2>1. delivered' # <<>>
    BY <1>2, <1>3, EmptySeq
  <2> QED BY <1>3, <2>1 DEF Newest
<1>5. DeliveredInOrder'
  <2>5. DOMAIN delivered' = 1..Len(delivered) + 1
    BY <1>2, <1>3, LenProperties
  <2> SUFFICES ASSUME NEW i \in 1..Len(delivered) + 1
               PROVE  delivered'[i] > (IF i = 1 THEN 0 ELSE delivered'[i - 1])
    BY <2>5 DEF DeliveredInOrder
  <2>1. CASE i \in 1..Len(delivered)
    <3>1. delivered[i] > (IF i = 1 THEN 0 ELSE delivered[i - 1])
      BY <1>2, <2>1 DEF DeliveredInOrder, OrderInv
    <3>2. i # 1 => i - 1 \in 1..Len(delivered)
      BY <1>2, <2>1
    <3> QED BY <1>3, <2>1, <3>1, <3>2
  <2>2. CASE i = Len(delivered) + 1
    <3>1. i = 1 => Newest = 0
      BY <1>2, <2>2, EmptySeq DEF Newest
    <3>2. i # 1 => Newest = delivered[i - 1] /\ i - 1 \in 1..Len(delivered)
      BY <1>2, <2>2, EmptySeq DEF Newest
    <3>3. Newest \in Nat
      BY DEF OrderInv, Pipeline
    <3> QED BY <1>1, <1>2, <1>3, <2>2, <3>1, <3>2, <3>3
  <2> QED BY <1>2, <2>1, <2>2
<1> QED
  BY <1>1, <1>3, <1>4, <1>5

LEMMA RxStateUpdates ==
    ASSUME NEW state \in RxState
    PROVE  /\ \A id \in Nat : [state EXCEPT !.transfer_id = id] \in RxState
           /\ \A id \in Nat, p \in Seq(Piece) :
                 [state EXCEPT !.transfer_id = id, !.toggle = 0, !.payload = p] \in RxState
           /\ \A p \in Seq(Piece), b \in BOOLEAN :
                 [state EXCEPT !.payload = p, !.fresh = b] \in RxState
           /\ \A b \in BOOLEAN : [state EXCEPT !.fresh = b] \in RxState
           /\ \A i \in Int : [state EXCEPT !.toggle = i] \in RxState
<1>1. 0 \in Int
  OBVIOUS
<1> QED
  BY <1>1 DEF RxState

LEMMA Forward == \A id \in Nat : (id + 1) % TransferIds \in Nat
<1>1. TransferIds \in Nat /\ TransferIds > 0
  BY TunnelAssumption
<1> QED
  BY <1>1

LEMMA NoPieces == <<>> \in Seq(Piece)
BY EmptySeq

LEMMA PreparedType == \A state \in RxState : Prepared(state) \in RxState
<1> SUFFICES ASSUME NEW state \in RxState PROVE Prepared(state) \in RxState
  OBVIOUS
<1> DEFINE id == (state.transfer_id + 1) % TransferIds
<1>1. state.transfer_id \in Nat
  BY DEF RxState
<1>2. id \in Nat
  BY <1>1, Forward
<1>3. Prepared(state) = [state EXCEPT !.transfer_id = id, !.toggle = 0, !.payload = <<>>]
  BY DEF Prepared
<1> HIDE DEF id
<1>4. [state EXCEPT !.transfer_id = id, !.toggle = 0, !.payload = <<>>] \in RxState
  BY <1>2, NoPieces, RxStateUpdates
<1> QED
  BY <1>3, <1>4, Zenon

\* The receiver hands over a transfer only with its last frame.
LEMMA HandleKeeps ==
    ASSUME OrderInv, HandleRxFrame
    PROVE  /\ rx_state' \in RxState
           /\ \/ delivered' = delivered
              \/ /\ Head(rx_queue).last
                 /\ delivered' = Append(delivered, Head(rx_queue).transfer)
<1> DEFINE frame == Head(rx_queue)
           first == frame.index = 1
           known == IF rx_state.known THEN rx_state ELSE [NoRx EXCEPT !.known = TRUE]
           restart == NeedRestart(frame)
           state == IF restart THEN [known EXCEPT !.transfer_id = frame.id, !.toggle = 0,
                                                  !.payload = <<>>]
                    ELSE known
           piece == [transfer |-> frame.transfer, index |-> frame.index]
           payload == IF first THEN <<piece>> ELSE Append(state.payload, piece)
           stored == [state EXCEPT !.payload = payload, !.fresh = first \/ @]
           fits == frame.toggle = state.toggle /\ frame.id = state.transfer_id
<1>1. frame \in CanFrame
  <2>1. rx_queue # <<>>
    BY DEF HandleRxFrame
  <2> QED BY <2>1, Handled DEF OrderInv
<1>2. piece \in Piece /\ frame.id \in Nat /\ frame.transfer \in Nat
  BY <1>1 DEF CanFrame, Piece
<1>3. known \in RxState
  <2>1. NoRx \in RxState
    BY EmptySeq DEF NoRx, RxState
  <2> QED BY <2>1 DEF OrderInv, RxState
<1>4. state \in RxState
  <2>1. [known EXCEPT !.transfer_id = frame.id, !.toggle = 0, !.payload = <<>>] \in RxState
    <3> HIDE DEF known, frame
    <3> QED BY <1>2, <1>3, NoPieces, RxStateUpdates
  <2> QED BY <1>3, <2>1
<1>5. state.payload \in Seq(Piece)
  BY <1>4 DEF RxState
<1>6. payload \in Seq(Piece)
  BY <1>2, <1>5, AppendProperties
<1>7. stored \in RxState
  <2>1. (first \/ state.fresh) \in BOOLEAN
    OBVIOUS
  <2>2. stored = [state EXCEPT !.payload = payload, !.fresh = first \/ state.fresh]
    OBVIOUS
  <2> HIDE DEF state, payload, first, stored
  <2> QED BY <1>4, <1>6, <2>1, <2>2, RxStateUpdates
<1>8. /\ Prepared(state) \in RxState /\ Prepared(stored) \in RxState
      /\ [state EXCEPT !.transfer_id = (@ + 1) % TransferIds] \in RxState
      /\ [stored EXCEPT !.fresh = TRUE] \in RxState
      /\ [stored EXCEPT !.toggle = 1 - @] \in RxState
  <2> HIDE DEF state, stored
  <2>1. (state.transfer_id + 1) % TransferIds \in Nat
    <3>1. state.transfer_id \in Nat
      BY <1>4 DEF RxState
    <3> QED BY <3>1, Forward
  <2>2. 1 - stored.toggle \in Int
    <3>1. stored.toggle \in Int
      BY <1>7 DEF RxState
    <3> QED BY <3>1
  <2>3. Prepared(state) \in RxState /\ Prepared(stored) \in RxState
    BY <1>4, <1>7, PreparedType
  <2> QED BY <1>4, <1>7, <2>1, <2>2, <2>3, RxStateUpdates
<1>9. Prepared([stored EXCEPT !.fresh = TRUE]) \in RxState
  BY <1>8, PreparedType
<1>10. ~first => payload = Append(state.payload, piece)
  OBVIOUS
<1>11. ~first /\ CrcMatches(payload) => Content(payload) = frame.transfer
  BY <1>2, <1>5, <1>10, ContentIsLast
<1>12. \/ Ignored(rx_state)
       \/ Ignored([state EXCEPT !.transfer_id = (@ + 1) % TransferIds])
       \/ frame.last /\ Received(frame.transfer, [stored EXCEPT !.fresh = TRUE])
       \/ Ignored(state)
       \/ Ignored([stored EXCEPT !.toggle = 1 - @])
       \/ ~first /\ frame.last /\ CrcMatches(payload) /\ Received(Content(payload), stored)
       \/ Ignored(Prepared(stored))
  BY DEF HandleRxFrame
<1>13. rx_state \in RxState
  BY DEF OrderInv
<1> HIDE DEF frame, first, known, restart, state, piece, payload, stored, fits
<1> QED
  BY <1>7, <1>8, <1>9, <1>11, <1>12, <1>13, <1>4 DEF Received, Ignored, frame

LEMMA NextOrder == OrderInv /\ [TunnelNext]_tunnel => OrderInv'
<1> SUFFICES ASSUME OrderInv, [TunnelNext]_tunnel PROVE OrderInv'
  OBVIOUS
<1>1. ChunksInv'
  BY SendChunkKeeps, OtherChunkSteps DEF OrderInv
<1>2. /\ transfer_id \in Nat /\ rx_state \in RxState /\ delivered \in Seq(Nat)
      /\ Pipeline(rx_queue, driver, tx_queue, Newest, transfers) /\ DeliveredInOrder
  BY DEF OrderInv
<1> SUFFICES /\ transfer_id' \in Nat /\ rx_state' \in RxState /\ delivered' \in Seq(Nat)
             /\ Pipeline(rx_queue', driver', tx_queue', Newest', transfers') /\ DeliveredInOrder'
  BY <1>1 DEF OrderInv
<1>3. ASSUME UNCHANGED <<rx_queue, rx_state, delivered>>, transfer_id' \in Nat,
             Pipeline(rx_queue, driver', tx_queue', Newest, transfers')
      PROVE  /\ transfer_id' \in Nat /\ rx_state' \in RxState /\ delivered' \in Seq(Nat)
             /\ Pipeline(rx_queue', driver', tx_queue', Newest', transfers') /\ DeliveredInOrder'
  BY <1>2, <1>3 DEF Newest, DeliveredInOrder
<1>4. CASE UNCHANGED <<tx_queue, driver, transfer_id, transfers, rx_queue, rx_state, delivered>>
  BY <1>2, <1>3, <1>4
<1>5. CASE Keepalive
  <2>1. TxIdle /\ BroadcastTargetted("medium", 1) /\ UNCHANGED <<rx_queue, rx_state, delivered>>
    BY <1>5 DEF Keepalive, receiver
  <2>2. transfer_id' \in Nat /\ Pipeline(rx_queue, driver', tx_queue', Newest, transfers')
    BY <2>1, BroadcastKeeps
  <2> QED BY <1>3, <2>1, <2>2
<1>6. CASE SendChunk
  <2>1. TxIdle /\ UNCHANGED <<rx_queue, rx_state, delivered>>
    BY <1>6 DEF SendChunk, receiver
  <2>2. Current.priority \in {"high", "medium", "low"}
    <3>1. packet \in [number : Nat, priority : {"high", "medium"}, offset : Nat]
      BY DEF OrderInv, ChunksInv
    <3> QED BY <3>1 DEF Current
  <2>3. Frames \in Nat \ {0}
    BY TunnelAssumption
  <2>4. CASE BroadcastTargetted(Current.priority, Frames)
    <3>1. transfer_id' \in Nat /\ Pipeline(rx_queue, driver', tx_queue', Newest, transfers')
      BY <2>1, <2>2, <2>3, <2>4, BroadcastKeeps
    <3> QED BY <1>3, <2>1, <3>1
  <2>5. CASE UNCHANGED <<tx_queue, driver, transfer_id, transfers>>
    BY <1>2, <1>3, <2>1, <2>5
  <2> QED BY <1>6, <2>4, <2>5 DEF SendChunk
<1>7. CASE Drain
  <2>1. DrainInto(tx_queue) /\ UNCHANGED <<transfer_id, transfers, rx_queue, rx_state, delivered>>
    BY <1>7 DEF Drain, receiver
  <2>2. Pipeline(rx_queue, driver', tx_queue', Newest, transfers)
    BY <1>2, <2>1, DrainKeeps
  <2> QED BY <1>2, <1>3, <2>1, <2>2
<1>8. CASE TxDone
  <2>1. /\ driver # <<>> /\ driver' = <<>>
        /\ UNCHANGED <<tx_queue, transfer_id, transfers, rx_state, delivered>>
        /\ \/ rx_queue' = rx_queue
           \/ Numbered(driver[1]) /\ rx_queue' = Append(rx_queue, driver[1])
    BY <1>8 DEF TxDone, Numbered
  <2>2. Pipeline(rx_queue', driver', tx_queue', Newest, transfers)
    BY <1>2, <2>1, Arrived
  <2> QED BY <1>2, <2>1, <2>2 DEF Newest, DeliveredInOrder
<1>9. ASSUME NEW priority \in {"high", "low"}, OtherTransfer(priority)
      PROVE  /\ transfer_id' \in Nat /\ rx_state' \in RxState /\ delivered' \in Seq(Nat)
             /\ Pipeline(rx_queue', driver', tx_queue', Newest', transfers') /\ DeliveredInOrder'
  <2>1. /\ DrainInto(Enqueued(tx_queue, CanFrames(0, 0, priority, 1)))
        /\ UNCHANGED <<transfer_id, transfers, rx_queue, rx_state, delivered>>
    BY <1>9 DEF OtherTransfer, receiver
  <2>2. Pipeline(rx_queue, driver', tx_queue', Newest, transfers)
    BY <2>1, OtherKeeps
  <2> QED BY <1>2, <1>3, <2>1, <2>2
<1>10. CASE HandleRxFrame
  <2>1. /\ rx_queue # <<>> /\ rx_queue' = Tail(rx_queue)
        /\ UNCHANGED <<tx_queue, driver, transfer_id, transfers>>
    BY <1>10 DEF HandleRxFrame, sender
  <2>2. rx_state' \in RxState
    BY <1>10, HandleKeeps
  <2>3. CASE delivered' = delivered
    <3>1. Pipeline(Tail(rx_queue), driver, tx_queue, Newest, transfers)
      BY <1>2, <2>1, Handled
    <3> QED BY <1>2, <2>1, <2>2, <2>3, <3>1 DEF Newest, DeliveredInOrder
  <2>4. CASE /\ Head(rx_queue).last
             /\ delivered' = Append(delivered, Head(rx_queue).transfer)
    BY <1>2, <2>1, <2>2, <2>4, DeliverKeeps
  <2> QED BY <1>10, <2>3, <2>4, HandleKeeps
<1>11. CASE Cleanup
  <2>1. rx_state' = NoRx /\ UNCHANGED <<tx_queue, driver, transfer_id, transfers, rx_queue, delivered>>
    BY <1>11 DEF Cleanup, sender
  <2>2. NoRx \in RxState
    BY EmptySeq DEF NoRx, RxState
  <2> QED BY <1>2, <2>1, <2>2 DEF Newest, DeliveredInOrder
<1>12. CASE \/ Silence \/ UNCHANGED tunnel \/ CanReplaceOldest
            \/ \E high_priority \in BOOLEAN : CanRouterSend(high_priority)
  BY <1>4, <1>12 DEF Silence, tunnel, CanReplaceOldest, CanRouterSend, sender, receiver
<1> QED
  BY <1>5, <1>6, <1>7, <1>8, <1>9, <1>10, <1>11, <1>12 DEF TunnelNext

LEMMA InitOrder == TunnelInit => OrderInv
<1> SUFFICES ASSUME TunnelInit PROVE OrderInv
  OBVIOUS
<1>1. /\ tx_queue = <<>> /\ driver = <<>> /\ rx_queue = <<>> /\ delivered = <<>>
      /\ transfers = 0 /\ transfer_id = 0 /\ rx_state = NoRx
  BY DEF TunnelInit
<1>2. Newest = 0
  BY <1>1 DEF Newest
<1>3. Pipeline(<<>>, <<>>, <<>>, 0, 0)
  BY NoFrame DEF Pipeline
<1>4. NoRx \in RxState
  BY NoPieces DEF NoRx, RxState
<1>5. delivered \in Seq(Nat) /\ DeliveredInOrder
  BY <1>1 DEF DeliveredInOrder
<1> QED
  BY <1>1, <1>2, <1>3, <1>4, <1>5, InitChunks DEF OrderInv

\* Whatever frames are lost, and however the units resynchronise, the other router gets
\* transfers as they were broadcast, none twice and none out of order.
THEOREM TransfersInOrder == TunnelSpec => []DeliveredInOrder
<1>1. OrderInv => DeliveredInOrder
  BY DEF OrderInv
<1> QED
  BY <1>1, InitOrder, NextOrder, PTL DEF TunnelSpec

-----------------------------------------------------------------------------
(* The receiver finds its way back.  Transfer ids are numbers modulo           *)
(* TransferIds.                                                                *)

LEMMA DivFact ==
    ASSUME NEW n \in Nat, n > 0, NEW a \in Int
    PROVE  a % n \in 0..n - 1 /\ a \div n \in Int /\ a = n * (a \div n) + (a % n)
OBVIOUS

LEMMA SmallMultiple ==
    ASSUME NEW n \in Nat, n > 0, NEW k \in Int, n * k < n, -n < n * k
    PROVE  k = 0
OBVIOUS

LEMMA ModUnique ==
    ASSUME NEW n \in Nat, n > 0, NEW q \in Int, NEW r \in 0..n - 1
    PROVE  (n * q + r) % n = r
<1> DEFINE a == n * q + r
           p == a \div n
           s == a % n
<1>1. a \in Int /\ n * q \in Int /\ p \in Int /\ s \in 0..n - 1 /\ a = n * p + s /\ n * p \in Int
  BY DivFact
<1> HIDE DEF p, s
<1>2. n * (q - p) = n * q - n * p
  BY <1>1
<1>3. n * (q - p) = s - r
  BY <1>1, <1>2
<1>4. q - p = 0
  BY <1>1, <1>3, SmallMultiple
<1>5. s = r
  BY <1>1, <1>4
<1> QED
  BY <1>5 DEF s

\* The id of the transfer that follows.
LEMMA NextId ==
    ASSUME NEW n \in Nat, n > 0, NEW a \in Int
    PROVE  ((a % n) + 1) % n = (a + 1) % n
<1> DEFINE p == a \div n
           s == a % n
           t == (s + 1) \div n
           u == (s + 1) % n
<1>1. p \in Int /\ s \in Int /\ a = n * p + s
  BY DivFact
<1> HIDE DEF p, s
<1>2. t \in Int /\ u \in 0..n - 1 /\ s + 1 = n * t + u
  BY <1>1, DivFact
<1> HIDE DEF t, u
<1>3. a + 1 = n * (p + t) + u
  <2>1. n * (p + t) = n * p + n * t
    BY <1>1, <1>2
  <2> QED BY <1>1, <1>2, <2>1
<1>4. (a + 1) % n = u
  <2>1. p + t \in Int
    BY <1>1, <1>2
  <2> QED BY <1>2, <1>3, <2>1, ModUnique
<1> QED
  BY <1>4 DEF u, s

\* A transfer that came too early is told from the next one while fewer than the number
\* of ids, less two, are missing.
LEMMA IdsApart ==
    ASSUME NEW n \in Nat, NEW a \in Int, NEW b \in Int, a < b, b - a <= n - 3
    PROVE  ((a % n) - (b % n)) % n > 1
<1> DEFINE p == a \div n
           s == a % n
           q == b \div n
           t == b % n
<1>0. n > 0
  OBVIOUS
<1>1. /\ p \in Int /\ s \in 0..n - 1 /\ a = n * p + s
      /\ q \in Int /\ t \in 0..n - 1 /\ b = n * q + t
      /\ n * p \in Int /\ n * q \in Int
  BY <1>0, DivFact
<1> HIDE DEF p, s, q, t
<1>2. s - t = n * (q - p - 1) + (n - (b - a))
  <2>1. n * (q - p - 1) = n * q - n * p - n
    BY <1>1
  <2> QED BY <1>1, <2>1
<1>3. (s - t) % n = n - (b - a)
  <2>1. q - p - 1 \in Int /\ n - (b - a) \in 0..n - 1
    BY <1>1
  <2> QED BY <1>0, <1>2, <2>1, ModUnique
<1> QED
  BY <1>3 DEF s, t

-----------------------------------------------------------------------------
(* The frames on their way, as a set. *)

Elems(q) == {q[i] : i \in 1..Len(q)}
WayOf(r, d, q) == {f \in (Elems(r) \cup Elems(d)) \cup Elems(q) : Numbered(f)}
Way == WayOf(rx_queue, driver, tx_queue)

LEMMA ElemsFacts ==
    ASSUME NEW q \in Seq(CanFrame)
    PROVE  /\ Elems(q) \subseteq CanFrame
           /\ q # <<>> => Elems(q) = {Head(q)} \cup Elems(Tail(q))
           /\ \A f \in CanFrame : Elems(Append(q, f)) = Elems(q) \cup {f}
<1>1. Elems(q) \subseteq CanFrame
  BY ElementOfSeq DEF Elems
<1>2. ASSUME q # <<>> PROVE Elems(q) = {Head(q)} \cup Elems(Tail(q))
  <2>1. /\ Len(Tail(q)) = Len(q) - 1 /\ Len(q) \in Nat /\ Len(q) > 0 /\ Head(q) = q[1]
        /\ \A i \in 1..Len(Tail(q)) : Tail(q)[i] = q[i + 1] /\ i + 1 \in 1..Len(q)
    BY <1>2, FrameTail
  <2>2. ASSUME NEW i \in 1..Len(q) PROVE q[i] = Head(q) \/ q[i] \in Elems(Tail(q))
    <3>1. CASE i = 1
      BY <2>1, <3>1
    <3>2. CASE i # 1
      <4>1. i - 1 \in 1..Len(Tail(q)) /\ Tail(q)[i - 1] = q[i]
        BY <2>1, <3>2
      <4> QED BY <4>1 DEF Elems
    <3> QED BY <3>1, <3>2
  <2>3. Head(q) \in Elems(q) /\ Elems(Tail(q)) \subseteq Elems(q)
    BY <2>1 DEF Elems
  <2> QED BY <2>2, <2>3 DEF Elems
<1>3. ASSUME NEW f \in CanFrame PROVE Elems(Append(q, f)) = Elems(q) \cup {f}
  <2> DEFINE more == Append(q, f)
  <2>1. /\ Len(more) = Len(q) + 1 /\ Len(q) \in Nat
        /\ \A i \in 1..Len(q) : more[i] = q[i]
        /\ more[Len(q) + 1] = f
    BY AppendProperties
  <2> HIDE DEF more
  <2>2. \A i \in 1..Len(more) : i \in 1..Len(q) \/ i = Len(q) + 1
    BY <2>1
  <2>3. Elems(more) = Elems(q) \cup {f}
    BY <2>1, <2>2 DEF Elems
  <2> QED BY <2>3 DEF more
<1> QED
  BY <1>1, <1>2, <1>3

LEMMA FewElems ==
    /\ Elems(<<>>) = {}
    /\ \A f \in CanFrame : Elems(<<f>>) = {f}
<1>1. Elems(<<>>) = {}
  BY EmptySeq DEF Elems
<1>2. ASSUME NEW f \in CanFrame PROVE Elems(<<f>>) = {f}
  BY OneFrame DEF Elems
<1> QED
  BY <1>1, <1>2

LEMMA PushElems ==
    ASSUME NEW q \in Seq(CanFrame), NEW f \in CanFrame
    PROVE  Elems(Push(q, f)) = Elems(q) \cup {f} /\ Push(q, f) \in Seq(CanFrame)
<1> DEFINE more == Push(q, f)
<1>1. PICK k \in Nat : Inserted(more, q, f, k)
  BY PushInserts
<1> HIDE DEF more
<1>2. /\ more \in Seq(CanFrame) /\ Len(more) = Len(q) + 1 /\ Len(q) \in Nat /\ k \in 1..Len(more)
      /\ \A j \in 1..Len(more) :
            \/ j < k /\ j \in 1..Len(q) /\ more[j] = q[j]
            \/ j = k /\ more[j] = f
            \/ j > k /\ j - 1 \in 1..Len(q) /\ more[j] = q[j - 1]
  BY <1>1 DEF Inserted
<1>3. Elems(more) \subseteq Elems(q) \cup {f}
  BY <1>2 DEF Elems
<1>4. f \in Elems(more)
  BY <1>2 DEF Elems
<1>5. ASSUME NEW i \in 1..Len(q) PROVE q[i] \in Elems(more)
  <2>1. CASE i < k
    <3>1. i \in 1..Len(more) /\ more[i] = q[i]
      BY <1>2, <2>1
    <3> QED BY <3>1 DEF Elems
  <2>2. CASE i >= k
    <3>1. i + 1 \in 1..Len(more) /\ more[i + 1] = q[i]
      BY <1>2, <2>2
    <3> QED BY <3>1 DEF Elems
  <2> QED BY <1>2, <2>1, <2>2
<1>6. Elems(q) \subseteq Elems(more)
  BY <1>5 DEF Elems
<1> QED
  BY <1>2, <1>3, <1>4, <1>6 DEF more

\* The driver takes a frame from the queue, which stays on its way.
LEMMA WayDrained ==
    ASSUME NEW q \in Seq(CanFrame), driver \in Seq(CanFrame), DrainInto(q)
    PROVE  Elems(driver') \cup Elems(tx_queue') = Elems(driver) \cup Elems(q)
<1>1. CASE q # <<>> /\ driver = <<>>
  <2>1. driver' = <<Head(q)>> /\ tx_queue' = Tail(q) /\ Head(q) \in CanFrame
    BY <1>1, FrameTail DEF DrainInto
  <2>2. Elems(driver') = {Head(q)} /\ Elems(driver) = {}
    BY <1>1, <2>1, FewElems
  <2>3. Elems(q) = {Head(q)} \cup Elems(Tail(q))
    BY <1>1, ElemsFacts
  <2> QED BY <2>1, <2>2, <2>3
<1>2. CASE ~(q # <<>> /\ driver = <<>>)
  BY <1>2 DEF DrainInto
<1> QED
  BY <1>1, <1>2

\* Of the frames on their way the one the receiver takes is the first.
LEMMA HeadIsFirst ==
    ASSUME OrderInv, rx_queue # <<>>
    PROVE  /\ Head(rx_queue) \in Way /\ Way \subseteq CanFrame
           /\ Way = {Head(rx_queue)} \cup WayOf(Tail(rx_queue), driver, tx_queue)
           /\ \A g \in WayOf(Tail(rx_queue), driver, tx_queue) : Earlier(Head(rx_queue), g)
<1> DEFINE f == Head(rx_queue)
           rest == Tail(rx_queue)
<1>1. /\ rx_queue \in Seq(CanFrame) /\ driver \in Seq(CanFrame) /\ tx_queue \in Seq(CanFrame)
      /\ Ordered(rx_queue) /\ Ahead(rx_queue, driver) /\ Ahead(rx_queue, tx_queue)
      /\ \A i \in 1..Len(rx_queue) : Numbered(rx_queue[i])
  BY DEF OrderInv, Pipeline
<1>2. /\ f = rx_queue[1] /\ 1 \in 1..Len(rx_queue) /\ Len(rx_queue) \in Nat
      /\ \A i \in 1..Len(rest) : rest[i] = rx_queue[i + 1] /\ i + 1 \in 1..Len(rx_queue)
  BY <1>1, FrameTail
<1>3. Elems(rx_queue) = {f} \cup Elems(rest) /\ Elems(rx_queue) \subseteq CanFrame
      /\ Elems(driver) \subseteq CanFrame /\ Elems(tx_queue) \subseteq CanFrame
  BY <1>1, ElemsFacts
<1> HIDE DEF f, rest
<1>4. Numbered(f)
  BY <1>1, <1>2
<1>5. ASSUME NEW g \in Elems(rest) PROVE Earlier(f, g)
  <2>1. PICK i \in 1..Len(rest) : g = rest[i]
    BY DEF Elems
  <2>2. g = rx_queue[i + 1] /\ i + 1 \in 1..Len(rx_queue) /\ 1 < i + 1
    BY <1>2, <2>1
  <2> QED BY <1>1, <1>2, <2>2 DEF Ordered
<1>6. ASSUME NEW g \in Elems(driver) \cup Elems(tx_queue) PROVE Earlier(f, g)
  BY <1>1, <1>2 DEF Elems, Ahead
<1>7. Way = {f} \cup WayOf(rest, driver, tx_queue) /\ Way \subseteq CanFrame
  BY <1>3, <1>4 DEF Way, WayOf
<1>8. \A g \in WayOf(rest, driver, tx_queue) : Earlier(f, g)
  BY <1>5, <1>6 DEF WayOf
<1> QED
  BY <1>7, <1>8 DEF f, rest

\* Frames of the tunnel as enqueueTxFrames makes them.
Lawful(f) ==
    /\ f.transfer > 0 /\ f.id = (f.transfer - 1) % TransferIds
    /\ f.index \in 1..Frames /\ f.toggle = (f.index - 1) % 2
    /\ f.last => f.index = 1 \/ f.index = Frames

\* The receiver has taken h frames of the transfer it saw last: what is on its way comes
\* after them, ...
ComesLater(h) == \A g \in Way : g.transfer > last_seen \/ (g.transfer = last_seen /\ g.index > h)

\* ... without a gap, unless a frame was lost; ...
NoGap(h) ==
    \A g \in Way : g.transfer \notin damaged =>
        \A i \in 1..g.index - 1 : \/ g.transfer = last_seen /\ i <= h
                                  \/ \E f \in Way : f.transfer = g.transfer /\ f.index = i

\* ... and if the transfer is whole and not finished, they are what is put together.
Wanted == /\ last_seen \notin damaged /\ Newest < last_seen
          /\ IdsNeverWrapped /\ last_seen - Newest < TransferIds - 1
PutTogether(h) ==
    Wanted => /\ rx_state.known /\ rx_state.fresh /\ age = 0
              /\ rx_state.transfer_id = (last_seen - 1) % TransferIds
              /\ rx_state.toggle = h % 2
              /\ rx_state.payload = [i \in 1..h |-> [transfer |-> last_seen, index |-> i]]

TakenSoFar(h) ==
    /\ last_seen > 0 => h > 0
    /\ ComesLater(h) /\ NoGap(h) /\ PutTogether(h)

\* The transfer the receiver waits for is newer than what it delivered, and not newer
\* than the next one.
Expects(e) ==
    /\ Newest < e /\ e <= last_seen + 1
    /\ rx_state.transfer_id = (e - 1) % TransferIds
    /\ e = last_seen + 1 => rx_state.toggle = 0

Tracking == rx_state.fresh /\ IdsNeverWrapped => \E e \in Nat : Expects(e)

TrackInv ==
    /\ OrderInv
    /\ last_seen \in Nat /\ last_seen <= transfers /\ age \in 0..2
    /\ transfer_id = transfers % TransferIds
    /\ \A f \in Way : Lawful(f)
    /\ rx_state.fresh => rx_state.known
    /\ Tracking
    /\ \E h \in Nat : TakenSoFar(h)

\* What may happen on the way while the receiver waits: whole transfers are added, and
\* transfers that lose a frame are damaged.
LEMMA WayChanges ==
    ASSUME TrackInv, OrderInv', UNCHANGED <<rx_state, last_seen, delivered, age>>,
           transfers <= transfers', transfer_id' = transfers' % TransferIds,
           damaged \subseteq damaged',
           \A g \in Way' : g \in Way \/ (Lawful(g) /\ g.transfer > last_seen),
           \A g \in Way' : g.transfer \notin damaged' =>
               \/ g \in Way /\ \A f \in Way : f.transfer = g.transfer => f \in Way'
               \/ \A i \in 1..g.index - 1 : \E f \in Way' : f.transfer = g.transfer /\ f.index = i
    PROVE  TrackInv'
<1>1. PICK h \in Nat : TakenSoFar(h)
  BY DEF TrackInv
<1>2. /\ last_seen > 0 => h > 0
      /\ ComesLater(h) /\ NoGap(h) /\ PutTogether(h)
  BY <1>1 DEF TakenSoFar
<1>3. ComesLater(h)'
  BY <1>2 DEF ComesLater
<1>4. NoGap(h)'
  <2> SUFFICES ASSUME NEW g \in Way', g.transfer \notin damaged', NEW i \in 1..g.index - 1
               PROVE  \/ g.transfer = last_seen /\ i <= h
                      \/ \E f \in Way' : f.transfer = g.transfer /\ f.index = i
    BY DEF NoGap
  <2>1. CASE g \in Way /\ \A f \in Way : f.transfer = g.transfer => f \in Way'
    <3>1. \/ g.transfer = last_seen /\ i <= h
          \/ \E f \in Way : f.transfer = g.transfer /\ f.index = i
      BY <1>2, <2>1 DEF NoGap
    <3> QED BY <2>1, <3>1
  <2> QED BY <2>1
<1>5. Newest' = Newest /\ (IdsNeverWrapped' <=> IdsNeverWrapped)
  BY DEF Newest, IdsNeverWrapped
<1>6. PutTogether(h)'
  BY <1>2, <1>5 DEF PutTogether, Wanted
<1>7. TakenSoFar(h)'
  BY <1>2, <1>3, <1>4, <1>6 DEF TakenSoFar
<1>8. Tracking'
  BY <1>5 DEF TrackInv, Tracking, Expects
<1>9. last_seen <= transfers'
  <2>1. transfers \in Nat /\ transfers' \in Nat /\ last_seen \in Nat /\ last_seen <= transfers
    BY DEF TrackInv, OrderInv, Pipeline
  <2> QED BY <2>1
<1>10. \A f \in Way' : Lawful(f)
  BY DEF TrackInv
<1> QED
  BY <1>7, <1>8, <1>9, <1>10 DEF TrackInv

\* The simplest case: the way stays as it is.
LEMMA SameWay ==
    ASSUME TrackInv, OrderInv',
           UNCHANGED <<rx_state, last_seen, delivered, age, transfers, transfer_id>>,
           damaged \subseteq damaged', Way' = Way
    PROVE  TrackInv'
<1>1. transfers \in Nat /\ transfer_id = transfers % TransferIds
  BY DEF TrackInv, OrderInv, Pipeline
<1>2. transfers <= transfers' /\ transfer_id' = transfers' % TransferIds
  BY <1>1
<1> QED
  BY <1>2, WayChanges

LEMMA BroadcastTracks ==
    ASSUME TrackInv, OrderInv', TxIdle, NEW priority \in {"high", "medium", "low"},
           NEW count \in {1, Frames}, BroadcastTargetted(priority, count),
           UNCHANGED <<rx_queue, rx_state, last_seen, delivered, age, damaged>>
    PROVE  TrackInv'
<1> DEFINE frames == CanFrames(transfers + 1, transfer_id, priority, count)
<1>1. /\ transfer_id \in Nat /\ tx_queue = <<>> /\ transfers \in Nat
      /\ transfer_id = transfers % TransferIds /\ last_seen \in Nat /\ last_seen <= transfers
      /\ TransferIds \in Nat /\ TransferIds > 0
      /\ rx_queue \in Seq(CanFrame) /\ driver \in Seq(CanFrame)
  BY TunnelAssumption DEF TrackInv, OrderInv, TxIdle, Pipeline
<1>2. count \in Nat \ {0} /\ count \in 1..Frames
  BY TunnelAssumption
<1>3. FramesOf(frames, transfers + 1, transfer_id, priority, count)
  <2>1. transfers + 1 \in Nat
    BY <1>1
  <2> QED BY <1>1, <1>2, <2>1, CanFramesFacts
<1>4. transfers' = transfers + 1 /\ transfer_id' = (transfer_id + 1) % TransferIds
      /\ DrainInto(Enqueued(<<>>, frames))
  BY <1>1 DEF BroadcastTargetted
<1> HIDE DEF frames
<1>5. Enqueued(<<>>, frames) = frames
  <2>1. frames \in Seq(CanFrame) /\ \A i \in 1..Len(frames) : frames[i].priority = priority
    BY <1>3 DEF FramesOf
  <2> QED BY <2>1, EnqueuedAlone
<1>6. /\ frames \in Seq(CanFrame) /\ Len(frames) = count
      /\ \A i \in 1..count :
           /\ frames[i].transfer = transfers + 1 /\ frames[i].id = transfer_id
           /\ frames[i].index = i /\ frames[i].toggle = (i - 1) % 2
           /\ frames[i].last <=> i = count
  BY <1>3 DEF FramesOf
<1>7. Elems(driver') \cup Elems(tx_queue') = Elems(driver) \cup Elems(frames)
  BY <1>1, <1>4, <1>5, <1>6, WayDrained
<1>8. Elems(tx_queue) = {}
  BY <1>1, FewElems
<1>9. Way' = Way \cup Elems(frames)
  <2>1. \A f \in Elems(frames) : Numbered(f)
    BY <1>1, <1>6 DEF Elems, Numbered
  <2> QED BY <1>7, <1>8, <2>1 DEF Way, WayOf
<1>10. ASSUME NEW i \in 1..count PROVE Lawful(frames[i]) /\ frames[i].transfer > last_seen
  <2>1. frames[i].transfer = transfers + 1 /\ frames[i].transfer - 1 = transfers
        /\ frames[i].id = transfers % TransferIds
    BY <1>1, <1>6
  <2>2. frames[i].transfer > 0 /\ frames[i].transfer > last_seen
    BY <1>1, <2>1
  <2>3. frames[i].index \in 1..Frames /\ frames[i].toggle = (frames[i].index - 1) % 2
    BY <1>2, <1>6, TunnelAssumption
  <2>4. frames[i].last => frames[i].index = 1 \/ frames[i].index = Frames
    BY <1>6
  <2> QED BY <2>1, <2>2, <2>3, <2>4 DEF Lawful
<1>11. \A g \in Way' : g \in Way \/ (Lawful(g) /\ g.transfer > last_seen)
  BY <1>6, <1>9, <1>10 DEF Elems
<1>12. ASSUME NEW g \in Way'
       PROVE  \/ g \in Way /\ \A f \in Way : f.transfer = g.transfer => f \in Way'
              \/ \A i \in 1..g.index - 1 : \E f \in Way' : f.transfer = g.transfer /\ f.index = i
  <2>1. CASE g \in Way
    BY <1>9, <2>1
  <2>2. CASE g \in Elems(frames)
    <3>1. PICK k \in 1..count : g = frames[k]
      BY <1>6, <2>2 DEF Elems
    <3>2. ASSUME NEW i \in 1..g.index - 1
          PROVE  \E f \in Way' : f.transfer = g.transfer /\ f.index = i
      <4>1. g.index = k /\ i \in 1..count
        BY <1>2, <1>6, <3>1, <3>2
      <4>2. frames[i] \in Way' /\ frames[i].transfer = g.transfer /\ frames[i].index = i
        BY <1>6, <1>9, <3>1, <4>1 DEF Elems
      <4> QED BY <4>2
    <3> QED BY <3>2
  <2> QED BY <1>9, <2>1, <2>2
<1>13. transfer_id' = transfers' % TransferIds /\ transfers <= transfers'
  <2>1. ((transfers % TransferIds) + 1) % TransferIds = (transfers + 1) % TransferIds
    <3>1. transfers \in Int /\ TransferIds \in Nat /\ TransferIds > 0
      BY <1>1
    <3> QED BY <3>1, NextId
  <2> QED BY <1>1, <1>4, <2>1
<1> QED
  BY <1>11, <1>12, <1>13, WayChanges

\* The frame on the bus is lost, or the other unit queues it.
LEMMA BusTracks ==
    ASSUME TrackInv, OrderInv', TxDone
    PROVE  TrackInv'
<1> DEFINE f == driver[1]
<1>1. /\ driver # <<>> /\ driver' = <<>>
      /\ UNCHANGED <<tx_queue, transfer_id, transfers, rx_state, age, delivered, last_seen>>
      /\ \/ f.transfer = 0 /\ rx_queue' = rx_queue /\ damaged' = damaged
         \/ f.transfer # 0 /\ rx_queue' = rx_queue /\ damaged' = damaged \cup {f.transfer}
         \/ f.transfer # 0 /\ rx_queue' = Append(rx_queue, f) /\ damaged' = damaged
  BY DEF TxDone
<1>2. /\ rx_queue \in Seq(CanFrame) /\ driver \in Seq(CanFrame) /\ Len(driver) <= 1
      /\ transfers \in Nat /\ transfer_id = transfers % TransferIds
  BY DEF TrackInv, OrderInv, Pipeline
<1>3. f \in CanFrame /\ Elems(driver) = {f}
  <2>1. driver # <<>>
    BY DEF TxDone
  <2>2. Len(driver) = 1
    <3>1. driver \in Seq(CanFrame) /\ Len(driver) <= 1
      BY <1>2
    <3>2. Len(driver) \in Nat /\ Len(driver) # 0
      BY <2>1, <3>1, EmptySeq
    <3> QED BY <3>1, <3>2
  <2>3. 1 \in 1..Len(driver) /\ \A i \in 1..Len(driver) : i = 1
    BY <2>2
  <2>4. f \in CanFrame
    BY <1>2, <2>3, ElementOfSeq
  <2> QED BY <2>3, <2>4 DEF Elems
<1>4. Elems(driver') = {}
  BY <1>1, FewElems
<1> HIDE DEF f
<1>5. CASE f.transfer = 0 /\ rx_queue' = rx_queue /\ damaged' = damaged
  <2>1. Way' = Way
    BY <1>1, <1>3, <1>4, <1>5 DEF Way, WayOf, Numbered
  <2> QED BY <1>1, <1>5, <2>1, SameWay
<1>6. CASE f.transfer # 0 /\ rx_queue' = Append(rx_queue, f) /\ damaged' = damaged
  <2>1. Elems(rx_queue') = Elems(rx_queue) \cup {f}
    BY <1>2, <1>3, <1>6, ElemsFacts
  <2>2. Way' = Way
    BY <1>1, <1>3, <1>4, <2>1 DEF Way, WayOf
  <2> QED BY <1>1, <1>6, <2>2, SameWay
<1>7. CASE f.transfer # 0 /\ rx_queue' = rx_queue /\ damaged' = damaged \cup {f.transfer}
  <2>1. Way' \subseteq Way /\ \A g \in Way : g \in Way' \/ g.transfer \in damaged'
    BY <1>1, <1>3, <1>4, <1>7 DEF Way, WayOf
  <2>2. transfers <= transfers' /\ transfer_id' = transfers' % TransferIds
    BY <1>1, <1>2
  <2> QED BY <1>1, <1>7, <2>1, <2>2, WayChanges
<1> QED
  BY <1>1, <1>5, <1>6, <1>7

\* The receiver takes a frame.
LEMMA TakesNext ==
    ASSUME TrackInv, HandleRxFrame, NEW h \in Nat, TakenSoFar(h),
           NEW frame, frame = Head(rx_queue)
    PROVE  /\ frame \in CanFrame /\ Lawful(frame) /\ Newest < frame.transfer
           /\ last_seen <= frame.transfer /\ frame.transfer <= transfers
           /\ frame.index = 1 => last_seen < frame.transfer
           /\ frame.transfer \notin damaged =>
                  \/ frame.index = 1
                  \/ frame.transfer = last_seen /\ frame.index = h + 1 /\ h > 0
           /\ ComesLater(frame.index)' /\ NoGap(frame.index)'
           /\ Way' \subseteq Way
<1> DEFINE t == frame.transfer
<1>1. /\ rx_queue # <<>> /\ rx_queue' = Tail(rx_queue) /\ last_seen' = t
      /\ UNCHANGED <<driver, tx_queue, damaged, transfers>>
  BY DEF HandleRxFrame, sender
<1>2. /\ frame \in Way /\ frame \in CanFrame /\ Way \subseteq CanFrame
      /\ Way = {frame} \cup Way' /\ \A g \in Way' : Earlier(frame, g)
  BY <1>1, HeadIsFirst DEF TrackInv, Way
<1>3. Lawful(frame) /\ Newest < t /\ t <= transfers
  BY <1>1, <1>2, Handled DEF TrackInv, OrderInv, Pipeline, Newer
<1>4. /\ t \in Nat /\ frame.index \in Nat /\ frame.index > 0 /\ last_seen \in Nat
      /\ \A g \in Way : g.transfer \in Nat /\ g.index \in Nat /\ g.index > 0
  <2>1. \A g \in Way : Lawful(g)
    BY DEF TrackInv
  <2> QED BY <1>2, <2>1 DEF Lawful, CanFrame, TrackInv
<1>5. /\ last_seen > 0 => h > 0
      /\ ComesLater(h) /\ NoGap(h)
  BY DEF TakenSoFar
<1>6. t > last_seen \/ (t = last_seen /\ frame.index > h)
  BY <1>2, <1>5 DEF ComesLater
<1>7. last_seen <= t /\ (frame.index = 1 => last_seen < t)
  <2>1. t > 0
    BY <1>3 DEF Lawful
  <2> QED BY <1>4, <1>5, <1>6, <2>1
<1>8. \A g \in Way' : /\ Numbered(g) /\ Numbered(frame)
                      /\ t < g.transfer \/ (t = g.transfer /\ frame.index < g.index)
  <2>1. \A g \in Way : Numbered(g)
    BY DEF Way, WayOf
  <2> QED BY <1>2, <2>1 DEF Earlier
<1>9. ComesLater(frame.index)'
  BY <1>1, <1>2, <1>4, <1>8 DEF ComesLater
<1>10. NoGap(frame.index)'
  <2> SUFFICES ASSUME NEW g \in Way', g.transfer \notin damaged, NEW i \in 1..g.index - 1
               PROVE  \/ g.transfer = t /\ i <= frame.index
                      \/ \E f \in Way' : f.transfer = g.transfer /\ f.index = i
    BY <1>1 DEF NoGap
  <2>1. g \in Way
    BY <1>2
  <2>2. CASE g.transfer = last_seen /\ i <= h
    BY <1>4, <1>6, <1>8, <2>1, <2>2
  <2>3. CASE \E f \in Way : f.transfer = g.transfer /\ f.index = i
    BY <1>2, <1>4, <2>3
  <2> QED BY <1>5, <2>1, <2>2, <2>3 DEF NoGap
<1>11. ASSUME t \notin damaged, frame.index # 1
       PROVE  t = last_seen /\ frame.index = h + 1 /\ h > 0
  <2>1. ASSUME NEW i \in 1..frame.index - 1 PROVE t = last_seen /\ i <= h
    <3>1. ASSUME NEW f \in Way, f.transfer = t, f.index = i PROVE FALSE
      <4>1. f = frame \/ f \in Way'
        BY <1>2
      <4> QED BY <1>4, <1>8, <2>1, <3>1, <4>1
    <3> QED BY <1>2, <1>5, <1>11, <3>1 DEF NoGap
  <2>2. frame.index - 1 \in 1..frame.index - 1
    BY <1>4, <1>11
  <2>3. t = last_seen /\ frame.index - 1 <= h
    BY <2>1, <2>2
  <2> QED BY <1>4, <1>6, <2>2, <2>3
<1> QED
  BY <1>2, <1>3, <1>7, <1>9, <1>10, <1>11

\* The parts of canardHandleRxFrame.
KnownState == IF rx_state.known THEN rx_state ELSE [NoRx EXCEPT !.known = TRUE]
StateFor(frame) ==
    IF NeedRestart(frame)
    THEN [KnownState EXCEPT !.transfer_id = frame.id, !.toggle = 0, !.payload = <<>>]
    ELSE KnownState
PieceOf(frame) == [transfer |-> frame.transfer, index |-> frame.index]
PayloadWith(frame) ==
    IF frame.index = 1 THEN <<PieceOf(frame)>> ELSE Append(StateFor(frame).payload, PieceOf(frame))
StoredWith(frame) ==
    [StateFor(frame) EXCEPT !.payload = PayloadWith(frame), !.fresh = (frame.index = 1) \/ @]
Fits(frame) == frame.toggle = StateFor(frame).toggle /\ frame.id = StateFor(frame).transfer_id

Missed(frame) ==
    /\ frame.index # 1 /\ delivered' = delivered
    /\ \/ ~rx_state.known /\ rx_state' = rx_state
       \/ /\ NeedRestart(frame)
          /\ rx_state' = [StateFor(frame) EXCEPT !.transfer_id = (@ + 1) % TransferIds]
Single(frame) ==
    /\ frame.index = 1 /\ frame.last /\ age' = 0
    /\ rx_state' = Prepared([StoredWith(frame) EXCEPT !.fresh = TRUE])
    /\ delivered' = Append(delivered, frame.transfer)
Opens(frame) ==
    /\ frame.index = 1 /\ ~frame.last /\ delivered' = delivered
    /\ \/ ~Fits(frame) /\ rx_state' = StateFor(frame)
       \/ /\ Fits(frame) /\ age' = 0
          /\ rx_state' = [StoredWith(frame) EXCEPT !.toggle = 1 - @]
Continues(frame) ==
    /\ frame.index # 1 /\ rx_state.known /\ ~NeedRestart(frame) /\ age' = age
    /\ \/ ~Fits(frame) /\ rx_state' = StateFor(frame) /\ delivered' = delivered
       \/ /\ Fits(frame) /\ ~frame.last /\ delivered' = delivered
          /\ rx_state' = [StoredWith(frame) EXCEPT !.toggle = 1 - @]
       \/ /\ Fits(frame) /\ frame.last /\ rx_state' = Prepared(StoredWith(frame))
          /\ \/ /\ CrcMatches(PayloadWith(frame))
                /\ delivered' = Append(delivered, Content(PayloadWith(frame)))
             \/ ~CrcMatches(PayloadWith(frame)) /\ delivered' = delivered

LEMMA HandleCases ==
    ASSUME HandleRxFrame, NEW frame, frame = Head(rx_queue)
    PROVE  /\ Missed(frame) \/ Single(frame) \/ Opens(frame) \/ Continues(frame)
           /\ age' \in {0, age}
           /\ last_seen' = frame.transfer
           /\ UNCHANGED <<damaged, transfers, transfer_id>>
BY DEF HandleRxFrame, Missed, Single, Opens, Continues, KnownState, StateFor, PieceOf, PayloadWith,
       StoredWith, Fits, Received, Ignored, sender

\* What a restart of the reassembly, or none, makes of its state.
LEMMA StateFacts ==
    ASSUME TrackInv, NEW frame \in CanFrame
    PROVE  /\ StateFor(frame) \in RxState /\ StateFor(frame).known
           /\ NeedRestart(frame) =>
                  /\ StateFor(frame).transfer_id = frame.id /\ StateFor(frame).toggle = 0
                  /\ StateFor(frame).payload = <<>>
           /\ ~NeedRestart(frame) =>
                  StateFor(frame) = rx_state /\ rx_state.fresh /\ rx_state.known /\ age # 2
<1>1. rx_state \in RxState /\ (rx_state.fresh => rx_state.known)
  BY DEF TrackInv, OrderInv
<1>2. KnownState \in RxState /\ KnownState.known
  <2>1. NoRx \in RxState
    BY NoPieces DEF NoRx, RxState
  <2>2. [NoRx EXCEPT !.known = TRUE] \in RxState /\ [NoRx EXCEPT !.known = TRUE].known
    BY <2>1 DEF RxState
  <2>3. CASE rx_state.known
    BY <1>1, <2>3 DEF KnownState
  <2>4. CASE ~rx_state.known
    BY <2>2, <2>4 DEF KnownState
  <2> QED BY <2>3, <2>4
<1>3. CASE NeedRestart(frame)
  <2> DEFINE state == [KnownState EXCEPT !.transfer_id = frame.id, !.toggle = 0, !.payload = <<>>]
  <2>1. StateFor(frame) = state
    BY <1>3 DEF StateFor
  <2>2. frame.id \in Nat
    BY DEF CanFrame
  <2>3. /\ state \in RxState /\ state.known
        /\ state.transfer_id = frame.id /\ state.toggle = 0 /\ state.payload = <<>>
    <3>1. state \in RxState
      BY <1>2, <2>2, NoPieces, RxStateUpdates
    <3>2. state.known
      BY <1>2 DEF RxState
    <3>3. state.transfer_id = frame.id /\ state.toggle = 0 /\ state.payload = <<>>
      BY <1>2 DEF RxState
    <3> QED BY <3>1, <3>2, <3>3
  <2> QED BY <1>3, <2>1, <2>3
<1>4. CASE ~NeedRestart(frame)
  <2>1. rx_state.fresh /\ age # 2
    BY <1>4 DEF NeedRestart
  <2>2. StateFor(frame) = rx_state
    BY <1>1, <1>4, <2>1 DEF StateFor, KnownState
  <2> QED BY <1>1, <1>4, <2>1, <2>2
<1> QED
  BY <1>3, <1>4

LEMMA StoredFacts ==
    ASSUME TrackInv, NEW frame \in CanFrame
    PROVE  /\ PayloadWith(frame) \in Seq(Piece) /\ StoredWith(frame) \in RxState
           /\ StoredWith(frame).known
           /\ StoredWith(frame).transfer_id = StateFor(frame).transfer_id
           /\ StoredWith(frame).toggle = StateFor(frame).toggle
           /\ StoredWith(frame).payload = PayloadWith(frame)
           /\ StoredWith(frame).fresh <=> frame.index = 1 \/ StateFor(frame).fresh
<1>1. StateFor(frame) \in RxState /\ StateFor(frame).known /\ StateFor(frame).payload \in Seq(Piece)
  BY StateFacts DEF RxState
<1>2. PieceOf(frame) \in Piece
  BY DEF PieceOf, Piece, CanFrame
<1>3. PayloadWith(frame) \in Seq(Piece)
  BY <1>1, <1>2, AppendProperties DEF PayloadWith
<1> QED
  BY <1>1, <1>3 DEF StoredWith, RxState

\* A transfer that was delivered leaves nothing to put together.
LEMMA DeliveredLast ==
    ASSUME TrackInv, NEW t \in Nat, Newest < t, delivered' = Append(delivered, t)
    PROVE  /\ Newest' = t
           /\ IdsNeverWrapped' => IdsNeverWrapped /\ t - Newest < TransferIds - 1
<1>1. /\ delivered \in Seq(Nat) /\ Len(delivered) \in Nat
      /\ delivered' \in Seq(Nat) /\ Len(delivered') = Len(delivered) + 1
      /\ delivered'[Len(delivered) + 1] = t
      /\ \A i \in 1..Len(delivered) : delivered'[i] = delivered[i]
  BY AppendProperties DEF TrackInv, OrderInv
<1>2. Newest' = t
  <2>1. delivered' # <<>>
    BY <1>1, EmptySeq
  <2> QED BY <1>1, <2>1 DEF Newest
<1>3. ASSUME IdsNeverWrapped' PROVE IdsNeverWrapped /\ t - Newest < TransferIds - 1
  <2>1. DOMAIN delivered' = 1..Len(delivered) + 1 /\ DOMAIN delivered = 1..Len(delivered)
    BY <1>1, LenProperties
  <2>2. \A i \in 1..Len(delivered) + 1 :
           delivered'[i] - (IF i = 1 THEN 0 ELSE delivered'[i - 1]) < TransferIds - 1
    BY <1>3, <2>1 DEF IdsNeverWrapped
  <2>3. IdsNeverWrapped
    <3> SUFFICES ASSUME NEW i \in 1..Len(delivered)
                 PROVE  delivered[i] - (IF i = 1 THEN 0 ELSE delivered[i - 1]) < TransferIds - 1
      BY <2>1 DEF IdsNeverWrapped
    <3>1. delivered'[i] - (IF i = 1 THEN 0 ELSE delivered'[i - 1]) < TransferIds - 1
      BY <1>1, <2>2
    <3>2. i # 1 => i - 1 \in 1..Len(delivered)
      BY <1>1
    <3> QED BY <1>1, <3>1, <3>2
  <2>4. t - Newest < TransferIds - 1
    <3> DEFINE last == Len(delivered) + 1
    <3>1. delivered'[last] - (IF last = 1 THEN 0 ELSE delivered'[last - 1]) < TransferIds - 1
      BY <1>1, <2>2
    <3>2. CASE delivered = <<>>
      BY <1>1, <3>1, <3>2, EmptySeq DEF Newest
    <3>3. CASE delivered # <<>>
      <4>1. Len(delivered) > 0
        BY <3>3, <1>1, EmptySeq
      <4> QED BY <1>1, <3>1, <3>3, <4>1 DEF Newest
    <3> QED BY <3>2, <3>3
  <2> QED BY <2>3, <2>4
<1> QED
  BY <1>2, <1>3

\* The id after the one of a transfer is that of the next.
LEMMA IdAfter ==
    ASSUME NEW f, Lawful(f), f.transfer \in Nat
    PROVE  (f.id + 1) % TransferIds = (f.transfer + 1 - 1) % TransferIds
<1>1. f.transfer - 1 \in Int /\ TransferIds \in Nat /\ TransferIds > 0
  BY TunnelAssumption
<1>2. (((f.transfer - 1) % TransferIds) + 1) % TransferIds = (f.transfer - 1 + 1) % TransferIds
  BY <1>1, NextId
<1>3. f.transfer - 1 + 1 = f.transfer + 1 - 1
  BY <1>1
<1> QED
  BY <1>2, <1>3 DEF Lawful

\* Without a restart the transfer that begins is the expected one, unless too many were
\* lost before it.
LEMMA ExpectedBegins ==
    ASSUME TrackInv, NEW e \in Nat, Expects(e), NEW f \in CanFrame, Lawful(f), f.index = 1,
           last_seen < f.transfer, f.transfer - Newest < TransferIds - 1, ~NeedRestart(f)
    PROVE  e = f.transfer /\ e = last_seen + 1
<1>1. /\ e \in Nat /\ f.transfer \in Nat /\ last_seen \in Nat /\ Newest \in Nat
      /\ TransferIds \in Nat /\ TransferIds > 2
      /\ Newest < e /\ e <= last_seen + 1
  BY TunnelAssumption DEF TrackInv, OrderInv, Pipeline, Expects, CanFrame
<1>2. e <= f.transfer
  BY <1>1
<1>3. ASSUME e # f.transfer PROVE FALSE
  <2>1. /\ e - 1 \in Int /\ f.transfer - 1 \in Int /\ e - 1 < f.transfer - 1
        /\ f.transfer - 1 - (e - 1) <= TransferIds - 3
    BY <1>1, <1>2, <1>3
  <2>2. (((e - 1) % TransferIds) - ((f.transfer - 1) % TransferIds)) % TransferIds > 1
    BY <1>1, <2>1, IdsApart
  <2>3. Distance(rx_state.transfer_id, f.id) > 1
    BY <2>2 DEF Distance, Expects, Lawful
  <2> QED BY <2>3 DEF NeedRestart
<1> QED
  BY <1>1, <1>2, <1>3

LEMMA MorePieces ==
    ASSUME NEW h \in Nat, NEW t
    PROVE  Append([i \in 1..h |-> [transfer |-> t, index |-> i]], [transfer |-> t, index |-> h + 1])
             = [i \in 1..h + 1 |-> [transfer |-> t, index |-> i]]
<1> DEFINE P(i) == [transfer |-> t, index |-> i]
           old == [i \in 1..h |-> P(i)]
           new == [i \in 1..h + 1 |-> P(i)]
           S == {P(i) : i \in 1..h + 1}
<1> HIDE DEF P
<1>0. \A i \in 1..h : P(i) \in S
  <2>1. \A i \in 1..h : i \in 1..h + 1
    OBVIOUS
  <2> QED BY <2>1
<1> HIDE DEF S
<1>1. old \in Seq(S) /\ Len(old) = h /\ \A i \in 1..h : old[i] = P(i)
  BY <1>0
<1>2. new \in Seq(S) /\ Len(new) = h + 1 /\ \A i \in 1..h + 1 : new[i] = P(i)
  BY DEF S
<1>3. P(h + 1) \in S
  BY DEF S
<1> HIDE DEF old, new
<1>4. /\ Append(old, P(h + 1)) \in Seq(S)
      /\ Len(Append(old, P(h + 1))) = h + 1
      /\ \A i \in 1..h : Append(old, P(h + 1))[i] = P(i)
      /\ Append(old, P(h + 1))[h + 1] = P(h + 1)
  BY <1>1, <1>3, AppendProperties
<1>5. \A i \in 1..h + 1 : Append(old, P(h + 1))[i] = new[i]
  BY <1>2, <1>4
<1>6. Append(old, P(h + 1)) = new
  BY <1>2, <1>4, <1>5, SeqEqual
<1> QED
  BY <1>6 DEF P, old, new

\* A later frame of a transfer that is whole so far is the one that is wanted.
LEMMA WantedFrame ==
    ASSUME TrackInv, HandleRxFrame, NEW h \in Nat, TakenSoFar(h),
           NEW frame, frame = Head(rx_queue), frame.index # 1, frame.transfer \notin damaged,
           IdsNeverWrapped, frame.transfer - Newest < TransferIds - 1
    PROVE  /\ frame.transfer = last_seen /\ frame.index = h + 1
           /\ rx_state.known /\ rx_state.fresh /\ age = 0
           /\ ~NeedRestart(frame) /\ Fits(frame)
           /\ PayloadWith(frame)
                = [i \in 1..frame.index |-> [transfer |-> frame.transfer, index |-> i]]
<1>1. /\ frame \in CanFrame /\ Lawful(frame) /\ Newest < frame.transfer
      /\ frame.transfer = last_seen /\ frame.index = h + 1
  BY TakesNext
<1>2. Wanted
  BY <1>1 DEF Wanted
<1>3. /\ rx_state.known /\ rx_state.fresh /\ age = 0
      /\ rx_state.transfer_id = (last_seen - 1) % TransferIds /\ rx_state.toggle = h % 2
      /\ rx_state.payload = [i \in 1..h |-> [transfer |-> last_seen, index |-> i]]
  BY <1>2 DEF TakenSoFar, PutTogether
<1>4. ~NeedRestart(frame)
  BY <1>3 DEF NeedRestart
<1>5. StateFor(frame) = rx_state
  BY <1>1, <1>4, StateFacts
<1>6. Fits(frame)
  <2>1. frame.toggle = h % 2
    BY <1>1 DEF Lawful
  <2> QED BY <1>1, <1>3, <1>5, <2>1 DEF Fits, Lawful
<1>7. PayloadWith(frame) = Append(rx_state.payload, PieceOf(frame))
  BY <1>5 DEF PayloadWith
<1>8. PayloadWith(frame) = [i \in 1..h + 1 |-> [transfer |-> last_seen, index |-> i]]
  BY <1>1, <1>3, <1>7, MorePieces DEF PieceOf
<1> QED
  BY <1>1, <1>3, <1>4, <1>6, <1>8

\* All frames of a transfer put together have its CRC.
LEMMA WholeMatches ==
    ASSUME NEW frame \in CanFrame, Lawful(frame), frame.last, frame.index # 1,
           NEW payload,
           payload = [i \in 1..frame.index |-> [transfer |-> frame.transfer, index |-> i]]
    PROVE  CrcMatches(payload) /\ Content(payload) = frame.transfer
<1>1. frame.index = Frames /\ frame.transfer # 0 /\ 1 \in 1..Frames
  BY TunnelAssumption DEF Lawful, CanFrame
<1>2. payload[1].transfer = frame.transfer
  BY <1>1
<1> QED
  BY <1>1, <1>2 DEF CrcMatches, Content

LEMMA SingleTracks ==
    ASSUME TrackInv, HandleRxFrame, NEW h \in Nat, TakenSoFar(h),
           NEW frame, frame = Head(rx_queue), Single(frame)
    PROVE  Tracking' /\ PutTogether(frame.index)'
<1>1. /\ frame \in CanFrame /\ Lawful(frame) /\ Newest < frame.transfer /\ frame.transfer \in Nat
      /\ last_seen < frame.transfer /\ last_seen' = frame.transfer
      /\ frame.index = 1
      /\ delivered' = Append(delivered, frame.transfer)
  BY TakesNext, HandleCases DEF Single, CanFrame
<1>2. /\ Newest' = frame.transfer
      /\ IdsNeverWrapped' => IdsNeverWrapped /\ frame.transfer - Newest < TransferIds - 1
  BY <1>1, DeliveredLast
<1>3. PutTogether(frame.index)'
  BY <1>1, <1>2 DEF PutTogether, Wanted
<1>4. ASSUME IdsNeverWrapped' PROVE \E e \in Nat : Expects(e)'
  <2>1. StateFor(frame).transfer_id = frame.id
    <3>1. CASE NeedRestart(frame)
      BY <1>1, <3>1, StateFacts
    <3>2. CASE ~NeedRestart(frame)
      <4>1. StateFor(frame) = rx_state /\ rx_state.fresh
        BY <1>1, <3>2, StateFacts
      <4>2. PICK e \in Nat : Expects(e)
        BY <1>2, <1>4, <4>1 DEF TrackInv, Tracking
      <4>3. e = frame.transfer
        BY <1>1, <1>2, <1>4, <3>2, <4>2, ExpectedBegins
      <4> QED BY <1>1, <4>1, <4>2, <4>3 DEF Expects, Lawful
    <3> QED BY <3>1, <3>2
  <2>2. StoredWith(frame) \in RxState /\ StoredWith(frame).transfer_id = frame.id
    BY <1>1, <2>1, StoredFacts
  <2>3. rx_state'.transfer_id = (frame.id + 1) % TransferIds /\ rx_state'.toggle = 0
    BY <2>2 DEF Single, Prepared, RxState
  <2>4. rx_state'.transfer_id = (frame.transfer + 1 - 1) % TransferIds
    BY <1>1, <2>3, IdAfter
  <2>5. Expects(frame.transfer + 1)'
    BY <1>1, <1>2, <2>3, <2>4 DEF Expects
  <2> QED BY <1>1, <2>5
<1> QED
  BY <1>3, <1>4 DEF Tracking

LEMMA OpensTracks ==
    ASSUME TrackInv, HandleRxFrame, NEW h \in Nat, TakenSoFar(h),
           NEW frame, frame = Head(rx_queue), Opens(frame)
    PROVE  Tracking' /\ PutTogether(frame.index)'
<1>1. /\ frame \in CanFrame /\ Lawful(frame) /\ Newest < frame.transfer /\ frame.transfer \in Nat
      /\ last_seen < frame.transfer /\ last_seen' = frame.transfer /\ last_seen \in Nat
      /\ frame.index = 1 /\ damaged' = damaged
  BY TakesNext, HandleCases DEF Opens, CanFrame, TrackInv
<1>2. Newest' = Newest /\ (IdsNeverWrapped' <=> IdsNeverWrapped)
  BY DEF Opens, Newest, IdsNeverWrapped
<1>3. frame.toggle = 0 /\ frame.id = (frame.transfer - 1) % TransferIds
  BY <1>1 DEF Lawful
<1>4. CASE Fits(frame) /\ age' = 0 /\ rx_state' = [StoredWith(frame) EXCEPT !.toggle = 1 - @]
  <2>1. /\ StoredWith(frame) \in RxState /\ StoredWith(frame).known /\ StoredWith(frame).fresh
        /\ StoredWith(frame).transfer_id = frame.id /\ StoredWith(frame).toggle = 0
        /\ StoredWith(frame).payload = PayloadWith(frame)
    BY <1>1, <1>3, <1>4, StoredFacts DEF Fits
  <2>2. /\ rx_state'.known /\ rx_state'.fresh /\ rx_state'.transfer_id = frame.id
        /\ rx_state'.toggle = 1 /\ rx_state'.payload = PayloadWith(frame)
    BY <1>4, <2>1 DEF RxState
  <2>3. PayloadWith(frame) = [i \in 1..1 |-> [transfer |-> frame.transfer, index |-> i]]
    <3>1. PayloadWith(frame) = <<[transfer |-> frame.transfer, index |-> 1]>>
      BY <1>1 DEF PayloadWith, PieceOf
    <3> QED BY <3>1
  <2>4. PutTogether(frame.index)'
    <3>1. 1 % 2 = 1
      OBVIOUS
    <3> QED BY <1>1, <1>3, <1>4, <2>2, <2>3, <3>1 DEF PutTogether
  <2>5. Expects(frame.transfer)'
    BY <1>1, <1>2, <1>3, <2>2 DEF Expects
  <2> QED BY <1>1, <2>4, <2>5 DEF Tracking
<1>5. CASE ~Fits(frame) /\ rx_state' = StateFor(frame)
  <2>1. ~NeedRestart(frame)
    BY <1>1, <1>3, <1>5, StateFacts DEF Fits
  <2>2. rx_state' = rx_state /\ StateFor(frame) = rx_state /\ rx_state.fresh
    BY <1>1, <1>5, <2>1, StateFacts
  <2>3. Tracking'
    <3> SUFFICES ASSUME IdsNeverWrapped PROVE \E e \in Nat : Expects(e)'
      BY <1>2 DEF Tracking
    <3>1. PICK e \in Nat : Expects(e)
      BY <2>2 DEF TrackInv, Tracking
    <3>2. Expects(e)'
      BY <1>1, <1>2, <2>2, <3>1 DEF Expects
    <3> QED BY <3>2
  <2>4. PutTogether(frame.index)'
    <3> SUFFICES ASSUME Wanted' PROVE FALSE
      BY DEF PutTogether
    <3>1. IdsNeverWrapped /\ frame.transfer - Newest < TransferIds - 1
      BY <1>1, <1>2 DEF Wanted
    <3>2. PICK e \in Nat : Expects(e)
      BY <2>2, <3>1 DEF TrackInv, Tracking
    <3>3. e = frame.transfer /\ e = last_seen + 1
      BY <1>1, <2>1, <3>1, <3>2, ExpectedBegins
    <3>4. Fits(frame)
      BY <1>3, <2>2, <3>2, <3>3 DEF Fits, Expects
    <3> QED BY <1>5, <3>4
  <2> QED BY <2>3, <2>4
<1> QED
  BY <1>4, <1>5 DEF Opens

LEMMA MissedTracks ==
    ASSUME TrackInv, HandleRxFrame, NEW h \in Nat, TakenSoFar(h),
           NEW frame, frame = Head(rx_queue), Missed(frame)
    PROVE  Tracking' /\ PutTogether(frame.index)'
<1>1. /\ frame \in CanFrame /\ Lawful(frame) /\ Newest < frame.transfer /\ frame.transfer \in Nat
      /\ last_seen' = frame.transfer /\ damaged' = damaged /\ frame.index # 1
  BY TakesNext, HandleCases DEF Missed, CanFrame
<1>2. Newest' = Newest /\ (IdsNeverWrapped' <=> IdsNeverWrapped)
  BY DEF Missed, Newest, IdsNeverWrapped
<1>3. PutTogether(frame.index)'
  <2> SUFFICES ASSUME Wanted' PROVE FALSE
    BY DEF PutTogether
  <2>1. rx_state.known /\ ~NeedRestart(frame)
    BY <1>1, <1>2, WantedFrame DEF Wanted
  <2> QED BY <2>1 DEF Missed
<1>4. CASE ~rx_state.known /\ rx_state' = rx_state
  BY <1>3, <1>4 DEF TrackInv, Tracking
<1>5. CASE /\ NeedRestart(frame)
           /\ rx_state' = [StateFor(frame) EXCEPT !.transfer_id = (@ + 1) % TransferIds]
  <2>1. /\ StateFor(frame) \in RxState /\ StateFor(frame).transfer_id = frame.id
        /\ StateFor(frame).toggle = 0
    BY <1>1, <1>5, StateFacts
  <2>2. rx_state'.transfer_id = (frame.id + 1) % TransferIds /\ rx_state'.toggle = 0
    BY <1>5, <2>1 DEF RxState
  <2>3. rx_state'.transfer_id = (frame.transfer + 1 - 1) % TransferIds
    BY <1>1, <2>2, IdAfter
  <2>4. Newest \in Nat
    BY DEF TrackInv, OrderInv, Pipeline
  <2>5. Expects(frame.transfer + 1)'
    BY <1>1, <1>2, <2>2, <2>3, <2>4 DEF Expects
  <2> QED BY <1>1, <1>3, <2>5 DEF Tracking
<1> QED
  BY <1>4, <1>5 DEF Missed

LEMMA ContinuesTracks ==
    ASSUME TrackInv, HandleRxFrame, NEW h \in Nat, TakenSoFar(h),
           NEW frame, frame = Head(rx_queue), Continues(frame)
    PROVE  Tracking' /\ PutTogether(frame.index)'
<1>1. /\ frame \in CanFrame /\ Lawful(frame) /\ Newest < frame.transfer /\ frame.transfer \in Nat
      /\ last_seen <= frame.transfer /\ last_seen \in Nat /\ Newest \in Nat
      /\ last_seen' = frame.transfer /\ damaged' = damaged
      /\ frame.index # 1 /\ frame.index \in Nat /\ frame.index > 1
      /\ age' = age /\ ~NeedRestart(frame)
  <2>1. /\ frame \in CanFrame /\ Lawful(frame) /\ Newest < frame.transfer
        /\ last_seen <= frame.transfer
    BY TakesNext
  <2>2. frame.transfer \in Nat /\ frame.index \in Nat /\ frame.index > 0
    BY <2>1 DEF CanFrame, Lawful
  <2>3. last_seen \in Nat /\ Newest \in Nat
    BY DEF TrackInv, OrderInv, Pipeline
  <2>4. last_seen' = frame.transfer /\ damaged' = damaged
    BY HandleCases
  <2>5. frame.index # 1 /\ age' = age /\ ~NeedRestart(frame)
    BY DEF Continues
  <2> QED BY <2>1, <2>2, <2>3, <2>4, <2>5
<1>2. frame.toggle = (frame.index - 1) % 2 /\ frame.id = (frame.transfer - 1) % TransferIds
  BY <1>1 DEF Lawful
<1>3. StateFor(frame) = rx_state /\ rx_state \in RxState /\ rx_state.fresh /\ rx_state.known
  BY <1>1, StateFacts DEF TrackInv, OrderInv
<1>4. ASSUME delivered' = delivered
      PROVE  /\ Newest' = Newest /\ (IdsNeverWrapped' <=> IdsNeverWrapped)
             /\ Wanted' => /\ IdsNeverWrapped /\ frame.transfer - Newest < TransferIds - 1
                           /\ frame.transfer \notin damaged
  <2>1. Newest' = Newest /\ (IdsNeverWrapped' <=> IdsNeverWrapped)
    BY <1>4 DEF Newest, IdsNeverWrapped
  <2> QED BY <1>1, <2>1 DEF Wanted
<1>5. /\ StoredWith(frame) \in RxState /\ StoredWith(frame).known /\ StoredWith(frame).fresh
      /\ StoredWith(frame).toggle = rx_state.toggle
      /\ StoredWith(frame).transfer_id = rx_state.transfer_id
      /\ StoredWith(frame).payload = PayloadWith(frame)
  BY <1>1, <1>3, StoredFacts
<1>6. CASE ~Fits(frame) /\ rx_state' = StateFor(frame) /\ delivered' = delivered
  <2>1. PutTogether(frame.index)'
    <3> SUFFICES ASSUME Wanted' PROVE FALSE
      BY DEF PutTogether
    <3>1. Fits(frame)
      BY <1>1, <1>4, <1>6, WantedFrame
    <3> QED BY <1>6, <3>1
  <2>2. Tracking'
    <3> SUFFICES ASSUME IdsNeverWrapped PROVE \E e \in Nat : Expects(e)'
      BY <1>4, <1>6 DEF Tracking
    <3>1. PICK e \in Nat : Expects(e)
      BY <1>3 DEF TrackInv, Tracking
    <3>2. e = frame.transfer + 1 => e = last_seen + 1
      BY <1>1, <3>1 DEF Expects
    <3>3. Expects(e)'
      BY <1>1, <1>3, <1>4, <1>6, <3>1, <3>2 DEF Expects
    <3> QED BY <3>3
  <2> QED BY <2>1, <2>2
<1>7. CASE /\ Fits(frame) /\ ~frame.last /\ delivered' = delivered
           /\ rx_state' = [StoredWith(frame) EXCEPT !.toggle = 1 - @]
  <2>1. /\ rx_state'.known /\ rx_state'.fresh /\ rx_state'.toggle = 1 - frame.toggle
        /\ rx_state'.transfer_id = frame.id /\ rx_state'.payload = PayloadWith(frame)
    BY <1>3, <1>5, <1>7 DEF RxState, Fits
  <2>2. 1 - frame.toggle = frame.index % 2
    BY <1>1, <1>2
  <2>3. PutTogether(frame.index)'
    <3> SUFFICES ASSUME Wanted'
                 PROVE  /\ age' = 0
                        /\ rx_state'.payload
                             = [i \in 1..frame.index |-> [transfer |-> frame.transfer, index |-> i]]
      BY <1>1, <1>2, <2>1, <2>2 DEF PutTogether
    <3>1. /\ IdsNeverWrapped /\ frame.transfer - Newest < TransferIds - 1
          /\ frame.transfer \notin damaged
      BY <1>4, <1>7
    <3>2. /\ age = 0
          /\ PayloadWith(frame)
               = [i \in 1..frame.index |-> [transfer |-> frame.transfer, index |-> i]]
      BY <1>1, <3>1, WantedFrame
    <3> QED BY <1>1, <2>1, <3>2
  <2>4. Expects(frame.transfer)'
    BY <1>1, <1>2, <1>4, <1>7, <2>1 DEF Expects
  <2> QED BY <1>1, <2>3, <2>4 DEF Tracking
<1>8. ASSUME rx_state' = Prepared(StoredWith(frame)), Fits(frame), Newest' < frame.transfer + 1
      PROVE  Tracking'
  <2>1. rx_state'.transfer_id = (frame.id + 1) % TransferIds /\ rx_state'.toggle = 0
    BY <1>3, <1>5, <1>8 DEF Prepared, Fits, RxState
  <2>2. rx_state'.transfer_id = (frame.transfer + 1 - 1) % TransferIds
    BY <1>1, <2>1, IdAfter
  <2>3. Expects(frame.transfer + 1)'
    BY <1>1, <1>8, <2>1, <2>2 DEF Expects
  <2> QED BY <1>1, <2>3 DEF Tracking
<1>9. CASE /\ Fits(frame) /\ frame.last /\ rx_state' = Prepared(StoredWith(frame))
           /\ CrcMatches(PayloadWith(frame))
           /\ delivered' = Append(delivered, Content(PayloadWith(frame)))
  <2>1. Content(PayloadWith(frame)) = frame.transfer
    <3>1. PayloadWith(frame) = Append(rx_state.payload, PieceOf(frame))
      BY <1>1, <1>3 DEF PayloadWith
    <3>2. rx_state.payload \in Seq(Piece) /\ PieceOf(frame) \in Piece
      BY <1>1, <1>3 DEF RxState, PieceOf, Piece
    <3>3. Content(PayloadWith(frame)) = PieceOf(frame).transfer
      BY <1>9, <3>1, <3>2, ContentIsLast
    <3> QED BY <3>3 DEF PieceOf
  <2>2. Newest' = frame.transfer
    BY <1>1, <1>9, <2>1, DeliveredLast
  <2>3. PutTogether(frame.index)'
    BY <1>1, <2>2 DEF PutTogether, Wanted
  <2> QED BY <1>1, <1>8, <1>9, <2>2, <2>3
<1>10. CASE /\ Fits(frame) /\ frame.last /\ rx_state' = Prepared(StoredWith(frame))
            /\ ~CrcMatches(PayloadWith(frame)) /\ delivered' = delivered
  <2>1. PutTogether(frame.index)'
    <3> SUFFICES ASSUME Wanted' PROVE FALSE
      BY DEF PutTogether
    <3>1. PayloadWith(frame)
            = [i \in 1..frame.index |-> [transfer |-> frame.transfer, index |-> i]]
      BY <1>1, <1>4, <1>10, WantedFrame
    <3>2. CrcMatches(PayloadWith(frame))
      BY <1>1, <1>10, <3>1, WholeMatches
    <3> QED BY <1>10, <3>2
  <2>2. Newest' < frame.transfer + 1
    BY <1>1, <1>4, <1>10
  <2> QED BY <1>8, <1>10, <2>1, <2>2
<1> QED
  BY <1>6, <1>7, <1>9, <1>10 DEF Continues

LEMMA HandleTracks ==
    ASSUME TrackInv, OrderInv', HandleRxFrame, NEW frame, frame = Head(rx_queue)
    PROVE  TrackInv'
<1>1. PICK h \in Nat : TakenSoFar(h)
  BY DEF TrackInv
<1>2. /\ frame \in CanFrame /\ Lawful(frame) /\ frame.transfer <= transfers
      /\ ComesLater(frame.index)' /\ NoGap(frame.index)' /\ Way' \subseteq Way
  BY <1>1, TakesNext
<1>3. /\ Missed(frame) \/ Single(frame) \/ Opens(frame) \/ Continues(frame)
      /\ age' \in {0, age} /\ last_seen' = frame.transfer
      /\ UNCHANGED <<damaged, transfers, transfer_id>>
  BY HandleCases
<1>4. Tracking' /\ PutTogether(frame.index)'
  BY <1>1, <1>3, SingleTracks, OpensTracks, MissedTracks, ContinuesTracks
<1>5. frame.index \in Nat /\ frame.index > 0 /\ frame.transfer \in Nat
  BY <1>2 DEF CanFrame, Lawful
<1>6. rx_state'.fresh => rx_state'.known
  <2>1. CASE Missed(frame)
    <3>1. CASE rx_state' = rx_state
      BY <3>1 DEF TrackInv
    <3>2. CASE rx_state' = [StateFor(frame) EXCEPT !.transfer_id = (@ + 1) % TransferIds]
      <4>1. StateFor(frame) \in RxState /\ StateFor(frame).known
        BY <1>2, StateFacts
      <4> QED BY <3>2, <4>1 DEF RxState
    <3> QED BY <2>1, <3>1, <3>2 DEF Missed
  <2>2. StoredWith(frame) \in RxState /\ StoredWith(frame).known
    BY <1>2, StoredFacts
  <2>3. StateFor(frame) \in RxState /\ StateFor(frame).known
    BY <1>2, StateFacts
  <2>4. CASE Single(frame)
    BY <2>2, <2>4 DEF Single, Prepared, RxState
  <2>5. CASE Opens(frame)
    BY <2>2, <2>3, <2>5 DEF Opens, RxState
  <2>6. CASE Continues(frame)
    BY <2>2, <2>3, <2>6 DEF Continues, Prepared, RxState
  <2> QED BY <1>3, <2>1, <2>4, <2>5, <2>6
<1>7. TakenSoFar(frame.index)'
  BY <1>2, <1>4, <1>5 DEF TakenSoFar
<1>8. age' \in 0..2 /\ transfer_id' = transfers' % TransferIds
  BY <1>3 DEF TrackInv
<1>9. \A f \in Way' : Lawful(f)
  BY <1>2 DEF TrackInv
<1>10. last_seen' \in Nat /\ last_seen' <= transfers'
  BY <1>2, <1>3, <1>5
<1>11. \E k \in Nat : TakenSoFar(k)'
  BY <1>5, <1>7
<1> QED
  BY <1>4, <1>6, <1>8, <1>9, <1>10, <1>11 DEF TrackInv

\* A silence damages the transfer under way.
LEMMA SilenceTracks ==
    ASSUME TrackInv, OrderInv', Silence
    PROVE  TrackInv'
<1>1. /\ UNCHANGED <<rx_queue, driver, tx_queue, rx_state, delivered, last_seen, transfers,
                     transfer_id>>
      /\ age' = age + 1 /\ age < 2 /\ damaged \subseteq damaged' /\ last_seen \in damaged'
  BY DEF Silence, sender
<1>2. PICK h \in Nat : TakenSoFar(h)
  BY DEF TrackInv
<1>3. Way' = Way
  BY <1>1 DEF Way
<1>4. TakenSoFar(h)'
  <2>1. PutTogether(h)'
    BY <1>1 DEF PutTogether, Wanted
  <2>2. ComesLater(h)' /\ NoGap(h)'
    BY <1>1, <1>2, <1>3 DEF TakenSoFar, ComesLater, NoGap
  <2> QED BY <1>1, <1>2, <2>1, <2>2 DEF TakenSoFar
<1>5. Tracking'
  BY <1>1 DEF TrackInv, Tracking, Expects, Newest, IdsNeverWrapped
<1>6. age' \in 0..2
  BY <1>1 DEF TrackInv
<1> QED
  BY <1>1, <1>3, <1>4, <1>5, <1>6 DEF TrackInv

\* Nothing is put together in a state that has become stale.
LEMMA CleanupTracks ==
    ASSUME TrackInv, OrderInv', Cleanup
    PROVE  TrackInv'
<1>1. /\ UNCHANGED <<rx_queue, driver, tx_queue, delivered, last_seen, transfers, transfer_id,
                     damaged>>
      /\ rx_state' = NoRx /\ age = 2 /\ age' = 0
  BY DEF Cleanup, sender
<1>2. PICK h \in Nat : TakenSoFar(h)
  BY DEF TrackInv
<1>3. Way' = Way
  BY <1>1 DEF Way
<1>4. TakenSoFar(h)'
  <2>1. ~Wanted
    BY <1>1, <1>2 DEF TakenSoFar, PutTogether
  <2>2. Wanted' <=> Wanted
    BY <1>1 DEF Wanted, Newest, IdsNeverWrapped
  <2>3. ComesLater(h)' /\ NoGap(h)'
    BY <1>1, <1>2, <1>3 DEF TakenSoFar, ComesLater, NoGap
  <2> QED BY <1>1, <1>2, <2>1, <2>2, <2>3 DEF TakenSoFar, PutTogether
<1>5. ~rx_state'.fresh
  BY <1>1 DEF NoRx
<1> QED
  BY <1>1, <1>3, <1>4, <1>5 DEF TrackInv, Tracking

LEMMA NextTracks == TrackInv /\ [TunnelNext]_tunnel => TrackInv'
<1> SUFFICES ASSUME TrackInv, [TunnelNext]_tunnel PROVE TrackInv'
  OBVIOUS
<1>1. OrderInv'
  BY NextOrder DEF TrackInv
<1>2. /\ rx_queue \in Seq(CanFrame) /\ driver \in Seq(CanFrame) /\ tx_queue \in Seq(CanFrame)
      /\ \A f \in Way : Numbered(f)
  BY DEF TrackInv, OrderInv, Pipeline, Way, WayOf
<1>3. CASE UNCHANGED <<tx_queue, driver, transfer_id, transfers, rx_queue, rx_state, delivered,
                       last_seen, age, damaged>>
  <2>1. Way' = Way
    BY <1>3 DEF Way
  <2> QED BY <1>1, <1>3, <2>1, SameWay
<1>4. CASE Keepalive
  BY <1>1, <1>4, BroadcastTracks DEF Keepalive, receiver
<1>5. CASE SendChunk
  <2>1. TxIdle /\ UNCHANGED <<rx_queue, rx_state, delivered, last_seen, age, damaged>>
    BY <1>5 DEF SendChunk, receiver
  <2>2. Current.priority \in {"high", "medium", "low"}
    <3>1. packet \in [number : Nat, priority : {"high", "medium"}, offset : Nat]
      BY DEF TrackInv, OrderInv, ChunksInv
    <3> QED BY <3>1 DEF Current
  <2>3. CASE BroadcastTargetted(Current.priority, Frames)
    BY <1>1, <2>1, <2>2, <2>3, BroadcastTracks
  <2>4. CASE UNCHANGED <<tx_queue, driver, transfer_id, transfers>>
    BY <1>3, <2>1, <2>4
  <2> QED BY <1>5, <2>3, <2>4 DEF SendChunk
<1>6. CASE Drain
  <2>1. /\ DrainInto(tx_queue)
        /\ UNCHANGED <<transfer_id, transfers, rx_queue, rx_state, delivered, last_seen, age,
                       damaged>>
    BY <1>6 DEF Drain, receiver
  <2>2. Elems(driver') \cup Elems(tx_queue') = Elems(driver) \cup Elems(tx_queue)
    BY <1>2, <2>1, WayDrained
  <2>3. Way' = Way
    BY <2>1, <2>2 DEF Way, WayOf
  <2> QED BY <1>1, <2>1, <2>3, SameWay
<1>7. ASSUME NEW priority \in {"high", "low"}, OtherTransfer(priority) PROVE TrackInv'
  <2> DEFINE frames == CanFrames(0, 0, priority, 1)
             f == frames[1]
  <2>1. /\ DrainInto(Enqueued(tx_queue, frames))
        /\ UNCHANGED <<transfer_id, transfers, rx_queue, rx_state, delivered, last_seen, age,
                       damaged>>
    BY <1>7 DEF OtherTransfer, receiver
  <2>2. frames \in Seq(CanFrame) /\ Len(frames) = 1 /\ f.transfer = 0
    <3>1. FramesOf(frames, 0, 0, priority, 1)
      BY CanFramesFacts
    <3> HIDE DEF frames
    <3> QED BY <3>1 DEF FramesOf
  <2>3. f \in CanFrame /\ ~Numbered(f)
    BY <2>2, ElementOfSeq DEF Numbered
  <2>4. DrainInto(Push(tx_queue, f))
    BY <2>1, <2>2, EnqueuedOne
  <2> HIDE DEF f
  <2>5. Elems(Push(tx_queue, f)) = Elems(tx_queue) \cup {f} /\ Push(tx_queue, f) \in Seq(CanFrame)
    BY <1>2, <2>3, PushElems
  <2>6. Elems(driver') \cup Elems(tx_queue') = Elems(driver) \cup (Elems(tx_queue) \cup {f})
    BY <1>2, <2>4, <2>5, WayDrained
  <2>7. Way' = Way
    BY <2>1, <2>3, <2>6 DEF Way, WayOf
  <2> QED BY <1>1, <2>1, <2>7, SameWay
<1>8. CASE \/ UNCHANGED tunnel \/ CanReplaceOldest
           \/ \E high_priority \in BOOLEAN : CanRouterSend(high_priority)
  BY <1>3, <1>8 DEF tunnel, CanReplaceOldest, CanRouterSend, sender, receiver
<1>9. CASE HandleRxFrame
  BY <1>1, <1>9, HandleTracks
<1> QED
  BY <1>1, <1>4, <1>5, <1>6, <1>7, <1>8, <1>9, BusTracks, SilenceTracks, CleanupTracks
  DEF TunnelNext

LEMMA InitTracks == TunnelInit => TrackInv
<1> SUFFICES ASSUME TunnelInit PROVE TrackInv
  OBVIOUS
<1>1. /\ tx_queue = <<>> /\ driver = <<>> /\ rx_queue = <<>> /\ delivered = <<>>
      /\ transfers = 0 /\ transfer_id = 0 /\ rx_state = NoRx /\ age = 0 /\ last_seen = 0
  BY DEF TunnelInit
<1>2. Way = {}
  BY <1>1, FewElems DEF Way, WayOf
<1>3. TransferIds \in Nat /\ TransferIds > 0 /\ 0 % TransferIds = 0
  <2>1. TransferIds \in Nat /\ TransferIds > 0
    BY TunnelAssumption
  <2>2. (TransferIds * 0 + 0) % TransferIds = 0
    BY <2>1, ModUnique
  <2> QED BY <2>1, <2>2
<1>4. ~rx_state.fresh
  BY <1>1 DEF NoRx
<1>5. TakenSoFar(0)
  <2>1. Newest = 0
    BY <1>1 DEF Newest
  <2> QED BY <1>1, <1>2, <2>1 DEF TakenSoFar, ComesLater, NoGap, PutTogether, Wanted
<1> QED
  BY <1>1, <1>2, <1>3, <1>4, <1>5, InitOrder DEF TrackInv, Tracking

\* canardHandleRxFrame, for every number of frames and transfer ids, and whatever was lost
\* before: a transfer of which nothing is lost is handed to the router with its last
\* frame, while the transfer ids tell the transfers apart.
THEOREM WholeTransfersDelivered == TunnelSpec => WholeTransfersArrive
<1>1. TrackInv /\ [TunnelNext]_tunnel =>
        [\A frame \in Range(rx_queue) :
            /\ rx_queue # <<>> /\ rx_queue' = Tail(rx_queue)
            /\ frame = Head(rx_queue) /\ frame.last
            /\ frame.transfer \notin damaged
            /\ IdsNeverWrapped /\ frame.transfer - Newest < TransferIds - 1
            => delivered' = Append(delivered, frame.transfer)]_tunnel
  <2> SUFFICES ASSUME TrackInv, [TunnelNext]_tunnel, NEW frame,
                      rx_queue # <<>>, rx_queue' = Tail(rx_queue),
                      frame = Head(rx_queue), frame.last, frame.transfer \notin damaged,
                      IdsNeverWrapped, frame.transfer - Newest < TransferIds - 1
               PROVE  delivered' = Append(delivered, frame.transfer)
    OBVIOUS
  <2>1. HandleRxFrame
    <3>1. rx_queue \in Seq(CanFrame)
      BY DEF TrackInv, OrderInv, Pipeline
    <3>2. Len(rx_queue') = Len(rx_queue) - 1 /\ Len(rx_queue) \in Nat
      BY <3>1, FrameTail
    <3>3. rx_queue' # rx_queue
      <4> SUFFICES ASSUME rx_queue' = rx_queue PROVE FALSE
        OBVIOUS
      <4>1. Len(rx_queue') = Len(rx_queue)
        OBVIOUS
      <4> QED BY <3>2, <4>1
    <3>4. ~TxDone
      <4> SUFFICES ASSUME TxDone PROVE FALSE
        OBVIOUS
      <4>1. driver # <<>> /\ rx_queue' = Append(rx_queue, driver[1])
        BY <3>3 DEF TxDone
      <4>2. driver \in Seq(CanFrame)
        BY DEF TrackInv, OrderInv, Pipeline
      <4>3. driver[1] \in CanFrame
        <5>1. Len(driver) \in Nat /\ Len(driver) # 0
          BY <4>1, <4>2, EmptySeq
        <5>2. 1 \in 1..Len(driver)
          BY <5>1
        <5> QED BY <4>2, <5>2, ElementOfSeq
      <4>4. Len(rx_queue') = Len(rx_queue) + 1
        BY <3>1, <4>1, <4>3, AppendProperties
      <4> QED BY <3>2, <4>4
    <3> QED
      BY <3>3, <3>4
      DEF TunnelNext, tunnel, receiver, CanRouterSend, CanReplaceOldest, Keepalive, SendChunk,
          Drain, OtherTransfer, Silence, Cleanup
  <2>2. PICK h \in Nat : TakenSoFar(h)
    BY DEF TrackInv
  <2>3. frame \in CanFrame /\ Lawful(frame)
    BY <2>1, <2>2, TakesNext
  <2>4. Missed(frame) \/ Single(frame) \/ Opens(frame) \/ Continues(frame)
    BY <2>1, HandleCases
  <2>5. CASE frame.index = 1
    BY <2>4, <2>5 DEF Missed, Single, Opens, Continues
  <2>6. CASE frame.index # 1
    <3>1. /\ rx_state.known /\ ~NeedRestart(frame) /\ Fits(frame)
          /\ PayloadWith(frame)
               = [i \in 1..frame.index |-> [transfer |-> frame.transfer, index |-> i]]
      BY <2>1, <2>2, <2>6, WantedFrame
    <3>2. CrcMatches(PayloadWith(frame)) /\ Content(PayloadWith(frame)) = frame.transfer
      BY <2>3, <2>6, <3>1, WholeMatches
    <3>3. Continues(frame)
      BY <2>4, <2>6, <3>1 DEF Missed, Single, Opens
    <3> QED BY <3>1, <3>2, <3>3 DEF Continues
  <2> QED BY <2>5, <2>6
<1> QED
  BY <1>1, InitTracks, NextTracks, PTL DEF TunnelSpec, WholeTransfersArrive

=============================================================================
