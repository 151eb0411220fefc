------------------------ MODULE ReliabilityRefines ------------------------
(***************************************************************************)
(* The reliability protocol implements the abstract channel, for every     *)
(* window, retry limit and bound: sending is Submit, receiving is Arrive,  *)
(* a retransmission pass is Abandon (of no packet, as a rule).             *)
(***************************************************************************)
EXTENDS ReliabilityProofs

USE NoWrapAssumption

\* A sender tracks a number once.  Without it a pass could give up one copy of a
\* packet and keep another.
TrackedOnce ==
    \A p \in Peers : \A u, v \in unacked[p] : u.pkt.seq = v.pkt.seq => u = v

Tracked == [p \in Peers |-> UnackedSeqs(p)]
Sent == [p \in Peers |-> nextOut[p] - 1]

\* The effect of PrepareOutgoing on a sender's own numbers.
LEMMA PrepareOutgoingNumbers ==
    ASSUME Inv, NEW p \in Peers, NEW kind \in Kinds, PrepareOutgoing(p, kind),
           IsReliable(kind), nextOut[p] <= MaxSeq[p]
    PROVE  /\ nextOut' = [nextOut EXCEPT ![p] = nextOut[p] + 1]
           /\ unacked' = [unacked EXCEPT ![p] =
                             unacked[p] \cup {[pkt |-> Header(p, kind), retries |-> 0]}]
           /\ Header(p, kind).seq = nextOut[p]
           /\ \A u \in unacked[p] : u.pkt.seq \in 1 .. (nextOut[p] - 1)
  <1>1. nextOut[p] \in Nat /\ nextOut[p] + 1 < HalfRange /\ nextOut[p] < HalfRange
    BY HalfRangeBound DEF Inv, TypeOK
  <1>2. SeqSucc(nextOut[p]) = nextOut[p] + 1
    BY <1>1, SequenceOrder, HalfRangeBound
  <1>3. QED
    BY <1>2 DEF PrepareOutgoing, Header, Inv, NumbersWereSent

\* What each action of the protocol does to the channel's variables.
LEMMA SubmitStep ==
    ASSUME Inv, TrackedOnce, NEW p \in Peers, NEW kind \in Kinds, PrepareOutgoing(p, kind),
           IsReliable(kind), nextOut[p] <= MaxSeq[p], UNCHANGED history
    PROVE  TrackedOnce' /\ Promise!Submit(p)
  <1> DEFINE new == [pkt |-> Header(p, kind), retries |-> 0]
  <1>1. /\ nextOut' = [nextOut EXCEPT ![p] = nextOut[p] + 1]
        /\ unacked' = [unacked EXCEPT ![p] = unacked[p] \cup {new}]
        /\ new.pkt.seq = nextOut[p]
        /\ \A u \in unacked[p] : u.pkt.seq \in 1 .. (nextOut[p] - 1)
    BY PrepareOutgoingNumbers
  <1> HIDE DEF new
  <1>2. nextOut \in [Peers -> Nat \ {0}] /\ DOMAIN unacked = Peers
    BY DEF Inv, TypeOK
  <1>3. TrackedOnce'
    <2> SUFFICES ASSUME NEW q \in Peers, NEW u \in unacked'[q], NEW v \in unacked'[q],
                        u.pkt.seq = v.pkt.seq
                 PROVE  u = v
      BY DEF TrackedOnce
    <2>1. CASE q = p
      <3>1. u \in unacked[p] \cup {new} /\ v \in unacked[p] \cup {new}
        BY <2>1, <1>1, <1>2
      <3>2. \A w \in unacked[p] : w.pkt.seq # new.pkt.seq
        BY <1>1, <1>2
      <3>3. QED
        BY <3>1, <3>2 DEF TrackedOnce
    <2>2. CASE q # p
      BY <2>2, <1>1, <1>2 DEF TrackedOnce
    <2>3. QED
      BY <2>1, <2>2
  <1>4. Sent' = [Sent EXCEPT ![p] = @ + 1]
    <2>1. \A q \in Peers : nextOut'[q] - 1 = IF q = p THEN (nextOut[q] - 1) + 1 ELSE nextOut[q] - 1
      BY <1>1, <1>2
    <2>2. QED
      BY <2>1 DEF Sent
  <1>5. Tracked' = [Tracked EXCEPT ![p] = @ \cup {Sent[p] + 1}]
    <2>1. (UnackedSeqs(p))' = UnackedSeqs(p) \cup {nextOut[p]}
      <3>1. unacked'[p] = unacked[p] \cup {new}
        BY <1>1, <1>2
      <3>2. QED
        BY <3>1, <1>1 DEF UnackedSeqs
    <2>2. \A q \in Peers : q # p => (UnackedSeqs(q))' = UnackedSeqs(q)
      BY <1>1, <1>2 DEF UnackedSeqs
    <2>3. Sent[p] + 1 = nextOut[p]
      BY <1>2 DEF Sent
    <2>4. QED
      BY <2>1, <2>2, <2>3 DEF Tracked
  <1>6. QED
    BY <1>3, <1>4, <1>5 DEF Promise!Submit, Sent, Tracked, history

LEMMA ArriveStep ==
    ASSUME Inv, TrackedOnce, NEW p \in Peers, NEW m \in net, Receive(p, m)
    PROVE  TrackedOnce' /\ Promise!Arrive(p)
  <1>1. /\ nextOut' = nextOut /\ gaveUp' = gaveUp /\ m.src = Other(p)
        /\ unacked' = [unacked EXCEPT ![p] =
                          {u \in unacked[p] : ~Acknowledges(m, u.pkt.seq)}]
    BY DEF Receive, ProcessAcks
  <1>2. /\ DOMAIN unacked = Peers /\ DOMAIN accepted = Peers
        /\ nextOut \in [Peers -> Nat \ {0}]
        /\ accepted' \in [Peers -> SUBSET (Nat \ {0})]
    BY ReceiveWindow DEF Inv, TypeOK, WindowStep
  <1>3. TrackedOnce'
    BY <1>1, <1>2 DEF TrackedOnce
  <1> DEFINE confirmed == {s \in UnackedSeqs(p) : Acknowledges(m, s)}
             news == accepted'[p] \ accepted[p]
  <1>4. confirmed \in SUBSET (Tracked[p] \cap accepted[Other(p)])
    <2>1. \A s \in UnackedSeqs(p) : s \in Nat \ {0}
      BY DEF UnackedSeqs, Inv, TypeOK, NumbersWereSent
    <2>2. \A s \in confirmed : s \in accepted[Other(p)]
      BY <1>1, <2>1, AcknowledgedWasAccepted
    <2>3. QED
      BY <2>2 DEF Tracked
  <1>5. Tracked' = [Tracked EXCEPT ![p] = @ \ confirmed]
    <2>1. (UnackedSeqs(p))' = UnackedSeqs(p) \ confirmed
      <3>1. unacked'[p] = {u \in unacked[p] : ~Acknowledges(m, u.pkt.seq)}
        BY <1>1, <1>2
      <3>2. QED
        BY <3>1 DEF UnackedSeqs
    <2>2. \A q \in Peers : q # p => (UnackedSeqs(q))' = UnackedSeqs(q)
      BY <1>1, <1>2 DEF UnackedSeqs
    <2>3. QED
      BY <2>1, <2>2 DEF Tracked
  <1>6. news \in SUBSET (1 .. Sent[Other(p)]) /\ \A s, t \in news : s = t
    <2>1. \A t \in news : t = m.seq /\ t < nextOut[Other(p)] /\ t \in Nat \ {0}
      BY <1>2, ReceiveWindow DEF WindowStep
    <2>2. Other(p) \in Peers
      BY OtherEnd
    <2>3. \A t \in news : t \in 1 .. Sent[Other(p)]
      BY <2>1, <2>2, <1>2 DEF Sent
    <2>4. QED
      BY <2>1, <2>3
  <1>7. accepted' = [accepted EXCEPT ![p] = @ \cup news]
    <2>0. /\ \A q \in Peers : accepted[q] \subseteq accepted'[q]
          /\ \A q \in Peers : \A t \in accepted'[q] \ accepted[q] : q = p
      BY ReceiveWindow DEF WindowStep
    <2>1. /\ \A q \in Peers : accepted[q] \subseteq accepted'[q]
          /\ \A q \in Peers : q # p => accepted'[q] = accepted[q]
      BY <2>0
    <2>2. accepted'[p] = accepted[p] \cup news
      BY <2>1
    <2>3. QED
      BY <2>1, <2>2, <1>2
  <1>8. Sent' = Sent
    BY <1>1 DEF Sent
  <1> HIDE DEF confirmed, news
  <1>9. /\ Tracked' = [Tracked EXCEPT ![p] = @ \ confirmed]
        /\ accepted' = [accepted EXCEPT ![p] = @ \cup news]
        /\ UNCHANGED <<Sent, gaveUp>>
    BY <1>1, <1>5, <1>7, <1>8
  <1>10. QED
    BY ZenonT(40), <1>3, <1>4, <1>6, <1>9 DEF Promise!Arrive, Tracked, Sent

LEMMA AbandonStep ==
    ASSUME Inv, TrackedOnce, NEW p \in Peers, NEW due \in SUBSET unacked[p],
           Retransmit(p, due)
    PROVE  TrackedOnce' /\ Promise!Abandon(p)
  <1> DEFINE exhausted == {u \in due : u.retries >= MaxRetries}
             resent == due \ exhausted
             renewed == {[u EXCEPT !.retries = @ + 1] : u \in resent}
             lost == {u.pkt.seq : u \in exhausted}
  <1>1. /\ unacked' = [unacked EXCEPT ![p] = (unacked[p] \ due) \cup renewed]
        /\ gaveUp' = [gaveUp EXCEPT ![p] = gaveUp[p] \cup lost]
        /\ nextOut' = nextOut /\ accepted' = accepted
    BY DEF Retransmit
  <1>2. /\ DOMAIN unacked = Peers /\ DOMAIN gaveUp = Peers
        /\ due \subseteq unacked[p]
        /\ unacked[p] \subseteq [pkt : Packets, retries : Nat]
    BY DEF Inv, TypeOK
  <1>3. ASSUME NEW u \in unacked[p]
        PROVE  [u EXCEPT !.retries = @ + 1].pkt = u.pkt
    BY <1>2
  <1>4. ASSUME NEW v \in (unacked[p] \ due) \cup renewed
        PROVE  \E u \in unacked[p] \ exhausted :
                  /\ v.pkt = u.pkt
                  /\ v = IF u \in due THEN [u EXCEPT !.retries = @ + 1] ELSE u
    BY <1>2, <1>3
  <1>5. ASSUME NEW u \in unacked[p] \ exhausted
        PROVE  \E v \in (unacked[p] \ due) \cup renewed : v.pkt = u.pkt
    <2>1. CASE u \in due
      <3>1. [u EXCEPT !.retries = @ + 1] \in renewed
        BY <2>1
      <3>2. QED
        BY <3>1, <1>3
    <2>2. CASE u \notin due
      BY <2>2
    <2>3. QED
      BY <2>1, <2>2
  <1> HIDE DEF renewed
  <1>6. TrackedOnce'
    <2> SUFFICES ASSUME NEW q \in Peers, NEW v \in unacked'[q], NEW w \in unacked'[q],
                        v.pkt.seq = w.pkt.seq
                 PROVE  v = w
      BY DEF TrackedOnce
    <2>1. CASE q = p
      <3>1. v \in (unacked[p] \ due) \cup renewed /\ w \in (unacked[p] \ due) \cup renewed
        BY <2>1, <1>1, <1>2
      <3>2. PICK a \in unacked[p] \ exhausted :
               v.pkt = a.pkt /\ v = IF a \in due THEN [a EXCEPT !.retries = @ + 1] ELSE a
        BY <3>1, <1>4
      <3>3. PICK b \in unacked[p] \ exhausted :
               w.pkt = b.pkt /\ w = IF b \in due THEN [b EXCEPT !.retries = @ + 1] ELSE b
        BY <3>1, <1>4
      <3>4. a = b
        BY <3>2, <3>3 DEF TrackedOnce
      <3>5. QED
        BY <3>2, <3>3, <3>4
    <2>2. CASE q # p
      BY <2>2, <1>1, <1>2 DEF TrackedOnce
    <2>3. QED
      BY <2>1, <2>2
  <1>7. Tracked' = [Tracked EXCEPT ![p] = @ \ lost]
    <2>1. (UnackedSeqs(p))' = UnackedSeqs(p) \ lost
      <3>1. unacked'[p] = (unacked[p] \ due) \cup renewed
        BY <1>1, <1>2
      <3>2. ASSUME NEW s \in (UnackedSeqs(p))'
            PROVE  s \in UnackedSeqs(p) \ lost
        <4>1. PICK v \in (unacked[p] \ due) \cup renewed : s = v.pkt.seq
          BY <3>1 DEF UnackedSeqs
        <4>2. PICK u \in unacked[p] \ exhausted : v.pkt = u.pkt
          BY <1>4
        <4>3. s \in UnackedSeqs(p)
          BY <4>1, <4>2 DEF UnackedSeqs
        <4>4. s \notin lost
          <5>1. SUFFICES ASSUME NEW x \in exhausted, s = x.pkt.seq
                         PROVE  FALSE
            OBVIOUS
          <5>2. x = u
            BY <4>1, <4>2, <5>1, <1>2 DEF TrackedOnce
          <5>3. QED
            BY <5>1, <5>2, <4>2
        <4>5. QED
          BY <4>3, <4>4
      <3>3. ASSUME NEW s \in UnackedSeqs(p) \ lost
            PROVE  s \in (UnackedSeqs(p))'
        <4>1. PICK u \in unacked[p] : s = u.pkt.seq
          BY DEF UnackedSeqs
        <4>2. u \notin exhausted
          BY <3>3, <4>1
        <4>3. PICK v \in (unacked[p] \ due) \cup renewed : v.pkt = u.pkt
          BY <4>2, <1>5
        <4>4. QED
          BY <3>1, <4>1, <4>3 DEF UnackedSeqs
      <3>4. QED
        BY <3>2, <3>3
    <2>2. \A q \in Peers : q # p => (UnackedSeqs(q))' = UnackedSeqs(q)
      BY <1>1, <1>2 DEF UnackedSeqs
    <2>3. QED
      BY <2>1, <2>2 DEF Tracked
  <1>8. lost \in SUBSET Tracked[p]
    BY <1>2 DEF Tracked, UnackedSeqs
  <1>9. Sent' = Sent
    BY <1>1 DEF Sent
  <1> HIDE DEF lost
  <1>10. /\ Tracked' = [Tracked EXCEPT ![p] = @ \ lost]
         /\ gaveUp' = [gaveUp EXCEPT ![p] = @ \cup lost]
         /\ UNCHANGED <<Sent, accepted>>
    BY <1>1, <1>7, <1>9
  <1>11. QED
    BY <1>6, <1>8, <1>10 DEF Promise!Abandon, Tracked, Sent

\* Whatever leaves the numbers, the tracked packets and the histories alone is a
\* stuttering step of the channel.
LEMMA StutterStep ==
    ASSUME TrackedOnce, UNCHANGED <<nextOut, unacked, history>>
    PROVE  TrackedOnce' /\ UNCHANGED Promise!chVars
  <1>1. nextOut' = nextOut /\ unacked' = unacked /\ accepted' = accepted /\ gaveUp' = gaveUp
    BY DEF history
  <1>2. TrackedOnce'
    BY <1>1 DEF TrackedOnce
  <1>3. Sent' = Sent /\ Tracked' = Tracked
    BY <1>1 DEF Sent, Tracked, UnackedSeqs
  <1>4. QED
    BY <1>1, <1>2, <1>3 DEF Promise!chVars, Sent, Tracked

LEMMA RefinementStep ==
    Inv /\ TrackedOnce /\ [Next]_vars => TrackedOnce' /\ [Promise!Next]_(Promise!chVars)
  <1> SUFFICES ASSUME Inv, TrackedOnce, [Next]_vars
               PROVE  TrackedOnce' /\ [Promise!Next]_(Promise!chVars)
    OBVIOUS
  <1>1. ASSUME NEW p \in Peers, SendReliable(p)
        PROVE  TrackedOnce' /\ Promise!Submit(p)
    <2>1. nextOut[p] <= MaxSeq[p]
      BY <1>1 DEF SendReliable, Room, Inv, TypeOK
    <2>2. "data" \in Kinds /\ IsReliable("data")
      BY DEF Kinds, IsReliable
    <2>3. QED
      BY <1>1, <2>1, <2>2, SubmitStep DEF SendReliable
  <1>2. ASSUME NEW p \in Peers, SendAckOnly(p)
        PROVE  TrackedOnce' /\ Promise!Submit(p)
    <2>1. nextOut[p] <= MaxSeq[p]
      BY <1>2 DEF SendAckOnly, Inv, AckHasRoom
    <2>2. "ack" \in Kinds /\ IsReliable("ack")
      BY DEF Kinds, IsReliable
    <2>3. QED
      BY <1>2, <2>1, <2>2, SubmitStep DEF SendAckOnly
  <1>3. ASSUME NEW p \in Peers, SendUnreliable(p)
        PROVE  TrackedOnce' /\ UNCHANGED Promise!chVars
    <2>1. UNCHANGED <<nextOut, unacked, history>>
      BY <1>3 DEF SendUnreliable, PrepareOutgoing, IsReliable
    <2>2. QED
      BY <2>1, StutterStep
  <1>4. ASSUME NEW p \in Peers, DecideAck(p)
        PROVE  TrackedOnce' /\ UNCHANGED Promise!chVars
    BY <1>4, StutterStep DEF DecideAck
  <1>5. ASSUME NEW p \in Peers, NEW m \in net, Receive(p, m)
        PROVE  TrackedOnce' /\ Promise!Arrive(p)
    BY <1>5, ArriveStep
  <1>6. ASSUME NEW p \in Peers, NEW due \in SUBSET unacked[p], Retransmit(p, due)
        PROVE  TrackedOnce' /\ Promise!Abandon(p)
    BY <1>6, AbandonStep
  <1>7. ASSUME NEW m \in net, Lose(m)
        PROVE  TrackedOnce' /\ UNCHANGED Promise!chVars
    BY <1>7, StutterStep DEF Lose, connection
  <1>8. CASE UNCHANGED vars
    BY <1>8, StutterStep DEF vars, connection
  <1>9. QED
    BY <1>1, <1>2, <1>3, <1>4, <1>5, <1>6, <1>7, <1>8 DEF Next, Promise!Next

\* The protocol implements the channel: a packet is retired only when the receiver has
\* taken it or the connection is given up, and a receiver takes only packets sent.
THEOREM Refinement == Spec => ChannelSpec
  <1>1. Init => TrackedOnce /\ Promise!Init
    <2> SUFFICES ASSUME Init
                 PROVE  TrackedOnce /\ Promise!Init
      OBVIOUS
    <2>1. TrackedOnce
      BY DEF Init, TrackedOnce
    <2>2. \A p \in Peers : UnackedSeqs(p) = {} /\ nextOut[p] - 1 = 0
      BY DEF Init, UnackedSeqs
    <2>3. Sent = [p \in Peers |-> 0] /\ Tracked = [p \in Peers |-> {}]
      BY <2>2 DEF Sent, Tracked
    <2>4. QED
      BY <2>1, <2>3 DEF Promise!Init, Sent, Tracked, Init
  <1>2. Inv /\ TrackedOnce /\ [Next]_vars => TrackedOnce' /\ [Promise!Next]_(Promise!chVars)
    BY RefinementStep
  <1>3. QED
    BY <1>1, <1>2, Invariance, PTL DEF Spec, ChannelSpec, Promise!Spec
=============================================================================
