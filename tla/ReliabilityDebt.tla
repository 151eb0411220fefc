-------------------------- MODULE ReliabilityDebt --------------------------
(***************************************************************************)
(* With reliable traffic only, an acknowledgement is owed until it is      *)
(* delivered, for every window, retry limit and bound.  With unreliable    *)
(* traffic it is not: a packet that is never repeated may carry it away.   *)
(***************************************************************************)
EXTENDS ReliabilityRefines

USE EndsAssumption, WindowAssumption, BoundsAssumption

-----------------------------------------------------------------------------
(* The inductive invariant.  Its last part is AckDebtIsHeld without the      *)
(* datagrams in flight: the packet that carries an acknowledgement is kept   *)
(* until it is acknowledged itself, and then the debt is paid.               *)

\* The packets of p there are: in flight, or kept for retransmission.
Copies(p) == {m \in net : m.src = p} \cup {u.pkt : u \in unacked[p]}

AllReliable == \A m \in net : IsReliable(m.kind)

\* A retransmission repeats the header of the first transmission.
OneHeader == \A p \in Peers : \A k, l \in Copies(p) : k.seq = l.seq => k = l

\* What a packet acknowledges is no longer tracked once the packet is accepted:
\* the same call that accepts it retires what it acknowledges.
Settled ==
    \A p \in Peers : \A k \in Copies(Other(p)) :
        k.seq \in accepted[p] => \A s \in UnackedSeqs(p) : ~Acknowledges(k, s)

Owed(p, s) ==
    \/ pendingAck[p]
    \/ \E u \in unacked[p] : Acknowledges(u.pkt, s)
    \/ highest[p] - s >= Window
    \/ dropped[p]

Debt == \A p \in Peers : \A s \in UnackedSeqs(p) \cap accepted[Other(p)] : Owed(Other(p), s)

DebtInv == Inv /\ AllReliable /\ OneHeader /\ Settled /\ Debt

LEMMA InitDebt == Init => DebtInv
  <1> SUFFICES ASSUME Init PROVE DebtInv
    OBVIOUS
  <1>1. \A p \in Peers : Copies(p) = {} /\ UnackedSeqs(p) = {}
    BY DEF Init, Copies, UnackedSeqs
  <1>2. Inv
    BY InitInv
  <1>3. QED
    BY <1>1, <1>2, OtherEnd DEF Init, DebtInv, AllReliable, OneHeader, Settled, Debt

\* Every packet of p was numbered by p, and acknowledges only what p accepted.
LEMMA CopyFacts ==
    ASSUME Inv, AllReliable, NEW p \in Peers, NEW k \in Copies(p)
    PROVE  /\ k.src = p
           /\ k.seq \in 1 .. (nextOut[p] - 1)
           /\ \A s \in Nat \ {0} : Acknowledges(k, s) => s \in accepted[p]
  <1>1. k \in net \cup UNION {{u.pkt : u \in unacked[q]} : q \in Peers}
    BY DEF Copies
  <1>2. k.src = p /\ k.seq \in 1 .. (nextOut[p] - 1)
    BY DEF Copies, AllReliable, Inv, NumbersWereSent
  <1>3. /\ k.ack \in accepted[p] \cup {0}
        /\ \A d \in k.bits : k.ack - d \in accepted[p] \cup {0}
    BY <1>1, <1>2 DEF Inv, HonestHeaders
  <1>4. k.ack \in Nat
    BY <1>3 DEF Inv, TypeOK
  <1>5. ASSUME NEW s \in Nat \ {0}, Acknowledges(k, s)
        PROVE  s \in accepted[p]
    <2>1. CASE s = k.ack
      BY <2>1, <1>3
    <2>2. CASE s < k.ack /\ (k.ack - s) \in k.bits
      <3>1. k.ack - (k.ack - s) = s
        BY <1>4
      <3>2. k.ack - (k.ack - s) \in accepted[p] \cup {0}
        BY <2>2, <1>3
      <3>3. QED
        BY <3>1, <3>2
    <2>3. QED
      BY <2>1, <2>2, <1>5 DEF Acknowledges
  <1>6. QED
    BY <1>2, <1>5

\* Tracked and accepted numbers are positive, and the accepted ones were handed out.
LEMMA NumberFacts ==
    ASSUME Inv, NEW p \in Peers
    PROVE  /\ \A s \in UnackedSeqs(p) : s \in Nat \ {0}
           /\ \A s \in accepted[Other(p)] : s \in Nat \ {0} /\ s < nextOut[p]
  BY OtherEnd DEF Inv, TypeOK, NumbersWereSent, UnackedSeqs

-----------------------------------------------------------------------------
(* The actions                                                              *)

\* A header written now acknowledges everything accepted within the window.
LEMMA FreshHeaderAcks ==
    ASSUME Inv, NEW p \in Peers, NEW kind \in Kinds, NEW s \in accepted[p],
           ~(highest[p] - s >= Window)
    PROVE  Acknowledges(Header(p, kind), s)
  <1>1. s \in Nat /\ highest[p] \in Nat /\ s <= highest[p]
    BY DEF Inv, TypeOK, WindowIsTruthful
  <1>2. Header(p, kind).ack = highest[p] /\ Header(p, kind).bits = bitfield[p]
    BY DEF Header
  <1>3. CASE s = highest[p]
    BY <1>2, <1>3 DEF Acknowledges
  <1>4. CASE s < highest[p]
    <2>1. highest[p] - s \in 1 .. (Window - 1)
      BY <1>1, <1>4
    <2>2. highest[p] - s \in bitfield[p]
      BY <2>1 DEF Inv, WindowIsTruthful
    <2>3. QED
      BY <1>2, <1>4, <2>2 DEF Acknowledges
  <1>5. QED
    BY <1>1, <1>3, <1>4

\* Sending a reliable packet passes the debts on to the packet.
LEMMA SendDebt ==
    ASSUME DebtInv, Inv', NEW p \in Peers, NEW kind \in Kinds, IsReliable(kind),
           PrepareOutgoing(p, kind), nextOut[p] <= MaxSeq[p],
           UNCHANGED <<highest, dropped, accepted>>
    PROVE  DebtInv'
  <1> DEFINE h == Header(p, kind)
             new == [pkt |-> h, retries |-> 0]
  <1>0. Inv /\ AllReliable /\ OneHeader /\ Settled /\ Debt
    BY DEF DebtInv
  <1>1. /\ unacked' = [unacked EXCEPT ![p] = unacked[p] \cup {new}]
        /\ pendingAck' = [pendingAck EXCEPT ![p] = FALSE]
        /\ net' = net \cup {h}
        /\ h.seq = nextOut[p] /\ h.src = p /\ h.kind = kind
    BY <1>0, PrepareOutgoingNumbers DEF PrepareOutgoing, Header
  <1>2. /\ DOMAIN unacked = Peers /\ DOMAIN pendingAck = Peers
        /\ nextOut[p] \in Nat \ {0}
    BY <1>0 DEF Inv, TypeOK
  <1>3. new.pkt = h
    OBVIOUS
  <1> HIDE DEF h, new
  <1>4. /\ unacked'[p] = unacked[p] \cup {new}
        /\ \A q \in Peers \ {p} : unacked'[q] = unacked[q] /\ pendingAck'[q] = pendingAck[q]
    BY <1>1, <1>2
  <1>5. /\ (Copies(p))' = Copies(p) \cup {h}
        /\ (UnackedSeqs(p))' = UnackedSeqs(p) \cup {nextOut[p]}
    BY <1>1, <1>3, <1>4 DEF Copies, UnackedSeqs
  <1>6. \A q \in Peers \ {p} : (Copies(q))' = Copies(q) /\ (UnackedSeqs(q))' = UnackedSeqs(q)
    BY <1>1, <1>4 DEF Copies, UnackedSeqs
  <1>7. AllReliable'
    BY <1>0, <1>1 DEF AllReliable
  <1>8. OneHeader'
    <2>1. \A k \in Copies(p) : k.seq # h.seq
      BY <1>0, <1>1, <1>2, CopyFacts
    <2>2. QED
      BY <2>1, <1>0, <1>5, <1>6 DEF OneHeader
  <1>9. Settled'
    <2> SUFFICES ASSUME NEW q \in Peers, NEW k \in (Copies(Other(q)))',
                        k.seq \in accepted[q], NEW s \in (UnackedSeqs(q))'
                 PROVE  ~Acknowledges(k, s)
      BY DEF Settled, Acknowledges
    <2>1. Other(q) \in Peers /\ Other(q) # q /\ Other(Other(q)) = q
      BY OtherEnd
    <2>2. CASE q = p
      <3>1. k \in Copies(Other(p))
        BY <2>1, <2>2, <1>6
      <3>2. CASE s \in UnackedSeqs(p)
        BY <3>1, <3>2, <2>2, <1>0 DEF Settled
      <3>3. CASE s = nextOut[p]
        <4>1. s \notin accepted[Other(p)]
          BY <3>3, <1>0, <1>2, NumberFacts
        <4>2. QED
          BY <4>1, <3>1, <3>3, <2>1, <2>2, <1>0, <1>2, CopyFacts
      <3>4. QED
        BY <3>2, <3>3, <2>2, <1>5
    <2>3. CASE q # p
      <3>1. Other(q) = p
        BY <2>1, <2>3 DEF Peers
      <3>2. s \in UnackedSeqs(q)
        BY <2>3, <1>6
      <3>3. k # h
        BY <3>1, <1>0, <1>1, <1>2, <2>1, NumberFacts
      <3>4. k \in Copies(Other(q))
        BY <3>1, <3>3, <1>5
      <3>5. QED
        BY <3>2, <3>4, <1>0 DEF Settled
    <2>4. QED
      BY <2>2, <2>3
  <1>10. Debt'
    <2> SUFFICES ASSUME NEW q \in Peers, NEW s \in (UnackedSeqs(q))', s \in accepted[Other(q)]
                 PROVE  (Owed(Other(q), s))'
      BY DEF Debt
    <2>1. Other(q) \in Peers /\ Other(q) # q /\ Other(Other(q)) = q
      BY OtherEnd
    <2>2. CASE q = p
      <3>1. s # nextOut[p]
        BY <2>2, <1>0, <1>2, NumberFacts
      <3>2. Owed(Other(q), s)
        BY <3>1, <2>2, <1>0, <1>5 DEF Debt
      <3>3. unacked'[Other(q)] = unacked[Other(q)] /\ pendingAck'[Other(q)] = pendingAck[Other(q)]
        BY <2>1, <2>2, <1>4
      <3>4. QED
        BY <3>2, <3>3 DEF Owed, Acknowledges
    <2>3. CASE q # p
      <3>1. Other(q) = p
        BY <2>1, <2>3 DEF Peers
      <3>2. CASE highest[p] - s >= Window
        BY <3>1, <3>2 DEF Owed
      <3>3. CASE ~(highest[p] - s >= Window)
        <4>1. Acknowledges(h, s)
          BY <3>1, <3>3, <1>0, FreshHeaderAcks DEF h
        <4>2. new \in unacked'[p]
          BY <1>4
        <4>3. QED
          BY <3>1, <4>1, <4>2, <1>3 DEF Owed, Acknowledges
      <3>4. QED
        BY <3>2, <3>3
    <2>4. QED
      BY <2>2, <2>3
  <1>11. QED
    BY <1>7, <1>8, <1>9, <1>10 DEF DebtInv

\* Steps that take packets away, or repeat them, and accept nothing.
LEMMA FewerCopies ==
    ASSUME OneHeader, Settled,
           \A q \in Peers : (Copies(q))' \subseteq Copies(q),
           \A q \in Peers : (UnackedSeqs(q))' \subseteq UnackedSeqs(q),
           accepted' = accepted
    PROVE  OneHeader' /\ Settled'
  <1>1. OneHeader'
    BY DEF OneHeader
  <1>2. Settled'
    <2> SUFFICES ASSUME NEW q \in Peers, NEW k \in (Copies(Other(q)))',
                        k.seq \in accepted[q], NEW s \in (UnackedSeqs(q))'
                 PROVE  ~Acknowledges(k, s)
      BY DEF Settled, Acknowledges
    <2>1. k \in Copies(Other(q)) /\ s \in UnackedSeqs(q)
      BY OtherEnd
    <2>2. QED
      BY <2>1 DEF Settled
  <1>3. QED
    BY <1>1, <1>2

\* A packet received pays the debts it acknowledges; one accepted makes a new debt.
LEMMA ReceiveDebt ==
    ASSUME DebtInv, Inv', NEW p \in Peers, NEW m \in net, Receive(p, m)
    PROVE  DebtInv'
  <1> DEFINE r == Other(p)
  <1>0. Inv /\ AllReliable /\ OneHeader /\ Settled /\ Debt
    BY DEF DebtInv
  <1>1. /\ r \in Peers /\ r # p /\ Other(r) = p
        /\ \A q \in Peers : q = p \/ q = r
    BY OtherEnd DEF Peers, Other
  <1>2. /\ m.src = r /\ m \in Copies(r) /\ IsReliable(m.kind)
        /\ net' \subseteq net /\ dropped' = dropped
        /\ unacked' = [unacked EXCEPT ![p] =
                          {u \in unacked[p] : ~Acknowledges(m, u.pkt.seq)}]
    BY <1>0 DEF Receive, Handover, ProcessAcks, Copies, AllReliable
  <1> HIDE DEF r
  <1>3. /\ unacked'[p] = {u \in unacked[p] : ~Acknowledges(m, u.pkt.seq)}
        /\ unacked'[r] = unacked[r]
    BY <1>0, <1>1, <1>2 DEF Inv, TypeOK
  <1>4. /\ \A q \in Peers : (Copies(q))' \subseteq Copies(q)
        /\ (UnackedSeqs(r))' = UnackedSeqs(r)
        /\ (UnackedSeqs(p))' \subseteq UnackedSeqs(p)
        /\ \A s \in (UnackedSeqs(p))' : ~Acknowledges(m, s)
    BY <1>1, <1>2, <1>3 DEF Copies, UnackedSeqs
  <1>5. /\ accepted'[r] = accepted[r]
        /\ accepted[p] \subseteq accepted'[p]
        /\ \A t \in accepted'[p] \ accepted[p] : t = m.seq
    <2>1. /\ \A q \in Peers : accepted[q] \subseteq accepted'[q]
          /\ \A q \in Peers : \A t \in accepted'[q] \ accepted[q] : q = p /\ t = m.seq
      BY <1>0, ReceiveWindow DEF WindowStep
    <2>2. QED
      BY <2>1, <1>1
  <1>6. /\ \/ pendingAck'[p]
           \/ pendingAck' = pendingAck /\ highest' = highest /\ accepted' = accepted
        /\ pendingAck'[r] = pendingAck[r] /\ highest'[r] = highest[r]
    BY <1>0, <1>1 DEF Receive, NewHighest, FillsGap, Discard, Accept, Inv, TypeOK
  <1>7. AllReliable'
    BY <1>0, <1>2 DEF AllReliable
  <1>8. OneHeader'
    BY <1>0, <1>4 DEF OneHeader
  <1>9. Settled'
    <2> SUFFICES ASSUME NEW q \in Peers, NEW k \in (Copies(Other(q)))',
                        k.seq \in accepted'[q], NEW s \in (UnackedSeqs(q))'
                 PROVE  ~Acknowledges(k, s)
      BY DEF Settled, Acknowledges
    <2>1. k \in Copies(Other(q)) /\ s \in UnackedSeqs(q)
      BY <1>1, <1>4, OtherEnd
    <2>2. CASE k.seq \in accepted[q]
      BY <2>1, <2>2, <1>0 DEF Settled
    <2>3. CASE k.seq \notin accepted[q]
      <3>1. q = p /\ k.seq = m.seq
        BY <2>3, <1>1, <1>5
      <3>2. k = m
        BY <3>1, <2>1, <1>0, <1>1, <1>2 DEF OneHeader, r
      <3>3. QED
        BY <3>1, <3>2, <1>4
    <2>4. QED
      BY <2>2, <2>3
  <1>10. Debt'
    <2> SUFFICES ASSUME NEW q \in Peers, NEW s \in (UnackedSeqs(q))', s \in accepted'[Other(q)]
                 PROVE  (Owed(Other(q), s))'
      BY DEF Debt
    <2>1. CASE q = p
      <3>1. Other(q) = r /\ s \in UnackedSeqs(q) /\ s \in accepted[r]
        BY <2>1, <1>4, <1>5 DEF r
      <3>2. Owed(r, s)
        BY <3>1, <1>0 DEF Debt
      <3>3. QED
        BY <3>1, <3>2, <1>2, <1>3, <1>6 DEF Owed, Acknowledges
    <2>2. CASE q = r
      <3>1. Other(q) = p /\ s \in UnackedSeqs(q)
        BY <2>2, <1>1, <1>4
      <3>2. CASE pendingAck'[p]
        BY <3>1, <3>2 DEF Owed
      <3>3. CASE pendingAck' = pendingAck /\ highest' = highest /\ accepted' = accepted
        <4>1. Owed(p, s)
          BY <3>1, <3>3, <2>2, <1>0 DEF Debt
        <4>2. ASSUME NEW u \in unacked[p], Acknowledges(u.pkt, s)
              PROVE  u \in unacked'[p]
          <5>1. SUFFICES ~Acknowledges(m, u.pkt.seq)
            BY <5>1, <1>3
          <5>2. u.pkt \in Copies(p)
            BY DEF Copies
          <5>3. u.pkt.seq \notin accepted[r]
            BY <5>2, <4>2, <3>1, <2>2, <1>0, <1>1 DEF Settled
          <5>4. u.pkt.seq \in Nat \ {0}
            BY <5>2, <1>0, CopyFacts DEF Inv, TypeOK
          <5>5. QED
            BY <5>3, <5>4, <1>0, <1>1, <1>2, CopyFacts
        <4>3. QED
          BY <3>1, <3>3, <4>1, <4>2, <1>2 DEF Owed, Acknowledges
      <3>4. QED
        BY <3>2, <3>3, <1>6
    <2>3. QED
      BY <2>1, <2>2, <1>1
  <1>11. QED
    BY <1>7, <1>8, <1>9, <1>10 DEF DebtInv

\* A pass of retransmission repeats packets, and gives one up only with the connection.
LEMMA RetransmitDebt ==
    ASSUME DebtInv, Inv', NEW p \in Peers, NEW due \in SUBSET unacked[p], Retransmit(p, due)
    PROVE  DebtInv'
  <1> DEFINE exhausted == {u \in due : u.retries >= MaxRetries}
             resent == due \ exhausted
             renewed == {[u EXCEPT !.retries = @ + 1] : u \in resent}
  <1>0. Inv /\ AllReliable /\ OneHeader /\ Settled /\ Debt
    BY DEF DebtInv
  <1>1. /\ unacked' = [unacked EXCEPT ![p] = (unacked[p] \ due) \cup renewed]
        /\ dropped' = [dropped EXCEPT ![p] = exhausted # {}]
        /\ ~dropped[p]
        /\ net' = net \cup {u.pkt : u \in resent}
        /\ UNCHANGED <<highest, pendingAck, accepted>>
    BY DEF Retransmit
  <1>2. /\ DOMAIN unacked = Peers /\ DOMAIN dropped = Peers
        /\ due \subseteq unacked[p]
        /\ unacked[p] \subseteq [pkt : Packets, retries : Nat]
    BY <1>0 DEF Inv, TypeOK
  <1>3. \A u \in unacked[p] : [u EXCEPT !.retries = @ + 1].pkt = u.pkt
    BY <1>2
  <1>4. ASSUME NEW v \in (unacked[p] \ due) \cup renewed
        PROVE  \E u \in unacked[p] : v.pkt = u.pkt
    BY <1>2, <1>3
  <1>5. ASSUME NEW u \in unacked[p] \ exhausted
        PROVE  \E v \in (unacked[p] \ due) \cup renewed : v.pkt = u.pkt
    <2>1. CASE u \in due
      <3>1. [u EXCEPT !.retries = @ + 1] \in renewed
        BY <2>1
      <3>2. QED
        BY <3>1, <1>3
    <2>2. CASE u \notin due
      BY <2>2
    <2>3. QED
      BY <2>1, <2>2
  <1> HIDE DEF renewed, exhausted
  <1>6. /\ unacked'[p] = (unacked[p] \ due) \cup renewed
        /\ \A q \in Peers \ {p} : unacked'[q] = unacked[q] /\ dropped'[q] = dropped[q]
        /\ dropped'[p] = (exhausted # {})
    BY <1>1, <1>2
  <1>7. \A q \in Peers : \A v \in unacked'[q] : \E u \in unacked[q] : v.pkt = u.pkt
    BY <1>4, <1>6
  <1>8. \A x \in resent : x \in unacked[p] /\ x.pkt.src = p /\ IsReliable(x.pkt.kind)
    BY <1>0, <1>2 DEF Inv, NumbersWereSent
  <1>9. /\ \A q \in Peers : (Copies(q))' \subseteq Copies(q)
        /\ \A q \in Peers : (UnackedSeqs(q))' \subseteq UnackedSeqs(q)
    BY <1>1, <1>7, <1>8 DEF Copies, UnackedSeqs
  <1>10. AllReliable'
    BY <1>0, <1>1, <1>8 DEF AllReliable
  <1>11. OneHeader' /\ Settled'
    BY <1>0, <1>1, <1>9, FewerCopies
  <1>12. Debt'
    <2> SUFFICES ASSUME NEW q \in Peers, NEW s \in (UnackedSeqs(q))', s \in accepted[Other(q)]
                 PROVE  (Owed(Other(q), s))'
      BY <1>1 DEF Debt
    <2>1. Owed(Other(q), s) /\ Other(q) \in Peers
      BY <1>0, <1>9, OtherEnd DEF Debt
    <2>2. CASE Other(q) # p
      BY <2>1, <2>2, <1>1, <1>6 DEF Owed, Acknowledges
    <2>3. CASE Other(q) = p /\ exhausted # {}
      BY <2>3, <1>6 DEF Owed
    <2>4. CASE Other(q) = p /\ exhausted = {}
      <3>1. \A u \in unacked[p] : \E v \in unacked'[p] : v.pkt = u.pkt
        BY <2>4, <1>5, <1>6
      <3>2. QED
        BY <3>1, <2>1, <2>4, <1>1 DEF Owed, Acknowledges
    <2>5. QED
      BY <2>2, <2>3, <2>4
  <1>13. QED
    BY <1>10, <1>11, <1>12 DEF DebtInv

\* Losing a datagram, deciding to acknowledge and stuttering touch no kept packet.
LEMMA KeptDebt ==
    ASSUME DebtInv, Inv', net' \subseteq net,
           UNCHANGED <<unacked, highest, pendingAck, dropped, accepted>>
    PROVE  DebtInv'
  <1>0. AllReliable /\ OneHeader /\ Settled /\ Debt
    BY DEF DebtInv
  <1>1. /\ \A q \in Peers : (Copies(q))' \subseteq Copies(q)
        /\ \A q \in Peers : (UnackedSeqs(q))' = UnackedSeqs(q)
    BY DEF Copies, UnackedSeqs
  <1>2. OneHeader' /\ Settled'
    BY <1>0, <1>1, FewerCopies
  <1>3. AllReliable'
    BY <1>0 DEF AllReliable
  <1>4. Debt'
    BY <1>0, <1>1 DEF Debt, Owed, Acknowledges
  <1>5. QED
    BY <1>2, <1>3, <1>4 DEF DebtInv

-----------------------------------------------------------------------------
(* The theorem                                                              *)

LEMMA NextDebt ==
    ASSUME Traffic \subseteq {"data"}, DebtInv, [Next]_vars
    PROVE  DebtInv'
  <1>0. Inv /\ Inv'
    BY NextInv DEF DebtInv
  <1>1. ASSUME NEW p \in Peers, SendReliable(p)
        PROVE  DebtInv'
    <2>1. "data" \in Kinds /\ IsReliable("data")
      BY DEF Kinds, IsReliable
    <2>2. PrepareOutgoing(p, "data") /\ UNCHANGED <<highest, dropped, accepted>>
      BY <1>1 DEF SendReliable, history
    <2>3. nextOut[p] <= MaxSeq[p]
      <3>1. Room(p) /\ nextOut[p] \in Nat /\ MaxSeq[p] \in Nat
        BY <1>0, <1>1, NoWrapAssumption DEF SendReliable, Inv, TypeOK
      <3>2. QED
        BY <3>1 DEF Room
    <2>4. QED
      BY <1>0, <2>1, <2>2, <2>3, SendDebt
  <1>2. ASSUME NEW p \in Peers, SendUnreliable(p)
        PROVE  DebtInv'
    BY <1>2 DEF SendUnreliable
  <1>3. ASSUME NEW p \in Peers, DecideAck(p)
        PROVE  DebtInv'
    BY <1>0, <1>3, KeptDebt DEF DecideAck, history
  <1>4. ASSUME NEW p \in Peers, SendAckOnly(p)
        PROVE  DebtInv'
    <2>1. "ack" \in Kinds /\ IsReliable("ack")
      BY DEF Kinds, IsReliable
    <2>2. PrepareOutgoing(p, "ack") /\ UNCHANGED <<highest, dropped, accepted>>
      BY <1>4 DEF SendAckOnly, history
    <2>3. nextOut[p] <= MaxSeq[p]
      BY <1>0, <1>4 DEF SendAckOnly, Inv, AckHasRoom
    <2>4. QED
      BY <1>0, <2>1, <2>2, <2>3, SendDebt
  <1>5. ASSUME NEW p \in Peers, NEW m \in net, Receive(p, m)
        PROVE  DebtInv'
    BY <1>0, <1>5, ReceiveDebt
  <1>6. ASSUME NEW p \in Peers, NEW due \in SUBSET unacked[p], Retransmit(p, due)
        PROVE  DebtInv'
    BY <1>0, <1>6, RetransmitDebt
  <1>7. ASSUME NEW m \in net, Lose(m)
        PROVE  DebtInv'
    <2>1. net' \subseteq net /\ UNCHANGED <<unacked, highest, pendingAck, dropped, accepted>>
      BY <1>7 DEF Lose, connection, history
    <2>2. QED
      BY <1>0, <2>1, KeptDebt
  <1>8. CASE UNCHANGED vars
    <2>1. UNCHANGED <<net, unacked, highest, pendingAck, dropped, accepted>>
      BY <1>8 DEF vars, connection, history
    <2>2. QED
      BY <1>0, <2>1, KeptDebt
  <1>9. QED
    BY <1>1, <1>2, <1>3, <1>4, <1>5, <1>6, <1>7, <1>8 DEF Next

\* With reliable traffic only, a receiver owes the acknowledgement of every packet
\* it has accepted until the sender has it (hasPendingAckToSend and the packets
\* kept for retransmission), or until the packet has left the bitfield.
THEOREM DebtCorrect ==
    ASSUME Traffic \subseteq {"data"}
    PROVE  Spec => []AckDebtIsHeld
  <1>1. DebtInv /\ [Next]_vars => DebtInv'
    BY NextDebt
  <1>2. DebtInv => AckDebtIsHeld
    BY DEF DebtInv, Debt, Owed, AckDebtIsHeld
  <1>3. QED
    BY <1>1, <1>2, InitDebt, PTL DEF Spec
=============================================================================
