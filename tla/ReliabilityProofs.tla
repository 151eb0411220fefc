------------------------ MODULE ReliabilityProofs ------------------------
(***************************************************************************)
(* Safety of the reliability protocol for every window, retry limit and    *)
(* bound: types, truth of the receive window, honesty of every header,     *)
(* no packet retired unseen, repeats only at the window's edge and none at *)
(* all under flow control; and the sequence numbers on the whole circle.   *)
(***************************************************************************)
EXTENDS Reliability, TLAPS

-----------------------------------------------------------------------------
(* Arithmetic and the two ends                                              *)

USE EndsAssumption, WindowAssumption, RetriesAssumption, NoWrapAssumption,
    BoundsAssumption, SeqModAssumption

\* The end facing an end is the other one.
LEMMA OtherEnd ==
    \A p \in Peers : Other(p) \in Peers /\ Other(p) # p /\ Other(Other(p)) = p
  BY DEF Peers, Other

\* The half range lies within the modulus.
LEMMA HalfRangeBound == HalfRange \in Nat /\ HalfRange <= SeqMod
  BY DEF HalfRange

\* Below the half range the circular order of the code is the usual one, and the
\* difference and the successor do not wrap.
LEMMA SequenceOrder ==
    ASSUME NEW s \in Nat, NEW t \in Nat, s < HalfRange, t < HalfRange
    PROVE  /\ IsSequenceGreaterThan(s, t) <=> s > t
           /\ IsSequenceLessThan(s, t) <=> s < t
           /\ s >= t => SeqDiff(s, t) = s - t
           /\ s + 1 < HalfRange => SeqSucc(s) = s + 1
  BY HalfRangeBound DEF IsSequenceGreaterThan, IsSequenceLessThan, SeqDiff, SeqSucc

\* How large the half of the circle is.
LEMMA HalfFacts ==
    /\ HalfRange \in Nat \ {0}
    /\ 2 * HalfRange >= SeqMod /\ 2 * HalfRange <= SeqMod + 1
  <1>1. /\ SeqMod - 1 = 2 * ((SeqMod - 1) \div 2) + ((SeqMod - 1) % 2)
        /\ (SeqMod - 1) % 2 \in 0 .. 1
    OBVIOUS
  <1>2. QED
    BY <1>1 DEF HalfRange

\* Of two different numbers, wrapped around or not, exactly one is the greater
\* (IsSequenceGreaterThan, IsSequenceLessThan): no packet is both new and old.
THEOREM OrderIsTotal ==
    ASSUME NEW s \in SequenceNumber, NEW t \in SequenceNumber, s # t
    PROVE  IsSequenceGreaterThan(s, t) <=> ~IsSequenceLessThan(s, t)
  BY HalfFacts DEF SequenceNumber, IsSequenceGreaterThan, IsSequenceLessThan, SeqDiff

\* The order is that of the way ahead: s is greater than t if it lies less than half
\* the circle ahead of it, wherever on the circle that is; only opposite numbers are
\* ordered by their size.
THEOREM GreaterIsAhead ==
    ASSUME NEW s \in SequenceNumber, NEW t \in SequenceNumber, s # t
    PROVE  /\ SeqDiff(s, t) # SeqDiff(t, s) =>
                  (IsSequenceGreaterThan(s, t) <=> SeqDiff(s, t) < SeqDiff(t, s))
           /\ SeqDiff(s, t) = SeqDiff(t, s) => (IsSequenceGreaterThan(s, t) <=> s < t)
  BY HalfFacts DEF SequenceNumber, IsSequenceGreaterThan, SeqDiff

\* Acknowledges, which ProcessAcks computes with plain comparisons of the numbers,
\* never takes a bit for another packet's, across a wrap either; but of the packets whose
\* bit is set, all of which are behind the acknowledged number in the circular order, it
\* sees those only that no wrap divides from that number.
THEOREM AcksMissWrap ==
    ASSUME 2 * Window < SeqMod,
           NEW m \in [ack : SequenceNumber, bits : SUBSET (1 .. Window)],
           NEW s \in SequenceNumber
    PROVE  /\ Acknowledges(m, s) => s = m.ack \/ SeqDiff(m.ack, s) \in m.bits
           /\ SeqDiff(m.ack, s) \in m.bits =>
                  IsSequenceLessThan(s, m.ack) /\ (Acknowledges(m, s) <=> s < m.ack)
  <1>1. m.ack \in SequenceNumber /\ m.bits \subseteq 1 .. Window
    OBVIOUS
  <1>2. SeqDiff(m.ack, s) = IF s <= m.ack THEN m.ack - s ELSE m.ack + SeqMod - s
    BY <1>1 DEF SequenceNumber, SeqDiff
  <1>3. Acknowledges(m, s) => s = m.ack \/ SeqDiff(m.ack, s) \in m.bits
    BY <1>1, <1>2 DEF Acknowledges, SequenceNumber
  <1>4. ASSUME SeqDiff(m.ack, s) \in m.bits
        PROVE  IsSequenceLessThan(s, m.ack) /\ (Acknowledges(m, s) <=> s < m.ack)
    <2>1. SeqDiff(m.ack, s) \in 1 .. Window
      BY <1>1, <1>4
    <2>2. s # m.ack
      BY <1>1, <1>2, <2>1 DEF SequenceNumber
    <2>3. Acknowledges(m, s) <=> s < m.ack
      BY <1>1, <1>2, <1>4, <2>2 DEF Acknowledges, SequenceNumber
    <2>4. IsSequenceLessThan(s, m.ack)
      BY <1>1, <2>1, <2>2, HalfFacts
         DEF SequenceNumber, IsSequenceLessThan, IsSequenceGreaterThan, SeqDiff
    <2>5. QED
      BY <2>3, <2>4
  <1>5. QED
    BY <1>3, <1>4

\* Ways ahead add up, across a wrap too.
LEMMA AheadAddsUp ==
    ASSUME NEW r \in SequenceNumber, NEW s \in SequenceNumber, NEW t \in SequenceNumber,
           SeqDiff(s, r) + SeqDiff(t, s) < SeqMod
    PROVE  SeqDiff(t, r) = SeqDiff(s, r) + SeqDiff(t, s)
  BY DEF SequenceNumber, SeqDiff

\* A number has one way ahead to each other number.
LEMMA AheadIsOneWay ==
    ASSUME NEW r \in SequenceNumber, NEW s \in SequenceNumber, NEW t \in SequenceNumber,
           SeqDiff(t, r) = SeqDiff(t, s)
    PROVE  r = s
  BY DEF SequenceNumber, SeqDiff

\* The bitfield keeps its meaning when the highest number moves from h up to s, be it
\* across a wrap: a number other than s that lies up to Window behind s has its bit if
\* and only if it was h or had its bit before, and s did not jump Window or more.
THEOREM WindowCrossesWrap ==
    ASSUME 2 * Window < SeqMod,
           NEW h \in SequenceNumber, NEW s \in SequenceNumber, NEW r \in SequenceNumber,
           NEW bits \in SUBSET (1 .. Window),
           s # h, SeqDiff(s, r) \in 1 .. Window
    PROVE  SeqDiff(s, r) \in Shifted(bits, SeqDiff(s, h)) <=>
               SeqDiff(s, h) < Window /\ (r = h \/ SeqDiff(h, r) \in bits)
  <1> DEFINE d == SeqDiff(s, h)
             e == SeqDiff(s, r)
  <1>1. d \in Nat \ {0} /\ e \in Nat \ {0} /\ d < SeqMod /\ SeqDiff(h, r) \in 0 .. (SeqMod - 1)
    BY DEF SequenceNumber, SeqDiff
  <1>2. CASE d >= Window
    BY <1>1, <1>2 DEF Shifted
  <1>3. CASE d < Window
    <2>1. e \in Shifted(bits, d) <=> e = d \/ \E b \in bits : e = b + d
      BY <1>1, <1>3 DEF Shifted
    <2>2. e = d <=> r = h
      BY AheadIsOneWay
    <2>3. ASSUME NEW b \in bits, e = b + d
          PROVE  SeqDiff(h, r) \in bits
      <3>1. b = SeqDiff(h, r)
        BY <2>3, <1>1, <1>3 DEF SequenceNumber, SeqDiff
      <3>2. QED
        BY <3>1
    <2>4. ASSUME SeqDiff(h, r) \in bits
          PROVE  e = SeqDiff(h, r) + d
      BY <2>4, <1>1, <1>3, AheadAddsUp
    <2>5. QED
      BY <1>3, <2>1, <2>2, <2>3, <2>4
  <1>4. QED
    BY <1>1, <1>2, <1>3

\* Moving the window up by d: the old highest number gets bit d, older bits move up
\* by d, and what leaves the bitfield is forgotten.
LEMMA ShiftedBits ==
    ASSUME NEW bits \in SUBSET (1 .. Window), NEW d \in Nat \ {0}
    PROVE  /\ Shifted(bits, d) \subseteq 1 .. Window
           /\ \A e \in Shifted(bits, d) : e = d \/ e - d \in bits
           /\ d < Window => d \in Shifted(bits, d)
           /\ \A b \in bits : b + d < Window => b + d \in Shifted(bits, d)
  BY DEF Shifted

-----------------------------------------------------------------------------
(* The inductive invariant.  Accounted is not inductive: it needs           *)
(* honest headers, these need a truthful window, and both need numbers that *)
(* were really sent and lie below the half range.                           *)

\* Numbers tracked, in flight or accepted were handed out by their sender.
NumbersWereSent ==
    /\ \A p \in Peers : \A u \in unacked[p] :
           /\ u.pkt.src = p
           /\ IsReliable(u.pkt.kind)
           /\ u.pkt.seq \in 1 .. (nextOut[p] - 1)
    /\ \A m \in net : IsReliable(m.kind) => m.seq \in 1 .. (nextOut[m.src] - 1)
    /\ \A p \in Peers : \A s \in accepted[p] : s < nextOut[Other(p)]

\* A decided acknowledgement has a number left (bound MaxSeq).
AckHasRoom == \A p \in Peers : acking[p] => nextOut[p] <= MaxSeq[p]

\* A number handed out is tracked, given up or accepted by the other end.
Accounted ==
    \A p \in Peers :
        \A s \in 1 .. (nextOut[p] - 1) :
            s \in UnackedSeqs(p) \cup gaveUp[p] \cup accepted[Other(p)]

Inv ==
    /\ TypeOK
    /\ NumbersWereSent
    /\ AckHasRoom
    /\ WindowIsTruthful
    /\ HonestHeaders
    /\ Accounted

LEMMA InitInv == Init => Inv
  BY OtherEnd DEF Init, Inv, TypeOK, NumbersWereSent, AckHasRoom, WindowIsTruthful,
     HonestHeaders, Accounted

\* A header written now is well formed and honest, because the window is truthful.
LEMMA HeaderIsHonest ==
    ASSUME Inv, NEW p \in Peers, NEW kind \in Kinds
    PROVE  /\ Header(p, kind) \in Packets
           /\ Header(p, kind).src = p
           /\ Header(p, kind).kind = kind
           /\ IsReliable(kind) => Header(p, kind).seq = nextOut[p]
           /\ Header(p, kind).ack \in accepted[p] \cup {0}
           /\ \A d \in Header(p, kind).bits : Header(p, kind).ack - d \in accepted[p] \cup {0}
  <1>1. Header(p, kind) \in Packets
    BY DEF Inv, TypeOK, Header, Packets
  <1>2. QED
    BY <1>1 DEF Inv, WindowIsTruthful, Header

\* Sending a packet of any kind keeps the invariant.
LEMMA PrepareOutgoingInv ==
    ASSUME Inv, NEW p \in Peers, NEW kind \in Kinds,
           PrepareOutgoing(p, kind),
           UNCHANGED <<highest, bitfield, dropped, history, faults>>,
           IsReliable(kind) => nextOut[p] <= MaxSeq[p],
           acking' \in [Peers -> BOOLEAN],
           \A q \in Peers : acking'[q] => nextOut'[q] <= MaxSeq[q]
    PROVE  Inv'
  <1> DEFINE h == Header(p, kind)
             new == [pkt |-> h, retries |-> 0]
  <1>h. /\ h \in Packets
        /\ h.src = p
        /\ h.kind = kind
        /\ IsReliable(kind) => h.seq = nextOut[p]
        /\ h.ack \in accepted[p] \cup {0}
        /\ \A d \in h.bits : h.ack - d \in accepted[p] \cup {0}
    BY HeaderIsHonest
  <1> HIDE DEF h
  <1>n. /\ nextOut' \in [Peers -> Nat \ {0}]
        /\ \A q \in Peers : nextOut'[q] >= nextOut[q] /\ nextOut'[q] <= MaxSeq[q] + 1
        /\ IsReliable(kind) => nextOut' = [nextOut EXCEPT ![p] = nextOut[p] + 1]
        /\ ~IsReliable(kind) => nextOut' = nextOut
    <2>1. CASE IsReliable(kind)
      <3>1. nextOut[p] \in Nat /\ nextOut[p] + 1 < HalfRange
        BY <2>1, HalfRangeBound DEF Inv, TypeOK
      <3>2. SeqSucc(nextOut[p]) = nextOut[p] + 1
        BY <3>1, SequenceOrder, HalfRangeBound
      <3>3. nextOut' = [nextOut EXCEPT ![p] = nextOut[p] + 1]
        BY <2>1, <3>2 DEF PrepareOutgoing
      <3>4. QED
        BY <2>1, <3>3 DEF Inv, TypeOK
    <2>2. CASE ~IsReliable(kind)
      BY <2>2 DEF PrepareOutgoing, Inv, TypeOK
    <2>3. QED
      BY <2>1, <2>2
  <1>u. /\ IsReliable(kind) => unacked' = [unacked EXCEPT ![p] = unacked[p] \cup {new}]
        /\ ~IsReliable(kind) => unacked' = unacked
        /\ net' = net \cup {h}
        /\ pendingAck' = [pendingAck EXCEPT ![p] = FALSE]
    BY DEF PrepareOutgoing, h
  <1>o. /\ accepted' = accepted /\ repeats' = repeats /\ gaveUp' = gaveUp
        /\ highest' = highest /\ bitfield' = bitfield /\ dropped' = dropped /\ faults' = faults
    BY DEF history
  <1>1. TypeOK'
    BY <1>h, <1>n, <1>u, <1>o DEF Inv, TypeOK
  <1>2. NumbersWereSent'
    <2>1. ASSUME NEW q \in Peers, NEW u \in unacked'[q]
          PROVE  u.pkt.src = q /\ IsReliable(u.pkt.kind) /\ u.pkt.seq \in 1 .. (nextOut'[q] - 1)
      <3>1. CASE u \in unacked[q]
        BY <3>1, <1>n DEF Inv, TypeOK, NumbersWereSent
      <3>2. CASE u \notin unacked[q]
        <4>1. IsReliable(kind) /\ q = p /\ u = new
          BY <3>2, <1>u DEF Inv, TypeOK
        <4>2. QED
          BY <4>1, <1>h, <1>n DEF Inv, TypeOK
      <3>3. QED
        BY <3>1, <3>2
    <2>2. ASSUME NEW m \in net', IsReliable(m.kind)
          PROVE  m.seq \in 1 .. (nextOut'[m.src] - 1)
      <3>1. CASE m \in net
        <4>1. m.src \in Peers /\ m.seq \in 1 .. (nextOut[m.src] - 1)
          BY <2>2, <3>1 DEF Inv, TypeOK, NumbersWereSent, Packets
        <4>2. QED
          BY <4>1, <1>n DEF Inv, TypeOK
      <3>2. CASE m = h
        BY <2>2, <3>2, <1>h, <1>n DEF Inv, TypeOK
      <3>3. QED
        BY <3>1, <3>2, <1>u
    <2>3. ASSUME NEW q \in Peers, NEW s \in accepted'[q]
          PROVE  s < nextOut'[Other(q)]
      <3>1. s \in Nat /\ Other(q) \in Peers /\ s < nextOut[Other(q)]
        BY <1>o, OtherEnd DEF Inv, TypeOK, NumbersWereSent
      <3>2. QED
        BY <3>1, <1>n DEF Inv, TypeOK
    <2>4. QED
      BY <2>1, <2>2, <2>3 DEF NumbersWereSent
  <1>3. AckHasRoom'
    BY DEF AckHasRoom
  <1>4. WindowIsTruthful'
    BY <1>o DEF Inv, WindowIsTruthful
  <1>5. HonestHeaders'
    <2> SUFFICES ASSUME NEW m \in net' \cup UNION {{u.pkt : u \in unacked'[q]} : q \in Peers}
                 PROVE  /\ m.ack \in accepted[m.src] \cup {0}
                        /\ \A d \in m.bits : m.ack - d \in accepted[m.src] \cup {0}
      BY <1>o DEF HonestHeaders
    <2>1. m = h \/ m \in net \cup UNION {{u.pkt : u \in unacked[q]} : q \in Peers}
      <3>1. CASE m \in net'
        BY <3>1, <1>u
      <3>2. CASE m \notin net'
        <4>0. PICK q \in Peers : \E u \in unacked'[q] : m = u.pkt
          BY <3>2
        <4>1. PICK u \in unacked'[q] : m = u.pkt
          BY <4>0
        <4>2. u \in unacked[q] \/ u = new
          BY <4>1, <1>u DEF Inv, TypeOK
        <4>3. QED
          BY <4>1, <4>2
      <3>3. QED
        BY <3>1, <3>2
    <2>2. QED
      BY <2>1, <1>h DEF Inv, HonestHeaders
  <1>6. Accounted'
    <2> SUFFICES ASSUME NEW q \in Peers, NEW s \in 1 .. (nextOut'[q] - 1)
                 PROVE  s \in (UnackedSeqs(q))' \cup gaveUp[q] \cup accepted[Other(q)]
      BY <1>o DEF Accounted
    <2>1. CASE s \in 1 .. (nextOut[q] - 1)
      <3>1. UnackedSeqs(q) \subseteq (UnackedSeqs(q))'
        BY <1>u DEF UnackedSeqs, Inv, TypeOK
      <3>2. QED
        BY <2>1, <3>1 DEF Inv, Accounted
    <2>2. CASE s \notin 1 .. (nextOut[q] - 1)
      <3>1. IsReliable(kind) /\ q = p /\ s = nextOut[p]
        <4>1. nextOut[q] \in Nat \ {0} /\ s \in Nat \ {0} /\ s >= nextOut[q]
          BY <2>2, <1>n DEF Inv, TypeOK
        <4>2. nextOut'[q] # nextOut[q]
          BY <4>1
        <4>3. IsReliable(kind) /\ q = p /\ nextOut'[q] = nextOut[p] + 1
          BY <4>2, <1>n DEF Inv, TypeOK
        <4>4. QED
          BY <4>1, <4>3
      <3>2. new \in unacked'[p] /\ new.pkt.seq = s
        BY <3>1, <1>u, <1>h DEF Inv, TypeOK
      <3>3. s \in (UnackedSeqs(q))'
        BY <3>1, <3>2 DEF UnackedSeqs
      <3>4. QED
        BY <3>3
    <2>3. QED
      BY <2>1, <2>2
  <1>7. QED
    BY <1>1, <1>2, <1>3, <1>4, <1>5, <1>6 DEF Inv

LEMMA SendReliableInv ==
    ASSUME Inv, NEW p \in Peers, SendReliable(p)
    PROVE  Inv'
  <1>1. nextOut[p] \in Nat /\ MaxSeq[p] \in Nat
    BY DEF Inv, TypeOK
  <1>2. nextOut[p] <= MaxSeq[p] /\ (acking[p] => nextOut[p] + 1 <= MaxSeq[p])
    BY <1>1 DEF SendReliable, Room
  <1>3. nextOut' = [nextOut EXCEPT ![p] = nextOut[p] + 1]
    <2>1. SeqSucc(nextOut[p]) = nextOut[p] + 1
      BY <1>1, <1>2, SequenceOrder, HalfRangeBound
    <2>2. QED
      BY <2>1 DEF SendReliable, PrepareOutgoing, IsReliable
  <1>4. acking' = acking
    BY DEF SendReliable
  <1>5. \A q \in Peers : acking'[q] => nextOut'[q] <= MaxSeq[q]
    BY <1>2, <1>3, <1>4 DEF Inv, TypeOK, AckHasRoom
  <1>6. acking' \in [Peers -> BOOLEAN]
    BY <1>4 DEF Inv, TypeOK
  <1>7. PrepareOutgoing(p, "data") /\ UNCHANGED <<highest, bitfield, dropped, history, faults>>
    BY DEF SendReliable
  <1>8. "data" \in Kinds
    BY DEF Kinds
  <1>9. QED
    BY <1>2, <1>5, <1>6, <1>7, <1>8, PrepareOutgoingInv

LEMMA SendUnreliableInv ==
    ASSUME Inv, NEW p \in Peers, SendUnreliable(p)
    PROVE  Inv'
  <1>1. ~IsReliable("unreliable") /\ "unreliable" \in Kinds
    BY DEF IsReliable, Kinds
  <1>2. acking' = acking /\ nextOut' = nextOut
    BY <1>1 DEF SendUnreliable, PrepareOutgoing
  <1>3. /\ PrepareOutgoing(p, "unreliable")
        /\ UNCHANGED <<highest, bitfield, dropped, history, faults>>
    BY DEF SendUnreliable
  <1>4. acking' \in [Peers -> BOOLEAN] /\ \A q \in Peers : acking'[q] => nextOut'[q] <= MaxSeq[q]
    BY <1>2 DEF Inv, TypeOK, AckHasRoom
  <1>5. QED
    BY <1>1, <1>3, <1>4, PrepareOutgoingInv

LEMMA SendAckOnlyInv ==
    ASSUME Inv, NEW p \in Peers, SendAckOnly(p)
    PROVE  Inv'
  <1>1. nextOut[p] \in Nat /\ MaxSeq[p] \in Nat /\ nextOut[p] <= MaxSeq[p]
    BY DEF Inv, TypeOK, AckHasRoom, SendAckOnly
  <1>2. \A q \in Peers : q # p => nextOut'[q] = nextOut[q]
    BY DEF Inv, TypeOK, SendAckOnly, PrepareOutgoing
  <1>3. acking' = [acking EXCEPT ![p] = FALSE]
    BY DEF SendAckOnly
  <1>4. acking' \in [Peers -> BOOLEAN] /\ \A q \in Peers : acking'[q] => nextOut'[q] <= MaxSeq[q]
    BY <1>2, <1>3 DEF Inv, TypeOK, AckHasRoom
  <1>5. PrepareOutgoing(p, "ack") /\ UNCHANGED <<highest, bitfield, dropped, history, faults>>
    BY DEF SendAckOnly
  <1>6. "ack" \in Kinds
    BY DEF Kinds
  <1>7. QED
    BY <1>1, <1>4, <1>5, <1>6, PrepareOutgoingInv

\* The invariant speaks of pendingAck and acking only in TypeOK and AckHasRoom.
LEMMA DecideAckInv ==
    ASSUME Inv, NEW p \in Peers, DecideAck(p)
    PROVE  Inv'
  <1>1. /\ acking' = [acking EXCEPT ![p] = TRUE]
        /\ nextOut' = nextOut /\ unacked' = unacked /\ highest' = highest
        /\ bitfield' = bitfield /\ pendingAck' = pendingAck /\ dropped' = dropped
        /\ net' = net /\ accepted' = accepted /\ repeats' = repeats
        /\ gaveUp' = gaveUp /\ faults' = faults
    BY DEF DecideAck, history
  <1>2. nextOut[p] <= MaxSeq[p]
    BY DEF DecideAck, Room, Inv, TypeOK
  <1>3. TypeOK'
    BY <1>1 DEF Inv, TypeOK
  <1>4. AckHasRoom'
    BY <1>1, <1>2 DEF Inv, TypeOK, AckHasRoom
  <1>5. /\ NumbersWereSent' /\ WindowIsTruthful' /\ HonestHeaders' /\ Accounted'
    BY <1>1 DEF Inv, NumbersWereSent, WindowIsTruthful, HonestHeaders, Accounted,
                UnackedSeqs
  <1>6. QED
    BY <1>3, <1>4, <1>5 DEF Inv

-----------------------------------------------------------------------------
(* Receiving                                                                *)

\* Numbers in flight and highest numbers lie below the half range, so the circular
\* order on them is the usual one.
LEMMA NumbersInHalfRange ==
    ASSUME Inv, NEW p \in Peers, NEW m \in net, m.src = Other(p), IsReliable(m.kind)
    PROVE  /\ m.seq \in Nat \ {0} /\ m.seq < HalfRange /\ m.seq < nextOut[Other(p)]
           /\ highest[p] \in Nat /\ highest[p] < HalfRange
  <1>1. Other(p) \in Peers
    BY OtherEnd
  <1>2. /\ nextOut[Other(p)] \in Nat \ {0} /\ nextOut[Other(p)] <= MaxSeq[Other(p)] + 1
        /\ MaxSeq[Other(p)] \in Nat /\ MaxSeq[Other(p)] + 1 < HalfRange
    BY <1>1 DEF Inv, TypeOK
  <1>3. m.seq \in 1 .. (nextOut[Other(p)] - 1)
    BY DEF Inv, NumbersWereSent
  <1>4. highest[p] \in Nat /\ (highest[p] = 0 \/ highest[p] < nextOut[Other(p)])
    BY DEF Inv, TypeOK, WindowIsTruthful, NumbersWereSent
  <1>5. QED
    BY <1>2, <1>3, <1>4, HalfRangeBound

\* What the receive side of a step does to the window of p.
WindowStep(p, s) ==
    /\ highest' \in [Peers -> Nat]
    /\ bitfield' \in [Peers -> SUBSET (1 .. Window)]
    /\ pendingAck' \in [Peers -> BOOLEAN]
    /\ accepted' \in [Peers -> SUBSET (Nat \ {0})]
    /\ repeats' \in [Peers -> SUBSET (Nat \ {0})]
    /\ \A q \in Peers : accepted[q] \subseteq accepted'[q]
    /\ \A q \in Peers : \A t \in accepted'[q] \ accepted[q] : q = p /\ t = s
    /\ WindowIsTruthful'
    /\ \A q \in Peers : \A t \in repeats'[q] \ repeats[q] : t = highest[q] - Window

\* A new highest number was never accepted before, and the shifted bitfield still
\* tells the truth.
LEMMA NewHighestStep ==
    ASSUME Inv, NEW p \in Peers, NEW m \in net, m.src = Other(p), IsReliable(m.kind),
           NewHighest(p, m.seq)
    PROVE  WindowStep(p, m.seq) /\ m.seq < nextOut[Other(p)]
  <1> DEFINE s == m.seq
             d == s - highest[p]
  <1>0. /\ s \in Nat \ {0} /\ s < HalfRange /\ s < nextOut[Other(p)]
        /\ highest[p] \in Nat /\ highest[p] < HalfRange
    BY NumbersInHalfRange
  <1>1. s > highest[p] /\ SeqDiff(s, highest[p]) = d /\ d \in Nat \ {0}
    BY <1>0, SequenceOrder DEF NewHighest
  <1>2. /\ highest' = [highest EXCEPT ![p] = s]
        /\ bitfield' = [bitfield EXCEPT ![p] = Shifted(bitfield[p], d)]
        /\ pendingAck' = [pendingAck EXCEPT ![p] = TRUE]
        /\ accepted' = [accepted EXCEPT ![p] = accepted[p] \cup {s}]
        /\ repeats' = [repeats EXCEPT ![p] = repeats[p] \cup ({s} \cap accepted[p])]
    BY <1>1 DEF NewHighest, Accept
  <1> HIDE DEF s
  <1>3. bitfield[p] \in SUBSET (1 .. Window)
    BY DEF Inv, TypeOK
  <1>4. /\ Shifted(bitfield[p], d) \subseteq 1 .. Window
        /\ \A e \in Shifted(bitfield[p], d) : e = d \/ e - d \in bitfield[p]
        /\ d < Window => d \in Shifted(bitfield[p], d)
        /\ \A b \in bitfield[p] : b + d < Window => b + d \in Shifted(bitfield[p], d)
    BY <1>1, <1>3, ShiftedBits
  <1>5. s \notin accepted[p]
    BY <1>0, <1>1 DEF Inv, TypeOK, WindowIsTruthful
  <1>6. WindowIsTruthful'
    <2> SUFFICES ASSUME NEW q \in Peers
                 PROVE  /\ \A t \in accepted'[q] : t <= highest'[q]
                        /\ highest'[q] \in accepted'[q] \cup {0}
                        /\ \A e \in bitfield'[q] : highest'[q] - e \in accepted'[q] \cup {0}
                        /\ \A t \in accepted'[q] :
                               highest'[q] - t \in 1 .. (Window - 1)
                                   => highest'[q] - t \in bitfield'[q]
      BY DEF WindowIsTruthful
    <2>1. CASE q # p
      <3>1. /\ highest'[q] = highest[q] /\ bitfield'[q] = bitfield[q]
            /\ accepted'[q] = accepted[q]
        BY <2>1, <1>2 DEF Inv, TypeOK
      <3>2. QED
        BY <3>1 DEF Inv, WindowIsTruthful
    <2>2. CASE q = p
      <3>1. /\ highest'[q] = s /\ bitfield'[q] = Shifted(bitfield[p], d)
            /\ accepted'[q] = accepted[p] \cup {s}
        BY <2>2, <1>2 DEF Inv, TypeOK
      <3>2. /\ accepted[p] \subseteq Nat \ {0}
            /\ \A t \in accepted[p] : t <= highest[p]
            /\ highest[p] \in accepted[p] \cup {0}
            /\ \A e \in bitfield[p] : highest[p] - e \in accepted[p] \cup {0}
            /\ \A t \in accepted[p] :
                   highest[p] - t \in 1 .. (Window - 1) => highest[p] - t \in bitfield[p]
        BY DEF Inv, TypeOK, WindowIsTruthful
      <3>3. \A t \in accepted'[q] : t <= s
        BY <3>1, <3>2, <1>0, <1>1
      <3>4. ASSUME NEW e \in Shifted(bitfield[p], d)
            PROVE  s - e \in accepted[p] \cup {s} \cup {0}
        <4>1. CASE e = d
          BY <4>1, <3>2, <1>0
        <4>2. CASE e - d \in bitfield[p]
          <5>1. highest[p] - (e - d) \in accepted[p] \cup {0}
            BY <4>2, <3>2
          <5>2. e \in Nat
            BY <1>4
          <5>3. highest[p] - (e - d) = s - e
            BY <5>2, <1>0
          <5>4. QED
            BY <5>1, <5>3
        <4>3. QED
          BY <4>1, <4>2, <1>4
      <3>5. ASSUME NEW t \in accepted'[q], s - t \in 1 .. (Window - 1)
            PROVE  s - t \in Shifted(bitfield[p], d)
        <4>1. t \in accepted[p] /\ t \in Nat /\ t <= highest[p]
          BY <3>1, <3>2, <3>5, <1>0
        <4>2. CASE t = highest[p]
          BY <4>2, <3>5, <1>4, <1>0
        <4>3. CASE t < highest[p]
          <5>1. highest[p] - t \in 1 .. (Window - 1)
            BY <4>1, <4>3, <3>5, <1>0, <1>1
          <5>2. highest[p] - t \in bitfield[p]
            BY <5>1, <4>1, <3>2
          <5>3. (highest[p] - t) + d = s - t
            BY <4>1, <1>0
          <5>4. QED
            BY <5>2, <5>3, <3>5, <1>4
        <4>4. QED
          BY <4>1, <4>2, <4>3, <1>0
      <3>6. QED
        BY <3>1, <3>3, <3>4, <3>5
    <2>3. QED
      BY <2>1, <2>2
  <1>7. \A q \in Peers : \A t \in repeats'[q] \ repeats[q] : t = highest[q] - Window
    BY <1>2, <1>5 DEF Inv, TypeOK
  <1>8. /\ highest' \in [Peers -> Nat] /\ bitfield' \in [Peers -> SUBSET (1 .. Window)]
        /\ pendingAck' \in [Peers -> BOOLEAN]
        /\ accepted' \in [Peers -> SUBSET (Nat \ {0})]
        /\ repeats' \in [Peers -> SUBSET (Nat \ {0})]
    BY <1>0, <1>2, <1>4 DEF Inv, TypeOK
  <1>9. /\ \A q \in Peers : accepted[q] \subseteq accepted'[q]
        /\ \A q \in Peers : \A t \in accepted'[q] \ accepted[q] : q = p /\ t = s
    BY <1>2 DEF Inv, TypeOK
  <1>10. QED
    BY <1>0, <1>6, <1>7, <1>8, <1>9 DEF WindowStep, s

\* A number that fills a gap was never accepted before, unless it lies exactly Window
\* behind the highest.
LEMMA FillsGapStep ==
    ASSUME Inv, NEW p \in Peers, NEW m \in net, m.src = Other(p), IsReliable(m.kind),
           FillsGap(p, m.seq)
    PROVE  WindowStep(p, m.seq) /\ m.seq < nextOut[Other(p)]
  <1> DEFINE s == m.seq
             b == highest[p] - s
  <1>0. /\ s \in Nat \ {0} /\ s < HalfRange /\ s < nextOut[Other(p)]
        /\ highest[p] \in Nat /\ highest[p] < HalfRange
    BY NumbersInHalfRange
  <1>1. s < highest[p] /\ Behind(p, s) = b
    BY <1>0, SequenceOrder DEF FillsGap, Behind
  <1>2. /\ b \in 1 .. Window /\ b \notin bitfield[p]
        /\ highest' = highest
        /\ bitfield' = [bitfield EXCEPT ![p] = bitfield[p] \cup {b}]
        /\ pendingAck' = [pendingAck EXCEPT ![p] = TRUE]
        /\ accepted' = [accepted EXCEPT ![p] = accepted[p] \cup {s}]
        /\ repeats' = [repeats EXCEPT ![p] = repeats[p] \cup ({s} \cap accepted[p])]
    BY <1>1 DEF FillsGap, Accept
  <1> HIDE DEF s
  <1>3. s \in accepted[p] => s = highest[p] - Window
    <2>1. s \in accepted[p] => b \notin 1 .. (Window - 1)
      BY <1>2 DEF Inv, WindowIsTruthful
    <2>2. b \notin 1 .. (Window - 1) => b = Window
      BY <1>2
    <2>3. QED
      BY <2>1, <2>2, <1>0
  <1>4. WindowIsTruthful'
    <2> SUFFICES ASSUME NEW q \in Peers
                 PROVE  /\ \A t \in accepted'[q] : t <= highest'[q]
                        /\ highest'[q] \in accepted'[q] \cup {0}
                        /\ \A e \in bitfield'[q] : highest'[q] - e \in accepted'[q] \cup {0}
                        /\ \A t \in accepted'[q] :
                               highest'[q] - t \in 1 .. (Window - 1)
                                   => highest'[q] - t \in bitfield'[q]
      BY DEF WindowIsTruthful
    <2>1. CASE q # p
      <3>1. /\ highest'[q] = highest[q] /\ bitfield'[q] = bitfield[q]
            /\ accepted'[q] = accepted[q]
        BY <2>1, <1>2 DEF Inv, TypeOK
      <3>2. QED
        BY <3>1 DEF Inv, WindowIsTruthful
    <2>2. CASE q = p
      <3>1. /\ highest'[q] = highest[p] /\ bitfield'[q] = bitfield[p] \cup {b}
            /\ accepted'[q] = accepted[p] \cup {s}
        BY <2>2, <1>2 DEF Inv, TypeOK
      <3>2. highest[p] - b = s
        BY <1>0
      <3>3. QED
        BY <3>1, <3>2, <1>0, <1>1 DEF Inv, WindowIsTruthful
    <2>3. QED
      BY <2>1, <2>2
  <1>5. \A q \in Peers : \A t \in repeats'[q] \ repeats[q] : t = highest[q] - Window
    BY <1>2, <1>3 DEF Inv, TypeOK
  <1>6. /\ highest' \in [Peers -> Nat] /\ bitfield' \in [Peers -> SUBSET (1 .. Window)]
        /\ pendingAck' \in [Peers -> BOOLEAN]
        /\ accepted' \in [Peers -> SUBSET (Nat \ {0})]
        /\ repeats' \in [Peers -> SUBSET (Nat \ {0})]
    BY <1>0, <1>2 DEF Inv, TypeOK
  <1>7. /\ \A q \in Peers : accepted[q] \subseteq accepted'[q]
        /\ \A q \in Peers : \A t \in accepted'[q] \ accepted[q] : q = p /\ t = s
    BY <1>2 DEF Inv, TypeOK
  <1>8. QED
    BY <1>0, <1>4, <1>5, <1>6, <1>7 DEF WindowStep, s

\* A packet that is not new leaves the window as it was.
LEMMA DiscardStep ==
    ASSUME Inv, NEW p \in Peers, NEW m \in net, Discard(p, m)
    PROVE  WindowStep(p, m.seq) /\ accepted' = accepted
  BY DEF Discard, WindowStep, Inv, TypeOK, WindowIsTruthful

\* Each of the three outcomes of a packet is a WindowStep that takes sent numbers only.
LEMMA ReceiveWindow ==
    ASSUME Inv, NEW p \in Peers, NEW m \in net, Receive(p, m)
    PROVE  /\ WindowStep(p, m.seq)
           /\ \A q \in Peers : \A t \in accepted'[q] : t < nextOut[Other(q)]
  <1>0. m.src = Other(p)
    BY DEF Receive
  <1>1. CASE IsReliable(m.kind) /\ NewHighest(p, m.seq)
    BY <1>0, <1>1, NewHighestStep DEF WindowStep, Inv, NumbersWereSent
  <1>2. CASE IsReliable(m.kind) /\ FillsGap(p, m.seq)
    BY <1>0, <1>2, FillsGapStep DEF WindowStep, Inv, NumbersWereSent
  <1>3. CASE Discard(p, m)
    BY <1>3, DiscardStep DEF Inv, NumbersWereSent
  <1>4. QED
    BY <1>1, <1>2, <1>3 DEF Receive

\* An honest header acknowledges only packets its sender has accepted.
LEMMA AcknowledgedWasAccepted ==
    ASSUME Inv, NEW m \in net, NEW s \in Nat \ {0}, Acknowledges(m, s)
    PROVE  s \in accepted[m.src]
  <1>1. /\ m.ack \in accepted[m.src] \cup {0}
        /\ \A d \in m.bits : m.ack - d \in accepted[m.src] \cup {0}
    BY DEF Inv, HonestHeaders
  <1>2. m.ack \in Nat
    BY DEF Inv, TypeOK, Packets
  <1>3. CASE s = m.ack
    BY <1>1, <1>3
  <1>4. CASE s < m.ack /\ (m.ack - s) \in m.bits
    <2>1. m.ack - (m.ack - s) = s
      BY <1>2
    <2>2. m.ack - (m.ack - s) \in accepted[m.src] \cup {0}
      BY <1>1, <1>4
    <2>3. QED
      BY <2>1, <2>2
  <1>5. QED
    BY <1>3, <1>4 DEF Acknowledges

LEMMA ReceiveInv ==
    ASSUME Inv, NEW p \in Peers, NEW m \in net, Receive(p, m)
    PROVE  Inv'
  <1>1. /\ WindowStep(p, m.seq)
        /\ \A q \in Peers : \A t \in accepted'[q] : t < nextOut[Other(q)]
    BY ReceiveWindow
  <1>2. /\ highest' \in [Peers -> Nat]
        /\ bitfield' \in [Peers -> SUBSET (1 .. Window)]
        /\ pendingAck' \in [Peers -> BOOLEAN]
        /\ accepted' \in [Peers -> SUBSET (Nat \ {0})]
        /\ repeats' \in [Peers -> SUBSET (Nat \ {0})]
        /\ \A q \in Peers : accepted[q] \subseteq accepted'[q]
        /\ WindowIsTruthful'
    BY <1>1 DEF WindowStep
  <1>3. /\ nextOut' = nextOut /\ dropped' = dropped /\ acking' = acking /\ gaveUp' = gaveUp
        /\ net' \subseteq net
        /\ faults' \in Nat
        /\ unacked' = [unacked EXCEPT ![p] =
                          {u \in unacked[p] : ~Acknowledges(m, u.pkt.seq)}]
        /\ m.src = Other(p)
    BY DEF Receive, Handover, ProcessAcks, Inv, TypeOK
  <1>4. \A q \in Peers : unacked'[q] \subseteq unacked[q]
    BY <1>3 DEF Inv, TypeOK
  <1>5. TypeOK'
    <2>1. unacked' \in [Peers -> SUBSET [pkt : Packets, retries : Nat]]
      BY <1>3, <1>4 DEF Inv, TypeOK
    <2>2. QED
      BY <2>1, <1>2, <1>3 DEF Inv, TypeOK
  <1>6. NumbersWereSent'
    <2>1. \A q \in Peers : \A u \in unacked'[q] :
             u.pkt.src = q /\ IsReliable(u.pkt.kind) /\ u.pkt.seq \in 1 .. (nextOut'[q] - 1)
      BY <1>3, <1>4 DEF Inv, NumbersWereSent
    <2>2. \A n \in net' : IsReliable(n.kind) => n.seq \in 1 .. (nextOut'[n.src] - 1)
      BY <1>3 DEF Inv, NumbersWereSent
    <2>3. QED
      BY <2>1, <2>2, <1>1, <1>3 DEF NumbersWereSent
  <1>7. AckHasRoom'
    BY <1>3 DEF Inv, AckHasRoom
  <1>8. HonestHeaders'
    <2> SUFFICES ASSUME NEW n \in net' \cup UNION {{u.pkt : u \in unacked'[q]} : q \in Peers}
                 PROVE  /\ n.ack \in accepted'[n.src] \cup {0}
                        /\ \A d \in n.bits : n.ack - d \in accepted'[n.src] \cup {0}
      BY DEF HonestHeaders
    <2>1. n \in net \cup UNION {{u.pkt : u \in unacked[q]} : q \in Peers}
      BY <1>3, <1>4
    <2>2. n.src \in Peers
      BY <2>1 DEF Inv, TypeOK, Packets
    <2>3. QED
      BY <2>1, <2>2, <1>2 DEF Inv, HonestHeaders
  <1>9. Accounted'
    <2> SUFFICES ASSUME NEW q \in Peers, NEW s \in 1 .. (nextOut[q] - 1)
                 PROVE  s \in (UnackedSeqs(q))' \cup gaveUp[q] \cup accepted'[Other(q)]
      BY <1>3 DEF Accounted
    <2>0. Other(q) \in Peers /\ accepted[Other(q)] \subseteq accepted'[Other(q)]
      BY <1>2, OtherEnd
    <2>1. s \in UnackedSeqs(q) \cup gaveUp[q] \cup accepted[Other(q)]
      BY DEF Inv, Accounted
    <2>2. CASE s \in UnackedSeqs(q)
      <3>1. PICK u \in unacked[q] : u.pkt.seq = s
        BY <2>2 DEF UnackedSeqs
      <3>2. CASE u \in unacked'[q]
        BY <3>1, <3>2 DEF UnackedSeqs
      <3>3. CASE u \notin unacked'[q]
        <4>1. q = p /\ Acknowledges(m, s)
          BY <3>1, <3>3, <1>3 DEF Inv, TypeOK
        <4>2. s \in Nat \ {0}
          BY DEF Inv, TypeOK
        <4>3. s \in accepted[Other(q)]
          BY <4>1, <4>2, <1>3, AcknowledgedWasAccepted
        <4>4. QED
          BY <4>3, <2>0
      <3>4. QED
        BY <3>2, <3>3
    <2>3. QED
      BY <2>0, <2>1, <2>2
  <1>10. QED
    BY <1>2, <1>5, <1>6, <1>7, <1>8, <1>9 DEF Inv

-----------------------------------------------------------------------------
(* Retransmission and loss                                                  *)

LEMMA RetransmitInv ==
    ASSUME Inv, NEW p \in Peers, NEW due \in SUBSET unacked[p], Retransmit(p, due)
    PROVE  Inv'
  <1> DEFINE exhausted == {u \in due : u.retries >= MaxRetries}
             resent == due \ exhausted
             renewed == {[u EXCEPT !.retries = @ + 1] : u \in resent}
  <1>1. /\ unacked' = [unacked EXCEPT ![p] = (unacked[p] \ due) \cup renewed]
        /\ gaveUp' = [gaveUp EXCEPT ![p] = gaveUp[p] \cup {u.pkt.seq : u \in exhausted}]
        /\ dropped' = [dropped EXCEPT ![p] = exhausted # {}]
        /\ net' = net \cup {u.pkt : u \in resent}
        /\ nextOut' = nextOut /\ highest' = highest /\ bitfield' = bitfield
        /\ pendingAck' = pendingAck /\ acking' = acking /\ accepted' = accepted
        /\ repeats' = repeats /\ faults' = faults
    BY DEF Retransmit
  <1>2. /\ due \subseteq unacked[p]
        /\ unacked[p] \subseteq [pkt : Packets, retries : Nat]
        /\ \A u \in due : u.pkt.seq \in Nat \ {0}
    BY DEF Inv, TypeOK, NumbersWereSent
  <1>3. renewed \subseteq [pkt : Packets, retries : Nat]
    BY <1>2
  <1>4. \A v \in renewed : \E u \in resent : v.pkt = u.pkt
    BY <1>2
  <1>5. ASSUME NEW u \in resent
        PROVE  \E v \in renewed : v.pkt = u.pkt
    <2>1. [u EXCEPT !.retries = @ + 1] \in renewed
      OBVIOUS
    <2>2. u \in [pkt : Packets, retries : Nat]
      BY <1>2
    <2>3. [u EXCEPT !.retries = @ + 1].pkt = u.pkt
      BY <2>2
    <2>4. QED
      BY <2>1, <2>3
  <1> HIDE DEF renewed
  <1>6. \A q \in Peers : \A v \in unacked'[q] : \E u \in unacked[q] : v.pkt = u.pkt
    BY <1>1, <1>2, <1>4 DEF Inv, TypeOK
  <1>7. \A m \in net' : m \in net \/ \E u \in unacked[p] : m = u.pkt
    BY <1>1, <1>2
  <1>8. TypeOK'
    <2>1. unacked' \in [Peers -> SUBSET [pkt : Packets, retries : Nat]]
      BY <1>1, <1>2, <1>3 DEF Inv, TypeOK
    <2>2. gaveUp' \in [Peers -> SUBSET (Nat \ {0})]
      BY <1>1, <1>2 DEF Inv, TypeOK
    <2>3. dropped' \in [Peers -> BOOLEAN]
      BY <1>1 DEF Inv, TypeOK
    <2>4. net' \subseteq Packets
      BY <1>2, <1>7 DEF Inv, TypeOK
    <2>5. QED
      BY <2>1, <2>2, <2>3, <2>4, <1>1 DEF Inv, TypeOK
  <1>9. NumbersWereSent'
    <2>1. \A q \in Peers : \A v \in unacked'[q] :
             v.pkt.src = q /\ IsReliable(v.pkt.kind) /\ v.pkt.seq \in 1 .. (nextOut[q] - 1)
      BY <1>6 DEF Inv, NumbersWereSent
    <2>2. \A m \in net' : IsReliable(m.kind) => m.seq \in 1 .. (nextOut[m.src] - 1)
      BY <1>7 DEF Inv, NumbersWereSent
    <2>3. QED
      BY <2>1, <2>2, <1>1 DEF Inv, NumbersWereSent
  <1>10. AckHasRoom' /\ WindowIsTruthful'
    BY <1>1 DEF Inv, AckHasRoom, WindowIsTruthful
  <1>11. HonestHeaders'
    <2> SUFFICES ASSUME NEW m \in net' \cup UNION {{u.pkt : u \in unacked'[q]} : q \in Peers}
                 PROVE  /\ m.ack \in accepted[m.src] \cup {0}
                        /\ \A d \in m.bits : m.ack - d \in accepted[m.src] \cup {0}
      BY <1>1 DEF HonestHeaders
    <2>1. m \in net \cup UNION {{u.pkt : u \in unacked[q]} : q \in Peers}
      <3>1. CASE m \in net'
        BY <3>1, <1>7
      <3>2. CASE m \notin net'
        <4>1. PICK q \in Peers : \E v \in unacked'[q] : m = v.pkt
          BY <3>2
        <4>2. \E u \in unacked[q] : m = u.pkt
          BY <4>1, <1>6
        <4>3. QED
          BY <4>2
      <3>3. QED
        BY <3>1, <3>2
    <2>2. QED
      BY <2>1 DEF Inv, HonestHeaders
  <1>12. Accounted'
    <2> SUFFICES ASSUME NEW q \in Peers, NEW s \in 1 .. (nextOut[q] - 1)
                 PROVE  s \in (UnackedSeqs(q))' \cup gaveUp'[q] \cup accepted[Other(q)]
      BY <1>1 DEF Accounted
    <2>1. s \in UnackedSeqs(q) \cup gaveUp[q] \cup accepted[Other(q)]
      BY DEF Inv, Accounted
    <2>2. gaveUp[q] \subseteq gaveUp'[q]
      BY <1>1 DEF Inv, TypeOK
    <2>3. CASE s \in UnackedSeqs(q)
      <3>1. PICK u \in unacked[q] : u.pkt.seq = s
        BY <2>3 DEF UnackedSeqs
      <3>2. CASE u \in unacked'[q]
        BY <3>1, <3>2 DEF UnackedSeqs
      <3>3. CASE u \notin unacked'[q]
        <4>1. q = p /\ u \in due
          BY <3>1, <3>3, <1>1 DEF Inv, TypeOK
        <4>2. CASE u \in exhausted
          BY <4>1, <4>2, <3>1, <1>1 DEF Inv, TypeOK
        <4>3. CASE u \in resent
          <5>1. PICK v \in renewed : v.pkt = u.pkt
            BY <4>3, <1>5
          <5>2. v \in unacked'[q]
            BY <4>1, <5>1, <1>1 DEF Inv, TypeOK
          <5>3. QED
            BY <5>1, <5>2, <3>1 DEF UnackedSeqs
        <4>4. QED
          BY <4>1, <4>2, <4>3
      <3>4. QED
        BY <3>2, <3>3
    <2>4. QED
      BY <2>1, <2>2, <2>3
  <1>13. QED
    BY <1>8, <1>9, <1>10, <1>11, <1>12 DEF Inv

LEMMA LoseInv ==
    ASSUME Inv, NEW m \in net, Lose(m)
    PROVE  Inv'
  <1>1. net' \subseteq net /\ faults' \in Nat /\ UNCHANGED <<connection, history>>
    BY DEF Lose, Inv, TypeOK
  <1>2. TypeOK' /\ AckHasRoom' /\ WindowIsTruthful' /\ Accounted'
    BY <1>1 DEF Inv, TypeOK, AckHasRoom, WindowIsTruthful, Accounted, UnackedSeqs,
                connection, history
  <1>3. NumbersWereSent'
    BY <1>1 DEF Inv, NumbersWereSent, connection, history
  <1>4. HonestHeaders'
    BY <1>1 DEF Inv, HonestHeaders, connection, history
  <1>5. QED
    BY <1>2, <1>3, <1>4 DEF Inv

LEMMA StutterInv == Inv /\ UNCHANGED vars => Inv'
  BY DEF vars, connection, history, Inv, TypeOK, NumbersWereSent, AckHasRoom,
     WindowIsTruthful, HonestHeaders, Accounted, UnackedSeqs

-----------------------------------------------------------------------------
(* The theorems                                                             *)

LEMMA NextInv == Inv /\ [Next]_vars => Inv'
  <1> SUFFICES ASSUME Inv, [Next]_vars
               PROVE  Inv'
    OBVIOUS
  <1>1. ASSUME NEW p \in Peers, SendReliable(p)
        PROVE  Inv'
    BY <1>1, SendReliableInv
  <1>2. ASSUME NEW p \in Peers, SendUnreliable(p)
        PROVE  Inv'
    BY <1>2, SendUnreliableInv
  <1>3. ASSUME NEW p \in Peers, DecideAck(p)
        PROVE  Inv'
    BY <1>3, DecideAckInv
  <1>4. ASSUME NEW p \in Peers, SendAckOnly(p)
        PROVE  Inv'
    BY <1>4, SendAckOnlyInv
  <1>5. ASSUME NEW p \in Peers, NEW m \in net, Receive(p, m)
        PROVE  Inv'
    BY <1>5, ReceiveInv
  <1>6. ASSUME NEW p \in Peers, NEW due \in SUBSET unacked[p], Retransmit(p, due)
        PROVE  Inv'
    BY <1>6, RetransmitInv
  <1>7. ASSUME NEW m \in net, Lose(m)
        PROVE  Inv'
    BY <1>7, LoseInv
  <1>8. CASE UNCHANGED vars
    BY <1>8, StutterInv
  <1>9. QED
    BY <1>1, <1>2, <1>3, <1>4, <1>5, <1>6, <1>7, <1>8 DEF Next

\* Inv holds in every reachable state.
THEOREM Invariance == Spec => []Inv
  BY InitInv, NextInv, PTL DEF Spec

\* The state of the two ends and the packets in flight keep their types.
THEOREM TypeCorrect == Spec => []TypeOK
  <1>1. Inv => TypeOK
    BY DEF Inv
  <1>2. QED
    BY <1>1, Invariance, PTL

\* The receive window (ProcessIncomingPacketHeader) tells the truth about what was
\* accepted.
THEOREM WindowCorrect == Spec => []WindowIsTruthful
  <1>1. Inv => WindowIsTruthful
    BY DEF Inv
  <1>2. QED
    BY <1>1, Invariance, PTL

\* No header claims a number its sender has not accepted.
THEOREM HeadersCorrect == Spec => []HonestHeaders
  <1>1. Inv => HonestHeaders
    BY DEF Inv
  <1>2. QED
    BY <1>1, Invariance, PTL

\* An end that has given a packet up has declared the connection lost, and then it is
\* not about to acknowledge: its number and what it tracks stay as they are.
DroppedIsQuiet ==
    \A p \in Peers :
        /\ gaveUp[p] # {} => dropped[p]
        /\ acking[p] => ~dropped[p]

LEMMA QuietStep == Inv /\ DroppedIsQuiet /\ [Next]_vars => DroppedIsQuiet'
  <1> SUFFICES ASSUME Inv, DroppedIsQuiet, [Next]_vars, NEW p \in Peers
               PROVE  (gaveUp'[p] # {} => dropped'[p]) /\ (acking'[p] => ~dropped'[p])
    BY DEF DroppedIsQuiet
  <1>1. ASSUME NEW q \in Peers, DecideAck(q)
        PROVE  (gaveUp'[p] # {} => dropped'[p]) /\ (acking'[p] => ~dropped'[p])
    BY <1>1 DEF DecideAck, history, DroppedIsQuiet, Inv, TypeOK
  <1>2. ASSUME NEW q \in Peers, SendAckOnly(q)
        PROVE  (gaveUp'[p] # {} => dropped'[p]) /\ (acking'[p] => ~dropped'[p])
    BY <1>2 DEF SendAckOnly, history, DroppedIsQuiet, Inv, TypeOK
  <1>3. ASSUME NEW q \in Peers, NEW due \in SUBSET unacked[q], Retransmit(q, due)
        PROVE  (gaveUp'[p] # {} => dropped'[p]) /\ (acking'[p] => ~dropped'[p])
    BY <1>3 DEF Retransmit, DroppedIsQuiet, Inv, TypeOK
  <1>4. CASE UNCHANGED <<gaveUp, dropped, acking>>
    BY <1>4 DEF DroppedIsQuiet
  <1>5. QED
    BY <1>1, <1>2, <1>3, <1>4 DEF Next, vars, connection, history, SendReliable,
       SendUnreliable, Receive, Lose

LEMMA Quiet == Spec => []DroppedIsQuiet
  <1>1. Init => DroppedIsQuiet
    BY DEF Init, DroppedIsQuiet
  <1>2. QED
    BY <1>1, QuietStep, Invariance, PTL DEF Spec

\* No acknowledgement retires a packet that the receiver has not accepted, and none is
\* given up without the connection being declared lost.
THEOREM AcksCorrect == Spec => []AckedWasAccepted
  <1>1. Inv /\ DroppedIsQuiet => AckedWasAccepted
    BY DEF Inv, Accounted, DroppedIsQuiet, AckedWasAccepted
  <1>2. QED
    BY <1>1, Invariance, Quiet, PTL

\* A packet taken a second time lies exactly Window behind the highest number.
THEOREM RepeatsConfined == Spec => RepeatsOnlyAtWindowEdge
  <1> DEFINE Edge == \A p \in Peers : \A s \in repeats'[p] \ repeats[p] :
                         s = highest[p] - Window
  <1>1. Inv /\ [Next]_vars => Edge
    <2> SUFFICES ASSUME Inv, [Next]_vars
                 PROVE  Edge
      OBVIOUS
    <2>1. ASSUME NEW p \in Peers, NEW m \in net, Receive(p, m)
          PROVE  Edge
      BY <2>1, ReceiveWindow DEF WindowStep
    <2>2. CASE repeats' = repeats
      BY <2>2
    <2>3. QED
      BY <2>1, <2>2 DEF Next, vars, history, SendReliable, SendUnreliable, DecideAck,
                        SendAckOnly, Retransmit, Lose
  <1>2. QED
    BY <1>1, Invariance, PTL DEF Spec, RepeatsOnlyAtWindowEdge

-----------------------------------------------------------------------------
(* Flow control: what InSpan excludes is a jump of Window or more over       *)
(* packets that are still to come.                                           *)

\* The bitfield remembers an accepted number right up to its edge.
Remembered ==
    \A p \in Peers : \A s \in accepted[p] :
        highest[p] - s \in 1 .. Window => highest[p] - s \in bitfield[p]

\* What the other end has not accepted lies less than Window behind the next number.
CloseBehind ==
    \A p \in Peers : \A s \in 1 .. (nextOut[p] - 1) :
        s \notin accepted[Other(p)] => nextOut[p] - s < Window

FlowInv == Remembered /\ CloseBehind /\ DeliveredAtMostOnce

\* Only an end whose connection stands sends new numbers.
LEMMA NumbersGrow ==
    ASSUME Inv, DroppedIsQuiet, [Next]_vars, NEW p \in Peers, nextOut'[p] # nextOut[p]
    PROVE  ~dropped'[p]
  <1>1. ASSUME NEW q \in Peers, SendReliable(q)
        PROVE  ~dropped'[p]
    BY <1>1 DEF SendReliable, PrepareOutgoing, Inv, TypeOK
  <1>2. ASSUME NEW q \in Peers, SendAckOnly(q)
        PROVE  ~dropped'[p]
    BY <1>2 DEF SendAckOnly, PrepareOutgoing, DroppedIsQuiet, Inv, TypeOK
  <1>3. CASE nextOut' = nextOut
    BY <1>3
  <1>4. ~IsReliable("unreliable")
    BY DEF IsReliable
  <1>5. QED
    BY <1>1, <1>2, <1>3, <1>4 DEF Next, vars, connection, history, SendUnreliable,
       PrepareOutgoing, DecideAck, Receive, Retransmit, Lose

LEMMA AcceptedGrows ==
    ASSUME Inv, [Next]_vars, NEW p \in Peers
    PROVE  accepted[p] \subseteq accepted'[p]
  <1>1. ASSUME NEW q \in Peers, NEW m \in net, Receive(q, m)
        PROVE  accepted[p] \subseteq accepted'[p]
    BY <1>1, ReceiveWindow DEF WindowStep
  <1>2. CASE accepted' = accepted
    BY <1>2
  <1>3. QED
    BY <1>1, <1>2 DEF Next, vars, history, SendReliable, SendUnreliable, DecideAck,
       SendAckOnly, Retransmit, Lose

LEMMA CloseBehindStep ==
    ASSUME Inv, Inv', DroppedIsQuiet, DroppedIsQuiet', InSpan', CloseBehind, [Next]_vars
    PROVE  CloseBehind'
  <1> SUFFICES ASSUME NEW p \in Peers, NEW s \in 1 .. (nextOut'[p] - 1),
                      s \notin accepted'[Other(p)]
               PROVE  nextOut'[p] - s < Window
    BY DEF CloseBehind
  <1>1. s \in (UnackedSeqs(p))' \cup gaveUp'[p]
    BY DEF Inv, Accounted
  <1>2. CASE s \in (UnackedSeqs(p))'
    BY <1>2 DEF InSpan
  <1>3. CASE s \in gaveUp'[p]
    <2>1. dropped'[p]
      BY <1>3 DEF DroppedIsQuiet
    <2>2. nextOut'[p] = nextOut[p]
      BY <2>1, NumbersGrow
    <2>3. s \notin accepted[Other(p)]
      BY AcceptedGrows, OtherEnd
    <2>4. QED
      BY <2>2, <2>3 DEF CloseBehind
  <1>4. QED
    BY <1>1, <1>2, <1>3

\* Under flow control a new highest number is less than Window ahead of the old one.
LEMMA ShortJump ==
    ASSUME Inv, CloseBehind, NEW p \in Peers, NEW s \in Nat,
           s > highest[p], s < nextOut[Other(p)]
    PROVE  s - highest[p] < Window
  <1> DEFINE n == highest[p] + 1
  <1>1. Other(p) \in Peers /\ Other(Other(p)) = p
    BY OtherEnd
  <1>2. highest[p] \in Nat /\ nextOut[Other(p)] \in Nat
    BY <1>1 DEF Inv, TypeOK
  <1>3. n \notin accepted[p]
    BY <1>2 DEF Inv, WindowIsTruthful
  <1>4. n \in 1 .. (nextOut[Other(p)] - 1)
    BY <1>2
  <1>5. nextOut[Other(p)] - n < Window
    BY <1>1, <1>3, <1>4 DEF CloseBehind
  <1>6. QED
    BY <1>2, <1>5

LEMMA RememberedHighest ==
    ASSUME Inv, FlowInv, NEW p \in Peers, NEW m \in net, m.src = Other(p),
           IsReliable(m.kind), NewHighest(p, m.seq)
    PROVE  Remembered' /\ repeats' = repeats
  <1> DEFINE s == m.seq
             d == s - highest[p]
  <1>0. /\ s \in Nat \ {0} /\ s < HalfRange /\ s < nextOut[Other(p)]
        /\ highest[p] \in Nat /\ highest[p] < HalfRange
    BY NumbersInHalfRange
  <1>1. s > highest[p] /\ SeqDiff(s, highest[p]) = d /\ d \in Nat \ {0}
    BY <1>0, SequenceOrder DEF NewHighest
  <1>2. /\ highest' = [highest EXCEPT ![p] = s]
        /\ bitfield' = [bitfield EXCEPT ![p] = Shifted(bitfield[p], d)]
        /\ accepted' = [accepted EXCEPT ![p] = accepted[p] \cup {s}]
        /\ repeats' = [repeats EXCEPT ![p] = repeats[p] \cup ({s} \cap accepted[p])]
    BY <1>1 DEF NewHighest, Accept
  <1> HIDE DEF s
  <1>3. /\ accepted[p] \subseteq Nat \ {0}
        /\ \A t \in accepted[p] : t <= highest[p]
        /\ \A t \in accepted[p] :
               highest[p] - t \in 1 .. Window => highest[p] - t \in bitfield[p]
        /\ bitfield[p] \subseteq 1 .. Window
    BY DEF Inv, TypeOK, WindowIsTruthful, FlowInv, Remembered
  <1>4. repeats' = repeats
    <2>1. s \notin accepted[p]
      BY <1>0, <1>1, <1>3
    <2>2. QED
      BY <2>1, <1>2 DEF Inv, TypeOK
  <1>5. d < Window
    BY <1>0, <1>1, ShortJump DEF FlowInv
  <1>6. Shifted(bitfield[p], d) = {d} \cup ({b + d : b \in bitfield[p]} \cap (1 .. Window))
    BY <1>1, <1>5 DEF Shifted
  <1>7. ASSUME NEW t \in accepted[p] \cup {s}, s - t \in 1 .. Window
        PROVE  s - t \in Shifted(bitfield[p], d)
    <2>1. t \in accepted[p] /\ t \in Nat /\ t <= highest[p]
      BY <1>0, <1>3, <1>7
    <2>2. CASE t = highest[p]
      BY <2>2, <1>6
    <2>3. CASE t < highest[p]
      <3>1. highest[p] - t \in 1 .. Window
        BY <2>1, <2>3, <1>0, <1>1, <1>7
      <3>2. highest[p] - t \in bitfield[p]
        BY <2>1, <3>1, <1>3
      <3>3. (highest[p] - t) + d = s - t
        BY <2>1, <1>0
      <3>4. QED
        BY <3>2, <3>3, <1>6, <1>7
    <2>4. QED
      BY <2>1, <2>2, <2>3, <1>0
  <1>8. Remembered'
    <2> SUFFICES ASSUME NEW q \in Peers, NEW t \in accepted'[q],
                        highest'[q] - t \in 1 .. Window
                 PROVE  highest'[q] - t \in bitfield'[q]
      BY DEF Remembered
    <2>1. CASE q # p
      BY <2>1, <1>2 DEF Inv, TypeOK, FlowInv, Remembered
    <2>2. CASE q = p
      BY <2>2, <1>2, <1>7 DEF Inv, TypeOK
    <2>3. QED
      BY <2>1, <2>2
  <1>9. QED
    BY <1>4, <1>8

LEMMA RememberedGap ==
    ASSUME Inv, FlowInv, NEW p \in Peers, NEW m \in net, m.src = Other(p),
           IsReliable(m.kind), FillsGap(p, m.seq)
    PROVE  Remembered' /\ repeats' = repeats
  <1> DEFINE s == m.seq
             b == highest[p] - s
  <1>0. /\ s \in Nat \ {0} /\ s < HalfRange
        /\ highest[p] \in Nat /\ highest[p] < HalfRange
    BY NumbersInHalfRange
  <1>1. s < highest[p] /\ Behind(p, s) = b
    BY <1>0, SequenceOrder DEF FillsGap, Behind
  <1>2. /\ b \in 1 .. Window /\ b \notin bitfield[p]
        /\ highest' = highest
        /\ bitfield' = [bitfield EXCEPT ![p] = bitfield[p] \cup {b}]
        /\ accepted' = [accepted EXCEPT ![p] = accepted[p] \cup {s}]
        /\ repeats' = [repeats EXCEPT ![p] = repeats[p] \cup ({s} \cap accepted[p])]
    BY <1>1 DEF FillsGap, Accept
  <1> HIDE DEF s
  <1>3. repeats' = repeats
    <2>1. s \notin accepted[p]
      BY <1>2 DEF FlowInv, Remembered
    <2>2. QED
      BY <2>1, <1>2 DEF Inv, TypeOK
  <1>4. Remembered'
    <2> SUFFICES ASSUME NEW q \in Peers, NEW t \in accepted'[q],
                        highest'[q] - t \in 1 .. Window
                 PROVE  highest'[q] - t \in bitfield'[q]
      BY DEF Remembered
    <2>1. CASE q # p
      BY <2>1, <1>2 DEF Inv, TypeOK, FlowInv, Remembered
    <2>2. CASE q = p
      BY <2>2, <1>2 DEF Inv, TypeOK, FlowInv, Remembered
    <2>3. QED
      BY <2>1, <2>2
  <1>5. QED
    BY <1>3, <1>4

LEMMA FlowStep ==
    ASSUME Inv, Inv', DroppedIsQuiet, DroppedIsQuiet', InSpan', FlowInv, [Next]_vars
    PROVE  FlowInv'
  <1>1. CloseBehind'
    BY CloseBehindStep DEF FlowInv
  <1>2. ASSUME NEW p \in Peers, NEW m \in net, Receive(p, m)
        PROVE  Remembered' /\ repeats' = repeats
    <2>1. m.src = Other(p)
      BY <1>2 DEF Receive
    <2>2. CASE IsReliable(m.kind) /\ NewHighest(p, m.seq)
      BY <2>1, <2>2, RememberedHighest
    <2>3. CASE IsReliable(m.kind) /\ FillsGap(p, m.seq)
      BY <2>1, <2>3, RememberedGap
    <2>4. CASE Discard(p, m)
      BY <2>4 DEF Discard, FlowInv, Remembered
    <2>5. QED
      BY <1>2, <2>2, <2>3, <2>4 DEF Receive
  <1>3. ASSUME UNCHANGED <<accepted, highest, bitfield, repeats>>
        PROVE  Remembered' /\ repeats' = repeats
    BY <1>3 DEF FlowInv, Remembered
  <1>4. Remembered' /\ repeats' = repeats
    BY <1>2, <1>3 DEF Next, vars, connection, history, SendReliable, SendUnreliable,
       DecideAck, SendAckOnly, Retransmit, Lose
  <1>5. QED
    BY <1>1, <1>4 DEF FlowInv, DeliveredAtMostOnce

\* OnceUnderFlowControl: users who keep fewer than Window numbers from the oldest packet
\* still tracked to the last one sent, both counted, have every payload handed to the
\* game once.  With Window of them the code's bitfield is already too short.
THEOREM FlowControlSuffices == Spec => OnceUnderFlowControl
  <1>1. Init => FlowInv
    BY OtherEnd DEF Init, FlowInv, Remembered, CloseBehind, DeliveredAtMostOnce
  <1>2. /\ Inv /\ Inv' /\ DroppedIsQuiet /\ DroppedIsQuiet' /\ InSpan' /\ FlowInv
        /\ [Next]_vars
        => FlowInv'
    BY FlowStep
  <1>3. FlowInv => DeliveredAtMostOnce
    BY DEF FlowInv
  <1>4. QED
    BY <1>1, <1>2, <1>3, Invariance, Quiet, PTL DEF Spec, OnceUnderFlowControl

=============================================================================
