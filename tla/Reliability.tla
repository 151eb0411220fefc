---------------------------- MODULE Reliability ----------------------------
(***************************************************************************)
(* The UDP reliability protocol (UDPReliabilityProtocol.cpp over           *)
(* ReliableConnectionState.h): two ends of a connection, each holding one  *)
(* ReliableConnectionState for the other, over a network that loses,       *)
(* duplicates, delays and reorders datagrams.                              *)
(*                                                                         *)
(* Every function of the protocol runs under internalStateMutex, so each   *)
(* is one action, except TrySendAckOnlyPacket, which releases the mutex    *)
(* between the decision to send and the sending: two actions.              *)
(*                                                                         *)
(* Abstractions.  A bit of receivedSequenceBitfield is the distance to the *)
(* highest number (bit i stands for highest - (i + 1)), so a bitfield is a *)
(* set of distances in 1..Window (32 in the code).  Payload bytes and the  *)
(* timers are left out: which unacknowledged packets have outlived the     *)
(* retransmission timeout in a pass is any set of them.  A state that has  *)
(* been dropped is erased from the packet handler's map in the same        *)
(* critical section, so nothing happens to it any more.                    *)
(***************************************************************************)
EXTENDS SequenceNumbers, FiniteSets

CONSTANTS
    A, B,          \* the two ends
    Window,        \* bits of the acknowledgement bitfield: 32
    MaxRetries,    \* MAX_PACKET_RETRIES: 10
    Traffic,       \* what applications send: "data" (reliable), "unreliable"
    MaxSeq,        \* bound: reliable packets each end sends
    MaxFlight,     \* bound: distinct datagrams in flight
    MaxFaults      \* bound: datagrams the network loses or duplicates

ASSUME EndsAssumption == A # B
ASSUME WindowAssumption == Window \in Nat \ {0}
ASSUME RetriesAssumption == MaxRetries \in Nat
ASSUME TrafficAssumption == Traffic \subseteq {"data", "unreliable"}

Peers == {A, B}
Other(p) == IF p = A THEN B ELSE A

\* The model stops before the numbers wrap.
ASSUME NoWrapAssumption ==
    MaxSeq \in [Peers -> Nat] /\ \A p \in Peers : MaxSeq[p] + 1 < HalfRange
ASSUME BoundsAssumption == MaxFlight \in Nat /\ MaxFaults \in Nat

VARIABLES
    nextOut,     \* nextOutgoingSequenceNumber
    unacked,     \* unacknowledgedSentPackets: packet and retries
    highest,     \* highestReceivedSequenceNumberFromRemote
    bitfield,    \* receivedSequenceBitfield
    pendingAck,  \* hasPendingAckToSend
    dropped,     \* connectionDroppedByMaxRetries (and not isConnected)
    acking,      \* TrySendAckOnlyPacket stands between its two critical sections
    net,         \* datagrams in flight
    accepted,    \* history: reliable numbers taken from the other end
    repeats,     \* history: those taken more than once
    gaveUp,      \* history: own numbers dropped after MaxRetries
    faults       \* history: losses and duplications so far

connection == <<nextOut, unacked, highest, bitfield, pendingAck, dropped, acking>>
history == <<accepted, repeats, gaveUp>>
vars == <<connection, net, history, faults>>

-----------------------------------------------------------------------------
(* Packets.  "data" carries IS_RELIABLE, "ack" IS_RELIABLE | IS_ACK_ONLY    *)
(* and no payload, "unreliable" neither.                                    *)

Kinds == {"data", "ack", "unreliable"}

\* Mutant: ACK-only packets are not retransmitted.
IsReliableDataOnly(kind) == kind = "data"

IsReliable(kind) == kind \in {"data", "ack"}

Packets ==
    [src : Peers, kind : Kinds, seq : Nat, ack : Nat, bits : SUBSET (1 .. Window)]

\* The header carries the receive state of the moment it is first sent; a
\* retransmission repeats the same bytes.
Header(p, kind) ==
    [src |-> p, kind |-> kind, seq |-> IF IsReliable(kind) THEN nextOut[p] ELSE 0,
     ack |-> highest[p], bits |-> bitfield[p]]

\* Mutant: the acknowledgement number taken as cumulative.
AcknowledgesCumulatively(m, s) == s <= m.ack

\* Does the header of m acknowledge our packet s?
Acknowledges(m, s) == s = m.ack \/ (s < m.ack /\ (m.ack - s) \in m.bits)

UnackedSeqs(p) == {u.pkt.seq : u \in unacked[p]}

-----------------------------------------------------------------------------
Init ==
    /\ nextOut = [p \in Peers |-> 1]
    /\ unacked = [p \in Peers |-> {}]
    /\ highest = [p \in Peers |-> 0]
    /\ bitfield = [p \in Peers |-> {}]
    /\ pendingAck = [p \in Peers |-> FALSE]
    /\ dropped = [p \in Peers |-> FALSE]
    /\ acking = [p \in Peers |-> FALSE]
    /\ net = {}
    /\ accepted = [p \in Peers |-> {}]
    /\ repeats = [p \in Peers |-> {}]
    /\ gaveUp = [p \in Peers |-> {}]
    /\ faults = 0

\* Bound: numbers left for p, one of them kept for an acknowledgement already decided.
Room(p) == nextOut[p] + (IF acking[p] THEN 1 ELSE 0) <= MaxSeq[p]

\* Bound: the network takes the datagrams.
Fits(datagrams) == Cardinality(datagrams) <= MaxFlight

\* PrepareOutgoingPacketUnlocked_Internal followed by the send.
PrepareOutgoing(p, kind) ==
    /\ IF IsReliable(kind)
       THEN /\ nextOut' = [nextOut EXCEPT ![p] = SeqSucc(@)]
            /\ unacked' = [unacked EXCEPT ![p] =
                              @ \cup {[pkt |-> Header(p, kind), retries |-> 0]}]
       ELSE UNCHANGED <<nextOut, unacked>>
    /\ pendingAck' = [pendingAck EXCEPT ![p] = FALSE]
    /\ net' = net \cup {Header(p, kind)}
    /\ Fits(net')

SendReliable(p) ==
    /\ "data" \in Traffic
    /\ ~dropped[p]
    /\ Room(p)
    /\ PrepareOutgoing(p, "data")
    /\ UNCHANGED <<highest, bitfield, dropped, acking, history, faults>>

SendUnreliable(p) ==
    /\ "unreliable" \in Traffic
    /\ ~dropped[p]
    /\ PrepareOutgoing(p, "unreliable")
    /\ UNCHANGED <<highest, bitfield, dropped, acking, history, faults>>

\* TrySendAckOnlyPacket, first critical section.  Whether the ack delay has passed
\* is open.
DecideAck(p) ==
    /\ ~dropped[p]
    /\ ~acking[p]
    /\ pendingAck[p]
    /\ Room(p)
    /\ acking' = [acking EXCEPT ![p] = TRUE]
    /\ UNCHANGED <<nextOut, unacked, highest, bitfield, pendingAck, dropped, net, history, faults>>

\* Second critical section: pendingAck is not looked at again.
SendAckOnly(p) ==
    /\ acking[p]
    /\ acking' = [acking EXCEPT ![p] = FALSE]
    /\ PrepareOutgoing(p, "ack")
    /\ UNCHANGED <<highest, bitfield, dropped, history, faults>>

-----------------------------------------------------------------------------
(* ProcessIncomingPacketHeader                                              *)

ProcessAcks(p, m) ==
    unacked' = [unacked EXCEPT ![p] = {u \in @ : ~Acknowledges(m, u.pkt.seq)}]

\* A reliable packet counted as new: marked for acknowledgement, given to the game.
Accept(p, s) ==
    /\ pendingAck' = [pendingAck EXCEPT ![p] = TRUE]
    /\ accepted' = [accepted EXCEPT ![p] = @ \cup {s}]
    /\ repeats' = [repeats EXCEPT ![p] = @ \cup ({s} \cap accepted[p])]

\* Mutant: bits shifted past the end of the bitfield are kept.
ShiftedTooWide(bits, d) == IF d >= Window THEN {} ELSE {d} \cup {b + d : b \in bits}

\* Mutant: the bit of the old highest number is not set.
ShiftedWithoutOld(bits, d) ==
    IF d >= Window THEN {} ELSE {b + d : b \in bits} \cap (1 .. Window)

\* Mutant: the bit of the old highest number is set one place too far.
ShiftedOldTooFar(bits, d) ==
    IF d >= Window THEN {} ELSE ({d + 1} \cup {b + d : b \in bits}) \cap (1 .. Window)

\* Mutant: the bitfield is reset one step too early.
ShiftedResetEarly(bits, d) ==
    IF d >= Window - 1 THEN {} ELSE {d} \cup ({b + d : b \in bits} \cap (1 .. Window))

\* The bitfield after the highest number has moved up by d.
Shifted(bits, d) ==
    IF d >= Window THEN {} ELSE {d} \cup ({b + d : b \in bits} \cap (1 .. Window))

NewHighest(p, s) ==
    /\ IsSequenceGreaterThan(s, highest[p])
    /\ highest' = [highest EXCEPT ![p] = s]
    /\ bitfield' = [bitfield EXCEPT ![p] = Shifted(@, SeqDiff(s, highest[p]))]
    /\ Accept(p, s)

\* How far s lies behind the highest number.
Behind(p, s) == SeqDiff(highest[p], s)

FillsGap(p, s) ==
    /\ IsSequenceLessThan(s, highest[p])
    /\ Behind(p, s) \in 1 .. Window
    /\ Behind(p, s) \notin bitfield[p]
    /\ bitfield' = [bitfield EXCEPT ![p] = @ \cup {Behind(p, s)}]
    /\ Accept(p, s)
    /\ UNCHANGED highest

\* Duplicate of the highest, duplicate in the bitfield, or older than the bitfield.
IsStale(p, s) ==
    \/ s = highest[p]
    \/ IsSequenceLessThan(s, highest[p]) /\ Behind(p, s) \in bitfield[p]
    \/ IsSequenceLessThan(s, highest[p]) /\ Behind(p, s) > Window

Discard(p, m) ==
    /\ IsReliable(m.kind) => IsStale(p, m.seq)
    /\ UNCHANGED <<highest, bitfield, pendingAck, accepted, repeats>>

\* The network hands m over, and keeps a copy if it duplicates it.
Handover(m) ==
    \/ net' = net \ {m} /\ UNCHANGED faults
    \/ faults < MaxFaults /\ faults' = faults + 1 /\ UNCHANGED net

Receive(p, m) ==
    /\ m.src = Other(p)
    /\ ~dropped[p]
    /\ Handover(m)
    /\ ProcessAcks(p, m)
    /\ \/ IsReliable(m.kind) /\ NewHighest(p, m.seq)
       \/ IsReliable(m.kind) /\ FillsGap(p, m.seq)
       \/ Discard(p, m)
    /\ UNCHANGED <<nextOut, dropped, acking, gaveUp>>

-----------------------------------------------------------------------------
\* Mutant: a packet out of retries is erased and the connection not flagged.
RetransmitUnflagged(p, due) ==
    /\ ~dropped[p]
    /\ ~acking[p]
    /\ LET resent == {u \in due : u.retries < MaxRetries}
       IN  /\ unacked' = [unacked EXCEPT ![p] =
                             (@ \ due) \cup {[u EXCEPT !.retries = @ + 1] : u \in resent}]
           /\ net' = net \cup {u.pkt : u \in resent}
           /\ Fits(net')
    /\ UNCHANGED <<nextOut, highest, bitfield, pendingAck, dropped, acking, history, faults>>

\* GetPacketsForRetransmission, with `due` the packets past the timeout.  The
\* thread that runs it is the one that sends the acknowledgements.
Retransmit(p, due) ==
    /\ ~dropped[p]
    /\ ~acking[p]
    /\ LET exhausted == {u \in due : u.retries >= MaxRetries}
           resent == due \ exhausted
       IN  /\ unacked' = [unacked EXCEPT ![p] =
                             (@ \ due) \cup {[u EXCEPT !.retries = @ + 1] : u \in resent}]
           /\ gaveUp' = [gaveUp EXCEPT ![p] = @ \cup {u.pkt.seq : u \in exhausted}]
           /\ dropped' = [dropped EXCEPT ![p] = exhausted # {}]
           /\ net' = net \cup {u.pkt : u \in resent}
           /\ Fits(net')
    /\ UNCHANGED <<nextOut, highest, bitfield, pendingAck, acking, accepted, repeats, faults>>

Lose(m) ==
    /\ faults < MaxFaults
    /\ faults' = faults + 1
    /\ net' = net \ {m}
    /\ UNCHANGED <<connection, history>>

Next ==
    \/ \E p \in Peers :
        \/ SendReliable(p)
        \/ SendUnreliable(p)
        \/ DecideAck(p)
        \/ SendAckOnly(p)
        \/ \E m \in net : Receive(p, m)
        \/ \E due \in SUBSET unacked[p] : due # {} /\ Retransmit(p, due)
    \/ \E m \in net : Lose(m)

Spec == Init /\ [][Next]_vars

\* The reliability thread runs its pass every RELIABILITY_THREAD_SLEEP_MS_PKT: every
\* packet it tracks outlives its timeout in the end, and an acknowledgement decided
\* is sent.  The network, which Fits bounds, does not hold datagrams for ever.
Fairness ==
    \A p \in Peers :
        /\ WF_vars(SendAckOnly(p))
        /\ WF_vars(\E m \in net : Receive(p, m))
        /\ \A s \in 1 .. MaxSeq[p] :
               WF_vars(\E due \in SUBSET unacked[p] :
                           s \in {u.pkt.seq : u \in due} /\ Retransmit(p, due))

FairSpec == Spec /\ Fairness

-----------------------------------------------------------------------------
(* Properties                                                               *)

\* Types: numbers are assigned from 1 up, bits stand for distances in 1..Window.
TypeOK ==
    /\ nextOut \in [Peers -> Nat \ {0}]
    /\ \A p \in Peers : nextOut[p] <= MaxSeq[p] + 1
    /\ unacked \in [Peers -> SUBSET [pkt : Packets, retries : Nat]]
    /\ highest \in [Peers -> Nat]
    /\ bitfield \in [Peers -> SUBSET (1 .. Window)]
    /\ pendingAck \in [Peers -> BOOLEAN]
    /\ dropped \in [Peers -> BOOLEAN]
    /\ acking \in [Peers -> BOOLEAN]
    /\ net \subseteq Packets
    /\ accepted \in [Peers -> SUBSET (Nat \ {0})]
    /\ repeats \in [Peers -> SUBSET (Nat \ {0})]
    /\ gaveUp \in [Peers -> SUBSET (Nat \ {0})]
    /\ faults \in Nat

\* The receive window tells the truth: every bit stands for a number that was
\* accepted (or for the number 0 that nobody sends), and every accepted number
\* closer than Window to the highest has its bit.
WindowIsTruthful ==
    \A p \in Peers :
        /\ \A s \in accepted[p] : s <= highest[p]
        /\ highest[p] \in accepted[p] \cup {0}
        /\ \A d \in bitfield[p] : highest[p] - d \in accepted[p] \cup {0}
        /\ \A s \in accepted[p] :
               highest[p] - s \in 1 .. (Window - 1) => highest[p] - s \in bitfield[p]

\* Whatever a header in flight or waiting for retransmission claims to have
\* received was accepted by its sender, however long ago the header was written.
HonestHeaders ==
    \A m \in net \cup UNION {{u.pkt : u \in unacked[p]} : p \in Peers} :
        /\ m.ack \in accepted[m.src] \cup {0}
        /\ \A d \in m.bits : m.ack - d \in accepted[m.src] \cup {0}

\* A sender stops tracking a packet only when the other end has accepted it, or when
\* the retries are used up and the connection is flagged as lost: no acknowledgement,
\* however stale, repeated or reordered, retires a packet the receiver never saw.
AckedWasAccepted ==
    \A p \in Peers :
        \A s \in 1 .. (nextOut[p] - 1) :
            \/ s \in UnackedSeqs(p) \cup accepted[Other(p)]
            \/ s \in gaveUp[p] /\ dropped[p]

\* The only packet a receiver ever takes a second time is one exactly Window
\* behind its highest number: the one a jump of Window forgot.
RepeatsOnlyAtWindowEdge ==
    [][\A p \in Peers : \A s \in repeats'[p] \ repeats[p] : s = highest[p] - Window]_vars

\* What the channel tracks, read off the state of the two ends.
Promise == INSTANCE Channel WITH
    Peer <- Other,
    sent <- [p \in Peers |-> nextOut[p] - 1],
    outstanding <- [p \in Peers |-> UnackedSeqs(p)],
    taken <- accepted,
    abandoned <- gaveUp

\* Each direction keeps the promise of the abstract channel: a packet stops being
\* tracked only because the other end has it or because the sender has given up.
ChannelSpec == Promise!Spec

\* An acknowledgement is owed until it is delivered: while the sender still
\* tracks a packet the receiver has accepted, the receiver is about to
\* acknowledge it, an acknowledgement of it is in flight, or one will be
\* transmitted again if it is lost (packets that slid to the edge of the bitfield aside).
AckDebtIsHeld ==
    \A p \in Peers :
        \A s \in UnackedSeqs(p) \cap accepted[Other(p)] :
            \/ pendingAck[Other(p)]
            \/ \E u \in unacked[Other(p)] : Acknowledges(u.pkt, s)
            \/ \E m \in net : m.src = Other(p) /\ Acknowledges(m, s)
            \/ highest[Other(p)] - s >= Window
            \/ dropped[Other(p)]

\* A payload is handed to the game once.
DeliveredAtMostOnce == \A p \in Peers : repeats[p] = {}

\* Flow control, which the code leaves to its users: from the oldest packet an end
\* still tracks to the last it sent there are fewer than Window numbers, both counted.
\* With Window of them the bitfield may already be too short.
InSpan == \A p \in Peers : \A s \in UnackedSeqs(p) : nextOut[p] - s < Window

\* Under flow control every payload is handed to the game once, whatever the network
\* loses, duplicates or reorders: then no jump clears the bitfield while a copy of a
\* packet it stood for may still arrive.
OnceUnderFlowControl == []InSpan => []DeliveredAtMostOnce

\* No reliable packet is lost in silence: in the end the other end has accepted
\* it or one of the two has declared the connection lost.
NeverSilentlyLost ==
    \A p \in Peers : \A s \in 1 .. MaxSeq[p] :
        s \in UnackedSeqs(p) ~> \/ s \in accepted[Other(p)]
                                \/ dropped[A]
                                \/ dropped[B]
=============================================================================
