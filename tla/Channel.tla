------------------------------ MODULE Channel ------------------------------
(***************************************************************************)
(* What the reliability layer promises one sender and its receiver,        *)
(* whatever the network does.  A sender numbers its packets.  A packet is  *)
(* outstanding until the sender stops tracking it, and it may stop for two *)
(* reasons only: the receiver has accepted the packet, or the sender has   *)
(* abandoned it and with it the connection.  A receiver accepts only       *)
(* packets that were sent.                                                 *)
(***************************************************************************)
EXTENDS Integers

CONSTANT Peers, Peer(_)      \* the two ends, and the end facing a given one

VARIABLES sent,          \* number of reliable packets each end has sent
          outstanding,   \* those it still tracks
          taken,         \* those each end has accepted from the other
          abandoned      \* those it has given up

chVars == <<sent, outstanding, taken, abandoned>>

Init ==
    /\ sent = [p \in Peers |-> 0]
    /\ outstanding = [p \in Peers |-> {}]
    /\ taken = [p \in Peers |-> {}]
    /\ abandoned = [p \in Peers |-> {}]

\* A new packet gets the next number.
Submit(p) ==
    /\ sent' = [sent EXCEPT ![p] = @ + 1]
    /\ outstanding' = [outstanding EXCEPT ![p] = @ \cup {sent[p] + 1}]
    /\ UNCHANGED <<taken, abandoned>>

\* An arriving packet confirms some of p's own packets, which the other end has
\* already taken, and brings at most one packet of the other end.
Arrive(p) ==
    \E confirmed \in SUBSET (outstanding[p] \cap taken[Peer(p)]),
       news \in SUBSET (1 .. sent[Peer(p)]) :
        /\ \A s, t \in news : s = t
        /\ outstanding' = [outstanding EXCEPT ![p] = @ \ confirmed]
        /\ taken' = [taken EXCEPT ![p] = @ \cup news]
        /\ UNCHANGED <<sent, abandoned>>

\* Packets are given up for good.
Abandon(p) ==
    \E lost \in SUBSET outstanding[p] :
        /\ outstanding' = [outstanding EXCEPT ![p] = @ \ lost]
        /\ abandoned' = [abandoned EXCEPT ![p] = @ \cup lost]
        /\ UNCHANGED <<sent, taken>>

Next == \E p \in Peers : Submit(p) \/ Arrive(p) \/ Abandon(p)

Spec == Init /\ [][Next]_chVars
=============================================================================
