-------------------------- MODULE SequenceNumbers --------------------------
(***************************************************************************)
(* Arithmetic on the unsigned sequence numbers of the UDP reliability      *)
(* protocol (UDPReliabilityProtocol.h).  A SequenceNumber is an unsigned   *)
(* integer below SeqMod (2^32 in the code), so a subtraction wraps and the *)
(* order is the circular one: the half of the circle ahead of a number is  *)
(* "greater", the other half is "less".                                    *)
(***************************************************************************)
EXTENDS Integers

CONSTANT SeqMod

ASSUME SeqModAssumption == SeqMod \in Nat /\ SeqMod > 1

\* (static_cast<T>(-1) / 2) + 1
HalfRange == ((SeqMod - 1) \div 2) + 1

SequenceNumber == 0 .. (SeqMod - 1)

\* s1 - s2 on unsigned integers.
SeqDiff(s1, s2) == IF s1 >= s2 THEN s1 - s2 ELSE (s1 + SeqMod) - s2

\* nextOutgoingSequenceNumber++
SeqSucc(s) == IF s = SeqMod - 1 THEN 0 ELSE s + 1

IsSequenceGreaterThan(s1, s2) ==
    \/ s1 > s2 /\ SeqDiff(s1, s2) < HalfRange
    \/ s2 > s1 /\ SeqDiff(s2, s1) >= HalfRange

IsSequenceLessThan(s1, s2) == IsSequenceGreaterThan(s2, s1)
=============================================================================
