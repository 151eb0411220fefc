--------------------------- MODULE MCReliability ---------------------------
(* TLC instances of Reliability. *)
EXTENDS Reliability, TLC

\* A busy end and one that mostly acknowledges.
Lopsided == [p \in {A, B} |-> IF p = A THEN 3 ELSE 1]
=============================================================================
