------------------------------ MODULE MCWorld ------------------------------
(* Model-checking instance of World; its .cfg files give the values.        *)
EXTENDS World, TLC
=============================================================================
