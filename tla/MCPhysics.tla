----------------------------- MODULE MCPhysics -----------------------------
(* Model-checking instance of Physics; its .cfg files give the values.      *)
EXTENDS Physics, TLC
=============================================================================
