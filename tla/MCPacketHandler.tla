-------------------------- MODULE MCPacketHandler --------------------------
(* Model-checking instance of PacketHandler; its .cfg files give the values. *)
EXTENDS PacketHandler, TLC

\* Endpoints are alike, and so are threads.
Alike == Permutations(Endpoints) \cup Permutations(Threads)
=============================================================================
