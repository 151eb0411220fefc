---------------------------- MODULE MCThreadPool ----------------------------
(* Model-checking instance of ThreadPool; its .cfg files give the values.   *)
EXTENDS ThreadPool, TLC
=============================================================================
