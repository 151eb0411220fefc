---------------------------- MODULE MCUdpSocket ----------------------------
(* Model-checking instance of UdpSocket; its .cfg files give the values.    *)
EXTENDS UdpSocket, TLC
=============================================================================
