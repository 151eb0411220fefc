---------------------------- MODULE DatagramPort ----------------------------
(***************************************************************************)
(* What UDPSocketAsync promises the code above it (INetworkIO.h,           *)
(* INetworkIOEvents.h), with no word about completion ports or contexts:   *)
(* a send is accepted, refused, or fails at once; an accepted one is       *)
(* reported once, or lost when the port closes; the port calls up only     *)
(* while it is open, and does not close while a thread is inside a call.   *)
(***************************************************************************)
CONSTANTS
    Workers,   \* threads that call up
    Sends      \* calls of SendData

VARIABLES
    up,        \* the port is open
    busy,      \* threads that are about to call up, or inside the call
    outcome    \* what became of each send

portVars == <<up, busy, outcome>>

Outcomes == {"unsent", "accepted", "refused", "failed", "reported", "lost"}

PortInit ==
    /\ up = FALSE
    /\ busy = {}
    /\ outcome = [s \in Sends |-> "unsent"]

Open ==
    /\ ~up
    /\ up' = TRUE
    /\ UNCHANGED <<busy, outcome>>

\* Closing waits for the calls; what is still on its way is lost.
Close ==
    /\ up /\ busy = {}
    /\ up' = FALSE
    /\ outcome' = [s \in Sends |-> IF outcome[s] = "accepted" THEN "lost" ELSE outcome[s]]
    /\ UNCHANGED busy

Accept(s) ==
    /\ up /\ outcome[s] = "unsent"
    /\ outcome' = [outcome EXCEPT ![s] = "accepted"]
    /\ UNCHANGED <<up, busy>>

\* SendData returns false: without a call, or after OnSendCompleted(false)
\* on the caller's own thread.
TurnDown(s) ==
    /\ outcome[s] = "unsent"
    /\ \E o \in {"refused", "failed"} : outcome' = [outcome EXCEPT ![s] = o]
    /\ UNCHANGED <<up, busy>>

Enter(w) ==
    /\ up /\ w \notin busy
    /\ busy' = busy \cup {w}
    /\ UNCHANGED <<up, outcome>>

\* The call reported a send, or handed a datagram up.
Leave(w) ==
    /\ w \in busy
    /\ busy' = busy \ {w}
    /\ \/ UNCHANGED outcome
       \/ \E s \in Sends : /\ outcome[s] = "accepted"
                           /\ outcome' = [outcome EXCEPT ![s] = "reported"]
    /\ UNCHANGED up

PortNext ==
    \/ Open
    \/ Close
    \/ \E s \in Sends : Accept(s) \/ TurnDown(s)
    \/ \E w \in Workers : Enter(w) \/ Leave(w)

PortSpec == PortInit /\ [][PortNext]_portVars
=============================================================================
