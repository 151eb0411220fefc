--------------------------- MODULE ConnectionWatch ---------------------------
(***************************************************************************)
(* What UDPPacketHandler promises the game server about its clients        *)
(* (OnClientDisconnected, ServerEngine.h), with no word about packets,     *)
(* maps, passes or locks: a client that is dropped is reported, once for   *)
(* each drop, and only the report ends its session; when Stop has          *)
(* returned, nothing is left to report and nothing is dropped any more.    *)
(* What no lock orders is allowed: a client connects again, and even joins *)
(* again, before its drop is reported.                                     *)
(***************************************************************************)
CONSTANT Endpoints

VARIABLES
    connected,   \* endpoints with a connection
    dropped,     \* dropped, the report still to come
    session,     \* endpoints the game server has a session for
    open,        \* Stop has not begun
    returned     \* Stop has returned

watchVars == <<connected, dropped, session, open, returned>>

WatchInit ==
    /\ connected = {} /\ dropped = {} /\ session = {}
    /\ open = TRUE
    /\ returned = FALSE

Connect(e) ==
    /\ connected' = connected \cup {e}
    /\ UNCHANGED <<dropped, session, open, returned>>

Joins(e) ==
    /\ session' = session \cup {e}
    /\ UNCHANGED <<connected, dropped, open, returned>>

Drops(e) ==
    /\ ~returned
    /\ e \in connected \ dropped
    /\ connected' = connected \ {e}
    /\ dropped' = dropped \cup {e}
    /\ UNCHANGED <<session, open, returned>>

Reports(e) ==
    /\ ~returned
    /\ e \in dropped
    /\ dropped' = dropped \ {e}
    /\ session' = session \ {e}
    /\ UNCHANGED <<connected, open, returned>>

StopBegins ==
    /\ open' = FALSE
    /\ UNCHANGED <<connected, dropped, session, returned>>

\* Whoever is still connected is forgotten without a report.
StopReturns ==
    /\ ~open /\ ~returned
    /\ dropped = {}
    /\ connected' = {}
    /\ returned' = TRUE
    /\ UNCHANGED <<dropped, session, open>>

WatchNext ==
    \/ \E e \in Endpoints : Connect(e) \/ Joins(e) \/ Drops(e) \/ Reports(e)
    \/ StopBegins
    \/ StopReturns

WatchSpec == WatchInit /\ [][WatchNext]_watchVars
=============================================================================
