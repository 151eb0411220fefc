--------------------------- MODULE PacketHandler ---------------------------
(***************************************************************************)
(* UDPPacketHandler (UDPPacketHandler.cpp): the maps from an endpoint to   *)
(* its ReliableConnectionState and to the time it was last seen, the       *)
(* network threads that look states up and use them, and the reliability   *)
(* thread that erases them and reports the drop to the game server.        *)
(*                                                                         *)
(* m_reliabilityStatesMutex guards the maps; a thread keeps its shared_ptr *)
(* to a state beyond it.  The reliability thread holds the mutex through a *)
(* visit of all endpoints, and looks at the fields of a state without the  *)
(* state's own mutex, one field after another.                             *)
(*                                                                         *)
(* Abstractions.  Of a state: whether packets are unacknowledged, whether  *)
(* an acknowledgement is pending, when the other end was last heard (the   *)
(* numbers are in Reliability).  A state that was erased while a thread    *)
(* holds it is an orphan: nothing reads it any more, so only that it is    *)
(* one is kept.  The game server (GameServerEngine) is external: it has a  *)
(* session for an endpoint from a successful join to the reported drop.    *)
(* The model starts when Start has returned.                               *)
(***************************************************************************)
EXTENDS Naturals, FiniteSets

CONSTANTS
    Endpoints,
    Threads,        \* network worker threads, and game threads that send
    None,           \* no state, no endpoint
    MaxDatagrams    \* bound: datagrams the clients send before they fall silent

\* Of a ReliableConnectionState; "never" is time_point::min().
States == [unacked : BOOLEAN, pendingAck : BOOLEAN, heard : {"never", "fresh", "quiet"}]

ASSUME EndpointsAssumption == IsFiniteSet(Endpoints)
ASSUME NoneAssumption == None \notin Endpoints \cup States
ASSUME DatagramsAssumption == MaxDatagrams \in Nat

VARIABLES
    running,     \* m_isRunning
    states,      \* m_reliabilityStates
    seen,        \* keys of m_endpointLastSeenTime
    manager,     \* where ReliabilityManagementThread stands
    at,          \* the endpoint it looks at
    verdict,     \* dropClientThisPass, and why: "keep", "retries", "stale"
    left,        \* endpoints the loop it is in has still to treat
    toAck,       \* endpointsNeedingExplicitAck
    toNotify,    \* clientsToNotifyDropped
    job,         \* what each thread does
    stopping,    \* where Stop stands: "no", "joining", "stopped"
    session,     \* external: endpoints with a session
    datagrams,   \* datagrams received so far
    owed         \* history: drops not yet reported

maps == <<states, seen>>
pass == <<at, verdict, left, toAck, toNotify>>
vars == <<running, maps, manager, pass, job, stopping, session, datagrams, owed>>

\* A new ReliableConnectionState.
NewState == [unacked |-> FALSE, pendingAck |-> FALSE, heard |-> "never"]
HasState(e) == states[e] # None

Idle == [pc |-> "idle", ep |-> None, kind |-> "none", mapped |-> FALSE, targets |-> {}]

Init ==
    /\ running = TRUE
    /\ states = [e \in Endpoints |-> None]
    /\ seen = {}
    /\ manager = "looping"
    /\ at = None
    /\ verdict = "keep"
    /\ left = {}
    /\ toAck = {}
    /\ toNotify = {}
    /\ job = [t \in Threads |-> Idle]
    /\ stopping = "no"
    /\ session = {}
    /\ datagrams = 0
    /\ owed = {}

\* The reliability thread does not hold m_reliabilityStatesMutex.
MapsFree == manager \notin {"visiting", "timing", "probing", "settling"}

-----------------------------------------------------------------------------
(* A network or game thread.                                                *)
(*   received   OnRawDataReceived: past the running check                   *)
(*   marked     has updated m_endpointLastSeenTime                          *)
(*   holding    has the state of the sender                                 *)
(*   relaying   the protocol hands the payload on                           *)
(*   replying   goes through the recipients of the response                 *)
(*   sending    past the running check of a send                            *)
(*   preparing  has the state of the recipient                              *)
(* A datagram is "bare" if nothing is relayed, a "join" request, or "input". *)
(* A send is "reliable" or "unreliable".                                    *)

\* GetOrCreateReliabilityState: the thread leaves with the state that is in the map.
GetOrCreate(e) ==
    /\ MapsFree
    /\ states' = IF HasState(e) THEN states ELSE [states EXCEPT ![e] = NewState]
    /\ seen' = IF HasState(e) THEN seen ELSE seen \cup {e}

\* What a thread does to the state it holds, an orphan or the one in the map.
Update(t, new) ==
    states' = IF job[t].mapped THEN [states EXCEPT ![job[t].ep] = new] ELSE states

Arrive(t, e, kind) ==
    /\ job[t].pc = "idle"
    /\ running
    /\ datagrams < MaxDatagrams
    /\ datagrams' = datagrams + 1
    /\ job' = [job EXCEPT ![t] = [Idle EXCEPT !.pc = "received", !.ep = e, !.kind = kind]]
    /\ UNCHANGED <<running, maps, manager, pass, stopping, session, owed>>

MarkSeen(t) ==
    /\ job[t].pc = "received"
    /\ MapsFree
    /\ seen' = seen \cup {job[t].ep}
    /\ job' = [job EXCEPT ![t].pc = "marked"]
    /\ UNCHANGED <<running, states, manager, pass, stopping, session, datagrams, owed>>

GetSenderState(t) ==
    /\ job[t].pc = "marked"
    /\ GetOrCreate(job[t].ep)
    /\ job' = [job EXCEPT ![t].pc = "holding", ![t].mapped = TRUE]
    /\ UNCHANGED <<running, manager, pass, stopping, session, datagrams, owed>>

\* ProcessIncomingPacketHeader: the header may acknowledge all that is outstanding, and
\* the packet may be a new reliable one.
ProcessHeader(t) ==
    /\ job[t].pc = "holding"
    /\ \E acked, fresh \in BOOLEAN :
           LET old == states[job[t].ep]
           IN  Update(t, [unacked |-> old.unacked /\ ~acked,
                          pendingAck |-> old.pendingAck \/ fresh, heard |-> "fresh"])
    /\ job' = [job EXCEPT ![t] = IF job[t].kind = "bare" THEN Idle
                                 ELSE [@ EXCEPT !.pc = "relaying", !.mapped = FALSE]]
    /\ UNCHANGED <<running, seen, manager, pass, stopping, session, datagrams, owed>>

\* Mutant: a join is not answered.
RelayJoinUnanswered(t) ==
    /\ job[t].pc = "relaying" /\ job[t].kind = "join"
    /\ session' \in {session, session \cup {job[t].ep}}
    /\ job' = [job EXCEPT ![t] = Idle]
    /\ UNCHANGED <<running, maps, manager, pass, stopping, datagrams, owed>>

\* ProcessApplicationMessage on a join request, which JoinRequestMessageHandler lets the
\* game server grant or refuse; either way the sender gets an answer.  (The join branch of
\* PacketProcessor, the newer way in, is still a stub.)
RelayJoin(t) ==
    /\ job[t].pc = "relaying" /\ job[t].kind = "join"
    /\ session' \in {session, session \cup {job[t].ep}}
    /\ job' = [job EXCEPT ![t] = [Idle EXCEPT !.pc = "replying", !.kind = "reliable",
                                              !.targets = {job[t].ep}]]
    /\ UNCHANGED <<running, maps, manager, pass, stopping, datagrams, owed>>

\* On another message: a player without a session is ignored; the answer, if there is
\* one, goes to the sender or to every session there is.
RelayInput(t) ==
    /\ job[t].pc = "relaying" /\ job[t].kind = "input"
    /\ \E to \in IF job[t].ep \in session THEN {{}, {job[t].ep}, session} ELSE {{}} :
           job' = [job EXCEPT ![t] = IF to = {} THEN Idle
                                     ELSE [Idle EXCEPT !.pc = "replying", !.kind = "reliable",
                                                       !.targets = to]]
    /\ UNCHANGED <<running, maps, manager, pass, stopping, session, datagrams, owed>>

\* A game system sends to a client of a session.
Submit(t, e, kind) ==
    /\ job[t].pc = "idle"
    /\ e \in session
    /\ job' = [job EXCEPT ![t] = [Idle EXCEPT !.pc = "replying", !.kind = kind, !.targets = {e}]]
    /\ UNCHANGED <<running, maps, manager, pass, stopping, session, datagrams, owed>>

\* What is left of the job after the packet to e.
Onward(t, e) ==
    IF job[t].targets = {e} THEN Idle
    ELSE [job[t] EXCEPT !.pc = "replying", !.ep = None, !.mapped = FALSE,
                        !.targets = @ \ {e}]

\* SendReliablePacket, SendUnreliablePacket: nothing is sent once the handler stops.
BeginSend(t, e) ==
    /\ job[t].pc = "replying"
    /\ e \in job[t].targets
    /\ job' = [job EXCEPT ![t] = IF running THEN [@ EXCEPT !.pc = "sending", !.ep = e]
                                 ELSE Onward(t, e)]
    /\ UNCHANGED <<running, maps, manager, pass, stopping, session, datagrams, owed>>

GetRecipientState(t) ==
    /\ job[t].pc = "sending"
    /\ GetOrCreate(job[t].ep)
    /\ job' = [job EXCEPT ![t].pc = "preparing", ![t].mapped = TRUE]
    /\ UNCHANGED <<running, manager, pass, stopping, session, datagrams, owed>>

\* PrepareOutgoingPacket and SendData.
Prepare(t) ==
    /\ job[t].pc = "preparing"
    /\ LET old == states[job[t].ep]
       IN  Update(t, [old EXCEPT !.unacked = @ \/ job[t].kind = "reliable",
                                 !.pendingAck = FALSE])
    /\ job' = [job EXCEPT ![t] = Onward(t, job[t].ep)]
    /\ UNCHANGED <<running, seen, manager, pass, stopping, session, datagrams, owed>>

-----------------------------------------------------------------------------
(* ReliabilityManagementThread.                                             *)
(*   looping    at the head of its loop                                     *)
(*   visiting   holds the mutex, between two endpoints                      *)
(*   timing     about to read lastPacketReceivedTimeFromRemote              *)
(*   probing    about to read unacknowledgedSentPackets                     *)
(*   settling   the verdict on the endpoint stands                          *)
(*   acking, notifying   the loops without the mutex                        *)
(*   exited                                                                 *)

\* Mutant: clientsToNotifyDropped keeps the drops of the pass before.
BeginPassUncleared ==
    /\ manager = "looping" /\ running
    /\ manager' = "visiting"
    /\ left' = {e \in Endpoints : HasState(e)}
    /\ toAck' = {}
    /\ UNCHANGED <<running, maps, at, verdict, toNotify, job, stopping, session, datagrams, owed>>

BeginPass ==
    /\ manager = "looping" /\ running
    /\ manager' = "visiting"
    /\ left' = {e \in Endpoints : HasState(e)}
    /\ toAck' = {}
    /\ toNotify' = {}
    /\ UNCHANGED <<running, maps, at, verdict, job, stopping, session, datagrams, owed>>

Leave ==
    /\ manager = "looping" /\ ~running
    /\ manager' = "exited"
    /\ UNCHANGED <<running, maps, pass, job, stopping, session, datagrams, owed>>

\* Mutant: retries are not counted, so no packet runs out of them.
GiveUpNever(e) == FALSE /\ UNCHANGED vars

\* GetPacketsForRetransmission finds a packet out of retries.
GiveUp(e) ==
    /\ manager = "visiting" /\ e \in left
    /\ states[e].unacked
    /\ at' = e
    /\ verdict' = "retries"
    /\ manager' = "settling"
    /\ UNCHANGED <<running, maps, left, toAck, toNotify, job, stopping, session, datagrams, owed>>

\* It finds none; what it transmits again changes nothing here.
Retransmit(e) ==
    /\ manager = "visiting" /\ e \in left
    /\ at' = e
    /\ verdict' = "keep"
    /\ manager' = "timing"
    /\ UNCHANGED <<running, maps, left, toAck, toNotify, job, stopping, session, datagrams, owed>>

\* The age of a state that never heard from its client overflows: it may look like anything.
ReadHeard ==
    /\ manager = "timing"
    /\ manager' \in CASE states[at].heard = "fresh" -> {"settling"}
                      [] states[at].heard = "quiet" -> {"probing"}
                      [] states[at].heard = "never" -> {"settling", "probing"}
    /\ UNCHANGED <<running, maps, pass, job, stopping, session, datagrams, owed>>

ReadUnacked ==
    /\ manager = "probing"
    /\ verdict' = IF states[at].unacked THEN "keep" ELSE "stale"
    /\ manager' = "settling"
    /\ UNCHANGED <<running, maps, at, left, toAck, toNotify, job, stopping, session, datagrams, owed>>

Keep ==
    /\ manager = "settling" /\ verdict = "keep"
    /\ toAck' = IF states[at].pendingAck THEN toAck \cup {at} ELSE toAck
    /\ left' = left \ {at}
    /\ at' = None
    /\ manager' = "visiting"
    /\ UNCHANGED <<running, maps, verdict, toNotify, job, stopping, session, datagrams, owed>>

\* The threads that hold a state of E have an orphan from now on.
Orphaned(E) ==
    [t \in Threads |-> IF job[t].ep \in E THEN [job[t] EXCEPT !.mapped = FALSE] ELSE job[t]]

\* Mutant: m_endpointLastSeenTime keeps its entry.
DropKeepsTime ==
    /\ manager = "settling" /\ verdict # "keep"
    /\ states' = [states EXCEPT ![at] = None]
    /\ job' = Orphaned({at})
    /\ toNotify' = toNotify \cup {at}
    /\ owed' = owed \cup {at}
    /\ left' = left \ {at}
    /\ at' = None
    /\ manager' = "visiting"
    /\ UNCHANGED <<running, seen, verdict, toAck, stopping, session, datagrams>>

Drop ==
    /\ manager = "settling" /\ verdict # "keep"
    /\ states' = [states EXCEPT ![at] = None]
    /\ seen' = seen \ {at}
    /\ job' = Orphaned({at})
    /\ toNotify' = toNotify \cup {at}
    /\ owed' = owed \cup {at}
    /\ left' = left \ {at}
    /\ at' = None
    /\ manager' = "visiting"
    /\ UNCHANGED <<running, verdict, toAck, stopping, session, datagrams>>

EndVisits ==
    /\ manager = "visiting" /\ left = {}
    /\ manager' = "acking"
    /\ left' = toAck
    /\ UNCHANGED <<running, maps, at, verdict, toAck, toNotify, job, stopping, session, datagrams, owed>>

\* TrySendAckOnlyPacket, if the acknowledgement is still pending and its delay is over.
Acknowledge(e) ==
    /\ manager = "acking" /\ e \in left
    /\ left' = left \ {e}
    /\ \/ /\ HasState(e) /\ states[e].pendingAck
          /\ states' = [states EXCEPT ![e].unacked = TRUE, ![e].pendingAck = FALSE]
       \/ UNCHANGED states
    /\ UNCHANGED <<running, seen, manager, at, verdict, toAck, toNotify, job, stopping, session, datagrams, owed>>

EndAcks ==
    /\ manager = "acking" /\ left = {}
    /\ manager' = "notifying"
    /\ left' = toNotify
    /\ UNCHANGED <<running, maps, at, verdict, toAck, toNotify, job, stopping, session, datagrams, owed>>

\* Mutant: nobody is told any more once Stop has begun.
NotifyWhileRunning(e) ==
    /\ manager = "notifying" /\ e \in left
    /\ session' = IF running THEN session \ {e} ELSE session
    /\ owed' = IF running THEN owed \ {e} ELSE owed
    /\ left' = left \ {e}
    /\ UNCHANGED <<running, maps, manager, at, verdict, toAck, toNotify, job, stopping, datagrams>>

\* OnClientDisconnected
Notify(e) ==
    /\ manager = "notifying" /\ e \in left
    /\ session' = session \ {e}
    /\ owed' = owed \ {e}
    /\ left' = left \ {e}
    /\ UNCHANGED <<running, maps, manager, at, verdict, toAck, toNotify, job, stopping, datagrams>>

EndPass ==
    /\ manager = "notifying" /\ left = {}
    /\ manager' = "looping"
    /\ UNCHANGED <<running, maps, pass, job, stopping, session, datagrams, owed>>

-----------------------------------------------------------------------------
\* Nothing was heard from e for STALE_CONNECTION_TIMEOUT_SECONDS_PKT.
FallQuiet(e) ==
    /\ HasState(e)
    /\ states[e].heard = "fresh"
    /\ states' = [states EXCEPT ![e].heard = "quiet"]
    /\ UNCHANGED <<running, seen, manager, pass, job, stopping, session, datagrams, owed>>

BeginStop ==
    /\ stopping = "no"
    /\ running' = FALSE
    /\ stopping' = "joining"
    /\ UNCHANGED <<maps, manager, pass, job, session, datagrams, owed>>

\* Mutant: the maps are cleared before the reliability thread has left.
FinishStopUnjoined ==
    /\ stopping = "joining"
    /\ states' = [e \in Endpoints |-> None]
    /\ seen' = {}
    /\ job' = Orphaned(Endpoints)
    /\ stopping' = "stopped"
    /\ UNCHANGED <<running, manager, pass, session, datagrams, owed>>

\* The reliability thread is joined and the maps are cleared.
FinishStop ==
    /\ stopping = "joining"
    /\ manager = "exited"
    /\ states' = [e \in Endpoints |-> None]
    /\ seen' = {}
    /\ job' = Orphaned(Endpoints)
    /\ stopping' = "stopped"
    /\ UNCHANGED <<running, manager, pass, session, datagrams, owed>>

ThreadStep(t) ==
    \/ MarkSeen(t) \/ GetSenderState(t) \/ ProcessHeader(t)
    \/ RelayJoin(t) \/ RelayInput(t)
    \/ \E e \in Endpoints : BeginSend(t, e)
    \/ GetRecipientState(t) \/ Prepare(t)

ManagerStep ==
    \/ BeginPass \/ Leave \/ ReadHeard \/ ReadUnacked \/ Keep \/ Drop
    \/ EndVisits \/ EndAcks \/ EndPass
    \/ \E e \in Endpoints : GiveUp(e) \/ Retransmit(e) \/ Acknowledge(e) \/ Notify(e)

Next ==
    \/ \E t \in Threads :
        \/ ThreadStep(t)
        \/ \E e \in Endpoints :
            \/ \E kind \in {"bare", "join", "input"} : Arrive(t, e, kind)
            \/ \E kind \in {"reliable", "unreliable"} : Submit(t, e, kind)
    \/ ManagerStep
    \/ \E e \in Endpoints : FallQuiet(e)
    \/ BeginStop
    \/ FinishStop

Spec == Init /\ [][Next]_vars

\* Threads run, get the mutex that the reliability thread gives up in every pass, and time
\* passes.  A packet nobody acknowledges runs out of retries, for each pass in which it is
\* due counts one.
Fairness ==
    /\ \A t \in Threads : SF_vars(ThreadStep(t))
    /\ WF_vars(ManagerStep)
    /\ \A e \in Endpoints : WF_vars(FallQuiet(e)) /\ SF_vars(GiveUp(e))

FairSpec == Spec /\ Fairness

-----------------------------------------------------------------------------
(* Properties                                                               *)

ThreadPlaces == {"idle", "received", "marked", "holding", "relaying", "replying",
                 "sending", "preparing"}
ManagerPlaces == {"looping", "visiting", "timing", "probing", "settling", "acking",
                  "notifying", "exited"}
Jobs == [pc : ThreadPlaces, ep : Endpoints \cup {None},
         kind : {"none", "bare", "join", "input", "reliable", "unreliable"},
         mapped : BOOLEAN, targets : SUBSET Endpoints]

\* Types; a thread that holds the state in the map, and the reliability thread at an
\* endpoint, find one there; the reliability thread has left once Stop is through.
TypeOK ==
    /\ running \in BOOLEAN
    /\ states \in [Endpoints -> States \cup {None}]
    /\ seen \subseteq Endpoints
    /\ manager \in ManagerPlaces
    /\ at \in Endpoints \cup {None}
    /\ verdict \in {"keep", "retries", "stale"}
    /\ left \subseteq Endpoints
    /\ toAck \subseteq Endpoints
    /\ toNotify \subseteq Endpoints
    /\ job \in [Threads -> Jobs]
    /\ stopping \in {"no", "joining", "stopped"}
    /\ session \subseteq Endpoints
    /\ datagrams \in Nat
    /\ owed \subseteq Endpoints
    /\ \A t \in Threads : job[t].mapped => job[t].ep \in Endpoints /\ HasState(job[t].ep)
    /\ manager \in {"timing", "probing", "settling"} => at \in Endpoints /\ HasState(at)

\* The two maps never drift apart: every state has a last-seen time, and a time without
\* a state belongs to a thread that is about to create the state.
SeenMatchesStates ==
    \A e \in Endpoints :
        /\ HasState(e) => e \in seen
        /\ e \in seen => \/ HasState(e)
                         \/ \E t \in Threads : job[t].pc = "marked" /\ job[t].ep = e

\* Endpoints whose drop the reliability thread is still going to report in this pass.
Due == CASE manager \in {"looping", "exited"} -> {}
         [] manager = "notifying" -> left
         [] OTHER -> toNotify

\* Every drop is reported, and reported once.
DropsAreReportedOnce == owed = Due

\* A session is never left without somebody who will notice that its client has gone: it
\* has a connection state, or its end is about to be reported, or a thread is about to
\* send to it and so to create the state.
SessionIsWatched ==
    running =>
        \A e \in session :
            \/ HasState(e)
            \/ e \in Due
            \/ \E t \in Threads : e \in job[t].targets

\* The session of a client that has fallen silent ends.
SilentSessionEnds == \A e \in Endpoints : e \in session ~> (e \notin session \/ ~running)

\* A connection is dropped as stale only when nothing sent to it waits for an
\* acknowledgement.
StaleHasNothingOutstanding ==
    [][\A e \in Endpoints :
           (at = e /\ verdict = "stale" /\ HasState(e) /\ states'[e] = None)
               => ~states[e].unacked]_vars

\* The game server sees whether a client is connected, not the state of the connection.
Watched == INSTANCE ConnectionWatch WITH
    connected <- {e \in Endpoints : HasState(e)},
    dropped <- owed,
    open <- running,
    returned <- stopping = "stopped"

\* Every behaviour of the handler is one of ConnectionWatch: only a report ends a
\* session, each drop is reported before the client can be dropped again, and no
\* report is outstanding, or follows, when Stop has returned.
WatchesClients == Watched!WatchSpec
=============================================================================
