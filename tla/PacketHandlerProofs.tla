------------------------ MODULE PacketHandlerProofs ------------------------
(***************************************************************************)
(* Proofs about PacketHandler, for any endpoints, threads and number of    *)
(* datagrams.  Nothing about them is inductive alone: that the drops owed  *)
(* are the drops due rests on where the reliability thread stands, that a  *)
(* session is watched on which thread is about to create which state, and  *)
(* that a state found is still there on who holds the mutex.  Inv is their *)
(* strengthening; one lemma per action shows that it is preserved.         *)
(***************************************************************************)
EXTENDS PacketHandler, TLAPS

\* What a thread at each place has in hand; only the two places between a lookup and the
\* use of its result hold a state.
JobShape ==
    \A t \in Threads :
        /\ job[t].pc \in {"received", "marked", "holding", "relaying", "sending", "preparing"}
               => job[t].ep \in Endpoints
        /\ job[t].pc \in {"sending", "preparing"} => job[t].ep \in job[t].targets
        /\ job[t].pc \in {"idle", "received", "marked", "holding", "relaying"} => job[t].targets = {}
        /\ job[t].mapped => job[t].pc \in {"holding", "preparing"}

\* While the reliability thread holds the mutex, what it has still to visit is in the map.
LeftHasState == ~MapsFree => \A e \in left : HasState(e)

\* Stop first lowers m_isRunning, then waits for the reliability thread.
Phases ==
    /\ stopping = "stopped" => manager = "exited"
    /\ manager = "exited" => ~running
    /\ stopping # "no" => ~running

\* Thread t will still look the state of e up, or create it.
GoesToSend(t, e) == e \in job[t].targets /\ ~(job[t].pc = "preparing" /\ job[t].ep = e)

\* SessionIsWatched without the thread that has done its lookup and whose state may be
\* erased under it.
Watch ==
    running => \A e \in session : HasState(e) \/ e \in Due \/ \E t \in Threads : GoesToSend(t, e)

\* The inductive invariant.
Inv ==
    /\ TypeOK
    /\ JobShape
    /\ LeftHasState
    /\ Phases
    /\ Watch
    /\ SeenMatchesStates
    /\ DropsAreReportedOnce

-----------------------------------------------------------------------------
(* The helpers                                                              *)

\* A write through a held pointer changes a state in place and maps no endpoint anew.
LEMMA UpdateKeepsStates ==
    ASSUME TypeOK, NEW t \in Threads, NEW new, job[t].mapped => new \in States, Update(t, new)
    PROVE  /\ states' \in [Endpoints -> States \cup {None}]
           /\ \A e \in Endpoints : HasState(e)' <=> HasState(e)
  <1> USE NoneAssumption
  <1>1. CASE job[t].mapped
    <2>1. /\ job[t].ep \in Endpoints /\ HasState(job[t].ep)
          /\ states' = [states EXCEPT ![job[t].ep] = new]
      BY <1>1 DEF TypeOK, Update
    <2>2. None \notin States
      OBVIOUS
    <2>3. QED
      BY <1>1, <2>1, <2>2 DEF TypeOK, HasState
  <1>2. CASE ~job[t].mapped
    BY <1>2 DEF TypeOK, Update, HasState
  <1>3. QED
    BY <1>1, <1>2

\* What is left of a job is a job that holds no state.
LEMMA OnwardIsJob ==
    ASSUME TypeOK, NEW t \in Threads, NEW e
    PROVE  Onward(t, e) \in Jobs /\ ~Onward(t, e).mapped
  <1>1. job[t] \in Jobs
    BY DEF TypeOK
  <1>2. CASE job[t].targets = {e}
    BY <1>2 DEF Onward, Idle, Jobs, ThreadPlaces
  <1>3. CASE job[t].targets # {e}
    <2>1. Onward(t, e) = [job[t] EXCEPT !.pc = "replying", !.ep = None, !.mapped = FALSE,
                                        !.targets = job[t].targets \ {e}]
      BY <1>1, <1>3 DEF Onward, Jobs
    <2>2. QED
      BY <1>1, <2>1 DEF Jobs, ThreadPlaces
  <1>4. QED
    BY <1>2, <1>3

\* An erased state is nobody's state in the map any more.
LEMMA OrphanedIsJob ==
    ASSUME TypeOK, NEW E, NEW t \in Threads
    PROVE  /\ Orphaned(E)[t] \in Jobs
           /\ Orphaned(E)[t].mapped => job[t].mapped /\ job[t].ep \notin E
           /\ Orphaned(E)[t].ep = job[t].ep
  <1>1. job[t] \in Jobs
    BY DEF TypeOK
  <1>2. CASE job[t].ep \in E
    <2>1. Orphaned(E)[t] = [job[t] EXCEPT !.mapped = FALSE]
      BY <1>2 DEF Orphaned
    <2>2. QED
      BY <1>1, <1>2, <2>1 DEF Jobs
  <1>3. CASE job[t].ep \notin E
    BY <1>1, <1>3 DEF Orphaned
  <1>4. QED
    BY <1>2, <1>3

-----------------------------------------------------------------------------
(* A network or game thread                                                 *)

\* A datagram arrives.
LEMMA ArriveInv ==
    ASSUME Inv, NEW t \in Threads, NEW e \in Endpoints,
           NEW kind \in {"bare", "join", "input", "reliable", "unreliable"}, Arrive(t, e, kind)
    PROVE  Inv'
  <1> USE EndpointsAssumption, NoneAssumption, DatagramsAssumption
  <1>1. TypeOK'
    <2>1. [Idle EXCEPT !.pc = "received", !.ep = e, !.kind = kind] \in Jobs
      BY DEF Idle, Jobs, ThreadPlaces
    <2>2. job' \in [Threads -> Jobs]
      BY <2>1 DEF Inv, TypeOK, Arrive
    <2>3. ASSUME NEW u \in Threads, job'[u].mapped PROVE job[u].mapped /\ job'[u].ep = job[u].ep
      BY <2>3 DEF Inv, TypeOK, Arrive, Idle
    <2>4. QED
      BY <2>2, <2>3 DEF Inv, TypeOK, HasState, maps, pass, Arrive
  <1>2. JobShape'
    BY DEF Inv, TypeOK, maps, pass, JobShape, Arrive, Idle
  <1>3. (LeftHasState /\ Phases)'
    BY DEF Inv, TypeOK, maps, pass, LeftHasState, Phases, MapsFree, HasState, Arrive
  <1>4. Watch'
    BY DEF Inv, TypeOK, maps, pass, JobShape, Watch, GoesToSend, Due, HasState, Arrive
  <1>5. SeenMatchesStates'
    BY DEF Inv, TypeOK, maps, pass, SeenMatchesStates, HasState, Arrive
  <1>6. DropsAreReportedOnce'
    BY DEF Inv, TypeOK, maps, pass, DropsAreReportedOnce, Due, Arrive
  <1>7. QED
    BY <1>1, <1>2, <1>3, <1>4, <1>5, <1>6 DEF Inv

\* OnRawDataReceived notes the time.
LEMMA MarkSeenInv ==
    ASSUME Inv, NEW t \in Threads, MarkSeen(t)
    PROVE  Inv'
  <1> USE EndpointsAssumption, NoneAssumption, DatagramsAssumption
  <1>1. TypeOK'
    BY DEF Inv, TypeOK, maps, pass, JobShape, HasState, Jobs, ThreadPlaces, MarkSeen
  <1>2. JobShape'
    BY DEF Inv, TypeOK, maps, pass, JobShape, MarkSeen
  <1>3. (LeftHasState /\ Phases)'
    BY DEF Inv, TypeOK, maps, pass, LeftHasState, Phases, MapsFree, MarkSeen
  <1>4. Watch'
    BY DEF Inv, TypeOK, maps, pass, Watch, GoesToSend, Due, HasState, MarkSeen
  <1>5. SeenMatchesStates'
    BY DEF Inv, TypeOK, maps, pass, SeenMatchesStates, HasState, MarkSeen
  <1>6. DropsAreReportedOnce'
    BY DEF Inv, TypeOK, maps, pass, DropsAreReportedOnce, Due, MarkSeen
  <1>7. QED
    BY <1>1, <1>2, <1>3, <1>4, <1>5, <1>6 DEF Inv

\* It looks the state of the sender up.
LEMMA GetSenderStateInv ==
    ASSUME Inv, NEW t \in Threads, GetSenderState(t)
    PROVE  Inv'
  <1> USE EndpointsAssumption, NoneAssumption, DatagramsAssumption
  <1>1. TypeOK'
    BY DEF Inv, TypeOK, maps, pass, JobShape, Jobs, GetSenderState
  <1>2. JobShape'
    BY DEF Inv, TypeOK, maps, pass, JobShape, GetSenderState
  <1>3. (LeftHasState /\ Phases)'
    BY DEF Inv, TypeOK, maps, pass, LeftHasState, Phases, MapsFree, GetSenderState, GetOrCreate
  <1>4. Watch'
    BY DEF Inv, TypeOK, maps, pass, Watch, GoesToSend, Due, HasState, GetSenderState, GetOrCreate
  <1>5. SeenMatchesStates'
    BY DEF Inv, TypeOK, maps, pass, SeenMatchesStates, HasState, Jobs, GetSenderState, GetOrCreate
  <1>6. DropsAreReportedOnce'
    BY DEF Inv, TypeOK, maps, pass, DropsAreReportedOnce, Due, GetSenderState
  <1>7. QED
    BY <1>1, <1>2, <1>3, <1>4, <1>5, <1>6 DEF Inv

\* Working a header in maps no endpoint anew.
LEMMA ProcessHeaderKeeps ==
    ASSUME TypeOK, NEW t \in Threads, ProcessHeader(t)
    PROVE  /\ states' \in [Endpoints -> States \cup {None}]
           /\ \A e \in Endpoints : HasState(e)' <=> HasState(e)
  <1>1. PICK acked \in BOOLEAN, fresh \in BOOLEAN :
            Update(t, [unacked |-> states[job[t].ep].unacked /\ ~acked,
                       pendingAck |-> states[job[t].ep].pendingAck \/ fresh, heard |-> "fresh"])
    BY DEF ProcessHeader
  <1>2. job[t].mapped => states[job[t].ep] \in States
    BY DEF TypeOK, HasState
  <1>3. job[t].mapped => [unacked |-> states[job[t].ep].unacked /\ ~acked,
                          pendingAck |-> states[job[t].ep].pendingAck \/ fresh,
                          heard |-> "fresh"] \in States
    BY <1>2 DEF States
  <1>4. QED
    BY <1>1, <1>3, UpdateKeepsStates

\* It works the header into that state, an orphan or not.
LEMMA ProcessHeaderInv ==
    ASSUME Inv, NEW t \in Threads, ProcessHeader(t)
    PROVE  Inv'
  <1> USE EndpointsAssumption, NoneAssumption, DatagramsAssumption
  <1>a. /\ states' \in [Endpoints -> States \cup {None}]
        /\ \A e \in Endpoints : HasState(e)' <=> HasState(e)
    BY ProcessHeaderKeeps DEF Inv
  <1>b. job' = [job EXCEPT ![t] = IF job[t].kind = "bare" THEN Idle
                                  ELSE [job[t] EXCEPT !.pc = "relaying", !.mapped = FALSE]]
    BY DEF Inv, TypeOK, ProcessHeader
  <1>c. job[t] \in Jobs /\ job[t].pc = "holding"
    BY DEF Inv, TypeOK, ProcessHeader
  <1>1. TypeOK'
    <2>1. Idle \in Jobs /\ [job[t] EXCEPT !.pc = "relaying", !.mapped = FALSE] \in Jobs
      BY <1>c DEF Idle, Jobs, ThreadPlaces
    <2>2. job' \in [Threads -> Jobs]
      BY <1>b, <2>1 DEF Inv, TypeOK
    <2>3. ASSUME NEW u \in Threads, job'[u].mapped PROVE job[u].mapped /\ job'[u].ep = job[u].ep
      BY <1>b, <1>c, <2>3 DEF Inv, TypeOK, Idle, Jobs
    <2>4. QED
      BY <1>a, <2>2, <2>3 DEF Inv, TypeOK, pass, ProcessHeader
  <1>2. JobShape'
    BY DEF Inv, TypeOK, maps, pass, JobShape, ProcessHeader, Idle
  <1>3. (LeftHasState /\ Phases)'
    BY <1>a DEF Inv, TypeOK, LeftHasState, Phases, MapsFree, pass, ProcessHeader
  <1>4. Watch'
    <2>1. ASSUME NEW u \in Threads, NEW e \in Endpoints, GoesToSend(u, e) PROVE GoesToSend(u, e)'
      BY <1>b, <1>c, <2>1 DEF Inv, TypeOK, JobShape, GoesToSend
    <2>2. QED
      BY <1>a, <2>1 DEF Inv, TypeOK, Watch, Due, pass, ProcessHeader
  <1>5. SeenMatchesStates'
    <2>1. ASSUME NEW u \in Threads, job[u].pc = "marked" PROVE job'[u] = job[u]
      BY <1>b, <1>c, <2>1 DEF Inv, TypeOK
    <2>2. QED
      BY <1>a, <2>1 DEF Inv, TypeOK, SeenMatchesStates, ProcessHeader
  <1>6. DropsAreReportedOnce'
    BY DEF Inv, TypeOK, maps, pass, DropsAreReportedOnce, Due, ProcessHeader
  <1>7. QED
    BY <1>1, <1>2, <1>3, <1>4, <1>5, <1>6 DEF Inv

\* A join request may make a session and is always answered.
LEMMA RelayJoinInv ==
    ASSUME Inv, NEW t \in Threads, RelayJoin(t)
    PROVE  Inv'
  <1> USE EndpointsAssumption, NoneAssumption, DatagramsAssumption
  <1>1. TypeOK'
    BY ZenonT(40) DEF Inv, TypeOK, maps, pass, JobShape, HasState, Jobs, ThreadPlaces, RelayJoin, Idle
  <1>2. JobShape'
    BY DEF Inv, TypeOK, maps, pass, JobShape, RelayJoin, Idle
  <1>3. (LeftHasState /\ Phases)'
    BY DEF Inv, TypeOK, maps, pass, LeftHasState, Phases, MapsFree, HasState, RelayJoin
  <1>4. Watch'
    BY DEF Inv, TypeOK, maps, pass, JobShape, Watch, GoesToSend, Due, HasState, RelayJoin
  <1>5. SeenMatchesStates'
    BY DEF Inv, TypeOK, maps, pass, SeenMatchesStates, HasState, RelayJoin
  <1>6. DropsAreReportedOnce'
    BY DEF Inv, TypeOK, maps, pass, DropsAreReportedOnce, Due, RelayJoin
  <1>7. QED
    BY <1>1, <1>2, <1>3, <1>4, <1>5, <1>6 DEF Inv

\* Input of a player may be answered.
LEMMA RelayInputInv ==
    ASSUME Inv, NEW t \in Threads, RelayInput(t)
    PROVE  Inv'
  <1> USE EndpointsAssumption, NoneAssumption, DatagramsAssumption
  <1>1. TypeOK'
    <2>1. PICK to \in IF job[t].ep \in session THEN {{}, {job[t].ep}, session} ELSE {{}} :
              job' = [job EXCEPT ![t] = IF to = {} THEN Idle
                          ELSE [Idle EXCEPT !.pc = "replying", !.kind = "reliable", !.targets = to]]
      BY DEF RelayInput
    <2>2. /\ Idle \in Jobs
          /\ [Idle EXCEPT !.pc = "replying", !.kind = "reliable", !.targets = to] \in Jobs
      <3>1. to \subseteq Endpoints
        BY <2>1 DEF Inv, TypeOK
      <3>2. QED
        BY <3>1 DEF Idle, Jobs, ThreadPlaces
    <2>3. job' \in [Threads -> Jobs]
      BY <2>1, <2>2 DEF Inv, TypeOK
    <2>4. ASSUME NEW u \in Threads, job'[u].mapped PROVE job[u].mapped /\ job'[u].ep = job[u].ep
      BY <2>1, <2>4 DEF Inv, TypeOK, Idle
    <2>5. QED
      BY <2>3, <2>4 DEF Inv, TypeOK, HasState, maps, pass, RelayInput
  <1>2. JobShape'
    BY DEF Inv, TypeOK, maps, pass, JobShape, RelayInput, Idle
  <1>3. (LeftHasState /\ Phases)'
    BY DEF Inv, TypeOK, maps, pass, LeftHasState, Phases, MapsFree, HasState, RelayInput
  <1>4. Watch'
    BY DEF Inv, TypeOK, maps, pass, JobShape, Watch, GoesToSend, Due, HasState, RelayInput
  <1>5. SeenMatchesStates'
    BY DEF Inv, TypeOK, maps, pass, SeenMatchesStates, HasState, RelayInput
  <1>6. DropsAreReportedOnce'
    BY DEF Inv, TypeOK, maps, pass, DropsAreReportedOnce, Due, RelayInput
  <1>7. QED
    BY <1>1, <1>2, <1>3, <1>4, <1>5, <1>6 DEF Inv

\* A game system sends.
LEMMA SubmitInv ==
    ASSUME Inv, NEW t \in Threads, NEW e \in Endpoints,
           NEW kind \in {"bare", "join", "input", "reliable", "unreliable"}, Submit(t, e, kind)
    PROVE  Inv'
  <1> USE EndpointsAssumption, NoneAssumption, DatagramsAssumption
  <1>1. TypeOK'
    BY DEF Inv, TypeOK, maps, pass, Phases, HasState, Jobs, ThreadPlaces, Submit, Idle
  <1>2. JobShape'
    BY DEF Inv, TypeOK, maps, pass, JobShape, Submit, Idle
  <1>3. (LeftHasState /\ Phases)'
    BY DEF Inv, TypeOK, maps, pass, LeftHasState, Phases, MapsFree, HasState, Submit
  <1>4. Watch'
    BY DEF Inv, TypeOK, maps, pass, JobShape, Watch, GoesToSend, Due, HasState, Submit
  <1>5. SeenMatchesStates'
    BY DEF Inv, TypeOK, maps, pass, SeenMatchesStates, HasState, Submit
  <1>6. DropsAreReportedOnce'
    BY DEF Inv, TypeOK, maps, pass, DropsAreReportedOnce, Due, Submit
  <1>7. QED
    BY <1>1, <1>2, <1>3, <1>4, <1>5, <1>6 DEF Inv

\* A send checks m_isRunning.
LEMMA BeginSendInv ==
    ASSUME Inv, NEW t \in Threads, NEW e \in Endpoints, BeginSend(t, e)
    PROVE  Inv'
  <1> USE EndpointsAssumption, NoneAssumption, DatagramsAssumption
  <1>1. TypeOK'
    <2>1. [job[t] EXCEPT !.pc = "sending", !.ep = e] \in Jobs
      BY ZenonT(40) DEF Inv, TypeOK, Jobs, ThreadPlaces
    <2>2. Onward(t, e) \in Jobs /\ ~Onward(t, e).mapped
      BY OnwardIsJob DEF Inv
    <2>3. job' = [job EXCEPT ![t] = IF running THEN [job[t] EXCEPT !.pc = "sending", !.ep = e]
                                    ELSE Onward(t, e)]
      BY DEF Inv, TypeOK, BeginSend
    <2>4. job' \in [Threads -> Jobs]
      BY <2>1, <2>2, <2>3 DEF Inv, TypeOK
    <2>5. ~job[t].mapped
      BY DEF Inv, TypeOK, JobShape, BeginSend
    <2>6. ASSUME NEW u \in Threads, job'[u].mapped PROVE job[u].mapped /\ job'[u].ep = job[u].ep
      <3>1. CASE u = t
        BY <2>1, <2>2, <2>3, <2>5, <2>6, <3>1 DEF Inv, TypeOK, Jobs
      <3>2. CASE u # t
        BY <2>3, <3>2, <2>6 DEF Inv, TypeOK
      <3>3. QED
        BY <3>1, <3>2
    <2>7. QED
      BY <2>4, <2>6 DEF Inv, TypeOK, HasState, maps, pass, BeginSend
  <1>2. JobShape'
    BY DEF Inv, TypeOK, maps, pass, JobShape, BeginSend, Onward, Idle
  <1>3. (LeftHasState /\ Phases)'
    BY DEF Inv, TypeOK, maps, pass, LeftHasState, Phases, MapsFree, HasState, BeginSend
  <1>4. Watch'
    BY DEF Inv, TypeOK, maps, pass, Watch, GoesToSend, Due, HasState, BeginSend
  <1>5. SeenMatchesStates'
    BY DEF Inv, TypeOK, maps, pass, SeenMatchesStates, HasState, BeginSend
  <1>6. DropsAreReportedOnce'
    BY DEF Inv, TypeOK, maps, pass, DropsAreReportedOnce, Due, BeginSend
  <1>7. QED
    BY <1>1, <1>2, <1>3, <1>4, <1>5, <1>6 DEF Inv

\* It looks the state of the recipient up.
LEMMA GetRecipientStateInv ==
    ASSUME Inv, NEW t \in Threads, GetRecipientState(t)
    PROVE  Inv'
  <1> USE EndpointsAssumption, NoneAssumption, DatagramsAssumption
  <1>1. TypeOK'
    BY DEF Inv, TypeOK, maps, pass, JobShape, Jobs, GetRecipientState
  <1>2. JobShape'
    BY DEF Inv, TypeOK, maps, pass, JobShape, GetRecipientState
  <1>3. (LeftHasState /\ Phases)'
    BY DEF Inv, TypeOK, maps, pass, LeftHasState, Phases, MapsFree, GetRecipientState, GetOrCreate
  <1>4. Watch'
    BY SMTT(30) DEF Inv, TypeOK, maps, pass, Watch, GoesToSend, Due, HasState, Jobs, GetRecipientState,
           GetOrCreate
  <1>5. SeenMatchesStates'
    BY DEF Inv, TypeOK, maps, pass, SeenMatchesStates, HasState, Jobs, GetRecipientState,
           GetOrCreate
  <1>6. DropsAreReportedOnce'
    BY DEF Inv, TypeOK, maps, pass, DropsAreReportedOnce, Due, GetRecipientState
  <1>7. QED
    BY <1>1, <1>2, <1>3, <1>4, <1>5, <1>6 DEF Inv

\* Nor does filling a packet.
LEMMA PrepareKeeps ==
    ASSUME TypeOK, NEW t \in Threads, Prepare(t)
    PROVE  /\ states' \in [Endpoints -> States \cup {None}]
           /\ \A e \in Endpoints : HasState(e)' <=> HasState(e)
  <1> DEFINE old == states[job[t].ep]
  <1> DEFINE new == [old EXCEPT !.unacked = @ \/ job[t].kind = "reliable", !.pendingAck = FALSE]
  <1>1. Update(t, new)
    BY DEF Prepare
  <1>2. job[t].mapped => old \in States
    BY DEF TypeOK, HasState
  <1>3. job[t].mapped => new \in States
    BY <1>2 DEF States
  <1>4. QED
    BY <1>1, <1>3, UpdateKeepsStates

\* It fills the packet from that state and sends it.
LEMMA PrepareInv ==
    ASSUME Inv, NEW t \in Threads, Prepare(t)
    PROVE  Inv'
  <1> USE EndpointsAssumption, NoneAssumption, DatagramsAssumption
  <1>a. /\ states' \in [Endpoints -> States \cup {None}]
        /\ \A e \in Endpoints : HasState(e)' <=> HasState(e)
    BY PrepareKeeps DEF Inv
  <1>b. job' = [job EXCEPT ![t] = Onward(t, job[t].ep)]
    BY DEF Inv, TypeOK, Prepare
  <1>c. job[t] \in Jobs /\ job[t].pc = "preparing"
    BY DEF Inv, TypeOK, Prepare
  <1>1. TypeOK'
    <2>1. Onward(t, job[t].ep) \in Jobs /\ ~Onward(t, job[t].ep).mapped
      BY OnwardIsJob DEF Inv
    <2>2. job' \in [Threads -> Jobs]
      BY <1>b, <2>1 DEF Inv, TypeOK
    <2>3. ASSUME NEW u \in Threads, job'[u].mapped PROVE job[u].mapped /\ job'[u].ep = job[u].ep
      BY <1>b, <2>1, <2>3 DEF Inv, TypeOK
    <2>4. QED
      BY <1>a, <2>2, <2>3 DEF Inv, TypeOK, pass, Prepare
  <1>2. JobShape'
    BY DEF Inv, TypeOK, maps, pass, JobShape, Prepare, Onward, Idle
  <1>3. (LeftHasState /\ Phases)'
    BY <1>a DEF Inv, TypeOK, LeftHasState, Phases, MapsFree, pass, Prepare
  <1>4. Watch'
    <2>1. /\ job[t].ep \in Endpoints
          /\ Onward(t, job[t].ep).targets = job[t].targets \ {job[t].ep}
          /\ Onward(t, job[t].ep).pc # "preparing"
      BY <1>c DEF Inv, JobShape, Onward, Idle
    <2>2. ASSUME NEW u \in Threads, NEW e \in Endpoints, GoesToSend(u, e) PROVE GoesToSend(u, e)'
      BY <1>b, <1>c, <2>1, <2>2 DEF Inv, TypeOK, GoesToSend
    <2>3. QED
      BY <1>a, <2>2 DEF Inv, TypeOK, Watch, Due, pass, Prepare
  <1>5. SeenMatchesStates'
    <2>1. ASSUME NEW u \in Threads, job[u].pc = "marked" PROVE job'[u] = job[u]
      BY <1>b, <1>c, <2>1 DEF Inv, TypeOK
    <2>2. QED
      BY <1>a, <2>1 DEF Inv, TypeOK, SeenMatchesStates, Prepare
  <1>6. DropsAreReportedOnce'
    BY DEF Inv, TypeOK, maps, pass, DropsAreReportedOnce, Due, Prepare
  <1>7. QED
    BY <1>1, <1>2, <1>3, <1>4, <1>5, <1>6 DEF Inv

-----------------------------------------------------------------------------
(* ReliabilityManagementThread                                              *)

\* A pass begins with nothing to report.
LEMMA BeginPassInv ==
    ASSUME Inv, BeginPass
    PROVE  Inv'
  <1> USE EndpointsAssumption, NoneAssumption, DatagramsAssumption
  <1>1. TypeOK'
    BY DEF Inv, TypeOK, maps, pass, HasState, ManagerPlaces, BeginPass
  <1>2. JobShape'
    BY DEF Inv, TypeOK, maps, pass, JobShape, BeginPass
  <1>3. (LeftHasState /\ Phases)'
    BY DEF Inv, TypeOK, maps, pass, LeftHasState, Phases, HasState, BeginPass
  <1>4. Watch'
    BY DEF Inv, TypeOK, maps, pass, Watch, GoesToSend, Due, HasState, BeginPass
  <1>5. SeenMatchesStates'
    BY DEF Inv, TypeOK, maps, pass, SeenMatchesStates, HasState, BeginPass
  <1>6. DropsAreReportedOnce'
    BY DEF Inv, TypeOK, maps, pass, DropsAreReportedOnce, Due, BeginPass
  <1>7. QED
    BY <1>1, <1>2, <1>3, <1>4, <1>5, <1>6 DEF Inv

\* The thread leaves its loop.
LEMMA LeaveInv ==
    ASSUME Inv, Leave
    PROVE  Inv'
  <1> USE EndpointsAssumption, NoneAssumption, DatagramsAssumption
  <1>1. TypeOK'
    BY DEF Inv, TypeOK, maps, pass, HasState, ManagerPlaces, Leave
  <1>2. JobShape'
    BY DEF Inv, TypeOK, maps, pass, JobShape, Leave
  <1>3. (LeftHasState /\ Phases)'
    BY DEF Inv, TypeOK, maps, pass, LeftHasState, Phases, MapsFree, Leave
  <1>4. Watch'
    BY DEF Inv, TypeOK, maps, pass, Watch, Leave
  <1>5. SeenMatchesStates'
    BY DEF Inv, TypeOK, maps, pass, SeenMatchesStates, HasState, Leave
  <1>6. DropsAreReportedOnce'
    BY DEF Inv, TypeOK, maps, pass, DropsAreReportedOnce, Due, Leave
  <1>7. QED
    BY <1>1, <1>2, <1>3, <1>4, <1>5, <1>6 DEF Inv

\* A packet is out of retries.
LEMMA GiveUpInv ==
    ASSUME Inv, NEW e \in Endpoints, GiveUp(e)
    PROVE  Inv'
  <1> USE EndpointsAssumption, NoneAssumption, DatagramsAssumption
  <1>1. TypeOK'
    BY DEF Inv, TypeOK, maps, pass, LeftHasState, MapsFree, HasState, ManagerPlaces, GiveUp
  <1>2. JobShape'
    BY DEF Inv, TypeOK, maps, pass, JobShape, GiveUp
  <1>3. (LeftHasState /\ Phases)'
    BY DEF Inv, TypeOK, maps, pass, LeftHasState, Phases, MapsFree, HasState, GiveUp
  <1>4. Watch'
    BY DEF Inv, TypeOK, maps, pass, Watch, GoesToSend, Due, HasState, GiveUp
  <1>5. SeenMatchesStates'
    BY DEF Inv, TypeOK, maps, pass, SeenMatchesStates, HasState, GiveUp
  <1>6. DropsAreReportedOnce'
    BY DEF Inv, TypeOK, maps, pass, DropsAreReportedOnce, Due, GiveUp
  <1>7. QED
    BY <1>1, <1>2, <1>3, <1>4, <1>5, <1>6 DEF Inv

\* None is.
LEMMA RetransmitInv ==
    ASSUME Inv, NEW e \in Endpoints, Retransmit(e)
    PROVE  Inv'
  <1> USE EndpointsAssumption, NoneAssumption, DatagramsAssumption
  <1>1. TypeOK'
    BY DEF Inv, TypeOK, maps, pass, LeftHasState, MapsFree, HasState, ManagerPlaces, Retransmit
  <1>2. JobShape'
    BY DEF Inv, TypeOK, maps, pass, JobShape, Retransmit
  <1>3. (LeftHasState /\ Phases)'
    BY DEF Inv, TypeOK, maps, pass, LeftHasState, Phases, MapsFree, HasState, Retransmit
  <1>4. Watch'
    BY DEF Inv, TypeOK, maps, pass, Watch, GoesToSend, Due, HasState, Retransmit
  <1>5. SeenMatchesStates'
    BY DEF Inv, TypeOK, maps, pass, SeenMatchesStates, HasState, Retransmit
  <1>6. DropsAreReportedOnce'
    BY DEF Inv, TypeOK, maps, pass, DropsAreReportedOnce, Due, Retransmit
  <1>7. QED
    BY <1>1, <1>2, <1>3, <1>4, <1>5, <1>6 DEF Inv

\* The age of the connection is read.
LEMMA ReadHeardInv ==
    ASSUME Inv, ReadHeard
    PROVE  Inv'
  <1> USE EndpointsAssumption, NoneAssumption, DatagramsAssumption
  <1>1. TypeOK'
    BY DEF Inv, TypeOK, maps, pass, HasState, States, ManagerPlaces, ReadHeard
  <1>2. JobShape'
    BY DEF Inv, TypeOK, maps, pass, JobShape, ReadHeard
  <1>3. (LeftHasState /\ Phases)'
    BY DEF Inv, TypeOK, LeftHasState, Phases, MapsFree, HasState, States, maps, pass, ReadHeard
  <1>4. Watch'
    BY DEF Inv, TypeOK, maps, pass, Watch, GoesToSend, Due, HasState, States, ReadHeard
  <1>5. SeenMatchesStates'
    BY DEF Inv, TypeOK, maps, pass, SeenMatchesStates, HasState, ReadHeard
  <1>6. DropsAreReportedOnce'
    <2>1. manager = "timing" /\ manager' \in {"settling", "probing"}
      <3>1. at \in Endpoints /\ states[at] \in States
        BY DEF Inv, TypeOK, HasState, ReadHeard
      <3>2. states[at].heard \in {"fresh", "quiet", "never"}
        BY <3>1 DEF States
      <3>3. QED
        BY <3>2 DEF ReadHeard
    <2>2. QED
      BY <2>1 DEF Inv, DropsAreReportedOnce, Due, pass, ReadHeard
  <1>7. QED
    BY <1>1, <1>2, <1>3, <1>4, <1>5, <1>6 DEF Inv

\* Then whether something is unacknowledged.
LEMMA ReadUnackedInv ==
    ASSUME Inv, ReadUnacked
    PROVE  Inv'
  <1> USE EndpointsAssumption, NoneAssumption, DatagramsAssumption
  <1>1. TypeOK'
    BY DEF Inv, TypeOK, maps, pass, HasState, ManagerPlaces, ReadUnacked
  <1>2. JobShape'
    BY DEF Inv, TypeOK, maps, pass, JobShape, ReadUnacked
  <1>3. (LeftHasState /\ Phases)'
    BY DEF Inv, TypeOK, maps, pass, LeftHasState, Phases, MapsFree, HasState, ReadUnacked
  <1>4. Watch'
    BY DEF Inv, TypeOK, maps, pass, Watch, GoesToSend, Due, HasState, ReadUnacked
  <1>5. SeenMatchesStates'
    BY DEF Inv, TypeOK, maps, pass, SeenMatchesStates, HasState, ReadUnacked
  <1>6. DropsAreReportedOnce'
    BY DEF Inv, TypeOK, maps, pass, DropsAreReportedOnce, Due, ReadUnacked
  <1>7. QED
    BY <1>1, <1>2, <1>3, <1>4, <1>5, <1>6 DEF Inv

\* The endpoint stays.
LEMMA KeepInv ==
    ASSUME Inv, Keep
    PROVE  Inv'
  <1> USE EndpointsAssumption, NoneAssumption, DatagramsAssumption
  <1>1. TypeOK'
    BY DEF Inv, TypeOK, maps, pass, HasState, ManagerPlaces, Keep
  <1>2. JobShape'
    BY DEF Inv, TypeOK, maps, pass, JobShape, Keep
  <1>3. (LeftHasState /\ Phases)'
    BY DEF Inv, TypeOK, maps, pass, LeftHasState, Phases, MapsFree, HasState, Keep
  <1>4. Watch'
    BY DEF Inv, TypeOK, maps, pass, Watch, GoesToSend, Due, HasState, Keep
  <1>5. SeenMatchesStates'
    BY DEF Inv, TypeOK, maps, pass, SeenMatchesStates, HasState, Keep
  <1>6. DropsAreReportedOnce'
    BY DEF Inv, TypeOK, maps, pass, DropsAreReportedOnce, Due, Keep
  <1>7. QED
    BY <1>1, <1>2, <1>3, <1>4, <1>5, <1>6 DEF Inv

\* Its state and its time are erased, and a report is owed.
LEMMA DropInv ==
    ASSUME Inv, Drop
    PROVE  Inv'
  <1> USE EndpointsAssumption, NoneAssumption, DatagramsAssumption
  <1>1. TypeOK'
    <2>1. job' \in [Threads -> Jobs]
      <3>1. job' = [t \in Threads |-> Orphaned({at})[t]]
        BY DEF Drop, Orphaned
      <3>2. QED
        BY <3>1, OrphanedIsJob DEF Inv
    <2>2. ASSUME NEW t \in Threads, job'[t].mapped
          PROVE  job'[t].ep \in Endpoints /\ states'[job'[t].ep] # None
      <3>1. job[t].mapped /\ job[t].ep # at /\ job'[t].ep = job[t].ep
        BY <2>2, OrphanedIsJob DEF Inv, Drop
      <3>2. QED
        BY <3>1 DEF Inv, TypeOK, HasState, Drop
    <2>3. at \in Endpoints /\ states' \in [Endpoints -> States \cup {None}]
      BY DEF Inv, TypeOK, Drop
    <2>4. QED
      BY <2>1, <2>2, <2>3 DEF Inv, TypeOK, HasState, ManagerPlaces, Drop
  <1>2. JobShape'
    BY DEF Inv, TypeOK, maps, pass, JobShape, Drop, Orphaned
  <1>3. (LeftHasState /\ Phases)'
    BY DEF Inv, TypeOK, maps, pass, LeftHasState, Phases, MapsFree, HasState, Drop
  <1>4. Watch'
    BY DEF Inv, TypeOK, maps, pass, Watch, GoesToSend, Due, HasState, Drop, Orphaned
  <1>5. SeenMatchesStates'
    BY DEF Inv, TypeOK, maps, pass, SeenMatchesStates, HasState, Drop, Orphaned
  <1>6. DropsAreReportedOnce'
    BY DEF Inv, TypeOK, maps, pass, DropsAreReportedOnce, Due, Drop
  <1>7. QED
    BY <1>1, <1>2, <1>3, <1>4, <1>5, <1>6 DEF Inv

\* The mutex is given up.
LEMMA EndVisitsInv ==
    ASSUME Inv, EndVisits
    PROVE  Inv'
  <1> USE EndpointsAssumption, NoneAssumption, DatagramsAssumption
  <1>1. TypeOK'
    BY DEF Inv, TypeOK, maps, pass, HasState, ManagerPlaces, EndVisits
  <1>2. JobShape'
    BY DEF Inv, TypeOK, maps, pass, JobShape, EndVisits
  <1>3. (LeftHasState /\ Phases)'
    BY DEF Inv, TypeOK, maps, pass, LeftHasState, Phases, MapsFree, EndVisits
  <1>4. Watch'
    BY DEF Inv, TypeOK, maps, pass, Watch, GoesToSend, Due, HasState, EndVisits
  <1>5. SeenMatchesStates'
    BY DEF Inv, TypeOK, maps, pass, SeenMatchesStates, HasState, EndVisits
  <1>6. DropsAreReportedOnce'
    BY DEF Inv, TypeOK, maps, pass, DropsAreReportedOnce, Due, EndVisits
  <1>7. QED
    BY <1>1, <1>2, <1>3, <1>4, <1>5, <1>6 DEF Inv

\* An acknowledgement is sent on its own.
LEMMA AcknowledgeInv ==
    ASSUME Inv, NEW e \in Endpoints, Acknowledge(e)
    PROVE  Inv'
  <1> USE EndpointsAssumption, NoneAssumption, DatagramsAssumption
  <1>1. TypeOK'
    BY DEF Inv, TypeOK, maps, pass, HasState, States, Acknowledge
  <1>2. JobShape'
    BY DEF Inv, TypeOK, maps, pass, JobShape, Acknowledge
  <1>3. (LeftHasState /\ Phases)'
    BY DEF Inv, TypeOK, maps, pass, LeftHasState, Phases, MapsFree, Acknowledge
  <1>4. Watch'
    BY DEF Inv, TypeOK, maps, pass, Watch, GoesToSend, Due, HasState, States, Acknowledge
  <1>5. SeenMatchesStates'
    BY DEF Inv, TypeOK, maps, pass, SeenMatchesStates, HasState, States, Acknowledge
  <1>6. DropsAreReportedOnce'
    BY DEF Inv, TypeOK, maps, pass, DropsAreReportedOnce, Due, Acknowledge
  <1>7. QED
    BY <1>1, <1>2, <1>3, <1>4, <1>5, <1>6 DEF Inv

\* The reports begin: all that are owed are due.
LEMMA EndAcksInv ==
    ASSUME Inv, EndAcks
    PROVE  Inv'
  <1> USE EndpointsAssumption, NoneAssumption, DatagramsAssumption
  <1>1. TypeOK'
    BY DEF Inv, TypeOK, maps, pass, HasState, ManagerPlaces, EndAcks
  <1>2. JobShape'
    BY DEF Inv, TypeOK, maps, pass, JobShape, EndAcks
  <1>3. (LeftHasState /\ Phases)'
    BY DEF Inv, TypeOK, maps, pass, LeftHasState, Phases, MapsFree, EndAcks
  <1>4. Watch'
    BY DEF Inv, TypeOK, maps, pass, Watch, GoesToSend, Due, HasState, EndAcks
  <1>5. SeenMatchesStates'
    BY DEF Inv, TypeOK, maps, pass, SeenMatchesStates, HasState, EndAcks
  <1>6. DropsAreReportedOnce'
    BY DEF Inv, TypeOK, maps, pass, DropsAreReportedOnce, Due, EndAcks
  <1>7. QED
    BY <1>1, <1>2, <1>3, <1>4, <1>5, <1>6 DEF Inv

\* One drop is reported.
LEMMA NotifyInv ==
    ASSUME Inv, NEW e \in Endpoints, Notify(e)
    PROVE  Inv'
  <1> USE EndpointsAssumption, NoneAssumption, DatagramsAssumption
  <1>1. TypeOK'
    BY DEF Inv, TypeOK, maps, pass, HasState, Notify
  <1>2. JobShape'
    BY DEF Inv, TypeOK, maps, pass, JobShape, Notify
  <1>3. (LeftHasState /\ Phases)'
    BY DEF Inv, TypeOK, maps, pass, LeftHasState, Phases, MapsFree, Notify
  <1>4. Watch'
    BY DEF Inv, TypeOK, maps, pass, Watch, GoesToSend, Due, HasState, Notify
  <1>5. SeenMatchesStates'
    BY DEF Inv, TypeOK, maps, pass, SeenMatchesStates, HasState, Notify
  <1>6. DropsAreReportedOnce'
    BY DEF Inv, TypeOK, maps, pass, DropsAreReportedOnce, Due, Notify
  <1>7. QED
    BY <1>1, <1>2, <1>3, <1>4, <1>5, <1>6 DEF Inv

\* None is left.
LEMMA EndPassInv ==
    ASSUME Inv, EndPass
    PROVE  Inv'
  <1> USE EndpointsAssumption, NoneAssumption, DatagramsAssumption
  <1>1. TypeOK'
    BY DEF Inv, TypeOK, maps, pass, HasState, ManagerPlaces, EndPass
  <1>2. JobShape'
    BY DEF Inv, TypeOK, maps, pass, JobShape, EndPass
  <1>3. (LeftHasState /\ Phases)'
    BY DEF Inv, TypeOK, maps, pass, LeftHasState, Phases, EndPass
  <1>4. Watch'
    BY DEF Inv, TypeOK, maps, pass, Watch, GoesToSend, Due, HasState, EndPass
  <1>5. SeenMatchesStates'
    BY DEF Inv, TypeOK, maps, pass, SeenMatchesStates, HasState, EndPass
  <1>6. DropsAreReportedOnce'
    BY DEF Inv, TypeOK, maps, pass, DropsAreReportedOnce, Due, EndPass
  <1>7. QED
    BY <1>1, <1>2, <1>3, <1>4, <1>5, <1>6 DEF Inv

-----------------------------------------------------------------------------
(* Time and Stop                                                            *)

\* A client is silent for too long.
LEMMA FallQuietInv ==
    ASSUME Inv, NEW e \in Endpoints, FallQuiet(e)
    PROVE  Inv'
  <1> USE EndpointsAssumption, NoneAssumption, DatagramsAssumption
  <1>1. TypeOK'
    BY DEF Inv, TypeOK, maps, pass, HasState, States, FallQuiet
  <1>2. JobShape'
    BY DEF Inv, TypeOK, maps, pass, JobShape, FallQuiet
  <1>3. (LeftHasState /\ Phases)'
    BY DEF Inv, TypeOK, LeftHasState, Phases, MapsFree, HasState, States, maps, pass, FallQuiet
  <1>4. Watch'
    BY DEF Inv, TypeOK, maps, pass, Watch, GoesToSend, Due, HasState, States, FallQuiet
  <1>5. SeenMatchesStates'
    BY DEF Inv, TypeOK, maps, pass, SeenMatchesStates, HasState, States, FallQuiet
  <1>6. DropsAreReportedOnce'
    BY DEF Inv, TypeOK, maps, pass, DropsAreReportedOnce, Due, FallQuiet
  <1>7. QED
    BY <1>1, <1>2, <1>3, <1>4, <1>5, <1>6 DEF Inv

\* Stop lowers m_isRunning.
LEMMA BeginStopInv ==
    ASSUME Inv, BeginStop
    PROVE  Inv'
  <1> USE EndpointsAssumption, NoneAssumption, DatagramsAssumption
  <1>1. TypeOK'
    BY DEF Inv, TypeOK, maps, pass, HasState, BeginStop
  <1>2. JobShape'
    BY DEF Inv, TypeOK, maps, pass, JobShape, BeginStop
  <1>3. (LeftHasState /\ Phases)'
    BY DEF Inv, TypeOK, maps, pass, LeftHasState, Phases, MapsFree, HasState, BeginStop
  <1>4. Watch'
    BY DEF Inv, TypeOK, maps, pass, Watch, BeginStop
  <1>5. SeenMatchesStates'
    BY DEF Inv, TypeOK, maps, pass, SeenMatchesStates, HasState, BeginStop
  <1>6. DropsAreReportedOnce'
    BY DEF Inv, TypeOK, maps, pass, DropsAreReportedOnce, Due, BeginStop
  <1>7. QED
    BY <1>1, <1>2, <1>3, <1>4, <1>5, <1>6 DEF Inv

\* Stop has joined the thread and clears the maps.
LEMMA FinishStopInv ==
    ASSUME Inv, FinishStop
    PROVE  Inv'
  <1> USE EndpointsAssumption, NoneAssumption, DatagramsAssumption
  <1>1. TypeOK'
    <2>1. job' \in [Threads -> Jobs]
      <3>1. job' = [t \in Threads |-> Orphaned(Endpoints)[t]]
        BY DEF FinishStop, Orphaned
      <3>2. QED
        BY <3>1, OrphanedIsJob DEF Inv
    <2>2. ASSUME NEW t \in Threads PROVE ~job'[t].mapped
      <3>1. job'[t].mapped => job[t].mapped /\ job[t].ep \notin Endpoints
        BY OrphanedIsJob DEF Inv, FinishStop
      <3>2. QED
        BY <3>1 DEF Inv, TypeOK
    <2>3. states' \in [Endpoints -> States \cup {None}]
      BY DEF FinishStop
    <2>4. QED
      BY <2>1, <2>2, <2>3 DEF Inv, TypeOK, pass, FinishStop
  <1>2. JobShape'
    BY DEF Inv, TypeOK, maps, pass, JobShape, FinishStop, Orphaned
  <1>3. (LeftHasState /\ Phases)'
    BY DEF Inv, TypeOK, maps, pass, LeftHasState, Phases, MapsFree, FinishStop
  <1>4. Watch'
    BY DEF Inv, TypeOK, maps, pass, Watch, Phases, FinishStop
  <1>5. SeenMatchesStates'
    BY DEF Inv, TypeOK, maps, pass, SeenMatchesStates, HasState, FinishStop
  <1>6. DropsAreReportedOnce'
    BY DEF Inv, TypeOK, maps, pass, DropsAreReportedOnce, Due, FinishStop
  <1>7. QED
    BY <1>1, <1>2, <1>3, <1>4, <1>5, <1>6 DEF Inv

-----------------------------------------------------------------------------
(* The specification                                                        *)

LEMMA InitInv == Init => Inv
  <1> SUFFICES ASSUME Init PROVE Inv
    OBVIOUS
  <1> USE DatagramsAssumption
  <1>1. Idle \in Jobs /\ ~Idle.mapped /\ Idle.pc = "idle" /\ Idle.targets = {}
    BY DEF Idle, Jobs, ThreadPlaces
  <1>2. TypeOK
    BY <1>1 DEF Init, TypeOK, ManagerPlaces
  <1>3. JobShape
    BY <1>1 DEF Init, JobShape
  <1>4. LeftHasState /\ Phases /\ Watch
    BY DEF Init, LeftHasState, Phases, Watch
  <1>5. SeenMatchesStates /\ DropsAreReportedOnce
    BY DEF Init, SeenMatchesStates, DropsAreReportedOnce, Due, HasState
  <1>6. QED
    BY <1>2, <1>3, <1>4, <1>5 DEF Inv

LEMMA ThreadInv == ASSUME Inv, NEW t \in Threads, ThreadStep(t) PROVE Inv'
  BY MarkSeenInv, GetSenderStateInv, ProcessHeaderInv, RelayJoinInv, RelayInputInv,
     BeginSendInv, GetRecipientStateInv, PrepareInv DEF ThreadStep

LEMMA ManagerInv == ASSUME Inv, ManagerStep PROVE Inv'
  BY BeginPassInv, LeaveInv, GiveUpInv, RetransmitInv, ReadHeardInv, ReadUnackedInv,
     KeepInv, DropInv, EndVisitsInv, AcknowledgeInv, EndAcksInv, NotifyInv, EndPassInv
  DEF ManagerStep

LEMMA StutterInv == ASSUME Inv, UNCHANGED vars PROVE Inv'
  BY DEF Inv, TypeOK, JobShape, LeftHasState, Phases, Watch, SeenMatchesStates,
         DropsAreReportedOnce, GoesToSend, Due, MapsFree, HasState, vars, maps, pass

LEMMA NextInv == Inv /\ [Next]_vars => Inv'
  <1> SUFFICES ASSUME Inv, [Next]_vars PROVE Inv'
    OBVIOUS
  <1>1. ASSUME NEW t \in Threads, ThreadStep(t) PROVE Inv'
    BY <1>1, ThreadInv
  <1>2. ASSUME NEW t \in Threads, NEW e \in Endpoints,
               NEW kind \in {"bare", "join", "input"}, Arrive(t, e, kind)
        PROVE  Inv'
    BY <1>2, ArriveInv
  <1>3. ASSUME NEW t \in Threads, NEW e \in Endpoints,
               NEW kind \in {"reliable", "unreliable"}, Submit(t, e, kind)
        PROVE  Inv'
    BY <1>3, SubmitInv
  <1>4. CASE ManagerStep
    BY <1>4, ManagerInv
  <1>5. CASE BeginStop \/ FinishStop \/ \E e \in Endpoints : FallQuiet(e)
    BY <1>5, BeginStopInv, FinishStopInv, FallQuietInv
  <1>6. CASE UNCHANGED vars
    BY <1>6, StutterInv
  <1>7. QED
    BY <1>1, <1>2, <1>3, <1>4, <1>5, <1>6 DEF Next

\* Inv holds in every state of the packet handler.
THEOREM Invariance == Spec => []Inv
  BY InitInv, NextInv, PTL DEF Spec

\* A thread that holds the state in the map finds it there when it uses it, and the
\* reliability thread the one it reads; the types are right.
THEOREM TypeCorrect == Spec => []TypeOK
  <1>1. Inv => TypeOK
    BY DEF Inv
  <1>2. QED
    BY <1>1, Invariance, PTL

\* m_reliabilityStates and m_endpointLastSeenTime agree but for an endpoint whose state a
\* thread is about to create.
THEOREM MapsAgree == Spec => []SeenMatchesStates
  <1>1. Inv => SeenMatchesStates
    BY DEF Inv
  <1>2. QED
    BY <1>1, Invariance, PTL

\* Every drop is reported to the game server in the pass that decided it, and once.
THEOREM DropsReported == Spec => []DropsAreReportedOnce
  <1>1. Inv => DropsAreReportedOnce
    BY DEF Inv
  <1>2. QED
    BY <1>1, Invariance, PTL

\* As long as the handler runs, every session has a connection state, a report under way,
\* or a thread that is about to create the state.
THEOREM SessionsWatched == Spec => []SessionIsWatched
  <1>1. Inv => SessionIsWatched
    BY DEF Inv, Watch, SessionIsWatched, GoesToSend
  <1>2. QED
    BY <1>1, Invariance, PTL

-----------------------------------------------------------------------------
(* The handler implements ConnectionWatch                                   *)

\* A pass comes to each endpoint once: what it has dropped it does not visit again,
\* though a thread may have created a new state meanwhile.
VisitedOnce ==
    ~MapsFree =>
        /\ left \cap toNotify = {}
        /\ manager # "visiting" => at \in left

LEMMA VisitedOnceStep == Inv /\ VisitedOnce /\ [Next]_vars => VisitedOnce'
  <1> SUFFICES ASSUME Inv, VisitedOnce, [Next]_vars PROVE VisitedOnce'
    OBVIOUS
  <1>1. ASSUME UNCHANGED <<manager, pass>> PROVE VisitedOnce'
    BY <1>1 DEF VisitedOnce, MapsFree, pass
  <1>2. ASSUME NEW t \in Threads, ThreadStep(t) PROVE UNCHANGED <<manager, pass>>
    BY <1>2 DEF ThreadStep, MarkSeen, GetSenderState, ProcessHeader, RelayJoin, RelayInput,
                BeginSend, GetRecipientState, Prepare
  <1>3. CASE BeginPass \/ Leave \/ ReadHeard \/ ReadUnacked
    BY <1>3 DEF VisitedOnce, MapsFree, pass, BeginPass, Leave, ReadHeard, ReadUnacked, Inv, TypeOK
  <1>4. CASE Keep \/ Drop
    BY <1>4 DEF VisitedOnce, MapsFree, pass, Keep, Drop
  <1>5. CASE EndVisits \/ EndAcks \/ EndPass
    BY <1>5 DEF VisitedOnce, MapsFree, EndVisits, EndAcks, EndPass
  <1>6. ASSUME NEW e \in Endpoints, GiveUp(e) \/ Retransmit(e) \/ Acknowledge(e) \/ Notify(e)
        PROVE  VisitedOnce'
    BY <1>6 DEF VisitedOnce, MapsFree, GiveUp, Retransmit, Acknowledge, Notify
  <1>7. ASSUME NEW t \in Threads, NEW e \in Endpoints, NEW kind,
               Arrive(t, e, kind) \/ Submit(t, e, kind)
        PROVE  UNCHANGED <<manager, pass>>
    BY <1>7 DEF Arrive, Submit
  <1>8. CASE BeginStop \/ FinishStop \/ \E e \in Endpoints : FallQuiet(e)
    BY <1>1, <1>8 DEF BeginStop, FinishStop, FallQuiet
  <1>9. CASE UNCHANGED vars
    BY <1>1, <1>9 DEF vars
  <1>10. CASE ManagerStep
    BY <1>3, <1>4, <1>5, <1>6, <1>10 DEF ManagerStep
  <1>11. QED
    BY <1>1, <1>2, <1>7, <1>8, <1>9, <1>10 DEF Next

\* The refinement mapping of connected.
Connected == {e \in Endpoints : HasState(e)}

\* A step that connects, reports and stops nothing is none of the server's business.
LEMMA WatchStutters ==
    ASSUME Connected' = Connected, UNCHANGED <<owed, session, running, stopping>>
    PROVE  UNCHANGED Watched!watchVars
  BY DEF Watched!watchVars, Connected

LEMMA SameStates ==
    ASSUME \A e \in Endpoints : HasState(e)' <=> HasState(e)
    PROVE  Connected' = Connected
  BY DEF Connected

LEMMA SameMap ==
    ASSUME UNCHANGED states
    PROVE  Connected' = Connected
  BY DEF Connected, HasState

\* GetOrCreateReliabilityState connects the endpoint, unless it is connected.
LEMMA CreateWatchStep ==
    ASSUME Inv, NEW e \in Endpoints, GetOrCreate(e),
           UNCHANGED <<owed, session, running, stopping>>
    PROVE  [Watched!WatchNext]_(Watched!watchVars)
  <1>1. Connected' = Connected \cup {e}
    <2>1. NewState \in States
      BY DEF NewState, States
    <2>2. NewState # None
      BY <2>1, NoneAssumption
    <2>3. QED
      BY <2>2 DEF Connected, HasState, GetOrCreate, Inv, TypeOK
  <1>2. Watched!Connect(e)
    BY <1>1 DEF Watched!Connect, Connected
  <1>3. QED
    BY <1>2 DEF Watched!WatchNext

LEMMA ThreadWatchStep ==
    ASSUME Inv, NEW t \in Threads, ThreadStep(t)
    PROVE  [Watched!WatchNext]_(Watched!watchVars)
  <1>1. CASE MarkSeen(t) \/ RelayInput(t) \/ \E e \in Endpoints : BeginSend(t, e)
    <2>1. UNCHANGED <<states, owed, session, running, stopping>>
      BY <1>1 DEF MarkSeen, RelayInput, BeginSend, maps
    <2>2. QED
      BY <2>1, SameMap, WatchStutters
  <1>2. CASE ProcessHeader(t)
    <2>1. UNCHANGED <<owed, session, running, stopping>>
      BY <1>2 DEF ProcessHeader
    <2>2. QED
      BY <1>2, <2>1, ProcessHeaderKeeps, SameStates, WatchStutters DEF Inv
  <1>3. CASE Prepare(t)
    <2>1. UNCHANGED <<owed, session, running, stopping>>
      BY <1>3 DEF Prepare
    <2>2. QED
      BY <1>3, <2>1, PrepareKeeps, SameStates, WatchStutters DEF Inv
  <1>4. CASE GetSenderState(t)
    <2>1. GetOrCreate(job[t].ep) /\ job[t].ep \in Endpoints
      BY <1>4 DEF GetSenderState, Inv, JobShape
    <2>2. QED
      BY <1>4, <2>1, CreateWatchStep DEF GetSenderState
  <1>5. CASE GetRecipientState(t)
    <2>1. GetOrCreate(job[t].ep) /\ job[t].ep \in Endpoints
      BY <1>5 DEF GetRecipientState, Inv, JobShape
    <2>2. QED
      BY <1>5, <2>1, CreateWatchStep DEF GetRecipientState
  <1>6. CASE RelayJoin(t)
    <2>1. /\ job[t].ep \in Endpoints
          /\ session' \in {session, session \cup {job[t].ep}}
          /\ UNCHANGED <<states, owed, running, stopping>>
      BY <1>6 DEF RelayJoin, maps, Inv, JobShape
    <2>2. CASE session' = session
      BY <2>1, <2>2, SameMap, WatchStutters
    <2>3. CASE session' = session \cup {job[t].ep}
      <3>1. Watched!Joins(job[t].ep)
        BY <2>1, <2>3, SameMap DEF Watched!Joins, Connected
      <3>2. QED
        BY <2>1, <3>1 DEF Watched!WatchNext
    <2>4. QED
      BY <2>1, <2>2, <2>3
  <1>7. QED
    BY <1>1, <1>2, <1>3, <1>4, <1>5, <1>6 DEF ThreadStep

\* What is dropped has not been dropped and left unreported before.
LEMMA DropWatchStep ==
    ASSUME Inv, VisitedOnce, Drop
    PROVE  Watched!Drops(at)
  <1>1. /\ manager = "settling"
        /\ states' = [states EXCEPT ![at] = None]
        /\ owed' = owed \cup {at}
        /\ UNCHANGED <<running, stopping, session>>
    BY DEF Drop
  <1>2. at \in Endpoints /\ HasState(at)
    BY <1>1 DEF Inv, TypeOK
  <1>3. at \notin owed
    BY <1>1 DEF Inv, DropsAreReportedOnce, Due, VisitedOnce, MapsFree
  <1>4. Connected' = Connected \ {at}
    BY <1>1, <1>2 DEF Connected, HasState, Inv, TypeOK
  <1>5. stopping # "stopped"
    BY <1>1 DEF Inv, Phases
  <1>6. QED
    BY <1>1, <1>2, <1>3, <1>4, <1>5 DEF Watched!Drops, Connected

LEMMA ManagerWatchStep ==
    ASSUME Inv, VisitedOnce, ManagerStep
    PROVE  [Watched!WatchNext]_(Watched!watchVars)
  <1>1. CASE \/ BeginPass \/ Leave \/ ReadHeard \/ ReadUnacked \/ Keep
             \/ EndVisits \/ EndAcks \/ EndPass
             \/ \E e \in Endpoints : GiveUp(e) \/ Retransmit(e)
    <2>1. UNCHANGED <<states, owed, session, running, stopping>>
      BY <1>1 DEF BeginPass, Leave, ReadHeard, ReadUnacked, Keep, EndVisits, EndAcks, EndPass,
                  GiveUp, Retransmit, maps
    <2>2. QED
      BY <2>1, SameMap, WatchStutters
  <1>2. CASE Drop
    <2>1. at \in Endpoints
      BY <1>2 DEF Drop, Inv, TypeOK
    <2>2. QED
      BY <1>2, <2>1, DropWatchStep DEF Watched!WatchNext
  <1>3. ASSUME NEW e \in Endpoints, Acknowledge(e)
        PROVE  [Watched!WatchNext]_(Watched!watchVars)
    <2>1. UNCHANGED <<owed, session, running, stopping>>
      BY <1>3 DEF Acknowledge
    <2>2. \A d \in Endpoints : HasState(d)' <=> HasState(d)
      <3>1. CASE UNCHANGED states
        BY <3>1 DEF HasState
      <3>2. CASE /\ HasState(e)
                 /\ states' = [states EXCEPT ![e].unacked = TRUE, ![e].pendingAck = FALSE]
        <4>1. states \in [Endpoints -> States \cup {None}] /\ states[e] \in States
          BY <3>2 DEF Inv, TypeOK, HasState
        <4>2. states'[e] \in States /\ \A d \in Endpoints \ {e} : states'[d] = states[d]
          BY <3>2, <4>1 DEF States
        <4>3. QED
          BY <3>2, <4>2, NoneAssumption DEF HasState
      <3>3. QED
        BY <1>3, <3>1, <3>2 DEF Acknowledge
    <2>3. QED
      BY <2>1, <2>2, SameStates, WatchStutters
  <1>4. ASSUME NEW e \in Endpoints, Notify(e)
        PROVE  [Watched!WatchNext]_(Watched!watchVars)
    <2>1. /\ manager = "notifying" /\ e \in left
          /\ session' = session \ {e} /\ owed' = owed \ {e}
          /\ UNCHANGED <<states, running, stopping>>
      BY <1>4 DEF Notify, maps
    <2>2. e \in owed
      BY <2>1 DEF Inv, DropsAreReportedOnce, Due
    <2>3. stopping # "stopped"
      BY <2>1 DEF Inv, Phases
    <2>4. Watched!Reports(e)
      BY <2>1, <2>2, <2>3, SameMap DEF Watched!Reports, Connected
    <2>5. QED
      BY <2>4 DEF Watched!WatchNext
  <1>5. QED
    BY <1>1, <1>2, <1>3, <1>4 DEF ManagerStep

\* Stop returns when the reliability thread has left, and that has nothing to report then.
LEMMA FinishStopWatchStep ==
    ASSUME Inv, FinishStop
    PROVE  Watched!StopReturns
  <1>1. /\ stopping = "joining" /\ manager = "exited"
        /\ states' = [e \in Endpoints |-> None]
        /\ stopping' = "stopped"
        /\ UNCHANGED <<running, session, owed>>
    BY DEF FinishStop
  <1>2. ~running /\ owed = {}
    BY <1>1 DEF Inv, Phases, DropsAreReportedOnce, Due
  <1>3. Connected' = {}
    BY <1>1 DEF Connected, HasState
  <1>4. QED
    BY <1>1, <1>2, <1>3 DEF Watched!StopReturns, Connected

LEMMA WatchStep ==
    ASSUME Inv, VisitedOnce, [Next]_vars
    PROVE  [Watched!WatchNext]_(Watched!watchVars)
  <1>1. ASSUME NEW t \in Threads, ThreadStep(t)
        PROVE  [Watched!WatchNext]_(Watched!watchVars)
    BY <1>1, ThreadWatchStep
  <1>2. ASSUME NEW t \in Threads, NEW e \in Endpoints, NEW kind,
               Arrive(t, e, kind) \/ Submit(t, e, kind)
        PROVE  [Watched!WatchNext]_(Watched!watchVars)
    <2>1. UNCHANGED <<states, owed, session, running, stopping>>
      BY <1>2 DEF Arrive, Submit, maps
    <2>2. QED
      BY <2>1, SameMap, WatchStutters
  <1>3. ASSUME NEW e \in Endpoints, FallQuiet(e)
        PROVE  [Watched!WatchNext]_(Watched!watchVars)
    <2>1. /\ HasState(e) /\ states' = [states EXCEPT ![e].heard = "quiet"]
          /\ UNCHANGED <<owed, session, running, stopping>>
      BY <1>3 DEF FallQuiet
    <2>2. states \in [Endpoints -> States \cup {None}] /\ states[e] \in States
      BY <2>1 DEF Inv, TypeOK, HasState
    <2>3. states'[e] \in States /\ \A d \in Endpoints \ {e} : states'[d] = states[d]
      BY <2>1, <2>2 DEF States
    <2>4. \A d \in Endpoints : HasState(d)' <=> HasState(d)
      BY <2>1, <2>3, NoneAssumption DEF HasState
    <2>5. QED
      BY <2>1, <2>4, SameStates, WatchStutters
  <1>4. CASE BeginStop
    <2>1. /\ stopping = "no" /\ running' = FALSE /\ stopping' = "joining"
          /\ UNCHANGED <<states, owed, session>>
      BY <1>4 DEF BeginStop, maps
    <2>2. Watched!StopBegins
      BY <2>1, SameMap DEF Watched!StopBegins, Connected
    <2>3. QED
      BY <2>2 DEF Watched!WatchNext
  <1>5. CASE FinishStop
    BY <1>5, FinishStopWatchStep DEF Watched!WatchNext
  <1>6. CASE UNCHANGED vars
    <2>1. UNCHANGED <<states, owed, session, running, stopping>>
      BY <1>6 DEF vars, maps
    <2>2. QED
      BY <2>1, SameMap, WatchStutters
  <1>7. CASE ManagerStep
    BY <1>7, ManagerWatchStep
  <1>8. QED
    BY <1>1, <1>2, <1>3, <1>4, <1>5, <1>6, <1>7 DEF Next

\* The handler implements ConnectionWatch: a session ends only by the report of a drop, a
\* drop is reported before the next of the same client, and none is left when Stop returns.
THEOREM Refinement == Spec => WatchesClients
  <1>1. Init => VisitedOnce /\ Watched!WatchInit
    BY DEF Init, VisitedOnce, MapsFree, Watched!WatchInit, HasState
  <1>2. Inv /\ VisitedOnce /\ [Next]_vars => VisitedOnce'
    BY VisitedOnceStep
  <1>3. Inv /\ VisitedOnce /\ [Next]_vars => [Watched!WatchNext]_(Watched!watchVars)
    BY WatchStep
  <1>4. QED
    BY <1>1, <1>2, <1>3, Invariance, PTL DEF Spec, WatchesClients, Watched!WatchSpec
=============================================================================
