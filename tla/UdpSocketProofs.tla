-------------------------- MODULE UdpSocketProofs --------------------------
(***************************************************************************)
(* Safety of the datagram socket for every number of workers, contexts and *)
(* sends, with any number of failures and restarts, and the refinement of  *)
(* DatagramPort.                                                           *)
(***************************************************************************)
EXTENDS UdpSocket, FiniteSetTheorems, TLAPS

USE WorkersAssumption, SlotsAssumption, ContextsAssumption, BoundsAssumption

\* How far the owner is decides what is open and whether workers exist.
Phases ==
    /\ isRunning => owner \in {"idle", "spawning", "priming"} /\ socket
    /\ owner \in {"spawning", "priming"} => isRunning
    /\ socket => bound
    /\ owner \in {"idle", "spawning", "priming", "signalling", "closing"} => iocp = bound
    /\ owner \in {"signalling", "closing", "joining", "releasing"} => iocp
    /\ owner \in {"joining", "releasing", "clearing"} => ~bound
    /\ owner = "clearing" => ~iocp
    /\ (owner = "idle" /\ ~isRunning) \/ owner \in {"releasing", "clearing"} =>
         \A w \in Workers : worker[w] = "absent"

\* While the socket is bound every context of the pool has a holder.
NoneLost ==
    bound => \A c \in Slots : free[c] = 1 \/ kernel[c] # "none" \/ \E w \in Workers : hand[w] = c

Idle == {c \in Slots : free[c] > 0}

\* Between the start of the priming and the first receive refused, every
\* context still idle is one that has a try left.
IdleCounted ==
    /\ owner = "priming" => Cardinality(Idle) <= refusals + tries
    /\ isRunning /\ owner = "idle" => Cardinality(Idle) <= refusals

SocketInv == TypeOK /\ Phases /\ FreedUnused /\ NoneLost /\ OneHolder /\ SendReportedOnce

\* The pool and the workers can be counted.
LEMMA Counts ==
    /\ Cardinality(Slots) \in Nat
    /\ IsFiniteSet(Idle) /\ Cardinality(Idle) \in Nat
    /\ Cardinality(Idle) <= Cardinality(Slots)
    /\ \A W \in SUBSET Workers : Cardinality(W) \in Nat
  BY FS_CardinalityType, FS_Subset DEF Idle

-----------------------------------------------------------------------------
(* One lemma per conjunct of the invariant, one step per action.            *)

\* TypeOK is preserved.
LEMMA TypeStep ==
    ASSUME TypeOK, [Next]_vars
    PROVE  TypeOK'
  <1>1. CASE Init
    BY <1>1 DEF Init, InitMayRun, ownerVars, sendVars, workerVars, endpoint, history,
       TypeOK, Contexts, OwnerPhases, WorkerPlaces, Fates
  <1>2. CASE InitAgain
    <2>1. socket' = FALSE
      BY <1>2 DEF InitAgain
    <2>2. socket' \in BOOLEAN
      BY <2>1
    <2>3. QED
      BY <2>2, <1>2 DEF InitAgain, InitMayRun, ownerVars, sendVars, workerVars, endpoint,
         history, TypeOK, Contexts, OwnerPhases
  <1>3. CASE InitFails
    BY <1>3 DEF InitFails, InitMayRun, Fault, endpoint, ownerVars, sendVars, workerVars,
       history, TypeOK, Contexts, OwnerPhases, WorkerPlaces, Fates
  <1>4. CASE Start
    BY <1>4 DEF Start, history, sendVars, workerVars, endpoint, TypeOK, Contexts,
       OwnerPhases, WorkerPlaces, Fates
  <1>5. ASSUME NEW w \in Workers, Spawn(w)
         PROVE  TypeOK'
    BY <1>5 DEF Spawn, endpoint, history, ownerVars, sendVars, workerVars, TypeOK,
       Contexts, OwnerPhases, WorkerPlaces, Fates
  <1>6. CASE SpawnFails
    <2>1. isRunning' = FALSE
      BY <1>6 DEF SpawnFails, StopRunning
    <2>2. isRunning' \in BOOLEAN
      BY <2>1
    <2>3. QED
      BY <2>2, <1>6 DEF SpawnFails, Fault, StopRunning, sendVars, workerVars, endpoint,
         history, TypeOK, Contexts, OwnerPhases
  <1>7. CASE BeginPriming
    BY <1>7, Counts DEF BeginPriming, endpoint, history, sendVars, workerVars, TypeOK,
       OwnerPhases
  <1>8. ASSUME NEW c \in Slots, Prime(c)
         PROVE  TypeOK'
    BY <1>8 DEF Prime, endpoint, history, sendVars, workerVars, TypeOK, Contexts,
       OwnerPhases, WorkerPlaces, Fates
  <1>9. CASE PrimeFails
    BY <1>9 DEF PrimeFails, Fault, endpoint, sendVars, workerVars, history, TypeOK,
       Contexts, OwnerPhases, WorkerPlaces, Fates
  <1>10. CASE Started
    BY <1>10 DEF Started, PrimingOver, endpoint, history, sendVars, workerVars, TypeOK,
       Contexts, OwnerPhases, WorkerPlaces, Fates
  <1>11. CASE NothingPrimed
    BY <1>11 DEF NothingPrimed, StopRunning, PrimingOver, history, sendVars, workerVars,
       endpoint, TypeOK, Contexts, OwnerPhases, WorkerPlaces, Fates
  <1>12. CASE Stop
    BY <1>12 DEF Stop, StopRunning, history, sendVars, workerVars, endpoint, TypeOK,
       Contexts, OwnerPhases, WorkerPlaces, Fates
  <1>13. CASE Signal
    BY <1>13, Counts DEF Signal, endpoint, history, sendVars, workerVars, TypeOK, OwnerPhases
  <1>14. CASE CloseSocket
    BY <1>14 DEF CloseSocket, history, sendVars, workerVars, endpoint, TypeOK, Contexts,
       OwnerPhases, WorkerPlaces, Fates
  <1>15. CASE Join
    BY <1>15 DEF Join, endpoint, history, sendVars, workerVars, TypeOK, Contexts,
       OwnerPhases, WorkerPlaces, Fates
  <1>16. CASE CloseIocp
    BY <1>16 DEF CloseIocp, workerVars, endpoint, history, TypeOK, Contexts, OwnerPhases,
       WorkerPlaces, Fates
  <1>17. CASE ClearPool
    BY <1>17 DEF ClearPool, endpoint, history, sendVars, workerVars, TypeOK, Contexts,
       OwnerPhases, WorkerPlaces, Fates
  <1>18. ASSUME NEW w \in Workers, Test(w)
         PROVE  TypeOK'
    BY <1>18 DEF Test, endpoint, history, ownerVars, sendVars, workerVars, TypeOK,
       Contexts, OwnerPhases, WorkerPlaces, Fates
  <1>19. ASSUME NEW w \in Workers, WaitTimesOut(w)
         PROVE  TypeOK'
    BY <1>19 DEF WaitTimesOut, OnPort, endpoint, history, ownerVars, sendVars, workerVars,
       TypeOK, Contexts, OwnerPhases, WorkerPlaces, Fates
  <1>20. ASSUME NEW w \in Workers, TakePill(w)
         PROVE  TypeOK'
    BY <1>20 DEF TakePill, endpoint, history, ownerVars, sendVars, workerVars, TypeOK,
       Contexts, OwnerPhases, WorkerPlaces, Fates
  <1>21. ASSUME NEW w \in Workers, NEW c \in Contexts, Dequeue(w, c)
         PROVE  TypeOK'
    BY <1>21 DEF Dequeue, Branch, OnPort, endpoint, history, ownerVars, sendVars,
       workerVars, TypeOK, Contexts, OwnerPhases, WorkerPlaces, Fates
  <1>22. ASSUME NEW w \in Workers, HandUp(w)
         PROVE  TypeOK'
    BY <1>22 DEF HandUp, endpoint, history, ownerVars, sendVars, workerVars, TypeOK,
       Contexts, OwnerPhases, WorkerPlaces, Fates
  <1>23. ASSUME NEW w \in Workers, Rearm(w)
         PROVE  TypeOK'
    BY <1>23 DEF Rearm, endpoint, history, ownerVars, sendVars, workerVars, TypeOK,
       Contexts, OwnerPhases, WorkerPlaces, Fates
  <1>24. ASSUME NEW w \in Workers, Retire(w)
         PROVE  TypeOK'
    BY <1>24 DEF Retire, GiveBack, endpoint, history, ownerVars, sendVars, workerVars,
       TypeOK, Contexts, OwnerPhases, WorkerPlaces, Fates
  <1>25. ASSUME NEW w \in Workers, Post(w)
         PROVE  TypeOK'
    BY <1>25 DEF Post, endpoint, history, ownerVars, sendVars, workerVars, TypeOK,
       Contexts, OwnerPhases, WorkerPlaces, Fates
  <1>26. ASSUME NEW w \in Workers, PostFails(w)
         PROVE  TypeOK'
    BY <1>26 DEF PostFails, Fault, GiveBack, endpoint, ownerVars, sendVars, history,
       workerVars, TypeOK, Contexts, OwnerPhases, WorkerPlaces, Fates
  <1>27. ASSUME NEW w \in Workers, Report(w)
         PROVE  TypeOK'
    BY <1>27 DEF Report, endpoint, history, ownerVars, sendVars, workerVars, TypeOK,
       Contexts, OwnerPhases, WorkerPlaces, Fates
  <1>28. ASSUME NEW s \in Sends, CheckSocket(s)
         PROVE  TypeOK'
    BY <1>28 DEF CheckSocket, endpoint, history, ownerVars, workerVars, sendVars, TypeOK,
       Contexts, OwnerPhases, WorkerPlaces, Fates
  <1>29. ASSUME NEW s \in Sends, Refuse(s)
         PROVE  TypeOK'
    BY <1>29 DEF Refuse, endpoint, history, ownerVars, workerVars, sendVars, TypeOK,
       Contexts, OwnerPhases, WorkerPlaces, Fates
  <1>30. ASSUME NEW s \in Sends, Submit(s)
         PROVE  TypeOK'
    BY <1>30 DEF Submit, endpoint, history, ownerVars, workerVars, sendVars, TypeOK,
       Contexts, OwnerPhases, WorkerPlaces, Fates
  <1>31. ASSUME NEW s \in Sends, SubmitFails(s)
         PROVE  TypeOK'
    BY <1>31 DEF SubmitFails, Fault, endpoint, ownerVars, workerVars, history, sendVars,
       TypeOK, Contexts, OwnerPhases, WorkerPlaces, Fates
  <1>32. ASSUME NEW c \in Contexts, Succeed(c)
         PROVE  TypeOK'
    BY <1>32 DEF Succeed, endpoint, history, ownerVars, sendVars, workerVars, TypeOK,
       Contexts, OwnerPhases, WorkerPlaces, Fates
  <1>33. ASSUME NEW c \in Contexts, Fail(c)
         PROVE  TypeOK'
    BY <1>33 DEF Fail, Fault, endpoint, ownerVars, sendVars, workerVars, history, TypeOK,
       Contexts, OwnerPhases, WorkerPlaces, Fates
  <1>34. CASE UNCHANGED vars
    BY <1>34 DEF vars, endpoint, history, ownerVars, sendVars, workerVars, TypeOK,
       Contexts, OwnerPhases, WorkerPlaces, Fates
  <1>35. QED
    BY <1>1, <1>2, <1>3, <1>4, <1>5, <1>6, <1>7, <1>8, <1>9, <1>10, <1>11, <1>12, <1>13,
       <1>14, <1>15, <1>16, <1>17, <1>18, <1>19, <1>20, <1>21, <1>22, <1>23, <1>24, <1>25,
       <1>26, <1>27, <1>28, <1>29, <1>30, <1>31, <1>32, <1>33, <1>34
       DEF Next, OwnerStep, WorkerStep, SendStep

\* Phases is preserved.
LEMMA PhasesStep ==
    ASSUME TypeOK, Phases, [Next]_vars
    PROVE  Phases'
  <1>1. CASE Init
    BY <1>1 DEF Init, InitMayRun, ownerVars, sendVars, workerVars, endpoint, history,
       TypeOK, Phases
  <1>2. CASE InitAgain
    BY <1>2 DEF InitAgain, InitMayRun, ownerVars, sendVars, workerVars, endpoint, history,
       TypeOK, Phases
  <1>3. CASE InitFails
    BY <1>3 DEF InitFails, InitMayRun, Fault, endpoint, ownerVars, sendVars, workerVars,
       history, TypeOK, Phases
  <1>4. CASE Start
    BY <1>4 DEF Start, history, sendVars, workerVars, endpoint, TypeOK, Phases
  <1>5. ASSUME NEW w \in Workers, Spawn(w)
         PROVE  Phases'
    BY <1>5 DEF Spawn, endpoint, history, ownerVars, sendVars, workerVars, TypeOK, Phases
  <1>6. CASE SpawnFails
    BY <1>6 DEF SpawnFails, Fault, StopRunning, sendVars, workerVars, endpoint, history,
       TypeOK, Phases
  <1>7. CASE BeginPriming
    BY <1>7 DEF BeginPriming, endpoint, history, sendVars, workerVars, TypeOK, Phases
  <1>8. ASSUME NEW c \in Slots, Prime(c)
         PROVE  Phases'
    BY <1>8 DEF Prime, endpoint, history, sendVars, workerVars, TypeOK, Phases
  <1>9. CASE PrimeFails
    BY <1>9 DEF PrimeFails, Fault, endpoint, sendVars, workerVars, history, TypeOK, Phases
  <1>10. CASE Started
    BY <1>10 DEF Started, PrimingOver, endpoint, history, sendVars, workerVars, TypeOK,
       Phases
  <1>11. CASE NothingPrimed
    BY <1>11 DEF NothingPrimed, StopRunning, PrimingOver, history, sendVars, workerVars,
       endpoint, TypeOK, Phases
  <1>12. CASE Stop
    BY <1>12 DEF Stop, StopRunning, history, sendVars, workerVars, endpoint, TypeOK, Phases
  <1>13. CASE Signal
    BY <1>13 DEF Signal, endpoint, history, sendVars, workerVars, TypeOK, Phases
  <1>14. CASE CloseSocket
    BY <1>14 DEF CloseSocket, history, sendVars, workerVars, endpoint, TypeOK, Phases
  <1>15. CASE Join
    BY <1>15 DEF Join, endpoint, history, sendVars, workerVars, TypeOK, Phases
  <1>16. CASE CloseIocp
    BY <1>16 DEF CloseIocp, workerVars, endpoint, history, TypeOK, Phases
  <1>17. CASE ClearPool
    BY <1>17 DEF ClearPool, endpoint, history, sendVars, workerVars, TypeOK, Phases
  <1>18. ASSUME NEW w \in Workers, Test(w)
         PROVE  Phases'
    BY <1>18 DEF Test, endpoint, history, ownerVars, sendVars, workerVars, TypeOK, Phases
  <1>19. ASSUME NEW w \in Workers, WaitTimesOut(w)
         PROVE  Phases'
    BY <1>19 DEF WaitTimesOut, OnPort, endpoint, history, ownerVars, sendVars, workerVars,
       TypeOK, Phases
  <1>20. ASSUME NEW w \in Workers, TakePill(w)
         PROVE  Phases'
    BY <1>20 DEF TakePill, endpoint, history, ownerVars, sendVars, workerVars, TypeOK,
       Phases
  <1>21. ASSUME NEW w \in Workers, NEW c \in Contexts, Dequeue(w, c)
         PROVE  Phases'
    BY <1>21 DEF Dequeue, Branch, OnPort, endpoint, history, ownerVars, sendVars,
       workerVars, TypeOK, Phases
  <1>22. ASSUME NEW w \in Workers, HandUp(w)
         PROVE  Phases'
    BY <1>22 DEF HandUp, endpoint, history, ownerVars, sendVars, workerVars, TypeOK, Phases
  <1>23. ASSUME NEW w \in Workers, Rearm(w)
         PROVE  Phases'
    BY <1>23 DEF Rearm, endpoint, history, ownerVars, sendVars, workerVars, TypeOK, Phases
  <1>24. ASSUME NEW w \in Workers, Retire(w)
         PROVE  Phases'
    BY <1>24 DEF Retire, GiveBack, endpoint, history, ownerVars, sendVars, workerVars,
       TypeOK, Phases
  <1>25. ASSUME NEW w \in Workers, Post(w)
         PROVE  Phases'
    BY <1>25 DEF Post, endpoint, history, ownerVars, sendVars, workerVars, TypeOK, Phases
  <1>26. ASSUME NEW w \in Workers, PostFails(w)
         PROVE  Phases'
    BY <1>26 DEF PostFails, Fault, GiveBack, endpoint, ownerVars, sendVars, history,
       workerVars, TypeOK, Phases
  <1>27. ASSUME NEW w \in Workers, Report(w)
         PROVE  Phases'
    BY <1>27 DEF Report, endpoint, history, ownerVars, sendVars, workerVars, TypeOK, Phases
  <1>28. ASSUME NEW s \in Sends, CheckSocket(s)
         PROVE  Phases'
    BY <1>28 DEF CheckSocket, endpoint, history, ownerVars, workerVars, sendVars, TypeOK,
       Phases
  <1>29. ASSUME NEW s \in Sends, Refuse(s)
         PROVE  Phases'
    BY <1>29 DEF Refuse, endpoint, history, ownerVars, workerVars, sendVars, TypeOK, Phases
  <1>30. ASSUME NEW s \in Sends, Submit(s)
         PROVE  Phases'
    BY <1>30 DEF Submit, endpoint, history, ownerVars, workerVars, sendVars, TypeOK, Phases
  <1>31. ASSUME NEW s \in Sends, SubmitFails(s)
         PROVE  Phases'
    BY <1>31 DEF SubmitFails, Fault, endpoint, ownerVars, workerVars, history, sendVars,
       TypeOK, Phases
  <1>32. ASSUME NEW c \in Contexts, Succeed(c)
         PROVE  Phases'
    BY <1>32 DEF Succeed, endpoint, history, ownerVars, sendVars, workerVars, TypeOK, Phases
  <1>33. ASSUME NEW c \in Contexts, Fail(c)
         PROVE  Phases'
    BY <1>33 DEF Fail, Fault, endpoint, ownerVars, sendVars, workerVars, history, TypeOK,
       Phases
  <1>34. CASE UNCHANGED vars
    BY <1>34 DEF vars, endpoint, history, ownerVars, sendVars, workerVars, TypeOK, Phases
  <1>35. QED
    BY <1>1, <1>2, <1>3, <1>4, <1>5, <1>6, <1>7, <1>8, <1>9, <1>10, <1>11, <1>12, <1>13,
       <1>14, <1>15, <1>16, <1>17, <1>18, <1>19, <1>20, <1>21, <1>22, <1>23, <1>24, <1>25,
       <1>26, <1>27, <1>28, <1>29, <1>30, <1>31, <1>32, <1>33, <1>34
       DEF Next, OwnerStep, WorkerStep, SendStep

\* FreedUnused is preserved.
LEMMA FreedStep ==
    ASSUME TypeOK, Phases, FreedUnused, [Next]_vars
    PROVE  FreedUnused'
  <1>1. CASE Init
    BY <1>1 DEF Init, InitMayRun, ownerVars, sendVars, workerVars, endpoint, history,
       TypeOK, Phases, FreedUnused, Contexts, OwnerPhases
  <1>2. CASE InitAgain
    BY <1>2 DEF InitAgain, InitMayRun, ownerVars, sendVars, workerVars, endpoint, history,
       TypeOK, Phases, FreedUnused, Contexts, OwnerPhases
  <1>3. CASE InitFails
    BY <1>3 DEF InitFails, InitMayRun, Fault, endpoint, ownerVars, sendVars, workerVars,
       history, TypeOK, Phases, FreedUnused, Contexts, OwnerPhases
  <1>4. CASE Start
    BY <1>4 DEF Start, history, sendVars, workerVars, endpoint, TypeOK, Phases,
       FreedUnused, Contexts, OwnerPhases
  <1>5. ASSUME NEW w \in Workers, Spawn(w)
         PROVE  FreedUnused'
    BY <1>5 DEF Spawn, endpoint, history, ownerVars, sendVars, workerVars, TypeOK, Phases,
       FreedUnused, Contexts, OwnerPhases
  <1>6. CASE SpawnFails
    BY <1>6 DEF SpawnFails, Fault, StopRunning, sendVars, workerVars, endpoint, history,
       TypeOK, Phases, FreedUnused, Contexts, OwnerPhases
  <1>7. CASE BeginPriming
    BY <1>7 DEF BeginPriming, endpoint, history, sendVars, workerVars, TypeOK, Phases,
       FreedUnused, Contexts, OwnerPhases
  <1>8. ASSUME NEW c \in Slots, Prime(c)
         PROVE  FreedUnused'
    BY <1>8 DEF Prime, endpoint, history, sendVars, workerVars, TypeOK, Phases,
       FreedUnused, Contexts, OwnerPhases
  <1>9. CASE PrimeFails
    BY <1>9 DEF PrimeFails, Fault, endpoint, sendVars, workerVars, history, TypeOK, Phases,
       FreedUnused, Contexts, OwnerPhases
  <1>10. CASE Started
    BY <1>10 DEF Started, PrimingOver, endpoint, history, sendVars, workerVars, TypeOK,
       Phases, FreedUnused, Contexts, OwnerPhases
  <1>11. CASE NothingPrimed
    BY <1>11 DEF NothingPrimed, StopRunning, PrimingOver, history, sendVars, workerVars,
       endpoint, TypeOK, Phases, FreedUnused, Contexts, OwnerPhases
  <1>12. CASE Stop
    BY <1>12 DEF Stop, StopRunning, history, sendVars, workerVars, endpoint, TypeOK,
       Phases, FreedUnused, Contexts, OwnerPhases
  <1>13. CASE Signal
    BY <1>13 DEF Signal, endpoint, history, sendVars, workerVars, TypeOK, Phases,
       FreedUnused, Contexts, OwnerPhases
  <1>14. CASE CloseSocket
    BY <1>14 DEF CloseSocket, history, sendVars, workerVars, endpoint, TypeOK, Phases,
       FreedUnused, Contexts, OwnerPhases
  <1>15. CASE Join
    BY <1>15 DEF Join, endpoint, history, sendVars, workerVars, TypeOK, Phases,
       FreedUnused, Contexts, OwnerPhases
  <1>16. CASE CloseIocp
    BY <1>16 DEF CloseIocp, workerVars, endpoint, history, TypeOK, Phases, FreedUnused,
       Contexts, OwnerPhases
  <1>17. CASE ClearPool
    BY <1>17 DEF ClearPool, endpoint, history, sendVars, workerVars, TypeOK, Phases,
       FreedUnused, Contexts, OwnerPhases
  <1>18. ASSUME NEW w \in Workers, Test(w)
         PROVE  FreedUnused'
    BY <1>18 DEF Test, endpoint, history, ownerVars, sendVars, workerVars, TypeOK, Phases,
       FreedUnused, Contexts, OwnerPhases
  <1>19. ASSUME NEW w \in Workers, WaitTimesOut(w)
         PROVE  FreedUnused'
    BY <1>19 DEF WaitTimesOut, OnPort, endpoint, history, ownerVars, sendVars, workerVars,
       TypeOK, Phases, FreedUnused, Contexts, OwnerPhases
  <1>20. ASSUME NEW w \in Workers, TakePill(w)
         PROVE  FreedUnused'
    BY <1>20 DEF TakePill, endpoint, history, ownerVars, sendVars, workerVars, TypeOK,
       Phases, FreedUnused, Contexts, OwnerPhases
  <1>21. ASSUME NEW w \in Workers, NEW c \in Contexts, Dequeue(w, c)
         PROVE  FreedUnused'
    BY <1>21 DEF Dequeue, Branch, OnPort, endpoint, history, ownerVars, sendVars,
       workerVars, TypeOK, Phases, FreedUnused, Contexts, OwnerPhases
  <1>22. ASSUME NEW w \in Workers, HandUp(w)
         PROVE  FreedUnused'
    BY <1>22 DEF HandUp, endpoint, history, ownerVars, sendVars, workerVars, TypeOK,
       Phases, FreedUnused, Contexts, OwnerPhases
  <1>23. ASSUME NEW w \in Workers, Rearm(w)
         PROVE  FreedUnused'
    BY <1>23 DEF Rearm, endpoint, history, ownerVars, sendVars, workerVars, TypeOK, Phases,
       FreedUnused, Contexts, OwnerPhases
  <1>24. ASSUME NEW w \in Workers, Retire(w)
         PROVE  FreedUnused'
    BY <1>24 DEF Retire, GiveBack, endpoint, history, ownerVars, sendVars, workerVars,
       TypeOK, Phases, FreedUnused, Contexts, OwnerPhases
  <1>25. ASSUME NEW w \in Workers, Post(w)
         PROVE  FreedUnused'
    BY <1>25 DEF Post, endpoint, history, ownerVars, sendVars, workerVars, TypeOK, Phases,
       FreedUnused, Contexts, OwnerPhases
  <1>26. ASSUME NEW w \in Workers, PostFails(w)
         PROVE  FreedUnused'
    BY <1>26 DEF PostFails, Fault, GiveBack, endpoint, ownerVars, sendVars, history,
       workerVars, TypeOK, Phases, FreedUnused, Contexts, OwnerPhases
  <1>27. ASSUME NEW w \in Workers, Report(w)
         PROVE  FreedUnused'
    BY <1>27 DEF Report, endpoint, history, ownerVars, sendVars, workerVars, TypeOK,
       Phases, FreedUnused, Contexts, OwnerPhases
  <1>28. ASSUME NEW s \in Sends, CheckSocket(s)
         PROVE  FreedUnused'
    BY <1>28 DEF CheckSocket, endpoint, history, ownerVars, workerVars, sendVars, TypeOK,
       Phases, FreedUnused, Contexts, OwnerPhases
  <1>29. ASSUME NEW s \in Sends, Refuse(s)
         PROVE  FreedUnused'
    BY <1>29 DEF Refuse, endpoint, history, ownerVars, workerVars, sendVars, TypeOK,
       Phases, FreedUnused, Contexts, OwnerPhases
  <1>30. ASSUME NEW s \in Sends, Submit(s)
         PROVE  FreedUnused'
    BY <1>30 DEF Submit, endpoint, history, ownerVars, workerVars, sendVars, TypeOK,
       Phases, FreedUnused, Contexts, OwnerPhases
  <1>31. ASSUME NEW s \in Sends, SubmitFails(s)
         PROVE  FreedUnused'
    BY <1>31 DEF SubmitFails, Fault, endpoint, ownerVars, workerVars, history, sendVars,
       TypeOK, Phases, FreedUnused, Contexts, OwnerPhases
  <1>32. ASSUME NEW c \in Contexts, Succeed(c)
         PROVE  FreedUnused'
    BY <1>32 DEF Succeed, endpoint, history, ownerVars, sendVars, workerVars, TypeOK,
       Phases, FreedUnused, Contexts, OwnerPhases
  <1>33. ASSUME NEW c \in Contexts, Fail(c)
         PROVE  FreedUnused'
    BY <1>33 DEF Fail, Fault, endpoint, ownerVars, sendVars, workerVars, history, TypeOK,
       Phases, FreedUnused, Contexts, OwnerPhases
  <1>34. CASE UNCHANGED vars
    BY <1>34 DEF vars, endpoint, history, ownerVars, sendVars, workerVars, TypeOK, Phases,
       FreedUnused, Contexts, OwnerPhases
  <1>35. QED
    BY <1>1, <1>2, <1>3, <1>4, <1>5, <1>6, <1>7, <1>8, <1>9, <1>10, <1>11, <1>12, <1>13,
       <1>14, <1>15, <1>16, <1>17, <1>18, <1>19, <1>20, <1>21, <1>22, <1>23, <1>24, <1>25,
       <1>26, <1>27, <1>28, <1>29, <1>30, <1>31, <1>32, <1>33, <1>34
       DEF Next, OwnerStep, WorkerStep, SendStep

\* NoneLost is preserved.
LEMMA NoneLostStep ==
    ASSUME TypeOK, Phases, FreedUnused, OneHolder, NoneLost, [Next]_vars
    PROVE  NoneLost'
  <1>1. CASE Init
    BY <1>1 DEF Init, InitMayRun, ownerVars, sendVars, workerVars, endpoint, history,
       TypeOK, Phases, NoneLost, OneHolder, FreedUnused, Contexts
  <1>2. CASE InitAgain
    BY <1>2 DEF InitAgain, InitMayRun, ownerVars, sendVars, workerVars, endpoint, history,
       TypeOK, Phases, NoneLost, OneHolder, FreedUnused, Contexts
  <1>3. CASE InitFails
    BY <1>3 DEF InitFails, InitMayRun, Fault, endpoint, ownerVars, sendVars, workerVars,
       history, TypeOK, Phases, NoneLost, OneHolder, FreedUnused, Contexts
  <1>4. CASE Start
    BY <1>4 DEF Start, history, sendVars, workerVars, endpoint, TypeOK, Phases, NoneLost,
       OneHolder, FreedUnused, Contexts
  <1>5. ASSUME NEW w \in Workers, Spawn(w)
         PROVE  NoneLost'
    BY <1>5 DEF Spawn, endpoint, history, ownerVars, sendVars, workerVars, TypeOK, Phases,
       NoneLost, OneHolder, FreedUnused, Contexts
  <1>6. CASE SpawnFails
    BY <1>6 DEF SpawnFails, Fault, StopRunning, sendVars, workerVars, endpoint, history,
       TypeOK, Phases, NoneLost, OneHolder, FreedUnused, Contexts
  <1>7. CASE BeginPriming
    BY <1>7 DEF BeginPriming, endpoint, history, sendVars, workerVars, TypeOK, Phases,
       NoneLost, OneHolder, FreedUnused, Contexts
  <1>8. ASSUME NEW c \in Slots, Prime(c)
         PROVE  NoneLost'
    BY <1>8 DEF Prime, endpoint, history, sendVars, workerVars, TypeOK, Phases, NoneLost,
       OneHolder, FreedUnused, Contexts
  <1>9. CASE PrimeFails
    BY <1>9 DEF PrimeFails, Fault, endpoint, sendVars, workerVars, history, TypeOK, Phases,
       NoneLost, OneHolder, FreedUnused, Contexts
  <1>10. CASE Started
    BY <1>10 DEF Started, PrimingOver, endpoint, history, sendVars, workerVars, TypeOK,
       Phases, NoneLost, OneHolder, FreedUnused, Contexts
  <1>11. CASE NothingPrimed
    BY <1>11 DEF NothingPrimed, StopRunning, PrimingOver, history, sendVars, workerVars,
       endpoint, TypeOK, Phases, NoneLost, OneHolder, FreedUnused, Contexts
  <1>12. CASE Stop
    BY <1>12 DEF Stop, StopRunning, history, sendVars, workerVars, endpoint, TypeOK,
       Phases, NoneLost, OneHolder, FreedUnused, Contexts
  <1>13. CASE Signal
    BY <1>13 DEF Signal, endpoint, history, sendVars, workerVars, TypeOK, Phases, NoneLost,
       OneHolder, FreedUnused, Contexts
  <1>14. CASE CloseSocket
    BY <1>14 DEF CloseSocket, history, sendVars, workerVars, endpoint, TypeOK, Phases,
       NoneLost, OneHolder, FreedUnused, Contexts
  <1>15. CASE Join
    BY <1>15 DEF Join, endpoint, history, sendVars, workerVars, TypeOK, Phases, NoneLost,
       OneHolder, FreedUnused, Contexts
  <1>16. CASE CloseIocp
    BY <1>16 DEF CloseIocp, workerVars, endpoint, history, TypeOK, Phases, NoneLost,
       OneHolder, FreedUnused, Contexts
  <1>17. CASE ClearPool
    BY <1>17 DEF ClearPool, endpoint, history, sendVars, workerVars, TypeOK, Phases,
       NoneLost, OneHolder, FreedUnused, Contexts
  <1>18. ASSUME NEW w \in Workers, Test(w)
         PROVE  NoneLost'
    BY <1>18 DEF Test, endpoint, history, ownerVars, sendVars, workerVars, TypeOK, Phases,
       NoneLost, OneHolder, FreedUnused, Contexts
  <1>19. ASSUME NEW w \in Workers, WaitTimesOut(w)
         PROVE  NoneLost'
    BY <1>19 DEF WaitTimesOut, OnPort, endpoint, history, ownerVars, sendVars, workerVars,
       TypeOK, Phases, NoneLost, OneHolder, FreedUnused, Contexts
  <1>20. ASSUME NEW w \in Workers, TakePill(w)
         PROVE  NoneLost'
    BY <1>20 DEF TakePill, endpoint, history, ownerVars, sendVars, workerVars, TypeOK,
       Phases, NoneLost, OneHolder, FreedUnused, Contexts
  <1>21. ASSUME NEW w \in Workers, NEW c \in Contexts, Dequeue(w, c)
         PROVE  NoneLost'
    BY <1>21 DEF Dequeue, Branch, OnPort, endpoint, history, ownerVars, sendVars,
       workerVars, TypeOK, Phases, NoneLost, OneHolder, FreedUnused, Contexts
  <1>22. ASSUME NEW w \in Workers, HandUp(w)
         PROVE  NoneLost'
    BY <1>22 DEF HandUp, endpoint, history, ownerVars, sendVars, workerVars, TypeOK,
       Phases, NoneLost, OneHolder, FreedUnused, Contexts
  <1>23. ASSUME NEW w \in Workers, Rearm(w)
         PROVE  NoneLost'
    BY <1>23 DEF Rearm, endpoint, history, ownerVars, sendVars, workerVars, TypeOK, Phases,
       NoneLost, OneHolder, FreedUnused, Contexts
  <1>24. ASSUME NEW w \in Workers, Retire(w)
         PROVE  NoneLost'
    BY <1>24 DEF Retire, GiveBack, endpoint, history, ownerVars, sendVars, workerVars,
       TypeOK, Phases, NoneLost, OneHolder, FreedUnused, Contexts
  <1>25. ASSUME NEW w \in Workers, Post(w)
         PROVE  NoneLost'
    BY <1>25 DEF Post, endpoint, history, ownerVars, sendVars, workerVars, TypeOK, Phases,
       NoneLost, OneHolder, FreedUnused, Contexts
  <1>26. ASSUME NEW w \in Workers, PostFails(w)
         PROVE  NoneLost'
    BY <1>26 DEF PostFails, Fault, GiveBack, endpoint, ownerVars, sendVars, history,
       workerVars, TypeOK, Phases, NoneLost, OneHolder, FreedUnused, Contexts
  <1>27. ASSUME NEW w \in Workers, Report(w)
         PROVE  NoneLost'
    BY <1>27 DEF Report, endpoint, history, ownerVars, sendVars, workerVars, TypeOK,
       Phases, NoneLost, OneHolder, FreedUnused, Contexts
  <1>28. ASSUME NEW s \in Sends, CheckSocket(s)
         PROVE  NoneLost'
    BY <1>28 DEF CheckSocket, endpoint, history, ownerVars, workerVars, sendVars, TypeOK,
       Phases, NoneLost, OneHolder, FreedUnused, Contexts
  <1>29. ASSUME NEW s \in Sends, Refuse(s)
         PROVE  NoneLost'
    BY <1>29 DEF Refuse, endpoint, history, ownerVars, workerVars, sendVars, TypeOK,
       Phases, NoneLost, OneHolder, FreedUnused, Contexts
  <1>30. ASSUME NEW s \in Sends, Submit(s)
         PROVE  NoneLost'
    BY <1>30 DEF Submit, endpoint, history, ownerVars, workerVars, sendVars, TypeOK,
       Phases, NoneLost, OneHolder, FreedUnused, Contexts
  <1>31. ASSUME NEW s \in Sends, SubmitFails(s)
         PROVE  NoneLost'
    BY <1>31 DEF SubmitFails, Fault, endpoint, ownerVars, workerVars, history, sendVars,
       TypeOK, Phases, NoneLost, OneHolder, FreedUnused, Contexts
  <1>32. ASSUME NEW c \in Contexts, Succeed(c)
         PROVE  NoneLost'
    BY <1>32 DEF Succeed, endpoint, history, ownerVars, sendVars, workerVars, TypeOK,
       Phases, NoneLost, OneHolder, FreedUnused, Contexts
  <1>33. ASSUME NEW c \in Contexts, Fail(c)
         PROVE  NoneLost'
    BY <1>33 DEF Fail, Fault, endpoint, ownerVars, sendVars, workerVars, history, TypeOK,
       Phases, NoneLost, OneHolder, FreedUnused, Contexts
  <1>34. CASE UNCHANGED vars
    BY <1>34 DEF vars, endpoint, history, ownerVars, sendVars, workerVars, TypeOK, Phases,
       NoneLost, OneHolder, FreedUnused, Contexts
  <1>35. QED
    BY <1>1, <1>2, <1>3, <1>4, <1>5, <1>6, <1>7, <1>8, <1>9, <1>10, <1>11, <1>12, <1>13,
       <1>14, <1>15, <1>16, <1>17, <1>18, <1>19, <1>20, <1>21, <1>22, <1>23, <1>24, <1>25,
       <1>26, <1>27, <1>28, <1>29, <1>30, <1>31, <1>32, <1>33, <1>34
       DEF Next, OwnerStep, WorkerStep, SendStep

\* OneHolder is preserved.
LEMMA HolderStep ==
    ASSUME TypeOK, Phases, FreedUnused, OneHolder, NoneLost, NoneLost', [Next]_vars
    PROVE  OneHolder'
  <1>1. CASE Init
    BY <1>1 DEF Init, InitMayRun, ownerVars, sendVars, workerVars, endpoint, history,
       TypeOK, Phases, NoneLost, OneHolder, FreedUnused, Contexts
  <1>2. CASE InitAgain
    BY <1>2 DEF InitAgain, InitMayRun, ownerVars, sendVars, workerVars, endpoint, history,
       TypeOK, Phases, NoneLost, OneHolder, FreedUnused, Contexts
  <1>3. CASE InitFails
    BY <1>3 DEF InitFails, InitMayRun, Fault, endpoint, ownerVars, sendVars, workerVars,
       history, TypeOK, Phases, NoneLost, OneHolder, FreedUnused, Contexts
  <1>4. CASE Start
    BY <1>4 DEF Start, history, sendVars, workerVars, endpoint, TypeOK, Phases, NoneLost,
       OneHolder, FreedUnused, Contexts
  <1>5. ASSUME NEW w \in Workers, Spawn(w)
         PROVE  OneHolder'
    BY <1>5 DEF Spawn, endpoint, history, ownerVars, sendVars, workerVars, TypeOK, Phases,
       NoneLost, OneHolder, FreedUnused, Contexts
  <1>6. CASE SpawnFails
    BY <1>6 DEF SpawnFails, Fault, StopRunning, sendVars, workerVars, endpoint, history,
       TypeOK, Phases, NoneLost, OneHolder, FreedUnused, Contexts
  <1>7. CASE BeginPriming
    BY <1>7 DEF BeginPriming, endpoint, history, sendVars, workerVars, TypeOK, Phases,
       NoneLost, OneHolder, FreedUnused, Contexts
  <1>8. ASSUME NEW c \in Slots, Prime(c)
         PROVE  OneHolder'
    BY <1>8 DEF Prime, endpoint, history, sendVars, workerVars, TypeOK, Phases, NoneLost,
       OneHolder, FreedUnused, Contexts
  <1>9. CASE PrimeFails
    BY <1>9 DEF PrimeFails, Fault, endpoint, sendVars, workerVars, history, TypeOK, Phases,
       NoneLost, OneHolder, FreedUnused, Contexts
  <1>10. CASE Started
    BY <1>10 DEF Started, PrimingOver, endpoint, history, sendVars, workerVars, TypeOK,
       Phases, NoneLost, OneHolder, FreedUnused, Contexts
  <1>11. CASE NothingPrimed
    BY <1>11 DEF NothingPrimed, StopRunning, PrimingOver, history, sendVars, workerVars,
       endpoint, TypeOK, Phases, NoneLost, OneHolder, FreedUnused, Contexts
  <1>12. CASE Stop
    BY <1>12 DEF Stop, StopRunning, history, sendVars, workerVars, endpoint, TypeOK,
       Phases, NoneLost, OneHolder, FreedUnused, Contexts
  <1>13. CASE Signal
    BY <1>13 DEF Signal, endpoint, history, sendVars, workerVars, TypeOK, Phases, NoneLost,
       OneHolder, FreedUnused, Contexts
  <1>14. CASE CloseSocket
    BY <1>14 DEF CloseSocket, history, sendVars, workerVars, endpoint, TypeOK, Phases,
       NoneLost, OneHolder, FreedUnused, Contexts
  <1>15. CASE Join
    BY <1>15 DEF Join, endpoint, history, sendVars, workerVars, TypeOK, Phases, NoneLost,
       OneHolder, FreedUnused, Contexts
  <1>16. CASE CloseIocp
    BY <1>16 DEF CloseIocp, workerVars, endpoint, history, TypeOK, Phases, NoneLost,
       OneHolder, FreedUnused, Contexts
  <1>17. CASE ClearPool
    BY <1>17 DEF ClearPool, endpoint, history, sendVars, workerVars, TypeOK, Phases,
       NoneLost, OneHolder, FreedUnused, Contexts
  <1>18. ASSUME NEW w \in Workers, Test(w)
         PROVE  OneHolder'
    BY <1>18 DEF Test, endpoint, history, ownerVars, sendVars, workerVars, TypeOK, Phases,
       NoneLost, OneHolder, FreedUnused, Contexts
  <1>19. ASSUME NEW w \in Workers, WaitTimesOut(w)
         PROVE  OneHolder'
    BY <1>19 DEF WaitTimesOut, OnPort, endpoint, history, ownerVars, sendVars, workerVars,
       TypeOK, Phases, NoneLost, OneHolder, FreedUnused, Contexts
  <1>20. ASSUME NEW w \in Workers, TakePill(w)
         PROVE  OneHolder'
    BY <1>20 DEF TakePill, endpoint, history, ownerVars, sendVars, workerVars, TypeOK,
       Phases, NoneLost, OneHolder, FreedUnused, Contexts
  <1>21. ASSUME NEW w \in Workers, NEW c \in Contexts, Dequeue(w, c)
         PROVE  OneHolder'
    BY <1>21 DEF Dequeue, Branch, OnPort, endpoint, history, ownerVars, sendVars,
       workerVars, TypeOK, Phases, NoneLost, OneHolder, FreedUnused, Contexts
  <1>22. ASSUME NEW w \in Workers, HandUp(w)
         PROVE  OneHolder'
    BY <1>22 DEF HandUp, endpoint, history, ownerVars, sendVars, workerVars, TypeOK,
       Phases, NoneLost, OneHolder, FreedUnused, Contexts
  <1>23. ASSUME NEW w \in Workers, Rearm(w)
         PROVE  OneHolder'
    BY <1>23 DEF Rearm, endpoint, history, ownerVars, sendVars, workerVars, TypeOK, Phases,
       NoneLost, OneHolder, FreedUnused, Contexts
  <1>24. ASSUME NEW w \in Workers, Retire(w)
         PROVE  OneHolder'
    BY <1>24 DEF Retire, GiveBack, endpoint, history, ownerVars, sendVars, workerVars,
       TypeOK, Phases, NoneLost, OneHolder, FreedUnused, Contexts
  <1>25. ASSUME NEW w \in Workers, Post(w)
         PROVE  OneHolder'
    BY <1>25 DEF Post, endpoint, history, ownerVars, sendVars, workerVars, TypeOK, Phases,
       NoneLost, OneHolder, FreedUnused, Contexts
  <1>26. ASSUME NEW w \in Workers, PostFails(w)
         PROVE  OneHolder'
    BY <1>26 DEF PostFails, Fault, GiveBack, endpoint, ownerVars, sendVars, history,
       workerVars, TypeOK, Phases, NoneLost, OneHolder, FreedUnused, Contexts
  <1>27. ASSUME NEW w \in Workers, Report(w)
         PROVE  OneHolder'
    BY <1>27 DEF Report, endpoint, history, ownerVars, sendVars, workerVars, TypeOK,
       Phases, NoneLost, OneHolder, FreedUnused, Contexts
  <1>28. ASSUME NEW s \in Sends, CheckSocket(s)
         PROVE  OneHolder'
    BY <1>28 DEF CheckSocket, endpoint, history, ownerVars, workerVars, sendVars, TypeOK,
       Phases, NoneLost, OneHolder, FreedUnused, Contexts
  <1>29. ASSUME NEW s \in Sends, Refuse(s)
         PROVE  OneHolder'
    BY <1>29 DEF Refuse, endpoint, history, ownerVars, workerVars, sendVars, TypeOK,
       Phases, NoneLost, OneHolder, FreedUnused, Contexts
  <1>30. ASSUME NEW s \in Sends, Submit(s)
         PROVE  OneHolder'
    BY <1>30 DEF Submit, endpoint, history, ownerVars, workerVars, sendVars, TypeOK,
       Phases, NoneLost, OneHolder, FreedUnused, Contexts
  <1>31. ASSUME NEW s \in Sends, SubmitFails(s)
         PROVE  OneHolder'
    BY <1>31 DEF SubmitFails, Fault, endpoint, ownerVars, workerVars, history, sendVars,
       TypeOK, Phases, NoneLost, OneHolder, FreedUnused, Contexts
  <1>32. ASSUME NEW c \in Contexts, Succeed(c)
         PROVE  OneHolder'
    BY <1>32 DEF Succeed, endpoint, history, ownerVars, sendVars, workerVars, TypeOK,
       Phases, NoneLost, OneHolder, FreedUnused, Contexts
  <1>33. ASSUME NEW c \in Contexts, Fail(c)
         PROVE  OneHolder'
    BY <1>33 DEF Fail, Fault, endpoint, ownerVars, sendVars, workerVars, history, TypeOK,
       Phases, NoneLost, OneHolder, FreedUnused, Contexts
  <1>34. CASE UNCHANGED vars
    BY <1>34 DEF vars, endpoint, history, ownerVars, sendVars, workerVars, TypeOK, Phases,
       NoneLost, OneHolder, FreedUnused, Contexts
  <1>35. QED
    BY <1>1, <1>2, <1>3, <1>4, <1>5, <1>6, <1>7, <1>8, <1>9, <1>10, <1>11, <1>12, <1>13,
       <1>14, <1>15, <1>16, <1>17, <1>18, <1>19, <1>20, <1>21, <1>22, <1>23, <1>24, <1>25,
       <1>26, <1>27, <1>28, <1>29, <1>30, <1>31, <1>32, <1>33, <1>34
       DEF Next, OwnerStep, WorkerStep, SendStep

\* SendReportedOnce is preserved.
LEMMA ReportStep ==
    ASSUME TypeOK, Phases, FreedUnused, SendReportedOnce, [Next]_vars
    PROVE  SendReportedOnce'
  <1>1. CASE Init
    BY <1>1 DEF Init, InitMayRun, ownerVars, sendVars, workerVars, endpoint, history,
       TypeOK, Phases, SendReportedOnce, FreedUnused, Contexts
  <1>2. CASE InitAgain
    BY <1>2 DEF InitAgain, InitMayRun, ownerVars, sendVars, workerVars, endpoint, history,
       TypeOK, Phases, SendReportedOnce, FreedUnused, Contexts
  <1>3. CASE InitFails
    BY <1>3 DEF InitFails, InitMayRun, Fault, endpoint, ownerVars, sendVars, workerVars,
       history, TypeOK, Phases, SendReportedOnce, FreedUnused, Contexts
  <1>4. CASE Start
    BY <1>4 DEF Start, history, sendVars, workerVars, endpoint, TypeOK, Phases,
       SendReportedOnce, FreedUnused, Contexts
  <1>5. ASSUME NEW w \in Workers, Spawn(w)
         PROVE  SendReportedOnce'
    BY <1>5 DEF Spawn, endpoint, history, ownerVars, sendVars, workerVars, TypeOK, Phases,
       SendReportedOnce, FreedUnused, Contexts
  <1>6. CASE SpawnFails
    BY <1>6 DEF SpawnFails, Fault, StopRunning, sendVars, workerVars, endpoint, history,
       TypeOK, Phases, SendReportedOnce, FreedUnused, Contexts
  <1>7. CASE BeginPriming
    BY <1>7 DEF BeginPriming, endpoint, history, sendVars, workerVars, TypeOK, Phases,
       SendReportedOnce, FreedUnused, Contexts
  <1>8. ASSUME NEW c \in Slots, Prime(c)
         PROVE  SendReportedOnce'
    BY <1>8 DEF Prime, endpoint, history, sendVars, workerVars, TypeOK, Phases,
       SendReportedOnce, FreedUnused, Contexts
  <1>9. CASE PrimeFails
    BY <1>9 DEF PrimeFails, Fault, endpoint, sendVars, workerVars, history, TypeOK, Phases,
       SendReportedOnce, FreedUnused, Contexts
  <1>10. CASE Started
    BY <1>10 DEF Started, PrimingOver, endpoint, history, sendVars, workerVars, TypeOK,
       Phases, SendReportedOnce, FreedUnused, Contexts
  <1>11. CASE NothingPrimed
    BY <1>11 DEF NothingPrimed, StopRunning, PrimingOver, history, sendVars, workerVars,
       endpoint, TypeOK, Phases, SendReportedOnce, FreedUnused, Contexts
  <1>12. CASE Stop
    BY <1>12 DEF Stop, StopRunning, history, sendVars, workerVars, endpoint, TypeOK,
       Phases, SendReportedOnce, FreedUnused, Contexts
  <1>13. CASE Signal
    BY <1>13 DEF Signal, endpoint, history, sendVars, workerVars, TypeOK, Phases,
       SendReportedOnce, FreedUnused, Contexts
  <1>14. CASE CloseSocket
    BY <1>14 DEF CloseSocket, history, sendVars, workerVars, endpoint, TypeOK, Phases,
       SendReportedOnce, FreedUnused, Contexts
  <1>15. CASE Join
    BY <1>15 DEF Join, endpoint, history, sendVars, workerVars, TypeOK, Phases,
       SendReportedOnce, FreedUnused, Contexts
  <1>16. CASE CloseIocp
    BY <1>16 DEF CloseIocp, workerVars, endpoint, history, TypeOK, Phases,
       SendReportedOnce, FreedUnused, Contexts
  <1>17. CASE ClearPool
    BY <1>17 DEF ClearPool, endpoint, history, sendVars, workerVars, TypeOK, Phases,
       SendReportedOnce, FreedUnused, Contexts
  <1>18. ASSUME NEW w \in Workers, Test(w)
         PROVE  SendReportedOnce'
    BY <1>18 DEF Test, endpoint, history, ownerVars, sendVars, workerVars, TypeOK, Phases,
       SendReportedOnce, FreedUnused, Contexts
  <1>19. ASSUME NEW w \in Workers, WaitTimesOut(w)
         PROVE  SendReportedOnce'
    BY <1>19 DEF WaitTimesOut, OnPort, endpoint, history, ownerVars, sendVars, workerVars,
       TypeOK, Phases, SendReportedOnce, FreedUnused, Contexts
  <1>20. ASSUME NEW w \in Workers, TakePill(w)
         PROVE  SendReportedOnce'
    BY <1>20 DEF TakePill, endpoint, history, ownerVars, sendVars, workerVars, TypeOK,
       Phases, SendReportedOnce, FreedUnused, Contexts
  <1>21. ASSUME NEW w \in Workers, NEW c \in Contexts, Dequeue(w, c)
         PROVE  SendReportedOnce'
    BY <1>21 DEF Dequeue, Branch, OnPort, endpoint, history, ownerVars, sendVars,
       workerVars, TypeOK, Phases, SendReportedOnce, FreedUnused, Contexts
  <1>22. ASSUME NEW w \in Workers, HandUp(w)
         PROVE  SendReportedOnce'
    BY <1>22 DEF HandUp, endpoint, history, ownerVars, sendVars, workerVars, TypeOK,
       Phases, SendReportedOnce, FreedUnused, Contexts
  <1>23. ASSUME NEW w \in Workers, Rearm(w)
         PROVE  SendReportedOnce'
    BY <1>23 DEF Rearm, endpoint, history, ownerVars, sendVars, workerVars, TypeOK, Phases,
       SendReportedOnce, FreedUnused, Contexts
  <1>24. ASSUME NEW w \in Workers, Retire(w)
         PROVE  SendReportedOnce'
    BY <1>24 DEF Retire, GiveBack, endpoint, history, ownerVars, sendVars, workerVars,
       TypeOK, Phases, SendReportedOnce, FreedUnused, Contexts
  <1>25. ASSUME NEW w \in Workers, Post(w)
         PROVE  SendReportedOnce'
    BY <1>25 DEF Post, endpoint, history, ownerVars, sendVars, workerVars, TypeOK, Phases,
       SendReportedOnce, FreedUnused, Contexts
  <1>26. ASSUME NEW w \in Workers, PostFails(w)
         PROVE  SendReportedOnce'
    BY <1>26 DEF PostFails, Fault, GiveBack, endpoint, ownerVars, sendVars, history,
       workerVars, TypeOK, Phases, SendReportedOnce, FreedUnused, Contexts
  <1>27. ASSUME NEW w \in Workers, Report(w)
         PROVE  SendReportedOnce'
    BY <1>27 DEF Report, endpoint, history, ownerVars, sendVars, workerVars, TypeOK,
       Phases, SendReportedOnce, FreedUnused, Contexts
  <1>28. ASSUME NEW s \in Sends, CheckSocket(s)
         PROVE  SendReportedOnce'
    BY <1>28 DEF CheckSocket, endpoint, history, ownerVars, workerVars, sendVars, TypeOK,
       Phases, SendReportedOnce, FreedUnused, Contexts
  <1>29. ASSUME NEW s \in Sends, Refuse(s)
         PROVE  SendReportedOnce'
    BY <1>29 DEF Refuse, endpoint, history, ownerVars, workerVars, sendVars, TypeOK,
       Phases, SendReportedOnce, FreedUnused, Contexts
  <1>30. ASSUME NEW s \in Sends, Submit(s)
         PROVE  SendReportedOnce'
    BY <1>30 DEF Submit, endpoint, history, ownerVars, workerVars, sendVars, TypeOK,
       Phases, SendReportedOnce, FreedUnused, Contexts
  <1>31. ASSUME NEW s \in Sends, SubmitFails(s)
         PROVE  SendReportedOnce'
    BY <1>31 DEF SubmitFails, Fault, endpoint, ownerVars, workerVars, history, sendVars,
       TypeOK, Phases, SendReportedOnce, FreedUnused, Contexts
  <1>32. ASSUME NEW c \in Contexts, Succeed(c)
         PROVE  SendReportedOnce'
    BY <1>32 DEF Succeed, endpoint, history, ownerVars, sendVars, workerVars, TypeOK,
       Phases, SendReportedOnce, FreedUnused, Contexts
  <1>33. ASSUME NEW c \in Contexts, Fail(c)
         PROVE  SendReportedOnce'
    BY <1>33 DEF Fail, Fault, endpoint, ownerVars, sendVars, workerVars, history, TypeOK,
       Phases, SendReportedOnce, FreedUnused, Contexts
  <1>34. CASE UNCHANGED vars
    BY <1>34 DEF vars, endpoint, history, ownerVars, sendVars, workerVars, TypeOK, Phases,
       SendReportedOnce, FreedUnused, Contexts
  <1>35. QED
    BY <1>1, <1>2, <1>3, <1>4, <1>5, <1>6, <1>7, <1>8, <1>9, <1>10, <1>11, <1>12, <1>13,
       <1>14, <1>15, <1>16, <1>17, <1>18, <1>19, <1>20, <1>21, <1>22, <1>23, <1>24, <1>25,
       <1>26, <1>27, <1>28, <1>29, <1>30, <1>31, <1>32, <1>33, <1>34
       DEF Next, OwnerStep, WorkerStep, SendStep

-----------------------------------------------------------------------------
(* The idle contexts.                                                       *)

\* Taking a context out of the pool, or putting one back, moves the count by one.
LEMMA IdleChange ==
    ASSUME TypeOK, OneHolder, NEW c \in Slots
    PROVE  /\ free[c] > 0 /\ free' = [free EXCEPT ![c] = @ - 1] =>
                Cardinality(Idle') = Cardinality(Idle) - 1
           /\ free' = [free EXCEPT ![c] = @ + 1] =>
                Cardinality(Idle') \in {Cardinality(Idle), Cardinality(Idle) + 1}
  <1>1. \A x \in Slots : free[x] \in {0, 1}
    BY DEF TypeOK, OneHolder
  <1>2. ASSUME free[c] > 0, free' = [free EXCEPT ![c] = @ - 1]
        PROVE  Cardinality(Idle') = Cardinality(Idle) - 1
    <2>1. Idle' = Idle \ {c} /\ c \in Idle
      BY <1>1, <1>2 DEF Idle, TypeOK
    <2>2. QED
      BY <2>1, Counts, FS_RemoveElement
  <1>3. ASSUME free' = [free EXCEPT ![c] = @ + 1]
        PROVE  Cardinality(Idle') \in {Cardinality(Idle), Cardinality(Idle) + 1}
    <2>1. Idle' = Idle \cup {c}
      BY <1>1, <1>3 DEF Idle, TypeOK
    <2>2. CASE c \in Idle
      BY <2>1, <2>2
    <2>3. CASE c \notin Idle
      BY <2>1, <2>3, Counts, FS_AddElement
    <2>4. QED
      BY <2>2, <2>3
  <1>4. QED
    BY <1>2, <1>3

\* IdleCounted is preserved.
LEMMA IdleStep ==
    ASSUME SocketInv, IdleCounted, [Next]_vars
    PROVE  IdleCounted'
  <1> USE Counts DEF SocketInv
  <1>1. CASE Init
    BY <1>1 DEF Init, InitMayRun, ownerVars, Phases, IdleCounted
  <1>2. CASE BeginPriming
    <2>1. Idle' = Idle /\ tries' = Cardinality(Slots) /\ refusals' = refusals
      BY <1>2 DEF BeginPriming, history, Idle
    <2>2. QED
      BY <1>2, <2>1 DEF BeginPriming, IdleCounted, TypeOK
  <1>3. ASSUME NEW c \in Slots, Prime(c)
        PROVE  IdleCounted'
    <2>1. Cardinality(Idle') = Cardinality(Idle) - 1
      BY <1>3, IdleChange DEF Prime
    <2>2. QED
      BY <1>3, <2>1 DEF Prime, history, IdleCounted, TypeOK
  <1>4. CASE PrimeFails
    <2>1. Idle' = Idle /\ refusals' + tries' = refusals + tries
      BY <1>4 DEF PrimeFails, Idle, TypeOK
    <2>2. QED
      BY <1>4, <2>1 DEF PrimeFails, IdleCounted
  <1>5. CASE Started
    <2>1. Idle' = Idle /\ refusals' = refusals
      BY <1>5 DEF Started, history, Idle
    <2>2. Cardinality(Idle) <= refusals
      <3>1. CASE tries = 0
        BY <3>1, <1>5 DEF Started, PrimingOver, IdleCounted, TypeOK
      <3>2. CASE \A c \in Slots : free[c] = 0
        <4>1. Idle = {}
          BY <3>2 DEF Idle
        <4>2. QED
          BY <4>1, FS_EmptySet DEF TypeOK
      <3>3. QED
        BY <3>1, <3>2, <1>5 DEF Started, PrimingOver
    <2>3. QED
      BY <1>5, <2>1, <2>2 DEF Started, IdleCounted
  <1>6. ASSUME NEW w \in Workers, Retire(w)
        PROVE  IdleCounted'
    BY <1>6 DEF Retire, endpoint, ownerVars, Phases, IdleCounted
  <1>7. ASSUME NEW w \in Workers, PostFails(w)
        PROVE  IdleCounted'
    <2>1. CASE isRunning
      <3>1. /\ Cardinality(Idle') \in {Cardinality(Idle), Cardinality(Idle) + 1}
            /\ refusals' = refusals + 1
        BY <2>1, <1>7, IdleChange DEF PostFails, GiveBack, TypeOK
      <3>2. UNCHANGED <<owner, tries, isRunning>>
        BY <1>7 DEF PostFails, endpoint, ownerVars
      <3>3. QED
        BY <3>1, <3>2 DEF IdleCounted, TypeOK
    <2>2. CASE ~isRunning
      BY <2>2, <1>7 DEF PostFails, endpoint, ownerVars, Phases, IdleCounted
    <2>3. QED
      BY <2>1, <2>2
  <1>8. CASE ClearPool \/ InitFails \/ InitAgain
    BY <1>8 DEF ClearPool, InitFails, InitAgain, InitMayRun, endpoint, ownerVars, Phases,
       IdleCounted
  <1>9. ASSUME UNCHANGED <<free, refusals>>,
               \/ UNCHANGED <<owner, tries, isRunning>>
               \/ owner' \notin {"priming", "idle"}
        PROVE  IdleCounted'
    <2>1. Idle' = Idle
      BY <1>9 DEF Idle
    <2>2. QED
      BY <2>1, <1>9 DEF IdleCounted
  <1>10. CASE \/ Start \/ SpawnFails \/ NothingPrimed \/ Stop \/ Signal \/ CloseSocket
              \/ Join \/ CloseIocp
    BY <1>9, <1>10 DEF Start, SpawnFails, NothingPrimed, StopRunning, Stop, Signal,
       CloseSocket, Join, CloseIocp, history
  <1>11. CASE \E w \in Workers : Spawn(w)
    BY <1>9, <1>11 DEF Spawn, endpoint, ownerVars, history
  <1>12. ASSUME NEW w \in Workers,
                \/ Test(w) \/ WaitTimesOut(w) \/ TakePill(w)
                \/ \E c \in Contexts : Dequeue(w, c)
                \/ HandUp(w) \/ Rearm(w) \/ Post(w) \/ Report(w)
         PROVE  IdleCounted'
    BY <1>9, <1>12 DEF Test, WaitTimesOut, TakePill, Dequeue, HandUp, Rearm, Post, Report,
       endpoint, ownerVars, history
  <1>13. ASSUME NEW s \in Sends, SendStep(s)
         PROVE  IdleCounted'
    BY <1>9, <1>13 DEF SendStep, CheckSocket, Refuse, Submit, SubmitFails, endpoint,
       ownerVars, history
  <1>14. ASSUME NEW c \in Contexts, Succeed(c) \/ Fail(c)
         PROVE  IdleCounted'
    BY <1>9, <1>14 DEF Succeed, Fail, endpoint, ownerVars, history
  <1>15. CASE UNCHANGED vars
    BY <1>9, <1>15 DEF vars, endpoint, ownerVars, history
  <1>16. QED
    BY <1>1, <1>2, <1>3, <1>4, <1>5, <1>6, <1>7, <1>8, <1>10, <1>11, <1>12, <1>13, <1>14,
       <1>15 DEF Next, OwnerStep, WorkerStep

-----------------------------------------------------------------------------
(* The theorems.                                                            *)

LEMMA Initially == SocketInit => SocketInv /\ IdleCounted
  <1> SUFFICES ASSUME SocketInit
               PROVE  SocketInv /\ IdleCounted
    OBVIOUS
  <1>1. TypeOK
    BY DEF SocketInit, TypeOK, Contexts, OwnerPhases, WorkerPlaces, Fates
  <1>2. Phases /\ FreedUnused /\ NoneLost /\ IdleCounted
    BY DEF SocketInit, Phases, FreedUnused, NoneLost, IdleCounted
  <1>3. OneHolder
    BY DEF SocketInit, OneHolder, Contexts
  <1>4. SendReportedOnce
    BY DEF SocketInit, SendReportedOnce, Contexts
  <1>5. QED
    BY <1>1, <1>2, <1>3, <1>4 DEF SocketInv

LEMMA Preserved == SocketInv /\ IdleCounted /\ [Next]_vars => SocketInv' /\ IdleCounted'
  <1> SUFFICES ASSUME SocketInv, IdleCounted, [Next]_vars
               PROVE  SocketInv' /\ IdleCounted'
    OBVIOUS
  <1>1. TypeOK' /\ Phases' /\ FreedUnused' /\ NoneLost'
    BY TypeStep, PhasesStep, FreedStep, NoneLostStep DEF SocketInv
  <1>2. OneHolder' /\ SendReportedOnce'
    BY <1>1, HolderStep, ReportStep DEF SocketInv
  <1>3. IdleCounted'
    BY IdleStep
  <1>4. QED
    BY <1>1, <1>2, <1>3 DEF SocketInv

LEMMA Invariance == Spec => [](SocketInv /\ IdleCounted)
  BY Initially, Preserved, PTL DEF Spec

\* Every variable keeps its type, and workers hold contexts only inside the loop.
THEOREM TypeCorrect == Spec => []TypeOK
  BY Invariance, PTL DEF SocketInv

\* No receive context is lost, listed twice, or used by two at once.
THEOREM HoldersCorrect == Spec => []OneHolder
  BY Invariance, PTL DEF SocketInv

\* A send is reported at most once, and its context deleted by its only holder.
THEOREM ReportsCorrect == Spec => []SendReportedOnce
  BY Invariance, PTL DEF SocketInv

\* Stop frees nothing a worker can still touch.
THEOREM FreeingCorrect == Spec => []FreedUnused
  BY Invariance, PTL DEF SocketInv

\* A started socket has at most as many idle contexts as receives were refused.
THEOREM IdleCorrect == Spec => []IdleOnlyByRefusal
  <1>1. IdleCounted => IdleOnlyByRefusal
    BY DEF IdleCounted, IdleOnlyByRefusal, Idle
  <1>2. QED
    BY <1>1, Invariance, PTL

-----------------------------------------------------------------------------
(* The refinement.                                                          *)

Busy == {w \in Workers : worker[w] \in {"receiving", "reporting"}}
Outcome == [s \in Sends |-> IF send[s] = "checked" THEN "unsent" ELSE send[s]]

\* Steps that call up on no thread, leave the port as it is and move no send.
LEMMA PortStutters ==
    ASSUME UNCHANGED iocp, Busy' = Busy, Outcome' = Outcome
    PROVE  UNCHANGED Port!portVars
  BY DEF Port!portVars, Busy, Outcome

\* Each step of the socket is a step of the port or leaves it as it is.
LEMMA PortStep ==
    ASSUME SocketInv, [Next]_vars
    PROVE  [Port!PortNext]_(Port!portVars)
  <1> USE DEF SocketInv
  <1>1. CASE Init
    <2>1. ~iocp /\ iocp' /\ Busy' = Busy /\ Outcome' = Outcome
      BY <1>1 DEF Init, InitMayRun, workerVars, sendVars, Busy, Outcome, Phases
    <2>2. QED
      BY <2>1 DEF Port!PortNext, Port!Open, Busy, Outcome
  <1>2. CASE CloseIocp
    <2>1. iocp /\ ~iocp' /\ Busy = {} /\ Busy' = {}
      BY <1>2 DEF CloseIocp, workerVars, Busy, Phases
    <2>2. Outcome' = [s \in Sends |-> IF Outcome[s] = "accepted" THEN "lost" ELSE Outcome[s]]
      BY <1>2 DEF CloseIocp, Outcome, TypeOK, Fates
    <2>3. QED
      BY <2>1, <2>2 DEF Port!PortNext, Port!Close, Busy, Outcome
  <1>3. ASSUME NEW w \in Workers, NEW c \in Contexts, Dequeue(w, c)
        PROVE  [Port!PortNext]_(Port!portVars)
    <2>1. UNCHANGED iocp /\ Outcome' = Outcome
      BY <1>3 DEF Dequeue, endpoint, sendVars, Outcome
    <2>2. iocp /\ w \notin Busy
      BY <1>3 DEF Dequeue, FreedUnused, Busy
    <2>3. Busy' = Busy \/ Busy' = Busy \cup {w}
      BY <1>3 DEF Dequeue, Busy, TypeOK
    <2>4. QED
      BY <2>1, <2>2, <2>3, PortStutters DEF Port!PortNext, Port!Enter, Busy, Outcome
  <1>4. ASSUME NEW w \in Workers, HandUp(w)
        PROVE  [Port!PortNext]_(Port!portVars)
    <2>1. UNCHANGED iocp /\ Outcome' = Outcome /\ w \in Busy /\ Busy' = Busy \ {w}
      BY <1>4 DEF HandUp, endpoint, sendVars, Outcome, Busy, TypeOK
    <2>2. QED
      BY <2>1 DEF Port!PortNext, Port!Leave, Busy, Outcome
  <1>5. ASSUME NEW w \in Workers, Report(w)
        PROVE  [Port!PortNext]_(Port!portVars)
    <2>1. UNCHANGED iocp /\ w \in Busy /\ Busy' = Busy \ {w}
      BY <1>5 DEF Report, endpoint, Busy, TypeOK
    <2>2. hand[w] \in Sends /\ Outcome[hand[w]] = "accepted"
      BY <1>5 DEF Report, TypeOK, SendReportedOnce, Outcome
    <2>3. Outcome' = [Outcome EXCEPT ![hand[w]] = "reported"]
      BY <1>5, <2>2 DEF Report, Outcome, TypeOK
    <2>4. QED
      BY <2>1, <2>2, <2>3 DEF Port!PortNext, Port!Leave, Busy, Outcome
  <1>6. ASSUME NEW s \in Sends, Submit(s)
        PROVE  [Port!PortNext]_(Port!portVars)
    <2>1. UNCHANGED iocp /\ Busy' = Busy
      BY <1>6 DEF Submit, endpoint, workerVars, Busy
    <2>2. iocp /\ Outcome[s] = "unsent"
      BY <1>6 DEF Submit, Phases, TypeOK, OwnerPhases, Outcome
    <2>3. Outcome' = [Outcome EXCEPT ![s] = "accepted"]
      BY <1>6 DEF Submit, Outcome, TypeOK
    <2>4. QED
      BY <2>1, <2>2, <2>3 DEF Port!PortNext, Port!Accept, Busy, Outcome
  <1>7. ASSUME NEW s \in Sends, Refuse(s) \/ SubmitFails(s)
        PROVE  [Port!PortNext]_(Port!portVars)
    <2>1. UNCHANGED iocp /\ Busy' = Busy
      BY <1>7 DEF Refuse, SubmitFails, endpoint, workerVars, Busy
    <2>2. Outcome[s] = "unsent"
      BY <1>7 DEF Refuse, SubmitFails, Outcome
    <2>3. \E o \in {"refused", "failed"} : Outcome' = [Outcome EXCEPT ![s] = o]
      BY <1>7 DEF Refuse, SubmitFails, Outcome, TypeOK
    <2>4. QED
      BY <2>1, <2>2, <2>3 DEF Port!PortNext, Port!TurnDown, Busy, Outcome
  <1>8. ASSUME NEW s \in Sends, CheckSocket(s)
        PROVE  [Port!PortNext]_(Port!portVars)
    <2>1. UNCHANGED iocp /\ Busy' = Busy
      BY <1>8 DEF CheckSocket, endpoint, workerVars, Busy
    <2>2. Outcome' = Outcome
      BY <1>8 DEF CheckSocket, Outcome, TypeOK
    <2>3. QED
      BY <2>1, <2>2, PortStutters
  <1>9. ASSUME UNCHANGED <<iocp, send>>, Busy' = Busy
        PROVE  [Port!PortNext]_(Port!portVars)
    BY <1>9, PortStutters DEF Outcome
  <1>10. CASE \/ InitAgain \/ InitFails \/ Start \/ SpawnFails \/ BeginPriming \/ PrimeFails
              \/ Started \/ NothingPrimed \/ Stop \/ Signal \/ CloseSocket \/ ClearPool
              \/ \E c \in Slots : Prime(c)
              \/ \E c \in Contexts : Succeed(c) \/ Fail(c)
              \/ UNCHANGED vars
    BY <1>9, <1>10 DEF InitAgain, InitFails, Start, SpawnFails, BeginPriming, PrimeFails,
       Started, NothingPrimed, Stop, Signal, CloseSocket, ClearPool, Prime, Succeed, Fail,
       vars, endpoint, sendVars, workerVars, Busy
  <1>11. CASE Join
    <2>1. Busy = {} /\ Busy' = {}
      BY <1>11 DEF Join, Busy
    <2>2. QED
      BY <1>9, <1>11, <2>1 DEF Join, endpoint, sendVars
  <1>12. ASSUME NEW w \in Workers,
                \/ Spawn(w) \/ Test(w) \/ WaitTimesOut(w) \/ TakePill(w)
                \/ Rearm(w) \/ Retire(w) \/ Post(w) \/ PostFails(w)
         PROVE  [Port!PortNext]_(Port!portVars)
    <2>1. Busy' = Busy
      BY <1>12 DEF Spawn, Test, WaitTimesOut, TakePill, Rearm, Retire, GiveBack, Post,
         PostFails, Busy, TypeOK
    <2>2. QED
      BY <1>9, <1>12, <2>1 DEF Spawn, Test, WaitTimesOut, TakePill, Rearm, Retire, Post,
         PostFails, endpoint, sendVars
  <1>13. QED
    BY <1>1, <1>2, <1>3, <1>4, <1>5, <1>6, <1>7, <1>8, <1>10, <1>11, <1>12
       DEF Next, OwnerStep, WorkerStep, SendStep

\* The socket implements the port.
THEOREM Refinement == Spec => KeepsPromise
  <1>1. SocketInit => Port!PortInit
    BY DEF SocketInit, Port!PortInit
  <1>2. SocketInv /\ [Next]_vars => [Port!PortNext]_(Port!portVars)
    BY PortStep
  <1>3. QED
    BY <1>1, <1>2, Invariance, PTL DEF Spec, KeepsPromise, Port!PortSpec
=============================================================================
