-------------------------- MODULE ThreadPoolProofs --------------------------
(***************************************************************************)
(* Safety of the thread pool for every number of workers, callers and      *)
(* tasks: no task is lost or executed twice, stop() returns only when the  *)
(* queue is drained, and enqueue loses no wake-up.                         *)
(***************************************************************************)
EXTENDS ThreadPool, FiniteSetTheorems, SequenceTheorems, TLAPS

USE WorkersAssumption, CallersAssumption, NoneAssumption

-----------------------------------------------------------------------------
(* Queues                                                                   *)

\* The members of a queue.
Members(q) == {q[i] : i \in DOMAIN q}

\* No member stands in the queue twice.
Distinct(q) == \A i, j \in DOMAIN q : q[i] = q[j] => i = j

LEMMA AppendMembers ==
    ASSUME NEW S, NEW q \in Seq(S), NEW t \in S
    PROVE  /\ Append(q, t) \in Seq(S)
           /\ Members(Append(q, t)) = Members(q) \cup {t}
           /\ Distinct(q) /\ t \notin Members(q) => Distinct(Append(q, t))
           /\ Len(Append(q, t)) = Len(q) + 1
  BY DEF Members, Distinct

LEMMA TailMembers ==
    ASSUME NEW S, NEW q \in Seq(S), q # <<>>
    PROVE  /\ Tail(q) \in Seq(S)
           /\ Head(q) \in S /\ Head(q) \in Members(q)
           /\ Members(q) = Members(Tail(q)) \cup {Head(q)}
           /\ Distinct(q) => Distinct(Tail(q)) /\ Head(q) \notin Members(Tail(q))
           /\ Len(Tail(q)) = Len(q) - 1
  <1>1. Len(q) \in Nat \ {0} /\ DOMAIN q = 1 .. Len(q)
    BY EmptySeq
  <1>2. /\ Tail(q) \in Seq(S) /\ Len(Tail(q)) = Len(q) - 1
        /\ \A i \in 1 .. (Len(q) - 1) : Tail(q)[i] = q[i + 1]
        /\ DOMAIN Tail(q) = 1 .. (Len(q) - 1)
    BY <1>1
  <1>3. Head(q) = q[1] /\ q[1] \in S
    BY <1>1
  <1>4. Members(q) = Members(Tail(q)) \cup {Head(q)}
    <2>1. ASSUME NEW i \in 1 .. Len(q)
          PROVE  q[i] \in Members(Tail(q)) \cup {Head(q)}
      <3>1. CASE i = 1
        BY <3>1, <1>3
      <3>2. CASE i # 1
        <4>1. i - 1 \in 1 .. (Len(q) - 1) /\ Tail(q)[i - 1] = q[i]
          BY <3>2, <1>1, <1>2
        <4>2. QED
          BY <4>1, <1>2 DEF Members
      <3>3. QED
        BY <3>1, <3>2
    <2>2. \A i \in 1 .. (Len(q) - 1) : Tail(q)[i] \in Members(q)
      BY <1>1, <1>2 DEF Members
    <2>3. QED
      BY SMTT(30), <2>1, <2>2, <1>1, <1>2, <1>3 DEF Members
  <1>5. Distinct(q) => Distinct(Tail(q)) /\ Head(q) \notin Members(Tail(q))
    BY <1>1, <1>2, <1>3 DEF Distinct, Members
  <1>6. QED
    BY <1>2, <1>3, <1>4, <1>5

-----------------------------------------------------------------------------
(* The inductive invariant                                                  *)

\* A running worker has a task.
RunningHasTask == \A w \in Workers : worker[w] = "running" => current[w] \in Tasks

\* A worker leaves only a stopped pool with an empty queue, and nothing enters after.
ExitedIsDone == \A w \in Workers : worker[w] = "exited" => stop /\ tasks = <<>>

\* Where the owner stands in stop().
StopProgress ==
    /\ caller[Owner] \in {"stopping", "joining", "stopped"} => stop
    /\ \A c \in Callers : caller[c] \in {"stopping", "joining", "stopped"} => c = Owner
    /\ caller[Owner] = "stopped" => \A w \in Workers : worker[w] = "exited"

\* A worker that is about to sleep holds the mutex, so the queue is still as it saw it.
BlocksOnNothing ==
    /\ paused => everPaused
    /\ \A w \in Workers : worker[w] = "blocking" /\ ~everPaused => tasks = <<>>

Inv ==
    /\ TypeOK
    /\ RunningHasTask
    /\ OneFate
    /\ ExitedIsDone
    /\ StopProgress
    /\ BlocksOnNothing
    /\ WorkIsNoticed

\* Queued and the first conjuncts of OneFate, by the vocabulary of the lemmas.
LEMMA QueuedMembers == Queued = Members(tasks)
  BY DEF Queued, Members

LEMMA FiniteGroups ==
    /\ IsFiniteSet(Awake) /\ Cardinality(Awake) \in Nat
    /\ IsFiniteSet(Notifying) /\ Cardinality(Notifying) \in Nat
  <1>1. Awake \subseteq Workers /\ Notifying \subseteq Callers
    BY DEF Awake, Notifying
  <1>2. QED
    BY <1>1, FS_Subset, FS_CardinalityType

LEMMA FiniteGroupsNext ==
    /\ IsFiniteSet(Awake') /\ Cardinality(Awake') \in Nat
    /\ IsFiniteSet(Notifying') /\ Cardinality(Notifying') \in Nat
  <1>1. Awake' \subseteq Workers /\ Notifying' \subseteq Callers
    BY DEF Awake, Notifying
  <1>2. QED
    BY <1>1, FS_Subset, FS_CardinalityType

\* Nobody oversleeps an empty queue.
LEMMA EmptyQueueNoticed ==
    ASSUME tasks' = <<>>
    PROVE  WorkIsNoticed'
  <1>1. Len(tasks') = 0
    OBVIOUS
  <1>2. QED
    BY <1>1, FiniteGroupsNext DEF WorkIsNoticed

\* Nothing that WorkIsNoticed looks at gets worse.
LEMMA NoticedStays ==
    ASSUME Inv, Len(tasks') <= Len(tasks), Awake \subseteq Awake',
           UNCHANGED everPaused, Notifying' = Notifying,
           \A w \in Workers : worker'[w] = "waiting" => worker[w] = "waiting",
           Len(tasks') \in Nat
    PROVE  WorkIsNoticed'
  <1>1. Len(tasks) \in Nat
    BY DEF Inv, TypeOK
  <1>2. Cardinality(Awake) <= Cardinality(Awake')
    BY FiniteGroupsNext, FS_Subset
  <1>3. QED
    BY <1>1, <1>2, FiniteGroups, FiniteGroupsNext DEF Inv, WorkIsNoticed

LEMMA InitInv == Init => Inv
  <1> SUFFICES ASSUME Init
               PROVE  Inv
    OBVIOUS
  <1>1. TypeOK
    <2>1. <<>> \in Seq(Tasks)
      OBVIOUS
    <2>2. \A w \in Workers : mutex # w /\ worker[w] = "checking"
      BY DEF Init
    <2>3. QED
      BY <2>1, <2>2 DEF Init, TypeOK, WorkerStates, CallerStates
  <1>2. OneFate
    BY DEF Init, OneFate, Queued, Running
  <1>3. RunningHasTask /\ ExitedIsDone /\ StopProgress /\ BlocksOnNothing
    BY DEF Init, RunningHasTask, ExitedIsDone, StopProgress, BlocksOnNothing
  <1>4. WorkIsNoticed
    BY DEF Init, WorkIsNoticed
  <1>5. QED
    BY <1>1, <1>2, <1>3, <1>4 DEF Inv

-----------------------------------------------------------------------------
(* Steps of a worker                                                        *)

\* A worker that moves between two states outside "running" leaves every fate alone.
LEMMA IdleMoveFate ==
    ASSUME Inv, NEW w \in Workers, NEW to \in WorkerStates,
           worker[w] # "running", to # "running",
           worker' = [worker EXCEPT ![w] = to],
           UNCHANGED <<tasks, current, submitted, finished, cleared>>
    PROVE  OneFate' /\ RunningHasTask'
  <1>1. \A v \in Workers : worker'[v] = "running" <=> worker[v] = "running"
    BY DEF Inv, TypeOK
  <1>2. Running' = Running /\ Queued' = Queued
    BY <1>1 DEF Running, Queued
  <1>3. QED
    BY <1>1, <1>2 DEF Inv, OneFate, RunningHasTask

LEMMA CheckInv ==
    ASSUME Inv, NEW w \in Workers, Check(w)
    PROVE  Inv'
  <1> DEFINE to == IF WakePredicate THEN "woken" ELSE "blocking"
  <1>1. /\ worker[w] = "checking" /\ mutex = None /\ mutex' = w
        /\ worker' = [worker EXCEPT ![w] = to]
        /\ UNCHANGED <<tasks, stop, paused, current, caller, submitted, finished, cleared, everPaused>>
    BY DEF Check
  <1>2. TypeOK'
    BY <1>1 DEF Inv, TypeOK, WorkerStates
  <1>3. OneFate' /\ RunningHasTask'
    BY <1>1, IdleMoveFate DEF WorkerStates
  <1>4. ExitedIsDone' /\ StopProgress'
    BY <1>1 DEF Inv, TypeOK, ExitedIsDone, StopProgress
  <1>5. BlocksOnNothing'
    BY <1>1 DEF Inv, TypeOK, BlocksOnNothing, WakePredicate
  <1>6. WorkIsNoticed'
    <2> SUFFICES ASSUME ~everPaused
                 PROVE  WorkIsNoticed'
      BY <1>1 DEF WorkIsNoticed
    <2>1. CASE WakePredicate
      <3>1. /\ Awake' = Awake /\ Notifying' = Notifying
            /\ \A v \in Workers : worker'[v] = "waiting" <=> worker[v] = "waiting"
        BY <2>1, <1>1 DEF Awake, Notifying, Inv, TypeOK
      <3>2. QED
        BY <3>1, <1>1 DEF Inv, WorkIsNoticed
    <2>2. CASE ~WakePredicate
      <3>1. tasks' = <<>>
        BY <2>2, <1>1 DEF WakePredicate, Inv, BlocksOnNothing
      <3>2. QED
        BY <3>1, EmptyQueueNoticed
    <2>3. QED
      BY <2>1, <2>2
  <1>7. QED
    BY <1>2, <1>3, <1>4, <1>5, <1>6 DEF Inv

LEMMA BlockInv ==
    ASSUME Inv, NEW w \in Workers, Block(w)
    PROVE  Inv'
  <1>1. /\ worker[w] = "blocking" /\ mutex' = None
        /\ worker' = [worker EXCEPT ![w] = "waiting"]
        /\ UNCHANGED <<tasks, stop, paused, current, caller, submitted, finished, cleared, everPaused>>
    BY DEF Block
  <1>2. TypeOK'
    <2>1. \A v \in Workers : mutex' = v <=> worker'[v] \in {"blocking", "woken"}
      BY <1>1 DEF Inv, TypeOK
    <2>2. QED
      BY <1>1, <2>1 DEF Inv, TypeOK, WorkerStates
  <1>3. OneFate' /\ RunningHasTask'
    BY <1>1, IdleMoveFate DEF WorkerStates
  <1>4. ExitedIsDone' /\ StopProgress' /\ BlocksOnNothing'
    BY <1>1 DEF Inv, TypeOK, ExitedIsDone, StopProgress, BlocksOnNothing
  <1>5. WorkIsNoticed'
    <2>1. CASE everPaused
      BY <2>1, <1>1 DEF WorkIsNoticed
    <2>2. CASE ~everPaused
      <3>1. tasks' = <<>>
        BY <2>2, <1>1 DEF Inv, BlocksOnNothing
      <3>2. QED
        BY <3>1, EmptyQueueNoticed
    <2>3. QED
      BY <2>1, <2>2
  <1>6. QED
    BY <1>2, <1>3, <1>4, <1>5 DEF Inv

LEMMA ExitInv ==
    ASSUME Inv, NEW w \in Workers, Exit(w)
    PROVE  Inv'
  <1>1. /\ worker[w] = "woken" /\ mutex' = None /\ stop /\ tasks = <<>>
        /\ worker' = [worker EXCEPT ![w] = "exited"]
        /\ UNCHANGED <<tasks, stop, paused, current, caller, submitted, finished, cleared, everPaused>>
    BY DEF Exit, MayExit
  <1>2. TypeOK'
    <2>1. \A v \in Workers : mutex' = v <=> worker'[v] \in {"blocking", "woken"}
      BY <1>1 DEF Inv, TypeOK
    <2>2. QED
      BY <1>1, <2>1 DEF Inv, TypeOK, WorkerStates
  <1>3. OneFate' /\ RunningHasTask'
    BY <1>1, IdleMoveFate DEF WorkerStates
  <1>4. ExitedIsDone' /\ StopProgress' /\ BlocksOnNothing'
    BY <1>1 DEF Inv, TypeOK, ExitedIsDone, StopProgress, BlocksOnNothing
  <1>5. WorkIsNoticed'
    BY <1>1, EmptyQueueNoticed
  <1>6. QED
    BY <1>2, <1>3, <1>4, <1>5 DEF Inv

LEMMA SpinInv ==
    ASSUME Inv, NEW w \in Workers, Spin(w)
    PROVE  Inv'
  <1>1. /\ worker[w] = "woken" /\ mutex' = None
        /\ worker' = [worker EXCEPT ![w] = "checking"]
        /\ UNCHANGED <<tasks, stop, paused, current, caller, submitted, finished, cleared, everPaused>>
    BY DEF Spin
  <1>2. TypeOK'
    <2>1. \A v \in Workers : mutex' = v <=> worker'[v] \in {"blocking", "woken"}
      BY <1>1 DEF Inv, TypeOK
    <2>2. QED
      BY <1>1, <2>1 DEF Inv, TypeOK, WorkerStates
  <1>3. OneFate' /\ RunningHasTask'
    BY <1>1, IdleMoveFate DEF WorkerStates
  <1>4. ExitedIsDone' /\ StopProgress' /\ BlocksOnNothing'
    BY <1>1 DEF Inv, TypeOK, ExitedIsDone, StopProgress, BlocksOnNothing
  <1>5. WorkIsNoticed'
    <2>1. /\ Awake' = Awake /\ Notifying' = Notifying
          /\ \A v \in Workers : worker'[v] = "waiting" <=> worker[v] = "waiting"
      BY <1>1 DEF Awake, Notifying, Inv, TypeOK
    <2>2. QED
      BY <2>1, <1>1 DEF Inv, WorkIsNoticed
  <1>6. QED
    BY <1>2, <1>3, <1>4, <1>5 DEF Inv

LEMMA SpuriousWakeInv ==
    ASSUME Inv, NEW w \in Workers, SpuriousWake(w)
    PROVE  Inv'
  <1>1. /\ worker[w] = "waiting"
        /\ worker' = [worker EXCEPT ![w] = "checking"]
        /\ UNCHANGED <<tasks, stop, paused, mutex, current, caller, submitted, finished, cleared, everPaused>>
    BY DEF SpuriousWake
  <1>2. TypeOK'
    BY <1>1 DEF Inv, TypeOK, WorkerStates
  <1>3. OneFate' /\ RunningHasTask'
    BY <1>1, IdleMoveFate DEF WorkerStates
  <1>4. ExitedIsDone' /\ StopProgress' /\ BlocksOnNothing'
    BY <1>1 DEF Inv, TypeOK, ExitedIsDone, StopProgress, BlocksOnNothing
  <1>5. WorkIsNoticed'
    <2>1. /\ Awake \subseteq Awake' /\ Notifying' = Notifying
          /\ \A v \in Workers : worker'[v] = "waiting" => worker[v] = "waiting"
          /\ Len(tasks') = Len(tasks) /\ Len(tasks) \in Nat
      BY <1>1 DEF Awake, Notifying, Inv, TypeOK
    <2>2. QED
      BY <2>1, <1>1, NoticedStays
  <1>6. QED
    BY <1>2, <1>3, <1>4, <1>5 DEF Inv

\* The task at the front changes from queued to running.
LEMMA TakeInv ==
    ASSUME Inv, NEW w \in Workers, Take(w)
    PROVE  Inv'
  <1> DEFINE t == Head(tasks)
  <1>1. /\ worker[w] = "woken" /\ tasks # <<>> /\ mutex' = None
        /\ current' = [current EXCEPT ![w] = t]
        /\ tasks' = Tail(tasks)
        /\ worker' = [worker EXCEPT ![w] = "running"]
        /\ UNCHANGED <<stop, paused, caller, submitted, finished, cleared, everPaused>>
    BY DEF Take
  <1>2. /\ tasks' \in Seq(Tasks) /\ t \in Tasks /\ t \in Members(tasks)
        /\ Members(tasks) = Members(tasks') \cup {t}
        /\ Distinct(tasks) => Distinct(tasks') /\ t \notin Members(tasks')
        /\ Len(tasks') = Len(tasks) - 1 /\ Len(tasks) \in Nat
    BY <1>1, TailMembers DEF Inv, TypeOK
  <1> HIDE DEF t
  <1>3. TypeOK'
    <2>1. \A v \in Workers : mutex' = v <=> worker'[v] \in {"blocking", "woken"}
      BY <1>1 DEF Inv, TypeOK
    <2>2. current' \in [Workers -> Tasks \cup {None}]
      BY <1>1, <1>2 DEF Inv, TypeOK
    <2>3. QED
      BY <1>1, <1>2, <2>1, <2>2 DEF Inv, TypeOK, WorkerStates
  <1>4. RunningHasTask'
    BY <1>1, <1>2 DEF Inv, TypeOK, RunningHasTask
  <1>5. OneFate'
    <2>1. Running' = Running \cup {t}
      <3>1. \A v \in Workers : v # w => worker'[v] = worker[v] /\ current'[v] = current[v]
        BY <1>1 DEF Inv, TypeOK
      <3>2. worker'[w] = "running" /\ current'[w] = t /\ worker[w] # "running"
        BY <1>1 DEF Inv, TypeOK
      <3>3. QED
        BY <3>1, <3>2 DEF Running
    <2>2. Queued' = Members(tasks')
      BY DEF Queued, Members
    <2>3. /\ Distinct(tasks) /\ t \in Queued
          /\ Queued = Members(tasks)
      BY <1>2, QueuedMembers DEF Inv, OneFate, Distinct
    <2>4. /\ submitted' = Queued' \cup Running' \cup finished' \cup cleared'
          /\ Queued' \cap Running' = {}
          /\ Queued' \cap (finished' \cup cleared') = {}
          /\ Running' \cap (finished' \cup cleared') = {}
          /\ finished' \cap cleared' = {}
      BY <1>1, <1>2, <2>1, <2>2, <2>3 DEF Inv, OneFate
    <2>5. \A i, j \in DOMAIN tasks' : tasks'[i] = tasks'[j] => i = j
      BY <1>2, <2>3 DEF Distinct
    <2>6. \A u, v \in Workers :
             worker'[u] = "running" /\ worker'[v] = "running" /\ current'[u] = current'[v]
                 => u = v
      <3>1. t \notin Running
        BY <2>3 DEF Inv, OneFate
      <3>2. QED
        BY <1>1, <3>1 DEF Inv, TypeOK, OneFate, Running
    <2>7. QED
      BY <2>4, <2>5, <2>6 DEF OneFate
  <1>6. ExitedIsDone' /\ StopProgress' /\ BlocksOnNothing'
    BY <1>1 DEF Inv, TypeOK, ExitedIsDone, StopProgress, BlocksOnNothing
  <1>7. WorkIsNoticed'
    <2>1. /\ Awake' = Awake \ {w} /\ w \in Awake /\ Notifying' = Notifying
          /\ \A v \in Workers : worker'[v] = "waiting" <=> worker[v] = "waiting"
      BY <1>1 DEF Awake, Notifying, Inv, TypeOK
    <2>2. Cardinality(Awake') = Cardinality(Awake) - 1
      BY <2>1, FiniteGroups, FS_RemoveElement
    <2>3. QED
      BY <1>1, <1>2, <2>1, <2>2, FiniteGroups DEF Inv, WorkIsNoticed
  <1>8. QED
    BY <1>3, <1>4, <1>5, <1>6, <1>7 DEF Inv

\* The task changes from running to finished.
LEMMA FinishInv ==
    ASSUME Inv, NEW w \in Workers, Finish(w)
    PROVE  Inv'
  <1> DEFINE t == current[w]
  <1>1. /\ worker[w] = "running"
        /\ finished' = finished \cup {t}
        /\ current' = [current EXCEPT ![w] = None]
        /\ worker' = [worker EXCEPT ![w] = "checking"]
        /\ UNCHANGED <<tasks, stop, paused, mutex, caller, submitted, cleared, everPaused>>
    BY DEF Finish
  <1>2. t \in Tasks /\ t \in Running /\ t \in submitted
    BY <1>1 DEF Inv, RunningHasTask, Running, OneFate
  <1> HIDE DEF t
  <1>3. TypeOK'
    BY <1>1, <1>2 DEF Inv, TypeOK, WorkerStates
  <1>4. RunningHasTask'
    BY <1>1 DEF Inv, TypeOK, RunningHasTask
  <1>5. OneFate'
    <2>1. Running' = Running \ {t}
      <3>1. \A v \in Workers : v # w => worker'[v] = worker[v] /\ current'[v] = current[v]
        BY <1>1 DEF Inv, TypeOK
      <3>2. worker'[w] # "running" /\ current[w] = t
        BY <1>1 DEF Inv, TypeOK, t
      <3>3. \A v \in Workers : worker[v] = "running" /\ current[v] = t => v = w
        BY <1>1, <3>2 DEF Inv, OneFate
      <3>4. QED
        BY <3>1, <3>2, <3>3 DEF Running
    <2>2. Queued' = Queued
      BY <1>1 DEF Queued
    <2>3. \A u, v \in Workers :
             worker'[u] = "running" /\ worker'[v] = "running" /\ current'[u] = current'[v]
                 => u = v
      BY <1>1 DEF Inv, TypeOK, OneFate
    <2>4. /\ submitted' = Queued' \cup Running' \cup finished' \cup cleared'
          /\ Queued' \cap Running' = {}
          /\ Queued' \cap (finished' \cup cleared') = {}
          /\ Running' \cap (finished' \cup cleared') = {}
          /\ finished' \cap cleared' = {}
      BY <1>1, <1>2, <2>1, <2>2 DEF Inv, OneFate
    <2>5. QED
      BY <1>1, <2>3, <2>4 DEF Inv, OneFate
  <1>6. ExitedIsDone' /\ StopProgress' /\ BlocksOnNothing'
    BY <1>1 DEF Inv, TypeOK, ExitedIsDone, StopProgress, BlocksOnNothing
  <1>7. WorkIsNoticed'
    <2>1. /\ Awake \subseteq Awake' /\ Notifying' = Notifying
          /\ \A v \in Workers : worker'[v] = "waiting" => worker[v] = "waiting"
          /\ Len(tasks') = Len(tasks) /\ Len(tasks) \in Nat
      BY <1>1 DEF Awake, Notifying, Inv, TypeOK
    <2>2. QED
      BY <2>1, <1>1, NoticedStays
  <1>8. QED
    BY <1>3, <1>4, <1>5, <1>6, <1>7 DEF Inv

-----------------------------------------------------------------------------
(* Steps of a caller                                                        *)

\* A step that leaves the tasks and the workers' business alone keeps every fate.
LEMMA CallerMoveFate ==
    ASSUME Inv, UNCHANGED <<tasks, current, submitted, finished, cleared>>,
           \A w \in Workers : worker'[w] = "running" <=> worker[w] = "running"
    PROVE  OneFate' /\ RunningHasTask'
  <1>1. Running' = Running /\ Queued' = Queued
    BY DEF Running, Queued
  <1>2. QED
    BY <1>1 DEF Inv, OneFate, RunningHasTask

\* A caller moves and no worker does; nobody starts or ends a notification.
LEMMA CallerMoveNoticed ==
    ASSUME Inv, UNCHANGED <<tasks, worker, everPaused>>,
           \A c \in Callers : caller'[c] = "notifying" <=> caller[c] = "notifying"
    PROVE  WorkIsNoticed'
  <1>1. Awake' = Awake /\ Notifying' = Notifying
    BY DEF Awake, Notifying
  <1>2. QED
    BY <1>1 DEF Inv, WorkIsNoticed

\* notify_all leaves nobody asleep and touches no other worker.
LEMMA NotifyAllWorkers ==
    ASSUME Inv, NotifyAll
    PROVE  /\ worker' \in [Workers -> WorkerStates]
           /\ \A w \in Workers :
                 /\ worker'[w] # "waiting"
                 /\ worker'[w] \in {"blocking", "woken", "running", "exited"} =>
                       worker'[w] = worker[w]
                 /\ worker[w] \in {"blocking", "woken", "running", "exited"} =>
                       worker'[w] = worker[w]
  BY DEF Inv, TypeOK, NotifyAll, WorkerStates

LEMMA EnqueueInv ==
    ASSUME Inv, NEW c \in Callers, NEW t \in Tasks, Enqueue(c, t)
    PROVE  Inv'
  <1>1. /\ caller[c] = "idle" /\ mutex = None /\ t \notin submitted /\ ~stop
        /\ tasks' = Append(tasks, t)
        /\ submitted' = submitted \cup {t}
        /\ caller' = [caller EXCEPT ![c] = "notifying"]
        /\ UNCHANGED <<stop, paused, mutex, worker, current, finished, cleared, everPaused>>
    BY DEF Enqueue, Accepts
  <1>2. t \notin Queued /\ t \notin Running /\ t \notin finished /\ t \notin cleared
    BY <1>1 DEF Inv, OneFate
  <1>3. /\ tasks' \in Seq(Tasks)
        /\ Members(tasks') = Members(tasks) \cup {t}
        /\ Distinct(tasks')
        /\ Len(tasks') = Len(tasks) + 1 /\ Len(tasks) \in Nat
    BY <1>1, <1>2, AppendMembers, QueuedMembers DEF Inv, TypeOK, OneFate, Distinct
  <1>4. TypeOK'
    BY <1>1, <1>3 DEF Inv, TypeOK, CallerStates
  <1>5. RunningHasTask'
    BY <1>1 DEF Inv, RunningHasTask
  <1>6. OneFate'
    <2>1. Running' = Running
      BY <1>1 DEF Running
    <2>2. Queued' = Queued \cup {t}
      BY <1>3, QueuedMembers DEF Queued, Members
    <2>3. /\ submitted' = Queued' \cup Running' \cup finished' \cup cleared'
          /\ Queued' \cap Running' = {}
          /\ Queued' \cap (finished' \cup cleared') = {}
          /\ Running' \cap (finished' \cup cleared') = {}
          /\ finished' \cap cleared' = {}
      BY <1>1, <1>2, <2>1, <2>2 DEF Inv, OneFate
    <2>4. QED
      BY <1>1, <1>3, <2>3 DEF Inv, OneFate, Distinct
  <1>7. ExitedIsDone' /\ StopProgress'
    BY <1>1 DEF Inv, TypeOK, ExitedIsDone, StopProgress
  <1>8. BlocksOnNothing'
    BY <1>1 DEF Inv, TypeOK, BlocksOnNothing
  <1>9. WorkIsNoticed'
    <2>1. /\ Awake' = Awake /\ Notifying' = Notifying \cup {c} /\ c \notin Notifying
      BY <1>1 DEF Awake, Notifying, Inv, TypeOK
    <2>2. Cardinality(Notifying') = Cardinality(Notifying) + 1
      BY <2>1, FiniteGroups, FS_AddElement
    <2>3. QED
      BY <1>1, <1>3, <2>1, <2>2, FiniteGroups DEF Inv, WorkIsNoticed
  <1>10. QED
    BY <1>4, <1>5, <1>6, <1>7, <1>8, <1>9 DEF Inv

\* The notification under way turns into a worker that is up, or nobody sleeps.
LEMMA NotifyOneInv ==
    ASSUME Inv, NEW c \in Callers, NotifyOne(c)
    PROVE  Inv'
  <1>1. /\ caller[c] = "notifying"
        /\ caller' = [caller EXCEPT ![c] = "idle"]
        /\ UNCHANGED <<tasks, stop, paused, mutex, current, submitted, finished, cleared, everPaused>>
    BY DEF NotifyOne
  <1>2. Notifying' = Notifying \ {c} /\ c \in Notifying
    BY <1>1 DEF Notifying, Inv, TypeOK
  <1>3. Cardinality(Notifying') = Cardinality(Notifying) - 1
    BY <1>2, FiniteGroups, FS_RemoveElement
  <1>4. Len(tasks) \in Nat
    BY DEF Inv, TypeOK
  <1>5. ASSUME NEW w \in Workers, worker[w] = "waiting",
               worker' = [worker EXCEPT ![w] = "checking"]
        PROVE  Inv'
    <2>1. TypeOK'
      BY <1>1, <1>5 DEF Inv, TypeOK, WorkerStates, CallerStates
    <2>2. OneFate' /\ RunningHasTask'
      BY <1>1, <1>5, CallerMoveFate DEF Inv, TypeOK
    <2>3. ExitedIsDone' /\ StopProgress' /\ BlocksOnNothing'
      BY <1>1, <1>5 DEF Inv, TypeOK, ExitedIsDone, StopProgress, BlocksOnNothing
    <2>4. WorkIsNoticed'
      <3>1. Awake' = Awake \cup {w} /\ w \notin Awake
        BY <1>5 DEF Awake, Inv, TypeOK
      <3>2. Cardinality(Awake') = Cardinality(Awake) + 1
        BY <3>1, FiniteGroups, FS_AddElement
      <3>3. QED
        BY <1>1, <1>3, <1>4, <1>5, <3>2, FiniteGroups DEF Inv, WorkIsNoticed
    <2>5. QED
      BY <2>1, <2>2, <2>3, <2>4 DEF Inv
  <1>6. ASSUME \A w \in Workers : worker[w] # "waiting", UNCHANGED worker
        PROVE  Inv'
    <2>1. TypeOK'
      BY <1>1, <1>6 DEF Inv, TypeOK, WorkerStates, CallerStates
    <2>2. OneFate' /\ RunningHasTask'
      BY <1>1, <1>6, CallerMoveFate
    <2>3. ExitedIsDone' /\ StopProgress' /\ BlocksOnNothing'
      BY <1>1, <1>6 DEF Inv, TypeOK, ExitedIsDone, StopProgress, BlocksOnNothing
    <2>4. WorkIsNoticed'
      BY <1>6 DEF WorkIsNoticed
    <2>5. QED
      BY <2>1, <2>2, <2>3, <2>4 DEF Inv
  <1>7. QED
    BY <1>5, <1>6 DEF NotifyOne

LEMMA BeginStopInv ==
    ASSUME Inv, NEW c \in Callers, BeginStop(c)
    PROVE  Inv'
  <1>1. /\ c = Owner /\ caller[c] = "idle" /\ stop' = TRUE
        /\ caller' = [caller EXCEPT ![c] = "stopping"]
        /\ UNCHANGED <<tasks, paused, mutex, worker, current, submitted, finished, cleared, everPaused>>
    BY DEF BeginStop
  <1>2. TypeOK'
    BY <1>1 DEF Inv, TypeOK, CallerStates
  <1>3. OneFate' /\ RunningHasTask'
    BY <1>1, CallerMoveFate
  <1>4. ExitedIsDone' /\ StopProgress' /\ BlocksOnNothing'
    BY <1>1 DEF Inv, TypeOK, ExitedIsDone, StopProgress, BlocksOnNothing
  <1>5. WorkIsNoticed'
    BY <1>1, CallerMoveNoticed DEF Inv, TypeOK
  <1>6. QED
    BY <1>2, <1>3, <1>4, <1>5 DEF Inv

\* NotifyStop and NotifyResume: a caller goes on after notify_all.
LEMMA NotifyAllInv ==
    ASSUME Inv, NEW c \in Callers, NEW to \in CallerStates, NotifyAll,
           caller' = [caller EXCEPT ![c] = to],
           \/ caller[c] = "stopping" /\ to = "joining"
           \/ caller[c] = "resuming" /\ to = "idle",
           UNCHANGED <<tasks, stop, paused, mutex, current, submitted, finished, cleared, everPaused>>
    PROVE  Inv'
  <1>1. TypeOK'
    BY NotifyAllWorkers DEF Inv, TypeOK
  <1>2. OneFate' /\ RunningHasTask'
    BY NotifyAllWorkers, CallerMoveFate
  <1>3. ExitedIsDone'
    BY NotifyAllWorkers DEF Inv, ExitedIsDone
  <1>4. StopProgress'
    BY NotifyAllWorkers DEF Inv, TypeOK, StopProgress
  <1>5. BlocksOnNothing'
    BY NotifyAllWorkers DEF Inv, BlocksOnNothing
  <1>6. WorkIsNoticed'
    BY NotifyAllWorkers DEF WorkIsNoticed
  <1>7. QED
    BY <1>1, <1>2, <1>3, <1>4, <1>5, <1>6 DEF Inv

LEMMA JoinInv ==
    ASSUME Inv, NEW c \in Callers, Join(c)
    PROVE  Inv'
  <1>1. /\ caller[c] = "joining" /\ \A w \in Workers : worker[w] = "exited"
        /\ caller' = [caller EXCEPT ![c] = "stopped"]
        /\ UNCHANGED <<tasks, stop, paused, mutex, worker, current, submitted, finished, cleared, everPaused>>
    BY DEF Join
  <1>2. TypeOK'
    BY <1>1 DEF Inv, TypeOK, CallerStates
  <1>3. OneFate' /\ RunningHasTask'
    BY <1>1, CallerMoveFate
  <1>4. ExitedIsDone' /\ StopProgress' /\ BlocksOnNothing'
    BY <1>1 DEF Inv, TypeOK, ExitedIsDone, StopProgress, BlocksOnNothing
  <1>5. WorkIsNoticed'
    BY <1>1, CallerMoveNoticed DEF Inv, TypeOK
  <1>6. QED
    BY <1>2, <1>3, <1>4, <1>5 DEF Inv

LEMMA PauseInv ==
    ASSUME Inv, NEW c \in Callers, Pause(c)
    PROVE  Inv'
  <1>1. /\ paused' = TRUE /\ everPaused' = TRUE
        /\ UNCHANGED <<tasks, stop, mutex, worker, current, caller, submitted, finished, cleared>>
    BY DEF Pause
  <1>2. TypeOK' /\ ExitedIsDone' /\ StopProgress' /\ BlocksOnNothing' /\ WorkIsNoticed'
    BY <1>1 DEF Inv, TypeOK, ExitedIsDone, StopProgress, BlocksOnNothing, WorkIsNoticed
  <1>3. OneFate' /\ RunningHasTask'
    BY <1>1, CallerMoveFate
  <1>4. QED
    BY <1>2, <1>3 DEF Inv

LEMMA BeginResumeInv ==
    ASSUME Inv, NEW c \in Callers, BeginResume(c)
    PROVE  Inv'
  <1>1. /\ caller[c] = "idle" /\ paused' = FALSE
        /\ caller' = [caller EXCEPT ![c] = "resuming"]
        /\ UNCHANGED <<tasks, stop, mutex, worker, current, submitted, finished, cleared, everPaused>>
    BY DEF BeginResume
  <1>2. TypeOK'
    BY <1>1 DEF Inv, TypeOK, CallerStates
  <1>3. OneFate' /\ RunningHasTask'
    BY <1>1, CallerMoveFate
  <1>4. ExitedIsDone' /\ StopProgress' /\ BlocksOnNothing'
    BY <1>1 DEF Inv, TypeOK, ExitedIsDone, StopProgress, BlocksOnNothing
  <1>5. WorkIsNoticed'
    BY <1>1, CallerMoveNoticed DEF Inv, TypeOK
  <1>6. QED
    BY <1>2, <1>3, <1>4, <1>5 DEF Inv

\* Every queued task changes to cleared.
LEMMA ClearQueueInv ==
    ASSUME Inv, NEW c \in Callers, ClearQueue(c)
    PROVE  Inv'
  <1>1. /\ mutex = None /\ tasks' = <<>> /\ cleared' = cleared \cup Queued
        /\ UNCHANGED <<stop, paused, mutex, worker, current, caller, submitted, finished, everPaused>>
    BY DEF ClearQueue
  <1>2. TypeOK'
    <2>1. tasks' \in Seq(Tasks)
      BY <1>1
    <2>2. Queued \subseteq submitted
      BY DEF Inv, OneFate
    <2>3. QED
      BY <1>1, <2>1, <2>2 DEF Inv, TypeOK
  <1>3. RunningHasTask'
    BY <1>1 DEF Inv, RunningHasTask
  <1>4. OneFate'
    <2>1. Running' = Running /\ Queued' = {} /\ DOMAIN tasks' = {}
      BY <1>1 DEF Running, Queued
    <2>2. /\ submitted' = Queued' \cup Running' \cup finished' \cup cleared'
          /\ Queued' \cap Running' = {}
          /\ Queued' \cap (finished' \cup cleared') = {}
          /\ Running' \cap (finished' \cup cleared') = {}
          /\ finished' \cap cleared' = {}
      BY <1>1, <2>1 DEF Inv, OneFate
    <2>3. QED
      BY <1>1, <2>1, <2>2 DEF Inv, OneFate
  <1>5. ExitedIsDone' /\ StopProgress' /\ BlocksOnNothing'
    BY <1>1 DEF Inv, TypeOK, ExitedIsDone, StopProgress, BlocksOnNothing
  <1>6. WorkIsNoticed'
    BY <1>1, EmptyQueueNoticed
  <1>7. QED
    BY <1>2, <1>3, <1>4, <1>5, <1>6 DEF Inv

LEMMA StutterInv ==
    ASSUME Inv, UNCHANGED vars
    PROVE  Inv'
  <1>1. UNCHANGED <<tasks, stop, paused, mutex, worker, current, caller,
                    submitted, finished, cleared, everPaused>>
    BY DEF vars
  <1>2. TypeOK' /\ ExitedIsDone' /\ StopProgress' /\ BlocksOnNothing'
    BY <1>1 DEF Inv, TypeOK, ExitedIsDone, StopProgress, BlocksOnNothing
  <1>3. OneFate' /\ RunningHasTask'
    BY <1>1, CallerMoveFate
  <1>4. WorkIsNoticed'
    BY <1>1, CallerMoveNoticed
  <1>5. QED
    BY <1>2, <1>3, <1>4 DEF Inv

-----------------------------------------------------------------------------
(* The theorems                                                             *)

LEMMA NextInv == Inv /\ [Next]_vars => Inv'
  <1> SUFFICES ASSUME Inv, [Next]_vars
               PROVE  Inv'
    OBVIOUS
  <1>1. ASSUME NEW w \in Workers, WorkerStep(w) \/ SpuriousWake(w)
        PROVE  Inv'
    BY <1>1, CheckInv, BlockInv, ExitInv, TakeInv, SpinInv, FinishInv, SpuriousWakeInv
       DEF WorkerStep
  <1>2. ASSUME NEW c \in Callers, NotifyStop(c) \/ NotifyResume(c)
        PROVE  Inv'
    BY <1>2, NotifyAllInv DEF NotifyStop, NotifyResume, CallerStates
  <1>3. ASSUME NEW c \in Callers, CallStep(c)
        PROVE  Inv'
    BY <1>2, <1>3, NotifyOneInv, JoinInv DEF CallStep
  <1>4. ASSUME NEW c \in Callers, NEW t \in Tasks, Enqueue(c, t)
        PROVE  Inv'
    BY <1>4, EnqueueInv
  <1>5. ASSUME NEW c \in Callers,
               BeginStop(c) \/ Pause(c) \/ BeginResume(c) \/ ClearQueue(c)
        PROVE  Inv'
    BY <1>5, BeginStopInv, PauseInv, BeginResumeInv, ClearQueueInv
  <1>6. CASE UNCHANGED vars
    BY <1>6, StutterInv
  <1>7. QED
    BY <1>1, <1>3, <1>4, <1>5, <1>6 DEF Next

\* Inv holds in every reachable state.
THEOREM Invariance == Spec => []Inv
  BY InitInv, NextInv, PTL DEF Spec

\* The pool's state keeps its types, and the mutex is held by the worker between its
\* test and its next step.
THEOREM TypeCorrect == Spec => []TypeOK
  <1>1. Inv => TypeOK
    BY DEF Inv
  <1>2. QED
    BY <1>1, Invariance, PTL

\* Every accepted task has exactly one fate: queued, running, executed or cleared.
THEOREM NoTaskLostOrRepeated == Spec => []OneFate
  <1>1. Inv => OneFate
    BY DEF Inv
  <1>2. QED
    BY <1>1, Invariance, PTL

\* stop() returns with every accepted task executed or cleared.
THEOREM StopIsComplete == Spec => []StopDrained
  <1>1. Inv => StopDrained
    <2> SUFFICES ASSUME Inv, caller[Owner] = "stopped"
                 PROVE  submitted = finished \cup cleared /\ stop
      BY DEF StopDrained
    <2>1. stop /\ \A w \in Workers : worker[w] = "exited"
      BY DEF Inv, StopProgress
    <2>2. tasks = <<>>
      BY <2>1 DEF Inv, ExitedIsDone
    <2>3. Queued = {} /\ Running = {}
      BY <2>1, <2>2 DEF Queued, Running
    <2>4. QED
      BY <2>1, <2>3 DEF Inv, OneFate
  <1>2. QED
    BY <1>1, Invariance, PTL

\* enqueue loses no wake-up while the pool is never paused.
THEOREM EnqueueWakes == Spec => []WorkIsNoticed
  <1>1. Inv => WorkIsNoticed
    BY DEF Inv
  <1>2. QED
    BY <1>1, Invariance, PTL

-----------------------------------------------------------------------------
(* The pool implements TaskQueue                                            *)

\* What the abstract queue sees of a state besides the pool's own variables.
Returned == caller[Owner] = "stopped"

LEMMA RunningNext ==
    ASSUME \A v \in Workers : worker'[v] = "running" <=> worker[v] = "running",
           UNCHANGED current
    PROVE  Running' = Running
  BY DEF Running

\* A step that takes no task and writes no flag is none of the queue's business.
LEMMA QueueStutters ==
    ASSUME UNCHANGED <<tasks, stop, paused, finished, cleared>>,
           Running' = Running, Returned' = Returned
    PROVE  UNCHANGED Service!queueVars
  BY DEF Service!queueVars, Returned

\* notify_all starts no task and ends none.
LEMMA NotifyAllRunning ==
    ASSUME Inv, NotifyAll, UNCHANGED current
    PROVE  Running' = Running
  BY NotifyAllWorkers, RunningNext DEF Inv, TypeOK, WorkerStates

\* Only Join changes what the caller of stop() knows.
LEMMA ReturnedStays ==
    ASSUME Inv, NEW c \in Callers, NEW to \in CallerStates, to # "stopped",
           caller[c] # "stopped", caller' = [caller EXCEPT ![c] = to]
    PROVE  Returned' = Returned
  BY DEF Inv, TypeOK, Returned

LEMMA WorkerQueueStep ==
    ASSUME Inv, NEW w \in Workers, WorkerStep(w) \/ SpuriousWake(w)
    PROVE  [Service!QueueNext]_(Service!queueVars)
  <1>1. CASE Check(w) \/ Block(w) \/ Exit(w) \/ Spin(w) \/ SpuriousWake(w)
    <2>1. /\ UNCHANGED <<tasks, stop, paused, current, caller, finished, cleared>>
          /\ worker[w] # "running"
          /\ \E to \in WorkerStates : to # "running" /\ worker' = [worker EXCEPT ![w] = to]
      BY <1>1 DEF Check, Block, Exit, Spin, SpuriousWake, WorkerStates
    <2>2. \A v \in Workers : worker'[v] = "running" <=> worker[v] = "running"
      BY <2>1 DEF Inv, TypeOK
    <2>3. QED
      BY <2>1, <2>2, RunningNext, QueueStutters DEF Returned
  <1>2. CASE Take(w)
    <2>1. /\ worker[w] = "woken" /\ ~paused /\ tasks # <<>>
          /\ current' = [current EXCEPT ![w] = Head(tasks)]
          /\ tasks' = Tail(tasks)
          /\ worker' = [worker EXCEPT ![w] = "running"]
          /\ UNCHANGED <<stop, paused, caller, finished, cleared>>
      BY <1>2 DEF Take
    <2>2. Running' = Running \cup {Head(tasks)}
      <3>1. \A v \in Workers : v # w => worker'[v] = worker[v] /\ current'[v] = current[v]
        BY <2>1 DEF Inv, TypeOK
      <3>2. worker'[w] = "running" /\ current'[w] = Head(tasks) /\ worker[w] # "running"
        BY <2>1 DEF Inv, TypeOK
      <3>3. QED
        BY <3>1, <3>2 DEF Running
    <2>3. Service!Begin
      BY <2>1, <2>2 DEF Service!Begin
    <2>4. QED
      BY <2>3 DEF Service!QueueNext
  <1>3. CASE Finish(w)
    <2>1. /\ worker[w] = "running"
          /\ finished' = finished \cup {current[w]}
          /\ current' = [current EXCEPT ![w] = None]
          /\ worker' = [worker EXCEPT ![w] = "checking"]
          /\ UNCHANGED <<tasks, stop, paused, caller, cleared>>
      BY <1>3 DEF Finish
    <2>2. current[w] \in Tasks /\ current[w] \in Running
      BY <2>1 DEF Inv, RunningHasTask, Running
    <2>3. Running' = Running \ {current[w]}
      <3>1. \A v \in Workers : v # w => worker'[v] = worker[v] /\ current'[v] = current[v]
        BY <2>1 DEF Inv, TypeOK
      <3>2. worker'[w] # "running"
        BY <2>1 DEF Inv, TypeOK
      <3>3. \A v \in Workers : worker[v] = "running" /\ current[v] = current[w] => v = w
        BY <2>1 DEF Inv, OneFate
      <3>4. QED
        BY <3>1, <3>2, <3>3 DEF Running
    <2>4. Service!End(current[w])
      BY <2>1, <2>2, <2>3 DEF Service!End
    <2>5. QED
      BY <2>2, <2>4 DEF Service!QueueNext
  <1>4. QED
    BY <1>1, <1>2, <1>3 DEF WorkerStep

\* stop() returns to a caller who finds no task waiting or under way.
LEMMA JoinQueueStep ==
    ASSUME Inv, NEW c \in Callers, Join(c)
    PROVE  Service!Return
  <1>1. /\ caller[c] = "joining" /\ \A w \in Workers : worker[w] = "exited"
        /\ caller' = [caller EXCEPT ![c] = "stopped"]
        /\ UNCHANGED <<tasks, stop, paused, worker, current, finished, cleared>>
    BY DEF Join
  <1>2. c = Owner /\ caller'[Owner] = "stopped"
    BY <1>1 DEF Inv, TypeOK, StopProgress
  <1>3. stop /\ tasks = <<>> /\ Running = {}
    BY <1>1 DEF Inv, ExitedIsDone, Running
  <1>4. Running' = Running
    BY <1>1 DEF Running
  <1>5. QED
    BY <1>1, <1>2, <1>3, <1>4 DEF Service!Return

LEMMA EnqueueQueueStep ==
    ASSUME Inv, NEW c \in Callers, NEW t \in Tasks, Enqueue(c, t)
    PROVE  Service!Accept(t)
  <1>1. /\ caller[c] = "idle" /\ t \notin submitted /\ ~stop
        /\ tasks' = Append(tasks, t)
        /\ caller' = [caller EXCEPT ![c] = "notifying"]
        /\ UNCHANGED <<stop, paused, worker, current, finished, cleared>>
    BY DEF Enqueue, Accepts
  <1>2. t \notin Queued \cup Running \cup finished \cup cleared
    BY <1>1 DEF Inv, OneFate
  <1>3. Running' = Running /\ Returned' = Returned
    BY <1>1, RunningNext, ReturnedStays DEF CallerStates
  <1>4. QED
    BY <1>1, <1>2, <1>3 DEF Service!Accept, Service!Waiting, Queued, Returned

LEMMA CallerQueueStep ==
    ASSUME Inv, NEW c \in Callers,
           \/ NotifyOne(c) \/ NotifyStop(c) \/ NotifyResume(c)
           \/ BeginStop(c) \/ Pause(c) \/ BeginResume(c) \/ ClearQueue(c)
    PROVE  [Service!QueueNext]_(Service!queueVars)
  <1>1. CASE NotifyOne(c)
    <2>1. /\ caller[c] = "notifying" /\ caller' = [caller EXCEPT ![c] = "idle"]
          /\ UNCHANGED <<tasks, stop, paused, current, finished, cleared>>
          /\ \A v \in Workers : worker'[v] = "running" <=> worker[v] = "running"
      BY <1>1 DEF NotifyOne, Inv, TypeOK
    <2>2. QED
      BY <2>1, RunningNext, ReturnedStays, QueueStutters DEF CallerStates
  <1>2. CASE NotifyStop(c) \/ NotifyResume(c)
    <2>1. /\ caller[c] # "stopped" /\ NotifyAll
          /\ \E to \in {"joining", "idle"} : caller' = [caller EXCEPT ![c] = to]
          /\ UNCHANGED <<tasks, stop, paused, current, finished, cleared>>
      BY <1>2 DEF NotifyStop, NotifyResume
    <2>2. Returned' = Returned
      BY <2>1, ReturnedStays DEF CallerStates
    <2>3. QED
      BY <2>1, <2>2, NotifyAllRunning, QueueStutters
  <1>3. CASE BeginStop(c)
    <2>1. /\ caller[c] = "idle" /\ stop' = TRUE
          /\ caller' = [caller EXCEPT ![c] = "stopping"]
          /\ UNCHANGED <<tasks, paused, worker, current, finished, cleared>>
      BY <1>3 DEF BeginStop
    <2>2. Running' = Running /\ Returned' = Returned
      BY <2>1, RunningNext, ReturnedStays DEF CallerStates
    <2>3. Service!Close
      BY <2>1, <2>2 DEF Service!Close, Returned
    <2>4. QED
      BY <2>3 DEF Service!QueueNext
  <1>4. CASE Pause(c) \/ BeginResume(c)
    <2>1. /\ paused' \in BOOLEAN
          /\ UNCHANGED <<tasks, stop, worker, current, finished, cleared>>
      BY <1>4 DEF Pause, BeginResume
    <2>2. Returned' = Returned
      <3>1. CASE Pause(c)
        BY <3>1 DEF Pause, Returned
      <3>2. CASE BeginResume(c)
        BY <3>2, ReturnedStays DEF BeginResume, CallerStates
      <3>3. QED
        BY <1>4, <3>1, <3>2
    <2>3. Service!Hold
      BY <2>1, <2>2, RunningNext DEF Service!Hold, Returned
    <2>4. QED
      BY <2>3 DEF Service!QueueNext
  <1>5. CASE ClearQueue(c)
    <2>1. /\ tasks' = <<>> /\ cleared' = cleared \cup Queued
          /\ UNCHANGED <<stop, paused, worker, current, caller, finished>>
      BY <1>5 DEF ClearQueue
    <2>2. Service!Throw
      BY <2>1, RunningNext DEF Service!Throw, Service!Waiting, Queued
    <2>3. QED
      BY <2>2 DEF Service!QueueNext
  <1>6. QED
    BY <1>1, <1>2, <1>3, <1>4, <1>5

LEMMA QueueStep == Inv /\ [Next]_vars => [Service!QueueNext]_(Service!queueVars)
  <1> SUFFICES ASSUME Inv, [Next]_vars
               PROVE  [Service!QueueNext]_(Service!queueVars)
    OBVIOUS
  <1>1. ASSUME NEW w \in Workers, WorkerStep(w) \/ SpuriousWake(w)
        PROVE  [Service!QueueNext]_(Service!queueVars)
    BY <1>1, WorkerQueueStep
  <1>2. ASSUME NEW c \in Callers, CallStep(c)
        PROVE  [Service!QueueNext]_(Service!queueVars)
    BY <1>2, CallerQueueStep, JoinQueueStep DEF CallStep, Service!QueueNext
  <1>3. ASSUME NEW c \in Callers, NEW t \in Tasks, Enqueue(c, t)
        PROVE  [Service!QueueNext]_(Service!queueVars)
    BY <1>3, EnqueueQueueStep DEF Service!QueueNext
  <1>4. ASSUME NEW c \in Callers,
               BeginStop(c) \/ Pause(c) \/ BeginResume(c) \/ ClearQueue(c)
        PROVE  [Service!QueueNext]_(Service!queueVars)
    BY <1>4, CallerQueueStep
  <1>5. CASE UNCHANGED vars
    <2>1. UNCHANGED <<tasks, stop, paused, worker, current, caller, finished, cleared>>
      BY <1>5 DEF vars
    <2>2. QED
      BY <2>1, RunningNext, QueueStutters DEF Returned
  <1>6. QED
    BY <1>1, <1>2, <1>3, <1>4, <1>5 DEF Next

\* The pool implements TaskQueue: tasks begin in the order of their acceptance, never
\* while the pool is paused, and stop() returns only to an empty pool.
THEOREM Refinement == Spec => ServesInOrder
  <1>1. Init => Service!QueueInit
    BY DEF Init, Service!QueueInit, Running
  <1>2. Inv /\ [Next]_vars => [Service!QueueNext]_(Service!queueVars)
    BY QueueStep
  <1>3. QED
    BY <1>1, <1>2, Invariance, PTL DEF Spec, ServesInOrder, Service!QueueSpec
=============================================================================
