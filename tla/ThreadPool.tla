----------------------------- MODULE ThreadPool -----------------------------
(***************************************************************************)
(* TaskThreadPool (Threadpool.h, Threadpool.cpp): worker threads take      *)
(* tasks from a queue guarded by queueMutex_ and sleep on condition_.      *)
(* stop_ and paused_ are atomics that stop(), pause() and resume() write   *)
(* without the mutex, so they may change between a worker's test of the    *)
(* wait predicate and its sleep, and between the test and the second look  *)
(* at paused_.  Those moments are separate steps here.                     *)
(*                                                                         *)
(* A task is a model value submitted at most once; it always returns.      *)
(* stop() is called by the owner of the pool (its destructor calls it).    *)
(***************************************************************************)
EXTENDS Naturals, Sequences, FiniteSets

CONSTANTS
    Workers,      \* workers_
    Callers,      \* threads that use the pool
    Owner,        \* the one of them that stops it
    Tasks,        \* tasks callers may enqueue
    Interrupts,   \* calls made besides enqueue and stop: "pause", "clear"
    None          \* no worker, no task

ASSUME WorkersAssumption == IsFiniteSet(Workers) /\ Workers # {}
ASSUME CallersAssumption == IsFiniteSet(Callers) /\ Owner \in Callers
ASSUME NoneAssumption == None \notin Workers \cup Tasks
ASSUME InterruptsAssumption == Interrupts \subseteq {"pause", "clear"}

VARIABLES
    tasks,       \* tasks_
    stop,        \* stop_
    paused,      \* paused_
    mutex,       \* the worker that holds queueMutex_ between two steps, or none
    worker,      \* where each worker stands in worker_loop
    current,     \* the task each worker executes
    caller,      \* where each caller stands
    submitted,   \* history: tasks accepted by enqueue
    finished,    \* history: tasks executed
    cleared,     \* history: tasks thrown away by clearQueue
    everPaused   \* history: pause() was called

vars == <<tasks, stop, paused, mutex, worker, current, caller,
          submitted, finished, cleared, everPaused>>

Queued == {tasks[i] : i \in DOMAIN tasks}

Init ==
    /\ tasks = <<>>
    /\ stop = FALSE
    /\ paused = FALSE
    /\ mutex = None
    /\ worker = [w \in Workers |-> "checking"]
    /\ current = [w \in Workers |-> None]
    /\ caller = [c \in Callers |-> "idle"]
    /\ submitted = {}
    /\ finished = {}
    /\ cleared = {}
    /\ everPaused = FALSE

-----------------------------------------------------------------------------
(* The worker loop.                                                         *)
(*   checking   about to lock queueMutex_ and test the predicate            *)
(*   blocking   the predicate was false; still holds the mutex              *)
(*   waiting    asleep on condition_, the mutex released                    *)
(*   woken      the predicate was true; holds the mutex                     *)
(*   running    executes its task without the mutex                         *)
(*   exited     has left worker_loop                                        *)

\* The predicate of condition_.wait.
WakePredicate == stop \/ (~paused /\ tasks # <<>>)

Check(w) ==
    /\ worker[w] = "checking"
    /\ mutex = None
    /\ mutex' = w
    /\ worker' = [worker EXCEPT ![w] = IF WakePredicate THEN "woken" ELSE "blocking"]
    /\ UNCHANGED <<tasks, stop, paused, current, caller, submitted, finished, cleared, everPaused>>

\* Mutant: the worker sleeps with the mutex locked.
BlockLocked(w) ==
    /\ worker[w] = "blocking"
    /\ worker' = [worker EXCEPT ![w] = "waiting"]
    /\ UNCHANGED <<tasks, stop, paused, mutex, current, caller, submitted, finished, cleared, everPaused>>

\* The wait gives up the mutex and sleeps, in one step.
Block(w) ==
    /\ worker[w] = "blocking"
    /\ mutex' = None
    /\ worker' = [worker EXCEPT ![w] = "waiting"]
    /\ UNCHANGED <<tasks, stop, paused, current, caller, submitted, finished, cleared, everPaused>>

\* Mutant: a stopped worker leaves tasks in the queue.
MayExitAtOnce == stop

\* Stopped and nothing left to do.
MayExit == stop /\ tasks = <<>>

Exit(w) ==
    /\ worker[w] = "woken"
    /\ MayExit
    /\ mutex' = None
    /\ worker' = [worker EXCEPT ![w] = "exited"]
    /\ UNCHANGED <<tasks, stop, paused, current, caller, submitted, finished, cleared, everPaused>>

\* Mutant: no second look at paused_; the predicate had seen it.
TakeThoughPaused(w) ==
    /\ worker[w] = "woken"
    /\ tasks # <<>>
    /\ current' = [current EXCEPT ![w] = Head(tasks)]
    /\ tasks' = Tail(tasks)
    /\ mutex' = None
    /\ worker' = [worker EXCEPT ![w] = "running"]
    /\ UNCHANGED <<stop, paused, caller, submitted, finished, cleared, everPaused>>

\* Mutant: the task is copied from the front of the queue and not removed.
TakeWithoutPop(w) ==
    /\ worker[w] = "woken"
    /\ ~paused /\ tasks # <<>>
    /\ current' = [current EXCEPT ![w] = Head(tasks)]
    /\ mutex' = None
    /\ worker' = [worker EXCEPT ![w] = "running"]
    /\ UNCHANGED <<tasks, stop, paused, caller, submitted, finished, cleared, everPaused>>

Take(w) ==
    /\ worker[w] = "woken"
    /\ ~paused /\ tasks # <<>>
    /\ current' = [current EXCEPT ![w] = Head(tasks)]
    /\ tasks' = Tail(tasks)
    /\ mutex' = None
    /\ worker' = [worker EXCEPT ![w] = "running"]
    /\ UNCHANGED <<stop, paused, caller, submitted, finished, cleared, everPaused>>

\* Awake, but nothing may be taken: round the loop again.
Spin(w) ==
    /\ worker[w] = "woken"
    /\ ~MayExit
    /\ paused \/ tasks = <<>>
    /\ mutex' = None
    /\ worker' = [worker EXCEPT ![w] = "checking"]
    /\ UNCHANGED <<tasks, stop, paused, current, caller, submitted, finished, cleared, everPaused>>

Finish(w) ==
    /\ worker[w] = "running"
    /\ finished' = finished \cup {current[w]}
    /\ current' = [current EXCEPT ![w] = None]
    /\ worker' = [worker EXCEPT ![w] = "checking"]
    /\ UNCHANGED <<tasks, stop, paused, mutex, caller, submitted, cleared, everPaused>>

\* A condition variable may wake a thread for no reason.
SpuriousWake(w) ==
    /\ worker[w] = "waiting"
    /\ worker' = [worker EXCEPT ![w] = "checking"]
    /\ UNCHANGED <<tasks, stop, paused, mutex, current, caller, submitted, finished, cleared, everPaused>>

-----------------------------------------------------------------------------
(* The callers.                                                             *)
(*   idle        outside the pool                                           *)
(*   notifying   enqueue: the task is in the queue, notify_one still to come *)
(*   resuming    resume: paused_ is written, notify_all still to come       *)
(*   stopping    stop: stop_ is written, notify_all still to come           *)
(*   joining     stop: waits for the workers to leave                       *)
(*   stopped     stop has returned; the owner makes no more calls           *)

\* Mutant: enqueue does not look at stop_.
AcceptsAlways == TRUE

\* enqueue on a stopped pool throws and changes nothing.
Accepts == ~stop

Enqueue(c, t) ==
    /\ caller[c] = "idle"
    /\ mutex = None
    /\ t \notin submitted
    /\ Accepts
    /\ tasks' = Append(tasks, t)
    /\ submitted' = submitted \cup {t}
    /\ caller' = [caller EXCEPT ![c] = "notifying"]
    /\ UNCHANGED <<stop, paused, mutex, worker, current, finished, cleared, everPaused>>

\* Mutant: the notification of enqueue is forgotten.
NotifyNobody(c) ==
    /\ caller[c] = "notifying"
    /\ caller' = [caller EXCEPT ![c] = "idle"]
    /\ UNCHANGED <<tasks, stop, paused, mutex, worker, current, submitted, finished, cleared, everPaused>>

NotifyOne(c) ==
    /\ caller[c] = "notifying"
    /\ caller' = [caller EXCEPT ![c] = "idle"]
    /\ \/ \E w \in Workers :
              /\ worker[w] = "waiting"
              /\ worker' = [worker EXCEPT ![w] = "checking"]
       \/ /\ \A w \in Workers : worker[w] # "waiting"
          /\ UNCHANGED worker
    /\ UNCHANGED <<tasks, stop, paused, mutex, current, submitted, finished, cleared, everPaused>>

NotifyAll ==
    worker' = [w \in Workers |-> IF worker[w] = "waiting" THEN "checking" ELSE worker[w]]

BeginStop(c) ==
    /\ c = Owner
    /\ caller[c] = "idle"
    /\ stop' = TRUE
    /\ caller' = [caller EXCEPT ![c] = "stopping"]
    /\ UNCHANGED <<tasks, paused, mutex, worker, current, submitted, finished, cleared, everPaused>>

NotifyStop(c) ==
    /\ caller[c] = "stopping"
    /\ NotifyAll
    /\ caller' = [caller EXCEPT ![c] = "joining"]
    /\ UNCHANGED <<tasks, stop, paused, mutex, current, submitted, finished, cleared, everPaused>>

Join(c) ==
    /\ caller[c] = "joining"
    /\ \A w \in Workers : worker[w] = "exited"
    /\ caller' = [caller EXCEPT ![c] = "stopped"]
    /\ UNCHANGED <<tasks, stop, paused, mutex, worker, current, submitted, finished, cleared, everPaused>>

Pause(c) ==
    /\ "pause" \in Interrupts
    /\ caller[c] = "idle"
    /\ paused' = TRUE
    /\ everPaused' = TRUE
    /\ UNCHANGED <<tasks, stop, mutex, worker, current, caller, submitted, finished, cleared>>

BeginResume(c) ==
    /\ "pause" \in Interrupts
    /\ caller[c] = "idle"
    /\ paused' = FALSE
    /\ caller' = [caller EXCEPT ![c] = "resuming"]
    /\ UNCHANGED <<tasks, stop, mutex, worker, current, submitted, finished, cleared, everPaused>>

NotifyResume(c) ==
    /\ caller[c] = "resuming"
    /\ NotifyAll
    /\ caller' = [caller EXCEPT ![c] = "idle"]
    /\ UNCHANGED <<tasks, stop, paused, mutex, current, submitted, finished, cleared, everPaused>>

ClearQueue(c) ==
    /\ "clear" \in Interrupts
    /\ caller[c] = "idle"
    /\ mutex = None
    /\ tasks' = <<>>
    /\ cleared' = cleared \cup Queued
    /\ UNCHANGED <<stop, paused, mutex, worker, current, caller, submitted, finished, everPaused>>

-----------------------------------------------------------------------------
WorkerStep(w) == Check(w) \/ Block(w) \/ Exit(w) \/ Take(w) \/ Spin(w) \/ Finish(w)

\* The rest of a call that has begun.
CallStep(c) == NotifyOne(c) \/ NotifyStop(c) \/ Join(c) \/ NotifyResume(c)

Next ==
    \/ \E w \in Workers : WorkerStep(w) \/ SpuriousWake(w)
    \/ \E c \in Callers :
        \/ CallStep(c)
        \/ \E t \in Tasks : Enqueue(c, t)
        \/ BeginStop(c)
        \/ Pause(c)
        \/ BeginResume(c)
        \/ ClearQueue(c)

Spec == Init /\ [][Next]_vars

\* Threads run: a worker that can step does, tasks return, a call that has begun goes on.
Fairness ==
    /\ \A w \in Workers : WF_vars(WorkerStep(w))
    /\ \A c \in Callers : WF_vars(CallStep(c))

FairSpec == Spec /\ Fairness

-----------------------------------------------------------------------------
(* Properties                                                               *)

WorkerStates == {"checking", "blocking", "waiting", "woken", "running", "exited"}
CallerStates == {"idle", "notifying", "resuming", "stopping", "joining", "stopped"}

\* Types, and who holds the mutex: exactly the worker between its test and its next step.
TypeOK ==
    /\ tasks \in Seq(Tasks)
    /\ stop \in BOOLEAN
    /\ paused \in BOOLEAN
    /\ mutex \in Workers \cup {None}
    /\ worker \in [Workers -> WorkerStates]
    /\ \A w \in Workers : mutex = w <=> worker[w] \in {"blocking", "woken"}
    /\ current \in [Workers -> Tasks \cup {None}]
    /\ caller \in [Callers -> CallerStates]
    /\ submitted \subseteq Tasks
    /\ finished \subseteq submitted
    /\ cleared \subseteq submitted
    /\ everPaused \in BOOLEAN

Running == {current[w] : w \in {v \in Workers : worker[v] = "running"}}

\* A task enqueue accepted is queued, being executed, executed or thrown away by
\* clearQueue, and only one of these: none is lost between the queue and a
\* worker, none is taken by two workers, none is executed twice.
OneFate ==
    /\ submitted = Queued \cup Running \cup finished \cup cleared
    /\ Queued \cap Running = {}
    /\ Queued \cap (finished \cup cleared) = {}
    /\ Running \cap (finished \cup cleared) = {}
    /\ finished \cap cleared = {}
    /\ \A i, j \in DOMAIN tasks : tasks[i] = tasks[j] => i = j
    /\ \A v, w \in Workers :
           worker[v] = "running" /\ worker[w] = "running" /\ current[v] = current[w] => v = w

\* When stop() returns, every task that enqueue ever accepted has been executed or
\* cleared, whatever raced with stop(), and nothing can be accepted any more.
StopDrained ==
    caller[Owner] = "stopped" =>
        /\ submitted = finished \cup cleared
        /\ stop

\* Workers that are up and have no task yet.
Awake == {w \in Workers : worker[w] \in {"checking", "woken"}}
Notifying == {c \in Callers : caller[c] = "notifying"}

\* No wake-up is lost by enqueue: as long as nobody pauses the pool, no worker sleeps
\* over a queue longer than the workers and the notifications on their way to it.
WorkIsNoticed ==
    ~everPaused =>
        \/ \A w \in Workers : worker[w] # "waiting"
        \/ Len(tasks) <= Cardinality(Awake) + Cardinality(Notifying)

\* Every accepted task leaves the queue, unless the pool was paused at some time.
EveryTaskRuns ==
    \A t \in Tasks : t \in Queued ~> (t \in finished \cup cleared \/ everPaused)

\* stop() returns.
StopReturns == stop ~> caller[Owner] = "stopped"

\* Once stop is signalled and every worker is awake, the queue is drained.
StopDrains ==
    (stop /\ \A w \in Workers : worker[w] \notin {"blocking", "waiting"}) ~> tasks = <<>>

\* A task is under way from the moment a worker has it.  The tasks, the flags and the
\* histories are seen by the caller as they are; the mutex, the places of the workers
\* and all callers but the owner are not.
Service == INSTANCE TaskQueue WITH
    queue <- tasks,
    begun <- Running,
    ended <- finished,
    thrown <- cleared,
    open <- ~stop,
    held <- paused,
    returned <- caller[Owner] = "stopped"

\* Every behaviour of the pool is one of TaskQueue: tasks begin in the order in which
\* they were accepted, never while the pool is paused, end once, and stop() returns
\* only when none is waiting or under way.
ServesInOrder == Service!QueueSpec
=============================================================================
