------------------------------ MODULE UdpSocket ------------------------------
(***************************************************************************)
(* UDPSocketAsync (UDPSocketAsync.cpp): a Windows datagram socket driven   *)
(* through an I/O completion port.  Init opens socket and port and fills a *)
(* pool of receive contexts; Start spawns the workers and posts a receive  *)
(* with each context; a worker takes completions off the port, calls up,   *)
(* and posts the receive again; SendData may run on any thread; Stop tells *)
(* the workers to leave, closes the socket, joins them and frees the rest. *)
(*                                                                         *)
(* Init, Start and Stop are called by one thread, the owner, always for    *)
(* one address.  Memory never runs out.  The port is a queue, but only     *)
(* the fairness of Dequeue uses its order: a worker takes any completion.  *)
(* The branch for a port closed under a worker is left out: Stop closes it *)
(* after the join.  A pool context stands for a slot of the current pool.  *)
(***************************************************************************)
EXTENDS Naturals, FiniteSets

CONSTANTS
    Workers,    \* m_workerThreads
    Slots,      \* m_receiveContextPool
    Sends,      \* calls of SendData, each with a context of its own
    MaxFaults,  \* bound: operations and thread creations that fail
    MaxInits,   \* bound: calls of Init
    None        \* no context

ASSUME WorkersAssumption == IsFiniteSet(Workers) /\ Workers # {}
ASSUME SlotsAssumption == IsFiniteSet(Slots) /\ Slots # {}
ASSUME ContextsAssumption == Slots \cap Sends = {} /\ None \notin Slots \cup Sends
ASSUME BoundsAssumption == MaxFaults \in Nat /\ MaxInits \in Nat

VARIABLES
    isRunning,  \* m_isRunning
    socket,     \* m_socket is valid
    bound,      \* some socket of ours is bound to the address
    iocp,       \* m_iocpHandle is open
    pills,      \* completions without a context waiting on the port
    kernel,     \* per context: no operation, pending, or its result on the port
    free,       \* per slot: how often it is in m_freeReceiveContexts
    worker,     \* where each worker stands in WorkerThread
    hand,       \* pIoContext of each worker
    owner,      \* where the owner stands in Start or Stop
    tries,      \* Start: receives still to post
    primed,     \* Start: one of them was posted
    send,       \* what became of each send
    reports,    \* history: calls of OnSendCompleted per send
    faults,     \* history: failures so far
    refusals,   \* history: receives of this pool that could not be posted
    inits       \* history: calls of Init

ownerVars == <<owner, tries, primed>>
sendVars == <<send, reports>>
workerVars == <<worker, hand>>
history == <<faults, refusals, inits>>
endpoint == <<isRunning, socket, bound, iocp>>

vars == <<endpoint, pills, kernel, free, workerVars, ownerVars, sendVars, history>>

Contexts == Slots \cup Sends

SocketInit ==
    /\ isRunning = FALSE
    /\ socket = FALSE
    /\ bound = FALSE
    /\ iocp = FALSE
    /\ pills = 0
    /\ kernel = [c \in Contexts |-> "none"]
    /\ free = [c \in Slots |-> 0]
    /\ worker = [w \in Workers |-> "absent"]
    /\ hand = [w \in Workers |-> None]
    /\ owner = "idle"
    /\ tries = 0
    /\ primed = FALSE
    /\ send = [s \in Sends |-> "unsent"]
    /\ reports = [s \in Sends |-> 0]
    /\ faults = 0
    /\ refusals = 0
    /\ inits = 0

\* Something the system was asked for failed.
Fault ==
    /\ faults < MaxFaults
    /\ faults' = faults + 1

-----------------------------------------------------------------------------
(* The owner: idle; spawning and priming in Start; signalling, closing,     *)
(* joining, releasing and clearing in Stop.                                 *)

InitMayRun ==
    /\ owner = "idle"
    /\ ~isRunning
    /\ inits < MaxInits
    /\ inits' = inits + 1

Init ==
    /\ InitMayRun
    /\ ~bound
    /\ socket' = TRUE
    /\ bound' = TRUE
    /\ iocp' = TRUE
    /\ free' = [c \in Slots |-> 1]
    /\ refusals' = 0
    /\ UNCHANGED <<isRunning, pills, kernel, workerVars, ownerVars, sendVars, faults>>

\* Another Init without a Stop: m_socket is overwritten by a new socket, which
\* cannot be bound to the address and is closed.  The first one stays open.
InitAgain ==
    /\ InitMayRun
    /\ bound
    /\ socket' = FALSE
    /\ UNCHANGED <<isRunning, bound, iocp, pills, kernel, free, workerVars, ownerVars,
                   sendVars, faults, refusals>>

\* Winsock, the socket or the port failed, and what was opened is closed again.
InitFails ==
    /\ InitMayRun
    /\ Fault
    /\ UNCHANGED <<endpoint, pills, kernel, free, workerVars, ownerVars, sendVars, refusals>>

Start ==
    /\ owner = "idle"
    /\ socket /\ iocp
    /\ ~isRunning
    /\ isRunning' = TRUE
    /\ owner' = "spawning"
    /\ UNCHANGED <<socket, bound, iocp, pills, kernel, free, workerVars, tries, primed,
                   sendVars, history>>

Spawn(w) ==
    /\ owner = "spawning"
    /\ worker[w] = "absent"
    /\ worker' = [worker EXCEPT ![w] = "testing"]
    /\ UNCHANGED <<endpoint, pills, kernel, free, hand, ownerVars, sendVars, history>>

\* Stop's first step: m_isRunning.exchange(false).
StopRunning ==
    /\ isRunning' = FALSE
    /\ owner' = "signalling"

\* std::system_error: Start calls Stop.
SpawnFails ==
    /\ owner = "spawning"
    /\ \E w \in Workers : worker[w] = "absent"
    /\ Fault
    /\ StopRunning
    /\ UNCHANGED <<socket, bound, iocp, pills, kernel, free, workerVars, tries, primed,
                   sendVars, refusals, inits>>

BeginPriming ==
    /\ owner = "spawning"
    /\ \A w \in Workers : worker[w] # "absent"
    /\ owner' = "priming"
    /\ tries' = Cardinality(Slots)
    /\ primed' = FALSE
    /\ UNCHANGED <<endpoint, pills, kernel, free, workerVars, sendVars, history>>

\* Mutant: the context stays in the pool while its receive is pending.
PrimeAndKeep(c) ==
    /\ owner = "priming" /\ tries > 0 /\ free[c] > 0
    /\ kernel' = [kernel EXCEPT ![c] = "pending"]
    /\ tries' = tries - 1
    /\ primed' = TRUE
    /\ UNCHANGED <<endpoint, pills, free, workerVars, owner, sendVars, history>>

\* One turn of the loop: a free context, and its receive posted.
Prime(c) ==
    /\ owner = "priming" /\ tries > 0 /\ free[c] > 0
    /\ free' = [free EXCEPT ![c] = @ - 1]
    /\ kernel' = [kernel EXCEPT ![c] = "pending"]
    /\ tries' = tries - 1
    /\ primed' = TRUE
    /\ UNCHANGED <<endpoint, pills, workerVars, owner, sendVars, history>>

\* The receive is refused and its context is back in the pool.
PrimeFails ==
    /\ owner = "priming" /\ tries > 0
    /\ \E c \in Slots : free[c] > 0
    /\ Fault
    /\ refusals' = refusals + 1
    /\ tries' = tries - 1
    /\ UNCHANGED <<endpoint, pills, kernel, free, workerVars, owner, primed, sendVars, inits>>

PrimingOver ==
    /\ owner = "priming"
    /\ tries = 0 \/ \A c \in Slots : free[c] = 0

Started ==
    /\ PrimingOver /\ primed
    /\ owner' = "idle"
    /\ UNCHANGED <<endpoint, pills, kernel, free, workerVars, tries, primed, sendVars, history>>

\* No receive could be posted: Start calls Stop.
NothingPrimed ==
    /\ PrimingOver /\ ~primed
    /\ StopRunning
    /\ UNCHANGED <<socket, bound, iocp, pills, kernel, free, workerVars, tries, primed,
                   sendVars, history>>

\* A Stop that finds m_isRunning false returns at once, whatever Init left open.
Stop ==
    /\ owner = "idle"
    /\ isRunning
    /\ StopRunning
    /\ UNCHANGED <<socket, bound, iocp, pills, kernel, free, workerVars, tries, primed,
                   sendVars, history>>

\* A completion without a context for every worker.
Signal ==
    /\ owner = "signalling"
    /\ pills' = Cardinality({w \in Workers : worker[w] # "absent"})
    /\ owner' = "closing"
    /\ UNCHANGED <<endpoint, kernel, free, workerVars, tries, primed, sendVars, history>>

CloseSocket ==
    /\ owner = "closing"
    /\ socket' = FALSE
    /\ bound' = FALSE
    /\ owner' = "joining"
    /\ UNCHANGED <<isRunning, iocp, pills, kernel, free, workerVars, tries, primed, sendVars, history>>

\* Mutant: the workers are not waited for.
Detach ==
    /\ owner = "joining"
    /\ owner' = "releasing"
    /\ UNCHANGED <<endpoint, pills, kernel, free, workerVars, tries, primed, sendVars, history>>

Join ==
    /\ owner = "joining"
    /\ \A w \in Workers : worker[w] \in {"absent", "left"}
    /\ worker' = [w \in Workers |-> "absent"]
    /\ owner' = "releasing"
    /\ UNCHANGED <<endpoint, pills, kernel, free, hand, tries, primed, sendVars, history>>

\* CloseHandle: what was pending or still on the port is never seen again.
CloseIocp ==
    /\ owner = "releasing"
    /\ iocp' = FALSE
    /\ pills' = 0
    /\ kernel' = [c \in Contexts |-> "none"]
    /\ send' = [s \in Sends |-> IF send[s] = "accepted" THEN "lost" ELSE send[s]]
    /\ owner' = "clearing"
    /\ UNCHANGED <<isRunning, socket, bound, free, workerVars, tries, primed, reports, history>>

ClearPool ==
    /\ owner = "clearing"
    /\ free' = [c \in Slots |-> 0]
    /\ owner' = "idle"
    /\ UNCHANGED <<endpoint, pills, kernel, workerVars, tries, primed, sendVars, history>>

-----------------------------------------------------------------------------
(* The workers.                                                             *)
(*   testing    about to test m_isRunning                                   *)
(*   waiting    in GetQueuedCompletionStatus                                *)
(*   receiving  calls OnRawDataReceived                                     *)
(*   reporting  calls OnSendCompleted                                       *)
(*   rearming   about to test m_isRunning for the receive in its hand       *)
(*   posting    in PostReceiveInternal with it                              *)
(*   left       out of the loop, not joined yet                             *)

OnPort == {c \in Contexts : kernel[c] \in {"ok", "failed"}}

Test(w) ==
    /\ worker[w] = "testing"
    /\ worker' = [worker EXCEPT ![w] = IF isRunning THEN "waiting" ELSE "left"]
    /\ UNCHANGED <<endpoint, pills, kernel, free, hand, ownerVars, sendVars, history>>

\* 100 ms without a completion.
WaitTimesOut(w) ==
    /\ worker[w] = "waiting"
    /\ pills = 0 /\ OnPort = {}
    /\ worker' = [worker EXCEPT ![w] = "testing"]
    /\ UNCHANGED <<endpoint, pills, kernel, free, hand, ownerVars, sendVars, history>>

TakePill(w) ==
    /\ worker[w] = "waiting"
    /\ pills > 0
    /\ pills' = pills - 1
    /\ worker' = [worker EXCEPT ![w] = "left"]
    /\ UNCHANGED <<endpoint, kernel, free, hand, ownerVars, sendVars, history>>

\* Mutant: the worker gives up the context of a failed receive.
DequeueDrops(w, c) ==
    /\ worker[w] = "waiting"
    /\ c \in OnPort
    /\ kernel' = [kernel EXCEPT ![c] = "none"]
    /\ IF c \in Slots /\ kernel[c] = "failed"
         THEN /\ free' = [free EXCEPT ![c] = @ + 1]
              /\ worker' = [worker EXCEPT ![w] = "testing"]
              /\ UNCHANGED hand
         ELSE /\ hand' = [hand EXCEPT ![w] = c]
              /\ worker' = [worker EXCEPT ![w] = IF c \in Sends THEN "reporting" ELSE "receiving"]
              /\ UNCHANGED free
    /\ UNCHANGED <<endpoint, pills, ownerVars, sendVars, history>>

\* Where a completion takes the worker: a failed receive is not handed up.
Branch(c) ==
    IF c \in Sends THEN "reporting"
    ELSE IF kernel[c] = "ok" THEN "receiving" ELSE "rearming"

Dequeue(w, c) ==
    /\ worker[w] = "waiting"
    /\ c \in OnPort
    /\ hand' = [hand EXCEPT ![w] = c]
    /\ kernel' = [kernel EXCEPT ![c] = "none"]
    /\ worker' = [worker EXCEPT ![w] = Branch(c)]
    /\ UNCHANGED <<endpoint, pills, free, ownerVars, sendVars, history>>

HandUp(w) ==
    /\ worker[w] = "receiving"
    /\ worker' = [worker EXCEPT ![w] = "rearming"]
    /\ UNCHANGED <<endpoint, pills, kernel, free, hand, ownerVars, sendVars, history>>

Rearm(w) ==
    /\ worker[w] = "rearming"
    /\ isRunning
    /\ worker' = [worker EXCEPT ![w] = "posting"]
    /\ UNCHANGED <<endpoint, pills, kernel, free, hand, ownerVars, sendVars, history>>

\* ReturnReceiveContextInternal, and round the loop.
GiveBack(w) ==
    /\ free' = [free EXCEPT ![hand[w]] = @ + 1]
    /\ hand' = [hand EXCEPT ![w] = None]
    /\ worker' = [worker EXCEPT ![w] = "testing"]

\* Not running any more: the context returns to the pool.
Retire(w) ==
    /\ worker[w] = "rearming"
    /\ ~isRunning
    /\ GiveBack(w)
    /\ UNCHANGED <<endpoint, pills, kernel, ownerVars, sendVars, history>>

Post(w) ==
    /\ worker[w] = "posting"
    /\ socket
    /\ kernel' = [kernel EXCEPT ![hand[w]] = "pending"]
    /\ hand' = [hand EXCEPT ![w] = None]
    /\ worker' = [worker EXCEPT ![w] = "testing"]
    /\ UNCHANGED <<endpoint, pills, free, ownerVars, sendVars, history>>

\* Mutant: the worker tries again until the receive is posted.
PostAgain(w) ==
    /\ worker[w] = "posting"
    /\ ~socket
    /\ UNCHANGED vars

\* Mutant: the caller returns the context too.
ReturnTwice(w) ==
    /\ worker[w] = "posting"
    /\ IF socket THEN Fault ELSE UNCHANGED faults
    /\ refusals' = refusals + 1
    /\ free' = [free EXCEPT ![hand[w]] = @ + 2]
    /\ hand' = [hand EXCEPT ![w] = None]
    /\ worker' = [worker EXCEPT ![w] = "testing"]
    /\ UNCHANGED <<endpoint, pills, kernel, ownerVars, sendVars, inits>>

\* The socket is gone, or refuses; nobody posts this context again.
PostFails(w) ==
    /\ worker[w] = "posting"
    /\ IF socket THEN Fault ELSE UNCHANGED faults
    /\ refusals' = refusals + 1
    /\ GiveBack(w)
    /\ UNCHANGED <<endpoint, pills, kernel, ownerVars, sendVars, inits>>

\* Mutant: the context is deleted and OnSendCompleted never called.
ReportNothing(w) ==
    /\ worker[w] = "reporting"
    /\ hand' = [hand EXCEPT ![w] = None]
    /\ worker' = [worker EXCEPT ![w] = "testing"]
    /\ UNCHANGED <<endpoint, pills, kernel, free, ownerVars, sendVars, history>>

\* Mutant: pIoContext is not reset after the send.
ReportAndHold(w) ==
    /\ worker[w] = "reporting"
    /\ reports' = [reports EXCEPT ![hand[w]] = @ + 1]
    /\ send' = [send EXCEPT ![hand[w]] = "reported"]
    /\ worker' = [worker EXCEPT ![w] = "testing"]
    /\ UNCHANGED <<endpoint, pills, kernel, free, hand, ownerVars, history>>

\* OnSendCompleted, then the context is deleted.
Report(w) ==
    /\ worker[w] = "reporting"
    /\ reports' = [reports EXCEPT ![hand[w]] = @ + 1]
    /\ send' = [send EXCEPT ![hand[w]] = "reported"]
    /\ hand' = [hand EXCEPT ![w] = None]
    /\ worker' = [worker EXCEPT ![w] = "testing"]
    /\ UNCHANGED <<endpoint, pills, kernel, free, ownerVars, history>>

-----------------------------------------------------------------------------
(* SendData, on any thread.  m_socket is tested first and read again by     *)
(* WSASendTo, so Stop may come between.                                     *)

CheckSocket(s) ==
    /\ send[s] = "unsent"
    /\ socket
    /\ send' = [send EXCEPT ![s] = "checked"]
    /\ UNCHANGED <<endpoint, pills, kernel, free, workerVars, ownerVars, reports, history>>

\* No socket, no data, or an address that cannot be parsed.
Refuse(s) ==
    /\ send[s] \in {"unsent", "checked"}
    /\ send' = [send EXCEPT ![s] = "refused"]
    /\ UNCHANGED <<endpoint, pills, kernel, free, workerVars, ownerVars, reports, history>>

Submit(s) ==
    /\ send[s] = "checked"
    /\ socket
    /\ send' = [send EXCEPT ![s] = "accepted"]
    /\ kernel' = [kernel EXCEPT ![s] = "pending"]
    /\ UNCHANGED <<endpoint, pills, free, workerVars, ownerVars, reports, history>>

\* Mutant: WSA_IO_PENDING is taken for a failure.
SubmitReportsPending(s) ==
    /\ send[s] = "checked"
    /\ IF socket THEN Fault ELSE UNCHANGED faults
    /\ send' = [send EXCEPT ![s] = "accepted"]
    /\ kernel' = [kernel EXCEPT ![s] = "pending"]
    /\ reports' = [reports EXCEPT ![s] = @ + 1]
    /\ UNCHANGED <<endpoint, pills, free, workerVars, ownerVars, refusals, inits>>

\* WSASendTo fails at once: OnSendCompleted(false) here and now, and delete.
SubmitFails(s) ==
    /\ send[s] = "checked"
    /\ IF socket THEN Fault ELSE UNCHANGED faults
    /\ send' = [send EXCEPT ![s] = "failed"]
    /\ reports' = [reports EXCEPT ![s] = @ + 1]
    /\ UNCHANGED <<endpoint, pills, kernel, free, workerVars, ownerVars, refusals, inits>>

-----------------------------------------------------------------------------
(* The kernel (external): a datagram arrives or leaves, an operation fails, *)
(* and closing the socket aborts what is pending, some time later.          *)

Succeed(c) ==
    /\ kernel[c] = "pending" /\ bound
    /\ kernel' = [kernel EXCEPT ![c] = "ok"]
    /\ UNCHANGED <<endpoint, pills, free, workerVars, ownerVars, sendVars, history>>

Fail(c) ==
    /\ kernel[c] = "pending"
    /\ IF bound THEN Fault ELSE UNCHANGED faults
    /\ kernel' = [kernel EXCEPT ![c] = "failed"]
    /\ UNCHANGED <<endpoint, pills, free, workerVars, ownerVars, sendVars, refusals, inits>>

-----------------------------------------------------------------------------
OwnerStep ==
    \/ Init \/ InitAgain \/ InitFails
    \/ Start \/ SpawnFails \/ BeginPriming \/ PrimeFails \/ Started \/ NothingPrimed
    \/ \E w \in Workers : Spawn(w)
    \/ \E c \in Slots : Prime(c)
    \/ Stop \/ Signal \/ CloseSocket \/ Join \/ CloseIocp \/ ClearPool

WorkerStep(w) ==
    \/ Test(w) \/ WaitTimesOut(w) \/ TakePill(w)
    \/ \E c \in Contexts : Dequeue(w, c)
    \/ HandUp(w) \/ Rearm(w) \/ Retire(w) \/ Post(w) \/ PostFails(w) \/ Report(w)

SendStep(s) == CheckSocket(s) \/ Refuse(s) \/ Submit(s) \/ SubmitFails(s)

Next ==
    \/ OwnerStep
    \/ \E w \in Workers : WorkerStep(w)
    \/ \E s \in Sends : SendStep(s)
    \/ \E c \in Contexts : Succeed(c) \/ Fail(c)

Spec == SocketInit /\ [][Next]_vars

\* The owner inside Start or Stop goes on, and so does a worker: the calls up
\* return.  A completion is taken in the end because the port is a queue, and
\* the kernel finishes every send.  Nobody has to call Init, Start or Stop.
Fairness ==
    /\ WF_vars(owner # "idle" /\ OwnerStep)
    /\ \A w \in Workers : WF_vars(WorkerStep(w))
    /\ \A s \in Sends : /\ SF_vars(\E w \in Workers : Dequeue(w, s))
                        /\ WF_vars(Submit(s) \/ SubmitFails(s))
                        /\ WF_vars(Succeed(s))

FairSpec == Spec /\ Fairness

-----------------------------------------------------------------------------
OwnerPhases == {"idle", "spawning", "priming", "signalling", "closing", "joining",
                "releasing", "clearing"}
WorkerPlaces == {"absent", "testing", "waiting", "receiving", "reporting",
                 "rearming", "posting", "left"}
Fates == {"unsent", "checked", "accepted", "refused", "failed", "reported", "lost"}

\* Every variable has its type, and a worker holds a context exactly where the
\* loop has one in its hand.
TypeOK ==
    /\ isRunning \in BOOLEAN /\ socket \in BOOLEAN /\ bound \in BOOLEAN
    /\ iocp \in BOOLEAN /\ primed \in BOOLEAN
    /\ pills \in Nat
    /\ kernel \in [Contexts -> {"none", "pending", "ok", "failed"}]
    /\ free \in [Slots -> Nat]
    /\ worker \in [Workers -> WorkerPlaces]
    /\ hand \in [Workers -> Contexts \cup {None}]
    /\ \A w \in Workers :
        /\ worker[w] \in {"receiving", "rearming", "posting"} => hand[w] \in Slots
        /\ worker[w] = "reporting" => hand[w] \in Sends
        /\ worker[w] \in {"absent", "testing", "waiting", "left"} => hand[w] = None
    /\ owner \in OwnerPhases
    /\ tries \in Nat
    /\ send \in [Sends -> Fates]
    /\ reports \in [Sends -> Nat]
    /\ faults \in Nat
    /\ refusals \in Nat
    /\ inits \in Nat

\* A receive context has one owner: the pool (which lists it once), the kernel
\* or one worker.  While the socket runs it always has one: no path of the
\* worker loop, the error paths included, loses a context or uses it twice.
OneHolder ==
    \A c \in Slots :
        /\ free[c] <= 1
        /\ free[c] = 1 => kernel[c] = "none"
        /\ \A w \in Workers : hand[w] = c =>
            /\ free[c] = 0 /\ kernel[c] = "none"
            /\ \A v \in Workers \ {w} : hand[v] # c
        /\ isRunning => free[c] = 1 \/ kernel[c] # "none" \/ \E w \in Workers : hand[w] = c

\* OnSendCompleted is called at most once for a send, and only after it was
\* submitted; the context it deletes is then with no one: neither the kernel
\* nor a second worker still has it.
SendReportedOnce ==
    \A s \in Sends :
        /\ reports[s] = IF send[s] \in {"reported", "failed"} THEN 1 ELSE 0
        /\ kernel[s] # "none" => send[s] = "accepted"
        /\ \A w \in Workers : hand[w] = s =>
            /\ send[s] = "accepted" /\ kernel[s] = "none"
            /\ \A v \in Workers \ {w} : hand[v] # s

\* Stop frees the completion port and the contexts only when no worker can
\* touch them any more, and an unbound socket has neither.
FreedUnused ==
    /\ owner \in {"releasing", "clearing"} \/ ~iocp =>
        /\ ~isRunning
        /\ \A w \in Workers : worker[w] = "absent"
    /\ ~iocp => pills = 0 /\ \A c \in Contexts : kernel[c] = "none"
    /\ ~iocp /\ owner = "idle" => ~bound /\ \A c \in Slots : free[c] = 0

\* Once Start has returned true, a context lies idle in the pool only because
\* some receive could not be posted: the server cannot go deaf by itself.
IdleOnlyByRefusal ==
    isRunning /\ owner = "idle" => Cardinality({c \in Slots : free[c] > 0}) <= refusals

\* A send the kernel took is reported, unless the socket is stopped first.
EverySendSettles ==
    \A s \in Sends : isRunning /\ send[s] = "accepted" ~> ~isRunning \/ send[s] = "reported"

\* Start and Stop return: the workers leave although their completions may
\* still be on the way.
CallsReturn == owner # "idle" ~> owner = "idle"

\* The promise to the code above.
Port == INSTANCE DatagramPort WITH
    up <- iocp,
    busy <- {w \in Workers : worker[w] \in {"receiving", "reporting"}},
    outcome <- [s \in Sends |-> IF send[s] = "checked" THEN "unsent" ELSE send[s]]

\* Every behaviour of the socket is one of DatagramPort: accepted sends are
\* reported once or lost at the close, and the close waits for the calls up.
KeepsPromise == Port!PortSpec
=============================================================================
