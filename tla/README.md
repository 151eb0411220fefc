# RiftForged: specifications of the server's concurrent core

RiftForged is a C++ MMO game server. This directory holds TLA+ modules that
model its networking, threading, player and physics core, TLC configurations that check them on
small instances, and proofs, checked by TLAPS, that hold for every value of the
constants. `PROJECT.json` lists the components, runs, mutants, findings, hazards
and theorems, and maps every definition to the source lines it models.

The repository has no tests and no design documents; its comments, log messages
and header documentation are the only statements of intent. Several directories
are exact duplicates of each other. The paths used here are the ones the build
files include: `src/Engine/NetworkEngine`, `src/Engine/Core`,
`src/Engine/GameEngine`, `src/Engine/PhysicsEngine`, `src/Engine/ServerEngine`.

## 1. Inventory

| Component | State it keeps | Operations | What makes it hard |
|---|---|---|---|
| UDP reliability protocol (`UDPReliabilityProtocol.*`, `ReliableConnectionState.h`) | per connection: next sequence number, unacknowledged packets with retries, highest number received, 32-bit window, pending-ack flag, RTT estimate | prepare a packet, process a header, retransmission pass, ACK-only packet | loss, duplication, reordering; stale acknowledgements in retransmissions; window edge; wrap-around |
| UDP packet handler (`UDPPacketHandler.*`) | `m_reliabilityStates`, `m_endpointLastSeenTime`, running flag, reliability thread | receive a datagram, send, reliability pass (retransmit, drop, acknowledge, notify), stop | network threads hold `shared_ptr`s to states the reliability thread erases; fields read without their mutex; notifications after the mutex is released |
| Task thread pool (`Threadpool.*`) | task deque, `stop_`, `paused_`, mutex, condition variable | worker loop, enqueue, stop, pause, resume, clearQueue | atomics written outside the mutex the predicate is tested under; drain on stop |
| UDP socket (`UDPSocketAsync.*`) | IOCP handle, workers, pool of receive contexts | init, start, post receive, send, worker loop, stop | completions during shutdown; ownership of contexts |
| Packet processor, dispatcher, message handlers, formatters | handler table | translate one message into one call and one response | none of their own; the movement handler puts work on the pool |
| Active player (`ActivePlayer.*`) | position, orientation, health, states, cooldowns | movement, health, combat state, rift step | no locks; written by network workers and the simulation thread |
| Gameplay engine, combat system | per call | placing, turn, rift step, basic attack | reads, computes and writes back; player and body are written one after the other |
| Player manager | id and endpoint maps of players | create, find, remove | raw pointers leave the lock |
| Server engine, shard engine | sessions; command queue | tick, swap of the queue, commands | batches against late commands; players that leave; an unfinished skeleton around them |
| Event bus (`GameEventBus.h`) | subscribers per event type | subscribe, publish | no lock; nobody subscribes yet |
| Physics engine | PhysX objects, maps of actors and controllers, three mutexes | initialise, shut down, create, register, unregister, find, use, step | pointers leave the lock; two-step removal; a controller is made without the scene's mutex |
| Cache service, terrain, assets, logger, maths, test driver, wire schemas | nothing shared | start-up, pure functions | I/O, geometry |

**Interactions.** The socket's workers call `OnRawDataReceived` of the packet
handler; it looks up the connection state, runs the reliability protocol on the
header, and relays the payload to the message handlers, whose response it sends
back through the protocol and the socket. The reliability thread of the packet
handler walks over all connection states, retransmits, erases the dead ones and
calls `OnClientDisconnected` of the game server. Handlers and engines put work
on the thread pool and mutate players; players are found in the player manager
by the id the game server keeps for the endpoint. The server's simulation thread
answers joins and disconnections, which create and destroy players and their
bodies in the physics engine, and updates the shard, which runs the commands the
dispatcher has pushed.

**What makes each part correct.** *Protocol*: nothing is acknowledged that was
not received, nothing is retired unacknowledged, payloads are delivered once,
and nothing is lost silently. *Packet handler*: states are used only while they
mean something, the maps agree, drops are reported once, silent clients lose
their sessions and living ones are watched. *Pool*: every accepted task runs
once, stop returns and drains, no wake-up is lost. *Socket*: a context is held
by exactly one of pool, kernel and worker; a send is reported once; the server does
not go deaf; stop waits for its workers before it frees anything. *Players and
shard*: commands run once and in order, on players that exist; a body stands where
its player stands; turns add up. *Physics*: what a map leads to exists, nothing
leaks, nothing is released twice.

## 2. Modules

| Module | Role | Models |
|---|---|---|
| `SequenceNumbers` | operators | circular order, difference and successor of sequence numbers (modulus `SeqMod`, 2^32 in the code) |
| `Channel` | abstract specification | what the reliability layer promises a sender and a receiver |
| `Reliability` | component | two ends, each with one `ReliableConnectionState`, and the network between them |
| `TaskQueue` | abstract specification | what the thread pool promises those who give it tasks |
| `ThreadPool` | component | `TaskThreadPool` |
| `ConnectionWatch` | abstract specification | what the packet handler promises the game server about its clients |
| `PacketHandler` | component | `UDPPacketHandler`, its maps and its threads |
| `DatagramPort` | abstract specification | what `INetworkIO` and `INetworkIOEvents` promise the code above the socket |
| `UdpSocket` | component | `UDPSocketAsync` over a completion port |
| `Physics` | component | `PhysicsEngine`: life of its objects, maps and mutexes |
| `World` | composition | `PlayerManager`, the pose in `ActivePlayer`, `GameplayEngine`, `ShardEngine`, the tick of `ServerEngine`, the turn and rift step handlers |
| `MCReliability`, `MCThreadPool`, `MCPacketHandler`, `MCUdpSocket`, `MCPhysics`, `MCWorld` | TLC instances | constants and symmetry |
| `ReliabilityProofs`, `ReliabilityRefines`, `ReliabilityDebt`, `ThreadPoolProofs`, `PacketHandlerProofs`, `UdpSocketProofs`, `PhysicsProofs`, `WorldProofs` | proofs | see section 5 |

A definition whose comment begins with *Mutant:* is a wrong variant of the one
that follows it. No specification uses it; replacing the definition by its
variant makes one property fail, which shows that the property depends on that
piece of the code.

### Reliability

One action per function of the protocol, because each runs under
`internalStateMutex`: `SendReliable` and `SendUnreliable`
(`PrepareOutgoingPacket`), `Receive` (`ProcessIncomingPacketHeader`: first
`ProcessAcks`, then `Accept`, `NewHighest`, `FillsGap`, `IsStale` or `Discard`),
`Retransmit` (`GetPacketsForRetransmission`, with the dropping of packets out of
retries). `TrySendAckOnlyPacket` releases the mutex between the decision and the
sending, so it is two actions, `DecideAck` and `SendAckOnly`. The network
(`Handover`, `Lose`) loses, duplicates, delays and reorders.

* The bitfield is the set of distances it stands for: bit *i* is distance *i+1*.
  `Window` is 32 in the code. `Shifted` is the shift with its two special cases,
  a jump of `Window` or more among them.
* A retransmission carries the header of the first transmission, with its old
  acknowledgement fields, as in the code.
* Timers are left out: in a pass any set of packets may have outlived the
  timeout. This covers every timeout and round-trip estimate.
* History variables (`accepted`, `repeats`, `gaveUp`, `faults`) record what was
  taken, taken twice, given up, and how often the network failed; no guard of
  the code reads them, only the bound on faults does.

`Channel` forgets headers, windows, retries and the network: an end stops
tracking a packet only if the other end has taken it or if it abandons it.
`Promise == INSTANCE Channel WITH ...` in `Reliability` is the refinement
mapping; `outstanding` is read off `unacknowledgedSentPackets`.

### ThreadPool

A worker goes through `Check` (lock, test the predicate), `Block` (sleep,
release), `Exit`, `Take`, `Spin` (the pool was paused after the test, or there is
no task) and `Finish`. The gap between testing the predicate and going to sleep
is a step of its own, during which the worker holds the mutex: `Enqueue` and
`ClearQueue` take the mutex and cannot fall into it, but `BeginStop`, `Pause` and
`BeginResume` write their atomics without it and can. The notifications are steps
after the writes (`NotifyOne`, `NotifyStop`, `NotifyResume`). `SpuriousWake` is
allowed and assumed never to help: it has no fairness.

`TaskQueue` is the header's view: a queue of accepted tasks, begun from the front,
never while held, ended once or thrown away; stop() has returned only when none is
waiting or under way. `Service == INSTANCE TaskQueue WITH ...` reads it off the pool:
a task is under way while a worker has it, the places of the workers, the mutex and
the callers other than the owner are not seen. In `Take` the look at `paused_`
(line 134) and the taking are one step, so a pause() takes effect on the tasks for
which no worker has yet looked: one that falls between the look and the taking counts
as coming after it, and nothing can tell the difference.

### PacketHandler

A **thread** (network worker or game thread) goes `Arrive`, `MarkSeen`,
`GetSenderState`, `ProcessHeader`, then `RelayJoin` or `RelayInput`, then for
every recipient of the answer `BeginSend`, `GetRecipientState`, `Prepare`; `Submit`
is a game system that sends of its own accord. Each critical section of
`m_reliabilityStatesMutex` is one step (`MarkSeen`, `GetOrCreate`). The **reliability thread** holds
that mutex through its visit of all endpoints, but other threads work on the states they
already hold, so it is split at each field it reads: `GiveUp` or `Retransmit`,
`ReadHeard`, `ReadUnacked`, then `Keep` or `Drop`; then, without the mutex,
`Acknowledge` and `Notify`. `BeginStop` and `FinishStop` are `Stop`.

* A connection state is reduced to what the handler reads: whether something is
  unacknowledged, whether an acknowledgement is pending, and how long ago the
  client was heard (never, recently, longer ago than
  `STALE_CONNECTION_TIMEOUT_SECONDS_PKT`). The numbers are in `Reliability`.
* A thread's `shared_ptr` is `job[t].mapped`: true while it points to the state
  in the map. When the state is erased the pointer keeps an *orphan* alive;
  nothing reads an orphan again, so its contents are dropped.
* A state created by a send has never heard from its client, and its last-heard
  time is `time_point::min()`: the age computed from it overflows, so the
  staleness test may go either way.
* The game server is external (its source is not in the repository): it has a
  session for an endpoint from a granted join to `OnClientDisconnected`. The
  join is modelled from `JoinRequestMessageHandler::Process`, which calls it, and
  from the way the packet handler treats the answer. `PacketProcessor`, a newer
  way in, still returns from a join without acting.
* `Start` is the initial state. `FallQuiet` is the passing of time.

`ConnectionWatch` knows which clients are connected, which drops are still to be
reported and which sessions the game server has. A drop is reported once and before
the next drop of the same client, only a report ends a session, and after Stop nothing
is dropped or reported. It allows what no lock prevents: a client that connects and even
joins again before the report of its drop. `Watched == INSTANCE ConnectionWatch WITH ...`
is the mapping: a client is connected while it has a state, whatever is in it.

### UdpSocket

The **owner** calls `Init`, `Start` and `Stop`. `Start` spawns workers one by one
(`Spawn`, `SpawnFails`) and posts a receive per context (`Prime`, `PrimeFails`);
`Stop` is `StopRunning` and a pill per worker (`Signal`), then `CloseSocket`, `Join`,
`CloseIocp`, `ClearPool`, in the code's order. A **worker** tests `m_isRunning`,
waits (`WaitTimesOut`, `TakePill`, `Dequeue`), hands the datagram up or reports the
send, and gives the context back, posts it again (`Rearm`, `Post`, `PostFails`) or
retires it. A **send** checks the socket, then submits; the two are separate steps,
so that `Stop` can fall between them. The **kernel** completes a pending operation at
any time, and fails it after the socket is closed.

* A receive context is a member of `Slots`: `free` counts its entries in the pool,
  `kernel` is its operation, `hand` who holds it. A send's context is the send itself.
* Completions are taken from the port in any order, as with several workers.
* `Init` may be called again without `Stop` (`InitAgain`), as nothing in the class
  prevents it. `faults` bounds failures of the system, `inits` the calls of `Init`.

`DatagramPort` knows neither port nor contexts: an accepted send is reported once or
lost when the port closes, calls up happen only while it is open, and it closes only
when no call is under way. `Port == INSTANCE DatagramPort WITH ...` is the mapping.

### Physics

Threads call the engine as they please. `Initialize` and `StepSimulation` hold
`m_physicsMutex` through; the maps' own mutexes are held for one access each, so such
an access is one step. Creating a controller is three steps (`CreateController`,
`Created`, `RegisterController`), removal two (`UnregisterController` or
`UnregisterActor`, then `Drop`), and a look-up is followed by a use of the pointer
(`FindController` or `FindActor`, `Peek`, `Use`). `Shutdown` goes through
`ShutdownControllers`, `ShutdownActors`, `ShutdownScene`.

* Objects are numbered in the order of their creation; `owned` are those of the
  controller manager, which frees them when it is released. `released` counts the calls of
  `release` on an object, so a double release is counted and not undefined.
* `orphans` are live objects no map leads to because the engine gave them up: planes,
  projectiles, and what a second object of the same id displaced.
* `overtaken` is set once a `Shutdown` has met another call, after which pointers may
  dangle; the safety properties speak of engines to which this has not happened.
* An `Initialize` that fails half-way calls `Shutdown` with the mutex held and is
  `stuck`, or throws (`InitializeThrows`).

### World

The **simulation thread** answers requests (`Join`, `Place`, `Embody` or `EmbodyFails`,
`Leave`, `RemovePlayer`), then updates the shard: `Update` swaps the queue, `Attack` and
`Skip` run its commands, `ReadBodies` and `UpdateDone` reconcile players with the physics
and end the tick. **Network workers** run the handlers of a rift step (`RiftStep`,
`Calculate`, `Seek`, `Pose`, `Move`) and of a turn (`Turn`, `ReadHeading`, `SetHeading`),
with a step wherever they touch what another thread can touch, since no lock covers it.
The look-up of the controller and its moving take two locks, and are two steps.
`PushCommand` is the dispatcher.

* A pointer to a player is the number of its construction. A write through a pointer to
  a player that is gone (`Gone`), or to a controller that is not the registered one any
  more (`held`), is undefined: it is lost, or lands in one made in the same place.
* A position is the rift step that led there: enough to tell a lost or misplaced write.
  The two ends of a rift step count as different; `SetPosition` ignores a move of less
  than 0.1 mm, after which player and body stand that near to each other.
* A heading is one of `Circle` directions. `SetOrientation` writes only a heading that is
  not close to the one there (`Oriented`, `Close`: less than `Nearness` apart either way
  round), so a small turn changes nothing. `turned` sums up the turns that are not small.
* `apart` and `twisted` mark players whose position or heading had two writers at a time.
  They are set when two such calls overlap, and cleared when the player is placed (`apart`:
  or reconciled) and nobody overlaps that.
* `stranded` marks players whose placing failed to make a controller while an older one was
  registered. `InitializePlayerInWorld` has moved the player by then, and the old body
  stays where it was: no overlap is needed, only a second join.
* Disconnection is external: its processing has no body in the sources. The
  comment at `PlayerManager.cpp:65` gives the order (controller first).
* `ReconcilePhysicsState` is external too, for the same reason: it may find any of the
  players away from their bodies, and puts these where their bodies stand, reading first
  and writing afterwards. That the physics moves bodies of its own is left out.

## 3. Runs

| Run | Instance | Shows |
|---|---|---|
| `reliability` | window 2, 1 retry, ends that send 3 and 1 reliable packets and unreliable ones, 2 datagrams in flight, 1 loss or duplication; 0.5 M states | types; the window is truthful; headers are honest; nothing is retired unseen; repeats happen only at the window's edge, and not at all under flow control; `Channel` is implemented |
| `reliability_live` | as above, reliable traffic only, fairness; 92 k states | an acknowledgement is owed until it arrives; nothing is lost silently |
| `reliability_repeat` | as `reliability_live` without fairness | violated: a payload is delivered twice |
| `threadpool` | 2 workers, 2 callers, 3 tasks, pause, resume and clear; 49 k states | one fate per task; stop drains; no wake-up lost; every task runs; `TaskQueue` is implemented |
| `threadpool_stop` | 1 worker, 1 task | violated: stop() may never return |
| `threadpool_drain` | 1 worker, 1 task, pause | violated: a paused pool does not drain |
| `handler` | 2 endpoints, 2 threads, 2 datagrams, symmetric; 1.2 M states | no use of a missing state; maps agree; drops are reported once; sessions are watched; `ConnectionWatch` is implemented |
| `handler_live` | 2 endpoints, 1 thread, 2 datagrams, fairness; 245 k states | the session of a silent client ends |
| `handler_stale` | 1 endpoint, 1 thread | violated: a packet is thrown away with a "stale" connection |
| `socket` | 2 workers, 2 receive contexts, 1 send, 3 failures, 2 calls of Init, fairness; 124 k states | one holder per context; a send reported once; nothing freed in use; no deafness; sends settle; Start and Stop return; `DatagramPort` is implemented |
| `physics` | 2 threads, 1 id, 3 objects, 2 starts, fairness; 92 k states | maps lead to live objects; nothing leaks; no double release while up; calls return |
| `world` | 1 player who joins twice, 2 workers, 2 poses, 2 commands, 5 headings, turns of 1 and 3, fairness; 0.9 M states | commands once and in order, on live players; body and player together, save after an overlap or a failed placing; turns that are not small add up, save after an overlap; every command runs |

**Bounds, and why they are enough.** `MaxSeq`, `MaxFlight` and `MaxFaults` bound
the reliability protocol. A window of 2 with 3 packets reaches every case of
`Shifted` (a jump less than, equal to and greater than the window), of `FillsGap`
and of `IsStale`; two datagrams in flight are enough for one to overtake another;
the lopsided ends let one end mostly acknowledge, so that acknowledgements and
their acknowledgements both happen. The model stops before numbers wrap
(`NoWrapAssumption`); the circular order is translated but exercised only below
the half range. Two workers are the least that can race for a task, three tasks
more than the workers. In the packet handler two threads on two endpoints let one
thread hold a state while the other recreates it; `MaxDatagrams` 2 allows a join
and one more message, and `Submit` is not bounded. The same properties also hold
without symmetry (4.6 M states), and `SilentSessionEnds` on one endpoint with two
threads and three datagrams (0.8 M states). Symmetry is used for
invariants and for `WatchesClients`, a safety property that treats endpoints and threads
alike and is checked step by step; no liveness is checked under it.

In the socket two workers can each hold a context and dequeue the other's completions,
three failures cover a failing start, a refused post and a failed operation in one
behaviour, and two calls of `Init` a socket used again, or initialised twice. In the
physics engine an id has room for an object, its successor and one more after a restart;
two threads are what every race there needs. In `World` a second join makes the
player whose pointer a worker still holds a different object, and two workers overlap
on it; players do not interact, so one is enough. On a circle of 5 headings with `Nearness`
2 a turn of 1 is small and one of 3 is not, goes past the end of the circle when made twice,
and comes back close to where it began (3 + 3 is 1) without being small itself.

All configurations but `MCWorld.cfg` turn deadlock checking off, because the systems
really stop: when the bounded traffic is over, when the pool, the handler or the socket
is stopped, when the physics engine may not be started again. The tick of `World`
never stops.

**Fairness.** *Reliability*: the reliability thread runs every few milliseconds,
so a packet that stays unacknowledged is retransmitted (`Retransmit`) until it is
given up, and a decided acknowledgement is sent. A datagram in flight is received
unless lost, and losses are bounded. *ThreadPool*: a worker that can step does,
a task returns, a call that has begun goes on; nobody has to call anything, and
spurious wake-ups are not counted on. *PacketHandler*: strong fairness for a
thread's steps, since it competes for a mutex that the reliability thread releases
in every pass for at least its sleep; weak fairness for the reliability thread and for time; strong
fairness for `GiveUp`, because every pass in which a packet is due counts one
retry, and datagrams that could acknowledge it are bounded. *UdpSocket*: weak
fairness for the owner inside a call, for each worker, for a call of `SendData` past its
check and for the kernel, which completes what it has taken; strong fairness for taking
a send's completion from the queue, because other completions may come before it but not
for ever; nobody has to call `Init`, `Start`, `Stop` or `SendData`. *Physics*:
a call that has begun goes on (strong fairness where it waits for `m_physicsMutex`,
which every holder gives back); nobody has to call. *World*: weak fairness for the
simulation thread between two requests; requests are bounded.

## 4. Findings

Those with a run in brackets are shown by TLC in that run. The others came up in the
same models, and it is said how to see them; they have no run of their own because
the run that would show them asks the question of an existing one with a word changed.

1. **A payload can be processed twice** (`reliability_repeat`). A jump of exactly
   32 clears the bitfield although bit 31 could keep the old highest number. Its
   retransmission is then accepted again. The proof of `RepeatsConfined` shows that
   this is the only way: every repeated packet lies exactly `Window` behind. It cannot
   happen to users who keep fewer than `Window` numbers from the oldest packet still
   tracked to the last one sent, both counted: 31 of them in the code
   (`OnceUnderFlowControl`, theorem `FlowControlSuffices`). With `Window` of them it can
   (`<= Window` in `InSpan` is violated): with a window of 2, packet 1 is acknowledged
   while a copy of it is on its way, 2 and 3 are sent, 3 comes first and the jump of 2
   clears the bit of 1. Nothing in the code makes users keep within it.
2. **A hole that cannot be filled.** A packet overtaken by more than the window is
   neither accepted nor acknowledged, and is retransmitted until it costs the
   connection. Window 1 and the invariant `\A p \in Peers : \A s \in UnackedSeqs(p) \
   accepted[Other(p)] : highest[Other(p)] - s <= Window`.
3. **A forgotten acknowledgement.** An unreliable packet clears the pending flag; if it
   is lost, duplicates do not raise the flag again. `MCReliabilityLive.cfg` with
   `Traffic = {"data", "unreliable"}` violates `AckDebtIsHeld`.
4. **stop() may hang** (`threadpool_stop`). `stop_` is written and notified
   without the mutex and may fall between a worker's test and its sleep.
   `resume()` has the same gap, which is why `WorkIsNoticed` and `EveryTaskRuns`
   speak of pools that were never paused.
5. **A paused pool does not drain** (`threadpool_drain`). Workers spin and stop()
   never returns.
6. **A packet thrown away with a stale connection** (`handler_stale`). The list
   of unacknowledged packets is read without its mutex and before the erasure; a
   thread that holds the state may add a packet in between. The read is a data
   race as well; the model takes it to return the old or the new value.
7. **Aborted operations are not processed.** The comment in `UDPSocketAsync::Stop`
   expects the workers to see the operations that closing the socket aborts. They have
   left by then: `m_isRunning` is cleared first. In `UdpSocket` the invariant `owner =
   "releasing" => \A c \in Slots : kernel[c] = "none"` fails; sends end as `"lost"` and
   are never reported, although `SendData` had returned true.
8. **Stop of a socket that was not started does nothing** and leaks socket, port and
   contexts; a second `Init` then cannot bind (`InitAgain`).
9. **Controllers are released twice at shutdown**: by the controller manager and then
   from the map. `ReleasedOnceWhileUp` without its premise `manager` fails.
10. **A failing start of the physics engine locks a mutex it holds**
    (`InitializeLocksTwice`). If the library throws, the next `Initialize` reports
    success without a scene (`InitializeThrows`).
11. **Controllers are made without the scene's mutex**, against what `PhysicsEngine.h`
    says of it, so a shutdown may overtake it (`overtaken`).
12. **Small turns are dropped.** `SetOrientation` (`ActivePlayer.cpp:77`) keeps the old
    orientation when the new one is within about half a degree of it, and nothing
    accumulates the difference: a player who sends a small turn with every input does
    not turn. `TurnsAddUp` fails when `SetHeading` counts small turns too.

Seen while modelling and not counted as a violation, as nothing in the source
promises otherwise: `OnClientDisconnected` is called after the mutex is
released and names the client by its endpoint only, so a client that comes back
and joins in between loses the new session to the old notification
(`SessionIsWatched` still holds: the report ends that session, and `ConnectionWatch`
has to allow it); and a handler that has stopped may keep a
state that a late thread created after the maps were cleared. Two turns, or two rift
steps, of one player handled by two workers lose a write or part body and player
(`twisted`, `apart`); no comment promises that they do not. A player who joins again while
it is in the world is moved to the spawn before its controller is made; when that fails
(`GameEngine.cpp:38`, 55-57) its old body stays behind (`stranded`). A player may be removed
while a handler holds it, and pointers of the physics engine outlive the lock they were
read under. Two theorems say what callers would have to do about it
(`ExclusiveHandlersAreSafe`, `SerialCallsAreSafe`, section 5). Read but not modelled: the filter of the melee sweep never
returns `eTOUCH`, while the hits are read with `getNbTouches`, so no melee attack would
find a target.

## 5. Proofs

TLAPS checks the following for **every** value of the constants that satisfies
the named assumptions, not only for the instances above. Assumptions are the
`ASSUME`s of the modules: distinct ends, a window of at least 1, numbers that do
not wrap; finite sets of workers, callers, endpoints and contexts; bounds that are
numbers; `None` outside the sets it is no member of.

**Reliability** (`ReliabilityProofs`: `TypeCorrect`, `WindowCorrect`,
`HeadersCorrect`, `AcksCorrect`, `RepeatsConfined`). That nothing is retired
unseen is not inductive: it holds because headers are honest, however old; these
are honest because they were copied from a window that was truthful; and the
window is truthful because of what `Shifted` keeps. `Inv` is their conjunction
with `NumbersWereSent` (numbers tracked, in flight or accepted were handed out),
`AckHasRoom` and `Accounted`: every number handed out is tracked, was accepted, or was
given up. With `DroppedIsQuiet` (nothing is given up while the connection counts as
alive) that is `AckedWasAccepted`. `SequenceOrder` reduces the circular order to the usual one
below the half range; `ShiftedBits` is the lemma on the shift.

**Flow control** (`ReliabilityProofs`: `FlowControlSuffices`). `InSpan` says that
from the oldest packet an end tracks to the last it sent there are fewer than `Window`
numbers, both counted. Given `[]InSpan`, the
invariant `FlowInv` says that the bitfield remembers every accepted packet right up to its
edge (`Remembered`), and that what an end has not accepted lies less than `Window` behind
the other end's next number, the one past the last sent (`CloseBehind`): so the numbers that have not arrived never
let a new one jump `Window` or more, the bitfield is never cleared while it remembers
something, and a copy of an accepted packet is told from a new one.

**Sequence numbers across the wrap** (`ReliabilityProofs`: `OrderIsTotal`,
`GreaterIsAhead`, `AcksMissWrap`, `WindowCrossesWrap`). The protocol's proofs
stop at the half range; these are about the operators alone and hold on the whole
circle. Of two numbers exactly one is the greater, namely the one with the shorter way
ahead to it; the window keeps its meaning over the wrap, since distances add up; and the
acknowledgement test (`Acknowledges`) retires only the acknowledged number and numbers
with their bit set, but of the latter only those below the acknowledged number by size,
because it compares with a plain `<`: a packet from before the wrap that is acknowledged
after it stays tracked.

**Refinement** (`ReliabilityRefines`: `Refinement`). Sending is `Submit`,
receiving is `Arrive`, a retransmission pass is `Abandon` (of no packet as a rule),
all else stutters. It needs one more invariant, `TrackedOnce`: a number is tracked
once, or a pass could give up one copy and keep the other.

**ThreadPool** (`ThreadPoolProofs`: `TypeCorrect`, `NoTaskLostOrRepeated`,
`StopIsComplete`, `EnqueueWakes`). `Inv` adds that a running worker has a task,
that a worker leaves only a stopped pool with an empty queue, where the owner
stands in stop(), and that a worker about to sleep holds the mutex, so that
the queue is still as it saw it. `EnqueueWakes` counts: the tasks of the queue
against the workers awake and the notifications on their way. `Refinement` maps
`Enqueue` to `Accept`, `Take` to `Begin`, `Finish` to `End`, `ClearQueue` to `Throw`,
`Pause` and `BeginResume` to `Hold`, `BeginStop` to `Close`, `Join` to `Return`; it
rests on `Inv` where a task must be new or under way in one place only, and where stop()
returns.

**PacketHandler** (`PacketHandlerProofs`: `TypeCorrect`, `MapsAgree`,
`DropsReported`, `SessionsWatched`). `Inv` adds `JobShape` (what a thread has in
hand at each place; only the two places between a lookup and the use of its
result hold a state), `LeftHasState` (what the visit has still to reach is in the
map, since nothing else erases while the mutex is held), `Phases` (Stop clears the
maps only after the reliability thread has left) and `Watch`, which is
`SessionIsWatched` without the thread whose state may be erased under it. `Refinement`
(of `ConnectionWatch`) needs one more, `VisitedOnce`: an endpoint whose drop is still to
be reported has been visited in this pass, or a client that came back could be
dropped a second time before the first report.

**Debt** (`ReliabilityDebt`: `DebtCorrect`). `AckDebtIsHeld` with the assumption
`Traffic \subseteq {"data"}`, without which it is false (finding 3). The invariant
`DebtInv` says where the acknowledgement is: pending, or in a packet that is kept until
it is acknowledged itself. When that happens the debt is paid, because a packet's
copies have one header (`OneHeader`) and whoever accepts a packet retires, in the same
call, what it acknowledges (`Settled`).

**UdpSocket** (`UdpSocketProofs`: `TypeCorrect`, `HoldersCorrect`, `ReportsCorrect`,
`FreeingCorrect`, `IdleCorrect`, `Refinement`). That nothing is freed in use holds
because `Join` precedes `CloseIocp`, so the invariant says for each place of the
owner what the workers may still be; that the server does not go deaf is a count of
idle contexts against refused posts, carried through the loop of `Start`.

**Physics** (`PhysicsProofs`: `TypeCorrect`, `LookupCorrect`, `LeakCorrect`,
`ReleaseCorrect`). The inductive part says that the maps and the calls in progress share
no object, so that who has taken an object out of a map is the only one to release it,
that the manager owns exactly the controllers there are, and how far a `Shutdown` has got.
`SerialCallsAreSafe` is a contract for callers: from `[]Serial` (no two calls overlap) it
follows that every pointer about to be used leads to a live object (`PointerIsLive`),
after any number of restarts. Without `Serial` TLC finds a dead pointer at once.

**World** (`WorldProofs`: `TypeCorrect`, `OrderCorrect`, `CommandPlayerCorrect`,
`BodyCorrect`, `TurnsCorrect`). `BatchInUse` ties the batch to the places of the tick;
`StepsAlone` and `TurnsAlone` say that a player not marked `apart` or `twisted` has at
most one writer, who holds the living object and a value read from it. That `turned` and
the heading stay equal where `SetOrientation` may refuse to write rests on `CloseAhead`:
the heading a turn leads to is close to the one it starts from exactly when the turn is
small, wherever on the circle it starts. `ExclusiveHandlersAreSafe` is the contract for
handlers: from `[]Exclusive` (handlers of one player do not overlap each other, nor the
player's placing, removal or reconciliation) follow `HandlerPlayerIsLive`,
`EveryTurnShows` and `EveryBodyFollows`, which know no exception for overlaps; small turns
are dropped under it too, and a failed placing still strands a body.
This theorem and `SerialCallsAreSafe` have no run of their own; the theorems about
sequence numbers, being about operators, have none either.

**Only model-checked.** Liveness (`NeverSilentlyLost`, `EveryTaskRuns`,
`SilentSessionEnds`, `EverySendSettles`, `EveryCommandRuns`, `CallsReturn` of the socket
and of the physics engine), which needs fairness and ENABLED and is out of the prover's
reach; and the violated properties.

## 6. Not modelled, and why

Of the repository's code lines about four fifths are FlatBuffers headers generated from
the schemas, in six copies and versions, and several directories are duplicates of each
other. They keep no state and decide nothing, so they are outside the map; so is all that
follows.

* Round-trip estimation and timer values: abstracted to "may be due".
* Wrap-around of sequence numbers, after 2^31 packets of one connection. The circular
  order is translated and proved about on the whole circle, and the model stops before
  the half range.
* A connection dropped at one end and made anew there, while the other end goes on
  with its old numbers: `Reliability` has one generation, `PacketHandler` no numbers.
* `OnSendCompleted` and `OnNetworkError` only log. `SendAckPacket`, `Reset`,
  `ForceAcknowledge` and the fragment buffer have no caller.
* Allocation failure in `GetOrCreateReliabilityState`.
* A player's health, will, stats, effects and cooldowns: the functions that change them have
  no caller, or (cooldown of a rift step) the test that would read them has no
  body. `CalculateRiftStep`, `ReconcilePhysicsState` and the processing of requests by the
  server engine have none either, and stand as external choices; `UpdateWorldState` has an
  empty one.
* Movement and ability handlers queue tasks whose work is commented out; the basic attack
  handler calls the engine with parameters it does not have.
* The event bus: nothing subscribes.
* Formatters, FlatBuffers, logging, terrain, queries, filtering, combat geometry and the
  PhysX simulation: no state of their own, or numeric code.
* The end of the simulation loop (`m_isSimulatingThread`).
* Two callers of the thread pool's stop() at once, or a task that calls it.

## 7. Plan

Done, in this order: `Reliability` (with `Channel`), `ThreadPool`, `PacketHandler`,
`UdpSocket` (with `DatagramPort`), `Physics`, `World`, and the debt of the protocol, each
with its proofs; then the abstract specifications `TaskQueue` and `ConnectionWatch` with
their refinements, and the contracts under which the findings cannot happen. What would
come next, as the code grows:

1. **Generations**: `Reliability` with states dropped and made anew at one end, as
   `PacketHandler` allows, and an instance with a small `SeqMod` in which numbers wrap.
   The lemmas on the whole circle are there for it.
2. **Vitals**: health, the dead state and cooldowns, once damage is applied and abilities
   are run by the handlers; 32-bit health with a small width.
3. **EventBus**, once somebody subscribes.
4. **Sessions**, once the server engine has bodies for them: composed with
   `PacketHandler`, whose external game server they would replace.
