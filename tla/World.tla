------------------------------- MODULE World -------------------------------
(***************************************************************************)
(* The players of a shard: PlayerManager's map, the pose a player has and  *)
(* the pose of its body in the physics engine, the commands pushed to the  *)
(* shard, the simulation thread (SimulationTick, ShardEngine::Update) and  *)
(* the network workers, which run the message handlers.                    *)
(*                                                                         *)
(* A player's objects are numbered in the order of their construction: the *)
(* pointer a worker holds is such a number, 0 the null pointer, and only   *)
(* the last object exists.  Positions are the rift steps that led to them, *)
(* 0 where the player spawned; headings lie on a circle, 0 at the spawn.   *)
(* Attacks change nothing here but the commands they answer.  When players *)
(* join, leave and push commands is decided outside the code, and so is    *)
(* which players a reconciliation puts where their bodies stand.           *)
(***************************************************************************)
EXTENDS Naturals, Sequences

CONSTANTS
    Ids,          \* player ids
    Workers,      \* network workers
    MaxJoins,     \* bound: joins
    MaxWrites,    \* bound: poses computed, by rift steps and turns
    MaxCommands,  \* bound: commands pushed
    Circle,       \* headings on the circle
    Nearness,     \* headings less than this apart are close
    Angles,       \* angles of turns
    None          \* no id, and no pose

ASSUME NoneAssumption == None \notin Ids \cup Nat
ASSUME CircleAssumption ==
    Circle \in Nat \ {0} /\ Nearness \in Nat /\ Angles \subseteq 0 .. Circle - 1
ASSUME BoundsAssumption == {MaxJoins, MaxWrites, MaxCommands} \subseteq Nat

VARIABLES
    players,   \* m_playersById: each player's object, 0 without one
    born,      \* objects constructed for each player
    position,  \* position of each player
    heading,   \* and its orientation
    body,      \* pose of the controller registered for the player, or None
    seen,      \* pose the reconciliation read for a player it is about to write
    simAt,     \* where the simulation thread stands
    simId,     \* the player it works for
    simPlayer, \* and the player's object
    queue,     \* m_commandQueue
    batch,     \* commandsToProcess, without the commands done
    at,        \* where each worker stands
    id,        \* the player its message is from
    player,    \* the object it found
    value,     \* the pose it is about to write
    delta,     \* the angle of its turn
    held,      \* workers whose controller is the one registered
    pushed,    \* history: commands pushed
    ran,       \* history: number of the last command processed
    joins,     \* history: joins
    writes,    \* history: poses computed
    turned,    \* history: sum of the turns of each player since it was placed
    apart,     \* history: players whose position had two writers at a time
    stranded,  \* history: players placed while their old controller stayed behind
    twisted    \* history: players whose heading had two writers at a time

manager == <<players, born>>
poses == <<position, heading, body, seen>>
simVars == <<simAt, simId, simPlayer>>
commands == <<queue, batch, pushed, ran>>
workerVars == <<at, id, player, value, delta, held>>
overlaps == <<turned, apart, stranded, twisted>>
counters == <<joins, writes>>

worldVars == <<manager, poses, simVars, commands, workerVars, overlaps, counters>>

WorldInit ==
    /\ players = [i \in Ids |-> 0]
    /\ born = [i \in Ids |-> 0]
    /\ position = [i \in Ids |-> 0]
    /\ heading = [i \in Ids |-> 0]
    /\ body = [i \in Ids |-> None]
    /\ seen = [i \in Ids |-> None]
    /\ simAt = "requests"
    /\ simId = None
    /\ simPlayer = 0
    /\ queue = << >>
    /\ batch = << >>
    /\ at = [w \in Workers |-> "outside"]
    /\ id = [w \in Workers |-> None]
    /\ player = [w \in Workers |-> 0]
    /\ value = [w \in Workers |-> 0]
    /\ delta = [w \in Workers |-> 0]
    /\ held = {}
    /\ pushed = 0
    /\ ran = 0
    /\ joins = 0
    /\ writes = 0
    /\ turned = [i \in Ids |-> 0]
    /\ apart = {}
    /\ stranded = {}
    /\ twisted = {}

\* Workers in the middle of a rift step, or of a turn, of a player.
Stepping(i) == {w \in Workers : at[w] \in {"stepping", "seeking", "posing", "moving"} /\ id[w] = i}
Turning(i) == {w \in Workers : at[w] \in {"turning", "heading"} /\ id[w] = i}

\* The heading d further round, and when SetOrientation takes two for the same.
Ahead(h, d) == IF h + d >= Circle THEN h + d - Circle ELSE h + d
Gap(h, g) == IF h >= g THEN h - g ELSE g - h
Close(h, g) == Gap(h, g) < Nearness \/ Circle - Gap(h, g) < Nearness
Small(d) == Close(0, d)

\* ActivePlayer::SetOrientation: a heading close to the one there is not written.
Oriented(i, h) == IF Close(heading[i], h) THEN heading[i] ELSE h

\* The workers who hold the controller of a player.
Holding(i) == {w \in held : id[w] = i}

-----------------------------------------------------------------------------
(* The simulation thread answers requests, then updates the shard.          *)
(*   requests   between two updates                                         *)
(*   placing    CreatePlayer is done, InitializePlayerInWorld begins        *)
(*   embodying  position and heading are set, the controller is next        *)
(*   removing   the controller is gone, RemovePlayer is next                *)
(*   commands   in ProcessPlayerCommands                                    *)
(*   attacking  found the player of a command, runs ExecuteBasicAttack      *)
(*   updating   world state and physics, then reads for the reconciliation  *)
(*   reconciling  about to write what it read to the players                *)

SimGoto(place, i, o) ==
    /\ simAt' = place
    /\ simId' = i
    /\ simPlayer' = o

SimRests(place) == SimGoto(place, None, 0)

\* CreatePlayer gives a player that exists its own object again.
Join(i) ==
    /\ simAt = "requests"
    /\ joins < MaxJoins
    /\ joins' = joins + 1
    /\ IF players[i] # 0
       THEN SimGoto("placing", i, players[i]) /\ UNCHANGED <<manager, poses, overlaps>>
       ELSE /\ born' = [born EXCEPT ![i] = @ + 1]
            /\ players' = [players EXCEPT ![i] = born[i] + 1]
            /\ position' = [position EXCEPT ![i] = 0]
            /\ heading' = [heading EXCEPT ![i] = 0]
            /\ turned' = [turned EXCEPT ![i] = 0]
            /\ SimGoto("placing", i, born[i] + 1)
            /\ UNCHANGED <<body, seen, apart, stranded, twisted>>
    /\ UNCHANGED <<commands, workerVars, writes>>

Place ==
    /\ simAt = "placing"
    /\ position' = [position EXCEPT ![simId] = 0]
    /\ heading' = [heading EXCEPT ![simId] = Oriented(simId, 0)]
    /\ turned' = [turned EXCEPT ![simId] = Oriented(simId, 0)]
    /\ apart' = IF Stepping(simId) = {} THEN apart \ {simId} ELSE apart \cup {simId}
    /\ twisted' = IF Turning(simId) = {} THEN twisted \ {simId} ELSE twisted \cup {simId}
    /\ SimGoto("embodying", simId, simPlayer)
    /\ UNCHANGED <<manager, body, seen, stranded, commands, workerVars, counters>>

\* A controller registered before is replaced, and never released.
Embody ==
    /\ simAt = "embodying"
    /\ body' = [body EXCEPT ![simId] = position[simId]]
    /\ held' = held \ Holding(simId)
    /\ stranded' = stranded \ {simId}
    /\ SimRests("requests")
    /\ UNCHANGED <<manager, position, heading, seen, commands, at, id, player, value, delta,
                   turned, apart, twisted, counters>>

\* createController failed: the player keeps the controller it had before, which
\* stands where the player was, or has none.
EmbodyFails ==
    /\ simAt = "embodying"
    /\ stranded' = IF body[simId] = None THEN stranded ELSE stranded \cup {simId}
    /\ SimRests("requests")
    /\ UNCHANGED <<manager, poses, commands, workerVars, turned, apart, twisted, counters>>

\* Mutant: players leave while the simulation thread processes commands.
LeaveAnyTime(i) ==
    /\ simAt \in {"requests", "attacking"}
    /\ players' = [players EXCEPT ![i] = 0]
    /\ UNCHANGED <<born, poses, simVars, commands, workerVars, overlaps, counters>>

Leave(i) ==
    /\ simAt = "requests"
    /\ players[i] # 0
    /\ body' = [body EXCEPT ![i] = None]
    /\ held' = held \ Holding(i)
    /\ stranded' = stranded \ {i}
    /\ SimGoto("removing", i, players[i])
    /\ UNCHANGED <<manager, position, heading, seen, commands, at, id, player, value, delta,
                   turned, apart, twisted, counters>>

RemovePlayer ==
    /\ simAt = "removing"
    /\ players' = [players EXCEPT ![simId] = 0]
    /\ apart' = IF Stepping(simId) = {} THEN apart ELSE apart \cup {simId}
    /\ twisted' = IF Turning(simId) = {} THEN twisted ELSE twisted \cup {simId}
    /\ SimRests("requests")
    /\ UNCHANGED <<born, poses, commands, workerVars, turned, stranded, counters>>

\* Mutant: the batch is taken without emptying the queue.
UpdateCopies ==
    /\ simAt = "requests"
    /\ batch' = queue
    /\ SimRests(IF queue = << >> THEN "updating" ELSE "commands")
    /\ UNCHANGED <<manager, poses, queue, pushed, ran, workerVars, overlaps, counters>>

Update ==
    /\ simAt = "requests"
    /\ batch' = queue
    /\ queue' = << >>
    /\ SimRests(IF queue = << >> THEN "updating" ELSE "commands")
    /\ UNCHANGED <<manager, poses, pushed, ran, workerVars, overlaps, counters>>

\* The next command is done when its attack is, or when its player is gone.
Done(place) ==
    /\ ran' = Head(batch).number
    /\ batch' = Tail(batch)
    /\ SimRests(place)
    /\ UNCHANGED <<manager, poses, queue, pushed, workerVars, overlaps, counters>>

Skip == simAt = "commands" /\ batch # << >> /\ players[Head(batch).from] = 0 /\ Done("commands")

Attack ==
    /\ simAt = "commands"
    /\ batch # << >>
    /\ players[Head(batch).from] # 0
    /\ SimGoto("attacking", Head(batch).from, players[Head(batch).from])
    /\ UNCHANGED <<manager, poses, commands, workerVars, overlaps, counters>>

Attacked == simAt = "attacking" /\ Done("commands")

CommandsDone ==
    /\ simAt = "commands"
    /\ batch = << >>
    /\ SimRests("updating")
    /\ UNCHANGED <<manager, poses, commands, workerVars, overlaps, counters>>

\* ReconcilePhysicsState, which the sources only call, follows the step of the
\* physics: it may find any of the players away from their bodies.
ReadBodies ==
    /\ simAt = "updating"
    /\ \E found \in SUBSET {i \in Ids : players[i] # 0 /\ body[i] # None} :
          /\ seen' = [i \in Ids |-> IF i \in found THEN body[i] ELSE None]
          /\ apart' = (apart \ found) \cup {i \in found : Stepping(i) # {}}
          /\ stranded' = stranded \ found
    /\ SimRests("reconciling")
    /\ UNCHANGED <<manager, position, heading, body, commands, workerVars, turned, twisted,
                   counters>>

\* Mutant: the tick ends without going back to the requests.
UpdateDoneStays ==
    /\ simAt = "reconciling"
    /\ SimRests("reconciling")
    /\ UNCHANGED <<manager, poses, commands, workerVars, overlaps, counters>>

UpdateDone ==
    /\ simAt = "reconciling"
    /\ position' = [i \in Ids |-> IF seen[i] = None THEN position[i] ELSE seen[i]]
    /\ seen' = [i \in Ids |-> None]
    /\ SimRests("requests")
    /\ UNCHANGED <<manager, heading, body, commands, workerVars, overlaps, counters>>

-----------------------------------------------------------------------------
(* Network workers.                                                         *)
(*   stepping   a rift step: found the player, about to calculate           *)
(*   seeking    the outcome is known, the controller is looked up           *)
(*   posing     the controller is found, and about to be moved              *)
(*   moving     the controller is moved, the player is next                 *)
(*   turning    a turn: found the player, about to read its orientation     *)
(*   heading    the new orientation is computed, about to write it          *)

WorkerGoto(w, place, v) ==
    /\ at' = [at EXCEPT ![w] = place]
    /\ value' = [value EXCEPT ![w] = v]
    /\ UNCHANGED <<id, player, delta>>

WorkerReturns(w) ==
    /\ at' = [at EXCEPT ![w] = "outside"]
    /\ id' = [id EXCEPT ![w] = None]
    /\ player' = [player EXCEPT ![w] = 0]
    /\ value' = [value EXCEPT ![w] = 0]
    /\ delta' = [delta EXCEPT ![w] = 0]
    /\ UNCHANGED held

\* Mutant: a message from a player that is gone is not noticed.
FindUnchecked(w, i, place) ==
    /\ at[w] = "outside"
    /\ at' = [at EXCEPT ![w] = place]
    /\ id' = [id EXCEPT ![w] = i]
    /\ player' = [player EXCEPT ![w] = players[i]]
    /\ UNCHANGED <<value, held>>

\* A handler finds the player of its message and keeps the pointer.
Find(w, i, place) ==
    /\ at[w] = "outside"
    /\ players[i] # 0
    /\ at' = [at EXCEPT ![w] = place]
    /\ id' = [id EXCEPT ![w] = i]
    /\ player' = [player EXCEPT ![w] = players[i]]
    /\ UNCHANGED <<value, held>>

PlacedNow(i) == simAt \in {"placing", "embodying"} /\ simId = i

PushCommand(i) ==
    /\ pushed < MaxCommands
    /\ pushed' = pushed + 1
    /\ queue' = Append(queue, [number |-> pushed + 1, from |-> i])
    /\ UNCHANGED <<manager, poses, simVars, batch, ran, workerVars, overlaps, counters>>

RiftStep(w, i) ==
    /\ Find(w, i, "stepping")
    /\ apart' = IF Stepping(i) = {} /\ ~PlacedNow(i) /\ seen[i] = None
                THEN apart ELSE apart \cup {i}
    /\ UNCHANGED <<manager, poses, simVars, commands, delta, turned, stranded, twisted, counters>>

Calculate(w) ==
    /\ at[w] = "stepping"
    /\ writes < MaxWrites
    /\ writes' = writes + 1
    /\ WorkerGoto(w, "seeking", writes + 1)
    /\ UNCHANGED <<manager, poses, simVars, commands, held, overlaps, joins>>

CalculateFails(w) ==
    /\ at[w] = "stepping"
    /\ WorkerReturns(w)
    /\ UNCHANGED <<manager, poses, simVars, commands, overlaps, counters>>

\* The controller is looked up by the player's id, whoever's it is by now.
Seek(w) ==
    /\ at[w] = "seeking"
    /\ IF body[id[w]] = None
       THEN WorkerGoto(w, "moving", value[w]) /\ UNCHANGED held
       ELSE WorkerGoto(w, "posing", value[w]) /\ held' = held \cup {w}
    /\ UNCHANGED <<manager, poses, simVars, commands, overlaps, counters>>

\* What is written to a controller that is not the player's any more is lost, or
\* lands in one made since in the same place.
Pose(w) ==
    /\ at[w] = "posing"
    /\ \/ /\ body[id[w]] # None
          /\ body' = [body EXCEPT ![id[w]] = value[w]]
          /\ stranded' = stranded \ {id[w]}
       \/ w \notin held /\ UNCHANGED <<body, stranded>>
    /\ held' = held \ {w}
    /\ WorkerGoto(w, "moving", value[w])
    /\ UNCHANGED <<manager, position, heading, seen, simVars, commands, turned, apart, twisted,
                   counters>>

\* What the worker holds is no player any more: what it writes is lost, or lands
\* in an object made since in the same place.
Gone(w) == player[w] # players[id[w]]

\* Mutant: the controller is moved and the player is not.
MoveBodyOnly(w) ==
    /\ at[w] = "moving"
    /\ WorkerReturns(w)
    /\ UNCHANGED <<manager, poses, simVars, commands, overlaps, counters>>

Move(w) ==
    /\ at[w] = "moving"
    /\ \/ position' = [position EXCEPT ![id[w]] = value[w]]
       \/ Gone(w) /\ UNCHANGED position
    /\ WorkerReturns(w)
    /\ UNCHANGED <<manager, heading, body, seen, simVars, commands, overlaps, counters>>

Turn(w, i) ==
    /\ Find(w, i, "turning")
    /\ \E d \in Angles : delta' = [delta EXCEPT ![w] = d]
    /\ twisted' = IF Turning(i) = {} /\ ~PlacedNow(i) THEN twisted ELSE twisted \cup {i}
    /\ UNCHANGED <<manager, poses, simVars, commands, turned, apart, stranded, counters>>

\* Mutant: the turn starts from the orientation of the spawn.
ReadSpawnHeading(w) ==
    /\ at[w] = "turning"
    /\ writes < MaxWrites
    /\ writes' = writes + 1
    /\ WorkerGoto(w, "heading", delta[w])
    /\ UNCHANGED <<manager, poses, simVars, commands, held, overlaps, joins>>

ReadHeading(w) ==
    /\ at[w] = "turning"
    /\ writes < MaxWrites
    /\ writes' = writes + 1
    /\ WorkerGoto(w, "heading", Ahead(heading[id[w]], delta[w]))
    /\ UNCHANGED <<manager, poses, simVars, commands, held, overlaps, joins>>

SetHeading(w) ==
    /\ at[w] = "heading"
    /\ \/ heading' = [heading EXCEPT ![id[w]] = Oriented(id[w], value[w])]
       \/ Gone(w) /\ UNCHANGED heading
    /\ turned' = IF Gone(w) \/ Small(delta[w]) THEN turned
                 ELSE [turned EXCEPT ![id[w]] = Ahead(@, delta[w])]
    /\ WorkerReturns(w)
    /\ UNCHANGED <<manager, position, body, seen, simVars, commands, apart, stranded, twisted,
                   counters>>

-----------------------------------------------------------------------------
SimGoesOn ==
    \/ Place \/ Embody \/ EmbodyFails \/ RemovePlayer
    \/ Update \/ Skip \/ Attack \/ Attacked \/ CommandsDone \/ ReadBodies \/ UpdateDone

WorkerNext(w) ==
    \/ \E i \in Ids : RiftStep(w, i) \/ Turn(w, i)
    \/ Calculate(w) \/ CalculateFails(w) \/ Seek(w) \/ Pose(w) \/ Move(w)
    \/ ReadHeading(w) \/ SetHeading(w)

WorldNext ==
    \/ SimGoesOn
    \/ \E i \in Ids : Join(i) \/ Leave(i) \/ PushCommand(i)
    \/ \E w \in Workers : WorkerNext(w)

WorldSpec == WorldInit /\ [][WorldNext]_worldVars

\* The simulation thread keeps running; it cannot take requests for ever, for
\* MaxJoins bounds them.
FairWorldSpec == WorldSpec /\ WF_worldVars(SimGoesOn)

-----------------------------------------------------------------------------
SimPlaces ==
    {"requests", "placing", "embodying", "removing", "commands", "attacking", "updating",
     "reconciling"}
WorkerPlaces == {"outside", "stepping", "seeking", "posing", "moving", "turning", "heading"}
Headings == 0 .. Circle - 1

Commands == [number : 1 .. MaxCommands, from : Ids]

\* Every variable has its type; a pointer is null exactly while nobody needs it,
\* and the map leads to the last object made for a player or to none.
WorldTypeOK ==
    /\ players \in [Ids -> Nat]
    /\ born \in [Ids -> Nat]
    /\ position \in [Ids -> Nat]
    /\ heading \in [Ids -> Headings]
    /\ body \in [Ids -> Nat \cup {None}]
    /\ seen \in [Ids -> Nat \cup {None}]
    /\ simAt \in SimPlaces
    /\ simId \in Ids \cup {None}
    /\ simPlayer \in Nat
    /\ queue \in Seq(Commands)
    /\ batch \in Seq(Commands)
    /\ at \in [Workers -> WorkerPlaces]
    /\ id \in [Workers -> Ids \cup {None}]
    /\ player \in [Workers -> Nat]
    /\ value \in [Workers -> Nat]
    /\ delta \in [Workers -> Headings]
    /\ held \subseteq Workers
    /\ pushed \in 0 .. MaxCommands
    /\ ran \in 0 .. MaxCommands
    /\ joins \in 0 .. MaxJoins
    /\ writes \in 0 .. MaxWrites
    /\ turned \in [Ids -> Headings]
    /\ apart \subseteq Ids
    /\ stranded \subseteq Ids
    /\ twisted \subseteq Ids
    /\ \A w \in Workers :
          /\ at[w] = "outside" <=> id[w] = None
          /\ at[w] = "outside" <=> player[w] = 0
          /\ w \in held => at[w] = "posing" /\ body[id[w]] # None
          /\ at[w] = "heading" => value[w] \in Headings
    /\ simAt \in {"placing", "embodying", "removing", "attacking"} => simId \in Ids /\ simPlayer # 0
    /\ simAt # "reconciling" => \A i \in Ids : seen[i] = None
    /\ \A i \in Ids : players[i] \in {0, born[i]}

\* Commands are processed in the order in which they were pushed, each once, and
\* none is lost between the queue, the batch of an update and the next update.
CommandsInOrder ==
    /\ ran + Len(batch) + Len(queue) = pushed
    /\ \A k \in 1 .. Len(batch) : batch[k].number = ran + k
    /\ \A k \in 1 .. Len(queue) : queue[k].number = ran + Len(batch) + k

\* The player for whom the simulation thread runs a command exists all the time:
\* it is that thread that removes players, between two updates.
CommandPlayerIsLive == simAt = "attacking" => simPlayer = players[simId]

\* The body in the physics engine stands where the player stands, except in the
\* middle of a rift step, of the player's placing and of its reconciliation.  Two
\* cases are exempt: apart, the player's position had two writers at a time
\* (ExecuteRiftStep writes the body, then the player, unlocked), until the player is
\* placed or reconciled alone; and stranded, its last placing failed to make a
\* controller and left an older one behind, until a rift step moves that one or the
\* player is placed, reconciled or removed.
BodyFollowsPlayer ==
    \A i \in Ids :
        (players[i] # 0 /\ body[i] # None /\ i \notin apart \cup stranded
            /\ ~PlacedNow(i) /\ seen[i] = None
            /\ \A w \in Stepping(i) : at[w] # "moving")
        => body[i] = position[i]

\* The heading of a player is the sum of its turns since it was placed: of those
\* that are not small, for SetOrientation drops each of the others, however many
\* they are.  Exempt are players whose heading had two writers at a time (TurnPlayer
\* reads the orientation and writes it, unlocked): two turns, or a turn and the
\* placing or the removal of its player.
TurnsAddUp == \A i \in Ids : players[i] # 0 /\ i \notin twisted => heading[i] = turned[i]

\* Every command pushed is processed.
EveryCommandRuns == \A n \in 1 .. MaxCommands : pushed >= n ~> ran >= n

=============================================================================
