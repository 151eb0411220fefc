---------------------------- MODULE WorldProofs ----------------------------
(***************************************************************************)
(* Safety of the shard's players, poses and commands for every number of   *)
(* players, workers, joins, rift steps, turns and commands.                *)
(***************************************************************************)
EXTENDS World, TLAPS

USE NoneAssumption, BoundsAssumption

\* The type invariant in four parts.
PlayerTypes ==
    /\ players \in [Ids -> Nat]
    /\ born \in [Ids -> Nat]
    /\ position \in [Ids -> Nat]
    /\ heading \in [Ids -> Headings]
    /\ body \in [Ids -> Nat \cup {None}]
    /\ seen \in [Ids -> Nat \cup {None}]
    /\ turned \in [Ids -> Headings]
    /\ apart \subseteq Ids
    /\ stranded \subseteq Ids
    /\ twisted \subseteq Ids
    /\ \A i \in Ids : players[i] \in {0, born[i]}

SimTypes ==
    /\ simAt \in SimPlaces
    /\ simId \in Ids \cup {None}
    /\ simPlayer \in Nat
    /\ simAt \in {"placing", "embodying", "removing", "attacking"} => simId \in Ids /\ simPlayer # 0
    /\ simAt # "reconciling" => \A i \in Ids : seen[i] = None

CommandTypes ==
    /\ queue \in Seq(Commands)
    /\ batch \in Seq(Commands)
    /\ pushed \in 0 .. MaxCommands
    /\ ran \in 0 .. MaxCommands

WorkerTypes ==
    /\ at \in [Workers -> WorkerPlaces]
    /\ id \in [Workers -> Ids \cup {None}]
    /\ player \in [Workers -> Nat]
    /\ value \in [Workers -> Nat]
    /\ delta \in [Workers -> Headings]
    /\ held \subseteq Workers
    /\ joins \in 0 .. MaxJoins
    /\ writes \in 0 .. MaxWrites
    /\ \A w \in Workers :
          /\ at[w] = "outside" <=> id[w] = None
          /\ at[w] = "outside" <=> player[w] = 0
          /\ w \in held => at[w] = "posing" /\ body[id[w]] # None
          /\ at[w] = "heading" => value[w] \in Headings

\* There is a batch only while the shard processes commands, and a command while
\* it runs one.
BatchInUse ==
    /\ simAt \notin {"commands", "attacking"} => batch = << >>
    /\ simAt = "attacking" => batch # << >>

\* Where the writers of a position did not overlap, one worker is in a rift step,
\* with the player that is there and the controller that is there, and it has moved
\* the body to where it is about to move the player; none is while the player's body
\* is made or the player is reconciled with its body, which stays where it was read;
\* and a body taken away stays away.
StepsAlone ==
    \A i \in Ids :
        i \notin apart =>
            /\ \A w, u \in Stepping(i) : w = u
            /\ \A w \in Stepping(i) :
                  /\ player[w] = players[i]
                  /\ at[w] = "posing" /\ body[i] # None => w \in held
                  /\ at[w] = "moving" /\ body[i] # None => body[i] = value[w]
            /\ simAt = "embodying" /\ simId = i => Stepping(i) = {}
            /\ simAt = "removing" /\ simId = i => body[i] = None
            /\ seen[i] # None => Stepping(i) = {} /\ seen[i] = body[i]

\* Where turns did not overlap, one worker is in one, with the player that is
\* there, and it goes on from the heading that player has.
TurnsAlone ==
    \A i \in Ids :
        i \notin twisted =>
            /\ \A w, u \in Turning(i) : w = u
            /\ \A w \in Turning(i) :
                  /\ player[w] = players[i]
                  /\ at[w] = "heading" => value[w] = Ahead(heading[i], delta[w])

WorldInv ==
    /\ WorldTypeOK /\ BatchInUse /\ CommandsInOrder /\ CommandPlayerIsLive
    /\ StepsAlone /\ BodyFollowsPlayer /\ TurnsAlone /\ TurnsAddUp

-----------------------------------------------------------------------------
(* Headings on the circle.                                                  *)

\* The heading of the spawn is one.
LEMMA SpawnHeading == 0 \in Headings
  BY CircleAssumption DEF Headings

\* A turn leads from one heading to another.
LEMMA AheadTypes ==
    ASSUME NEW h \in Headings, NEW d \in Headings
    PROVE  Ahead(h, d) \in Headings
  BY CircleAssumption DEF Ahead, Headings

\* What SetOrientation takes for the same depends on the angle of the turn alone.
LEMMA CloseAhead ==
    ASSUME NEW h \in Headings, NEW d \in Headings
    PROVE  Close(h, Ahead(h, d)) <=> Small(d)
  <1>1. Gap(0, d) = d
    BY CircleAssumption DEF Gap, Headings
  <1>2. Gap(h, Ahead(h, d)) = d \/ Gap(h, Ahead(h, d)) = Circle - d
    BY CircleAssumption DEF Gap, Ahead, Headings
  <1>3. QED
    BY <1>1, <1>2, CircleAssumption DEF Close, Small, Headings

\* SetOrientation writes a heading, or leaves one.
LEMMA OrientedTypes ==
    ASSUME PlayerTypes, NEW i \in Ids, NEW h \in Headings
    PROVE  Oriented(i, h) \in Headings
  BY DEF Oriented, PlayerTypes

-----------------------------------------------------------------------------
(* One lemma per conjunct of the invariant, one step per action.            *)

\* PlayerTypes is preserved.
LEMMA PlayerTypesStep ==
    ASSUME PlayerTypes, SimTypes, WorkerTypes, [WorldNext]_worldVars
    PROVE  PlayerTypes'
  <1>1. CASE Place
    <2>1. simId \in Ids /\ Oriented(simId, 0) \in Headings
      BY <1>1, OrientedTypes, SpawnHeading DEF Place, SimTypes
    <2>2. QED
      BY <1>1, <2>1 DEF Place, SimGoto, manager, commands, workerVars, counters, PlayerTypes
  <1>2. CASE Embody
    BY <1>2 DEF Embody, SimRests, SimGoto, Holding, manager, commands, counters,
       PlayerTypes, SimTypes, WorkerTypes
  <1>3. CASE EmbodyFails
    BY <1>3 DEF EmbodyFails, SimRests, SimGoto, manager, poses, commands, workerVars,
       counters, PlayerTypes, SimTypes, WorkerTypes
  <1>4. CASE RemovePlayer
    BY <1>4 DEF RemovePlayer, SimRests, SimGoto, poses, commands, workerVars, counters,
       PlayerTypes, SimTypes, WorkerTypes
  <1>5. CASE Update
    BY <1>5 DEF Update, SimRests, SimGoto, manager, poses, workerVars, overlaps, counters,
       PlayerTypes, SimTypes, WorkerTypes
  <1>6. CASE Skip
    BY <1>6 DEF Skip, Done, SimRests, SimGoto, manager, poses, workerVars, overlaps,
       counters, PlayerTypes, SimTypes, WorkerTypes
  <1>7. CASE Attack
    BY <1>7 DEF Attack, SimGoto, manager, poses, commands, workerVars, overlaps, counters,
       PlayerTypes, SimTypes, WorkerTypes
  <1>8. CASE Attacked
    BY <1>8 DEF Attacked, Done, SimRests, SimGoto, manager, poses, workerVars, overlaps,
       counters, PlayerTypes, SimTypes, WorkerTypes
  <1>9. CASE CommandsDone
    BY <1>9 DEF CommandsDone, SimRests, SimGoto, manager, poses, commands, workerVars,
       overlaps, counters, PlayerTypes, SimTypes, WorkerTypes
  <1>10. CASE ReadBodies
    BY <1>10 DEF ReadBodies, SimRests, SimGoto, manager, commands, workerVars, counters,
       PlayerTypes, SimTypes, WorkerTypes
  <1>11. CASE UpdateDone
    BY <1>11 DEF UpdateDone, SimRests, SimGoto, manager, commands, workerVars, overlaps,
       counters, PlayerTypes, SimTypes, WorkerTypes
  <1>12. ASSUME NEW i \in Ids, Join(i)
         PROVE  PlayerTypes'
    BY SMTT(30), <1>12, SpawnHeading DEF Join, SimGoto, manager, poses, overlaps, PlayerTypes,
       SimTypes
  <1>13. ASSUME NEW i \in Ids, Leave(i)
         PROVE  PlayerTypes'
    BY <1>13 DEF Leave, SimGoto, Holding, manager, commands, counters, PlayerTypes,
       SimTypes, WorkerTypes
  <1>14. ASSUME NEW i \in Ids, PushCommand(i)
         PROVE  PlayerTypes'
    BY <1>14 DEF PushCommand, manager, poses, simVars, workerVars, overlaps, counters,
       PlayerTypes, SimTypes, WorkerTypes
  <1>15. ASSUME NEW w \in Workers, NEW i \in Ids, RiftStep(w, i)
         PROVE  PlayerTypes'
    BY <1>15 DEF RiftStep, Find, manager, poses, simVars, commands, counters, PlayerTypes,
       SimTypes, WorkerTypes
  <1>16. ASSUME NEW w \in Workers, NEW i \in Ids, Turn(w, i)
         PROVE  PlayerTypes'
    BY <1>16 DEF Turn, Find, manager, poses, simVars, commands, counters, PlayerTypes,
       SimTypes, WorkerTypes
  <1>17. ASSUME NEW w \in Workers, Calculate(w)
         PROVE  PlayerTypes'
    BY <1>17 DEF Calculate, WorkerGoto, manager, poses, simVars, commands, overlaps,
       PlayerTypes, SimTypes, WorkerTypes
  <1>18. ASSUME NEW w \in Workers, CalculateFails(w)
         PROVE  PlayerTypes'
    BY <1>18 DEF CalculateFails, WorkerReturns, manager, poses, simVars, commands, overlaps,
       counters, PlayerTypes, SimTypes, WorkerTypes
  <1>19. ASSUME NEW w \in Workers, Seek(w)
         PROVE  PlayerTypes'
    BY <1>19 DEF Seek, WorkerGoto, manager, poses, simVars, commands, overlaps, counters,
       PlayerTypes, SimTypes, WorkerTypes
  <1>20. ASSUME NEW w \in Workers, Pose(w)
         PROVE  PlayerTypes'
    BY <1>20 DEF Pose, WorkerGoto, manager, simVars, commands, counters, PlayerTypes,
       SimTypes, WorkerTypes
  <1>21. ASSUME NEW w \in Workers, Move(w)
         PROVE  PlayerTypes'
    BY <1>21 DEF Move, WorkerReturns, Gone, manager, simVars, commands, overlaps, counters,
       PlayerTypes, SimTypes, WorkerTypes
  <1>22. ASSUME NEW w \in Workers, ReadHeading(w)
         PROVE  PlayerTypes'
    BY <1>22 DEF ReadHeading, WorkerGoto, manager, poses, simVars, commands, overlaps,
       PlayerTypes, SimTypes, WorkerTypes
  <1>23. ASSUME NEW w \in Workers, SetHeading(w)
         PROVE  PlayerTypes'
    <2>1. id[w] \in Ids
      BY <1>23 DEF SetHeading, WorkerTypes
    <2>2. Oriented(id[w], value[w]) \in Headings
      BY <1>23, <2>1, OrientedTypes DEF SetHeading, WorkerTypes
    <2>3. Ahead(turned[id[w]], delta[w]) \in Headings
      BY <2>1, AheadTypes DEF PlayerTypes, WorkerTypes
    <2>4. heading' \in [Ids -> Headings]
      BY <1>23, <2>1, <2>2 DEF SetHeading, PlayerTypes
    <2>5. turned' \in [Ids -> Headings]
      BY <1>23, <2>1, <2>3 DEF SetHeading, PlayerTypes
    <2>6. QED
      BY <1>23, <2>4, <2>5 DEF SetHeading, manager, PlayerTypes
  <1>24. CASE UNCHANGED worldVars
    BY <1>24 DEF worldVars, manager, poses, simVars, commands, workerVars, overlaps,
       counters, PlayerTypes, SimTypes, WorkerTypes
  <1>25. QED
    BY <1>1, <1>2, <1>3, <1>4, <1>5, <1>6, <1>7, <1>8, <1>9, <1>10, <1>11, <1>12, <1>13,
       <1>14, <1>15, <1>16, <1>17, <1>18, <1>19, <1>20, <1>21, <1>22, <1>23, <1>24 DEF
       WorldNext, SimGoesOn, WorkerNext

\* SimTypes is preserved.
LEMMA SimTypesStep ==
    ASSUME PlayerTypes, SimTypes, CommandTypes, [WorldNext]_worldVars
    PROVE  SimTypes'
  <1>1. CASE Place
    BY <1>1 DEF Place, SimGoto, manager, commands, workerVars, counters, PlayerTypes,
       SimTypes, SimPlaces
  <1>2. CASE Embody
    BY <1>2 DEF Embody, SimRests, SimGoto, Holding, manager, commands, counters,
       PlayerTypes, SimTypes, SimPlaces
  <1>3. CASE EmbodyFails
    BY <1>3 DEF EmbodyFails, SimRests, SimGoto, manager, poses, commands, workerVars,
       counters, PlayerTypes, SimTypes, SimPlaces
  <1>4. CASE RemovePlayer
    BY <1>4 DEF RemovePlayer, SimRests, SimGoto, poses, commands, workerVars, counters,
       PlayerTypes, SimTypes, SimPlaces
  <1>5. CASE Update
    BY <1>5 DEF Update, SimRests, SimGoto, manager, poses, workerVars, overlaps, counters,
       PlayerTypes, SimTypes, SimPlaces
  <1>6. CASE Skip
    BY <1>6 DEF Skip, Done, SimRests, SimGoto, manager, poses, workerVars, overlaps,
       counters, PlayerTypes, SimTypes, SimPlaces
  <1>7. CASE Attack
    <2>1. Head(batch) \in Commands
      BY <1>7 DEF Attack, CommandTypes
    <2>2. QED
      BY <1>7, <2>1 DEF Attack, SimGoto, poses, PlayerTypes, SimTypes, SimPlaces, Commands
  <1>8. CASE Attacked
    BY <1>8 DEF Attacked, Done, SimRests, SimGoto, manager, poses, workerVars, overlaps,
       counters, PlayerTypes, SimTypes, SimPlaces
  <1>9. CASE CommandsDone
    BY <1>9 DEF CommandsDone, SimRests, SimGoto, manager, poses, commands, workerVars,
       overlaps, counters, PlayerTypes, SimTypes, SimPlaces
  <1>10. CASE ReadBodies
    BY <1>10 DEF ReadBodies, SimRests, SimGoto, manager, commands, workerVars, counters,
       PlayerTypes, SimTypes, SimPlaces
  <1>11. CASE UpdateDone
    BY <1>11 DEF UpdateDone, SimRests, SimGoto, manager, commands, workerVars, overlaps,
       counters, PlayerTypes, SimTypes, SimPlaces
  <1>12. ASSUME NEW i \in Ids, Join(i)
         PROVE  SimTypes'
    BY <1>12 DEF Join, SimGoto, manager, poses, commands, workerVars, overlaps, PlayerTypes,
       SimTypes, SimPlaces
  <1>13. ASSUME NEW i \in Ids, Leave(i)
         PROVE  SimTypes'
    BY <1>13 DEF Leave, SimGoto, Holding, manager, commands, counters, PlayerTypes,
       SimTypes, SimPlaces
  <1>14. ASSUME NEW i \in Ids, PushCommand(i)
         PROVE  SimTypes'
    BY <1>14 DEF PushCommand, manager, poses, simVars, workerVars, overlaps, counters,
       PlayerTypes, SimTypes, SimPlaces
  <1>15. ASSUME NEW w \in Workers, NEW i \in Ids, RiftStep(w, i)
         PROVE  SimTypes'
    BY <1>15 DEF RiftStep, Find, manager, poses, simVars, commands, counters, PlayerTypes,
       SimTypes, SimPlaces
  <1>16. ASSUME NEW w \in Workers, NEW i \in Ids, Turn(w, i)
         PROVE  SimTypes'
    BY <1>16 DEF Turn, Find, manager, poses, simVars, commands, counters, PlayerTypes,
       SimTypes, SimPlaces
  <1>17. ASSUME NEW w \in Workers, Calculate(w)
         PROVE  SimTypes'
    BY <1>17 DEF Calculate, WorkerGoto, manager, poses, simVars, commands, overlaps,
       PlayerTypes, SimTypes, SimPlaces
  <1>18. ASSUME NEW w \in Workers, CalculateFails(w)
         PROVE  SimTypes'
    BY <1>18 DEF CalculateFails, WorkerReturns, manager, poses, simVars, commands, overlaps,
       counters, PlayerTypes, SimTypes, SimPlaces
  <1>19. ASSUME NEW w \in Workers, Seek(w)
         PROVE  SimTypes'
    BY <1>19 DEF Seek, WorkerGoto, manager, poses, simVars, commands, overlaps, counters,
       PlayerTypes, SimTypes, SimPlaces
  <1>20. ASSUME NEW w \in Workers, Pose(w)
         PROVE  SimTypes'
    BY <1>20 DEF Pose, WorkerGoto, manager, simVars, commands, counters, PlayerTypes,
       SimTypes, SimPlaces
  <1>21. ASSUME NEW w \in Workers, Move(w)
         PROVE  SimTypes'
    BY <1>21 DEF Move, WorkerReturns, Gone, manager, simVars, commands, overlaps, counters,
       PlayerTypes, SimTypes, SimPlaces
  <1>22. ASSUME NEW w \in Workers, ReadHeading(w)
         PROVE  SimTypes'
    BY <1>22 DEF ReadHeading, WorkerGoto, manager, poses, simVars, commands, overlaps,
       PlayerTypes, SimTypes, SimPlaces
  <1>23. ASSUME NEW w \in Workers, SetHeading(w)
         PROVE  SimTypes'
    BY <1>23 DEF SetHeading, WorkerReturns, Gone, manager, simVars, commands, counters,
       PlayerTypes, SimTypes, SimPlaces
  <1>24. CASE UNCHANGED worldVars
    BY <1>24 DEF worldVars, manager, poses, simVars, commands, workerVars, overlaps,
       counters, PlayerTypes, SimTypes, SimPlaces
  <1>25. QED
    BY <1>1, <1>2, <1>3, <1>4, <1>5, <1>6, <1>7, <1>8, <1>9, <1>10, <1>11, <1>12, <1>13,
       <1>14, <1>15, <1>16, <1>17, <1>18, <1>19, <1>20, <1>21, <1>22, <1>23, <1>24 DEF
       WorldNext, SimGoesOn, WorkerNext

\* What is left of a batch is a batch.
LEMMA DoneTypes ==
    ASSUME CommandTypes, BatchInUse, batch # << >>, NEW place, Done(place)
    PROVE  CommandTypes'
  <1>1. Head(batch) \in Commands /\ Tail(batch) \in Seq(Commands)
    BY DEF CommandTypes
  <1>2. QED
    BY <1>1 DEF CommandTypes, Done, SimRests, SimGoto, Commands

\* The next command done is the one after the last command done.
LEMMA DoneInOrder ==
    ASSUME CommandTypes, CommandsInOrder, batch # << >>, NEW place, Done(place)
    PROVE  CommandsInOrder'
  <1>1. /\ ran \in Nat /\ pushed \in Nat /\ Len(batch) \in Nat \ {0} /\ Len(queue) \in Nat
        /\ queue \in Seq(Commands) /\ batch \in Seq(Commands)
    BY DEF CommandTypes
  <1>2. ran' = ran + 1
    <2>1. Head(batch) = batch[1] /\ 1 \in 1 .. Len(batch)
      BY <1>1
    <2>2. batch[1].number = ran + 1
      BY <2>1 DEF CommandsInOrder
    <2>3. QED
      BY <2>1, <2>2 DEF Done
  <1>3. /\ Len(Tail(batch)) = Len(batch) - 1
        /\ \A k \in 1 .. Len(Tail(batch)) : Tail(batch)[k] = batch[k + 1]
    BY <1>1, SMTT(30)
  <1>4. batch' = Tail(batch) /\ queue' = queue /\ pushed' = pushed
    BY DEF Done
  <1>5. \A k \in 1 .. Len(batch') : batch'[k].number = ran' + k
    BY <1>1, <1>2, <1>3, <1>4 DEF CommandsInOrder
  <1>6. \A k \in 1 .. Len(queue') : queue'[k].number = ran' + Len(batch') + k
    BY <1>1, <1>2, <1>3, <1>4 DEF CommandsInOrder
  <1>7. ran + Len(batch) + Len(queue) = pushed
    BY DEF CommandsInOrder
  <1>8. ran' + Len(batch') + Len(queue') = pushed'
    BY SMTT(30), <1>1, <1>2, <1>3, <1>4, <1>7
  <1>9. QED
    BY <1>5, <1>6, <1>8 DEF CommandsInOrder

\* A step that leaves the players, the bodies and the workers alone leaves rift
\* steps alone, unless it begins to make or to remove a player.
LEMMA StepsKept ==
    ASSUME StepsAlone,
           UNCHANGED <<players, body, seen, at, id, player, value, held, apart>>,
           UNCHANGED <<simAt, simId>> \/ simAt' \notin {"embodying", "removing"}
    PROVE  StepsAlone'
  <1>1. \A i \in Ids : Stepping(i)' = Stepping(i)
    BY DEF Stepping
  <1>2. QED
    BY <1>1 DEF StepsAlone

\* And so for turns.
LEMMA TurnsKept ==
    ASSUME TurnsAlone, UNCHANGED <<players, heading, at, id, player, value, delta, twisted>>
    PROVE  TurnsAlone'
  <1>1. \A i \in Ids : Turning(i)' = Turning(i)
    BY DEF Turning
  <1>2. QED
    BY <1>1 DEF TurnsAlone, Ahead

\* CommandTypes is preserved.
LEMMA CommandTypesStep ==
    ASSUME CommandTypes, BatchInUse, [WorldNext]_worldVars
    PROVE  CommandTypes'
  <1>1. CASE Place
    BY <1>1 DEF Place, SimGoto, manager, commands, workerVars, counters, CommandTypes,
       Commands
  <1>2. CASE Embody
    BY <1>2 DEF Embody, SimRests, SimGoto, Holding, manager, commands, counters,
       CommandTypes, Commands
  <1>3. CASE EmbodyFails
    BY <1>3 DEF EmbodyFails, SimRests, SimGoto, manager, poses, commands, workerVars,
       counters, CommandTypes, Commands
  <1>4. CASE RemovePlayer
    BY <1>4 DEF RemovePlayer, SimRests, SimGoto, poses, commands, workerVars, counters,
       CommandTypes, Commands
  <1>5. CASE Update
    BY <1>5 DEF Update, SimRests, SimGoto, manager, poses, workerVars, overlaps, counters,
       CommandTypes, Commands
  <1>6. CASE Skip
    BY <1>6, DoneTypes DEF Skip
  <1>7. CASE Attack
    BY <1>7 DEF Attack, SimGoto, manager, poses, commands, workerVars, overlaps, counters,
       CommandTypes, Commands
  <1>8. CASE Attacked
    BY <1>8, DoneTypes DEF Attacked, BatchInUse
  <1>9. CASE CommandsDone
    BY <1>9 DEF CommandsDone, SimRests, SimGoto, manager, poses, commands, workerVars,
       overlaps, counters, CommandTypes, Commands
  <1>10. CASE ReadBodies
    BY <1>10 DEF ReadBodies, SimRests, SimGoto, manager, commands, workerVars, counters,
       CommandTypes, Commands
  <1>11. CASE UpdateDone
    BY <1>11 DEF UpdateDone, SimRests, SimGoto, manager, commands, workerVars, overlaps,
       counters, CommandTypes, Commands
  <1>12. ASSUME NEW i \in Ids, Join(i)
         PROVE  CommandTypes'
    BY <1>12 DEF Join, SimGoto, manager, poses, commands, workerVars, overlaps,
       CommandTypes, Commands
  <1>13. ASSUME NEW i \in Ids, Leave(i)
         PROVE  CommandTypes'
    BY <1>13 DEF Leave, SimGoto, Holding, manager, commands, counters, CommandTypes,
       Commands
  <1>14. ASSUME NEW i \in Ids, PushCommand(i)
         PROVE  CommandTypes'
    BY <1>14 DEF PushCommand, manager, poses, simVars, workerVars, overlaps, counters,
       CommandTypes, Commands
  <1>15. ASSUME NEW w \in Workers, NEW i \in Ids, RiftStep(w, i)
         PROVE  CommandTypes'
    BY <1>15 DEF RiftStep, Find, manager, poses, simVars, commands, counters, CommandTypes,
       Commands
  <1>16. ASSUME NEW w \in Workers, NEW i \in Ids, Turn(w, i)
         PROVE  CommandTypes'
    BY <1>16 DEF Turn, Find, manager, poses, simVars, commands, counters, CommandTypes,
       Commands
  <1>17. ASSUME NEW w \in Workers, Calculate(w)
         PROVE  CommandTypes'
    BY <1>17 DEF Calculate, WorkerGoto, manager, poses, simVars, commands, overlaps,
       CommandTypes, Commands
  <1>18. ASSUME NEW w \in Workers, CalculateFails(w)
         PROVE  CommandTypes'
    BY <1>18 DEF CalculateFails, WorkerReturns, manager, poses, simVars, commands, overlaps,
       counters, CommandTypes, Commands
  <1>19. ASSUME NEW w \in Workers, Seek(w)
         PROVE  CommandTypes'
    BY <1>19 DEF Seek, WorkerGoto, manager, poses, simVars, commands, overlaps, counters,
       CommandTypes, Commands
  <1>20. ASSUME NEW w \in Workers, Pose(w)
         PROVE  CommandTypes'
    BY <1>20 DEF Pose, WorkerGoto, manager, simVars, commands, counters, CommandTypes,
       Commands
  <1>21. ASSUME NEW w \in Workers, Move(w)
         PROVE  CommandTypes'
    BY <1>21 DEF Move, WorkerReturns, Gone, manager, simVars, commands, overlaps, counters,
       CommandTypes, Commands
  <1>22. ASSUME NEW w \in Workers, ReadHeading(w)
         PROVE  CommandTypes'
    BY <1>22 DEF ReadHeading, WorkerGoto, manager, poses, simVars, commands, overlaps,
       CommandTypes, Commands
  <1>23. ASSUME NEW w \in Workers, SetHeading(w)
         PROVE  CommandTypes'
    BY <1>23 DEF SetHeading, WorkerReturns, Gone, manager, simVars, commands, counters,
       CommandTypes, Commands
  <1>24. CASE UNCHANGED worldVars
    BY <1>24 DEF worldVars, manager, poses, simVars, commands, workerVars, overlaps,
       counters, CommandTypes, Commands
  <1>25. QED
    BY <1>1, <1>2, <1>3, <1>4, <1>5, <1>6, <1>7, <1>8, <1>9, <1>10, <1>11, <1>12, <1>13,
       <1>14, <1>15, <1>16, <1>17, <1>18, <1>19, <1>20, <1>21, <1>22, <1>23, <1>24 DEF
       WorldNext, SimGoesOn, WorkerNext

\* WorkerTypes is preserved.
LEMMA WorkerTypesStep ==
    ASSUME PlayerTypes, SimTypes, WorkerTypes, [WorldNext]_worldVars
    PROVE  WorkerTypes'
  <1>1. CASE Place
    BY <1>1 DEF Place, SimGoto, manager, commands, workerVars, counters, PlayerTypes,
       SimTypes, WorkerTypes, WorkerPlaces
  <1>2. CASE Embody
    BY <1>2 DEF Embody, SimRests, SimGoto, Holding, manager, commands, counters,
       PlayerTypes, SimTypes, WorkerTypes, WorkerPlaces
  <1>3. CASE EmbodyFails
    BY <1>3 DEF EmbodyFails, SimRests, SimGoto, manager, poses, commands, workerVars,
       counters, PlayerTypes, SimTypes, WorkerTypes, WorkerPlaces
  <1>4. CASE RemovePlayer
    BY <1>4 DEF RemovePlayer, SimRests, SimGoto, poses, commands, workerVars, counters,
       PlayerTypes, SimTypes, WorkerTypes, WorkerPlaces
  <1>5. CASE Update
    BY <1>5 DEF Update, SimRests, SimGoto, manager, poses, workerVars, overlaps, counters,
       PlayerTypes, SimTypes, WorkerTypes, WorkerPlaces
  <1>6. CASE Skip
    BY <1>6 DEF Skip, Done, SimRests, SimGoto, manager, poses, workerVars, overlaps,
       counters, PlayerTypes, SimTypes, WorkerTypes, WorkerPlaces
  <1>7. CASE Attack
    BY <1>7 DEF Attack, SimGoto, manager, poses, commands, workerVars, overlaps, counters,
       PlayerTypes, SimTypes, WorkerTypes, WorkerPlaces
  <1>8. CASE Attacked
    BY <1>8 DEF Attacked, Done, SimRests, SimGoto, manager, poses, workerVars, overlaps,
       counters, PlayerTypes, SimTypes, WorkerTypes, WorkerPlaces
  <1>9. CASE CommandsDone
    BY <1>9 DEF CommandsDone, SimRests, SimGoto, manager, poses, commands, workerVars,
       overlaps, counters, PlayerTypes, SimTypes, WorkerTypes, WorkerPlaces
  <1>10. CASE ReadBodies
    BY <1>10 DEF ReadBodies, SimRests, SimGoto, manager, commands, workerVars, counters,
       PlayerTypes, SimTypes, WorkerTypes, WorkerPlaces
  <1>11. CASE UpdateDone
    BY <1>11 DEF UpdateDone, SimRests, SimGoto, manager, commands, workerVars, overlaps,
       counters, PlayerTypes, SimTypes, WorkerTypes, WorkerPlaces
  <1>12. ASSUME NEW i \in Ids, Join(i)
         PROVE  WorkerTypes'
    BY <1>12 DEF Join, SimGoto, manager, poses, commands, workerVars, overlaps, PlayerTypes,
       SimTypes, WorkerTypes, WorkerPlaces
  <1>13. ASSUME NEW i \in Ids, Leave(i)
         PROVE  WorkerTypes'
    BY <1>13 DEF Leave, SimGoto, Holding, manager, commands, counters, PlayerTypes,
       SimTypes, WorkerTypes, WorkerPlaces
  <1>14. ASSUME NEW i \in Ids, PushCommand(i)
         PROVE  WorkerTypes'
    BY <1>14 DEF PushCommand, manager, poses, simVars, workerVars, overlaps, counters,
       PlayerTypes, SimTypes, WorkerTypes, WorkerPlaces
  <1>15. ASSUME NEW w \in Workers, NEW i \in Ids, RiftStep(w, i)
         PROVE  WorkerTypes'
    BY <1>15 DEF RiftStep, Find, manager, poses, simVars, commands, counters, PlayerTypes,
       SimTypes, WorkerTypes, WorkerPlaces
  <1>16. ASSUME NEW w \in Workers, NEW i \in Ids, Turn(w, i)
         PROVE  WorkerTypes'
    <2>1. Angles \subseteq Headings
      BY CircleAssumption DEF Headings
    <2>2. QED
      BY <1>16, <2>1 DEF Turn, Find, poses, counters, PlayerTypes, WorkerTypes, WorkerPlaces
  <1>17. ASSUME NEW w \in Workers, Calculate(w)
         PROVE  WorkerTypes'
    BY <1>17 DEF Calculate, WorkerGoto, manager, poses, simVars, commands, overlaps,
       PlayerTypes, SimTypes, WorkerTypes, WorkerPlaces
  <1>18. ASSUME NEW w \in Workers, CalculateFails(w)
         PROVE  WorkerTypes'
    BY <1>18, SpawnHeading DEF CalculateFails, WorkerReturns, manager, poses, simVars,
       commands, overlaps, counters, PlayerTypes, SimTypes, WorkerTypes, WorkerPlaces
  <1>19. ASSUME NEW w \in Workers, Seek(w)
         PROVE  WorkerTypes'
    BY <1>19 DEF Seek, WorkerGoto, manager, poses, simVars, commands, overlaps, counters,
       PlayerTypes, SimTypes, WorkerTypes, WorkerPlaces
  <1>20. ASSUME NEW w \in Workers, Pose(w)
         PROVE  WorkerTypes'
    BY <1>20 DEF Pose, WorkerGoto, manager, simVars, commands, counters, PlayerTypes,
       SimTypes, WorkerTypes, WorkerPlaces
  <1>21. ASSUME NEW w \in Workers, Move(w)
         PROVE  WorkerTypes'
    BY <1>21, SpawnHeading DEF Move, WorkerReturns, Gone, manager, simVars, commands,
       overlaps, counters, PlayerTypes, SimTypes, WorkerTypes, WorkerPlaces
  <1>22. ASSUME NEW w \in Workers, ReadHeading(w)
         PROVE  WorkerTypes'
    <2>1. heading[id[w]] \in Headings /\ delta[w] \in Headings
      BY <1>22 DEF ReadHeading, PlayerTypes, WorkerTypes
    <2>2. Ahead(heading[id[w]], delta[w]) \in Headings
      BY <2>1, AheadTypes
    <2>3. Ahead(heading[id[w]], delta[w]) \in Nat
      BY <2>2, CircleAssumption DEF Headings
    <2>4. QED
      BY <1>22, <2>2, <2>3 DEF ReadHeading, WorkerGoto, poses, overlaps, PlayerTypes, SimTypes,
         WorkerTypes, WorkerPlaces
  <1>23. ASSUME NEW w \in Workers, SetHeading(w)
         PROVE  WorkerTypes'
    BY <1>23, SpawnHeading DEF SetHeading, WorkerReturns, Gone, manager, simVars, commands,
       counters, PlayerTypes, SimTypes, WorkerTypes, WorkerPlaces
  <1>24. CASE UNCHANGED worldVars
    BY <1>24 DEF worldVars, manager, poses, simVars, commands, workerVars, overlaps,
       counters, PlayerTypes, SimTypes, WorkerTypes, WorkerPlaces
  <1>25. QED
    BY <1>1, <1>2, <1>3, <1>4, <1>5, <1>6, <1>7, <1>8, <1>9, <1>10, <1>11, <1>12, <1>13,
       <1>14, <1>15, <1>16, <1>17, <1>18, <1>19, <1>20, <1>21, <1>22, <1>23, <1>24 DEF
       WorldNext, SimGoesOn, WorkerNext

\* BatchInUse is preserved.
LEMMA BatchStep ==
    ASSUME CommandTypes, BatchInUse, [WorldNext]_worldVars
    PROVE  BatchInUse'
  <1>1. CASE Place
    BY <1>1 DEF Place, SimGoto, manager, commands, workerVars, counters, CommandTypes,
       BatchInUse
  <1>2. CASE Embody
    BY <1>2 DEF Embody, SimRests, SimGoto, Holding, manager, commands, counters,
       CommandTypes, BatchInUse
  <1>3. CASE EmbodyFails
    BY <1>3 DEF EmbodyFails, SimRests, SimGoto, manager, poses, commands, workerVars,
       counters, CommandTypes, BatchInUse
  <1>4. CASE RemovePlayer
    BY <1>4 DEF RemovePlayer, SimRests, SimGoto, poses, commands, workerVars, counters,
       CommandTypes, BatchInUse
  <1>5. CASE Update
    BY <1>5 DEF Update, SimRests, SimGoto, manager, poses, workerVars, overlaps, counters,
       CommandTypes, BatchInUse
  <1>6. CASE Skip
    BY <1>6 DEF Skip, Done, SimRests, SimGoto, manager, poses, workerVars, overlaps,
       counters, CommandTypes, BatchInUse
  <1>7. CASE Attack
    BY <1>7 DEF Attack, SimGoto, manager, poses, commands, workerVars, overlaps, counters,
       CommandTypes, BatchInUse
  <1>8. CASE Attacked
    BY <1>8 DEF Attacked, Done, SimRests, SimGoto, manager, poses, workerVars, overlaps,
       counters, CommandTypes, BatchInUse
  <1>9. CASE CommandsDone
    BY <1>9 DEF CommandsDone, SimRests, SimGoto, manager, poses, commands, workerVars,
       overlaps, counters, CommandTypes, BatchInUse
  <1>10. CASE ReadBodies
    BY <1>10 DEF ReadBodies, SimRests, SimGoto, manager, commands, workerVars, counters,
       CommandTypes, BatchInUse
  <1>11. CASE UpdateDone
    BY <1>11 DEF UpdateDone, SimRests, SimGoto, manager, commands, workerVars, overlaps,
       counters, CommandTypes, BatchInUse
  <1>12. ASSUME NEW i \in Ids, Join(i)
         PROVE  BatchInUse'
    BY <1>12 DEF Join, SimGoto, manager, poses, commands, workerVars, overlaps,
       CommandTypes, BatchInUse
  <1>13. ASSUME NEW i \in Ids, Leave(i)
         PROVE  BatchInUse'
    BY <1>13 DEF Leave, SimGoto, Holding, manager, commands, counters, CommandTypes,
       BatchInUse
  <1>14. ASSUME NEW i \in Ids, PushCommand(i)
         PROVE  BatchInUse'
    BY <1>14 DEF PushCommand, manager, poses, simVars, workerVars, overlaps, counters,
       CommandTypes, BatchInUse
  <1>15. ASSUME NEW w \in Workers, NEW i \in Ids, RiftStep(w, i)
         PROVE  BatchInUse'
    BY <1>15 DEF RiftStep, Find, manager, poses, simVars, commands, counters, CommandTypes,
       BatchInUse
  <1>16. ASSUME NEW w \in Workers, NEW i \in Ids, Turn(w, i)
         PROVE  BatchInUse'
    BY <1>16 DEF Turn, Find, manager, poses, simVars, commands, counters, CommandTypes,
       BatchInUse
  <1>17. ASSUME NEW w \in Workers, Calculate(w)
         PROVE  BatchInUse'
    BY <1>17 DEF Calculate, WorkerGoto, manager, poses, simVars, commands, overlaps,
       CommandTypes, BatchInUse
  <1>18. ASSUME NEW w \in Workers, CalculateFails(w)
         PROVE  BatchInUse'
    BY <1>18 DEF CalculateFails, WorkerReturns, manager, poses, simVars, commands, overlaps,
       counters, CommandTypes, BatchInUse
  <1>19. ASSUME NEW w \in Workers, Seek(w)
         PROVE  BatchInUse'
    BY <1>19 DEF Seek, WorkerGoto, manager, poses, simVars, commands, overlaps, counters,
       CommandTypes, BatchInUse
  <1>20. ASSUME NEW w \in Workers, Pose(w)
         PROVE  BatchInUse'
    BY <1>20 DEF Pose, WorkerGoto, manager, simVars, commands, counters, CommandTypes,
       BatchInUse
  <1>21. ASSUME NEW w \in Workers, Move(w)
         PROVE  BatchInUse'
    BY <1>21 DEF Move, WorkerReturns, Gone, manager, simVars, commands, overlaps, counters,
       CommandTypes, BatchInUse
  <1>22. ASSUME NEW w \in Workers, ReadHeading(w)
         PROVE  BatchInUse'
    BY <1>22 DEF ReadHeading, WorkerGoto, manager, poses, simVars, commands, overlaps,
       CommandTypes, BatchInUse
  <1>23. ASSUME NEW w \in Workers, SetHeading(w)
         PROVE  BatchInUse'
    BY <1>23 DEF SetHeading, WorkerReturns, Gone, manager, simVars, commands, counters,
       CommandTypes, BatchInUse
  <1>24. CASE UNCHANGED worldVars
    BY <1>24 DEF worldVars, manager, poses, simVars, commands, workerVars, overlaps,
       counters, CommandTypes, BatchInUse
  <1>25. QED
    BY <1>1, <1>2, <1>3, <1>4, <1>5, <1>6, <1>7, <1>8, <1>9, <1>10, <1>11, <1>12, <1>13,
       <1>14, <1>15, <1>16, <1>17, <1>18, <1>19, <1>20, <1>21, <1>22, <1>23, <1>24 DEF
       WorldNext, SimGoesOn, WorkerNext

\* CommandsInOrder is preserved.
LEMMA OrderStep ==
    ASSUME CommandTypes, BatchInUse, CommandsInOrder, [WorldNext]_worldVars
    PROVE  CommandsInOrder'
  <1>1. CASE Place
    BY <1>1 DEF Place, SimGoto, manager, commands, workerVars, counters, CommandTypes,
       BatchInUse, CommandsInOrder
  <1>2. CASE Embody
    BY <1>2 DEF Embody, SimRests, SimGoto, Holding, manager, commands, counters,
       CommandTypes, BatchInUse, CommandsInOrder
  <1>3. CASE EmbodyFails
    BY <1>3 DEF EmbodyFails, SimRests, SimGoto, manager, poses, commands, workerVars,
       counters, CommandTypes, BatchInUse, CommandsInOrder
  <1>4. CASE RemovePlayer
    BY <1>4 DEF RemovePlayer, SimRests, SimGoto, poses, commands, workerVars, counters,
       CommandTypes, BatchInUse, CommandsInOrder
  <1>5. CASE Update
    BY <1>5 DEF Update, SimRests, SimGoto, manager, poses, workerVars, overlaps, counters,
       CommandTypes, BatchInUse, CommandsInOrder
  <1>6. CASE Skip
    BY <1>6, DoneInOrder DEF Skip
  <1>7. CASE Attack
    BY <1>7 DEF Attack, SimGoto, manager, poses, commands, workerVars, overlaps, counters,
       CommandTypes, BatchInUse, CommandsInOrder
  <1>8. CASE Attacked
    BY <1>8, DoneInOrder DEF Attacked, BatchInUse
  <1>9. CASE CommandsDone
    BY <1>9 DEF CommandsDone, SimRests, SimGoto, manager, poses, commands, workerVars,
       overlaps, counters, CommandTypes, BatchInUse, CommandsInOrder
  <1>10. CASE ReadBodies
    BY <1>10 DEF ReadBodies, SimRests, SimGoto, manager, commands, workerVars, counters,
       CommandTypes, BatchInUse, CommandsInOrder
  <1>11. CASE UpdateDone
    BY <1>11 DEF UpdateDone, SimRests, SimGoto, manager, commands, workerVars, overlaps,
       counters, CommandTypes, BatchInUse, CommandsInOrder
  <1>12. ASSUME NEW i \in Ids, Join(i)
         PROVE  CommandsInOrder'
    BY <1>12 DEF Join, SimGoto, manager, poses, commands, workerVars, overlaps,
       CommandTypes, BatchInUse, CommandsInOrder
  <1>13. ASSUME NEW i \in Ids, Leave(i)
         PROVE  CommandsInOrder'
    BY <1>13 DEF Leave, SimGoto, Holding, manager, commands, counters, CommandTypes,
       BatchInUse, CommandsInOrder
  <1>14. ASSUME NEW i \in Ids, PushCommand(i)
         PROVE  CommandsInOrder'
    BY SMTT(30), <1>14 DEF PushCommand, manager, poses, simVars, workerVars, overlaps,
       counters, CommandTypes, BatchInUse, CommandsInOrder
  <1>15. ASSUME NEW w \in Workers, NEW i \in Ids, RiftStep(w, i)
         PROVE  CommandsInOrder'
    BY <1>15 DEF RiftStep, Find, manager, poses, simVars, commands, counters, CommandTypes,
       BatchInUse, CommandsInOrder
  <1>16. ASSUME NEW w \in Workers, NEW i \in Ids, Turn(w, i)
         PROVE  CommandsInOrder'
    BY <1>16 DEF Turn, Find, manager, poses, simVars, commands, counters, CommandTypes,
       BatchInUse, CommandsInOrder
  <1>17. ASSUME NEW w \in Workers, Calculate(w)
         PROVE  CommandsInOrder'
    BY <1>17 DEF Calculate, WorkerGoto, manager, poses, simVars, commands, overlaps,
       CommandTypes, BatchInUse, CommandsInOrder
  <1>18. ASSUME NEW w \in Workers, CalculateFails(w)
         PROVE  CommandsInOrder'
    BY <1>18 DEF CalculateFails, WorkerReturns, manager, poses, simVars, commands, overlaps,
       counters, CommandTypes, BatchInUse, CommandsInOrder
  <1>19. ASSUME NEW w \in Workers, Seek(w)
         PROVE  CommandsInOrder'
    BY <1>19 DEF Seek, WorkerGoto, manager, poses, simVars, commands, overlaps, counters,
       CommandTypes, BatchInUse, CommandsInOrder
  <1>20. ASSUME NEW w \in Workers, Pose(w)
         PROVE  CommandsInOrder'
    BY <1>20 DEF Pose, WorkerGoto, manager, simVars, commands, counters, CommandTypes,
       BatchInUse, CommandsInOrder
  <1>21. ASSUME NEW w \in Workers, Move(w)
         PROVE  CommandsInOrder'
    BY <1>21 DEF Move, WorkerReturns, Gone, manager, simVars, commands, overlaps, counters,
       CommandTypes, BatchInUse, CommandsInOrder
  <1>22. ASSUME NEW w \in Workers, ReadHeading(w)
         PROVE  CommandsInOrder'
    BY <1>22 DEF ReadHeading, WorkerGoto, manager, poses, simVars, commands, overlaps,
       CommandTypes, BatchInUse, CommandsInOrder
  <1>23. ASSUME NEW w \in Workers, SetHeading(w)
         PROVE  CommandsInOrder'
    BY <1>23 DEF SetHeading, WorkerReturns, Gone, manager, simVars, commands, counters,
       CommandTypes, BatchInUse, CommandsInOrder
  <1>24. CASE UNCHANGED worldVars
    BY <1>24 DEF worldVars, manager, poses, simVars, commands, workerVars, overlaps,
       counters, CommandTypes, BatchInUse, CommandsInOrder
  <1>25. QED
    BY <1>1, <1>2, <1>3, <1>4, <1>5, <1>6, <1>7, <1>8, <1>9, <1>10, <1>11, <1>12, <1>13,
       <1>14, <1>15, <1>16, <1>17, <1>18, <1>19, <1>20, <1>21, <1>22, <1>23, <1>24 DEF
       WorldNext, SimGoesOn, WorkerNext

\* CommandPlayerIsLive is preserved.
LEMMA CommandPlayerStep ==
    ASSUME SimTypes, CommandPlayerIsLive, [WorldNext]_worldVars
    PROVE  CommandPlayerIsLive'
  <1>1. CASE Place
    BY <1>1 DEF Place, SimGoto, manager, commands, workerVars, counters, SimTypes,
       CommandPlayerIsLive
  <1>2. CASE Embody
    BY <1>2 DEF Embody, SimRests, SimGoto, Holding, manager, commands, counters, SimTypes,
       CommandPlayerIsLive
  <1>3. CASE EmbodyFails
    BY <1>3 DEF EmbodyFails, SimRests, SimGoto, manager, poses, commands, workerVars,
       counters, SimTypes, CommandPlayerIsLive
  <1>4. CASE RemovePlayer
    BY <1>4 DEF RemovePlayer, SimRests, SimGoto, poses, commands, workerVars, counters,
       SimTypes, CommandPlayerIsLive
  <1>5. CASE Update
    BY <1>5 DEF Update, SimRests, SimGoto, manager, poses, workerVars, overlaps, counters,
       SimTypes, CommandPlayerIsLive
  <1>6. CASE Skip
    BY <1>6 DEF Skip, Done, SimRests, SimGoto, manager, poses, workerVars, overlaps,
       counters, SimTypes, CommandPlayerIsLive
  <1>7. CASE Attack
    BY <1>7 DEF Attack, SimGoto, manager, poses, commands, workerVars, overlaps, counters,
       SimTypes, CommandPlayerIsLive
  <1>8. CASE Attacked
    BY <1>8 DEF Attacked, Done, SimRests, SimGoto, manager, poses, workerVars, overlaps,
       counters, SimTypes, CommandPlayerIsLive
  <1>9. CASE CommandsDone
    BY <1>9 DEF CommandsDone, SimRests, SimGoto, manager, poses, commands, workerVars,
       overlaps, counters, SimTypes, CommandPlayerIsLive
  <1>10. CASE ReadBodies
    BY <1>10 DEF ReadBodies, SimRests, SimGoto, manager, commands, workerVars, counters,
       SimTypes, CommandPlayerIsLive
  <1>11. CASE UpdateDone
    BY <1>11 DEF UpdateDone, SimRests, SimGoto, manager, commands, workerVars, overlaps,
       counters, SimTypes, CommandPlayerIsLive
  <1>12. ASSUME NEW i \in Ids, Join(i)
         PROVE  CommandPlayerIsLive'
    BY <1>12 DEF Join, SimGoto, manager, poses, commands, workerVars, overlaps, SimTypes,
       CommandPlayerIsLive
  <1>13. ASSUME NEW i \in Ids, Leave(i)
         PROVE  CommandPlayerIsLive'
    BY <1>13 DEF Leave, SimGoto, Holding, manager, commands, counters, SimTypes,
       CommandPlayerIsLive
  <1>14. ASSUME NEW i \in Ids, PushCommand(i)
         PROVE  CommandPlayerIsLive'
    BY <1>14 DEF PushCommand, manager, poses, simVars, workerVars, overlaps, counters,
       SimTypes, CommandPlayerIsLive
  <1>15. ASSUME NEW w \in Workers, NEW i \in Ids, RiftStep(w, i)
         PROVE  CommandPlayerIsLive'
    BY <1>15 DEF RiftStep, Find, manager, poses, simVars, commands, counters, SimTypes,
       CommandPlayerIsLive
  <1>16. ASSUME NEW w \in Workers, NEW i \in Ids, Turn(w, i)
         PROVE  CommandPlayerIsLive'
    BY <1>16 DEF Turn, Find, manager, poses, simVars, commands, counters, SimTypes,
       CommandPlayerIsLive
  <1>17. ASSUME NEW w \in Workers, Calculate(w)
         PROVE  CommandPlayerIsLive'
    BY <1>17 DEF Calculate, WorkerGoto, manager, poses, simVars, commands, overlaps,
       SimTypes, CommandPlayerIsLive
  <1>18. ASSUME NEW w \in Workers, CalculateFails(w)
         PROVE  CommandPlayerIsLive'
    BY <1>18 DEF CalculateFails, WorkerReturns, manager, poses, simVars, commands, overlaps,
       counters, SimTypes, CommandPlayerIsLive
  <1>19. ASSUME NEW w \in Workers, Seek(w)
         PROVE  CommandPlayerIsLive'
    BY <1>19 DEF Seek, WorkerGoto, manager, poses, simVars, commands, overlaps, counters,
       SimTypes, CommandPlayerIsLive
  <1>20. ASSUME NEW w \in Workers, Pose(w)
         PROVE  CommandPlayerIsLive'
    BY <1>20 DEF Pose, WorkerGoto, manager, simVars, commands, counters, SimTypes,
       CommandPlayerIsLive
  <1>21. ASSUME NEW w \in Workers, Move(w)
         PROVE  CommandPlayerIsLive'
    BY <1>21 DEF Move, WorkerReturns, Gone, manager, simVars, commands, overlaps, counters,
       SimTypes, CommandPlayerIsLive
  <1>22. ASSUME NEW w \in Workers, ReadHeading(w)
         PROVE  CommandPlayerIsLive'
    BY <1>22 DEF ReadHeading, WorkerGoto, manager, poses, simVars, commands, overlaps,
       SimTypes, CommandPlayerIsLive
  <1>23. ASSUME NEW w \in Workers, SetHeading(w)
         PROVE  CommandPlayerIsLive'
    BY <1>23 DEF SetHeading, WorkerReturns, Gone, manager, simVars, commands, counters,
       SimTypes, CommandPlayerIsLive
  <1>24. CASE UNCHANGED worldVars
    BY <1>24 DEF worldVars, manager, poses, simVars, commands, workerVars, overlaps,
       counters, SimTypes, CommandPlayerIsLive
  <1>25. QED
    BY <1>1, <1>2, <1>3, <1>4, <1>5, <1>6, <1>7, <1>8, <1>9, <1>10, <1>11, <1>12, <1>13,
       <1>14, <1>15, <1>16, <1>17, <1>18, <1>19, <1>20, <1>21, <1>22, <1>23, <1>24 DEF
       WorldNext, SimGoesOn, WorkerNext

\* StepsAlone is preserved.
LEMMA StepsStep ==
    ASSUME PlayerTypes, SimTypes, WorkerTypes, StepsAlone, [WorldNext]_worldVars
    PROVE  StepsAlone'
  <1>1. CASE Place
    BY <1>1 DEF Place, SimGoto, manager, commands, workerVars, counters, PlayerTypes,
       SimTypes, WorkerTypes, StepsAlone, Stepping
  <1>2. CASE Embody
    BY <1>2 DEF Embody, SimRests, SimGoto, Holding, manager, commands, counters,
       PlayerTypes, SimTypes, WorkerTypes, StepsAlone, Stepping
  <1>3. CASE EmbodyFails
    BY <1>3, StepsKept DEF EmbodyFails, SimRests, SimGoto, manager, poses, commands,
       workerVars, counters
  <1>4. CASE RemovePlayer
    BY <1>4 DEF RemovePlayer, SimRests, SimGoto, poses, commands, workerVars, counters,
       PlayerTypes, SimTypes, WorkerTypes, StepsAlone, Stepping
  <1>5. CASE Update
    BY <1>5, StepsKept DEF Update, SimRests, SimGoto, manager, poses, workerVars, overlaps,
       counters
  <1>6. CASE Skip
    BY <1>6, StepsKept DEF Skip, Done, SimRests, SimGoto, manager, poses, workerVars,
       overlaps, counters
  <1>7. CASE Attack
    BY <1>7, StepsKept DEF Attack, SimGoto, manager, poses, commands, workerVars, overlaps,
       counters
  <1>8. CASE Attacked
    BY <1>8, StepsKept DEF Attacked, Done, SimRests, SimGoto, manager, poses, workerVars,
       overlaps, counters
  <1>9. CASE CommandsDone
    BY <1>9, StepsKept DEF CommandsDone, SimRests, SimGoto, manager, poses, commands,
       workerVars, overlaps, counters
  <1>10. CASE ReadBodies
    BY <1>10 DEF ReadBodies, SimRests, SimGoto, manager, commands, workerVars, counters,
       PlayerTypes, SimTypes, WorkerTypes, StepsAlone, Stepping
  <1>11. CASE UpdateDone
    BY <1>11 DEF UpdateDone, SimRests, SimGoto, manager, commands, workerVars, overlaps,
       counters, PlayerTypes, SimTypes, WorkerTypes, StepsAlone, Stepping
  <1>12. ASSUME NEW i \in Ids, Join(i)
         PROVE  StepsAlone'
    BY <1>12 DEF Join, SimGoto, manager, poses, commands, workerVars, overlaps, PlayerTypes,
       SimTypes, WorkerTypes, StepsAlone, Stepping
  <1>13. ASSUME NEW i \in Ids, Leave(i)
         PROVE  StepsAlone'
    BY <1>13 DEF Leave, SimGoto, Holding, manager, commands, counters, PlayerTypes,
       SimTypes, WorkerTypes, StepsAlone, Stepping
  <1>14. ASSUME NEW i \in Ids, PushCommand(i)
         PROVE  StepsAlone'
    BY <1>14, StepsKept DEF PushCommand, manager, poses, simVars, workerVars, overlaps,
       counters
  <1>15. ASSUME NEW w \in Workers, NEW i \in Ids, RiftStep(w, i)
         PROVE  StepsAlone'
    BY <1>15 DEF RiftStep, Find, manager, poses, simVars, commands, counters, PlacedNow,
       PlayerTypes, SimTypes, WorkerTypes, StepsAlone, Stepping
  <1>16. ASSUME NEW w \in Workers, NEW i \in Ids, Turn(w, i)
         PROVE  StepsAlone'
    BY <1>16 DEF Turn, Find, manager, poses, simVars, commands, counters, PlayerTypes,
       SimTypes, WorkerTypes, StepsAlone, Stepping
  <1>17. ASSUME NEW w \in Workers, Calculate(w)
         PROVE  StepsAlone'
    BY <1>17 DEF Calculate, WorkerGoto, manager, poses, simVars, commands, overlaps,
       PlayerTypes, SimTypes, WorkerTypes, StepsAlone, Stepping
  <1>18. ASSUME NEW w \in Workers, CalculateFails(w)
         PROVE  StepsAlone'
    BY <1>18 DEF CalculateFails, WorkerReturns, manager, poses, simVars, commands, overlaps,
       counters, PlayerTypes, SimTypes, WorkerTypes, StepsAlone, Stepping
  <1>19. ASSUME NEW w \in Workers, Seek(w)
         PROVE  StepsAlone'
    BY <1>19 DEF Seek, WorkerGoto, manager, poses, simVars, commands, overlaps, counters,
       PlayerTypes, SimTypes, WorkerTypes, StepsAlone, Stepping
  <1>20. ASSUME NEW w \in Workers, Pose(w)
         PROVE  StepsAlone'
    BY <1>20 DEF Pose, WorkerGoto, manager, simVars, commands, counters, PlayerTypes,
       SimTypes, WorkerTypes, StepsAlone, Stepping
  <1>21. ASSUME NEW w \in Workers, Move(w)
         PROVE  StepsAlone'
    BY <1>21 DEF Move, WorkerReturns, Gone, manager, simVars, commands, overlaps, counters,
       PlayerTypes, SimTypes, WorkerTypes, StepsAlone, Stepping
  <1>22. ASSUME NEW w \in Workers, ReadHeading(w)
         PROVE  StepsAlone'
    BY <1>22 DEF ReadHeading, WorkerGoto, manager, poses, simVars, commands, overlaps,
       PlayerTypes, SimTypes, WorkerTypes, StepsAlone, Stepping
  <1>23. ASSUME NEW w \in Workers, SetHeading(w)
         PROVE  StepsAlone'
    BY <1>23 DEF SetHeading, WorkerReturns, Gone, manager, simVars, commands, counters,
       PlayerTypes, SimTypes, WorkerTypes, StepsAlone, Stepping
  <1>24. CASE UNCHANGED worldVars
    BY <1>24, StepsKept DEF worldVars, manager, poses, simVars, commands, workerVars,
       overlaps, counters
  <1>25. QED
    BY <1>1, <1>2, <1>3, <1>4, <1>5, <1>6, <1>7, <1>8, <1>9, <1>10, <1>11, <1>12, <1>13,
       <1>14, <1>15, <1>16, <1>17, <1>18, <1>19, <1>20, <1>21, <1>22, <1>23, <1>24 DEF
       WorldNext, SimGoesOn, WorkerNext

\* BodyFollowsPlayer is preserved.
LEMMA BodyStep ==
    ASSUME PlayerTypes, SimTypes, WorkerTypes, StepsAlone, BodyFollowsPlayer, [WorldNext]_worldVars
    PROVE  BodyFollowsPlayer'
  <1>1. CASE Place
    BY <1>1 DEF Place, SimGoto, manager, commands, workerVars, counters, PlayerTypes,
       SimTypes, WorkerTypes, StepsAlone, BodyFollowsPlayer, Stepping, PlacedNow
  <1>2. CASE Embody
    BY <1>2 DEF Embody, SimRests, SimGoto, Holding, manager, commands, counters,
       PlayerTypes, SimTypes, WorkerTypes, StepsAlone, BodyFollowsPlayer, Stepping,
       PlacedNow
  <1>3. CASE EmbodyFails
    BY <1>3 DEF EmbodyFails, SimRests, SimGoto, manager, poses, commands, workerVars,
       counters, PlayerTypes, SimTypes, WorkerTypes, StepsAlone, BodyFollowsPlayer,
       Stepping, PlacedNow
  <1>4. CASE RemovePlayer
    BY <1>4 DEF RemovePlayer, SimRests, SimGoto, poses, commands, workerVars, counters,
       PlayerTypes, SimTypes, WorkerTypes, StepsAlone, BodyFollowsPlayer, Stepping,
       PlacedNow
  <1>5. CASE Update
    BY <1>5 DEF Update, SimRests, SimGoto, manager, poses, workerVars, overlaps, counters,
       PlayerTypes, SimTypes, WorkerTypes, StepsAlone, BodyFollowsPlayer, Stepping,
       PlacedNow
  <1>6. CASE Skip
    BY <1>6 DEF Skip, Done, SimRests, SimGoto, manager, poses, workerVars, overlaps,
       counters, PlayerTypes, SimTypes, WorkerTypes, StepsAlone, BodyFollowsPlayer,
       Stepping, PlacedNow
  <1>7. CASE Attack
    BY <1>7 DEF Attack, SimGoto, manager, poses, commands, workerVars, overlaps, counters,
       PlayerTypes, SimTypes, WorkerTypes, StepsAlone, BodyFollowsPlayer, Stepping,
       PlacedNow
  <1>8. CASE Attacked
    BY <1>8 DEF Attacked, Done, SimRests, SimGoto, manager, poses, workerVars, overlaps,
       counters, PlayerTypes, SimTypes, WorkerTypes, StepsAlone, BodyFollowsPlayer,
       Stepping, PlacedNow
  <1>9. CASE CommandsDone
    BY <1>9 DEF CommandsDone, SimRests, SimGoto, manager, poses, commands, workerVars,
       overlaps, counters, PlayerTypes, SimTypes, WorkerTypes, StepsAlone,
       BodyFollowsPlayer, Stepping, PlacedNow
  <1>10. CASE ReadBodies
    BY <1>10 DEF ReadBodies, SimRests, SimGoto, manager, commands, workerVars, counters,
       PlayerTypes, SimTypes, WorkerTypes, StepsAlone, BodyFollowsPlayer, Stepping,
       PlacedNow
  <1>11. CASE UpdateDone
    BY <1>11 DEF UpdateDone, SimRests, SimGoto, manager, commands, workerVars, overlaps,
       counters, PlayerTypes, SimTypes, WorkerTypes, StepsAlone, BodyFollowsPlayer,
       Stepping, PlacedNow
  <1>12. ASSUME NEW i \in Ids, Join(i)
         PROVE  BodyFollowsPlayer'
    BY <1>12 DEF Join, SimGoto, manager, poses, commands, workerVars, overlaps, PlayerTypes,
       SimTypes, WorkerTypes, StepsAlone, BodyFollowsPlayer, Stepping, PlacedNow
  <1>13. ASSUME NEW i \in Ids, Leave(i)
         PROVE  BodyFollowsPlayer'
    BY <1>13 DEF Leave, SimGoto, Holding, manager, commands, counters, PlayerTypes,
       SimTypes, WorkerTypes, StepsAlone, BodyFollowsPlayer, Stepping, PlacedNow
  <1>14. ASSUME NEW i \in Ids, PushCommand(i)
         PROVE  BodyFollowsPlayer'
    BY <1>14 DEF PushCommand, manager, poses, simVars, workerVars, overlaps, counters,
       PlayerTypes, SimTypes, WorkerTypes, StepsAlone, BodyFollowsPlayer, Stepping,
       PlacedNow
  <1>15. ASSUME NEW w \in Workers, NEW i \in Ids, RiftStep(w, i)
         PROVE  BodyFollowsPlayer'
    BY <1>15 DEF RiftStep, Find, manager, poses, simVars, commands, counters, PlayerTypes,
       SimTypes, WorkerTypes, StepsAlone, BodyFollowsPlayer, Stepping, PlacedNow
  <1>16. ASSUME NEW w \in Workers, NEW i \in Ids, Turn(w, i)
         PROVE  BodyFollowsPlayer'
    BY <1>16 DEF Turn, Find, manager, poses, simVars, commands, counters, PlayerTypes,
       SimTypes, WorkerTypes, StepsAlone, BodyFollowsPlayer, Stepping, PlacedNow
  <1>17. ASSUME NEW w \in Workers, Calculate(w)
         PROVE  BodyFollowsPlayer'
    BY <1>17 DEF Calculate, WorkerGoto, manager, poses, simVars, commands, overlaps,
       PlayerTypes, SimTypes, WorkerTypes, StepsAlone, BodyFollowsPlayer, Stepping,
       PlacedNow
  <1>18. ASSUME NEW w \in Workers, CalculateFails(w)
         PROVE  BodyFollowsPlayer'
    BY <1>18 DEF CalculateFails, WorkerReturns, manager, poses, simVars, commands, overlaps,
       counters, PlayerTypes, SimTypes, WorkerTypes, StepsAlone, BodyFollowsPlayer,
       Stepping, PlacedNow
  <1>19. ASSUME NEW w \in Workers, Seek(w)
         PROVE  BodyFollowsPlayer'
    BY <1>19 DEF Seek, WorkerGoto, manager, poses, simVars, commands, overlaps, counters,
       PlayerTypes, SimTypes, WorkerTypes, StepsAlone, BodyFollowsPlayer, Stepping,
       PlacedNow
  <1>20. ASSUME NEW w \in Workers, Pose(w)
         PROVE  BodyFollowsPlayer'
    BY <1>20 DEF Pose, WorkerGoto, manager, simVars, commands, counters, PlayerTypes,
       SimTypes, WorkerTypes, StepsAlone, BodyFollowsPlayer, Stepping, PlacedNow
  <1>21. ASSUME NEW w \in Workers, Move(w)
         PROVE  BodyFollowsPlayer'
    BY <1>21 DEF Move, WorkerReturns, Gone, manager, simVars, commands, overlaps, counters,
       PlayerTypes, SimTypes, WorkerTypes, StepsAlone, BodyFollowsPlayer, Stepping,
       PlacedNow
  <1>22. ASSUME NEW w \in Workers, ReadHeading(w)
         PROVE  BodyFollowsPlayer'
    BY <1>22 DEF ReadHeading, WorkerGoto, manager, poses, simVars, commands, overlaps,
       PlayerTypes, SimTypes, WorkerTypes, StepsAlone, BodyFollowsPlayer, Stepping,
       PlacedNow
  <1>23. ASSUME NEW w \in Workers, SetHeading(w)
         PROVE  BodyFollowsPlayer'
    BY <1>23 DEF SetHeading, WorkerReturns, Gone, manager, simVars, commands, counters,
       PlayerTypes, SimTypes, WorkerTypes, StepsAlone, BodyFollowsPlayer, Stepping,
       PlacedNow
  <1>24. CASE UNCHANGED worldVars
    BY <1>24 DEF worldVars, manager, poses, simVars, commands, workerVars, overlaps,
       counters, PlayerTypes, SimTypes, WorkerTypes, StepsAlone, BodyFollowsPlayer,
       Stepping, PlacedNow
  <1>25. QED
    BY <1>1, <1>2, <1>3, <1>4, <1>5, <1>6, <1>7, <1>8, <1>9, <1>10, <1>11, <1>12, <1>13,
       <1>14, <1>15, <1>16, <1>17, <1>18, <1>19, <1>20, <1>21, <1>22, <1>23, <1>24 DEF
       WorldNext, SimGoesOn, WorkerNext

\* TurnsAlone is preserved.
LEMMA TurnsStep ==
    ASSUME PlayerTypes, SimTypes, WorkerTypes, TurnsAlone, [WorldNext]_worldVars
    PROVE  TurnsAlone'
  <1>1. CASE Place
    BY <1>1 DEF Place, SimGoto, manager, commands, workerVars, counters, PlayerTypes,
       SimTypes, WorkerTypes, TurnsAlone, Turning
  <1>2. CASE Embody
    BY <1>2, TurnsKept DEF Embody, SimRests, SimGoto, Holding, manager, commands, counters
  <1>3. CASE EmbodyFails
    BY <1>3, TurnsKept DEF EmbodyFails, SimRests, SimGoto, manager, poses, commands,
       workerVars, counters
  <1>4. CASE RemovePlayer
    BY <1>4 DEF RemovePlayer, SimRests, SimGoto, poses, commands, workerVars, counters,
       PlayerTypes, SimTypes, WorkerTypes, TurnsAlone, Turning
  <1>5. CASE Update
    BY <1>5, TurnsKept DEF Update, SimRests, SimGoto, manager, poses, workerVars, overlaps,
       counters
  <1>6. CASE Skip
    BY <1>6, TurnsKept DEF Skip, Done, SimRests, SimGoto, manager, poses, workerVars,
       overlaps, counters
  <1>7. CASE Attack
    BY <1>7, TurnsKept DEF Attack, SimGoto, manager, poses, commands, workerVars, overlaps,
       counters
  <1>8. CASE Attacked
    BY <1>8, TurnsKept DEF Attacked, Done, SimRests, SimGoto, manager, poses, workerVars,
       overlaps, counters
  <1>9. CASE CommandsDone
    BY <1>9, TurnsKept DEF CommandsDone, SimRests, SimGoto, manager, poses, commands,
       workerVars, overlaps, counters
  <1>10. CASE ReadBodies
    BY <1>10, TurnsKept DEF ReadBodies, SimRests, SimGoto, manager, commands, workerVars,
       counters
  <1>11. CASE UpdateDone
    BY <1>11, TurnsKept DEF UpdateDone, SimRests, SimGoto, manager, commands, workerVars,
       overlaps, counters
  <1>12. ASSUME NEW i \in Ids, Join(i)
         PROVE  TurnsAlone'
    BY <1>12 DEF Join, SimGoto, manager, poses, commands, workerVars, overlaps, PlayerTypes,
       SimTypes, WorkerTypes, TurnsAlone, Turning
  <1>13. ASSUME NEW i \in Ids, Leave(i)
         PROVE  TurnsAlone'
    BY <1>13, TurnsKept DEF Leave, SimGoto, Holding, manager, commands, counters
  <1>14. ASSUME NEW i \in Ids, PushCommand(i)
         PROVE  TurnsAlone'
    BY <1>14, TurnsKept DEF PushCommand, manager, poses, simVars, workerVars, overlaps,
       counters
  <1>15. ASSUME NEW w \in Workers, NEW i \in Ids, RiftStep(w, i)
         PROVE  TurnsAlone'
    BY <1>15 DEF RiftStep, Find, manager, poses, simVars, commands, counters, PlayerTypes,
       SimTypes, WorkerTypes, TurnsAlone, Turning
  <1>16. ASSUME NEW w \in Workers, NEW i \in Ids, Turn(w, i)
         PROVE  TurnsAlone'
    BY <1>16 DEF Turn, Find, manager, poses, simVars, commands, counters, PlacedNow,
       PlayerTypes, SimTypes, WorkerTypes, TurnsAlone, Turning
  <1>17. ASSUME NEW w \in Workers, Calculate(w)
         PROVE  TurnsAlone'
    BY <1>17 DEF Calculate, WorkerGoto, manager, poses, simVars, commands, overlaps,
       PlayerTypes, SimTypes, WorkerTypes, TurnsAlone, Turning
  <1>18. ASSUME NEW w \in Workers, CalculateFails(w)
         PROVE  TurnsAlone'
    BY <1>18 DEF CalculateFails, WorkerReturns, manager, poses, simVars, commands, overlaps,
       counters, PlayerTypes, SimTypes, WorkerTypes, TurnsAlone, Turning
  <1>19. ASSUME NEW w \in Workers, Seek(w)
         PROVE  TurnsAlone'
    BY <1>19 DEF Seek, WorkerGoto, manager, poses, simVars, commands, overlaps, counters,
       PlayerTypes, SimTypes, WorkerTypes, TurnsAlone, Turning
  <1>20. ASSUME NEW w \in Workers, Pose(w)
         PROVE  TurnsAlone'
    BY <1>20 DEF Pose, WorkerGoto, manager, simVars, commands, counters, PlayerTypes,
       SimTypes, WorkerTypes, TurnsAlone, Turning
  <1>21. ASSUME NEW w \in Workers, Move(w)
         PROVE  TurnsAlone'
    BY <1>21 DEF Move, WorkerReturns, Gone, manager, simVars, commands, overlaps, counters,
       PlayerTypes, SimTypes, WorkerTypes, TurnsAlone, Turning
  <1>22. ASSUME NEW w \in Workers, ReadHeading(w)
         PROVE  TurnsAlone'
    BY <1>22 DEF ReadHeading, WorkerGoto, manager, poses, simVars, commands, overlaps,
       PlayerTypes, SimTypes, WorkerTypes, TurnsAlone, Turning
  <1>23. ASSUME NEW w \in Workers, SetHeading(w)
         PROVE  TurnsAlone'
    BY <1>23 DEF SetHeading, WorkerReturns, Gone, manager, simVars, commands, counters,
       PlayerTypes, SimTypes, WorkerTypes, TurnsAlone, Turning
  <1>24. CASE UNCHANGED worldVars
    BY <1>24, TurnsKept DEF worldVars, manager, poses, simVars, commands, workerVars,
       overlaps, counters
  <1>25. QED
    BY <1>1, <1>2, <1>3, <1>4, <1>5, <1>6, <1>7, <1>8, <1>9, <1>10, <1>11, <1>12, <1>13,
       <1>14, <1>15, <1>16, <1>17, <1>18, <1>19, <1>20, <1>21, <1>22, <1>23, <1>24 DEF
       WorldNext, SimGoesOn, WorkerNext

\* TurnsAddUp is preserved.
LEMMA HeadingStep ==
    ASSUME PlayerTypes, SimTypes, WorkerTypes, TurnsAlone, TurnsAddUp, [WorldNext]_worldVars
    PROVE  TurnsAddUp'
  <1>1. CASE Place
    BY <1>1 DEF Place, SimGoto, manager, commands, workerVars, counters, PlayerTypes,
       SimTypes, WorkerTypes, TurnsAddUp
  <1>2. CASE Embody
    BY <1>2 DEF Embody, SimRests, SimGoto, Holding, manager, commands, counters,
       PlayerTypes, SimTypes, WorkerTypes, TurnsAddUp
  <1>3. CASE EmbodyFails
    BY <1>3 DEF EmbodyFails, SimRests, SimGoto, manager, poses, commands, workerVars,
       counters, PlayerTypes, SimTypes, WorkerTypes, TurnsAddUp
  <1>4. CASE RemovePlayer
    BY <1>4 DEF RemovePlayer, SimRests, SimGoto, poses, commands, workerVars, counters,
       PlayerTypes, SimTypes, WorkerTypes, TurnsAddUp
  <1>5. CASE Update
    BY <1>5 DEF Update, SimRests, SimGoto, manager, poses, workerVars, overlaps, counters,
       PlayerTypes, SimTypes, WorkerTypes, TurnsAddUp
  <1>6. CASE Skip
    BY <1>6 DEF Skip, Done, SimRests, SimGoto, manager, poses, workerVars, overlaps,
       counters, PlayerTypes, SimTypes, WorkerTypes, TurnsAddUp
  <1>7. CASE Attack
    BY <1>7 DEF Attack, SimGoto, manager, poses, commands, workerVars, overlaps, counters,
       PlayerTypes, SimTypes, WorkerTypes, TurnsAddUp
  <1>8. CASE Attacked
    BY <1>8 DEF Attacked, Done, SimRests, SimGoto, manager, poses, workerVars, overlaps,
       counters, PlayerTypes, SimTypes, WorkerTypes, TurnsAddUp
  <1>9. CASE CommandsDone
    BY <1>9 DEF CommandsDone, SimRests, SimGoto, manager, poses, commands, workerVars,
       overlaps, counters, PlayerTypes, SimTypes, WorkerTypes, TurnsAddUp
  <1>10. CASE ReadBodies
    BY <1>10 DEF ReadBodies, SimRests, SimGoto, manager, commands, workerVars, counters,
       PlayerTypes, SimTypes, WorkerTypes, TurnsAddUp
  <1>11. CASE UpdateDone
    BY <1>11 DEF UpdateDone, SimRests, SimGoto, manager, commands, workerVars, overlaps,
       counters, PlayerTypes, SimTypes, WorkerTypes, TurnsAddUp
  <1>12. ASSUME NEW i \in Ids, Join(i)
         PROVE  TurnsAddUp'
    BY <1>12 DEF Join, SimGoto, manager, poses, commands, workerVars, overlaps, PlayerTypes,
       SimTypes, WorkerTypes, TurnsAddUp
  <1>13. ASSUME NEW i \in Ids, Leave(i)
         PROVE  TurnsAddUp'
    BY <1>13 DEF Leave, SimGoto, Holding, manager, commands, counters, PlayerTypes,
       SimTypes, WorkerTypes, TurnsAddUp
  <1>14. ASSUME NEW i \in Ids, PushCommand(i)
         PROVE  TurnsAddUp'
    BY <1>14 DEF PushCommand, manager, poses, simVars, workerVars, overlaps, counters,
       PlayerTypes, SimTypes, WorkerTypes, TurnsAddUp
  <1>15. ASSUME NEW w \in Workers, NEW i \in Ids, RiftStep(w, i)
         PROVE  TurnsAddUp'
    BY <1>15 DEF RiftStep, Find, manager, poses, simVars, commands, counters, PlayerTypes,
       SimTypes, WorkerTypes, TurnsAddUp
  <1>16. ASSUME NEW w \in Workers, NEW i \in Ids, Turn(w, i)
         PROVE  TurnsAddUp'
    BY <1>16 DEF Turn, Find, manager, poses, simVars, commands, counters, PlayerTypes,
       SimTypes, WorkerTypes, TurnsAddUp
  <1>17. ASSUME NEW w \in Workers, Calculate(w)
         PROVE  TurnsAddUp'
    BY <1>17 DEF Calculate, WorkerGoto, manager, poses, simVars, commands, overlaps,
       PlayerTypes, SimTypes, WorkerTypes, TurnsAddUp
  <1>18. ASSUME NEW w \in Workers, CalculateFails(w)
         PROVE  TurnsAddUp'
    BY <1>18 DEF CalculateFails, WorkerReturns, manager, poses, simVars, commands, overlaps,
       counters, PlayerTypes, SimTypes, WorkerTypes, TurnsAddUp
  <1>19. ASSUME NEW w \in Workers, Seek(w)
         PROVE  TurnsAddUp'
    BY <1>19 DEF Seek, WorkerGoto, manager, poses, simVars, commands, overlaps, counters,
       PlayerTypes, SimTypes, WorkerTypes, TurnsAddUp
  <1>20. ASSUME NEW w \in Workers, Pose(w)
         PROVE  TurnsAddUp'
    BY <1>20 DEF Pose, WorkerGoto, manager, simVars, commands, counters, PlayerTypes,
       SimTypes, WorkerTypes, TurnsAddUp
  <1>21. ASSUME NEW w \in Workers, Move(w)
         PROVE  TurnsAddUp'
    BY <1>21 DEF Move, WorkerReturns, Gone, manager, simVars, commands, overlaps, counters,
       PlayerTypes, SimTypes, WorkerTypes, TurnsAddUp
  <1>22. ASSUME NEW w \in Workers, ReadHeading(w)
         PROVE  TurnsAddUp'
    BY <1>22 DEF ReadHeading, WorkerGoto, manager, poses, simVars, commands, overlaps,
       PlayerTypes, SimTypes, WorkerTypes, TurnsAddUp
  <1>23. ASSUME NEW w \in Workers, SetHeading(w)
         PROVE  TurnsAddUp'
    <2>1. id[w] \in Ids /\ w \in Turning(id[w])
      BY <1>23 DEF SetHeading, Turning, WorkerTypes
    <2>2. /\ players' = players /\ twisted' = twisted
          /\ \A i \in Ids \ {id[w]} : heading'[i] = heading[i] /\ turned'[i] = turned[i]
      BY <1>23, <2>1 DEF SetHeading, manager, PlayerTypes
    <2>3. ASSUME players[id[w]] # 0, id[w] \notin twisted
          PROVE  heading'[id[w]] = turned'[id[w]]
      <3>1. /\ player[w] = players[id[w]]
            /\ value[w] = Ahead(heading[id[w]], delta[w])
            /\ turned[id[w]] = heading[id[w]]
        BY <1>23, <2>1, <2>3 DEF SetHeading, TurnsAlone, TurnsAddUp
      <3>2. /\ heading'[id[w]] = Oriented(id[w], value[w])
            /\ turned'[id[w]] = IF Small(delta[w]) THEN turned[id[w]]
                                ELSE Ahead(turned[id[w]], delta[w])
        BY <1>23, <2>1, <3>1 DEF SetHeading, Gone, PlayerTypes
      <3>3. Close(heading[id[w]], value[w]) <=> Small(delta[w])
        BY <2>1, <3>1, CloseAhead DEF PlayerTypes, WorkerTypes
      <3>4. QED
        BY <3>1, <3>2, <3>3 DEF Oriented
    <2>4. QED
      BY <2>2, <2>3 DEF TurnsAddUp
  <1>24. CASE UNCHANGED worldVars
    BY <1>24 DEF worldVars, manager, poses, simVars, commands, workerVars, overlaps,
       counters, PlayerTypes, SimTypes, WorkerTypes, TurnsAddUp
  <1>25. QED
    BY <1>1, <1>2, <1>3, <1>4, <1>5, <1>6, <1>7, <1>8, <1>9, <1>10, <1>11, <1>12, <1>13,
       <1>14, <1>15, <1>16, <1>17, <1>18, <1>19, <1>20, <1>21, <1>22, <1>23, <1>24 DEF
       WorldNext, SimGoesOn, WorkerNext
-----------------------------------------------------------------------------
(* The invariant, and what follows from it.                                 *)

\* The invariant holds in every reachable state.
THEOREM Invariance == WorldSpec => []WorldInv
  <1>1. WorldInit => WorldInv
    <2> SUFFICES ASSUME WorldInit PROVE WorldInv
      OBVIOUS
    <2>1. WorldTypeOK
      BY SpawnHeading DEF WorldInit, WorldTypeOK, SimPlaces, WorkerPlaces
    <2>2. BatchInUse /\ CommandsInOrder /\ CommandPlayerIsLive
      BY DEF WorldInit, BatchInUse, CommandsInOrder, CommandPlayerIsLive
    <2>3. StepsAlone /\ BodyFollowsPlayer
      BY DEF WorldInit, StepsAlone, BodyFollowsPlayer, Stepping
    <2>4. TurnsAlone /\ TurnsAddUp
      BY DEF WorldInit, TurnsAlone, TurnsAddUp, Turning
    <2>5. QED
      BY <2>1, <2>2, <2>3, <2>4 DEF WorldInv
  <1>2. WorldInv /\ [WorldNext]_worldVars => WorldInv'
    <2> SUFFICES ASSUME WorldInv, [WorldNext]_worldVars PROVE WorldInv'
      OBVIOUS
    <2>1. PlayerTypes /\ SimTypes /\ CommandTypes /\ WorkerTypes
      <3> USE DEF WorldInv, WorldTypeOK
      <3>1. PlayerTypes
        BY DEF PlayerTypes
      <3>2. SimTypes
        BY DEF SimTypes
      <3>3. CommandTypes
        BY DEF CommandTypes
      <3>4. WorkerTypes
        BY DEF WorkerTypes
      <3>5. QED
        BY <3>1, <3>2, <3>3, <3>4
    <2>2. PlayerTypes' /\ SimTypes' /\ CommandTypes' /\ WorkerTypes'
      BY <2>1, PlayerTypesStep, SimTypesStep, CommandTypesStep, WorkerTypesStep DEF WorldInv
    <2>3. WorldTypeOK'
      BY <2>2 DEF WorldTypeOK, PlayerTypes, SimTypes, CommandTypes, WorkerTypes
    <2>4. BatchInUse' /\ CommandsInOrder' /\ CommandPlayerIsLive'
      BY <2>1, BatchStep, OrderStep, CommandPlayerStep DEF WorldInv
    <2>5. StepsAlone' /\ BodyFollowsPlayer'
      BY <2>1, StepsStep, BodyStep DEF WorldInv
    <2>6. TurnsAlone' /\ TurnsAddUp'
      BY <2>1, TurnsStep, HeadingStep DEF WorldInv
    <2>7. QED
      BY <2>3, <2>4, <2>5, <2>6 DEF WorldInv
  <1>3. QED
    BY <1>1, <1>2, PTL DEF WorldSpec

\* WorldTypeOK: types, and that a pointer is null exactly while nobody needs it.
THEOREM TypeCorrect == WorldSpec => []WorldTypeOK
  BY Invariance, PTL DEF WorldInv

\* CommandsInOrder: commands are processed in order, each once, and none is lost.
THEOREM OrderCorrect == WorldSpec => []CommandsInOrder
  BY Invariance, PTL DEF WorldInv

\* CommandPlayerIsLive: the player a command is run for stays in the manager.
THEOREM CommandPlayerCorrect == WorldSpec => []CommandPlayerIsLive
  BY Invariance, PTL DEF WorldInv

\* BodyFollowsPlayer: player and body stand in the same place, save where two writers
\* of the position overlapped or a placing left an old controller behind.
THEOREM BodyCorrect == WorldSpec => []BodyFollowsPlayer
  BY Invariance, PTL DEF WorldInv

\* TurnsAddUp: turns that are not small and do not overlap are not lost.
THEOREM TurnsCorrect == WorldSpec => []TurnsAddUp
  BY Invariance, PTL DEF WorldInv

-----------------------------------------------------------------------------
(* The contract that makes the handlers right.                              *)
(* Nothing orders two handlers of one player, or a handler and the joining  *)
(* and leaving of its player.  Where something would, nothing goes wrong.   *)

\* No two workers handle messages of one player at a time, and none does while the
\* simulation thread places, removes or reconciles that player.
Exclusive ==
    /\ \A w, u \in Workers : at[w] # "outside" /\ at[u] # "outside" /\ id[w] = id[u] => w = u
    /\ simAt \in {"placing", "embodying", "removing"} =>
           \A w \in Workers : at[w] # "outside" => id[w] # simId
    /\ \A i \in Ids, w \in Workers : seen[i] # None /\ at[w] # "outside" => id[w] # i

\* The object a handler works with is the player it found, still in the map.
HandlerPlayerIsLive == \A w \in Workers : at[w] # "outside" => player[w] = players[id[w]]

\* Every turn that is not small shows in the heading.
EveryTurnShows == \A i \in Ids : players[i] # 0 => heading[i] = turned[i]

\* Between two writes the body stands where the player stands, unless the player was
\* placed without making it a new one.
EveryBodyFollows ==
    \A i \in Ids :
        (players[i] # 0 /\ body[i] # None /\ i \notin stranded /\ ~PlacedNow(i) /\ seen[i] = None
            /\ \A w \in Stepping(i) : at[w] # "moving")
        => body[i] = position[i]

Orderly == twisted = {} /\ apart = {} /\ HandlerPlayerIsLive

LEMMA SimOrderly ==
    ASSUME WorldInv, Exclusive, Exclusive', Orderly, SimGoesOn
    PROVE  Orderly'
  <1> USE DEF WorldInv, WorldTypeOK
  <1>1. CASE \/ Embody \/ EmbodyFails \/ Update \/ Skip \/ Attack \/ Attacked
             \/ CommandsDone \/ UpdateDone
    <2>1. UNCHANGED <<players, at, id, player, apart, twisted>>
      BY <1>1 DEF Embody, EmbodyFails, Update, Skip, Attack, Attacked, CommandsDone,
                  UpdateDone, Done, manager, workerVars, overlaps
    <2>2. QED
      BY <2>1 DEF Orderly, HandlerPlayerIsLive
  <1>2. CASE Place
    <2>1. Turning(simId) = {} /\ Stepping(simId) = {}
      BY <1>2 DEF Place, Exclusive, Turning, Stepping
    <2>2. /\ UNCHANGED <<players, at, id, player>>
          /\ twisted' = twisted \ {simId} /\ apart' = apart \ {simId}
      BY <1>2, <2>1 DEF Place, manager, workerVars
    <2>3. QED
      BY <2>2 DEF Orderly, HandlerPlayerIsLive
  <1>3. CASE RemovePlayer
    <2>1. Turning(simId) = {} /\ Stepping(simId) = {}
      BY <1>3 DEF RemovePlayer, Exclusive, Turning, Stepping
    <2>2. /\ players' = [players EXCEPT ![simId] = 0]
          /\ UNCHANGED <<at, id, player, apart, twisted>>
      BY <1>3, <2>1 DEF RemovePlayer, workerVars
    <2>3. \A w \in Workers : at[w] # "outside" => id[w] # simId
      BY <1>3 DEF RemovePlayer, Exclusive
    <2>4. QED
      BY <2>2, <2>3 DEF Orderly, HandlerPlayerIsLive
  <1>4. CASE ReadBodies
    <2>1. UNCHANGED <<players, at, id, player, twisted>>
      BY <1>4 DEF ReadBodies, manager, workerVars
    <2>2. PICK found \in SUBSET Ids :
              /\ \A i \in found : seen'[i] # None
              /\ apart' = (apart \ found) \cup {i \in found : Stepping(i) # {}}
      BY <1>4 DEF ReadBodies
    <2>3. \A i \in found : Stepping(i) = {}
      BY <2>1, <2>2 DEF Exclusive, Stepping
    <2>4. apart' = {}
      BY <2>2, <2>3 DEF Orderly
    <2>5. QED
      BY <2>1, <2>4 DEF Orderly, HandlerPlayerIsLive
  <1>5. QED
    BY <1>1, <1>2, <1>3, <1>4 DEF SimGoesOn

\* A new object of a player is nobody's, for the player had none.
LEMMA JoinOrderly ==
    ASSUME WorldInv, Orderly, NEW i \in Ids, Join(i)
    PROVE  Orderly'
  <1> USE DEF WorldInv, WorldTypeOK
  <1>1. UNCHANGED <<at, id, player, apart, twisted>>
    BY DEF Join, workerVars, overlaps
  <1>2. CASE players[i] # 0
    <2>1. UNCHANGED players
      BY <1>2 DEF Join, manager
    <2>2. QED
      BY <1>1, <2>1 DEF Orderly, HandlerPlayerIsLive
  <1>3. CASE players[i] = 0
    <2>1. \A w \in Workers : at[w] # "outside" => id[w] # i
      BY <1>3 DEF Orderly, HandlerPlayerIsLive
    <2>2. \A j \in Ids \ {i} : players'[j] = players[j]
      BY <1>3 DEF Join
    <2>3. ASSUME NEW w \in Workers, at'[w] # "outside"
          PROVE  player'[w] = players'[id'[w]]
      <3>1. at[w] # "outside" /\ id[w] \in Ids \ {i}
        BY <1>1, <2>1, <2>3
      <3>2. player[w] = players[id[w]]
        BY <3>1 DEF Orderly, HandlerPlayerIsLive
      <3>3. QED
        BY <1>1, <2>2, <3>1, <3>2
    <2>4. QED
      BY <1>1, <2>3 DEF Orderly, HandlerPlayerIsLive
  <1>4. QED
    BY <1>2, <1>3

\* A handler that begins finds its player; one that goes on keeps it.
LEMMA WorkerOrderly ==
    ASSUME WorldInv, Exclusive', Orderly, NEW w \in Workers, WorkerNext(w)
    PROVE  Orderly'
  <1> USE DEF WorldInv, WorldTypeOK
  <1>1. ASSUME NEW i \in Ids, NEW place \in {"stepping", "turning"}, Find(w, i, place),
               UNCHANGED <<players, apart, twisted>>
        PROVE  Orderly'
    BY <1>1 DEF Find, Orderly, HandlerPlayerIsLive
  <1>2. ASSUME NEW i \in Ids, RiftStep(w, i)
        PROVE  Orderly'
    <2>1. /\ at[w] = "outside" /\ at' = [at EXCEPT ![w] = "stepping"]
          /\ id' = [id EXCEPT ![w] = i]
          /\ UNCHANGED <<players, simAt, simId, seen, twisted>>
      BY <1>2 DEF RiftStep, Find, manager, simVars, poses
    <2>2. at'[w] # "outside" /\ id'[w] = i
      BY <2>1
    <2>3. Stepping(i) = {} /\ seen[i] = None
      BY <2>1, <2>2 DEF Exclusive, Stepping
    <2>4. ~PlacedNow(i)
      BY <2>1, <2>2 DEF Exclusive, PlacedNow
    <2>5. QED
      BY <1>1, <1>2, <2>1, <2>3, <2>4 DEF RiftStep
  <1>3. ASSUME NEW i \in Ids, Turn(w, i)
        PROVE  Orderly'
    <2>1. /\ at[w] = "outside" /\ at' = [at EXCEPT ![w] = "turning"]
          /\ id' = [id EXCEPT ![w] = i]
          /\ UNCHANGED <<players, simAt, simId, apart>>
      BY <1>3 DEF Turn, Find, manager, simVars
    <2>2. at'[w] # "outside" /\ id'[w] = i
      BY <2>1
    <2>3. Turning(i) = {}
      BY <2>1, <2>2 DEF Exclusive, Turning
    <2>4. ~PlacedNow(i)
      BY <2>1, <2>2 DEF Exclusive, PlacedNow
    <2>5. QED
      BY <1>1, <1>3, <2>1, <2>3, <2>4 DEF Turn
  <1>4. CASE Calculate(w) \/ Seek(w) \/ Pose(w) \/ ReadHeading(w)
    <2>1. /\ UNCHANGED <<players, id, player, apart, twisted>> /\ at[w] # "outside"
          /\ \A u \in Workers \ {w} : at'[u] = at[u]
      BY <1>4 DEF Calculate, Seek, Pose, ReadHeading, WorkerGoto, manager, overlaps
    <2>2. QED
      BY <2>1 DEF Orderly, HandlerPlayerIsLive
  <1>5. CASE CalculateFails(w) \/ Move(w) \/ SetHeading(w)
    <2>1. /\ UNCHANGED <<players, apart, twisted>> /\ at'[w] = "outside"
          /\ \A u \in Workers \ {w} :
                 at'[u] = at[u] /\ id'[u] = id[u] /\ player'[u] = player[u]
      BY <1>5 DEF CalculateFails, Move, SetHeading, WorkerReturns, manager, overlaps
    <2>2. QED
      BY <2>1 DEF Orderly, HandlerPlayerIsLive
  <1>6. QED
    BY <1>2, <1>3, <1>4, <1>5 DEF WorkerNext

\* As long as something keeps the handlers of one player, and its joining and leaving,
\* apart, and its reconciliation, every handler works on a player that exists, the
\* heading of a player is the sum of its turns but for the small ones, which
\* SetOrientation drops, and its body follows it unless it was left behind by a placing
\* that failed.
THEOREM ExclusiveHandlersAreSafe ==
    WorldSpec => ([]Exclusive => [](HandlerPlayerIsLive /\ EveryTurnShows /\ EveryBodyFollows))
  <1>1. WorldInit => Orderly
    BY DEF WorldInit, Orderly, HandlerPlayerIsLive
  <1>2. WorldInv /\ Exclusive /\ Exclusive' /\ Orderly /\ [WorldNext]_worldVars => Orderly'
    <2> SUFFICES ASSUME WorldInv, Exclusive, Exclusive', Orderly, [WorldNext]_worldVars
                 PROVE  Orderly'
      OBVIOUS
    <2>1. ASSUME NEW i \in Ids, Leave(i) \/ PushCommand(i)
          PROVE  Orderly'
      <3>1. UNCHANGED <<players, at, id, player, apart, twisted>>
        BY <2>1 DEF Leave, PushCommand, manager, workerVars, overlaps
      <3>2. QED
        BY <3>1 DEF Orderly, HandlerPlayerIsLive
    <2>2. CASE UNCHANGED worldVars
      BY <2>2 DEF worldVars, manager, workerVars, overlaps, Orderly, HandlerPlayerIsLive
    <2>3. QED
      BY <2>1, <2>2, SimOrderly, JoinOrderly, WorkerOrderly DEF WorldNext
  <1>3. WorldInv /\ Orderly => HandlerPlayerIsLive /\ EveryTurnShows /\ EveryBodyFollows
    BY DEF WorldInv, TurnsAddUp, BodyFollowsPlayer, Orderly, EveryTurnShows, EveryBodyFollows
  <1>4. QED
    BY <1>1, <1>2, <1>3, Invariance, PTL DEF WorldSpec

=============================================================================
