--------------------------- MODULE PhysicsProofs ---------------------------
(***************************************************************************)
(* Safety of the physics engine's objects for every number of threads, ids *)
(* and objects, and any number of initialisations and shutdowns.           *)
(***************************************************************************)
EXTENDS Physics, TLAPS

USE ThreadsAssumption, IdsAssumption, MaxObjectsAssumption

\* Objects are numbered in the order they were made.
Numbered ==
    /\ \A i \in Ids : controllers[i] <= made /\ actors[i] <= made
    /\ \A t \in Threads : ptr[t] <= made
    /\ \A o \in Objects : o \in live \/ released[o] > 0 => o <= made

\* An object is in one place: under one id of one map, or in the hands of one
\* call that will register or release it; an actor is no controller.
OnePlace ==
    /\ \A i \in Ids : actors[i] \notin owned
    /\ \A i, j \in Ids : controllers[i] # 0 /\ controllers[i] = controllers[j] => i = j
    /\ \A i, j \in Ids : actors[i] # 0 /\ actors[i] = actors[j] => i = j
    /\ \A i, j \in Ids : controllers[i] # 0 => controllers[i] # actors[j]
    /\ \A t \in Threads, i \in Ids :
          at[t] \in InHand => ptr[t] # controllers[i] /\ ptr[t] # actors[i]
    /\ \A t, u \in Threads : at[t] \in InHand /\ at[u] \in InHand /\ ptr[t] = ptr[u] => t = u

\* While a thread shuts the engine down there is no controller manager, nobody
\* creates a controller unless Shutdown met it, and what was cleared stays so.
ShuttingDown ==
    \A t \in Threads :
        at[t] \in {"clearing", "emptying", "closing"} =>
            /\ ~manager
            /\ at[t] = "closing" => \A i \in Ids : actors[i] = 0
            /\ overtaken \/
                  /\ \A u \in Threads : at[u] \notin {"creating", "registering"}
                  /\ at[t] # "clearing" => \A i \in Ids : controllers[i] = 0

\* What a call has in hand is live, but for what it took during a shutdown.
HandsAreLive ==
    overtaken \/ (\E t \in Threads : at[t] \in {"clearing", "emptying", "closing"})
        \/ \A t \in Threads : at[t] \in InHand => ptr[t] \in live

\* The variables with no two values but the Boolean ones, and the others.
Flags == {foundation, scene, manager, overtaken} \subseteq BOOLEAN

Data ==
    /\ mutex \in Threads \cup {None}
    /\ controllers \in [Ids -> 0 .. MaxObjects]
    /\ actors \in [Ids -> 0 .. MaxObjects]
    /\ made \in 0 .. MaxObjects
    /\ live \subseteq Objects
    /\ owned \subseteq live
    /\ at \in [Threads -> Places]
    /\ ptr \in [Threads -> 0 .. MaxObjects]
    /\ id \in [Threads -> Ids \cup {None}]
    /\ released \in [Objects -> Nat]
    /\ orphans \subseteq Objects
    /\ inits \in 0 .. MaxInits

\* Some map or call leads to o, or the engine gave it up.
Found(o) ==
    \/ o \in orphans
    \/ \E i \in Ids : o = controllers[i] \/ o = actors[i]
    \/ \E t \in Threads : at[t] \in InHand /\ o = ptr[t]

Standing ==
    \A t \in Threads :
        /\ mutex = t <=> at[t] \in WithMutex
        /\ ptr[t] # 0 <=> at[t] \in WithPointer
        /\ id[t] # None <=> at[t] \in {"creating", "registering"}

PhysicsInv ==
    /\ PhysicsTypeOK /\ Numbered /\ OnePlace /\ ShuttingDown /\ HandsAreLive
    /\ LookupIsLive /\ NothingLeaks /\ ReleasedOnceWhileUp

-----------------------------------------------------------------------------
(* One lemma per conjunct of the invariant, one step per action.            *)

\* The type invariant is these three.
LEMMA TypeParts == PhysicsTypeOK <=> Flags /\ Data /\ Standing
  BY DEF PhysicsTypeOK, Types, Flags, Data, Standing

\* Flags is preserved.
LEMMA FlagsStep ==
    ASSUME Flags, [PhysicsNext]_physicsVars
    PROVE  Flags'
  <1>1. ASSUME NEW t \in Threads, Initialize(t)
         PROVE  Flags'
    BY <1>1 DEF Initialize, InitializeMayRun, maps, calls, objects, Flags
  <1>2. ASSUME NEW t \in Threads, InitializeFails(t)
         PROVE  Flags'
    BY <1>2 DEF InitializeFails, InitializeMayRun, maps, calls, objects, engine, Flags
  <1>3. ASSUME NEW t \in Threads, InitializeLocksTwice(t)
         PROVE  Flags'
    BY <1>3 DEF InitializeLocksTwice, InitializeMayRun, Goto, maps, objects, Flags
  <1>4. ASSUME NEW t \in Threads, InitializeThrows(t)
         PROVE  Flags'
    BY <1>4 DEF InitializeThrows, InitializeMayRun, maps, calls, objects, Flags
  <1>5. ASSUME NEW t \in Threads, Shutdown(t)
         PROVE  Flags'
    BY <1>5 DEF Shutdown, Goto, Release, Crossed, maps, Flags
  <1>6. ASSUME NEW t \in Threads, ShutdownControllers(t)
         PROVE  Flags'
    BY <1>6 DEF ShutdownControllers, Goto, Release, Registered, engine, Flags
  <1>7. ASSUME NEW t \in Threads, ShutdownActors(t)
         PROVE  Flags'
    BY <1>7 DEF ShutdownActors, Goto, Release, Registered, engine, Flags
  <1>8. ASSUME NEW t \in Threads, ShutdownScene(t)
         PROVE  Flags'
    BY <1>8 DEF ShutdownScene, Return, Crossed, maps, Flags
  <1>9. ASSUME NEW t \in Threads, NEW i \in Ids, CreateController(t, i)
         PROVE  Flags'
    BY <1>9 DEF CreateController, Goto, maps, objects, past, engine, Flags
  <1>10. ASSUME NEW t \in Threads, Created(t)
         PROVE  Flags'
    BY <1>10 DEF Created, Goto, New, Create, maps, past, engine, Flags
  <1>11. ASSUME NEW t \in Threads, CreateFails(t)
         PROVE  Flags'
    BY <1>11 DEF CreateFails, Return, maps, objects, past, engine, Flags
  <1>12. ASSUME NEW t \in Threads, RegisterController(t)
         PROVE  Flags'
    BY <1>12 DEF RegisterController, Return, objects, engine, Flags
  <1>13. ASSUME NEW t \in Threads, NEW i \in Ids, CreateActor(t, i)
         PROVE  Flags'
    BY <1>13 DEF CreateActor, New, Create, calls, engine, Flags
  <1>14. ASSUME NEW t \in Threads, CreateUnregistered(t)
         PROVE  Flags'
    BY <1>14 DEF CreateUnregistered, New, Create, maps, calls, engine, Flags
  <1>15. ASSUME NEW t \in Threads, NEW i \in Ids, UnregisterController(t, i)
         PROVE  Flags'
    BY <1>15 DEF UnregisterController, Goto, objects, past, engine, Flags
  <1>16. ASSUME NEW t \in Threads, NEW i \in Ids, UnregisterActor(t, i)
         PROVE  Flags'
    BY <1>16 DEF UnregisterActor, Goto, objects, past, engine, Flags
  <1>17. ASSUME NEW t \in Threads, Drop(t)
         PROVE  Flags'
    BY <1>17 DEF Drop, Return, Release, maps, engine, Flags
  <1>18. ASSUME NEW t \in Threads, NEW i \in Ids, FindController(t, i)
         PROVE  Flags'
    BY <1>18 DEF FindController, Goto, maps, objects, past, engine, Flags
  <1>19. ASSUME NEW t \in Threads, NEW i \in Ids, FindActor(t, i)
         PROVE  Flags'
    BY <1>19 DEF FindActor, Goto, maps, objects, past, engine, Flags
  <1>20. ASSUME NEW t \in Threads, Peek(t)
         PROVE  Flags'
    BY <1>20 DEF Peek, Goto, maps, objects, past, engine, Flags
  <1>21. ASSUME NEW t \in Threads, PeekInVain(t)
         PROVE  Flags'
    BY <1>21 DEF PeekInVain, Return, maps, objects, past, engine, Flags
  <1>22. ASSUME NEW t \in Threads, Use(t)
         PROVE  Flags'
    BY <1>22 DEF Use, Return, maps, objects, past, engine, Flags
  <1>23. ASSUME NEW t \in Threads, StepSimulation(t)
         PROVE  Flags'
    BY <1>23 DEF StepSimulation, Goto, maps, objects, past, engine, Flags
  <1>24. ASSUME NEW t \in Threads, StepDone(t)
         PROVE  Flags'
    BY <1>24 DEF StepDone, Return, maps, objects, past, engine, Flags
  <1>25. CASE UNCHANGED physicsVars
    BY <1>25 DEF physicsVars, maps, calls, objects, past, engine, Flags
  <1>26. QED
    BY <1>1, <1>2, <1>3, <1>4, <1>5, <1>6, <1>7, <1>8, <1>9, <1>10, <1>11, <1>12, <1>13,
       <1>14, <1>15, <1>16, <1>17, <1>18, <1>19, <1>20, <1>21, <1>22, <1>23, <1>24, <1>25
       DEF PhysicsNext, Call, Finish, Locked

\* What the library releases leaves the rest as it was.
LEMMA Releasing ==
    ASSUME Data, NEW S, Release(S)
    PROVE  /\ live' \subseteq Objects
           /\ owned' \subseteq live'
           /\ released' \in [Objects -> Nat]
  BY DEF Data, Release

\* Data is preserved.
LEMMA DataStep ==
    ASSUME Data, Standing, [PhysicsNext]_physicsVars
    PROVE  Data'
  <1>1. ASSUME NEW t \in Threads, Initialize(t)
         PROVE  Data'
    BY <1>1 DEF Initialize, InitializeMayRun, maps, calls, objects, Data, Places, Objects
  <1>2. ASSUME NEW t \in Threads, InitializeFails(t)
         PROVE  Data'
    BY <1>2 DEF InitializeFails, InitializeMayRun, maps, calls, objects, engine, Data,
       Places, Objects
  <1>3. ASSUME NEW t \in Threads, InitializeLocksTwice(t)
         PROVE  Data'
    BY <1>3 DEF InitializeLocksTwice, InitializeMayRun, Goto, maps, objects, Data, Places,
       Objects
  <1>4. ASSUME NEW t \in Threads, InitializeThrows(t)
         PROVE  Data'
    BY <1>4 DEF InitializeThrows, InitializeMayRun, maps, calls, objects, Data, Places,
       Objects
  <1>5. ASSUME NEW t \in Threads, Shutdown(t)
         PROVE  Data'
    BY <1>5 DEF Shutdown, Goto, Release, Crossed, maps, Data, Places, Objects
  <1>6. ASSUME NEW t \in Threads, ShutdownControllers(t)
         PROVE  Data'
    <2>1. Release(Registered(controllers))
      BY <1>6 DEF ShutdownControllers
    <2>2. live' \subseteq Objects /\ owned' \subseteq live' /\ released' \in [Objects -> Nat]
      BY <2>1, Releasing
    <2>3. QED
      BY <1>6, <2>2 DEF ShutdownControllers, Goto, Registered, engine, Data, Places
  <1>7. ASSUME NEW t \in Threads, ShutdownActors(t)
         PROVE  Data'
    <2>1. Release(Registered(actors))
      BY <1>7 DEF ShutdownActors
    <2>2. live' \subseteq Objects /\ owned' \subseteq live' /\ released' \in [Objects -> Nat]
      BY <2>1, Releasing
    <2>3. QED
      BY <1>7, <2>2 DEF ShutdownActors, Goto, Registered, engine, Data, Places
  <1>8. ASSUME NEW t \in Threads, ShutdownScene(t)
         PROVE  Data'
    BY <1>8 DEF ShutdownScene, Return, Crossed, maps, Data, Places, Objects
  <1>9. ASSUME NEW t \in Threads, NEW i \in Ids, CreateController(t, i)
         PROVE  Data'
    BY <1>9 DEF CreateController, Goto, maps, objects, past, engine, Data, Places, Objects
  <1>10. ASSUME NEW t \in Threads, Created(t)
         PROVE  Data'
    BY <1>10 DEF Created, Goto, New, Create, maps, past, engine, Data, Places, Objects
  <1>11. ASSUME NEW t \in Threads, CreateFails(t)
         PROVE  Data'
    BY <1>11 DEF CreateFails, Return, maps, objects, past, engine, Data, Places, Objects
  <1>12. ASSUME NEW t \in Threads, RegisterController(t)
         PROVE  Data'
    <2>1. id[t] \in Ids
      BY <1>12 DEF RegisterController, Data, Standing
    <2>2. orphans' \subseteq Objects
      <3>1. controllers[id[t]] \in 0 .. MaxObjects
        BY <2>1 DEF Data
      <3>2. {controllers[id[t]]} \ {0} \subseteq Objects
        BY <3>1 DEF Objects
      <3>3. QED
        BY <1>12, <3>2 DEF RegisterController, Data
    <2>3. controllers' \in [Ids -> 0 .. MaxObjects]
      BY <1>12, <2>1 DEF RegisterController, Data
    <2>4. QED
      BY <1>12, <2>2, <2>3 DEF RegisterController, Return, objects, engine, Data, Places
  <1>13. ASSUME NEW t \in Threads, NEW i \in Ids, CreateActor(t, i)
         PROVE  Data'
    <2>1. New \in Objects /\ New \in 0 .. MaxObjects
      BY <1>13 DEF CreateActor, Create, New, Data, Objects
    <2>2. orphans' \subseteq Objects
      <3>1. actors[i] \in 0 .. MaxObjects
        BY <1>13 DEF Data
      <3>2. {actors[i]} \ {0} \subseteq Objects
        BY <3>1 DEF Objects
      <3>3. QED
        BY <1>13, <3>2 DEF CreateActor, Data
    <2>3. actors' \in [Ids -> 0 .. MaxObjects]
      BY <1>13, <2>1 DEF CreateActor, Data
    <2>4. live' \subseteq Objects /\ owned' \subseteq live' /\ made' \in 0 .. MaxObjects
      BY <1>13, <2>1 DEF CreateActor, Create, Data
    <2>5. QED
      BY <1>13, <2>2, <2>3, <2>4 DEF CreateActor, calls, Data
  <1>14. ASSUME NEW t \in Threads, CreateUnregistered(t)
         PROVE  Data'
    BY <1>14 DEF CreateUnregistered, New, Create, maps, calls, engine, Data, Places, Objects
  <1>15. ASSUME NEW t \in Threads, NEW i \in Ids, UnregisterController(t, i)
         PROVE  Data'
    BY <1>15 DEF UnregisterController, Goto, objects, past, engine, Data, Places, Objects
  <1>16. ASSUME NEW t \in Threads, NEW i \in Ids, UnregisterActor(t, i)
         PROVE  Data'
    BY <1>16 DEF UnregisterActor, Goto, objects, past, engine, Data, Places, Objects
  <1>17. ASSUME NEW t \in Threads, Drop(t)
         PROVE  Data'
    <2>1. Release({ptr[t]})
      BY <1>17 DEF Drop
    <2>2. live' \subseteq Objects /\ owned' \subseteq live' /\ released' \in [Objects -> Nat]
      BY <2>1, Releasing
    <2>3. QED
      BY <1>17, <2>2 DEF Drop, Return, maps, engine, Data, Places
  <1>18. ASSUME NEW t \in Threads, NEW i \in Ids, FindController(t, i)
         PROVE  Data'
    BY <1>18 DEF FindController, Goto, maps, objects, past, engine, Data, Places, Objects
  <1>19. ASSUME NEW t \in Threads, NEW i \in Ids, FindActor(t, i)
         PROVE  Data'
    BY <1>19 DEF FindActor, Goto, maps, objects, past, engine, Data, Places, Objects
  <1>20. ASSUME NEW t \in Threads, Peek(t)
         PROVE  Data'
    BY <1>20 DEF Peek, Goto, maps, objects, past, engine, Data, Places, Objects
  <1>21. ASSUME NEW t \in Threads, PeekInVain(t)
         PROVE  Data'
    BY <1>21 DEF PeekInVain, Return, maps, objects, past, engine, Data, Places, Objects
  <1>22. ASSUME NEW t \in Threads, Use(t)
         PROVE  Data'
    BY <1>22 DEF Use, Return, maps, objects, past, engine, Data, Places, Objects
  <1>23. ASSUME NEW t \in Threads, StepSimulation(t)
         PROVE  Data'
    BY <1>23 DEF StepSimulation, Goto, maps, objects, past, engine, Data, Places, Objects
  <1>24. ASSUME NEW t \in Threads, StepDone(t)
         PROVE  Data'
    BY <1>24 DEF StepDone, Return, maps, objects, past, engine, Data, Places, Objects
  <1>25. CASE UNCHANGED physicsVars
    BY <1>25 DEF physicsVars, maps, calls, objects, past, engine, Data, Places, Objects
  <1>26. QED
    BY <1>1, <1>2, <1>3, <1>4, <1>5, <1>6, <1>7, <1>8, <1>9, <1>10, <1>11, <1>12, <1>13,
       <1>14, <1>15, <1>16, <1>17, <1>18, <1>19, <1>20, <1>21, <1>22, <1>23, <1>24, <1>25
       DEF PhysicsNext, Call, Finish, Locked

\* Standing is preserved.
LEMMA StandingStep ==
    ASSUME Data, Numbered, Standing, [PhysicsNext]_physicsVars
    PROVE  Standing'
  <1>1. ASSUME NEW t \in Threads, Initialize(t)
         PROVE  Standing'
    BY <1>1 DEF Initialize, InitializeMayRun, maps, calls, objects, Data, Numbered,
       Standing, WithPointer, WithMutex
  <1>2. ASSUME NEW t \in Threads, InitializeFails(t)
         PROVE  Standing'
    BY <1>2 DEF InitializeFails, InitializeMayRun, maps, calls, objects, engine, Data,
       Numbered, Standing, WithPointer, WithMutex
  <1>3. ASSUME NEW t \in Threads, InitializeLocksTwice(t)
         PROVE  Standing'
    BY <1>3 DEF InitializeLocksTwice, InitializeMayRun, Goto, maps, objects, Data,
       Numbered, Standing, WithPointer, WithMutex
  <1>4. ASSUME NEW t \in Threads, InitializeThrows(t)
         PROVE  Standing'
    BY <1>4 DEF InitializeThrows, InitializeMayRun, maps, calls, objects, Data, Numbered,
       Standing, WithPointer, WithMutex
  <1>5. ASSUME NEW t \in Threads, Shutdown(t)
         PROVE  Standing'
    BY <1>5 DEF Shutdown, Goto, Release, Crossed, maps, Data, Numbered, Standing,
       WithPointer, WithMutex
  <1>6. ASSUME NEW t \in Threads, ShutdownControllers(t)
         PROVE  Standing'
    BY <1>6 DEF ShutdownControllers, Goto, Release, Registered, engine, Data, Numbered,
       Standing, WithPointer, WithMutex
  <1>7. ASSUME NEW t \in Threads, ShutdownActors(t)
         PROVE  Standing'
    BY <1>7 DEF ShutdownActors, Goto, Release, Registered, engine, Data, Numbered,
       Standing, WithPointer, WithMutex
  <1>8. ASSUME NEW t \in Threads, ShutdownScene(t)
         PROVE  Standing'
    BY <1>8 DEF ShutdownScene, Return, Crossed, maps, Data, Numbered, Standing,
       WithPointer, WithMutex
  <1>9. ASSUME NEW t \in Threads, NEW i \in Ids, CreateController(t, i)
         PROVE  Standing'
    BY <1>9 DEF CreateController, Goto, maps, objects, past, engine, Data, Numbered,
       Standing, WithPointer, WithMutex
  <1>10. ASSUME NEW t \in Threads, Created(t)
         PROVE  Standing'
    BY <1>10 DEF Created, Goto, New, Create, maps, past, engine, Data, Numbered, Standing,
       WithPointer, WithMutex
  <1>11. ASSUME NEW t \in Threads, CreateFails(t)
         PROVE  Standing'
    BY <1>11 DEF CreateFails, Return, maps, objects, past, engine, Data, Numbered,
       Standing, WithPointer, WithMutex
  <1>12. ASSUME NEW t \in Threads, RegisterController(t)
         PROVE  Standing'
    BY <1>12 DEF RegisterController, Return, objects, engine, Data, Numbered, Standing,
       WithPointer, WithMutex
  <1>13. ASSUME NEW t \in Threads, NEW i \in Ids, CreateActor(t, i)
         PROVE  Standing'
    BY <1>13 DEF CreateActor, New, Create, calls, engine, Data, Numbered, Standing,
       WithPointer, WithMutex
  <1>14. ASSUME NEW t \in Threads, CreateUnregistered(t)
         PROVE  Standing'
    BY <1>14 DEF CreateUnregistered, New, Create, maps, calls, engine, Data, Numbered,
       Standing, WithPointer, WithMutex
  <1>15. ASSUME NEW t \in Threads, NEW i \in Ids, UnregisterController(t, i)
         PROVE  Standing'
    BY <1>15 DEF UnregisterController, Goto, objects, past, engine, Data, Numbered,
       Standing, WithPointer, WithMutex
  <1>16. ASSUME NEW t \in Threads, NEW i \in Ids, UnregisterActor(t, i)
         PROVE  Standing'
    BY <1>16 DEF UnregisterActor, Goto, objects, past, engine, Data, Numbered, Standing,
       WithPointer, WithMutex
  <1>17. ASSUME NEW t \in Threads, Drop(t)
         PROVE  Standing'
    BY <1>17 DEF Drop, Return, Release, maps, engine, Data, Numbered, Standing,
       WithPointer, WithMutex
  <1>18. ASSUME NEW t \in Threads, NEW i \in Ids, FindController(t, i)
         PROVE  Standing'
    BY <1>18 DEF FindController, Goto, maps, objects, past, engine, Data, Numbered,
       Standing, WithPointer, WithMutex
  <1>19. ASSUME NEW t \in Threads, NEW i \in Ids, FindActor(t, i)
         PROVE  Standing'
    BY <1>19 DEF FindActor, Goto, maps, objects, past, engine, Data, Numbered, Standing,
       WithPointer, WithMutex
  <1>20. ASSUME NEW t \in Threads, Peek(t)
         PROVE  Standing'
    BY <1>20 DEF Peek, Goto, maps, objects, past, engine, Data, Numbered, Standing,
       WithPointer, WithMutex
  <1>21. ASSUME NEW t \in Threads, PeekInVain(t)
         PROVE  Standing'
    BY <1>21 DEF PeekInVain, Return, maps, objects, past, engine, Data, Numbered, Standing,
       WithPointer, WithMutex
  <1>22. ASSUME NEW t \in Threads, Use(t)
         PROVE  Standing'
    BY <1>22 DEF Use, Return, maps, objects, past, engine, Data, Numbered, Standing,
       WithPointer, WithMutex
  <1>23. ASSUME NEW t \in Threads, StepSimulation(t)
         PROVE  Standing'
    BY <1>23 DEF StepSimulation, Goto, maps, objects, past, engine, Data, Numbered,
       Standing, WithPointer, WithMutex
  <1>24. ASSUME NEW t \in Threads, StepDone(t)
         PROVE  Standing'
    BY <1>24 DEF StepDone, Return, maps, objects, past, engine, Data, Numbered, Standing,
       WithPointer, WithMutex
  <1>25. CASE UNCHANGED physicsVars
    BY <1>25 DEF physicsVars, maps, calls, objects, past, engine, Data, Numbered, Standing,
       WithPointer, WithMutex
  <1>26. QED
    BY <1>1, <1>2, <1>3, <1>4, <1>5, <1>6, <1>7, <1>8, <1>9, <1>10, <1>11, <1>12, <1>13,
       <1>14, <1>15, <1>16, <1>17, <1>18, <1>19, <1>20, <1>21, <1>22, <1>23, <1>24, <1>25
       DEF PhysicsNext, Call, Finish, Locked

\* Numbered is preserved.
LEMMA NumberedStep ==
    ASSUME Data, Numbered, [PhysicsNext]_physicsVars
    PROVE  Numbered'
  <1>1. ASSUME NEW t \in Threads, Initialize(t)
         PROVE  Numbered'
    BY <1>1 DEF Initialize, InitializeMayRun, maps, calls, objects, Numbered, Data,
       Standing, Objects
  <1>2. ASSUME NEW t \in Threads, InitializeFails(t)
         PROVE  Numbered'
    BY <1>2 DEF InitializeFails, InitializeMayRun, maps, calls, objects, engine, Numbered,
       Data, Standing, Objects
  <1>3. ASSUME NEW t \in Threads, InitializeLocksTwice(t)
         PROVE  Numbered'
    BY <1>3 DEF InitializeLocksTwice, InitializeMayRun, Goto, maps, objects, Numbered,
       Data, Standing, Objects
  <1>4. ASSUME NEW t \in Threads, InitializeThrows(t)
         PROVE  Numbered'
    BY <1>4 DEF InitializeThrows, InitializeMayRun, maps, calls, objects, Numbered, Data,
       Standing, Objects
  <1>5. ASSUME NEW t \in Threads, Shutdown(t)
         PROVE  Numbered'
    BY <1>5 DEF Shutdown, Goto, Release, Crossed, maps, Numbered, Data, Standing, Objects
  <1>6. ASSUME NEW t \in Threads, ShutdownControllers(t)
         PROVE  Numbered'
    BY <1>6 DEF ShutdownControllers, Goto, Release, Registered, engine, Numbered, Data,
       Standing, Objects
  <1>7. ASSUME NEW t \in Threads, ShutdownActors(t)
         PROVE  Numbered'
    BY <1>7 DEF ShutdownActors, Goto, Release, Registered, engine, Numbered, Data,
       Standing, Objects
  <1>8. ASSUME NEW t \in Threads, ShutdownScene(t)
         PROVE  Numbered'
    BY <1>8 DEF ShutdownScene, Return, Crossed, maps, Numbered, Data, Standing, Objects
  <1>9. ASSUME NEW t \in Threads, NEW i \in Ids, CreateController(t, i)
         PROVE  Numbered'
    BY <1>9 DEF CreateController, Goto, maps, objects, past, engine, Numbered, Data,
       Standing, Objects
  <1>10. ASSUME NEW t \in Threads, Created(t)
         PROVE  Numbered'
    BY <1>10 DEF Created, Goto, New, Create, maps, past, engine, Numbered, Data, Standing,
       Objects
  <1>11. ASSUME NEW t \in Threads, CreateFails(t)
         PROVE  Numbered'
    BY <1>11 DEF CreateFails, Return, maps, objects, past, engine, Numbered, Data,
       Standing, Objects
  <1>12. ASSUME NEW t \in Threads, RegisterController(t)
         PROVE  Numbered'
    BY <1>12 DEF RegisterController, Return, objects, engine, Numbered, Data, Standing,
       Objects
  <1>13. ASSUME NEW t \in Threads, NEW i \in Ids, CreateActor(t, i)
         PROVE  Numbered'
    BY <1>13 DEF CreateActor, New, Create, calls, engine, Numbered, Data, Standing, Objects
  <1>14. ASSUME NEW t \in Threads, CreateUnregistered(t)
         PROVE  Numbered'
    BY <1>14 DEF CreateUnregistered, New, Create, maps, calls, engine, Numbered, Data,
       Standing, Objects
  <1>15. ASSUME NEW t \in Threads, NEW i \in Ids, UnregisterController(t, i)
         PROVE  Numbered'
    BY <1>15 DEF UnregisterController, Goto, objects, past, engine, Numbered, Data,
       Standing, Objects
  <1>16. ASSUME NEW t \in Threads, NEW i \in Ids, UnregisterActor(t, i)
         PROVE  Numbered'
    BY <1>16 DEF UnregisterActor, Goto, objects, past, engine, Numbered, Data, Standing,
       Objects
  <1>17. ASSUME NEW t \in Threads, Drop(t)
         PROVE  Numbered'
    BY <1>17 DEF Drop, Return, Release, maps, engine, Numbered, Data, Standing, Objects
  <1>18. ASSUME NEW t \in Threads, NEW i \in Ids, FindController(t, i)
         PROVE  Numbered'
    BY <1>18 DEF FindController, Goto, maps, objects, past, engine, Numbered, Data,
       Standing, Objects
  <1>19. ASSUME NEW t \in Threads, NEW i \in Ids, FindActor(t, i)
         PROVE  Numbered'
    BY <1>19 DEF FindActor, Goto, maps, objects, past, engine, Numbered, Data, Standing,
       Objects
  <1>20. ASSUME NEW t \in Threads, Peek(t)
         PROVE  Numbered'
    BY <1>20 DEF Peek, Goto, maps, objects, past, engine, Numbered, Data, Standing, Objects
  <1>21. ASSUME NEW t \in Threads, PeekInVain(t)
         PROVE  Numbered'
    BY <1>21 DEF PeekInVain, Return, maps, objects, past, engine, Numbered, Data, Standing,
       Objects
  <1>22. ASSUME NEW t \in Threads, Use(t)
         PROVE  Numbered'
    BY <1>22 DEF Use, Return, maps, objects, past, engine, Numbered, Data, Standing, Objects
  <1>23. ASSUME NEW t \in Threads, StepSimulation(t)
         PROVE  Numbered'
    BY <1>23 DEF StepSimulation, Goto, maps, objects, past, engine, Numbered, Data,
       Standing, Objects
  <1>24. ASSUME NEW t \in Threads, StepDone(t)
         PROVE  Numbered'
    BY <1>24 DEF StepDone, Return, maps, objects, past, engine, Numbered, Data, Standing,
       Objects
  <1>25. CASE UNCHANGED physicsVars
    BY <1>25 DEF physicsVars, maps, calls, objects, past, engine, Numbered, Data, Standing,
       Objects
  <1>26. QED
    BY <1>1, <1>2, <1>3, <1>4, <1>5, <1>6, <1>7, <1>8, <1>9, <1>10, <1>11, <1>12, <1>13,
       <1>14, <1>15, <1>16, <1>17, <1>18, <1>19, <1>20, <1>21, <1>22, <1>23, <1>24, <1>25
       DEF PhysicsNext, Call, Finish, Locked

\* OnePlace is preserved.
LEMMA OnePlaceStep ==
    ASSUME Data, Standing, Numbered, OnePlace, [PhysicsNext]_physicsVars
    PROVE  OnePlace'
  <1>1. ASSUME NEW t \in Threads, Initialize(t)
         PROVE  OnePlace'
    BY <1>1 DEF Initialize, InitializeMayRun, maps, calls, objects, Numbered, OnePlace,
       Data, Standing, WithPointer, InHand, Objects
  <1>2. ASSUME NEW t \in Threads, InitializeFails(t)
         PROVE  OnePlace'
    BY <1>2 DEF InitializeFails, InitializeMayRun, maps, calls, objects, engine, Numbered,
       OnePlace, Data, Standing, WithPointer, InHand, Objects
  <1>3. ASSUME NEW t \in Threads, InitializeLocksTwice(t)
         PROVE  OnePlace'
    BY <1>3 DEF InitializeLocksTwice, InitializeMayRun, Goto, maps, objects, Numbered,
       OnePlace, Data, Standing, WithPointer, InHand, Objects
  <1>4. ASSUME NEW t \in Threads, InitializeThrows(t)
         PROVE  OnePlace'
    BY <1>4 DEF InitializeThrows, InitializeMayRun, maps, calls, objects, Numbered,
       OnePlace, Data, Standing, WithPointer, InHand, Objects
  <1>5. ASSUME NEW t \in Threads, Shutdown(t)
         PROVE  OnePlace'
    BY <1>5 DEF Shutdown, Goto, Release, Crossed, maps, Numbered, OnePlace, Data, Standing,
       WithPointer, InHand, Objects
  <1>6. ASSUME NEW t \in Threads, ShutdownControllers(t)
         PROVE  OnePlace'
    BY <1>6 DEF ShutdownControllers, Goto, Release, Registered, engine, Numbered, OnePlace,
       Data, Standing, WithPointer, InHand, Objects
  <1>7. ASSUME NEW t \in Threads, ShutdownActors(t)
         PROVE  OnePlace'
    BY <1>7 DEF ShutdownActors, Goto, Release, Registered, engine, Numbered, OnePlace,
       Data, Standing, WithPointer, InHand, Objects
  <1>8. ASSUME NEW t \in Threads, ShutdownScene(t)
         PROVE  OnePlace'
    BY <1>8 DEF ShutdownScene, Return, Crossed, maps, Numbered, OnePlace, Data, Standing,
       WithPointer, InHand, Objects
  <1>9. ASSUME NEW t \in Threads, NEW i \in Ids, CreateController(t, i)
         PROVE  OnePlace'
    BY <1>9 DEF CreateController, Goto, maps, objects, past, engine, Numbered, OnePlace,
       Data, Standing, WithPointer, InHand, Objects
  <1>10. ASSUME NEW t \in Threads, Created(t)
         PROVE  OnePlace'
    BY <1>10 DEF Created, Goto, New, Create, maps, past, engine, Numbered, OnePlace, Data,
       Standing, WithPointer, InHand, Objects
  <1>11. ASSUME NEW t \in Threads, CreateFails(t)
         PROVE  OnePlace'
    BY <1>11 DEF CreateFails, Return, maps, objects, past, engine, Numbered, OnePlace,
       Data, Standing, WithPointer, InHand, Objects
  <1>12. ASSUME NEW t \in Threads, RegisterController(t)
         PROVE  OnePlace'
    BY <1>12 DEF RegisterController, Return, objects, engine, Numbered, OnePlace, Data,
       Standing, WithPointer, InHand, Objects
  <1>13. ASSUME NEW t \in Threads, NEW i \in Ids, CreateActor(t, i)
         PROVE  OnePlace'
    BY <1>13 DEF CreateActor, New, Create, calls, engine, Numbered, OnePlace, Data,
       Standing, WithPointer, InHand, Objects
  <1>14. ASSUME NEW t \in Threads, CreateUnregistered(t)
         PROVE  OnePlace'
    BY <1>14 DEF CreateUnregistered, New, Create, maps, calls, engine, Numbered, OnePlace,
       Data, Standing, WithPointer, InHand, Objects
  <1>15. ASSUME NEW t \in Threads, NEW i \in Ids, UnregisterController(t, i)
         PROVE  OnePlace'
    BY <1>15 DEF UnregisterController, Goto, objects, past, engine, Numbered, OnePlace,
       Data, Standing, WithPointer, InHand, Objects
  <1>16. ASSUME NEW t \in Threads, NEW i \in Ids, UnregisterActor(t, i)
         PROVE  OnePlace'
    BY <1>16 DEF UnregisterActor, Goto, objects, past, engine, Numbered, OnePlace, Data,
       Standing, WithPointer, InHand, Objects
  <1>17. ASSUME NEW t \in Threads, Drop(t)
         PROVE  OnePlace'
    BY <1>17 DEF Drop, Return, Release, maps, engine, Numbered, OnePlace, Data, Standing,
       WithPointer, InHand, Objects
  <1>18. ASSUME NEW t \in Threads, NEW i \in Ids, FindController(t, i)
         PROVE  OnePlace'
    BY <1>18 DEF FindController, Goto, maps, objects, past, engine, Numbered, OnePlace,
       Data, Standing, WithPointer, InHand, Objects
  <1>19. ASSUME NEW t \in Threads, NEW i \in Ids, FindActor(t, i)
         PROVE  OnePlace'
    BY <1>19 DEF FindActor, Goto, maps, objects, past, engine, Numbered, OnePlace, Data,
       Standing, WithPointer, InHand, Objects
  <1>20. ASSUME NEW t \in Threads, Peek(t)
         PROVE  OnePlace'
    BY <1>20 DEF Peek, Goto, maps, objects, past, engine, Numbered, OnePlace, Data,
       Standing, WithPointer, InHand, Objects
  <1>21. ASSUME NEW t \in Threads, PeekInVain(t)
         PROVE  OnePlace'
    BY <1>21 DEF PeekInVain, Return, maps, objects, past, engine, Numbered, OnePlace, Data,
       Standing, WithPointer, InHand, Objects
  <1>22. ASSUME NEW t \in Threads, Use(t)
         PROVE  OnePlace'
    BY <1>22 DEF Use, Return, maps, objects, past, engine, Numbered, OnePlace, Data,
       Standing, WithPointer, InHand, Objects
  <1>23. ASSUME NEW t \in Threads, StepSimulation(t)
         PROVE  OnePlace'
    BY <1>23 DEF StepSimulation, Goto, maps, objects, past, engine, Numbered, OnePlace,
       Data, Standing, WithPointer, InHand, Objects
  <1>24. ASSUME NEW t \in Threads, StepDone(t)
         PROVE  OnePlace'
    BY <1>24 DEF StepDone, Return, maps, objects, past, engine, Numbered, OnePlace, Data,
       Standing, WithPointer, InHand, Objects
  <1>25. CASE UNCHANGED physicsVars
    BY <1>25 DEF physicsVars, maps, calls, objects, past, engine, Numbered, OnePlace, Data,
       Standing, WithPointer, InHand, Objects
  <1>26. QED
    BY <1>1, <1>2, <1>3, <1>4, <1>5, <1>6, <1>7, <1>8, <1>9, <1>10, <1>11, <1>12, <1>13,
       <1>14, <1>15, <1>16, <1>17, <1>18, <1>19, <1>20, <1>21, <1>22, <1>23, <1>24, <1>25
       DEF PhysicsNext, Call, Finish, Locked

\* ShuttingDown is preserved.
LEMMA ShuttingDownStep ==
    ASSUME Data, Standing, ShuttingDown, [PhysicsNext]_physicsVars
    PROVE  ShuttingDown'
  <1>1. ASSUME NEW t \in Threads, Initialize(t)
         PROVE  ShuttingDown'
    BY <1>1 DEF Initialize, InitializeMayRun, maps, calls, objects, ShuttingDown, Data,
       Standing, WithMutex
  <1>2. ASSUME NEW t \in Threads, InitializeFails(t)
         PROVE  ShuttingDown'
    BY <1>2 DEF InitializeFails, InitializeMayRun, maps, calls, objects, engine,
       ShuttingDown, Data, Standing, WithMutex
  <1>3. ASSUME NEW t \in Threads, InitializeLocksTwice(t)
         PROVE  ShuttingDown'
    BY <1>3 DEF InitializeLocksTwice, InitializeMayRun, Goto, maps, objects, ShuttingDown,
       Data, Standing, WithMutex
  <1>4. ASSUME NEW t \in Threads, InitializeThrows(t)
         PROVE  ShuttingDown'
    BY <1>4 DEF InitializeThrows, InitializeMayRun, maps, calls, objects, ShuttingDown,
       Data, Standing, WithMutex
  <1>5. ASSUME NEW t \in Threads, Shutdown(t)
         PROVE  ShuttingDown'
    BY <1>5 DEF Shutdown, Goto, Release, Crossed, maps, ShuttingDown, Data, Standing,
       WithMutex
  <1>6. ASSUME NEW t \in Threads, ShutdownControllers(t)
         PROVE  ShuttingDown'
    BY <1>6 DEF ShutdownControllers, Goto, Release, Registered, engine, ShuttingDown, Data,
       Standing, WithMutex
  <1>7. ASSUME NEW t \in Threads, ShutdownActors(t)
         PROVE  ShuttingDown'
    BY <1>7 DEF ShutdownActors, Goto, Release, Registered, engine, ShuttingDown, Data,
       Standing, WithMutex
  <1>8. ASSUME NEW t \in Threads, ShutdownScene(t)
         PROVE  ShuttingDown'
    BY <1>8 DEF ShutdownScene, Return, Crossed, maps, ShuttingDown, Data, Standing,
       WithMutex
  <1>9. ASSUME NEW t \in Threads, NEW i \in Ids, CreateController(t, i)
         PROVE  ShuttingDown'
    BY <1>9 DEF CreateController, Goto, maps, objects, past, engine, ShuttingDown, Data,
       Standing, WithMutex
  <1>10. ASSUME NEW t \in Threads, Created(t)
         PROVE  ShuttingDown'
    BY <1>10 DEF Created, Goto, New, Create, maps, past, engine, ShuttingDown, Data,
       Standing, WithMutex
  <1>11. ASSUME NEW t \in Threads, CreateFails(t)
         PROVE  ShuttingDown'
    BY <1>11 DEF CreateFails, Return, maps, objects, past, engine, ShuttingDown, Data,
       Standing, WithMutex
  <1>12. ASSUME NEW t \in Threads, RegisterController(t)
         PROVE  ShuttingDown'
    BY <1>12 DEF RegisterController, Return, objects, engine, ShuttingDown, Data, Standing,
       WithMutex
  <1>13. ASSUME NEW t \in Threads, NEW i \in Ids, CreateActor(t, i)
         PROVE  ShuttingDown'
    BY <1>13 DEF CreateActor, New, Create, calls, engine, ShuttingDown, Data, Standing,
       WithMutex
  <1>14. ASSUME NEW t \in Threads, CreateUnregistered(t)
         PROVE  ShuttingDown'
    BY <1>14 DEF CreateUnregistered, New, Create, maps, calls, engine, ShuttingDown, Data,
       Standing, WithMutex
  <1>15. ASSUME NEW t \in Threads, NEW i \in Ids, UnregisterController(t, i)
         PROVE  ShuttingDown'
    BY <1>15 DEF UnregisterController, Goto, objects, past, engine, ShuttingDown, Data,
       Standing, WithMutex
  <1>16. ASSUME NEW t \in Threads, NEW i \in Ids, UnregisterActor(t, i)
         PROVE  ShuttingDown'
    BY <1>16 DEF UnregisterActor, Goto, objects, past, engine, ShuttingDown, Data,
       Standing, WithMutex
  <1>17. ASSUME NEW t \in Threads, Drop(t)
         PROVE  ShuttingDown'
    BY <1>17 DEF Drop, Return, Release, maps, engine, ShuttingDown, Data, Standing,
       WithMutex
  <1>18. ASSUME NEW t \in Threads, NEW i \in Ids, FindController(t, i)
         PROVE  ShuttingDown'
    BY <1>18 DEF FindController, Goto, maps, objects, past, engine, ShuttingDown, Data,
       Standing, WithMutex
  <1>19. ASSUME NEW t \in Threads, NEW i \in Ids, FindActor(t, i)
         PROVE  ShuttingDown'
    BY <1>19 DEF FindActor, Goto, maps, objects, past, engine, ShuttingDown, Data,
       Standing, WithMutex
  <1>20. ASSUME NEW t \in Threads, Peek(t)
         PROVE  ShuttingDown'
    BY <1>20 DEF Peek, Goto, maps, objects, past, engine, ShuttingDown, Data, Standing,
       WithMutex
  <1>21. ASSUME NEW t \in Threads, PeekInVain(t)
         PROVE  ShuttingDown'
    BY <1>21 DEF PeekInVain, Return, maps, objects, past, engine, ShuttingDown, Data,
       Standing, WithMutex
  <1>22. ASSUME NEW t \in Threads, Use(t)
         PROVE  ShuttingDown'
    BY <1>22 DEF Use, Return, maps, objects, past, engine, ShuttingDown, Data, Standing,
       WithMutex
  <1>23. ASSUME NEW t \in Threads, StepSimulation(t)
         PROVE  ShuttingDown'
    BY <1>23 DEF StepSimulation, Goto, maps, objects, past, engine, ShuttingDown, Data,
       Standing, WithMutex
  <1>24. ASSUME NEW t \in Threads, StepDone(t)
         PROVE  ShuttingDown'
    BY <1>24 DEF StepDone, Return, maps, objects, past, engine, ShuttingDown, Data,
       Standing, WithMutex
  <1>25. CASE UNCHANGED physicsVars
    BY <1>25 DEF physicsVars, maps, calls, objects, past, engine, ShuttingDown, Data,
       Standing, WithMutex
  <1>26. QED
    BY <1>1, <1>2, <1>3, <1>4, <1>5, <1>6, <1>7, <1>8, <1>9, <1>10, <1>11, <1>12, <1>13,
       <1>14, <1>15, <1>16, <1>17, <1>18, <1>19, <1>20, <1>21, <1>22, <1>23, <1>24, <1>25
       DEF PhysicsNext, Call, Finish, Locked

\* HandsAreLive is preserved.
LEMMA HandsStep ==
    ASSUME Data, Standing, OnePlace, ShuttingDown, HandsAreLive, LookupIsLive, [PhysicsNext]_physicsVars
    PROVE  HandsAreLive'
  <1>1. ASSUME NEW t \in Threads, Initialize(t)
         PROVE  HandsAreLive'
    BY <1>1 DEF Initialize, InitializeMayRun, maps, calls, objects, HandsAreLive,
       LookupIsLive, ShuttingDown, OnePlace, Data, Standing, WithMutex, InHand, Registered,
       Objects
  <1>2. ASSUME NEW t \in Threads, InitializeFails(t)
         PROVE  HandsAreLive'
    BY <1>2 DEF InitializeFails, InitializeMayRun, maps, calls, objects, engine,
       HandsAreLive, LookupIsLive, ShuttingDown, OnePlace, Data, Standing, WithMutex,
       InHand, Registered, Objects
  <1>3. ASSUME NEW t \in Threads, InitializeLocksTwice(t)
         PROVE  HandsAreLive'
    BY <1>3 DEF InitializeLocksTwice, InitializeMayRun, Goto, maps, objects, HandsAreLive,
       LookupIsLive, ShuttingDown, OnePlace, Data, Standing, WithMutex, InHand, Registered,
       Objects
  <1>4. ASSUME NEW t \in Threads, InitializeThrows(t)
         PROVE  HandsAreLive'
    BY <1>4 DEF InitializeThrows, InitializeMayRun, maps, calls, objects, HandsAreLive,
       LookupIsLive, ShuttingDown, OnePlace, Data, Standing, WithMutex, InHand, Registered,
       Objects
  <1>5. ASSUME NEW t \in Threads, Shutdown(t)
         PROVE  HandsAreLive'
    <2>1. at'[t] = "clearing"
      BY <1>5 DEF Shutdown, Goto, Data
    <2>2. QED
      BY <2>1 DEF HandsAreLive
  <1>6. ASSUME NEW t \in Threads, ShutdownControllers(t)
         PROVE  HandsAreLive'
    BY <1>6 DEF ShutdownControllers, Goto, Release, Registered, engine, HandsAreLive,
       LookupIsLive, ShuttingDown, OnePlace, Data, Standing, WithMutex, InHand, Objects
  <1>7. ASSUME NEW t \in Threads, ShutdownActors(t)
         PROVE  HandsAreLive'
    BY <1>7 DEF ShutdownActors, Goto, Release, Registered, engine, HandsAreLive,
       LookupIsLive, ShuttingDown, OnePlace, Data, Standing, WithMutex, InHand, Objects
  <1>8. ASSUME NEW t \in Threads, ShutdownScene(t)
         PROVE  HandsAreLive'
    <2>1. CASE overtaken'
      BY <2>1 DEF HandsAreLive
    <2>2. CASE ~overtaken'
      <3>1. \A u \in Threads \ {t} : at[u] = "outside"
        BY <1>8, <2>2 DEF ShutdownScene, Crossed
      <3>2. \A u \in Threads : at'[u] = "outside"
        BY <1>8, <3>1 DEF ShutdownScene, Return, Data
      <3>3. QED
        BY <3>2 DEF HandsAreLive, InHand
    <2>3. QED
      BY <2>1, <2>2
  <1>9. ASSUME NEW t \in Threads, NEW i \in Ids, CreateController(t, i)
         PROVE  HandsAreLive'
    BY <1>9 DEF CreateController, Goto, maps, objects, past, engine, HandsAreLive,
       LookupIsLive, ShuttingDown, OnePlace, Data, Standing, WithMutex, InHand, Registered,
       Objects
  <1>10. ASSUME NEW t \in Threads, Created(t)
         PROVE  HandsAreLive'
    BY <1>10 DEF Created, Goto, New, Create, maps, past, engine, HandsAreLive,
       LookupIsLive, ShuttingDown, OnePlace, Data, Standing, WithMutex, InHand, Registered,
       Objects
  <1>11. ASSUME NEW t \in Threads, CreateFails(t)
         PROVE  HandsAreLive'
    BY <1>11 DEF CreateFails, Return, maps, objects, past, engine, HandsAreLive,
       LookupIsLive, ShuttingDown, OnePlace, Data, Standing, WithMutex, InHand, Registered,
       Objects
  <1>12. ASSUME NEW t \in Threads, RegisterController(t)
         PROVE  HandsAreLive'
    BY <1>12 DEF RegisterController, Return, objects, engine, HandsAreLive, LookupIsLive,
       ShuttingDown, OnePlace, Data, Standing, WithMutex, InHand, Registered, Objects
  <1>13. ASSUME NEW t \in Threads, NEW i \in Ids, CreateActor(t, i)
         PROVE  HandsAreLive'
    BY <1>13 DEF CreateActor, New, Create, calls, engine, HandsAreLive, LookupIsLive,
       ShuttingDown, OnePlace, Data, Standing, WithMutex, InHand, Registered, Objects
  <1>14. ASSUME NEW t \in Threads, CreateUnregistered(t)
         PROVE  HandsAreLive'
    BY <1>14 DEF CreateUnregistered, New, Create, maps, calls, engine, HandsAreLive,
       LookupIsLive, ShuttingDown, OnePlace, Data, Standing, WithMutex, InHand, Registered,
       Objects
  <1>15. ASSUME NEW t \in Threads, NEW i \in Ids, UnregisterController(t, i)
         PROVE  HandsAreLive'
    BY <1>15 DEF UnregisterController, Goto, objects, past, engine, HandsAreLive,
       LookupIsLive, ShuttingDown, OnePlace, Data, Standing, WithMutex, InHand, Registered,
       Objects
  <1>16. ASSUME NEW t \in Threads, NEW i \in Ids, UnregisterActor(t, i)
         PROVE  HandsAreLive'
    BY <1>16 DEF UnregisterActor, Goto, objects, past, engine, HandsAreLive, LookupIsLive,
       ShuttingDown, OnePlace, Data, Standing, WithMutex, InHand, Registered, Objects
  <1>17. ASSUME NEW t \in Threads, Drop(t)
         PROVE  HandsAreLive'
    BY <1>17 DEF Drop, Return, Release, maps, engine, HandsAreLive, LookupIsLive,
       ShuttingDown, OnePlace, Data, Standing, WithMutex, InHand, Registered, Objects
  <1>18. ASSUME NEW t \in Threads, NEW i \in Ids, FindController(t, i)
         PROVE  HandsAreLive'
    BY <1>18 DEF FindController, Goto, maps, objects, past, engine, HandsAreLive,
       LookupIsLive, ShuttingDown, OnePlace, Data, Standing, WithMutex, InHand, Registered,
       Objects
  <1>19. ASSUME NEW t \in Threads, NEW i \in Ids, FindActor(t, i)
         PROVE  HandsAreLive'
    BY <1>19 DEF FindActor, Goto, maps, objects, past, engine, HandsAreLive, LookupIsLive,
       ShuttingDown, OnePlace, Data, Standing, WithMutex, InHand, Registered, Objects
  <1>20. ASSUME NEW t \in Threads, Peek(t)
         PROVE  HandsAreLive'
    BY <1>20 DEF Peek, Goto, maps, objects, past, engine, HandsAreLive, LookupIsLive,
       ShuttingDown, OnePlace, Data, Standing, WithMutex, InHand, Registered, Objects
  <1>21. ASSUME NEW t \in Threads, PeekInVain(t)
         PROVE  HandsAreLive'
    BY <1>21 DEF PeekInVain, Return, maps, objects, past, engine, HandsAreLive,
       LookupIsLive, ShuttingDown, OnePlace, Data, Standing, WithMutex, InHand, Registered,
       Objects
  <1>22. ASSUME NEW t \in Threads, Use(t)
         PROVE  HandsAreLive'
    BY <1>22 DEF Use, Return, maps, objects, past, engine, HandsAreLive, LookupIsLive,
       ShuttingDown, OnePlace, Data, Standing, WithMutex, InHand, Registered, Objects
  <1>23. ASSUME NEW t \in Threads, StepSimulation(t)
         PROVE  HandsAreLive'
    BY <1>23 DEF StepSimulation, Goto, maps, objects, past, engine, HandsAreLive,
       LookupIsLive, ShuttingDown, OnePlace, Data, Standing, WithMutex, InHand, Registered,
       Objects
  <1>24. ASSUME NEW t \in Threads, StepDone(t)
         PROVE  HandsAreLive'
    BY <1>24 DEF StepDone, Return, maps, objects, past, engine, HandsAreLive, LookupIsLive,
       ShuttingDown, OnePlace, Data, Standing, WithMutex, InHand, Registered, Objects
  <1>25. CASE UNCHANGED physicsVars
    BY <1>25 DEF physicsVars, maps, calls, objects, past, engine, HandsAreLive,
       LookupIsLive, ShuttingDown, OnePlace, Data, Standing, WithMutex, InHand, Registered,
       Objects
  <1>26. QED
    BY <1>1, <1>2, <1>3, <1>4, <1>5, <1>6, <1>7, <1>8, <1>9, <1>10, <1>11, <1>12, <1>13,
       <1>14, <1>15, <1>16, <1>17, <1>18, <1>19, <1>20, <1>21, <1>22, <1>23, <1>24, <1>25
       DEF PhysicsNext, Call, Finish, Locked

\* LookupIsLive is preserved.
LEMMA LookupStep ==
    ASSUME Data, Standing, OnePlace, ShuttingDown, HandsAreLive, LookupIsLive, [PhysicsNext]_physicsVars
    PROVE  LookupIsLive'
  <1>1. ASSUME NEW t \in Threads, Initialize(t)
         PROVE  LookupIsLive'
    BY <1>1 DEF Initialize, InitializeMayRun, maps, calls, objects, HandsAreLive,
       LookupIsLive, ShuttingDown, OnePlace, Data, Standing, WithMutex, InHand, Registered,
       Objects
  <1>2. ASSUME NEW t \in Threads, InitializeFails(t)
         PROVE  LookupIsLive'
    BY <1>2 DEF InitializeFails, InitializeMayRun, maps, calls, objects, engine,
       HandsAreLive, LookupIsLive, ShuttingDown, OnePlace, Data, Standing, WithMutex,
       InHand, Registered, Objects
  <1>3. ASSUME NEW t \in Threads, InitializeLocksTwice(t)
         PROVE  LookupIsLive'
    BY <1>3 DEF InitializeLocksTwice, InitializeMayRun, Goto, maps, objects, HandsAreLive,
       LookupIsLive, ShuttingDown, OnePlace, Data, Standing, WithMutex, InHand, Registered,
       Objects
  <1>4. ASSUME NEW t \in Threads, InitializeThrows(t)
         PROVE  LookupIsLive'
    BY <1>4 DEF InitializeThrows, InitializeMayRun, maps, calls, objects, HandsAreLive,
       LookupIsLive, ShuttingDown, OnePlace, Data, Standing, WithMutex, InHand, Registered,
       Objects
  <1>5. ASSUME NEW t \in Threads, Shutdown(t)
         PROVE  LookupIsLive'
    <2>1. at'[t] = "clearing" /\ actors' = actors
      BY <1>5 DEF Shutdown, Goto, maps, Data
    <2>2. live \ owned \subseteq live' /\ (overtaken => overtaken')
      BY <1>5 DEF Shutdown, Release, Data
    <2>3. Registered(actors) \cap owned = {}
      BY DEF OnePlace, Registered
    <2>4. QED
      BY <2>1, <2>2, <2>3 DEF LookupIsLive, Registered
  <1>6. ASSUME NEW t \in Threads, ShutdownControllers(t)
         PROVE  LookupIsLive'
    BY <1>6 DEF ShutdownControllers, Goto, Release, Registered, engine, HandsAreLive,
       LookupIsLive, ShuttingDown, OnePlace, Data, Standing, WithMutex, InHand, Objects
  <1>7. ASSUME NEW t \in Threads, ShutdownActors(t)
         PROVE  LookupIsLive'
    BY <1>7 DEF ShutdownActors, Goto, Release, Registered, engine, HandsAreLive,
       LookupIsLive, ShuttingDown, OnePlace, Data, Standing, WithMutex, InHand, Objects
  <1>8. ASSUME NEW t \in Threads, ShutdownScene(t)
         PROVE  LookupIsLive'
    <2>1. ~overtaken' => ~overtaken
      BY <1>8 DEF ShutdownScene
    <2>2. ~overtaken' => \A i \in Ids : actors'[i] = 0 /\ controllers'[i] = 0
      BY <1>8, <2>1 DEF ShutdownScene, ShuttingDown, maps
    <2>3. QED
      BY <2>2 DEF LookupIsLive, Registered
  <1>9. ASSUME NEW t \in Threads, NEW i \in Ids, CreateController(t, i)
         PROVE  LookupIsLive'
    BY <1>9 DEF CreateController, Goto, maps, objects, past, engine, HandsAreLive,
       LookupIsLive, ShuttingDown, OnePlace, Data, Standing, WithMutex, InHand, Registered,
       Objects
  <1>10. ASSUME NEW t \in Threads, Created(t)
         PROVE  LookupIsLive'
    BY <1>10 DEF Created, Goto, New, Create, maps, past, engine, HandsAreLive,
       LookupIsLive, ShuttingDown, OnePlace, Data, Standing, WithMutex, InHand, Registered,
       Objects
  <1>11. ASSUME NEW t \in Threads, CreateFails(t)
         PROVE  LookupIsLive'
    BY <1>11 DEF CreateFails, Return, maps, objects, past, engine, HandsAreLive,
       LookupIsLive, ShuttingDown, OnePlace, Data, Standing, WithMutex, InHand, Registered,
       Objects
  <1>12. ASSUME NEW t \in Threads, RegisterController(t)
         PROVE  LookupIsLive'
    BY <1>12 DEF RegisterController, Return, objects, engine, HandsAreLive, LookupIsLive,
       ShuttingDown, OnePlace, Data, Standing, WithMutex, InHand, Registered, Objects
  <1>13. ASSUME NEW t \in Threads, NEW i \in Ids, CreateActor(t, i)
         PROVE  LookupIsLive'
    BY <1>13 DEF CreateActor, New, Create, calls, engine, HandsAreLive, LookupIsLive,
       ShuttingDown, OnePlace, Data, Standing, WithMutex, InHand, Registered, Objects
  <1>14. ASSUME NEW t \in Threads, CreateUnregistered(t)
         PROVE  LookupIsLive'
    BY <1>14 DEF CreateUnregistered, New, Create, maps, calls, engine, HandsAreLive,
       LookupIsLive, ShuttingDown, OnePlace, Data, Standing, WithMutex, InHand, Registered,
       Objects
  <1>15. ASSUME NEW t \in Threads, NEW i \in Ids, UnregisterController(t, i)
         PROVE  LookupIsLive'
    BY <1>15 DEF UnregisterController, Goto, objects, past, engine, HandsAreLive,
       LookupIsLive, ShuttingDown, OnePlace, Data, Standing, WithMutex, InHand, Registered,
       Objects
  <1>16. ASSUME NEW t \in Threads, NEW i \in Ids, UnregisterActor(t, i)
         PROVE  LookupIsLive'
    BY <1>16 DEF UnregisterActor, Goto, objects, past, engine, HandsAreLive, LookupIsLive,
       ShuttingDown, OnePlace, Data, Standing, WithMutex, InHand, Registered, Objects
  <1>17. ASSUME NEW t \in Threads, Drop(t)
         PROVE  LookupIsLive'
    BY <1>17 DEF Drop, Return, Release, maps, engine, HandsAreLive, LookupIsLive,
       ShuttingDown, OnePlace, Data, Standing, WithMutex, InHand, Registered, Objects
  <1>18. ASSUME NEW t \in Threads, NEW i \in Ids, FindController(t, i)
         PROVE  LookupIsLive'
    BY <1>18 DEF FindController, Goto, maps, objects, past, engine, HandsAreLive,
       LookupIsLive, ShuttingDown, OnePlace, Data, Standing, WithMutex, InHand, Registered,
       Objects
  <1>19. ASSUME NEW t \in Threads, NEW i \in Ids, FindActor(t, i)
         PROVE  LookupIsLive'
    BY <1>19 DEF FindActor, Goto, maps, objects, past, engine, HandsAreLive, LookupIsLive,
       ShuttingDown, OnePlace, Data, Standing, WithMutex, InHand, Registered, Objects
  <1>20. ASSUME NEW t \in Threads, Peek(t)
         PROVE  LookupIsLive'
    BY <1>20 DEF Peek, Goto, maps, objects, past, engine, HandsAreLive, LookupIsLive,
       ShuttingDown, OnePlace, Data, Standing, WithMutex, InHand, Registered, Objects
  <1>21. ASSUME NEW t \in Threads, PeekInVain(t)
         PROVE  LookupIsLive'
    BY <1>21 DEF PeekInVain, Return, maps, objects, past, engine, HandsAreLive,
       LookupIsLive, ShuttingDown, OnePlace, Data, Standing, WithMutex, InHand, Registered,
       Objects
  <1>22. ASSUME NEW t \in Threads, Use(t)
         PROVE  LookupIsLive'
    BY <1>22 DEF Use, Return, maps, objects, past, engine, HandsAreLive, LookupIsLive,
       ShuttingDown, OnePlace, Data, Standing, WithMutex, InHand, Registered, Objects
  <1>23. ASSUME NEW t \in Threads, StepSimulation(t)
         PROVE  LookupIsLive'
    BY <1>23 DEF StepSimulation, Goto, maps, objects, past, engine, HandsAreLive,
       LookupIsLive, ShuttingDown, OnePlace, Data, Standing, WithMutex, InHand, Registered,
       Objects
  <1>24. ASSUME NEW t \in Threads, StepDone(t)
         PROVE  LookupIsLive'
    BY <1>24 DEF StepDone, Return, maps, objects, past, engine, HandsAreLive, LookupIsLive,
       ShuttingDown, OnePlace, Data, Standing, WithMutex, InHand, Registered, Objects
  <1>25. CASE UNCHANGED physicsVars
    BY <1>25 DEF physicsVars, maps, calls, objects, past, engine, HandsAreLive,
       LookupIsLive, ShuttingDown, OnePlace, Data, Standing, WithMutex, InHand, Registered,
       Objects
  <1>26. QED
    BY <1>1, <1>2, <1>3, <1>4, <1>5, <1>6, <1>7, <1>8, <1>9, <1>10, <1>11, <1>12, <1>13,
       <1>14, <1>15, <1>16, <1>17, <1>18, <1>19, <1>20, <1>21, <1>22, <1>23, <1>24, <1>25
       DEF PhysicsNext, Call, Finish, Locked

\* NothingLeaks is preserved.
LEMMA LeakStep ==
    ASSUME Data, Standing, NothingLeaks, [PhysicsNext]_physicsVars
    PROVE  NothingLeaks'
  <1>1. ASSUME NEW t \in Threads, Initialize(t)
         PROVE  NothingLeaks'
    <2> SUFFICES ASSUME NEW o \in live' PROVE Found(o)'
      BY DEF NothingLeaks, Found
    <2>1. o \in live /\ orphans' = orphans /\ controllers' = controllers /\ actors' = actors
      BY <1>1 DEF Initialize, InitializeMayRun, maps, calls, objects, Data
    <2>2. \A u \in Threads : at[u] \in InHand => at'[u] = at[u] /\ ptr'[u] = ptr[u]
      BY <1>1 DEF Initialize, InitializeMayRun, maps, calls, objects, InHand, Data
    <2>3. Found(o)
      BY <2>1 DEF NothingLeaks, Found
    <2>4. QED
      BY <2>1, <2>2, <2>3 DEF Found
  <1>2. ASSUME NEW t \in Threads, InitializeFails(t)
         PROVE  NothingLeaks'
    <2> SUFFICES ASSUME NEW o \in live' PROVE Found(o)'
      BY DEF NothingLeaks, Found
    <2>1. o \in live /\ orphans' = orphans /\ controllers' = controllers /\ actors' = actors
      BY <1>2 DEF InitializeFails, InitializeMayRun, maps, calls, objects, engine, Data
    <2>2. \A u \in Threads : at[u] \in InHand => at'[u] = at[u] /\ ptr'[u] = ptr[u]
      BY <1>2 DEF InitializeFails, InitializeMayRun, maps, calls, objects, engine, InHand,
         Data
    <2>3. Found(o)
      BY <2>1 DEF NothingLeaks, Found
    <2>4. QED
      BY <2>1, <2>2, <2>3 DEF Found
  <1>3. ASSUME NEW t \in Threads, InitializeLocksTwice(t)
         PROVE  NothingLeaks'
    <2> SUFFICES ASSUME NEW o \in live' PROVE Found(o)'
      BY DEF NothingLeaks, Found
    <2>1. o \in live /\ orphans' = orphans /\ controllers' = controllers /\ actors' = actors
      BY <1>3 DEF InitializeLocksTwice, InitializeMayRun, Goto, maps, objects, Data
    <2>2. \A u \in Threads : at[u] \in InHand => at'[u] = at[u] /\ ptr'[u] = ptr[u]
      BY <1>3 DEF InitializeLocksTwice, InitializeMayRun, Goto, maps, objects, InHand, Data
    <2>3. Found(o)
      BY <2>1 DEF NothingLeaks, Found
    <2>4. QED
      BY <2>1, <2>2, <2>3 DEF Found
  <1>4. ASSUME NEW t \in Threads, InitializeThrows(t)
         PROVE  NothingLeaks'
    <2> SUFFICES ASSUME NEW o \in live' PROVE Found(o)'
      BY DEF NothingLeaks, Found
    <2>1. o \in live /\ orphans' = orphans /\ controllers' = controllers /\ actors' = actors
      BY <1>4 DEF InitializeThrows, InitializeMayRun, maps, calls, objects, Data
    <2>2. \A u \in Threads : at[u] \in InHand => at'[u] = at[u] /\ ptr'[u] = ptr[u]
      BY <1>4 DEF InitializeThrows, InitializeMayRun, maps, calls, objects, InHand, Data
    <2>3. Found(o)
      BY <2>1 DEF NothingLeaks, Found
    <2>4. QED
      BY <2>1, <2>2, <2>3 DEF Found
  <1>5. ASSUME NEW t \in Threads, Shutdown(t)
         PROVE  NothingLeaks'
    <2> SUFFICES ASSUME NEW o \in live' PROVE Found(o)'
      BY DEF NothingLeaks, Found
    <2>1. o \in live /\ orphans' = orphans /\ controllers' = controllers /\ actors' = actors
      BY <1>5 DEF Shutdown, Goto, Release, Crossed, maps, Data
    <2>2. \A u \in Threads : at[u] \in InHand => at'[u] = at[u] /\ ptr'[u] = ptr[u]
      BY <1>5 DEF Shutdown, Goto, Release, Crossed, maps, InHand, Data
    <2>3. Found(o)
      BY <2>1 DEF NothingLeaks, Found
    <2>4. QED
      BY <2>1, <2>2, <2>3 DEF Found
  <1>6. ASSUME NEW t \in Threads, ShutdownControllers(t)
         PROVE  NothingLeaks'
    <2> SUFFICES ASSUME NEW o \in live' PROVE Found(o)'
      BY DEF NothingLeaks, Found
    <2>1. o \in live /\ orphans' = orphans /\ actors' = actors
      BY <1>6 DEF ShutdownControllers, Goto, Release, Registered, engine, Data
    <2>2. \A i \in Ids : o # controllers[i]
      BY <1>6 DEF ShutdownControllers, Goto, Release, Registered, engine, Data, Objects
    <2>3. \A u \in Threads : at[u] \in InHand => at'[u] = at[u] /\ ptr'[u] = ptr[u]
      BY <1>6 DEF ShutdownControllers, Goto, Release, Registered, engine, InHand, Data
    <2>4. Found(o)
      BY <1>6, <2>1 DEF ShutdownControllers, Goto, Release, Registered, engine,
         NothingLeaks, Found
    <2>5. QED
      BY <2>1, <2>2, <2>3, <2>4 DEF Found
  <1>7. ASSUME NEW t \in Threads, ShutdownActors(t)
         PROVE  NothingLeaks'
    <2> SUFFICES ASSUME NEW o \in live' PROVE Found(o)'
      BY DEF NothingLeaks, Found
    <2>1. o \in live /\ orphans' = orphans /\ controllers' = controllers
      BY <1>7 DEF ShutdownActors, Goto, Release, Registered, engine, Data
    <2>2. \A i \in Ids : o # actors[i]
      BY <1>7 DEF ShutdownActors, Goto, Release, Registered, engine, Data, Objects
    <2>3. \A u \in Threads : at[u] \in InHand => at'[u] = at[u] /\ ptr'[u] = ptr[u]
      BY <1>7 DEF ShutdownActors, Goto, Release, Registered, engine, InHand, Data
    <2>4. Found(o)
      BY <1>7, <2>1 DEF ShutdownActors, Goto, Release, Registered, engine, NothingLeaks,
         Found
    <2>5. QED
      BY <2>1, <2>2, <2>3, <2>4 DEF Found
  <1>8. ASSUME NEW t \in Threads, ShutdownScene(t)
         PROVE  NothingLeaks'
    <2> SUFFICES ASSUME NEW o \in live' PROVE Found(o)'
      BY DEF NothingLeaks, Found
    <2>1. FALSE
      BY <1>8 DEF ShutdownScene, Return, Crossed, maps
    <2>2. QED
      BY <2>1
  <1>9. ASSUME NEW t \in Threads, NEW i \in Ids, CreateController(t, i)
         PROVE  NothingLeaks'
    <2> SUFFICES ASSUME NEW o \in live' PROVE Found(o)'
      BY DEF NothingLeaks, Found
    <2>1. o \in live /\ orphans' = orphans /\ controllers' = controllers /\ actors' = actors
      BY <1>9 DEF CreateController, Goto, maps, objects, past, engine, Data
    <2>2. \A u \in Threads : at[u] \in InHand => at'[u] = at[u] /\ ptr'[u] = ptr[u]
      BY <1>9 DEF CreateController, Goto, maps, objects, past, engine, InHand, Data
    <2>3. Found(o)
      BY <2>1 DEF NothingLeaks, Found
    <2>4. QED
      BY <2>1, <2>2, <2>3 DEF Found
  <1>10. ASSUME NEW t \in Threads, Created(t)
         PROVE  NothingLeaks'
    <2> SUFFICES ASSUME NEW o \in live' PROVE Found(o)'
      BY DEF NothingLeaks, Found
    <2>1. (o \in live \/ o = New) /\ orphans' = orphans /\ controllers' = controllers /\ actors' = actors
      BY <1>10 DEF Created, Goto, New, Create, maps, past, engine, Data
    <2>2. at'[t] = "registering" /\ ptr'[t] = New
      BY <1>10 DEF Created, Goto, New, Create, maps, past, engine, Data
    <2>3. \A u \in Threads : at[u] \in InHand => at'[u] = at[u] /\ ptr'[u] = ptr[u]
      BY <1>10 DEF Created, Goto, New, Create, maps, past, engine, InHand, Data
    <2>4. QED
      BY <2>1, <2>2, <2>3 DEF NothingLeaks, Found, InHand
  <1>11. ASSUME NEW t \in Threads, CreateFails(t)
         PROVE  NothingLeaks'
    <2> SUFFICES ASSUME NEW o \in live' PROVE Found(o)'
      BY DEF NothingLeaks, Found
    <2>1. o \in live /\ orphans' = orphans /\ controllers' = controllers /\ actors' = actors
      BY <1>11 DEF CreateFails, Return, maps, objects, past, engine, Data
    <2>2. \A u \in Threads : at[u] \in InHand => at'[u] = at[u] /\ ptr'[u] = ptr[u]
      BY <1>11 DEF CreateFails, Return, maps, objects, past, engine, InHand, Data
    <2>3. Found(o)
      BY <2>1 DEF NothingLeaks, Found
    <2>4. QED
      BY <2>1, <2>2, <2>3 DEF Found
  <1>12. ASSUME NEW t \in Threads, RegisterController(t)
         PROVE  NothingLeaks'
    <2> SUFFICES ASSUME NEW o \in live' PROVE Found(o)'
      BY DEF NothingLeaks, Found
    <2>1. id[t] \in Ids
      BY <1>12 DEF RegisterController, Return, objects, engine, Standing, Data
    <2>2. o \in live /\ o # 0 /\ orphans \subseteq orphans' /\ actors' = actors
      BY <1>12, <2>1 DEF RegisterController, Return, objects, engine, Data, Objects
    <2>3. controllers'[id[t]] = ptr[t]
      BY <1>12, <2>1 DEF RegisterController, Return, objects, engine, Data
    <2>4. o = controllers[id[t]] => o \in orphans'
      BY <1>12, <2>2 DEF RegisterController, Return, objects, engine, Data
    <2>5. \A i \in Ids : i # id[t] => controllers'[i] = controllers[i]
      BY <1>12, <2>1 DEF RegisterController, Return, objects, engine, Data
    <2>6. \A u \in Threads : u # t => at'[u] = at[u] /\ ptr'[u] = ptr[u]
      BY <1>12 DEF RegisterController, Return, objects, engine, Data
    <2>7. Found(o)
      BY <1>12, <2>2 DEF RegisterController, Return, objects, engine, NothingLeaks, Found
    <2>8. QED
      BY <2>1, <2>2, <2>3, <2>4, <2>5, <2>6, <2>7 DEF Found
  <1>13. ASSUME NEW t \in Threads, NEW i \in Ids, CreateActor(t, i)
         PROVE  NothingLeaks'
    <2> SUFFICES ASSUME NEW o \in live' PROVE Found(o)'
      BY DEF NothingLeaks, Found
    <2>1. (o \in live \/ o = New) /\ o # 0 /\ orphans \subseteq orphans' /\ controllers' = controllers
      BY <1>13 DEF CreateActor, New, Create, calls, engine, Data, Objects
    <2>2. actors'[i] = New
      BY <1>13 DEF CreateActor, New, Create, calls, engine, Data
    <2>3. o = actors[i] => o \in orphans'
      BY <1>13, <2>1 DEF CreateActor, New, Create, calls, engine, Data
    <2>4. \A j \in Ids : j # i => actors'[j] = actors[j]
      BY <1>13 DEF CreateActor, New, Create, calls, engine, Data
    <2>5. at' = at /\ ptr' = ptr
      BY <1>13 DEF CreateActor, New, Create, calls, engine
    <2>6. o = New \/ Found(o)
      BY <1>13, <2>1 DEF CreateActor, New, Create, calls, engine, NothingLeaks, Found
    <2>7. QED
      BY <2>1, <2>2, <2>3, <2>4, <2>5, <2>6 DEF Found
  <1>14. ASSUME NEW t \in Threads, CreateUnregistered(t)
         PROVE  NothingLeaks'
    <2> SUFFICES ASSUME NEW o \in live' PROVE Found(o)'
      BY DEF NothingLeaks, Found
    <2>1. (o \in live \/ o \in orphans') /\ orphans \subseteq orphans' /\ controllers' = controllers /\ actors' = actors
      BY <1>14 DEF CreateUnregistered, New, Create, maps, calls, engine, Data
    <2>2. at' = at /\ ptr' = ptr
      BY <1>14 DEF CreateUnregistered, New, Create, maps, calls, engine
    <2>3. QED
      BY <2>1, <2>2 DEF NothingLeaks, Found
  <1>15. ASSUME NEW t \in Threads, NEW i \in Ids, UnregisterController(t, i)
         PROVE  NothingLeaks'
    <2> SUFFICES ASSUME NEW o \in live' PROVE Found(o)'
      BY DEF NothingLeaks, Found
    <2>1. o \in live /\ orphans' = orphans /\ actors' = actors
      BY <1>15 DEF UnregisterController, Goto, objects, past, engine, Data
    <2>2. at'[t] = "dropping" /\ ptr'[t] = controllers[i]
      BY <1>15 DEF UnregisterController, Goto, objects, past, engine, Data
    <2>3. \A j \in Ids : j # i => controllers'[j] = controllers[j]
      BY <1>15 DEF UnregisterController, Goto, objects, past, engine, Data
    <2>4. \A u \in Threads : at[u] \in InHand => at'[u] = at[u] /\ ptr'[u] = ptr[u]
      BY <1>15 DEF UnregisterController, Goto, objects, past, engine, InHand, Data
    <2>5. Found(o)
      BY <1>15, <2>1 DEF UnregisterController, Goto, objects, past, engine, NothingLeaks,
         Found
    <2>6. QED
      BY <2>1, <2>2, <2>3, <2>4, <2>5 DEF Found, InHand
  <1>16. ASSUME NEW t \in Threads, NEW i \in Ids, UnregisterActor(t, i)
         PROVE  NothingLeaks'
    <2> SUFFICES ASSUME NEW o \in live' PROVE Found(o)'
      BY DEF NothingLeaks, Found
    <2>1. o \in live /\ orphans' = orphans /\ controllers' = controllers
      BY <1>16 DEF UnregisterActor, Goto, objects, past, engine, Data
    <2>2. at'[t] = "dropping" /\ ptr'[t] = actors[i]
      BY <1>16 DEF UnregisterActor, Goto, objects, past, engine, Data
    <2>3. \A j \in Ids : j # i => actors'[j] = actors[j]
      BY <1>16 DEF UnregisterActor, Goto, objects, past, engine, Data
    <2>4. \A u \in Threads : at[u] \in InHand => at'[u] = at[u] /\ ptr'[u] = ptr[u]
      BY <1>16 DEF UnregisterActor, Goto, objects, past, engine, InHand, Data
    <2>5. Found(o)
      BY <1>16, <2>1 DEF UnregisterActor, Goto, objects, past, engine, NothingLeaks, Found
    <2>6. QED
      BY <2>1, <2>2, <2>3, <2>4, <2>5 DEF Found, InHand
  <1>17. ASSUME NEW t \in Threads, Drop(t)
         PROVE  NothingLeaks'
    <2> SUFFICES ASSUME NEW o \in live' PROVE Found(o)'
      BY DEF NothingLeaks, Found
    <2>1. o \in live /\ o # ptr[t] /\ orphans' = orphans /\ controllers' = controllers /\ actors' = actors
      BY <1>17 DEF Drop, Return, Release, maps, engine, Data
    <2>2. \A u \in Threads : u # t => at'[u] = at[u] /\ ptr'[u] = ptr[u]
      BY <1>17 DEF Drop, Return, Release, maps, engine, Data
    <2>3. Found(o)
      BY <1>17, <2>1 DEF Drop, Return, Release, maps, engine, NothingLeaks, Found
    <2>4. QED
      BY <2>1, <2>2, <2>3 DEF Found
  <1>18. ASSUME NEW t \in Threads, NEW i \in Ids, FindController(t, i)
         PROVE  NothingLeaks'
    <2> SUFFICES ASSUME NEW o \in live' PROVE Found(o)'
      BY DEF NothingLeaks, Found
    <2>1. o \in live /\ orphans' = orphans /\ controllers' = controllers /\ actors' = actors
      BY <1>18 DEF FindController, Goto, maps, objects, past, engine, Data
    <2>2. \A u \in Threads : at[u] \in InHand => at'[u] = at[u] /\ ptr'[u] = ptr[u]
      BY <1>18 DEF FindController, Goto, maps, objects, past, engine, InHand, Data
    <2>3. Found(o)
      BY <2>1 DEF NothingLeaks, Found
    <2>4. QED
      BY <2>1, <2>2, <2>3 DEF Found
  <1>19. ASSUME NEW t \in Threads, NEW i \in Ids, FindActor(t, i)
         PROVE  NothingLeaks'
    <2> SUFFICES ASSUME NEW o \in live' PROVE Found(o)'
      BY DEF NothingLeaks, Found
    <2>1. o \in live /\ orphans' = orphans /\ controllers' = controllers /\ actors' = actors
      BY <1>19 DEF FindActor, Goto, maps, objects, past, engine, Data
    <2>2. \A u \in Threads : at[u] \in InHand => at'[u] = at[u] /\ ptr'[u] = ptr[u]
      BY <1>19 DEF FindActor, Goto, maps, objects, past, engine, InHand, Data
    <2>3. Found(o)
      BY <2>1 DEF NothingLeaks, Found
    <2>4. QED
      BY <2>1, <2>2, <2>3 DEF Found
  <1>20. ASSUME NEW t \in Threads, Peek(t)
         PROVE  NothingLeaks'
    <2> SUFFICES ASSUME NEW o \in live' PROVE Found(o)'
      BY DEF NothingLeaks, Found
    <2>1. o \in live /\ orphans' = orphans /\ controllers' = controllers /\ actors' = actors
      BY <1>20 DEF Peek, Goto, maps, objects, past, engine, Data
    <2>2. \A u \in Threads : at[u] \in InHand => at'[u] = at[u] /\ ptr'[u] = ptr[u]
      BY <1>20 DEF Peek, Goto, maps, objects, past, engine, InHand, Data
    <2>3. Found(o)
      BY <2>1 DEF NothingLeaks, Found
    <2>4. QED
      BY <2>1, <2>2, <2>3 DEF Found
  <1>21. ASSUME NEW t \in Threads, PeekInVain(t)
         PROVE  NothingLeaks'
    <2> SUFFICES ASSUME NEW o \in live' PROVE Found(o)'
      BY DEF NothingLeaks, Found
    <2>1. o \in live /\ orphans' = orphans /\ controllers' = controllers /\ actors' = actors
      BY <1>21 DEF PeekInVain, Return, maps, objects, past, engine, Data
    <2>2. \A u \in Threads : at[u] \in InHand => at'[u] = at[u] /\ ptr'[u] = ptr[u]
      BY <1>21 DEF PeekInVain, Return, maps, objects, past, engine, InHand, Data
    <2>3. Found(o)
      BY <2>1 DEF NothingLeaks, Found
    <2>4. QED
      BY <2>1, <2>2, <2>3 DEF Found
  <1>22. ASSUME NEW t \in Threads, Use(t)
         PROVE  NothingLeaks'
    <2> SUFFICES ASSUME NEW o \in live' PROVE Found(o)'
      BY DEF NothingLeaks, Found
    <2>1. o \in live /\ orphans' = orphans /\ controllers' = controllers /\ actors' = actors
      BY <1>22 DEF Use, Return, maps, objects, past, engine, Data
    <2>2. \A u \in Threads : at[u] \in InHand => at'[u] = at[u] /\ ptr'[u] = ptr[u]
      BY <1>22 DEF Use, Return, maps, objects, past, engine, InHand, Data
    <2>3. Found(o)
      BY <2>1 DEF NothingLeaks, Found
    <2>4. QED
      BY <2>1, <2>2, <2>3 DEF Found
  <1>23. ASSUME NEW t \in Threads, StepSimulation(t)
         PROVE  NothingLeaks'
    <2> SUFFICES ASSUME NEW o \in live' PROVE Found(o)'
      BY DEF NothingLeaks, Found
    <2>1. o \in live /\ orphans' = orphans /\ controllers' = controllers /\ actors' = actors
      BY <1>23 DEF StepSimulation, Goto, maps, objects, past, engine, Data
    <2>2. \A u \in Threads : at[u] \in InHand => at'[u] = at[u] /\ ptr'[u] = ptr[u]
      BY <1>23 DEF StepSimulation, Goto, maps, objects, past, engine, InHand, Data
    <2>3. Found(o)
      BY <2>1 DEF NothingLeaks, Found
    <2>4. QED
      BY <2>1, <2>2, <2>3 DEF Found
  <1>24. ASSUME NEW t \in Threads, StepDone(t)
         PROVE  NothingLeaks'
    <2> SUFFICES ASSUME NEW o \in live' PROVE Found(o)'
      BY DEF NothingLeaks, Found
    <2>1. o \in live /\ orphans' = orphans /\ controllers' = controllers /\ actors' = actors
      BY <1>24 DEF StepDone, Return, maps, objects, past, engine, Data
    <2>2. \A u \in Threads : at[u] \in InHand => at'[u] = at[u] /\ ptr'[u] = ptr[u]
      BY <1>24 DEF StepDone, Return, maps, objects, past, engine, InHand, Data
    <2>3. Found(o)
      BY <2>1 DEF NothingLeaks, Found
    <2>4. QED
      BY <2>1, <2>2, <2>3 DEF Found
  <1>25. CASE UNCHANGED physicsVars
    BY <1>25 DEF physicsVars, maps, calls, objects, past, engine, NothingLeaks, InHand, Data
  <1>26. QED
    BY <1>1, <1>2, <1>3, <1>4, <1>5, <1>6, <1>7, <1>8, <1>9, <1>10, <1>11, <1>12, <1>13,
       <1>14, <1>15, <1>16, <1>17, <1>18, <1>19, <1>20, <1>21, <1>22, <1>23, <1>24, <1>25
       DEF PhysicsNext, Call, Finish, Locked

\* ReleasedOnceWhileUp is preserved.
LEMMA ReleaseStep ==
    ASSUME Data, Standing, Numbered, ShuttingDown, HandsAreLive, ReleasedOnceWhileUp, [PhysicsNext]_physicsVars
    PROVE  ReleasedOnceWhileUp'
  <1>1. ASSUME NEW t \in Threads, Initialize(t)
         PROVE  ReleasedOnceWhileUp'
    BY <1>1 DEF Initialize, InitializeMayRun, maps, calls, objects, ReleasedOnceWhileUp,
       HandsAreLive, Numbered, ShuttingDown, Data, Standing, WithMutex, InHand, Objects
  <1>2. ASSUME NEW t \in Threads, InitializeFails(t)
         PROVE  ReleasedOnceWhileUp'
    BY <1>2 DEF InitializeFails, InitializeMayRun, maps, calls, objects, engine,
       ReleasedOnceWhileUp, HandsAreLive, Numbered, ShuttingDown, Data, Standing,
       WithMutex, InHand, Objects
  <1>3. ASSUME NEW t \in Threads, InitializeLocksTwice(t)
         PROVE  ReleasedOnceWhileUp'
    BY <1>3 DEF InitializeLocksTwice, InitializeMayRun, Goto, maps, objects,
       ReleasedOnceWhileUp, HandsAreLive, Numbered, ShuttingDown, Data, Standing,
       WithMutex, InHand, Objects
  <1>4. ASSUME NEW t \in Threads, InitializeThrows(t)
         PROVE  ReleasedOnceWhileUp'
    BY <1>4 DEF InitializeThrows, InitializeMayRun, maps, calls, objects,
       ReleasedOnceWhileUp, HandsAreLive, Numbered, ShuttingDown, Data, Standing,
       WithMutex, InHand, Objects
  <1>5. ASSUME NEW t \in Threads, Shutdown(t)
         PROVE  ReleasedOnceWhileUp'
    BY <1>5 DEF Shutdown, Goto, Release, Crossed, maps, ReleasedOnceWhileUp, HandsAreLive,
       Numbered, ShuttingDown, Data, Standing, WithMutex, InHand, Objects
  <1>6. ASSUME NEW t \in Threads, ShutdownControllers(t)
         PROVE  ReleasedOnceWhileUp'
    BY <1>6 DEF ShutdownControllers, Goto, Release, Registered, engine,
       ReleasedOnceWhileUp, HandsAreLive, Numbered, ShuttingDown, Data, Standing,
       WithMutex, InHand, Objects
  <1>7. ASSUME NEW t \in Threads, ShutdownActors(t)
         PROVE  ReleasedOnceWhileUp'
    BY <1>7 DEF ShutdownActors, Goto, Release, Registered, engine, ReleasedOnceWhileUp,
       HandsAreLive, Numbered, ShuttingDown, Data, Standing, WithMutex, InHand, Objects
  <1>8. ASSUME NEW t \in Threads, ShutdownScene(t)
         PROVE  ReleasedOnceWhileUp'
    BY <1>8 DEF ShutdownScene, Return, Crossed, maps, ReleasedOnceWhileUp, HandsAreLive,
       Numbered, ShuttingDown, Data, Standing, WithMutex, InHand, Objects
  <1>9. ASSUME NEW t \in Threads, NEW i \in Ids, CreateController(t, i)
         PROVE  ReleasedOnceWhileUp'
    BY <1>9 DEF CreateController, Goto, maps, objects, past, engine, ReleasedOnceWhileUp,
       HandsAreLive, Numbered, ShuttingDown, Data, Standing, WithMutex, InHand, Objects
  <1>10. ASSUME NEW t \in Threads, Created(t)
         PROVE  ReleasedOnceWhileUp'
    BY <1>10 DEF Created, Goto, New, Create, maps, past, engine, ReleasedOnceWhileUp,
       HandsAreLive, Numbered, ShuttingDown, Data, Standing, WithMutex, InHand, Objects
  <1>11. ASSUME NEW t \in Threads, CreateFails(t)
         PROVE  ReleasedOnceWhileUp'
    BY <1>11 DEF CreateFails, Return, maps, objects, past, engine, ReleasedOnceWhileUp,
       HandsAreLive, Numbered, ShuttingDown, Data, Standing, WithMutex, InHand, Objects
  <1>12. ASSUME NEW t \in Threads, RegisterController(t)
         PROVE  ReleasedOnceWhileUp'
    BY <1>12 DEF RegisterController, Return, objects, engine, ReleasedOnceWhileUp,
       HandsAreLive, Numbered, ShuttingDown, Data, Standing, WithMutex, InHand, Objects
  <1>13. ASSUME NEW t \in Threads, NEW i \in Ids, CreateActor(t, i)
         PROVE  ReleasedOnceWhileUp'
    BY <1>13 DEF CreateActor, New, Create, calls, engine, ReleasedOnceWhileUp,
       HandsAreLive, Numbered, ShuttingDown, Data, Standing, WithMutex, InHand, Objects
  <1>14. ASSUME NEW t \in Threads, CreateUnregistered(t)
         PROVE  ReleasedOnceWhileUp'
    BY <1>14 DEF CreateUnregistered, New, Create, maps, calls, engine, ReleasedOnceWhileUp,
       HandsAreLive, Numbered, ShuttingDown, Data, Standing, WithMutex, InHand, Objects
  <1>15. ASSUME NEW t \in Threads, NEW i \in Ids, UnregisterController(t, i)
         PROVE  ReleasedOnceWhileUp'
    BY <1>15 DEF UnregisterController, Goto, objects, past, engine, ReleasedOnceWhileUp,
       HandsAreLive, Numbered, ShuttingDown, Data, Standing, WithMutex, InHand, Objects
  <1>16. ASSUME NEW t \in Threads, NEW i \in Ids, UnregisterActor(t, i)
         PROVE  ReleasedOnceWhileUp'
    BY <1>16 DEF UnregisterActor, Goto, objects, past, engine, ReleasedOnceWhileUp,
       HandsAreLive, Numbered, ShuttingDown, Data, Standing, WithMutex, InHand, Objects
  <1>17. ASSUME NEW t \in Threads, Drop(t)
         PROVE  ReleasedOnceWhileUp'
    BY <1>17 DEF Drop, Return, Release, maps, engine, ReleasedOnceWhileUp, HandsAreLive,
       Numbered, ShuttingDown, Data, Standing, WithMutex, InHand, Objects
  <1>18. ASSUME NEW t \in Threads, NEW i \in Ids, FindController(t, i)
         PROVE  ReleasedOnceWhileUp'
    BY <1>18 DEF FindController, Goto, maps, objects, past, engine, ReleasedOnceWhileUp,
       HandsAreLive, Numbered, ShuttingDown, Data, Standing, WithMutex, InHand, Objects
  <1>19. ASSUME NEW t \in Threads, NEW i \in Ids, FindActor(t, i)
         PROVE  ReleasedOnceWhileUp'
    BY <1>19 DEF FindActor, Goto, maps, objects, past, engine, ReleasedOnceWhileUp,
       HandsAreLive, Numbered, ShuttingDown, Data, Standing, WithMutex, InHand, Objects
  <1>20. ASSUME NEW t \in Threads, Peek(t)
         PROVE  ReleasedOnceWhileUp'
    BY <1>20 DEF Peek, Goto, maps, objects, past, engine, ReleasedOnceWhileUp,
       HandsAreLive, Numbered, ShuttingDown, Data, Standing, WithMutex, InHand, Objects
  <1>21. ASSUME NEW t \in Threads, PeekInVain(t)
         PROVE  ReleasedOnceWhileUp'
    BY <1>21 DEF PeekInVain, Return, maps, objects, past, engine, ReleasedOnceWhileUp,
       HandsAreLive, Numbered, ShuttingDown, Data, Standing, WithMutex, InHand, Objects
  <1>22. ASSUME NEW t \in Threads, Use(t)
         PROVE  ReleasedOnceWhileUp'
    BY <1>22 DEF Use, Return, maps, objects, past, engine, ReleasedOnceWhileUp,
       HandsAreLive, Numbered, ShuttingDown, Data, Standing, WithMutex, InHand, Objects
  <1>23. ASSUME NEW t \in Threads, StepSimulation(t)
         PROVE  ReleasedOnceWhileUp'
    BY <1>23 DEF StepSimulation, Goto, maps, objects, past, engine, ReleasedOnceWhileUp,
       HandsAreLive, Numbered, ShuttingDown, Data, Standing, WithMutex, InHand, Objects
  <1>24. ASSUME NEW t \in Threads, StepDone(t)
         PROVE  ReleasedOnceWhileUp'
    BY <1>24 DEF StepDone, Return, maps, objects, past, engine, ReleasedOnceWhileUp,
       HandsAreLive, Numbered, ShuttingDown, Data, Standing, WithMutex, InHand, Objects
  <1>25. CASE UNCHANGED physicsVars
    BY <1>25 DEF physicsVars, maps, calls, objects, past, engine, ReleasedOnceWhileUp,
       HandsAreLive, Numbered, ShuttingDown, Data, Standing, WithMutex, InHand, Objects
  <1>26. QED
    BY <1>1, <1>2, <1>3, <1>4, <1>5, <1>6, <1>7, <1>8, <1>9, <1>10, <1>11, <1>12, <1>13,
       <1>14, <1>15, <1>16, <1>17, <1>18, <1>19, <1>20, <1>21, <1>22, <1>23, <1>24, <1>25
       DEF PhysicsNext, Call, Finish, Locked
-----------------------------------------------------------------------------
(* The invariant, and what follows from it.                                 *)

\* The invariant holds in every reachable state.
THEOREM Invariance == PhysicsSpec => []PhysicsInv
  <1>1. PhysicsInit => PhysicsInv
    <2>1. PhysicsInit => Flags
      BY DEF PhysicsInit, Flags
    <2>2. PhysicsInit => Data
      BY DEF PhysicsInit, Data, Places, Objects
    <2>3. PhysicsInit => Standing
      BY DEF PhysicsInit, Standing, WithPointer, WithMutex
    <2>4. PhysicsInit => Numbered /\ OnePlace
      BY DEF PhysicsInit, Numbered, OnePlace, InHand
    <2>5. PhysicsInit => ShuttingDown /\ HandsAreLive
      BY DEF PhysicsInit, ShuttingDown, HandsAreLive, InHand
    <2>6. PhysicsInit => LookupIsLive
      BY DEF PhysicsInit, LookupIsLive, Registered
    <2>7. PhysicsInit => NothingLeaks /\ ReleasedOnceWhileUp
      BY DEF PhysicsInit, NothingLeaks, ReleasedOnceWhileUp
    <2>8. QED
      BY <2>1, <2>2, <2>3, <2>4, <2>5, <2>6, <2>7, TypeParts DEF PhysicsInv
  <1>2. PhysicsInv /\ [PhysicsNext]_physicsVars => PhysicsInv'
    <2> SUFFICES ASSUME PhysicsInv, [PhysicsNext]_physicsVars PROVE PhysicsInv'
      OBVIOUS
    <2>1. Flags /\ Data /\ Standing
      BY TypeParts DEF PhysicsInv
    <2>2. Flags' /\ Data' /\ Standing'
      BY <2>1, FlagsStep, DataStep, StandingStep DEF PhysicsInv
    <2>3. PhysicsTypeOK'
      BY <2>2 DEF PhysicsTypeOK, Types, Flags, Data, Standing
    <2>4. Numbered' /\ OnePlace' /\ ShuttingDown' /\ HandsAreLive'
      BY <2>1, NumberedStep, OnePlaceStep, ShuttingDownStep, HandsStep DEF PhysicsInv
    <2>5. LookupIsLive' /\ NothingLeaks' /\ ReleasedOnceWhileUp'
      BY <2>1, LookupStep, LeakStep, ReleaseStep DEF PhysicsInv
    <2>6. QED
      BY <2>3, <2>4, <2>5 DEF PhysicsInv
  <1>3. QED
    BY <1>1, <1>2, PTL DEF PhysicsSpec

\* PhysicsTypeOK: types, and where a call holds the mutex or a pointer.
THEOREM TypeCorrect == PhysicsSpec => []PhysicsTypeOK
  BY Invariance, PTL DEF PhysicsInv

\* LookupIsLive: no map leads to an object that is gone.
THEOREM LookupCorrect == PhysicsSpec => []LookupIsLive
  BY Invariance, PTL DEF PhysicsInv

\* NothingLeaks: every object that is not released can be found.
THEOREM LeakCorrect == PhysicsSpec => []NothingLeaks
  BY Invariance, PTL DEF PhysicsInv

\* ReleasedOnceWhileUp: nothing is released twice while the engine is up.
THEOREM ReleaseCorrect == PhysicsSpec => []ReleasedOnceWhileUp
  BY Invariance, PTL DEF PhysicsInv

-----------------------------------------------------------------------------
(* The contract that makes the pointers good.                               *)
(* No lock spans a lookup and the use of what it found.  A caller that lets *)
(* no two calls overlap needs none.                                         *)

\* At most one thread is in a call.
Serial == \A t, u \in Threads : at[t] # "outside" /\ at[u] # "outside" => t = u

\* Every pointer a call is about to use leads to an object that exists.
PointerIsLive == \A t \in Threads : at[t] \in WithPointer => ptr[t] \in live

\* Shutdown met nobody, and pointers are good.
Sound == ~overtaken /\ PointerIsLive

\* Every call starts outside, and a shutdown is itself a call.
LEMMA AloneInside ==
    ASSUME PhysicsInv, Serial, NEW t \in Threads, at[t] # "outside",
           NEW u \in Threads, u # t
    PROVE  at[u] = "outside"
  BY DEF Serial

\* What a lookup in serial calls finds is live.
LEMMA SerialLookup ==
    ASSUME PhysicsInv, Serial', ~overtaken, NEW t \in Threads, at[t] = "outside",
           NEW place \in Places, place # "outside", at' = [at EXCEPT ![t] = place],
           NEW i \in Ids
    PROVE  /\ controllers[i] # 0 => controllers[i] \in live
           /\ actors[i] # 0 => actors[i] \in live
  <1>1. at \in [Threads -> Places] /\ at'[t] # "outside"
    BY DEF PhysicsInv, PhysicsTypeOK, Types
  <1>2. ASSUME NEW u \in Threads PROVE at[u] # "clearing"
    <2>1. CASE u = t
      BY <2>1
    <2>2. CASE u # t
      BY <1>1, <2>2 DEF Serial
    <2>3. QED
      BY <2>1, <2>2
  <1>3. Registered(actors) \subseteq live /\ Registered(controllers) \subseteq live
    BY <1>2 DEF PhysicsInv, LookupIsLive
  <1>4. QED
    BY <1>3 DEF Registered

\* A call that begins takes a live pointer or none.
LEMMA CallSound ==
    ASSUME PhysicsInv, Serial', Sound, NEW t \in Threads, Call(t)
    PROVE  Sound'
  <1> USE DEF PhysicsInv, PhysicsTypeOK, Types
  <1>1. CASE \/ Initialize(t) \/ InitializeFails(t) \/ InitializeThrows(t)
    <2>1. UNCHANGED <<at, ptr, live, overtaken>>
      BY <1>1 DEF Initialize, InitializeFails, InitializeThrows, calls, objects
    <2>2. QED
      BY <2>1 DEF Sound, PointerIsLive
  <1>2. CASE InitializeLocksTwice(t) \/ StepSimulation(t)
    <2>1. UNCHANGED <<ptr, live, overtaken>>
      BY <1>2 DEF InitializeLocksTwice, StepSimulation, objects, past
    <2>2. \A u \in Threads : at'[u] \in WithPointer => at[u] \in WithPointer
      BY <1>2 DEF InitializeLocksTwice, StepSimulation, Goto, WithPointer
    <2>3. QED
      BY <2>1, <2>2 DEF Sound, PointerIsLive
  <1>3. CASE Shutdown(t)
    <2>1. /\ at[t] = "outside" /\ at' = [at EXCEPT ![t] = "clearing"]
          /\ overtaken' = (overtaken \/ Crossed(t))
      BY <1>3 DEF Shutdown, Goto
    <2>2. ASSUME NEW u \in Threads, u # t PROVE at[u] = "outside" /\ at'[u] = "outside"
      BY <2>1, <2>2 DEF Serial
    <2>3. ~overtaken'
      BY <2>1, <2>2 DEF Sound, Crossed
    <2>4. QED
      BY <2>1, <2>2, <2>3 DEF Sound, PointerIsLive, WithPointer
  <1>4. CASE CreateUnregistered(t) \/ \E i \in Ids : CreateActor(t, i)
    <2>1. UNCHANGED <<at, ptr, overtaken>> /\ live \subseteq live'
      BY <1>4 DEF CreateUnregistered, CreateActor, Create, calls
    <2>2. QED
      BY <2>1 DEF Sound, PointerIsLive
  <1>5. ASSUME NEW i \in Ids, CreateController(t, i)
        PROVE  Sound'
    <2>1. UNCHANGED <<ptr, live, overtaken>>
      BY <1>5 DEF CreateController, objects, past
    <2>2. \A u \in Threads : at'[u] \in WithPointer => at[u] \in WithPointer
      BY <1>5 DEF CreateController, Goto, WithPointer
    <2>3. QED
      BY <2>1, <2>2 DEF Sound, PointerIsLive
  <1>6. ASSUME NEW i \in Ids, NEW place \in {"dropping", "holding", "peeking"},
               at[t] = "outside", at' = [at EXCEPT ![t] = place],
               NEW o, o \in live, ptr' = [ptr EXCEPT ![t] = o], UNCHANGED <<live, overtaken>>
        PROVE  Sound'
    <2>1. ptr'[t] \in live'
      BY <1>6
    <2>2. \A u \in Threads \ {t} : at'[u] = at[u] /\ ptr'[u] = ptr[u]
      BY <1>6
    <2>3. QED
      BY <1>6, <2>1, <2>2 DEF Sound, PointerIsLive
  <1>7. ASSUME NEW i \in Ids, UnregisterController(t, i) \/ FindController(t, i)
        PROVE  Sound'
    <2>1. PICK place \in {"dropping", "holding"} :
             /\ at[t] = "outside" /\ at' = [at EXCEPT ![t] = place]
             /\ controllers[i] # 0 /\ ptr' = [ptr EXCEPT ![t] = controllers[i]]
             /\ UNCHANGED <<live, overtaken>>
      BY <1>7 DEF UnregisterController, FindController, Goto, objects, past
    <2>2. controllers[i] \in live
      BY <2>1, SerialLookup DEF Sound, Places
    <2>3. QED
      BY <1>6, <2>1, <2>2
  <1>8. ASSUME NEW i \in Ids, UnregisterActor(t, i) \/ FindActor(t, i)
        PROVE  Sound'
    <2>1. PICK place \in {"dropping", "peeking"} :
             /\ at[t] = "outside" /\ at' = [at EXCEPT ![t] = place]
             /\ actors[i] # 0 /\ ptr' = [ptr EXCEPT ![t] = actors[i]]
             /\ UNCHANGED <<live, overtaken>>
      BY <1>8 DEF UnregisterActor, FindActor, Goto, objects, past
    <2>2. actors[i] \in live
      BY <2>1, SerialLookup DEF Sound, Places
    <2>3. QED
      BY <1>6, <2>1, <2>2
  <1>9. QED
    BY <1>1, <1>2, <1>3, <1>4, <1>5, <1>7, <1>8 DEF Call

\* A call that goes on is alone: what it releases nobody holds.
LEMMA RestSound ==
    ASSUME PhysicsInv, Serial, Sound, NEW t \in Threads, Finish(t) \/ Locked(t)
    PROVE  Sound'
  <1> USE DEF PhysicsInv, PhysicsTypeOK, Types
  <1>1. at[t] # "outside"
    BY DEF Finish, Locked, ShutdownControllers, ShutdownActors, ShutdownScene, Created,
           CreateFails, RegisterController, Peek, PeekInVain, StepDone, Drop, Use
  <1>2. \A u \in Threads \ {t} : at[u] = "outside"
    BY <1>1, AloneInside
  <1>3. PICK place \in Places : at' = [at EXCEPT ![t] = place]
    BY DEF Finish, Locked, ShutdownControllers, ShutdownActors, ShutdownScene, Created,
           CreateFails, RegisterController, Peek, PeekInVain, StepDone, Drop, Use, Goto,
           Return, Places
  <1>4. \A u \in Threads \ {t} : at'[u] \notin WithPointer
    BY <1>2, <1>3 DEF WithPointer
  <1>5. ~overtaken'
    BY <1>2 DEF Sound, Finish, Locked, ShutdownControllers, ShutdownActors, ShutdownScene,
                Crossed, Created, CreateFails, RegisterController, Peek, PeekInVain, StepDone,
                Drop, Use, past
  <1>6. at'[t] \in WithPointer => ptr'[t] \in live'
    <2>1. CASE Created(t)
      <3>1. ptr'[t] = New /\ New \in live'
        BY <2>1 DEF Created, Create
      <3>2. QED
        BY <3>1
    <2>2. CASE Peek(t)
      BY <2>2 DEF Peek, objects, Sound, PointerIsLive, WithPointer
    <2>3. CASE ShutdownControllers(t) \/ ShutdownActors(t)
      BY <2>3 DEF ShutdownControllers, ShutdownActors, Goto, WithPointer
    <2>4. CASE ~(Created(t) \/ Peek(t) \/ ShutdownControllers(t) \/ ShutdownActors(t))
      <3>1. Return(t)
        BY <2>4 DEF Finish, Locked, ShutdownScene, CreateFails, RegisterController,
                    PeekInVain, StepDone, Drop, Use
      <3>2. QED
        BY <3>1 DEF Return, WithPointer
    <2>5. QED
      BY <2>1, <2>2, <2>3, <2>4
  <1>7. QED
    BY <1>4, <1>5, <1>6 DEF Sound, PointerIsLive

\* As long as the callers let no two calls overlap, every pointer that is used, released
\* or registered leads to an object that exists, through any number of shutdowns.
THEOREM SerialCallsAreSafe == PhysicsSpec => ([]Serial => []PointerIsLive)
  <1>1. PhysicsInit => Sound
    BY DEF PhysicsInit, Sound, PointerIsLive, WithPointer
  <1>2. PhysicsInv /\ Serial /\ Serial' /\ Sound /\ [PhysicsNext]_physicsVars => Sound'
    <2> SUFFICES ASSUME PhysicsInv, Serial, Serial', Sound, [PhysicsNext]_physicsVars
                 PROVE  Sound'
      OBVIOUS
    <2>1. CASE UNCHANGED physicsVars
      BY <2>1 DEF physicsVars, calls, objects, past, Sound, PointerIsLive
    <2>2. QED
      BY <2>1, CallSound, RestSound DEF PhysicsNext
  <1>3. Sound => PointerIsLive
    BY DEF Sound
  <1>4. QED
    BY <1>1, <1>2, <1>3, Invariance, PTL DEF PhysicsSpec
=============================================================================
