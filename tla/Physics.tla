------------------------------- MODULE Physics -------------------------------
(***************************************************************************)
(* PhysicsEngine: the life of the objects it creates in the PhysX library  *)
(* (external) and of the two maps that lead to them.  m_physicsMutex       *)
(* guards the library's scene, each map has a mutex of its own, and a      *)
(* pointer read from a map is used after the map's mutex is released.      *)
(*                                                                         *)
(* Objects are numbered as they are created and never reused; 0 is the     *)
(* null pointer.  A section under a map's mutex is one step, and so is one *)
(* under m_physicsMutex unless another thread can see its middle: the      *)
(* simulation step and Shutdown.  Ray casts, sweeps and overlaps take the  *)
(* mutex, change nothing, and are left out, as are the materials.          *)
(***************************************************************************)
EXTENDS Naturals, FiniteSets

CONSTANTS
    Threads,     \* threads that call the engine
    Ids,         \* player ids and entity ids
    MaxObjects,  \* bound: objects created
    MaxInits,    \* bound: calls of Initialize that do something
    None         \* no thread, no id

ASSUME ThreadsAssumption == None \notin Threads
ASSUME IdsAssumption == None \notin Ids
ASSUME MaxObjectsAssumption == MaxObjects \in Nat /\ MaxInits \in Nat

VARIABLES
    foundation,  \* m_foundation is there: the engine counts as initialised
    scene,       \* m_scene is there
    manager,     \* m_controller_manager is there
    mutex,       \* the thread that holds m_physicsMutex between two steps
    controllers, \* m_playerControllers
    actors,      \* m_entityActors
    made,        \* objects created so far
    live,        \* objects not released yet
    owned,       \* live controllers of the controller manager
    at,          \* where each thread stands
    ptr,         \* the pointer each thread works with
    id,          \* the id its new controller is for
    released,    \* history: releases of each object since Initialize
    orphans,     \* history: objects no map leads to by the engine's own doing
    overtaken,   \* history: Shutdown met another thread in a call
    inits        \* history: initialisations

maps == <<controllers, actors>>
calls == <<at, ptr, id>>
objects == <<made, live, owned>>
past == <<released, orphans, overtaken, inits>>
engine == <<foundation, scene, manager>>

physicsVars == <<engine, mutex, maps, objects, calls, past>>

Objects == 1 .. MaxObjects

PhysicsInit ==
    /\ foundation = FALSE
    /\ scene = FALSE
    /\ manager = FALSE
    /\ mutex = None
    /\ controllers = [i \in Ids |-> 0]
    /\ actors = [i \in Ids |-> 0]
    /\ made = 0
    /\ live = {}
    /\ owned = {}
    /\ at = [t \in Threads |-> "outside"]
    /\ ptr = [t \in Threads |-> 0]
    /\ id = [t \in Threads |-> None]
    /\ released = [o \in Objects |-> 0]
    /\ orphans = {}
    /\ overtaken = FALSE
    /\ inits = 0

\* A call goes on at another place, or returns.
Goto(t, place) == at' = [at EXCEPT ![t] = place]

Return(t) ==
    /\ at' = [at EXCEPT ![t] = "outside"]
    /\ ptr' = [ptr EXCEPT ![t] = 0]
    /\ id' = [id EXCEPT ![t] = None]

\* The library makes a new object.
New == made + 1

Create ==
    /\ made < MaxObjects
    /\ made' = New
    /\ live' = live \cup {New}

\* The library frees a set of objects, each known by one pointer.
Release(S) ==
    /\ live' = live \ S
    /\ owned' = owned \ S
    /\ released' = [o \in Objects |-> IF o \in S THEN released[o] + 1 ELSE released[o]]

-----------------------------------------------------------------------------
(* Initialize and Shutdown.                                                 *)
(*   stuck         Initialize called Shutdown and waits for its own mutex   *)
(*   clearing      Shutdown: the manager is gone, the controllers come next *)
(*   emptying      Shutdown: the actors come next                           *)
(*   closing       Shutdown: scene and library come next                    *)

InitializeMayRun(t) ==
    /\ at[t] = "outside"
    /\ mutex = None
    /\ ~foundation
    /\ inits < MaxInits
    /\ inits' = inits + 1

Initialize(t) ==
    /\ InitializeMayRun(t)
    /\ foundation' = TRUE
    /\ scene' = TRUE
    /\ manager' = TRUE
    /\ released' = [o \in Objects |-> 0]
    /\ UNCHANGED <<mutex, maps, objects, calls, orphans, overtaken>>

\* Foundation, physics or extensions failed: what there is is released in place.
InitializeFails(t) ==
    /\ InitializeMayRun(t)
    /\ UNCHANGED <<engine, mutex, maps, objects, calls, released, orphans, overtaken>>

\* Material, dispatcher, scene or manager failed: Shutdown locks the mutex that
\* this thread holds.  That is undefined: the thread waits for itself ...
InitializeLocksTwice(t) ==
    /\ InitializeMayRun(t)
    /\ foundation' = TRUE
    /\ scene' \in BOOLEAN
    /\ Goto(t, "stuck")
    /\ mutex' = t
    /\ UNCHANGED <<manager, maps, objects, ptr, id, released, orphans, overtaken>>

\* ... or the library's mutex notices and throws out of Shutdown and Initialize.
InitializeThrows(t) ==
    /\ InitializeMayRun(t)
    /\ foundation' = TRUE
    /\ scene' \in BOOLEAN
    /\ UNCHANGED <<manager, mutex, maps, objects, calls, released, orphans, overtaken>>

\* Is another thread in a call?
Crossed(t) == \E u \in Threads \ {t} : at[u] # "outside"

\* The manager takes its controllers with it.
Shutdown(t) ==
    /\ at[t] = "outside"
    /\ mutex = None
    /\ mutex' = t
    /\ manager' = FALSE
    /\ Release(IF manager THEN owned ELSE {})
    /\ overtaken' = (overtaken \/ Crossed(t))
    /\ Goto(t, "clearing")
    /\ UNCHANGED <<foundation, scene, maps, made, ptr, id, orphans, inits>>

Registered(map) == {map[i] : i \in Ids} \ {0}

\* Every controller in the map is released, and the map cleared.
ShutdownControllers(t) ==
    /\ at[t] = "clearing"
    /\ Release(Registered(controllers))
    /\ controllers' = [i \in Ids |-> 0]
    /\ Goto(t, "emptying")
    /\ UNCHANGED <<engine, mutex, actors, made, ptr, id, orphans, overtaken, inits>>

\* Mutant: the actors are released and their map is kept.
ShutdownKeepsActors(t) ==
    /\ at[t] = "emptying"
    /\ Release(Registered(actors))
    /\ Goto(t, "closing")
    /\ UNCHANGED <<engine, mutex, maps, made, ptr, id, orphans, overtaken, inits>>

ShutdownActors(t) ==
    /\ at[t] = "emptying"
    /\ Release(Registered(actors))
    /\ actors' = [i \in Ids |-> 0]
    /\ Goto(t, "closing")
    /\ UNCHANGED <<engine, mutex, controllers, made, ptr, id, orphans, overtaken, inits>>

\* Scene and library go, and with them every object left.
ShutdownScene(t) ==
    /\ at[t] = "closing"
    /\ foundation' = FALSE
    /\ scene' = FALSE
    /\ live' = {}
    /\ owned' = {}
    /\ mutex' = None
    /\ overtaken' = (overtaken \/ Crossed(t))
    /\ Return(t)
    /\ UNCHANGED <<manager, maps, made, released, orphans, inits>>

-----------------------------------------------------------------------------
(* Character controllers.                                                   *)
(*   creating      in createController, without m_physicsMutex              *)
(*   registering   about to put the new controller into the map             *)

CreateController(t, i) ==
    /\ at[t] = "outside"
    /\ manager
    /\ Goto(t, "creating")
    /\ id' = [id EXCEPT ![t] = i]
    /\ UNCHANGED <<engine, mutex, maps, objects, ptr, past>>

Created(t) ==
    /\ at[t] = "creating"
    /\ Create
    /\ owned' = owned \cup {New}
    /\ ptr' = [ptr EXCEPT ![t] = New]
    /\ Goto(t, "registering")
    /\ UNCHANGED <<engine, mutex, maps, id, past>>

CreateFails(t) ==
    /\ at[t] = "creating"
    /\ Return(t)
    /\ UNCHANGED <<engine, mutex, maps, objects, past>>

\* A controller the id already had is forgotten, not released.
RegisterController(t) ==
    /\ at[t] = "registering"
    /\ orphans' = orphans \cup ({controllers[id[t]]} \ {0})
    /\ controllers' = [controllers EXCEPT ![id[t]] = ptr[t]]
    /\ Return(t)
    /\ UNCHANGED <<engine, mutex, actors, objects, released, overtaken, inits>>

-----------------------------------------------------------------------------
(* Rigid actors.                                                            *)

\* The boxes, spheres, capsules, meshes and height fields: built, added to the
\* scene and registered under m_physicsMutex.
CreateActor(t, i) ==
    /\ at[t] = "outside"
    /\ mutex = None
    /\ scene
    /\ Create
    /\ actors' = [actors EXCEPT ![i] = New]
    /\ orphans' = orphans \cup ({actors[i]} \ {0})
    /\ UNCHANGED <<engine, mutex, controllers, owned, calls, released, overtaken, inits>>

\* Planes and projectiles, which no map leads to.
CreateUnregistered(t) ==
    /\ at[t] = "outside"
    /\ mutex = None
    /\ scene
    /\ Create
    /\ orphans' = orphans \cup {New}
    /\ UNCHANGED <<engine, mutex, maps, owned, calls, released, overtaken, inits>>

-----------------------------------------------------------------------------
(* Removal and use.                                                         *)
(*   dropping      erased from its map, about to be released                *)
(*   peeking       about to ask the actor for its type, without a mutex     *)
(*   holding       has a pointer, about to lock m_physicsMutex and use it   *)
(*   stepping      in simulate and fetchResults                             *)

\* Mutant: a player without a controller is not noticed.
UnregisterUnchecked(t, i) ==
    /\ at[t] = "outside"
    /\ ptr' = [ptr EXCEPT ![t] = controllers[i]]
    /\ controllers' = [controllers EXCEPT ![i] = 0]
    /\ Goto(t, "dropping")
    /\ UNCHANGED <<engine, mutex, actors, objects, id, past>>

\* Mutant: the controller is found and released, and its entry stays.
UnregisterControllerKeeps(t, i) ==
    /\ at[t] = "outside"
    /\ controllers[i] # 0
    /\ ptr' = [ptr EXCEPT ![t] = controllers[i]]
    /\ Goto(t, "dropping")
    /\ UNCHANGED <<engine, mutex, maps, objects, id, past>>

UnregisterController(t, i) ==
    /\ at[t] = "outside"
    /\ controllers[i] # 0
    /\ ptr' = [ptr EXCEPT ![t] = controllers[i]]
    /\ controllers' = [controllers EXCEPT ![i] = 0]
    /\ Goto(t, "dropping")
    /\ UNCHANGED <<engine, mutex, actors, objects, id, past>>

UnregisterActor(t, i) ==
    /\ at[t] = "outside"
    /\ actors[i] # 0
    /\ ptr' = [ptr EXCEPT ![t] = actors[i]]
    /\ actors' = [actors EXCEPT ![i] = 0]
    /\ Goto(t, "dropping")
    /\ UNCHANGED <<engine, mutex, controllers, objects, id, past>>

\* Mutant: the object is taken out of the scene and never released.
DropKeepsObject(t) ==
    /\ at[t] = "dropping"
    /\ mutex = None
    /\ Return(t)
    /\ UNCHANGED <<engine, mutex, maps, objects, past>>

Drop(t) ==
    /\ at[t] = "dropping"
    /\ mutex = None
    /\ Release({ptr[t]})
    /\ Return(t)
    /\ UNCHANGED <<engine, mutex, maps, made, orphans, overtaken, inits>>

\* GetPlayerController.
FindController(t, i) ==
    /\ at[t] = "outside"
    /\ controllers[i] # 0
    /\ ptr' = [ptr EXCEPT ![t] = controllers[i]]
    /\ Goto(t, "holding")
    /\ UNCHANGED <<engine, mutex, maps, objects, id, past>>

\* GetRigidActor, as ApplyForceToActorById calls it.
FindActor(t, i) ==
    /\ at[t] = "outside"
    /\ actors[i] # 0
    /\ ptr' = [ptr EXCEPT ![t] = actors[i]]
    /\ Goto(t, "peeking")
    /\ UNCHANGED <<engine, mutex, maps, objects, id, past>>

Peek(t) ==
    /\ at[t] = "peeking"
    /\ Goto(t, "holding")
    /\ UNCHANGED <<engine, mutex, maps, objects, ptr, id, past>>

\* An actor that is no rigid body takes no force.
PeekInVain(t) ==
    /\ at[t] = "peeking"
    /\ Return(t)
    /\ UNCHANGED <<engine, mutex, maps, objects, past>>

\* Pose, orientation, move, position or force, under m_physicsMutex.
Use(t) ==
    /\ at[t] = "holding"
    /\ mutex = None
    /\ Return(t)
    /\ UNCHANGED <<engine, mutex, maps, objects, past>>

StepSimulation(t) ==
    /\ at[t] = "outside"
    /\ mutex = None
    /\ scene
    /\ mutex' = t
    /\ Goto(t, "stepping")
    /\ UNCHANGED <<engine, maps, objects, ptr, id, past>>

\* Mutant: the step returns with the mutex locked.
StepKeepsLock(t) ==
    /\ at[t] = "stepping"
    /\ Return(t)
    /\ UNCHANGED <<engine, mutex, maps, objects, past>>

StepDone(t) ==
    /\ at[t] = "stepping"
    /\ mutex' = None
    /\ Return(t)
    /\ UNCHANGED <<engine, maps, objects, past>>

-----------------------------------------------------------------------------
Finish(t) ==
    \/ ShutdownControllers(t) \/ ShutdownActors(t) \/ ShutdownScene(t)
    \/ Created(t) \/ CreateFails(t) \/ RegisterController(t)
    \/ Peek(t) \/ PeekInVain(t) \/ StepDone(t)

Locked(t) == Drop(t) \/ Use(t)

Call(t) ==
    \/ Initialize(t) \/ InitializeFails(t)
    \/ InitializeLocksTwice(t) \/ InitializeThrows(t)
    \/ Shutdown(t)
    \/ StepSimulation(t)
    \/ CreateUnregistered(t)
    \/ \E i \in Ids :
          \/ CreateController(t, i) \/ UnregisterController(t, i) \/ FindController(t, i)
          \/ CreateActor(t, i) \/ UnregisterActor(t, i) \/ FindActor(t, i)

PhysicsNext == \E t \in Threads : Call(t) \/ Finish(t) \/ Locked(t)

PhysicsSpec == PhysicsInit /\ [][PhysicsNext]_physicsVars

\* A call that has begun goes on, and one that waits for m_physicsMutex gets it:
\* the server sleeps with the mutex free between two simulation steps.
PhysicsFairness ==
    \A t \in Threads :
        /\ WF_physicsVars(Finish(t))
        /\ SF_physicsVars(Locked(t))

FairPhysicsSpec == PhysicsSpec /\ PhysicsFairness

-----------------------------------------------------------------------------
Places ==
    {"outside", "stuck", "clearing", "emptying", "closing", "creating", "registering",
     "dropping", "peeking", "holding", "stepping"}

\* Places where a thread works with a pointer, where no map leads to the object
\* it works with, and where it holds the mutex.
WithPointer == {"registering", "dropping", "peeking", "holding"}
InHand == {"registering", "dropping"}
WithMutex == {"stuck", "clearing", "emptying", "closing", "stepping"}

Types ==
    /\ {foundation, scene, manager, overtaken} \subseteq BOOLEAN
    /\ mutex \in Threads \cup {None}
    /\ controllers \in [Ids -> 0 .. MaxObjects]
    /\ actors \in [Ids -> 0 .. MaxObjects]
    /\ made \in 0 .. MaxObjects
    /\ live \subseteq Objects
    /\ owned \subseteq live
    /\ at \in [Threads -> Places]
    /\ ptr \in [Threads -> 0 .. MaxObjects]
    /\ id \in [Threads -> Ids \cup {None}]
    /\ released \in [Objects -> Nat]
    /\ orphans \subseteq Objects
    /\ inits \in 0 .. MaxInits

\* Every variable has its type; a call holds m_physicsMutex exactly where the
\* code does, has a pointer exactly where it uses one (never a null one), and
\* knows the player exactly while it makes a controller for it.
PhysicsTypeOK ==
    /\ Types
    /\ \A t \in Threads :
          /\ mutex = t <=> at[t] \in WithMutex
          /\ ptr[t] # 0 <=> at[t] \in WithPointer
          /\ id[t] # None <=> at[t] \in {"creating", "registering"}

\* What a map leads to is live, unless Shutdown met another call: a lookup hands
\* out a pointer that is good at that moment.  Only Shutdown itself keeps
\* controllers in their map after their manager has freed them.
LookupIsLive ==
    overtaken \/
        /\ Registered(actors) \subseteq live
        /\ Registered(controllers) \subseteq live \/ \E t \in Threads : at[t] = "clearing"

\* Every object that is not released is in a map or in the hands of a call that
\* will put it there or release it, unless the engine gave it up: planes and
\* projectiles, and what a later object of the same id pushed out of its map.
NothingLeaks ==
    \A o \in live :
        \/ o \in orphans
        \/ \E i \in Ids : o = controllers[i] \/ o = actors[i]
        \/ \E t \in Threads : at[t] \in InHand /\ o = ptr[t]

\* While the engine is up nothing is released twice, whoever unregisters what at
\* the same time, and what is released is gone, unless Shutdown met another call.
ReleasedOnceWhileUp ==
    manager /\ ~overtaken =>
        \A o \in Objects : released[o] <= 1 /\ (released[o] = 1 => o \notin live)

\* Every call returns, unless an Initialize that failed waits for its own mutex.
CallsReturn ==
    \A t \in Threads :
        at[t] # "outside" ~> at[t] = "outside" \/ \E u \in Threads : at[u] = "stuck"

=============================================================================
