------------------------------ MODULE TaskQueue ------------------------------
(***************************************************************************)
(* What TaskThreadPool promises its users (Threadpool.h), with no word     *)
(* about workers, the mutex or the condition variable: a task is accepted  *)
(* while the pool is open, begun in the order of acceptance, ended once,   *)
(* or thrown away before it is begun; a held queue begins nothing; and     *)
(* stop() returns when nothing accepted is waiting or under way.           *)
(***************************************************************************)
EXTENDS Sequences

CONSTANT Tasks

VARIABLES
    queue,     \* tasks accepted and not begun, the oldest first
    begun,     \* tasks under way
    ended,     \* tasks executed
    thrown,    \* tasks thrown away by clearQueue
    open,      \* stop() has not begun
    held,      \* paused: a pause() takes effect on the tasks not yet taken
    returned   \* stop() has returned

queueVars == <<queue, begun, ended, thrown, open, held, returned>>

Waiting == {queue[i] : i \in DOMAIN queue}

QueueInit ==
    /\ queue = <<>>
    /\ begun = {} /\ ended = {} /\ thrown = {}
    /\ open = TRUE
    /\ held = FALSE
    /\ returned = FALSE

Accept(t) ==
    /\ open
    /\ t \notin Waiting \cup begun \cup ended \cup thrown
    /\ queue' = Append(queue, t)
    /\ UNCHANGED <<begun, ended, thrown, open, held, returned>>

Begin ==
    /\ ~held /\ queue # <<>>
    /\ begun' = begun \cup {Head(queue)}
    /\ queue' = Tail(queue)
    /\ UNCHANGED <<ended, thrown, open, held, returned>>

End(t) ==
    /\ t \in begun
    /\ begun' = begun \ {t}
    /\ ended' = ended \cup {t}
    /\ UNCHANGED <<queue, thrown, open, held, returned>>

Throw ==
    /\ thrown' = thrown \cup Waiting
    /\ queue' = <<>>
    /\ UNCHANGED <<begun, ended, open, held, returned>>

Hold ==
    /\ held' \in BOOLEAN
    /\ UNCHANGED <<queue, begun, ended, thrown, open, returned>>

Close ==
    /\ open' = FALSE
    /\ UNCHANGED <<queue, begun, ended, thrown, held, returned>>

Return ==
    /\ ~open /\ queue = <<>> /\ begun = {}
    /\ returned' = TRUE
    /\ UNCHANGED <<queue, begun, ended, thrown, open, held>>

QueueNext ==
    \/ \E t \in Tasks : Accept(t) \/ End(t)
    \/ Begin \/ Throw \/ Hold \/ Close \/ Return

QueueSpec == QueueInit /\ [][QueueNext]_queueVars
=============================================================================
