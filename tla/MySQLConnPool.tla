--------------------------- MODULE MySQLConnPool ----------------------------
(***************************************************************************)
(* db/src/MySQLConnPool.cpp with MySQLWorker and MySQLConn (MySQLConn.cpp), *)
(* BlockingQueue.h and SQLTask.cpp: tasks are pushed to one queue, each     *)
(* worker owns a connection, pops tasks and sets their promises, a thread   *)
(* pings idle connections, and Shutdown cancels the queue and joins.        *)
(*                                                                         *)
(* The blocking waits on condition variables with a predicate are guards.  *)
(* A worker that finds its connection dead would reconnect it: nothing     *)
(* follows the location "reconnect" here, because no run of the program    *)
(* reaches it (ReconnectUnreachable).                                      *)
(***************************************************************************)
EXTENDS Naturals, Sequences, SequencesExt, FiniteSets

CONSTANTS
    InitialSize,  \* initial_size_: connections, and workers, 1..InitialSize
    Tasks,        \* the SQL operations callers submit
    NoTask        \* a worker that holds no task

ASSUME PoolSizeAssumption == InitialSize \in Nat /\ NoTask \notin Tasks

Slots == 1..InitialSize

VARIABLES
    pool,         \* how far the pool's owner is
    conns,        \* conns_ and workers_: the slots whose Open succeeded
    link,         \* connections whose server side still answers
    alive,        \* alive_ of each connection
    worker,       \* where each WorkerLoop is
    workerRuns,   \* running_ of each worker
    task,         \* WorkerLoop's task
    queue, stopped, \* BlockingQueue
    future,       \* what the future of each task holds
    keepAlive,    \* where KeepAliveLoop is
    running,      \* running_ of the pool
    aborted       \* the process has aborted

vars == <<pool, conns, link, alive, worker, workerRuns, task, queue, stopped, future,
          keepAlive, running, aborted>>

Answers == {"result", "default", "broken"}

TypeOK ==
    /\ pool \in {"new", "ready", "stopping", "stopKeepAlive", "shutdown", "destroyed"}
    /\ conns \subseteq Slots
    /\ link \subseteq Slots
    /\ alive \subseteq Slots
    /\ worker \in [Slots -> {"none", "test", "pop", "reconnect", "execute", "exited"}]
    /\ workerRuns \subseteq Slots
    /\ task \in [Slots -> Tasks \cup {NoTask}]
    /\ \A w \in Slots : (task[w] # NoTask) <=> worker[w] \in {"reconnect", "execute"}
    /\ queue \in Seq(Tasks)
    /\ stopped \in BOOLEAN
    /\ future \in [Tasks -> {"none", "pending"} \cup Answers]
    /\ keepAlive \in {"none", "run", "exited"}
    /\ running \in BOOLEAN
    /\ aborted \in BOOLEAN

Init ==
    /\ pool = "new"
    /\ conns = {} /\ link = {} /\ alive = {}
    /\ worker = [w \in Slots |-> "none"]
    /\ workerRuns = {}
    /\ task = [w \in Slots |-> NoTask]
    /\ queue = <<>>
    /\ stopped = FALSE
    /\ future = [t \in Tasks |-> "none"]
    /\ keepAlive = "none"
    /\ running = FALSE
    /\ aborted = FALSE
-----------------------------------------------------------------------------
(* CreateInitialConnections: an Open whose last retry throws ends the process in
   LOG_FATAL. *)
Open ==
    /\ pool = "new"
    /\ aborted' = TRUE
    /\ UNCHANGED <<pool, conns, link, alive, worker, workerRuns, task, queue, stopped, future,
                   keepAlive, running>>

(* Those whose driver answers null are left out; SpawnWorkerThreads starts a worker
   for each of the others, StartKeepAlive the last thread. *)
InitPool(opened) ==
    /\ pool = "new"
    /\ pool' = "ready"
    /\ conns' = opened /\ link' = opened /\ alive' = opened
    /\ worker' = [w \in Slots |-> IF w \in opened THEN "test" ELSE "none"]
    /\ workerRuns' = opened
    /\ keepAlive' = "run"
    /\ running' = TRUE
    /\ UNCHANGED <<task, queue, stopped, future, aborted>>

(* Submit*, AsyncQuery: Push drops the operation of a stopped queue, and with it
   its promise. *)
Submit(t) ==
    /\ pool \notin {"new", "destroyed"}
    /\ future[t] = "none"
    /\ \/ stopped /\ future' = [future EXCEPT ![t] = "broken"] /\ UNCHANGED queue
       \/ /\ ~stopped
          /\ future' = [future EXCEPT ![t] = "pending"]
          /\ queue' = Append(queue, t)
    /\ UNCHANGED <<pool, conns, link, alive, worker, workerRuns, task, stopped, keepAlive,
                   running, aborted>>
-----------------------------------------------------------------------------
(* WorkerLoop of worker w. *)

WhileTest(w) ==
    /\ worker[w] = "test"
    /\ worker' = [worker EXCEPT ![w] = IF w \in workerRuns THEN "pop" ELSE "exited"]
    /\ UNCHANGED <<pool, conns, link, alive, workerRuns, task, queue, stopped, future,
                   keepAlive, running, aborted>>

PopReady_OnlyStopped == stopped

PopReady_OnlyTasks == queue # <<>>

(* The predicate Pop waits for. *)
PopReady == queue # <<>> \/ stopped

TakeFront_Keeps == UNCHANGED queue

TakeFront == queue' = Tail(queue)

(* A connection known to be dead is to be opened again first. *)
AfterPop(w) == IF w \in alive THEN "execute" ELSE "reconnect"

Pop(w) ==
    /\ worker[w] = "pop"
    /\ PopReady
    /\ \/ /\ queue = <<>>
          /\ worker' = [worker EXCEPT ![w] = "exited"]
          /\ UNCHANGED <<queue, task>>
       \/ /\ queue # <<>>
          /\ TakeFront
          /\ task' = [task EXCEPT ![w] = Head(queue)]
          /\ worker' = [worker EXCEPT ![w] = AfterPop(w)]
    /\ UNCHANGED <<pool, conns, link, alive, workerRuns, stopped, future, keepAlive, running,
                   aborted>>

(* SQLOperation::Execute: a value, or the default value of a failure. *)
Execute(w) ==
    /\ worker[w] = "execute"
    /\ future' = [future EXCEPT ![task[w]] = IF w \in link THEN "result" ELSE "default"]
    /\ task' = [task EXCEPT ![w] = NoTask]
    /\ worker' = [worker EXCEPT ![w] = "test"]
    /\ UNCHANGED <<pool, conns, link, alive, workerRuns, queue, stopped, keepAlive, running,
                   aborted>>

(* The server closes an idle connection, or the network breaks it. *)
LinkDown(c) ==
    /\ c \in link
    /\ link' = link \ {c}
    /\ UNCHANGED <<pool, conns, alive, worker, workerRuns, task, queue, stopped, future,
                   keepAlive, running, aborted>>
-----------------------------------------------------------------------------
Unique_Always(c) == TRUE

(* conn.unique(): conns_ has the only pointer, no worker holds one. *)
Unique(c) == worker[c] = "none"

(* Ping stores in alive_ whether the server answers. *)
Ping(c) == c \in link

(* One pass of KeepAliveLoop, under pool_mtx_. *)
KeepAliveLoop ==
    /\ keepAlive = "run" /\ pool # "stopping"
    /\ \/ /\ running
          /\ alive' = {c \in Slots : IF c \in conns /\ Unique(c) THEN Ping(c) ELSE c \in alive}
          /\ UNCHANGED keepAlive
       \/ ~running /\ keepAlive' = "exited" /\ UNCHANGED alive
    /\ UNCHANGED <<pool, conns, link, worker, workerRuns, task, queue, stopped, future,
                   running, aborted>>

(* Shutdown returns at once without workers; otherwise it cancels the queue, and
   keeps pool_mtx_ until the workers are joined. *)
Shutdown ==
    /\ pool = "ready"
    /\ \/ conns = {} /\ pool' = "shutdown" /\ UNCHANGED stopped
       \/ conns # {} /\ pool' = "stopping" /\ stopped' = TRUE
    /\ UNCHANGED <<conns, link, alive, worker, workerRuns, task, queue, future, keepAlive,
                   running, aborted>>

(* MySQLWorker::Stop of each worker in turn: the flag, then the join of those
   before it. *)
StopWorker(w) ==
    /\ pool = "stopping"
    /\ w \in workerRuns
    /\ \A v \in conns : v < w => v \notin workerRuns /\ worker[v] = "exited"
    /\ workerRuns' = workerRuns \ {w}
    /\ UNCHANGED <<pool, conns, link, alive, worker, task, queue, stopped, future, keepAlive,
                   running, aborted>>

Joined == workerRuns = {} /\ \A w \in conns : worker[w] = "exited"

StopKeepAlive ==
    /\ pool = "stopping"
    /\ Joined
    /\ pool' = "stopKeepAlive"
    /\ conns' = {}
    /\ running' = FALSE
    /\ UNCHANGED <<link, alive, worker, workerRuns, task, queue, stopped, future, keepAlive,
                   aborted>>

ShutdownReturn ==
    /\ pool = "stopKeepAlive"
    /\ keepAlive = "exited"
    /\ pool' = "shutdown"
    /\ UNCHANGED <<conns, link, alive, worker, workerRuns, task, queue, stopped, future,
                   keepAlive, running, aborted>>

(* The destructor after Shutdown: the queue goes, and with it the promises in it;
   a thread that was not joined ends the process. *)
Destroy ==
    /\ pool = "shutdown"
    /\ pool' = "destroyed"
    /\ future' = [t \in Tasks |-> IF t \in ToSet(queue) THEN "broken" ELSE future[t]]
    /\ queue' = <<>>
    /\ aborted' = (keepAlive # "exited")
    /\ UNCHANGED <<conns, link, alive, worker, workerRuns, task, stopped, keepAlive, running>>

WorkerLoop(w) == WhileTest(w) \/ Pop(w) \/ Execute(w)

Step ==
    \/ Open
    \/ \E opened \in SUBSET Slots : InitPool(opened)
    \/ \E t \in Tasks : Submit(t)
    \/ \E w \in Slots : WorkerLoop(w) \/ StopWorker(w) \/ LinkDown(w)
    \/ KeepAliveLoop
    \/ Shutdown \/ StopKeepAlive \/ ShutdownReturn \/ Destroy

Finished == (aborted \/ pool = "destroyed") /\ UNCHANGED vars

Next == (~aborted /\ Step) \/ Finished

(* Threads are scheduled, and a thread inside Shutdown goes on. *)
Fairness ==
    /\ \A w \in Slots : WF_vars(~aborted /\ WorkerLoop(w)) /\ WF_vars(~aborted /\ StopWorker(w))
    /\ WF_vars(~aborted /\ KeepAliveLoop)
    /\ WF_vars(~aborted /\ (StopKeepAlive \/ ShutdownReturn))

Spec == Init /\ [][Next]_vars /\ Fairness
-----------------------------------------------------------------------------
(* The types, and: a task whose future is pending is in exactly one place, the queue or one
   worker, and every such task is pending: no task is lost or run twice by two
   workers popping, while Shutdown stops them one by one, and
   once the pool is destroyed no caller waits on a future for ever.  Only a pool
   without a connection ends the process: a failed Open, or a Shutdown that returns
   at once and leaves the keep-alive thread to the destructor. *)
TasksAccounted ==
    LET held == {w \in Slots : task[w] # NoTask}
        holding == {task[w] : w \in held}
    IN  /\ TypeOK
        /\ aborted => conns = {}
        /\ pool = "destroyed" => \A t \in Tasks : future[t] # "pending"
        /\ {t \in Tasks : future[t] = "pending"} = ToSet(queue) \cup holding
        /\ Cardinality(holding) = Cardinality(held)
        /\ IsInjective(queue)
        /\ ToSet(queue) \cap holding = {}

(* WorkerLoop's reconnection is dead code: a connection is opened once, its worker
   holds it from then on, so that KeepAliveLoop never pings it, and a failing query
   leaves alive_ alone. *)
ReconnectUnreachable == \A w \in Slots : worker[w] # "reconnect"

(* A promise is set once: an answered future never changes. *)
AnsweredOnce ==
    [][\A t \in Tasks : future[t] \in Answers => future'[t] = future[t]]_vars

(* While the pool has workers and is not shut down, a submitted task is answered,
   whatever becomes of its worker's connection. *)
TaskAnswered ==
    \A t \in Tasks :
        (future[t] = "pending" /\ conns # {})
            ~> (future[t] \in Answers \/ pool # "ready")

(* Shutdown returns: Cancel and Stop reach a worker wherever it is. *)
ShutdownReturns == (pool = "stopping") ~> (pool = "shutdown")
=============================================================================
