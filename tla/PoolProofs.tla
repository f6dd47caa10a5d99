----------------------------- MODULE PoolProofs -----------------------------
(***************************************************************************)
(* Proofs about MySQLConnPool for any number of connections and any set of *)
(* tasks: a task is in one place until it is answered, a promise is set    *)
(* once, and no worker ever reconnects.  Then about RedisPool, for any set *)
(* of threads and any finite set of clients: every client is in one place  *)
(* at every moment.                                                        *)
(***************************************************************************)
EXTENDS MySQLConnPool, SequenceTheorems, FiniteSetTheorems, TLAPS

(* A slot has a worker exactly while its connection is in conns_, until the pool
   is shut down; then every worker has been joined.  A worker holds its
   connection, so that nobody has cleared alive_ under it. *)
WorkersInv ==
    /\ pool = "new" => conns = {} /\ \A w \in Slots : worker[w] = "none"
    /\ pool \in {"ready", "stopping"} => \A w \in Slots : worker[w] # "none" <=> w \in conns
    /\ pool \in {"stopKeepAlive", "shutdown", "destroyed"} =>
           conns = {} /\ \A w \in Slots : worker[w] \in {"none", "exited"}
    /\ \A w \in Slots : worker[w] # "none" => w \in alive
    /\ \A w \in Slots : worker[w] # "reconnect"
    /\ aborted => pool \in {"new", "destroyed"}

(* The places of a task, one by one: the queue holds it once, or one worker holds
   it, and exactly then its future is pending. *)
TasksInv ==
    /\ IsInjective(queue)
    /\ \A v, w \in Slots : task[v] # NoTask /\ task[v] = task[w] => v = w
    /\ \A w \in Slots : task[w] \notin ToSet(queue)
    /\ \A t \in Tasks : future[t] = "pending" <=>
                            (t \in ToSet(queue) \/ \E w \in Slots : task[w] = t)
    /\ pool = "destroyed" => queue = <<>>

PoolInv == TypeOK /\ WorkersInv /\ TasksInv
-----------------------------------------------------------------------------
(* Zenon proves each leaf that names no other prover. *)
USE ZenonT(30)

(* Pushing an absent element (BlockingQueue::Push). *)
LEMMA PushAbsent ==
    ASSUME NEW S, NEW s \in Seq(S), NEW e \in S, e \notin ToSet(s), IsInjective(s)
    PROVE  /\ Append(s, e) \in Seq(S)
           /\ IsInjective(Append(s, e))
           /\ ToSet(Append(s, e)) = ToSet(s) \cup {e}
  <1> DEFINE r == Append(s, e)
  <1>1. /\ r \in Seq(S)
        /\ Len(r) = Len(s) + 1 /\ Len(s) \in Nat
        /\ DOMAIN r = 1..Len(r) /\ DOMAIN s = 1..Len(s)
        /\ \A i \in 1..Len(s) : r[i] = s[i]
        /\ r[Len(s) + 1] = e
    BY AppendProperties, LenProperties, SMTT(30)
  <1> HIDE DEF r
  <1>2. IsInjective(r)
    BY <1>1, SMTT(30) DEF IsInjective, ToSet
  <1>3. ToSet(r) = ToSet(s) \cup {e}
    BY <1>1, SMTT(30) DEF ToSet
  <1> QED
    BY <1>1, <1>2, <1>3 DEF r

(* Taking the front of a queue without repetitions (BlockingQueue::Pop). *)
LEMMA TakeDistinct ==
    ASSUME NEW S, NEW s \in Seq(S), s # <<>>, IsInjective(s)
    PROVE  /\ Head(s) \in S /\ Tail(s) \in Seq(S)
           /\ IsInjective(Tail(s))
           /\ Head(s) \in ToSet(s)
           /\ ToSet(Tail(s)) = ToSet(s) \ {Head(s)}
  <1> DEFINE r == Tail(s)
  <1>1. /\ r \in Seq(S) /\ Head(s) \in S
        /\ Len(r) = Len(s) - 1 /\ Len(s) \in Nat \ {0}
        /\ DOMAIN r = 1..Len(r) /\ DOMAIN s = 1..Len(s)
        /\ \A i \in 1..Len(r) : r[i] = s[i + 1]
        /\ Head(s) = s[1]
    <2>1. r \in Seq(S) /\ Head(s) \in S /\ Len(r) = Len(s) - 1
      BY HeadTailProperties
    <2>2. \A i \in 1..Len(r) : r[i] = s[i + 1]
      BY HeadTailProperties
    <2>3. Len(s) \in Nat \ {0}
      BY EmptySeq
    <2>4. DOMAIN r = 1..Len(r) /\ DOMAIN s = 1..Len(s)
      BY <2>1, LenProperties
    <2>5. Head(s) = s[1]
      BY SMTT(30)
    <2> QED
      BY <2>1, <2>2, <2>3, <2>4, <2>5
  <1> HIDE DEF r
  <1>2. IsInjective(r)
    <2> SUFFICES ASSUME NEW i \in 1..Len(r), NEW j \in 1..Len(r), r[i] = r[j]
                 PROVE  i = j
      BY <1>1 DEF IsInjective
    <2>1. i + 1 \in DOMAIN s /\ j + 1 \in DOMAIN s /\ s[i + 1] = s[j + 1]
      BY <1>1, SMTT(30)
    <2>2. i + 1 = j + 1
      BY <2>1 DEF IsInjective
    <2> QED
      BY <1>1, <2>2, SMTT(30)
  <1>3. Head(s) \in ToSet(s)
    BY <1>1, SMTT(30) DEF ToSet
  <1>4. ToSet(r) = ToSet(s) \ {Head(s)}
    <2>1. ASSUME NEW x \in ToSet(r) PROVE x \in ToSet(s) \ {Head(s)}
      BY <1>1, <2>1, SMTT(30) DEF ToSet, IsInjective
    <2>2. ASSUME NEW x \in ToSet(s), x # Head(s) PROVE x \in ToSet(r)
      <3>1. PICK i \in DOMAIN s : x = s[i]
        BY DEF ToSet
      <3>2. i \in 1..Len(s) /\ i # 1
        BY <1>1, <2>2, <3>1
      <3>3. i - 1 \in 1..Len(r) /\ (i - 1) + 1 = i
        BY <1>1, <3>2, SMTT(30)
      <3>4. r[i - 1] = x
        BY <1>1, <3>1, <3>3
      <3> QED
        BY <1>1, <3>3, <3>4 DEF ToSet
    <2> QED
      BY <2>1, <2>2
  <1> QED
    BY <1>1, <1>2, <1>3, <1>4 DEF r
-----------------------------------------------------------------------------
(* Every step keeps the types, the owner's and the threads' alike. *)
LEMMA TypeStep == TypeOK /\ WorkersInv /\ [Next]_vars => TypeOK'
  <1> SUFFICES ASSUME TypeOK, WorkersInv, [Next]_vars PROVE TypeOK'
    OBVIOUS
  <1> USE DEF TypeOK, Answers
  <1>1. CASE Open
    BY <1>1 DEF Open
  <1>2. ASSUME NEW opened \in SUBSET Slots, InitPool(opened) PROVE TypeOK'
    <2>1. \A w \in Slots : task[w] = NoTask
      BY <1>2 DEF InitPool, WorkersInv
    <2>2. /\ worker' \in [Slots -> {"test", "none"}]
          /\ task' = task
      BY <1>2 DEF InitPool
    <2>3. \A w \in Slots : (task'[w] # NoTask) <=> worker'[w] \in {"reconnect", "execute"}
      BY <2>1, <2>2
    <2> QED
      BY <1>2, <2>2, <2>3 DEF InitPool
  <1>3. ASSUME NEW t \in Tasks, Submit(t) PROVE TypeOK'
    <2>1. queue' \in Seq(Tasks)
      BY <1>3, AppendProperties, SMTT(30) DEF Submit
    <2>2. future' \in [Tasks -> {"none", "pending"} \cup Answers]
      BY <1>3 DEF Submit
    <2> QED
      BY <1>3, <2>1, <2>2 DEF Submit
  <1>4. ASSUME NEW w \in Slots, WhileTest(w) PROVE TypeOK'
    BY <1>4 DEF WhileTest
  <1>5. ASSUME NEW w \in Slots, Pop(w) PROVE TypeOK'
    <2>1. CASE queue = <<>>
      BY <1>5, <2>1 DEF Pop
    <2>2. CASE queue # <<>>
      <3>1. Head(queue) \in Tasks /\ Tail(queue) \in Seq(Tasks)
        BY <2>2, HeadTailProperties
      <3> QED
        <4>1. /\ worker' = [worker EXCEPT ![w] = AfterPop(w)]
              /\ AfterPop(w) \in {"execute", "reconnect"}
              /\ task' = [task EXCEPT ![w] = Head(queue)]
              /\ queue' = Tail(queue)
          BY <1>5, <2>2 DEF Pop, TakeFront, AfterPop
        <4>2. \A v \in Slots : (task'[v] # NoTask) <=> worker'[v] \in {"reconnect", "execute"}
          BY <3>1, <4>1, PoolSizeAssumption
        <4> QED
          BY <1>5, <3>1, <4>1, <4>2 DEF Pop
    <2> QED
      BY <2>1, <2>2
  <1>6. ASSUME NEW w \in Slots, Execute(w) PROVE TypeOK'
    BY <1>6, PoolSizeAssumption DEF Execute
  <1>7. ASSUME NEW w \in Slots, StopWorker(w) \/ LinkDown(w) PROVE TypeOK'
    BY <1>7 DEF StopWorker, LinkDown
  <1>8. CASE KeepAliveLoop
    BY <1>8 DEF KeepAliveLoop
  <1>9. CASE Shutdown \/ StopKeepAlive \/ ShutdownReturn
    BY <1>9 DEF Shutdown, StopKeepAlive, ShutdownReturn
  <1>10. CASE Destroy
    BY <1>10, SMTT(30) DEF Destroy
  <1>11. CASE UNCHANGED vars
    BY <1>11 DEF vars
  <1> QED
    BY <1>1, <1>2, <1>3, <1>4, <1>5, <1>6, <1>7, <1>8, <1>9, <1>10, <1>11
       DEF Next, Step, WorkerLoop, Finished

(* Every step keeps the workers where WorkersInv says.  KeepAliveLoop leaves alive_
   alone: the slots in conns_ have a worker, so that unique() is false. *)
LEMMA WorkersStep == TypeOK /\ WorkersInv /\ [Next]_vars => WorkersInv'
  <1> SUFFICES ASSUME TypeOK, WorkersInv, [Next]_vars PROVE WorkersInv'
    OBVIOUS
  <1> USE DEF WorkersInv
  <1>0. worker \in [Slots -> {"none", "test", "pop", "reconnect", "execute", "exited"}]
    BY DEF TypeOK
  <1>1. CASE Open
    BY <1>1 DEF Open
  <1>2. ASSUME NEW opened \in SUBSET Slots, InitPool(opened), ~aborted PROVE WorkersInv'
    BY <1>2 DEF InitPool
  <1>3. ASSUME NEW t \in Tasks, Submit(t) PROVE WorkersInv'
    BY <1>3 DEF Submit
  <1>4. ASSUME NEW w \in Slots, WhileTest(w) PROVE WorkersInv'
    BY <1>0, <1>4 DEF WhileTest
  <1>5. ASSUME NEW w \in Slots, Pop(w) PROVE WorkersInv'
    BY <1>0, <1>5 DEF Pop, AfterPop
  <1>6. ASSUME NEW w \in Slots, Execute(w) PROVE WorkersInv'
    BY <1>0, <1>6 DEF Execute
  <1>7. ASSUME NEW w \in Slots, StopWorker(w) \/ LinkDown(w) PROVE WorkersInv'
    BY <1>7, SMTT(30) DEF StopWorker, LinkDown
  <1>8. CASE KeepAliveLoop
    BY <1>8 DEF KeepAliveLoop, Unique, TypeOK
  <1>9. CASE Shutdown
    BY <1>0, <1>9 DEF Shutdown
  <1>10. CASE StopKeepAlive
    BY <1>0, <1>10 DEF StopKeepAlive, Joined
  <1>11. CASE ShutdownReturn \/ Destroy
    BY <1>11, SMTT(30) DEF ShutdownReturn, Destroy
  <1>12. CASE UNCHANGED vars
    BY <1>12 DEF vars
  <1> QED
    BY <1>1, <1>2, <1>3, <1>4, <1>5, <1>6, <1>7, <1>8, <1>9, <1>10, <1>11, <1>12
       DEF Next, Step, WorkerLoop, Finished
-----------------------------------------------------------------------------
(* Every step moves a task from one place to the next with its future.  Two workers
   never pop the same task, and the destructor breaks what is left in the queue. *)
LEMMA TasksStep == TypeOK /\ WorkersInv /\ TasksInv /\ [Next]_vars => TasksInv'
  <1> SUFFICES ASSUME TypeOK, WorkersInv, TasksInv, [Next]_vars PROVE TasksInv'
    OBVIOUS
  <1>0. /\ queue \in Seq(Tasks)
        /\ task \in [Slots -> Tasks \cup {NoTask}]
        /\ \A w \in Slots : (task[w] # NoTask) <=> worker[w] \in {"reconnect", "execute"}
        /\ future \in [Tasks -> {"none", "pending"} \cup Answers]
        /\ NoTask \notin Tasks
    BY PoolSizeAssumption DEF TypeOK
  <1>1. ToSet(queue) \subseteq Tasks
    BY <1>0, LenProperties, SMTT(30) DEF ToSet
  <1>2. CASE UNCHANGED <<queue, task, future>> /\ (pool' = pool \/ pool' # "destroyed")
    BY <1>2 DEF TasksInv
  <1>3. ASSUME NEW t \in Tasks, Submit(t) PROVE TasksInv'
    <2>1. t \notin ToSet(queue) /\ \A w \in Slots : task[w] # t
      BY <1>3 DEF Submit, TasksInv
    <2>2. CASE stopped
      <3>1. future' = [future EXCEPT ![t] = "broken"] /\ queue' = queue /\ task' = task /\ pool' = pool
        BY <1>3, <2>2 DEF Submit
      <3> QED
        BY <1>0, <2>1, <3>1 DEF TasksInv
    <2>3. CASE ~stopped
      <3>1. /\ future' = [future EXCEPT ![t] = "pending"]
            /\ queue' = Append(queue, t)
            /\ task' = task
            /\ pool' # "destroyed"
        BY <1>3, <2>3 DEF Submit
      <3>2. IsInjective(queue) /\ IsInjective(queue') /\ ToSet(queue') = ToSet(queue) \cup {t}
        BY <1>0, <2>1, <3>1, PushAbsent, SMTT(30) DEF TasksInv
      <3> QED
        BY <1>0, <2>1, <3>1, <3>2 DEF TasksInv
    <2> QED
      BY <2>2, <2>3
  <1>4. ASSUME NEW w \in Slots, Pop(w) PROVE TasksInv'
    <2>1. CASE queue = <<>>
      BY <1>2, <1>4, <2>1 DEF Pop
    <2>2. CASE queue # <<>>
      <3>1. /\ task' = [task EXCEPT ![w] = Head(queue)]
            /\ queue' = Tail(queue)
            /\ future' = future /\ pool' = pool
        BY <1>4, <2>2 DEF Pop, TakeFront
      <3>2. /\ Head(queue) \in Tasks /\ Head(queue) \in ToSet(queue)
            /\ IsInjective(queue')
            /\ ToSet(queue') = ToSet(queue) \ {Head(queue)}
        BY <1>0, <2>2, <3>1, TakeDistinct DEF TasksInv
      <3>3. task[w] = NoTask
        BY <1>0, <1>4 DEF Pop
      <3>4. pool # "destroyed"
        BY <2>2 DEF TasksInv
      <3>5. \A u, v \in Slots : task'[u] # NoTask /\ task'[u] = task'[v] => u = v
        BY <1>0, <3>1, <3>2, SMTT(30) DEF TasksInv
      <3>6. \A v \in Slots : task'[v] \notin ToSet(queue')
        BY <1>0, <3>1, <3>2 DEF TasksInv
      <3>7. \A t \in Tasks : (t \in ToSet(queue') \/ \E v \in Slots : task'[v] = t)
                              <=> (t \in ToSet(queue) \/ \E v \in Slots : task[v] = t)
        BY <1>0, <3>1, <3>2, <3>3
      <3> QED
        BY <3>1, <3>2, <3>4, <3>5, <3>6, <3>7 DEF TasksInv
    <2> QED
      BY <2>1, <2>2
  <1>5. ASSUME NEW w \in Slots, Execute(w) PROVE TasksInv'
    <2>1. /\ future' = [future EXCEPT ![task[w]] = IF w \in link THEN "result" ELSE "default"]
          /\ task' = [task EXCEPT ![w] = NoTask]
          /\ queue' = queue /\ pool' = pool
          /\ task[w] \in Tasks
      BY <1>0, <1>5 DEF Execute
    <2>2. \A v \in Slots : task'[v] \notin ToSet(queue')
      BY <1>0, <1>1, <2>1 DEF TasksInv
    <2>3. \A u, v \in Slots : task'[u] # NoTask /\ task'[u] = task'[v] => u = v
      BY <1>0, <2>1, SMTT(30) DEF TasksInv
    <2>4. \A t \in Tasks : future'[t] = "pending" <=>
                                (t \in ToSet(queue') \/ \E v \in Slots : task'[v] = t)
      <3>1. ASSUME NEW t \in Tasks, t # task[w]
            PROVE  (\E v \in Slots : task'[v] = t) <=> (\E v \in Slots : task[v] = t)
        BY <1>0, <2>1, <3>1
      <3>2. ASSUME NEW t \in Tasks, t # task[w] PROVE future'[t] = future[t]
        BY <1>0, <2>1, <3>2
      <3>3. future'[task[w]] # "pending" /\ task[w] \notin ToSet(queue')
        BY <1>0, <2>1 DEF TasksInv
      <3>4. \A v \in Slots : task'[v] # task[w]
        BY <1>0, <2>1 DEF TasksInv
      <3> QED
        BY <2>1, <3>1, <3>2, <3>3, <3>4 DEF TasksInv
    <2> QED
      BY <2>1, <2>2, <2>3, <2>4 DEF TasksInv
  <1>6. CASE Destroy
    <2>1. \A w \in Slots : task[w] = NoTask
      BY <1>0, <1>6 DEF Destroy, WorkersInv
    <2>2. /\ queue' = <<>> /\ task' = task
          /\ \A t \in Tasks : future'[t] = IF t \in ToSet(queue) THEN "broken" ELSE future[t]
      BY <1>6 DEF Destroy
    <2>3. \A t \in Tasks : future'[t] # "pending"
      BY <1>0, <2>1, <2>2, SMTT(30) DEF TasksInv
    <2>4. ToSet(queue') = {} /\ IsInjective(queue')
      BY <2>2, SMTT(30) DEF ToSet, IsInjective
    <2> QED
      BY <1>0, <2>1, <2>2, <2>3, <2>4, SMTT(30) DEF TasksInv
  <1>7. CASE Open \/ KeepAliveLoop \/ Shutdown \/ StopKeepAlive \/ ShutdownReturn \/ UNCHANGED vars
    BY <1>2, <1>7 DEF Open, KeepAliveLoop, Shutdown, StopKeepAlive, ShutdownReturn, vars
  <1>8. ASSUME NEW w \in Slots, WhileTest(w) \/ StopWorker(w) \/ LinkDown(w) PROVE TasksInv'
    BY <1>2, <1>8 DEF WhileTest, StopWorker, LinkDown
  <1>9. ASSUME NEW opened \in SUBSET Slots, InitPool(opened) PROVE TasksInv'
    BY <1>2, <1>9 DEF InitPool
  <1> QED
    BY <1>3, <1>4, <1>5, <1>6, <1>7, <1>8, <1>9 DEF Next, Step, WorkerLoop, Finished
-----------------------------------------------------------------------------
(* The inductive invariant holds in every state of the pool. *)
THEOREM PoolInvariant == Spec => []PoolInv
  <1>1. Init => PoolInv
    <2> SUFFICES ASSUME Init PROVE PoolInv
      OBVIOUS
    <2>1. TypeOK
      <3>1. stopped \in BOOLEAN /\ running \in BOOLEAN /\ aborted \in BOOLEAN
        BY DEF Init
      <3> QED
        BY <3>1, EmptySeq DEF Init, TypeOK, Answers
    <2>2. WorkersInv
      BY DEF Init, WorkersInv
    <2>3. ToSet(queue) = {} /\ IsInjective(queue)
      BY SMTT(30) DEF Init, ToSet, IsInjective
    <2>4. TasksInv
      BY <2>3, PoolSizeAssumption DEF Init, TasksInv
    <2> QED
      BY <2>1, <2>2, <2>4 DEF PoolInv
  <1>2. PoolInv /\ [Next]_vars => PoolInv'
    BY TypeStep, WorkersStep, TasksStep DEF PoolInv
  <1> QED
    BY <1>1, <1>2, PTL DEF Spec

(* As many workers hold a task as there are tasks held. *)
LEMMA HoldersCounted ==
    ASSUME PoolInv
    PROVE  LET held == {w \in Slots : task[w] # NoTask}
           IN  Cardinality({task[w] : w \in held}) = Cardinality(held)
  <1> DEFINE held == {w \in Slots : task[w] # NoTask}
             holding == {task[w] : w \in held}
             f == [w \in held |-> task[w]]
  <1>1. IsFiniteSet(held)
    <2>1. IsFiniteSet(Slots)
      BY FS_Interval, PoolSizeAssumption, SMTT(30) DEF Slots
    <2> QED
      BY <2>1, FS_Subset
  <1>2. f \in Bijection(held, holding)
    <2>1. \A v, w \in held : task[v] = task[w] => v = w
      BY DEF PoolInv, TasksInv
    <2> QED
      BY <2>1 DEF Bijection, Injection, Surjection, IsInjective
  <1>3. ExistsBijection(held, holding)
    BY <1>2 DEF ExistsBijection
  <1> QED
    BY <1>1, <1>3, FS_Bijection

(* Whatever the number of connections, tasks and callers: a pending task is in one
   place, no task is lost or run twice, no caller is left waiting on a destroyed
   pool, and only a pool without connections aborts. *)
THEOREM TasksAlwaysAccounted == Spec => []TasksAccounted
  <1>1. PoolInv => TasksAccounted
    <2> SUFFICES ASSUME PoolInv PROVE TasksAccounted
      OBVIOUS
    <2> DEFINE held == {w \in Slots : task[w] # NoTask}
               holding == {task[w] : w \in held}
    <2>1. TypeOK /\ WorkersInv /\ TasksInv
      BY DEF PoolInv
    <2>2. /\ ToSet(queue) \subseteq Tasks
          /\ \A w \in Slots : task[w] \in Tasks \cup {NoTask}
          /\ \A w \in Slots : task[w] # NoTask => worker[w] \in {"reconnect", "execute"}
          /\ NoTask \notin Tasks
      BY <2>1, LenProperties, PoolSizeAssumption, SMTT(30) DEF TypeOK, ToSet
    <2>3. aborted => conns = {}
      BY <2>1 DEF WorkersInv
    <2>4. pool = "destroyed" => \A t \in Tasks : future[t] # "pending"
      <3> SUFFICES ASSUME pool = "destroyed", NEW t \in Tasks PROVE future[t] # "pending"
        OBVIOUS
      <3>1. ToSet(queue) = {}
        BY <2>1, SMTT(30) DEF TasksInv, ToSet
      <3>2. \A w \in Slots : task[w] = NoTask
        BY <2>1, <2>2 DEF WorkersInv
      <3> QED
        BY <2>1, <2>2, <3>1, <3>2 DEF TasksInv
    <2>5. {t \in Tasks : future[t] = "pending"} = ToSet(queue) \cup holding
      BY <2>1, <2>2, SMTT(30) DEF TasksInv
    <2>6. Cardinality(holding) = Cardinality(held)
      BY HoldersCounted
    <2>7. IsInjective(queue) /\ ToSet(queue) \cap holding = {}
      BY <2>1 DEF TasksInv
    <2> QED
      BY <2>1, <2>3, <2>4, <2>5, <2>6, <2>7 DEF TasksAccounted
  <1> QED
    BY <1>1, PoolInvariant, PTL

(* WorkerLoop's reconnection is dead code in a pool of any size. *)
THEOREM NeverReconnected == Spec => []ReconnectUnreachable
  <1>1. PoolInv => ReconnectUnreachable
    BY DEF PoolInv, WorkersInv, ReconnectUnreachable
  <1> QED
    BY <1>1, PoolInvariant, PTL

(* No promise is set a second time, by a worker, by Push on a stopped queue or by
   the destructor. *)
THEOREM PromiseSetOnce == Spec => AnsweredOnce
  <1> DEFINE Kept == \A t \in Tasks : future[t] \in Answers => future'[t] = future[t]
  <1>1. PoolInv /\ [Next]_vars => [Kept]_vars
    <2> SUFFICES ASSUME PoolInv, Next PROVE Kept
      OBVIOUS
    <2>1. /\ future \in [Tasks -> {"none", "pending"} \cup Answers]
          /\ task \in [Slots -> Tasks \cup {NoTask}]
          /\ \A w \in Slots : (task[w] # NoTask) <=> worker[w] \in {"reconnect", "execute"}
          /\ \A t \in Tasks : t \in ToSet(queue) \/ (\E w \in Slots : task[w] = t)
                                  => future[t] = "pending"
      BY DEF PoolInv, TypeOK, TasksInv
    <2>2. CASE UNCHANGED future
      BY <2>2
    <2>3. ASSUME NEW t \in Tasks, Submit(t) PROVE Kept
      BY <2>1, <2>3 DEF Submit, Answers
    <2>4. ASSUME NEW w \in Slots, Execute(w) PROVE Kept
      <3>1. future[task[w]] = "pending" /\ task[w] \in Tasks
        BY <2>1, <2>4 DEF Execute
      <3> QED
        BY <2>1, <2>4, <3>1 DEF Execute, Answers
    <2>5. CASE Destroy
      BY <2>1, <2>5 DEF Destroy, Answers
    <2>6. CASE Open \/ KeepAliveLoop \/ Shutdown \/ StopKeepAlive \/ ShutdownReturn \/ Finished
      BY <2>2, <2>6
         DEF Open, KeepAliveLoop, Shutdown, StopKeepAlive, ShutdownReturn, Finished, vars
    <2>7. ASSUME NEW w \in Slots, WhileTest(w) \/ Pop(w) \/ StopWorker(w) \/ LinkDown(w) PROVE Kept
      BY <2>2, <2>7 DEF WhileTest, Pop, StopWorker, LinkDown
    <2>8. ASSUME NEW opened \in SUBSET Slots, InitPool(opened) PROVE Kept
      BY <2>2, <2>8 DEF InitPool
    <2> QED
      BY <2>3, <2>4, <2>5, <2>6, <2>7, <2>8 DEF Next, Step, WorkerLoop
  <1> QED
    BY <1>1, PoolInvariant, PTL DEF Spec, AnsweredOnce
-----------------------------------------------------------------------------
CONSTANTS Clients, Users, NoClient   \* of the Redis pool
VARIABLES up, context, clients, freed, owner, user, client, built

Redis == INSTANCE RedisPool

(* What RedisPool assumes: its constructor makes as many clients as it is told to. *)
RedisSize == NoClient \notin Clients /\ IsFiniteSet(Clients)

(* OneHolder without counting: the three places without a user do not overlap, they
   hold exactly the clients no user has, and two users never have the same one.
   Clients remain to be made only while the constructor's caller holds the pool. *)
PlacesInv ==
    /\ IsInjective(clients)
    /\ built \cap ToSet(clients) = {}
    /\ built \cap freed = {}
    /\ ToSet(clients) \cap freed = {}
    /\ built \cup ToSet(clients) \cup freed = {c \in Clients : \A u \in Users : client[u] # c}
    /\ \A u, v \in Users : client[u] # NoClient /\ client[u] = client[v] => u = v
    /\ ~Redis!Alive => clients = <<>>
    /\ built # {} => owner
-----------------------------------------------------------------------------
(* Whether the pool is left standing or goes with its last reference, the clients
   in rest stay in it or are freed with it. *)
LEMMA PoolSettles ==
    ASSUME NEW rest \in Seq(Clients), IsInjective(rest), ToSet(rest) \cap freed = {},
           IF Redis!Alive' THEN Redis!Remains(rest) ELSE Redis!Destroyed(rest)
    PROVE  /\ clients' \in Seq(Clients)
           /\ IsInjective(clients')
           /\ ToSet(clients') \cap freed' = {}
           /\ ToSet(clients') \cup freed' = ToSet(rest) \cup freed
           /\ ~Redis!Alive' => clients' = <<>>
  <1>1. CASE Redis!Alive'
    BY <1>1 DEF Redis!Remains
  <1>2. CASE ~Redis!Alive'
    <2>1. clients' = <<>> /\ freed' = freed \cup ToSet(rest)
      BY <1>2 DEF Redis!Destroyed, Redis!ToSet, ToSet
    <2>2. ToSet(clients') = {} /\ IsInjective(clients') /\ clients' \in Seq(Clients)
      BY <2>1, EmptySeq, SMTT(30) DEF ToSet, IsInjective
    <2> QED
      BY <2>1, <2>2
  <1> QED
    BY <1>1, <1>2

(* The elements of a sequence of clients are clients. *)
LEMMA ElementsOf == ASSUME NEW S, NEW s \in Seq(S) PROVE ToSet(s) \subseteq S
  BY LenProperties, SMTT(30) DEF ToSet

(* GetClient takes the front client out of the pool, gives it to its caller, and
   leaves the rest where it is or frees it. *)
LEMMA Borrowed ==
    ASSUME Redis!TypeOK, PlacesInv, NEW u \in Users, Redis!GetClient(u)
    PROVE  /\ Head(clients) \in ToSet(clients) /\ Head(clients) \in Clients
           /\ clients' \in Seq(Clients)
           /\ IsInjective(clients')
           /\ ToSet(clients') \cap freed' = {}
           /\ ToSet(clients') \cup freed' = (ToSet(clients) \cup freed) \ {Head(clients)}
           /\ ~Redis!Alive' => clients' = <<>>
  <1>1. /\ clients # <<>> /\ clients \in Seq(Clients) /\ IsInjective(clients)
        /\ ToSet(clients) \cap freed = {}
        /\ IF Redis!Alive' THEN Redis!Remains(Tail(clients)) ELSE Redis!Destroyed(Tail(clients))
    BY DEF Redis!TypeOK, PlacesInv, Redis!GetClient, Redis!Popped
  <1>2. /\ Head(clients) \in Clients /\ Tail(clients) \in Seq(Clients)
        /\ IsInjective(Tail(clients))
        /\ Head(clients) \in ToSet(clients)
        /\ ToSet(Tail(clients)) = ToSet(clients) \ {Head(clients)}
    BY <1>1, TakeDistinct
  <1>3. ToSet(Tail(clients)) \cap freed = {}
    BY <1>1, <1>2
  <1>4. /\ clients' \in Seq(Clients) /\ IsInjective(clients')
        /\ ToSet(clients') \cap freed' = {}
        /\ ToSet(clients') \cup freed' = ToSet(Tail(clients)) \cup freed
        /\ ~Redis!Alive' => clients' = <<>>
    BY <1>1, <1>2, <1>3, PoolSettles
  <1> QED
    BY <1>1, <1>2, <1>4

(* Release puts the client of its caller back in the pool. *)
LEMMA GivenBack ==
    ASSUME Redis!TypeOK, PlacesInv, NEW u \in Users, Redis!Release(u)
    PROVE  /\ client[u] \in Clients
           /\ client[u] \notin built \cup ToSet(clients) \cup freed
           /\ clients' \in Seq(Clients)
           /\ IsInjective(clients')
           /\ ToSet(clients') = ToSet(clients) \cup {client[u]}
           /\ freed' = freed
  <1> DEFINE c == client[u]
  <1>1. /\ c \in Clients /\ clients \in Seq(Clients)
        /\ clients' = Append(clients, c) /\ freed' = freed
    BY DEF Redis!TypeOK, Redis!Release, Redis!Pushed, Redis!Remains
  <1>2. /\ c \notin built \cup ToSet(clients) \cup freed
        /\ c \notin ToSet(clients)
        /\ IsInjective(clients)
    BY <1>1 DEF PlacesInv
  <1> HIDE DEF c
  <1>3. /\ Append(clients, c) \in Seq(Clients)
        /\ IsInjective(Append(clients, c))
        /\ ToSet(Append(clients, c)) = ToSet(clients) \cup {c}
    BY <1>1, <1>2, PushAbsent
  <1> QED
    BY <1>1, <1>2, <1>3 DEF c
-----------------------------------------------------------------------------
(* Every step keeps the types. *)
LEMMA ClientTypeStep ==
    ASSUME RedisSize
    PROVE  Redis!TypeOK /\ PlacesInv /\ [Redis!Next]_(Redis!vars) => Redis!TypeOK'
  <1> SUFFICES ASSUME Redis!TypeOK, PlacesInv, [Redis!Next]_(Redis!vars) PROVE Redis!TypeOK'
    OBVIOUS
  <1>0. ToSet(clients) \subseteq Clients /\ NoClient \notin Clients
    BY ElementsOf DEF RedisSize, Redis!TypeOK
  <1>1. ASSUME NEW c \in Clients, Redis!Construct(c) PROVE Redis!TypeOK'
    <2>1. clients' \in Seq(Clients)
      BY <1>1, AppendProperties, SMTT(30) DEF Redis!Construct, Redis!TypeOK
    <2>2. context' \in [Clients -> {"null", "ok", "err"}]
      BY <1>1 DEF Redis!Construct, Redis!Connect, Redis!TypeOK
    <2> QED
      BY <1>1, <2>1, <2>2 DEF Redis!Construct, Redis!TypeOK
  <1>2. CASE Redis!Server
    <2>1. up' \in BOOLEAN
      BY <1>2 DEF Redis!Server, Redis!TypeOK
    <2> QED
      BY <1>2, <2>1 DEF Redis!Server, Redis!TypeOK
  <1>3. ASSUME NEW u \in Users, Redis!CallGetClient(u) PROVE Redis!TypeOK'
    BY <1>3 DEF Redis!CallGetClient, Redis!TypeOK
  <1>10. ASSUME NEW u \in Users, Redis!Wait(u) PROVE Redis!TypeOK'
    BY <1>10 DEF Redis!Wait, Redis!TypeOK
  <1>11. ASSUME NEW u \in Users, Redis!WakeSpuriously(u) PROVE Redis!TypeOK'
    BY <1>11 DEF Redis!WakeSpuriously, Redis!Asleep, Redis!TypeOK
  <1>4. ASSUME NEW u \in Users, Redis!GetClient(u) PROVE Redis!TypeOK'
    <2>1. clients' \in Seq(Clients) /\ freed' \subseteq Clients /\ Head(clients) \in Clients
      BY <1>0, <1>4, Borrowed DEF Redis!TypeOK
    <2>2. /\ client' = [client EXCEPT ![u] = Head(clients)]
          /\ user' = [user EXCEPT ![u] = "use"]
      BY <1>4 DEF Redis!GetClient
    <2>3. Head(clients) # NoClient
      BY <1>0, <2>1
    <2>4. \A v \in Users : (client'[v] # NoClient) <=> (user'[v] \in {"use", "return"})
      BY <2>2, <2>3 DEF Redis!TypeOK
    <2> QED
      BY <1>4, <2>1, <2>2, <2>4 DEF Redis!GetClient, Redis!TypeOK
  <1>5. ASSUME NEW u \in Users, Redis!Command(u) PROVE Redis!TypeOK'
    <2>1. context' \in [Clients -> {"null", "ok", "err"}]
      BY <1>5 DEF Redis!Command, Redis!Connect, Redis!TypeOK
    <2> QED
      BY <1>5, <2>1 DEF Redis!Command, Redis!TypeOK
  <1>6. ASSUME NEW u \in Users, Redis!Drop(u) PROVE Redis!TypeOK'
    <2>1. client[u] \in Clients
      BY <1>6 DEF Redis!Drop, Redis!TypeOK
    <2>2. CASE Redis!Alive
      BY <1>6, <2>2 DEF Redis!Drop, Redis!TypeOK
    <2>3. CASE ~Redis!Alive
      BY <1>6, <2>1, <2>3 DEF Redis!Drop, Redis!Forget, Redis!TypeOK
    <2> QED
      BY <2>2, <2>3
  <1>7. ASSUME NEW u \in Users, Redis!Release(u) PROVE Redis!TypeOK'
    <2>1. clients' \in Seq(Clients) /\ freed' \subseteq Clients
      BY <1>0, <1>7, GivenBack DEF Redis!TypeOK
    <2>2. context' \in [Clients -> {"null", "ok", "err"}]
      BY <1>7 DEF Redis!Release, Redis!Connect, Redis!TypeOK
    <2> QED
      BY <1>7, <2>1, <2>2 DEF Redis!Release, Redis!Forget, Redis!TypeOK
  <1>12. ASSUME NEW u \in Users, Redis!Notify(u) PROVE Redis!TypeOK'
    <2>1. clients' \in Seq(Clients) /\ freed' \subseteq Clients
      BY <1>0, <1>12, PoolSettles, SMTT(30) DEF Redis!Notify, Redis!TypeOK, PlacesInv
    <2>2. CASE user' = [user EXCEPT ![u] = "idle"]
      BY <1>12, <2>1, <2>2 DEF Redis!Notify, Redis!TypeOK
    <2>3. ASSUME NEW v \in Redis!Asleep, user' = [user EXCEPT ![u] = "idle", ![v] = "test"]
          PROVE  Redis!TypeOK'
      <3>1. v \in Users /\ user[v] = "asleep" /\ user[u] = "notify"
        BY <1>12, <2>3 DEF Redis!Asleep, Redis!Notify
      <3>2. user' \in [Users -> {"idle", "test", "asleep", "use", "return", "notify"}]
        BY <2>3 DEF Redis!TypeOK
      <3>3. \A w \in Users : (client'[w] # NoClient) <=> (user'[w] \in {"use", "return"})
        BY <1>12, <2>3, <3>1 DEF Redis!Notify, Redis!TypeOK
      <3> QED
        BY <1>12, <2>1, <3>2, <3>3 DEF Redis!Notify, Redis!TypeOK
    <2> QED
      BY <1>12, <2>2, <2>3 DEF Redis!Notify, Redis!NotifyOne
  <1>8. CASE Redis!Close
    <2>1. clients' \in Seq(Clients) /\ freed' \subseteq Clients
      BY <1>0, <1>8, PoolSettles, SMTT(30) DEF Redis!Close, Redis!TypeOK, PlacesInv
    <2>2. owner' \in BOOLEAN
      BY <1>8 DEF Redis!Close
    <2> QED
      BY <1>8, <2>1, <2>2 DEF Redis!Close, Redis!TypeOK
  <1>9. CASE UNCHANGED Redis!vars
    BY <1>9 DEF Redis!vars, Redis!TypeOK
  <1> QED
    BY <1>1, <1>2, <1>3, <1>4, <1>5, <1>6, <1>7, <1>8, <1>9, <1>10, <1>11, <1>12 DEF Redis!Next

(* Every step keeps every client in one place. *)
LEMMA PlacesStep ==
    ASSUME RedisSize
    PROVE  Redis!TypeOK /\ PlacesInv /\ [Redis!Next]_(Redis!vars) => PlacesInv'
  <1> SUFFICES ASSUME Redis!TypeOK, PlacesInv, [Redis!Next]_(Redis!vars) PROVE PlacesInv'
    OBVIOUS
  <1>0. /\ client \in [Users -> Clients \cup {NoClient}]
        /\ NoClient \notin Clients
        /\ clients \in Seq(Clients)
        /\ \A u \in Users : (client[u] # NoClient) <=> (user[u] \in {"use", "return"})
    BY DEF RedisSize, Redis!TypeOK
  <1>1. ASSUME NEW c \in Clients, Redis!Construct(c) PROVE PlacesInv'
    <2>1. /\ c \in built /\ owner /\ owner'
          /\ built' = built \ {c}
          /\ client' = client
          /\ c \notin ToSet(clients) /\ c \notin freed
      BY <1>1 DEF Redis!Construct, PlacesInv
    <2>2. Redis!Alive'
      BY <2>1 DEF Redis!Alive
    <2>3. CASE up
      <3>1. clients' = Append(clients, c) /\ freed' = freed
        BY <1>1, <2>3 DEF Redis!Construct
      <3>2. IsInjective(clients') /\ ToSet(clients') = ToSet(clients) \cup {c}
        BY <1>0, <2>1, <3>1, PushAbsent, SMTT(30) DEF PlacesInv
      <3> QED
        BY <2>1, <2>2, <3>1, <3>2, SMTT(30) DEF PlacesInv
    <2>4. CASE ~up
      <3>1. freed' = freed \cup {c} /\ clients' = clients
        BY <1>1, <2>4 DEF Redis!Construct
      <3> QED
        BY <2>1, <2>2, <3>1, SMTT(30) DEF PlacesInv
    <2> QED
      BY <2>3, <2>4
  <1>2. CASE UNCHANGED <<clients, freed, built, client, owner>> /\ (Redis!Alive => Redis!Alive')
    BY <1>2 DEF PlacesInv
  <1>3. ASSUME NEW u \in Users, Redis!CallGetClient(u) PROVE PlacesInv'
    <2>1. Redis!Alive'
      BY <1>3 DEF Redis!CallGetClient, Redis!Alive
    <2> QED
      BY <1>2, <1>3, <2>1 DEF Redis!CallGetClient
  <1>9. ASSUME NEW u \in Users, Redis!Wait(u) \/ Redis!WakeSpuriously(u) PROVE PlacesInv'
    <2>1. Redis!Alive'
      BY <1>9 DEF Redis!Wait, Redis!WakeSpuriously, Redis!Asleep, Redis!Alive, Redis!TypeOK
    <2> QED
      BY <1>2, <1>9, <2>1 DEF Redis!Wait, Redis!WakeSpuriously
  <1>4. ASSUME NEW u \in Users, Redis!GetClient(u) PROVE PlacesInv'
    <2> DEFINE c == Head(clients)
    <2>1. /\ client' = [client EXCEPT ![u] = c]
          /\ built' = built /\ owner' = owner
          /\ client[u] = NoClient
      BY <1>0, <1>4 DEF Redis!GetClient
    <2>2. /\ c \in ToSet(clients) /\ c \in Clients
          /\ IsInjective(clients')
          /\ ToSet(clients') \cap freed' = {}
          /\ ToSet(clients') \cup freed' = (ToSet(clients) \cup freed) \ {c}
          /\ ~Redis!Alive' => clients' = <<>>
      BY <1>4, Borrowed
    <2> HIDE DEF c
    <2>3. \A v \in Users : client[v] # c
      BY <2>2 DEF PlacesInv
    <2>4. {d \in Clients : \A v \in Users : client'[v] # d}
            = {d \in Clients : \A v \in Users : client[v] # d} \ {c}
      BY <1>0, <2>1, <2>2
    <2>5. \A v, w \in Users : client'[v] # NoClient /\ client'[v] = client'[w] => v = w
      BY <1>0, <2>1, <2>3 DEF PlacesInv
    <2>6. c \notin built
      BY <2>2 DEF PlacesInv
    <2>7. built' \cup ToSet(clients') \cup freed'
            = {d \in Clients : \A v \in Users : client'[v] # d}
      BY <2>1, <2>2, <2>4, <2>6, SMTT(30) DEF PlacesInv
    <2> QED
      BY <2>1, <2>2, <2>5, <2>7 DEF PlacesInv
  <1>5. ASSUME NEW u \in Users, Redis!Drop(u) PROVE PlacesInv'
    <2>1. CASE Redis!Alive
      <3>1. Redis!Alive'
        BY <1>5, <2>1 DEF Redis!Drop, Redis!TypeOK, Redis!Alive
      <3> QED
        BY <1>2, <1>5, <2>1, <3>1 DEF Redis!Drop
    <2>2. CASE ~Redis!Alive
      <3>1. /\ freed' = freed \cup {client[u]}
            /\ client' = [client EXCEPT ![u] = NoClient]
            /\ clients' = clients /\ built' = built /\ owner' = owner
            /\ client[u] \in Clients
        BY <1>0, <1>5, <2>2 DEF Redis!Drop, Redis!Forget
      <3>2. clients = <<>> /\ ToSet(clients) = {}
        BY <2>2, SMTT(30) DEF PlacesInv, ToSet
      <3>3. {d \in Clients : \A v \in Users : client'[v] # d}
              = {d \in Clients : \A v \in Users : client[v] # d} \cup {client[u]}
        BY <1>0, <3>1, SMTT(30) DEF PlacesInv
      <3>4. \A v, w \in Users : client'[v] # NoClient /\ client'[v] = client'[w] => v = w
        BY <1>0, <3>1 DEF PlacesInv
      <3>5. client[u] \notin built
        BY <3>1 DEF PlacesInv
      <3>6. IsInjective(clients')
        BY <3>1 DEF PlacesInv
      <3> QED
        BY <3>1, <3>2, <3>3, <3>4, <3>5, <3>6 DEF PlacesInv
    <2> QED
      BY <2>1, <2>2
  <1>6. ASSUME NEW u \in Users, Redis!Release(u) PROVE PlacesInv'
    <2> DEFINE c == client[u]
    <2>1. /\ client' = [client EXCEPT ![u] = NoClient]
          /\ built' = built /\ owner' = owner
      BY <1>6 DEF Redis!Release, Redis!Forget
    <2>2. /\ c \in Clients
          /\ c \notin built \cup ToSet(clients) \cup freed
          /\ IsInjective(clients')
          /\ ToSet(clients') = ToSet(clients) \cup {c}
          /\ freed' = freed
      BY <1>6, GivenBack
    <2>3. {d \in Clients : \A v \in Users : client'[v] # d}
            = {d \in Clients : \A v \in Users : client[v] # d} \cup {c}
      BY <1>0, <2>1, <2>2, SMTT(30) DEF PlacesInv
    <2>4. \A v, w \in Users : client'[v] # NoClient /\ client'[v] = client'[w] => v = w
      BY <1>0, <2>1 DEF PlacesInv
    <2>5. Redis!Alive'
      BY <1>6 DEF Redis!TypeOK, Redis!Release, Redis!Alive
    <2> HIDE DEF c
    <2>6. built' \cup ToSet(clients') \cup freed'
            = {d \in Clients : \A v \in Users : client'[v] # d}
      BY <2>1, <2>2, <2>3 DEF PlacesInv
    <2>7. /\ built' \cap ToSet(clients') = {} /\ built' \cap freed' = {}
          /\ ToSet(clients') \cap freed' = {}
      BY <2>1, <2>2 DEF PlacesInv
    <2> QED
      BY <2>1, <2>2, <2>4, <2>5, <2>6, <2>7 DEF PlacesInv
  <1>10. ASSUME NEW u \in Users, Redis!Notify(u) PROVE PlacesInv'
    <2>1. /\ IsInjective(clients')
          /\ ToSet(clients') \cap freed' = {}
          /\ ToSet(clients') \cup freed' = ToSet(clients) \cup freed
          /\ ~Redis!Alive' => clients' = <<>>
      BY <1>0, <1>10, PoolSettles DEF Redis!Notify, PlacesInv
    <2>2. built' = built /\ client' = client /\ owner' = owner
      BY <1>10 DEF Redis!Notify
    <2> QED
      BY <2>1, <2>2 DEF PlacesInv
  <1>7. CASE Redis!Close
    <2>1. /\ IsInjective(clients')
          /\ ToSet(clients') \cap freed' = {}
          /\ ToSet(clients') \cup freed' = ToSet(clients) \cup freed
          /\ ~Redis!Alive' => clients' = <<>>
      BY <1>0, <1>7, PoolSettles DEF Redis!Close, PlacesInv
    <2>2. built = {} /\ built' = built /\ client' = client
      BY <1>7 DEF Redis!Close
    <2> QED
      BY <2>1, <2>2 DEF PlacesInv
  <1>8. CASE Redis!Server \/ (\E u \in Users : Redis!Command(u)) \/ UNCHANGED Redis!vars
    BY <1>2, <1>8, SMTT(30) DEF Redis!Server, Redis!Command, Redis!vars, Redis!Alive
  <1> QED
    BY <1>1, <1>3, <1>4, <1>5, <1>6, <1>7, <1>8, <1>9, <1>10 DEF Redis!Next
-----------------------------------------------------------------------------
(* The inductive invariant holds in every state of the pool. *)
THEOREM PlacesInvariant ==
    ASSUME RedisSize
    PROVE  Redis!Spec => [](Redis!TypeOK /\ PlacesInv)
  <1>1. Redis!Init => Redis!TypeOK /\ PlacesInv
    <2> SUFFICES ASSUME Redis!Init PROVE Redis!TypeOK /\ PlacesInv
      OBVIOUS
    <2>1. up \in BOOLEAN /\ owner \in BOOLEAN /\ owner
      BY DEF Redis!Init
    <2>2. Redis!TypeOK
      BY <2>1, EmptySeq DEF Redis!Init, Redis!TypeOK
    <2>3. ToSet(clients) = {} /\ IsInjective(clients)
      BY SMTT(30) DEF Redis!Init, ToSet, IsInjective
    <2>4. PlacesInv
      BY <2>1, <2>3 DEF RedisSize, Redis!Init, PlacesInv
    <2> QED
      BY <2>2, <2>4
  <1> QED
    BY <1>1, ClientTypeStep, PlacesStep, PTL DEF Redis!Spec

(* A list without repetitions is as long as it has elements. *)
LEMMA CountDistinct ==
    ASSUME NEW S, NEW s \in Seq(S), IsInjective(s)
    PROVE  IsFiniteSet(ToSet(s)) /\ Cardinality(ToSet(s)) = Len(s)
  <1>1. Len(s) \in Nat /\ s \in [1..Len(s) -> S] /\ DOMAIN s = 1..Len(s)
    BY LenProperties
  <1>2. IsFiniteSet(1..Len(s)) /\ Cardinality(1..Len(s)) = Len(s)
    BY <1>1, FS_Interval, SMTT(30)
  <1>3. s \in Bijection(1..Len(s), ToSet(s))
    BY <1>1 DEF Bijection, Injection, Surjection, ToSet
  <1>4. ExistsBijection(1..Len(s), ToSet(s))
    BY <1>3 DEF ExistsBijection
  <1> QED
    BY <1>2, <1>4, FS_Bijection

(* Two disjoint finite sets together. *)
LEMMA CountDisjoint ==
    ASSUME NEW S, NEW T, IsFiniteSet(S), IsFiniteSet(T), S \cap T = {}
    PROVE  /\ IsFiniteSet(S \cup T)
           /\ Cardinality(S) \in Nat /\ Cardinality(T) \in Nat
           /\ Cardinality(S \cup T) = Cardinality(S) + Cardinality(T)
  <1>1. Cardinality(S) \in Nat /\ Cardinality(T) \in Nat
    BY FS_CardinalityType
  <1>2. Cardinality(S \cap T) = 0
    BY FS_EmptySet
  <1>3. /\ IsFiniteSet(S \cup T)
        /\ Cardinality(S \cup T) = Cardinality(S) + Cardinality(T) - Cardinality(S \cap T)
    BY FS_Union
  <1> QED
    BY <1>1, <1>2, <1>3, SMTT(30)

(* RedisPool counts as this module does. *)
LEMMA SameCount == \A S : Redis!Cardinality(S) = Cardinality(S)
  BY DEF Redis!Cardinality, Cardinality

(* No client of a pool of any size is shared, lost or freed twice, whichever thread
   drops the pool's last reference and wherever the others are. *)
THEOREM ClientsHeldOnce ==
    ASSUME RedisSize
    PROVE  Redis!Spec => []Redis!OneHolder
  <1>1. Redis!TypeOK /\ PlacesInv => Redis!OneHolder
    <2> SUFFICES ASSUME Redis!TypeOK, PlacesInv PROVE Redis!OneHolder
      OBVIOUS
    <2> DEFINE users == {u \in Users : client[u] # NoClient}
               held == {client[u] : u \in users}
               f == [u \in users |-> client[u]]
               listed == ToSet(clients)
    <2>1. /\ clients \in Seq(Clients) /\ built \subseteq Clients /\ freed \subseteq Clients
          /\ listed \subseteq Clients
          /\ held \subseteq Clients
      BY ElementsOf, SMTT(30) DEF Redis!TypeOK
    <2>2. IsFiniteSet(built) /\ IsFiniteSet(freed) /\ IsFiniteSet(held)
      BY <2>1, FS_Subset DEF RedisSize
    <2>3. f \in Bijection(users, held)
      <3>1. \A u, v \in users : client[u] = client[v] => u = v
        BY DEF PlacesInv
      <3> QED
        BY <3>1 DEF Bijection, Injection, Surjection, IsInjective
    <2>4. Cardinality(held) = Cardinality(users)
      <3>1. f \in Injection(users, held) /\ f \in Surjection(users, held)
        BY <2>3 DEF Bijection
      <3> HIDE DEF f, users, held
      <3> QED
        BY <2>2, <3>1, FS_Injection
    <2>5. /\ built \cap listed = {} /\ built \cap freed = {} /\ listed \cap freed = {}
          /\ held \cap (built \cup listed \cup freed) = {}
          /\ IsInjective(clients)
          /\ ~Redis!Alive => clients = <<>>
      BY DEF PlacesInv
    <2>6. built \cup listed \cup held \cup freed = Clients
      <3>1. ASSUME NEW c \in Clients, c \notin built \cup listed \cup freed PROVE c \in held
        <4>1. PICK u \in Users : client[u] = c
          BY <3>1 DEF PlacesInv
        <4> QED
          BY <4>1 DEF RedisSize
      <3> QED
        BY <2>1, <3>1
    <2>7. IsFiniteSet(listed) /\ Cardinality(listed) = Len(clients)
      BY <2>1, <2>5, CountDistinct
    <2> HIDE DEF users, held, f, listed
    <2>8. Cardinality(built) + Len(clients) + Cardinality(held) + Cardinality(freed)
              = Cardinality(Clients)
      <3>1. /\ IsFiniteSet(built \cup listed)
            /\ Cardinality(built) \in Nat /\ Cardinality(listed) \in Nat
            /\ Cardinality(built \cup listed) = Cardinality(built) + Cardinality(listed)
        BY <2>2, <2>5, <2>7, CountDisjoint
      <3>2. (built \cup listed) \cap held = {}
        BY <2>5
      <3>3. /\ IsFiniteSet(built \cup listed \cup held)
            /\ Cardinality(held) \in Nat
            /\ Cardinality(built \cup listed \cup held)
                  = Cardinality(built \cup listed) + Cardinality(held)
        BY <2>2, <3>1, <3>2, CountDisjoint
      <3>4. (built \cup listed \cup held) \cap freed = {}
        BY <2>5
      <3>5. /\ Cardinality(freed) \in Nat
            /\ Cardinality(built \cup listed \cup held \cup freed)
                  = Cardinality(built \cup listed \cup held) + Cardinality(freed)
        BY <2>2, <3>3, <3>4, CountDisjoint
      <3> QED
        BY <2>6, <2>7, <3>1, <3>3, <3>5
    <2> QED
      BY <2>4, <2>5, <2>6, <2>8, SameCount
         DEF Redis!OneHolder, users, held, listed, Redis!ToSet, ToSet, Redis!IsInjective, IsInjective
  <1> QED
    BY <1>1, PlacesInvariant, PTL
=============================================================================
