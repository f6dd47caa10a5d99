------------------------ MODULE EventLoopThreadPool -------------------------
(***************************************************************************)
(* The life of the io threads of a TcpServer: EventLoopThreadPool::start,  *)
(* getNextLoop and the destruction of its EventLoopThreads, and            *)
(* TcpServer::stop, all on the owner's thread, against the N threads that  *)
(* run EventLoopThread::threadFunc.  Each EventLoop lives on the stack of  *)
(* its thread: the owner's use of one that is gone, or of a loop_ that has *)
(* become null, is undefined and ends the process or goes unnoticed.  The  *)
(* condition-variable wait is its predicate: notify_one comes with the     *)
(* store of loop_.                                                         *)
(***************************************************************************)
EXTENDS Naturals

CONSTANTS
    N,              \* numThreads_
    MaxConns        \* bound on the connections handed out

ASSUME PoolAssumption == N \in Nat \ {0} /\ MaxConns \in Nat

Workers == 1..N

VARIABLES
    owner,      \* where the owner's thread is
    i,          \* the EventLoopThread it is working on
    thread,     \* where each threadFunc is
    loopPtr,    \* loop_ is not null
    alive,      \* the EventLoop on the thread's stack exists
    quit,       \* its quit_
    wakeupFd,   \* its eventfd is readable
    next,       \* next_, counted from 1
    assigned,   \* history: connections handed to each loop
    dangling    \* history: an object that was gone has been used

loops == <<loopPtr, alive, quit, wakeupFd>>
vars  == <<owner, i, thread, loopPtr, alive, quit, wakeupFd, next, assigned, dangling>>

OwnerAt == {"start", "wait", "running", "stop.quit", "stop.quitWakeup", "stop.wakeup", "stop.next",
            "stopped", "dtor", "dtor.quit", "dtor.quitWakeup", "dtor.join",
            "dtor.members", "gone", "crashed"}
ThreadAt == {"none", "construct", "publish", "begin", "test", "poll", "clear", "unlock",
             "unwind", "finished"}

TypeOK ==
    /\ owner \in OwnerAt
    /\ i \in Workers
    /\ thread \in [Workers -> ThreadAt]
    /\ loopPtr \in [Workers -> BOOLEAN]
    /\ alive \in [Workers -> BOOLEAN]
    /\ quit \in [Workers -> BOOLEAN]
    /\ wakeupFd \in [Workers -> BOOLEAN]
    /\ next \in Workers
    /\ assigned \in [Workers -> Nat]
    /\ dangling \in BOOLEAN

Init ==
    /\ owner = "start"
    /\ i = 1
    /\ thread = [w \in Workers |-> "none"]
    /\ loopPtr = [w \in Workers |-> FALSE]
    /\ alive = [w \in Workers |-> FALSE]
    /\ quit = [w \in Workers |-> FALSE]
    /\ wakeupFd = [w \in Workers |-> FALSE]
    /\ next = 1
    /\ assigned = [w \in Workers |-> 0]
    /\ dangling = FALSE
-----------------------------------------------------------------------------
(* threadFunc of worker w. *)

Goes(w, from, to) ==
    /\ thread[w] = from /\ owner # "crashed"
    /\ thread' = [thread EXCEPT ![w] = to]

Construct(w) ==
    /\ Goes(w, "construct", "publish")
    /\ alive' = [alive EXCEPT ![w] = TRUE]
    /\ UNCHANGED <<owner, i, loopPtr, quit, wakeupFd, next, assigned, dangling>>

Publish(w) ==
    /\ Goes(w, "publish", "begin")
    /\ loopPtr' = [loopPtr EXCEPT ![w] = TRUE]
    /\ UNCHANGED <<owner, i, alive, quit, wakeupFd, next, assigned, dangling>>

(* loop.loop() up to its while test, its poll, and its return. *)
Begin(w) ==
    /\ Goes(w, "begin", "test")
    /\ quit' = [quit EXCEPT ![w] = FALSE]
    /\ wakeupFd' = [wakeupFd EXCEPT ![w] = TRUE]
    /\ UNCHANGED <<owner, i, loopPtr, alive, next, assigned, dangling>>

Test(w) ==
    /\ Goes(w, "test", IF quit[w] THEN "clear" ELSE "poll")
    /\ UNCHANGED <<owner, i, loops, next, assigned, dangling>>

Poll(w) ==
    /\ Goes(w, "poll", "test")
    /\ wakeupFd' = [wakeupFd EXCEPT ![w] = FALSE]
    /\ UNCHANGED <<owner, i, loopPtr, alive, quit, next, assigned, dangling>>

Clear(w) ==
    /\ Goes(w, "clear", "unlock")
    /\ loopPtr' = [loopPtr EXCEPT ![w] = FALSE]
    /\ UNCHANGED <<owner, i, alive, quit, wakeupFd, next, assigned, dangling>>

Unlock(w) ==
    /\ Goes(w, "unlock", "unwind")
    /\ UNCHANGED <<owner, i, loops, next, assigned, dangling>>

Unwind(w) ==
    /\ Goes(w, "unwind", "finished")
    /\ alive' = [alive EXCEPT ![w] = FALSE]
    /\ UNCHANGED <<owner, i, loopPtr, quit, wakeupFd, next, assigned, dangling>>

(* What the thread does by itself, and what it does only when woken. *)
ThreadRuns(w) ==
    \/ Construct(w) \/ Publish(w) \/ Begin(w) \/ Test(w)
    \/ wakeupFd[w] /\ Poll(w)
    \/ Clear(w) \/ Unlock(w) \/ Unwind(w)
-----------------------------------------------------------------------------
(* The owner. *)

Moves(from, to) == owner = from /\ owner' = to

(* On to the next EventLoopThread, or past the last one. *)
Advance(from, again, done) ==
    /\ Moves(from, IF i < N THEN again ELSE done)
    /\ i' = IF i < N THEN i + 1 ELSE 1

StartLoop ==
    /\ Moves("start", "wait")
    /\ thread' = [thread EXCEPT ![i] = "construct"]
    /\ UNCHANGED <<i, loops, next, assigned, dangling>>

StartLoopReturn_NoWait ==
    /\ Advance("wait", "start", "running")
    /\ UNCHANGED <<thread, loops, next, assigned, dangling>>

StartLoopReturn ==
    /\ loopPtr[i]
    /\ Advance("wait", "start", "running")
    /\ UNCHANGED <<thread, loops, next, assigned, dangling>>

NextLoop_Stuck == next

NextLoop == IF next + 1 > N THEN 1 ELSE next + 1

(* TcpServer::newConnection picks a loop in rotation. *)
GetNextLoop ==
    /\ owner = "running"
    /\ \E w \in Workers : assigned[w] < MaxConns
    /\ assigned' = [assigned EXCEPT ![next] = @ + 1]
    /\ next' = NextLoop
    /\ UNCHANGED <<owner, i, thread, loops, dangling>>

(* The owner goes on, or the process ends, after a use of a loop that is gone; the
   destructor may also find null when it loads loop_ again to call quit(). *)
Gone == ~alive[i] \/ (owner = "dtor.quit" /\ ~loopPtr[i])

UsesGone(from, to) ==
    /\ Gone
    /\ Moves(from, to) \/ Moves(from, "crashed")
    /\ dangling' = TRUE

(* EventLoop::quit on loop i: the store, then its wakeup(), by which time the loop
   may have seen the store, returned and been destroyed. *)
QuitStore(from, to) ==
    /\ \/ alive[i] /\ Moves(from, to) /\ quit' = [quit EXCEPT ![i] = TRUE] /\ UNCHANGED dangling
       \/ UsesGone(from, to) /\ UNCHANGED quit
    /\ UNCHANGED <<i, thread, loopPtr, alive, wakeupFd, next, assigned>>

QuitWakeup_Missing(from, to) ==
    /\ Moves(from, to)
    /\ UNCHANGED <<i, thread, loops, next, assigned, dangling>>

QuitWakeup(from, to) ==
    /\ \/ alive[i] /\ Moves(from, to) /\ wakeupFd' = [wakeupFd EXCEPT ![i] = TRUE] /\ UNCHANGED dangling
       \/ UsesGone(from, to) /\ UNCHANGED wakeupFd
    /\ UNCHANGED <<i, thread, loopPtr, alive, quit, next, assigned>>

Stop ==
    /\ Moves("running", "stop.quit")
    /\ UNCHANGED <<i, thread, loops, next, assigned, dangling>>

StopWakeup == QuitWakeup("stop.wakeup", "stop.next")

StopNext ==
    /\ Advance("stop.next", "stop.quit", "stopped")
    /\ UNCHANGED <<thread, loops, next, assigned, dangling>>

(* With or without a stop() before it. *)
Destroy ==
    /\ Moves("running", "dtor") \/ Moves("stopped", "dtor")
    /\ UNCHANGED <<i, thread, loops, next, assigned, dangling>>

(* ~EventLoopThread looks at loop_ without the mutex. *)
DtorRead ==
    /\ Moves("dtor", IF loopPtr[i] THEN "dtor.quit" ELSE "dtor.members")
    /\ UNCHANGED <<i, thread, loops, next, assigned, dangling>>

DtorJoin_NoJoin ==
    /\ Moves("dtor.join", "dtor.members")
    /\ UNCHANGED <<i, thread, loops, next, assigned, dangling>>

DtorJoin ==
    /\ thread[i] = "finished"
    /\ Moves("dtor.join", "dtor.members")
    /\ UNCHANGED <<i, thread, loops, next, assigned, dangling>>

(* mutex_, cond_ and thread_ (detached if it was not joined) go; a thread that was not
   joined may still have to unlock mutex_. *)
DtorMembers ==
    /\ Advance("dtor.members", "dtor", "gone")
    /\ dangling' = (dangling \/ thread[i] = "unlock")
    /\ UNCHANGED <<thread, loops, next, assigned>>

OwnerRuns ==
    \/ StartLoop
    \/ StartLoopReturn
    \/ QuitStore("stop.quit", "stop.quitWakeup")
    \/ QuitWakeup("stop.quitWakeup", "stop.wakeup")
    \/ StopWakeup
    \/ StopNext
    \/ DtorRead
    \/ QuitStore("dtor.quit", "dtor.quitWakeup")
    \/ QuitWakeup("dtor.quitWakeup", "dtor.join")
    \/ DtorJoin
    \/ DtorMembers

Finished == owner \in {"gone", "crashed"} /\ UNCHANGED vars

Next ==
    \/ OwnerRuns \/ Stop \/ Destroy \/ GetNextLoop \/ Finished
    \/ \E w \in Workers : ThreadRuns(w) \/ Poll(w)

(* The threads and the owner are scheduled; a sleeping loop is only sure to
   wake when its eventfd is readable. *)
Fairness == WF_vars(OwnerRuns) /\ \A w \in Workers : WF_vars(ThreadRuns(w))

Spec == Init /\ [][Next]_vars /\ Fairness
-----------------------------------------------------------------------------
(* The types, and: every pointer in loops_ can be used while the server runs: startLoop does
   not return before the thread has published a constructed loop, and no thread
   leaves before it is told to. *)
LoopsUsable ==
    /\ TypeOK
    /\ owner = "running" => \A w \in Workers : loopPtr[w] /\ alive[w]

(* ~EventLoopThread leaves no thread behind in its loop: it goes on to its members
   after the join, or, when stop() has made loop_ null, while the thread is past
   loop() (and may still be unlocking the mutex_ that is about to go). *)
NoLoopLeftRunning ==
    owner = "dtor.members" => thread[i] \in {"unlock", "unwind", "finished"}

(* Round robin: no loop is ever two connections ahead of another, the wrap of
   next_ included. *)
Balanced == \A v, w \in Workers : assigned[v] <= assigned[w] + 1

(* Destroying the pool terminates once every thread has entered loop(): each quit
   reaches its loop, asleep or not, and each join returns, unless something that was
   gone has been used, which is undefined: after stop() the loop of the quit() at
   EventLoopThread.cpp:11 may be gone or loop_ null by then, and without stop() still
   the wakeup() in that quit() may find its loop gone.  A quit that comes before loop()
   is lost (EventLoop.cpp:63) and the join then waits for ever. *)
DestructorReturns ==
    (owner = "dtor" /\ \A w \in Workers : thread[w] # "begin") ~> (owner = "gone" \/ dangling)
=============================================================================
