--------------------- MODULE EventLoopThreadPoolProofs ----------------------
(***************************************************************************)
(* Proofs about EventLoopThreadPool for any number of io threads and any   *)
(* number of connections.                                                  *)
(***************************************************************************)
EXTENDS EventLoopThreadPool, TLAPS

InLoop == {"begin", "test", "poll", "clear"}
Past   == {"unlock", "unwind", "finished"}

(* What a thread's place says of its loop: threadFunc publishes a constructed loop and
   clears the pointer before the loop goes. *)
PlaceInv ==
    \A w \in Workers :
        /\ loopPtr[w] <=> thread[w] \in InLoop
        /\ alive[w] <=> thread[w] \in InLoop \cup {"publish", "unlock", "unwind"}
        /\ thread[w] \in Past \cup {"clear"} => quit[w]

(* How far the owner is: when start() is at i the threads before i have published their
   loops and those after it do not exist, every thread has reached its loop when it
   returns, and nobody is told to quit before that. *)
OwnerInv ==
    /\ owner \in {"start", "wait", "running"} => \A w \in Workers : ~quit[w]
    /\ owner \in {"start", "wait"} =>
          \A w \in Workers : (w < i => loopPtr[w]) /\ (w > i => thread[w] = "none")
    /\ owner = "start" => thread[i] = "none"
    /\ owner \notin {"start", "wait"} => \A w \in Workers : thread[w] \in InLoop \cup Past
    /\ owner = "dtor.members" => thread[i] \in Past

(* The rotation: the loops before next_ have one connection more than the others. *)
RoundInv ==
    \A w \in Workers : assigned[w] = assigned[N] + (IF w < next THEN 1 ELSE 0)

PoolInv == TypeOK /\ PlaceInv /\ OwnerInv /\ RoundInv
-----------------------------------------------------------------------------
(* Zenon proves each leaf that names no other prover. *)
USE ZenonT(30)

(* Each step of a thread and of the owner keeps the types: i and next_ stay indices
   of loops. *)
LEMMA TypeStep == TypeOK /\ [Next]_vars => TypeOK'
  <1> SUFFICES ASSUME TypeOK, [Next]_vars PROVE TypeOK'
    OBVIOUS
  <1> USE DEF TypeOK, Goes, Moves, loops
  <1>0. N \in Nat \ {0} /\ Workers = 1..N
    BY PoolAssumption DEF Workers
  <1>1. ASSUME NEW w \in Workers, Construct(w) PROVE TypeOK'
    BY <1>1 DEF Construct, ThreadAt
  <1>2. ASSUME NEW w \in Workers, Publish(w) PROVE TypeOK'
    BY <1>2 DEF Publish, ThreadAt
  <1>3. ASSUME NEW w \in Workers, Begin(w) PROVE TypeOK'
    BY <1>3 DEF Begin, ThreadAt
  <1>4. ASSUME NEW w \in Workers, Test(w) PROVE TypeOK'
    BY <1>4 DEF Test, ThreadAt
  <1>5. ASSUME NEW w \in Workers, Poll(w) PROVE TypeOK'
    BY <1>5 DEF Poll, ThreadAt
  <1>6. ASSUME NEW w \in Workers, Clear(w) PROVE TypeOK'
    BY <1>6 DEF Clear, ThreadAt
  <1>7. ASSUME NEW w \in Workers, Unlock(w) PROVE TypeOK'
    BY <1>7 DEF Unlock, ThreadAt
  <1>8. ASSUME NEW w \in Workers, Unwind(w) PROVE TypeOK'
    BY <1>8 DEF Unwind, ThreadAt
  <1>9. ASSUME NEW from \in OwnerAt, NEW again \in OwnerAt, NEW done \in OwnerAt,
               Advance(from, again, done)
        PROVE  owner' \in OwnerAt /\ i' \in Workers
    BY <1>0, <1>9, SMTT(30) DEF Advance
  <1>10. CASE StartLoop
    BY <1>10 DEF StartLoop, OwnerAt, ThreadAt
  <1>11. CASE StartLoopReturn
    <2>1. owner' \in OwnerAt /\ i' \in Workers
      BY <1>9, <1>11 DEF StartLoopReturn, OwnerAt
    <2> QED
      BY <1>11, <2>1 DEF StartLoopReturn
  <1>12. CASE GetNextLoop
    <2>1. next' \in Workers
      BY <1>0, <1>12, SMTT(30) DEF GetNextLoop, NextLoop
    <2>2. assigned' \in [Workers -> Nat]
      BY <1>12, SMTT(30) DEF GetNextLoop
    <2> QED
      BY <1>12, <2>1, <2>2 DEF GetNextLoop
  <1>13. ASSUME NEW from, NEW to \in OwnerAt, QuitStore(from, to) PROVE TypeOK'
    <2>1. quit' \in [Workers -> BOOLEAN]
      BY <1>13 DEF QuitStore
    <2>2. owner' \in OwnerAt /\ dangling' \in BOOLEAN
      BY <1>13 DEF QuitStore, UsesGone, OwnerAt
    <2> QED
      BY <1>13, <2>1, <2>2 DEF QuitStore
  <1>14. ASSUME NEW from, NEW to \in OwnerAt, QuitWakeup(from, to) PROVE TypeOK'
    <2>1. wakeupFd' \in [Workers -> BOOLEAN]
      BY <1>14 DEF QuitWakeup
    <2>2. owner' \in OwnerAt /\ dangling' \in BOOLEAN
      BY <1>14 DEF QuitWakeup, UsesGone, OwnerAt
    <2> QED
      BY <1>14, <2>1, <2>2 DEF QuitWakeup
  <1>15. CASE Stop \/ Destroy \/ DtorRead \/ DtorJoin
    BY <1>15 DEF Stop, Destroy, DtorRead, DtorJoin, OwnerAt
  <1>16. CASE StopNext
    <2>1. owner' \in OwnerAt /\ i' \in Workers
      BY <1>9, <1>16 DEF StopNext, OwnerAt
    <2> QED
      BY <1>16, <2>1 DEF StopNext
  <1>17. CASE DtorMembers
    <2>1. owner' \in OwnerAt /\ i' \in Workers
      BY <1>9, <1>17 DEF DtorMembers, OwnerAt
    <2> QED
      BY <1>17, <2>1 DEF DtorMembers
  <1>18. CASE UNCHANGED vars
    BY <1>18 DEF vars
  <1> QED
    BY <1>1, <1>2, <1>3, <1>4, <1>5, <1>6, <1>7, <1>8, <1>10, <1>11, <1>12, <1>13, <1>14,
       <1>15, <1>16, <1>17, <1>18
       DEF Next, OwnerRuns, ThreadRuns, Finished, StopWakeup, OwnerAt

(* getNextLoop gives to the first of the loops that are one behind, or to the first loop
   again once they are level. *)
LEMMA RoundStep == TypeOK /\ RoundInv /\ [Next]_vars => RoundInv'
  <1> SUFFICES ASSUME TypeOK, RoundInv, [Next]_vars PROVE RoundInv'
    OBVIOUS
  <1>0. N \in Nat \ {0} /\ Workers = 1..N /\ N \in Workers
    BY PoolAssumption, SMTT(30) DEF Workers
  <1>1. CASE GetNextLoop
    <2>1. /\ next \in 1..N /\ assigned \in [Workers -> Nat] /\ assigned[N] \in Nat
          /\ assigned' = [assigned EXCEPT ![next] = assigned[next] + 1]
          /\ next' = IF next + 1 > N THEN 1 ELSE next + 1
      BY <1>0, <1>1 DEF GetNextLoop, NextLoop, TypeOK
    <2> SUFFICES ASSUME NEW w \in Workers
                 PROVE  assigned'[w] = assigned'[N] + (IF w < next' THEN 1 ELSE 0)
      BY DEF RoundInv
    <2>2. /\ assigned[w] = assigned[N] + (IF w < next THEN 1 ELSE 0)
          /\ assigned[next] = assigned[N]
      BY <1>0, <2>1, SMTT(30) DEF RoundInv
    <2>3. CASE next = N
      BY <1>0, <2>1, <2>2, <2>3, SMTT(30)
    <2>4. CASE next # N
      BY <1>0, <2>1, <2>2, <2>4, SMTT(30)
    <2> QED
      BY <2>3, <2>4
  <1>2. CASE UNCHANGED <<next, assigned>>
    BY <1>2 DEF RoundInv
  <1> QED
    BY <1>1, <1>2
       DEF Next, OwnerRuns, ThreadRuns, Finished, Construct, Publish, Begin, Test, Poll, Clear,
           Unlock, Unwind, StartLoop, StartLoopReturn, QuitStore, QuitWakeup, Stop, StopWakeup,
           StopNext, Destroy, DtorRead, DtorJoin, DtorMembers, vars

(* threadFunc keeps loop_ and its EventLoop in step, and leaves loop() only after quit_
   was set. *)
LEMMA PlaceStep == TypeOK /\ PlaceInv /\ OwnerInv /\ [Next]_vars => PlaceInv'
  <1> SUFFICES ASSUME TypeOK, PlaceInv, OwnerInv, [Next]_vars PROVE PlaceInv'
    OBVIOUS
  <1> USE DEF TypeOK, PlaceInv, InLoop, Past, Goes, loops
  <1>1. ASSUME NEW w \in Workers, Construct(w) PROVE PlaceInv'
    BY <1>1 DEF Construct
  <1>2. ASSUME NEW w \in Workers, Publish(w) PROVE PlaceInv'
    BY <1>2 DEF Publish
  <1>3. ASSUME NEW w \in Workers, Begin(w) PROVE PlaceInv'
    BY <1>3 DEF Begin
  <1>4. ASSUME NEW w \in Workers, Test(w) PROVE PlaceInv'
    BY <1>4 DEF Test
  <1>5. ASSUME NEW w \in Workers, Poll(w) PROVE PlaceInv'
    BY <1>5 DEF Poll
  <1>6. ASSUME NEW w \in Workers, Clear(w) PROVE PlaceInv'
    BY <1>6 DEF Clear
  <1>7. ASSUME NEW w \in Workers, Unlock(w) PROVE PlaceInv'
    BY <1>7 DEF Unlock
  <1>8. ASSUME NEW w \in Workers, Unwind(w) PROVE PlaceInv'
    BY <1>8 DEF Unwind
  <1>9. ASSUME NEW from, NEW to, QuitStore(from, to) PROVE PlaceInv'
    <2>1. \A w \in Workers : quit[w] => quit'[w]
      BY <1>9 DEF QuitStore
    <2> QED
      BY <1>9, <2>1 DEF QuitStore
  <1>10. CASE UNCHANGED <<thread, loopPtr, alive, quit>>
    BY <1>10
  <1>11. CASE StartLoop
    <2>1. thread[i] = "none"
      BY <1>11 DEF StartLoop, Moves, OwnerInv
    <2> QED
      BY <1>11, <2>1 DEF StartLoop
  <1> QED
    BY <1>1, <1>2, <1>3, <1>4, <1>5, <1>6, <1>7, <1>8, <1>9, <1>10, <1>11
       DEF Next, OwnerRuns, ThreadRuns, Finished, StartLoopReturn, GetNextLoop, QuitWakeup, Stop,
           StopWakeup, StopNext, Destroy, DtorRead, DtorJoin, DtorMembers, vars

(* No thread leaves its loop before the owner tells it to, and the owner goes past the
   join of a thread only when that thread has left its loop. *)
LEMMA OwnerStep == TypeOK /\ PlaceInv /\ OwnerInv /\ [Next]_vars => OwnerInv'
  <1> SUFFICES ASSUME TypeOK, PlaceInv, OwnerInv, [Next]_vars PROVE OwnerInv'
    OBVIOUS
  <1>0. N \in Nat \ {0} /\ Workers = 1..N
    BY PoolAssumption DEF Workers
  <1> USE DEF TypeOK, OwnerInv, InLoop, Past
  <1>1. ASSUME NEW w \in Workers, Construct(w) \/ Publish(w) PROVE OwnerInv'
    BY <1>1, SMTT(30) DEF Construct, Publish, Goes
  <1>2. ASSUME NEW w \in Workers, Begin(w) \/ Poll(w) \/ Unlock(w) \/ Unwind(w) PROVE OwnerInv'
    BY <1>2, SMTT(30) DEF Begin, Poll, Unlock, Unwind, Goes, loops
  <1>3. ASSUME NEW w \in Workers, Test(w) PROVE OwnerInv'
    BY <1>3 DEF Test, Goes, loops
  <1>4. ASSUME NEW w \in Workers, Clear(w) PROVE OwnerInv'
    <2>1. quit[w]
      BY <1>4 DEF Clear, Goes, PlaceInv
    <2> QED
      BY <1>4, <2>1 DEF Clear, Goes
  <1>5. CASE StartLoop
    BY <1>0, <1>5, SMTT(30) DEF StartLoop, Moves, loops
  <1>6. CASE StartLoopReturn
    <2>1. UNCHANGED <<thread, loopPtr, quit>> /\ loopPtr[i] /\ owner = "wait"
      BY <1>6 DEF StartLoopReturn, Advance, Moves, loops
    <2>2. CASE i < N
      <3>1. owner' = "start" /\ i' = i + 1
        BY <1>6, <2>2 DEF StartLoopReturn, Advance, Moves
      <3> QED
        BY <1>0, <2>1, <2>2, <3>1, SMTT(30)
    <2>3. CASE ~(i < N)
      <3>1. owner' = "running" /\ \A w \in Workers : w < i \/ w = i
        BY <1>0, <1>6, <2>3, SMTT(30) DEF StartLoopReturn, Advance, Moves
      <3>2. \A w \in Workers : thread[w] \in InLoop
        BY <2>1, <3>1 DEF PlaceInv
      <3> QED
        BY <2>1, <3>1, <3>2
    <2> QED
      BY <2>2, <2>3
  <1>7. CASE GetNextLoop \/ Stop \/ Destroy
    BY <1>7 DEF GetNextLoop, Stop, Destroy, Moves, loops
  <1>8. CASE \/ QuitStore("stop.quit", "stop.quitWakeup")
             \/ QuitStore("dtor.quit", "dtor.quitWakeup")
    BY <1>8 DEF QuitStore, UsesGone, Moves
  <1>9. CASE \/ QuitWakeup("stop.quitWakeup", "stop.wakeup")
             \/ QuitWakeup("dtor.quitWakeup", "dtor.join")
             \/ StopWakeup
    BY <1>9 DEF QuitWakeup, StopWakeup, UsesGone, Moves
  <1>10. CASE StopNext \/ DtorMembers
    BY <1>10 DEF StopNext, DtorMembers, Advance, Moves, loops
  <1>11. CASE DtorRead
    <2>1. ~loopPtr[i] => thread[i] \in Past
      BY <1>11 DEF DtorRead, Moves, PlaceInv
    <2> QED
      BY <1>11, <2>1 DEF DtorRead, Moves, loops
  <1>12. CASE DtorJoin
    BY <1>12 DEF DtorJoin, Moves, loops
  <1>13. CASE UNCHANGED vars
    BY <1>13 DEF vars
  <1> QED
    BY <1>1, <1>2, <1>3, <1>4, <1>5, <1>6, <1>7, <1>8, <1>9, <1>10, <1>11, <1>12, <1>13
       DEF Next, OwnerRuns, ThreadRuns, Finished
-----------------------------------------------------------------------------
(* Every reachable state of the pool and its threads satisfies PoolInv. *)
THEOREM PoolInvariant == Spec => []PoolInv
  <1>1. Init => PoolInv
    <2> SUFFICES ASSUME Init PROVE PoolInv
      OBVIOUS
    <2>1. N \in Nat \ {0} /\ Workers = 1..N
      BY PoolAssumption DEF Workers
    <2>2. TypeOK
      <3>1. 1 \in Workers /\ 0 \in Nat
        BY <2>1, SMTT(30)
      <3> QED
        BY <3>1 DEF Init, TypeOK, OwnerAt, ThreadAt
    <2>3. PlaceInv
      BY DEF Init, PlaceInv, InLoop, Past
    <2>4. OwnerInv
      BY <2>1, SMTT(30) DEF Init, OwnerInv
    <2>5. RoundInv
      BY <2>1, SMTT(30) DEF Init, RoundInv
    <2> QED
      BY <2>2, <2>3, <2>4, <2>5 DEF PoolInv
  <1>2. PoolInv /\ [Next]_vars => PoolInv'
    BY TypeStep, PlaceStep, OwnerStep, RoundStep DEF PoolInv
  <1> QED
    BY <1>1, <1>2, PTL DEF Spec

(* LoopsUsable for any number of threads: while the server runs, getNextLoop hands out
   pointers to loops that exist. *)
THEOREM LoopsAlwaysUsable == Spec => []LoopsUsable
  <1>1. PoolInv => LoopsUsable
    BY DEF PoolInv, LoopsUsable, OwnerInv, PlaceInv, InLoop, Past
  <1> QED
    BY <1>1, PoolInvariant, PTL

(* NoLoopLeftRunning for any number of threads: ~EventLoopThread destroys its members
   only when its thread has left loop(). *)
THEOREM NoThreadLeftInLoop == Spec => []NoLoopLeftRunning
  <1>1. PoolInv => NoLoopLeftRunning
    BY DEF PoolInv, NoLoopLeftRunning, OwnerInv, Past
  <1> QED
    BY <1>1, PoolInvariant, PTL

(* Balanced for any number of threads and connections. *)
THEOREM LoopsBalanced == Spec => []Balanced
  <1>1. PoolInv => Balanced
    <2> SUFFICES ASSUME PoolInv, NEW v \in Workers, NEW w \in Workers
                 PROVE  assigned[v] <= assigned[w] + 1
      BY DEF Balanced
    <2>1. /\ assigned[N] \in Nat
          /\ assigned[v] = assigned[N] + (IF v < next THEN 1 ELSE 0)
          /\ assigned[w] = assigned[N] + (IF w < next THEN 1 ELSE 0)
      BY PoolAssumption, SMTT(30) DEF PoolInv, TypeOK, RoundInv, Workers
    <2> QED
      BY <2>1, SMTT(30)
  <1> QED
    BY <1>1, PoolInvariant, PTL
=============================================================================
