-------------------------- MODULE EventLoopProofs ---------------------------
(***************************************************************************)
(* Proofs about EventLoop for any set of threads and any set of functors:  *)
(* types and flags, the order of the functors, the absence of a lost       *)
(* wakeup, and the refinement of FunctorQueue.                             *)
(***************************************************************************)
EXTENDS EventLoop, SequenceTheorems, TLAPS

(* Why NoLostWakeup is not inductive alone: functors pushed while the swapped
   vector is being run, or between that and the next epoll_wait, must already
   be covered by a wakeup, since the eventfd is drained only in between. *)
WakeupInv ==
    /\ pc \in {"functors", "test", "poll"} /\ pendingFunctors # <<>> => WakeupComing
    /\ pc = "poll" /\ quit => WakeupComing
-----------------------------------------------------------------------------
(* Zenon proves each leaf that names no other prover. *)
USE ZenonT(30)

(* Moving the head of the middle sequence to the end of the first leaves the
   concatenation alone (RunFunctor). *)
LEMMA MoveHead ==
    ASSUME NEW S, NEW a \in Seq(S), NEW b \in Seq(S), b # <<>>
    PROVE  Append(a, Head(b)) \o Tail(b) = a \o b
  <1>1. Head(b) \in S /\ Tail(b) \in Seq(S) /\ Len(Tail(b)) = Len(b) - 1
    BY HeadTailProperties
  <1>2. Append(a, Head(b)) \in Seq(S) /\ Len(Append(a, Head(b))) = Len(a) + 1
    BY <1>1, AppendProperties
  <1> QED
    BY <1>1, <1>2, SMTT(30)

(* Appending to the last of two sequences appends to their concatenation
   (queueInLoop). *)
LEMMA AppendConcat ==
    ASSUME NEW S, NEW a \in Seq(S), NEW b \in Seq(S), NEW e \in S
    PROVE  a \o Append(b, e) = Append(a \o b, e)
  BY SMTT(30)

(* Types and flags hold initially and are preserved by every step. *)
THEOREM TypeCorrect == SafeSpec => []TypeOK
  <1>1. Init => TypeOK
    <2> SUFFICES ASSUME Init PROVE TypeOK
      OBVIOUS
    <2>1. /\ quit \in BOOLEAN
          /\ callingPendingFunctors \in BOOLEAN
          /\ wakeupFd \in BOOLEAN
          /\ inCallback \in BOOLEAN
          /\ ~callingPendingFunctors
          /\ ~inCallback
      BY DEF Init
    <2> QED
      BY <2>1, SMTT(30) DEF Init, TypeOK, Locations, Channels
  <1>2. TypeOK /\ [Next]_vars => TypeOK'
    <2> SUFFICES ASSUME TypeOK, [Next]_vars PROVE TypeOK'
      OBVIOUS
    <2> USE DEF TypeOK, Locations, Channels, history, queueVars, loopVars
    <2>1. CASE LoopBegin
      BY <2>1 DEF LoopBegin
    <2>2. CASE LoopTest
      BY <2>2 DEF LoopTest
    <2>3. CASE Poll
      BY <2>3 DEF Poll
    <2>4. CASE PollTimeout
      BY <2>4 DEF PollTimeout
    <2>5. CASE HandleRead
      BY <2>5 DEF HandleRead
    <2>6. CASE HandleEvent
      BY <2>6 DEF HandleEvent
    <2>7. CASE DoPendingFunctors
      BY <2>7 DEF DoPendingFunctors, SwapFunctors
    <2>8. CASE RunFunctor
      BY <2>8, HeadTailProperties, AppendProperties DEF RunFunctor
    <2>9. CASE CallbackReturn
      BY <2>9 DEF CallbackReturn
    <2>10. CASE DoPendingFunctorsEnd
      BY <2>10 DEF DoPendingFunctorsEnd, ClearCalling
    <2>11. CASE QuitSelf
      BY <2>11 DEF QuitSelf
    <2>12. ASSUME NEW f \in Functors, QueueInLoopSelf(f) PROVE TypeOK'
      BY <2>12, SMTT(30) DEF QueueInLoopSelf, EmplaceBack, NeedsWakeup
    <2>13. ASSUME NEW f \in Functors, RunInLoopSelf(f) PROVE TypeOK'
      BY <2>13 DEF RunInLoopSelf
    <2>14. ASSUME NEW t \in Threads, NEW f \in Functors, QueueInLoop(t, f) PROVE TypeOK'
      BY <2>14, SMTT(30) DEF QueueInLoop, EmplaceBack
    <2>15. ASSUME NEW t \in Threads, Quit(t) PROVE TypeOK'
      BY <2>15 DEF Quit
    <2>16. ASSUME NEW t \in Threads, Wakeup(t) PROVE TypeOK'
      BY <2>16 DEF Wakeup
    <2>17. CASE UNCHANGED vars
      BY <2>17 DEF vars
    <2> QED
      BY <2>1, <2>2, <2>3, <2>4, <2>5, <2>6, <2>7, <2>8, <2>9, <2>10, <2>11, <2>12,
         <2>13, <2>14, <2>15, <2>16, <2>17 DEF Next, LoopStep, CallbackCall, ThreadCall
  <1> QED
    BY <1>1, <1>2, PTL DEF SafeSpec
-----------------------------------------------------------------------------
(* The queue order is preserved by every step, given the types. *)
LEMMA OrderStep == TypeOK /\ FunctorsInOrder /\ [Next]_vars => FunctorsInOrder'
  <1> SUFFICES ASSUME TypeOK, FunctorsInOrder, [Next]_vars PROVE FunctorsInOrder'
    OBVIOUS
  <1> USE DEF FunctorsInOrder, history, queueVars, loopVars
  <1>1. /\ pendingFunctors \in Seq(Functors)
        /\ functors \in Seq(Functors)
        /\ ran \in Seq(Functors)
        /\ functors # <<>> => pc = "functors"
    BY DEF TypeOK
  <1>2. ASSUME NEW f \in Functors, EmplaceBack(f), UNCHANGED functors
        PROVE  FunctorsInOrder'
    <2> DEFINE started == ran \o functors
    <2>1. started \in Seq(Functors)
      BY <1>1, ConcatProperties
    <2>1a. started' = started
      BY <1>2 DEF EmplaceBack
    <2> HIDE DEF started
    <2>2. started \o Append(pendingFunctors, f) = Append(started \o pendingFunctors, f)
      BY <1>1, <2>1, AppendConcat, SMTT(30)
    <2> QED
      BY <1>2, <2>1a, <2>2 DEF EmplaceBack, started
  <1>3. CASE DoPendingFunctors
    <2>1. functors = <<>> /\ functors' = pendingFunctors /\ pendingFunctors' = <<>>
      BY <1>1, <1>3 DEF DoPendingFunctors, SwapFunctors
    <2>2. ran \o functors \o pendingFunctors = ran \o pendingFunctors
      BY <1>1, <2>1, ConcatEmptySeq
    <2>3. ran \o pendingFunctors \o <<>> = ran \o pendingFunctors
      BY <1>1, ConcatProperties, ConcatEmptySeq
    <2>4. ran' = ran /\ submitted' = submitted
      BY <1>3 DEF DoPendingFunctors
    <2> QED
      BY <2>1, <2>2, <2>3, <2>4
  <1>4. CASE RunFunctor
    <2>1. Append(ran, Head(functors)) \o Tail(functors) = ran \o functors
      BY <1>1, <1>4, MoveHead DEF RunFunctor
    <2>2. ran' \o functors' = ran \o functors
      BY <1>4, <2>1 DEF RunFunctor
    <2> QED
      BY <1>4, <2>2 DEF RunFunctor
  <1>5. CASE UNCHANGED <<ran, functors, pendingFunctors, submitted>>
    BY <1>5
  <1>6. ASSUME NEW f \in Functors, QueueInLoopSelf(f) PROVE FunctorsInOrder'
    BY <1>2, <1>6 DEF QueueInLoopSelf
  <1>7. ASSUME NEW t \in Threads, NEW f \in Functors, QueueInLoop(t, f)
        PROVE  FunctorsInOrder'
    BY <1>2, <1>7 DEF QueueInLoop
  <1>8. CASE \/ LoopBegin \/ LoopTest \/ Poll \/ PollTimeout \/ HandleRead
             \/ HandleEvent \/ CallbackReturn \/ DoPendingFunctorsEnd \/ QuitSelf
             \/ UNCHANGED vars
    BY <1>5, <1>8 DEF LoopBegin, LoopTest, Poll, PollTimeout, HandleRead, HandleEvent,
       CallbackReturn, DoPendingFunctorsEnd, QuitSelf, vars
  <1>9. ASSUME NEW f \in Functors, RunInLoopSelf(f) PROVE FunctorsInOrder'
    BY <1>5, <1>9 DEF RunInLoopSelf
  <1>10. ASSUME NEW t \in Threads, Quit(t) \/ Wakeup(t) PROVE FunctorsInOrder'
    BY <1>5, <1>10 DEF Quit, Wakeup
  <1> QED
    BY <1>3, <1>4, <1>6, <1>7, <1>8, <1>9, <1>10
       DEF Next, LoopStep, CallbackCall, ThreadCall

(* doPendingFunctors loses, repeats and reorders nothing, for any number of
   threads and functors. *)
THEOREM OrderPreserved == SafeSpec => []FunctorsInOrder
  <1>1. Init => FunctorsInOrder
    BY SMTT(30) DEF Init, FunctorsInOrder
  <1> QED
    BY <1>1, OrderStep, TypeCorrect, PTL DEF SafeSpec
-----------------------------------------------------------------------------
(* Every step keeps a wakeup on its way while functors or a quit wait. *)
LEMMA WakeupStep == TypeOK /\ WakeupInv /\ [Next]_vars => WakeupInv'
  <1> SUFFICES ASSUME TypeOK, WakeupInv, [Next]_vars PROVE WakeupInv'
    OBVIOUS
  <1> USE DEF WakeupInv, WakeupComing, history, queueVars, loopVars
  <1>1. CASE LoopBegin
    BY <1>1 DEF LoopBegin
  <1>2. CASE LoopTest
    BY <1>2 DEF LoopTest
  <1>3. CASE Poll \/ PollTimeout \/ HandleRead \/ HandleEvent
    BY <1>3 DEF Poll, PollTimeout, HandleRead, HandleEvent
  <1>4. CASE DoPendingFunctors
    BY <1>4 DEF DoPendingFunctors, SwapFunctors
  <1>5. CASE RunFunctor \/ CallbackReturn \/ DoPendingFunctorsEnd \/ UNCHANGED vars
    BY <1>5, SMTT(30) DEF RunFunctor, CallbackReturn, DoPendingFunctorsEnd, vars
  <1>6. ASSUME NEW f \in Functors, QueueInLoopSelf(f) \/ RunInLoopSelf(f)
        PROVE  WakeupInv'
    BY <1>6 DEF QueueInLoopSelf, RunInLoopSelf, OnLoopThread, NeedsWakeup, TypeOK
  <1>7. CASE QuitSelf
    BY <1>7 DEF QuitSelf, OnLoopThread, TypeOK
  <1>8. ASSUME NEW t \in Threads, NEW f \in Functors, QueueInLoop(t, f)
        PROVE  WakeupInv'
    BY <1>8 DEF QueueInLoop, TypeOK
  <1>9. ASSUME NEW t \in Threads, Quit(t) PROVE WakeupInv'
    BY <1>9 DEF Quit, TypeOK
  <1>10. ASSUME NEW t \in Threads, Wakeup(t) PROVE WakeupInv'
    BY <1>10 DEF Wakeup
  <1> QED
    BY <1>1, <1>2, <1>3, <1>4, <1>5, <1>6, <1>7, <1>8, <1>9, <1>10
       DEF Next, LoopStep, CallbackCall, ThreadCall

(* The loop never sleeps in epoll_wait on queued functors or on quit_, for any
   number of threads and functors. *)
THEOREM WakeupNeverLost == SafeSpec => []NoLostWakeup
  <1>1. Init => WakeupInv
    BY DEF Init, WakeupInv
  <1>2. WakeupInv => NoLostWakeup
    BY DEF WakeupInv, NoLostWakeup
  <1> QED
    BY <1>1, <1>2, WakeupStep, TypeCorrect, PTL DEF SafeSpec
-----------------------------------------------------------------------------
(* What has been queued is what has been started and what is still held, in
   either grouping of the three sequences. *)
LEMMA RangeOfThree ==
    ASSUME NEW S, NEW a \in Seq(S), NEW b \in Seq(S), NEW c \in Seq(S)
    PROVE  Range(a \o b \o c) = Range(a) \cup Range(b \o c)
  <1>1. b \o c \in Seq(S)
    BY ConcatProperties
  <1>2. a \o b \o c = a \o (b \o c)
    BY ConcatAssociative, SMTT(30)
  <1>3. ASSUME NEW q \in Seq(S)
        PROVE  Range(a \o q) = Range(a) \cup Range(q)
    BY RangeConcatenation, SMTT(30)
  <1> QED
    BY <1>1, <1>2, <1>3

(* Freshness in the loop is freshness in the abstract queue. *)
LEMMA SameFresh ==
    ASSUME TypeOK, FunctorsInOrder, NEW f \in Functors
    PROVE  Fresh(f) <=> Promise!Fresh(f)
  <1>1. ran \in Seq(Functors) /\ functors \in Seq(Functors) /\ pendingFunctors \in Seq(Functors)
    BY DEF TypeOK
  <1>2. Range(ran \o functors \o pendingFunctors)
          = Range(ran) \cup Range(functors \o pendingFunctors)
    BY <1>1, RangeOfThree, SMTT(30)
  <1>3. Range(submitted) = Range(ran) \cup Range(functors \o pendingFunctors)
    BY <1>2 DEF FunctorsInOrder
  <1> QED
    BY <1>3 DEF Fresh, Promise!Fresh, Range, Promise!Range

(* Every step of the loop, its callbacks and its callers is a step of the
   abstract queue or leaves it alone. *)
LEMMA RefinementStep ==
    TypeOK /\ FunctorsInOrder /\ [Next]_vars => [Promise!Next]_(Promise!vars)
  <1> SUFFICES ASSUME TypeOK, FunctorsInOrder, [Next]_vars
               PROVE  Promise!Next \/ UNCHANGED Promise!vars
    OBVIOUS
  <1> USE DEF history, queueVars, loopVars
  <1>1. /\ pendingFunctors \in Seq(Functors)
        /\ functors \in Seq(Functors)
        /\ functors # <<>> => pc = "functors"
        /\ inCallback => pc \in {"events", "functors"}
    BY DEF TypeOK
  <1>2. ASSUME NEW f \in Functors, EmplaceBack(f), UNCHANGED <<functors, pc>>
        PROVE  Promise!Enqueue(f)
    <2>1. Promise!Fresh(f)
      BY <1>2, SameFresh DEF EmplaceBack
    <2>2. (functors \o pendingFunctors)' = Append(functors \o pendingFunctors, f)
      BY <1>1, <1>2, AppendConcat, SMTT(30) DEF EmplaceBack
    <2> QED
      BY <1>2, <2>1, <2>2 DEF EmplaceBack, Promise!Enqueue
  <1>3. CASE DoPendingFunctors
    <2>1. functors = <<>> /\ functors' = pendingFunctors /\ pendingFunctors' = <<>>
      BY <1>1, <1>3 DEF DoPendingFunctors, SwapFunctors
    <2>2. (functors \o pendingFunctors)' = functors \o pendingFunctors
      BY <1>1, <2>1, ConcatEmptySeq
    <2> QED
      BY <1>3, <2>2 DEF DoPendingFunctors, Promise!vars
  <1>4. CASE RunFunctor
    <2>1. Head(functors \o pendingFunctors) = Head(functors)
      BY <1>1, <1>4, SMTT(30) DEF RunFunctor
    <2>2. Tail(functors \o pendingFunctors) = Tail(functors) \o pendingFunctors
      BY <1>1, <1>4, SMTT(30) DEF RunFunctor
    <2>3. functors \o pendingFunctors # <<>>
      BY <1>1, <1>4, ConcatEqualIffEmpty, SMTT(30) DEF RunFunctor
    <2>4. Promise!RunNext
      BY <1>4, <2>1, <2>2, <2>3 DEF RunFunctor, Promise!RunNext
    <2> QED
      BY <2>4 DEF Promise!Next
  <1>5. CASE LoopTest
    <2>1. CASE quit
      BY <1>5, <2>1 DEF LoopTest, Promise!Next, Promise!Close
    <2>2. CASE ~quit
      BY <1>5, <2>2 DEF LoopTest, Promise!vars
    <2> QED
      BY <2>1, <2>2
  <1>6. ASSUME NEW f \in Functors, QueueInLoopSelf(f) PROVE Promise!Next
    BY <1>2, <1>6 DEF QueueInLoopSelf, Promise!Next
  <1>7. ASSUME NEW t \in Threads, NEW f \in Functors, QueueInLoop(t, f)
        PROVE  Promise!Next
    BY <1>2, <1>7 DEF QueueInLoop, Promise!Next
  <1>8. ASSUME NEW f \in Functors, RunInLoopSelf(f) PROVE Promise!Next
    <2>1. Promise!RunInline(f)
      BY <1>1, <1>8, SameFresh DEF RunInLoopSelf, OnLoopThread, Promise!RunInline
    <2> QED
      BY <2>1 DEF Promise!Next
  <1>9. CASE \/ LoopBegin \/ Poll \/ PollTimeout \/ HandleRead \/ HandleEvent
             \/ CallbackReturn \/ DoPendingFunctorsEnd \/ QuitSelf \/ UNCHANGED vars
    BY <1>1, <1>9 DEF LoopBegin, Poll, PollTimeout, HandleRead, HandleEvent,
       CallbackReturn, DoPendingFunctorsEnd, QuitSelf, vars, Promise!vars
  <1>10. ASSUME NEW t \in Threads, Quit(t) \/ Wakeup(t)
         PROVE  UNCHANGED Promise!vars
    BY <1>10 DEF Quit, Wakeup, Promise!vars
  <1> QED
    BY <1>3, <1>4, <1>5, <1>6, <1>7, <1>8, <1>9, <1>10
       DEF Next, LoopStep, CallbackCall, ThreadCall

(* The reactor implements the safety part of the abstract queue: run in order,
   once, and never after the loop has closed.  That the queue keeps moving is
   left to TLC. *)
THEOREM Refinement == SafeSpec => Promise!SafeSpec
  <1>1. Init => Promise!Init
    BY SMTT(30) DEF Init, Promise!Init
  <1> QED
    BY <1>1, RefinementStep, TypeCorrect, OrderPreserved, PTL
       DEF SafeSpec, Promise!SafeSpec
=============================================================================
