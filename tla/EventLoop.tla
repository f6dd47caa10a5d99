----------------------------- MODULE EventLoop ------------------------------
(***************************************************************************)
(* core/src/EventLoop.cpp: one reactor thread in loop(), and the threads   *)
(* that hand it functors (runInLoop, queueInLoop) or stop it (quit).       *)
(*                                                                         *)
(* A caller's operation takes two steps, because the mutex is released     *)
(* (queueInLoop) or the flag is stored (quit) before wakeup() writes the   *)
(* eventfd.  The eventfd counter is kept as "readable or not": handleRead  *)
(* drains it and epoll only asks whether it is zero.  looping_ is never    *)
(* read by the code and is left out.                                       *)
(***************************************************************************)
EXTENDS Naturals, Sequences, Functions

CONSTANTS
    Threads,    \* threads other than the loop's own that hold the EventLoop*
    Functors    \* one name per closure handed to the loop

VARIABLES
    pc,                         \* where the loop's thread is
    quit,                       \* quit_
    callingPendingFunctors,     \* callingPendingFunctors_
    pendingFunctors,            \* pendingFunctors_, guarded by mutex_
    functors,                   \* doPendingFunctors' local vector, what is left of it
    wakeupFd,                   \* the eventfd counter is not zero
    activeChannels,             \* activeChannels_ not handled yet
    inCallback,                 \* user code (a channel callback or a functor) runs
    caller,                     \* a thread is "idle" or has its wakeup() to do
    submitted,                  \* history: functors queued, in queue order
    ran,                        \* history: functors doPendingFunctors started
    inlined                     \* history: functors runInLoop ran at once

queueVars == <<pendingFunctors, functors, callingPendingFunctors>>
history   == <<submitted, ran, inlined>>
loopVars  == <<pc, callingPendingFunctors, functors, activeChannels, inCallback>>
vars      == <<pc, quit, callingPendingFunctors, pendingFunctors, functors, wakeupFd,
               activeChannels, inCallback, caller, submitted, ran, inlined>>

(* The loop's thread is before loop(), at the while test, in epoll_wait,
   handling active channels, in doPendingFunctors, or past loop(). *)
Locations == {"created", "test", "poll", "events", "functors", "exited"}

(* "io" stands for every channel but the wakeup channel. *)
Channels == {"wakeup", "io"}

(* Types, and the flags that must agree with where the loop's thread is:
   callingPendingFunctors_ is up exactly inside doPendingFunctors, the swapped
   vector is empty outside it, and user code runs only inside an iteration. *)
TypeOK ==
    /\ pc \in Locations
    /\ quit \in BOOLEAN
    /\ callingPendingFunctors \in BOOLEAN
    /\ callingPendingFunctors <=> pc = "functors"
    /\ pendingFunctors \in Seq(Functors)
    /\ functors \in Seq(Functors)
    /\ functors # <<>> => pc = "functors"
    /\ wakeupFd \in BOOLEAN
    /\ activeChannels \in SUBSET Channels
    /\ inCallback \in BOOLEAN
    /\ inCallback => pc \in {"events", "functors"}
    /\ caller \in [Threads -> {"idle", "wakeup"}]
    /\ submitted \in Seq(Functors)
    /\ ran \in Seq(Functors)
    /\ inlined \in SUBSET Functors

Init ==
    /\ pc = "created"
    /\ quit = FALSE
    /\ callingPendingFunctors = FALSE
    /\ pendingFunctors = <<>>
    /\ functors = <<>>
    /\ wakeupFd = FALSE
    /\ activeChannels = {}
    /\ inCallback = FALSE
    /\ caller = [t \in Threads |-> "idle"]
    /\ submitted = <<>>
    /\ ran = <<>>
    /\ inlined = {}
-----------------------------------------------------------------------------
(* The loop's own thread. *)

(* Entry of loop(): quit_ is cleared and the eventfd is written once so that
   the first poll returns. *)
LoopBegin ==
    /\ pc = "created"
    /\ pc' = "test"
    /\ quit' = FALSE
    /\ wakeupFd' = TRUE
    /\ UNCHANGED <<queueVars, activeChannels, inCallback, caller, history>>

LoopTest ==
    /\ pc = "test"
    /\ pc' = IF quit THEN "exited" ELSE "poll"
    /\ UNCHANGED <<quit, queueVars, wakeupFd, activeChannels, inCallback, caller, history>>

(* epoll_wait returns some ready channels; the wakeup channel is among them
   exactly when its eventfd is readable. *)
Poll ==
    /\ pc = "poll"
    /\ pc' = "events"
    /\ \E ready \in SUBSET {"io"} :
         activeChannels' = ready \cup (IF wakeupFd THEN {"wakeup"} ELSE {})
    /\ activeChannels' # {}
    /\ UNCHANGED <<quit, queueVars, wakeupFd, inCallback, caller, history>>

(* epoll_wait returns 0 after kPollTime, or -1: nothing is active. *)
PollTimeout ==
    /\ pc = "poll"
    /\ pc' = "events"
    /\ ~wakeupFd
    /\ activeChannels' = {}
    /\ UNCHANGED <<quit, queueVars, wakeupFd, inCallback, caller, history>>

(* The wakeup channel's callback drains the eventfd. *)
HandleRead ==
    /\ pc = "events"
    /\ ~inCallback
    /\ "wakeup" \in activeChannels
    /\ activeChannels' = activeChannels \ {"wakeup"}
    /\ wakeupFd' = FALSE
    /\ UNCHANGED <<pc, quit, queueVars, inCallback, caller, history>>

(* handleEvent of any other channel enters user code. *)
HandleEvent ==
    /\ pc = "events"
    /\ ~inCallback
    /\ "io" \in activeChannels
    /\ activeChannels' = activeChannels \ {"io"}
    /\ inCallback' = TRUE
    /\ UNCHANGED <<pc, quit, queueVars, wakeupFd, caller, history>>

SwapFunctors_CopyOnly ==
    functors' = pendingFunctors /\ UNCHANGED pendingFunctors

SwapFunctors ==
    functors' = pendingFunctors /\ pendingFunctors' = <<>>

(* The flag is raised and the vector swapped out under the mutex.  Only the
   loop's own thread reads the flag, so the two are one step. *)
DoPendingFunctors ==
    /\ pc = "events"
    /\ pc' = "functors"
    /\ ~inCallback
    /\ activeChannels = {}
    /\ callingPendingFunctors' = TRUE
    /\ SwapFunctors
    /\ UNCHANGED <<quit, wakeupFd, activeChannels, inCallback, caller, history>>

RunFunctor ==
    /\ pc = "functors"
    /\ ~inCallback
    /\ functors # <<>>
    /\ ran' = Append(ran, Head(functors))
    /\ functors' = Tail(functors)
    /\ inCallback' = TRUE
    /\ UNCHANGED <<pc, quit, callingPendingFunctors, pendingFunctors, wakeupFd,
                   activeChannels, caller, submitted, inlined>>

CallbackReturn ==
    /\ inCallback
    /\ inCallback' = FALSE
    /\ UNCHANGED <<pc, quit, queueVars, wakeupFd, activeChannels, caller, history>>

ClearCalling_Forgotten == UNCHANGED callingPendingFunctors

ClearCalling == callingPendingFunctors' = FALSE

DoPendingFunctorsEnd ==
    /\ pc = "functors"
    /\ pc' = "test"
    /\ ~inCallback
    /\ functors = <<>>
    /\ ClearCalling
    /\ UNCHANGED <<quit, pendingFunctors, functors, wakeupFd, activeChannels,
                   inCallback, caller, history>>
-----------------------------------------------------------------------------
(* Every call hands over a closure of its own. *)
Fresh(f) == f \notin Range(submitted) \cup inlined

(* The push of queueInLoop, under the mutex. *)
EmplaceBack(f) ==
    /\ Fresh(f)
    /\ pendingFunctors' = Append(pendingFunctors, f)
    /\ submitted' = Append(submitted, f)
    /\ UNCHANGED <<ran, inlined>>

(* Calls made on the loop's own thread: before loop(), or from a callback. *)
OnLoopThread == inCallback \/ pc = "created"

NeedsWakeup_Never == FALSE

(* On the loop's own thread queueInLoop writes the eventfd only while functors
   are being run. *)
NeedsWakeup == callingPendingFunctors

QueueInLoopSelf(f) ==
    /\ OnLoopThread
    /\ EmplaceBack(f)
    /\ wakeupFd' = (wakeupFd \/ NeedsWakeup)
    /\ UNCHANGED <<loopVars, quit, caller>>

RunInLoopSelf(f) ==
    /\ OnLoopThread
    /\ Fresh(f)
    /\ inlined' = inlined \cup {f}
    /\ UNCHANGED <<loopVars, quit, pendingFunctors, wakeupFd, caller, submitted, ran>>

QuitSelf ==
    /\ OnLoopThread
    /\ quit' = TRUE
    /\ UNCHANGED <<loopVars, pendingFunctors, wakeupFd, caller, history>>
-----------------------------------------------------------------------------
(* Calls made by any other thread. *)

QueueInLoop(t, f) ==
    /\ caller[t] = "idle"
    /\ EmplaceBack(f)
    /\ caller' = [caller EXCEPT ![t] = "wakeup"]
    /\ UNCHANGED <<loopVars, quit, wakeupFd>>

Quit_NoWakeup(t) ==
    /\ caller[t] = "idle"
    /\ quit' = TRUE
    /\ UNCHANGED <<loopVars, pendingFunctors, wakeupFd, caller, history>>

Quit(t) ==
    /\ caller[t] = "idle"
    /\ quit' = TRUE
    /\ caller' = [caller EXCEPT ![t] = "wakeup"]
    /\ UNCHANGED <<loopVars, pendingFunctors, wakeupFd, history>>

(* wakeup(), the last step of either call. *)
Wakeup(t) ==
    /\ caller[t] = "wakeup"
    /\ wakeupFd' = TRUE
    /\ caller' = [caller EXCEPT ![t] = "idle"]
    /\ UNCHANGED <<loopVars, quit, pendingFunctors, history>>
-----------------------------------------------------------------------------
LoopStep ==
    \/ LoopBegin
    \/ LoopTest
    \/ Poll
    \/ HandleRead
    \/ HandleEvent
    \/ DoPendingFunctors
    \/ RunFunctor
    \/ CallbackReturn
    \/ DoPendingFunctorsEnd

CallbackCall == QuitSelf \/ \E f \in Functors : QueueInLoopSelf(f) \/ RunInLoopSelf(f)

ThreadCall(t) == Quit(t) \/ \E f \in Functors : QueueInLoop(t, f)

Next ==
    \/ LoopStep
    \/ PollTimeout
    \/ CallbackCall
    \/ \E t \in Threads : ThreadCall(t) \/ Wakeup(t)

(* Threads are scheduled and callbacks return: the loop's thread keeps moving,
   and a caller inside queueInLoop or quit reaches its wakeup().  In epoll_wait
   the loop's thread moves only when the eventfd is readable: neither other
   I/O nor the ten-second timeout is assumed ever to come. *)
Fairness ==
    /\ WF_vars(LoopStep /\ (pc = "poll" => wakeupFd))
    /\ \A t \in Threads : WF_vars(Wakeup(t))

SafeSpec == Init /\ [][Next]_vars

Spec == SafeSpec /\ Fairness
-----------------------------------------------------------------------------
WakeupComing == wakeupFd \/ \E t \in Threads : caller[t] = "wakeup"

(* No lost wakeup: whenever the loop is in epoll_wait with functors queued, or
   with quit_ set, the eventfd is readable or the thread that queued them (or
   called quit) is about to write it.  EventLoop.cpp:64, 81 and 98 each
   contribute a wakeup() without which the loop would sleep on the work. *)
NoLostWakeup == pc = "poll" /\ (pendingFunctors # <<>> \/ quit) => WakeupComing

(* Nothing lost, duplicated or reordered by the swap of doPendingFunctors:
   what ran, what is left of the swapped vector and what is still pending are
   together exactly the queueInLoop calls, in the order they were made. *)
FunctorsInOrder == ran \o functors \o pendingFunctors = submitted

(* A quit() made once the loop has started makes loop() return. *)
QuitStopsLoop == (quit /\ pc # "created") ~> (pc = "exited")

(* The FIFO promise of FunctorQueue, read off the loop's state. *)
Promise == INSTANCE FunctorQueue
    WITH queue <- functors \o pendingFunctors, closed <- (pc = "exited")

(* The reactor implements the abstract queue: every step of loop(), runInLoop,
   queueInLoop and quit is a step or a stutter of it, and its promise that the
   queue keeps moving until the loop is closed is kept. *)
ImplementsFunctorQueue == Promise!Spec
=============================================================================
