---------------------------- MODULE FunctorQueue ----------------------------
(***************************************************************************)
(* What EventLoop::runInLoop and EventLoop::queueInLoop promise to a       *)
(* caller, with the threads, the eventfd and the mutex left out: functors  *)
(* handed over while the loop runs elsewhere wait in one FIFO queue, each  *)
(* is run exactly once and in that order, and a functor handed over by the *)
(* loop's own thread through runInLoop runs at once, ahead of the queue.   *)
(* A loop that has left loop() accepts functors and runs none of them.     *)
(***************************************************************************)
EXTENDS Naturals, Sequences, Functions

CONSTANT Functors    \* one name per closure handed to the loop

VARIABLES
    queue,      \* functors accepted and not started, oldest first
    ran,        \* functors started from the queue, in the order they started
    inlined,    \* functors run at once by runInLoop
    closed      \* the loop has left loop()

vars == <<queue, ran, inlined, closed>>

Fresh(f) == f \notin Range(queue) \cup Range(ran) \cup inlined

Init ==
    /\ queue = <<>>
    /\ ran = <<>>
    /\ inlined = {}
    /\ closed = FALSE

Enqueue(f) ==
    /\ Fresh(f)
    /\ queue' = Append(queue, f)
    /\ UNCHANGED <<ran, inlined, closed>>

RunInline(f) ==
    /\ Fresh(f)
    /\ ~closed
    /\ inlined' = inlined \cup {f}
    /\ UNCHANGED <<queue, ran, closed>>

RunNext ==
    /\ ~closed
    /\ queue # <<>>
    /\ ran' = Append(ran, Head(queue))
    /\ queue' = Tail(queue)
    /\ UNCHANGED <<inlined, closed>>

Close ==
    /\ ~closed
    /\ closed' = TRUE
    /\ UNCHANGED <<queue, ran, inlined>>

Next ==
    \/ \E f \in Functors : Enqueue(f) \/ RunInline(f)
    \/ RunNext
    \/ Close

SafeSpec == Init /\ [][Next]_vars

Spec == SafeSpec /\ WF_vars(RunNext)
=============================================================================
