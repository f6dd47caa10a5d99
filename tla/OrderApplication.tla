-------------------------- MODULE OrderApplication --------------------------
(***************************************************************************)
(* The order server from main() to its exit: OrderApplication::start and   *)
(* stop, the main loop with the AMQP connection's channel (MQClient,       *)
(* MQHandler, MQConsumer, OrderEventConsumer, MQEventRouter), the io       *)
(* threads, whose requests use the application's members, a signal, and    *)
(* the destruction of the members in reverse order of declaration.  The    *)
(* loops are reduced to what they show here (see EventLoop): quit_ is      *)
(* looked at between two batches of events.                                *)
(***************************************************************************)
EXTENDS Naturals, Sequences, SequencesExt

CONSTANT IoThreads

VARIABLES
    main,       \* what the main thread does next
    quit,       \* quit_ of the main loop
    started,    \* started_
    useTLS,     \* options_.enableTLS
    alive,      \* members that exist
    routing,    \* running_ of MQEventRouter and of OrderEventConsumer
    poolOpen,   \* the MySQL pool takes tasks
    mq,         \* the AMQP connection's Channel, as MQHandler has it
    polled,     \* epoll holds a pointer to that Channel
    deleting,   \* the functor that deletes it is queued
    io,         \* where each io thread is in its loop
    ioQuit,     \* io threads whose loop's quit_ is set
    told,       \* history: io threads whose loop quit() was called on
    forgot,     \* history: those whose loop() cleared that quit_ again
    work,       \* the members a thread's request has still to use
    after,      \* history: batches a thread began after it was told to quit, up to 2
    misused,    \* history: threads that used a destroyed member
    signalled   \* history: a signal came while the main loop ran

appVars == <<started, useTLS, alive, routing, poolOpen>>
mqVars == <<mq, polled, deleting>>
ioVars == <<io, ioQuit, told, forgot, work, after, misused>>
vars == <<main, quit, appVars, mqVars, ioVars, signalled>>

Storage == {"orderRepository", "orderCache"}
Queue == {"mqClient", "mqProducer", "mqConsumer"}
Handlers == {"inventoryService", "orderService", "createHandler", "queryHandler"}

(* The members in the order they are destroyed. *)
Destruction == <<"queryHandler", "createHandler", "mqRouter", "inventoryService",
                 "orderService", "orderRepository", "orderCache", "orderConsumer",
                 "mqConsumer", "mqProducer", "mqClient">>

(* The members a request uses, in order: none, those of a POST and of a GET of
   /orders.  Without a queue nothing is published. *)
Publish == IF mq = "none" THEN <<>> ELSE <<"mqProducer">>
Requests == {<<>>,
             <<"createHandler", "inventoryService">> \o Publish
                 \o <<"orderRepository", "orderCache">> \o Publish,
             <<"queryHandler", "orderCache", "orderRepository", "orderCache">>}

LoopSteps == {"poll", "read", "write", "functors", "check"}

TypeOK ==
    /\ main \in {"boot", "storage", "queue", "handlers", "warmup", "http", "router", "enter",
                 "stop", "stopHttp", "stopPool", "destroy", "join", "joining", "exited", "aborted"} \cup LoopSteps
    /\ quit \in BOOLEAN /\ started \in BOOLEAN /\ useTLS \in BOOLEAN
    /\ alive \subseteq ToSet(Destruction)
    /\ routing \in BOOLEAN /\ poolOpen \in BOOLEAN
    /\ mq \in {"none", "watched", "released", "deleted"} /\ deleting \in BOOLEAN
    /\ polled \in BOOLEAN
    /\ io \in [IoThreads -> {"off", "begin", "top", "poll", "batch", "left"}]
    /\ ioQuit \subseteq told /\ forgot \subseteq told /\ told \subseteq IoThreads
    /\ misused \subseteq IoThreads
    /\ \A t \in IoThreads : after[t] \in 0..2
    /\ signalled \in BOOLEAN

Init ==
    /\ main = "boot" /\ quit = FALSE /\ started = FALSE /\ useTLS \in BOOLEAN
    /\ alive = {} /\ routing = FALSE /\ poolOpen = FALSE
    /\ mq = "none" /\ polled = FALSE /\ deleting = FALSE
    /\ io = [t \in IoThreads |-> "off"] /\ ioQuit = {} /\ told = {} /\ forgot = {}
    /\ work = [t \in IoThreads |-> <<>>] /\ after = [t \in IoThreads |-> 0]
    /\ misused = {} /\ signalled = FALSE
-----------------------------------------------------------------------------
(* HandleSignal, once g_loop is set and until the process is gone: quit(). *)
HandleSignal ==
    /\ main \notin {"boot", "exited", "aborted"}
    /\ quit' = TRUE
    /\ signalled' = (signalled \/ main \in LoopSteps)
    /\ UNCHANGED <<main, appVars, mqVars, ioVars>>

(* The exception that leaves start() destroys the application, of which started_
   is not set, and main returns 1. *)
Unwind == main' = "stop"

Goto(from, to) == main = from /\ main' = to

(* main up to app.start(); without a configuration it returns 1. *)
Boot ==
    /\ main = "boot" /\ main' \in {"storage", "exited"}
    /\ UNCHANGED <<quit, appVars, mqVars, ioVars, signalled>>

(* initStorage: a bad configuration, or a schema that cannot be made, throws; a
   database that cannot be reached aborts in CreateInitialConnections. *)
InitStorage ==
    /\ main = "storage"
    /\ \/ main' = "queue" /\ alive' = Storage /\ poolOpen' = TRUE
       \/ main' = "aborted" /\ UNCHANGED <<alive, poolOpen>>
       \/ Unwind /\ alive' \in {{}, {"orderRepository"}} /\ poolOpen' = (alive' # {})
    /\ UNCHANGED <<quit, started, useTLS, routing, mqVars, ioVars, signalled>>

(* MQHandler::monitor with flags other than 0 makes the channel and enables it. *)
Monitor ==
    /\ mq' = "watched" /\ polled' = TRUE
    /\ UNCHANGED deleting

(* initMessageQueue: without a valid configuration there is no queue, and an
   address that cannot be parsed throws. *)
InitMessageQueue ==
    /\ main = "queue"
    /\ \/ main' = "handlers" /\ alive' = alive \cup Queue /\ Monitor
       \/ main' = "handlers" /\ UNCHANGED <<alive, mqVars>>
       \/ Unwind /\ UNCHANGED <<alive, mqVars>>
    /\ UNCHANGED <<quit, started, useTLS, routing, poolOpen, ioVars, signalled>>

(* initHandlers and initRoutes. *)
InitHandlers ==
    /\ Goto("handlers", "warmup")
    /\ alive' = alive \cup Handlers
                  \cup (IF "mqConsumer" \in alive THEN {"orderConsumer", "mqRouter"} ELSE {})
    /\ UNCHANGED <<quit, started, useTLS, routing, poolOpen, mqVars, ioVars, signalled>>

(* warmupCache catches what the query throws. *)
WarmupCache == Goto("warmup", "http") /\ UNCHANGED <<quit, appVars, mqVars, ioVars, signalled>>

(* HttpServer::start: with TLS on and no TLSContext, which nothing sets, LOG_FATAL
   aborts; otherwise the io threads have published their loops, which they are about
   to enter. *)
StartHttp ==
    /\ main = "http"
    /\ IF useTLS THEN main' = "aborted" /\ UNCHANGED io
       ELSE main' = "router" /\ io' = [t \in IoThreads |-> "begin"]
    /\ UNCHANGED <<quit, appVars, mqVars, ioQuit, told, forgot, work, after, misused, signalled>>

(* mqRouter_->Start() and the end of start(). *)
StartRouter ==
    /\ Goto("router", "enter")
    /\ routing' = ("mqRouter" \in alive) /\ started' = TRUE
    /\ UNCHANGED <<quit, useTLS, alive, poolOpen, mqVars, ioVars, signalled>>
-----------------------------------------------------------------------------
(* EventLoop::loop begins by clearing quit_. *)
Enter ==
    /\ Goto("enter", "check")
    /\ quit' = FALSE
    /\ UNCHANGED <<appVars, mqVars, ioVars, signalled>>

Check_Clears ==
    /\ Goto("check", "poll")
    /\ quit' = FALSE
    /\ UNCHANGED <<appVars, mqVars, ioVars, signalled>>

Check ==
    /\ main = "check"
    /\ main' = IF quit THEN "stop" ELSE "poll"
    /\ UNCHANGED <<quit, appVars, mqVars, ioVars, signalled>>

Poll ==
    /\ main = "poll"
    /\ main' \in (IF polled THEN {"read", "functors"} ELSE {"functors"})
    /\ UNCHANGED <<quit, appVars, mqVars, ioVars, signalled>>

Unregister_Now == mq' = "deleted" /\ UNCHANGED deleting

(* MQHandler::unregister gives the channel up and queues its deletion. *)
Unregister == mq' = "released" /\ deleting' = TRUE

(* OrderEventConsumer::handleMessage and MQEventRouter::routeMessage: nothing is
   routed once running_ is cleared, a message of an event with no handler is
   dropped, what a handler throws is caught, and the handlers only log. *)
HandleMessage == UNCHANGED mqVars

(* The library at the end of the connection: monitor(0), then close(), by which
   epoll forgets the descriptor. *)
ConnectionEnds == Unregister /\ polled' = FALSE

(* The channel's read callback, AMQP's process. *)
ReadEvent ==
    /\ Goto("read", "write")
    /\ HandleMessage \/ ConnectionEnds
    /\ UNCHANGED <<quit, appVars, ioVars, signalled>>

(* handleEventWithGuard goes on with the same channel: the write callback finds
   closed_ set after monitor(0), and else may end the connection itself. *)
WriteEvent ==
    /\ Goto("write", "functors")
    /\ UNCHANGED mqVars \/ (mq = "watched" /\ ConnectionEnds)
    /\ UNCHANGED <<quit, appVars, ioVars, signalled>>

(* The queued functor: remove(), which leaves epoll as it is, and delete. *)
DoPendingFunctors ==
    /\ Goto("functors", "check")
    /\ mq' = IF deleting THEN "deleted" ELSE mq
    /\ deleting' = FALSE
    /\ UNCHANGED <<quit, appVars, polled, ioVars, signalled>>
-----------------------------------------------------------------------------
(* ~OrderApplication: stop() does nothing unless start() came to its end. *)
Stop ==
    /\ main = "stop"
    /\ main' = IF started THEN "stopHttp" ELSE "destroy"
    /\ routing' = IF started THEN FALSE ELSE routing
    /\ UNCHANGED <<quit, started, useTLS, alive, poolOpen, mqVars, ioVars, signalled>>

QuitIoLoops_Nobody == UNCHANGED <<ioQuit, told>>

(* quit() for every io loop. *)
QuitIoLoops == ioQuit' = IoThreads /\ told' = IoThreads

(* A loop may see quit_, return and be gone before the wakeup() of that quit(), which
   is then undefined (see EventLoopThreadPool) and may end the process. *)
GoneLoop == IoThreads # {} /\ main' = "aborted"

(* TcpServer::stop: quit() and wakeup() for every io loop; no thread is joined. *)
StopHttp ==
    /\ Goto("stopHttp", "stopPool") \/ (main = "stopHttp" /\ GoneLoop)
    /\ QuitIoLoops /\ quit' = TRUE
    /\ UNCHANGED <<appVars, mqVars, io, forgot, work, after, misused, signalled>>

(* MySQLConnPool::Shutdown answers every waiting task: see MySQLConnPool. *)
StopPool ==
    /\ Goto("stopPool", "destroy")
    /\ poolOpen' = FALSE /\ started' = FALSE
    /\ UNCHANGED <<quit, useTLS, alive, routing, mqVars, ioVars, signalled>>

(* The members, one by one.  ~MQClient runs on the loop's thread: close() and
   unregister() at once, whose functor no loop is left to run. *)
Destroy ==
    /\ main = "destroy"
    /\ LET left == SelectSeq(Destruction, LAMBDA m : m \in alive)
       IN  IF left = <<>> THEN main' = "join" /\ UNCHANGED <<alive, mqVars>>
           ELSE /\ alive' = alive \ {Head(left)}
                /\ IF Head(left) = "mqClient" /\ mq = "watched" THEN ConnectionEnds
                   ELSE UNCHANGED mqVars
                /\ UNCHANGED main
    /\ UNCHANGED <<quit, started, useTLS, routing, poolOpen, ioVars, signalled>>

(* httpServer_ goes last: ~EventLoopThread quits its loop and joins its thread. *)
BeginJoin ==
    /\ Goto("join", "joining") \/ (main = "join" /\ GoneLoop)
    /\ QuitIoLoops
    /\ UNCHANGED <<quit, appVars, mqVars, io, forgot, work, after, misused, signalled>>

Join ==
    /\ Goto("joining", "exited")
    /\ \A t \in IoThreads : io[t] \in {"off", "left"}
    /\ UNCHANGED <<quit, appVars, mqVars, ioVars, signalled>>
-----------------------------------------------------------------------------
(* An io loop: loop() clears quit_, then quit_, epoll_wait, the events of one batch. *)
IoBegin(t) ==
    /\ io[t] = "begin"
    /\ io' = [io EXCEPT ![t] = "top"]
    /\ ioQuit' = ioQuit \ {t} /\ forgot' = forgot \cup (ioQuit \cap {t})
    /\ UNCHANGED <<main, quit, appVars, mqVars, told, work, after, misused, signalled>>

IoCheck(t) ==
    /\ io[t] = "top"
    /\ io' = [io EXCEPT ![t] = IF t \in ioQuit THEN "left" ELSE "poll"]
    /\ UNCHANGED <<main, quit, appVars, mqVars, ioQuit, told, forgot, work, after, misused, signalled>>

IoPoll(t) ==
    /\ io[t] = "poll"
    /\ io' = [io EXCEPT ![t] = "batch"]
    /\ \E r \in Requests : work' = [work EXCEPT ![t] = r]
    /\ after' = [after EXCEPT ![t] = IF t \in told /\ @ < 2 THEN @ + 1 ELSE @]
    /\ UNCHANGED <<main, quit, appVars, mqVars, ioQuit, told, forgot, misused, signalled>>

(* What is left of a request after a use of m: all the rest, or, after an error or
   a hit in the cache, nothing.  A pool that is shut down breaks the promise. *)
Onward(m, rest) == IF m = "orderRepository" /\ ~poolOpen THEN {<<>>} ELSE {rest, <<>>}

(* The request's next use of a member.  What a use of a destroyed one does is
   undefined: the request ends here. *)
IoUse(t) ==
    /\ io[t] = "batch" /\ work[t] # <<>>
    /\ LET m == Head(work[t])
       IN  \/ /\ m \in alive
              /\ \E rest \in Onward(m, Tail(work[t])) : work' = [work EXCEPT ![t] = rest]
              /\ UNCHANGED misused
           \/ /\ m \notin alive
              /\ work' = [work EXCEPT ![t] = <<>>]
              /\ misused' = misused \cup {t}
    /\ UNCHANGED <<main, quit, appVars, mqVars, io, ioQuit, told, forgot, after, signalled>>

IoDone(t) ==
    /\ io[t] = "batch" /\ work[t] = <<>>
    /\ io' = [io EXCEPT ![t] = "top"]
    /\ UNCHANGED <<main, quit, appVars, mqVars, ioQuit, told, forgot, work, after, misused, signalled>>
-----------------------------------------------------------------------------
MainStep ==
    \/ Boot \/ InitStorage \/ InitMessageQueue \/ InitHandlers \/ WarmupCache
    \/ StartHttp \/ StartRouter \/ Enter \/ Check \/ Poll \/ ReadEvent \/ WriteEvent
    \/ DoPendingFunctors \/ Stop \/ StopHttp \/ StopPool \/ Destroy \/ BeginJoin \/ Join

IoStep(t) ==
    main # "aborted" /\ (IoBegin(t) \/ IoCheck(t) \/ IoPoll(t) \/ IoUse(t) \/ IoDone(t))

Ended == main \in {"exited", "aborted"} /\ UNCHANGED vars

Next == MainStep \/ HandleSignal \/ Ended \/ \E t \in IoThreads : IoStep(t)

(* A thread that can run does: epoll_wait has a timeout, and a request's waits end
   (see MySQLConnPool and RedisPool). *)
Fairness == WF_vars(MainStep) /\ \A t \in IoThreads : WF_vars(IoStep(t))

Spec == Init /\ [][Next]_vars /\ Fairness
-----------------------------------------------------------------------------
(* A signal that comes while loop() runs ends the process: the loop leaves, the
   application stops, the io threads are joined (main.cpp:22).  One that comes
   between g_loop's store and loop() is forgotten, since loop() clears quit_; so is
   the quit() of ~EventLoopThread by an io thread that has still to enter loop(),
   and the join then waits for ever.  A use of a destroyed member, see LastBatchOnly,
   or of a loop that is gone may end the process in any way. *)
SignalStopsServer ==
    signalled ~> \/ main \in {"exited", "aborted"}
                 \/ misused # {}
                 \/ main = "joining" /\ ioQuit # IoThreads

(* The types, and: stop() does not wait for the io threads, and the handlers are destroyed before
   they are joined (OrderApplication.cpp:80): a destroyed member is only ever used
   by a loop that was told to quit, in the one batch it may still handle, unless that
   loop was entered after the quit() and forgot it (EventLoop.cpp:63). *)
LastBatchOnly ==
    /\ TypeOK
    /\ \A t \in IoThreads \ forgot : after[t] <= 1
    /\ misused \subseteq told

(* The queued deletion (MQHandler.h:29) outlives the dispatch: the Channel of the
   AMQP connection exists through both callbacks of an event of its own, and epoll
   reports it no more once it is deleted. *)
MqChannelKept ==
    /\ main \in {"read", "write"} => mq # "deleted"
    /\ mq = "deleted" => ~polled
=============================================================================
