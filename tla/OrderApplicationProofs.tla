----------------------- MODULE OrderApplicationProofs -----------------------
(***************************************************************************)
(* Proofs about OrderApplication for any set of io threads: what a request *)
(* can still use while the application stops, and the life of MQHandler's  *)
(* Channel.                                                                *)
(***************************************************************************)
EXTENDS OrderApplication, SequenceTheorems, TLAPS

(* The members a request can use. *)
Uses == Storage \cup Handlers \cup (IF mq = "none" THEN {} ELSE {"mqProducer"})

Starting == {"boot", "storage", "queue", "handlers", "warmup", "http"}
Serving == {"router", "enter", "stop", "stopHttp"} \cup LoopSteps

(* Before HttpServer::start no io thread runs.  From then on until the io loops are
   told to quit, the main thread is serving, on its way there, or in the first step
   of stop(), and every member a request can use exists. *)
ServeInv ==
    /\ work \in [IoThreads -> Seq(Uses)]
    /\ main \in Starting =>
           told = {} /\ \A t \in IoThreads : io[t] = "off" /\ work[t] = <<>>
    /\ main \in {"boot", "storage", "queue"} => mq = "none"
    /\ main \in {"queue", "handlers", "warmup", "http"} => Storage \subseteq alive
    /\ main = "handlers" => Uses \subseteq alive \cup Handlers
    /\ main \in {"warmup", "http"} => Uses \subseteq alive
    /\ main \in LoopSteps \cup {"enter"} => started
    /\ \A t \in IoThreads : io[t] # "off" /\ t \notin told =>
           main \in Serving /\ (main # "router" => started) /\ Uses \subseteq alive

(* A loop that has been told to quit has quit_ set, unless it was entered later, and
   reaches its test of quit_ after one batch. *)
BatchInv ==
    /\ after \in [IoThreads -> 0..2]
    /\ told \subseteq ioQuit \cup forgot
    /\ \A t \in IoThreads : io[t] = "begin" => after[t] = 0
    /\ \A t \in IoThreads \ forgot :
           after[t] <= 1 /\ (after[t] = 1 => t \in told /\ io[t] # "poll")
    /\ misused \subseteq told

(* epoll holds the Channel exactly while MQHandler watches it, a queued deletion is
   of a released one, and no deletion runs during a dispatch. *)
ChannelInv ==
    /\ polled <=> mq = "watched"
    /\ deleting => mq = "released"
    /\ main = "read" => mq = "watched"
    /\ main = "write" => mq \in {"watched", "released"}

AppInv == TypeOK /\ ChannelInv /\ ServeInv /\ BatchInv
-----------------------------------------------------------------------------
(* Zenon proves each leaf that names no other prover. *)
USE ZenonT(30)

(* What destroying one member changes: members only go, and a watched channel is
   released with the MQClient. *)
LEMMA DestroyStep ==
    ASSUME Destroy
    PROVE  /\ main = "destroy" /\ main' \in {"destroy", "join"}
           /\ alive' \subseteq alive
           /\ \/ UNCHANGED mqVars
              \/ mq = "watched" /\ mq' = "released" /\ deleting' = TRUE /\ polled' = FALSE
           /\ UNCHANGED <<quit, started, useTLS, routing, poolOpen, ioVars, signalled>>
  BY DEF Destroy, ConnectionEnds, Unregister

(* Each step keeps the channel's state where ChannelInv says. *)
LEMMA ChannelStep == TypeOK /\ ChannelInv /\ ServeInv /\ [Next]_vars => ChannelInv'
  <1> SUFFICES ASSUME TypeOK, ChannelInv, ServeInv, [Next]_vars PROVE ChannelInv'
    OBVIOUS
  <1> USE DEF ChannelInv
  <1>1. CASE UNCHANGED mqVars /\ (main' = main \/ main' \notin {"read", "write"})
    BY <1>1 DEF mqVars
  <1>2. CASE InitStorage \/ Boot \/ InitHandlers \/ WarmupCache \/ StartHttp \/ StartRouter
    BY <1>1, <1>2 DEF InitStorage, Unwind, Boot, InitHandlers, WarmupCache, StartHttp,
       StartRouter, Goto
  <1>3. CASE InitMessageQueue
    BY <1>1, <1>3, SMTT(30) DEF InitMessageQueue, Monitor, Unwind, mqVars, ServeInv
  <1>4. CASE Enter \/ Check \/ Stop \/ StopHttp \/ StopPool \/ BeginJoin \/ Join
    BY <1>1, <1>4 DEF Enter, Check, Stop, StopHttp, StopPool, BeginJoin, Join, GoneLoop, Goto
  <1>5. CASE Poll
    BY <1>5 DEF Poll, mqVars
  <1>6. CASE ReadEvent
    <2>1. main = "read" /\ main' = "write" /\ mq = "watched" /\ polled
      BY <1>6 DEF ReadEvent, Goto
    <2>2. CASE HandleMessage
      <3>1. mq' = mq /\ polled' = polled /\ deleting' = deleting
        BY <2>2 DEF HandleMessage, mqVars
      <3> QED
        BY <2>1, <3>1
    <2>3. CASE ConnectionEnds
      <3>1. mq' = "released" /\ ~polled'
        BY <2>3 DEF ConnectionEnds, Unregister
      <3> QED
        BY <2>1, <3>1
    <2> QED
      BY <1>6, <2>2, <2>3 DEF ReadEvent
  <1>7. CASE DoPendingFunctors
    BY <1>7 DEF DoPendingFunctors, Goto
  <1>11. CASE WriteEvent
    <2>1. main' = "functors"
      BY <1>11 DEF WriteEvent, Goto
    <2>2. CASE UNCHANGED mqVars
      BY <1>1, <2>1, <2>2
    <2>3. CASE ConnectionEnds
      BY <2>1, <2>3 DEF ConnectionEnds, Unregister
    <2> QED
      BY <1>11, <2>2, <2>3 DEF WriteEvent
  <1>8. CASE Destroy
    <2>1. main' \notin {"read", "write"}
      BY <1>8, DestroyStep
    <2>2. UNCHANGED mqVars \/ (mq' = "released" /\ ~polled')
      BY <1>8, DestroyStep
    <2> QED
      BY <1>1, <2>1, <2>2
  <1>9. CASE HandleSignal \/ Ended \/ UNCHANGED vars
    BY <1>1, <1>9 DEF HandleSignal, Ended, vars
  <1>10. ASSUME NEW t \in IoThreads, IoStep(t) PROVE ChannelInv'
    BY <1>1, <1>10 DEF IoStep, IoBegin, IoCheck, IoPoll, IoUse, IoDone
  <1> QED
    BY <1>2, <1>3, <1>4, <1>5, <1>6, <1>7, <1>8, <1>9, <1>10, <1>11 DEF Next, MainStep

(* Every step keeps the types. *)
LEMMA AppTypeStep == TypeOK /\ ChannelInv /\ BatchInv /\ [Next]_vars => TypeOK'
  <1> SUFFICES ASSUME TypeOK, ChannelInv, BatchInv, [Next]_vars PROVE TypeOK'
    OBVIOUS
  <1> USE DEF TypeOK, LoopSteps, appVars, mqVars, ioVars
  <1>0. Storage \cup Queue \cup Handlers \cup {"orderConsumer", "mqRouter"} \subseteq ToSet(Destruction)
    BY SMTT(30) DEF Storage, Queue, Handlers, ToSet, Destruction
  <1>1. CASE Boot \/ WarmupCache \/ Check \/ Poll \/ Join
    BY <1>1, SMTT(30) DEF Boot, WarmupCache, Check, Poll, Join, Goto
  <1>2. CASE InitStorage
    <2>1. alive' \subseteq ToSet(Destruction)
      BY <1>0, <1>2 DEF InitStorage, Storage
    <2>2. poolOpen' \in BOOLEAN
      BY <1>2 DEF InitStorage
    <2> QED
      BY <1>2, <2>1, <2>2, SMTT(30) DEF InitStorage, Unwind
  <1>3. CASE InitMessageQueue
    <2>1. polled' \in BOOLEAN /\ deleting' \in BOOLEAN
      BY <1>3 DEF InitMessageQueue, Monitor
    <2>2. alive' \subseteq ToSet(Destruction)
      BY <1>0, <1>3 DEF InitMessageQueue
    <2>3. mq' \in {"none", "watched", "released", "deleted"}
      BY <1>3 DEF InitMessageQueue, Monitor
    <2> QED
      BY <1>3, <2>1, <2>2, <2>3 DEF InitMessageQueue, Unwind
  <1>4. CASE InitHandlers
    BY <1>0, <1>4, SMTT(30) DEF InitHandlers, Goto
  <1>5. CASE StartHttp
    BY <1>5, SMTT(30) DEF StartHttp
  <1>6. CASE StartRouter
    BY <1>6, SMTT(30) DEF StartRouter, Goto
  <1>7. CASE Enter \/ Stop \/ StopPool
    <2>1. quit' \in BOOLEAN /\ started' \in BOOLEAN /\ routing' \in BOOLEAN /\ poolOpen' \in BOOLEAN
      BY <1>7 DEF Enter, Stop, StopPool
    <2> QED
      BY <1>7, <2>1 DEF Enter, Stop, StopPool, Goto
  <1>8. CASE ReadEvent \/ WriteEvent
    <2>1. /\ mq' \in {"none", "watched", "released", "deleted"}
          /\ polled' \in BOOLEAN /\ deleting' \in BOOLEAN
      BY <1>8 DEF ReadEvent, WriteEvent, HandleMessage, ConnectionEnds, Unregister
    <2>2. main' \in LoopSteps /\ UNCHANGED <<quit, appVars, ioVars, signalled>>
      BY <1>8 DEF ReadEvent, WriteEvent, Goto
    <2> QED
      BY <2>1, <2>2
  <1>9. CASE DoPendingFunctors
    BY <1>9 DEF DoPendingFunctors, Goto
  <1>10. CASE StopHttp \/ BeginJoin
    <2>1. quit' \in BOOLEAN
      BY <1>10 DEF StopHttp, BeginJoin
    <2> QED
      BY <1>10, <2>1, SMTT(30) DEF StopHttp, BeginJoin, QuitIoLoops, GoneLoop, Goto
  <1>11. CASE Destroy
    <2>1. polled' \in BOOLEAN /\ deleting' \in BOOLEAN
      BY <1>11, DestroyStep
    <2>2. mq' \in {"none", "watched", "released", "deleted"}
      BY <1>11, DestroyStep
    <2>3. main' \in {"destroy", "join"} /\ alive' \subseteq alive
      BY <1>11, DestroyStep
    <2>4. UNCHANGED <<quit, started, useTLS, routing, poolOpen, ioVars, signalled>>
      BY <1>11, DestroyStep
    <2> QED
      BY <2>1, <2>2, <2>3, <2>4
  <1>12. CASE HandleSignal
    BY <1>12, SMTT(30) DEF HandleSignal
  <1>13. ASSUME NEW t \in IoThreads, IoBegin(t) \/ IoCheck(t) \/ IoDone(t) PROVE TypeOK'
    BY <1>13, SMTT(30) DEF IoBegin, IoCheck, IoDone
  <1>14. ASSUME NEW t \in IoThreads, IoPoll(t) PROVE TypeOK'
    BY <1>14, SMTT(30) DEF IoPoll, BatchInv
  <1>15. ASSUME NEW t \in IoThreads, IoUse(t) PROVE TypeOK'
    BY <1>15, SMTT(30) DEF IoUse
  <1>16. CASE Ended \/ UNCHANGED vars
    BY <1>16, SMTT(30) DEF Ended, vars
  <1> QED
    BY <1>1, <1>2, <1>3, <1>4, <1>5, <1>6, <1>7, <1>8, <1>9, <1>10, <1>11, <1>12, <1>13,
       <1>14, <1>15, <1>16 DEF Next, MainStep, IoStep

(* The members the requests of one batch use, for every request of Requests. *)
LEMMA RequestsUse == \A r \in Requests : r \in Seq(Uses)
  <1>1. Publish \in Seq(Uses)
    <2>1. CASE mq = "none"
      BY <2>1, SMTT(30) DEF Publish
    <2>2. CASE mq # "none"
      <3>1. "mqProducer" \in Uses
        BY <2>2 DEF Uses
      <3> QED
        BY <2>2, <3>1, SMTT(30) DEF Publish
    <2> QED
      BY <2>1, <2>2
  <1>2. /\ "createHandler" \in Uses /\ "inventoryService" \in Uses /\ "queryHandler" \in Uses
        /\ "orderRepository" \in Uses /\ "orderCache" \in Uses
    BY DEF Uses, Storage, Handlers
  <1> DEFINE create == <<"createHandler", "inventoryService">>
             store == <<"orderRepository", "orderCache">>
             query == <<"queryHandler", "orderCache", "orderRepository", "orderCache">>
  <1>3. <<>> \in Seq(Uses) /\ create \in Seq(Uses) /\ store \in Seq(Uses) /\ query \in Seq(Uses)
    BY <1>2, SMTT(30)
  <1>4. Requests = {<<>>, create \o Publish \o store \o Publish, query}
    BY DEF Requests
  <1> HIDE DEF create, store, query
  <1>5. \A a, b \in Seq(Uses) : a \o b \in Seq(Uses)
    BY ConcatProperties
  <1>6. create \o Publish \in Seq(Uses)
    BY <1>1, <1>3, <1>5
  <1>7. create \o Publish \o store \in Seq(Uses)
    BY <1>3, <1>5, <1>6
  <1>8. create \o Publish \o store \o Publish \in Seq(Uses)
    BY <1>1, <1>5, <1>7
  <1> QED
    BY <1>3, <1>4, <1>8

(* Every step keeps the members an io thread that was not told to quit can use. *)
LEMMA ServeStep == TypeOK /\ ChannelInv /\ ServeInv /\ [Next]_vars => ServeInv'
  <1> SUFFICES ASSUME TypeOK, ChannelInv, ServeInv, [Next]_vars PROVE ServeInv'
    OBVIOUS
  <1> USE DEF ServeInv, Starting, Serving, LoopSteps
  <1>1. ASSUME mq = "none" <=> mq' = "none" PROVE Uses' = Uses
    BY <1>1 DEF Uses
  <1>2. ASSUME UNCHANGED mqVars PROVE Uses' = Uses
    BY <1>2 DEF Uses, mqVars
  <1>3. io \in [IoThreads -> {"off", "begin", "top", "poll", "batch", "left"}]
    BY DEF TypeOK
  <1>4. CASE Boot \/ WarmupCache
    <2>1. Uses' = Uses /\ UNCHANGED <<work, told, io, alive, started, mq>>
      BY <1>2, <1>4 DEF Boot, WarmupCache, mqVars, ioVars, appVars
    <2> QED
      BY <1>4, <2>1 DEF Boot, WarmupCache, Goto
  <1>5. CASE InitStorage
    <2>1. Uses' = Uses /\ UNCHANGED <<work, told, io, started, mq>>
      BY <1>2, <1>5 DEF InitStorage, mqVars, ioVars
    <2>2. /\ main = "storage"
          /\ main' = "aborted" \/ main' = "stop" \/ (main' = "queue" /\ alive' = Storage)
      BY <1>5 DEF InitStorage, Unwind
    <2> QED
      BY <2>1, <2>2
  <1>6. CASE InitMessageQueue
    <2>1. main = "queue" /\ UNCHANGED <<work, told, io, started>>
      BY <1>6 DEF InitMessageQueue, ioVars
    <2>2. work' \in [IoThreads -> Seq(Uses')]
      BY <2>1, EmptySeq
    <2>3. \/ main' = "stop"
          \/ main' = "handlers" /\ Storage \subseteq alive' /\ Uses' \subseteq alive' \cup Handlers
      <3>1. CASE alive' = alive \cup Queue /\ main' = "handlers"
        BY <2>1, <3>1 DEF Uses, Queue
      <3>2. CASE UNCHANGED <<alive, mqVars>> /\ main' = "handlers"
        BY <2>1, <3>2 DEF Uses, mqVars
      <3> QED
        BY <1>6, <3>1, <3>2 DEF InitMessageQueue, Unwind
    <2> QED
      BY <2>1, <2>2, <2>3
  <1>7. CASE InitHandlers
    <2>1. Uses' = Uses /\ UNCHANGED <<work, told, io, started, mq>>
      BY <1>2, <1>7 DEF InitHandlers, mqVars, ioVars
    <2>2. main = "handlers" /\ main' = "warmup" /\ alive \cup Handlers \subseteq alive'
      BY <1>7 DEF InitHandlers, Goto
    <2> QED
      BY <2>1, <2>2
  <1>8. CASE StartHttp
    <2>1. Uses' = Uses /\ UNCHANGED <<work, told, alive, started, mq>>
      BY <1>2, <1>8 DEF StartHttp, mqVars, appVars
    <2>2. main = "http" /\ ((main' = "aborted" /\ io' = io) \/ main' = "router")
      BY <1>8 DEF StartHttp
    <2> QED
      BY <2>1, <2>2
  <1>9. CASE StartRouter
    <2>1. Uses' = Uses /\ UNCHANGED <<work, told, io, alive, mq>>
      BY <1>2, <1>9 DEF StartRouter, mqVars, ioVars
    <2>2. main = "router" /\ main' = "enter" /\ started'
      BY <1>9 DEF StartRouter, Goto
    <2> QED
      BY <2>1, <2>2
  <1>10. CASE Enter \/ Check \/ Poll
    <2>1. Uses' = Uses /\ UNCHANGED <<work, told, io, alive, started, mq>>
      BY <1>2, <1>10 DEF Enter, Check, Poll, mqVars, ioVars, appVars
    <2>2. main \in LoopSteps \cup {"enter"} /\ main' \in LoopSteps \cup {"stop"}
      BY <1>10 DEF Enter, Check, Poll, Goto
    <2> QED
      BY <2>1, <2>2
  <1>11. CASE ReadEvent \/ WriteEvent \/ DoPendingFunctors
    <2>1. UNCHANGED <<work, told, io, alive, started>>
      BY <1>11 DEF ReadEvent, WriteEvent, DoPendingFunctors, ioVars, appVars
    <2>2. main \in LoopSteps /\ main' \in LoopSteps
      BY <1>11 DEF ReadEvent, WriteEvent, DoPendingFunctors, Goto
    <2>3. Uses' = Uses
      <3>1. mq = "none" <=> mq' = "none"
        BY <1>11 DEF ReadEvent, WriteEvent, DoPendingFunctors, Goto, HandleMessage, ConnectionEnds,
           Unregister, mqVars, ChannelInv
      <3> QED
        BY <1>1, <3>1
    <2> QED
      BY <2>1, <2>2, <2>3
  <1>12. CASE Stop
    <2>1. Uses' = Uses /\ UNCHANGED <<work, told, io, alive, started>>
      BY <1>2, <1>12 DEF Stop, mqVars, ioVars
    <2>2. main = "stop" /\ main' \in {"stopHttp", "destroy"} /\ (started => main' = "stopHttp")
      BY <1>12 DEF Stop
    <2> QED
      BY <2>1, <2>2
  <1>13. CASE StopHttp \/ BeginJoin
    <2>1. Uses' = Uses /\ UNCHANGED <<work, io>> /\ told' = IoThreads
      BY <1>2, <1>13 DEF StopHttp, BeginJoin, QuitIoLoops
    <2>2. main' \in {"stopPool", "joining", "aborted"}
      BY <1>13 DEF StopHttp, BeginJoin, GoneLoop, Goto
    <2> QED
      BY <2>1, <2>2
  <1>14. CASE StopPool \/ Destroy \/ Join
    <2>1. UNCHANGED <<work, told, io>>
      BY <1>14, DestroyStep DEF StopPool, Join, ioVars
    <2>2. Uses' = Uses
      <3>1. mq = "none" <=> mq' = "none"
        BY <1>14, DestroyStep DEF StopPool, Join, mqVars
      <3> QED
        BY <1>1, <3>1
    <2>3. main \in {"stopPool", "destroy", "joining"} /\ main' \in {"destroy", "join", "exited"}
      BY <1>14, DestroyStep DEF StopPool, Join, Goto
    <2> QED
      BY <2>1, <2>2, <2>3
  <1>15. CASE HandleSignal \/ Ended \/ UNCHANGED vars
    <2>1. Uses' = Uses /\ UNCHANGED <<main, work, told, io, alive, started, mq>>
      BY <1>2, <1>15 DEF HandleSignal, Ended, vars, mqVars, ioVars, appVars
    <2> QED
      BY <2>1
  <1>16. ASSUME NEW t \in IoThreads, IoStep(t) PROVE ServeInv'
    <2>1. Uses' = Uses /\ UNCHANGED <<main, told, alive, started, mq>>
      BY <1>2, <1>16 DEF IoStep, IoBegin, IoCheck, IoPoll, IoUse, IoDone, mqVars, appVars
    <2>2. /\ io[t] # "off"
          /\ \A v \in IoThreads : io'[v] # "off" => io[v] # "off"
      BY <1>3, <1>16 DEF IoStep, IoBegin, IoCheck, IoPoll, IoUse, IoDone
    <2>3. work' \in [IoThreads -> Seq(Uses)]
      <3>1. CASE UNCHANGED work
        BY <3>1
      <3>2. CASE IoPoll(t)
        BY <3>2, RequestsUse DEF IoPoll
      <3>3. CASE IoUse(t)
        <4>1. Tail(work[t]) \in Seq(Uses) /\ <<>> \in Seq(Uses)
          BY <3>3, HeadTailProperties, EmptySeq DEF IoUse
        <4>2. \E r \in {Tail(work[t]), <<>>} : work' = [work EXCEPT ![t] = r]
          BY <3>3 DEF IoUse, Onward
        <4> QED
          BY <4>1, <4>2
      <3> QED
        BY <1>16, <3>1, <3>2, <3>3 DEF IoStep, IoBegin, IoCheck, IoDone
    <2>4. main \notin Starting
      BY <2>2
    <2> QED
      BY <2>1, <2>2, <2>3, <2>4
  <1> QED
    BY <1>4, <1>5, <1>6, <1>7, <1>8, <1>9, <1>10, <1>11, <1>12, <1>13, <1>14, <1>15, <1>16
       DEF Next, MainStep

(* A loop told to quit handles at most the batch it was polling for. *)
LEMMA BatchStep == TypeOK /\ ServeInv /\ BatchInv /\ [Next]_vars => BatchInv'
  <1> SUFFICES ASSUME TypeOK, ServeInv, BatchInv, [Next]_vars PROVE BatchInv'
    OBVIOUS
  <1> USE DEF BatchInv
  <1>0. io \in [IoThreads -> {"off", "begin", "top", "poll", "batch", "left"}] /\ told \subseteq IoThreads
    BY DEF TypeOK
  <1>1. CASE /\ UNCHANGED <<io, forgot, after, misused>>
             /\ UNCHANGED <<ioQuit, told>> \/ (ioQuit' = IoThreads /\ told' = IoThreads)
    BY <1>0, <1>1
  <1>2. CASE StartHttp
    <2>1. UNCHANGED <<ioQuit, told, forgot, after, misused>>
      BY <1>2 DEF StartHttp
    <2>2. told = {} /\ io = [t \in IoThreads |-> "off"]
      BY <1>0, <1>2 DEF StartHttp, ServeInv, Starting
    <2>3. forgot = {} /\ after = [t \in IoThreads |-> 0]
      <3>1. forgot = {}
        BY <2>2 DEF TypeOK
      <3>2. \A t \in IoThreads : after[t] <= 1 /\ after[t] # 1
        BY <2>2, <3>1
      <3> QED
        BY <3>1, <3>2, SMTT(30)
    <2> QED
      BY <2>1, <2>2, <2>3, SMTT(30)
  <1>11. ASSUME NEW t \in IoThreads, IoBegin(t) PROVE BatchInv'
    <2>1. /\ io[t] = "begin" /\ io' = [io EXCEPT ![t] = "top"]
          /\ ioQuit' = ioQuit \ {t} /\ forgot' = forgot \cup (ioQuit \cap {t})
          /\ UNCHANGED <<told, after, misused>>
      BY <1>11 DEF IoBegin
    <2> QED
      BY <1>0, <2>1
  <1>3. ASSUME NEW t \in IoThreads, IoCheck(t) PROVE BatchInv'
    <2>1. /\ io[t] = "top" /\ UNCHANGED <<ioQuit, told, forgot, after, misused>>
          /\ io' = [io EXCEPT ![t] = IF t \in ioQuit THEN "left" ELSE "poll"]
      BY <1>3 DEF IoCheck
    <2> QED
      BY <1>0, <2>1
  <1>4. ASSUME NEW t \in IoThreads, IoPoll(t) PROVE BatchInv'
    <2>1. /\ io[t] = "poll" /\ io' = [io EXCEPT ![t] = "batch"]
          /\ after' = [after EXCEPT ![t] = IF t \in told /\ after[t] < 2 THEN after[t] + 1 ELSE after[t]]
          /\ UNCHANGED <<ioQuit, told, forgot, misused>>
      BY <1>4 DEF IoPoll
    <2>2. t \notin forgot => after[t] = 0
      BY <2>1, SMTT(30)
    <2> QED
      BY <1>0, <2>1, <2>2, SMTT(30)
  <1>5. ASSUME NEW t \in IoThreads, IoUse(t) PROVE BatchInv'
    <2>1. UNCHANGED <<io, ioQuit, forgot, after, told>> /\ io[t] = "batch"
      BY <1>5 DEF IoUse
    <2>2. misused' \subseteq told
      <3>1. CASE t \in told
        BY <1>5, <3>1 DEF IoUse
      <3>2. CASE t \notin told
        <4>1. Uses \subseteq alive /\ Head(work[t]) \in Uses
          BY <1>5, <3>2, HeadTailProperties DEF IoUse, ServeInv
        <4> QED
          BY <1>5, <4>1 DEF IoUse
      <3> QED
        BY <3>1, <3>2
    <2> QED
      BY <2>1, <2>2
  <1>6. ASSUME NEW t \in IoThreads, IoDone(t) PROVE BatchInv'
    BY <1>0, <1>6 DEF IoDone
  <1>7. CASE Boot \/ InitStorage \/ InitMessageQueue \/ InitHandlers \/ WarmupCache \/ StartRouter
    BY <1>1, <1>7
       DEF Boot, InitStorage, InitMessageQueue, InitHandlers, WarmupCache, StartRouter,
       ioVars
  <1>8. CASE \/ Enter \/ Check \/ Poll \/ ReadEvent \/ WriteEvent \/ DoPendingFunctors
             \/ HandleSignal \/ Ended \/ UNCHANGED vars
    BY <1>1, <1>8
       DEF Enter, Check, Poll, ReadEvent, WriteEvent, DoPendingFunctors, HandleSignal,
       Ended, vars, ioVars
  <1>9. CASE Stop \/ StopHttp \/ StopPool \/ BeginJoin \/ Join
    BY <1>1, <1>9 DEF Stop, StopHttp, StopPool, BeginJoin, Join, QuitIoLoops, ioVars
  <1>10. CASE Destroy
    BY <1>1, <1>10, DestroyStep DEF ioVars
  <1> QED
    BY <1>2, <1>3, <1>4, <1>5, <1>6, <1>7, <1>8, <1>9, <1>10, <1>11 DEF Next, MainStep, IoStep
-----------------------------------------------------------------------------
(* The inductive invariant holds from main() to the exit. *)
THEOREM AppInvariant == Spec => []AppInv
  <1>1. Init => AppInv
    <2> SUFFICES ASSUME Init PROVE AppInv
      OBVIOUS
    <2>1. /\ quit \in BOOLEAN /\ started \in BOOLEAN /\ useTLS \in BOOLEAN
          /\ routing \in BOOLEAN /\ poolOpen \in BOOLEAN /\ deleting \in BOOLEAN
          /\ polled \in BOOLEAN /\ signalled \in BOOLEAN /\ ~polled /\ ~deleting
      BY DEF Init
    <2>2. TypeOK
      BY <2>1, SMTT(30) DEF Init, TypeOK
    <2>3. ChannelInv
      BY <2>1 DEF Init, ChannelInv
    <2>4. ServeInv
      BY EmptySeq DEF Init, ServeInv, LoopSteps
    <2>5. BatchInv
      BY SMTT(30) DEF Init, BatchInv
    <2> QED
      BY <2>2, <2>3, <2>4, <2>5 DEF AppInv
  <1>2. AppInv /\ [Next]_vars => AppInv'
    BY AppTypeStep, ChannelStep, ServeStep, BatchStep DEF AppInv
  <1> QED
    BY <1>1, <1>2, PTL DEF Spec

(* With any number of io threads: a destroyed member is used only by a loop that was
   told to quit, and that loop begins at most one batch after it was told, unless it was
   entered after the quit(). *)
THEOREM OnlyTheLastBatch == Spec => []LastBatchOnly
  <1>1. AppInv => LastBatchOnly
    BY SMTT(30) DEF AppInv, BatchInv, LastBatchOnly
  <1> QED
    BY <1>1, AppInvariant, PTL

(* The Channel of the AMQP connection outlives every dispatch of its own events, and
   epoll never holds a deleted one. *)
THEOREM ChannelOutlivesDispatch == Spec => []MqChannelKept
  <1>1. AppInv => MqChannelKept
    BY DEF AppInv, ChannelInv, MqChannelKept
  <1> QED
    BY <1>1, AppInvariant, PTL
=============================================================================
