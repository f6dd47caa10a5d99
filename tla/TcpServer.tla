----------------------------- MODULE TcpServer ------------------------------
(***************************************************************************)
(* The life of a connection, from accept to the destruction of its         *)
(* TcpConnection: TcpServer.cpp, TcpConnection.cpp, Channel.cpp and        *)
(* EPollPoller.cpp, on the main loop (acceptor and connection map) and the *)
(* io loop.  Each loop alternates events and functors as EventLoop does;   *)
(* its queue keeps FunctorQueue's promise.  A TcpConnection lives while a  *)
(* shared_ptr to it does: in connections_, captured by a functor (until    *)
(* the whole swapped vector is destroyed), kept by user code, or in its    *)
(* own context_ (TLSConnection::conn_).  The server is destroyed on the    *)
(* main thread once the main loop has left, with or without stop().        *)
(* Output is modelled in TcpOutput.                                        *)
(***************************************************************************)
EXTENDS Naturals, Sequences, FiniteSets

CONSTANTS
    Conns       \* the connections peers open

Loops   == {"main", "io"}
Kinds   == {"established", "remove", "destroyed", "shutdown"}
Functor == Kinds \X Conns

VARIABLES
    ioLoop,         \* the loop connections are given: "main" when setThreadNum(0)
    useTLS,         \* HttpServer's useTLS_
    conn,           \* each TcpConnection: see Record
    connections,    \* TcpServer::connections_
    queue,          \* pendingFunctors_ of each loop
    batch,          \* the vector doPendingFunctors swapped out
    done,           \* how many of its functors have run
    phase,          \* what each loop is doing
    active,         \* activeChannels_ not handled yet
    peer,           \* the other end: see PeerRecord
    held,           \* pointers user code keeps
    racing,         \* user threads between the test and the store of shutdown()
    reaper,         \* the thread running a connection's destructor
    server,         \* the TcpServer: up, in its destructor, joining, gone
    quit,           \* loops whose quit_ is set
    stopped,        \* history: TcpServer::stop was called
    dangling        \* history: a call was made on a loop that is gone

ending == <<server, quit, stopped, dangling>>
serverVars == <<conn, connections, queue, batch, done, phase, active, peer, held, racing,
                reaper, ending>>
vars == <<ioLoop, useTLS, serverVars>>

(* obj: not accepted, alive, Channel freed, socket closed too.  epoll is the
   kernel's registration, which holds the Channel*. *)
Record == [obj : {"none", "live", "freed", "closed"},
           state : {"kConnecting", "kConnected", "kDisconnecting", "kDisconnected"},
           index : {"kNew", "kAdded", "kDeleted"},
           reading : BOOLEAN, epoll : BOOLEAN, context : BOOLEAN]

(* sent: unread data; end: open, FIN, RST, RST whose error has been read;
   shut: this side has called shutdownWrite. *)
PeerRecord == [sent : BOOLEAN, end : {"open", "fin", "rst", "rstRead"}, shut : BOOLEAN]

TypeOK ==
    /\ ioLoop \in Loops /\ useTLS \in BOOLEAN
    /\ conn \in [Conns -> Record]
    /\ connections \subseteq {c \in Conns : conn[c].obj = "live"}
    /\ queue \in [Loops -> Seq(Functor)]
    /\ batch \in [Loops -> Seq(Functor)]
    /\ done \in [Loops -> Nat]
    /\ \A l \in Loops : done[l] <= Len(batch[l])
    /\ phase \in [Loops -> {"poll", "events", "functors", "left"}]
    /\ active \in [Loops -> SUBSET Conns]
    /\ peer \in [Conns -> PeerRecord]
    /\ held \subseteq {c \in Conns : conn[c].obj = "live"}
    /\ racing \subseteq held
    /\ reaper \in [Conns -> Loops \cup {"user", "nobody"}]
    /\ server \in {"up", "destroying", "joining", "gone"} /\ quit \subseteq Loops
    /\ stopped \in BOOLEAN /\ dangling \in BOOLEAN

Init ==
    /\ ioLoop \in Loops /\ useTLS \in BOOLEAN
    /\ conn = [c \in Conns |-> [obj |-> "none", state |-> "kConnecting", index |-> "kNew",
                                reading |-> FALSE, epoll |-> FALSE, context |-> FALSE]]
    /\ connections = {}
    /\ queue = [l \in Loops |-> <<>>]
    /\ batch = [l \in Loops |-> <<>>]
    /\ done = [l \in Loops |-> 0]
    /\ phase = [l \in Loops |-> "poll"]
    /\ active = [l \in Loops |-> {}]
    /\ peer = [c \in Conns |-> [sent |-> FALSE, end |-> "open", shut |-> FALSE]]
    /\ held = {}
    /\ racing = {}
    /\ reaper = [c \in Conns |-> "nobody"]
    /\ server = "up" /\ quit = {} /\ stopped = FALSE /\ dangling = FALSE
-----------------------------------------------------------------------------
(* Channel and EPollPoller, on one connection record r. *)

(* EPollPoller::updateChannel: a channel that is not registered is always
   added, whatever its events. *)
UpdateChannel(r) ==
    IF r.index \in {"kNew", "kDeleted"}
    THEN [r EXCEPT !.index = "kAdded", !.epoll = TRUE]
    ELSE IF r.reading THEN r ELSE [r EXCEPT !.index = "kDeleted", !.epoll = FALSE]

EnableReading(r) == UpdateChannel([r EXCEPT !.reading = TRUE])

DisableAll(r) == UpdateChannel([r EXCEPT !.reading = FALSE])

(* Channel::remove calls updateChannel. *)
Remove(r) == UpdateChannel(r)

Established(r) ==
    EnableReading([r EXCEPT !.state = "kConnected", !.context = useTLS])

Destroyed(r) ==
    Remove(IF r.state = "kConnected"
           THEN DisableAll([r EXCEPT !.state = "kDisconnected"]) ELSE r)

Closed_KeepsReading(r) == [r EXCEPT !.state = "kDisconnected"]

Closed(r) == DisableAll([r EXCEPT !.state = "kDisconnected"])
-----------------------------------------------------------------------------
(* Who keeps a connection alive. *)

Captures(fs, c) == \E k \in DOMAIN fs : fs[k][2] = c

Owned(c) ==
    \/ c \in connections
    \/ c \in held
    \/ conn[c].context
    \/ \E l \in Loops : Captures(queue[l], c) \/ Captures(batch[l], c)

(* The thread whose step drops the last pointer runs the destructor next. *)
DropsLast(th) ==
    reaper' = [c \in Conns |->
        IF conn'[c].obj = "live" /\ reaper[c] = "nobody" /\ ~Owned(c)' THEN th ELSE reaper[c]]

Destroying(th) == \E c \in Conns : reaper[c] = th /\ conn[c].obj # "closed"

(* ~TcpConnection destroys channel_, then socket_, whose close() takes the
   descriptor out of epoll. *)
FreeChannel(c) ==
    /\ reaper[c] # "nobody"
    /\ conn[c].obj = "live"
    /\ conn' = [conn EXCEPT ![c].obj = "freed"]
    /\ UNCHANGED <<connections, queue, batch, done, phase, active, peer, held, racing, reaper, ending>>

CloseSocket(c) ==
    /\ conn[c].obj = "freed"
    /\ conn' = [conn EXCEPT ![c].obj = "closed", ![c].epoll = FALSE]
    /\ UNCHANGED <<connections, queue, batch, done, phase, active, peer, held, racing, reaper, ending>>
-----------------------------------------------------------------------------
(* What epoll reports of c: the hang-up even when no event is asked for. *)
HangUp(c) == peer[c].end \in {"rst", "rstRead"} \/ (peer[c].end = "fin" /\ peer[c].shut)

Readable(c) == peer[c].sent \/ peer[c].end # "open"

Ready(c) == conn[c].epoll /\ (HangUp(c) \/ (conn[c].reading /\ Readable(c)))

Poll(l) ==
    /\ phase[l] = "poll"
    /\ phase' = [phase EXCEPT ![l] = "events"]
    /\ active' = [active EXCEPT ![l] = {c \in Conns : l = ioLoop /\ Ready(c)}]
    /\ UNCHANGED <<conn, connections, queue, batch, done, peer, held, racing, reaper, ending>>

Post(l, f) == queue' = [queue EXCEPT ![l] = Append(@, f)]

RemoveConnectionInLoop_Keeps(c) ==
    /\ UNCHANGED connections
    /\ Post(ioLoop, <<"destroyed", c>>)

RemoveConnectionInLoop_Rebinds(c) ==
    /\ connections' = connections \ {c}
    /\ Post(ioLoop, <<"established", c>>)

RemoveConnectionInLoop(c) ==
    /\ connections' = connections \ {c}
    /\ Post(ioLoop, <<"destroyed", c>>)

(* removeConnection runs at once when the io loop is the main loop. *)
RemoveConnection(c) ==
    \/ ioLoop = "main" /\ RemoveConnectionInLoop(c)
    \/ ioLoop # "main" /\ Post("main", <<"remove", c>>) /\ UNCHANGED connections

(* The error callback of the same dispatch, called on EPOLLERR between the two
   callbacks that may close, has read the socket's error. *)
HandleClose(c) ==
    /\ conn' = [conn EXCEPT ![c] = Closed(@)]
    /\ RemoveConnection(c)
    /\ peer' = [peer EXCEPT ![c].end = IF @ = "rst" THEN "rstRead" ELSE @]
    /\ UNCHANGED held

(* handleRead got data: the message callback may keep the pointer, or call
   shutdown() on the io thread, which half-closes at once.  With TLS it feeds the
   handshake, whose own output nothing flushes, so that onPlainMessage, which
   would replace the context, is never reached. *)
HandleMessage(c) ==
    /\ \E shut \in BOOLEAN :
         LET now == shut /\ conn[c].state = "kConnected" IN
         /\ conn' = IF now THEN [conn EXCEPT ![c].state = "kDisconnecting"] ELSE conn
         /\ peer' = [peer EXCEPT ![c].sent = FALSE, ![c].shut = @ \/ now]
    /\ held' \in {held, held \cup {c}}
    /\ UNCHANGED <<connections, queue>>

(* handleRead got the error of a reset that came after the poll. *)
HandleError(c) ==
    /\ peer' = [peer EXCEPT ![c].end = "rstRead"]
    /\ UNCHANGED <<conn, connections, queue, held>>

HandleRead(c) ==
    \/ peer[c].sent /\ HandleMessage(c)
    \/ ~peer[c].sent /\ peer[c].end = "rst" /\ HandleError(c)
    \/ ~peer[c].sent /\ peer[c].end # "open" /\ HandleClose(c)

(* Channel::handleEvent: nothing if tie_ cannot be locked, the close callback on
   a hang-up without EPOLLIN, else the read callback. *)
HandleEvent(l, c) ==
    /\ phase[l] = "events"
    /\ c \in active[l]
    /\ active' = [active EXCEPT ![l] = @ \ {c}]
    /\ \/ Owned(c) /\ ~conn[c].reading /\ HandleClose(c)
       \/ Owned(c) /\ conn[c].reading /\ HandleRead(c)
       \/ ~Owned(c) /\ UNCHANGED <<conn, connections, queue, peer, held>>
    /\ UNCHANGED <<batch, done, phase, racing, ending>>
    /\ DropsLast(l)

(* Acceptor::handleRead and TcpServer::newConnection.  connectEstablished runs
   at once when the io loop is the main loop. *)
NewConnection(c) ==
    /\ phase["main"] = "events"
    /\ conn[c].obj = "none"
    /\ connections' = connections \cup {c}
    /\ \/ /\ ioLoop = "main"
          /\ conn' = [conn EXCEPT ![c] = Established([@ EXCEPT !.obj = "live"])]
          /\ UNCHANGED queue
       \/ /\ ioLoop # "main"
          /\ conn' = [conn EXCEPT ![c].obj = "live"]
          /\ Post(ioLoop, <<"established", c>>)
    /\ UNCHANGED <<batch, done, phase, active, peer, held, racing, reaper, ending>>
-----------------------------------------------------------------------------
BeginFunctors(l) ==
    /\ phase[l] = "events"
    /\ active[l] = {}
    /\ phase' = [phase EXCEPT ![l] = "functors"]
    /\ batch' = [batch EXCEPT ![l] = queue[l]]
    /\ queue' = [queue EXCEPT ![l] = <<>>]
    /\ UNCHANGED <<conn, connections, done, active, peer, held, racing, reaper, ending>>

RunFunctor(l) ==
    /\ phase[l] = "functors"
    /\ done[l] < Len(batch[l])
    /\ done' = [done EXCEPT ![l] = @ + 1]
    /\ LET kind == batch[l][done[l] + 1][1]
           c    == batch[l][done[l] + 1][2]
       IN  \/ /\ kind = "established"
              /\ conn' = [conn EXCEPT ![c] = Established(@)]
              /\ UNCHANGED <<connections, queue, peer>>
           \/ /\ kind = "remove"
              /\ RemoveConnectionInLoop(c)
              /\ UNCHANGED <<conn, peer>>
           \/ /\ kind = "destroyed"
              /\ conn' = [conn EXCEPT ![c] = Destroyed(@)]
              /\ UNCHANGED <<connections, queue, peer>>
           \/ /\ kind = "shutdown"
              /\ peer' = [peer EXCEPT ![c].shut = TRUE]
              /\ UNCHANGED <<conn, connections, queue>>
    /\ UNCHANGED <<batch, phase, active, held, racing, reaper, ending>>

(* An io loop that has left is destroyed with its queue and its epoll descriptor. *)
Leave(l) ==
    /\ phase' = [phase EXCEPT ![l] = "left"]
    /\ IF l = "main" THEN UNCHANGED <<conn, queue>>
       ELSE /\ conn' = [c \in Conns |-> IF ioLoop = l THEN [conn[c] EXCEPT !.epoll = FALSE] ELSE conn[c]]
            /\ queue' = [queue EXCEPT ![l] = <<>>]

(* The vector of functors is destroyed, and with it what they captured; then the
   test of quit_. *)
EndFunctors(l) ==
    /\ phase[l] = "functors"
    /\ done[l] = Len(batch[l])
    /\ batch' = [batch EXCEPT ![l] = <<>>]
    /\ done' = [done EXCEPT ![l] = 0]
    /\ \/ l \in quit /\ Leave(l)
       \/ l \notin quit /\ phase' = [phase EXCEPT ![l] = "poll"] /\ UNCHANGED <<conn, queue>>
    /\ UNCHANGED <<connections, active, peer, held, racing, ending>>
    /\ DropsLast(l)

LoopStep(l) ==
    /\ ~Destroying(l)
    /\ \/ Poll(l)
       \/ \E c \in Conns : HandleEvent(l, c)
       \/ BeginFunctors(l)
       \/ RunFunctor(l)
       \/ EndFunctors(l)
-----------------------------------------------------------------------------
(* The main thread: a signal ends the main loop; main.cpp's application then calls
   stop(), tests/EchoServer.cpp does not; ~TcpServer runs connectDestroyed of what is
   left on its loop, and the members' destructors quit and join the io loop. *)

QuitMain ==
    /\ quit' = quit \cup {"main"}
    /\ UNCHANGED <<conn, connections, queue, batch, done, phase, active, peer, held, racing,
                   reaper, server, stopped, dangling>>

StopServer ==
    /\ phase["main"] = "left" /\ server = "up"
    /\ quit' = Loops /\ stopped' = TRUE
    /\ UNCHANGED <<conn, connections, queue, batch, done, phase, active, peer, held, racing,
                   reaper, server, dangling>>

(* The destructor goes from one part to the next. *)
DestroyServer(from, to) ==
    /\ server = from /\ server' = to
    /\ phase["main"] = "left" /\ ~Destroying("main")
    /\ to = "joining" => connections = {}
    /\ to = "gone" => phase["io"] = "left" /\ ~Destroying("io")
    /\ quit' = IF to = "joining" THEN Loops ELSE quit
    /\ UNCHANGED <<conn, connections, queue, batch, done, phase, active, peer, held, racing,
                   reaper, stopped, dangling>>

(* runInLoop(connectDestroyed): at once on the main thread; on a loop that is gone
   the call is lost. *)
DestroyConnection(c) ==
    /\ server = "destroying" /\ c \in connections
    /\ connections' = connections \ {c}
    /\ \/ /\ ioLoop = "main" /\ conn' = [conn EXCEPT ![c] = Destroyed(@)]
          /\ UNCHANGED <<queue, dangling>>
       \/ /\ ioLoop # "main" /\ phase["io"] # "left" /\ Post("io", <<"destroyed", c>>)
          /\ UNCHANGED <<conn, dangling>>
       \/ /\ ioLoop # "main" /\ phase["io"] = "left" /\ dangling' = TRUE
          /\ UNCHANGED <<conn, queue>>
    /\ UNCHANGED <<batch, done, phase, active, peer, held, racing, server, quit, stopped>>
    /\ DropsLast("main")

MainStep ==
    \/ StopServer
    \/ DestroyServer("up", "destroying") \/ DestroyServer("destroying", "joining")
    \/ DestroyServer("joining", "gone")
    \/ \E c \in Conns : DestroyConnection(c) /\ ~Destroying("main")
-----------------------------------------------------------------------------
(* User threads: shutdown() tests the state, then stores it and posts. *)

ShutdownTest(c) ==
    /\ c \in held \ racing
    /\ conn[c].state = "kConnected"
    /\ racing' = racing \cup {c}
    /\ UNCHANGED <<conn, connections, queue, batch, done, phase, active, peer, held, reaper, ending>>

ShutdownStore(c) ==
    /\ c \in racing
    /\ racing' = racing \ {c}
    /\ conn' = [conn EXCEPT ![c].state = "kDisconnecting"]
    /\ IF phase[ioLoop] = "left" THEN UNCHANGED queue ELSE Post(ioLoop, <<"shutdown", c>>)
    /\ UNCHANGED <<connections, batch, done, phase, active, peer, held, reaper, ending>>

(* Not a callback on the io loop that drops another connection's last pointer. *)
Release(c) ==
    /\ c \in held \ racing
    /\ held' = held \ {c}
    /\ UNCHANGED <<conn, connections, queue, batch, done, phase, active, peer, racing, ending>>
    /\ DropsLast("user")

(* The peer sends, closes or resets. *)
PeerSends(c) ==
    /\ conn[c].obj = "live"
    /\ peer[c].end = "open"
    /\ ~peer[c].sent
    /\ peer' = [peer EXCEPT ![c].sent = TRUE]
    /\ UNCHANGED <<conn, connections, queue, batch, done, phase, active, held, racing, reaper, ending>>

PeerEnds(c) ==
    /\ conn[c].obj = "live"
    /\ peer[c].end = "open"
    /\ \E how \in {"fin", "rst"} :
         peer' = [peer EXCEPT ![c].end = how, ![c].sent = @ /\ how = "fin"]
    /\ UNCHANGED <<conn, connections, queue, batch, done, phase, active, held, racing, reaper, ending>>

UserStep(c) == ShutdownStore(c) \/ Release(c)

Step ==
    \/ \E l \in Loops : LoopStep(l)
    \/ \E c \in Conns :
         \/ NewConnection(c) /\ ~Destroying("main")
         \/ FreeChannel(c) \/ CloseSocket(c)
         \/ ShutdownTest(c) \/ UserStep(c)
         \/ PeerSends(c) \/ PeerEnds(c)
    \/ QuitMain \/ MainStep

Finished == server = "gone" /\ UNCHANGED serverVars

(* The configuration does not change. *)
Next == (Step \/ Finished) /\ UNCHANGED <<ioLoop, useTLS>>

(* The loops run, the main thread goes on after its loop, destructors finish, and
   user code gives its pointers back. *)
Fairness ==
    /\ \A l \in Loops : WF_serverVars(LoopStep(l))
    /\ WF_serverVars(MainStep)
    /\ \A c \in Conns : WF_serverVars(FreeChannel(c) \/ CloseSocket(c))
    /\ \A c \in Conns : WF_serverVars(UserStep(c))

Spec == Init /\ [][Next]_vars /\ Fairness
-----------------------------------------------------------------------------
(* A connection that was closed is never handed to the user as connected again:
   connectEstablished, queued by the main loop, always runs before anything that
   closes the connection on the io loop, and runs once.  A closed one may become
   kDisconnecting again, when shutdown() stores what it tested before the close. *)
NeverReconnects ==
    [][\A c \in Conns : conn[c].state \in {"kDisconnecting", "kDisconnected"}
                            => conn'[c].state # "kConnected"]_vars

(* The types, and the agreement of the map, the channel and epoll on a connection
   that crosses two loops.  A server that is up forgets it (connections_.erase) only
   once the io loop has stopped reading it, and a channel that asks for events belongs
   to a connection someone owns.  Both hold although connectDestroyed registers the
   channel again (Channel::remove calls updateChannel) and handleClose may then run
   a second time; only a half-closed connection under ~TcpServer is still read when it
   is dropped, since connectDestroyed turns off a kConnected one alone.  With user code
   that drops its pointers on threads of its own, a loop never frees a channel that
   waits in its own activeChannels_.  ~TcpServer finds the loop of each connection alive unless stop()
   was called before it, and a server that is gone leaves only the connections that
   user code, their own TLS context or a functor of the main loop keeps. *)
OwnershipAgrees ==
    /\ TypeOK
    /\ \A c \in Conns : conn[c].obj = "live" /\ c \notin connections /\ server = "up" => ~conn[c].reading
    /\ \A c \in Conns : conn[c].reading /\ conn[c].epoll =>
         Owned(c) \/ (server # "up" /\ conn[c].state = "kDisconnecting")
    /\ \A c \in active[ioLoop] : conn[c].obj # "live" => reaper[c] # ioLoop
    /\ dangling => stopped
    /\ server = "gone" =>
         \A c \in Conns : \/ conn[c].obj \in {"none", "closed"} \/ reaper[c] = "user"
                          \/ c \in held \/ conn[c].context \/ Captures(queue["main"], c)

(* A connection whose peer is gone is eventually taken out of connections_,
   across the two loops: event, closeCallback_, functor on the main loop. *)
ClosedIsForgotten ==
    \A c \in Conns : (conn[c].obj = "live" /\ peer[c].end # "open") ~> c \notin connections
=============================================================================
