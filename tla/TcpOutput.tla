----------------------------- MODULE TcpOutput ------------------------------
(***************************************************************************)
(* The output side of TcpConnection.cpp: send, sendFile, shutdown and      *)
(* handleWrite, called from callbacks on the io loop's thread or from      *)
(* another thread.  A send is a short run of bytes, each known by its      *)
(* request; the kernel takes any prefix of what it is offered.  The state  *)
(* of an unfinished sendfile is one global of the source file, shared by   *)
(* every connection.                                                       *)
(***************************************************************************)
EXTENDS Buffer, Functions

CONSTANTS
    Conns,      \* connections of one io loop
    MaxItems,   \* bound on the requests made
    ItemLen     \* bytes in each

ASSUME OutputAssumption ==
    MaxItems \in Nat /\ ItemLen \in Nat \ {0}

(* What callers ask for. *)
Kinds == {"data", "file"}

VARIABLES
    out,            \* per connection: state_, the write interest, outputBuffer_, half-closed?,
                    \* and, a history, whether handleClose has run
    wire,           \* per connection: bytes the kernel took
    requested,      \* per connection, history: bytes sendInLoop and sendFileInLoop took on
    pendingFile,    \* pendingFile_: the bytes of a file still to send; <<>> is inactive
    queue,          \* the io loop's functors
    closing,        \* connections another thread is shutting down: it has found kConnected
    items           \* requests made so far

vars == <<out, wire, requested, pendingFile, queue, closing, items>>

Byte == Kinds \X (1..MaxItems) \X (1..ItemLen)

Bytes(kind, n) == [k \in 1..ItemLen |-> <<kind, n, k>>]

TypeOK ==
    /\ DOMAIN out = Conns
    /\ \A c \in Conns :
        /\ out[c].state \in {"kConnected", "kDisconnecting", "kDisconnected"}
        /\ out[c].writing \in BOOLEAN /\ out[c].shut \in BOOLEAN /\ out[c].closed \in BOOLEAN
        /\ IsBuffer(out[c].buffer, Byte)
    /\ wire \in [Conns -> Seq(Byte)]
    /\ requested \in [Conns -> Seq(Byte)]
    /\ pendingFile \in Seq(Byte)
    /\ queue \in Seq([kind : Kinds \cup {"shutdown"}, conn : Conns, bytes : Seq(Byte)])
    /\ closing \subseteq Conns
    /\ items \in 0..MaxItems

(* connectEstablished has run. *)
Init ==
    /\ out = [c \in Conns |-> [state |-> "kConnected", writing |-> FALSE,
                               buffer |-> NewBuffer, shut |-> FALSE, closed |-> FALSE]]
    /\ wire = [c \in Conns |-> <<>>]
    /\ requested = [c \in Conns |-> <<>>]
    /\ pendingFile = <<>>
    /\ queue = <<>>
    /\ closing = {}
    /\ items = 0

Takes(c, bytes) == requested' = [requested EXCEPT ![c] = @ \o bytes]

Sends(c, bytes) == wire' = [wire EXCEPT ![c] = @ \o bytes]

FirstBytes(s, k) == SubSeq(s, 1, k)

RestBytes(s, k) == SubSeq(s, k + 1, Len(s))

(* handleClose, for EPIPE, ECONNRESET or the peer's close: disableAll drops the write
   interest.  pendingFile_ and outputBuffer_ are left as they are. *)
Closed(o) == [o EXCEPT !.state = "kDisconnected", !.writing = FALSE, !.closed = TRUE]

HandleClose(c) == out' = [out EXCEPT ![c] = Closed(@)]
-----------------------------------------------------------------------------
MayWriteDirectly_IgnoresFile(o) == readableBytes(o.buffer) = 0

(* sendInLoop's test: nothing is waiting to be written. *)
MayWriteDirectly(o) == ~o.writing /\ readableBytes(o.buffer) = 0

(* k bytes go out at once (none, if the kernel would block), the rest waits for
   EPOLLOUT behind what is buffered already. *)
SendInLoop(c, bytes) ==
    \/ /\ out[c].state = "kDisconnected"
       /\ UNCHANGED <<out, wire, requested>>
    \/ /\ out[c].state # "kDisconnected"
       /\ \E k \in 0..Len(bytes) :
            /\ k > 0 => MayWriteDirectly(out[c])
            /\ Sends(c, FirstBytes(bytes, k))
            /\ Takes(c, bytes)
            /\ out' = [out EXCEPT ![c].buffer = IF k < Len(bytes) THEN append(@, RestBytes(bytes, k)) ELSE @,
                                  ![c].writing = @ \/ k < Len(bytes)]
    \/ /\ out[c].state # "kDisconnected"
       /\ MayWriteDirectly(out[c])
       /\ HandleClose(c)
       /\ UNCHANGED <<wire, requested>>

(* A file waits in pendingFile_ when the connection has output waiting or the
   kernel would block; k bytes go out at once otherwise. *)
SendFileInLoop(c, bytes) ==
    \/ /\ readableBytes(out[c].buffer) > 0 \/ out[c].writing
       /\ Takes(c, bytes)
       /\ pendingFile' = bytes
       /\ out' = [out EXCEPT ![c].writing = TRUE]
       /\ UNCHANGED wire
    \/ /\ readableBytes(out[c].buffer) = 0 /\ ~out[c].writing
       /\ \E k \in 0..Len(bytes) :
            /\ Sends(c, FirstBytes(bytes, k))
            /\ Takes(c, bytes)
            /\ pendingFile' = IF k = Len(bytes) THEN pendingFile ELSE RestBytes(bytes, k)
            /\ out' = [out EXCEPT ![c].writing = k < Len(bytes)]
    \/ /\ readableBytes(out[c].buffer) = 0 /\ ~out[c].writing
       /\ HandleClose(c)
       /\ UNCHANGED <<wire, requested, pendingFile>>
    \/ /\ readableBytes(out[c].buffer) = 0 /\ ~out[c].writing   \* another error: given up
       /\ Takes(c, bytes)
       /\ UNCHANGED <<out, wire, pendingFile>>

ShutdownInLoop_Always(o) == [o EXCEPT !.shut = TRUE]

ShutdownInLoop(o) == [o EXCEPT !.shut = @ \/ ~o.writing]
-----------------------------------------------------------------------------
(* Callers on the io loop's thread run the operation at once. *)

Request(c) == out[c].state = "kConnected" /\ items < MaxItems /\ items' = items + 1

Send(c) ==
    /\ Request(c)
    /\ SendInLoop(c, Bytes("data", items'))
    /\ UNCHANGED <<pendingFile, queue, closing>>

SendFile(c) ==
    /\ Request(c)
    /\ SendFileInLoop(c, Bytes("file", items'))
    /\ UNCHANGED <<queue, closing>>

Shutdown(c) ==
    /\ out[c].state = "kConnected"
    /\ out' = [out EXCEPT ![c] = ShutdownInLoop([@ EXCEPT !.state = "kDisconnecting"])]
    /\ UNCHANGED <<wire, requested, pendingFile, queue, closing, items>>

(* Callers on another thread copy the data, empty their buffer and post. *)
PostRequest(c, kind) ==
    /\ Request(c)
    /\ queue' = Append(queue, [kind |-> kind, conn |-> c, bytes |-> Bytes(kind, items')])
    /\ UNCHANGED <<out, wire, requested, pendingFile, closing>>

(* shutdown() tests state_ and then stores it: what the io loop does to the connection
   in between, its close included, is overwritten. *)
TestShutdown(c) ==
    /\ out[c].state = "kConnected" /\ c \notin closing
    /\ closing' = closing \cup {c}
    /\ UNCHANGED <<out, wire, requested, pendingFile, queue, items>>

PostShutdown(c) ==
    /\ c \in closing
    /\ closing' = closing \ {c}
    /\ out' = [out EXCEPT ![c].state = "kDisconnecting"]
    /\ queue' = Append(queue, [kind |-> "shutdown", conn |-> c, bytes |-> <<>>])
    /\ UNCHANGED <<wire, requested, pendingFile, items>>

(* The posted closures: a send or a sendFile looks at the state again, and does
   nothing unless the connection is still kConnected. *)
RunFunctor ==
    /\ queue # <<>>
    /\ queue' = Tail(queue)
    /\ LET f == Head(queue)
           c == f.conn
           open == out[c].state = "kConnected"
       IN  \/ f.kind = "data" /\ open /\ SendInLoop(c, f.bytes)
                /\ UNCHANGED pendingFile
           \/ f.kind = "file" /\ open /\ SendFileInLoop(c, f.bytes)
           \/ f.kind # "shutdown" /\ ~open
                /\ UNCHANGED <<out, wire, requested, pendingFile>>
           \/ f.kind = "shutdown"
                /\ out' = [out EXCEPT ![c] = ShutdownInLoop(@)]
                /\ UNCHANGED <<wire, requested, pendingFile>>
    /\ UNCHANGED <<closing, items>>
-----------------------------------------------------------------------------
(* handleWrite, when EPOLLOUT is reported on c. *)

Written_NoShutdown(o, k) ==
    LET rest == retrieve(o.buffer, k) IN
    [o EXCEPT !.buffer = rest, !.writing = readableBytes(rest) > 0]

(* writeFd wrote k bytes of outputBuffer_.  Once it is empty the write interest
   goes, and a half-close that was waiting is made; k = 0 is the error branch. *)
Written(o, k) ==
    LET rest == retrieve(o.buffer, k)
        drained == readableBytes(rest) = 0
    IN IF k = 0 THEN o
       ELSE [o EXCEPT !.buffer = rest, !.writing = ~drained,
                      !.shut = @ \/ (drained /\ o.state = "kDisconnecting")]

(* With the write interest on, the buffer is written after file, the bytes sendfile
   finished with. *)
WriteBuffer(c, o, file) ==
    \/ /\ ~o.writing
       /\ Sends(c, file)
       /\ out' = [out EXCEPT ![c] = o]
    \/ /\ o.writing
       /\ \E k \in 0..readableBytes(o.buffer) :
            /\ Sends(c, file \o FirstBytes(Contents(o.buffer), k))
            /\ out' = [out EXCEPT ![c] = Written(o, k)]

(* The whole of handleWrite on a connection whose output side is o. *)
WriteOn(c, o) ==
    /\ \/ /\ pendingFile = <<>>
          /\ WriteBuffer(c, o, <<>>)
          /\ UNCHANGED pendingFile
       \/ /\ pendingFile # <<>>                       \* the file is not finished
          /\ \E k \in 0..(Len(pendingFile) - 1) :
               Sends(c, FirstBytes(pendingFile, k)) /\ pendingFile' = RestBytes(pendingFile, k)
          /\ out' = [out EXCEPT ![c] = [o EXCEPT !.writing = TRUE]]
       \/ /\ pendingFile # <<>>                       \* it is
          /\ pendingFile' = <<>>
          /\ WriteBuffer(c, o, pendingFile)
       \/ /\ pendingFile # <<>>                       \* the peer is gone
          /\ out' = [out EXCEPT ![c] = Closed(o)]
          /\ UNCHANGED <<wire, pendingFile>>
       \/ /\ pendingFile # <<>>                       \* another error: give the file up
          /\ pendingFile' = <<>>
          /\ WriteBuffer(c, o, <<>>)
    /\ UNCHANGED <<requested, queue, closing, items>>

(* epoll reports EPOLLOUT on a connection with the write interest. *)
HandleWrite(c) == out[c].writing /\ WriteOn(c, out[c])

(* It reports a hangup, or the end of the input, and EPOLLOUT together: one dispatch
   runs handleClose and then handleWrite, which goes on with pendingFile_. *)
CloseThenWrite(c) == out[c].writing /\ WriteOn(c, Closed(out[c]))

(* The close comes alone. *)
PeerCloses(c) ==
    /\ out[c].state # "kDisconnected" \/ out[c].writing
    /\ HandleClose(c)
    /\ UNCHANGED <<wire, requested, pendingFile, queue, closing, items>>

Next ==
    \/ RunFunctor
    \/ \E c \in Conns :
         \/ Send(c) \/ SendFile(c) \/ Shutdown(c)
         \/ \E kind \in Kinds : PostRequest(c, kind)
         \/ TestShutdown(c) \/ PostShutdown(c)
         \/ HandleWrite(c) \/ CloseThenWrite(c)
         \/ PeerCloses(c)

(* The loop runs its functors, and a peer that stays keeps reading: the kernel
   goes on taking bytes. *)
Fairness ==
    /\ WF_vars(RunFunctor)
    /\ \A c \in Conns : WF_vars(HandleWrite(c) /\ wire' # wire)

Spec == Init /\ [][Next]_vars /\ Fairness
-----------------------------------------------------------------------------
IsData(b) == b[1] = "data"

(* The types, and: bytes that sendInLoop took are neither lost, repeated nor reordered,
   through partial writes, buffering, the growth of the buffer or the move of its
   bytes, files in between, and a close: what the kernel took and what is buffered are
   what was asked for.  And sendInLoop gets everything callers asked for, as long as no
   connection leaves kConnected: a send posted by another thread is dropped when
   shutdown() or a close overtakes it. *)
DataInOrder ==
    /\ TypeOK
    /\ \A c \in Conns :
        SelectSeq(wire[c] \o Contents(out[c].buffer), IsData) = SelectSeq(requested[c], IsData)
    /\ (\A c \in Conns : out[c].state = "kConnected") =>
        \A n \in 1..items :
            \/ \E i \in DOMAIN queue : \E b \in Range(queue[i].bytes) : b[2] = n
            \/ \E c \in Conns : \E b \in Range(requested[c]) : b[2] = n

(* The half-close comes after the output: once shutdownWrite has been called,
   nothing asked of the connection waits in outputBuffer_ or in pendingFile_, or
   ever will.  Not so once handleClose has run: shutdown()'s late store of
   kDisconnecting then finds the write interest gone, and shutdownInLoop half-closes
   whatever is buffered. *)
HalfCloseAfterDrain ==
    \A c \in Conns : out[c].shut /\ ~out[c].closed =>
        readableBytes(out[c].buffer) = 0 /\ Range(pendingFile) \cap Range(requested[c]) = {}

(* shutdown() closes the write end (TcpConnection.h:43): at once, or when the
   output has drained, unless the connection is lost.  Only a connection that was
   asked to send a file may miss it: when the file is done and the buffer empty,
   handleWrite comes to its error branch and the half-close is never made. *)
ShutdownCompletes ==
    \A c \in Conns : out[c].state = "kDisconnecting" ~>
        \/ out[c].shut
        \/ out[c].state = "kDisconnected"
        \/ \E b \in Range(requested[c]) : ~IsData(b)

(* A file asked for on a connection with nothing before it, while nothing is asked
   of the others, keeps its place (TcpConnection.cpp:294): what is sent after it
   follows it on the wire, through partial writes and a file given up.  A file asked
   for behind waiting output overtakes it, since handleWrite turns to pendingFile_
   first, and one left unfinished may go on over another connection. *)
FileKeepsPlace ==
    \A c \in Conns :
        /\ requested[c] # <<>> /\ ~IsData(requested[c][1])
        /\ \A d \in Conns \ {c} : requested[d] = <<>>
        /\ \A k \in (ItemLen + 1)..Len(requested[c]) : IsData(requested[c][k])
        => LET after == RestBytes(requested[c], ItemLen) IN
           \E j \in 0..ItemLen, n \in 0..Len(after) :
              wire[c] = FirstBytes(requested[c], j) \o FirstBytes(after, n)
=============================================================================
