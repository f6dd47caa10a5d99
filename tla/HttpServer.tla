----------------------------- MODULE HttpServer -----------------------------
(***************************************************************************)
(* One connection of HttpServer: onConnection and onMessage over a byte    *)
(* stream that TCP cuts where it likes, HttpContext::parseRequest,         *)
(* handleHttpRequest with middlewares and router, and, when TLS is on,     *)
(* TLSConnection between the socket and HTTP, with OpenSSL as a state      *)
(* machine that reads and writes memory BIOs.  A request is the sequence   *)
(* of its lines and body; a read brings any number of them, or only a part *)
(* of the next.                                                            *)
(***************************************************************************)
EXTENDS Naturals, Sequences, SequencesExt

CONSTANTS
    Kinds,        \* the kinds of request the client makes
    MaxRequests   \* and how many

(* A GET a route serves, one no route serves, one the middleware stops, one that
   asks to close; a POST with a body, with length 0, without a length; a request
   line or a header that is none, a length that is no number. *)
AllKinds == {"get", "lost", "denied", "close", "post", "zero", "noLength",
             "badLine", "badHeader", "badLength"}

ASSUME HttpAssumption == Kinds \subseteq AllKinds /\ MaxRequests \in Nat

Lines(kind) ==
    CASE kind \in {"get", "lost", "denied"} -> <<"GET", "header", "empty">>
      [] kind = "close" -> <<"GET", "close", "empty">>
      [] kind = "post" -> <<"POST", "length", "empty", "body">>
      [] kind = "zero" -> <<"POST", "lengthZero", "empty">>
      [] kind = "noLength" -> <<"POST", "empty">>
      [] kind = "badLine" -> <<"BAD", "empty">>
      [] kind = "badHeader" -> <<"GET", "noColon", "empty">>
      [] kind = "badLength" -> <<"POST", "lengthNaN", "empty">>

Malformed == {"noLength", "badLine", "badHeader", "badLength"}

VARIABLES
    sent,       \* kinds of the requests the client has sent
    wire,       \* lines sent and not read, each with its request's number
    in,         \* inputBuffer_
    context,    \* what the connection's context holds: nothing, TLSConnection or HttpContext
    http,       \* that HttpContext
    conn,       \* the connection's state
    handled,    \* requests handed to handleHttpRequest, by the number of their request line
    replies,    \* responses sent: request number and status
    aborted,    \* an exception left the event loop
    useTLS,     \* useTLS_, with a TLSContext
    tlsState,   \* TLSConnection::state_
    ssl,        \* OpenSSL: client flights it has processed, 3 when one is none
    writeBio,   \* server flights it has written that are still in the write BIO
    delivered,  \* server flights given to the connection
    flights,    \* flights the client has sent
    pipelined   \* history: the client sent a request before the last one was answered

tlsVars == <<tlsState, ssl, writeBio, delivered, flights>>
vars == <<sent, wire, in, context, http, conn, handled, replies, aborted, useTLS, tlsVars, pipelined>>

NoRequest == [state |-> "requestLine", method |-> "none", length |-> "none", close |-> FALSE, from |-> 0]

TypeOK ==
    /\ sent \in Seq(Kinds) /\ Len(sent) <= MaxRequests
    /\ context \in {"none", "tls", "http"}
    /\ http.state \in {"requestLine", "headers", "body", "gotAll"}
    /\ conn \in {"connected", "disconnecting", "closed"}
    /\ \A i \in DOMAIN handled : handled[i] \in 1..Len(sent)
    /\ \A i \in DOMAIN replies : replies[i] \in (1..Len(sent)) \X {200, 400, 403, 404}
    /\ aborted \in BOOLEAN /\ useTLS \in BOOLEAN /\ pipelined \in BOOLEAN
    /\ tlsState \in {"HANDSHAKE", "ESTABLISHED"} /\ ssl \in 0..3
    /\ writeBio \in 0..2 /\ delivered \in 0..2 /\ flights \in 0..2

(* After connectEstablished: onConnection has made the TLSConnection and called
   startHandshake, which finds nothing to read. *)
Init ==
    /\ sent = <<>> /\ wire = <<>> /\ in = <<>>
    /\ useTLS \in BOOLEAN
    /\ context = IF useTLS THEN "tls" ELSE "none"
    /\ http = NoRequest /\ conn = "connected"
    /\ handled = <<>> /\ replies = <<>> /\ aborted = FALSE
    /\ tlsState = "HANDSHAKE" /\ ssl = 0 /\ writeBio = 0 /\ delivered = 0 /\ flights = 0
    /\ pipelined = FALSE
-----------------------------------------------------------------------------
(* parseRequest: x is the context, what the loop has come to and what it leaves in
   the buffer.  A request line that is none stays there. *)
Stop(x, verdict) == [x EXCEPT !.verdict = verdict]
GotAll(x) == [x EXCEPT !.state = "gotAll", !.verdict = "ok"]

RequestLine(x, line) ==
    IF line[2] \in {"GET", "POST"}
    THEN [x EXCEPT !.state = "headers", !.method = line[2], !.from = line[1]]
    ELSE [x EXCEPT !.verdict = "bad", !.from = line[1], !.left = <<line>>]

(* The empty line after the headers. *)
EndOfHeaders(x) ==
    CASE x.method = "GET" \/ x.length = "lengthZero" -> GotAll(x)
      [] x.method = "POST" /\ x.length = "none" -> Stop(x, "bad")
      [] x.method = "POST" /\ x.length = "lengthNaN" -> Stop(x, "throw")
      [] OTHER -> [x EXCEPT !.state = "body"]

Header(x, line) ==
    CASE line[2] \in {"length", "lengthZero", "lengthNaN"} -> [x EXCEPT !.length = line[2]]
      [] line[2] = "close" -> [x EXCEPT !.close = TRUE]
      [] line[2] = "header" -> x
      [] line[2] = "empty" -> EndOfHeaders(x)
      [] OTHER -> Stop(x, "bad")

ParseLine(x, line) ==
    CASE x.verdict # "more" -> [x EXCEPT !.left = Append(@, line)]
      [] x.state = "requestLine" -> RequestLine(x, line)
      [] x.state = "headers" -> Header(x, line)
      [] x.state = "body" -> GotAll(x)

(* The outcome, in a set so that each x is evaluated once. *)
ParseRequest(buf) ==
    FoldLeft(LAMBDA xs, line : {ParseLine(x, line) : x \in xs},
             {[verdict |-> "more", left |-> <<>>] @@ http}, buf)

Context(x) == [k \in DOMAIN NoRequest |-> x[k]]
-----------------------------------------------------------------------------
(* handleHttpRequest: the middlewares may answer, then the router, else 404. *)
Route(kind) == IF kind = "lost" THEN 404 ELSE 200

Serve(kind) == IF kind = "denied" THEN 403 ELSE Route(kind)

(* TcpConnection::send drops what it is given once shutdown was called. *)
Send(number, status) ==
    replies' = IF conn = "connected" THEN Append(replies, <<number, status>>) ELSE replies

Respond_Stopped(x) ==
    IF sent[x.from] = "denied" THEN UNCHANGED replies ELSE Send(x.from, Serve(sent[x.from]))

Respond(x) == Send(x.from, Serve(sent[x.from]))

Shutdown == conn' = IF conn = "connected" THEN "disconnecting" ELSE conn

Reset_Forgotten(x) == [Context(x) EXCEPT !.state = "requestLine"]

Reset(x) == NoRequest

(* onPlainMessage: at most one request is parsed and handled. *)
OnPlainMessage(buf) ==
    \E x \in ParseRequest(buf) :
    /\ context' = "http"
    /\ in' = x.left
    /\ aborted' = (x.verdict = "throw")
    /\ CASE x.verdict = "bad" ->
              /\ Send(x.from, 400) /\ Shutdown
              /\ http' = Context(x) /\ UNCHANGED handled
         [] x.state = "gotAll" ->
              /\ handled' = Append(handled, x.from)
              /\ Respond(x)
              /\ IF x.close THEN Shutdown ELSE UNCHANGED conn
              /\ http' = Reset(x)
         [] OTHER -> http' = Context(x) /\ UNCHANGED <<handled, replies, conn>>
-----------------------------------------------------------------------------
(* SSL_do_handshake over the lines in the read BIO: the client's hello, to which
   OpenSSL writes its own flight, then the client's finished. *)
ClientFlights == <<"hello", "finished">>

SslDoHandshake(buf) ==
    IF /\ ssl + Len(buf) <= 2
       /\ \A i \in DOMAIN buf : buf[i][2] = ClientFlights[ssl + i]
    THEN ssl + Len(buf) ELSE 3

(* The flight it wrote stays in the write BIO: only TLSConnection::send, which
   HttpServer does not call, and flushWriteBio, which nobody calls, read it. *)
Handshake(new) ==
    /\ writeBio' = writeBio + (IF ssl = 0 /\ new \in {1, 2} THEN 1 ELSE 0)
    /\ UNCHANGED delivered

(* TLSConnection::onRead: before the end of the handshake all that was read goes to
   OpenSSL; after it, SSL_read is called without the buffer's bytes. *)
OnRead(buf) ==
    /\ IF tlsState = "HANDSHAKE"
       THEN LET new == SslDoHandshake(buf) IN
              /\ ssl' = new /\ in' = <<>> /\ Handshake(new)
              /\ tlsState' = IF new = 2 THEN "ESTABLISHED" ELSE tlsState
              /\ IF new = 3 THEN Shutdown ELSE UNCHANGED conn
       ELSE in' = buf /\ UNCHANGED <<ssl, writeBio, delivered, tlsState, conn>>
    /\ UNCHANGED <<context, http, handled, replies, aborted, flights>>

OnMessage(buf) ==
    IF useTLS /\ context = "tls" THEN OnRead(buf) ELSE OnPlainMessage(buf) /\ UNCHANGED tlsVars

(* handleRead: n whole lines, and perhaps a part of the next, have arrived. *)
Read(n) ==
    /\ conn # "closed" /\ ~aborted
    /\ wire # <<>> /\ n <= Len(wire)
    /\ wire' = SubSeq(wire, n + 1, Len(wire))
    /\ OnMessage(in \o SubSeq(wire, 1, n))
    /\ UNCHANGED <<sent, useTLS, pipelined>>

ReadLines == \E n \in 1..Len(wire) : Read(n)

ReadPart == Read(0)

(* handleRead when the client has closed: handleClose, and connectDestroyed later;
   neither calls connectionCallback_, so onConnection does not drop the context. *)
HandleClose ==
    /\ conn # "closed" /\ ~aborted /\ wire = <<>>
    /\ conn' = "closed"
    /\ UNCHANGED <<sent, wire, in, context, http, handled, replies, aborted, useTLS, tlsVars, pipelined>>
-----------------------------------------------------------------------------
(* The client (external): requests one after the other, with or without waiting. *)
Request(kind) ==
    /\ conn # "closed" /\ ~aborted /\ flights = 0
    /\ Len(sent) < MaxRequests
    /\ sent' = Append(sent, kind)
    /\ wire' = wire \o [i \in DOMAIN Lines(kind) |-> <<Len(sent) + 1, Lines(kind)[i]>>]
    /\ pipelined' = (pipelined \/ Len(replies) < Len(sent))
    /\ UNCHANGED <<in, context, http, conn, handled, replies, aborted, useTLS, tlsVars>>

(* A TLS client: its hello, and its finished once the server's flight is there. *)
ClientFlight ==
    /\ useTLS /\ conn # "closed" /\ sent = <<>>
    /\ flights < 2 /\ flights <= delivered
    /\ flights' = flights + 1
    /\ wire' = Append(wire, <<0, ClientFlights[flights + 1]>>)
    /\ UNCHANGED <<sent, in, context, http, conn, handled, replies, aborted, useTLS,
                   tlsState, ssl, writeBio, delivered, pipelined>>

Ended == (conn = "closed" \/ aborted) /\ UNCHANGED vars

Next ==
    \/ ReadLines \/ ReadPart \/ HandleClose
    \/ \E kind \in Kinds : Request(kind)
    \/ ClientFlight
    \/ Ended

(* What was sent arrives, and the io loop polls. *)
Spec == Init /\ [][Next]_vars /\ WF_vars(ReadLines)

(* And a TLS client sends the flight it can send. *)
TlsSpec == Init /\ [][Next]_vars /\ WF_vars(ReadLines) /\ WF_vars(ClientFlight)
-----------------------------------------------------------------------------
(* The requests before the first malformed one. *)
WellFormed ==
    LET bad == {i \in DOMAIN sent : sent[i] \in Malformed} IN
    IF bad = {} THEN Len(sent) ELSE (CHOOSE i \in bad : \A j \in bad : i <= j) - 1

(* The types, and: however TCP cuts the stream, requests are handled in the order they were sent,
   each once, none before all of it was read, up to a malformed one; that one and
   none before it is refused with 400, and a client gets one response for each
   request handled until the connection is shut down, none after. *)
HandledInOrder ==
    LET good == WellFormed
        ok == IF Len(handled) < good THEN Len(handled) ELSE good IN
    /\ TypeOK
    /\ \A i \in 1..ok : handled[i] = i
    /\ \A i \in 1..Len(replies) :
         /\ replies[i][1] = i
         /\ replies[i][2] = IF i <= good THEN Serve(sent[i]) ELSE 400
    /\ \A i \in DOMAIN in : in[i][1] \notin {handled[j] : j \in 1..ok}
    /\ Len(replies) > good => conn # "connected"

(* Every request of a client that waits for each answer is answered, or the
   connection is gone; one that pipelines may wait for ever, since a read event
   handles one request (HttpServer.cpp:102). *)
RequestAnswered ==
    \A i \in 1..MaxRequests :
        Len(sent) >= i /\ ~useTLS ~>
            Len(replies) >= i \/ pipelined \/ conn # "connected" \/ aborted

(* A TLS client's handshake is continued until it is complete, or the connection is
   given up: after WANT_READ handleHandshake has "a normal handshake, to be continued"
   (TLSConnection.cpp:125), and what onMessage gives to onRead comes decrypted to
   onPlainMessage (HttpServer.cpp:67, HttpServer.h:66).  Not so: the server's flight
   stays in the write BIO, and each side waits for the other. *)
HandshakeCompletes == useTLS /\ flights = 1 ~> tlsState = "ESTABLISHED" \/ conn # "connected"
=============================================================================
