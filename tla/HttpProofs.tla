----------------------------- MODULE HttpProofs -----------------------------
(***************************************************************************)
(* Proofs about SessionManager for any set of threads and any bounds on    *)
(* ids, ages and time: a client's session is kept, and a destroyed one     *)
(* stays away.  Then about HttpServer with TLS on, for any requests: the   *)
(* handshake never ends.                                                   *)
(***************************************************************************)
EXTENDS SessionManager, Sequences, TLAPS

Saving(id) == \E t \in Threads : step[t] = "save" /\ sid[t] = id

(* Ids are generated before they are used, and a thread has a session exactly between
   load or creation and save. *)
IdsInv ==
    /\ stored \subseteq 1..created
    /\ destroyed \subseteq 1..created
    /\ \A t \in Threads :
           IF step[t] \in {"idle", "create"} THEN sid[t] = 0 ELSE sid[t] \in 1..created

(* Why SessionKept is not inductive alone: the session clearExpired is about to erase
   may have been refreshed since it was looked at, but then only by a thread whose
   save waits for the mutex. *)
KeptInv ==
    /\ \A id \in given \ destroyed : IsExpired(id) \/ id \in stored \/ Saving(id)
    /\ doomed # 0 => cleaning /\ (IsExpired(doomed) \/ Saving(doomed))

(* No thread has a session that was destroyed while nobody had it. *)
GoneInv == \A id \in destroyed \ raced : id \notin stored /\ \A t \in Threads : sid[t] # id

SessionInv == TypeOK /\ IdsInv /\ KeptInv /\ GoneInv
-----------------------------------------------------------------------------
(* Zenon proves each leaf that names no other prover. *)
USE ZenonT(30)

(* Every step keeps the types and the ids in range. *)
LEMMA TypeStep == TypeOK /\ IdsInv /\ [Next]_vars => TypeOK' /\ IdsInv'
  <1> SUFFICES ASSUME TypeOK, IdsInv, [Next]_vars PROVE TypeOK' /\ IdsInv'
    OBVIOUS
  <1> USE SessionAssumption DEF TypeOK, IdsInv, Ids, Times, sweep
  <1>1. ASSUME NEW t \in Threads, NEW id \in given \cup {0}, Load(t, id) PROVE TypeOK' /\ IdsInv'
    BY <1>1, SMTT(30) DEF Load
  <1>2. ASSUME NEW t \in Threads, CheckExpired(t) PROVE TypeOK' /\ IdsInv'
    BY <1>2 DEF CheckExpired
  <1>3. ASSUME NEW t \in Threads, Create(t) PROVE TypeOK' /\ IdsInv'
    BY <1>3, SMTT(30) DEF Create
  <1>4. ASSUME NEW t \in Threads, Refresh(t) PROVE TypeOK' /\ IdsInv'
    <2>1. sid[t] \in 1..created /\ now + MaxAge \in Times
      BY <1>4, SMTT(30) DEF Refresh
    <2>2. expiry' = [expiry EXCEPT ![sid[t]] = now + MaxAge] /\ step' = [step EXCEPT ![t] = "save"]
      BY <1>4 DEF Refresh
    <2>3. TypeOK'
      BY <1>4, <2>1, <2>2, SMTT(30) DEF Refresh
    <2>4. IdsInv'
      BY <1>4, <2>1, <2>2 DEF Refresh
    <2> QED
      BY <2>3, <2>4
  <1>5. ASSUME NEW t \in Threads, Save(t) PROVE TypeOK' /\ IdsInv'
    <2>1. sid[t] \in 1..created /\ sid[t] \in Ids
      BY <1>5, SMTT(30) DEF Save
    <2>2. /\ step' = [step EXCEPT ![t] = "idle"] /\ sid' = [sid EXCEPT ![t] = 0]
          /\ stored' = stored \cup {sid[t]} /\ given' = given \cup {sid[t]}
          /\ UNCHANGED <<expiry, now, created, left, doomed, cleaning, destroyed, raced>>
      BY <1>5 DEF Save, Saved
    <2>3. TypeOK'
      BY <2>1, <2>2
    <2>4. IdsInv'
      BY <2>1, <2>2
    <2> QED
      BY <2>3, <2>4
  <1>6. ASSUME NEW id \in given, DestroySession(id) PROVE TypeOK' /\ IdsInv'
    BY <1>6, SMTT(30) DEF DestroySession, Remove
  <1>7. CASE CleanBegin
    BY <1>7 DEF CleanBegin
  <1>8. ASSUME NEW id \in Ids, CleanCheck(id) PROVE TypeOK' /\ IdsInv'
    BY <1>8 DEF CleanCheck
  <1>9. CASE CleanErase
    BY <1>9 DEF CleanErase
  <1>10. CASE CleanEnd
    BY <1>10 DEF CleanEnd
  <1>11. CASE Tick
    BY <1>11, SMTT(30) DEF Tick
  <1>12. CASE UNCHANGED vars
    BY <1>12 DEF vars
  <1> QED
    BY <1>1, <1>2, <1>3, <1>4, <1>5, <1>6, <1>7, <1>8, <1>9, <1>10, <1>11, <1>12
       DEF Next, GetSession

(* Every step keeps a session that is neither old nor destroyed. *)
LEMMA KeptStep == TypeOK /\ IdsInv /\ KeptInv /\ [Next]_vars => KeptInv'
  <1> SUFFICES ASSUME TypeOK, IdsInv, KeptInv, [Next]_vars PROVE KeptInv'
    OBVIOUS
  <1>0. /\ expiry \in [Ids -> Times] /\ Times \subseteq Nat /\ now \in Nat /\ MaxAge \in Nat
        /\ created \in Nat
        /\ step \in [Threads -> {"idle", "check", "create", "refresh", "save"}]
        /\ sid \in [Threads -> Ids \cup {0}]
        /\ given \subseteq Ids /\ doomed \in Ids \cup {0}
    BY SessionAssumption, SMTT(30) DEF TypeOK, Ids, Times
  <1> USE DEF KeptInv, sweep
  <1>2. ASSUME NEW t \in Threads, NEW id \in given \cup {0}, Load(t, id) PROVE KeptInv'
    BY <1>0, <1>2, SMTT(30) DEF Load, IsExpired, Saving
  <1>3. ASSUME NEW t \in Threads, CheckExpired(t) PROVE KeptInv'
    BY <1>0, <1>3 DEF CheckExpired, IsExpired, Saving
  <1>4. ASSUME NEW t \in Threads, Create(t) PROVE KeptInv'
    BY <1>0, <1>4 DEF Create, IsExpired, Saving
  <1>5. ASSUME NEW t \in Threads, Refresh(t) PROVE KeptInv'
    BY <1>0, <1>5 DEF Refresh, IsExpired, Saving
  <1>6. ASSUME NEW t \in Threads, Save(t) PROVE KeptInv'
    BY <1>0, <1>6 DEF Save, Saved, IsExpired, Saving
  <1>7. ASSUME NEW id \in given, DestroySession(id) PROVE KeptInv'
    BY <1>7 DEF DestroySession, Remove, IsExpired, Saving
  <1>8. CASE CleanBegin \/ CleanEnd
    BY <1>8 DEF CleanBegin, CleanEnd, IsExpired, Saving
  <1>9. ASSUME NEW id \in Ids, CleanCheck(id) PROVE KeptInv'
    BY <1>9 DEF CleanCheck, IsExpired, Saving
  <1>10. CASE CleanErase
    BY <1>10 DEF CleanErase, IsExpired, Saving
  <1>11. CASE Tick
    <2>1. UNCHANGED <<stored, expiry, given, step, sid, doomed, cleaning, destroyed>>
      BY <1>11 DEF Tick
    <2>2. \A id \in Ids : IsExpired(id) => IsExpired(id)'
      <3>1. now' = now + 1 /\ \A id \in Ids : expiry[id] \in Nat
        BY <1>0, <1>11 DEF Tick
      <3> QED
        BY <1>0, <2>1, <3>1, SMTT(30) DEF IsExpired
    <2>3. \A id \in Ids : Saving(id) => Saving(id)'
      BY <2>1 DEF Saving
    <2> QED
      BY <1>0, <2>1, <2>2, <2>3
  <1>12. CASE UNCHANGED vars
    BY <1>12 DEF vars, IsExpired, Saving
  <1> QED
    BY <1>2, <1>3, <1>4, <1>5, <1>6, <1>7, <1>8, <1>9, <1>10, <1>11, <1>12
       DEF Next, GetSession

(* Every step keeps away a session that was destroyed while no thread had it. *)
LEMMA GoneStep == TypeOK /\ IdsInv /\ GoneInv /\ [Next]_vars => GoneInv'
  <1> SUFFICES ASSUME TypeOK, IdsInv, GoneInv, [Next]_vars PROVE GoneInv'
    OBVIOUS
  <1>0. /\ sid \in [Threads -> Ids \cup {0}] /\ created \in Nat
        /\ destroyed \subseteq 1..created
        /\ 0 \notin destroyed /\ created + 1 \notin destroyed
    BY SessionAssumption, SMTT(30) DEF TypeOK, IdsInv, Ids
  <1> USE DEF GoneInv
  <1>1. ASSUME NEW t \in Threads, NEW id \in given \cup {0}, Load(t, id) PROVE GoneInv'
    BY <1>0, <1>1 DEF Load
  <1>2. ASSUME NEW t \in Threads, CheckExpired(t) PROVE GoneInv'
    BY <1>0, <1>2 DEF CheckExpired
  <1>3. ASSUME NEW t \in Threads, Create(t) PROVE GoneInv'
    BY <1>0, <1>3 DEF Create
  <1>4. ASSUME NEW t \in Threads, Refresh(t) PROVE GoneInv'
    BY <1>4 DEF Refresh
  <1>5. ASSUME NEW t \in Threads, Save(t) PROVE GoneInv'
    BY <1>0, <1>5 DEF Save, Saved
  <1>6. ASSUME NEW id \in given, DestroySession(id) PROVE GoneInv'
    BY <1>6 DEF DestroySession, Remove
  <1>7. CASE CleanBegin \/ CleanErase \/ CleanEnd \/ Tick \/ UNCHANGED vars
    BY <1>7 DEF CleanBegin, CleanErase, CleanEnd, Tick, vars
  <1>8. ASSUME NEW id \in Ids, CleanCheck(id) PROVE GoneInv'
    BY <1>8 DEF CleanCheck
  <1> QED
    BY <1>1, <1>2, <1>3, <1>4, <1>5, <1>6, <1>7, <1>8 DEF Next, GetSession
-----------------------------------------------------------------------------
(* The inductive invariant holds in every state. *)
THEOREM SessionInvariant == Spec => []SessionInv
  <1>1. Init => SessionInv
    <2> SUFFICES ASSUME Init PROVE SessionInv
      OBVIOUS
    <2>1. cleaning \in BOOLEAN
      BY DEF Init
    <2>2. TypeOK
      BY <2>1, SessionAssumption, SMTT(30) DEF Init, TypeOK, Ids, Times
    <2>3. IdsInv /\ KeptInv /\ GoneInv
      BY DEF Init, IdsInv, KeptInv, GoneInv
    <2> QED
      BY <2>2, <2>3 DEF SessionInv
  <1>2. SessionInv /\ [Next]_vars => SessionInv'
    BY TypeStep, KeptStep, GoneStep DEF SessionInv
  <1> QED
    BY <1>1, <1>2, PTL DEF Spec

(* No interleaving of getSession, destroySession and clearExpired, in any number of
   threads, loses a session whose age is not over. *)
THEOREM SessionsKept == Spec => []SessionKept
  <1>1. SessionInv => SessionKept
    BY DEF SessionInv, KeptInv, Saving, SessionKept
  <1> QED
    BY <1>1, SessionInvariant, PTL

(* No interleaving brings a destroyed session back, except a save of one that was
   already loaded. *)
THEOREM DestroyedStaysGone == Spec => []DestroyedIsGone
  <1>1. SessionInv => DestroyedIsGone
    BY DEF SessionInv, GoneInv, DestroyedIsGone
  <1> QED
    BY <1>1, SessionInvariant, PTL
-----------------------------------------------------------------------------
CONSTANTS Kinds, MaxRequests   \* of the connection
VARIABLES sent, wire, in, context, http, conn, handled, replies, aborted, useTLS,
          tlsState, ssl, writeBio, delivered, flights, pipelined

Http == INSTANCE HttpServer

(* What HttpServer assumes of its constants. *)
HttpSize == Kinds \subseteq Http!AllKinds /\ MaxRequests \in Nat

(* What a client can have sent before it has the server's flight. *)
Unanswered == {"GET", "POST", "BAD", "header", "close", "length", "lengthZero", "lengthNaN",
               "noColon", "empty", "body", "hello"}

(* The handshake has not ended, no bytes but those that went through OpenSSL were taken
   for a request, and OpenSSL's answer to the client's hello is still in the write BIO. *)
HandshakeStalls ==
    useTLS => /\ handled = <<>> /\ replies = <<>> /\ tlsState = "HANDSHAKE"
              /\ delivered = 0 /\ (ssl = 1 => writeBio = 1)
              /\ context = "tls"

(* Why HandshakeStalls is not inductive alone: all that was read went to OpenSSL, whose
   flight is in the write BIO from the client's hello on, and the client, who waits for
   that flight, has nothing on the wire that ends the handshake. *)
StallInv ==
    /\ sent \in Seq(Kinds)
    /\ useTLS => /\ HandshakeStalls
                 /\ in = <<>> /\ wire \in Seq(Nat \X Unanswered)
                 /\ ssl \in {0, 1, 3} /\ (ssl = 0 => writeBio = 0)
                 /\ flights \in 0..1
-----------------------------------------------------------------------------
(* The lines of a request, whichever kind it is, are none of the client's finished. *)
LEMMA LinesUnanswered ==
    ASSUME HttpSize, NEW kind \in Kinds
    PROVE  Http!Lines(kind) \in Seq(Unanswered)
  <1>1. kind \in Http!AllKinds
    BY DEF HttpSize
  <1>2. CASE kind \in {"get", "lost", "denied"}
    <2>1. Http!Lines(kind) = <<"GET", "header", "empty">>
      BY <1>2 DEF Http!Lines
    <2> QED
      BY <2>1, SMTT(30) DEF Unanswered
  <1>3. CASE kind = "close"
    <2>1. Http!Lines(kind) = <<"GET", "close", "empty">>
      BY <1>3 DEF Http!Lines
    <2> QED
      BY <2>1, SMTT(30) DEF Unanswered
  <1>4. CASE kind = "post"
    <2>1. Http!Lines(kind) = <<"POST", "length", "empty", "body">>
      BY <1>4 DEF Http!Lines
    <2> QED
      BY <2>1, SMTT(30) DEF Unanswered
  <1>5. CASE kind = "zero"
    <2>1. Http!Lines(kind) = <<"POST", "lengthZero", "empty">>
      BY <1>5 DEF Http!Lines
    <2> QED
      BY <2>1, SMTT(30) DEF Unanswered
  <1>6. CASE kind = "noLength"
    <2>1. Http!Lines(kind) = <<"POST", "empty">>
      BY <1>6 DEF Http!Lines
    <2> QED
      BY <2>1, SMTT(30) DEF Unanswered
  <1>7. CASE kind = "badLine"
    <2>1. Http!Lines(kind) = <<"BAD", "empty">>
      BY <1>7 DEF Http!Lines
    <2> QED
      BY <2>1, SMTT(30) DEF Unanswered
  <1>8. CASE kind = "badHeader"
    <2>1. Http!Lines(kind) = <<"GET", "noColon", "empty">>
      BY <1>8 DEF Http!Lines
    <2> QED
      BY <2>1, SMTT(30) DEF Unanswered
  <1>9. CASE kind = "badLength"
    <2>1. Http!Lines(kind) = <<"POST", "lengthNaN", "empty">>
      BY <1>9 DEF Http!Lines
    <2> QED
      BY <2>1, SMTT(30) DEF Unanswered
  <1> QED
    BY <1>1, <1>2, <1>3, <1>4, <1>5, <1>6, <1>7, <1>8, <1>9 DEF Http!AllKinds

(* What OpenSSL comes to on such lines: it has not finished, and has answered a hello. *)
LEMMA NeverFinished ==
    ASSUME NEW buf \in Seq(Nat \X Unanswered), ssl \in {0, 1, 3}
    PROVE  /\ Http!SslDoHandshake(buf) \in {0, 1, 3}
           /\ ssl # 0 => Http!SslDoHandshake(buf) \in {ssl, 3}
  <1>1. \A i \in 1..Len(buf) : buf[i][2] # "finished"
    <2>1. \A i \in 1..Len(buf) : buf[i] \in Nat \X Unanswered
      BY SMTT(30)
    <2>2. \A x \in Nat \X Unanswered : x[2] \in Unanswered
      OBVIOUS
    <2>3. "finished" \notin Unanswered
      BY DEF Unanswered
    <2> QED
      BY <2>1, <2>2, <2>3
  <1>2. ASSUME ssl + Len(buf) = 2, \A i \in DOMAIN buf : buf[i][2] = Http!ClientFlights[ssl + i]
        PROVE  FALSE
    <2>1. Len(buf) \in 1..Len(buf) /\ buf[Len(buf)][2] = Http!ClientFlights[2]
      BY <1>2, SMTT(30)
    <2> QED
      BY <1>1, <2>1, SMTT(30) DEF Http!ClientFlights
  <1> QED
    BY <1>2, SMTT(30) DEF Http!SslDoHandshake

(* The client's requests stay of its kinds. *)
LEMMA SentStep ==
    ASSUME sent \in Seq(Kinds), [Http!Next]_(Http!vars)
    PROVE  sent' \in Seq(Kinds)
  <1>1. ASSUME NEW kind \in Kinds, Http!Request(kind) PROVE sent' \in Seq(Kinds)
    BY <1>1, SMTT(30) DEF Http!Request
  <1>2. CASE UNCHANGED sent
    BY <1>2
  <1> QED
    BY <1>1, <1>2 DEF Http!Next, Http!ReadLines, Http!ReadPart, Http!Read, Http!HandleClose,
                      Http!ClientFlight, Http!Ended, Http!vars

(* Every step keeps StallInv. *)
LEMMA StallStep ==
    ASSUME HttpSize, StallInv, [Http!Next]_(Http!vars)
    PROVE  StallInv'
  <1> USE DEF StallInv, HandshakeStalls, Http!tlsVars
  <1> SUFFICES ASSUME useTLS' PROVE StallInv'
    BY SentStep
  <1>0. useTLS /\ sent' \in Seq(Kinds)
    BY SentStep DEF Http!Next, Http!ReadLines, Http!ReadPart, Http!Read, Http!HandleClose,
           Http!Request, Http!ClientFlight, Http!Ended, Http!vars
  <1>1. ASSUME NEW n \in 0..Len(wire), Http!Read(n) PROVE StallInv'
    <2> DEFINE buf == in \o SubSeq(wire, 1, n)
               new == Http!SslDoHandshake(buf)
    <2>1. buf \in Seq(Nat \X Unanswered) /\ wire' \in Seq(Nat \X Unanswered)
      BY <1>0, <1>1, SMTT(30) DEF Http!Read
    <2>2. Http!OnRead(buf)
      BY <1>0, <1>1 DEF Http!Read, Http!OnMessage
    <2>3. new \in {0, 1, 3} /\ (ssl # 0 => new \in {ssl, 3})
      BY <1>0, <2>1, NeverFinished
    <2>4. /\ ssl' = new /\ in' = <<>> /\ Http!Handshake(new) /\ tlsState' = tlsState
          /\ UNCHANGED <<context, handled, replies, flights>>
      <3> HIDE DEF buf
      <3> QED
        BY <1>0, <2>2, <2>3, SMTT(30) DEF Http!OnRead
    <2> HIDE DEF new
    <2>5. (ssl' = 0 => writeBio' = 0) /\ (ssl' = 1 => writeBio' = 1) /\ delivered' = delivered
      BY <1>0, <2>3, <2>4, SMTT(30) DEF Http!Handshake
    <2> QED
      BY <1>0, <2>1, <2>3, <2>4, <2>5
  <1>2. CASE Http!HandleClose \/ Http!Ended \/ UNCHANGED Http!vars
    BY <1>0, <1>2 DEF Http!HandleClose, Http!Ended, Http!vars
  <1>3. ASSUME NEW kind \in Kinds, Http!Request(kind) PROVE StallInv'
    <2> DEFINE more == [i \in DOMAIN Http!Lines(kind) |-> <<Len(sent) + 1, Http!Lines(kind)[i]>>]
    <2>1. Http!Lines(kind) \in Seq(Unanswered)
      BY LinesUnanswered
    <2>2. Len(sent) + 1 \in Nat
      BY <1>3, SMTT(30) DEF Http!Request
    <2>3. more \in Seq(Nat \X Unanswered)
      BY <2>1, <2>2, SMTT(30)
    <2>4. wire' = wire \o more
      BY <1>3 DEF Http!Request
    <2>5. wire' \in Seq(Nat \X Unanswered)
      <3> HIDE DEF more
      <3> QED
        BY <1>0, <2>3, <2>4, SMTT(30)
    <2> QED
      BY <1>0, <1>3, <2>5 DEF Http!Request
  <1>4. CASE Http!ClientFlight
    <2>1. flights = 0
      BY <1>0, <1>4, SMTT(30) DEF Http!ClientFlight
    <2>2. flights' \in 0..1 /\ wire' \in Seq(Nat \X Unanswered)
      BY <1>0, <1>4, <2>1, SMTT(30) DEF Http!ClientFlight, Http!ClientFlights, Unanswered
    <2> QED
      BY <1>0, <1>4, <2>2 DEF Http!ClientFlight
  <1>5. ASSUME NEW n \in 1..Len(wire), Http!Read(n) PROVE StallInv'
    BY <1>0, <1>1, <1>5, SMTT(30)
  <1>6. CASE Http!ReadPart
    <2>1. 0 \in 0..Len(wire)
      BY <1>0, SMTT(30)
    <2> QED
      BY <1>1, <1>6, <2>1 DEF Http!ReadPart
  <1> HIDE DEF StallInv
  <1> QED
    BY <1>2, <1>3, <1>4, <1>5, <1>6 DEF Http!Next, Http!ReadLines

(* With TLS on and whatever a client sends, plain requests or flights, in whatever
   pieces onMessage reads it: nothing is handled or answered, and the handshake does
   not end, since TLSConnection leaves the server's flight in the write BIO. *)
THEOREM HandshakeNeverEnds ==
    ASSUME HttpSize
    PROVE  Http!Spec => []HandshakeStalls
  <1>1. Http!Init => StallInv
    BY SMTT(30) DEF Http!Init, StallInv, HandshakeStalls
  <1>2. StallInv /\ [Http!Next]_(Http!vars) => StallInv'
    BY StallStep
  <1>3. StallInv => HandshakeStalls
    BY DEF StallInv, HandshakeStalls
  <1> QED
    BY <1>1, <1>2, <1>3, PTL DEF Http!Spec
=============================================================================
