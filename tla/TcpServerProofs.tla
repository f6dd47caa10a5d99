-------------------------- MODULE TcpServerProofs ---------------------------
(***************************************************************************)
(* Proofs about TcpServer for any set of connections: who owns and frees a *)
(* connection, and that a connection is established once and before        *)
(* anything closes it.                                                     *)
(***************************************************************************)
EXTENDS TcpServer, TLAPS

(* The functors of loop l that have still to run, in order: the rest of the batch, then
   the queue. *)
Rest(l) == Len(batch[l]) - done[l]

Waiting(l) == 1..(Rest(l) + Len(queue[l]))

Fn(l, k) == IF k <= Rest(l) THEN batch[l][done[l] + k] ELSE queue[l][k - Rest(l)]

(* Loop l has still to run functor k of connection c. *)
Waits(l, k, c) == \E j \in Waiting(l) : Fn(l, j) = <<k, c>>

(* Where the loops and the destructor are: the io loop leaves only after the main one,
   and only when stop() or the destructor told it to. *)
LoopInv ==
    /\ \A l \in Loops : /\ phase[l] # "functors" => batch[l] = <<>> /\ done[l] = 0
                        /\ phase[l] # "events" \/ l # ioLoop => active[l] = {}
    /\ phase["io"] = "left" => "io" \in quit /\ queue["io"] = <<>>
    /\ "io" \in quit => phase["main"] = "left" /\ (stopped \/ server \in {"joining", "gone"})
    /\ server # "up" => phase["main"] = "left"
    /\ server \in {"joining", "gone"} => connections = {}
    /\ server = "gone" => phase["io"] = "left"
    /\ dangling => stopped

(* A connection is alive exactly as long as it is owned and nobody destroys it, and the
   loop that destroys one has no event of it left. *)
OwnInv ==
    \A c \in Conns :
        /\ Owned(c) <=> conn[c].obj = "live" /\ reaper[c] = "nobody"
        /\ conn[c].obj = "none" => reaper[c] = "nobody"
        /\ conn[c].obj \in {"freed", "closed"} => reaper[c] # "nobody"
        /\ conn[c].obj = "closed" => ~conn[c].epoll
        /\ \A l \in Loops : c \in active[l] => reaper[c] # l

(* connectEstablished waits once, on the io loop, in front of all that concerns its
   connection, as long as the connection is kConnecting. *)
OrderAt(l) ==
    \A k \in Waiting(l) :
        /\ Fn(l, k)[1] = "established" =>
             /\ l = ioLoop
             /\ conn[Fn(l, k)[2]].state = "kConnecting"
             /\ \A j \in 1..(k - 1) : Fn(l, j)[2] # Fn(l, k)[2]
        /\ conn[Fn(l, k)[2]].state = "kConnecting" => Waits(l, "established", Fn(l, k)[2])

OrderInv == \A l \in Loops : OrderAt(l)

(* Nothing has happened to a connection that is still kConnecting, and the io loop will
   establish it before it destroys it. *)
FreshAt(c) ==
    /\ conn[c].obj = "none" => conn[c].state = "kConnecting"
    /\ conn[c].state = "kConnecting" =>
         /\ ~conn[c].epoll /\ ~conn[c].reading /\ ~conn[c].context
         /\ c \notin held /\ \A l \in Loops : c \notin active[l]
         /\ conn[c].obj = "live" =>
              /\ ioLoop = "io"
              /\ server = "up" => c \in connections
              /\ phase["io"] # "left" => /\ Waits("io", "established", c)
                                         /\ c \in connections \/ Waits("io", "destroyed", c)

FreshInv == \A c \in Conns : FreshAt(c)

(* Reading is turned off before the connection is forgotten, but for a half-closed one
   that ~TcpServer forgets. *)
ReadAt(c) ==
    /\ conn[c].state = "kDisconnected" => ~conn[c].reading
    /\ c \notin connections /\ server = "up" => ~conn[c].reading
    /\ c \notin connections /\ conn[c].reading /\ conn[c].epoll =>
         conn[c].state = "kDisconnecting" \/ Waits(ioLoop, "destroyed", c)
    /\ phase["io"] = "left" /\ ioLoop = "io" => ~conn[c].epoll

(* connectDestroyed waits on the io loop; removeConnectionInLoop waits on another main
   loop, for a connection that is not read any more. *)
PlacesAt(l) ==
    \A k \in Waiting(l) :
        /\ Fn(l, k)[1] = "destroyed" => l = ioLoop
        /\ Fn(l, k)[1] = "remove" => l = "main" /\ ioLoop = "io" /\ ~conn[Fn(l, k)[2]].reading

ReadInv == (\A c \in Conns : ReadAt(c)) /\ (\A l \in Loops : PlacesAt(l))

(* What a server that is gone leaves. *)
Accounted(c) ==
    \/ conn[c].obj \in {"none", "closed"} \/ reaper[c] = "user"
    \/ c \in held \/ conn[c].context \/ Captures(queue["main"], c)

GoneInv == server = "gone" => \A c \in Conns : Accounted(c)

ServerInv == TypeOK /\ LoopInv /\ OwnInv /\ OrderInv /\ FreshInv /\ ReadInv /\ GoneInv
-----------------------------------------------------------------------------
(* Zenon proves each leaf that names no other prover. *)
USE ZenonT(30)

(* The length and the elements of a sequence of functors. *)
LEMMA SeqLen ==
    ASSUME NEW S, NEW s \in Seq(S)
    PROVE  Len(s) \in Nat /\ DOMAIN s = 1..Len(s) /\ \A i \in 1..Len(s) : s[i] \in S
  BY SMTT(30)

(* The empty sequence, as a loop's queue is after swap(). *)
LEMMA SeqEmpty ==
    ASSUME NEW S
    PROVE  <<>> \in Seq(S) /\ Len(<<>>) = 0 /\ DOMAIN <<>> = {}
  BY SMTT(30)

(* emplace_back leaves what is before the new element. *)
LEMMA SeqAppend ==
    ASSUME NEW S, NEW s \in Seq(S), NEW e \in S
    PROVE  /\ Append(s, e) \in Seq(S)
           /\ Len(Append(s, e)) = Len(s) + 1
           /\ DOMAIN Append(s, e) = 1..(Len(s) + 1)
           /\ \A i \in 1..Len(s) : Append(s, e)[i] = s[i]
           /\ Append(s, e)[Len(s) + 1] = e
  BY SMTT(30)

(* What connectEstablished, connectDestroyed and handleClose do to a connection, whatever
   updateChannel does to its registration. *)
LEMMA Records ==
    ASSUME TypeOK, NEW r \in Record
    PROVE  /\ Established(r) \in Record
           /\ Established(r).obj = r.obj /\ Established(r).state = "kConnected"
           /\ Closed(r) \in Record
           /\ Closed(r).obj = r.obj /\ Closed(r).context = r.context
           /\ Closed(r).state = "kDisconnected" /\ ~Closed(r).reading
           /\ Destroyed(r) \in Record
           /\ Destroyed(r).obj = r.obj /\ Destroyed(r).context = r.context
           /\ Destroyed(r).state =
                 IF r.state = "kConnected" THEN "kDisconnected" ELSE r.state
           /\ (Destroyed(r).reading => r.reading /\ r.state # "kConnected")
  <1>1. ASSUME NEW q \in Record
        PROVE  /\ UpdateChannel(q) \in Record
               /\ UpdateChannel(q).obj = q.obj /\ UpdateChannel(q).state = q.state
               /\ UpdateChannel(q).reading = q.reading /\ UpdateChannel(q).context = q.context
    <2>1. CASE q.index \in {"kNew", "kDeleted"}
      <3>1. UpdateChannel(q) = [q EXCEPT !.index = "kAdded", !.epoll = TRUE]
        BY <2>1 DEF UpdateChannel
      <3> QED
        BY <3>1 DEF Record
    <2>2. CASE q.index \notin {"kNew", "kDeleted"} /\ ~q.reading
      <3>1. UpdateChannel(q) = [q EXCEPT !.index = "kDeleted", !.epoll = FALSE]
        BY <2>2 DEF UpdateChannel
      <3> QED
        BY <3>1 DEF Record
    <2>3. CASE q.index \notin {"kNew", "kDeleted"} /\ q.reading
      BY <2>3 DEF UpdateChannel
    <2> QED
      BY <2>1, <2>2, <2>3
  <1>2. /\ Established(r) \in Record
        /\ Established(r).obj = r.obj /\ Established(r).state = "kConnected"
    <2> DEFINE q == [[r EXCEPT !.state = "kConnected", !.context = useTLS] EXCEPT !.reading = TRUE]
    <2>1. q \in Record /\ q.obj = r.obj /\ q.state = "kConnected"
      BY DEF Record, TypeOK
    <2>2. Established(r) = UpdateChannel(q)
      BY DEF Established, EnableReading
    <2> QED
      BY <1>1, <2>1, <2>2
  <1>3. ASSUME NEW q \in Record
        PROVE  /\ DisableAll(q) \in Record
               /\ DisableAll(q).obj = q.obj /\ DisableAll(q).state = q.state
               /\ DisableAll(q).context = q.context /\ ~DisableAll(q).reading
    <2>1. [q EXCEPT !.reading = FALSE] \in Record
      BY DEF Record
    <2> QED
      BY <1>1, <2>1 DEF DisableAll, Record
  <1>4. [r EXCEPT !.state = "kDisconnected"] \in Record
    BY DEF Record
  <1>5. /\ Closed(r) \in Record
        /\ Closed(r).obj = r.obj /\ Closed(r).context = r.context
        /\ Closed(r).state = "kDisconnected" /\ ~Closed(r).reading
    BY <1>3, <1>4 DEF Closed, Record
  <1>6. /\ Destroyed(r) \in Record
        /\ Destroyed(r).obj = r.obj /\ Destroyed(r).context = r.context
        /\ Destroyed(r).state = IF r.state = "kConnected" THEN "kDisconnected" ELSE r.state
        /\ (Destroyed(r).reading => r.reading /\ r.state # "kConnected")
    <2>1. CASE r.state = "kConnected"
      <3>1. Destroyed(r) = UpdateChannel(Closed(r))
        BY <2>1 DEF Destroyed, Remove, Closed
      <3> QED
        BY <1>1, <1>5, <2>1, <3>1, SMTT(30)
    <2>2. CASE r.state # "kConnected"
      <3>1. Destroyed(r) = UpdateChannel(r)
        BY <2>2 DEF Destroyed, Remove
      <3> QED
        BY <1>1, <2>2, <3>1
    <2> QED
      BY <2>1, <2>2
  <1> QED
    BY <1>2, <1>5, <1>6
-----------------------------------------------------------------------------
(* The waiting functors of a loop are functors, and each keeps its connection alive. *)
LEMMA Positions ==
    ASSUME TypeOK, NEW l \in Loops
    PROVE  /\ queue[l] \in Seq(Functor) /\ batch[l] \in Seq(Functor)
           /\ Len(queue[l]) \in Nat /\ Len(batch[l]) \in Nat /\ done[l] \in 0..Len(batch[l])
           /\ Rest(l) \in Nat
           /\ \A k \in Waiting(l) : /\ Fn(l, k) \in Functor
                                    /\ Fn(l, k)[1] \in Kinds /\ Fn(l, k)[2] \in Conns
                                    /\ Owned(Fn(l, k)[2])
  <1>1. /\ queue[l] \in Seq(Functor) /\ batch[l] \in Seq(Functor)
        /\ done[l] \in Nat /\ done[l] <= Len(batch[l])
    BY DEF TypeOK
  <1>2. /\ Len(queue[l]) \in Nat /\ Len(batch[l]) \in Nat
        /\ DOMAIN queue[l] = 1..Len(queue[l]) /\ DOMAIN batch[l] = 1..Len(batch[l])
        /\ \A j \in 1..Len(queue[l]) : queue[l][j] \in Functor
        /\ \A j \in 1..Len(batch[l]) : batch[l][j] \in Functor
    BY <1>1, SeqLen
  <1>3. Rest(l) \in Nat
    BY <1>1, <1>2, SMTT(30) DEF Rest
  <1>4. ASSUME NEW k \in Waiting(l)
        PROVE  /\ Fn(l, k) \in Functor
               /\ Captures(queue[l], Fn(l, k)[2]) \/ Captures(batch[l], Fn(l, k)[2])
    <2>1. CASE k <= Rest(l)
      <3>1. done[l] + k \in 1..Len(batch[l])
        BY <1>1, <1>2, <1>3, <2>1, SMTT(30) DEF Rest, Waiting
      <3> QED
        BY <1>2, <2>1, <3>1 DEF Fn, Captures
    <2>2. CASE ~(k <= Rest(l))
      <3>1. k - Rest(l) \in 1..Len(queue[l])
        BY <1>2, <1>3, <2>2, SMTT(30) DEF Waiting
      <3> QED
        BY <1>2, <2>2, <3>1 DEF Fn, Captures
    <2> QED
      BY <2>1, <2>2
  <1>5. ASSUME NEW f \in Functor PROVE f[1] \in Kinds /\ f[2] \in Conns
    BY DEF Functor
  <1> QED
    BY <1>1, <1>2, <1>3, <1>4, <1>5, SMTT(30) DEF Owned

(* Loop m waits for the same functors after the step. *)
Same(m) == Waiting(m)' = Waiting(m) /\ \A k \in Waiting(m) : Fn(m, k)' = Fn(m, k)

(* It has one more, f, behind them. *)
Grows(m, f) ==
    \E n \in Nat : /\ Waiting(m) = 1..n /\ Waiting(m)' = 1..(n + 1)
                   /\ \A k \in 1..n : Fn(m, k)' = Fn(m, k)
                   /\ Fn(m, n + 1)' = f

(* It has taken the one in front. *)
Shifts(m) ==
    \E n \in Nat : /\ Waiting(m) = 1..(n + 1) /\ Waiting(m)' = 1..n
                   /\ \A k \in 1..n : Fn(m, k)' = Fn(m, k + 1)

(* Nothing changes when the step leaves the loop's functors alone. *)
LEMMA Unchanged ==
    ASSUME NEW m \in Loops, queue'[m] = queue[m], batch'[m] = batch[m], done'[m] = done[m]
    PROVE  Same(m)
  BY DEF Same, Waiting, Fn, Rest

(* queueInLoop puts a functor behind the others. *)
LEMMA Posted ==
    ASSUME TypeOK, NEW l \in Loops, NEW f \in Functor, Post(l, f),
           batch'[l] = batch[l], done'[l] = done[l]
    PROVE  /\ Grows(l, f)
           /\ \A m \in Loops \ {l} : queue'[m] = queue[m]
  <1>1. /\ queue[l] \in Seq(Functor) /\ Len(queue[l]) \in Nat /\ Rest(l) \in Nat
        /\ Rest(l)' = Rest(l)
    BY Positions DEF Rest
  <1>2. queue'[l] = Append(queue[l], f) /\ \A m \in Loops \ {l} : queue'[m] = queue[m]
    BY DEF Post, TypeOK
  <1>3. /\ Len(queue'[l]) = Len(queue[l]) + 1 /\ queue'[l][Len(queue[l]) + 1] = f
        /\ \A j \in 1..Len(queue[l]) : queue'[l][j] = queue[l][j]
    BY <1>1, <1>2, SeqAppend, SMTT(30)
  <1>n. PICK n \in Nat : n = Rest(l) + Len(queue[l])
    BY <1>1, SMTT(30)
  <1>4. Waiting(l) = 1..n /\ Waiting(l)' = 1..(n + 1)
    BY <1>1, <1>3, <1>n, SMTT(30) DEF Waiting
  <1>5. Fn(l, n + 1)' = f
    <2>1. ~(n + 1 <= Rest(l)) /\ (n + 1) - Rest(l) = Len(queue[l]) + 1
      BY <1>1, <1>n, SMTT(30)
    <2> QED
      BY <1>1, <1>3, <2>1 DEF Fn
  <1>6. ASSUME NEW k \in 1..n PROVE Fn(l, k)' = Fn(l, k)
    <2>1. CASE k <= Rest(l)
      BY <1>1, <2>1 DEF Fn
    <2>2. CASE ~(k <= Rest(l))
      <3>1. k - Rest(l) \in 1..Len(queue[l])
        BY <1>1, <1>n, <2>2, SMTT(30)
      <3> QED
        BY <1>1, <1>3, <2>2, <3>1 DEF Fn
    <2> QED
      BY <2>1, <2>2
  <1> QED
    BY <1>2, <1>4, <1>5, <1>6 DEF Grows

(* doPendingFunctors swaps the queue into an empty vector. *)
LEMMA Swapped ==
    ASSUME TypeOK, LoopInv, NEW l \in Loops, BeginFunctors(l)
    PROVE  \A m \in Loops : Same(m)
  <1>1. /\ batch[l] = <<>> /\ done[l] = 0 /\ batch'[l] = queue[l] /\ queue'[l] = <<>>
        /\ done'[l] = 0
    BY DEF BeginFunctors, LoopInv, TypeOK
  <1>2. Len(queue[l]) \in Nat /\ Len(<<>>) = 0
    BY Positions, SeqEmpty
  <1>3. Rest(l) = 0 /\ Rest(l)' = Len(queue[l])
    BY <1>1, <1>2, SMTT(30) DEF Rest
  <1>4. Waiting(l)' = 1..Len(queue[l]) /\ Waiting(l) = 1..Len(queue[l])
    BY <1>1, <1>2, <1>3, SMTT(30) DEF Waiting
  <1>5. \A k \in Waiting(l) : Fn(l, k)' = Fn(l, k)
    BY <1>1, <1>2, <1>3, <1>4, SMTT(30) DEF Fn
  <1>6. \A m \in Loops \ {l} : Same(m)
    <2>1. \A m \in Loops \ {l} : queue'[m] = queue[m] /\ batch'[m] = batch[m] /\ done'[m] = done[m]
      BY DEF BeginFunctors, TypeOK
    <2> QED
      BY <2>1, Unchanged
  <1> QED
    BY <1>4, <1>5, <1>6 DEF Same

(* doPendingFunctors takes the functor in front. *)
LEMMA Taken ==
    ASSUME TypeOK, NEW l \in Loops, RunFunctor(l)
    PROVE  /\ \A m \in Loops \ {l} : batch'[m] = batch[m] /\ done'[m] = done[m]
           /\ 1 \in Waiting(l) /\ Fn(l, 1) = batch[l][done[l] + 1]
           /\ queue'[l] = queue[l] => Shifts(l)
  <1>1. /\ Len(queue[l]) \in Nat /\ Len(batch[l]) \in Nat /\ done[l] \in Nat
        /\ done[l] < Len(batch[l]) /\ Rest(l) \in Nat \ {0}
    <2>1. /\ Len(queue[l]) \in Nat /\ Len(batch[l]) \in Nat /\ done[l] \in 0..Len(batch[l])
      BY Positions
    <2>2. done[l] < Len(batch[l])
      BY DEF RunFunctor
    <2> QED
      BY <2>1, <2>2, SMTT(30) DEF Rest
  <1>2. /\ \A m \in Loops \ {l} : batch'[m] = batch[m] /\ done'[m] = done[m]
        /\ batch'[l] = batch[l] /\ done'[l] = done[l] + 1
    BY DEF RunFunctor, TypeOK
  <1>3. 1 \in Waiting(l) /\ Fn(l, 1) = batch[l][done[l] + 1]
    BY <1>1, SMTT(30) DEF Waiting, Fn
  <1>4. ASSUME queue'[l] = queue[l]
        PROVE  Shifts(l)
    <2>1. Rest(l)' = Rest(l) - 1
      BY <1>1, <1>2, SMTT(30) DEF Rest
    <2>2. PICK n \in Nat : n + 1 = Rest(l) + Len(queue[l])
      <3>1. /\ (Rest(l) - 1) + Len(queue[l]) \in Nat
            /\ ((Rest(l) - 1) + Len(queue[l])) + 1 = Rest(l) + Len(queue[l])
        BY <1>1, SMTT(30)
      <3> QED
        BY <3>1
    <2>3. Waiting(l) = 1..(n + 1) /\ Waiting(l)' = 1..n
      BY <1>1, <1>4, <2>1, <2>2, SMTT(30) DEF Waiting
    <2>4. ASSUME NEW k \in 1..n PROVE Fn(l, k)' = Fn(l, k + 1)
      <3>1. CASE k <= Rest(l) - 1
        <4>1. k + 1 <= Rest(l) /\ (done[l] + 1) + k = done[l] + (k + 1)
          BY <1>1, <3>1, SMTT(30)
        <4> QED
          BY <1>2, <2>1, <3>1, <4>1 DEF Fn
      <3>2. CASE ~(k <= Rest(l) - 1)
        <4>1. ~(k + 1 <= Rest(l)) /\ k - (Rest(l) - 1) = (k + 1) - Rest(l)
          BY <1>1, <3>2, SMTT(30)
        <4> QED
          BY <1>4, <2>1, <3>2, <4>1 DEF Fn
      <3> QED
        BY <3>1, <3>2
    <2> QED
      BY <2>3, <2>4 DEF Shifts
  <1> QED
    BY <1>2, <1>3, <1>4

(* The vector of functors is destroyed when all of them have run; an io loop that leaves
   drops its queue too. *)
LEMMA Dropped ==
    ASSUME TypeOK, NEW l \in Loops, EndFunctors(l)
    PROVE  /\ \A m \in Loops \ {l} : Same(m)
           /\ queue'[l] = queue[l] => Same(l)
           /\ queue'[l] # queue[l] =>
                /\ l = "io" /\ Leave("io") /\ queue'[l] = <<>>
           /\ queue'[l] = <<>> => Waiting(l)' = {}
  <1>1. /\ Len(queue[l]) \in Nat /\ Len(batch[l]) \in Nat /\ Len(<<>>) = 0
        /\ Rest(l) = 0
    BY Positions, SeqEmpty, SMTT(30) DEF EndFunctors, Rest
  <1>2. /\ batch'[l] = <<>> /\ done'[l] = 0
        /\ \A m \in Loops \ {l} : batch'[m] = batch[m] /\ done'[m] = done[m]
    BY DEF EndFunctors, TypeOK
  <1>3. \A m \in Loops \ {l} : queue'[m] = queue[m]
    BY DEF EndFunctors, Leave, TypeOK
  <1>4. Rest(l)' = 0
    BY <1>1, <1>2, SMTT(30) DEF Rest
  <1>5. \A m \in Loops \ {l} : Same(m)
    BY <1>2, <1>3, Unchanged
  <1>6. ASSUME queue'[l] = queue[l] PROVE Same(l)
    <2>1. Waiting(l)' = 1..Len(queue[l]) /\ Waiting(l) = 1..Len(queue[l])
      BY <1>1, <1>4, <1>6, SMTT(30) DEF Waiting
    <2>2. \A k \in 1..Len(queue[l]) : Fn(l, k)' = Fn(l, k)
      BY <1>1, <1>4, <1>6, SMTT(30) DEF Fn
    <2> QED
      BY <2>1, <2>2 DEF Same
  <1>7. ASSUME queue'[l] # queue[l]
        PROVE  l = "io" /\ Leave("io") /\ queue'[l] = <<>>
    BY <1>7, SMTT(30) DEF EndFunctors, Leave, TypeOK, Loops
  <1>8. ASSUME queue'[l] = <<>> PROVE Waiting(l)' = {}
    <2>1. Waiting(l)' = 1..(0 + 0)
      BY <1>1, <1>4, <1>8 DEF Waiting
    <2> QED
      BY <2>1, SMTT(30)
  <1> QED
    BY <1>5, <1>6, <1>7, <1>8
-----------------------------------------------------------------------------
(* A step that changes one connection's record and does not free it. *)
LEMMA Updated ==
    ASSUME TypeOK, NEW c \in Conns, NEW r \in Record, r.obj = conn[c].obj,
           conn' = [conn EXCEPT ![c] = r]
    PROVE  /\ conn' \in [Conns -> Record]
           /\ conn'[c] = r /\ \A d \in Conns \ {c} : conn'[d] = conn[d]
           /\ \A d \in Conns : conn'[d].obj = conn[d].obj
  BY DEF TypeOK

(* shutdown() stores kDisconnecting. *)
LEMMA Disconnecting ==
    ASSUME TypeOK, NEW c \in Conns, conn' = [conn EXCEPT ![c].state = "kDisconnecting"]
    PROVE  /\ conn' \in [Conns -> Record]
           /\ conn'[c].state = "kDisconnecting" /\ \A d \in Conns \ {c} : conn'[d] = conn[d]
           /\ \A d \in Conns : /\ conn'[d].obj = conn[d].obj
                               /\ conn'[d].epoll = conn[d].epoll
                               /\ conn'[d].reading = conn[d].reading
                               /\ conn'[d].context = conn[d].context
  <1> DEFINE r == [conn[c] EXCEPT !.state = "kDisconnecting"]
  <1>0. conn[c] \in Record
    BY DEF TypeOK
  <1>1. /\ r \in Record /\ r.state = "kDisconnecting" /\ r.obj = conn[c].obj
        /\ r.epoll = conn[c].epoll /\ r.reading = conn[c].reading
        /\ r.context = conn[c].context
    BY <1>0 DEF Record
  <1>2. conn' = [conn EXCEPT ![c] = r]
    OBVIOUS
  <1> HIDE DEF r
  <1>3. /\ conn' \in [Conns -> Record]
        /\ conn'[c] = r /\ \A d \in Conns \ {c} : conn'[d] = conn[d]
        /\ \A d \in Conns : conn'[d].obj = conn[d].obj
    BY <1>1, <1>2, Updated
  <1>4. ASSUME NEW d \in Conns
        PROVE  /\ conn'[d].epoll = conn[d].epoll /\ conn'[d].reading = conn[d].reading
               /\ conn'[d].context = conn[d].context
    BY <1>1, <1>3
  <1> QED
    BY <1>1, <1>3, <1>4

(* Posting a functor of a connection keeps the queues well typed. *)
LEMMA PostTypes ==
    ASSUME TypeOK, NEW l \in Loops, NEW k \in Kinds, NEW c \in Conns, Post(l, <<k, c>>)
    PROVE  queue' \in [Loops -> Seq(Functor)]
  <1>1. <<k, c>> \in Functor
    BY DEF Functor
  <1>2. Append(queue[l], <<k, c>>) \in Seq(Functor)
    BY <1>1, SeqAppend, SMTT(30) DEF TypeOK
  <1> QED
    BY <1>2 DEF Post, TypeOK

(* The types of what handleClose, and the functors it leads to, leave. *)
LEMMA RemoveTypes ==
    ASSUME TypeOK, NEW c \in Conns
    PROVE  /\ RemoveConnectionInLoop(c) \/ RemoveConnection(c) =>
                connections' \subseteq connections /\ queue' \in [Loops -> Seq(Functor)]
           /\ HandleClose(c) =>
                /\ conn' \in [Conns -> Record] /\ \A d \in Conns : conn'[d].obj = conn[d].obj
                /\ conn'[c] = Closed(conn[c]) /\ \A d \in Conns \ {c} : conn'[d] = conn[d]
                /\ connections' \subseteq connections /\ queue' \in [Loops -> Seq(Functor)]
  <1>1. RemoveConnectionInLoop(c) \/ RemoveConnection(c) =>
          connections' \subseteq connections /\ queue' \in [Loops -> Seq(Functor)]
    BY PostTypes DEF RemoveConnectionInLoop, RemoveConnection, TypeOK, Loops, Kinds
  <1>2. conn[c] \in Record
    BY DEF TypeOK
  <1>3. ASSUME HandleClose(c)
        PROVE  /\ conn' \in [Conns -> Record] /\ \A d \in Conns : conn'[d].obj = conn[d].obj
               /\ conn'[c] = Closed(conn[c]) /\ \A d \in Conns \ {c} : conn'[d] = conn[d]
    <2>1. conn' = [conn EXCEPT ![c] = Closed(@)]
      BY <1>3 DEF HandleClose
    <2>2. Closed(conn[c]) \in Record /\ Closed(conn[c]).obj = conn[c].obj
      BY <1>2, Records
    <2> QED
      BY <2>1, <2>2, Updated
  <1> QED
    BY <1>1, <1>3 DEF HandleClose

(* Every step keeps the types; connections_ and user code only have pointers to living
   connections. *)
LEMMA TypeStep == TypeOK /\ LoopInv /\ OwnInv /\ [Next]_vars => TypeOK'
  <1> SUFFICES ASSUME TypeOK, LoopInv, OwnInv, [Next]_vars PROVE TypeOK'
    OBVIOUS
  <1> DEFINE Data ==
               /\ conn \in [Conns -> Record]
               /\ connections \subseteq {c \in Conns : conn[c].obj = "live"}
               /\ queue \in [Loops -> Seq(Functor)]
               /\ batch \in [Loops -> Seq(Functor)]
               /\ done \in [Loops -> Nat]
               /\ \A l \in Loops : done[l] <= Len(batch[l])
               /\ phase \in [Loops -> {"poll", "events", "functors", "left"}]
               /\ active \in [Loops -> SUBSET Conns]
               /\ peer \in [Conns -> PeerRecord]
               /\ held \subseteq {c \in Conns : conn[c].obj = "live"}
               /\ racing \subseteq held
               /\ reaper \in [Conns -> Loops \cup {"user", "nobody"}]
               /\ server \in {"up", "destroying", "joining", "gone"} /\ quit \subseteq Loops
  <1> USE DEF ending
  <1>0. ASSUME NEW c \in Conns, Owned(c) PROVE conn[c].obj = "live"
    BY <1>0 DEF OwnInv
  <1>1. ASSUME NEW l \in Loops, Poll(l) PROVE Data'
    BY <1>1 DEF Poll, TypeOK
  <1>2. ASSUME NEW l \in Loops, NEW c \in Conns, HandleEvent(l, c) PROVE Data'
    <2>1. /\ active' \in [Loops -> SUBSET Conns]
          /\ reaper' \in [Conns -> Loops \cup {"user", "nobody"}]
      BY <1>2 DEF HandleEvent, DropsLast, TypeOK
    <2>2. CASE Owned(c) /\ HandleClose(c)
      <3>1. peer' \in [Conns -> PeerRecord]
        <4>1. peer' = [peer EXCEPT ![c].end = IF @ = "rst" THEN "rstRead" ELSE @]
          BY <2>2 DEF HandleClose
        <4>2. peer[c] \in PeerRecord
          BY DEF TypeOK
        <4>3. [peer[c] EXCEPT !.end = IF @ = "rst" THEN "rstRead" ELSE @] \in PeerRecord
          BY <4>2 DEF PeerRecord
        <4> QED
          BY <4>1, <4>3 DEF TypeOK
      <3> QED
        BY <1>2, <2>1, <2>2, <3>1, RemoveTypes DEF HandleEvent, HandleClose, TypeOK
    <2>3. CASE Owned(c) /\ HandleMessage(c)
      <3>1. /\ conn' \in [Conns -> Record] /\ \A d \in Conns : conn'[d].obj = conn[d].obj
        BY <2>3, Disconnecting DEF HandleMessage, TypeOK
      <3>2. peer' \in [Conns -> PeerRecord]
        <4>1. PICK now \in BOOLEAN : peer' = [peer EXCEPT ![c].sent = FALSE, ![c].shut = @ \/ now]
          BY <2>3 DEF HandleMessage
        <4>2. peer[c] \in PeerRecord
          BY DEF TypeOK
        <4>3. [peer[c] EXCEPT !.sent = FALSE, !.shut = @ \/ now] \in PeerRecord
          BY <4>2 DEF PeerRecord
        <4> QED
          BY <4>1, <4>3 DEF TypeOK
      <3>3. held \subseteq held' /\ held' \subseteq held \cup {c}
        BY <2>3 DEF HandleMessage
      <3>4. conn[c].obj = "live"
        BY <1>0, <2>3
      <3> QED
        BY <1>2, <2>1, <2>3, <3>1, <3>2, <3>3, <3>4 DEF HandleEvent, HandleMessage, TypeOK
    <2>4. CASE HandleError(c)
      <3>1. peer' \in [Conns -> PeerRecord]
        BY <2>4 DEF HandleError, TypeOK, PeerRecord
      <3> QED
        BY <1>2, <2>1, <2>4, <3>1 DEF HandleEvent, HandleError, TypeOK
    <2>5. CASE UNCHANGED <<conn, connections, queue, peer, held>>
      BY <1>2, <2>1, <2>5 DEF HandleEvent, TypeOK
    <2> QED
      BY <1>2, <2>2, <2>3, <2>4, <2>5 DEF HandleEvent, HandleRead
  <1>3. ASSUME NEW l \in Loops, BeginFunctors(l) PROVE Data'
    <2>1. /\ batch' \in [Loops -> Seq(Functor)] /\ queue' \in [Loops -> Seq(Functor)]
      BY <1>3, SeqEmpty DEF BeginFunctors, TypeOK
    <2>2. ASSUME NEW m \in Loops PROVE done'[m] <= Len(batch'[m])
      <3>1. CASE m = l
        <4>1. done'[l] = 0 /\ batch'[l] = queue[l]
          BY <1>3 DEF BeginFunctors, LoopInv, TypeOK
        <4>2. Len(queue[l]) \in Nat
          BY Positions
        <4> QED
          BY <3>1, <4>1, <4>2, SMTT(30)
      <3>2. CASE m # l
        BY <1>3, <3>2 DEF BeginFunctors, TypeOK
      <3> QED
        BY <3>1, <3>2
    <2>3. phase' \in [Loops -> {"poll", "events", "functors", "left"}]
      BY <1>3 DEF BeginFunctors, TypeOK
    <2> QED
      BY <1>3, <2>1, <2>2, <2>3 DEF BeginFunctors, TypeOK
  <1>4. ASSUME NEW l \in Loops, RunFunctor(l) PROVE Data'
    <2>1. done' \in [Loops -> Nat]
      BY <1>4, SMTT(30) DEF RunFunctor, TypeOK
    <2>2. ASSUME NEW m \in Loops PROVE done'[m] <= Len(batch'[m])
      <3>1. CASE m = l
        <4>1. /\ done[l] \in Nat /\ Len(batch[l]) \in Nat /\ done[l] < Len(batch[l])
              /\ done'[l] = done[l] + 1 /\ batch'[l] = batch[l]
          BY <1>4, SeqLen DEF RunFunctor, TypeOK
        <4> QED
          BY <3>1, <4>1, SMTT(30)
      <3>2. CASE m # l
        BY <1>4, <3>2 DEF RunFunctor, TypeOK
      <3> QED
        BY <3>1, <3>2, SMTT(30)
    <2>3. PICK c \in Conns : c = batch[l][done[l] + 1][2]
      BY <1>4, Positions, Taken
    <2>4. conn[c] \in Record
      BY DEF TypeOK
    <2>5. CASE conn' = [conn EXCEPT ![c] = Established(@)] /\ UNCHANGED <<connections, queue, peer>>
      <3>1. conn' = [conn EXCEPT ![c] = Established(conn[c])]
        BY <2>5
      <3>2. conn' \in [Conns -> Record] /\ \A d \in Conns : conn'[d].obj = conn[d].obj
        BY <2>4, <3>1, Records, Updated
      <3> QED
        BY <1>4, <2>1, <2>2, <2>5, <3>2 DEF RunFunctor, TypeOK
    <2>6. CASE RemoveConnectionInLoop(c) /\ UNCHANGED <<conn, peer>>
      BY <1>4, <2>1, <2>2, <2>6, RemoveTypes DEF RunFunctor, TypeOK
    <2>7. CASE conn' = [conn EXCEPT ![c] = Destroyed(@)] /\ UNCHANGED <<connections, queue, peer>>
      <3>1. conn' = [conn EXCEPT ![c] = Destroyed(conn[c])]
        BY <2>7
      <3>2. conn' \in [Conns -> Record] /\ \A d \in Conns : conn'[d].obj = conn[d].obj
        BY <2>4, <3>1, Records, Updated
      <3> QED
        BY <1>4, <2>1, <2>2, <2>7, <3>2 DEF RunFunctor, TypeOK
    <2>8. CASE peer' = [peer EXCEPT ![c].shut = TRUE] /\ UNCHANGED <<conn, connections, queue>>
      <3>1. peer' \in [Conns -> PeerRecord]
        BY <2>8 DEF TypeOK, PeerRecord
      <3> QED
        BY <1>4, <2>1, <2>2, <2>8, <3>1 DEF RunFunctor, TypeOK
    <2> QED
      BY <1>4, <2>3, <2>5, <2>6, <2>7, <2>8 DEF RunFunctor
  <1>5. ASSUME NEW l \in Loops, EndFunctors(l) PROVE Data'
    <2>1. batch' \in [Loops -> Seq(Functor)] /\ done' \in [Loops -> Nat]
      BY <1>5, SeqEmpty DEF EndFunctors, TypeOK
    <2>2. ASSUME NEW m \in Loops PROVE done'[m] <= Len(batch'[m])
      BY <1>5, SeqEmpty, SMTT(30) DEF EndFunctors, TypeOK
    <2>3. reaper' \in [Conns -> Loops \cup {"user", "nobody"}]
      BY <1>5 DEF EndFunctors, DropsLast, TypeOK
    <2>4. /\ phase' \in [Loops -> {"poll", "events", "functors", "left"}]
          /\ queue' \in [Loops -> Seq(Functor)]
      <3>1. phase' \in [Loops -> {"poll", "events", "functors", "left"}]
        BY <1>5 DEF EndFunctors, Leave, TypeOK
      <3>2. queue' = queue \/ queue' = [queue EXCEPT ![l] = <<>>]
        BY <1>5 DEF EndFunctors, Leave
      <3>3. queue \in [Loops -> Seq(Functor)] /\ <<>> \in Seq(Functor)
        BY SeqEmpty DEF TypeOK
      <3>4. queue' \in [Loops -> Seq(Functor)]
        BY <3>2, <3>3
      <3> QED
        BY <3>1, <3>4
    <2>5. conn' \in [Conns -> Record] /\ \A d \in Conns : conn'[d].obj = conn[d].obj
      <3>1. CASE conn' = conn
        BY <3>1 DEF TypeOK
      <3>2. CASE conn' = [c \in Conns |-> IF ioLoop = l THEN [conn[c] EXCEPT !.epoll = FALSE] ELSE conn[c]]
        <4>1. ASSUME NEW r \in Record
              PROVE  [r EXCEPT !.epoll = FALSE] \in Record /\ [r EXCEPT !.epoll = FALSE].obj = r.obj
          BY DEF Record
        <4> QED
          BY <3>2, <4>1 DEF TypeOK
      <3> QED
        BY <1>5, <3>1, <3>2 DEF EndFunctors, Leave
    <2> QED
      BY <1>5, <2>1, <2>2, <2>3, <2>4, <2>5 DEF EndFunctors, TypeOK
  <1>6. ASSUME NEW c \in Conns, NewConnection(c) PROVE Data'
    <2> DEFINE r == [conn[c] EXCEPT !.obj = "live"]
    <2>1. conn[c] \in Record
      BY DEF TypeOK
    <2>2. r \in Record /\ r.obj = "live"
      BY <2>1 DEF Record
    <2>3. queue' \in [Loops -> Seq(Functor)]
      BY <1>6, PostTypes DEF NewConnection, TypeOK, Kinds
    <2>4. conn' = [conn EXCEPT ![c] = r] \/ conn' = [conn EXCEPT ![c] = Established(r)]
      BY <1>6 DEF NewConnection
    <2> HIDE DEF r
    <2>5. Established(r) \in Record /\ Established(r).obj = "live"
      BY <2>2, Records
    <2>6. /\ conn' \in [Conns -> Record] /\ conn'[c].obj = "live"
          /\ \A d \in Conns \ {c} : conn'[d] = conn[d]
      BY <2>2, <2>4, <2>5 DEF TypeOK
    <2>7. /\ connections' \subseteq {d \in Conns : conn'[d].obj = "live"}
          /\ held \subseteq {d \in Conns : conn'[d].obj = "live"}
      <3>1. /\ connections \subseteq {d \in Conns : conn[d].obj = "live"}
            /\ held \subseteq {d \in Conns : conn[d].obj = "live"}
        BY DEF TypeOK
      <3>2. connections' = connections \cup {c}
        BY <1>6 DEF NewConnection
      <3> QED
        BY <2>6, <3>1, <3>2
    <2> QED
      BY <1>6, <2>3, <2>6, <2>7 DEF NewConnection, TypeOK
  <1>7. ASSUME NEW c \in Conns, FreeChannel(c) PROVE Data'
    <2> DEFINE r == [conn[c] EXCEPT !.obj = "freed"]
    <2>1. r \in Record /\ conn' = [conn EXCEPT ![c] = r]
      <3>1. conn[c] \in Record
        BY SMTT(30) DEF TypeOK
      <3>2. r \in Record
        BY <3>1 DEF Record
      <3> QED
        BY <1>7, <3>2 DEF FreeChannel
    <2>2. c \notin connections /\ c \notin held
      BY <1>7 DEF FreeChannel, OwnInv, Owned
    <2> HIDE DEF r
    <2>3. conn' \in [Conns -> Record] /\ \A d \in Conns \ {c} : conn'[d] = conn[d]
      BY <2>1 DEF TypeOK
    <2>4. /\ connections \subseteq {d \in Conns : conn'[d].obj = "live"}
          /\ held \subseteq {d \in Conns : conn'[d].obj = "live"}
      BY <2>2, <2>3 DEF TypeOK
    <2> QED
      BY <1>7, <2>3, <2>4 DEF FreeChannel, TypeOK
  <1>8. ASSUME NEW c \in Conns, CloseSocket(c) PROVE Data'
    <2> DEFINE r == [conn[c] EXCEPT !.obj = "closed", !.epoll = FALSE]
    <2>1. r \in Record /\ conn' = [conn EXCEPT ![c] = r]
      <3>1. conn[c] \in Record
        BY DEF TypeOK
      <3>2. r \in Record
        BY <3>1 DEF Record
      <3> QED
        BY <1>8, <3>2 DEF CloseSocket
    <2>2. c \notin connections /\ c \notin held
      BY <1>8 DEF CloseSocket, TypeOK
    <2> HIDE DEF r
    <2>3. conn' \in [Conns -> Record] /\ \A d \in Conns \ {c} : conn'[d] = conn[d]
      BY <2>1 DEF TypeOK
    <2>4. /\ connections \subseteq {d \in Conns : conn'[d].obj = "live"}
          /\ held \subseteq {d \in Conns : conn'[d].obj = "live"}
      BY <2>2, <2>3 DEF TypeOK
    <2> QED
      BY <1>8, <2>3, <2>4 DEF CloseSocket, TypeOK
  <1>9. ASSUME NEW c \in Conns, ShutdownTest(c) PROVE Data'
    BY <1>9 DEF ShutdownTest, TypeOK
  <1>10. ASSUME NEW c \in Conns, ShutdownStore(c) PROVE Data'
    <2>1. /\ conn' \in [Conns -> Record] /\ \A d \in Conns : conn'[d].obj = conn[d].obj
      BY <1>10, Disconnecting DEF ShutdownStore
    <2>2. queue' \in [Loops -> Seq(Functor)]
      BY <1>10, PostTypes DEF ShutdownStore, TypeOK, Kinds
    <2> QED
      BY <1>10, <2>1, <2>2 DEF ShutdownStore, TypeOK
  <1>11. ASSUME NEW c \in Conns, Release(c) PROVE Data'
    <2>1. reaper' \in [Conns -> Loops \cup {"user", "nobody"}]
      BY <1>11 DEF Release, DropsLast, TypeOK
    <2> QED
      BY <1>11, <2>1 DEF Release, TypeOK
  <1>12. ASSUME NEW c \in Conns, PeerSends(c) \/ PeerEnds(c) PROVE Data'
    <2>1. peer[c] \in PeerRecord
      BY DEF TypeOK
    <2>2. PICK r : peer' = [peer EXCEPT ![c] = r] /\ r \in PeerRecord
      <3>1. CASE PeerSends(c)
        <4>1. [peer[c] EXCEPT !.sent = TRUE] \in PeerRecord
          BY <2>1 DEF PeerRecord
        <4> QED
          BY <3>1, <4>1 DEF PeerSends
      <3>2. CASE PeerEnds(c)
        <4>1. PICK how \in {"fin", "rst"} :
                peer' = [peer EXCEPT ![c].end = how, ![c].sent = @ /\ how = "fin"]
          BY <3>2 DEF PeerEnds
        <4>2. [peer[c] EXCEPT !.end = how, !.sent = @ /\ how = "fin"] \in PeerRecord
          BY <2>1 DEF PeerRecord
        <4> QED
          BY <4>1, <4>2
      <3> QED
        BY <1>12, <3>1, <3>2
    <2>3. peer' \in [Conns -> PeerRecord]
      BY <2>2 DEF TypeOK
    <2> QED
      BY <1>12, <2>3 DEF PeerSends, PeerEnds, TypeOK
  <1>13. ASSUME QuitMain \/ StopServer PROVE Data'
    <2>1. quit' \subseteq Loops /\ server' = server
      BY <1>13 DEF QuitMain, StopServer, TypeOK, Loops
    <2> QED
      BY <1>13, <2>1 DEF QuitMain, StopServer, TypeOK
  <1>14. ASSUME NEW from, NEW to \in {"destroying", "joining", "gone"}, DestroyServer(from, to)
         PROVE Data'
    BY <1>14 DEF DestroyServer, TypeOK
  <1>15. ASSUME NEW c \in Conns, DestroyConnection(c) PROVE Data'
    <2>1. reaper' \in [Conns -> Loops \cup {"user", "nobody"}]
      BY <1>15 DEF DestroyConnection, DropsLast, TypeOK, Loops
    <2>2. queue' \in [Loops -> Seq(Functor)]
      BY <1>15, PostTypes DEF DestroyConnection, TypeOK, Kinds, Loops
    <2>3. conn[c] \in Record
      BY SMTT(30) DEF TypeOK
    <2>4. conn' = conn \/ conn' = [conn EXCEPT ![c] = Destroyed(conn[c])]
      BY <1>15 DEF DestroyConnection
    <2>5. conn' \in [Conns -> Record] /\ \A d \in Conns : conn'[d].obj = conn[d].obj
      <3>1. Destroyed(conn[c]) \in Record /\ Destroyed(conn[c]).obj = conn[c].obj
        BY <2>3, Records
      <3>2. CASE conn' = conn
        BY <3>2 DEF TypeOK
      <3>3. CASE conn' = [conn EXCEPT ![c] = Destroyed(conn[c])]
        BY <3>1, <3>3, Updated
      <3> QED
        BY <2>4, <3>2, <3>3
    <2> QED
      BY <1>15, <2>1, <2>2, <2>5 DEF DestroyConnection, TypeOK
  <1>16. ASSUME UNCHANGED serverVars PROVE Data'
    <2>1. UNCHANGED <<conn, connections, queue, batch, done, phase, active, peer, held, racing,
                      reaper, server, quit>>
      BY <1>16 DEF serverVars
    <2> QED
      BY <2>1 DEF TypeOK
  <1>17. Data'
    <2> HIDE DEF Data
    <2>1. ASSUME NEW l \in Loops, LoopStep(l) PROVE Data'
      BY <1>1, <1>2, <1>3, <1>4, <1>5, <2>1 DEF LoopStep
    <2>2. CASE MainStep
      BY <1>13, <1>14, <1>15, <2>2 DEF MainStep
    <2>3. CASE Step
      BY <1>6, <1>7, <1>8, <1>9, <1>10, <1>11, <1>12, <1>13, <2>1, <2>2, <2>3 DEF Step, UserStep
    <2> QED
      BY <1>16, <2>3 DEF Next, Finished, vars
  <1>18. ioLoop' \in Loops /\ useTLS' \in BOOLEAN
    BY DEF Next, vars, TypeOK
  <1>19. stopped' \in BOOLEAN /\ dangling' \in BOOLEAN
    <2>1. stopped' \in {stopped, TRUE} /\ dangling' \in {dangling, TRUE}
      BY DEF Next, Step, LoopStep, MainStep, UserStep, Finished, vars, serverVars, Poll, HandleEvent,
             BeginFunctors, RunFunctor, EndFunctors, NewConnection, FreeChannel, CloseSocket,
             ShutdownTest, ShutdownStore, Release, PeerSends, PeerEnds, QuitMain, StopServer,
             DestroyServer, DestroyConnection
    <2> QED
      BY <2>1 DEF TypeOK
  <1> QED
    BY <1>17, <1>18, <1>19 DEF TypeOK

(* The io loop leaves after the main loop, and nobody posts to it then; an iteration of a
   loop ends with its events handled and its functors gone. *)
LEMMA LoopsStep == TypeOK /\ LoopInv /\ [Next]_vars => LoopInv'
  <1> SUFFICES ASSUME TypeOK, LoopInv, [Next]_vars PROVE LoopInv'
    OBVIOUS
  <1> USE DEF ending
  <1> DEFINE Each == \A l \in Loops :
                       /\ phase[l] # "functors" => batch[l] = <<>> /\ done[l] = 0
                       /\ phase[l] # "events" \/ l # ioLoop => active[l] = {}
             Left == phase["io"] = "left" => "io" \in quit /\ queue["io"] = <<>>
             Told == "io" \in quit => phase["main"] = "left" /\ (stopped \/ server \in {"joining", "gone"})
             Down == /\ server # "up" => phase["main"] = "left"
                     /\ server \in {"joining", "gone"} => connections = {}
                     /\ server = "gone" => phase["io"] = "left"
                     /\ dangling => stopped
  <1>a. Each /\ Left /\ Told /\ Down
    BY DEF LoopInv
  <1>b. Each' /\ Left' /\ Told' /\ Down' => LoopInv'
    BY DEF LoopInv
  <1>c. "main" \in Loops /\ "io" \in Loops /\ Loops = {"main", "io"} /\ ioLoop \in Loops
    BY DEF Loops, TypeOK
  <1>d. phase[ioLoop] = "left" => phase["main"] = "left" /\ Left
    BY <1>a, <1>c
  <1>e. ioLoop' = ioLoop
    BY DEF Next, vars
  <1>f. ASSUME NEW l \in Loops, NEW x, Post(l, x) PROVE queue'["io"] = queue["io"] \/ l = "io"
    BY <1>c, <1>f DEF Post, TypeOK
  <1>1. ASSUME NEW l \in Loops, Poll(l) PROVE LoopInv'
    <2>1. Each'
      BY <1>1, <1>a, <1>c, <1>e DEF Poll, TypeOK
    <2>2. Left' /\ Told' /\ Down'
      BY <1>1, <1>a, <1>c DEF Poll, TypeOK
    <2> QED
      BY <1>b, <2>1, <2>2
  <1>2. ASSUME NEW l \in Loops, NEW c \in Conns, HandleEvent(l, c) PROVE LoopInv'
    <2>1. l = ioLoop /\ phase[l] = "events" /\ connections' \subseteq connections
      BY <1>2, <1>a DEF HandleEvent, HandleRead, HandleClose, HandleMessage, HandleError,
                        RemoveConnection, RemoveConnectionInLoop
    <2>2. Each'
      BY <1>2, <1>a, <1>e DEF HandleEvent, TypeOK
    <2>3. queue' = queue \/ \E x : Post("main", x)
      BY <1>2, <1>c DEF HandleEvent, HandleRead, HandleClose, HandleMessage, HandleError,
                       RemoveConnection, RemoveConnectionInLoop
    <2>4. queue'["io"] = queue["io"]
      BY <1>c, <1>f, <2>3
    <2>5. Left' /\ Told' /\ Down'
      BY <1>2, <1>a, <2>1, <2>4 DEF HandleEvent
    <2> QED
      BY <1>b, <2>2, <2>5
  <1>3. ASSUME NEW l \in Loops, BeginFunctors(l) PROVE LoopInv'
    <2>1. Each'
      BY <1>3, <1>a, <1>e DEF BeginFunctors, TypeOK
    <2>2. Left' /\ Told' /\ Down'
      BY <1>3, <1>a, <1>c DEF BeginFunctors, TypeOK
    <2> QED
      BY <1>b, <2>1, <2>2, SMTT(30)
  <1>4. ASSUME NEW l \in Loops, RunFunctor(l) PROVE LoopInv'
    <2>1. Each'
      BY <1>4, <1>a, <1>e DEF RunFunctor, TypeOK
    <2>2. phase[l] = "functors" /\ connections' \subseteq connections
      BY <1>4 DEF RunFunctor, RemoveConnectionInLoop
    <2>3. phase["io"] # "left"
      BY <1>a, <1>c, <2>2
    <2>4. Left' /\ Told' /\ Down'
      BY <1>4, <1>a, <2>2, <2>3 DEF RunFunctor
    <2> QED
      BY <1>b, <2>1, <2>4, SMTT(30)
  <1>5. ASSUME NEW l \in Loops, EndFunctors(l) PROVE LoopInv'
    <2>1. Each'
      BY <1>5, <1>a, <1>e, SMTT(30) DEF EndFunctors, Leave, TypeOK
    <2>2. /\ phase[l] = "functors" /\ (phase'[l] = "left" => l \in quit)
          /\ \A m \in Loops \ {l} : phase'[m] = phase[m] /\ queue'[m] = queue[m]
          /\ l = "io" /\ phase'[l] = "left" => queue'[l] = <<>>
      BY <1>5 DEF EndFunctors, Leave, TypeOK
    <2>3. UNCHANGED <<quit, stopped, server, dangling, connections>>
      BY <1>5 DEF EndFunctors
    <2>4. Told' /\ Down'
      BY <1>a, <1>c, <2>2, <2>3
    <2>5. Left'
      BY <1>a, <1>c, <2>2, <2>3
    <2> QED
      BY <1>b, <2>1, <2>4, <2>5
  <1>6. ASSUME NEW c \in Conns, NewConnection(c) PROVE LoopInv'
    <2>1. UNCHANGED <<batch, done, phase, active, quit, stopped, server, dangling>>
      BY <1>6 DEF NewConnection
    <2>2. phase["main"] = "events"
      BY <1>6 DEF NewConnection
    <2> QED
      BY <1>a, <1>b, <1>e, <2>1, <2>2
  <1>7. ASSUME NEW c \in Conns, ShutdownStore(c) PROVE LoopInv'
    <2>1. UNCHANGED <<batch, done, phase, active, quit, stopped, server, dangling, connections>>
      BY <1>7 DEF ShutdownStore
    <2>2. phase["io"] = "left" => queue'["io"] = queue["io"]
      BY <1>7, <1>c, <1>f DEF ShutdownStore
    <2> QED
      BY <1>a, <1>b, <1>e, <2>1, <2>2
  <1>8. ASSUME QuitMain PROVE LoopInv'
    BY <1>8, <1>a, <1>b, <1>e DEF QuitMain
  <1>9. ASSUME StopServer PROVE LoopInv'
    BY <1>9, <1>a, <1>b, <1>e DEF StopServer, Loops
  <1>10. ASSUME NEW from, NEW to, DestroyServer(from, to),
                <<from, to>> \in {<<"up", "destroying">>, <<"destroying", "joining">>, <<"joining", "gone">>}
         PROVE  LoopInv'
    BY <1>10, <1>a, <1>b, <1>e DEF DestroyServer, Loops
  <1>11. ASSUME NEW c \in Conns, DestroyConnection(c) PROVE LoopInv'
    <2>1. UNCHANGED <<batch, done, phase, active, quit, stopped, server>> /\ server = "destroying"
      BY <1>11 DEF DestroyConnection
    <2>2. phase["io"] = "left" => queue' = queue
      BY <1>11, <1>c DEF DestroyConnection
    <2>3. dangling' => dangling \/ phase["io"] = "left"
      BY <1>11 DEF DestroyConnection
    <2> QED
      BY <1>a, <1>b, <1>e, <2>1, <2>2, <2>3
  <1>12. ASSUME UNCHANGED <<batch, done, phase, active, queue, quit, stopped, server, dangling, connections>>
         PROVE  LoopInv'
    BY <1>12, <1>a, <1>b, <1>e
  <1> HIDE DEF Each, Left, Told, Down
  <1>13. ASSUME NEW l \in Loops, LoopStep(l) PROVE LoopInv'
    BY <1>1, <1>2, <1>3, <1>4, <1>5, <1>13 DEF LoopStep
  <1>14. ASSUME MainStep PROVE LoopInv'
    BY <1>9, <1>10, <1>11, <1>14 DEF MainStep
  <1>15. ASSUME NEW c \in Conns,
                \/ FreeChannel(c) \/ CloseSocket(c) \/ ShutdownTest(c) \/ Release(c)
                \/ PeerSends(c) \/ PeerEnds(c)
         PROVE  LoopInv'
    BY <1>12, <1>15 DEF FreeChannel, CloseSocket, ShutdownTest, Release, PeerSends, PeerEnds
  <1>16. CASE Step
    BY <1>6, <1>7, <1>8, <1>13, <1>14, <1>15, <1>16 DEF Step, UserStep
  <1>17. CASE UNCHANGED serverVars
    BY <1>12, <1>17 DEF serverVars
  <1> QED
    BY <1>16, <1>17 DEF Next, Finished, vars
-----------------------------------------------------------------------------
(* A functor of some loop has captured a pointer to c. *)
Captured(c) == \E l \in Loops : Captures(queue[l], c) \/ Captures(batch[l], c)

(* A posted functor captures its connection and nothing else. *)
LEMMA PostCaptures ==
    ASSUME TypeOK, NEW l \in Loops, NEW k \in Kinds, NEW c \in Conns, Post(l, <<k, c>>),
           UNCHANGED batch
    PROVE  \A d \in Conns : Captured(d)' <=> d = c \/ Captured(d)
  <1>1. /\ queue[l] \in Seq(Functor) /\ Len(queue[l]) \in Nat
        /\ DOMAIN queue[l] = 1..Len(queue[l]) /\ <<k, c>> \in Functor
    BY SeqLen DEF TypeOK, Functor
  <1>2. queue'[l] = Append(queue[l], <<k, c>>) /\ \A m \in Loops \ {l} : queue'[m] = queue[m]
    BY DEF Post, TypeOK
  <1>3. /\ DOMAIN queue'[l] = 1..(Len(queue[l]) + 1)
        /\ queue'[l][Len(queue[l]) + 1] = <<k, c>>
        /\ \A j \in 1..Len(queue[l]) : queue'[l][j] = queue[l][j]
    BY <1>1, <1>2, SeqAppend, SeqLen, SMTT(30)
  <1>4. ASSUME NEW d \in Conns PROVE Captures(queue'[l], d) <=> Captures(queue[l], d) \/ d = c
    <2>1. ASSUME Captures(queue'[l], d), d # c PROVE Captures(queue[l], d)
      <3>1. PICK j \in 1..(Len(queue[l]) + 1) : queue'[l][j][2] = d
        BY <1>3, <2>1 DEF Captures
      <3>2. j # Len(queue[l]) + 1
        BY <1>3, <2>1, <3>1, SMTT(30)
      <3>3. j \in 1..Len(queue[l])
        BY <1>1, <3>2, SMTT(30)
      <3> QED
        BY <1>1, <1>3, <3>1, <3>3 DEF Captures
    <2>2. ASSUME Captures(queue[l], d) PROVE Captures(queue'[l], d)
      <3>1. PICK j \in 1..Len(queue[l]) : queue[l][j][2] = d
        BY <1>1, <2>2 DEF Captures
      <3>2. j \in 1..(Len(queue[l]) + 1)
        BY <1>1, SMTT(30)
      <3> QED
        BY <1>3, <3>1, <3>2 DEF Captures
    <2>3. Captures(queue'[l], c)
      <3>1. Len(queue[l]) + 1 \in DOMAIN queue'[l]
        BY <1>1, <1>3, SMTT(30)
      <3> QED
        BY <1>3, <3>1, SMTT(30) DEF Captures
    <2> QED
      BY <2>1, <2>2, <2>3
  <1>5. ASSUME NEW d \in Conns
        PROVE  Captured(d)' <=> \E m \in Loops : Captures(queue'[m], d) \/ Captures(batch[m], d)
    BY DEF Captured, Captures
  <1>6. ASSUME NEW d \in Conns PROVE Captured(d)' <=> d = c \/ Captured(d)
    BY <1>2, <1>4, <1>5 DEF Captured
  <1> QED
    BY <1>6

(* OwnInv survives a step that frees nothing and changes no owner. *)
LEMMA OwnersKept ==
    ASSUME TypeOK, OwnInv, reaper' = reaper,
           \A c \in Conns : /\ conn'[c].obj = conn[c].obj
                            /\ conn[c].obj = "closed" => ~conn'[c].epoll
                            /\ Owned(c)' <=> Owned(c),
           \A l \in Loops, c \in Conns : c \in active'[l] => reaper[c] # l
    PROVE  OwnInv'
  BY DEF OwnInv

(* OwnInv survives a step after which a thread destroys what it dropped, provided that
   thread has no event left of it. *)
LEMMA OwnersDropped ==
    ASSUME TypeOK, OwnInv, NEW th \in Loops \cup {"user"}, DropsLast(th),
           \A c \in Conns : /\ conn'[c].obj = conn[c].obj
                            /\ conn[c].obj = "closed" => ~conn'[c].epoll
                            /\ Owned(c)' => Owned(c),
           \A l \in Loops, c \in Conns :
                c \in active'[l] => c \in active[l] /\ (l = th => (Owned(c) => Owned(c)'))
    PROVE  OwnInv'
  <1>1. \A c \in Conns : reaper'[c] = IF conn[c].obj = "live" /\ reaper[c] = "nobody" /\ ~Owned(c)'
                                      THEN th ELSE reaper[c]
    BY DEF DropsLast
  <1>2. th # "nobody"
    BY DEF Loops
  <1> SUFFICES ASSUME NEW c \in Conns
               PROVE  /\ Owned(c)' <=> conn'[c].obj = "live" /\ reaper'[c] = "nobody"
                      /\ conn'[c].obj = "none" => reaper'[c] = "nobody"
                      /\ conn'[c].obj \in {"freed", "closed"} => reaper'[c] # "nobody"
                      /\ conn'[c].obj = "closed" => ~conn'[c].epoll
                      /\ \A l \in Loops : c \in active'[l] => reaper'[c] # l
    BY DEF OwnInv
  <1>3. /\ Owned(c) <=> conn[c].obj = "live" /\ reaper[c] = "nobody"
        /\ conn[c].obj = "none" => reaper[c] = "nobody"
        /\ conn[c].obj \in {"freed", "closed"} => reaper[c] # "nobody"
        /\ \A l \in Loops : c \in active[l] => reaper[c] # l
    BY DEF OwnInv
  <1>4. CASE conn[c].obj = "live" /\ reaper[c] = "nobody" /\ ~Owned(c)'
    BY <1>1, <1>2, <1>3, <1>4
  <1>5. CASE ~(conn[c].obj = "live" /\ reaper[c] = "nobody" /\ ~Owned(c)')
    BY <1>1, <1>3, <1>5, SMTT(30)
  <1> QED
    BY <1>4, <1>5

(* Ownership only ends where the code drops a pointer: when a batch of functors is
   destroyed, user code releases its pointer, or ~TcpServer forgets a connection. *)
LEMMA OwnStep == TypeOK /\ LoopInv /\ OwnInv /\ [Next]_vars => OwnInv'
  <1> SUFFICES ASSUME TypeOK, LoopInv, OwnInv, [Next]_vars PROVE OwnInv'
    OBVIOUS
  <1> USE DEF ending
  <1>a. ASSUME NEW d \in Conns
        PROVE  /\ Owned(d) <=> d \in connections \/ d \in held \/ conn[d].context \/ Captured(d)
               /\ Owned(d)' <=> d \in connections' \/ d \in held' \/ conn'[d].context \/ Captured(d)'
    BY DEF Owned, Captured
  <1>b. ASSUME UNCHANGED <<queue, batch>>, NEW d \in Conns PROVE Captured(d)' <=> Captured(d)
    BY <1>b DEF Captured, Captures
  <1>c. /\ ioLoop \in Loops /\ "main" \in Loops /\ "io" \in Loops
        /\ "established" \in Kinds /\ "remove" \in Kinds /\ "destroyed" \in Kinds /\ "shutdown" \in Kinds
    BY DEF TypeOK, Loops, Kinds
  <1>d. \A d \in Conns : conn[d] \in Record
    BY DEF TypeOK
  <1>e. \A l \in Loops, d \in Conns : d \in active[l] => reaper[d] # l
    BY DEF OwnInv
  <1>f. \A d \in Conns : conn[d].obj = "closed" => ~conn[d].epoll
    BY DEF OwnInv
  <1>g. \A d \in Conns : Owned(d) => conn[d].obj = "live"
    BY DEF OwnInv
  <1>h. ASSUME NEW c \in Conns, Owned(c), UNCHANGED <<batch, held>>, Captured(c)',
               connections \ {c} \subseteq connections', connections' \subseteq connections,
               \A d \in Conns \ {c} : Captured(d)' <=> Captured(d),
               \A d \in Conns : conn'[d].context <=> conn[d].context
        PROVE  \A d \in Conns : Owned(d)' <=> Owned(d)
    BY <1>a, <1>h
  <1>1. ASSUME NEW l \in Loops, Poll(l), ~Destroying(l) PROVE OwnInv'
    <2>1. UNCHANGED <<conn, connections, queue, batch, held, reaper>>
      BY <1>1 DEF Poll
    <2>2. \A d \in Conns : Owned(d)' <=> Owned(d)
      BY <2>1, <1>a, <1>b
    <2>3. ASSUME NEW m \in Loops, NEW d \in Conns, d \in active'[m] PROVE reaper[d] # m
      <3>1. CASE m = l
        <4>1. conn[d].epoll
          BY <1>1, <2>3, <3>1 DEF Poll, TypeOK, Ready
        <4>2. conn[d].obj # "closed"
          BY <4>1, <1>f
        <4> QED
          BY <1>1, <3>1, <4>2 DEF Destroying
      <3>2. CASE m # l
        BY <1>1, <1>e, <2>3, <3>2 DEF Poll, TypeOK
      <3> QED
        BY <3>1, <3>2
    <2> QED
      BY <1>f, <2>1, <2>2, <2>3, OwnersKept
  <1>2. ASSUME NEW l \in Loops, NEW c \in Conns, HandleEvent(l, c) PROVE OwnInv'
    <2>1. ASSUME NEW m \in Loops, NEW d \in Conns, d \in active'[m] PROVE d \in active[m]
      BY <1>2, <2>1 DEF HandleEvent, TypeOK
    <2>2. UNCHANGED batch /\ DropsLast(l)
      BY <1>2 DEF HandleEvent
    <2>3. /\ \A d \in Conns : conn'[d].obj = conn[d].obj /\ (Owned(d)' <=> Owned(d))
          /\ \A d \in Conns : conn[d].obj = "closed" => ~conn'[d].epoll
      <3>1. CASE Owned(c) /\ HandleClose(c)
        <4>1. /\ \A d \in Conns : conn'[d].obj = conn[d].obj
              /\ conn'[c] = Closed(conn[c]) /\ \A d \in Conns \ {c} : conn'[d] = conn[d]
              /\ connections' \subseteq connections
          BY <3>1, RemoveTypes
        <4>2. \A d \in Conns : conn'[d].context <=> conn[d].context
          <5>1. Closed(conn[c]).context <=> conn[c].context
            BY <1>d, Records
          <5> QED
            BY <4>1, <5>1
        <4>3. connections \ {c} \subseteq connections' /\ UNCHANGED held
          BY <3>1 DEF HandleClose, RemoveConnection, RemoveConnectionInLoop
        <4>4. Post("main", <<"remove", c>>) \/ Post(ioLoop, <<"destroyed", c>>)
          BY <3>1 DEF HandleClose, RemoveConnection, RemoveConnectionInLoop
        <4>5. \A d \in Conns : Captured(d)' <=> d = c \/ Captured(d)
          BY <1>c, <2>2, <4>4, PostCaptures
        <4>6. \A d \in Conns : Owned(d)' <=> Owned(d)
          BY <1>h, <2>2, <3>1, <4>1, <4>2, <4>3, <4>5
        <4> QED
          BY <1>f, <1>g, <3>1, <4>1, <4>6
      <3>2. CASE Owned(c) /\ HandleMessage(c)
        <4>1. /\ \A d \in Conns : conn'[d].obj = conn[d].obj
              /\ \A d \in Conns : conn'[d].context = conn[d].context /\ conn'[d].epoll = conn[d].epoll
          BY <3>2, Disconnecting DEF HandleMessage
        <4>2. held \subseteq held' /\ held' \subseteq held \cup {c} /\ UNCHANGED <<connections, queue>>
          BY <3>2 DEF HandleMessage
        <4>3. \A d \in Conns : Owned(d)' <=> Owned(d)
          BY <1>a, <1>b, <2>2, <3>2, <4>1, <4>2
        <4> QED
          BY <1>f, <4>1, <4>3
      <3>3. CASE UNCHANGED <<conn, connections, queue, held>>
        <4>1. \A d \in Conns : Owned(d)' <=> Owned(d)
          BY <1>a, <1>b, <2>2, <3>3
        <4> QED
          BY <1>f, <3>3, <4>1
      <3> QED
        BY <1>2, <3>1, <3>2, <3>3 DEF HandleEvent, HandleRead, HandleError
    <2> QED
      BY <2>1, <2>2, <2>3, OwnersDropped
  <1>3. ASSUME NEW l \in Loops, BeginFunctors(l) PROVE OwnInv'
    <2>1. UNCHANGED <<conn, connections, active, held, reaper>>
      BY <1>3 DEF BeginFunctors
    <2>2. /\ batch[l] = <<>> /\ batch'[l] = queue[l] /\ queue'[l] = <<>>
          /\ \A m \in Loops \ {l} : batch'[m] = batch[m] /\ queue'[m] = queue[m]
      BY <1>3 DEF BeginFunctors, LoopInv, TypeOK
    <2>3. ASSUME NEW d \in Conns PROVE ~Captures(<<>>, d)
      BY SeqEmpty DEF Captures
    <2>4. ASSUME NEW d \in Conns PROVE Captured(d)' <=> Captured(d)
      <3>1. Captured(d)' <=> \E m \in Loops : Captures(queue'[m], d) \/ Captures(batch'[m], d)
        BY DEF Captured, Captures
      <3> QED
        BY <2>2, <2>3, <3>1 DEF Captured
    <2>5. \A d \in Conns : Owned(d)' <=> Owned(d)
      BY <1>a, <2>1, <2>4
    <2> QED
      BY <1>e, <1>f, <2>1, <2>5, OwnersKept
  <1>4. ASSUME NEW l \in Loops, RunFunctor(l) PROVE OwnInv'
    <2>1. UNCHANGED <<batch, active, held, reaper>>
      BY <1>4 DEF RunFunctor
    <2>2. PICK c \in Conns : c = batch[l][done[l] + 1][2]
      BY <1>4, Positions, Taken
    <2>3. Captured(c) /\ Captured(c)'
      <3>1. /\ Len(batch[l]) \in Nat /\ done[l] \in 0..Len(batch[l]) /\ batch[l] \in Seq(Functor)
        BY Positions
      <3>2. done[l] < Len(batch[l])
        BY <1>4 DEF RunFunctor
      <3>3. done[l] + 1 \in DOMAIN batch[l]
        BY <3>1, <3>2, SeqLen, SMTT(30)
      <3> QED
        BY <2>1, <2>2, <3>3 DEF Captured, Captures
    <2>4. /\ \A d \in Conns \ {c} : conn'[d] = conn[d] /\ (Captured(d)' <=> Captured(d))
          /\ conn'[c].obj = conn[c].obj
          /\ connections \ {c} \subseteq connections' /\ connections' \subseteq connections
      <3>1. CASE conn' = [conn EXCEPT ![c] = Established(@)] /\ UNCHANGED <<connections, queue>>
        <4>1. conn'[c] = Established(conn[c]) /\ \A d \in Conns \ {c} : conn'[d] = conn[d]
          BY <3>1 DEF TypeOK
        <4> QED
          BY <1>b, <1>d, <2>1, <3>1, <4>1, Records, SMTT(30)
      <3>2. CASE conn' = [conn EXCEPT ![c] = Destroyed(@)] /\ UNCHANGED <<connections, queue>>
        <4>1. conn'[c] = Destroyed(conn[c]) /\ \A d \in Conns \ {c} : conn'[d] = conn[d]
          BY <3>2 DEF TypeOK
        <4> QED
          BY <1>b, <1>d, <2>1, <3>2, <4>1, Records, SMTT(30)
      <3>3. CASE RemoveConnectionInLoop(c) /\ UNCHANGED conn
        <4>1. \A d \in Conns : Captured(d)' <=> d = c \/ Captured(d)
          BY <1>c, <2>1, <3>3, PostCaptures DEF RemoveConnectionInLoop
        <4> QED
          BY <3>3, <4>1 DEF RemoveConnectionInLoop
      <3>4. CASE UNCHANGED <<conn, connections, queue>>
        BY <1>b, <2>1, <3>4
      <3> QED
        BY <1>4, <2>2, <3>1, <3>2, <3>3, <3>4 DEF RunFunctor
    <2>5. \A d \in Conns : Owned(d)' <=> Owned(d)
      BY <1>a, <2>1, <2>3, <2>4
    <2>6. Owned(c)
      BY <1>a, <2>3
    <2> QED
      BY <1>e, <1>f, <1>g, <2>1, <2>4, <2>5, <2>6, OwnersKept
  <1>5. ASSUME NEW l \in Loops, EndFunctors(l) PROVE OwnInv'
    <2>1. UNCHANGED <<connections, active, held>> /\ DropsLast(l)
      BY <1>5 DEF EndFunctors
    <2>2. /\ batch' = [batch EXCEPT ![l] = <<>>]
          /\ queue' = queue \/ queue' = [queue EXCEPT ![l] = <<>>]
      BY <1>5 DEF EndFunctors, Leave
    <2>3. ASSUME NEW d \in Conns PROVE Captured(d)' => Captured(d)
      <3>1. ~Captures(<<>>, d)
        BY SeqEmpty, SMTT(30) DEF Captures
      <3>2. Captured(d)' <=> \E m \in Loops : Captures(queue'[m], d) \/ Captures(batch'[m], d)
        BY DEF Captured, Captures
      <3>3. \A m \in Loops : /\ batch'[m] = batch[m] \/ batch'[m] = <<>>
                             /\ queue'[m] = queue[m] \/ queue'[m] = <<>>
        BY <2>2 DEF TypeOK
      <3> QED
        BY <3>1, <3>2, <3>3 DEF Captured
    <2>4. \A d \in Conns : /\ conn'[d].obj = conn[d].obj /\ (conn'[d].context <=> conn[d].context)
                           /\ conn'[d].epoll => conn[d].epoll
      <3>1. CASE conn' = conn
        BY <3>1
      <3>2. CASE conn' = [c \in Conns |-> IF ioLoop = l THEN [conn[c] EXCEPT !.epoll = FALSE] ELSE conn[c]]
        <4>1. ASSUME NEW r \in Record
              PROVE  /\ [r EXCEPT !.epoll = FALSE].obj = r.obj
                     /\ [r EXCEPT !.epoll = FALSE].context = r.context
                     /\ ~[r EXCEPT !.epoll = FALSE].epoll
          BY DEF Record
        <4>2. ASSUME NEW d \in Conns
              PROVE  conn'[d] = conn[d] \/ conn'[d] = [conn[d] EXCEPT !.epoll = FALSE]
          BY <3>2
        <4>3. ASSUME NEW d \in Conns
              PROVE  /\ conn'[d].obj = conn[d].obj /\ (conn'[d].context <=> conn[d].context)
                     /\ conn'[d].epoll => conn[d].epoll
          <5>1. CASE conn'[d] = conn[d]
            BY <5>1
          <5>2. CASE conn'[d] = [conn[d] EXCEPT !.epoll = FALSE]
            <6>1. conn[d] \in Record
              BY <1>d
            <6> QED
              BY <4>1, <5>2, <6>1
          <5> QED
            BY <4>2, <5>1, <5>2
        <4> QED
          BY <4>3
      <3> QED
        BY <1>5, <3>1, <3>2 DEF EndFunctors, Leave
    <2>5. \A d \in Conns : Owned(d)' => Owned(d)
      BY <1>a, <2>1, <2>3, <2>4
    <2>6. active[l] = {}
      BY <1>5 DEF EndFunctors, LoopInv
    <2> QED
      BY <1>f, <2>1, <2>4, <2>5, <2>6, OwnersDropped
  <1>6. ASSUME NEW c \in Conns, NewConnection(c) PROVE OwnInv'
    <2>1. UNCHANGED <<batch, active, held, reaper>> /\ conn[c].obj = "none" /\ connections' = connections \cup {c}
      BY <1>6 DEF NewConnection
    <2>2. conn'[c].obj = "live" /\ \A d \in Conns \ {c} : conn'[d] = conn[d]
      <3> DEFINE r == [conn[c] EXCEPT !.obj = "live"]
      <3>1. r \in Record /\ r.obj = "live"
        BY <1>d DEF Record
      <3>2. conn' = [conn EXCEPT ![c] = r] \/ conn' = [conn EXCEPT ![c] = Established(r)]
        BY <1>6 DEF NewConnection
      <3> HIDE DEF r
      <3> QED
        BY <3>1, <3>2, Records, SMTT(30) DEF TypeOK
    <2>3. \A d \in Conns \ {c} : Captured(d)' <=> Captured(d)
      <3>1. CASE UNCHANGED queue
        BY <1>b, <2>1, <3>1
      <3>2. CASE Post(ioLoop, <<"established", c>>)
        BY <1>c, <2>1, <3>2, PostCaptures
      <3> QED
        BY <1>6, <3>1, <3>2 DEF NewConnection
    <2>4. \A d \in Conns \ {c} : Owned(d)' <=> Owned(d)
      BY <1>a, <2>1, <2>2, <2>3
    <2>5. Owned(c)' /\ reaper[c] = "nobody"
      BY <1>a, <2>1 DEF OwnInv
    <2>6. \A l \in Loops : l # "nobody"
      BY DEF Loops
    <2> QED
      BY <2>1, <2>2, <2>4, <2>5, <2>6 DEF OwnInv
  <1>7. ASSUME NEW c \in Conns, FreeChannel(c) \/ CloseSocket(c) PROVE OwnInv'
    <2>1. UNCHANGED <<connections, queue, batch, active, held, reaper>>
      BY <1>7 DEF FreeChannel, CloseSocket
    <2>2. /\ \A d \in Conns \ {c} : conn'[d] = conn[d]
          /\ conn'[c].obj \in {"freed", "closed"} /\ (conn'[c].context <=> conn[c].context)
          /\ conn'[c].obj = "closed" => ~conn'[c].epoll
      <3>1. CASE FreeChannel(c)
        <4>1. conn'[c] = [conn[c] EXCEPT !.obj = "freed"] /\ \A d \in Conns \ {c} : conn'[d] = conn[d]
          BY <3>1 DEF FreeChannel, TypeOK
        <4> QED
          BY <1>d, <4>1 DEF Record
      <3>2. CASE CloseSocket(c)
        <4>1. /\ conn'[c] = [conn[c] EXCEPT !.obj = "closed", !.epoll = FALSE]
              /\ \A d \in Conns \ {c} : conn'[d] = conn[d]
          BY <3>2 DEF CloseSocket, TypeOK
        <4> QED
          BY <1>d, <4>1 DEF Record
      <3> QED
        BY <1>7, <3>1, <3>2
    <2>3. \A d \in Conns : Owned(d)' <=> Owned(d)
      BY <1>a, <1>b, <2>1, <2>2
    <2>4. ~Owned(c) /\ reaper[c] # "nobody"
      BY <1>7 DEF FreeChannel, CloseSocket, OwnInv
    <2> QED
      BY <2>1, <2>2, <2>3, <2>4, SMTT(30) DEF OwnInv
  <1>8. ASSUME NEW c \in Conns, ShutdownStore(c) PROVE OwnInv'
    <2>1. UNCHANGED <<batch, active, held, reaper, connections>> /\ c \in held
      BY <1>8 DEF ShutdownStore, TypeOK
    <2>2. \A d \in Conns : /\ conn'[d].obj = conn[d].obj /\ (conn'[d].context <=> conn[d].context)
                           /\ (conn'[d].epoll <=> conn[d].epoll)
      <3>1. conn' = [conn EXCEPT ![c].state = "kDisconnecting"]
        BY <1>8 DEF ShutdownStore
      <3>2. \A d \in Conns : /\ conn'[d].obj = conn[d].obj /\ conn'[d].context = conn[d].context
                             /\ conn'[d].epoll = conn[d].epoll
        BY <3>1, Disconnecting
      <3> QED
        BY <3>2
    <2>3. \A d \in Conns \ {c} : Captured(d)' <=> Captured(d)
      <3>1. CASE UNCHANGED queue
        BY <1>b, <2>1, <3>1
      <3>2. CASE Post(ioLoop, <<"shutdown", c>>)
        BY <1>c, <2>1, <3>2, PostCaptures
      <3> QED
        BY <1>8, <3>1, <3>2 DEF ShutdownStore
    <2>4. \A d \in Conns : Owned(d)' <=> Owned(d)
      BY <1>a, <2>1, <2>2, <2>3
    <2> QED
      BY <1>e, <1>f, <2>1, <2>2, <2>4, OwnersKept
  <1>9. ASSUME NEW c \in Conns, Release(c) PROVE OwnInv'
    <2>1. UNCHANGED <<conn, connections, queue, batch, active>> /\ DropsLast("user") /\ held' \subseteq held
      BY <1>9 DEF Release
    <2>2. \A d \in Conns : Owned(d)' => Owned(d)
      BY <1>a, <1>b, <2>1
    <2>3. \A l \in Loops : l # "user"
      BY DEF Loops
    <2> QED
      BY <1>f, <2>1, <2>2, <2>3, OwnersDropped
  <1>10. ASSUME NEW c \in Conns, DestroyConnection(c) PROVE OwnInv'
    <2>1. /\ UNCHANGED <<batch, active, held>> /\ DropsLast("main") /\ c \in connections
          /\ connections' \subseteq connections /\ server = "destroying"
      BY <1>10 DEF DestroyConnection
    <2>2. \A d \in Conns : /\ conn'[d].obj = conn[d].obj /\ (conn'[d].context <=> conn[d].context)
                           /\ d # c => conn'[d] = conn[d]
      <3>1. CASE conn' = conn
        BY <3>1
      <3>2. CASE conn' = [conn EXCEPT ![c] = Destroyed(@)]
        <4>1. conn'[c] = Destroyed(conn[c]) /\ \A d \in Conns \ {c} : conn'[d] = conn[d]
          BY <3>2 DEF TypeOK
        <4>2. /\ Destroyed(conn[c]).obj = conn[c].obj
              /\ (Destroyed(conn[c]).context <=> conn[c].context)
          BY <1>d, Records
        <4> QED
          BY <4>1, <4>2
      <3> QED
        BY <1>10, <3>1, <3>2 DEF DestroyConnection
    <2>3. \A d \in Conns \ {c} : Captured(d)' <=> Captured(d)
      <3>1. CASE UNCHANGED queue
        BY <1>b, <2>1, <3>1
      <3>2. CASE Post("io", <<"destroyed", c>>)
        BY <1>c, <2>1, <3>2, PostCaptures
      <3> QED
        BY <1>10, <3>1, <3>2 DEF DestroyConnection
    <2>4. \A d \in Conns : Owned(d)' => Owned(d)
      BY <1>a, <2>1, <2>2, <2>3
    <2>5. active["main"] = {}
      BY <1>c, <2>1 DEF LoopInv
    <2>6. \A d \in Conns : conn[d].obj = "closed" => ~conn'[d].epoll
      BY <1>a, <1>f, <1>g, <2>1, <2>2
    <2> QED
      BY <1>c, <2>1, <2>2, <2>4, <2>5, <2>6, OwnersDropped
  <1>11. ASSUME UNCHANGED <<conn, connections, queue, batch, active, held, reaper>> PROVE OwnInv'
    <2>1. \A d \in Conns : Owned(d)' <=> Owned(d)
      BY <1>a, <1>b, <1>11
    <2> QED
      BY <1>e, <1>f, <1>11, <2>1, OwnersKept
  <1>12. ASSUME NEW l \in Loops, LoopStep(l) PROVE OwnInv'
    BY <1>1, <1>2, <1>3, <1>4, <1>5, <1>12 DEF LoopStep
  <1>13. ASSUME MainStep PROVE OwnInv'
    BY <1>10, <1>11, <1>13 DEF MainStep, StopServer, DestroyServer
  <1>14. ASSUME NEW c \in Conns, ShutdownTest(c) \/ PeerSends(c) \/ PeerEnds(c) PROVE OwnInv'
    BY <1>11, <1>14 DEF ShutdownTest, PeerSends, PeerEnds
  <1>15. ASSUME QuitMain \/ UNCHANGED serverVars PROVE OwnInv'
    BY <1>11, <1>15 DEF QuitMain, serverVars
  <1>16. CASE Step
    BY <1>6, <1>7, <1>8, <1>9, <1>12, <1>13, <1>14, <1>15, <1>16 DEF Step, UserStep
  <1> QED
    BY <1>15, <1>16 DEF Next, Finished, vars
-----------------------------------------------------------------------------
(* ~TcpServer ends only when nothing but user code, a TLS context or a functor of the main
   loop keeps a connection; after that only user threads and destructors run. *)
LEMMA GoneStep == TypeOK /\ LoopInv /\ OwnInv /\ GoneInv /\ [Next]_vars => GoneInv'
  <1> SUFFICES ASSUME TypeOK, LoopInv, OwnInv, GoneInv, [Next]_vars, server' = "gone",
                      NEW d \in Conns
               PROVE  Accounted(d)'
    BY DEF GoneInv
  <1> USE DEF ending
  <1>b. ASSUME NEW x \in Conns
        PROVE  Accounted(x)' <=> \/ conn'[x].obj \in {"none", "closed"} \/ reaper'[x] = "user"
                                 \/ x \in held' \/ conn'[x].context \/ Captures(queue'["main"], x)
    BY DEF Accounted, Captures
  <1>0. Loops = {"main", "io"} /\ conn[d] \in Record
    BY DEF Loops, TypeOK
  <1>a. ASSUME phase["main"] = "left", phase["io"] = "left", connections = {}
        PROVE  Owned(d) => d \in held \/ conn[d].context \/ Captures(queue["main"], d)
    <2>1. batch["main"] = <<>> /\ batch["io"] = <<>> /\ queue["io"] = <<>>
      BY <1>0, <1>a DEF LoopInv
    <2>2. ~Captures(<<>>, d)
      BY SeqEmpty DEF Captures
    <2> QED
      BY <1>0, <1>a, <2>1, <2>2 DEF Owned
  <1>1. CASE server # "gone"
    <2>1. DestroyServer("joining", "gone")
      BY <1>1 DEF Next, Step, LoopStep, MainStep, UserStep, Finished, vars, serverVars, Poll, HandleEvent,
             BeginFunctors, RunFunctor, EndFunctors, NewConnection, FreeChannel, CloseSocket,
             ShutdownTest, ShutdownStore, Release, PeerSends, PeerEnds, QuitMain, StopServer,
             DestroyServer, DestroyConnection
    <2>2. /\ phase["main"] = "left" /\ phase["io"] = "left" /\ connections = {}
          /\ ~Destroying("main") /\ ~Destroying("io")
          /\ UNCHANGED <<conn, reaper, held, queue>>
      BY <2>1 DEF DestroyServer, LoopInv
    <2>3. Owned(d) => d \in held \/ conn[d].context \/ Captures(queue["main"], d)
      BY <1>a, <2>2
    <2>4. reaper[d] \in {"main", "io", "user", "nobody"}
      BY <1>0 DEF TypeOK
    <2>5. reaper[d] \in {"main", "io"} => conn[d].obj = "closed"
      BY <2>2 DEF Destroying
    <2>6. reaper[d] = "nobody" => conn[d].obj = "none" \/ Owned(d)
      BY <1>0 DEF OwnInv, Record
    <2> QED
      BY <1>b, <2>2, <2>3, <2>4, <2>5, <2>6
  <1>2. CASE server = "gone"
    <2>0. \/ conn[d].obj \in {"none", "closed"} \/ reaper[d] = "user"
          \/ d \in held \/ conn[d].context \/ Captures(queue["main"], d)
      BY <1>2 DEF GoneInv, Accounted
    <2>1. phase["main"] = "left" /\ phase["io"] = "left" /\ connections = {} /\ phase[ioLoop] = "left"
      BY <1>0, <1>2 DEF LoopInv, TypeOK
    <2>2. ASSUME NEW l \in Loops PROVE ~LoopStep(l)
      BY <1>0, <2>1 DEF LoopStep, Poll, HandleEvent, BeginFunctors, RunFunctor, EndFunctors
    <2>3. ~MainStep
      BY <1>2 DEF MainStep, StopServer, DestroyServer, DestroyConnection
    <2>4. \A c \in Conns : ~NewConnection(c)
      BY <2>1 DEF NewConnection
    <2>5. ASSUME NEW c \in Conns, FreeChannel(c) \/ CloseSocket(c) PROVE Accounted(d)'
      <3>1. UNCHANGED <<held, reaper, queue>>
        BY <2>5 DEF FreeChannel, CloseSocket
      <3>2. CASE d # c
        <4>1. conn'[d] = conn[d]
          BY <2>5, <3>2 DEF FreeChannel, CloseSocket, TypeOK
        <4> QED
          BY <1>b, <2>0, <3>1, <4>1
      <3>3. CASE d = c /\ CloseSocket(c)
        <4>1. conn'[d] = [conn[d] EXCEPT !.obj = "closed", !.epoll = FALSE]
          BY <3>3 DEF CloseSocket, TypeOK
        <4>2. conn'[d].obj = "closed"
          BY <1>0, <4>1 DEF Record
        <4> QED
          BY <1>b, <4>2
      <3>4. CASE d = c /\ FreeChannel(c)
        <4>1. ~Owned(d) /\ conn[d].obj = "live"
          BY <3>4 DEF FreeChannel, OwnInv
        <4>2. reaper[d] = "user"
          BY <1>0, <2>0, <4>1 DEF Owned
        <4> QED
          BY <1>b, <3>1, <4>2
      <3> QED
        BY <2>5, <3>2, <3>3, <3>4
    <2>6. ASSUME NEW c \in Conns, ShutdownStore(c) PROVE Accounted(d)'
      <3>1. UNCHANGED <<queue, held, reaper>>
        BY <2>1, <2>6 DEF ShutdownStore
      <3>2. conn'[d].obj = conn[d].obj /\ (conn'[d].context <=> conn[d].context)
        BY <2>6, Disconnecting DEF ShutdownStore
      <3> QED
        BY <1>b, <2>0, <3>1, <3>2
    <2>7. ASSUME NEW c \in Conns, Release(c) PROVE Accounted(d)'
      <3>1. UNCHANGED <<conn, connections, queue, batch>> /\ DropsLast("user") /\ held' \subseteq held
        BY <2>7 DEF Release
      <3>2. ASSUME d \in held, d \notin held', ~conn[d].context, ~Captures(queue["main"], d)
            PROVE  reaper'[d] = "user"
        <4>1. conn[d].obj = "live" /\ reaper[d] = "nobody"
          BY <3>2 DEF OwnInv, Owned
        <4>2. ~Owned(d)'
          <5>1. batch["main"] = <<>> /\ batch["io"] = <<>> /\ queue["io"] = <<>>
            BY <1>0, <2>1 DEF LoopInv
          <5>2. ~Captures(<<>>, d)
            BY SeqEmpty DEF Captures
          <5>3. \A l \in Loops : ~Captures(queue[l], d) /\ ~Captures(batch[l], d)
            BY <1>0, <3>2, <5>1, <5>2
          <5>4. Owned(d)' <=> \/ d \in connections' \/ d \in held' \/ conn'[d].context
                              \/ \E l \in Loops : Captures(queue'[l], d) \/ Captures(batch'[l], d)
            BY DEF Owned, Captures
          <5> QED
            BY <2>1, <3>1, <3>2, <5>3, <5>4
        <4> QED
          BY <3>1, <4>1, <4>2 DEF DropsLast
      <3>3. reaper[d] = "user" => reaper'[d] = "user"
        BY <3>1 DEF DropsLast
      <3> QED
        BY <1>b, <2>0, <3>1, <3>2, <3>3
    <2>8. ASSUME UNCHANGED <<conn, held, reaper, queue>> PROVE Accounted(d)'
      BY <1>b, <2>0, <2>8
    <2>9. ASSUME NEW c \in Conns, ShutdownTest(c) \/ PeerSends(c) \/ PeerEnds(c) PROVE Accounted(d)'
      BY <2>8, <2>9 DEF ShutdownTest, PeerSends, PeerEnds
    <2>10. ASSUME QuitMain \/ UNCHANGED serverVars PROVE Accounted(d)'
      BY <2>8, <2>10 DEF QuitMain, serverVars
    <2>11. CASE Step
      BY <2>2, <2>3, <2>4, <2>5, <2>6, <2>7, <2>9, <2>10, <2>11 DEF Step, UserStep
    <2> QED
      BY <2>10, <2>11 DEF Next, Finished, vars
  <1> QED
    BY <1>1, <1>2
-----------------------------------------------------------------------------
(* The invariant of the server holds at the start. *)
LEMMA InitInv == Init => ServerInv
  <1> SUFFICES ASSUME Init PROVE ServerInv
    OBVIOUS
  <1>1. TypeOK
    <2>1. <<>> \in Seq(Functor) /\ Len(<<>>) = 0
      BY SeqEmpty
    <2>2. conn \in [Conns -> Record]
      BY DEF Init, Record
    <2>3. peer \in [Conns -> PeerRecord]
      BY DEF Init, PeerRecord
    <2>4. ioLoop \in Loops /\ useTLS \in BOOLEAN /\ stopped \in BOOLEAN /\ dangling \in BOOLEAN
      BY DEF Init
    <2>5. /\ queue \in [Loops -> Seq(Functor)] /\ batch \in [Loops -> Seq(Functor)]
          /\ done \in [Loops -> Nat] /\ \A l \in Loops : done[l] <= Len(batch[l])
      BY <2>1, SMTT(30) DEF Init
    <2>6. /\ connections \subseteq {c \in Conns : conn[c].obj = "live"}
          /\ phase \in [Loops -> {"poll", "events", "functors", "left"}]
          /\ active \in [Loops -> SUBSET Conns]
          /\ held \subseteq {c \in Conns : conn[c].obj = "live"} /\ racing \subseteq held
          /\ reaper \in [Conns -> Loops \cup {"user", "nobody"}]
          /\ server \in {"up", "destroying", "joining", "gone"} /\ quit \subseteq Loops
      BY DEF Init
    <2> QED
      BY <2>2, <2>3, <2>4, <2>5, <2>6 DEF TypeOK
  <1>2. LoopInv
    BY DEF Init, LoopInv, Loops
  <1>3. \A c \in Conns : /\ conn[c].obj = "none" /\ conn[c].state = "kConnecting"
                         /\ ~conn[c].reading /\ ~conn[c].epoll /\ ~conn[c].context
    BY DEF Init
  <1>4. \A l \in Loops : Waiting(l) = {}
    <2>1. \A l \in Loops : batch[l] = <<>> /\ queue[l] = <<>> /\ done[l] = 0
      BY DEF Init
    <2>2. Len(<<>>) = 0
      BY SeqEmpty
    <2> QED
      BY <2>1, <2>2, SMTT(30) DEF Waiting, Rest
  <1>5. OwnInv
    <2>1. ASSUME NEW c \in Conns PROVE ~Owned(c)
      <3>1. ~Captures(<<>>, c)
        BY SeqEmpty DEF Captures
      <3> QED
        BY <1>3, <3>1 DEF Init, Owned
    <2> QED
      BY <1>3, <2>1 DEF Init, OwnInv, Loops
  <1>6. OrderInv /\ FreshInv /\ ReadInv
    BY <1>3, <1>4 DEF Init, OrderInv, OrderAt, FreshInv, FreshAt, ReadInv, ReadAt, PlacesAt
  <1>7. GoneInv
    BY DEF Init, GoneInv
  <1> QED
    BY <1>1, <1>2, <1>5, <1>6, <1>7 DEF ServerInv
-----------------------------------------------------------------------------
(* A functor of c that waits goes on waiting. *)
Keeps(l, k, c) == Waits(l, k, c) => Waits(l, k, c)'

(* It does until it is the one taken. *)
LEMMA WaitsOn ==
    ASSUME TypeOK, NEW l \in Loops, NEW k \in Kinds, NEW c \in Conns
    PROVE  /\ Same(l) \/ (\E f : Grows(l, f)) \/ (Shifts(l) /\ Fn(l, 1) # <<k, c>>)
                => Keeps(l, k, c)
           /\ Grows(l, <<k, c>>) => Waits(l, k, c)'
  <1>1. ASSUME Same(l), Waits(l, k, c) PROVE Waits(l, k, c)'
    BY <1>1 DEF Same, Waits
  <1>2. ASSUME NEW f, Grows(l, f), Waits(l, k, c) PROVE Waits(l, k, c)'
    <2>1. PICK n \in Nat : /\ Waiting(l) = 1..n /\ Waiting(l)' = 1..(n + 1)
                           /\ \A j \in 1..n : Fn(l, j)' = Fn(l, j)
      BY <1>2 DEF Grows
    <2>2. PICK j \in 1..n : Fn(l, j) = <<k, c>>
      BY <1>2, <2>1 DEF Waits
    <2>3. j \in Waiting(l)' /\ Fn(l, j)' = <<k, c>>
      BY <2>1, <2>2, SMTT(30)
    <2> QED
      BY <2>3 DEF Waits
  <1>3. ASSUME Grows(l, <<k, c>>) PROVE Waits(l, k, c)'
    <2>1. PICK n \in Nat : Waiting(l)' = 1..(n + 1) /\ Fn(l, n + 1)' = <<k, c>>
      BY <1>3 DEF Grows
    <2>2. n + 1 \in Waiting(l)'
      BY <2>1, SMTT(30)
    <2> QED
      BY <2>1, <2>2 DEF Waits
  <1>4. ASSUME Shifts(l), Fn(l, 1) # <<k, c>>, Waits(l, k, c) PROVE Waits(l, k, c)'
    <2>1. PICK n \in Nat : /\ Waiting(l) = 1..(n + 1) /\ Waiting(l)' = 1..n
                           /\ \A j \in 1..n : Fn(l, j)' = Fn(l, j + 1)
      BY <1>4 DEF Shifts
    <2>2. PICK j \in 1..(n + 1) : Fn(l, j) = <<k, c>>
      BY <1>4, <2>1 DEF Waits
    <2>3. j # 1
      BY <1>4, <2>2
    <2>4. j - 1 \in 1..n /\ (j - 1) + 1 = j
      BY <2>1, <2>3, SMTT(30)
    <2>5. Fn(l, j - 1)' = Fn(l, (j - 1) + 1)
      BY <2>1, <2>4
    <2>6. Fn(l, j - 1)' = <<k, c>>
      BY <2>2, <2>4, <2>5
    <2> QED
      BY <2>1, <2>4, <2>6 DEF Waits
  <1> QED
    BY <1>1, <1>2, <1>3, <1>4 DEF Keeps

(* A step makes a connection kConnecting no more, or leaves it so. *)
SameStart(c) == conn'[c].state = "kConnecting" <=> conn[c].state = "kConnecting"

(* The order of a loop whose functors stay. *)
LEMMA OrderSame ==
    ASSUME TypeOK, NEW l \in Loops, OrderAt(l), Same(l), ioLoop' = ioLoop,
           \A d \in Conns : SameStart(d) \/ \A k \in Waiting(l) : Fn(l, k)[2] # d
    PROVE  OrderAt(l)'
  <1>1. \A k \in Waiting(l) : Fn(l, k)[2] \in Conns /\ SameStart(Fn(l, k)[2])
    BY Positions
  <1>2. \A c \in Conns : Waits(l, "established", c) => Waits(l, "established", c)'
    BY WaitsOn DEF Kinds, Keeps
  <1>3. Rest(l) \in Nat /\ Len(queue[l]) \in Nat
    BY Positions
  <1>4. Waiting(l)' = Waiting(l) /\ \A k \in Waiting(l) : Fn(l, k)' = Fn(l, k)
    BY DEF Same
  <1>5. ASSUME NEW k \in Waiting(l), NEW j \in 1..(k - 1) PROVE j \in Waiting(l)
    BY <1>3, SMTT(30) DEF Waiting
  <1>6. ASSUME NEW k \in Waiting(l), Fn(l, k)[1] = "established"
        PROVE  /\ l = ioLoop'
               /\ conn'[Fn(l, k)[2]].state = "kConnecting"
               /\ \A j \in 1..(k - 1) : Fn(l, j)'[2] # Fn(l, k)[2]
    BY <1>1, <1>4, <1>5, <1>6 DEF OrderAt, SameStart
  <1>7. ASSUME NEW k \in Waiting(l), conn'[Fn(l, k)[2]].state = "kConnecting"
        PROVE  Waits(l, "established", Fn(l, k)[2])'
    <2>1. PICK c \in Conns : c = Fn(l, k)[2]
      BY <1>1
    <2>2. Waits(l, "established", c)'
      BY <1>1, <1>2, <1>7, <2>1 DEF OrderAt, SameStart
    <2>3. Fn(l, k)'[2] = c
      BY <1>4, <2>1
    <2> QED
      BY <2>2, <2>3
  <1> QED
    BY <1>4, <1>6, <1>7, SMTT(30) DEF OrderAt

(* The order of a loop that is given a functor: connectEstablished of a connection that
   has none yet, or another one that does not overtake connectEstablished. *)
LEMMA OrderGrows ==
    ASSUME TypeOK, NEW l \in Loops, OrderAt(l), NEW kind \in Kinds, NEW e \in Conns,
           Grows(l, <<kind, e>>), ioLoop' = ioLoop, \A d \in Conns : SameStart(d),
           \/ /\ kind = "established" /\ l = ioLoop /\ conn[e].state = "kConnecting"
              /\ \A k \in Waiting(l) : Fn(l, k)[2] # e
           \/ /\ kind # "established"
              /\ conn[e].state = "kConnecting" => Waits(l, "established", e)
    PROVE  OrderAt(l)'
  <1>1. \A k \in Waiting(l) : Fn(l, k)[2] \in Conns
    BY Positions
  <1>2. ASSUME NEW c \in Conns, Waits(l, "established", c) \/ (kind = "established" /\ c = e)
        PROVE  Waits(l, "established", c)'
    <2>1. "established" \in Kinds
      BY DEF Kinds
    <2> QED
      BY <1>2, <2>1, WaitsOn DEF Keeps
  <1>3. PICK n \in Nat : /\ Waiting(l) = 1..n /\ Waiting(l)' = 1..(n + 1)
                         /\ \A k \in 1..n : Fn(l, k)' = Fn(l, k)
                         /\ Fn(l, n + 1)' = <<kind, e>>
    BY DEF Grows
  <1>4. ASSUME NEW k \in 1..(n + 1)
        PROVE  /\ Fn(l, k)'[1] = "established" =>
                    /\ l = ioLoop'
                    /\ conn'[Fn(l, k)'[2]].state = "kConnecting"
                    /\ \A j \in 1..(k - 1) : Fn(l, j)'[2] # Fn(l, k)'[2]
               /\ conn'[Fn(l, k)'[2]].state = "kConnecting" => Waits(l, "established", Fn(l, k)[2])'
    <2>1. CASE k = n + 1
      <3>1. Fn(l, k)'[1] = kind /\ Fn(l, k)'[2] = e
        BY <1>3, <2>1, SMTT(30)
      <3>2. ASSUME kind = "established", NEW j \in 1..(k - 1) PROVE Fn(l, j)'[2] # e
        <4>1. j \in 1..n
          BY <2>1, SMTT(30)
        <4> QED
          BY <1>3, <3>2, <4>1
      <3>3. conn'[e].state = "kConnecting" => Waits(l, "established", e)'
        BY <1>2 DEF SameStart
      <3>4. conn'[e].state = "kConnecting" => Waits(l, "established", Fn(l, k)[2])'
        BY <3>1, <3>3
      <3> QED
        BY <3>1, <3>2, <3>4 DEF SameStart
    <2>2. CASE k # n + 1
      <3>1. k \in 1..n /\ k \in Waiting(l)
        BY <1>3, <2>2, SMTT(30)
      <3>2. PICK c \in Conns : c = Fn(l, k)[2]
        BY <1>1, <3>1
      <3>3. Fn(l, k)' = Fn(l, k) /\ Fn(l, k)'[2] = c
        BY <1>3, <3>1, <3>2
      <3>4. ASSUME NEW j \in 1..(k - 1) PROVE Fn(l, j)' = Fn(l, j)
        <4>1. j \in 1..n
          BY <3>1, SMTT(30)
        <4> QED
          BY <1>3, <4>1
      <3>5. /\ Fn(l, k)[1] = "established" =>
                  /\ l = ioLoop
                  /\ conn[c].state = "kConnecting"
                  /\ \A j \in 1..(k - 1) : Fn(l, j)[2] # c
            /\ conn[c].state = "kConnecting" => Waits(l, "established", c)
        BY <3>1, <3>2 DEF OrderAt
      <3>6. conn'[c].state = "kConnecting" => Waits(l, "established", c)'
        BY <1>2, <3>5 DEF SameStart
      <3>7. conn'[c].state = "kConnecting" => Waits(l, "established", Fn(l, k)[2])'
        BY <3>3, <3>6
      <3> QED
        BY <3>3, <3>4, <3>5, <3>7 DEF SameStart
    <2> QED
      BY <2>1, <2>2
  <1> QED
    BY <1>3, <1>4 DEF OrderAt

(* Functor k of c belongs on loop m. *)
Placed(m, k, c) ==
    /\ k = "destroyed" => m = ioLoop
    /\ k = "remove" => m = "main" /\ ioLoop = "io" /\ ~conn'[c].reading

(* PlacesAt survives when each functor waited before, or is put where it belongs, and no
   connection about to be removed is read again. *)
LEMMA PlacesKept ==
    ASSUME TypeOK, OrderInv, ReadInv, NEW m \in Loops, ioLoop' = ioLoop,
           \A d \in Conns : (conn'[d].reading => conn[d].reading) \/ conn[d].state = "kConnecting",
           \/ Same(m) \/ Shifts(m) \/ Waiting(m)' = {}
           \/ \E k \in Kinds, c \in Conns : Grows(m, <<k, c>>) /\ Placed(m, k, c)
    PROVE  PlacesAt(m)'
  <1>0. PlacesAt(m) /\ OrderAt(m) /\ \A k \in Waiting(m) : Fn(m, k)[2] \in Conns
    BY Positions DEF ReadInv, OrderInv
  <1>1. ASSUME NEW k \in Waiting(m), Fn(m, k)[1] = "remove"
        PROVE  conn[Fn(m, k)[2]].state # "kConnecting"
    <2>1. SUFFICES ASSUME conn[Fn(m, k)[2]].state = "kConnecting" PROVE FALSE
      OBVIOUS
    <2>2. m = "main" /\ ioLoop = "io"
      BY <1>0, <1>1 DEF PlacesAt
    <2>3. PICK j \in Waiting(m) : Fn(m, j) = <<"established", Fn(m, k)[2]>>
      BY <1>0, <2>1 DEF OrderAt, Waits
    <2>4. Fn(m, j)[1] = "established"
      BY <2>3, SMTT(30)
    <2> QED
      BY <1>0, <2>2, <2>4 DEF OrderAt
  <1>2. ASSUME NEW k \in Waiting(m)', NEW j \in Waiting(m), Fn(m, k)' = Fn(m, j)
        PROVE  /\ Fn(m, k)'[1] = "destroyed" => m = ioLoop'
               /\ Fn(m, k)'[1] = "remove" => m = "main" /\ ioLoop' = "io" /\ ~conn'[Fn(m, k)'[2]].reading
    BY <1>0, <1>1, <1>2 DEF PlacesAt
  <1>3. CASE Same(m)
    <2>1. ASSUME NEW k \in Waiting(m)' PROVE \E j \in Waiting(m) : Fn(m, k)' = Fn(m, j)
      BY <1>3 DEF Same
    <2> QED
      BY <1>2, <2>1 DEF PlacesAt
  <1>4. CASE Shifts(m)
    <2>1. ASSUME NEW k \in Waiting(m)' PROVE \E j \in Waiting(m) : Fn(m, k)' = Fn(m, j)
      <3>1. PICK n \in Nat : /\ Waiting(m) = 1..(n + 1) /\ Waiting(m)' = 1..n
                             /\ \A i \in 1..n : Fn(m, i)' = Fn(m, i + 1)
        BY <1>4 DEF Shifts
      <3>2. k \in 1..n /\ k + 1 \in Waiting(m)
        BY <3>1, SMTT(30)
      <3> QED
        BY <3>1, <3>2
    <2> QED
      BY <1>2, <2>1, SMTT(30) DEF PlacesAt
  <1>5. CASE Waiting(m)' = {}
    BY <1>5 DEF PlacesAt
  <1>6. ASSUME NEW kind \in Kinds, NEW c \in Conns, Grows(m, <<kind, c>>), Placed(m, kind, c)
        PROVE  PlacesAt(m)'
    <2>1. PICK n \in Nat : /\ Waiting(m) = 1..n /\ Waiting(m)' = 1..(n + 1)
                           /\ \A k \in 1..n : Fn(m, k)' = Fn(m, k)
                           /\ Fn(m, n + 1)' = <<kind, c>>
      BY <1>6 DEF Grows
    <2>2. ASSUME NEW k \in Waiting(m)'
          PROVE  /\ Fn(m, k)'[1] = "destroyed" => m = ioLoop'
                 /\ Fn(m, k)'[1] = "remove" =>
                      m = "main" /\ ioLoop' = "io" /\ ~conn'[Fn(m, k)'[2]].reading
      <3>1. CASE k = n + 1
        <4>1. Fn(m, k)' = <<kind, c>>
          BY <2>1, <3>1
        <4>2. Fn(m, k)'[1] = kind /\ Fn(m, k)'[2] = c
          BY <4>1, SMTT(30)
        <4> QED
          BY <1>6, <4>2 DEF Placed
      <3>2. CASE k # n + 1
        <4>1. k \in Waiting(m) /\ Fn(m, k)' = Fn(m, k)
          BY <2>1, <2>2, <3>2, SMTT(30)
        <4> QED
          BY <1>2, <4>1
      <3> QED
        BY <3>1, <3>2
    <2> QED
      BY <2>2 DEF PlacesAt
  <1> QED
    BY <1>3, <1>4, <1>5, <1>6

(* Loop m is given a functor that closes a connection, where it belongs and behind the
   connection's connectEstablished. *)
Adds(m) ==
    \E k \in Kinds \ {"established"}, c \in Conns :
        /\ Grows(m, <<k, c>>) /\ Placed(m, k, c)
        /\ conn[c].state = "kConnecting" => Waits(m, "established", c)

(* A loop whose functors stay or that is given one to close a connection. *)
LEMMA Added ==
    ASSUME TypeOK, OrderInv, ReadInv, ioLoop' = ioLoop, NEW m \in Loops,
           \A d \in Conns : SameStart(d) /\ (conn'[d].reading => conn[d].reading)
    PROVE  /\ Same(m) \/ Adds(m) \/ Waiting(m)' = {} => OrderAt(m)' /\ PlacesAt(m)'
           /\ Same(m) \/ Adds(m) => \A k \in Kinds, d \in Conns : Keeps(m, k, d)
  <1>0. OrderAt(m)
    BY DEF OrderInv
  <1>1. Waiting(m)' = {} => OrderAt(m)'
    BY DEF OrderAt
  <1>2. Same(m) => OrderAt(m)'
    BY <1>0, OrderSame
  <1>3. Adds(m) => OrderAt(m)'
    BY <1>0, OrderGrows DEF Adds
  <1>4. Same(m) \/ Adds(m) \/ Waiting(m)' = {} => PlacesAt(m)'
    BY PlacesKept DEF Adds
  <1>5. Adds(m) => \E f : Grows(m, f)
    BY DEF Adds
  <1> QED
    BY <1>1, <1>2, <1>3, <1>4, <1>5, WaitsOn
-----------------------------------------------------------------------------
(* A connection that was closed is not connected by this step. *)
Stays(c) == conn[c].state \in {"kDisconnecting", "kDisconnected"} => conn'[c].state # "kConnected"

(* What a step may do to a connection it is not about, or that it only half closes: the
   connection may be destroyed, and one that is established may be kept by user code. *)
Rests(c) ==
    /\ \/ conn'[c].state = conn[c].state
       \/ conn[c].state # "kConnecting" /\ conn'[c].state = "kDisconnecting"
    /\ conn'[c].obj = conn[c].obj \/ conn'[c].obj \in {"freed", "closed"}
    /\ (conn'[c].epoll => conn[c].epoll) /\ (conn'[c].reading => conn[c].reading)
    /\ conn'[c].context => conn[c].context
    /\ c \in held' => c \in held \/ conn[c].state # "kConnecting"
    /\ \A m \in Loops : c \in active'[m] => c \in active[m] \/ conn[c].epoll
    /\ c \in connections => c \in connections'

(* Such a step keeps what the invariant says of the connection, when its functors go on
   waiting or its loop has left. *)
LEMMA Kept ==
    ASSUME TypeOK, FreshInv, ReadInv, NEW c \in Conns, Rests(c), NEW l \in Loops,
           l = ioLoop, ioLoop' = ioLoop, server' = "up" => server = "up",
           phase'["io"] # "left" => phase["io"] # "left" /\ \A k \in Kinds : Keeps("io", k, c),
           phase'["io"] = "left" /\ l = "io" => phase["io"] = "left" \/ ~conn'[c].epoll,
           conn'[c].epoll => \A k \in Kinds : Keeps(l, k, c)
    PROVE  FreshAt(c)' /\ ReadAt(c)' /\ Stays(c)
  <1>0. FreshAt(c) /\ ReadAt(c) /\ "established" \in Kinds /\ "destroyed" \in Kinds
    BY DEF FreshInv, ReadInv, Kinds
  <1>1. conn'[c].obj = "none" => conn'[c].state = "kConnecting"
    BY <1>0 DEF FreshAt, Rests
  <1>2. ASSUME conn'[c].state = "kConnecting"
        PROVE  /\ conn[c].state = "kConnecting"
               /\ ~conn'[c].epoll /\ ~conn'[c].reading /\ ~conn'[c].context
               /\ c \notin held' /\ \A m \in Loops : c \notin active'[m]
    <2>1. conn[c].state = "kConnecting"
      BY <1>2 DEF Rests
    <2> QED
      BY <1>0, <2>1 DEF FreshAt, Rests
  <1>3. ASSUME conn'[c].state = "kConnecting", conn'[c].obj = "live"
        PROVE  /\ ioLoop' = "io"
               /\ server' = "up" => c \in connections'
               /\ phase'["io"] # "left" => /\ Waits("io", "established", c)'
                                           /\ c \in connections' \/ Waits("io", "destroyed", c)'
    <2>1. conn[c].state = "kConnecting" /\ conn[c].obj = "live" /\ (c \in connections => c \in connections')
      BY <1>2, <1>3 DEF Rests
    <2> QED
      BY <1>0, <2>1 DEF FreshAt, Keeps
  <1>4. conn'[c].state = "kDisconnected" => ~conn'[c].reading
    BY <1>0 DEF ReadAt, Rests
  <1>5. c \notin connections' /\ server' = "up" => ~conn'[c].reading
    BY <1>0 DEF ReadAt, Rests
  <1>6. ASSUME c \notin connections', conn'[c].reading, conn'[c].epoll
        PROVE  conn'[c].state = "kDisconnecting" \/ Waits(ioLoop, "destroyed", c)'
    <2>1. conn'[c].state = "kDisconnecting" \/ Waits(l, "destroyed", c)
      BY <1>0, <1>6 DEF ReadAt, Rests
    <2>2. conn'[c].state = "kDisconnecting" \/ Waits(l, "destroyed", c)'
      BY <1>0, <1>6, <2>1 DEF Keeps
    <2> QED
      BY <2>2
  <1>7. phase'["io"] = "left" /\ ioLoop' = "io" => ~conn'[c].epoll
    BY <1>0 DEF ReadAt, Rests
  <1>8. FreshAt(c)'
    BY <1>1, <1>2, <1>3 DEF FreshAt
  <1>9. ReadAt(c)'
    BY <1>4, <1>5, <1>6, <1>7 DEF ReadAt
  <1>10. Stays(c)
    BY DEF Rests, Stays
  <1> QED
    BY <1>8, <1>9, <1>10

(* The connection a step is about, when it is closed for good. *)
Settled(c) ==
    /\ FreshAt(c)' /\ ReadAt(c)' /\ Stays(c)
    /\ SameStart(c) /\ (conn'[c].reading => conn[c].reading)

(* The io loop leaves, without functors and without registrations. *)
Left ==
    /\ phase'["io"] = "left" /\ Waiting("io")' = {}
    /\ ioLoop = "io" => \A c \in Conns : ~conn'[c].epoll

(* A step that establishes no connection and takes no functor. *)
Calm ==
    /\ \A m \in Loops : Same(m) \/ Adds(m) \/ (m = "io" /\ Left)
    /\ \A c \in Conns : Rests(c) \/ Settled(c)
    /\ server' = "up" => server = "up"
    /\ phase'["io"] = "left" => phase["io"] = "left" \/ Left
    /\ phase'["io"] # "left" => phase["io"] # "left"

(* It keeps the order of the functors and what is known of each connection. *)
LEMMA CalmStep ==
    ASSUME TypeOK, OrderInv, FreshInv, ReadInv, ioLoop' = ioLoop, Calm
    PROVE  OrderInv' /\ FreshInv' /\ ReadInv' /\ \A c \in Conns : Stays(c)
  <1>1. \A d \in Conns : SameStart(d) /\ (conn'[d].reading => conn[d].reading)
    BY DEF Calm, Rests, Settled, SameStart
  <1>2. ASSUME NEW m \in Loops
        PROVE  /\ OrderAt(m)' /\ PlacesAt(m)'
               /\ (m = "io" /\ Left) \/ \A k \in Kinds, d \in Conns : Keeps(m, k, d)
    <2>1. Same(m) \/ Adds(m) \/ (m = "io" /\ Left /\ Waiting(m)' = {})
      BY DEF Calm, Left
    <2> QED
      BY <1>1, <2>1, Added
  <1>3. PICK l \in Loops : l = ioLoop
    BY DEF TypeOK
  <1>4. ASSUME NEW c \in Conns, Rests(c) PROVE FreshAt(c)' /\ ReadAt(c)' /\ Stays(c)
    <2>1. "io" \in Loops
      BY DEF Loops
    <2>2. phase'["io"] # "left" => phase["io"] # "left" /\ \A k \in Kinds : Keeps("io", k, c)
      BY <1>2, <2>1 DEF Calm, Left
    <2>3. phase'["io"] = "left" /\ l = "io" => phase["io"] = "left" \/ ~conn'[c].epoll
      BY <1>3 DEF Calm, Left
    <2>4. conn'[c].epoll => \A k \in Kinds : Keeps(l, k, c)
      BY <1>2, <1>3 DEF Left
    <2> QED
      BY <1>3, <1>4, <2>2, <2>3, <2>4, Kept DEF Calm
  <1> QED
    BY <1>2, <1>4 DEF Calm, Settled, OrderInv, FreshInv, ReadInv
-----------------------------------------------------------------------------
(* A functor of c, posted while no loop takes one. *)
LEMMA PostCalls ==
    ASSUME TypeOK, NEW l \in Loops, NEW k \in Kinds, NEW c \in Conns, Post(l, <<k, c>>),
           UNCHANGED <<batch, done>>
    PROVE  Grows(l, <<k, c>>) /\ \A m \in Loops \ {l} : Same(m)
  <1>1. <<k, c>> \in Functor
    BY DEF Functor
  <1>2. Grows(l, <<k, c>>) /\ \A m \in Loops \ {l} : queue'[m] = queue[m]
    BY <1>1, Posted
  <1> QED
    BY <1>2, Unchanged

(* Steps that run no callback: the loops poll and swap their queues, destructors finish,
   user code drops a pointer, the peer and the main thread go on. *)
LEMMA QuietSteps ==
    ASSUME TypeOK, LoopInv,
           \/ \E l \in Loops : Poll(l) \/ BeginFunctors(l)
           \/ \E c \in Conns : \/ FreeChannel(c) \/ CloseSocket(c) \/ ShutdownTest(c) \/ Release(c)
                               \/ PeerSends(c) \/ PeerEnds(c)
           \/ QuitMain \/ StopServer \/ (\E from : DestroyServer(from, "destroying"))
           \/ (\E from : DestroyServer(from, "joining")) \/ (\E from : DestroyServer(from, "gone"))
           \/ UNCHANGED serverVars
    PROVE  Calm
  <1> USE DEF ending
  <1>1. ASSUME UNCHANGED <<queue, batch, done>> PROVE \A m \in Loops : Same(m)
    BY <1>1, Unchanged
  <1>2. ASSUME NEW l \in Loops, Poll(l) PROVE Calm
    <2>1. UNCHANGED <<conn, connections, queue, batch, done, held, server>>
      BY <1>2 DEF Poll
    <2>2. phase'["io"] = "left" <=> phase["io"] = "left"
      BY <1>2 DEF Poll, TypeOK, Loops
    <2>3. ASSUME NEW m \in Loops, NEW d \in Conns, d \in active'[m]
          PROVE  d \in active[m] \/ conn[d].epoll
      BY <1>2, <2>3 DEF Poll, TypeOK, Ready
    <2>4. \A d \in Conns : Rests(d)
      BY <2>1, <2>3 DEF Rests
    <2> QED
      BY <1>1, <2>1, <2>2, <2>4 DEF Calm
  <1>3. ASSUME NEW l \in Loops, BeginFunctors(l) PROVE Calm
    <2>1. UNCHANGED <<conn, connections, active, held, server>>
      BY <1>3 DEF BeginFunctors
    <2>2. phase'["io"] = "left" <=> phase["io"] = "left"
      BY <1>3 DEF BeginFunctors, TypeOK, Loops
    <2>3. \A m \in Loops : Same(m)
      BY <1>3, Swapped
    <2>4. \A d \in Conns : Rests(d)
      BY <2>1 DEF Rests
    <2> QED
      BY <2>1, <2>2, <2>3, <2>4 DEF Calm
  <1>4. ASSUME NEW c \in Conns, FreeChannel(c) \/ CloseSocket(c) PROVE Calm
    <2>1. UNCHANGED <<connections, queue, batch, done, phase, active, held, server>>
      BY <1>4 DEF FreeChannel, CloseSocket
    <2>2. /\ \A d \in Conns \ {c} : conn'[d] = conn[d]
          /\ \/ conn'[c] = [conn[c] EXCEPT !.obj = "freed"]
             \/ conn'[c] = [conn[c] EXCEPT !.obj = "closed", !.epoll = FALSE]
      BY <1>4 DEF FreeChannel, CloseSocket, TypeOK
    <2>3. /\ conn'[c].obj \in {"freed", "closed"} /\ conn'[c].state = conn[c].state
          /\ (conn'[c].reading => conn[c].reading) /\ (conn'[c].context => conn[c].context)
          /\ conn'[c].epoll => conn[c].epoll
      <3>1. conn[c] \in Record
        BY DEF TypeOK
      <3> QED
        BY <2>2, <3>1 DEF Record
    <2>4. \A d \in Conns : Rests(d)
      BY <2>1, <2>2, <2>3 DEF Rests
    <2> QED
      BY <1>1, <2>1, <2>4 DEF Calm
  <1>5. ASSUME UNCHANGED <<conn, connections, queue, batch, done, phase, active>>,
               held' \subseteq held, server' = "up" => server = "up"
        PROVE  Calm
    <2>1. \A d \in Conns : Rests(d)
      BY <1>5 DEF Rests
    <2> QED
      BY <1>1, <1>5, <2>1 DEF Calm
  <1>6. ASSUME NEW c \in Conns, ShutdownTest(c) \/ Release(c) \/ PeerSends(c) \/ PeerEnds(c)
        PROVE  Calm
    BY <1>5, <1>6 DEF ShutdownTest, Release, PeerSends, PeerEnds
  <1>7. ASSUME QuitMain \/ StopServer \/ UNCHANGED serverVars PROVE Calm
    BY <1>5, <1>7 DEF QuitMain, StopServer, serverVars
  <1>8. ASSUME NEW from, NEW to \in {"destroying", "joining", "gone"}, DestroyServer(from, to)
        PROVE  Calm
    BY <1>5, <1>8 DEF DestroyServer
  <1> QED
    BY <1>2, <1>3, <1>4, <1>6, <1>7, <1>8

(* shutdown() of a user thread stores kDisconnecting in an established connection and
   posts shutdownInLoop. *)
LEMMA StoreStep ==
    ASSUME TypeOK, FreshInv, NEW c \in Conns, ShutdownStore(c)
    PROVE  Calm
  <1>1. UNCHANGED <<phase, active, held, server, connections, batch, done>> /\ c \in held
    BY DEF ShutdownStore, ending, TypeOK
  <1>2. conn[c].state # "kConnecting"
    BY <1>1 DEF FreshInv, FreshAt
  <1>3. \A d \in Conns : Rests(d)
    BY <1>1, <1>2, Disconnecting DEF ShutdownStore, Rests
  <1>4. ASSUME NEW m \in Loops PROVE Same(m) \/ Adds(m)
    <2>1. CASE UNCHANGED queue
      BY <1>1, <2>1, Unchanged
    <2>2. CASE Post(ioLoop, <<"shutdown", c>>)
      <3>1. ioLoop \in Loops /\ "shutdown" \in Kinds \ {"established"}
        BY DEF TypeOK, Kinds
      <3>2. Same(m) \/ Grows(m, <<"shutdown", c>>)
        BY <1>1, <2>2, <3>1, PostCalls
      <3> QED
        BY <1>2, <3>1, <3>2 DEF Adds, Placed
    <2> QED
      BY <2>1, <2>2 DEF ShutdownStore
  <1> QED
    BY <1>1, <1>3, <1>4 DEF Calm

(* An event: handleClose turns reading off and has the connection removed, by a functor
   unless the io loop is the main loop; shutdown() in a callback only moves a kConnected
   connection on. *)
LEMMA EventStep ==
    ASSUME TypeOK, LoopInv, FreshInv, ioLoop' = ioLoop,
           NEW l \in Loops, NEW c \in Conns, HandleEvent(l, c)
    PROVE  Calm
  <1>1. /\ l = ioLoop /\ phase[l] = "events" /\ UNCHANGED <<phase, server, batch, done>>
        /\ c \in active[l]
    BY DEF HandleEvent, LoopInv, ending
  <1>2. \A m \in Loops : active'[m] \subseteq active[m]
    BY DEF HandleEvent, TypeOK
  <1>3. conn[c].state # "kConnecting" /\ conn[c].obj # "none"
    BY <1>1 DEF FreshInv, FreshAt
  <1>4. Loops = {"main", "io"} /\ {"remove", "destroyed"} \subseteq Kinds \ {"established"}
    BY DEF Loops, Kinds
  <1>5. CASE HandleClose(c)
    <2>1. conn'[c] = Closed(conn[c]) /\ \A d \in Conns \ {c} : conn'[d] = conn[d]
      BY <1>5, RemoveTypes
    <2>2. conn'[c].obj = conn[c].obj /\ conn'[c].state = "kDisconnected" /\ ~conn'[c].reading
      <3>1. conn[c] \in Record
        BY DEF TypeOK
      <3> QED
        BY <2>1, <3>1, Records, SMTT(30)
    <2>3. /\ UNCHANGED held
          /\ \A d \in Conns \ {c} : d \in connections' <=> d \in connections
          /\ \/ ioLoop = "main" /\ Post("main", <<"destroyed", c>>)
             \/ ioLoop = "io" /\ Post("main", <<"remove", c>>)
      BY <1>1, <1>4, <1>5 DEF HandleClose, RemoveConnection, RemoveConnectionInLoop
    <2>4. Same("io") /\ Adds("main")
      <3>1. PICK k \in Kinds \ {"established"} : Post("main", <<k, c>>) /\ Placed("main", k, c)
        BY <1>4, <2>2, <2>3 DEF Placed
      <3>2. Grows("main", <<k, c>>) /\ Same("io")
        BY <1>1, <1>4, <3>1, PostCalls
      <3> QED
        BY <1>3, <3>1, <3>2 DEF Adds
    <2>5. FreshAt(c)'
      BY <1>3, <2>2 DEF FreshAt
    <2>6. ReadAt(c)'
      BY <1>1, <2>2 DEF ReadAt
    <2>7. Settled(c)
      BY <1>3, <2>2, <2>5, <2>6 DEF Settled, Stays, SameStart
    <2>8. \A d \in Conns \ {c} : Rests(d)
      BY <1>2, <2>1, <2>3 DEF Rests
    <2> QED
      BY <1>1, <1>4, <2>4, <2>7, <2>8 DEF Calm
  <1>6. CASE UNCHANGED <<queue, connections>> /\ \A d \in Conns : Rests(d)
    <2>1. \A m \in Loops : Same(m)
      BY <1>1, <1>6, Unchanged
    <2> QED
      BY <1>1, <1>6, <2>1 DEF Calm
  <1>7. CASE HandleMessage(c)
    <2>1. /\ UNCHANGED <<queue, connections>>
          /\ \A d \in Conns \ {c} : d \in held' <=> d \in held
      BY <1>7 DEF HandleMessage
    <2>2. conn' = conn \/ conn' = [conn EXCEPT ![c].state = "kDisconnecting"]
      BY <1>7 DEF HandleMessage
    <2>3. CASE conn' = conn
      BY <1>2, <1>3, <1>6, <2>1, <2>3 DEF Rests
    <2>4. CASE conn' = [conn EXCEPT ![c].state = "kDisconnecting"]
      <3>1. \A d \in Conns : Rests(d)
        BY <1>2, <1>3, <2>1, <2>4, Disconnecting DEF Rests
      <3> QED
        BY <1>6, <2>1, <3>1
    <2> QED
      BY <2>2, <2>3, <2>4
  <1>8. CASE UNCHANGED <<conn, connections, queue, held>>
    BY <1>2, <1>6, <1>8 DEF Rests
  <1> QED
    BY <1>5, <1>7, <1>8 DEF HandleEvent, HandleRead, HandleError

(* ~TcpServer has a connection that is left destroyed: at once, by a functor, or not at
   all when the io loop is gone.  connectDestroyed leaves only a half-closed connection
   reading. *)
LEMMA DestroyStep ==
    ASSUME TypeOK, FreshInv, ReadInv, ioLoop' = ioLoop, NEW c \in Conns, DestroyConnection(c)
    PROVE  Calm
  <1>1. /\ UNCHANGED <<phase, active, held, server, batch, done>> /\ server = "destroying"
        /\ connections' = connections \ {c} /\ c \in connections
    BY DEF DestroyConnection
  <1>2. conn[c] \in Record /\ conn[c].obj = "live" /\ FreshAt(c) /\ ReadAt(c)
    BY <1>1 DEF FreshInv, ReadInv, TypeOK
  <1>3. Loops = {"main", "io"} /\ ioLoop \in Loops /\ "destroyed" \in Kinds \ {"established"}
    BY DEF Loops, TypeOK, Kinds
  <1>4. \/ ioLoop = "main" /\ conn' = [conn EXCEPT ![c] = Destroyed(@)] /\ UNCHANGED queue
        \/ ioLoop = "io" /\ phase["io"] # "left" /\ Post("io", <<"destroyed", c>>) /\ UNCHANGED conn
        \/ ioLoop = "io" /\ phase["io"] = "left" /\ UNCHANGED <<conn, queue>>
    BY <1>3 DEF DestroyConnection
  <1>5. ASSUME \A d \in Conns \ {c} : conn'[d] = conn[d], Settled(c),
               \A m \in Loops : Same(m) \/ Adds(m)
        PROVE  Calm
    <2>1. \A d \in Conns \ {c} : Rests(d)
      BY <1>1, <1>5 DEF Rests
    <2> QED
      BY <1>1, <1>5, <2>1 DEF Calm
  <1>6. CASE ioLoop = "main" /\ conn' = [conn EXCEPT ![c] = Destroyed(@)] /\ UNCHANGED queue
    <2>1. conn'[c] = Destroyed(conn[c]) /\ \A d \in Conns \ {c} : conn'[d] = conn[d]
      BY <1>6 DEF TypeOK
    <2>2. \A m \in Loops : Same(m)
      BY <1>1, <1>6, Unchanged
    <2>3. conn[c].state # "kConnecting"
      BY <1>2, <1>6 DEF FreshAt
    <2>4. /\ conn'[c].obj = "live"
          /\ conn'[c].state = IF conn[c].state = "kConnected" THEN "kDisconnected" ELSE conn[c].state
          /\ conn'[c].reading => conn[c].reading /\ conn[c].state # "kConnected"
      BY <1>2, <2>1, Records, SMTT(30)
    <2>5. conn'[c].reading => conn'[c].state = "kDisconnecting"
      <3>1. conn[c].state = "kDisconnected" => ~conn[c].reading
        BY <1>2 DEF ReadAt
      <3>2. conn[c].state \in {"kConnecting", "kConnected", "kDisconnecting", "kDisconnected"}
        BY <1>2 DEF Record
      <3> QED
        BY <2>3, <2>4, <3>1, <3>2
    <2>6. FreshAt(c)'
      BY <2>3, <2>4 DEF FreshAt
    <2>7. ReadAt(c)'
      BY <1>1, <1>6, <2>5 DEF ReadAt
    <2>8. Settled(c)
      BY <2>3, <2>4, <2>6, <2>7 DEF Settled, Stays, SameStart
    <2> QED
      BY <1>5, <2>1, <2>2, <2>8
  <1>7. ASSUME UNCHANGED conn, ioLoop = "io",
               phase["io"] # "left" => /\ Waits("io", "destroyed", c)'
                                       /\ Keeps("io", "established", c)
        PROVE  Settled(c)
    <2>1. phase["io"] = "left" => ~conn[c].epoll
      BY <1>2, <1>7 DEF ReadAt
    <2>2. FreshAt(c)'
      BY <1>1, <1>2, <1>7 DEF FreshAt, Keeps
    <2>3. ReadAt(c)'
      BY <1>1, <1>2, <1>7, <2>1 DEF ReadAt
    <2> QED
      BY <1>7, <2>2, <2>3 DEF Settled, Stays, SameStart
  <1>8. CASE ioLoop = "io" /\ phase["io"] # "left" /\ Post("io", <<"destroyed", c>>) /\ UNCHANGED conn
    <2>1. Grows("io", <<"destroyed", c>>) /\ Same("main")
      BY <1>1, <1>3, <1>8, PostCalls
    <2>2. Waits("io", "destroyed", c)' /\ Keeps("io", "established", c)
      BY <1>3, <2>1, WaitsOn DEF Kinds
    <2>3. conn[c].state = "kConnecting" => Waits("io", "established", c)
      BY <1>2, <1>8 DEF FreshAt
    <2>4. Adds("io")
      BY <1>3, <1>8, <2>1, <2>3 DEF Adds, Placed
    <2>5. \A m \in Loops : Same(m) \/ Adds(m)
      BY <1>3, <2>1, <2>4
    <2>6. Settled(c)
      BY <1>7, <1>8, <2>2
    <2> QED
      BY <1>5, <1>8, <2>5, <2>6
  <1>9. CASE ioLoop = "io" /\ phase["io"] = "left" /\ UNCHANGED <<conn, queue>>
    <2>1. \A m \in Loops : Same(m)
      BY <1>1, <1>9, Unchanged
    <2>2. Settled(c)
      BY <1>7, <1>9
    <2> QED
      BY <1>5, <1>9, <2>1, <2>2
  <1> QED
    BY <1>4, <1>6, <1>8, <1>9

(* The end of an iteration: an io loop that leaves drops its functors and its epoll
   registrations. *)
LEMMA EndStep ==
    ASSUME TypeOK, NEW l \in Loops, EndFunctors(l)
    PROVE  Calm
  <1>1. UNCHANGED <<connections, active, held, server>> /\ phase[l] = "functors"
    BY DEF EndFunctors, ending
  <1>2. Loops = {"main", "io"}
    BY DEF Loops
  <1>3. \/ /\ l = "io" /\ phase'["io"] = "left" /\ queue'["io"] = <<>>
           /\ conn' = [c \in Conns |-> IF ioLoop = l THEN [conn[c] EXCEPT !.epoll = FALSE] ELSE conn[c]]
        \/ conn' = conn /\ (phase'["io"] = "left" <=> phase["io"] = "left")
    BY <1>1, <1>2, SMTT(30) DEF EndFunctors, Leave, TypeOK
  <1>4. \A m \in Loops : Same(m) \/ (m = "io" /\ l = "io" /\ phase'["io"] = "left")
    BY <1>2, Dropped, SMTT(30) DEF Leave, TypeOK
  <1>5. CASE conn' = conn /\ (phase'["io"] = "left" <=> phase["io"] = "left")
    <2>1. \A d \in Conns : Rests(d)
      BY <1>1, <1>5 DEF Rests
    <2>2. \A m \in Loops : Same(m)
      BY <1>1, <1>4, <1>5
    <2> QED
      BY <1>1, <1>5, <2>1, <2>2 DEF Calm
  <1>6. CASE /\ l = "io" /\ phase'["io"] = "left" /\ queue'["io"] = <<>>
             /\ conn' = [c \in Conns |-> IF ioLoop = l THEN [conn[c] EXCEPT !.epoll = FALSE] ELSE conn[c]]
    <2>1. ASSUME NEW d \in Conns PROVE Rests(d) /\ (ioLoop = "io" => ~conn'[d].epoll)
      <3>1. conn[d] \in Record
        BY DEF TypeOK
      <3>2. ASSUME NEW r \in Record
            PROVE  LET q == [r EXCEPT !.epoll = FALSE] IN
                   /\ q.obj = r.obj /\ q.state = r.state /\ q.reading = r.reading
                   /\ q.context = r.context /\ ~q.epoll
        BY DEF Record
      <3>3. conn'[d] = IF ioLoop = "io" THEN [conn[d] EXCEPT !.epoll = FALSE] ELSE conn[d]
        BY <1>6
      <3>4. CASE ioLoop # "io"
        BY <1>1, <3>3, <3>4 DEF Rests
      <3>5. CASE ioLoop = "io"
        <4>1. conn'[d] = [conn[d] EXCEPT !.epoll = FALSE]
          BY <3>3, <3>5
        <4> QED
          BY <1>1, <3>1, <3>2, <4>1 DEF Rests
      <3> QED
        BY <3>4, <3>5
    <2>2. Waiting("io")' = {}
      BY <1>6, Dropped
    <2>3. Left
      BY <1>6, <2>1, <2>2 DEF Left
    <2> QED
      BY <1>1, <1>4, <1>6, <2>1, <2>3 DEF Calm
  <1> QED
    BY <1>3, <1>5, <1>6

(* newConnection: connectEstablished at once, or by a functor of a connection that had
   none. *)
LEMMA NewStep ==
    ASSUME TypeOK, OwnInv, OrderInv, FreshInv, ReadInv, ioLoop' = ioLoop,
           NEW c \in Conns, NewConnection(c)
    PROVE  OrderInv' /\ FreshInv' /\ ReadInv' /\ \A d \in Conns : Stays(d)
  <1> DEFINE r == [conn[c] EXCEPT !.obj = "live"]
  <1>1. /\ UNCHANGED <<phase, active, held, server, batch, done>>
        /\ connections' = connections \cup {c} /\ conn[c].obj = "none"
    BY DEF NewConnection, ending
  <1>2. /\ conn[c].state = "kConnecting" /\ ~conn[c].epoll /\ ~conn[c].reading /\ ~conn[c].context
        /\ c \notin held /\ \A m \in Loops : c \notin active[m]
    BY <1>1 DEF FreshInv, FreshAt
  <1>3. \A m \in Loops : OrderAt(m) /\ \A k \in Waiting(m) : Fn(m, k)[2] # c
    <2>1. ASSUME NEW m \in Loops, NEW k \in Waiting(m) PROVE Fn(m, k)[2] # c
      <3>1. Owned(Fn(m, k)[2])
        BY Positions
      <3> QED
        BY <1>1, <3>1 DEF OwnInv
    <2> QED
      BY <2>1 DEF OrderInv
  <1>4. conn[c] \in Record
    BY DEF TypeOK
  <1>5. r \in Record /\ r.obj = "live" /\ r.state = conn[c].state
    BY <1>4 DEF Record
  <1>6. (r.epoll => conn[c].epoll) /\ (r.reading => conn[c].reading) /\ (r.context => conn[c].context)
    BY <1>4 DEF Record
  <1>7. Loops = {"main", "io"} /\ ioLoop \in Loops /\ "established" \in Kinds
    BY DEF Loops, TypeOK, Kinds
  <1>8. \/ ioLoop = "main" /\ conn' = [conn EXCEPT ![c] = Established(r)] /\ UNCHANGED queue
        \/ ioLoop = "io" /\ conn' = [conn EXCEPT ![c] = r] /\ Post("io", <<"established", c>>)
    BY <1>7 DEF NewConnection
  <1> HIDE DEF r
  <1>9. \A d \in Conns \ {c} : conn'[d] = conn[d]
    BY <1>8 DEF TypeOK
  <1>10. \A m \in Loops : Same(m) \/ Grows(m, <<"established", c>>)
    BY <1>1, <1>7, <1>8, PostCalls, Unchanged
  <1>11. \A m \in Loops : PlacesAt(m)'
    <2>1. \A m \in Loops : Placed(m, "established", c)
      BY DEF Placed
    <2>2. \A d \in Conns : (conn'[d].reading => conn[d].reading) \/ conn[d].state = "kConnecting"
      BY <1>2, <1>9
    <2> QED
      BY <1>7, <1>10, <2>1, <2>2, PlacesKept
  <1>12. ASSUME NEW d \in Conns \ {c} PROVE FreshAt(d)' /\ ReadAt(d)' /\ Stays(d)
    <2>1. Rests(d)
      BY <1>1, <1>9 DEF Rests
    <2>2. \A m \in Loops, k \in Kinds : Keeps(m, k, d)
      BY <1>10, WaitsOn
    <2>3. PICK l \in Loops : l = ioLoop
      BY <1>7
    <2> QED
      BY <1>1, <1>7, <2>1, <2>2, <2>3, Kept
  <1>13. CASE ioLoop = "main" /\ conn' = [conn EXCEPT ![c] = Established(r)] /\ UNCHANGED queue
    <2>1. conn'[c] = Established(r)
      BY <1>13 DEF TypeOK
    <2>2. conn'[c].obj = "live" /\ conn'[c].state = "kConnected"
      BY <1>5, <2>1, Records, SMTT(30)
    <2>3. \A m \in Loops : OrderAt(m)'
      <3>1. \A m \in Loops : Same(m)
        BY <1>1, <1>13, Unchanged
      <3>2. \A d \in Conns \ {c} : SameStart(d)
        BY <1>9 DEF SameStart
      <3> QED
        BY <1>3, <3>1, <3>2, OrderSame
    <2>4. FreshAt(c)' /\ ReadAt(c)' /\ Stays(c)
      BY <1>1, <1>2, <1>13, <2>2 DEF FreshAt, ReadAt, Stays
    <2> QED
      BY <1>11, <1>12, <2>3, <2>4 DEF OrderInv, FreshInv, ReadInv
  <1>14. CASE ioLoop = "io" /\ conn' = [conn EXCEPT ![c] = r] /\ Post("io", <<"established", c>>)
    <2>1. conn'[c] = r
      BY <1>14 DEF TypeOK
    <2>2. /\ conn'[c].obj = "live" /\ conn'[c].state = "kConnecting"
          /\ ~conn'[c].epoll /\ ~conn'[c].reading /\ ~conn'[c].context
      BY <1>2, <1>5, <1>6, <2>1
    <2>3. Grows("io", <<"established", c>>) /\ Same("main")
      BY <1>1, <1>7, <1>14, PostCalls
    <2>4. \A m \in Loops : OrderAt(m)'
      <3>1. \A d \in Conns : SameStart(d)
        BY <1>2, <1>9, <2>2 DEF SameStart
      <3>2. OrderAt("io")'
        BY <1>2, <1>3, <1>7, <1>14, <2>3, <3>1, OrderGrows
      <3>3. OrderAt("main")'
        BY <1>3, <1>7, <2>3, <3>1, OrderSame
      <3> QED
        BY <1>7, <3>2, <3>3
    <2>5. Waits("io", "established", c)'
      BY <1>7, <2>3, WaitsOn
    <2>6. FreshAt(c)'
      BY <1>1, <1>2, <1>14, <2>2, <2>5 DEF FreshAt
    <2>7. ReadAt(c)' /\ Stays(c)
      BY <1>1, <1>2, <2>2 DEF ReadAt, Stays
    <2> QED
      BY <1>11, <1>12, <2>4, <2>6, <2>7 DEF OrderInv, FreshInv, ReadInv
  <1> QED
    BY <1>8, <1>13, <1>14

(* A functor that is run is connectEstablished, or its connection is established
   already. *)
LEMMA FrontReady ==
    ASSUME TypeOK, NEW l \in Loops, OrderAt(l), 1 \in Waiting(l), Fn(l, 1)[1] # "established"
    PROVE  conn[Fn(l, 1)[2]].state # "kConnecting"
  <1>1. SUFFICES ASSUME conn[Fn(l, 1)[2]].state = "kConnecting" PROVE FALSE
    OBVIOUS
  <1>2. PICK j \in Waiting(l) : Fn(l, j) = <<"established", Fn(l, 1)[2]>>
    BY <1>1 DEF OrderAt, Waits
  <1>3. j \in Nat /\ j >= 1
    BY Positions, SMTT(30) DEF Waiting
  <1>4. j # 1
    BY <1>2, SMTT(30)
  <1>5. 1 \in 1..(j - 1)
    BY <1>3, <1>4, SMTT(30)
  <1>6. Fn(l, j)[1] = "established" /\ Fn(l, j)[2] = Fn(l, 1)[2]
    BY <1>2, SMTT(30)
  <1> QED
    BY <1>2, <1>5, <1>6 DEF OrderAt

(* The order of a loop that has run its first functor. *)
LEMMA OrderShifts ==
    ASSUME TypeOK, NEW l \in Loops, OrderAt(l), 1 \in Waiting(l), Shifts(l), ioLoop' = ioLoop,
           NEW c \in Conns, Fn(l, 1)[2] = c, conn'[c].state # "kConnecting",
           \A d \in Conns \ {c} : SameStart(d)
    PROVE  OrderAt(l)'
  <1>1. \A k \in Waiting(l) : Fn(l, k)[2] \in Conns
    BY Positions
  <1>2. PICK n \in Nat : /\ Waiting(l) = 1..(n + 1) /\ Waiting(l)' = 1..n
                         /\ \A j \in 1..n : Fn(l, j)' = Fn(l, j + 1)
    BY DEF Shifts
  <1>3. ASSUME NEW d \in Conns \ {c}, Waits(l, "established", d) PROVE Waits(l, "established", d)'
    <2>1. Fn(l, 1) # <<"established", d>>
      BY <1>3, SMTT(30)
    <2> QED
      BY <1>3, <2>1, WaitsOn DEF Kinds, Keeps
  <1>4. ASSUME NEW k \in 1..n
        PROVE  /\ Fn(l, k)'[1] = "established" =>
                    /\ l = ioLoop'
                    /\ conn'[Fn(l, k)'[2]].state = "kConnecting"
                    /\ \A j \in 1..(k - 1) : Fn(l, j)'[2] # Fn(l, k)'[2]
               /\ conn'[Fn(l, k)'[2]].state = "kConnecting" => Waits(l, "established", Fn(l, k)[2])'
    <2>1. k + 1 \in Waiting(l) /\ 1 \in 1..((k + 1) - 1)
      BY <1>2, SMTT(30)
    <2>2. PICK d \in Conns : d = Fn(l, k + 1)[2]
      BY <1>1, <2>1
    <2>3. Fn(l, k)' = Fn(l, k + 1) /\ Fn(l, k)'[2] = d
      BY <1>2, <2>2
    <2>4. /\ Fn(l, k + 1)[1] = "established" =>
                /\ l = ioLoop
                /\ conn[d].state = "kConnecting"
                /\ \A j \in 1..((k + 1) - 1) : Fn(l, j)[2] # d
          /\ conn[d].state = "kConnecting" => Waits(l, "established", d)
      BY <2>1, <2>2 DEF OrderAt
    <2>5. Fn(l, k)'[1] = "established" => d # c
      BY <2>1, <2>3, <2>4
    <2>6. ASSUME Fn(l, k)'[1] = "established", NEW j \in 1..(k - 1) PROVE Fn(l, j)'[2] # d
      <3>1. j + 1 \in 1..((k + 1) - 1) /\ j \in 1..n
        BY SMTT(30)
      <3>2. Fn(l, j)' = Fn(l, j + 1)
        BY <1>2, <3>1
      <3> QED
        BY <2>3, <2>4, <2>6, <3>1, <3>2
    <2>7. conn'[d].state = "kConnecting" => Waits(l, "established", d)'
      BY <1>3, <2>4 DEF SameStart
    <2>8. conn'[d].state = "kConnecting" => Waits(l, "established", Fn(l, k)[2])'
      BY <2>3, <2>7
    <2> QED
      BY <2>3, <2>4, <2>5, <2>6, <2>8 DEF SameStart
  <1> QED
    BY <1>2, <1>4 DEF OrderAt

(* The first functor is run.  connectEstablished finds a connection that is kConnecting;
   removeConnectionInLoop one that is not read; connectDestroyed leaves only a half-closed
   one reading. *)
LEMMA RunStep ==
    ASSUME TypeOK, OwnInv, OrderInv, FreshInv, ReadInv, ioLoop' = ioLoop,
           NEW l \in Loops, RunFunctor(l)
    PROVE  OrderInv' /\ FreshInv' /\ ReadInv' /\ \A d \in Conns : Stays(d)
  <1>1. phase[l] = "functors" /\ UNCHANGED <<batch, phase, active, held, server>>
    BY DEF RunFunctor, ending
  <1>2. /\ \A m \in Loops \ {l} : batch'[m] = batch[m] /\ done'[m] = done[m]
        /\ 1 \in Waiting(l) /\ Fn(l, 1) = batch[l][done[l] + 1]
        /\ queue'[l] = queue[l] => Shifts(l)
    BY Taken
  <1>3. PICK kind \in Kinds, c \in Conns : Fn(l, 1) = <<kind, c>>
    <2>1. Fn(l, 1) \in Functor
      BY <1>2, Positions
    <2> QED
      BY <2>1, SMTT(30) DEF Functor
  <1>4. Fn(l, 1)[1] = kind /\ Fn(l, 1)[2] = c
    BY <1>3, SMTT(30)
  <1>5. /\ conn[c] \in Record /\ FreshAt(c) /\ ReadAt(c)
        /\ \A m \in Loops : OrderAt(m) /\ PlacesAt(m)
    BY DEF TypeOK, OrderInv, FreshInv, ReadInv
  <1>6. /\ Loops = {"main", "io"} /\ ioLoop \in Loops
        /\ "destroyed" \in Kinds /\ "established" \in Kinds
    BY DEF Loops, TypeOK, Kinds
  <1>7. conn[c].obj = "live"
    <2>1. Owned(c)
      BY <1>2, <1>4, Positions
    <2> QED
      BY <2>1 DEF OwnInv
  <1>8. kind # "established" => conn[c].state # "kConnecting"
    BY <1>2, <1>4, <1>5, FrontReady
  <1>9. kind = "established" => l = ioLoop /\ conn[c].state = "kConnecting"
    BY <1>2, <1>4, <1>5 DEF OrderAt
  <1>10. /\ kind = "destroyed" => l = ioLoop
         /\ kind = "remove" => l = "main" /\ ioLoop = "io" /\ ~conn[c].reading
    BY <1>2, <1>4, <1>5 DEF PlacesAt
  <1>11. \/ /\ kind = "established" /\ conn' = [conn EXCEPT ![c] = Established(@)]
            /\ UNCHANGED <<connections, queue>>
         \/ kind = "remove" /\ RemoveConnectionInLoop(c) /\ UNCHANGED conn
         \/ /\ kind = "destroyed" /\ conn' = [conn EXCEPT ![c] = Destroyed(@)]
            /\ UNCHANGED <<connections, queue>>
         \/ kind = "shutdown" /\ UNCHANGED <<conn, connections, queue>>
    BY <1>2, <1>4 DEF RunFunctor
  <1>12. /\ \A d \in Conns \ {c} : conn'[d] = conn[d] /\ (d \in connections => d \in connections')
         /\ kind # "remove" => connections' = connections /\ queue' = queue
         /\ kind \notin {"established", "destroyed"} => conn' = conn
    BY <1>11 DEF TypeOK, RemoveConnectionInLoop
  <1>13. /\ kind = "established" => conn'[c] = Established(conn[c])
         /\ kind = "destroyed" => conn'[c] = Destroyed(conn[c])
    BY <1>11 DEF TypeOK
  <1>14. /\ conn'[c].obj = "live"
         /\ kind = "established" => conn'[c].state = "kConnected"
         /\ kind # "established" => conn'[c].state # "kConnecting" /\ Stays(c)
    BY <1>3, <1>5, <1>7, <1>8, <1>12, <1>13, Records, SMTT(30) DEF Kinds, Stays
  <1>15. /\ Shifts(l)
         /\ \A m \in Loops \ {l} :
              \/ Same(m)
              \/ kind = "remove" /\ m = "io" /\ Grows(m, <<"destroyed", c>>)
    <2>1. CASE kind # "remove"
      BY <1>2, <1>12, <2>1, Unchanged
    <2>2. CASE kind = "remove"
      <3>1. Post("io", <<"destroyed", c>>) /\ l # "io" /\ "io" \in Loops
        BY <1>10, <1>11, <2>2 DEF RemoveConnectionInLoop, Loops
      <3>2. <<"destroyed", c>> \in Functor
        BY DEF Functor, Kinds
      <3>3. batch'["io"] = batch["io"] /\ done'["io"] = done["io"]
        BY <1>2, <3>1
      <3>4. Grows("io", <<"destroyed", c>>) /\ queue'[l] = queue[l]
        BY <3>1, <3>2, <3>3, Posted
      <3> QED
        BY <1>2, <1>6, <1>10, <2>2, <3>4
    <2> QED
      BY <2>1, <2>2
  <1>16. \A d \in Conns \ {c} : SameStart(d)
    BY <1>12 DEF SameStart
  <1>17. ASSUME NEW m \in Loops PROVE OrderAt(m)'
    <2>1. CASE m = l
      BY <1>2, <1>4, <1>5, <1>14, <1>15, <1>16, <2>1, OrderShifts
    <2>2. CASE m # l /\ kind # "established"
      <3>1. \A d \in Conns : SameStart(d)
        BY <1>8, <1>14, <1>16, <2>2 DEF SameStart
      <3>2. Same(m) => OrderAt(m)'
        BY <1>5, <3>1, OrderSame
      <3>3. Grows(m, <<"destroyed", c>>) => OrderAt(m)'
        BY <1>5, <1>6, <1>8, <2>2, <3>1, OrderGrows
      <3> QED
        BY <1>15, <2>2, <3>2, <3>3
    <2>3. CASE m # l /\ kind = "established"
      <3>1. ASSUME NEW k \in Waiting(m), Fn(m, k)[2] = c PROVE FALSE
        <4>1. PICK j \in Waiting(m) : Fn(m, j) = <<"established", c>>
          BY <1>5, <1>9, <2>3, <3>1 DEF OrderAt, Waits
        <4>2. Fn(m, j)[1] = "established"
          BY <4>1, SMTT(30)
        <4> QED
          BY <1>5, <1>9, <2>3, <4>2 DEF OrderAt
      <3>2. Same(m)
        BY <1>15, <2>3
      <3> QED
        BY <1>5, <1>16, <3>1, <3>2, OrderSame
    <2> QED
      BY <2>1, <2>2, <2>3
  <1>18. ASSUME NEW m \in Loops PROVE PlacesAt(m)'
    <2>1. conn'[c].reading => conn[c].reading \/ conn[c].state = "kConnecting"
      BY <1>3, <1>5, <1>9, <1>12, <1>13, Records, SMTT(30) DEF Kinds
    <2>2. \A d \in Conns : (conn'[d].reading => conn[d].reading) \/ conn[d].state = "kConnecting"
      BY <1>12, <2>1
    <2>3. kind = "remove" => Placed("io", "destroyed", c)
      BY <1>10 DEF Placed
    <2> QED
      BY <1>6, <1>15, <2>2, <2>3, PlacesKept
  <1>19. ASSUME NEW d \in Conns, NEW k \in Kinds, <<k, d>> # Fn(l, 1), NEW m \in Loops
         PROVE  Keeps(m, k, d)
    BY <1>15, <1>19, WaitsOn
  <1>20. ASSUME NEW d \in Conns \ {c} PROVE FreshAt(d)' /\ ReadAt(d)' /\ Stays(d)
    <2>1. Rests(d)
      BY <1>1, <1>12 DEF Rests
    <2>2. \A m \in Loops, k \in Kinds : Keeps(m, k, d)
      BY <1>3, <1>19, SMTT(30)
    <2>3. PICK i \in Loops : i = ioLoop
      BY <1>6
    <2> QED
      BY <1>1, <1>6, <2>1, <2>2, <2>3, Kept
  <1>21. FreshAt(c)'
    BY <1>14 DEF FreshAt
  <1>22. ReadAt(c)' /\ Stays(c)
    <2>1. CASE kind = "established"
      <3>1. /\ ioLoop = "io" /\ (server = "up" => c \in connections)
            /\ phase["io"] # "left" /\ (c \in connections \/ Waits("io", "destroyed", c))
        BY <1>1, <1>5, <1>7, <1>9, <2>1 DEF FreshAt
      <3>2. c \in connections \/ Waits("io", "destroyed", c)'
        BY <1>3, <1>6, <1>19, <2>1, <3>1, SMTT(30) DEF Keeps
      <3> QED
        BY <1>1, <1>9, <1>12, <1>14, <2>1, <3>1, <3>2 DEF ReadAt, Stays
    <2>2. CASE kind = "remove"
      BY <1>1, <1>5, <1>10, <1>12, <1>14, <2>2 DEF ReadAt
    <2>3. CASE kind = "destroyed"
      <3>1. conn'[c].reading => conn[c].reading /\ conn'[c].state = "kDisconnecting"
        <4>1. conn[c].state = "kDisconnected" => ~conn[c].reading
          BY <1>5 DEF ReadAt
        <4>2. conn[c].state \in {"kConnecting", "kConnected", "kDisconnecting", "kDisconnected"}
          BY <1>5 DEF Record
        <4> QED
          BY <1>5, <1>8, <1>13, <2>3, <4>1, <4>2, Records, SMTT(30)
      <3> QED
        BY <1>1, <1>5, <1>10, <1>12, <1>14, <2>3, <3>1 DEF ReadAt
    <2>4. CASE kind = "shutdown"
      <3>1. \A m \in Loops : Keeps(m, "destroyed", c)
        BY <1>3, <1>6, <1>19, <2>4, SMTT(30)
      <3>2. PICK i \in Loops : i = ioLoop
        BY <1>6
      <3>3. Waits(i, "destroyed", c) => Waits(i, "destroyed", c)'
        BY <3>1 DEF Keeps
      <3>4. Waits(ioLoop, "destroyed", c) => Waits(ioLoop, "destroyed", c)'
        BY <3>2, <3>3
      <3> QED
        BY <1>1, <1>5, <1>12, <1>14, <2>4, <3>4 DEF ReadAt
    <2> QED
      BY <2>1, <2>2, <2>3, <2>4 DEF Kinds
  <1> QED
    BY <1>17, <1>18, <1>20, <1>21, <1>22 DEF OrderInv, FreshInv, ReadInv
-----------------------------------------------------------------------------
(* Every step keeps the order of the functors and what is known of each connection, and
   connects no connection that was closed. *)
LEMMA ServedStep ==
    ASSUME TypeOK, LoopInv, OwnInv, OrderInv, FreshInv, ReadInv, [Next]_vars
    PROVE  OrderInv' /\ FreshInv' /\ ReadInv' /\ \A c \in Conns : Stays(c)
  <1> DEFINE Served == OrderInv' /\ FreshInv' /\ ReadInv' /\ \A c \in Conns : Stays(c)
  <1>1. ioLoop' = ioLoop
    BY DEF Next, vars
  <1>2. Calm => Served
    BY <1>1, CalmStep
  <1> HIDE DEF Served
  <1>3. ASSUME UNCHANGED serverVars PROVE Served
    BY <1>2, <1>3, QuietSteps
  <1>4. ASSUME NEW l \in Loops, LoopStep(l) PROVE Served
    <2>1. RunFunctor(l) => Served
      BY <1>1, RunStep DEF Served
    <2>2. ASSUME NEW c \in Conns, HandleEvent(l, c) PROVE Served
      BY <1>1, <1>2, <2>2, EventStep
    <2> QED
      BY <1>2, <1>4, <2>1, <2>2, QuietSteps, EndStep DEF LoopStep
  <1>5. ASSUME MainStep PROVE Served
    <2>1. ASSUME NEW c \in Conns, DestroyConnection(c) PROVE Served
      BY <1>1, <1>2, <2>1, DestroyStep
    <2> QED
      BY <1>2, <1>5, <2>1, QuietSteps DEF MainStep
  <1>6. ASSUME NEW c \in Conns, NewConnection(c) PROVE Served
    BY <1>1, <1>6, NewStep DEF Served
  <1>7. ASSUME NEW c \in Conns, ShutdownStore(c) PROVE Served
    BY <1>2, <1>7, StoreStep
  <1>8. ASSUME Step PROVE Served
    BY <1>2, <1>4, <1>5, <1>6, <1>7, <1>8, QuietSteps DEF Step, UserStep
  <1>9. Served
    BY <1>3, <1>8 DEF Next, Finished, vars
  <1> QED
    BY <1>9 DEF Served

(* The invariant of the server, from accept to the end of ~TcpServer, for any number of
   connections: TcpServer.cpp, TcpConnection.cpp and EPollPoller.cpp. *)
THEOREM ServerInvariant == Spec => []ServerInv
  <1>1. ServerInv /\ [Next]_vars => ServerInv'
    BY TypeStep, LoopsStep, OwnStep, ServedStep, GoneStep DEF ServerInv
  <1> QED
    BY <1>1, InitInv, PTL DEF Spec

(* OwnershipAgrees for any number of connections: connections_, the channel and epoll
   agree on who is served, nothing that is read is destroyed but a half-closed connection
   under ~TcpServer, no loop frees a channel it is about to handle, and ~TcpServer leaves
   only what user code, a TLS context or a main loop functor keeps. *)
THEOREM OwnershipAlwaysAgrees == Spec => []OwnershipAgrees
  <1>1. ServerInv => OwnershipAgrees
    <2> SUFFICES ASSUME ServerInv PROVE OwnershipAgrees
      OBVIOUS
    <2>0. TypeOK /\ LoopInv /\ OwnInv /\ ReadInv /\ GoneInv /\ ioLoop \in Loops
      BY DEF ServerInv, TypeOK
    <2>1. \A c \in Conns : conn[c].obj = "live" /\ c \notin connections /\ server = "up" => ~conn[c].reading
      BY <2>0 DEF ReadInv, ReadAt
    <2>2. ASSUME NEW c \in Conns, conn[c].reading, conn[c].epoll, ~Owned(c)
          PROVE  server # "up" /\ conn[c].state = "kDisconnecting"
      <3>1. c \notin connections
        BY <2>2 DEF Owned
      <3>2. /\ server # "up"
            /\ conn[c].state = "kDisconnecting" \/ Waits(ioLoop, "destroyed", c)
        BY <2>0, <2>2, <3>1 DEF ReadInv, ReadAt
      <3>3. ~Waits(ioLoop, "destroyed", c)
        <4>1. SUFFICES ASSUME NEW k \in Waiting(ioLoop), Fn(ioLoop, k) = <<"destroyed", c>> PROVE FALSE
          BY DEF Waits
        <4>2. Fn(ioLoop, k)[2] = c
          BY <4>1, SMTT(30)
        <4>3. Owned(Fn(ioLoop, k)[2])
          BY <2>0, <4>1, Positions
        <4> QED
          BY <2>2, <4>2, <4>3
      <3> QED
        BY <3>2, <3>3
    <2>3. \A c \in active[ioLoop] : conn[c].obj # "live" => reaper[c] # ioLoop
      BY <2>0 DEF OwnInv, TypeOK
    <2>4. dangling => stopped
      BY <2>0 DEF LoopInv
    <2> QED
      BY <2>0, <2>1, <2>2, <2>3, <2>4 DEF OwnershipAgrees, GoneInv, Accounted
  <1> QED
    BY <1>1, ServerInvariant, PTL

(* NeverReconnects for any number of connections: TcpConnection::connectEstablished is the
   only code that stores kConnected, and it runs on a connection that is kConnecting. *)
THEOREM ClosedStaysClosed == Spec => NeverReconnects
  <1> DEFINE AllStay == \A c \in Conns : conn[c].state \in {"kDisconnecting", "kDisconnected"}
                                             => conn'[c].state # "kConnected"
  <1>1. ServerInv /\ [Next]_vars => [AllStay]_vars
    BY ServedStep DEF ServerInv, Stays
  <1> QED
    BY <1>1, ServerInvariant, PTL DEF Spec, NeverReconnects
=============================================================================
