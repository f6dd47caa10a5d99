------------------------ MODULE AsyncFileSinkProofs -------------------------
(***************************************************************************)
(* Proofs about AsyncFileSink for any set of producers and any number of   *)
(* lines: the order and the single writing of the lines, and what stop()   *)
(* and the flush of a FATAL line have written.                             *)
(***************************************************************************)
EXTENDS AsyncFileSink, SequenceTheorems, TLAPS

(* A node that its producer has left behind is linked. *)
LinkedInv ==
    \A p \in Producers : producer[p] # "link" => NodesOf(p) \subseteq linked

(* A dequeued node is in one of the file, run()'s buffer and the flusher's deque, and
   there once. *)
PlacesInv ==
    /\ IsInjective(disk) /\ IsInjective(buf) /\ IsInjective(tmp)
    /\ ToSet(disk) \cap ToSet(buf) = {}
    /\ ToSet(disk) \cap ToSet(tmp) = {}
    /\ ToSet(buf) \cap ToSet(tmp) = {}
    /\ ToSet(disk) \cup ToSet(buf) \cup ToSet(tmp) \subseteq 1..head

(* Until a flush begins, what the worker has is what was dequeued, in order. *)
OrderInv ==
    flusher = "idle" =>
        /\ Len(disk) + Len(buf) = head
        /\ \A n \in 1..Len(disk) : disk[n] = n
        /\ \A n \in 1..Len(buf) : buf[n] = Len(disk) + n

(* Who can be where: stop() comes once, ~Logger's flush is over before it, and the
   worker drains only after it. *)
CallersInv ==
    /\ running <=> stopper = "idle"
    /\ worker \in {"drain", "done"} => stopper # "idle"
    /\ worker = "done" => buf = <<>>
    /\ stopper = "closed" => worker = "done"
    /\ flushes = "nobody" <=> flusher = "idle"
    /\ flushes = "~Logger" /\ flusher = "drain" => stopper = "idle"
    /\ tmp # <<>> => flusher = "drain"

(* What was dequeued is kept, but for a FATAL line's flush that finds the file closed,
   and nobody answers for that; and whoever finds the queue empty has passed every
   node of before, since no node up to it was left to link. *)
KeptInv ==
    /\ \/ 1..head \subseteq ToSet(disk) \cup ToSet(buf) \cup ToSet(tmp)
       \/ Aborted /\ before = {}
    /\ \A n \in before : 1..n \subseteq linked
    /\ worker = "done" => before \subseteq 1..head
    /\ Aborted => before \subseteq 1..head
    /\ flushes = "FATAL" /\ stopper # "idle" => before = {}

(* Where a consumer can be inside dequeue, and when the two have met there: a flush had
   begun and log() had not aborted. *)
RaceInv ==
    /\ next["worker"] # 0 => worker \in {"dequeue", "drain"}
    /\ next["flusher"] # 0 => flusher = "drain"
    /\ flusher = "idle" => next["worker"] \in {0, head + 1}
    /\ raced => flusher # "idle" /\ ~Aborted
    /\ raced /\ stopper = "closed" => flushes = "FATAL"

(* Nothing is said of the lines once the consumers have met. *)
SinkInv ==
    /\ TypeOK /\ LinkedInv /\ CallersInv /\ RaceInv
    /\ raced \/ (PlacesInv /\ OrderInv /\ KeptInv)
-----------------------------------------------------------------------------
(* Zenon proves each leaf that names no other prover. *)
USE ZenonT(30)

(* Pushing an absent element (Collect, FlushCollect). *)
LEMMA PushAbsent ==
    ASSUME NEW S, NEW s \in Seq(S), NEW e \in S, e \notin ToSet(s), IsInjective(s)
    PROVE  /\ IsInjective(Append(s, e))
           /\ ToSet(Append(s, e)) = ToSet(s) \cup {e}
  <1> DEFINE r == Append(s, e)
  <1>1. /\ Len(r) = Len(s) + 1 /\ Len(s) \in Nat
        /\ DOMAIN r = 1..Len(r) /\ DOMAIN s = 1..Len(s)
        /\ \A i \in 1..Len(s) : r[i] = s[i]
        /\ r[Len(s) + 1] = e
    BY AppendProperties, LenProperties, SMTT(30)
  <1> HIDE DEF r
  <1>2. IsInjective(r)
    BY <1>1, SMTT(30) DEF IsInjective, ToSet
  <1>3. ToSet(r) = ToSet(s) \cup {e}
    BY <1>1, SMTT(30) DEF ToSet
  <1> QED
    BY <1>2, <1>3 DEF r

(* Writing one sequence behind another with no common element (WriteBuffer,
   FlushWrite). *)
LEMMA WriteBehind ==
    ASSUME NEW S, NEW s \in Seq(S), NEW t \in Seq(S)
    PROVE  /\ s \o t \in Seq(S)
           /\ ToSet(s \o t) = ToSet(s) \cup ToSet(t)
           /\ IsInjective(s) /\ IsInjective(t) /\ ToSet(s) \cap ToSet(t) = {} => IsInjective(s \o t)
  <1> DEFINE r == s \o t
  <1>1. /\ r \in Seq(S)
        /\ Len(r) = Len(s) + Len(t) /\ Len(s) \in Nat /\ Len(t) \in Nat
        /\ DOMAIN r = 1..Len(r) /\ DOMAIN s = 1..Len(s) /\ DOMAIN t = 1..Len(t)
    BY ConcatProperties, LenProperties
  <1>2. \A i \in 1..Len(s) : r[i] = s[i]
    BY ConcatProperties, LenProperties, SMTT(30)
  <1>3. \A i \in 1..Len(t) : r[Len(s) + i] = t[i]
    BY ConcatProperties, LenProperties, SMTT(30)
  <1> HIDE DEF r
  <1>4. ToSet(r) = ToSet(s) \cup ToSet(t)
    <2>1. ASSUME NEW x \in ToSet(s) PROVE x \in ToSet(r)
      BY <1>1, <1>2, SMTT(30) DEF ToSet
    <2>2. ASSUME NEW x \in ToSet(t) PROVE x \in ToSet(r)
      <3>1. PICK i \in 1..Len(t) : t[i] = x
        BY <1>1 DEF ToSet
      <3>2. Len(s) + i \in DOMAIN r /\ r[Len(s) + i] = x
        BY <1>1, <1>3, <3>1, SMTT(30)
      <3> QED
        BY <3>2 DEF ToSet
    <2>3. ASSUME NEW x \in ToSet(r) PROVE x \in ToSet(s) \cup ToSet(t)
      <3>1. PICK i \in 1..Len(r) : r[i] = x
        BY <1>1 DEF ToSet
      <3>2. CASE i \in 1..Len(s)
        BY <1>1, <1>2, <3>1, <3>2 DEF ToSet
      <3>3. CASE i \notin 1..Len(s)
        <4>1. i - Len(s) \in 1..Len(t) /\ Len(s) + (i - Len(s)) = i
          BY <1>1, <3>3, SMTT(30)
        <4>2. t[i - Len(s)] = x
          BY <1>3, <3>1, <4>1
        <4> QED
          BY <1>1, <4>1, <4>2 DEF ToSet
      <3> QED
        BY <3>2, <3>3
    <2> QED
      BY <2>1, <2>2, <2>3
  <1>5. ASSUME IsInjective(s), IsInjective(t), ToSet(s) \cap ToSet(t) = {}
        PROVE  IsInjective(r)
    <2> SUFFICES ASSUME NEW i \in 1..Len(r), NEW j \in 1..Len(r), r[i] = r[j], i < j
                 PROVE  FALSE
      BY <1>1, SMTT(30) DEF IsInjective
    <2>1. CASE j <= Len(s)
      BY <1>1, <1>2, <1>5, <2>1, SMTT(30) DEF IsInjective
    <2>2. CASE i > Len(s)
      <3>1. /\ i - Len(s) \in 1..Len(t) /\ Len(s) + (i - Len(s)) = i
            /\ j - Len(s) \in 1..Len(t) /\ Len(s) + (j - Len(s)) = j
        BY <1>1, <2>2, SMTT(30)
      <3>2. t[i - Len(s)] = t[j - Len(s)]
        BY <1>3, <3>1
      <3>3. i - Len(s) = j - Len(s)
        BY <1>1, <1>5, <3>1, <3>2 DEF IsInjective
      <3> QED
        BY <1>1, <3>3, SMTT(30)
    <2>3. CASE i <= Len(s) /\ j > Len(s)
      <3>1. j - Len(s) \in 1..Len(t) /\ Len(s) + (j - Len(s)) = j
        BY <1>1, <2>3, SMTT(30)
      <3>2. t[j - Len(s)] = r[j]
        BY <1>3, <3>1
      <3>3. s[i] = r[i] /\ i \in DOMAIN s
        BY <1>1, <1>2, <2>3, SMTT(30)
      <3> QED
        BY <1>1, <1>5, <3>1, <3>2, <3>3 DEF ToSet
    <2> QED
      BY <1>1, <2>1, <2>2, <2>3, SMTT(30)
  <1> QED
    BY <1>1, <1>4, <1>5 DEF r

(* A sequence over a set is one over any larger set, and its elements are in it. *)
LEMMA SeqOver ==
    ASSUME NEW S, NEW s \in Seq(S)
    PROVE  /\ ToSet(s) \subseteq S
           /\ \A T : S \subseteq T => s \in Seq(T)
  <1>1. ToSet(s) \subseteq S
    BY LenProperties, SMTT(30) DEF ToSet
  <1>2. ASSUME NEW T, S \subseteq T PROVE s \in Seq(T)
    BY <1>2, SeqMonotonic
  <1> QED
    BY <1>1, <1>2
-----------------------------------------------------------------------------
(* Every operation of a producer, of the worker, of stop() and of a flush keeps the
   types: the lines written are numbers of enqueued nodes. *)
LEMMA TypeStep == TypeOK /\ LinkedInv /\ [Next]_vars => TypeOK'
  <1> SUFFICES ASSUME TypeOK, LinkedInv, [Next]_vars PROVE TypeOK'
    OBVIOUS
  <1> USE DEF TypeOK, queueVars, Consumers
  <1>0. /\ Len(nodes) \in Nat /\ DOMAIN nodes = 1..Len(nodes)
        /\ <<>> \in Seq(DOMAIN nodes)
    BY LenProperties, EmptySeq
  <1>1. ASSUME NEW p \in Producers, Exchange(p) PROVE TypeOK'
    <2>1. /\ nodes' \in Seq(Producers) /\ Len(nodes') = Len(nodes) + 1
          /\ DOMAIN nodes' = 1..Len(nodes')
      BY <1>1, AppendProperties, LenProperties, SMTT(30) DEF Exchange
    <2>2. DOMAIN nodes \subseteq DOMAIN nodes'
      BY <1>0, <2>1, SMTT(30)
    <2>3. /\ buf \in Seq(DOMAIN nodes') /\ disk \in Seq(DOMAIN nodes')
          /\ tmp \in Seq(DOMAIN nodes')
      BY <2>2, SeqOver
    <2>4. /\ producer' \in [Producers -> {"idle", "link", "notify", "fatal"}]
          /\ head' \in 0..Len(nodes')
          /\ next' \in [Consumers -> 0..Len(nodes')]
      BY <1>0, <1>1, <2>1, SMTT(30) DEF Exchange
    <2>5. /\ linked' \subseteq DOMAIN nodes' /\ returned' \subseteq linked'
          /\ before' \subseteq DOMAIN nodes'
      BY <1>1, <2>2 DEF Exchange
    <2>6. running' \in BOOLEAN /\ notified' \in BOOLEAN /\ raced' \in BOOLEAN
      BY <1>1 DEF Exchange
    <2> QED
      BY <1>1, <2>1, <2>3, <2>4, <2>5, <2>6 DEF Exchange
  <1>2. ASSUME NEW p \in Producers, Link(p) PROVE TypeOK'
    <2>1. linked' \subseteq DOMAIN nodes /\ returned \subseteq linked'
      BY <1>2 DEF Link, NodesOf
    <2>2. producer' \in [Producers -> {"idle", "link", "notify", "fatal"}]
      BY <1>2 DEF Link
    <2> QED
      BY <1>2, <2>1, <2>2 DEF Link
  <1>3. ASSUME NEW p \in Producers, Notify(p) \/ NotifyFatal(p) PROVE TypeOK'
    <2>1. producer[p] = "notify" /\ returned' = returned \cup NodesOf(p)
      BY <1>3 DEF Notify, NotifyFatal
    <2>2. returned' \subseteq linked
      BY <2>1 DEF LinkedInv
    <2>3. producer' \in [Producers -> {"idle", "link", "notify", "fatal"}]
      BY <1>3 DEF Notify, NotifyFatal
    <2>4. notified' \in BOOLEAN
      BY <1>3 DEF Notify, NotifyFatal
    <2>5. before' \subseteq DOMAIN nodes
      BY <1>3, <2>2 DEF Notify, NotifyFatal
    <2>6. CASE Notify(p)
      BY <2>2, <2>3, <2>4, <2>6 DEF Notify
    <2>7. CASE NotifyFatal(p)
      BY <2>2, <2>3, <2>4, <2>5, <2>7 DEF NotifyFatal
    <2> QED
      BY <1>3, <2>6, <2>7
  <1>4. ASSUME NEW c \in Consumers, Load(c) PROVE TypeOK'
    <2>1. head + 1 \in 0..Len(nodes)
      BY <1>0, <1>4, SMTT(30) DEF Load
    <2>2. next' \in [Consumers -> 0..Len(nodes)]
      BY <1>4, <2>1 DEF Load
    <2> QED
      BY <1>4, <2>2 DEF Load
  <1>5. ASSUME NEW c \in Consumers, MoveHead(c)
        PROVE  /\ next' \in [Consumers -> 0..Len(nodes)] /\ head' \in 0..Len(nodes)
               /\ next[c] \in DOMAIN nodes
    BY <1>0, <1>5, SMTT(30) DEF MoveHead
  <1>6. CASE Collect
    <2>1. Append(buf, next["worker"]) \in Seq(DOMAIN nodes)
      BY <1>5, <1>6, AppendProperties DEF Collect
    <2>2. worker' \in {"dequeue", "lock", "wait", "test", "drain", "done"}
      BY <1>6 DEF Collect
    <2> QED
      BY <1>5, <1>6, <2>1, <2>2 DEF Collect
  <1>7. CASE DequeueNone \/ StartWait
    BY <1>7 DEF DequeueNone, StartWait
  <1>8. CASE EndWait
    BY <1>8 DEF EndWait
  <1>9. WriteBuffer => disk' \in Seq(DOMAIN nodes) /\ buf' \in Seq(DOMAIN nodes)
    BY <1>0, WriteBehind, SMTT(30) DEF WriteBuffer
  <1>10. ASSUME NEW due \in BOOLEAN, TestSync(due) PROVE TypeOK'
    <2>1. disk' \in Seq(DOMAIN nodes) /\ buf' \in Seq(DOMAIN nodes)
      BY <1>9, <1>10 DEF TestSync
    <2>2. worker' \in {"dequeue", "lock", "wait", "test", "drain", "done"}
      BY <1>10 DEF TestSync, AfterTest
    <2> QED
      BY <1>10, <2>1, <2>2 DEF TestSync
  <1>11. CASE FinalWrite
    BY <1>9, <1>11 DEF FinalWrite
  <1>12. ASSUME NEW c \in Consumers, DequeueAgain(c) PROVE TypeOK'
    <2>1. next[c] \in DOMAIN nodes
      BY <1>0, <1>12, SMTT(30) DEF DequeueAgain
    <2>2. /\ Append(buf, next[c]) \in Seq(DOMAIN nodes)
          /\ Append(tmp, next[c]) \in Seq(DOMAIN nodes)
      BY <2>1, AppendProperties
    <2>3. buf' \in Seq(DOMAIN nodes) /\ tmp' \in Seq(DOMAIN nodes)
      BY <1>12, <2>2 DEF DequeueAgain
    <2>4. raced' \in BOOLEAN
      BY <1>12 DEF DequeueAgain
    <2> QED
      BY <1>12, <2>3, <2>4 DEF DequeueAgain
  <1>13. CASE Stop
    <2>1. notified' \in BOOLEAN
      BY <1>13 DEF Stop
    <2>2. before' \subseteq DOMAIN nodes
      BY <1>13 DEF Stop, Settled
    <2> QED
      BY <1>13, <2>1, <2>2 DEF Stop
  <1>14. CASE StopJoin
    BY <1>14 DEF StopJoin
  <1>15. CASE FlushBegin
    BY <1>15 DEF FlushBegin
  <1>16. CASE FlushCollect
    <2>1. Append(tmp, next["flusher"]) \in Seq(DOMAIN nodes)
      BY <1>5, <1>16, AppendProperties DEF FlushCollect
    <2> QED
      BY <1>5, <1>16, <2>1 DEF FlushCollect
  <1>17. CASE FlushWrite
    <2>1. disk' \in Seq(DOMAIN nodes)
      BY <1>17, WriteBehind DEF FlushWrite
    <2> QED
      BY <1>0, <1>17, <2>1 DEF FlushWrite
  <1>18. CASE UNCHANGED vars
    BY <1>18 DEF vars
  <1> QED
    BY <1>1, <1>2, <1>3, <1>4, <1>6, <1>7, <1>8, <1>10, <1>11, <1>12, <1>13, <1>14, <1>15,
       <1>16, <1>17, <1>18
       DEF Next, Step, Submit, Worker, Flusher, LoadWorker, LoadFlusher, Finished

(* submit() links its node before it returns, and it has one node at a time. *)
LEMMA LinkedStep == TypeOK /\ LinkedInv /\ [Next]_vars => LinkedInv'
  <1> SUFFICES ASSUME TypeOK, LinkedInv, [Next]_vars PROVE LinkedInv'
    OBVIOUS
  <1>1. ASSUME NEW p \in Producers, Exchange(p) PROVE LinkedInv'
    <2> SUFFICES ASSUME NEW q \in Producers, producer'[q] # "link"
                 PROVE  NodesOf(q)' \subseteq linked'
      BY DEF LinkedInv
    <2>1. q # p /\ producer[q] # "link" /\ linked' = linked
      BY <1>1 DEF Exchange, TypeOK
    <2>2. /\ DOMAIN nodes' = DOMAIN nodes \cup {Len(nodes) + 1}
          /\ \A n \in DOMAIN nodes : nodes'[n] = nodes[n]
          /\ nodes'[Len(nodes) + 1] = p
      BY <1>1, AppendProperties, LenProperties, SMTT(30) DEF Exchange, TypeOK
    <2>3. NodesOf(q)' = NodesOf(q)
      BY <2>1, <2>2 DEF NodesOf
    <2> QED
      BY <2>1, <2>3 DEF LinkedInv
  <1>2. ASSUME NEW p \in Producers, Link(p) PROVE LinkedInv'
    BY <1>2 DEF LinkedInv, Link, TypeOK, NodesOf
  <1>3. ASSUME NEW p \in Producers, Notify(p) \/ NotifyFatal(p) PROVE LinkedInv'
    BY <1>3 DEF LinkedInv, Notify, NotifyFatal, TypeOK, NodesOf
  <1>4. CASE UNCHANGED <<nodes, linked, producer>>
    BY <1>4 DEF LinkedInv, NodesOf
  <1> QED
    BY <1>1, <1>2, <1>3, <1>4
       DEF Next, Step, Submit, Worker, Flusher, LoadWorker, LoadFlusher, Finished, Load, Collect,
           DequeueNone, StartWait, EndWait, TestSync, FinalWrite, DequeueAgain, Stop, StopJoin,
           FlushBegin,
           FlushCollect, FlushWrite, queueVars, vars

(* What a step does with the dequeued nodes: Collect and FlushCollect take the next
   one, the two writes move some to the file, and nothing else touches them. *)
LEMMA PlacesCases ==
    ASSUME [Next]_vars, ~raced'
    PROVE  \/ Collect
           \/ FlushCollect
           \/ WriteBuffer /\ UNCHANGED <<head, tmp, flusher>>
           \/ FlushWrite
           \/ UNCHANGED <<head, disk, buf, tmp>> /\ (flusher' = "idle" => flusher = "idle")
  BY DEF Next, Step, Submit, Exchange, Link, Notify, NotifyFatal, Worker, Flusher, LoadWorker,
         LoadFlusher, Finished, Load, DequeueNone, StartWait, EndWait, TestSync, FinalWrite,
         DequeueAgain, Stop, StopJoin, FlushBegin, vars

(* A consumer that moves head_ takes the node after it, which nobody has. *)
LEMMA MovesToNext ==
    ASSUME TypeOK, NEW c \in Consumers, MoveHead(c)
    PROVE  /\ next[c] = head + 1 /\ head' = head + 1
           /\ head \in Nat /\ head + 1 \in DOMAIN nodes
           /\ 1..head' = (1..head) \cup {head + 1}
           /\ head + 1 \notin 1..head
  <1>1. Len(nodes) \in Nat /\ DOMAIN nodes = 1..Len(nodes)
    BY LenProperties DEF TypeOK
  <1>2. next[c] = head + 1 /\ head' = head + 1 /\ head \in Nat /\ next[c] \in 0..Len(nodes)
    BY <1>1, SMTT(30) DEF MoveHead, TypeOK
  <1> QED
    BY <1>1, <1>2, SMTT(30)

(* Nobody takes a node twice, and a write moves nodes without copying them. *)
LEMMA PlacesStep == TypeOK /\ PlacesInv /\ [Next]_vars /\ ~raced' => PlacesInv'
  <1> SUFFICES ASSUME TypeOK, PlacesInv, [Next]_vars, ~raced' PROVE PlacesInv'
    OBVIOUS
  <1>0. /\ disk \in Seq(DOMAIN nodes) /\ buf \in Seq(DOMAIN nodes)
        /\ tmp \in Seq(DOMAIN nodes)
    BY DEF TypeOK
  <1>e. ToSet(<<>>) = {} /\ IsInjective(<<>>)
    BY SMTT(30) DEF ToSet, IsInjective
  <1>1. CASE Collect
    <2>1. /\ buf' = Append(buf, head + 1) /\ disk' = disk /\ tmp' = tmp
          /\ head' = head + 1 /\ head + 1 \in DOMAIN nodes
          /\ 1..head' = (1..head) \cup {head + 1} /\ head + 1 \notin 1..head
      BY <1>1, MovesToNext DEF Collect, Consumers
    <2>2. head + 1 \notin ToSet(disk) \cup ToSet(buf) \cup ToSet(tmp)
      BY <2>1 DEF PlacesInv
    <2>3. IsInjective(buf') /\ ToSet(buf') = ToSet(buf) \cup {head + 1}
      BY <1>0, <2>1, <2>2, PushAbsent, SMTT(30) DEF PlacesInv
    <2> QED
      BY <2>1, <2>2, <2>3 DEF PlacesInv
  <1>2. CASE FlushCollect
    <2>1. /\ tmp' = Append(tmp, head + 1) /\ disk' = disk /\ buf' = buf
          /\ head' = head + 1 /\ head + 1 \in DOMAIN nodes
          /\ 1..head' = (1..head) \cup {head + 1} /\ head + 1 \notin 1..head
      BY <1>2, MovesToNext DEF FlushCollect, Consumers
    <2>2. head + 1 \notin ToSet(disk) \cup ToSet(buf) \cup ToSet(tmp)
      BY <2>1 DEF PlacesInv
    <2>3. IsInjective(tmp') /\ ToSet(tmp') = ToSet(tmp) \cup {head + 1}
      BY <1>0, <2>1, <2>2, PushAbsent, SMTT(30) DEF PlacesInv
    <2> QED
      BY <2>1, <2>2, <2>3 DEF PlacesInv
  <1>3. CASE WriteBuffer /\ UNCHANGED <<head, tmp, flusher>>
    <2>1. IsInjective(disk') /\ ToSet(disk') = ToSet(disk) \cup ToSet(buf)
      BY <1>0, <1>3, WriteBehind, SMTT(30) DEF WriteBuffer, PlacesInv
    <2> QED
      BY <1>3, <1>e, <2>1 DEF WriteBuffer, PlacesInv
  <1>4. CASE FlushWrite
    <2>1. ToSet(tmp') = {} /\ IsInjective(tmp') /\ buf' = buf /\ head' = head
      BY <1>4, <1>e DEF FlushWrite
    <2>2. CASE stopper = "closed"
      BY <1>4, <2>1, <2>2 DEF FlushWrite, PlacesInv
    <2>3. CASE stopper # "closed"
      <3>1. IsInjective(disk') /\ ToSet(disk') = ToSet(disk) \cup ToSet(tmp)
        BY <1>0, <1>4, <2>3, WriteBehind, SMTT(30) DEF FlushWrite, PlacesInv
      <3> QED
        BY <2>1, <3>1 DEF PlacesInv
    <2> QED
      BY <2>2, <2>3
  <1>5. CASE UNCHANGED <<head, disk, buf, tmp>>
    BY <1>5 DEF PlacesInv
  <1> QED
    BY <1>1, <1>2, <1>3, <1>4, <1>5, PlacesCases

(* As long as no flush begins, run() appends each node behind its predecessor. *)
LEMMA OrderStep == TypeOK /\ OrderInv /\ [Next]_vars /\ ~raced' => OrderInv'
  <1> SUFFICES ASSUME TypeOK, OrderInv, [Next]_vars, ~raced', flusher' = "idle"
               PROVE  /\ Len(disk') + Len(buf') = head'
                      /\ \A n \in 1..Len(disk') : disk'[n] = n
                      /\ \A n \in 1..Len(buf') : buf'[n] = Len(disk') + n
    BY DEF OrderInv
  <1>0. /\ disk \in Seq(DOMAIN nodes) /\ buf \in Seq(DOMAIN nodes)
        /\ Len(disk) \in Nat /\ Len(buf) \in Nat
    BY LenProperties DEF TypeOK
  <1>1. CASE Collect
    <2>1. /\ buf' = Append(buf, head + 1) /\ disk' = disk /\ head' = head + 1
          /\ head + 1 \in DOMAIN nodes /\ flusher = "idle"
      BY <1>1, MovesToNext DEF Collect, Consumers
    <2>2. /\ Len(buf') = Len(buf) + 1 /\ buf'[Len(buf) + 1] = head + 1
          /\ \A n \in 1..Len(buf) : buf'[n] = buf[n]
      BY <1>0, <2>1, AppendProperties, SMTT(30)
    <2>3. ASSUME NEW n \in 1..Len(buf') PROVE buf'[n] = Len(disk') + n
      <3>1. CASE n \in 1..Len(buf)
        BY <2>1, <2>2, <3>1 DEF OrderInv
      <3>2. CASE n = Len(buf) + 1
        BY <1>0, <2>1, <2>2, <3>2, SMTT(30) DEF OrderInv
      <3> QED
        BY <1>0, <2>2, <3>1, <3>2, SMTT(30)
    <2> QED
      BY <1>0, <2>1, <2>2, <2>3, SMTT(30) DEF OrderInv
  <1>2. CASE WriteBuffer /\ UNCHANGED <<head, tmp, flusher>>
    <2>1. /\ Len(disk') = Len(disk) + Len(buf) /\ Len(buf') = 0
          /\ \A n \in 1..Len(disk) + Len(buf) :
                disk'[n] = IF n <= Len(disk) THEN disk[n] ELSE buf[n - Len(disk)]
      BY <1>0, <1>2, ConcatProperties DEF WriteBuffer
    <2>2. ASSUME NEW n \in 1..Len(disk') PROVE disk'[n] = n
      BY <1>0, <1>2, <2>1, SMTT(30) DEF OrderInv
    <2> QED
      BY <1>0, <1>2, <2>1, <2>2, SMTT(30) DEF OrderInv
  <1>3. CASE UNCHANGED <<head, disk, buf, tmp>> /\ flusher = "idle"
    BY <1>3 DEF OrderInv
  <1>4. ~FlushCollect /\ ~FlushWrite
    BY DEF FlushCollect, FlushWrite
  <1> QED
    BY <1>1, <1>2, <1>3, <1>4, PlacesCases

(* stop() runs once and after ~Logger's flush, the worker leaves its loop after it and
   takes nothing more once it is done. *)
LEMMA CallersStep == TypeOK /\ CallersInv /\ RaceInv /\ [Next]_vars => CallersInv'
  <1> SUFFICES ASSUME TypeOK, CallersInv, RaceInv, [Next]_vars PROVE CallersInv'
    OBVIOUS
  <1> USE DEF CallersInv
  <1>1. ASSUME NEW p \in Producers, Submit(p) PROVE CallersInv'
    BY <1>1, SMTT(30) DEF Submit, Exchange, Link, Notify, NotifyFatal, TypeOK
  <1>2. ASSUME NEW c \in Consumers, Load(c) PROVE CallersInv'
    BY <1>2, SMTT(30) DEF Load
  <1>13. ASSUME NEW c \in Consumers, DequeueAgain(c) PROVE CallersInv'
    <2>1. CASE c = "worker"
      <3>1. worker # "done" /\ (tmp' = tmp \/ c = "flusher")
        BY <1>13, <2>1 DEF DequeueAgain, RaceInv
      <3> QED
        BY <1>13, <2>1, <3>1 DEF DequeueAgain
    <2>2. CASE c = "flusher"
      <3>1. flusher = "drain" /\ (buf' = buf \/ c = "worker")
        BY <1>13, <2>2 DEF DequeueAgain, RaceInv
      <3> QED
        BY <1>13, <2>2, <3>1 DEF DequeueAgain
    <2> QED
      BY <2>1, <2>2 DEF Consumers
  <1>3. CASE Collect
    BY <1>3 DEF Collect
  <1>4. CASE DequeueNone \/ StartWait \/ EndWait
    BY <1>4, SMTT(30) DEF DequeueNone, StartWait, EndWait
  <1>5. ASSUME NEW due \in BOOLEAN, TestSync(due) PROVE CallersInv'
    <2>1. worker' \in {"dequeue", "drain"} /\ (worker' = "drain" => ~running)
      BY <1>5 DEF TestSync, AfterTest
    <2> QED
      BY <1>5, <2>1 DEF TestSync
  <1>6. CASE FinalWrite
    BY <1>6 DEF FinalWrite, WriteBuffer
  <1>7. CASE Stop
    BY <1>7 DEF Stop, TypeOK
  <1>8. CASE StopJoin
    BY <1>8 DEF StopJoin
  <1>9. CASE FlushBegin
    BY <1>9 DEF FlushBegin
  <1>10. CASE FlushCollect
    BY <1>10 DEF FlushCollect
  <1>11. CASE FlushWrite
    BY <1>11 DEF FlushWrite
  <1>12. CASE UNCHANGED vars
    BY <1>12 DEF vars
  <1> QED
    BY <1>1, <1>2, <1>3, <1>4, <1>5, <1>6, <1>7, <1>8, <1>9, <1>10, <1>11, <1>12, <1>13
       DEF Next, Step, Worker, Flusher, LoadWorker, LoadFlusher, Finished, Consumers

(* A consumer leaves dequeue before it does anything else, and only a flush moves head_
   under the worker. *)
LEMMA RaceStep == TypeOK /\ CallersInv /\ RaceInv /\ [Next]_vars => RaceInv'
  <1> SUFFICES ASSUME TypeOK, CallersInv, RaceInv, [Next]_vars PROVE RaceInv'
    OBVIOUS
  <1>1. CASE UNCHANGED vars
    BY <1>1 DEF RaceInv, Aborted, vars
  <1>2. ASSUME ~Aborted, NEW c \in Consumers, DequeueAgain(c) PROVE RaceInv'
    <2>1. UNCHANGED <<next, head, worker, flusher, stopper, flushes>> /\ ~Aborted'
      BY <1>2 DEF DequeueAgain, Aborted
    <2>2. CASE c = "worker"
      <3>1. worker # "done" /\ flusher # "idle"
        BY <1>2, <2>2 DEF DequeueAgain, RaceInv
      <3>2. stopper # "closed"
        BY <3>1 DEF CallersInv
      <3> QED
        BY <2>1, <3>1, <3>2 DEF RaceInv
    <2>3. CASE c = "flusher"
      <3>1. flusher = "drain"
        BY <1>2, <2>3 DEF DequeueAgain, RaceInv
      <3>2. stopper = "closed" => flushes = "FATAL"
        BY <3>1 DEF CallersInv, TypeOK
      <3> QED
        BY <2>1, <3>1, <3>2 DEF RaceInv
    <2> QED
      BY <2>2, <2>3 DEF Consumers
  <1>3. ASSUME ~raced, ~raced', UNCHANGED <<next, head>>,
               worker' = worker \/ next["worker"] = 0,
               flusher' = flusher \/ next["flusher"] = 0,
               flusher' = "idle" => flusher = "idle"
        PROVE  RaceInv'
    BY <1>3 DEF RaceInv
  <1>4. CASE ~raced /\ ~Aborted /\ Step
    <2>1. ASSUME NEW p \in Producers, Submit(p) PROVE RaceInv'
      <3>1. flusher = flusher' \/ (flusher = "idle" /\ flusher' = "drain")
        BY <2>1 DEF Submit, Exchange, Link, Notify, NotifyFatal, CallersInv
      <3>2. UNCHANGED <<next, head, worker, raced>>
        BY <2>1 DEF Submit, Exchange, Link, Notify, NotifyFatal
      <3> QED
        BY <1>3, <1>4, <3>1, <3>2 DEF RaceInv
    <2>2. CASE LoadWorker \/ LoadFlusher
      <3>1. /\ UNCHANGED <<head, worker, flusher, raced>>
            /\ \/ worker \in {"dequeue", "drain"} /\ next' = [next EXCEPT !["worker"] = head + 1]
               \/ flusher = "drain" /\ next' = [next EXCEPT !["flusher"] = head + 1]
        BY <2>2 DEF LoadWorker, LoadFlusher, Load
      <3> QED
        BY <1>4, <3>1 DEF RaceInv, TypeOK, Consumers
    <2>3. CASE Collect \/ FlushCollect
      <3>1. /\ UNCHANGED <<flusher, raced>>
            /\ \/ worker \in {"dequeue", "drain"} /\ next' = [next EXCEPT !["worker"] = 0]
               \/ /\ flusher = "drain" /\ worker' = worker
                  /\ next' = [next EXCEPT !["flusher"] = 0]
        BY <2>3 DEF Collect, FlushCollect, MoveHead
      <3> QED
        BY <1>4, <3>1 DEF RaceInv, TypeOK, Consumers
    <2>4. CASE DequeueNone \/ FinalWrite
      <3>1. next["worker"] = 0 /\ UNCHANGED <<next, head, flusher, raced>>
        BY <2>4 DEF DequeueNone, FinalWrite, Empty
      <3> QED
        BY <1>3, <1>4, <3>1
    <2>5. CASE StartWait \/ EndWait \/ \E due \in BOOLEAN : TestSync(due)
      <3>1. worker \in {"lock", "wait", "test"} /\ UNCHANGED <<next, head, flusher, raced>>
        BY <2>5 DEF StartWait, EndWait, TestSync
      <3>2. next["worker"] = 0
        BY <3>1 DEF RaceInv
      <3> QED
        BY <1>3, <1>4, <3>1, <3>2
    <2>6. CASE Stop \/ StopJoin
      BY <1>3, <1>4, <2>6 DEF Stop, StopJoin
    <2>7. CASE FlushBegin
      <3>1. flusher = "idle" /\ flusher' = "drain" /\ UNCHANGED <<next, head, worker, raced>>
        BY <2>7 DEF FlushBegin, CallersInv
      <3> QED
        BY <1>3, <1>4, <3>1 DEF RaceInv
    <2>8. CASE FlushWrite
      <3>1. next["flusher"] = 0 /\ flusher' = "done" /\ UNCHANGED <<next, head, worker, raced>>
        BY <2>8 DEF FlushWrite, Empty
      <3> QED
        BY <1>3, <1>4, <3>1
    <2> QED
      BY <1>2, <1>4, <2>1, <2>2, <2>3, <2>4, <2>5, <2>6, <2>7, <2>8
         DEF Step, Worker, Flusher, Consumers
  <1> QED
    BY <1>1, <1>4 DEF Next, Finished

(* No step drops a dequeued node, except a flush that finds the file closed. *)
LEMMA NothingDropped ==
    ASSUME TypeOK, PlacesInv, [Next]_vars, ~raced',
           1..head \subseteq ToSet(disk) \cup ToSet(buf) \cup ToSet(tmp)
    PROVE  \/ 1..head' \subseteq ToSet(disk') \cup ToSet(buf') \cup ToSet(tmp')
           \/ FlushWrite /\ stopper = "closed"
  <1>0. /\ disk \in Seq(DOMAIN nodes) /\ buf \in Seq(DOMAIN nodes)
        /\ tmp \in Seq(DOMAIN nodes)
    BY DEF TypeOK
  <1>1. CASE Collect
    <2>1. /\ buf' = Append(buf, head + 1) /\ disk' = disk /\ tmp' = tmp
          /\ head + 1 \in DOMAIN nodes
          /\ 1..head' = (1..head) \cup {head + 1} /\ head + 1 \notin 1..head
      BY <1>1, MovesToNext DEF Collect, Consumers
    <2>2. ToSet(buf') = ToSet(buf) \cup {head + 1}
      BY <1>0, <2>1, PushAbsent, SMTT(30) DEF PlacesInv
    <2> QED
      BY <2>1, <2>2
  <1>2. CASE FlushCollect
    <2>1. /\ tmp' = Append(tmp, head + 1) /\ disk' = disk /\ buf' = buf
          /\ head + 1 \in DOMAIN nodes
          /\ 1..head' = (1..head) \cup {head + 1} /\ head + 1 \notin 1..head
      BY <1>2, MovesToNext DEF FlushCollect, Consumers
    <2>2. ToSet(tmp') = ToSet(tmp) \cup {head + 1}
      BY <1>0, <2>1, PushAbsent, SMTT(30) DEF PlacesInv
    <2> QED
      BY <2>1, <2>2
  <1>3. CASE WriteBuffer /\ UNCHANGED <<head, tmp, flusher>>
    <2>1. ToSet(disk') = ToSet(disk) \cup ToSet(buf)
      BY <1>0, <1>3, WriteBehind, SMTT(30) DEF WriteBuffer
    <2> QED
      BY <1>3, <2>1
  <1>4. CASE FlushWrite /\ stopper # "closed"
    <2>1. disk' = disk \o tmp /\ buf' = buf /\ head' = head
      BY <1>4 DEF FlushWrite
    <2>2. ToSet(disk') = ToSet(disk) \cup ToSet(tmp)
      BY <1>0, <2>1, WriteBehind, SMTT(30)
    <2> QED
      BY <2>1, <2>2
  <1>5. CASE UNCHANGED <<head, disk, buf, tmp>>
    BY <1>5
  <1> QED
    BY <1>1, <1>2, <1>3, <1>4, <1>5, PlacesCases

(* Whoever finds no node after head_ has passed every line of before. *)
LEMMA EmptyPassed ==
    ASSUME TypeOK, KeptInv, NEW c \in Consumers, Empty(c)
    PROVE  before \subseteq 1..head
  <1> SUFFICES ASSUME NEW n \in before, n \notin 1..head PROVE FALSE
    OBVIOUS
  <1>1. n \in Nat \ {0} /\ head \in Nat
    BY LenProperties, SMTT(30) DEF TypeOK
  <1>2. head + 1 \in 1..n
    BY <1>1, SMTT(30)
  <1> QED
    BY <1>2 DEF KeptInv, Empty

(* The lines that stop() and a FATAL line's flush answer for are kept, and passed when
   the worker, or that flush, is done. *)
LEMMA KeptStep ==
    TypeOK /\ PlacesInv /\ CallersInv /\ KeptInv /\ [Next]_vars /\ ~raced' => KeptInv'
  <1> SUFFICES ASSUME TypeOK, PlacesInv, CallersInv, KeptInv, [Next]_vars, ~raced' PROVE KeptInv'
    OBVIOUS
  <1> DEFINE kept == 1..head \subseteq ToSet(disk) \cup ToSet(buf) \cup ToSet(tmp)
  <1>1. CASE UNCHANGED vars
    BY <1>1 DEF KeptInv, Aborted, vars
  <1>2. CASE ~Aborted /\ Step
    <2>1. kept' \/ (FlushWrite /\ stopper = "closed")
      BY <1>2, NothingDropped DEF KeptInv
    <2>2. head \in Nat /\ head' \in Nat /\ 1..head \subseteq 1..head'
      <3>1. head \in Nat
        BY LenProperties, SMTT(30) DEF TypeOK
      <3>2. head' = head \/ head' = head + 1
        BY <3>1, PlacesCases, MovesToNext
           DEF Collect, FlushCollect, FlushWrite, Consumers
      <3> QED
        BY <3>1, <3>2, SMTT(30)
    <2> HIDE DEF kept
    <2>3. ASSUME NEW p \in Producers, Exchange(p) \/ Link(p) \/ Notify(p) PROVE KeptInv'
      <3>1. ~FlushWrite /\ linked \subseteq linked' /\ UNCHANGED <<before, worker, flusher, flushes, stopper>>
        BY <2>3 DEF Exchange, Link, Notify, FlushWrite
      <3> QED
        BY <1>2, <2>1, <2>2, <3>1 DEF KeptInv, Aborted, kept
    <2>4. ASSUME NEW p \in Producers, NotifyFatal(p) PROVE KeptInv'
      <3>1. /\ ~FlushWrite /\ stopper' = "idle" /\ worker' # "done" /\ flusher' # "done"
            /\ \A n \in before' : 1..n \subseteq linked'
        BY <2>4 DEF NotifyFatal, FlushWrite, CallersInv
      <3> QED
        BY <2>1, <3>1 DEF KeptInv, Aborted, kept
    <2>5. CASE Stop
      <3>1. ~FlushWrite /\ worker' # "done" /\ UNCHANGED <<flusher, flushes, linked>>
        BY <2>5 DEF Stop, FlushWrite, CallersInv, queueVars
      <3>2. /\ \A n \in before' : 1..n \subseteq linked
            /\ flusher = "drain" => before' = {}
        BY <2>5 DEF Stop, Settled
      <3>3. flushes = "FATAL" => flusher = "drain"
        BY <1>2 DEF CallersInv, Aborted, TypeOK
      <3> QED
        BY <2>1, <3>1, <3>2, <3>3 DEF KeptInv, Aborted, kept
    <2>6. CASE FinalWrite
      <3>1. before \subseteq 1..head
        BY <2>6, EmptyPassed DEF FinalWrite, Consumers
      <3>2. ~FlushWrite /\ UNCHANGED <<before, linked, flusher, flushes, stopper>>
        BY <2>6 DEF FinalWrite, FlushWrite, queueVars
      <3> QED
        BY <1>2, <2>1, <2>2, <3>1, <3>2 DEF KeptInv, Aborted, kept
    <2>7. CASE FlushWrite
      <3>1. before \subseteq 1..head
        BY <2>7, EmptyPassed DEF FlushWrite, Consumers
      <3>2. UNCHANGED <<before, linked, worker, flushes, stopper>> /\ flusher' = "done"
        BY <2>7 DEF FlushWrite, queueVars
      <3>3. stopper = "closed" => flushes = "FATAL" /\ before = {}
        BY <2>7 DEF FlushWrite, CallersInv, KeptInv, TypeOK
      <3> QED
        BY <2>1, <2>2, <3>1, <3>2, <3>3 DEF KeptInv, Aborted, kept
    <2>8. ASSUME UNCHANGED <<before, linked, flushes>>, ~FlushWrite,
                 worker' = "done" => worker = "done",
                 flusher' = "done" => flusher = "done",
                 flushes = "FATAL" /\ stopper' # "idle" => stopper # "idle"
          PROVE  KeptInv'
      BY <1>2, <2>1, <2>2, <2>8 DEF KeptInv, Aborted, kept
    <2>9. CASE FlushBegin
      <3>1. /\ UNCHANGED <<before, linked, worker, stopper>> /\ ~FlushWrite
            /\ flushes' = "~Logger" /\ flusher' = "drain"
        BY <2>9 DEF FlushBegin, FlushWrite, queueVars
      <3> QED
        BY <2>1, <2>2, <3>1 DEF KeptInv, Aborted, kept
    <2>10. ASSUME NEW c \in Consumers, Load(c) PROVE KeptInv'
      BY <2>8, <2>10 DEF Load, FlushWrite, queueVars
    <2>11. CASE Collect \/ DequeueNone \/ StartWait \/ EndWait
      BY <2>8, <2>11 DEF Collect, DequeueNone, StartWait, EndWait, FlushWrite, queueVars
    <2>12. ASSUME NEW due \in BOOLEAN, TestSync(due) PROVE KeptInv'
      BY <2>8, <2>12 DEF TestSync, AfterTest, FlushWrite, queueVars
    <2>13. CASE StopJoin \/ FlushCollect
      BY <2>8, <2>13 DEF StopJoin, FlushCollect, FlushWrite, queueVars
    <2> QED
      BY <1>2, <2>3, <2>4, <2>5, <2>6, <2>7, <2>9, <2>10, <2>11, <2>12, <2>13
         DEF Step, Submit, Worker, Flusher, LoadWorker, LoadFlusher, DequeueAgain, Consumers
  <1> QED
    BY <1>1, <1>2 DEF Next, Finished
-----------------------------------------------------------------------------
(* Every reachable state of the sink satisfies SinkInv. *)
THEOREM SinkInvariant == Spec => []SinkInv
  <1>1. Init => SinkInv
    <2> SUFFICES ASSUME Init PROVE SinkInv
      OBVIOUS
    <2>1. /\ \A S : <<>> \in Seq(S)
          /\ Len(<<>>) = 0 /\ ToSet(<<>>) = {} /\ IsInjective(<<>>)
      BY EmptySeq, SMTT(30) DEF ToSet, IsInjective
    <2>2. TypeOK
      <3>1. next \in [Consumers -> 0..Len(nodes)] /\ head \in 0..Len(nodes)
        BY <2>1, SMTT(30) DEF Init
      <3>2. producer \in [Producers -> {"idle", "link", "notify", "fatal"}]
        BY DEF Init
      <3> QED
        BY <2>1, <3>1, <3>2 DEF Init, TypeOK
    <2>3. LinkedInv
      BY SMTT(30) DEF Init, LinkedInv, NodesOf
    <2>4. PlacesInv
      BY <2>1 DEF Init, PlacesInv
    <2>5. OrderInv
      BY <2>1, SMTT(30) DEF Init, OrderInv
    <2>6. CallersInv
      BY DEF Init, CallersInv
    <2>7. KeptInv
      BY <2>1, SMTT(30) DEF Init, KeptInv
    <2>8. RaceInv
      BY DEF Init, RaceInv, Consumers
    <2> QED
      BY <2>2, <2>3, <2>4, <2>5, <2>6, <2>7, <2>8 DEF SinkInv
  <1>2. SinkInv /\ [Next]_vars => SinkInv'
    <2> SUFFICES ASSUME SinkInv, [Next]_vars PROVE SinkInv'
      OBVIOUS
    <2>1. TypeOK' /\ LinkedInv' /\ CallersInv' /\ RaceInv'
      BY TypeStep, LinkedStep, CallersStep, RaceStep DEF SinkInv
    <2>2. ASSUME ~raced' PROVE PlacesInv' /\ OrderInv' /\ KeptInv'
      <3>1. ~raced
        BY <2>2 DEF Next, Finished, vars
      <3> QED
        BY <2>2, <3>1, PlacesStep, OrderStep, KeptStep DEF SinkInv
    <2> QED
      BY <2>1, <2>2 DEF SinkInv
  <1> QED
    BY <1>1, <1>2, PTL DEF Spec

(* LinesInOrder for any number of producers and lines: until a flush begins, run() has
   written or holds exactly the nodes it dequeued, in the order of the exchanges. *)
THEOREM LinesStayInOrder == Spec => []LinesInOrder
  <1>1. SinkInv => LinesInOrder
    <2> SUFFICES ASSUME SinkInv, flusher = "idle" PROVE disk \o buf = [n \in 1..head |-> n]
      BY DEF SinkInv, LinesInOrder
    <2> DEFINE r == disk \o buf
    <2>1. /\ disk \in Seq(DOMAIN nodes) /\ buf \in Seq(DOMAIN nodes)
          /\ Len(disk) \in Nat /\ Len(buf) \in Nat
      BY LenProperties DEF SinkInv, TypeOK
    <2>2. /\ r \in Seq(DOMAIN nodes) /\ Len(r) = Len(disk) + Len(buf)
          /\ \A i \in 1..Len(disk) + Len(buf) :
                r[i] = IF i <= Len(disk) THEN disk[i] ELSE buf[i - Len(disk)]
      BY <2>1, ConcatProperties
    <2>3. r \in [1..Len(r) -> DOMAIN nodes]
      BY <2>2, LenProperties
    <2> HIDE DEF r
    <2>4. /\ Len(disk) + Len(buf) = head
          /\ \A n \in 1..Len(disk) : disk[n] = n
          /\ \A n \in 1..Len(buf) : buf[n] = Len(disk) + n
      BY DEF SinkInv, RaceInv, OrderInv
    <2>5. ASSUME NEW i \in 1..head PROVE r[i] = i
      <3>1. CASE i <= Len(disk)
        BY <2>1, <2>2, <2>4, <3>1, SMTT(30)
      <3>2. CASE ~(i <= Len(disk))
        <4>1. i - Len(disk) \in 1..Len(buf) /\ Len(disk) + (i - Len(disk)) = i
          BY <2>1, <2>4, <3>2, SMTT(30)
        <4>2. r[i] = buf[i - Len(disk)]
          BY <2>2, <2>4, <3>2
        <4> QED
          BY <2>4, <4>1, <4>2
      <3> QED
        BY <3>1, <3>2
    <2>6. r = [n \in 1..head |-> n]
      BY <2>2, <2>3, <2>4, <2>5
    <2> QED
      BY <2>6 DEF r
  <1> QED
    BY <1>1, SinkInvariant, PTL

(* WrittenOnce for any number of producers and lines: as long as a flush and the worker
   have not met in dequeue, no line is in the file, the buffer and the flusher's deque
   more than once in all. *)
THEOREM LinesWrittenOnce == Spec => []WrittenOnce
  <1>1. SinkInv => WrittenOnce
    <2>0. CASE raced
      BY <2>0 DEF SinkInv, RaceInv, WrittenOnce
    <2> SUFFICES ASSUME SinkInv, ~raced PROVE WrittenOnce
      BY <2>0
    <2>1. /\ disk \in Seq(DOMAIN nodes) /\ buf \in Seq(DOMAIN nodes)
          /\ tmp \in Seq(DOMAIN nodes)
          /\ IsInjective(disk) /\ IsInjective(buf) /\ IsInjective(tmp)
          /\ ToSet(disk) \cap ToSet(buf) = {}
          /\ (ToSet(disk) \cup ToSet(buf)) \cap ToSet(tmp) = {}
      BY DEF SinkInv, TypeOK, PlacesInv
    <2>2. /\ disk \o buf \in Seq(DOMAIN nodes) /\ IsInjective(disk \o buf)
          /\ ToSet(disk \o buf) = ToSet(disk) \cup ToSet(buf)
      BY <2>1, WriteBehind, SMTT(30)
    <2>3. IsInjective((disk \o buf) \o tmp)
      BY <2>1, <2>2, WriteBehind
    <2> QED
      BY <2>3 DEF WrittenOnce
  <1> QED
    BY <1>1, SinkInvariant, PTL

(* StopWritesAll for any number of producers and lines: stop() leaves in the file every
   line it answers for, and the flush of a FATAL line every one the worker does not hold. *)
THEOREM StopLeavesNothing == Spec => []StopWritesAll
  <1>1. SinkInv => StopWritesAll
    <2> SUFFICES ASSUME SinkInv PROVE StopWritesAll
      OBVIOUS
    <2>1. ToSet(<<>>) = {}
      BY SMTT(30) DEF ToSet
    <2>2. ASSUME stopper = "closed", flushes # "FATAL" PROVE before \subseteq ToSet(disk)
      <3>1. worker = "done" /\ buf = <<>> /\ tmp = <<>>
        BY <2>2 DEF SinkInv, CallersInv, TypeOK
      <3>2. before \subseteq 1..head /\ 1..head \subseteq ToSet(disk) \cup ToSet(buf) \cup ToSet(tmp)
        BY <2>2, <3>1 DEF SinkInv, RaceInv, KeptInv, Aborted
      <3> QED
        BY <2>1, <3>1, <3>2
    <2>3. ASSUME Aborted PROVE before \subseteq ToSet(disk \o buf)
      <3>1. tmp = <<>>
        BY <2>3 DEF SinkInv, CallersInv, Aborted
      <3>2. ToSet(disk \o buf) = ToSet(disk) \cup ToSet(buf)
        BY WriteBehind, SMTT(30) DEF SinkInv, TypeOK
      <3> QED
        BY <2>1, <2>3, <3>1, <3>2 DEF SinkInv, RaceInv, KeptInv
    <2> QED
      BY <2>2, <2>3 DEF StopWritesAll
  <1> QED
    BY <1>1, SinkInvariant, PTL
=============================================================================
