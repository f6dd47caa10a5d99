--------------------------- MODULE AsyncFileSink ----------------------------
(***************************************************************************)
(* logger/AsyncFileSink.cpp over logger/MPSCQueue.h: producers submit      *)
(* lines to a lock-free linked queue, one worker collects them in a local  *)
(* buffer and writes it now and then, stop() ends the worker, and          *)
(* flush_all_now() drains the queue from the caller's thread.  The callers *)
(* are those of logger/Logger.cpp: log(), whose FATAL lines flush and      *)
(* abort, ~Logger, which flushes and stops, and setOutputToFile and        *)
(* setOutputToFileAsync, which only stop the sink they replace.            *)
(*                                                                         *)
(* enqueue publishes a node in two steps, the exchange of tail_ and the    *)
(* store of the predecessor's next: nodes are numbered by their exchange,  *)
(* and node n is reachable once it is in linked.  A file write takes the   *)
(* whole buffer (the code ignores short writes).                           *)
(***************************************************************************)
EXTENDS Naturals, Sequences, SequencesExt

CONSTANTS
    Producers,  \* threads that log
    MaxLines    \* bound on the lines they log

ASSUME SinkAssumption == MaxLines \in Nat

Consumers == {"worker", "flusher"}

VARIABLES
    nodes,      \* the lines, in the order of tail_.exchange
    linked,     \* the nodes whose predecessor's next points to them
    head,       \* head_: the last node dequeued, 0 for the stub
    producer,   \* where each producer is in submit()
    returned,   \* history: nodes whose submit() has returned
    next,       \* next, loaded by each consumer inside dequeue; 0 outside
    running,    \* running_
    notified,   \* notify_one came while the worker was waiting
    worker,     \* where run() is
    buf,        \* run()'s local buffer: node numbers
    disk,       \* the file: node numbers
    stopper,    \* where stop() is
    flusher,    \* where flush_all_now() is
    tmp,        \* its local deque
    raced,      \* history: a consumer has gone on with a node the other had taken
    before,     \* history: lines stop(), or the flush of a FATAL line, answers for: see Settled
    flushes     \* who calls flush_all_now(): nobody yet, log(FATAL), ~Logger

queueVars == <<nodes, linked, producer, returned>>
vars == <<nodes, linked, head, producer, returned, next, running, notified, worker, buf,
          disk, stopper, flusher, tmp, raced, before, flushes>>

TypeOK ==
    /\ nodes \in Seq(Producers)
    /\ linked \subseteq DOMAIN nodes
    /\ head \in 0..Len(nodes)
    /\ producer \in [Producers -> {"idle", "link", "notify", "fatal"}]
    /\ returned \subseteq linked
    /\ next \in [Consumers -> 0..Len(nodes)]
    /\ running \in BOOLEAN /\ notified \in BOOLEAN
    /\ worker \in {"dequeue", "lock", "wait", "test", "drain", "done"}
    /\ buf \in Seq(DOMAIN nodes)
    /\ disk \in Seq(DOMAIN nodes)
    /\ stopper \in {"idle", "join", "closed"}
    /\ flusher \in {"idle", "drain", "done"}
    /\ tmp \in Seq(DOMAIN nodes)
    /\ raced \in BOOLEAN
    /\ before \subseteq DOMAIN nodes
    /\ flushes \in {"nobody", "FATAL", "~Logger"}

Init ==
    /\ nodes = <<>>
    /\ linked = {}
    /\ head = 0
    /\ producer = [p \in Producers |-> "idle"]
    /\ returned = {}
    /\ next = [c \in Consumers |-> 0]
    /\ running = TRUE
    /\ notified = FALSE
    /\ worker = "dequeue"
    /\ buf = <<>>
    /\ disk = <<>>
    /\ stopper = "idle"
    /\ flusher = "idle"
    /\ tmp = <<>>
    /\ raced = FALSE
    /\ before = {}
    /\ flushes = "nobody"
-----------------------------------------------------------------------------
(* submit(): the exchange of tail_, the link, the notification. *)

NodesOf(p) == {n \in DOMAIN nodes : nodes[n] = p}

Exchange(p) ==
    /\ producer[p] = "idle"
    /\ Len(nodes) < MaxLines
    /\ nodes' = Append(nodes, p)
    /\ producer' = [producer EXCEPT ![p] = "link"]
    /\ UNCHANGED <<linked, head, returned, next, running, notified, worker, buf, disk,
                   stopper, flusher, tmp, raced, before, flushes>>

Link_Skipped(p) ==
    /\ producer[p] = "link"
    /\ producer' = [producer EXCEPT ![p] = "notify"]
    /\ UNCHANGED <<nodes, linked, head, returned, next, running, notified, worker, buf, disk,
                   stopper, flusher, tmp, raced, before, flushes>>

Link(p) ==
    /\ producer[p] = "link"
    /\ linked' = linked \cup NodesOf(p)
    /\ producer' = [producer EXCEPT ![p] = "notify"]
    /\ UNCHANGED <<nodes, head, returned, next, running, notified, worker, buf, disk,
                   stopper, flusher, tmp, raced, before, flushes>>

Notify(p) ==
    /\ producer[p] = "notify"
    /\ producer' = [producer EXCEPT ![p] = "idle"]
    /\ returned' = returned \cup NodesOf(p)
    /\ notified' = (notified \/ worker = "wait")
    /\ UNCHANGED <<nodes, linked, head, next, running, worker, buf, disk, stopper,
                   flusher, tmp, raced, before, flushes>>

(* The line is FATAL: submit() returns and flush_all_now() begins.  The thread that
   logged it never comes back: abort() follows. *)
NotifyFatal(p) ==
    /\ producer[p] = "notify"
    /\ flushes = "nobody" /\ stopper = "idle"
    /\ producer' = [producer EXCEPT ![p] = "fatal"]
    /\ returned' = returned \cup NodesOf(p)
    /\ notified' = (notified \/ worker = "wait")
    /\ flushes' = "FATAL" /\ flusher' = "drain"
    /\ before' = {n \in returned' : 1..n \subseteq linked}
    /\ UNCHANGED <<nodes, linked, head, next, running, worker, buf, disk, stopper, tmp, raced>>
-----------------------------------------------------------------------------
(* dequeue by consumer c: the load of head_->next, then the move of its value, the
   delete of head_ and the step to next. *)

Load(c) ==
    /\ next[c] = 0
    /\ head + 1 \in linked
    /\ next' = [next EXCEPT ![c] = head + 1]
    /\ UNCHANGED <<queueVars, head, running, notified, worker, buf, disk, stopper, flusher,
                   tmp, raced, before, flushes>>

MoveHead_Stays(c) ==
    /\ next[c] = head + 1
    /\ next' = [next EXCEPT ![c] = 0]
    /\ UNCHANGED head

MoveHead(c) ==
    /\ next[c] = head + 1
    /\ head' = next[c]
    /\ next' = [next EXCEPT ![c] = 0]

(* The other consumer has moved head_ since the load: the value is moved out of its
   node again, as the line or as what the first move left of it, and a freed node is
   freed or followed.  That is undefined behaviour, followed no further than this. *)
DequeueAgain(c) ==
    /\ next[c] \notin {0, head + 1}
    /\ raced' = TRUE
    /\ \/ c = "worker" /\ buf' = Append(buf, next[c]) /\ UNCHANGED tmp
       \/ c = "flusher" /\ tmp' = Append(tmp, next[c]) /\ UNCHANGED buf
       \/ UNCHANGED <<buf, tmp>>
    /\ UNCHANGED <<queueVars, head, next, running, notified, worker, disk, stopper,
                   flusher, before, flushes>>

Empty(c) == next[c] = 0 /\ head + 1 \notin linked
-----------------------------------------------------------------------------
(* run() *)

LoadWorker == worker \in {"dequeue", "drain"} /\ Load("worker")

Collect ==
    /\ worker \in {"dequeue", "drain"}
    /\ MoveHead("worker")
    /\ buf' = Append(buf, next["worker"])
    /\ worker' = IF worker = "dequeue" THEN "test" ELSE "drain"
    /\ UNCHANGED <<queueVars, running, notified, disk, stopper, flusher, tmp, raced, before, flushes>>

(* Nothing to dequeue: lock cv_mtx_, then wait for a notification or for next_sync.  A
   notification that comes before the wait is lost. *)
DequeueNone ==
    /\ worker = "dequeue"
    /\ Empty("worker")
    /\ worker' = "lock"
    /\ UNCHANGED <<queueVars, head, next, running, notified, buf, disk, stopper, flusher,
                   tmp, raced, before, flushes>>

StartWait ==
    /\ worker = "lock"
    /\ worker' = "wait"
    /\ notified' = FALSE
    /\ UNCHANGED <<queueVars, head, next, running, buf, disk, stopper, flusher, tmp, raced, before, flushes>>

EndWait ==
    /\ worker = "wait"
    /\ worker' = "test"
    /\ UNCHANGED <<queueVars, head, next, running, notified, buf, disk, stopper, flusher,
                   tmp, raced, before, flushes>>

WriteBuffer == disk' = disk \o buf /\ buf' = <<>>

AfterTest_DropBuffer == IF running THEN "dequeue" ELSE "done"

(* The while test: on, or out to the last drain. *)
AfterTest == IF running THEN "dequeue" ELSE "drain"

(* The thresholds (bytes or time) are reached, or not yet. *)
TestSync(due) ==
    /\ worker = "test"
    /\ worker' = AfterTest
    /\ \/ due /\ WriteBuffer
       \/ ~due /\ UNCHANGED <<disk, buf>>
    /\ UNCHANGED <<queueVars, head, next, running, notified, stopper, flusher, tmp, raced, before, flushes>>

(* The last drain found the queue empty: write and sync. *)
FinalWrite ==
    /\ worker = "drain"
    /\ Empty("worker")
    /\ worker' = "done"
    /\ WriteBuffer
    /\ UNCHANGED <<queueVars, head, next, running, notified, stopper, flusher, tmp, raced, before, flushes>>
-----------------------------------------------------------------------------
(* The lines stop() answers for: submitted, with no enqueue before them still to
   link its node, and no flush of a FATAL line taking lines from the queue. *)
Settled == {n \in returned : 1..n \subseteq linked /\ flusher # "drain"}

(* By ~Logger after its flush, or by setOutputToFile and setOutputToFileAsync, which
   do not flush. *)
Stop ==
    /\ stopper = "idle"
    /\ flushes = "~Logger" => flusher = "done"
    /\ stopper' = "join"
    /\ running' = FALSE
    /\ notified' = (notified \/ worker = "wait")
    /\ before' = Settled
    /\ UNCHANGED <<queueVars, head, next, worker, buf, disk, flusher, tmp, raced, flushes>>

StopJoin ==
    /\ stopper = "join"
    /\ worker = "done"
    /\ stopper' = "closed"
    /\ UNCHANGED <<queueVars, head, next, running, notified, worker, buf, disk, flusher,
                   tmp, raced, before, flushes>>

(* flush_all_now(): ~Logger calls it here, log(FATAL) in NotifyFatal. *)
FlushBegin ==
    /\ flushes = "nobody" /\ stopper = "idle"
    /\ flushes' = "~Logger" /\ flusher' = "drain"
    /\ UNCHANGED <<queueVars, head, next, running, notified, worker, buf, disk, stopper, tmp, raced,
                   before>>

LoadFlusher == flusher = "drain" /\ Load("flusher")

FlushCollect ==
    /\ flusher = "drain"
    /\ MoveHead("flusher")
    /\ tmp' = Append(tmp, next["flusher"])
    /\ UNCHANGED <<queueVars, running, notified, worker, buf, disk, stopper, flusher, raced, before, flushes>>

FlushWrite ==
    /\ flusher = "drain"
    /\ Empty("flusher")
    /\ flusher' = "done"
    /\ disk' = IF stopper = "closed" THEN disk ELSE disk \o tmp
    /\ tmp' = <<>>
    /\ UNCHANGED <<queueVars, head, next, running, notified, worker, buf, stopper, raced, before, flushes>>

Worker ==
    \/ LoadWorker \/ Collect \/ DequeueNone \/ StartWait
    \/ notified /\ EndWait
    \/ TestSync(TRUE)
    \/ FinalWrite
    \/ DequeueAgain("worker")

Flusher == LoadFlusher \/ FlushCollect \/ FlushWrite \/ DequeueAgain("flusher")

Submit(p) == Exchange(p) \/ Link(p) \/ Notify(p) \/ NotifyFatal(p)

(* abort(), after the flush of a FATAL line. *)
Aborted == flushes = "FATAL" /\ flusher = "done"

Finished == (stopper = "closed" \/ raced \/ Aborted) /\ UNCHANGED vars

Step ==
    \/ \E p \in Producers : Submit(p)
    \/ Worker \/ EndWait \/ TestSync(FALSE)
    \/ Stop \/ StopJoin
    \/ FlushBegin \/ Flusher

Next == (~raced /\ ~Aborted /\ Step) \/ Finished

(* Threads are scheduled, the timed wait returns, and the clock passes next_sync
   again and again. *)
Fairness ==
    /\ \A p \in Producers : WF_vars(Link(p) \/ Notify(p) \/ NotifyFatal(p))
    /\ WF_vars(Worker) /\ WF_vars(EndWait) /\ SF_vars(TestSync(TRUE))
    /\ WF_vars(StopJoin) /\ WF_vars(Flusher)

Spec == Init /\ [][Next]_vars /\ Fairness
-----------------------------------------------------------------------------
(* The types, and: while the worker is the only consumer, the file and the buffer are exactly the
   nodes dequeued, in the order of the exchanges: no line lost, repeated or
   reordered, through the gap between exchange and link. *)
LinesInOrder ==
    /\ TypeOK
    /\ flusher = "idle" => disk \o buf = [n \in 1..head |-> n]

(* No line is taken from the queue twice, by run() and flush_all_now() together,
   unless the two meet in dequeue: MPSCAtomicQueue is for one consumer, and a flush
   that drains beside the worker is the only way to have two. *)
WrittenOnce ==
    \/ IsInjective(disk \o buf \o tmp)
    \/ raced /\ flusher # "idle"

(* A line whose submit() has returned reaches the file, unless the sink is stopped
   and its worker gone, the process aborts, or two consumers have met. *)
LinesReachDisk ==
    \A n \in 1..MaxLines :
        (n \in returned) ~> (n \in ToSet(disk) \/ worker = "done" \/ Aborted \/ raced)

(* stop() ends the thread and makes sure the remaining lines are written
   (AsyncFileSink.h:26), those of Settled: a line behind a node whose enqueue is
   between its exchange and its link may be left behind.  When log() aborts after a
   FATAL line, that line and those submitted before it are in the file, except the
   ones the worker had dequeued: flush_all_now() does not see its buffer. *)
StopWritesAll ==
    /\ stopper = "closed" /\ flushes # "FATAL" => before \subseteq ToSet(disk)
    /\ Aborted => before \subseteq ToSet(disk \o buf)
=============================================================================
