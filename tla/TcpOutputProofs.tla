--------------------------- MODULE TcpOutputProofs --------------------------
(***************************************************************************)
(* Proofs about TcpOutput, and about the Buffer it writes from, for any    *)
(* connections, requests, request length and buffer sizes.                 *)
(***************************************************************************)
EXTENDS TcpOutput, SequenceTheorems, TLAPS

(* A buffer as a record, whatever its indices. *)
Buffers(S) == [store : Seq(S \cup {Blank}), reader : Nat, writer : Nat]

(* The types of a connection's output side and of the functors of its loop. *)
States == {"kConnected", "kDisconnecting", "kDisconnected"}
Outputs == [state : States, writing : BOOLEAN, buffer : Buffers(Byte), shut : BOOLEAN,
            closed : BOOLEAN]

Functors == [kind : Kinds \cup {"shutdown"}, conn : Conns, bytes : Seq(Byte)]

(* One connection: between the indices of its buffer are bytes of requests; only
   handleClose makes it kDisconnected, and kConnected it is never again. *)
Good(o) ==
    /\ o \in Outputs /\ IsBuffer(o.buffer, Byte) /\ Contents(o.buffer) \in Seq(Byte)
    /\ o.state = "kDisconnected" => o.closed
    /\ o.closed => o.state # "kConnected"

(* The types. *)
ShapeInv ==
    /\ out \in [Conns -> Outputs] /\ \A c \in Conns : Good(out[c])
    /\ wire \in [Conns -> Seq(Byte)] /\ requested \in [Conns -> Seq(Byte)]
    /\ pendingFile \in Seq(Byte)
    /\ queue \in Seq(Functors)
    /\ closing \subseteq Conns
    /\ items \in 0..MaxItems

(* The requests bytes of which are in s. *)
Asked(s) == {s[k][2] : k \in DOMAIN s}

(* Nothing asked for before is in s. *)
Fresh(s) ==
    /\ \A c \in Conns : Asked(s) \cap Asked(requested[c]) = {}
    /\ Asked(s) \cap Asked(pendingFile) = {}

(* A number is given once: the bytes of a posted request are nowhere else. *)
FreshInv ==
    /\ \A c \in Conns : Asked(requested[c]) \subseteq 1..items
    /\ Asked(pendingFile) \subseteq 1..items
    /\ \A i \in DOMAIN queue :
        /\ Asked(queue[i].bytes) \subseteq 1..items
        /\ queue[i].kind # "shutdown" =>
               \E n \in 1..items : queue[i].bytes = Bytes(queue[i].kind, n)
        /\ Fresh(queue[i].bytes)
        /\ \A j \in DOMAIN queue : j # i => Asked(queue[i].bytes) \cap Asked(queue[j].bytes) = {}

(* What outputBuffer_ holds. *)
Waiting(c) == Contents(out[c].buffer)

(* Until handleClose has run, a connection without the write interest has nothing
   buffered and no file of its own waiting, and a half-close is made only then, by a
   connection that takes no more requests. *)
DrainInv ==
    /\ \A c \in Conns : ~out[c].closed /\ ~out[c].writing =>
        /\ Waiting(c) = <<>>
        /\ Asked(pendingFile) \cap Asked(requested[c]) = {}
    /\ \A c \in Conns : out[c].shut /\ ~out[c].closed =>
        out[c].state = "kDisconnecting" /\ ~out[c].writing
    /\ \A i \in DOMAIN queue : queue[i].kind = "shutdown" => out[queue[i].conn].state # "kConnected"

(* Until somebody asks for a file, nothing waits in pendingFile_. *)
NoFile == \A c \in Conns : \A k \in DOMAIN requested[c] : IsData(requested[c][k])

(* While no file is asked for, what the kernel took and what waits are what was asked for. *)
StreamInv ==
    NoFile => /\ pendingFile = <<>>
              /\ \A c \in Conns : wire[c] \o Waiting(c) = requested[c]

(* Nothing has been written to, or waits for, a connection of which nothing was asked. *)
IdleInv ==
    /\ \A c \in Conns : requested[c] = <<>> =>
        wire[c] = <<>> /\ ~out[c].writing /\ Waiting(c) = <<>>
    /\ (\A c \in Conns : requested[c] = <<>>) => pendingFile = <<>>

(* Everything was asked of c: first a file, then data. *)
FileFirst(c) ==
    /\ requested[c] # <<>> /\ ~IsData(requested[c][1])
    /\ \A d \in Conns \ {c} : requested[d] = <<>>
    /\ \A k \in (ItemLen + 1)..Len(requested[c]) : IsData(requested[c][k])

(* Of the file that came first, done is on the wire; left waits in pendingFile_ with
   what was sent after it behind it, or was written or given up, and then what was
   sent after it follows. *)
Place(c) ==
    \E done, left, more \in Seq(Byte) :
        /\ requested[c] = (done \o left) \o more /\ Len(done \o left) = ItemLen
        /\ \/ pendingFile # <<>> /\ pendingFile = left /\ wire[c] = done /\ Waiting(c) = more
           \/ /\ pendingFile = <<>>
              /\ \E w \in Seq(Byte) : wire[c] = done \o w /\ more = w \o Waiting(c)

(* FileKeepsPlace's conclusion. *)
InPlace(wired, asked) ==
    LET after == RestBytes(asked, ItemLen) IN
    \E j \in 0..ItemLen, n \in 0..Len(after) :
        wired = FirstBytes(asked, j) \o FirstBytes(after, n)

(* A file that came first is in its place. *)
PlaceInv ==
    \A c \in Conns : FileFirst(c) => Place(c) /\ InPlace(wire[c], requested[c])
-----------------------------------------------------------------------------
(* Zenon proves each leaf that names no other prover. *)
USE ZenonT(30)

(* A function on 1..n is a sequence of length n. *)
LEMMA FunctionIsSeq ==
    ASSUME NEW S, NEW n \in Nat, NEW f \in [1..n -> S]
    PROVE  f \in Seq(S) /\ Len(f) = n
  <1>1. f \in Seq(S)
    BY SeqDef
  <1>2. Len(f) \in Nat /\ DOMAIN f = 1..Len(f) /\ DOMAIN f = 1..n
    BY <1>1, LenProperties
  <1>3. Len(f) = n
    BY <1>2, SMTT(30)
  <1> QED
    BY <1>1, <1>3

(* The part of a sequence after m and up to n. *)
LEMMA Slice ==
    ASSUME NEW S, NEW s \in Seq(S), NEW m \in Nat, NEW n \in Nat, m <= n, n <= Len(s)
    PROVE  /\ SubSeq(s, m + 1, n) \in Seq(S)
           /\ Len(SubSeq(s, m + 1, n)) = n - m
           /\ \A i \in 1..(n - m) : SubSeq(s, m + 1, n)[i] = s[m + i]
  <1>1. \A i \in (m + 1)..n : s[i] \in S
    <2> SUFFICES ASSUME NEW i \in (m + 1)..n PROVE s[i] \in S
      OBVIOUS
    <2>1. Len(s) \in Nat
      BY LenProperties
    <2>2. i \in 1..Len(s)
      BY <2>1, SMTT(30)
    <2> QED
      BY <2>2, ElementOfSeq
  <1>2. m + 1 \in Int /\ n \in Int
    BY SMTT(30)
  <1>3. /\ SubSeq(s, m + 1, n) \in Seq(S)
        /\ Len(SubSeq(s, m + 1, n)) = IF m + 1 <= n THEN n - (m + 1) + 1 ELSE 0
        /\ \A i \in 1..(n - (m + 1) + 1) : SubSeq(s, m + 1, n)[i] = s[(m + 1) + i - 1]
    BY <1>1, <1>2, SubSeqProperties, SMTT(30)
  <1>4. /\ n - (m + 1) + 1 = n - m
        /\ \A i \in 1..(n - m) : (m + 1) + i - 1 = m + i
        /\ ~(m + 1 <= n) => n - m = 0
    BY SMTT(30)
  <1> QED
    BY <1>3, <1>4
-----------------------------------------------------------------------------
(* std::copy into the vector: its length stays, and the bytes copied are where they
   were put. *)
LEMMA CopiedIs ==
    ASSUME NEW S, NEW store \in Seq(S), NEW data \in Seq(S), NEW at \in Nat,
           at + Len(data) <= Len(store)
    PROVE  /\ Copied(store, at, data) \in Seq(S)
           /\ Len(Copied(store, at, data)) = Len(store)
           /\ \A i \in 1..at : Copied(store, at, data)[i] = store[i]
           /\ \A i \in 1..Len(data) : Copied(store, at, data)[at + i] = data[i]
  <1>1. /\ Len(store) \in Nat /\ DOMAIN store = 1..Len(store)
        /\ Len(data) \in Nat /\ DOMAIN data = 1..Len(data)
    BY LenProperties
  <1>2. ASSUME NEW i \in 1..Len(store)
        PROVE  (IF i \in (at + 1)..(at + Len(data)) THEN data[i - at] ELSE store[i]) \in S
    <2>1. CASE i \in (at + 1)..(at + Len(data))
      <3>1. i - at \in 1..Len(data)
        BY <1>1, <2>1, SMTT(30)
      <3> QED
        BY <2>1, <3>1, ElementOfSeq
    <2>2. CASE i \notin (at + 1)..(at + Len(data))
      BY <2>2, ElementOfSeq
    <2> QED
      BY <2>1, <2>2
  <1>3. /\ Copied(store, at, data) \in [1..Len(store) -> S]
        /\ \A i \in 1..Len(store) :
             Copied(store, at, data)[i] = IF i \in (at + 1)..(at + Len(data)) THEN data[i - at] ELSE store[i]
    BY <1>1, <1>2 DEF Copied
  <1>4. ASSUME NEW i \in 1..at PROVE Copied(store, at, data)[i] = store[i]
    <2>1. i \in 1..Len(store) /\ i \notin (at + 1)..(at + Len(data))
      BY <1>1, <1>4, SMTT(30)
    <2> QED
      BY <1>3, <2>1
  <1>5. ASSUME NEW i \in 1..Len(data) PROVE Copied(store, at, data)[at + i] = data[i]
    <2>1. /\ at + i \in 1..Len(store) /\ at + i \in (at + 1)..(at + Len(data))
          /\ at + i - at = i
      BY <1>1, <1>5, SMTT(30)
    <2> QED
      BY <1>3, <2>1, SMTT(30)
  <1>6. Copied(store, at, data) \in Seq(S) /\ Len(Copied(store, at, data)) = Len(store)
    BY <1>1, <1>3, FunctionIsSeq
  <1> QED
    BY <1>4, <1>5, <1>6

(* n bytes nothing was written to. *)
LEMMA BlanksAre ==
    ASSUME NEW S, NEW n \in Nat
    PROVE  Blanks(n) \in Seq(S \cup {Blank}) /\ Len(Blanks(n)) = n
  <1>1. Blanks(n) \in [1..n -> S \cup {Blank}]
    BY DEF Blanks
  <1> QED
    BY <1>1, FunctionIsSeq
-----------------------------------------------------------------------------
(* What is between the indices of a buffer. *)
LEMMA ContentsAre ==
    ASSUME NEW S, NEW b \in Buffers(S), IsBuffer(b, S)
    PROVE  /\ readableBytes(b) \in Nat
           /\ Contents(b) \in Seq(S \cup {Blank})
           /\ Len(Contents(b)) = readableBytes(b)
           /\ \A i \in 1..readableBytes(b) : Contents(b)[i] = b.store[b.reader + i]
  <1>1. /\ b.store \in Seq(S \cup {Blank}) /\ b.reader \in Nat /\ b.writer \in Nat
        /\ Len(b.store) \in Nat
    BY LenProperties DEF Buffers
  <1>2. b.reader <= b.writer /\ b.writer <= Len(b.store)
    BY <1>1, BufferAssumption, SMTT(30) DEF IsBuffer
  <1>3. b.writer - b.reader \in Nat
    BY <1>1, <1>2, SMTT(30)
  <1> QED
    <2>1. /\ SubSeq(b.store, b.reader + 1, b.writer) \in Seq(S \cup {Blank})
          /\ Len(SubSeq(b.store, b.reader + 1, b.writer)) = b.writer - b.reader
          /\ \A i \in 1..(b.writer - b.reader) :
                SubSeq(b.store, b.reader + 1, b.writer)[i] = b.store[b.reader + i]
      BY <1>1, <1>2, Slice, SMTT(30)
    <2> QED
      BY <1>3, <2>1 DEF Contents, readableBytes

(* The indices of a buffer. *)
LEMMA Indices ==
    ASSUME NEW S, NEW b \in Buffers(S)
    PROVE  /\ kCheapPrepend \in Nat /\ b.store \in Seq(S \cup {Blank}) /\ Len(b.store) \in Nat
           /\ b.reader \in Nat /\ b.writer \in Nat
           /\ IsBuffer(b, S) <=>
                kCheapPrepend <= b.reader /\ b.reader <= b.writer /\ b.writer <= Len(b.store)
  <1>1. /\ b.store \in Seq(S \cup {Blank}) /\ b.reader \in Nat /\ b.writer \in Nat
        /\ Len(b.store) \in Nat /\ kCheapPrepend \in Nat
    BY LenProperties, BufferAssumption DEF Buffers
  <1> QED
    BY <1>1, SMTT(30) DEF IsBuffer

(* retrieve takes the first k bytes and keeps the others in place. *)
LEMMA Retrieved ==
    ASSUME NEW S, NEW b \in Buffers(S), IsBuffer(b, S), NEW k \in 1..readableBytes(b)
    PROVE  /\ retrieve(b, k) \in Buffers(S) /\ IsBuffer(retrieve(b, k), S)
           /\ Contents(retrieve(b, k)) = RestBytes(Contents(b), k)
  <1> DEFINE r == retrieve(b, k)
             C == Contents(b)
             T == S \cup {Blank}
  <1>1. /\ kCheapPrepend \in Nat /\ b.store \in Seq(T) /\ Len(b.store) \in Nat
        /\ b.reader \in Nat /\ b.writer \in Nat
        /\ kCheapPrepend <= b.reader /\ b.reader <= b.writer /\ b.writer <= Len(b.store)
    BY Indices
  <1>2. /\ C \in Seq(T) /\ Len(C) = b.writer - b.reader
        /\ \A i \in 1..(b.writer - b.reader) : C[i] = b.store[b.reader + i]
    BY ContentsAre DEF readableBytes
  <1>3. k \in Nat /\ k <= Len(C) /\ Len(C) \in Nat
    BY <1>1, <1>2, SMTT(30) DEF readableBytes
  <1>4. /\ RestBytes(C, k) \in Seq(T) /\ Len(RestBytes(C, k)) = Len(C) - k
        /\ \A i \in 1..(Len(C) - k) : RestBytes(C, k)[i] = C[k + i]
    BY <1>2, <1>3, Slice, SMTT(30) DEF RestBytes
  <1>5. /\ r \in Buffers(S) /\ r.store = b.store
        /\ \/ r.reader = b.reader + k /\ r.writer = b.writer /\ k < Len(C)
           \/ r.reader = kCheapPrepend /\ r.writer = kCheapPrepend /\ k = Len(C)
    <2>1. CASE k < Len(C)
      <3>1. r = [b EXCEPT !.reader = b.reader + k]
        BY <1>2, <2>1 DEF retrieve, readableBytes
      <3>2. b.reader + k \in Nat
        BY <1>1, <1>3, SMTT(30)
      <3> HIDE DEF r, C
      <3> QED
        BY <2>1, <3>1, <3>2 DEF Buffers
    <2>2. CASE ~(k < Len(C))
      <3>1. r = [b EXCEPT !.reader = kCheapPrepend, !.writer = kCheapPrepend]
        BY <1>2, <2>2 DEF retrieve, readableBytes
      <3>2. k = Len(C)
        BY <1>3, <2>2, SMTT(30)
      <3> HIDE DEF r, C
      <3> QED
        BY <1>1, <3>1, <3>2 DEF Buffers
    <2> QED
      BY <2>1, <2>2
  <1> HIDE DEF r, C
  <1>6. kCheapPrepend <= r.reader /\ r.reader <= r.writer /\ r.writer <= Len(r.store)
    BY <1>1, <1>2, <1>3, <1>5, SMTT(30)
  <1>7. IsBuffer(r, S)
    BY <1>5, <1>6, Indices
  <1>8. /\ Contents(r) \in Seq(T) /\ Len(Contents(r)) = r.writer - r.reader
        /\ \A i \in 1..(r.writer - r.reader) : Contents(r)[i] = r.store[r.reader + i]
    BY <1>5, <1>7, ContentsAre DEF readableBytes
  <1>9. Len(Contents(r)) = Len(RestBytes(C, k))
    <2>1. Len(RestBytes(C, k)) = Len(C) - k /\ Len(C) = b.writer - b.reader
      BY <1>2, <1>4
    <2>2. r.writer - r.reader = Len(C) - k
      BY <1>1, <1>2, <1>3, <1>5, SMTT(30)
    <2> QED
      BY <1>8, <2>1, <2>2
  <1>10. ASSUME NEW i \in 1..Len(Contents(r)) PROVE Contents(r)[i] = RestBytes(C, k)[i]
    <2>1. /\ i \in 1..(r.writer - r.reader) /\ i \in 1..(Len(C) - k)
          /\ k + i \in 1..(b.writer - b.reader) /\ r.reader + i = b.reader + (k + i)
      BY <1>1, <1>2, <1>3, <1>4, <1>5, <1>8, <1>9, <1>10, SMTT(30)
    <2> QED
      BY <1>2, <1>4, <1>5, <1>8, <2>1
  <1>11. Contents(r) = RestBytes(C, k)
    BY <1>4, <1>8, <1>9, <1>10, SeqEqual
  <1> QED
    BY <1>5, <1>7, <1>11 DEF r, C

(* ensureWritableBytes makes room for len bytes, by growing the vector or by moving
   the contents to its front, and changes none of the contents. *)
LEMMA MadeRoom ==
    ASSUME NEW S, NEW b \in Buffers(S), IsBuffer(b, S), NEW len \in Nat
    PROVE  LET r == ensureWritableBytes(b, len) IN
           /\ r \in Buffers(S) /\ IsBuffer(r, S)
           /\ r.writer + len <= Len(r.store)
           /\ Contents(r) = Contents(b)
  <1> DEFINE r == ensureWritableBytes(b, len)
             C == Contents(b)
             T == S \cup {Blank}
             more == b.writer + len - Len(b.store)
             size == b.writer - b.reader
  <1>1. /\ kCheapPrepend \in Nat /\ b.store \in Seq(T) /\ Len(b.store) \in Nat
        /\ b.reader \in Nat /\ b.writer \in Nat
        /\ kCheapPrepend <= b.reader /\ b.reader <= b.writer /\ b.writer <= Len(b.store)
    BY Indices
  <1>2. /\ C \in Seq(T) /\ Len(C) = size
        /\ \A i \in 1..size : C[i] = b.store[b.reader + i]
    BY ContentsAre DEF readableBytes
  <1> HIDE DEF C
  <1>3. /\ size \in Nat /\ (b.reader + size = b.writer)
        /\ kCheapPrepend + Len(C) <= Len(b.store)
        /\ (Len(b.store) - b.writer < len => more \in Nat)
        /\ b.writer + len <= Len(b.store) + more
    <2>1. size \in Nat /\ b.reader + size = b.writer /\ kCheapPrepend + size <= Len(b.store)
      BY <1>1, SMTT(30)
    <2>2. /\ (Len(b.store) - b.writer < len => more \in Nat)
          /\ b.writer + len <= Len(b.store) + more
      BY <1>1, SMTT(30)
    <2> QED
      BY <1>2, <2>1, <2>2
  <1> HIDE DEF more, size
  <1>4. CASE Len(b.store) - b.writer >= len
    <2>1. r = b
      BY <1>1, <1>4, SMTT(30) DEF ensureWritableBytes, writableBytes
    <2>2. b.writer + len <= Len(b.store)
      BY <1>1, <1>4, SMTT(30)
    <2> QED
      BY <2>1, <2>2 DEF C
  <1>5. ASSUME NEW q \in Buffers(S), r = q,
               kCheapPrepend <= q.reader, q.writer = q.reader + size,
               q.writer + len <= Len(q.store),
               \A i \in 1..size : q.store[q.reader + i] = b.store[b.reader + i]
        PROVE  IsBuffer(r, S) /\ Contents(r) = C
    <2>1. /\ q.reader \in Nat /\ q.writer \in Nat /\ Len(q.store) \in Nat
      BY Indices
    <2>2. q.reader <= q.writer /\ q.writer <= Len(q.store) /\ q.writer - q.reader = size
      BY <1>3, <1>5, <2>1, SMTT(30)
    <2>3. IsBuffer(q, S)
      BY <1>5, <2>2, Indices
    <2>4. /\ Contents(q) \in Seq(T) /\ Len(Contents(q)) = size
          /\ \A i \in 1..size : Contents(q)[i] = q.store[q.reader + i]
      BY <2>2, <2>3, ContentsAre DEF readableBytes
    <2>5. Contents(q) = C
      BY <1>2, <1>5, <2>4, SeqEqual, SMTT(30)
    <2> QED
      BY <1>5, <2>3, <2>5
  <1>6. CASE Len(b.store) - b.writer < len /\ Len(b.store) - b.writer + b.reader < len + kCheapPrepend
    <2>1. Blanks(more) \in Seq(T) /\ Len(Blanks(more)) = more
      BY <1>3, <1>6, BlanksAre
    <2> DEFINE st == b.store \o Blanks(more)
               q == [b EXCEPT !.store = st]
    <2>2. /\ st \in Seq(T) /\ Len(st) = Len(b.store) + more
          /\ \A i \in 1..(Len(b.store) + more) :
                st[i] = IF i <= Len(b.store) THEN b.store[i] ELSE Blanks(more)[i - Len(b.store)]
      <3> DEFINE old == b.store
                 new == Blanks(more)
      <3>1. old \in Seq(T) /\ new \in Seq(T) /\ Len(new) = more
        BY <1>1, <2>1
      <3> HIDE DEF old, new
      <3>2. /\ old \o new \in Seq(T) /\ Len(old \o new) = Len(old) + Len(new)
            /\ \A i \in 1..(Len(old) + Len(new)) :
                  (old \o new)[i] = IF i <= Len(old) THEN old[i] ELSE new[i - Len(old)]
        BY <3>1, ConcatProperties
      <3> QED
        BY <3>1, <3>2 DEF old, new
    <2>3. r = q
      BY <1>1, <1>6, SMTT(30) DEF ensureWritableBytes, makeSpace, writableBytes, more
    <2> HIDE DEF st
    <2>4. q \in Buffers(S) /\ q.reader = b.reader /\ q.writer = b.writer /\ q.store = st
      BY <2>2 DEF Buffers
    <2> HIDE DEF q
    <2>5. b.writer + len <= Len(st) /\ q.writer = q.reader + size
      BY <1>1, <1>3, <1>6, <2>2, <2>4, SMTT(30)
    <2>6. ASSUME NEW i \in 1..size PROVE st[b.reader + i] = b.store[b.reader + i]
      <3>1. b.reader + i \in 1..(Len(b.store) + more) /\ b.reader + i <= Len(b.store)
        <4>1. more \in Nat /\ size \in Nat /\ b.reader + size = b.writer
          BY <1>3, <1>6
        <4>2. b.reader + i \in Nat /\ 1 <= b.reader + i /\ b.reader + i <= b.writer
          BY <1>1, <2>6, <4>1, SMTT(30)
        <4>3. b.reader + i <= Len(b.store)
          BY <1>1, <4>2, SMTT(30)
        <4> QED
          BY <1>1, <4>1, <4>2, <4>3, SMTT(30)
      <3> QED
        BY <2>2, <3>1
    <2> QED
      BY <1>1, <1>5, <2>3, <2>4, <2>5, <2>6 DEF C
  <1>7. CASE Len(b.store) - b.writer < len /\ ~(Len(b.store) - b.writer + b.reader < len + kCheapPrepend)
    <2> DEFINE st == Copied(b.store, kCheapPrepend, C)
               q == [b EXCEPT !.store = st, !.reader = kCheapPrepend, !.writer = kCheapPrepend + size]
    <2>1. /\ st \in Seq(T) /\ Len(st) = Len(b.store)
          /\ \A i \in 1..Len(C) : st[kCheapPrepend + i] = C[i]
      <3>1. /\ b.store \in Seq(T) /\ C \in Seq(T) /\ kCheapPrepend \in Nat
            /\ kCheapPrepend + Len(C) <= Len(b.store)
        BY <1>1, <1>2, <1>3
      <3> HIDE DEF T
      <3>2. st \in Seq(T) /\ Len(st) = Len(b.store)
        BY <3>1, CopiedIs, SMTT(30)
      <3>3. \A i \in 1..Len(C) : st[kCheapPrepend + i] = C[i]
        BY <3>1, CopiedIs, SMTT(30)
      <3> QED
        BY <3>2, <3>3
    <2>2. r = q
      BY <1>1, <1>7, SMTT(30) DEF ensureWritableBytes, makeSpace, writableBytes, readableBytes, C, size
    <2> HIDE DEF st
    <2>3. kCheapPrepend + size \in Nat
      BY <1>1, <1>3, SMTT(30)
    <2>4. /\ q \in Buffers(S) /\ q.reader = kCheapPrepend
          /\ q.writer = kCheapPrepend + size /\ q.store = st
      BY <1>1, <2>1, <2>3 DEF Buffers
    <2> HIDE DEF q
    <2>5. q.writer + len <= Len(st) /\ q.writer = q.reader + size /\ kCheapPrepend <= q.reader
      BY <1>1, <1>3, <1>7, <2>1, <2>4, SMTT(30)
    <2>6. ASSUME NEW i \in 1..size PROVE st[q.reader + i] = b.store[b.reader + i]
      BY <1>2, <2>1, <2>4
    <2> QED
      BY <1>5, <2>2, <2>4, <2>5, <2>6 DEF C
  <1>8. \/ Len(b.store) - b.writer >= len
        \/ Len(b.store) - b.writer < len
    BY <1>1, SMTT(30)
  <1> QED
    BY <1>4, <1>6, <1>7, <1>8 DEF C

(* append puts the bytes behind those that are there. *)
LEMMA Appended ==
    ASSUME NEW S, NEW b \in Buffers(S), IsBuffer(b, S), NEW data \in Seq(S)
    PROVE  /\ append(b, data) \in Buffers(S) /\ IsBuffer(append(b, data), S)
           /\ Contents(append(b, data)) = Contents(b) \o data
  <1> DEFINE T == S \cup {Blank}
             r == ensureWritableBytes(b, Len(data))
             st == Copied(r.store, r.writer, data)
             q == append(b, data)
             C == Contents(b)
  <1>1. Len(data) \in Nat /\ data \in Seq(T)
    BY LenProperties, SeqMonotonic
  <1>2. r \in Buffers(S) /\ IsBuffer(r, S) /\ r.writer + Len(data) <= Len(r.store) /\ Contents(r) = C
    BY <1>1, MadeRoom
  <1>3. q = [r EXCEPT !.store = st, !.writer = r.writer + Len(data)]
    BY DEF append
  <1> HIDE DEF r, q, C
  <1>4. /\ kCheapPrepend \in Nat /\ r.store \in Seq(T) /\ Len(r.store) \in Nat
        /\ r.reader \in Nat /\ r.writer \in Nat
        /\ kCheapPrepend <= r.reader /\ r.reader <= r.writer /\ r.writer <= Len(r.store)
    BY <1>2, Indices
  <1>5. /\ C \in Seq(T) /\ Len(C) = r.writer - r.reader
        /\ \A i \in 1..(r.writer - r.reader) : C[i] = r.store[r.reader + i]
    BY <1>2, ContentsAre DEF readableBytes
  <1>6. /\ st \in Seq(T) /\ Len(st) = Len(r.store)
        /\ \A i \in 1..r.writer : st[i] = r.store[i]
        /\ \A i \in 1..Len(data) : st[r.writer + i] = data[i]
    <2> HIDE DEF T
    <2>1. st \in Seq(T) /\ Len(st) = Len(r.store)
      BY <1>1, <1>2, <1>4, CopiedIs, SMTT(30)
    <2>2. \A i \in 1..r.writer : st[i] = r.store[i]
      BY <1>1, <1>2, <1>4, CopiedIs, SMTT(30)
    <2>3. \A i \in 1..Len(data) : st[r.writer + i] = data[i]
      BY <1>1, <1>2, <1>4, CopiedIs, SMTT(30)
    <2> QED
      BY <2>1, <2>2, <2>3
  <1> HIDE DEF st
  <1>7. r.writer + Len(data) \in Nat
    BY <1>1, <1>4, SMTT(30)
  <1>8. /\ q \in Buffers(S) /\ q.store = st /\ q.reader = r.reader
        /\ q.writer = r.writer + Len(data)
    BY <1>2, <1>3, <1>6, <1>7 DEF Buffers
  <1>9. kCheapPrepend <= q.reader /\ q.reader <= q.writer /\ q.writer <= Len(q.store)
    BY <1>1, <1>2, <1>4, <1>6, <1>8, SMTT(30)
  <1>10. IsBuffer(q, S)
    BY <1>8, <1>9, Indices
  <1>11. /\ Contents(q) \in Seq(T) /\ Len(Contents(q)) = q.writer - q.reader
         /\ \A i \in 1..(q.writer - q.reader) : Contents(q)[i] = st[q.reader + i]
    BY <1>8, <1>10, ContentsAre DEF readableBytes
  <1>12. /\ C \o data \in Seq(T) /\ Len(C \o data) = Len(C) + Len(data)
         /\ \A i \in 1..(Len(C) + Len(data)) :
               (C \o data)[i] = IF i <= Len(C) THEN C[i] ELSE data[i - Len(C)]
    BY <1>1, <1>5, ConcatProperties
  <1>13. Len(Contents(q)) = Len(C \o data)
    BY <1>1, <1>4, <1>5, <1>8, <1>11, <1>12, SMTT(30)
  <1>14. ASSUME NEW i \in 1..Len(Contents(q)) PROVE Contents(q)[i] = (C \o data)[i]
    <2>1. /\ i \in 1..(q.writer - q.reader) /\ i \in 1..(Len(C) + Len(data))
      BY <1>11, <1>12, <1>13, <1>14
    <2>2. Contents(q)[i] = st[r.reader + i]
      BY <1>8, <1>11, <2>1
    <2>3. CASE i <= Len(C)
      <3>1. i \in 1..(r.writer - r.reader) /\ r.reader + i \in 1..r.writer
        BY <1>4, <1>5, <2>1, <2>3, SMTT(30)
      <3> QED
        BY <1>5, <1>6, <1>12, <2>1, <2>2, <2>3, <3>1
    <2>4. CASE ~(i <= Len(C))
      <3>1. i - Len(C) \in 1..Len(data) /\ r.writer + (i - Len(C)) = r.reader + i
        BY <1>1, <1>4, <1>5, <2>1, <2>4, SMTT(30)
      <3>2. st[r.reader + i] = data[i - Len(C)]
        BY <1>6, <3>1
      <3> QED
        BY <1>12, <2>1, <2>2, <2>4, <3>2
    <2> QED
      BY <2>3, <2>4
  <1>15. Contents(q) = C \o data
    BY <1>11, <1>12, <1>13, <1>14, SeqEqual
  <1> QED
    BY <1>8, <1>10, <1>15 DEF q, C
-----------------------------------------------------------------------------
(* A sequence and the two parts a partial write makes of it. *)
LEMMA Parts ==
    ASSUME NEW S, NEW s \in Seq(S), NEW k \in 0..Len(s)
    PROVE  /\ FirstBytes(s, k) \in Seq(S) /\ RestBytes(s, k) \in Seq(S)
           /\ Len(FirstBytes(s, k)) = k /\ Len(RestBytes(s, k)) = Len(s) - k
           /\ FirstBytes(s, k) \o RestBytes(s, k) = s
  <1>1. Len(s) \in Nat /\ DOMAIN s = 1..Len(s)
    BY LenProperties
  <1>2. /\ 0 \in Nat /\ k \in Nat /\ 0 <= k /\ k <= Len(s) /\ Len(s) <= Len(s)
        /\ 0 + 1 = 1 /\ k - 0 = k
        /\ 1 \in 1..Len(s) + 1 /\ k \in 1-1..Len(s) /\ Len(s) \in k..Len(s)
    BY <1>1, SMTT(30)
  <1>3. SubSeq(s, 0 + 1, k) \in Seq(S) /\ Len(SubSeq(s, 0 + 1, k)) = k - 0
    BY <1>1, <1>2, Slice
  <1>4. SubSeq(s, k + 1, Len(s)) \in Seq(S) /\ Len(SubSeq(s, k + 1, Len(s))) = Len(s) - k
    <2> DEFINE n == Len(s)
    <2>1. n \in Nat /\ k \in Nat /\ k <= n /\ n <= Len(s)
      BY <1>1, <1>2
    <2> HIDE DEF n
    <2>2. SubSeq(s, k + 1, n) \in Seq(S) /\ Len(SubSeq(s, k + 1, n)) = n - k
      BY <2>1, Slice
    <2> QED
      BY <2>2 DEF n
  <1>5. SubSeq(s, 1, k) \o SubSeq(s, k + 1, Len(s)) = SubSeq(s, 1, Len(s))
    BY <1>2, ConcatAdjacentSubSeq
  <1>6. SubSeq(s, 1, Len(s)) = s
    BY SubSeqFull
  <1> QED
    BY <1>2, <1>3, <1>4, <1>5, <1>6 DEF FirstBytes, RestBytes

(* Nothing written, or everything. *)
LEMMA WholeParts ==
    ASSUME NEW S, NEW s \in Seq(S)
    PROVE  /\ FirstBytes(s, 0) = <<>> /\ RestBytes(s, 0) = s
           /\ FirstBytes(s, Len(s)) = s /\ RestBytes(s, Len(s)) = <<>>
  <1>1. Len(s) \in Nat /\ 1 \in Int /\ 0 \in Int /\ Len(s) \in Int /\ Len(s) + 1 \in Int
        /\ 0 < 1 /\ Len(s) < Len(s) + 1 /\ 0 + 1 = 1
    BY LenProperties, SMTT(30)
  <1>2. SubSeq(s, 1, 0) = <<>> /\ SubSeq(s, Len(s) + 1, Len(s)) = <<>>
    BY <1>1, SubSeqEmpty
  <1>3. SubSeq(s, 1, Len(s)) = s
    BY SubSeqFull
  <1> QED
    BY <1>1, <1>2, <1>3 DEF FirstBytes, RestBytes

(* A sequence is empty when its length is 0. *)
LEMMA EmptyIs ==
    ASSUME NEW S, NEW s \in Seq(S)
    PROVE  s = <<>> <=> Len(s) = 0
  <1>1. Len(<<>>) = 0
    BY EmptySeq
  <1>2. ASSUME s # <<>> PROVE Len(s) # 0
    <2>1. Len(s) \in Nat \ {0}
      BY <1>2, EmptySeq
    <2> QED
      BY <2>1
  <1> QED
    BY <1>1, <1>2

(* Where the elements of two sequences put together are. *)
LEMMA ConcatElements ==
    ASSUME NEW s \in Seq(Byte), NEW t \in Seq(Byte)
    PROVE  /\ \A j \in DOMAIN s : j \in DOMAIN (s \o t) /\ (s \o t)[j] = s[j]
           /\ \A j \in DOMAIN t : Len(s) + j \in DOMAIN (s \o t) /\ (s \o t)[Len(s) + j] = t[j]
           /\ \A i \in DOMAIN (s \o t) : i \in DOMAIN s \/ \E j \in DOMAIN t : i = Len(s) + j
  <1> DEFINE u == s \o t
  <1>1. /\ u \in Seq(Byte) /\ Len(u) = Len(s) + Len(t)
        /\ \A i \in 1..(Len(s) + Len(t)) : u[i] = IF i <= Len(s) THEN s[i] ELSE t[i - Len(s)]
    BY ConcatProperties
  <1>2. /\ Len(s) \in Nat /\ Len(t) \in Nat /\ Len(u) \in Nat
        /\ DOMAIN s = 1..Len(s) /\ DOMAIN t = 1..Len(t) /\ DOMAIN u = 1..Len(u)
    BY <1>1, LenProperties
  <1> HIDE DEF u
  <1>3. ASSUME NEW i \in DOMAIN u PROVE i \in DOMAIN s \/ \E j \in DOMAIN t : i = Len(s) + j
    <2>1. CASE i <= Len(s)
      BY <1>1, <1>2, <1>3, <2>1, SMTT(30)
    <2>2. CASE ~(i <= Len(s))
      <3>1. i - Len(s) \in DOMAIN t /\ i = Len(s) + (i - Len(s))
        BY <1>1, <1>2, <1>3, <2>2, SMTT(30)
      <3> QED
        BY <3>1
    <2> QED
      BY <2>1, <2>2
  <1>4. ASSUME NEW j \in DOMAIN s PROVE j \in DOMAIN u /\ u[j] = s[j]
    <2>1. j \in DOMAIN u /\ j <= Len(s) /\ j \in 1..(Len(s) + Len(t))
      BY <1>1, <1>2, <1>4, SMTT(30)
    <2> QED
      BY <1>1, <2>1
  <1>5. ASSUME NEW j \in DOMAIN t PROVE Len(s) + j \in DOMAIN u /\ u[Len(s) + j] = t[j]
    <2> DEFINE i == Len(s) + j
    <2>1. /\ i \in DOMAIN u /\ ~(i <= Len(s)) /\ i \in 1..(Len(s) + Len(t))
          /\ i - Len(s) = j
      BY <1>1, <1>2, <1>5, SMTT(30)
    <2> HIDE DEF i
    <2>2. u[i] = t[j]
      BY <1>1, <2>1
    <2> QED
      BY <2>1, <2>2 DEF i
  <1> QED
    BY <1>3, <1>4, <1>5 DEF u

(* Taken apart where they were put together. *)
LEMMA ConcatParts ==
    ASSUME NEW s \in Seq(Byte), NEW t \in Seq(Byte)
    PROVE  FirstBytes(s \o t, Len(s)) = s /\ RestBytes(s \o t, Len(s)) = t
  <1> DEFINE u == s \o t
             n == Len(s)
  <1>1. /\ u \in Seq(Byte) /\ Len(u) = n + Len(t)
    BY ConcatProperties
  <1>2. /\ n \in Nat /\ Len(t) \in Nat /\ DOMAIN s = 1..n /\ DOMAIN t = 1..Len(t)
    BY LenProperties
  <1>3. \A i \in 1..n : u[i] = s[i]
    <2>1. \A i \in DOMAIN s : (s \o t)[i] = s[i]
      BY ConcatElements
    <2> QED
      BY <1>2, <2>1
  <1>4. \A i \in 1..Len(t) : u[n + i] = t[i]
    <2>1. \A i \in DOMAIN t : (s \o t)[Len(s) + i] = t[i]
      BY ConcatElements
    <2> QED
      BY <1>2, <2>1
  <1> HIDE DEF u, n
  <1>5. 0 \in Nat /\ 0 <= n /\ n <= Len(u) /\ Len(u) <= Len(u) /\ Len(u) \in Nat
    BY <1>1, <1>2, SMTT(30)
  <1>6. /\ SubSeq(u, 0 + 1, n) \in Seq(Byte) /\ Len(SubSeq(u, 0 + 1, n)) = n - 0
        /\ \A i \in 1..(n - 0) : SubSeq(u, 0 + 1, n)[i] = u[0 + i]
    BY <1>1, <1>2, <1>5, Slice, SMTT(30)
  <1>7. /\ SubSeq(u, n + 1, Len(u)) \in Seq(Byte) /\ Len(SubSeq(u, n + 1, Len(u))) = Len(u) - n
        /\ \A i \in 1..(Len(u) - n) : SubSeq(u, n + 1, Len(u))[i] = u[n + i]
    BY <1>1, <1>2, <1>5, Slice, SMTT(30)
  <1>8. n - 0 = n /\ 0 + 1 = 1 /\ Len(u) - n = Len(t) /\ \A i \in 1..n : 0 + i = i
    BY <1>1, <1>2, SMTT(30)
  <1>9. SubSeq(u, 1, n) = s
    <2> DEFINE v == SubSeq(u, 1, n)
    <2>1. v \in Seq(Byte) /\ Len(v) = n /\ \A i \in 1..n : v[i] = s[i]
      BY <1>3, <1>6, <1>8
    <2> HIDE DEF v
    <2>2. v = s
      BY <1>2, <2>1, SeqEqual DEF n
    <2> QED
      BY <2>2 DEF v
  <1>10. SubSeq(u, n + 1, Len(u)) = t
    <2> DEFINE v == SubSeq(u, n + 1, Len(u))
    <2>1. v \in Seq(Byte) /\ Len(v) = Len(t) /\ \A i \in 1..Len(t) : v[i] = t[i]
      BY <1>4, <1>7, <1>8
    <2> HIDE DEF v
    <2>2. v = t
      BY <2>1, SeqEqual
    <2> QED
      BY <2>2 DEF v
  <1> QED
    BY <1>9, <1>10 DEF FirstBytes, RestBytes, u, n

(* The requests of a run of bytes put together, or of a part of one. *)
LEMMA AskedConcat ==
    ASSUME NEW s \in Seq(Byte), NEW t \in Seq(Byte)
    PROVE  Asked(s \o t) = Asked(s) \cup Asked(t)
  <1> DEFINE u == s \o t
  <1>1. /\ \A j \in DOMAIN s : j \in DOMAIN u /\ u[j] = s[j]
        /\ \A j \in DOMAIN t : Len(s) + j \in DOMAIN u /\ u[Len(s) + j] = t[j]
        /\ \A i \in DOMAIN u : i \in DOMAIN s \/ \E j \in DOMAIN t : i = Len(s) + j
    BY ConcatElements
  <1> HIDE DEF u
  <1>2. ASSUME NEW x \in Asked(u) PROVE x \in Asked(s) \cup Asked(t)
    <2>1. PICK i \in DOMAIN u : x = u[i][2]
      BY <1>2 DEF Asked
    <2>2. (\E j \in DOMAIN s : u[i] = s[j]) \/ (\E j \in DOMAIN t : u[i] = t[j])
      BY <1>1
    <2> QED
      BY <2>1, <2>2 DEF Asked
  <1>3. ASSUME NEW x \in Asked(s) PROVE x \in Asked(u)
    <2>1. PICK j \in DOMAIN s : x = s[j][2]
      BY <1>3 DEF Asked
    <2> QED
      BY <1>1, <2>1 DEF Asked
  <1>4. ASSUME NEW x \in Asked(t) PROVE x \in Asked(u)
    <2>1. PICK j \in DOMAIN t : x = t[j][2]
      BY <1>4 DEF Asked
    <2> QED
      BY <1>1, <2>1 DEF Asked
  <1>5. Asked(u) = Asked(s) \cup Asked(t)
    BY <1>2, <1>3, <1>4
  <1> QED
    BY <1>5 DEF u

(* A partial write divides the bytes of the same requests. *)
LEMMA AskedParts ==
    ASSUME NEW s \in Seq(Byte), NEW k \in 0..Len(s)
    PROVE  /\ Asked(FirstBytes(s, k)) \subseteq Asked(s)
           /\ Asked(RestBytes(s, k)) \subseteq Asked(s)
  <1>1. /\ FirstBytes(s, k) \in Seq(Byte) /\ RestBytes(s, k) \in Seq(Byte)
        /\ FirstBytes(s, k) \o RestBytes(s, k) = s
    BY Parts
  <1>2. Asked(FirstBytes(s, k) \o RestBytes(s, k))
            = Asked(FirstBytes(s, k)) \cup Asked(RestBytes(s, k))
    BY <1>1, AskedConcat
  <1> QED
    BY <1>1, <1>2

(* No bytes, no requests. *)
LEMMA AskedEmpty == Asked(<<>>) = {}
  <1>1. <<>> \in Seq(Byte) /\ Len(<<>>) = 0
    BY EmptySeq
  <1>2. DOMAIN <<>> = 1..0
    BY <1>1, LenProperties
  <1>3. 1..0 = {}
    BY SMTT(30)
  <1> QED
    BY <1>2, <1>3 DEF Asked

(* The bytes of request n. *)
LEMMA BytesAre ==
    ASSUME NEW kind \in Kinds, NEW n \in 1..MaxItems
    PROVE  /\ Bytes(kind, n) \in Seq(Byte) /\ Len(Bytes(kind, n)) = ItemLen
           /\ \A k \in 1..ItemLen : Bytes(kind, n)[k][1] = kind
           /\ Bytes(kind, n) # <<>> /\ Asked(Bytes(kind, n)) = {n}
  <1>1. ItemLen \in Nat /\ ItemLen # 0 /\ 1 \in 1..ItemLen
    BY OutputAssumption, SMTT(30)
  <1>2. \A k \in 1..ItemLen : <<kind, n, k>> \in Byte
    BY DEF Byte
  <1>3. Bytes(kind, n) \in [1..ItemLen -> Byte]
    BY <1>2 DEF Bytes
  <1>4. Bytes(kind, n) \in Seq(Byte) /\ Len(Bytes(kind, n)) = ItemLen
    BY <1>1, <1>3, FunctionIsSeq
  <1>5. \A k \in 1..ItemLen : Bytes(kind, n)[k] = <<kind, n, k>>
    BY DEF Bytes
  <1>6. \A k \in 1..ItemLen : Bytes(kind, n)[k][1] = kind /\ Bytes(kind, n)[k][2] = n
    BY <1>5, SMTT(30)
  <1>7. DOMAIN Bytes(kind, n) = 1..ItemLen
    BY DEF Bytes
  <1>8. Asked(Bytes(kind, n)) = {n}
    BY <1>1, <1>6, <1>7 DEF Asked
  <1>9. Bytes(kind, n) # <<>>
    BY <1>1, <1>4, EmptyIs
  <1> QED
    BY <1>4, <1>6, <1>8, <1>9
-----------------------------------------------------------------------------
(* What the steps do, in terms of the bytes.  A step changes one connection. *)
Only(c) == out' \in [Conns -> Outputs] /\ \A d \in Conns : d # c => out'[d] = out[d]

(* new is f with s behind what c had. *)
Grown(f, new, c, s) ==
    /\ new \in [Conns -> Seq(Byte)] /\ new[c] = f[c] \o s
    /\ \A d \in Conns : d # c => new[d] = f[d]

(* handleClose was run. *)
HungUp(c) ==
    /\ Only(c) /\ Good(out'[c])
    /\ out'[c].closed /\ ~out'[c].writing /\ out'[c].buffer = out[c].buffer

(* k bytes of a request were written, and the others went to the buffer. *)
Sent(c, bytes, k) ==
    /\ ~out[c].closed
    /\ k > 0 => ~out[c].writing /\ Waiting(c) = <<>>
    /\ Only(c) /\ Good(out'[c])
    /\ out'[c].state = out[c].state /\ out'[c].shut = out[c].shut
    /\ out'[c].writing <=> out[c].writing \/ k < Len(bytes)
    /\ Waiting(c)' = Waiting(c) \o RestBytes(bytes, k)
    /\ Grown(wire, wire', c, FirstBytes(bytes, k))
    /\ Grown(requested, requested', c, bytes)

(* k bytes of a file were written, and the others went to pendingFile_. *)
FileSent(c, bytes, k) ==
    /\ Only(c) /\ Good(out'[c])
    /\ out'[c].state = out[c].state /\ out'[c].shut = out[c].shut
    /\ out'[c].buffer = out[c].buffer
    /\ Grown(requested, requested', c, bytes)
    /\ Grown(wire, wire', c, FirstBytes(bytes, k))
    /\ k < Len(bytes) => out'[c].writing /\ pendingFile' = RestBytes(bytes, k)
    /\ k = Len(bytes) => ~out'[c].writing /\ pendingFile' = pendingFile
    /\ \/ k = 0 /\ k < Len(bytes)
       \/ ~out[c].writing /\ Waiting(c) = <<>>

(* A file was given up before a byte of it was written. *)
GivenUp(c, bytes) ==
    /\ Only(c) /\ Good(out'[c]) /\ UNCHANGED <<out, wire, pendingFile>>
    /\ Grown(requested, requested', c, bytes)

(* k bytes of the buffer were written, after file; none once handleClose has run. *)
Wrote(c, file, k) ==
    /\ Only(c) /\ Good(out'[c])
    /\ Waiting(c)' = RestBytes(Waiting(c), k)
    /\ Grown(wire, wire', c, file \o FirstBytes(Waiting(c), k))
    /\ \/ out'[c].closed
       \/ /\ out'[c].state = out[c].state /\ out'[c].closed = out[c].closed
          /\ k = 0 => out'[c] = out[c]
          /\ k > 0 =>
               /\ out'[c].writing <=> Waiting(c)' # <<>>
               /\ out'[c].shut <=> out[c].shut \/ (Waiting(c)' = <<>> /\ out[c].state = "kDisconnecting")

(* The file is not finished: the write interest stays, or comes back on a connection
   just closed. *)
Continues(c) ==
    /\ Only(c) /\ Good(out'[c]) /\ out'[c].buffer = out[c].buffer
    /\ \/ out'[c].closed
       \/ /\ out'[c].state = out[c].state /\ out'[c].closed = out[c].closed
          /\ out'[c].shut = out[c].shut /\ out'[c].writing

(* Bytes put behind those of one connection. *)
LEMMA Extended ==
    ASSUME NEW f \in [Conns -> Seq(Byte)], NEW c \in Conns, NEW s \in Seq(Byte)
    PROVE  Grown(f, [f EXCEPT ![c] = @ \o s], c, s)
  <1>1. f[c] \o s \in Seq(Byte)
    <2>1. f[c] \in Seq(Byte)
      OBVIOUS
    <2> QED
      BY <2>1, ConcatProperties
  <1> QED
    BY <1>1 DEF Grown

(* None put there. *)
LEMMA Same ==
    ASSUME NEW f \in [Conns -> Seq(Byte)], NEW c \in Conns
    PROVE  Grown(f, f, c, <<>>)
  <1>1. f[c] \o <<>> = f[c]
    <2>1. f[c] \in Seq(Byte)
      OBVIOUS
    <2> QED
      BY <2>1, ConcatEmptySeq
  <1> QED
    BY <1>1 DEF Grown

(* readableBytes() is 0 when nothing is between the indices. *)
LEMMA Readable ==
    ASSUME NEW o, Good(o)
    PROVE  /\ o.buffer \in Buffers(Byte) /\ readableBytes(o.buffer) \in Nat
           /\ readableBytes(o.buffer) = Len(Contents(o.buffer))
           /\ readableBytes(o.buffer) = 0 <=> Contents(o.buffer) = <<>>
  <1>1. o.buffer \in Buffers(Byte) /\ IsBuffer(o.buffer, Byte) /\ Contents(o.buffer) \in Seq(Byte)
    BY DEF Good, Outputs
  <1>2. readableBytes(o.buffer) \in Nat /\ Len(Contents(o.buffer)) = readableBytes(o.buffer)
    BY <1>1, ContentsAre
  <1> QED
    BY <1>1, <1>2, EmptyIs

(* What handleClose leaves of a connection. *)
LEMMA ClosedIs ==
    ASSUME NEW o, Good(o)
    PROVE  /\ Good(Closed(o)) /\ Closed(o) \in Outputs
           /\ Closed(o).closed /\ ~Closed(o).writing /\ Closed(o).buffer = o.buffer
  <1>1. o \in Outputs
    BY DEF Good
  <1>2. /\ Closed(o) \in Outputs /\ Closed(o).state = "kDisconnected" /\ Closed(o).closed = TRUE
        /\ Closed(o).writing = FALSE /\ Closed(o).buffer = o.buffer
    BY <1>1 DEF Outputs, States, Closed
  <1> QED
    BY <1>2 DEF Good

(* A connection as an event finds it, or closed by the same dispatch. *)
Found(c, o) == o = out[c] \/ o = Closed(out[c])

(* What a step finds, and what it leaves of one connection. *)
LEMMA FoundIs ==
    ASSUME ShapeInv, NEW c \in Conns, NEW o, Found(c, o)
    PROVE  /\ Good(o) /\ o \in Outputs /\ o.buffer = out[c].buffer
           /\ o = out[c] \/ (o.closed /\ ~o.writing)
  <1>1. Good(out[c]) /\ out[c] \in Outputs
    BY DEF ShapeInv, Good
  <1> QED
    BY <1>1, ClosedIs DEF Found

(* What a step makes of one connection is what it is then. *)
LEMMA Replaces ==
    ASSUME ShapeInv, NEW c \in Conns, NEW new \in Outputs, out' = [out EXCEPT ![c] = new]
    PROVE  Only(c) /\ out'[c] = new
  BY DEF ShapeInv, Only

(* handleClose, after a failed write. *)
LEMMA Closes ==
    ASSUME ShapeInv, NEW c \in Conns, NEW o, Found(c, o), out' = [out EXCEPT ![c] = Closed(o)]
    PROVE  HungUp(c)
  <1>1. Good(o) /\ o.buffer = out[c].buffer
    BY FoundIs
  <1>2. /\ Good(Closed(o)) /\ Closed(o) \in Outputs
        /\ Closed(o).closed /\ ~Closed(o).writing /\ Closed(o).buffer = o.buffer
    BY <1>1, ClosedIs
  <1>3. Only(c) /\ out'[c] = Closed(o)
    BY <1>2, Replaces
  <1> QED
    BY <1>1, <1>2, <1>3 DEF HungUp

(* handleClose by itself. *)
LEMMA HandleCloseIs ==
    ASSUME ShapeInv, NEW c \in Conns, HandleClose(c)
    PROVE  HungUp(c)
  <1>1. out' = [out EXCEPT ![c] = Closed(out[c])]
    BY DEF HandleClose
  <1>2. Found(c, out[c])
    BY DEF Found
  <1> QED
    BY <1>1, <1>2, Closes

(* sendInLoop, on a connection that is still kConnected *)
LEMMA SendInLoopIs ==
    ASSUME ShapeInv, NEW c \in Conns, NEW bytes \in Seq(Byte),
           out[c].state = "kConnected", SendInLoop(c, bytes)
    PROVE  \/ \E k \in 0..Len(bytes) : Sent(c, bytes, k)
           \/ HungUp(c) /\ UNCHANGED <<wire, requested>>
  <1>1. CASE \E k \in 0..Len(bytes) :
            /\ out[c].state # "kDisconnected"
            /\ k > 0 => MayWriteDirectly(out[c])
            /\ Sends(c, FirstBytes(bytes, k))
            /\ Takes(c, bytes)
            /\ out' = [out EXCEPT ![c].buffer = IF k < Len(bytes) THEN append(@, RestBytes(bytes, k)) ELSE @,
                                  ![c].writing = @ \/ k < Len(bytes)]
    <2>1. PICK k \in 0..Len(bytes) :
            /\ out[c].state # "kDisconnected"
            /\ k > 0 => MayWriteDirectly(out[c])
            /\ Sends(c, FirstBytes(bytes, k))
            /\ Takes(c, bytes)
            /\ out' = [out EXCEPT ![c].buffer = IF k < Len(bytes) THEN append(@, RestBytes(bytes, k)) ELSE @,
                                  ![c].writing = @ \/ k < Len(bytes)]
      BY <1>1
    <2> DEFINE o == out[c]
               part == RestBytes(bytes, k)
               buf == IF k < Len(bytes) THEN append(o.buffer, part) ELSE o.buffer
               new == [o EXCEPT !.buffer = buf, !.writing = o.writing \/ k < Len(bytes)]
    <2>2. /\ Good(o) /\ o \in Outputs /\ o.buffer \in Buffers(Byte) /\ IsBuffer(o.buffer, Byte)
          /\ Contents(o.buffer) \in Seq(Byte)
      BY DEF ShapeInv, Good, Outputs
    <2>3. /\ FirstBytes(bytes, k) \in Seq(Byte) /\ part \in Seq(Byte)
          /\ Len(part) = Len(bytes) - k
      BY Parts
    <2>4. /\ buf \in Buffers(Byte) /\ IsBuffer(buf, Byte)
          /\ Contents(buf) = Contents(o.buffer) \o part
      <3>1. CASE k < Len(bytes)
        <4>1. /\ append(o.buffer, part) \in Buffers(Byte) /\ IsBuffer(append(o.buffer, part), Byte)
              /\ Contents(append(o.buffer, part)) = Contents(o.buffer) \o part
          BY <2>2, <2>3, Appended
        <4> QED
          BY <3>1, <4>1
      <3>2. CASE ~(k < Len(bytes))
        <4>1. Len(part) = 0
          <5>1. Len(bytes) \in Nat
            BY LenProperties
          <5> HIDE DEF part
          <5> QED
            BY <2>3, <3>2, <5>1, SMTT(30)
        <4>2. part = <<>>
          BY <2>3, <4>1, EmptyIs
        <4>3. Contents(o.buffer) \o part = Contents(o.buffer)
          BY <2>2, <4>2, ConcatEmptySeq
        <4> QED
          BY <2>2, <3>2, <4>3
      <3> QED
        BY <3>1, <3>2
    <2>5. Contents(buf) \in Seq(Byte)
      BY <2>2, <2>3, <2>4, ConcatProperties
    <2>6. out' = [out EXCEPT ![c] = new]
      BY <2>1
    <2> HIDE DEF buf, part
    <2>7. /\ new \in Outputs /\ new.buffer = buf /\ new.state = o.state /\ new.shut = o.shut
          /\ new.closed = o.closed
          /\ new.writing <=> o.writing \/ k < Len(bytes)
      BY <2>2, <2>4 DEF Outputs
    <2> HIDE DEF new
    <2>8. Only(c) /\ out'[c] = new
      BY <2>6, <2>7 DEF ShapeInv, Only
    <2>9. Good(new) /\ ~o.closed
      BY <2>2, <2>4, <2>5, <2>7 DEF Good
    <2>10. k > 0 => ~o.writing /\ Contents(o.buffer) = <<>>
      <3>1. readableBytes(o.buffer) = 0 <=> Contents(o.buffer) = <<>>
        BY <2>2, Readable
      <3> QED
        BY <2>1, <3>1 DEF MayWriteDirectly
    <2>11. Grown(wire, wire', c, FirstBytes(bytes, k)) /\ Grown(requested, requested', c, bytes)
      BY <2>1, <2>3, Extended DEF Sends, Takes, ShapeInv
    <2> QED
      BY <2>1, <2>4, <2>7, <2>8, <2>9, <2>10, <2>11 DEF Sent, Waiting, part
  <1>2. CASE HandleClose(c) /\ UNCHANGED <<wire, requested>>
    BY <1>2, HandleCloseIs
  <1> QED
    BY <1>1, <1>2 DEF SendInLoop

(* sendFileInLoop, on a connection that is still kConnected *)
LEMMA SendFileInLoopIs ==
    ASSUME ShapeInv, NEW c \in Conns, NEW bytes \in Seq(Byte), bytes # <<>>,
           out[c].state = "kConnected", SendFileInLoop(c, bytes)
    PROVE  \/ \E k \in 0..Len(bytes) : FileSent(c, bytes, k)
           \/ GivenUp(c, bytes)
           \/ HungUp(c) /\ UNCHANGED <<wire, requested, pendingFile>>
  <1> DEFINE o == out[c]
             busy == readableBytes(o.buffer) > 0 \/ o.writing
             new(w) == [o EXCEPT !.writing = w]
  <1>1. /\ Good(o) /\ o \in Outputs
        /\ readableBytes(o.buffer) = 0 <=> Contents(o.buffer) = <<>>
    BY Readable DEF ShapeInv, Good
  <1>2. Len(bytes) \in Nat /\ Len(bytes) # 0
    BY LenProperties, EmptyIs
  <1>3. ASSUME NEW w \in BOOLEAN, out' = [out EXCEPT ![c] = new(w)]
        PROVE  /\ Only(c) /\ Good(out'[c])
               /\ out'[c].state = o.state /\ out'[c].shut = o.shut /\ out'[c].buffer = o.buffer
               /\ out'[c].writing <=> w
    <2>1. /\ new(w) \in Outputs /\ new(w).buffer = o.buffer /\ new(w).state = o.state
          /\ new(w).closed = o.closed /\ new(w).shut = o.shut /\ new(w).writing = w
      BY <1>1 DEF Outputs
    <2> HIDE DEF new
    <2>2. Only(c) /\ out'[c] = new(w)
      BY <1>3, <2>1 DEF ShapeInv, Only
    <2>3. Good(new(w))
      BY <1>1, <2>1 DEF Good
    <2> QED
      BY <2>1, <2>2, <2>3
  <1>4. CASE /\ Takes(c, bytes) /\ pendingFile' = bytes
             /\ out' = [out EXCEPT ![c].writing = TRUE] /\ UNCHANGED wire
    <2>1. out' = [out EXCEPT ![c] = new(TRUE)]
      BY <1>4
    <2> HIDE DEF new
    <2>2. FirstBytes(bytes, 0) = <<>> /\ RestBytes(bytes, 0) = bytes
      BY WholeParts
    <2>3. Grown(requested, requested', c, bytes) /\ Grown(wire, wire', c, <<>>)
      BY <1>4, Extended, Same DEF Takes, ShapeInv
    <2>4. 0 \in 0..Len(bytes) /\ 0 < Len(bytes)
      BY <1>2, SMTT(30)
    <2>5. FileSent(c, bytes, 0)
      BY <1>2, <1>3, <1>4, <2>1, <2>2, <2>3, <2>4 DEF FileSent
    <2> QED
      BY <2>4, <2>5
  <1>5. CASE /\ readableBytes(o.buffer) = 0 /\ ~o.writing
             /\ \E k \in 0..Len(bytes) :
                  /\ Sends(c, FirstBytes(bytes, k))
                  /\ Takes(c, bytes)
                  /\ pendingFile' = IF k = Len(bytes) THEN pendingFile ELSE RestBytes(bytes, k)
                  /\ out' = [out EXCEPT ![c].writing = k < Len(bytes)]
    <2>1. PICK k \in 0..Len(bytes) :
                  /\ Sends(c, FirstBytes(bytes, k))
                  /\ Takes(c, bytes)
                  /\ pendingFile' = IF k = Len(bytes) THEN pendingFile ELSE RestBytes(bytes, k)
                  /\ out' = [out EXCEPT ![c].writing = k < Len(bytes)]
      BY <1>5
    <2> DEFINE more == k < Len(bytes)
    <2>2. out' = [out EXCEPT ![c] = new(more)]
      BY <2>1
    <2>3. k < Len(bytes) => k # Len(bytes)
      BY <1>2, SMTT(30)
    <2>4. k = Len(bytes) => ~(k < Len(bytes))
      BY <1>2, SMTT(30)
    <2>5. FirstBytes(bytes, k) \in Seq(Byte)
      BY Parts
    <2>6. Grown(requested, requested', c, bytes) /\ Grown(wire, wire', c, FirstBytes(bytes, k))
      BY <2>1, <2>5, Extended DEF Sends, Takes, ShapeInv
    <2> HIDE DEF new, more
    <2>7. /\ Only(c) /\ Good(out'[c])
          /\ out'[c].state = o.state /\ out'[c].shut = o.shut /\ out'[c].buffer = o.buffer
          /\ out'[c].writing <=> more
      <3>1. more \in BOOLEAN
        BY <1>2, SMTT(30) DEF more
      <3> QED
        BY <1>3, <2>2, <3>1
    <2>8. FileSent(c, bytes, k)
      BY <1>1, <1>5, <2>1, <2>3, <2>4, <2>6, <2>7 DEF FileSent, Waiting, more
    <2> QED
      BY <2>8
  <1>6. CASE HandleClose(c) /\ UNCHANGED <<wire, requested, pendingFile>>
    BY <1>6, HandleCloseIs
  <1>7. CASE Takes(c, bytes) /\ UNCHANGED <<out, wire, pendingFile>>
    <2>1. Grown(requested, requested', c, bytes)
      BY <1>7, Extended DEF Takes, ShapeInv
    <2> QED
      BY <1>1, <1>7, <2>1 DEF GivenUp, Only, ShapeInv
  <1> QED
    BY <1>4, <1>5, <1>6, <1>7 DEF SendFileInLoop

(* The part of handleWrite that writes outputBuffer_ *)
LEMMA WriteOpenIs ==
    ASSUME ShapeInv, NEW c \in Conns, NEW file \in Seq(Byte), out[c].writing,
           WriteBuffer(c, out[c], file)
    PROVE  \E k \in 0..Len(Waiting(c)) : Wrote(c, file, k)
  <1> DEFINE o == out[c]
             C == Contents(o.buffer)
  <1>1. /\ Good(o) /\ o \in Outputs /\ o.buffer \in Buffers(Byte) /\ IsBuffer(o.buffer, Byte)
        /\ C \in Seq(Byte)
    BY DEF ShapeInv, Good, Outputs
  <1>2. readableBytes(o.buffer) = Len(C) /\ Len(C) \in Nat
    BY <1>1, Readable
  <1>3. PICK k \in 0..readableBytes(o.buffer) :
            /\ Sends(c, file \o FirstBytes(C, k))
            /\ out' = [out EXCEPT ![c] = Written(o, k)]
    BY DEF WriteBuffer
  <1> DEFINE new == Written(o, k)
             rest == retrieve(o.buffer, k)
  <1>4. k \in 0..Len(C) /\ FirstBytes(C, k) \in Seq(Byte) /\ RestBytes(C, k) \in Seq(Byte)
    BY <1>1, <1>2, <1>3, Parts
  <1>5. file \o FirstBytes(C, k) \in Seq(Byte)
    BY <1>4, ConcatProperties
  <1>6. Grown(wire, wire', c, file \o FirstBytes(C, k))
    BY <1>3, <1>5, Extended DEF Sends, ShapeInv
  <1>7. CASE k = 0
    <2>1. new = o /\ RestBytes(C, k) = C
      BY <1>1, <1>7, WholeParts DEF Written
    <2>2. Only(c) /\ out'[c] = o
      BY <1>1, <1>3, <2>1 DEF ShapeInv, Only
    <2>3. ~(k > 0)
      BY <1>7, SMTT(30)
    <2>4. Wrote(c, file, k)
      BY <1>1, <1>6, <2>1, <2>2, <2>3 DEF Wrote, Waiting
    <2> QED
      BY <1>4, <2>4 DEF Waiting
  <1>8. CASE k # 0
    <2>1. k \in 1..readableBytes(o.buffer)
      BY <1>2, <1>4, <1>8, SMTT(30)
    <2>2. /\ rest \in Buffers(Byte) /\ IsBuffer(rest, Byte)
          /\ Contents(rest) = RestBytes(C, k)
      BY <1>1, <2>1, Retrieved
    <2> DEFINE drained == readableBytes(rest) = 0
    <2>3. new = [o EXCEPT !.buffer = rest, !.writing = ~drained,
                          !.shut = o.shut \/ (drained /\ o.state = "kDisconnecting")]
      BY <1>8 DEF Written
    <2> HIDE DEF rest, drained
    <2>4. drained \in BOOLEAN
      BY DEF drained
    <2>5. /\ new \in Outputs /\ new.buffer = rest /\ new.state = o.state /\ new.closed = o.closed
          /\ new.writing <=> ~drained
          /\ new.shut <=> o.shut \/ (drained /\ o.state = "kDisconnecting")
      BY <1>1, <2>2, <2>3, <2>4 DEF Outputs
    <2> HIDE DEF new
    <2>6. Good(new)
      BY <1>1, <1>4, <2>2, <2>5 DEF Good
    <2>7. drained <=> RestBytes(C, k) = <<>>
      BY <2>2, <2>5, <2>6, Readable DEF drained
    <2>8. Only(c) /\ out'[c] = new
      BY <1>3, <2>5 DEF ShapeInv, Only, new
    <2>9. Wrote(c, file, k)
      BY <1>6, <1>8, <2>2, <2>5, <2>6, <2>7, <2>8 DEF Wrote, Waiting
    <2> QED
      BY <1>4, <2>9 DEF Waiting
  <1> QED
    BY <1>7, <1>8

(* It writes nothing once handleClose has dropped the write interest. *)
LEMMA WriteClosedIs ==
    ASSUME ShapeInv, NEW c \in Conns, NEW file \in Seq(Byte), NEW o, Found(c, o), o.closed, ~o.writing,
           WriteBuffer(c, o, file)
    PROVE  \E k \in 0..Len(Waiting(c)) : Wrote(c, file, k)
  <1>1. Good(o) /\ o \in Outputs /\ o.buffer = out[c].buffer
    BY FoundIs
  <1>2. Sends(c, file) /\ out' = [out EXCEPT ![c] = o]
    BY DEF WriteBuffer
  <1>3. Only(c) /\ out'[c] = o
    BY <1>1, <1>2, Replaces
  <1>4. Waiting(c) \in Seq(Byte) /\ Len(Waiting(c)) \in Nat
    <2>1. Waiting(c) \in Seq(Byte)
      BY DEF ShapeInv, Good, Waiting
    <2> QED
      BY <2>1, LenProperties
  <1>5. /\ FirstBytes(Waiting(c), 0) = <<>> /\ RestBytes(Waiting(c), 0) = Waiting(c)
        /\ file \o <<>> = file
    BY <1>4, WholeParts, ConcatEmptySeq
  <1>6. Grown(wire, wire', c, file)
    BY <1>2, Extended DEF Sends, ShapeInv
  <1>7. Waiting(c)' = Waiting(c)
    BY <1>1, <1>3 DEF Waiting
  <1>8. Wrote(c, file, 0)
    BY <1>1, <1>3, <1>5, <1>6, <1>7 DEF Wrote
  <1>9. 0 \in 0..Len(Waiting(c))
    BY <1>4, SMTT(30)
  <1> QED
    BY <1>8, <1>9

(* handleWrite's write of the buffer, on an open connection and on one its file's
   error, or an earlier handleClose, has closed. *)
LEMMA WriteBufferIs ==
    ASSUME ShapeInv, NEW c \in Conns, NEW file \in Seq(Byte), NEW o, Found(c, o), out[c].writing,
           WriteBuffer(c, o, file)
    PROVE  \E k \in 0..Len(Waiting(c)) : Wrote(c, file, k)
  <1>1. o = out[c] \/ (o.closed /\ ~o.writing)
    BY FoundIs
  <1> QED
    BY <1>1, WriteOpenIs, WriteClosedIs
-----------------------------------------------------------------------------
(* send or sendFile, run on the loop's thread. *)
InLoop(c, kind, bytes) ==
    \/ kind = "data" /\ SendInLoop(c, bytes) /\ UNCHANGED pendingFile
    \/ kind = "file" /\ SendFileInLoop(c, bytes)

(* It passed on the bytes. *)
Handled(c, kind, bytes) ==
    \/ kind = "data" /\ UNCHANGED pendingFile /\ \E k \in 0..Len(bytes) : Sent(c, bytes, k)
    \/ kind = "file" /\ \E k \in 0..Len(bytes) : FileSent(c, bytes, k)
    \/ kind = "file" /\ GivenUp(c, bytes)

(* shutdown or shutdownInLoop was run. *)
HalfCloses(c) ==
    /\ Only(c) /\ Good(out'[c])
    /\ out'[c].state # "kConnected" /\ out'[c].closed = out[c].closed
    /\ out'[c].writing = out[c].writing /\ out'[c].buffer = out[c].buffer
    /\ out'[c].shut => out[c].shut \/ ~out[c].writing
    /\ UNCHANGED <<wire, requested, pendingFile>>

(* handleWrite wrote: the file first, and the buffer once the file is gone. *)
Writes(c) ==
    /\ out[c].writing /\ UNCHANGED requested
    /\ \/ /\ pendingFile = <<>> /\ UNCHANGED pendingFile
          /\ \E k \in 0..Len(Waiting(c)) : Wrote(c, <<>>, k)
       \/ /\ pendingFile # <<>> /\ Continues(c)
          /\ \E k \in 0..(Len(pendingFile) - 1) :
               /\ Grown(wire, wire', c, FirstBytes(pendingFile, k))
               /\ pendingFile' = RestBytes(pendingFile, k)
       \/ /\ pendingFile # <<>> /\ pendingFile' = <<>>
          /\ \E file \in {pendingFile, <<>>} : \E k \in 0..Len(Waiting(c)) : Wrote(c, file, k)

(* The connection was lost before a byte moved. *)
Lost(c) == HungUp(c) /\ UNCHANGED <<wire, requested, pendingFile>>

(* What a step does to the connections and to the file. *)
Effect ==
    \/ \E c \in Conns, kind \in Kinds, n \in 1..MaxItems :
         out[c].state = "kConnected" /\ Fresh(Bytes(kind, n)) /\ Handled(c, kind, Bytes(kind, n))
    \/ \E c \in Conns : Lost(c) \/ HalfCloses(c) \/ Writes(c)
    \/ UNCHANGED <<out, wire, requested, pendingFile>>

(* The inductive invariant of the requests and of the write interest. *)
BytesInv == ShapeInv /\ FreshInv /\ DrainInv

(* send and sendFile on the loop's thread pass on the bytes, or the connection is lost. *)
LEMMA InLoopIs ==
    ASSUME ShapeInv, NEW c \in Conns, NEW kind \in Kinds, NEW n \in 1..MaxItems,
           out[c].state = "kConnected", InLoop(c, kind, Bytes(kind, n))
    PROVE  Handled(c, kind, Bytes(kind, n)) \/ Lost(c)
  <1>1. Bytes(kind, n) \in Seq(Byte) /\ Bytes(kind, n) # <<>>
    BY BytesAre
  <1>2. CASE kind = "data" /\ SendInLoop(c, Bytes(kind, n)) /\ UNCHANGED pendingFile
    BY <1>1, <1>2, SendInLoopIs DEF Handled, Lost
  <1>3. CASE kind = "file" /\ SendFileInLoop(c, Bytes(kind, n))
    BY <1>1, <1>3, SendFileInLoopIs DEF Handled, Lost
  <1> QED
    BY <1>2, <1>3 DEF InLoop

(* handleWrite writes what waits, or the connection is lost. *)
LEMMA WriteOnIs ==
    ASSUME ShapeInv, NEW c \in Conns, NEW o, Found(c, o), out[c].writing, WriteOn(c, o)
    PROVE  Writes(c) \/ Lost(c)
  <1>1. pendingFile \in Seq(Byte) /\ <<>> \in Seq(Byte) /\ Len(pendingFile) \in Nat
    BY EmptySeq, LenProperties DEF ShapeInv
  <1>2. out[c].writing /\ UNCHANGED requested
    BY DEF WriteOn
  <1>3. CASE pendingFile = <<>> /\ WriteBuffer(c, o, <<>>) /\ UNCHANGED pendingFile
    BY <1>1, <1>2, <1>3, WriteBufferIs DEF Writes
  <1>4. CASE /\ pendingFile # <<>> /\ out' = [out EXCEPT ![c] = [o EXCEPT !.writing = TRUE]]
             /\ \E k \in 0..(Len(pendingFile) - 1) :
                  Sends(c, FirstBytes(pendingFile, k)) /\ pendingFile' = RestBytes(pendingFile, k)
    <2>1. PICK k \in 0..(Len(pendingFile) - 1) :
            Sends(c, FirstBytes(pendingFile, k)) /\ pendingFile' = RestBytes(pendingFile, k)
      BY <1>4
    <2>2. k \in 0..Len(pendingFile)
      BY <1>1, SMTT(30)
    <2>3. FirstBytes(pendingFile, k) \in Seq(Byte)
      BY <1>1, <2>2, Parts
    <2>4. Grown(wire, wire', c, FirstBytes(pendingFile, k))
      BY <2>1, <2>3, Extended DEF Sends, ShapeInv
    <2>5. Continues(c)
      <3> DEFINE new == [o EXCEPT !.writing = TRUE]
      <3>1. Good(o) /\ o \in Outputs /\ o.buffer = out[c].buffer /\ (o = out[c] \/ o.closed)
        BY FoundIs
      <3>2. /\ new \in Outputs /\ new.state = o.state /\ new.closed = o.closed
            /\ new.buffer = o.buffer /\ new.shut = o.shut /\ new.writing = TRUE
        BY <3>1 DEF Outputs
      <3>3. out' = [out EXCEPT ![c] = new]
        BY <1>4
      <3> HIDE DEF new
      <3>4. Only(c) /\ out'[c] = new
        BY <3>2, <3>3, Replaces
      <3>5. Good(new)
        BY <3>1, <3>2 DEF Good
      <3> QED
        BY <3>1, <3>2, <3>4, <3>5 DEF Continues
    <2> QED
      BY <1>2, <1>4, <2>1, <2>4, <2>5 DEF Writes
  <1>5. CASE pendingFile # <<>> /\ pendingFile' = <<>> /\ WriteBuffer(c, o, pendingFile)
    BY <1>1, <1>2, <1>5, WriteBufferIs DEF Writes
  <1>6. CASE /\ pendingFile # <<>> /\ out' = [out EXCEPT ![c] = Closed(o)]
             /\ UNCHANGED <<wire, pendingFile>>
    BY <1>2, <1>6, Closes DEF Lost
  <1>7. CASE pendingFile # <<>> /\ pendingFile' = <<>> /\ WriteBuffer(c, o, <<>>)
    BY <1>1, <1>2, <1>7, WriteBufferIs DEF Writes
  <1> QED
    BY <1>3, <1>4, <1>5, <1>6, <1>7 DEF WriteOn

(* shutdown and shutdownInLoop change only the state and the half-close. *)
LEMMA ShutdownIs ==
    ASSUME ShapeInv, NEW c \in Conns, NEW s \in States, NEW h \in BOOLEAN,
           s # "kConnected", s = "kDisconnected" => out[c].closed,
           h => out[c].shut \/ ~out[c].writing,
           out' = [out EXCEPT ![c] = [out[c] EXCEPT !.state = s, !.shut = h]],
           UNCHANGED <<wire, requested, pendingFile>>
    PROVE  HalfCloses(c)
  <1> DEFINE new == [out[c] EXCEPT !.state = s, !.shut = h]
  <1>1. Good(out[c]) /\ out[c] \in Outputs
    BY DEF ShapeInv, Good
  <1>2. /\ new \in Outputs /\ new.state = s /\ new.shut = h
        /\ new.writing = out[c].writing /\ new.buffer = out[c].buffer /\ new.closed = out[c].closed
    BY <1>1 DEF Outputs
  <1> HIDE DEF new
  <1>3. Only(c) /\ out'[c] = new
    BY <1>2 DEF ShapeInv, Only, new
  <1>4. Good(new)
    BY <1>1, <1>2 DEF Good
  <1> QED
    BY <1>2, <1>3, <1>4 DEF HalfCloses
-----------------------------------------------------------------------------
(* Only the requests in X are new. *)
AsksOnly(X) ==
    /\ \A d \in Conns : Asked(requested'[d]) \subseteq Asked(requested[d]) \cup X
    /\ Asked(pendingFile') \subseteq Asked(pendingFile) \cup X

(* What queueInLoop is given. *)
Functor(kind, c, bytes) == [kind |-> kind, conn |-> c, bytes |-> bytes]

(* What a step does to the loop's functors and to the numbers given. *)
Queueing ==
    \/ /\ items < MaxItems /\ items' = items + 1
       /\ \/ UNCHANGED queue /\ AsksOnly({items + 1})
          \/ /\ \E c \in Conns, kind \in Kinds :
                  queue' = Append(queue, Functor(kind, c, Bytes(kind, items + 1)))
             /\ AsksOnly({})
    \/ /\ UNCHANGED items
       /\ \/ UNCHANGED queue /\ AsksOnly({})
          \/ queue # <<>> /\ queue' = Tail(queue) /\ AsksOnly(Asked(Head(queue).bytes))
          \/ /\ \E c \in Conns :
                  out'[c].state # "kConnected" /\ queue' = Append(queue, Functor("shutdown", c, <<>>))
             /\ AsksOnly({})

(* The functors that are posted. *)
LEMMA FunctorIs ==
    ASSUME NEW c \in Conns
    PROVE  /\ Functor("shutdown", c, <<>>) \in Functors
           /\ \A kind \in Kinds : ShapeInv /\ items < MaxItems =>
                 Functor(kind, c, Bytes(kind, items + 1)) \in Functors
  <1>1. <<>> \in Seq(Byte)
    BY EmptySeq
  <1>2. ASSUME NEW kind \in Kinds, ShapeInv, items < MaxItems
        PROVE  Functor(kind, c, Bytes(kind, items + 1)) \in Functors
    <2>1. items \in 0..MaxItems /\ MaxItems \in Nat
      BY <1>2, OutputAssumption DEF ShapeInv
    <2>2. items + 1 \in 1..MaxItems
      BY <1>2, <2>1, SMTT(30)
    <2>3. Bytes(kind, items + 1) \in Seq(Byte)
      BY <2>2, BytesAre
    <2> QED
      BY <2>3 DEF Functor, Functors
  <1> QED
    BY <1>1, <1>2 DEF Functor, Functors

(* queueInLoop: the functors of a loop with one more. *)
LEMMA QueueAppend ==
    ASSUME NEW q \in Seq(Functors), NEW f \in Functors, NEW i \in DOMAIN Append(q, f)
    PROVE  \/ i \in DOMAIN q /\ Append(q, f)[i] = q[i]
           \/ i = Len(q) + 1 /\ Append(q, f)[i] = f
  <1>1. /\ Append(q, f) \in Seq(Functors) /\ Len(Append(q, f)) = Len(q) + 1
        /\ \A j \in 1..Len(q) : Append(q, f)[j] = q[j]
        /\ Append(q, f)[Len(q) + 1] = f
    BY AppendProperties, SMTT(30)
  <1>2. Len(q) \in Nat /\ DOMAIN q = 1..Len(q) /\ DOMAIN Append(q, f) = 1..(Len(q) + 1)
    BY <1>1, LenProperties
  <1>3. i \in 1..Len(q) \/ i = Len(q) + 1
    BY <1>2, SMTT(30)
  <1> QED
    BY <1>1, <1>2, <1>3

(* doPendingFunctors: the functors left when the first one has run. *)
LEMMA QueueTail ==
    ASSUME NEW q \in Seq(Functors), q # <<>>
    PROVE  /\ 1 \in DOMAIN q /\ Head(q) = q[1] /\ Head(q) \in Functors
           /\ \A i \in DOMAIN Tail(q) :
                /\ i + 1 \in DOMAIN q /\ i + 1 # 1 /\ Tail(q)[i] = q[i + 1]
                /\ \A j \in DOMAIN Tail(q) : i # j => i + 1 # j + 1
  <1>1. /\ Tail(q) \in Seq(Functors) /\ Len(Tail(q)) = Len(q) - 1 /\ Head(q) \in Functors
        /\ \A i \in 1..Len(Tail(q)) : Tail(q)[i] = q[i + 1]
    BY HeadTailProperties
  <1>2. /\ Len(q) \in Nat \ {0} /\ DOMAIN q = 1..Len(q) /\ DOMAIN Tail(q) = 1..(Len(q) - 1)
    BY <1>1, LenProperties, EmptySeq
  <1>3. 1 \in DOMAIN q
    BY <1>2, SMTT(30)
  <1>4. Head(q) = q[1]
    BY SMTT(30)
  <1>5. ASSUME NEW i \in DOMAIN Tail(q), NEW j \in DOMAIN Tail(q)
        PROVE  i + 1 \in DOMAIN q /\ i + 1 # 1 /\ (i # j => i + 1 # j + 1)
    BY <1>2, <1>5, SMTT(30)
  <1> QED
    BY <1>1, <1>2, <1>3, <1>4, <1>5

(* send and sendFile bring in the bytes of one request. *)
LEMMA HandledAsks ==
    ASSUME ShapeInv, NEW c \in Conns, NEW kind \in Kinds, NEW n \in 1..MaxItems,
           Handled(c, kind, Bytes(kind, n)) \/ Lost(c)
    PROVE  AsksOnly({n})
  <1> DEFINE b == Bytes(kind, n)
  <1>1. b \in Seq(Byte) /\ Asked(b) = {n}
    BY BytesAre
  <1> HIDE DEF b
  <1>2. ASSUME Grown(requested, requested', c, b)
        PROVE  \A d \in Conns : Asked(requested'[d]) \subseteq Asked(requested[d]) \cup {n}
    <2>1. requested[c] \in Seq(Byte)
      BY DEF ShapeInv
    <2>2. Asked(requested[c] \o b) = Asked(requested[c]) \cup {n}
      BY <1>1, <2>1, AskedConcat
    <2> QED
      BY <1>2, <2>2 DEF Grown
  <1>3. CASE \E k \in 0..Len(b) : Sent(c, b, k) /\ UNCHANGED pendingFile
    BY <1>2, <1>3 DEF Sent, AsksOnly
  <1>4. CASE \E k \in 0..Len(b) : FileSent(c, b, k)
    <2>1. PICK k \in 0..Len(b) : FileSent(c, b, k)
      BY <1>4
    <2>2. Asked(RestBytes(b, k)) \subseteq {n}
      BY <1>1, AskedParts
    <2>3. Len(b) \in Nat
      BY <1>1, LenProperties
    <2>4. k < Len(b) \/ k = Len(b)
      BY <2>3, SMTT(30)
    <2>5. pendingFile' = pendingFile \/ pendingFile' = RestBytes(b, k)
      BY <2>1, <2>4 DEF FileSent
    <2> QED
      BY <1>2, <2>1, <2>2, <2>5 DEF FileSent, AsksOnly
  <1>5. CASE Lost(c)
    BY <1>5 DEF Lost, AsksOnly
  <1>6. CASE GivenUp(c, b)
    BY <1>2, <1>6 DEF GivenUp, AsksOnly
  <1> QED
    BY <1>3, <1>4, <1>5, <1>6 DEF Handled, b

(* handleWrite brings in none. *)
LEMMA WritesAsks ==
    ASSUME ShapeInv, NEW c \in Conns, Writes(c) \/ Lost(c)
    PROVE  AsksOnly({})
  <1>1. Asked(<<>>) = {}
    BY AskedEmpty
  <1>2. ASSUME NEW k \in 0..(Len(pendingFile) - 1), pendingFile' = RestBytes(pendingFile, k)
        PROVE  Asked(pendingFile') \subseteq Asked(pendingFile)
    <2>1. pendingFile \in Seq(Byte) /\ Len(pendingFile) \in Nat
      BY LenProperties DEF ShapeInv
    <2>2. k \in 0..Len(pendingFile)
      BY <2>1, SMTT(30)
    <2> QED
      BY <1>2, <2>1, <2>2, AskedParts
  <1>3. CASE Writes(c)
    <2>1. Asked(pendingFile') \subseteq Asked(pendingFile)
      BY <1>1, <1>2, <1>3 DEF Writes
    <2> QED
      BY <1>3, <2>1 DEF Writes, AsksOnly
  <1>4. CASE Lost(c)
    BY <1>4 DEF Lost, AsksOnly
  <1> QED
    BY <1>3, <1>4

(* Every step of the output side, of either thread, is one of those. *)
LEMMA StepIs ==
    ASSUME BytesInv, [Next]_vars
    PROVE  Effect /\ Queueing
  <1>1. ASSUME NEW c \in Conns, NEW kind \in Kinds, Request(c), InLoop(c, kind, Bytes(kind, items')),
               UNCHANGED queue
        PROVE  Effect /\ Queueing
    <2> DEFINE n == items + 1
    <2>1. /\ items < MaxItems /\ items' = n /\ n \in 1..MaxItems /\ n \notin 1..items
          /\ out[c].state = "kConnected"
      <3>1. items \in 0..MaxItems /\ MaxItems \in Nat /\ items < MaxItems /\ items' = items + 1
        BY <1>1, OutputAssumption DEF BytesInv, ShapeInv, Request
      <3>2. n \in 1..MaxItems /\ n \notin 1..items
        BY <3>1, SMTT(30)
      <3> QED
        BY <1>1, <3>1, <3>2 DEF Request
    <2> HIDE DEF n
    <2>2. Handled(c, kind, Bytes(kind, n)) \/ Lost(c)
      BY <1>1, <2>1, InLoopIs DEF BytesInv
    <2>3. AsksOnly({n})
      BY <2>1, <2>2, HandledAsks DEF BytesInv
    <2>4. Fresh(Bytes(kind, n))
      <3>1. Asked(Bytes(kind, n)) = {n}
        BY <2>1, BytesAre
      <3> QED
        BY <2>1, <3>1 DEF Fresh, BytesInv, FreshInv
    <2>5. Effect
      BY <2>1, <2>2, <2>4 DEF Effect
    <2> QED
      BY <1>1, <2>1, <2>3, <2>5 DEF Queueing, n
  <1>2. ASSUME NEW c \in Conns, Send(c) PROVE Effect /\ Queueing
    BY <1>1, <1>2 DEF Send, InLoop, Kinds
  <1>3. ASSUME NEW c \in Conns, SendFile(c) PROVE Effect /\ Queueing
    BY <1>1, <1>3 DEF SendFile, InLoop, Kinds
  <1>4. AsksOnly({}) \/ ~UNCHANGED <<requested, pendingFile>>
    BY DEF AsksOnly
  <1>5. ASSUME NEW c \in Conns, Shutdown(c) PROVE Effect /\ Queueing
    <2> DEFINE o == out[c]
               h == o.shut \/ ~o.writing
    <2>1. o \in Outputs /\ o.state = "kConnected"
      BY <1>5 DEF Shutdown, BytesInv, ShapeInv
    <2>2. out' = [out EXCEPT ![c] = [o EXCEPT !.state = "kDisconnecting", !.shut = h]]
      BY <1>5, <2>1 DEF Shutdown, ShutdownInLoop, Outputs
    <2>3. HalfCloses(c)
      <3>1. h \in BOOLEAN /\ "kDisconnecting" \in States
        BY <2>1 DEF States, Outputs
      <3> QED
        BY <1>5, <2>1, <2>2, <3>1, ShutdownIs DEF Shutdown, BytesInv
    <2> QED
      BY <1>4, <1>5, <2>3 DEF Effect, Queueing, Shutdown
  <1>6. ASSUME NEW c \in Conns, NEW kind \in Kinds, PostRequest(c, kind) PROVE Effect /\ Queueing
    BY <1>4, <1>6 DEF PostRequest, Request, Effect, Queueing, Functor
  <1>7. ASSUME NEW c \in Conns, PostShutdown(c) PROVE Effect /\ Queueing
    <2> DEFINE o == out[c]
    <2>1. o \in Outputs
      BY DEF BytesInv, ShapeInv
    <2>2. out' = [out EXCEPT ![c] = [o EXCEPT !.state = "kDisconnecting", !.shut = o.shut]]
      BY <1>7, <2>1 DEF PostShutdown, Outputs
    <2>3. HalfCloses(c)
      <3>1. o.shut \in BOOLEAN /\ "kDisconnecting" \in States
        BY <2>1 DEF States, Outputs
      <3> QED
        BY <1>7, <2>1, <2>2, <3>1, ShutdownIs DEF PostShutdown, BytesInv
    <2>4. out'[c].state # "kConnected"
      BY <2>3 DEF HalfCloses
    <2> QED
      BY <1>4, <1>7, <2>3, <2>4 DEF Effect, Queueing, PostShutdown, Functor
  <1>8. ASSUME NEW c \in Conns, HandleWrite(c) \/ CloseThenWrite(c) PROVE Effect /\ Queueing
    <2>1. PICK o : Found(c, o) /\ out[c].writing /\ WriteOn(c, o)
      BY <1>8 DEF HandleWrite, CloseThenWrite, Found
    <2>2. Writes(c) \/ Lost(c)
      BY <2>1, WriteOnIs DEF BytesInv
    <2>3. AsksOnly({})
      BY <2>2, WritesAsks DEF BytesInv
    <2> QED
      BY <2>1, <2>2, <2>3 DEF Effect, Queueing, WriteOn
  <1>9. ASSUME NEW c \in Conns, PeerCloses(c) PROVE Effect /\ Queueing
    <2>1. Lost(c)
      BY <1>9, HandleCloseIs DEF PeerCloses, Lost, BytesInv
    <2> QED
      BY <1>4, <1>9, <2>1 DEF Effect, Queueing, PeerCloses
  <1>10. ASSUME RunFunctor PROVE Effect /\ Queueing
    <2> DEFINE f == Head(queue)
               c == f.conn
               o == out[c]
    <2>1. queue \in Seq(Functors) /\ queue # <<>> /\ queue' = Tail(queue) /\ UNCHANGED items
      BY <1>10 DEF RunFunctor, BytesInv, ShapeInv
    <2>2. f \in Functors /\ f = queue[1] /\ 1 \in DOMAIN queue
      BY <2>1, QueueTail
    <2> HIDE DEF f
    <2>3. c \in Conns /\ f.kind \in Kinds \cup {"shutdown"} /\ o \in Outputs
      BY <2>2 DEF Functors, BytesInv, ShapeInv
    <2>4. CASE f.kind # "shutdown" /\ out[c].state = "kConnected" /\ InLoop(c, f.kind, f.bytes)
      <3>1. PICK n \in 1..items : f.bytes = Bytes(f.kind, n)
        BY <2>2, <2>4 DEF BytesInv, FreshInv
      <3>2. n \in 1..MaxItems
        BY OutputAssumption, SMTT(30) DEF BytesInv, ShapeInv
      <3>3. f.kind \in Kinds
        BY <2>3, <2>4
      <3>4. Handled(c, f.kind, Bytes(f.kind, n)) \/ Lost(c)
        BY <2>3, <2>4, <3>1, <3>2, <3>3, InLoopIs DEF BytesInv
      <3>5. AsksOnly({n}) /\ Asked(f.bytes) = {n}
        BY <2>3, <3>1, <3>2, <3>3, <3>4, HandledAsks, BytesAre DEF BytesInv
      <3>6. Fresh(Bytes(f.kind, n))
        BY <2>2, <3>1 DEF BytesInv, FreshInv
      <3>7. Effect
        BY <2>3, <2>4, <3>2, <3>3, <3>4, <3>6 DEF Effect
      <3> QED
        BY <2>1, <3>5, <3>7 DEF Queueing, f
    <2>5. ASSUME UNCHANGED <<requested, pendingFile>> PROVE AsksOnly(Asked(f.bytes))
      BY <2>5 DEF AsksOnly
    <2>6. CASE UNCHANGED <<out, wire, requested, pendingFile>>
      BY <2>1, <2>5, <2>6 DEF Effect, Queueing, f
    <2>7. CASE /\ f.kind = "shutdown" /\ out' = [out EXCEPT ![c] = ShutdownInLoop(@)]
               /\ UNCHANGED <<wire, requested, pendingFile>>
      <3> DEFINE h == o.shut \/ ~o.writing
      <3>1. o.state # "kConnected"
        BY <2>2, <2>7 DEF BytesInv, DrainInv
      <3>2. out' = [out EXCEPT ![c] = [o EXCEPT !.state = o.state, !.shut = h]]
        BY <2>3, <2>7 DEF ShutdownInLoop, Outputs
      <3>3. HalfCloses(c)
        <4>1. h \in BOOLEAN /\ o.state \in States /\ (o.state = "kDisconnected" => o.closed)
          BY <2>3 DEF Outputs, Good, BytesInv, ShapeInv
        <4> QED
          BY <2>3, <2>7, <3>1, <3>2, <4>1, ShutdownIs DEF BytesInv
      <3> QED
        BY <2>1, <2>3, <2>5, <2>7, <3>3 DEF Effect, Queueing, f
    <2> QED
      BY <1>10, <2>4, <2>6, <2>7 DEF RunFunctor, InLoop, f
  <1>11. CASE (\E c \in Conns : TestShutdown(c)) \/ UNCHANGED vars
    BY <1>4, <1>11 DEF TestShutdown, vars, Effect, Queueing
  <1> QED
    BY <1>2, <1>3, <1>5, <1>6, <1>7, <1>8, <1>9, <1>10, <1>11 DEF Next

(* Only TestShutdown adds to the connections being shut down. *)
LEMMA ClosingStep ==
    ASSUME ShapeInv, [Next]_vars
    PROVE  closing' \subseteq Conns
  <1>1. closing \subseteq Conns
    BY DEF ShapeInv
  <1> QED
    BY <1>1 DEF Next, vars, RunFunctor, Send, SendFile, Shutdown, PostRequest, TestShutdown, PostShutdown,
                HandleWrite, CloseThenWrite, WriteOn, PeerCloses

(* The step keeps the types, and the indices of the buffers in order. *)
LEMMA ShapeStep ==
    ASSUME BytesInv, Effect, Queueing, closing' \subseteq Conns
    PROVE  ShapeInv'
  <1>1. ShapeInv
    BY DEF BytesInv
  <1>2. ASSUME NEW c \in Conns, Only(c), Good(out'[c])
        PROVE  out' \in [Conns -> Outputs] /\ \A d \in Conns : Good(out'[d])
    BY <1>1, <1>2 DEF Only, ShapeInv
  <1>3. pendingFile \in Seq(Byte) /\ <<>> \in Seq(Byte) /\ Len(pendingFile) \in Nat
    BY <1>1, EmptySeq, LenProperties DEF ShapeInv
  <1> DEFINE Shape == /\ out' \in [Conns -> Outputs] /\ \A d \in Conns : Good(out'[d])
                      /\ wire' \in [Conns -> Seq(Byte)] /\ requested' \in [Conns -> Seq(Byte)]
                      /\ pendingFile' \in Seq(Byte)
  <1>4. ASSUME NEW c \in Conns, NEW kind \in Kinds, NEW n \in 1..MaxItems, Handled(c, kind, Bytes(kind, n))
        PROVE  Shape
    <2> DEFINE b == Bytes(kind, n)
    <2>1. b \in Seq(Byte) /\ Len(b) \in Nat
      BY BytesAre, LenProperties
    <2> HIDE DEF b
    <2>2. CASE UNCHANGED pendingFile /\ \E k \in 0..Len(b) : Sent(c, b, k)
      BY <1>2, <1>3, <2>2 DEF Sent, Grown
    <2>3. CASE \E k \in 0..Len(b) : FileSent(c, b, k)
      <3>1. PICK k \in 0..Len(b) : FileSent(c, b, k)
        BY <2>3
      <3>2. RestBytes(b, k) \in Seq(Byte)
        BY <2>1, Parts
      <3>3. k < Len(b) \/ k = Len(b)
        BY <2>1, SMTT(30)
      <3> QED
        BY <1>2, <1>3, <3>1, <3>2, <3>3 DEF FileSent, Grown
    <2>4. CASE GivenUp(c, b)
      BY <1>1, <1>2, <1>3, <2>4 DEF GivenUp, Grown, ShapeInv
    <2> QED
      BY <1>4, <2>2, <2>3, <2>4 DEF Handled, b
  <1>5. ASSUME NEW c \in Conns, Lost(c) \/ HalfCloses(c) PROVE Shape
    BY <1>1, <1>2, <1>5 DEF Lost, HungUp, HalfCloses, ShapeInv
  <1>6. ASSUME NEW c \in Conns, Writes(c) PROVE Shape
    <2>1. requested' \in [Conns -> Seq(Byte)]
      BY <1>1, <1>6 DEF Writes, ShapeInv
    <2>2. ASSUME NEW k \in 0..(Len(pendingFile) - 1) PROVE RestBytes(pendingFile, k) \in Seq(Byte)
      <3>1. k \in 0..Len(pendingFile)
        BY <1>3, SMTT(30)
      <3> QED
        BY <1>3, <3>1, Parts
    <2>3. pendingFile' \in Seq(Byte)
      BY <1>3, <1>6, <2>2 DEF Writes
    <2>4. wire' \in [Conns -> Seq(Byte)]
      BY <1>6 DEF Writes, Wrote, Grown
    <2>5. out' \in [Conns -> Outputs] /\ \A d \in Conns : Good(out'[d])
      <3>1. Only(c) /\ Good(out'[c])
        BY <1>6 DEF Writes, Wrote, Continues
      <3> QED
        BY <1>2, <3>1
    <2> QED
      BY <2>1, <2>3, <2>4, <2>5
  <1>7. ASSUME UNCHANGED <<out, wire, requested, pendingFile>> PROVE Shape
    BY <1>1, <1>7 DEF ShapeInv
  <1>8. Shape
    BY <1>4, <1>5, <1>6, <1>7 DEF Effect
  <1> HIDE DEF Shape
  <1>9. items' \in 0..MaxItems
    <2>1. items \in 0..MaxItems /\ MaxItems \in Nat
      BY <1>1, OutputAssumption DEF ShapeInv
    <2>2. items' = items \/ (items < MaxItems /\ items' = items + 1)
      BY DEF Queueing
    <2> QED
      BY <2>1, <2>2, SMTT(30)
  <1>10. queue' \in Seq(Functors)
    <2>1. queue \in Seq(Functors)
      BY <1>1 DEF ShapeInv
    <2>2. ASSUME queue # <<>> PROVE Tail(queue) \in Seq(Functors)
      BY <2>1, <2>2, HeadTailProperties
    <2>3. ASSUME NEW f \in Functors PROVE Append(queue, f) \in Seq(Functors)
      BY <2>1, AppendProperties
    <2> QED
      BY <1>1, <2>1, <2>2, <2>3, FunctorIs DEF Queueing
  <1> QED
    BY <1>8, <1>9, <1>10 DEF ShapeInv, Shape, Good

(* The step keeps the write interest of every connection that needs it. *)
LEMMA DrainStep ==
    ASSUME BytesInv, Effect, Queueing, ShapeInv'
    PROVE  DrainInv'
  <1>1. ShapeInv /\ DrainInv
    BY DEF BytesInv
  <1> DEFINE Quiet(d) == Waiting(d) = <<>> /\ Asked(pendingFile) \cap Asked(requested[d]) = {}
             Idle(d) == ~out[d].closed /\ ~out[d].writing => Quiet(d)
             Done(d) == out[d].shut /\ ~out[d].closed =>
                          out[d].state = "kDisconnecting" /\ ~out[d].writing
             Kept(d) == Idle(d)' /\ Done(d)' /\ (out'[d].state = "kConnected" => out[d].state = "kConnected")
  <1>2. \A d \in Conns : Idle(d) /\ Done(d)
    BY <1>1 DEF DrainInv
  <1>3. ASSUME NEW c \in Conns, NEW kind \in Kinds, NEW n \in 1..MaxItems, NEW d \in Conns,
               out[c].state = "kConnected", Fresh(Bytes(kind, n)), Handled(c, kind, Bytes(kind, n))
        PROVE  Kept(d)
    <2> DEFINE b == Bytes(kind, n)
    <2>1. b \in Seq(Byte) /\ Len(b) \in Nat /\ Len(b) # 0 /\ Fresh(b)
      BY <1>3, BytesAre, LenProperties, EmptyIs
    <2>2. ~out[c].shut /\ ~out[c].closed
      BY <1>1, <1>2, <1>3 DEF ShapeInv, Good
    <2> HIDE DEF b
    <2>3. ASSUME Grown(requested, requested', c, b)
          PROVE  /\ Asked(requested'[c]) = Asked(requested[c]) \cup Asked(b)
                 /\ d # c => requested'[d] = requested[d]
      <3>1. requested[c] \in Seq(Byte)
        BY <1>1 DEF ShapeInv
      <3> QED
        BY <2>1, <2>3, <3>1, AskedConcat DEF Grown
    <2>4. CASE UNCHANGED pendingFile /\ \E k \in 0..Len(b) : Sent(c, b, k)
      <3>1. PICK k \in 0..Len(b) : Sent(c, b, k)
        BY <2>4
      <3>2. CASE d # c
        BY <1>2, <2>3, <2>4, <3>1, <3>2 DEF Sent, Only, Waiting
      <3>3. CASE d = c
        <4>1. Done(d)' /\ out'[d].state = "kConnected"
          BY <1>3, <2>2, <3>1, <3>3 DEF Sent
        <4>2. ASSUME ~out'[c].writing PROVE Quiet(c)'
          <5>1. ~out[c].writing /\ ~(k < Len(b))
            BY <3>1, <4>2 DEF Sent
          <5>2. k = Len(b) /\ k > 0
            BY <2>1, <5>1, SMTT(30)
          <5>3. Waiting(c) = <<>> /\ Waiting(c)' = Waiting(c) \o RestBytes(b, k)
            BY <3>1, <5>2 DEF Sent
          <5>4. RestBytes(b, k) = <<>>
            BY <2>1, <5>2, WholeParts
          <5>5. <<>> \o <<>> = <<>>
            BY EmptySeq, ConcatEmptySeq
          <5>6. Asked(pendingFile) \cap Asked(requested[c]) = {}
            BY <1>2, <2>2, <5>1
          <5>7. Asked(pendingFile) \cap Asked(requested'[c]) = {}
            BY <2>1, <2>3, <3>1, <5>6 DEF Sent, Fresh
          <5> QED
            BY <2>4, <5>3, <5>4, <5>5, <5>7
        <4> QED
          BY <1>3, <3>3, <4>1, <4>2
      <3> QED
        BY <3>2, <3>3
    <2>5. CASE \E k \in 0..Len(b) : FileSent(c, b, k)
      <3>1. PICK k \in 0..Len(b) : FileSent(c, b, k)
        BY <2>5
      <3>2. Asked(RestBytes(b, k)) \subseteq Asked(b)
        BY <2>1, AskedParts
      <3>3. k < Len(b) \/ (k = Len(b) /\ ~(k < Len(b)))
        BY <2>1, SMTT(30)
      <3>4. pendingFile' = pendingFile \/ pendingFile' = RestBytes(b, k)
        BY <3>1, <3>3 DEF FileSent
      <3>5. CASE d # c
        <4>1. Asked(b) \cap Asked(requested[d]) = {}
          BY <2>1 DEF Fresh
        <4>2. out'[d] = out[d] /\ requested'[d] = requested[d]
          BY <2>3, <3>1, <3>5 DEF FileSent, Only
        <4>3. Quiet(d) => Quiet(d)'
          BY <3>2, <3>4, <4>1, <4>2 DEF Waiting
        <4> QED
          BY <1>2, <4>2, <4>3
      <3>6. CASE d = c
        <4>1. Done(d)' /\ out'[d].state = "kConnected"
          BY <1>3, <2>2, <3>1, <3>6 DEF FileSent
        <4>2. ASSUME ~out'[c].writing PROVE Quiet(c)'
          <5>1. k = Len(b) /\ ~(k < Len(b))
            BY <3>1, <3>3, <4>2 DEF FileSent
          <5>2. ~out[c].writing /\ Waiting(c) = <<>> /\ pendingFile' = pendingFile
            BY <3>1, <5>1 DEF FileSent
          <5>3. Waiting(c)' = <<>>
            BY <3>1, <5>2 DEF FileSent, Waiting
          <5>4. Asked(pendingFile) \cap Asked(requested[c]) = {}
            BY <1>2, <2>2, <5>2
          <5>5. Asked(pendingFile) \cap Asked(requested'[c]) = {}
            BY <2>1, <2>3, <3>1, <5>4 DEF FileSent, Fresh
          <5> QED
            BY <5>2, <5>3, <5>5
        <4> QED
          BY <1>3, <3>6, <4>1, <4>2
      <3> QED
        BY <3>5, <3>6
    <2>6. CASE GivenUp(c, b)
      <3>1. Asked(b) \cap Asked(pendingFile) = {}
        BY <2>1 DEF Fresh
      <3>2. Quiet(d) => Quiet(d)'
        BY <2>3, <2>6, <3>1 DEF GivenUp, Waiting
      <3> QED
        BY <1>2, <2>6, <3>2 DEF GivenUp
    <2> QED
      BY <1>3, <2>4, <2>5, <2>6 DEF Handled, b
  <1>4. ASSUME NEW c \in Conns, NEW d \in Conns, Lost(c) PROVE Kept(d)
    <2>1. CASE d # c
      BY <1>2, <1>4, <2>1 DEF Lost, HungUp, Only, Waiting
    <2>2. CASE d = c
      BY <1>4, <2>2 DEF Lost, HungUp, Good
    <2> QED
      BY <2>1, <2>2
  <1>5. ASSUME NEW c \in Conns, NEW d \in Conns, HalfCloses(c) PROVE Kept(d)
    <2>1. CASE d # c
      BY <1>2, <1>5, <2>1 DEF HalfCloses, Only, Waiting
    <2>2. CASE d = c
      <3>1. out'[c].state \in States /\ (out'[c].state = "kDisconnected" => out'[c].closed)
        BY <1>5 DEF HalfCloses, Good, Outputs
      <3>2. Waiting(c)' = Waiting(c)
        BY <1>5 DEF HalfCloses, Waiting
      <3> QED
        BY <1>2, <1>5, <2>2, <3>1, <3>2 DEF HalfCloses, States
    <2> QED
      BY <2>1, <2>2
  <1>6. ASSUME NEW c \in Conns, NEW d \in Conns, Writes(c) PROVE Kept(d)
    <2>1. AsksOnly({}) /\ UNCHANGED requested
      BY <1>1, <1>6, WritesAsks DEF Writes
    <2>2. Asked(pendingFile') \subseteq Asked(pendingFile)
      BY <2>1 DEF AsksOnly
    <2>3. CASE Continues(c)
      <3>1. CASE d # c
        BY <1>2, <2>1, <2>2, <2>3, <3>1 DEF Continues, Only, Waiting
      <3>2. CASE d = c
        BY <1>2, <1>6, <2>3, <3>2 DEF Continues, Writes, Good
      <3> QED
        BY <3>1, <3>2
    <2>4. CASE /\ pendingFile' = <<>>
               /\ \E file \in {pendingFile, <<>>} : \E k \in 0..Len(Waiting(c)) : Wrote(c, file, k)
      <3>1. PICK file \in {pendingFile, <<>>}, k \in 0..Len(Waiting(c)) : Wrote(c, file, k)
        BY <2>4
      <3>2. CASE d # c
        BY <1>2, <2>1, <2>2, <3>1, <3>2 DEF Wrote, Only, Waiting
      <3>3. CASE d = c /\ out'[c].closed
        BY <3>1, <3>3 DEF Wrote, Good
      <3>4. CASE d = c /\ ~out'[c].closed
        <4>1. Asked(pendingFile') = {}
          BY <2>4, AskedEmpty
        <4>2. out[c].writing /\ ~out[c].shut /\ ~out[c].closed
          BY <1>2, <1>6, <3>1, <3>4 DEF Writes, Wrote
        <4>3. k = 0 \/ k > 0
          <5>1. Len(Waiting(c)) \in Nat
            BY <1>1, LenProperties DEF Waiting, ShapeInv, Good
          <5> QED
            BY <5>1, SMTT(30)
        <4>4. CASE k = 0
          BY <3>1, <3>4, <4>2, <4>4 DEF Wrote
        <4>5. CASE k > 0
          BY <3>1, <3>4, <4>1, <4>2, <4>5 DEF Wrote
        <4> QED
          BY <4>3, <4>4, <4>5
      <3> QED
        BY <3>2, <3>3, <3>4
    <2> QED
      BY <1>6, <2>3, <2>4 DEF Writes
  <1>7. ASSUME NEW d \in Conns, UNCHANGED <<out, wire, requested, pendingFile>> PROVE Kept(d)
    BY <1>2, <1>7 DEF Waiting
  <1>8. ASSUME NEW d \in Conns PROVE Kept(d)
    <2> HIDE DEF Kept
    <2> QED
      BY <1>3, <1>4, <1>5, <1>6, <1>7 DEF Effect
  <1>9. ASSUME NEW i \in DOMAIN queue', queue'[i].kind = "shutdown"
        PROVE  out'[queue'[i].conn].state # "kConnected"
    <2>1. queue \in Seq(Functors)
      BY <1>1 DEF ShapeInv
    <2>2. ASSUME NEW j \in DOMAIN queue, queue'[i] = queue[j]
          PROVE  out'[queue'[i].conn].state # "kConnected"
      <3>1. queue[j] \in Functors
        BY <2>1, LenProperties, ElementOfSeq
      <3>2. queue[j].conn \in Conns
        BY <3>1 DEF Functors
      <3> QED
        BY <1>1, <1>8, <1>9, <2>2, <3>2 DEF DrainInv
    <2>3. CASE UNCHANGED queue
      BY <2>2, <2>3
    <2>4. CASE queue # <<>> /\ queue' = Tail(queue)
      BY <1>9, <2>1, <2>2, <2>4, QueueTail
    <2>5. ASSUME NEW c \in Conns, NEW kind \in Kinds, items < MaxItems,
                 queue' = Append(queue, Functor(kind, c, Bytes(kind, items + 1)))
          PROVE  out'[queue'[i].conn].state # "kConnected"
      <3>1. kind # "shutdown"
        BY DEF Kinds
      <3>2. Functor(kind, c, Bytes(kind, items + 1)) \in Functors
        BY <1>1, <2>5, FunctorIs
      <3>3. Functor(kind, c, Bytes(kind, items + 1)).kind = kind
        BY DEF Functor
      <3> QED
        BY <1>9, <2>1, <2>2, <2>5, <3>1, <3>2, <3>3, QueueAppend
    <2>6. ASSUME NEW c \in Conns, out'[c].state # "kConnected",
                 queue' = Append(queue, Functor("shutdown", c, <<>>))
          PROVE  out'[queue'[i].conn].state # "kConnected"
      <3>1. Functor("shutdown", c, <<>>) \in Functors
        BY FunctorIs
      <3>2. Functor("shutdown", c, <<>>).conn = c
        BY DEF Functor
      <3> QED
        BY <1>9, <2>1, <2>2, <2>6, <3>1, <3>2, QueueAppend
    <2> QED
      BY <2>3, <2>4, <2>5, <2>6 DEF Queueing
  <1> QED
    BY <1>8, <1>9 DEF DrainInv

(* No number is given twice. *)
LEMMA FreshStep ==
    ASSUME BytesInv, Queueing
    PROVE  FreshInv'
  <1>1. ShapeInv /\ FreshInv
    BY DEF BytesInv
  <1>2. /\ queue \in Seq(Functors) /\ items \in 0..MaxItems /\ MaxItems \in Nat
    BY <1>1, OutputAssumption DEF ShapeInv
  <1> DEFINE Clear(s) == /\ \A c \in Conns : Asked(s) \cap Asked(requested'[c]) = {}
                         /\ Asked(s) \cap Asked(pendingFile') = {}
             Given(m) == /\ \A c \in Conns : Asked(requested'[c]) \subseteq 1..m
                         /\ Asked(pendingFile') \subseteq 1..m
             Old(m, i, j) == /\ j \in DOMAIN queue /\ queue'[i] = queue[j]
                             /\ Clear(queue[j].bytes) /\ items <= m /\ m \in Nat
             Entry(i) == /\ Asked(queue'[i].bytes) \subseteq 1..items'
                         /\ queue'[i].kind # "shutdown" =>
                               \E n \in 1..items' : queue'[i].bytes = Bytes(queue'[i].kind, n)
                         /\ Clear(queue'[i].bytes)
             Apart(i, j) == Asked(queue'[i].bytes) \cap Asked(queue'[j].bytes) = {}
  <1>3. ASSUME NEW X, AsksOnly(X), NEW s, Fresh(s), Asked(s) \cap X = {}
        PROVE  Clear(s)
    BY <1>3 DEF Fresh, AsksOnly
  <1>4. ASSUME NEW m \in Nat, items <= m, NEW X, AsksOnly(X), X \subseteq 1..m
        PROVE  Given(m)
    <2>1. 1..items \subseteq 1..m
      BY <1>2, <1>4, SMTT(30)
    <2> QED
      BY <1>1, <1>4, <2>1 DEF FreshInv, AsksOnly
  <1>5. ASSUME NEW i \in DOMAIN queue', NEW j \in DOMAIN queue, queue'[i] = queue[j],
               Clear(queue[j].bytes), items' \in Nat, items <= items'
        PROVE  Entry(i)
    <2>1. 1..items \subseteq 1..items'
      BY <1>2, <1>5, SMTT(30)
    <2> HIDE DEF Clear
    <2> QED
      BY <1>1, <1>5, <2>1 DEF FreshInv
  <1> DEFINE Goal == Given(items') /\ \A i \in DOMAIN queue' :
                        Entry(i) /\ \A j \in DOMAIN queue' : j # i => Apart(i, j)
  <1>6. ASSUME items < MaxItems, items' = items + 1, UNCHANGED queue, AsksOnly({items + 1})
        PROVE  Goal
    <2>1. items' \in Nat /\ items <= items' /\ items + 1 \in 1..items' /\ items + 1 \notin 1..items
      BY <1>2, <1>6, SMTT(30)
    <2>2. Given(items')
      <3>1. {items + 1} \subseteq 1..items'
        BY <2>1
      <3> HIDE DEF Given
      <3> QED
        BY <1>4, <1>6, <2>1, <3>1
    <2>3. ASSUME NEW i \in DOMAIN queue PROVE Entry(i)
      <3>1. Clear(queue[i].bytes)
        <4>1. Fresh(queue[i].bytes) /\ Asked(queue[i].bytes) \cap {items + 1} = {}
          BY <1>1, <2>1 DEF FreshInv
        <4> HIDE DEF Clear
        <4> QED
          BY <1>3, <1>6, <4>1
      <3> HIDE DEF Clear, Entry
      <3> QED
        BY <1>5, <1>6, <2>1, <3>1
    <2> HIDE DEF Given, Entry
    <2> QED
      BY <1>1, <1>6, <2>2, <2>3 DEF FreshInv
  <1>7. ASSUME NEW f \in Functors, queue' = Append(queue, f), AsksOnly({}),
               items' \in Nat, items <= items',
               Asked(f.bytes) \subseteq 1..items', Asked(f.bytes) \cap 1..items = {},
               f.kind # "shutdown" => \E n \in 1..items' : f.bytes = Bytes(f.kind, n)
        PROVE  Goal
    <2>1. Given(items')
      BY <1>4, <1>7
    <2>2. Clear(f.bytes)
      <3>1. Fresh(f.bytes)
        BY <1>1, <1>7 DEF Fresh, FreshInv
      <3>2. Asked(f.bytes) \cap {} = {}
        OBVIOUS
      <3> HIDE DEF Clear
      <3> QED
        BY <1>3, <1>7, <3>1, <3>2
    <2>3. ASSUME NEW j \in DOMAIN queue PROVE Clear(queue[j].bytes) /\ Asked(queue[j].bytes) \subseteq 1..items
      <3>1. /\ Fresh(queue[j].bytes) /\ Asked(queue[j].bytes) \cap {} = {}
            /\ Asked(queue[j].bytes) \subseteq 1..items
        BY <1>1 DEF FreshInv
      <3> HIDE DEF Clear
      <3> QED
        BY <1>3, <1>7, <3>1
    <2> HIDE DEF Clear, Given
    <2>4. ASSUME NEW i \in DOMAIN queue'
          PROVE  (i \in DOMAIN queue /\ queue'[i] = queue[i]) \/ (i = Len(queue) + 1 /\ queue'[i] = f)
      BY <1>2, <1>7, <2>4, QueueAppend
    <2>5. ASSUME NEW i \in DOMAIN queue' PROVE Entry(i)
      <3>1. CASE queue'[i] = f
        BY <1>7, <2>2, <3>1
      <3>2. CASE i \in DOMAIN queue /\ queue'[i] = queue[i]
        <4> HIDE DEF Entry
        <4> QED
          BY <1>5, <1>7, <2>3, <2>5, <3>2
      <3> QED
        BY <2>4, <2>5, <3>1, <3>2
    <2>6. ASSUME NEW i \in DOMAIN queue', NEW j \in DOMAIN queue', j # i PROVE Apart(i, j)
      BY <1>1, <1>7, <2>3, <2>4, <2>6 DEF FreshInv
    <2> HIDE DEF Entry, Apart
    <2> QED
      BY <2>1, <2>5, <2>6
  <1>8. ASSUME UNCHANGED <<queue, items>>, AsksOnly({}) PROVE Goal
    <2>1. items' \in Nat /\ items <= items'
      BY <1>2, <1>8, SMTT(30)
    <2>2. Given(items')
      BY <1>4, <1>8, <2>1
    <2>3. ASSUME NEW i \in DOMAIN queue PROVE Entry(i)
      <3>1. Clear(queue[i].bytes)
        <4>1. Fresh(queue[i].bytes) /\ Asked(queue[i].bytes) \cap {} = {}
          BY <1>1 DEF FreshInv
        <4> HIDE DEF Clear
        <4> QED
          BY <1>3, <1>8, <4>1
      <3> HIDE DEF Clear, Entry
      <3> QED
        BY <1>5, <1>8, <2>1, <3>1
    <2> HIDE DEF Given, Entry
    <2> QED
      BY <1>1, <1>8, <2>2, <2>3 DEF FreshInv
  <1>9. ASSUME UNCHANGED items, queue # <<>>, queue' = Tail(queue), AsksOnly(Asked(Head(queue).bytes))
        PROVE  Goal
    <2> DEFINE X == Asked(queue[1].bytes)
    <2>1. /\ 1 \in DOMAIN queue /\ AsksOnly(X)
      BY <1>2, <1>9, QueueTail
    <2>2. items' \in Nat /\ items <= items' /\ items' = items
      BY <1>2, <1>9, SMTT(30)
    <2>3. X \subseteq 1..items'
      BY <1>1, <2>1, <2>2 DEF FreshInv
    <2>4. Given(items')
      BY <1>4, <2>1, <2>2, <2>3
    <2>5. ASSUME NEW i \in DOMAIN queue'
          PROVE  i + 1 \in DOMAIN queue /\ i + 1 # 1 /\ queue'[i] = queue[i + 1]
      BY <1>2, <1>9, <2>5, QueueTail
    <2>6. ASSUME NEW i \in DOMAIN queue' PROVE Entry(i)
      <3>1. Clear(queue[i + 1].bytes)
        <4>1. Fresh(queue[i + 1].bytes) /\ Asked(queue[i + 1].bytes) \cap X = {}
          BY <1>1, <2>1, <2>5, <2>6 DEF FreshInv
        <4> QED
          BY <1>3, <2>1, <4>1
      <3> HIDE DEF Clear, Entry
      <3> QED
        BY <1>5, <2>2, <2>5, <2>6, <3>1
    <2>7. ASSUME NEW i \in DOMAIN queue', NEW j \in DOMAIN queue', j # i PROVE Apart(i, j)
      <3>1. i + 1 # j + 1
        BY <1>2, <1>9, <2>7, QueueTail
      <3> QED
        BY <1>1, <2>5, <2>7, <3>1 DEF FreshInv
    <2> HIDE DEF Entry, Apart, Given
    <2> QED
      BY <2>4, <2>6, <2>7
  <1>10. ASSUME NEW c \in Conns, NEW kind \in Kinds, items < MaxItems, items' = items + 1,
                queue' = Append(queue, Functor(kind, c, Bytes(kind, items + 1))), AsksOnly({})
         PROVE  Goal
    <2> DEFINE n == items + 1
               f == Functor(kind, c, Bytes(kind, n))
    <2>1. items' \in Nat /\ items <= items' /\ n \in 1..items' /\ n \notin 1..items /\ n \in 1..MaxItems
      BY <1>2, <1>10, SMTT(30)
    <2>2. f \in Functors
      BY <1>1, <1>10, FunctorIs
    <2> HIDE DEF n
    <2>3. f.bytes = Bytes(kind, n) /\ f.kind = kind
      BY DEF Functor
    <2>4. Asked(f.bytes) = {n}
      BY <2>1, <2>3, BytesAre
    <2> HIDE DEF f, Goal
    <2> QED
      BY <1>7, <1>10, <2>1, <2>2, <2>3, <2>4 DEF f, n
  <1>11. ASSUME NEW c \in Conns, UNCHANGED items, AsksOnly({}),
                queue' = Append(queue, Functor("shutdown", c, <<>>))
         PROVE  Goal
    <2> DEFINE f == Functor("shutdown", c, <<>>)
    <2>1. items' \in Nat /\ items <= items'
      BY <1>2, <1>11, SMTT(30)
    <2>2. f \in Functors
      BY FunctorIs
    <2>3. f.bytes = <<>> /\ f.kind = "shutdown"
      BY DEF Functor
    <2>4. Asked(f.bytes) = {}
      BY <2>3, AskedEmpty
    <2> HIDE DEF f, Goal
    <2> QED
      BY <1>7, <1>11, <2>1, <2>2, <2>3, <2>4 DEF f
  <1>12. Goal
    <2> HIDE DEF Goal
    <2> QED
      BY <1>6, <1>8, <1>9, <1>10, <1>11 DEF Queueing
  <1> QED
    BY <1>12 DEF FreshInv, Fresh
-----------------------------------------------------------------------------
(* A new buffer is empty. *)
LEMMA NewBufferIs ==
    /\ NewBuffer \in Buffers(Byte) /\ IsBuffer(NewBuffer, Byte) /\ Contents(NewBuffer) = <<>>
  <1> DEFINE n == kCheapPrepend + kInitialSize
  <1>1. /\ kCheapPrepend \in Nat /\ n \in Nat /\ kCheapPrepend <= n /\ kCheapPrepend <= kCheapPrepend
        /\ kCheapPrepend \in Int /\ kCheapPrepend + 1 \in Int /\ kCheapPrepend < kCheapPrepend + 1
    BY BufferAssumption, SMTT(30)
  <1> HIDE DEF n
  <1>2. Blanks(n) \in Seq(Byte \cup {Blank}) /\ Len(Blanks(n)) = n
    BY <1>1, BlanksAre
  <1>3. /\ NewBuffer.store = Blanks(n) /\ NewBuffer.reader = kCheapPrepend
        /\ NewBuffer.writer = kCheapPrepend
    BY DEF NewBuffer, n
  <1>4. NewBuffer \in Buffers(Byte)
    BY <1>1, <1>2 DEF NewBuffer, Buffers, n
  <1>5. IsBuffer(NewBuffer, Byte)
    BY <1>1, <1>2, <1>3, <1>4, Indices
  <1>6. Contents(NewBuffer) = <<>>
    BY <1>1, <1>3, SubSeqEmpty DEF Contents
  <1> QED
    BY <1>4, <1>5, <1>6

(* Before the first request nothing waits. *)
LEMMA InitIs ==
    ASSUME Init
    PROVE  BytesInv /\ \A c \in Conns : Waiting(c) = <<>>
  <1> DEFINE o == [state |-> "kConnected", writing |-> FALSE, buffer |-> NewBuffer, shut |-> FALSE,
                   closed |-> FALSE]
  <1>1. <<>> \in Seq(Byte) /\ <<>> \in Seq(Functors) /\ Asked(<<>>) = {} /\ DOMAIN <<>> = {}
    <2>1. <<>> \in Seq(Byte) /\ <<>> \in Seq(Functors) /\ Len(<<>>) = 0
      BY EmptySeq
    <2>2. DOMAIN <<>> = 1..0
      BY <2>1, LenProperties
    <2>3. 1..0 = {}
      BY SMTT(30)
    <2> QED
      BY <2>1, <2>2, <2>3, AskedEmpty
  <1>2. o \in Outputs /\ Good(o) /\ Contents(o.buffer) = <<>>
    BY <1>1, NewBufferIs DEF Outputs, States, Good
  <1>3. o.state = "kConnected" /\ ~o.writing /\ ~o.shut
    OBVIOUS
  <1>4. out = [c \in Conns |-> o]
    BY DEF Init
  <1> HIDE DEF o
  <1>5. \A c \in Conns : out[c] = o
    BY <1>4
  <1>6. 0 \in 0..MaxItems
    BY OutputAssumption, SMTT(30)
  <1>7. ShapeInv
    BY <1>1, <1>2, <1>4, <1>5, <1>6 DEF Init, ShapeInv
  <1>8. FreshInv
    BY <1>1 DEF Init, FreshInv
  <1>9. DrainInv
    BY <1>1, <1>2, <1>3, <1>5 DEF Init, DrainInv, Waiting
  <1> QED
    BY <1>2, <1>5, <1>7, <1>8, <1>9 DEF BytesInv, Waiting

(* The invariant of the output side: the types, the numbering of requests, and the
   write interest of every connection with something to write. *)
THEOREM OutputInvariant == Spec => []BytesInv
  <1>1. Init => BytesInv
    BY InitIs
  <1>2. BytesInv /\ [Next]_vars => BytesInv'
    <2> SUFFICES ASSUME BytesInv, [Next]_vars PROVE BytesInv'
      OBVIOUS
    <2>1. Effect /\ Queueing
      BY StepIs
    <2>2. ShapeInv'
      <3>1. closing' \subseteq Conns
        BY ClosingStep DEF BytesInv
      <3> QED
        BY <2>1, <3>1, ShapeStep
    <2>3. FreshInv'
      BY <2>1, FreshStep
    <2>4. DrainInv'
      BY <2>1, <2>2, DrainStep
    <2> QED
      BY <2>2, <2>3, <2>4 DEF BytesInv
  <1> QED
    BY <1>1, <1>2, PTL DEF Spec

(* HalfCloseAfterDrain: shutdownInLoop and handleWrite half-close a connection only
   once its buffer and its file are out, and nothing is added later, unless handleClose
   came before. *)
THEOREM HalfCloseComesLast == Spec => []HalfCloseAfterDrain
  <1>1. BytesInv => HalfCloseAfterDrain
    <2> SUFFICES ASSUME BytesInv, NEW c \in Conns, out[c].shut, ~out[c].closed
                 PROVE  /\ readableBytes(out[c].buffer) = 0
                        /\ Range(pendingFile) \cap Range(requested[c]) = {}
      BY DEF HalfCloseAfterDrain
    <2>1. Waiting(c) = <<>> /\ Asked(pendingFile) \cap Asked(requested[c]) = {}
      BY DEF BytesInv, DrainInv
    <2>2. readableBytes(out[c].buffer) = 0
      BY <2>1, Readable DEF BytesInv, ShapeInv, Waiting
    <2>3. ASSUME NEW x \in Range(pendingFile), x \in Range(requested[c]) PROVE FALSE
      <3>1. x[2] \in Asked(pendingFile) /\ x[2] \in Asked(requested[c])
        BY <2>3 DEF Range, Asked
      <3> QED
        BY <2>1, <3>1
    <2> QED
      BY <2>2, <2>3
  <1> QED
    BY <1>1, OutputInvariant, PTL
-----------------------------------------------------------------------------
(* Concatenation of bytes. *)
Regroups(s, t, u) == (s \o t) \o u = s \o (t \o u)

(* It is associative: bytes written in two steps are those written in one. *)
LEMMA Associates == \A s, t, u \in Seq(Byte) : Regroups(s, t, u)
  BY ConcatAssociative, SMTT(30) DEF Regroups

(* w was written, q waits, and of b k bytes are written. *)
Writable(w, q, b, k) ==
    /\ w \in Seq(Byte) /\ q \in Seq(Byte) /\ b \in Seq(Byte)
    /\ k \in 0..Len(b) /\ (k > 0 => q = <<>>)

(* The other bytes of b are put behind q: all are in order. *)
Spliced(w, q, b, k) == (w \o FirstBytes(b, k)) \o (q \o RestBytes(b, k)) = (w \o q) \o b

(* sendInLoop writes at once only when nothing waits, so no byte overtakes another. *)
LEMMA Splice ==
    ASSUME NEW w, NEW q, NEW b, NEW k, Writable(w, q, b, k)
    PROVE  Spliced(w, q, b, k)
  <1> DEFINE f == FirstBytes(b, k)
             r == RestBytes(b, k)
  <1>1. w \in Seq(Byte) /\ q \in Seq(Byte) /\ b \in Seq(Byte) /\ k \in 0..Len(b) /\ (k > 0 => q = <<>>)
    BY DEF Writable
  <1>2. f \in Seq(Byte) /\ r \in Seq(Byte) /\ f \o r = b
    BY <1>1, Parts
  <1>3. k = 0 \/ q = <<>>
    <2>1. Len(b) \in Nat
      BY <1>1, LenProperties
    <2>2. k = 0 \/ k > 0
      BY <1>1, <2>1, SMTT(30)
    <2> QED
      BY <1>1, <2>2
  <1>4. w \o <<>> = w /\ <<>> \o r = r
    BY <1>1, <1>2, ConcatEmptySeq
  <1>5. CASE k = 0
    <2>1. f = <<>> /\ r = b
      BY <1>1, <1>5, WholeParts
    <2>2. (w \o q) \o b = w \o (q \o b)
      <3>1. Regroups(w, q, b)
        BY <1>1, Associates
      <3> QED
        BY <3>1 DEF Regroups
    <2> QED
      BY <1>4, <2>1, <2>2 DEF Spliced
  <1>6. CASE q = <<>>
    <2> HIDE DEF f, r
    <2>1. (w \o f) \o r = w \o (f \o r)
      <3>1. Regroups(w, f, r)
        BY <1>1, <1>2, Associates
      <3> QED
        BY <3>1 DEF Regroups
    <2>2. (w \o f) \o (q \o r) = (w \o q) \o b
      BY <1>2, <1>4, <1>6, <2>1
    <2> QED
      BY <2>2 DEF Spliced, f, r
  <1> QED
    BY <1>3, <1>5, <1>6

(* What a connection's sequences are. *)
LEMMA ConnectionBytes ==
    ASSUME ShapeInv, NEW c \in Conns
    PROVE  /\ wire[c] \in Seq(Byte) /\ requested[c] \in Seq(Byte) /\ Waiting(c) \in Seq(Byte)
           /\ pendingFile \in Seq(Byte) /\ Len(Waiting(c)) \in Nat
  <1>1. /\ wire[c] \in Seq(Byte) /\ requested[c] \in Seq(Byte) /\ Waiting(c) \in Seq(Byte)
        /\ pendingFile \in Seq(Byte)
    BY DEF ShapeInv, Good, Waiting
  <1> QED
    BY <1>1, LenProperties

(* A step adds at most the bytes of one request to what was asked for. *)
LEMMA OnlyAdds ==
    ASSUME ShapeInv, Effect, NEW c \in Conns
    PROVE  \/ requested'[c] = requested[c]
           \/ \E b \in Seq(Byte) : b # <<>> /\ requested'[c] = requested[c] \o b
  <1>1. ASSUME NEW e \in Conns, NEW kind \in Kinds, NEW n \in 1..MaxItems, Handled(e, kind, Bytes(kind, n))
        PROVE  \/ requested'[c] = requested[c]
               \/ \E b \in Seq(Byte) : b # <<>> /\ requested'[c] = requested[c] \o b
    <2>1. Bytes(kind, n) \in Seq(Byte) /\ Bytes(kind, n) # <<>>
      BY BytesAre
    <2>2. Grown(requested, requested', e, Bytes(kind, n))
      BY <1>1 DEF Handled, Sent, FileSent, GivenUp
    <2> QED
      BY <2>1, <2>2 DEF Grown
  <1> QED
    BY <1>1 DEF Effect, Lost, HalfCloses, Writes

(* What nothing has been asked of stays idle. *)
LEMMA IdleStep ==
    ASSUME BytesInv, IdleInv, Effect
    PROVE  IdleInv'
  <1>1. ShapeInv
    BY DEF BytesInv
  <1> DEFINE Idle(d) == wire[d] = <<>> /\ ~out[d].writing /\ Waiting(d) = <<>>
  <1>2. ASSUME NEW d \in Conns, requested'[d] = <<>>
        PROVE  requested[d] = <<>> /\ Idle(d)
    <2>1. requested[d] \in Seq(Byte)
      BY <1>1, ConnectionBytes
    <2>2. requested[d] = <<>>
      <3>1. ASSUME NEW b \in Seq(Byte), requested'[d] = requested[d] \o b PROVE requested[d] = <<>>
        BY <1>2, <2>1, <3>1, ConcatSimplifications
      <3> QED
        BY <1>1, <1>2, <3>1, OnlyAdds
    <2> QED
      BY <2>2 DEF IdleInv
  <1> DEFINE Kept(d) == requested'[d] = <<>> => Idle(d)'
             File == (\A d \in Conns : requested'[d] = <<>>) => pendingFile' = <<>>
  <1>3. (\A d \in Conns : requested'[d] = <<>>) => pendingFile = <<>>
    BY <1>2 DEF IdleInv
  <1>4. ASSUME NEW c \in Conns, NEW kind \in Kinds, NEW n \in 1..MaxItems, Handled(c, kind, Bytes(kind, n))
        PROVE  File /\ \A d \in Conns : Kept(d)
    <2> DEFINE b == Bytes(kind, n)
    <2>1. b \in Seq(Byte) /\ b # <<>> /\ requested[c] \in Seq(Byte)
      BY <1>1, BytesAre, ConnectionBytes
    <2>2. /\ Grown(requested, requested', c, b) /\ Only(c)
          /\ \A d \in Conns : d # c => wire'[d] = wire[d]
      BY <1>4 DEF Handled, Sent, FileSent, GivenUp, Grown
    <2> HIDE DEF b
    <2>3. requested'[c] # <<>>
      <3>1. requested'[c] = requested[c] \o b
        BY <2>2 DEF Grown
      <3> QED
        BY <2>1, <3>1, ConcatSimplifications
    <2>4. ASSUME NEW d \in Conns PROVE Kept(d)
      BY <1>2, <2>2, <2>3, <2>4 DEF Only, Waiting
    <2> QED
      BY <2>3, <2>4
  <1>5. ASSUME NEW c \in Conns, Lost(c) \/ HalfCloses(c) PROVE File /\ \A d \in Conns : Kept(d)
    <2>1. UNCHANGED <<wire, requested, pendingFile>>
      BY <1>5 DEF Lost, HalfCloses
    <2>2. /\ \A d \in Conns : out'[d].buffer = out[d].buffer
          /\ \A d \in Conns : out'[d].writing => out[d].writing
      BY <1>5 DEF Lost, HalfCloses, HungUp, Only
    <2> QED
      BY <1>2, <1>3, <2>1, <2>2 DEF Waiting
  <1>6. ASSUME NEW c \in Conns, Writes(c) PROVE File /\ \A d \in Conns : Kept(d)
    <2>1. requested'[c] # <<>>
      BY <1>2, <1>6 DEF Writes
    <2>2. ASSUME NEW d \in Conns, d # c PROVE out'[d] = out[d] /\ wire'[d] = wire[d]
      BY <1>6, <2>2 DEF Writes, Wrote, Continues, Only, Grown
    <2> QED
      BY <1>2, <2>1, <2>2 DEF Waiting
  <1>7. ASSUME UNCHANGED <<out, wire, requested, pendingFile>> PROVE File /\ \A d \in Conns : Kept(d)
    BY <1>2, <1>3, <1>7 DEF Waiting
  <1>8. File /\ \A d \in Conns : Kept(d)
    <2> HIDE DEF File, Kept
    <2> QED
      BY <1>4, <1>5, <1>6, <1>7 DEF Effect
  <1> QED
    BY <1>8 DEF IdleInv

(* Until a file is asked for, the bytes are in order. *)
LEMMA StreamStep ==
    ASSUME BytesInv, StreamInv, Effect
    PROVE  StreamInv'
  <1> SUFFICES ASSUME NoFile'
               PROVE  /\ pendingFile' = <<>>
                      /\ \A d \in Conns : wire'[d] \o Waiting(d)' = requested'[d]
    BY DEF StreamInv
  <1>1. ShapeInv
    BY DEF BytesInv
  <1>2. NoFile
    <2> SUFFICES ASSUME NEW c \in Conns, NEW k \in DOMAIN requested[c] PROVE IsData(requested[c][k])
      BY DEF NoFile
    <2>1. requested[c] \in Seq(Byte)
      BY <1>1, ConnectionBytes
    <2>2. k \in DOMAIN requested'[c] /\ requested'[c][k] = requested[c][k]
      <3>1. ASSUME NEW b \in Seq(Byte)
            PROVE  k \in DOMAIN (requested[c] \o b) /\ (requested[c] \o b)[k] = requested[c][k]
        BY <2>1, ConcatElements
      <3>2. CASE requested'[c] = requested[c]
        BY <3>2
      <3>3. CASE \E b \in Seq(Byte) : requested'[c] = requested[c] \o b
        BY <3>1, <3>3
      <3> QED
        BY <1>1, <3>2, <3>3, OnlyAdds
    <2> QED
      BY <2>2 DEF NoFile
  <1>3. /\ pendingFile = <<>>
        /\ \A d \in Conns : wire[d] \o Waiting(d) = requested[d]
    BY <1>2 DEF StreamInv
  <1> DEFINE InOrder(d) == wire'[d] \o Waiting(d)' = requested'[d]
  <1>4. ASSUME NEW c \in Conns, NEW kind \in Kinds, NEW n \in 1..MaxItems, out[c].state = "kConnected",
               Handled(c, kind, Bytes(kind, n))
        PROVE  pendingFile' = <<>> /\ \A d \in Conns : InOrder(d)
    <2> DEFINE b == Bytes(kind, n)
    <2>1. b \in Seq(Byte) /\ Len(b) = ItemLen /\ 1 \in 1..ItemLen /\ b[1][1] = kind
      <3>1. 1 \in 1..ItemLen
        BY OutputAssumption, SMTT(30)
      <3> QED
        BY <3>1, BytesAre
    <2>2. /\ wire[c] \in Seq(Byte) /\ requested[c] \in Seq(Byte) /\ Waiting(c) \in Seq(Byte)
      BY <1>1, ConnectionBytes
    <2>3. Grown(requested, requested', c, b)
      BY <1>4 DEF Handled, Sent, FileSent, GivenUp
    <2> HIDE DEF b
    <2>4. kind = "data"
      <3>1. DOMAIN b = 1..ItemLen
        BY <2>1, LenProperties
      <3>2. Len(requested[c]) + 1 \in DOMAIN requested'[c] /\ requested'[c][Len(requested[c]) + 1] = b[1]
        <4>1. requested'[c] = requested[c] \o b
          BY <2>3 DEF Grown
        <4>2. 1 \in DOMAIN b
          BY <2>1, <3>1
        <4>3. /\ Len(requested[c]) + 1 \in DOMAIN (requested[c] \o b)
              /\ (requested[c] \o b)[Len(requested[c]) + 1] = b[1]
          BY <2>1, <2>2, <4>2, ConcatElements
        <4> QED
          BY <4>1, <4>3
      <3>3. IsData(b[1])
        BY <3>2 DEF NoFile
      <3> QED
        BY <2>1, <3>3 DEF IsData
    <2>5. PICK k \in 0..Len(b) : Sent(c, b, k) /\ UNCHANGED pendingFile
      BY <1>4, <2>4 DEF Handled, b
    <2>6. k > 0 => Waiting(c) = <<>>
      BY <2>5 DEF Sent
    <2>7. (wire[c] \o FirstBytes(b, k)) \o (Waiting(c) \o RestBytes(b, k)) = (wire[c] \o Waiting(c)) \o b
      <3>1. Writable(wire[c], Waiting(c), b, k)
        BY <2>1, <2>2, <2>6 DEF Writable
      <3>2. Spliced(wire[c], Waiting(c), b, k)
        BY <3>1, Splice
      <3> QED
        BY <3>2 DEF Spliced
    <2>8. wire[c] \o Waiting(c) = requested[c]
      BY <1>3
    <2>9. InOrder(c)
      BY <2>3, <2>5, <2>7, <2>8 DEF Sent, Grown
    <2>10. ASSUME NEW d \in Conns, d # c PROVE InOrder(d)
      BY <1>3, <2>3, <2>5, <2>10 DEF Sent, Grown, Only, Waiting
    <2> QED
      BY <1>3, <2>5, <2>9, <2>10
  <1>5. ASSUME NEW c \in Conns, Lost(c) \/ HalfCloses(c)
        PROVE  pendingFile' = <<>> /\ \A d \in Conns : InOrder(d)
    <2>1. UNCHANGED <<wire, requested, pendingFile>>
      BY <1>5 DEF Lost, HalfCloses
    <2>2. \A d \in Conns : out'[d].buffer = out[d].buffer
      BY <1>5 DEF Lost, HalfCloses, HungUp, Only
    <2> QED
      BY <1>3, <2>1, <2>2 DEF Waiting
  <1>6. ASSUME NEW c \in Conns, Writes(c)
        PROVE  pendingFile' = <<>> /\ \A d \in Conns : InOrder(d)
    <2>1. PICK k \in 0..Len(Waiting(c)) : Wrote(c, <<>>, k) /\ UNCHANGED <<requested, pendingFile>>
      BY <1>3, <1>6 DEF Writes
    <2>2. wire[c] \in Seq(Byte) /\ Waiting(c) \in Seq(Byte) /\ <<>> \in Seq(Byte)
      BY <1>1, ConnectionBytes, EmptySeq
    <2> DEFINE w == wire[c]
               q == Waiting(c)
    <2>3. w \o (<<>> \o FirstBytes(q, k)) = w \o FirstBytes(q, k)
      <3>1. FirstBytes(q, k) \in Seq(Byte)
        BY <2>2, Parts
      <3>2. <<>> \o FirstBytes(q, k) = FirstBytes(q, k)
        BY <3>1, ConcatEmptySeq
      <3> QED
        BY <3>2
    <2>4. (w \o FirstBytes(q, k)) \o RestBytes(q, k) = w \o q
      <3>1. /\ FirstBytes(q, k) \in Seq(Byte) /\ RestBytes(q, k) \in Seq(Byte)
            /\ FirstBytes(q, k) \o RestBytes(q, k) = q
        BY <2>2, Parts
      <3>2. (w \o FirstBytes(q, k)) \o RestBytes(q, k) = w \o (FirstBytes(q, k) \o RestBytes(q, k))
        <4>1. Regroups(w, FirstBytes(q, k), RestBytes(q, k))
          BY <2>2, <3>1, Associates
        <4> QED
          BY <4>1 DEF Regroups
      <3> QED
        BY <3>1, <3>2
    <2>5. InOrder(c)
      BY <1>3, <2>1, <2>3, <2>4 DEF Wrote, Grown
    <2>6. ASSUME NEW d \in Conns, d # c PROVE InOrder(d)
      BY <1>3, <2>1, <2>6 DEF Wrote, Grown, Only, Waiting
    <2> QED
      BY <1>3, <2>1, <2>5, <2>6
  <1>7. ASSUME UNCHANGED <<out, wire, requested, pendingFile>>
        PROVE  pendingFile' = <<>> /\ \A d \in Conns : InOrder(d)
    BY <1>3, <1>7 DEF Waiting
  <1>8. pendingFile' = <<>> /\ \A d \in Conns : InOrder(d)
    <2> HIDE DEF InOrder
    <2> QED
      BY <1>4, <1>5, <1>6, <1>7 DEF Effect
  <1> QED
    BY <1>8
-----------------------------------------------------------------------------
(* done of the file, then w of what came after it, is in place. *)
LEMMA PlaceGives ==
    ASSUME NEW done \in Seq(Byte), NEW left \in Seq(Byte), NEW w \in Seq(Byte), NEW q \in Seq(Byte),
           Len(done \o left) = ItemLen
    PROVE  InPlace(done \o w, (done \o left) \o (w \o q))
  <1> DEFINE file == done \o left
             more == w \o q
             asked == file \o more
  <1>1. /\ file \in Seq(Byte) /\ more \in Seq(Byte) /\ left \o more \in Seq(Byte)
        /\ Len(file) = Len(done) + Len(left) /\ Len(more) = Len(w) + Len(q)
    BY ConcatProperties
  <1>2. Len(done) \in Nat /\ Len(left) \in Nat /\ Len(w) \in Nat /\ Len(q) \in Nat
    BY LenProperties
  <1>3. RestBytes(asked, ItemLen) = more
    BY <1>1, ConcatParts
  <1>4. asked = done \o (left \o more)
    <2>1. Regroups(done, left, more)
      BY <1>1, Associates
    <2> QED
      BY <1>1, <2>1 DEF Regroups
  <1>5. FirstBytes(asked, Len(done)) = done
    BY <1>1, <1>4, ConcatParts
  <1>6. FirstBytes(more, Len(w)) = w
    BY ConcatParts
  <1> HIDE DEF more, asked, file
  <1>7. Len(done) \in 0..ItemLen /\ Len(w) \in 0..Len(more)
    BY <1>1, <1>2, SMTT(30) DEF file
  <1> QED
    BY <1>3, <1>5, <1>6, <1>7 DEF InPlace, file, more, asked

(* Place, as it is after a step. *)
LEMMA PlaceIs ==
    ASSUME NEW c \in Conns, NEW done \in Seq(Byte), NEW left \in Seq(Byte), NEW more \in Seq(Byte),
           requested'[c] = (done \o left) \o more, Len(done \o left) = ItemLen,
           \/ pendingFile' # <<>> /\ pendingFile' = left /\ wire'[c] = done /\ Waiting(c)' = more
           \/ /\ pendingFile' = <<>>
              /\ \E w \in Seq(Byte) : wire'[c] = done \o w /\ more = w \o Waiting(c)'
    PROVE  Place(c)'
  BY DEF Place

(* The first request of all is a file. *)
LEMMA FirstFile ==
    ASSUME NEW c \in Conns, NEW b \in Seq(Byte), NEW k \in 0..Len(b), Len(b) = ItemLen, b # <<>>,
           requested[c] = <<>>, wire[c] = <<>>, Waiting(c) = <<>>, pendingFile = <<>>,
           FileSent(c, b, k)
    PROVE  Place(c)'
  <1>1. /\ FirstBytes(b, k) \in Seq(Byte) /\ RestBytes(b, k) \in Seq(Byte) /\ <<>> \in Seq(Byte)
        /\ FirstBytes(b, k) \o RestBytes(b, k) = b /\ Len(RestBytes(b, k)) = Len(b) - k
    <2>1. /\ FirstBytes(b, k) \in Seq(Byte) /\ RestBytes(b, k) \in Seq(Byte)
          /\ FirstBytes(b, k) \o RestBytes(b, k) = b /\ Len(RestBytes(b, k)) = Len(b) - k
      BY Parts
    <2> QED
      BY <2>1, EmptySeq
  <1>2. /\ <<>> \o b = b /\ b \o <<>> = b /\ <<>> \o FirstBytes(b, k) = FirstBytes(b, k)
        /\ <<>> \o <<>> = <<>>
    BY <1>1, ConcatEmptySeq
  <1>3. requested'[c] = b /\ wire'[c] = FirstBytes(b, k) /\ Waiting(c)' = <<>>
    BY <1>2 DEF FileSent, Grown, Waiting
  <1>4. Len(b) \in Nat
    BY LenProperties
  <1>5. CASE k < Len(b)
    <2>1. pendingFile' = RestBytes(b, k)
      BY <1>5 DEF FileSent
    <2>2. RestBytes(b, k) # <<>>
      <3>1. Len(RestBytes(b, k)) # 0
        BY <1>1, <1>4, <1>5, SMTT(30)
      <3> QED
        BY <1>1, <3>1, EmptyIs
    <2>3. (FirstBytes(b, k) \o RestBytes(b, k)) \o <<>> = b
      BY <1>1, <1>2
    <2> QED
      BY <1>1, <1>3, <2>1, <2>2, <2>3, PlaceIs
  <1>6. CASE k = Len(b)
    <2>1. pendingFile' = <<>>
      BY <1>6 DEF FileSent
    <2>2. FirstBytes(b, k) = b
      BY <1>6, WholeParts
    <2>3. /\ requested'[c] = (b \o <<>>) \o <<>> /\ Len(b \o <<>>) = ItemLen
          /\ wire'[c] = b \o <<>> /\ <<>> = <<>> \o Waiting(c)'
      BY <1>2, <1>3, <2>2
    <2> QED
      BY <1>1, <2>1, <2>3, PlaceIs
  <1>7. k < Len(b) \/ k = Len(b)
    BY <1>4, SMTT(30)
  <1> QED
    BY <1>5, <1>6, <1>7

(* The first request of all is a file, and is given up. *)
LEMMA FirstGivenUp ==
    ASSUME NEW c \in Conns, NEW b \in Seq(Byte), Len(b) = ItemLen,
           requested[c] = <<>>, wire[c] = <<>>, Waiting(c) = <<>>, pendingFile = <<>>,
           GivenUp(c, b)
    PROVE  Place(c)'
  <1>1. <<>> \in Seq(Byte) /\ <<>> \o b = b /\ b \o <<>> = b /\ <<>> \o <<>> = <<>>
    BY EmptySeq, ConcatEmptySeq
  <1>2. requested'[c] = b /\ wire'[c] = <<>> /\ Waiting(c)' = <<>> /\ pendingFile' = <<>>
    BY <1>1 DEF GivenUp, Grown, Waiting
  <1>3. /\ requested'[c] = (<<>> \o b) \o <<>> /\ Len(<<>> \o b) = ItemLen
        /\ wire'[c] = <<>> \o <<>> /\ <<>> = <<>> \o Waiting(c)'
    BY <1>1, <1>2
  <1> QED
    BY <1>1, <1>2, <1>3, PlaceIs

(* Data is sent behind the file: it waits if the file does. *)
LEMMA SentBehind ==
    ASSUME BytesInv, NEW c \in Conns, NEW b \in Seq(Byte), NEW k \in 0..Len(b),
           Place(c), Sent(c, b, k), UNCHANGED pendingFile
    PROVE  Place(c)'
  <1>1. PICK done \in Seq(Byte), left \in Seq(Byte), more \in Seq(Byte) :
        /\ requested[c] = (done \o left) \o more /\ Len(done \o left) = ItemLen
        /\ \/ pendingFile # <<>> /\ pendingFile = left /\ wire[c] = done /\ Waiting(c) = more
           \/ /\ pendingFile = <<>>
              /\ \E w \in Seq(Byte) : wire[c] = done \o w /\ more = w \o Waiting(c)
    BY DEF Place
  <1>2. /\ FirstBytes(b, k) \in Seq(Byte) /\ RestBytes(b, k) \in Seq(Byte) /\ <<>> \in Seq(Byte)
        /\ done \o left \in Seq(Byte) /\ more \o b \in Seq(Byte)
        /\ Waiting(c) \in Seq(Byte) /\ wire[c] \in Seq(Byte) /\ requested[c] \in Seq(Byte)
    BY Parts, EmptySeq, ConcatProperties, ConnectionBytes DEF BytesInv
  <1>3. requested'[c] = (done \o left) \o (more \o b)
    <2>1. requested'[c] = ((done \o left) \o more) \o b
      BY <1>1 DEF Sent, Grown
    <2> DEFINE file == done \o left
    <2>2. file \in Seq(Byte)
      BY <1>2
    <2> HIDE DEF file
    <2>3. (file \o more) \o b = file \o (more \o b)
      <3>1. Regroups(file, more, b)
        BY <2>2, Associates
      <3> QED
        BY <3>1 DEF Regroups
    <2> QED
      BY <2>1, <2>3 DEF file
  <1>4. k = 0 \/ k > 0
    <2>1. Len(b) \in Nat
      BY LenProperties
    <2> QED
      BY <2>1, SMTT(30)
  <1>5. CASE pendingFile # <<>> /\ pendingFile = left /\ wire[c] = done /\ Waiting(c) = more
    <2>1. out[c].writing
      <3>1. Asked(requested[c]) = (Asked(done) \cup Asked(left)) \cup Asked(more)
        <4>1. Asked(done \o left) = Asked(done) \cup Asked(left)
          BY AskedConcat
        <4>2. Asked((done \o left) \o more) = Asked(done \o left) \cup Asked(more)
          BY <1>2, AskedConcat
        <4> QED
          BY <1>1, <4>1, <4>2
      <3>2. Asked(left) # {}
        <4>1. Len(left) \in Nat /\ DOMAIN left = 1..Len(left)
          BY LenProperties
        <4>2. Len(left) # 0
          BY <1>5, EmptyIs
        <4>3. 1 \in DOMAIN left
          BY <4>1, <4>2, SMTT(30)
        <4> QED
          BY <4>3 DEF Asked
      <3>3. Asked(pendingFile) \cap Asked(requested[c]) # {}
        BY <1>5, <3>1, <3>2
      <3> QED
        BY <3>3 DEF BytesInv, DrainInv, Sent
    <2>2. k = 0
      BY <1>4, <2>1 DEF Sent
    <2>3. FirstBytes(b, k) = <<>> /\ RestBytes(b, k) = b /\ done \o <<>> = done
      BY <2>2, WholeParts, ConcatEmptySeq
    <2>4. wire'[c] = done /\ Waiting(c)' = more \o b
      BY <1>5, <2>3 DEF Sent, Grown
    <2> QED
      BY <1>1, <1>2, <1>3, <1>5, <2>4, PlaceIs
  <1>6. ASSUME NEW w \in Seq(Byte), pendingFile = <<>>, wire[c] = done \o w, more = w \o Waiting(c)
        PROVE  Place(c)'
    <2> DEFINE v == w \o FirstBytes(b, k)
    <2>1. v \in Seq(Byte)
      BY <1>2, ConcatProperties
    <2>2. wire'[c] = done \o v
      <3>1. wire'[c] = (done \o w) \o FirstBytes(b, k)
        BY <1>6 DEF Sent, Grown
      <3> DEFINE f == FirstBytes(b, k)
      <3>2. f \in Seq(Byte)
        BY <1>2
      <3> HIDE DEF f
      <3>3. (done \o w) \o f = done \o (w \o f)
        <4>1. Regroups(done, w, f)
          BY <3>2, Associates
        <4> QED
          BY <4>1 DEF Regroups
      <3> QED
        BY <3>1, <3>3 DEF f
    <2>3. more \o b = v \o Waiting(c)'
      <3> DEFINE q == Waiting(c)
      <3>1. Writable(w, q, b, k)
        BY <1>2 DEF Sent, Writable
      <3> HIDE DEF q
      <3>2. Spliced(w, q, b, k)
        BY <3>1, Splice
      <3> QED
        BY <1>6, <3>2 DEF Sent, Spliced, q
    <2> HIDE DEF v
    <2> QED
      BY <1>1, <1>2, <1>3, <1>6, <2>1, <2>2, <2>3, PlaceIs
  <1> QED
    BY <1>1, <1>5, <1>6

(* handleWrite writes the file, then what was sent after it. *)
LEMMA WritesOn ==
    ASSUME BytesInv, NEW c \in Conns, Place(c), Writes(c)
    PROVE  Place(c)'
  <1>1. PICK done \in Seq(Byte), left \in Seq(Byte), more \in Seq(Byte) :
        /\ requested[c] = (done \o left) \o more /\ Len(done \o left) = ItemLen
        /\ \/ pendingFile # <<>> /\ pendingFile = left /\ wire[c] = done /\ Waiting(c) = more
           \/ /\ pendingFile = <<>>
              /\ \E w \in Seq(Byte) : wire[c] = done \o w /\ more = w \o Waiting(c)
    BY DEF Place
  <1>2. UNCHANGED requested /\ <<>> \in Seq(Byte) /\ done \o left \in Seq(Byte)
    BY EmptySeq, ConcatProperties DEF Writes
  <1>3. Waiting(c) \in Seq(Byte) /\ Len(left) \in Nat
    BY ConnectionBytes, LenProperties DEF BytesInv
  <1>4. ASSUME pendingFile = left, left # <<>>, wire[c] = done, Waiting(c) = more, Continues(c),
               NEW k \in 0..(Len(left) - 1),
               Grown(wire, wire', c, FirstBytes(left, k)), pendingFile' = RestBytes(left, k)
        PROVE  Place(c)'
    <2> DEFINE f == FirstBytes(left, k)
               r == RestBytes(left, k)
    <2>1. k \in 0..Len(left)
      BY <1>3, SMTT(30)
    <2>2. f \in Seq(Byte) /\ r \in Seq(Byte) /\ f \o r = left /\ Len(r) = Len(left) - k
      BY <2>1, Parts
    <2> HIDE DEF f, r
    <2>3. Len(r) # 0
      BY <1>3, <2>2, SMTT(30)
    <2>4. r # <<>>
      BY <2>2, <2>3, EmptyIs
    <2>5. done \o f \in Seq(Byte)
      BY <2>2, ConcatProperties
    <2>6. (done \o f) \o r = done \o left
      <3>1. (done \o f) \o r = done \o (f \o r)
        <4>1. Regroups(done, f, r)
          BY <2>2, Associates
        <4> QED
          BY <4>1 DEF Regroups
      <3> QED
        BY <2>2, <3>1
    <2>7. wire'[c] = done \o f /\ pendingFile' = r /\ Waiting(c)' = more
      BY <1>4 DEF Continues, Grown, Waiting, f, r
    <2>8. requested'[c] = ((done \o f) \o r) \o more /\ Len((done \o f) \o r) = ItemLen
      BY <1>1, <1>2, <2>6
    <2> QED
      BY <2>2, <2>4, <2>5, <2>7, <2>8, PlaceIs
  <1>5. ASSUME pendingFile' = <<>>, wire[c] = done, Waiting(c) = more,
               NEW k \in 0..Len(more), Wrote(c, left, k)
        PROVE  Place(c)'
    <2> DEFINE v == FirstBytes(more, k)
               q == RestBytes(more, k)
               file == done \o left
    <2>1. v \in Seq(Byte) /\ q \in Seq(Byte) /\ v \o q = more
      BY Parts
    <2> HIDE DEF v, q
    <2>2. wire'[c] = done \o (left \o v) /\ Waiting(c)' = q
      BY <1>5 DEF Wrote, Grown, v, q
    <2>3. done \o (left \o v) = file \o v
      <3>1. Regroups(done, left, v)
        BY <2>1, Associates
      <3> QED
        BY <3>1 DEF Regroups
    <2>4. file \o <<>> = file
      BY <1>2, ConcatEmptySeq
    <2>5. /\ requested'[c] = (file \o <<>>) \o more /\ Len(file \o <<>>) = ItemLen
          /\ wire'[c] = file \o v /\ more = v \o Waiting(c)'
      BY <1>1, <1>2, <2>1, <2>2, <2>3, <2>4
    <2>6. file \in Seq(Byte)
      BY <1>2
    <2> HIDE DEF file
    <2> QED
      BY <1>2, <1>5, <2>1, <2>5, <2>6, PlaceIs
  <1>6. ASSUME pendingFile' = <<>>, wire[c] = done, Waiting(c) = more,
               NEW k \in 0..Len(more), Wrote(c, <<>>, k)
        PROVE  Place(c)'
    <2> DEFINE v == FirstBytes(more, k)
               q == RestBytes(more, k)
    <2>1. v \in Seq(Byte) /\ q \in Seq(Byte) /\ v \o q = more
      BY Parts
    <2> HIDE DEF v, q
    <2>2. <<>> \o v = v
      BY <2>1, ConcatEmptySeq
    <2>3. wire'[c] = done \o v /\ Waiting(c)' = q
      BY <1>6, <2>2 DEF Wrote, Grown, v, q
    <2>4. requested'[c] = (done \o left) \o more /\ more = v \o Waiting(c)'
      BY <1>1, <1>2, <2>1, <2>3
    <2> QED
      BY <1>1, <1>6, <2>1, <2>3, <2>4, PlaceIs
  <1>7. ASSUME NEW w \in Seq(Byte), wire[c] = done \o w, more = w \o Waiting(c), pendingFile' = <<>>,
               NEW k \in 0..Len(Waiting(c)), Wrote(c, <<>>, k)
        PROVE  Place(c)'
    <2> DEFINE v == FirstBytes(Waiting(c), k)
               q == RestBytes(Waiting(c), k)
    <2>1. v \in Seq(Byte) /\ q \in Seq(Byte) /\ v \o q = Waiting(c)
      BY <1>3, Parts
    <2> HIDE DEF v, q
    <2>2. <<>> \o v = v /\ w \o v \in Seq(Byte)
      BY <2>1, ConcatEmptySeq, ConcatProperties
    <2>3. wire'[c] = (done \o w) \o v /\ Waiting(c)' = q
      BY <1>7, <2>2 DEF Wrote, Grown, v, q
    <2>4. (done \o w) \o v = done \o (w \o v)
      <3>1. Regroups(done, w, v)
        BY <2>1, Associates
      <3> QED
        BY <3>1 DEF Regroups
    <2>5. (w \o v) \o q = w \o (v \o q)
      <3>1. Regroups(w, v, q)
        BY <2>1, Associates
      <3> QED
        BY <3>1 DEF Regroups
    <2>6. more = (w \o v) \o Waiting(c)' /\ wire'[c] = done \o (w \o v)
      BY <1>7, <2>1, <2>3, <2>4, <2>5
    <2> QED
      BY <1>1, <1>2, <1>7, <2>2, <2>6, PlaceIs
  <1>8. CASE pendingFile # <<>> /\ pendingFile = left /\ wire[c] = done /\ Waiting(c) = more
    BY <1>4, <1>5, <1>6, <1>8 DEF Writes
  <1>9. CASE pendingFile = <<>> /\ \E w \in Seq(Byte) : wire[c] = done \o w /\ more = w \o Waiting(c)
    BY <1>7, <1>9 DEF Writes
  <1> QED
    BY <1>1, <1>8, <1>9

(* The step keeps a file that came first in its place. *)
LEMMA PlaceStep ==
    ASSUME BytesInv, IdleInv, PlaceInv, Effect, BytesInv'
    PROVE  PlaceInv'
  <1> SUFFICES ASSUME NEW c \in Conns, FileFirst(c)'
               PROVE  Place(c)' /\ InPlace(wire'[c], requested'[c])
    BY DEF PlaceInv
  <1>1. /\ ShapeInv /\ requested[c] \in Seq(Byte) /\ Len(requested[c]) \in Nat
        /\ DOMAIN requested[c] = 1..Len(requested[c])
    BY ConnectionBytes, LenProperties DEF BytesInv
  <1>2. \A d \in Conns : d # c => requested[d] = <<>>
    <2> SUFFICES ASSUME NEW d \in Conns, d # c PROVE requested[d] = <<>>
      OBVIOUS
    <2>1. requested'[d] = <<>> /\ requested[d] \in Seq(Byte)
      BY <1>1, ConnectionBytes DEF FileFirst
    <2>2. ASSUME NEW b \in Seq(Byte), requested'[d] = requested[d] \o b PROVE requested[d] = <<>>
      BY <2>1, <2>2, ConcatSimplifications
    <2> QED
      BY <1>1, <2>1, <2>2, OnlyAdds
  <1>3. ASSUME UNCHANGED requested PROVE FileFirst(c)
    BY <1>3 DEF FileFirst
  <1>4. ASSUME Place(c)' PROVE InPlace(wire'[c], requested'[c])
    <2>1. PICK done \in Seq(Byte), left \in Seq(Byte), more \in Seq(Byte) :
          /\ requested'[c] = (done \o left) \o more /\ Len(done \o left) = ItemLen
          /\ \/ wire'[c] = done
             \/ \E w \in Seq(Byte) : wire'[c] = done \o w /\ more = w \o Waiting(c)'
      BY <1>4 DEF Place
    <2>2. <<>> \in Seq(Byte) /\ <<>> \o more = more /\ done \o <<>> = done
      BY EmptySeq, ConcatEmptySeq
    <2>3. CASE wire'[c] = done
      <3>1. InPlace(done \o <<>>, (done \o left) \o (<<>> \o more))
        BY <2>1, <2>2, PlaceGives
      <3> QED
        BY <2>1, <2>2, <2>3, <3>1
    <2>4. ASSUME NEW w \in Seq(Byte), wire'[c] = done \o w, more = w \o Waiting(c)'
          PROVE  InPlace(wire'[c], requested'[c])
      <3>1. Waiting(c)' \in Seq(Byte)
        BY DEF BytesInv, ShapeInv, Good, Waiting
      <3>2. InPlace(done \o w, (done \o left) \o (w \o Waiting(c)'))
        BY <2>1, <3>1, PlaceGives
      <3> QED
        BY <2>1, <2>4, <3>2
    <2> QED
      BY <2>1, <2>3, <2>4
  <1> DEFINE Goal == Place(c)' /\ InPlace(wire'[c], requested'[c])
  <1>5. ASSUME NEW e \in Conns, NEW kind \in Kinds, NEW n \in 1..MaxItems, out[e].state = "kConnected",
               Handled(e, kind, Bytes(kind, n))
        PROVE  Goal
    <2> DEFINE b == Bytes(kind, n)
    <2>1. /\ b \in Seq(Byte) /\ b # <<>> /\ Len(b) = ItemLen /\ ItemLen \in Nat /\ 1 \in 1..ItemLen
          /\ b[1][1] = kind /\ DOMAIN b = 1..ItemLen
      <3>1. ItemLen \in Nat /\ 1 \in 1..ItemLen
        BY OutputAssumption, SMTT(30)
      <3>2. b \in Seq(Byte) /\ b # <<>> /\ Len(b) = ItemLen /\ b[1][1] = kind
        BY <3>1, BytesAre
      <3>3. DOMAIN b = 1..ItemLen
        BY <3>2, LenProperties
      <3> QED
        BY <3>1, <3>2, <3>3
    <2>2. Grown(requested, requested', e, b)
      BY <1>5 DEF Handled, Sent, FileSent, GivenUp
    <2>3. /\ kind = "data" => \E k \in 0..Len(b) : Sent(e, b, k) /\ UNCHANGED pendingFile
          /\ kind # "data" => GivenUp(e, b) \/ \E k \in 0..Len(b) : FileSent(e, b, k)
      BY <1>5 DEF Handled
    <2> HIDE DEF b
    <2>4. e = c
      <3> SUFFICES ASSUME e # c PROVE FALSE
        OBVIOUS
      <3>1. requested[e] = <<>> /\ requested'[e] = <<>> \o b /\ requested'[e] = <<>>
        BY <1>2, <2>2 DEF Grown, FileFirst
      <3>2. <<>> \o b = b
        BY <2>1, ConcatEmptySeq
      <3> QED
        BY <2>1, <3>1, <3>2
    <2>5. requested'[c] = requested[c] \o b
      BY <2>2, <2>4 DEF Grown
    <2>6. CASE requested[c] = <<>>
      <3>1. <<>> \o b = b
        BY <2>1, ConcatEmptySeq
      <3>2. requested'[c] = b
        BY <2>5, <2>6, <3>1
      <3>3. kind # "data"
        BY <2>1, <3>2 DEF FileFirst, IsData
      <3>4. GivenUp(c, b) \/ \E k \in 0..Len(b) : FileSent(c, b, k)
        BY <2>3, <2>4, <3>3
      <3>5. wire[c] = <<>> /\ Waiting(c) = <<>> /\ pendingFile = <<>>
        BY <1>2, <2>6 DEF IdleInv
      <3>6. Place(c)'
        BY <2>1, <2>6, <3>4, <3>5, FirstFile, FirstGivenUp
      <3> QED
        BY <1>4, <3>6
    <2>7. CASE requested[c] # <<>>
      <3>1. /\ \A j \in DOMAIN requested[c] : j \in DOMAIN requested'[c] /\ requested'[c][j] = requested[c][j]
            /\ \A j \in DOMAIN b : Len(requested[c]) + j \in DOMAIN requested'[c]
                                   /\ requested'[c][Len(requested[c]) + j] = b[j]
        <4> DEFINE r == requested[c]
        <4>1. /\ \A j \in DOMAIN r : j \in DOMAIN (r \o b) /\ (r \o b)[j] = r[j]
              /\ \A j \in DOMAIN b : Len(r) + j \in DOMAIN (r \o b) /\ (r \o b)[Len(r) + j] = b[j]
          <5>1. r \in Seq(Byte)
            BY <1>1
          <5> HIDE DEF r
          <5> QED
            BY <2>1, <5>1, ConcatElements
        <4> QED
          BY <2>5, <4>1
      <3>2. Len(requested[c]) # 0
        BY <1>1, <2>7, EmptyIs
      <3>3. 1 \in DOMAIN requested[c]
        BY <1>1, <3>2, SMTT(30)
      <3>4. Len(requested'[c]) = Len(requested[c]) + ItemLen
        BY <1>1, <2>1, <2>5, ConcatProperties
      <3>5. ASSUME NEW j \in (ItemLen + 1)..Len(requested[c]) PROVE IsData(requested[c][j])
        <4>1. j \in DOMAIN requested[c] /\ j \in (ItemLen + 1)..Len(requested'[c])
          BY <1>1, <2>1, <3>4, SMTT(30)
        <4> QED
          BY <3>1, <4>1 DEF FileFirst
      <3>6. FileFirst(c)
        BY <1>2, <2>7, <3>1, <3>3, <3>5 DEF FileFirst
      <3>7. Place(c)
        BY <3>6 DEF PlaceInv
      <3>8. Len(requested[c]) >= ItemLen
        <4>1. PICK done \in Seq(Byte), left \in Seq(Byte), more \in Seq(Byte) :
                requested[c] = (done \o left) \o more /\ Len(done \o left) = ItemLen
          BY <3>7 DEF Place
        <4>2. done \o left \in Seq(Byte) /\ Len(more) \in Nat
          BY ConcatProperties, LenProperties
        <4>3. Len(requested[c]) = ItemLen + Len(more)
          BY <4>1, <4>2, ConcatProperties
        <4> QED
          BY <2>1, <4>2, <4>3, SMTT(30)
      <3>9. kind = "data"
        <4>1. Len(requested[c]) + 1 \in (ItemLen + 1)..Len(requested'[c])
          BY <1>1, <2>1, <3>4, <3>8, SMTT(30)
        <4>2. requested'[c][Len(requested[c]) + 1] = b[1]
          BY <2>1, <3>1
        <4>3. IsData(b[1])
          BY <4>1, <4>2 DEF FileFirst
        <4> QED
          BY <2>1, <4>3 DEF IsData
      <3>10. PICK k \in 0..Len(b) : Sent(c, b, k) /\ UNCHANGED pendingFile
        BY <2>3, <2>4, <3>9
      <3>11. Place(c)'
        BY <2>1, <3>7, <3>10, SentBehind
      <3> QED
        BY <1>4, <3>11
    <2> QED
      BY <2>6, <2>7
  <1>6. ASSUME UNCHANGED <<wire, requested, pendingFile>>, out'[c].buffer = out[c].buffer
        PROVE  Goal
    <2>1. FileFirst(c)
      BY <1>3, <1>6
    <2>2. Place(c) => Place(c)'
      <3>1. wire'[c] = wire[c] /\ requested'[c] = requested[c] /\ Waiting(c)' = Waiting(c)
        BY <1>6 DEF Waiting
      <3>2. pendingFile' = pendingFile
        BY <1>6
      <3> SUFFICES ASSUME NEW done \in Seq(Byte), NEW left \in Seq(Byte), NEW more \in Seq(Byte),
                          requested[c] = (done \o left) \o more, Len(done \o left) = ItemLen,
                          \/ pendingFile # <<>> /\ pendingFile = left /\ wire[c] = done /\ Waiting(c) = more
                          \/ /\ pendingFile = <<>>
                             /\ \E w \in Seq(Byte) : wire[c] = done \o w /\ more = w \o Waiting(c)
                   PROVE  Place(c)'
        BY DEF Place
      <3> QED
        BY <3>1, <3>2, PlaceIs
    <2>3. InPlace(wire[c], requested[c]) /\ Place(c)
      BY <2>1 DEF PlaceInv
    <2> QED
      BY <1>6, <2>2, <2>3
  <1>7. ASSUME NEW e \in Conns, Lost(e) \/ HalfCloses(e) PROVE Goal
    <2>1. UNCHANGED <<wire, requested, pendingFile>> /\ out'[c].buffer = out[c].buffer
      BY <1>7 DEF Lost, HalfCloses, HungUp, Only
    <2> QED
      BY <1>6, <2>1
  <1>8. ASSUME NEW e \in Conns, Writes(e) PROVE Goal
    <2>1. FileFirst(c) /\ out[e].writing
      BY <1>3, <1>8 DEF Writes
    <2>2. e = c
      BY <1>2, <2>1 DEF IdleInv
    <2>3. Place(c)
      BY <2>1 DEF PlaceInv
    <2>4. Place(c)'
      BY <1>8, <2>2, <2>3, WritesOn
    <2> QED
      BY <1>4, <2>4
  <1>9. ASSUME UNCHANGED <<out, wire, requested, pendingFile>> PROVE Goal
    BY <1>6, <1>9
  <1>10. Goal
    <2> HIDE DEF Goal
    <2> QED
      BY <1>5, <1>7, <1>8, <1>9 DEF Effect
  <1> QED
    BY <1>10
-----------------------------------------------------------------------------
(* Strengthened by where the bytes are. *)
InOrderInv == BytesInv /\ StreamInv /\ IdleInv /\ PlaceInv

(* With it, the order of the bytes: while no file is asked for, what the kernel took
   and what waits are what was asked for; and the place of a file that came first. *)
THEOREM InOrderInvariant == Spec => []InOrderInv
  <1>1. Init => InOrderInv
    <2> SUFFICES ASSUME Init PROVE InOrderInv
      OBVIOUS
    <2>1. BytesInv /\ \A c \in Conns : Waiting(c) = <<>>
      BY InitIs
    <2>2. /\ pendingFile = <<>> /\ \A c \in Conns : requested[c] = <<>> /\ wire[c] = <<>>
      BY DEF Init
    <2>3. \A c \in Conns : ~out[c].writing
      BY DEF Init
    <2>4. <<>> \o <<>> = <<>>
      BY EmptySeq, ConcatEmptySeq
    <2>5. StreamInv
      BY <2>1, <2>2, <2>4 DEF StreamInv
    <2>6. IdleInv
      BY <2>1, <2>2, <2>3 DEF IdleInv
    <2>7. PlaceInv
      BY <2>2 DEF PlaceInv, FileFirst
    <2> QED
      BY <2>1, <2>5, <2>6, <2>7 DEF InOrderInv
  <1>2. InOrderInv /\ BytesInv' /\ [Next]_vars => InOrderInv'
    <2> SUFFICES ASSUME InOrderInv, BytesInv', [Next]_vars PROVE InOrderInv'
      OBVIOUS
    <2>1. BytesInv /\ StreamInv /\ IdleInv /\ PlaceInv
      BY DEF InOrderInv
    <2>2. Effect
      BY <2>1, StepIs
    <2>3. StreamInv'
      BY <2>1, <2>2, StreamStep
    <2>4. IdleInv'
      BY <2>1, <2>2, IdleStep
    <2>5. PlaceInv'
      BY <2>1, <2>2, PlaceStep
    <2> QED
      BY <2>3, <2>4, <2>5 DEF InOrderInv
  <1> QED
    BY <1>1, <1>2, OutputInvariant, PTL DEF Spec

(* FileKeepsPlace: what is sent after a file that came first follows it. *)
THEOREM FileStaysInPlace == Spec => []FileKeepsPlace
  <1>1. InOrderInv => FileKeepsPlace
    BY DEF InOrderInv, PlaceInv, FileFirst, InPlace, FileKeepsPlace
  <1> QED
    BY <1>1, InOrderInvariant, PTL

(* The bytes of every connection, until some connection is asked for a file. *)
WholeStream ==
    NoFile => \A c \in Conns : wire[c] \o Contents(out[c].buffer) = requested[c]

(* DataInOrder's case without files: bytes of send() are neither lost, repeated nor
   reordered by sendInLoop, handleWrite, append, makeSpace and retrieve. *)
THEOREM StreamInOrder == Spec => [](TypeOK /\ WholeStream)
  <1>1. InOrderInv => TypeOK
    BY DEF InOrderInv, BytesInv, ShapeInv, Good, Outputs, States, Functors, TypeOK
  <1>2. InOrderInv => WholeStream
    BY DEF InOrderInv, StreamInv, WholeStream, Waiting
  <1> QED
    BY <1>1, <1>2, InOrderInvariant, PTL
==============================================================================
