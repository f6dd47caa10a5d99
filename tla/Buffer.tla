------------------------------- MODULE Buffer -------------------------------
(***************************************************************************)
(* base/Buffer.h: a growing byte array with a read index and a write index *)
(* behind a small reserve.  Indices count from 0 as in the code; store is  *)
(* the vector, Blank a byte nothing was written to.  Only the constants    *)
(* differ from the code's 8 and 1024.                                      *)
(***************************************************************************)
EXTENDS Naturals, Sequences

CONSTANTS
    kCheapPrepend,  \* bytes kept free in front
    kInitialSize    \* writable bytes of a new buffer

ASSUME BufferAssumption == kCheapPrepend \in Nat /\ kInitialSize \in Nat

Blank == <<>>

Blanks(n) == [i \in 1..n |-> Blank]

NewBuffer ==
    [store |-> Blanks(kCheapPrepend + kInitialSize), reader |-> kCheapPrepend, writer |-> kCheapPrepend]

IsBuffer(b, Elements) ==
    /\ b.store \in Seq(Elements \cup {Blank})
    /\ b.reader \in kCheapPrepend..b.writer
    /\ b.writer \in b.reader..Len(b.store)

readableBytes(b) == b.writer - b.reader

writableBytes(b) == Len(b.store) - b.writer

(* What peek() and readableBytes() delimit. *)
Contents(b) == SubSeq(b.store, b.reader + 1, b.writer)

retrieve(b, len) ==
    IF len < readableBytes(b) THEN [b EXCEPT !.reader = @ + len]
    ELSE [b EXCEPT !.reader = kCheapPrepend, !.writer = kCheapPrepend]

(* std::copy of data to index at. *)
Copied(store, at, data) ==
    [i \in DOMAIN store |-> IF i \in (at + 1)..(at + Len(data)) THEN data[i - at] ELSE store[i]]

makeSpace_NoCopy(b, len) ==
    IF writableBytes(b) + b.reader < len + kCheapPrepend
    THEN [b EXCEPT !.store = @ \o Blanks(b.writer + len - Len(@))]
    ELSE [b EXCEPT !.reader = kCheapPrepend, !.writer = kCheapPrepend + readableBytes(b)]

(* Grow the vector, or move the bytes to the front. *)
makeSpace(b, len) ==
    IF writableBytes(b) + b.reader < len + kCheapPrepend
    THEN [b EXCEPT !.store = @ \o Blanks(b.writer + len - Len(@))]
    ELSE [b EXCEPT !.store = Copied(@, kCheapPrepend, Contents(b)),
                   !.reader = kCheapPrepend,
                   !.writer = kCheapPrepend + readableBytes(b)]

ensureWritableBytes(b, len) == IF writableBytes(b) < len THEN makeSpace(b, len) ELSE b

append(b, data) ==
    LET room == ensureWritableBytes(b, Len(data)) IN
    [room EXCEPT !.store = Copied(@, room.writer, data), !.writer = @ + Len(data)]
=============================================================================
