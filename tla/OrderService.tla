---------------------------- MODULE OrderService ----------------------------
(***************************************************************************)
(* What creates, reads and changes orders: the handlers of POST and GET    *)
(* /orders (OrderCreateHandler, OrderQueryHandler) and OrderService, over  *)
(* OrderCache and InventoryService on Redis and OrderRepository on the     *)
(* MySQL pool.  One user, one product, one unit per order.  A call is the  *)
(* list of the store accesses it has still to make; each access is one     *)
(* step, between which the other threads run.                              *)
(***************************************************************************)
EXTENDS Integers, FiniteSets, Sequences, SequencesExt

CONSTANTS
    Threads,       \* the threads that make calls
    MaxCalls,      \* and how many calls they make
    LastOrder,     \* orders are 1 .. LastOrder, in the order of created_at
    BarOrders,     \* orders whose payload holds the cache's separator '|'
    Earlier,       \* orders created before, at most
    InitialStock,  \* units before any order
    MaxPageSize,   \* Options::maxPageSize
    Limits,        \* the limits asked for
    Offsets,       \* and the offsets
    Targets,       \* the statuses UpdateStatus and MarkPaid set
    FaultKinds,    \* what may go wrong
    MaxFaults      \* and how often

Orders == 1..LastOrder
Pages == Limits \X Offsets

NoRow == "none"
Statuses == {"Pending", "Paid", "Completed", "Cancelled", "Failed"}
NotHolding == {"Cancelled", "Failed"}

(* Redis fails for the cache or for the stock, where a write may have been made all
   the same; a query's future throws; an insert is reported as not done, when it was
   not and when it was; a publish throws. *)
AllFaults == {"cache", "stock", "db", "insert", "insertLost", "publish"}

ASSUME OrderServiceAssumption ==
    /\ LastOrder \in Nat \ {0} /\ BarOrders \subseteq Orders
    /\ Earlier \in 0..LastOrder /\ Earlier <= InitialStock
    /\ MaxCalls \in Nat /\ InitialStock \in Nat /\ MaxPageSize \in Nat \ {0}
    /\ Limits \subseteq Nat /\ Offsets \subseteq Nat /\ Targets \subseteq Statuses
    /\ FaultKinds \subseteq AllFaults /\ MaxFaults \in Nat

VARIABLES
    table,         \* status of each row of the orders table
    cache,         \* status in each order's cache key
    userList,      \* the user's cached list: no list or one
    stock,         \* the stock key in Redis
    reservations,  \* reservation keys in Redis, by the order id they carry
    told,          \* orders an event was published for, or a client was answered 200 for
    made,          \* calls made so far
    op,            \* the call each thread makes: name, order and page
    todo,          \* the accesses it has still to make
    rec,           \* the rows it holds
    num,           \* the stock value it read
    answer,        \* the list the last step answered a call with, if it did
    raced,         \* history: orders a copy of which, older than the row, a call was to cache
    overlapped,    \* history: the stock changed while a call held an older value to write
    unmatched,     \* history: a row got or lost its unit by a status alone
    listStale,     \* history: the table changed after the list was read for the cache
    listFrom,      \* history: the page the cached list was read for
    supply,        \* history: units there should be, in stock or held by orders
    failed,        \* history: the kinds of fault that happened
    faults         \* and how many

stores == <<table, cache, userList, stock, reservations, told>>
local == <<made, op, todo, rec, num, answer>>
history == <<raced, overlapped, unmatched, listStale, listFrom, supply>>
vars == <<stores, local, history, failed, faults>>

Names == {"idle", "GetOrderById", "handleGetById", "ListOrdersByUser", "handleListByUser",
          "handleCreate", "CreateOrder", "CreateOrder, skipReservation", "UpdateStatus",
          "CancelOrder", "RefreshCache", "RefreshTTL", "Warmup", "AdjustStock", "SetStock", "CommitReservation"}
Lists == {"ListOrdersByUser", "handleListByUser"}
Creates == {"handleCreate", "CreateOrder", "CreateOrder, skipReservation"}
Idle == <<"idle", 1, <<0, 0>>>>

(* The cache, else the table, and what was found there into the cache. *)
GetQuery == <<"cacheGet", "dbGet", "put">>
ListQuery == <<"listGet", "dbList", "listPut">>

(* The store accesses of each operation, when none of them fails or returns early;
   MarkPaid makes those of UpdateStatus. *)
Program(name) ==
    CASE name \in {"GetOrderById", "handleGetById"} -> GetQuery
      [] name \in Lists -> ListQuery
      [] name \in {"handleCreate", "CreateOrder"} -> <<"stockGet", "stockSet", "reserve", "insert", "put", "publish">>
      [] name = "CreateOrder, skipReservation" -> <<"insert", "put", "publish">>
      [] name = "UpdateStatus" ->
             <<"update", "dbGet", "put">> \o GetQuery \o <<"publish">>
      [] name = "CancelOrder" ->
             <<"dbGet", "update", "incGet", "incSet", "delete", "dbGet", "put", "publish">>
      [] name = "RefreshCache" -> <<"dbGet", "put">>
      [] name = "RefreshTTL" -> <<"ttlGet", "put">>
      [] name = "Warmup" -> <<"recent", "putEach">>
      [] name = "AdjustStock" -> <<"adjustGet", "adjustSet">>
      [] name = "SetStock" -> <<"set">>
      [] name = "CommitReservation" -> <<"delete">>
      [] OTHER -> <<>>

At(c, s) == todo[c] # <<>> /\ Head(todo[c]) = s
Order(c) == op[c][2]
Rest(c) == Tail(todo[c])

(* A call goes on with the given accesses and rows, or ends and answers with them. *)
Proceed(c, steps, rows) ==
    /\ todo' = [todo EXCEPT ![c] = steps]
    /\ rec' = [rec EXCEPT ![c] = IF steps = <<>> THEN <<>> ELSE rows]
    /\ op' = [op EXCEPT ![c] = IF steps = <<>> THEN Idle ELSE @]
    /\ answer' = IF steps = <<>> /\ op[c][1] \in Lists THEN rows ELSE <<>>
    /\ UNCHANGED made

Return(c) == Proceed(c, <<>>, <<>>)

(* An exception leaves the operation. *)
Throw(c) == Proceed(c, <<>>, <<<<0, NoRow>>>>)

(* OrderQueryHandler catches what its stores throw, and has then found nothing. *)
Catches(c) == op[c][1] \in {"handleGetById", "handleListByUser"}

(* OrderCreateHandler::handle answers by itself when a step fails. *)
Handler(c) == op[c][1] = "handleCreate"

Fault(kind) ==
    /\ kind \in FaultKinds /\ faults < MaxFaults
    /\ faults' = faults + 1 /\ failed' = failed \cup {kind}

NoFault == UNCHANGED <<faults, failed>>
-----------------------------------------------------------------------------
TypeOK ==
    /\ table \in [Orders -> Statuses \cup {NoRow}]
    /\ cache \in [Orders -> Statuses \cup {NoRow}]
    /\ \A l \in userList : \A i \in DOMAIN l : l[i] \in Orders \X Statuses
    /\ Cardinality(userList) <= 1
    /\ stock \in Nat /\ reservations \subseteq Orders \cup {0} /\ told \subseteq Orders
    /\ \A c \in Threads : op[c] \in Names \X Orders \X (Nat \X Nat)
    /\ num \in [Threads -> Nat] /\ made \in 0..MaxCalls
    /\ raced \subseteq Orders /\ failed \subseteq FaultKinds /\ faults \in 0..MaxFaults

(* Orders created earlier, of which Redis may still have the cache keys. *)
Init ==
    /\ \E n \in 0..Earlier : \E kept \in {{}, 1..n} :
         /\ table = [o \in Orders |-> IF o <= n THEN "Pending" ELSE NoRow]
         /\ cache = [o \in Orders |-> IF o \in kept THEN "Pending" ELSE NoRow]
         /\ stock = InitialStock - n /\ reservations = 1..n
    /\ userList = {} /\ told = {}
    /\ made = 0 /\ op = [c \in Threads |-> Idle] /\ answer = <<>>
    /\ todo = [c \in Threads |-> <<>>] /\ rec = [c \in Threads |-> <<>>]
    /\ num = [c \in Threads |-> 0]
    /\ raced = {} /\ overlapped = FALSE /\ unmatched = FALSE
    /\ listStale = FALSE /\ listFrom = <<0, 0>> /\ supply = InitialStock
    /\ failed = {} /\ faults = 0
-----------------------------------------------------------------------------
(* A call starts on a free thread.  Orders have ids of their own, so an order is
   created by one call at a time; handler and service clip the limit to maxPageSize,
   and the service returns at once when it is 0. *)
Started(o) == table[o] # NoRow \/ \E c \in Threads : op[c][1] \in Creates /\ Order(c) = o

Clip(page) == <<IF page[1] < MaxPageSize THEN page[1] ELSE MaxPageSize, page[2]>>

Start(c, name, o, page) ==
    /\ op[c] = Idle /\ made < MaxCalls /\ made' = made + 1
    /\ name \in Creates => ~Started(o) /\ \A p \in 1..(o - 1) : Started(p)
    /\ ~(name = "ListOrdersByUser" /\ page[1] = 0)
    /\ op' = [op EXCEPT ![c] = <<name, o, IF name \in Lists THEN Clip(page) ELSE <<0, 0>>>>]
    /\ todo' = [todo EXCEPT ![c] = Program(name)]
    /\ answer' = <<>>
    /\ rec' = [rec EXCEPT ![c] = IF name \in Creates THEN <<<<o, "Pending">>>> ELSE <<>>]
    /\ UNCHANGED <<stores, num, history, failed, faults>>
-----------------------------------------------------------------------------
(* OrderCache: an order is written as fields between '|', so a payload with one
   cannot be read back: the conversion of a later field throws.  The query handler
   takes that for a miss; out of OrderService it leaves the call. *)
Readable(o) == o \notin BarOrders

CacheGet(c) ==
    /\ At(c, "cacheGet")
    /\ LET o == Order(c) IN
         \/ /\ cache[o] # NoRow /\ Readable(o)
            /\ Proceed(c, SubSeq(todo[c], 4, Len(todo[c])), <<<<o, cache[o]>>>>) /\ NoFault
         \/ cache[o] = NoRow /\ Proceed(c, Rest(c), <<>>) /\ NoFault
         \/ /\ cache[o] # NoRow /\ ~Readable(o) /\ NoFault
            /\ IF Catches(c) THEN Proceed(c, Rest(c), <<>>) ELSE Throw(c)
         \/ Fault("cache") /\ Proceed(c, Rest(c), <<>>)
    /\ UNCHANGED <<stores, num, history>>

(* PutOrder; its result is not looked at. *)
Put(c) ==
    /\ At(c, "put")
    /\ Proceed(c, Rest(c), <<>>)
    /\ \/ cache' = [cache EXCEPT ![Order(c)] = Head(rec[c])[2]] /\ (NoFault \/ Fault("cache"))
       \/ Fault("cache") /\ UNCHANGED cache
    /\ UNCHANGED <<table, userList, stock, reservations, told, num, history>>

(* RefreshTTL reads the key, which may be older than the row, and writes it back. *)
TtlGet(c) ==
    /\ At(c, "ttlGet")
    /\ LET o == Order(c) IN
         \/ /\ cache[o] # NoRow /\ Proceed(c, Rest(c), <<<<o, cache[o]>>>>)
            /\ raced' = IF cache[o] # table[o] THEN raced \cup {o} ELSE raced
            /\ NoFault
         \/ cache[o] = NoRow /\ Return(c) /\ NoFault /\ UNCHANGED raced
         \/ Fault("cache") /\ Return(c) /\ UNCHANGED raced
    /\ UNCHANGED <<stores, num, overlapped, unmatched, listStale, listFrom, supply>>

(* ListRecent, then Warmup puts one order after the other. *)
Recent(c) ==
    /\ At(c, "recent")
    /\ LET rows == SelectSeq([i \in Orders |-> <<i, table[i]>>], LAMBDA r : r[2] # NoRow) IN
         \/ Proceed(c, IF rows = <<>> THEN <<>> ELSE Rest(c), Reverse(rows)) /\ NoFault
         \/ Fault("db") /\ Return(c)
    /\ UNCHANGED <<stores, num, history>>

PutEach(c) ==
    /\ At(c, "putEach")
    /\ LET row == Head(rec[c]) IN
         /\ Proceed(c, IF Len(rec[c]) = 1 THEN <<>> ELSE todo[c], Tail(rec[c]))
         /\ \/ cache' = [cache EXCEPT ![row[1]] = row[2]] /\ (NoFault \/ Fault("cache"))
            \/ Fault("cache") /\ UNCHANGED cache
    /\ UNCHANGED <<table, userList, stock, reservations, told, num, history>>
-----------------------------------------------------------------------------
(* OrderRepository: the rows, newest first. *)
Page(page) ==
    LET rows == Reverse(SelectSeq([i \in Orders |-> <<i, table[i]>>], LAMBDA r : r[2] # NoRow))
        last == page[2] + page[1]
    IN  SubSeq(rows, page[2] + 1, IF last < Len(rows) THEN last ELSE Len(rows))

(* The user's list has one key, whatever the page; the handler takes an empty list
   for a miss, and a list with an unreadable order as well. *)
ListGet(c) ==
    /\ At(c, "listGet")
    /\ \/ \E l \in userList :
            /\ NoFault
            /\ LET readable == \A i \in DOMAIN l : Readable(l[i][1]) IN
                 IF readable /\ (l # <<>> \/ ~Catches(c)) THEN Proceed(c, <<>>, l)
                 ELSE IF Catches(c) THEN Proceed(c, Rest(c), <<>>) ELSE Throw(c)
       \/ userList = {} /\ Proceed(c, Rest(c), <<>>) /\ NoFault
       \/ Fault("cache") /\ Proceed(c, Rest(c), <<>>)
    /\ UNCHANGED <<stores, num, history>>

ListByUser_Offset(c) == Page(<<op[c][3][1], 0>>)

ListByUser(c) == Page(op[c][3])

(* The handler answers 404 to an empty page and leaves the cache alone. *)
DbList(c) ==
    /\ At(c, "dbList")
    /\ LET rows == ListByUser(c) IN
         \/ /\ NoFault
            /\ IF rows = <<>> /\ Catches(c)
               THEN Return(c) ELSE Proceed(c, Rest(c), rows)
         \/ Fault("db") /\ IF Catches(c) THEN Return(c) ELSE Throw(c)
    /\ UNCHANGED <<stores, num, history>>

ListPut(c) ==
    /\ At(c, "listPut")
    /\ Proceed(c, Rest(c), rec[c])
    /\ \/ userList' = {rec[c]} /\ listFrom' = op[c][3] /\ (NoFault \/ Fault("cache"))
       \/ Fault("cache") /\ UNCHANGED <<userList, listFrom>>
    /\ UNCHANGED <<table, cache, stock, reservations, told, num,
                   raced, overlapped, unmatched, listStale, supply>>

(* GetById, of a row a call is to change, return or cache. *)
DbGet(c) ==
    /\ At(c, "dbGet")
    /\ LET row == <<Order(c), table[Order(c)]>> IN
         \/ /\ table[Order(c)] # NoRow /\ NoFault
            /\ Proceed(c, Rest(c), <<row>>)
         \/ table[Order(c)] = NoRow /\ Return(c) /\ NoFault
         \/ Fault("db") /\ Throw(c)
    /\ UNCHANGED <<stores, num, history>>

(* A row written while another call is about to cache what it read before, or
   after the user's list was read. *)
WriteRow(c, status) ==
    LET o == Order(c) IN
    /\ table' = [table EXCEPT ![o] = status]
    /\ raced' = IF \E d \in Threads \ {c} : (At(d, "put") \/ At(d, "putEach"))
                                            /\ o \in {rec[d][i][1] : i \in DOMAIN rec[d]}
                THEN raced \cup {o} ELSE raced
    /\ listStale' = (listStale \/ userList # {} \/ \E d \in Threads : At(d, "listPut"))

Holds(status) == status \notin NotHolding \cup {NoRow}

(* What a call may set the status to. *)
NewStatuses(c) ==
    CASE op[c][1] = "UpdateStatus" -> Targets
      [] op[c][1] = "CancelOrder" -> {"Cancelled"}

AfterUpdate_Bare(c) == Proceed(c, <<"publish">>, <<<<Order(c), "Pending">>>>)

AfterUpdate(c) == Proceed(c, Rest(c), rec[c])

(* The row's unit and the new status.  CancelOrder gives a unit back, whether or not
   the row held one, or none when its caller says so (releaseReservation = false); the
   others give none back and take none. *)
UpdateUnits(c, status) ==
    LET held == Holds(table[Order(c)]) IN
    \/ /\ op[c][1] = "CancelOrder"
       /\ AfterUpdate(c)
       /\ unmatched' = (unmatched \/ ~held) /\ UNCHANGED supply
    \/ /\ op[c][1] = "CancelOrder"
       /\ Proceed(c, SubSeq(todo[c], 5, Len(todo[c])), rec[c])
       /\ supply' = (IF held THEN supply - 1 ELSE supply) /\ UNCHANGED unmatched
    \/ /\ op[c][1] # "CancelOrder"
       /\ AfterUpdate(c)
       /\ unmatched' = (unmatched \/ held # Holds(status)) /\ UNCHANGED supply

(* UPDATE ... WHERE order_id, whatever the row's status; MySQL counts the rows it
   changed, so the status it has already may count as none. *)
Update(c) ==
    /\ At(c, "update")
    /\ LET o == Order(c) IN
         \/ \E status \in NewStatuses(c) :
              table[o] # NoRow /\ WriteRow(c, status) /\ UpdateUnits(c, status) /\ NoFault
         \/ /\ table[o] \in {NoRow} \cup NewStatuses(c) /\ Return(c)
            /\ NoFault /\ UNCHANGED <<table, raced, listStale, unmatched, supply>>
         \/ /\ Fault("db") /\ Throw(c) /\ UNCHANGED supply
            /\ \/ UNCHANGED <<table, raced, listStale, unmatched>>
               \/ \E status \in NewStatuses(c) :
                    /\ table[o] # NoRow /\ WriteRow(c, status)
                    /\ unmatched' = (unmatched \/ (op[c][1] # "CancelOrder" /\ Holds(table[o]) # Holds(status)))
    /\ UNCHANGED <<cache, userList, stock, reservations, told, num, overlapped, listFrom>>

Rollback == <<"incGet", "incSet", "delete">>

AfterInsertFails_Goes(c) == Proceed(c, Rest(c), rec[c])

(* A reservation is rolled back; for a failed order the report is not looked at. *)
AfterInsertFails(c) ==
    CASE Head(rec[c])[2] = "Failed" -> Proceed(c, Rest(c), rec[c])
      [] op[c][1] = "CreateOrder, skipReservation" -> Return(c)
      [] OTHER -> Proceed(c, Rollback, rec[c])

(* The insert of CreateOrder and persistOrder: done, reported as failed, or an
   exception, after which nothing is undone.  A caller that skips the reservation
   brings the unit. *)
Insert(c) ==
    LET row == WriteRow(c, Head(rec[c])[2])
               /\ supply' = (IF op[c][1] = "CreateOrder, skipReservation" THEN supply + 1 ELSE supply)
        noRow == UNCHANGED <<table, raced, listStale, supply>>
    IN  /\ At(c, "insert")
        /\ \/ row /\ Proceed(c, Rest(c), rec[c]) /\ NoFault
           \/ Fault("insert") /\ noRow /\ AfterInsertFails(c)
           \/ Fault("insertLost") /\ row /\ AfterInsertFails(c)
           \/ Fault("db") /\ (row \/ noRow) /\ Throw(c)
        /\ UNCHANGED <<cache, userList, stock, reservations, told, num,
                       overlapped, unmatched, listFrom>>

(* The order's event.  The handler answers 200 though the publish throws; out of
   OrderService it throws.  The reservation events, to an exchange of their own, are
   left out. *)
PublishEvent(c) ==
    /\ At(c, "publish")
    /\ \/ told' = told \cup {Order(c)} /\ Return(c) /\ NoFault
       \/ /\ Fault("publish")
          /\ IF Handler(c) THEN told' = told \cup {Order(c)} /\ Return(c)
                            ELSE UNCHANGED told /\ Throw(c)
    /\ UNCHANGED <<table, cache, userList, stock, reservations, num, history>>
-----------------------------------------------------------------------------
(* InventoryService: every change of the stock is a GET and a later SET. *)
StockReads == {"stockGet", "incGet", "adjustGet"}
StockWrites == {"stockSet", "incSet", "adjustSet"}

(* The handler answers 503; CreateOrder stores a failed order. *)
ReserveFails(c) ==
    IF Handler(c) THEN Return(c) ELSE Proceed(c, <<"insert", "put">>, <<<<Order(c), "Failed">>>>)

(* What a failed access does: the reservation fails, a release is given up and what
   follows it goes on, an adjustment returns false. *)
StockFails(c) ==
    CASE Head(todo[c]) \in {"stockGet", "stockSet", "reserve"} -> ReserveFails(c)
      [] Head(todo[c]) = "incGet" -> Proceed(c, SubSeq(todo[c], 4, Len(todo[c])), rec[c])
      [] Head(todo[c]) = "incSet" -> Proceed(c, SubSeq(todo[c], 3, Len(todo[c])), rec[c])
      [] OTHER -> Return(c)

GetStock(c) ==
    /\ todo[c] # <<>> /\ Head(todo[c]) \in StockReads
    /\ \/ /\ num' = [num EXCEPT ![c] = stock] /\ NoFault
          /\ IF At(c, "stockGet") /\ stock < 1 THEN ReserveFails(c) ELSE Proceed(c, Rest(c), rec[c])
       \/ Fault("stock") /\ StockFails(c) /\ UNCHANGED num
    /\ UNCHANGED <<stores, history>>


NewStock(c, delta) ==
    CASE At(c, "stockSet") -> num[c] - 1
      [] At(c, "incSet") -> num[c] + 1
      [] OTHER -> IF num[c] + delta < 0 THEN 0 ELSE num[c] + delta

SetStockKey(c, delta) ==
    /\ todo[c] # <<>> /\ Head(todo[c]) \in StockWrites
    /\ \/ /\ stock' = NewStock(c, delta)
          /\ (NoFault /\ Proceed(c, Rest(c), rec[c])) \/ (Fault("stock") /\ StockFails(c))
          /\ overlapped' = (overlapped \/ stock # num[c])
          /\ supply' = IF At(c, "adjustSet") THEN supply + NewStock(c, delta) - num[c] ELSE supply
       \/ Fault("stock") /\ StockFails(c) /\ UNCHANGED <<stock, overlapped, supply>>
    /\ num' = [num EXCEPT ![c] = 0]
    /\ UNCHANGED <<table, cache, userList, reservations, told,
                   raced, unmatched, listStale, listFrom>>

SetStock(c, amount) ==
    /\ At(c, "set")
    /\ Return(c)
    /\ \/ stock' = amount /\ supply' = supply + amount - stock /\ (NoFault \/ Fault("stock"))
       \/ Fault("stock") /\ UNCHANGED <<stock, supply>>
    /\ UNCHANGED <<table, cache, userList, reservations, told, num,
                   raced, overlapped, unmatched, listStale, listFrom>>

(* cacheReservation, under the order's own key; the handler's record has no id yet,
   so its reservations share one key. *)
ReservationId(c) == IF Handler(c) THEN 0 ELSE Order(c)

Reserve(c) ==
    /\ At(c, "reserve")
    /\ \/ /\ reservations' = reservations \cup {ReservationId(c)}
          /\ (NoFault /\ Proceed(c, Rest(c), rec[c])) \/ (Fault("stock") /\ StockFails(c))
       \/ Fault("stock") /\ StockFails(c) /\ UNCHANGED reservations
    /\ UNCHANGED <<table, cache, userList, stock, told, num, history>>

(* deleteReservation: CancelOrder and the handler leave the reservation's id empty and
   delete no reservation of an order. *)
Released(c) ==
    IF op[c][1] = "CancelOrder" \/ Handler(c) THEN reservations ELSE reservations \ {Order(c)}

Delete(c) ==
    /\ At(c, "delete")
    /\ \/ reservations' = Released(c) /\ (NoFault \/ Fault("stock"))
       \/ Fault("stock") /\ UNCHANGED reservations
    /\ Proceed(c, Rest(c), rec[c])
    /\ UNCHANGED <<table, cache, userList, stock, told, num, history>>
-----------------------------------------------------------------------------
Step(c) ==
    \/ CacheGet(c) \/ Put(c) \/ TtlGet(c) \/ Recent(c) \/ PutEach(c)
    \/ ListGet(c) \/ DbList(c) \/ ListPut(c)
    \/ DbGet(c) \/ Update(c) \/ Insert(c) \/ PublishEvent(c)
    \/ GetStock(c) \/ Reserve(c) \/ Delete(c) \/ SetStock(c, InitialStock)
    \/ \E delta \in {-1, 1} : (At(c, "adjustSet") \/ delta = 1) /\ SetStockKey(c, delta)

Begin(c) ==
    \/ \E name \in Lists, page \in Pages : Start(c, name, 1, page)
    \/ \E name \in {"Warmup", "AdjustStock", "SetStock"} : Start(c, name, 1, <<0, 0>>)
    \/ \E name \in Names \ (Lists \cup {"idle", "Warmup", "AdjustStock", "SetStock"}), o \in Orders :
         Start(c, name, o, <<0, 0>>)

Finished == made = MaxCalls /\ (\A c \in Threads : op[c] = Idle) /\ UNCHANGED vars

Next == (\E c \in Threads : Begin(c) \/ Step(c)) \/ Finished

Spec == Init /\ [][Next]_vars

(* Threads differ in nothing but their names. *)
ThreadSymmetry == Permutations(Threads)
-----------------------------------------------------------------------------
(* The types, and: a cached order is the row of the table, or a call that is to cache
   the order again is under way, through every order of creations, updates, refreshes,
   queries and warm-ups (OrderService.cpp:112, 179-185).  Not so when an access failed,
   or a call was to cache a copy older than the row: one read before the row changed,
   or one RefreshTTL took from a key that was stale already. *)
CacheAgrees ==
    /\ TypeOK
    /\ failed \cap {"cache", "db", "insert", "insertLost"} = {} =>
        \A o \in Orders \ raced :
            cache[o] \in {NoRow, table[o]} \/ \E c \in Threads : Order(c) = o /\ Contains(todo[c], "put")

(* An order a client was told 200 for, or an event tells of, has its row, whichever of
   the steps before it failed (OrderCreateHandler.cpp:148-162). *)
OkIsPersisted == \A o \in told : table[o] # NoRow

(* The unit missing from supply: neither in the stock, nor held by a row that is
   neither cancelled nor failed, nor with a call between taking or giving back a unit
   and its row. *)
Missing ==
    LET moving == {c \in Threads : \/ At(c, "reserve") \/ At(c, "incGet") \/ At(c, "incSet")
                                 \/ /\ At(c, "insert") /\ Head(rec[c])[2] # "Failed"
                                    /\ op[c][1] # "CreateOrder, skipReservation"}
    IN  supply - stock - Cardinality({o \in Orders : Holds(table[o])}) - Cardinality(moving)


(* A list is answered with the page that was asked for, unless the list in the
   cache was read for another page or the table has changed since: the key holds
   neither limit nor offset, and nothing removes it (OrderQueryHandler.cpp:99). *)
PageServed ==
    [][\A c \in Threads :
         op[c][1] \in Lists /\ todo[c] # <<>> /\ todo'[c] = <<>> =>
            \/ answer' = Page(op[c][3])
            \/ listStale
            \/ At(c, "listGet") /\ listFrom # op[c][3]
            \/ answer' = <<<<0, NoRow>>>> \/ "db" \in failed']_vars
=============================================================================
