----------------------------- MODULE RedisPool ------------------------------
(***************************************************************************)
(* cache/RedisPool.cpp and RedisClient.cpp: clients are borrowed with      *)
(* GetClient, used by one thread at a time, and returned by the deleter of *)
(* the borrowed pointer, to the pool or, once the pool is gone, to the heap.*)
(***************************************************************************)
EXTENDS Naturals, Sequences, SequencesExt, FiniteSets

CONSTANTS
    Clients,   \* the clients the constructor makes
    Users,     \* threads that borrow
    NoClient   \* a user without a client

ASSUME RedisAssumption == NoClient \notin Clients /\ IsFiniteSet(Clients)

VARIABLES
    up,        \* the Redis server answers
    context,   \* context_ of each client: "null", "ok", "err"
    clients,   \* clients_
    freed,     \* clients deleted
    owner,     \* the application still holds the pool
    user,      \* where each user is
    client,    \* the client a user has borrowed
    built      \* clients the constructor has yet to make

vars == <<up, context, clients, freed, owner, user, client, built>>

TypeOK ==
    /\ up \in BOOLEAN
    /\ context \in [Clients -> {"null", "ok", "err"}]
    /\ clients \in Seq(Clients)
    /\ freed \subseteq Clients
    /\ owner \in BOOLEAN
    /\ user \in [Users -> {"idle", "test", "asleep", "use", "return", "notify"}]
    /\ client \in [Users -> Clients \cup {NoClient}]
    /\ \A u \in Users : (client[u] # NoClient) <=> (user[u] \in {"use", "return"})
    /\ built \subseteq Clients

Init ==
    /\ up \in BOOLEAN
    /\ context = [c \in Clients |-> "null"]
    /\ clients = <<>>
    /\ freed = {}
    /\ owner = TRUE
    /\ user = [u \in Users |-> "idle"]
    /\ client = [u \in Users |-> NoClient]
    /\ built = Clients

(* The pool object exists while someone has a strong reference: its owner, a caller
   inside GetClient, or a deleter that has locked self_weak. *)
Alive == owner \/ \E u \in Users : user[u] \in {"test", "asleep", "return", "notify"}

(* The threads blocked on cond_. *)
Asleep == {u \in Users : user[u] = "asleep"}
-----------------------------------------------------------------------------
(* RedisClient::Connect, with the password accepted. *)
Connect(c) == context' = [context EXCEPT ![c] = IF up THEN "ok" ELSE "null"]

(* The constructor keeps the clients that connect and frees the others. *)
Construct(c) ==
    /\ c \in built
    /\ built' = built \ {c}
    /\ Connect(c)
    /\ \/ up /\ clients' = Append(clients, c) /\ UNCHANGED freed
       \/ ~up /\ freed' = freed \cup {c} /\ UNCHANGED clients
    /\ UNCHANGED <<up, owner, user, client>>

(* The server goes away or comes back. *)
Server ==
    /\ up' = ~up
    /\ UNCHANGED <<context, clients, freed, owner, user, client, built>>

CallGetClient(u) ==
    /\ user[u] = "idle" /\ owner /\ built = {}
    /\ user' = [user EXCEPT ![u] = "test"]
    /\ UNCHANGED <<up, context, clients, freed, owner, client, built>>

(* The predicate of cond_.wait is false: mutex_ is given up and the thread sleeps. *)
Wait(u) ==
    /\ user[u] = "test" /\ clients = <<>>
    /\ user' = [user EXCEPT ![u] = "asleep"]
    /\ UNCHANGED <<up, context, clients, freed, owner, client, built>>

(* A condition variable may also wake a thread that nobody notified. *)
WakeSpuriously(u) ==
    /\ u \in Asleep
    /\ user' = [user EXCEPT ![u] = "test"]
    /\ UNCHANGED <<up, context, clients, freed, owner, client, built>>

Popped_Keeps == clients

(* clients_ after its front is moved out. *)
Popped == Tail(clients)

(* The pool's destructor, when the last reference goes, frees what clients_ holds. *)
Destroyed(rest) ==
    /\ freed' = freed \cup ToSet(rest)
    /\ clients' = <<>>

Remains(rest) == clients' = rest /\ UNCHANGED freed

(* The predicate holds and the first client is handed out, to whichever thread tests
   it first: one that was notified or one that has just called. *)
GetClient(u) ==
    /\ user[u] = "test"
    /\ clients # <<>>
    /\ client' = [client EXCEPT ![u] = Head(clients)]
    /\ user' = [user EXCEPT ![u] = "use"]
    /\ UNCHANGED <<up, context, owner, built>>
    /\ IF Alive' THEN Remains(Popped) ELSE Destroyed(Popped)

(* Get, Set or Del: EnsureConnected, then a command, which fails and marks the
   context when the server is away. *)
Command(u) ==
    /\ user[u] = "use"
    /\ \/ context[client[u]] = "ok" /\ ~up
          /\ context' = [context EXCEPT ![client[u]] = "err"]
       \/ context[client[u]] = "ok" /\ up /\ UNCHANGED context
       \/ context[client[u]] # "ok" /\ Connect(client[u])
    /\ UNCHANGED <<up, clients, freed, owner, user, client, built>>

Forget(u) == client' = [client EXCEPT ![u] = NoClient]

(* The borrowed pointer goes out of scope: its deleter locks self_weak and finds the
   pool, or frees the client. *)
Drop(u) ==
    /\ user[u] = "use"
    /\ \/ /\ Alive
          /\ user' = [user EXCEPT ![u] = "return"]
          /\ UNCHANGED <<freed, client>>
       \/ /\ ~Alive
          /\ freed' = freed \cup {client[u]}
          /\ Forget(u)
          /\ user' = [user EXCEPT ![u] = "idle"]
    /\ UNCHANGED <<up, context, clients, owner, built>>

Pushed(c) == Append(clients, c)

(* Release under mutex_: a stale client reconnects if it can, and is pushed. *)
Release(u) ==
    /\ user[u] = "return"
    /\ LET c == client[u] IN
        /\ IF context[c] = "ok" THEN UNCHANGED context ELSE Connect(c)
        /\ Remains(Pushed(c))
    /\ user' = [user EXCEPT ![u] = "notify"]
    /\ Forget(u)
    /\ UNCHANGED <<up, owner, built>>

NotifyOne_Nobody(u) == user' = [user EXCEPT ![u] = "idle"]

(* cond_.notify_one: one of the sleepers, if there is any, goes back to the test. *)
NotifyOne(u) ==
    \/ Asleep = {} /\ user' = [user EXCEPT ![u] = "idle"]
    \/ \E v \in Asleep : user' = [user EXCEPT ![u] = "idle", ![v] = "test"]

(* After the unlock Release notifies; then the deleter drops the pool, which may be
   the last reference to it. *)
Notify(u) ==
    /\ user[u] = "notify"
    /\ NotifyOne(u)
    /\ UNCHANGED <<up, context, owner, client, built>>
    /\ IF Alive' THEN Remains(clients) ELSE Destroyed(clients)

(* The application drops the pool. *)
Close ==
    /\ owner /\ built = {}
    /\ owner' = FALSE
    /\ UNCHANGED <<up, context, user, client, built>>
    /\ IF Alive' THEN Remains(clients) ELSE Destroyed(clients)

Next ==
    \/ \E c \in Clients : Construct(c)
    \/ Server
    \/ \E u \in Users :
        \/ CallGetClient(u) \/ Wait(u) \/ WakeSpuriously(u) \/ GetClient(u)
        \/ Command(u) \/ Drop(u) \/ Release(u) \/ Notify(u)
    \/ Close

(* Every thread that can go on in GetClient, in the deleter or in Release does, and a
   borrower drops its pointer; nothing is assumed of who gets mutex_ first. *)
Fairness ==
    /\ \A c \in Clients : WF_vars(Construct(c))
    /\ \A u \in Users :
        /\ WF_vars(Wait(u)) /\ WF_vars(GetClient(u))
        /\ WF_vars(Drop(u)) /\ WF_vars(Release(u)) /\ WF_vars(Notify(u))

Spec == Init /\ [][Next]_vars /\ Fairness
-----------------------------------------------------------------------------
(* The types, and: every client is in one place: still to be made, in clients_, with one user, or
   freed; no client is shared by two users, lost, or freed twice, whoever drops the
   pool last; and when the pool is gone nothing stays behind in it. *)
OneHolder ==
    LET users == {u \in Users : client[u] # NoClient}
        held == {client[u] : u \in users}
    IN  /\ TypeOK
        /\ ~Alive => clients = <<>>
        /\ Cardinality(held) = Cardinality(users)
        /\ IsInjective(clients)
        /\ Cardinality(built) + Len(clients) + Cardinality(held) + Cardinality(freed)
               = Cardinality(Clients)
        /\ built \cup ToSet(clients) \cup held \cup freed = Clients

(* No notification is lost: a client does not stay in clients_ beside a sleeping
   caller; it is taken, or nobody is left asleep.  Release notifies one thread per
   client and after the unlock, so a newcomer may take the client first and the
   notified thread sleep again: nothing promises a given caller its turn. *)
IdleClientTaken ==
    (clients # <<>> /\ Asleep # {}) ~> (clients = <<>> \/ Asleep = {})
=============================================================================
