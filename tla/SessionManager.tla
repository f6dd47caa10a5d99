--------------------------- MODULE SessionManager ---------------------------
(***************************************************************************)
(* HTTP sessions: SessionManager::getSession on the io threads, for every  *)
(* request, with destroySession, cleanExpiredSessions and the passing of   *)
(* time, over MemorySessionStorage.  The storage's mutex is held for one   *)
(* call of the storage; a session's expiryTime_ is read and written        *)
(* outside it.  Ids are generated apart; a time_point is read whole.       *)
(***************************************************************************)
EXTENDS Naturals

CONSTANTS
    Threads,   \* io threads
    MaxIds,    \* sessions created
    MaxAge,    \* maxAge_
    MaxTime    \* the last time considered

ASSUME SessionAssumption == MaxIds \in Nat /\ MaxAge \in Nat /\ MaxTime \in Nat

VARIABLES
    stored,     \* sessions in the storage, by id
    expiry,     \* expiryTime_ of each
    now,        \* the clock
    created,    \* ids generated so far: 1 .. created
    given,      \* ids whose cookie a client has
    step,       \* where each thread is in getSession
    sid,        \* the session it has
    left,       \* sessions clearExpired has still to look at; it holds the mutex
    doomed,     \* the one it found expired and is to erase, or 0
    cleaning,   \* clearExpired is under way
    destroyed,  \* history: ids given to destroySession
    raced       \* history: those a getSession had loaded and not yet saved then

vars == <<stored, expiry, now, created, given, step, sid, left, doomed, cleaning, destroyed, raced>>
sweep == <<left, doomed, cleaning>>

Ids == 1..MaxIds
Times == 0..(MaxTime + MaxAge)

TypeOK ==
    /\ stored \subseteq Ids /\ expiry \in [Ids -> Times] /\ now \in 0..MaxTime
    /\ created \in 0..MaxIds /\ given \subseteq 1..created
    /\ step \in [Threads -> {"idle", "check", "create", "refresh", "save"}]
    /\ sid \in [Threads -> Ids \cup {0}]
    /\ left \subseteq Ids /\ doomed \in Ids \cup {0} /\ cleaning \in BOOLEAN
    /\ destroyed \subseteq Ids /\ raced \subseteq destroyed

Init ==
    /\ stored = {} /\ expiry = [i \in Ids |-> 0] /\ now = 0
    /\ created = 0 /\ given = {}
    /\ step = [t \in Threads |-> "idle"] /\ sid = [t \in Threads |-> 0]
    /\ left = {} /\ doomed = 0 /\ cleaning = FALSE
    /\ destroyed = {} /\ raced = {}

IsExpired(i) == now > expiry[i]
-----------------------------------------------------------------------------
(* getSession: getSessionIdFromCookie and load, for a request with the cookie of a
   session or with none. *)
Load(t, id) ==
    /\ step[t] = "idle" /\ ~cleaning
    /\ IF id \in stored
       THEN /\ step' = [step EXCEPT ![t] = "check"] /\ sid' = [sid EXCEPT ![t] = id]
       ELSE /\ step' = [step EXCEPT ![t] = "create"] /\ UNCHANGED sid
    /\ UNCHANGED <<stored, expiry, now, created, given, sweep, destroyed, raced>>

CheckExpired(t) ==
    /\ step[t] = "check"
    /\ step' = [step EXCEPT ![t] = IF IsExpired(sid[t]) THEN "create" ELSE "refresh"]
    /\ sid' = [sid EXCEPT ![t] = IF IsExpired(@) THEN 0 ELSE @]
    /\ UNCHANGED <<stored, expiry, now, created, given, sweep, destroyed, raced>>

(* generateSessionId and the Session's constructor, which refreshes it. *)
Create(t) ==
    /\ step[t] = "create" /\ created < MaxIds
    /\ created' = created + 1
    /\ sid' = [sid EXCEPT ![t] = created + 1]
    /\ expiry' = [expiry EXCEPT ![created + 1] = now + MaxAge]
    /\ step' = [step EXCEPT ![t] = "save"]
    /\ UNCHANGED <<stored, now, given, sweep, destroyed, raced>>

Refresh(t) ==
    /\ step[t] = "refresh"
    /\ expiry' = [expiry EXCEPT ![sid[t]] = now + MaxAge]
    /\ step' = [step EXCEPT ![t] = "save"]
    /\ UNCHANGED <<stored, now, created, given, sid, sweep, destroyed, raced>>

Saved_New(t) == IF sid[t] \in given THEN stored ELSE stored \cup {sid[t]}

Saved(t) == stored \cup {sid[t]}

(* save, and setSessionCookie for a new session. *)
Save(t) ==
    /\ step[t] = "save" /\ ~cleaning
    /\ stored' = Saved(t)
    /\ given' = given \cup {sid[t]}
    /\ step' = [step EXCEPT ![t] = "idle"] /\ sid' = [sid EXCEPT ![t] = 0]
    /\ UNCHANGED <<expiry, now, created, sweep, destroyed, raced>>

Remove_Nothing(id) == stored' = stored

Remove(id) == stored' = stored \ {id}

DestroySession(id) ==
    /\ id \in given /\ ~cleaning
    /\ Remove(id)
    /\ destroyed' = destroyed \cup {id}
    /\ raced' = IF \E t \in Threads : sid[t] = id THEN raced \cup {id} ELSE raced
    /\ UNCHANGED <<expiry, now, created, given, step, sid, sweep>>
-----------------------------------------------------------------------------
(* clearExpired: under the mutex, one session after the other. *)
CleanBegin ==
    /\ ~cleaning
    /\ cleaning' = TRUE /\ left' = stored
    /\ UNCHANGED <<stored, expiry, now, created, given, step, sid, doomed, destroyed, raced>>

CleanCheck(id) ==
    /\ cleaning /\ doomed = 0 /\ id \in left
    /\ left' = left \ {id}
    /\ doomed' = IF IsExpired(id) THEN id ELSE 0
    /\ UNCHANGED <<stored, expiry, now, created, given, step, sid, cleaning, destroyed, raced>>

CleanErase ==
    /\ doomed # 0
    /\ stored' = stored \ {doomed} /\ doomed' = 0
    /\ UNCHANGED <<expiry, now, created, given, step, sid, left, cleaning, destroyed, raced>>

CleanEnd ==
    /\ cleaning /\ doomed = 0 /\ left = {}
    /\ cleaning' = FALSE
    /\ UNCHANGED <<stored, expiry, now, created, given, step, sid, left, doomed, destroyed, raced>>

Tick ==
    /\ now < MaxTime
    /\ now' = now + 1
    /\ UNCHANGED <<stored, expiry, created, given, step, sid, sweep, destroyed, raced>>

GetSession(t) ==
    \/ \E id \in given \cup {0} : Load(t, id)
    \/ CheckExpired(t) \/ Create(t) \/ Refresh(t) \/ Save(t)

Next ==
    \/ \E t \in Threads : GetSession(t)
    \/ \E id \in given : DestroySession(id)
    \/ CleanBegin \/ (\E id \in Ids : CleanCheck(id)) \/ CleanErase \/ CleanEnd
    \/ Tick

Spec == Init /\ [][Next]_vars
-----------------------------------------------------------------------------
(* The types, and: a session a client was given is found by its next request until its age is over
   or it is destroyed, whatever clearExpired and the other threads do between the
   check of its age and its save; one that is being saved is about to be there. *)
SessionKept ==
    /\ TypeOK
    /\ \A id \in given \ destroyed :
        IsExpired(id) \/ id \in stored \/ \E t \in Threads : step[t] = "save" /\ sid[t] = id

(* A destroyed session is gone for good, unless a getSession had loaded it when it
   was destroyed and saves it again (SessionManager.cpp:19-29). *)
DestroyedIsGone == \A id \in destroyed \ raced : id \notin stored
=============================================================================
