--------------------------- MODULE RequestPermits ---------------------------
(***************************************************************************)
(* Admission to the local gateway (ProxyState::try_acquire_request_permits *)
(* and the life of the RequestPermits it returns): one global semaphore,   *)
(* and one semaphore per session token, kept in a map that is pruned when  *)
(* it grows.  Requests run on several threads, so the steps that touch     *)
(* shared state are separate actions: the global try_acquire, the lookup   *)
(* under the map's lock, the session try_acquire, and the two releases of  *)
(* the destructor.                                                         *)
(***************************************************************************)
EXTENDS Naturals, FiniteSets

CONSTANTS
    Requests,      \* places for requests in flight
    Tokens,        \* session tokens
    NoToken,       \* a request without one
    Semaphores,    \* addresses of Arc<Semaphore> allocations
    NoSemaphore,   \* no entry in the map, no handle in a request
    GlobalLimit,   \* GLOBAL_CONCURRENCY_LIMIT
    SessionLimit,  \* SESSION_CONCURRENCY_LIMIT
    MapLimit,      \* the length from which the map is pruned
    Workers        \* threads of the runtime: releases that can overlap

ASSUME PermitsAssumption ==
    /\ IsFiniteSet(Requests)
    /\ NoToken \notin Tokens
    /\ NoSemaphore \notin Semaphores
    /\ GlobalLimit \in Nat \ {0}
    /\ SessionLimit \in Nat \ {0}
    /\ MapLimit \in Nat \ {0}
    /\ Workers \in Nat \ {0}

VARIABLES
    stage,      \* how far a request is through its permits
    token,      \* the session token it came with
    handle,     \* its clone of the token's Arc<Semaphore>
    semaphore   \* session_concurrency: the map from tokens to semaphores

permitVars == <<stage, token, handle, semaphore>>

Stages == {"new",       \* no permit asked for, or all given back
           "global",    \* holds the global permit
           "handle",    \* and a handle on the token's semaphore
           "admitted",  \* try_acquire_request_permits returned Ok
           "refused",   \* the session semaphore was exhausted
           "draining",  \* global permit dropped, session permit not yet
           "over"}

PermitsInit ==
    /\ stage = [r \in Requests |-> "new"]
    /\ token = [r \in Requests |-> NoToken]
    /\ handle = [r \in Requests |-> NoSemaphore]
    /\ semaphore = [t \in Tokens |-> NoSemaphore]

----------------------------------------------------------------------------
(* Who holds what *)

HasGlobal(r)  == stage[r] \in {"global", "handle", "admitted", "refused"}
HasSession(r) == stage[r] \in {"admitted", "draining"} /\ handle[r] # NoSemaphore
HasHandle(r)  == stage[r] \in {"handle", "admitted", "draining"} /\ handle[r] # NoSemaphore

GlobalHolders     == {r \in Requests : HasGlobal(r)}
SessionHolders(s) == {r \in Requests : HasSession(r) /\ handle[r] = s}
Draining          == {r \in Requests : stage[r] = "draining"}
Entries           == {t \in Tokens : semaphore[t] # NoSemaphore}

(* (Variant: a semaphore survives only while a permit is out.)             *)
HeldByPermit(s) == \E r \in Requests : HasSession(r) /\ handle[r] = s

(* Arc::strong_count(semaphore) > 1: somebody but the map holds the Arc.   *)
Held(s) == \E r \in Requests : HasHandle(r) /\ handle[r] = s

(* (Variant: the map is never pruned.)                                     *)
PrunedNever(t) == semaphore[t]

(* The entry of t once the map was pruned, if it was due.                  *)
Pruned(t) ==
    IF Cardinality(Entries) >= MapLimit /\ ~Held(semaphore[t])
    THEN NoSemaphore
    ELSE semaphore[t]

Allocated(s) == \/ \E t \in Tokens : Pruned(t) = s
                \/ \E r \in Requests : handle[r] = s

----------------------------------------------------------------------------
(* Steps *)

TakeGlobal(r, t) ==
    /\ stage[r] = "new"
    /\ Cardinality(GlobalHolders) < GlobalLimit
    /\ stage' = [stage EXCEPT ![r] = IF t = NoToken THEN "admitted" ELSE "global"]
    /\ token' = [token EXCEPT ![r] = t]
    /\ UNCHANGED <<handle, semaphore>>

RefuseGlobal(r, t) ==
    /\ stage[r] = "new"
    /\ Cardinality(GlobalHolders) >= GlobalLimit
    /\ stage' = [stage EXCEPT ![r] = "over"]
    /\ token' = [token EXCEPT ![r] = t]
    /\ UNCHANGED <<handle, semaphore>>

(* Under the map's lock: prune, get or insert, clone.                      *)
Lookup(r) ==
    /\ stage[r] = "global"
    /\ \E s \in Semaphores :
        /\ IF Pruned(token[r]) = NoSemaphore THEN ~Allocated(s) ELSE s = Pruned(token[r])
        /\ handle' = [handle EXCEPT ![r] = s]
        /\ semaphore' = [t \in Tokens |-> IF t = token[r] THEN s ELSE Pruned(t)]
    /\ stage' = [stage EXCEPT ![r] = "handle"]
    /\ UNCHANGED token

TakeSession(r) ==
    /\ stage[r] = "handle"
    /\ Cardinality(SessionHolders(handle[r])) < SessionLimit
    /\ stage' = [stage EXCEPT ![r] = "admitted"]
    /\ UNCHANGED <<token, handle, semaphore>>

(* The failed try_acquire_owned has consumed the handle.                   *)
RefuseSession(r) ==
    /\ stage[r] = "handle"
    /\ Cardinality(SessionHolders(handle[r])) >= SessionLimit
    /\ stage' = [stage EXCEPT ![r] = "refused"]
    /\ handle' = [handle EXCEPT ![r] = NoSemaphore]
    /\ UNCHANGED <<token, semaphore>>

(* RequestPermits is dropped field by field, _global first; the early      *)
(* return of a refusal drops the global permit alone.                      *)
ReleaseGlobal(r) ==
    /\ stage[r] \in {"admitted", "refused"}
    /\ IF handle[r] = NoSemaphore
       THEN stage' = [stage EXCEPT ![r] = "over"]
       ELSE /\ Cardinality(Draining) < Workers
            /\ stage' = [stage EXCEPT ![r] = "draining"]
    /\ UNCHANGED <<token, handle, semaphore>>

ReleaseSession(r) ==
    /\ stage[r] = "draining"
    /\ stage' = [stage EXCEPT ![r] = "over"]
    /\ handle' = [handle EXCEPT ![r] = NoSemaphore]
    /\ UNCHANGED <<token, semaphore>>

(* The place is free for another request.                                  *)
Recycle(r) ==
    /\ stage[r] = "over"
    /\ stage' = [stage EXCEPT ![r] = "new"]
    /\ token' = [token EXCEPT ![r] = NoToken]
    /\ UNCHANGED <<handle, semaphore>>

PermitsNext ==
    \E r \in Requests :
        \/ \E t \in Tokens \cup {NoToken} : TakeGlobal(r, t) \/ RefuseGlobal(r, t)
        \/ Lookup(r)
        \/ TakeSession(r)
        \/ RefuseSession(r)
        \/ ReleaseGlobal(r)
        \/ ReleaseSession(r)
        \/ Recycle(r)

PermitsSpec == PermitsInit /\ [][PermitsNext]_permitVars

----------------------------------------------------------------------------
(* Properties *)

(* Every variable has its type, and the map is finite.                     *)
PermitsTypeOK ==
    /\ stage \in [Requests -> Stages]
    /\ token \in [Requests -> Tokens \cup {NoToken}]
    /\ handle \in [Requests -> Semaphores \cup {NoSemaphore}]
    /\ semaphore \in [Tokens -> Semaphores \cup {NoSemaphore}]
    /\ IsFiniteSet(Entries)

(* However lookups, pruning and releases interleave, no more than          *)
(* GlobalLimit requests are served at once, and no more than SessionLimit  *)
(* of one token: pruning never forgets a semaphore that still counts.      *)
ServedWithinLimits ==
    /\ Cardinality({r \in Requests : stage[r] = "admitted"}) <= GlobalLimit
    /\ \A t \in Tokens :
        Cardinality({r \in Requests : stage[r] = "admitted" /\ token[r] = t}) <= SessionLimit

(* The map cannot grow with the number of tokens ever seen: beyond         *)
(* MapLimit it only keeps what requests in flight hold.                    *)
MapBounded == \/ Cardinality(Entries) <= MapLimit
              \/ Cardinality(Entries) <= GlobalLimit + Workers

(* Why: a request's handle is the semaphore the map has for its token, two *)
(* tokens never share one, and each count stays within its limit.          *)
HandleFootprint ==
    \A r \in Requests :
        /\ handle[r] # NoSemaphore <=> HasHandle(r)
        /\ stage[r] \in {"global", "handle", "draining"} => token[r] \in Tokens
        /\ stage[r] \in {"handle", "draining"} => handle[r] # NoSemaphore
        /\ stage[r] = "admitted" => (handle[r] # NoSemaphore <=> token[r] \in Tokens)
        /\ handle[r] # NoSemaphore => semaphore[token[r]] = handle[r]

OneTokenPerSemaphore ==
    \A t, u \in Tokens :
        semaphore[t] = semaphore[u] /\ semaphore[t] # NoSemaphore => t = u

CountsWithinLimits ==
    /\ Cardinality(GlobalHolders) <= GlobalLimit
    /\ Cardinality(Draining) <= Workers
    /\ \A s \in Semaphores : Cardinality(SessionHolders(s)) <= SessionLimit

PermitsInv ==
    /\ PermitsTypeOK
    /\ HandleFootprint
    /\ OneTokenPerSemaphore
    /\ CountsWithinLimits
    /\ MapBounded
=============================================================================
