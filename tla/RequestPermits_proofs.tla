----------------------- MODULE RequestPermits_proofs -----------------------
(* Proofs about RequestPermits, for any limits and any number of requests  *)
(* in flight.  The inductive invariant is PermitsInv.                      *)
EXTENDS RequestPermits, FiniteSetTheorems, TLAPS

----------------------------------------------------------------------------
(* Counting *)

(* A set that gains at most one element stays within a limit that was not  *)
(* reached.                                                                *)
LEMMA GrowthWithinLimit ==
    ASSUME NEW S, NEW T, NEW r, NEW limit \in Nat,
           IsFiniteSet(S), Cardinality(S) <= limit,
           T \subseteq S \cup {r},
           T \subseteq S \/ Cardinality(S) < limit
    PROVE  Cardinality(T) <= limit
<1>1. CASE T \subseteq S
  <2>1. Cardinality(T) \in Nat /\ Cardinality(S) \in Nat /\ Cardinality(T) <= Cardinality(S)
    BY <1>1, FS_Subset, FS_CardinalityType
  <2> QED BY <2>1
<1>2. CASE Cardinality(S) < limit
  <2>1. /\ IsFiniteSet(S \cup {r})
        /\ Cardinality(S \cup {r}) <= Cardinality(S) + 1
    <3>1. Cardinality(S) \in Nat
      BY FS_CardinalityType
    <3>2. /\ IsFiniteSet(S \cup {r})
          /\ Cardinality(S \cup {r}) = IF r \in S THEN Cardinality(S) ELSE Cardinality(S) + 1
      BY FS_AddElement
    <3> QED BY <3>1, <3>2
  <2>2. Cardinality(T) <= Cardinality(S \cup {r})
    BY <2>1, FS_Subset
  <2>3. IsFiniteSet(T)
    BY <2>1, FS_Subset
  <2>4. Cardinality(T) \in Nat /\ Cardinality(S) \in Nat /\ Cardinality(S \cup {r}) \in Nat
    BY <2>1, <2>3, FS_CardinalityType
  <2> QED BY <1>2, <2>1, <2>2, <2>4
<1> QED BY <1>1, <1>2

(* The sets that are counted are finite.                                   *)
LEMMA HoldersFinite ==
    /\ IsFiniteSet(GlobalHolders)
    /\ IsFiniteSet(Draining)
    /\ \A s : IsFiniteSet(SessionHolders(s))
<1>1. ASSUME NEW S \in SUBSET Requests
      PROVE  IsFiniteSet(S)
  BY FS_Subset, PermitsAssumption DEF PermitsAssumption
<1>2. GlobalHolders \subseteq Requests /\ Draining \subseteq Requests
  BY DEF GlobalHolders, Draining
<1>3. ASSUME NEW s PROVE SessionHolders(s) \subseteq Requests
  BY DEF SessionHolders
<1> QED BY <1>1, <1>2, <1>3

(* The three counts, when a step lets each set gain at most r.             *)
LEMMA CountsKept ==
    ASSUME CountsWithinLimits, NEW r,
           GlobalHolders' \subseteq GlobalHolders \cup {r},
           GlobalHolders' \subseteq GlobalHolders \/ Cardinality(GlobalHolders) < GlobalLimit,
           Draining' \subseteq Draining \cup {r},
           Draining' \subseteq Draining \/ Cardinality(Draining) < Workers,
           \A s \in Semaphores :
              LET before == {q \in Requests : HasSession(q) /\ handle[q] = s}
                  after  == {q \in Requests : HasSession(q)' /\ handle'[q] = s}
              IN  /\ after \subseteq before \cup {r}
                  /\ after \subseteq before \/ Cardinality(before) < SessionLimit
    PROVE  CountsWithinLimits'
<1>1. Cardinality(GlobalHolders') <= GlobalLimit
  BY HoldersFinite, GrowthWithinLimit, PermitsAssumption DEF PermitsAssumption, CountsWithinLimits
<1>2. Cardinality(Draining') <= Workers
  BY HoldersFinite, GrowthWithinLimit, PermitsAssumption DEF PermitsAssumption, CountsWithinLimits
<1>3. ASSUME NEW s \in Semaphores
      PROVE  Cardinality({q \in Requests : HasSession(q)' /\ handle'[q] = s}) <= SessionLimit
  <2> DEFINE before == {q \in Requests : HasSession(q) /\ handle[q] = s}
  <2> DEFINE after == {q \in Requests : HasSession(q)' /\ handle'[q] = s}
  <2>1. IsFiniteSet(before)
    BY HoldersFinite DEF SessionHolders
  <2>2. Cardinality(before) <= SessionLimit
    BY DEF CountsWithinLimits, SessionHolders
  <2>3. /\ after \subseteq before \cup {r}
        /\ after \subseteq before \/ Cardinality(before) < SessionLimit
    OBVIOUS
  <2> HIDE DEF before, after
  <2>4. Cardinality(after) <= SessionLimit
    BY <2>1, <2>2, <2>3, GrowthWithinLimit, PermitsAssumption DEF PermitsAssumption
  <2> QED BY <2>4 DEF after
<1> QED BY <1>1, <1>2, <1>3 DEF CountsWithinLimits, SessionHolders

----------------------------------------------------------------------------
(* The map *)

(* Beyond the request that looks its token up, whoever pins an entry is a  *)
(* request with a permit or one about to try for it: pruning leaves fewer  *)
(* than GlobalLimit + Workers entries.                                     *)
LEMMA FewPinned ==
    ASSUME PermitsInv, NEW r \in Requests, stage[r] = "global"
    PROVE  LET pinned == {t \in Tokens : semaphore[t] # NoSemaphore /\ Held(semaphore[t])}
           IN  /\ IsFiniteSet(pinned)
               /\ Cardinality(pinned) < GlobalLimit + Workers
<1> DEFINE pinned == {t \in Tokens : semaphore[t] # NoSemaphore /\ Held(semaphore[t])}
<1> DEFINE pinning == {q \in Requests : handle[q] # NoSemaphore}
<1> DEFINE f == [q \in pinning |-> token[q]]
<1>1. f \in Surjection(pinning, pinned)
  <2>1. ASSUME NEW q \in pinning
        PROVE  token[q] \in pinned
    <3>1. token[q] \in Tokens /\ semaphore[token[q]] = handle[q] /\ HasHandle(q)
      BY DEF PermitsInv, HandleFootprint, HasHandle
    <3> QED BY <3>1 DEF Held
  <2>2. ASSUME NEW t \in pinned
        PROVE  \E q \in pinning : token[q] = t
    <3>1. PICK q \in Requests : HasHandle(q) /\ handle[q] = semaphore[t]
      BY DEF Held
    <3>2. q \in pinning /\ semaphore[token[q]] = semaphore[t] /\ token[q] \in Tokens
      BY <3>1, <2>1 DEF PermitsInv, HandleFootprint
    <3>3. token[q] = t
      BY <3>2 DEF PermitsInv, OneTokenPerSemaphore
    <3> QED BY <3>2, <3>3
  <2>3. f \in [pinning -> pinned]
    BY <2>1
  <2>4. \A t \in pinned : \E q \in pinning : f[q] = t
    BY <2>2
  <2> HIDE DEF f, pinning, pinned
  <2> QED BY <2>3, <2>4 DEF Surjection
<1>2. pinning \subseteq (GlobalHolders \ {r}) \cup Draining
  BY DEF PermitsInv, HandleFootprint, HasHandle, GlobalHolders, HasGlobal, Draining
<1>3. r \in GlobalHolders
  BY DEF GlobalHolders, HasGlobal
<1> HIDE DEF f, pinning
<1>4. /\ IsFiniteSet(GlobalHolders \ {r})
      /\ Cardinality(GlobalHolders \ {r}) = Cardinality(GlobalHolders) - 1
  BY <1>3, HoldersFinite, FS_RemoveElement
<1>5. /\ IsFiniteSet((GlobalHolders \ {r}) \cup Draining)
      /\ Cardinality((GlobalHolders \ {r}) \cup Draining)
           <= Cardinality(GlobalHolders \ {r}) + Cardinality(Draining)
  <2>1. IsFiniteSet(Draining)
    BY HoldersFinite
  <2>2. /\ IsFiniteSet((GlobalHolders \ {r}) \cup Draining)
        /\ Cardinality((GlobalHolders \ {r}) \cup Draining)
             = Cardinality(GlobalHolders \ {r}) + Cardinality(Draining)
               - Cardinality((GlobalHolders \ {r}) \cap Draining)
    BY <1>4, <2>1, FS_Union
  <2>3. /\ Cardinality((GlobalHolders \ {r}) \cap Draining) \in Nat
        /\ Cardinality(GlobalHolders \ {r}) \in Nat
        /\ Cardinality(Draining) \in Nat
    BY <1>4, <2>1, FS_Intersection, FS_CardinalityType
  <2> QED BY <2>2, <2>3
<1>6. /\ IsFiniteSet(pinning)
      /\ Cardinality(pinning) <= Cardinality((GlobalHolders \ {r}) \cup Draining)
  BY <1>2, <1>5, FS_Subset
<1> HIDE DEF pinned
<1>7. IsFiniteSet(pinned) /\ Cardinality(pinned) <= Cardinality(pinning)
  BY <1>1, <1>6, FS_Surjection
<1>8. /\ Cardinality(pinned) \in Nat
      /\ Cardinality(pinning) \in Nat
      /\ Cardinality((GlobalHolders \ {r}) \cup Draining) \in Nat
      /\ Cardinality(GlobalHolders) \in Nat
      /\ Cardinality(Draining) \in Nat
  BY <1>5, <1>6, <1>7, HoldersFinite, FS_CardinalityType
<1>9. Cardinality(GlobalHolders) <= GlobalLimit /\ Cardinality(Draining) <= Workers
  BY DEF PermitsInv, CountsWithinLimits
<1>10. Cardinality(pinned) < GlobalLimit + Workers
  BY <1>4, <1>5, <1>6, <1>7, <1>8, <1>9, PermitsAssumption DEF PermitsAssumption
<1> QED BY <1>7, <1>10 DEF pinned

(* What a lookup does to the map: r's token gets a semaphore, which is the *)
(* one it had or one that nobody knows; an entry in use keeps its own.     *)
LEMMA LookupEffect ==
    ASSUME PermitsInv, NEW r \in Requests, Lookup(r)
    PROVE  /\ token[r] \in Tokens
           /\ handle'[r] \in Semaphores
           /\ semaphore'[token[r]] = handle'[r]
           /\ \A q \in Requests : q # r => handle'[q] = handle[q]
           /\ \A q \in Requests : stage'[q] = IF q = r THEN "handle" ELSE stage[q]
           /\ \A t \in Tokens : t # token[r] =>
                  /\ semaphore'[t] \in {semaphore[t], NoSemaphore}
                  /\ semaphore'[t] = NoSemaphore \/ semaphore'[t] # handle'[r]
                  /\ Held(semaphore[t]) => semaphore'[t] = semaphore[t]
           /\ \A q \in Requests : handle[q] # NoSemaphore =>
                  /\ semaphore'[token[q]] = handle[q]
                  /\ handle[q] = handle'[r] => token[q] = token[r]
           /\ handle' \in [Requests -> Semaphores \cup {NoSemaphore}]
           /\ semaphore' \in [Tokens -> Semaphores \cup {NoSemaphore}]
<1>1. token[r] \in Tokens
  BY DEF Lookup, PermitsInv, HandleFootprint
<1>2. PICK s \in Semaphores :
        /\ IF Pruned(token[r]) = NoSemaphore THEN ~Allocated(s) ELSE s = Pruned(token[r])
        /\ handle' = [handle EXCEPT ![r] = s]
        /\ semaphore' = [t \in Tokens |-> IF t = token[r] THEN s ELSE Pruned(t)]
  BY DEF Lookup
<1>3. \A t \in Tokens : /\ Pruned(t) \in {semaphore[t], NoSemaphore}
                        /\ Held(semaphore[t]) => Pruned(t) = semaphore[t]
  BY DEF Pruned
<1>4. /\ handle' \in [Requests -> Semaphores \cup {NoSemaphore}]
      /\ handle'[r] = s
      /\ \A q \in Requests : q # r => handle'[q] = handle[q]
  BY <1>2 DEF PermitsInv, PermitsTypeOK
<1>5. /\ semaphore' \in [Tokens -> Semaphores \cup {NoSemaphore}]
      /\ semaphore'[token[r]] = s
      /\ \A t \in Tokens : t # token[r] => semaphore'[t] = Pruned(t)
  BY <1>1, <1>2, <1>3 DEF PermitsInv, PermitsTypeOK
<1>6. \A t \in Tokens : t # token[r] /\ Pruned(t) # NoSemaphore => Pruned(t) # s
  <2> SUFFICES ASSUME NEW t \in Tokens, t # token[r], Pruned(t) # NoSemaphore, Pruned(t) = s
               PROVE  FALSE
    OBVIOUS
  <2>1. Allocated(s)
    BY DEF Allocated
  <2>2. s = Pruned(token[r])
    BY <1>2, <2>1
  <2>3. semaphore[t] = semaphore[token[r]] /\ semaphore[t] # NoSemaphore
    BY <1>1, <1>3, <2>2
  <2> QED BY <1>1, <2>3 DEF PermitsInv, OneTokenPerSemaphore
<1>7. ASSUME NEW q \in Requests, handle[q] # NoSemaphore
      PROVE  /\ semaphore'[token[q]] = handle[q]
             /\ handle[q] = handle'[r] => token[q] = token[r]
  <2>1. HasHandle(q) /\ token[q] \in Tokens /\ semaphore[token[q]] = handle[q]
    BY <1>7 DEF PermitsInv, HandleFootprint, HasHandle
  <2>2. Pruned(token[q]) = handle[q]
    BY <1>3, <2>1 DEF Held
  <2>3. CASE token[q] = token[r]
    BY <1>2, <1>5, <1>7, <2>2, <2>3, <1>4
  <2>4. CASE token[q] # token[r]
    BY <1>4, <1>5, <1>6, <1>7, <2>1, <2>2, <2>4
  <2> QED BY <2>3, <2>4
<1>8. \A q \in Requests : stage'[q] = IF q = r THEN "handle" ELSE stage[q]
  BY DEF Lookup, PermitsInv, PermitsTypeOK
<1> QED BY <1>1, <1>2, <1>3, <1>4, <1>5, <1>6, <1>7, <1>8

(* A lookup leaves the map within its bound.                               *)
LEMMA LookupBounded ==
    ASSUME PermitsInv, NEW r \in Requests, Lookup(r)
    PROVE  MapBounded' /\ IsFiniteSet(Entries')
<1> DEFINE kept == {t \in Tokens : Pruned(t) # NoSemaphore}
<1>1. Entries' \subseteq kept \cup {token[r]}
  BY DEF Lookup, Entries
<1>2. IsFiniteSet(Entries) /\ Cardinality(Entries) \in Nat
  BY FS_CardinalityType DEF PermitsInv, PermitsTypeOK
<1>3. ASSUME NEW n \in Nat, IsFiniteSet(kept), Cardinality(kept) < n
      PROVE  IsFiniteSet(Entries') /\ Cardinality(Entries') <= n
  <2> HIDE DEF kept
  <2>0. Cardinality(kept) \in Nat /\ Cardinality(kept) <= n
    BY <1>3, FS_CardinalityType
  <2>1. Cardinality(Entries') <= n
    BY <1>1, <1>3, <2>0, GrowthWithinLimit
  <2>2. IsFiniteSet(kept \cup {token[r]})
    BY <1>3, FS_AddElement
  <2> QED BY <1>1, <2>1, <2>2, FS_Subset
<1>4. CASE Cardinality(Entries) >= MapLimit
  <2>1. kept = {t \in Tokens : semaphore[t] # NoSemaphore /\ Held(semaphore[t])}
    BY <1>4 DEF Pruned
  <2>2. IsFiniteSet(kept) /\ Cardinality(kept) < GlobalLimit + Workers
    <3>1. stage[r] = "global"
      BY DEF Lookup
    <3> QED BY <2>1, <3>1, FewPinned
  <2>3. GlobalLimit + Workers \in Nat
    BY PermitsAssumption DEF PermitsAssumption
  <2> HIDE DEF kept
  <2> QED BY <1>3, <2>2, <2>3 DEF MapBounded
<1>5. CASE ~(Cardinality(Entries) >= MapLimit)
  <2>1. kept = Entries
    BY <1>5 DEF Pruned, Entries
  <2>2. Cardinality(Entries) < MapLimit /\ MapLimit \in Nat
    BY <1>2, <1>5, PermitsAssumption DEF PermitsAssumption
  <2> HIDE DEF kept
  <2> QED BY <1>2, <1>3, <2>1, <2>2 DEF MapBounded
<1> QED BY <1>4, <1>5

----------------------------------------------------------------------------
(* The invariant *)

LEMMA PermitsInitially == PermitsInit => PermitsInv
<1> SUFFICES ASSUME PermitsInit PROVE PermitsInv
  OBVIOUS
<1>1. /\ Entries = {} /\ GlobalHolders = {} /\ Draining = {}
      /\ \A s : SessionHolders(s) = {}
  BY DEF PermitsInit, Entries, GlobalHolders, HasGlobal, Draining, SessionHolders, HasSession
<1>2. IsFiniteSet({}) /\ Cardinality({}) = 0
  BY FS_EmptySet
<1>3. PermitsTypeOK
  BY <1>1, <1>2 DEF PermitsInit, PermitsTypeOK, Stages
<1>4. HandleFootprint
  BY DEF PermitsInit, HandleFootprint, HasHandle
<1>5. OneTokenPerSemaphore
  BY DEF PermitsInit, OneTokenPerSemaphore
<1>6. CountsWithinLimits /\ MapBounded
  BY <1>1, <1>2, PermitsAssumption DEF PermitsAssumption, CountsWithinLimits, MapBounded
<1> QED BY <1>3, <1>4, <1>5, <1>6 DEF PermitsInv

(* A step that leaves the map alone leaves what is said of it alone.       *)
LEMMA MapUntouched ==
    ASSUME PermitsInv, UNCHANGED semaphore
    PROVE  OneTokenPerSemaphore' /\ MapBounded' /\ IsFiniteSet(Entries')
<1>1. Entries' = Entries
  BY DEF Entries
<1> QED BY <1>1 DEF PermitsInv, PermitsTypeOK, OneTokenPerSemaphore, MapBounded

LEMMA TakeGlobalKeeps ==
    ASSUME PermitsInv, NEW r \in Requests, NEW t \in Tokens \cup {NoToken}, TakeGlobal(r, t)
    PROVE  PermitsInv'
<1>1. /\ stage[r] = "new"
      /\ \A q \in Requests : stage'[q] = IF q = r THEN IF t = NoToken THEN "admitted" ELSE "global"
                                          ELSE stage[q]
      /\ \A q \in Requests : token'[q] = IF q = r THEN t ELSE token[q]
      /\ handle' = handle /\ semaphore' = semaphore
      /\ Cardinality(GlobalHolders) < GlobalLimit
  BY DEF TakeGlobal, PermitsInv, PermitsTypeOK
<1>2. PermitsTypeOK'
  BY MapUntouched DEF TakeGlobal, PermitsInv, PermitsTypeOK, Stages
<1>3. HandleFootprint'
  BY <1>1, PermitsAssumption DEF PermitsInv, HandleFootprint, HasHandle, PermitsAssumption
<1>4. handle[r] = NoSemaphore
  BY <1>1 DEF PermitsInv, HandleFootprint, HasHandle
<1>5. CountsWithinLimits'
  <2>1. GlobalHolders' \subseteq GlobalHolders \cup {r} /\ Draining' \subseteq Draining
    BY <1>1 DEF GlobalHolders, HasGlobal, Draining
  <2>2. \A s \in Semaphores :
          {q \in Requests : HasSession(q)' /\ handle'[q] = s}
            \subseteq {q \in Requests : HasSession(q) /\ handle[q] = s}
    BY <1>1, <1>4 DEF HasSession
  <2> QED BY <1>1, <2>1, <2>2, CountsKept DEF PermitsInv
<1> QED BY <1>1, <1>2, <1>3, <1>5, MapUntouched DEF PermitsInv

LEMMA RefuseGlobalKeeps ==
    ASSUME PermitsInv, NEW r \in Requests, NEW t \in Tokens \cup {NoToken}, RefuseGlobal(r, t)
    PROVE  PermitsInv'
<1>1. /\ stage[r] = "new"
      /\ \A q \in Requests : stage'[q] = IF q = r THEN "over" ELSE stage[q]
      /\ \A q \in Requests : token'[q] = IF q = r THEN t ELSE token[q]
      /\ handle' = handle /\ semaphore' = semaphore
  BY DEF RefuseGlobal, PermitsInv, PermitsTypeOK
<1>2. PermitsTypeOK'
  BY MapUntouched DEF RefuseGlobal, PermitsInv, PermitsTypeOK, Stages
<1>3. HandleFootprint'
  BY <1>1 DEF PermitsInv, HandleFootprint, HasHandle
<1>4. CountsWithinLimits'
  <2>1. GlobalHolders' \subseteq GlobalHolders /\ Draining' \subseteq Draining
    BY <1>1 DEF GlobalHolders, HasGlobal, Draining
  <2>2. \A s \in Semaphores :
          {q \in Requests : HasSession(q)' /\ handle'[q] = s}
            \subseteq {q \in Requests : HasSession(q) /\ handle[q] = s}
    BY <1>1 DEF HasSession
  <2> QED BY <2>1, <2>2, CountsKept DEF PermitsInv
<1> QED BY <1>1, <1>2, <1>3, <1>4, MapUntouched DEF PermitsInv

LEMMA LookupKeeps ==
    ASSUME PermitsInv, NEW r \in Requests, Lookup(r)
    PROVE  PermitsInv'
<1>1. stage[r] = "global" /\ token' = token
  BY DEF Lookup
<1>2. stage' \in [Requests -> Stages]
  BY DEF Lookup, PermitsInv, PermitsTypeOK, Stages
<1>3. PermitsTypeOK'
  BY <1>1, <1>2, LookupEffect, LookupBounded DEF PermitsInv, PermitsTypeOK
<1>4. handle[r] = NoSemaphore
  BY <1>1 DEF PermitsInv, HandleFootprint, HasHandle
<1>5. HandleFootprint'
  <2> SUFFICES ASSUME NEW q \in Requests
               PROVE  /\ handle'[q] # NoSemaphore <=> HasHandle(q)'
                      /\ stage'[q] \in {"global", "handle", "draining"} => token[q] \in Tokens
                      /\ stage'[q] \in {"handle", "draining"} => handle'[q] # NoSemaphore
                      /\ stage'[q] = "admitted" => (handle'[q] # NoSemaphore <=> token[q] \in Tokens)
                      /\ handle'[q] # NoSemaphore => semaphore'[token[q]] = handle'[q]
    BY <1>1 DEF HandleFootprint
  <2>1. CASE q = r
    BY <2>1, LookupEffect, PermitsAssumption DEF HasHandle, PermitsAssumption
  <2>2. CASE q # r
    BY <2>2, LookupEffect DEF PermitsInv, HandleFootprint, HasHandle
  <2> QED BY <2>1, <2>2
<1>6. OneTokenPerSemaphore'
  <2> SUFFICES ASSUME NEW t \in Tokens, NEW u \in Tokens,
                      semaphore'[t] = semaphore'[u], semaphore'[t] # NoSemaphore
               PROVE  t = u
    BY DEF OneTokenPerSemaphore
  <2> QED BY LookupEffect DEF PermitsInv, OneTokenPerSemaphore
<1>7. CountsWithinLimits'
  <2>1. GlobalHolders' \subseteq GlobalHolders /\ Draining' \subseteq Draining
    BY <1>1, LookupEffect DEF GlobalHolders, HasGlobal, Draining
  <2>2. \A s \in Semaphores :
          {q \in Requests : HasSession(q)' /\ handle'[q] = s}
            \subseteq {q \in Requests : HasSession(q) /\ handle[q] = s}
    BY <1>1, LookupEffect DEF HasSession
  <2> QED BY <2>1, <2>2, CountsKept DEF PermitsInv
<1> QED BY <1>3, <1>5, <1>6, <1>7, LookupBounded DEF PermitsInv

LEMMA TakeSessionKeeps ==
    ASSUME PermitsInv, NEW r \in Requests, TakeSession(r)
    PROVE  PermitsInv'
<1>1. /\ stage[r] = "handle"
      /\ \A q \in Requests : stage'[q] = IF q = r THEN "admitted" ELSE stage[q]
      /\ token' = token /\ handle' = handle /\ semaphore' = semaphore
      /\ Cardinality(SessionHolders(handle[r])) < SessionLimit
  BY DEF TakeSession, PermitsInv, PermitsTypeOK
<1>2. PermitsTypeOK'
  BY MapUntouched DEF TakeSession, PermitsInv, PermitsTypeOK, Stages
<1>3. HandleFootprint'
  BY <1>1 DEF PermitsInv, HandleFootprint, HasHandle
<1>4. CountsWithinLimits'
  <2>1. GlobalHolders' \subseteq GlobalHolders /\ Draining' \subseteq Draining
    BY <1>1 DEF GlobalHolders, HasGlobal, Draining
  <2>2. ASSUME NEW s \in Semaphores
        PROVE  LET before == {q \in Requests : HasSession(q) /\ handle[q] = s}
                   after  == {q \in Requests : HasSession(q)' /\ handle'[q] = s}
               IN  /\ after \subseteq before \cup {r}
                   /\ after \subseteq before \/ Cardinality(before) < SessionLimit
    <3>1. CASE s = handle[r]
      <4>1. {q \in Requests : HasSession(q) /\ handle[q] = s} = SessionHolders(handle[r])
        BY <3>1 DEF SessionHolders
      <4>2. {q \in Requests : HasSession(q)' /\ handle'[q] = s}
              \subseteq {q \in Requests : HasSession(q) /\ handle[q] = s} \cup {r}
        BY <1>1 DEF HasSession
      <4> QED BY <1>1, <4>1, <4>2
    <3>2. CASE s # handle[r]
      BY <1>1, <3>2 DEF HasSession
    <3> QED BY <3>1, <3>2
  <2> QED BY <2>1, <2>2, CountsKept DEF PermitsInv
<1> QED BY <1>1, <1>2, <1>3, <1>4, MapUntouched DEF PermitsInv

LEMMA RefuseSessionKeeps ==
    ASSUME PermitsInv, NEW r \in Requests, RefuseSession(r)
    PROVE  PermitsInv'
<1>1. /\ stage[r] = "handle"
      /\ \A q \in Requests : stage'[q] = IF q = r THEN "refused" ELSE stage[q]
      /\ \A q \in Requests : handle'[q] = IF q = r THEN NoSemaphore ELSE handle[q]
      /\ token' = token /\ semaphore' = semaphore
  BY DEF RefuseSession, PermitsInv, PermitsTypeOK
<1>2. PermitsTypeOK'
  BY MapUntouched DEF RefuseSession, PermitsInv, PermitsTypeOK, Stages
<1>3. HandleFootprint'
  BY <1>1 DEF PermitsInv, HandleFootprint, HasHandle
<1>4. CountsWithinLimits'
  <2>1. GlobalHolders' \subseteq GlobalHolders /\ Draining' \subseteq Draining
    BY <1>1 DEF GlobalHolders, HasGlobal, Draining
  <2>2. \A s \in Semaphores :
          {q \in Requests : HasSession(q)' /\ handle'[q] = s}
            \subseteq {q \in Requests : HasSession(q) /\ handle[q] = s}
    BY <1>1 DEF HasSession
  <2> QED BY <2>1, <2>2, CountsKept DEF PermitsInv
<1> QED BY <1>1, <1>2, <1>3, <1>4, MapUntouched DEF PermitsInv

LEMMA ReleaseGlobalKeeps ==
    ASSUME PermitsInv, NEW r \in Requests, ReleaseGlobal(r)
    PROVE  PermitsInv'
<1> DEFINE next == IF handle[r] = NoSemaphore THEN "over" ELSE "draining"
<1>1. /\ stage[r] \in {"admitted", "refused"}
      /\ stage' = [stage EXCEPT ![r] = next]
      /\ next = "draining" => Cardinality(Draining) < Workers
      /\ token' = token /\ handle' = handle /\ semaphore' = semaphore
  BY DEF ReleaseGlobal
<1>2. \A q \in Requests : stage'[q] = IF q = r THEN next ELSE stage[q]
  BY <1>1 DEF PermitsInv, PermitsTypeOK
<1>3. PermitsTypeOK'
  BY <1>1, MapUntouched DEF PermitsInv, PermitsTypeOK, Stages
<1>4. HandleFootprint'
  BY <1>1, <1>2, PermitsAssumption
     DEF PermitsInv, PermitsTypeOK, HandleFootprint, HasHandle, PermitsAssumption
<1>5. CountsWithinLimits'
  <2>1. /\ GlobalHolders' \subseteq GlobalHolders
        /\ Draining' \subseteq Draining \cup {r}
        /\ Draining' \subseteq Draining \/ Cardinality(Draining) < Workers
    BY <1>1, <1>2 DEF GlobalHolders, HasGlobal, Draining
  <2>2. \A s \in Semaphores :
          {q \in Requests : HasSession(q)' /\ handle'[q] = s}
            \subseteq {q \in Requests : HasSession(q) /\ handle[q] = s}
    <3>1. stage[r] = "refused" => handle[r] = NoSemaphore
      BY DEF PermitsInv, HandleFootprint, HasHandle
    <3> QED BY <1>1, <1>2, <3>1 DEF HasSession
  <2> QED BY <2>1, <2>2, CountsKept DEF PermitsInv
<1> QED BY <1>1, <1>3, <1>4, <1>5, MapUntouched DEF PermitsInv

LEMMA ReleaseSessionKeeps ==
    ASSUME PermitsInv, NEW r \in Requests, ReleaseSession(r)
    PROVE  PermitsInv'
<1>1. /\ stage[r] = "draining"
      /\ \A q \in Requests : stage'[q] = IF q = r THEN "over" ELSE stage[q]
      /\ \A q \in Requests : handle'[q] = IF q = r THEN NoSemaphore ELSE handle[q]
      /\ token' = token /\ semaphore' = semaphore
  BY DEF ReleaseSession, PermitsInv, PermitsTypeOK
<1>2. PermitsTypeOK'
  BY MapUntouched DEF ReleaseSession, PermitsInv, PermitsTypeOK, Stages
<1>3. HandleFootprint'
  BY <1>1 DEF PermitsInv, HandleFootprint, HasHandle
<1>4. CountsWithinLimits'
  <2>1. GlobalHolders' \subseteq GlobalHolders /\ Draining' \subseteq Draining
    BY <1>1 DEF GlobalHolders, HasGlobal, Draining
  <2>2. \A s \in Semaphores :
          {q \in Requests : HasSession(q)' /\ handle'[q] = s}
            \subseteq {q \in Requests : HasSession(q) /\ handle[q] = s}
    BY <1>1 DEF HasSession
  <2> QED BY <2>1, <2>2, CountsKept DEF PermitsInv
<1> QED BY <1>1, <1>2, <1>3, <1>4, MapUntouched DEF PermitsInv

LEMMA RecycleKeeps ==
    ASSUME PermitsInv, NEW r \in Requests, Recycle(r)
    PROVE  PermitsInv'
<1>1. /\ stage[r] = "over"
      /\ \A q \in Requests : stage'[q] = IF q = r THEN "new" ELSE stage[q]
      /\ \A q \in Requests : token'[q] = IF q = r THEN NoToken ELSE token[q]
      /\ handle' = handle /\ semaphore' = semaphore
  BY DEF Recycle, PermitsInv, PermitsTypeOK
<1>2. PermitsTypeOK'
  BY MapUntouched DEF Recycle, PermitsInv, PermitsTypeOK, Stages
<1>3. HandleFootprint'
  BY <1>1 DEF PermitsInv, HandleFootprint, HasHandle
<1>4. CountsWithinLimits'
  <2>1. GlobalHolders' \subseteq GlobalHolders /\ Draining' \subseteq Draining
    BY <1>1 DEF GlobalHolders, HasGlobal, Draining
  <2>2. \A s \in Semaphores :
          {q \in Requests : HasSession(q)' /\ handle'[q] = s}
            \subseteq {q \in Requests : HasSession(q) /\ handle[q] = s}
    BY <1>1 DEF HasSession
  <2> QED BY <2>1, <2>2, CountsKept DEF PermitsInv
<1> QED BY <1>1, <1>2, <1>3, <1>4, MapUntouched DEF PermitsInv

LEMMA PermitsStutter ==
    ASSUME PermitsInv, UNCHANGED permitVars
    PROVE  PermitsInv'
  BY DEF PermitsInv, permitVars, PermitsTypeOK, HandleFootprint, OneTokenPerSemaphore,
         CountsWithinLimits, MapBounded, GlobalHolders, HasGlobal, Draining, SessionHolders,
         HasSession, HasHandle, Entries

LEMMA PermitsStep == PermitsInv /\ [PermitsNext]_permitVars => PermitsInv'
<1> SUFFICES ASSUME PermitsInv, [PermitsNext]_permitVars PROVE PermitsInv'
  OBVIOUS
<1>1. CASE PermitsNext
  <2> SUFFICES ASSUME NEW r \in Requests,
                      \/ \E t \in Tokens \cup {NoToken} : TakeGlobal(r, t) \/ RefuseGlobal(r, t)
                      \/ Lookup(r)
                      \/ TakeSession(r)
                      \/ RefuseSession(r)
                      \/ ReleaseGlobal(r)
                      \/ ReleaseSession(r)
                      \/ Recycle(r)
               PROVE  PermitsInv'
    BY <1>1 DEF PermitsNext
  <2> QED BY TakeGlobalKeeps, RefuseGlobalKeeps, LookupKeeps, TakeSessionKeeps,
             RefuseSessionKeeps, ReleaseGlobalKeeps, ReleaseSessionKeeps, RecycleKeeps
<1>2. CASE UNCHANGED permitVars
  BY <1>2, PermitsStutter
<1> QED BY <1>1, <1>2

(* The semaphore that counts for a token is always the one in the map, no  *)
(* matter how lookups, pruning and releases interleave.                    *)
THEOREM PermitsInductive == PermitsSpec => []PermitsInv
  BY PermitsInitially, PermitsStep, PTL DEF PermitsSpec

----------------------------------------------------------------------------
(* What follows from it *)

LEMMA LimitsFollow == PermitsInv => ServedWithinLimits
<1> SUFFICES ASSUME PermitsInv PROVE ServedWithinLimits
  OBVIOUS
<1>1. Cardinality({r \in Requests : stage[r] = "admitted"}) <= GlobalLimit
  <2>1. {r \in Requests : stage[r] = "admitted"} \subseteq GlobalHolders
    BY DEF GlobalHolders, HasGlobal
  <2>2. Cardinality(GlobalHolders) <= GlobalLimit /\ GlobalLimit \in Nat
    BY PermitsAssumption DEF PermitsInv, CountsWithinLimits, PermitsAssumption
  <2> QED BY <2>1, <2>2, HoldersFinite, GrowthWithinLimit
<1>2. ASSUME NEW t \in Tokens
      PROVE  Cardinality({r \in Requests : stage[r] = "admitted" /\ token[r] = t}) <= SessionLimit
  <2> DEFINE served == {r \in Requests : stage[r] = "admitted" /\ token[r] = t}
  <2>1. served \subseteq SessionHolders(semaphore[t])
    BY DEF SessionHolders, HasSession, PermitsInv, HandleFootprint
  <2>2. CASE semaphore[t] \in Semaphores
    <3>1. Cardinality(SessionHolders(semaphore[t])) <= SessionLimit /\ SessionLimit \in Nat
      BY <2>2, PermitsAssumption DEF PermitsInv, CountsWithinLimits, PermitsAssumption
    <3> HIDE DEF served
    <3>2. Cardinality(served) <= SessionLimit
      BY <2>1, <3>1, HoldersFinite, GrowthWithinLimit
    <3> QED BY <3>2 DEF served
  <2>3. CASE semaphore[t] = NoSemaphore
    <3>1. served = {}
      BY <2>1, <2>3 DEF SessionHolders, HasSession
    <3>2. Cardinality(served) = 0
      BY <3>1, FS_EmptySet
    <3> HIDE DEF served
    <3>3. Cardinality(served) <= SessionLimit
      BY <3>2, PermitsAssumption DEF PermitsAssumption
    <3> QED BY <3>3 DEF served
  <2>4. semaphore[t] \in Semaphores \cup {NoSemaphore}
    BY DEF PermitsInv, PermitsTypeOK
  <2> QED BY <2>2, <2>3, <2>4
<1> QED BY <1>1, <1>2 DEF ServedWithinLimits

(* No more requests than GlobalLimit are ever admitted at once, and no     *)
(* more than SessionLimit of one token.                                    *)
THEOREM LimitsHold == PermitsSpec => []ServedWithinLimits
  BY PermitsInductive, LimitsFollow, PTL

(* The map stays within MapLimit, or within what is in flight.             *)
THEOREM MapStaysBounded == PermitsSpec => []MapBounded
<1>1. PermitsInv => MapBounded
  BY DEF PermitsInv
<1> QED BY <1>1, PermitsInductive, PTL
=============================================================================
