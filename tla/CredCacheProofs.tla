-------------------------- MODULE CredCacheProofs --------------------------
(***************************************************************************)
(* Proofs about the credential cache, for any number of callers, cache     *)
(* IDs and links, any StreamsPerCred and any lifetime and margin.  The     *)
(* safety invariants of CredCache follow from CredInv, which says which    *)
(* lock a caller holds at each of its stages and what the object it holds  *)
(* may contain.                                                            *)
(***************************************************************************)
EXTENDS CredCache, TLAPS

(* fetchMu is held by exactly the caller that fetches. *)
FetchLockInv == \A c \in Callers : pc[c] = "fetching" <=> fetchMu = c

(* Past the lookup a caller has the object the map holds for its ID. *)
ObjectInv ==
    \A c \in Callers : pc[c] \in Holding \cup {"lock"} =>
        obj[c] = caches[CacheOf[c]] /\ obj[c] \in Callers

(* From the check to its return a caller holds its object's mutex. *)
CacheLockInv == \A c \in Callers : pc[c] \in Holding => cacheMu[obj[c]] = c

(* A mutex that is taken is taken by a caller that is between its check    *)
(* and its return, with this object.                                       *)
HolderInv ==
    \A o \in Callers : cacheMu[o] # None =>
        pc[cacheMu[o]] \in Holding /\ obj[cacheMu[o]] = o

(* An object is in the map under its creator's ID only. *)
MapInv == \A i \in CacheIDs : caches[i] # None => CacheOf[caches[i]] = i

(* An object that is not in the map is as allocated. *)
FreshInv ==
    \A o \in Callers : caches[CacheOf[o]] # o => creds[o] = EmptyCreds

(* A caller that decided to fetch still finds nothing to serve. *)
MissInv ==
    \A c \in Callers : pc[c] \in {"fetchWait", "fetching"} => ~Hit(obj[c], LinkOf[c])

(* The expiry lies within the lifetime the server granted. *)
LifetimeInv ==
    /\ \A o \in Callers : creds[o].ttl <= creds[o].srv
    /\ \A c \in Callers : got[c] # NoAnswer =>
          got[c].srv >= CredentialLifetime - MaxStoreDelay

(* Answers, stored or returned, are for the caller's own link. *)
LinkInv ==
    /\ \A c \in Callers : got[c] = NoAnswer \/ got[c].link = LinkOf[c]
    /\ AnswerForOwnLink

CredInv ==
    /\ TypeOK
    /\ FetchLockInv
    /\ ObjectInv
    /\ CacheLockInv
    /\ HolderInv
    /\ MapInv
    /\ FreshInv
    /\ MissInv
    /\ LifetimeInv
    /\ LinkInv

-----------------------------------------------------------------------------
(* Every caller has a cache ID (getCacheID of its stream). *)
LEMMA CacheOfType == CacheOf \in [Callers -> CacheIDs]
BY DEF CacheOf, CacheIDs

(* The cached lifetime and the constants' numeric ranges. *)
LEMMA Lifetimes ==
    /\ CacheTTL \in Nat /\ CredentialLifetime \in Nat
    /\ MaxStoreDelay \in Nat
    /\ CacheTTL <= CredentialLifetime - MaxStoreDelay
    /\ CacheTTL <= CredentialLifetime
BY CredAssumption DEF CacheTTL

(* A tick takes at most one from a counter and keeps it in its range. *)
LEMMA LessType == \A m \in Nat : \A n \in 0..m : Less(n) \in 0..m
BY DEF Less

(* The initial state satisfies the invariant. *)
LEMMA CredInit == Init => CredInv
<1> SUFFICES ASSUME Init PROVE CredInv
  OBVIOUS
<1> USE CacheOfType, Lifetimes, CredAssumption DEF Init
<1>1. TypeOK
  BY DEF TypeOK, Creds, Answers, EmptyCreds, NoAnswer, AllLinks, Holding
<1>2. /\ FetchLockInv /\ ObjectInv /\ CacheLockInv /\ HolderInv
      /\ MapInv /\ FreshInv /\ MissInv
  BY DEF FetchLockInv, ObjectInv, CacheLockInv, HolderInv, MapInv, FreshInv, MissInv, Holding
<1>3. LifetimeInv
  BY DEF LifetimeInv, EmptyCreds
<1>4. LinkInv
  BY DEF LinkInv, AnswerForOwnLink
<1> QED
  BY <1>1, <1>2, <1>3, <1>4 DEF CredInv

-----------------------------------------------------------------------------
(* Two callers that hold the same object are the same caller. *)
LEMMA HoldersDiffer ==
    ASSUME CredInv, NEW c \in Callers, NEW d \in Callers,
           pc[c] \in Holding, pc[d] \in Holding, obj[c] = obj[d]
    PROVE  c = d
BY DEF CredInv, CacheLockInv

(* Every step of a caller keeps the types. *)
LEMMA TypeStep == CredInv /\ [Next]_credVars => TypeOK'
<1> SUFFICES ASSUME CredInv, [Next]_credVars PROVE TypeOK'
  OBVIOUS
<1> USE CacheOfType, Lifetimes, CredAssumption DEF CredInv, TypeOK, Holding
<1>1. ASSUME NEW c \in Callers, Call(c) PROVE TypeOK'
  BY <1>1 DEF Call, AllLinks
<1>2. ASSUME NEW c \in Callers, LookupCache(c) PROVE TypeOK'
  BY <1>2 DEF LookupCache
<1>3. ASSUME NEW c \in Callers, CreateCache(c) PROVE TypeOK'
  BY <1>3 DEF CreateCache
<1>4. ASSUME NEW c \in Callers, LockCache(c) PROVE TypeOK'
  BY <1>4 DEF LockCache
<1>5. ASSUME NEW c \in Callers, CacheHit(c) PROVE TypeOK'
  BY <1>5 DEF CacheHit, Hit, ReturnWith, AllLinks
<1>6. ASSUME NEW c \in Callers, CtxDone(c) PROVE TypeOK'
  BY <1>6 DEF CtxDone, ReturnWith, AllLinks
<1>7. ASSUME NEW c \in Callers, CacheMiss(c) PROVE TypeOK'
  BY <1>7 DEF CacheMiss
<1>8. ASSUME NEW c \in Callers, LockFetch(c) PROVE TypeOK'
  BY <1>8 DEF LockFetch
<1>9. ASSUME NEW c \in Callers, FetchReturns(c) PROVE TypeOK'
  BY <1>9 DEF FetchReturns, Answers, NoAnswer, AllLinks
<1>10. ASSUME NEW c \in Callers, FetchError(c) PROVE TypeOK'
  BY <1>10 DEF FetchError, ReturnWith, AllLinks
<1>11. ASSUME NEW c \in Callers, Store(c) PROVE TypeOK'
  <2>1. obj[c] \in Callers /\ got[c].link \in AllLinks /\ got[c].srv \in 0..CredentialLifetime
    BY <1>11 DEF Store, ObjectInv, Answers
  <2>2. creds' \in [Callers -> Creds]
    BY <1>11, <2>1 DEF Store, Creds, AllLinks
  <2>3. got' \in [Callers -> Answers]
    BY <1>11 DEF Store, Answers, NoAnswer, AllLinks
  <2> QED
    BY <1>11, <2>1, <2>2, <2>3 DEF Store, ReturnWith
<1>12. ASSUME NEW x \in Ctxs, Cancel(x) PROVE TypeOK'
  BY <1>12 DEF Cancel
<1>13. ASSUME Tick PROVE TypeOK'
  <2>1. creds' \in [Callers -> Creds]
    BY <1>13, LessType DEF Tick, Creds
  <2>2. got' \in [Callers -> Answers]
    BY <1>13, LessType DEF Tick, Answers
  <2> QED
    BY <1>13, <2>1, <2>2 DEF Tick
<1>14. CASE UNCHANGED credVars
  BY <1>14 DEF credVars
<1> QED
  BY <1>1, <1>2, <1>3, <1>4, <1>5, <1>6, <1>7, <1>8, <1>9, <1>10, <1>11, <1>12,
     <1>13, <1>14 DEF Next, getCredsCached

(* fetchMu stays with the caller that fetches. *)
LEMMA FetchLockStep == CredInv /\ [Next]_credVars => FetchLockInv'
<1> SUFFICES ASSUME CredInv, [Next]_credVars PROVE FetchLockInv'
  OBVIOUS
<1> USE CredAssumption DEF CredInv, TypeOK, FetchLockInv, Holding
<1>1. ASSUME NEW c \in Callers, Call(c) PROVE FetchLockInv'
  BY <1>1 DEF Call
<1>2. ASSUME NEW c \in Callers, LookupCache(c) PROVE FetchLockInv'
  BY <1>2 DEF LookupCache
<1>3. ASSUME NEW c \in Callers, CreateCache(c) PROVE FetchLockInv'
  BY <1>3 DEF CreateCache
<1>4. ASSUME NEW c \in Callers, LockCache(c) PROVE FetchLockInv'
  BY <1>4 DEF LockCache
<1>5. ASSUME NEW c \in Callers, CacheHit(c) PROVE FetchLockInv'
  BY <1>5 DEF CacheHit, ReturnWith
<1>6. ASSUME NEW c \in Callers, CtxDone(c) PROVE FetchLockInv'
  BY <1>6 DEF CtxDone, ReturnWith
<1>7. ASSUME NEW c \in Callers, CacheMiss(c) PROVE FetchLockInv'
  BY <1>7 DEF CacheMiss
<1>8. ASSUME NEW c \in Callers, LockFetch(c) PROVE FetchLockInv'
  BY <1>8 DEF LockFetch
<1>9. ASSUME NEW c \in Callers, FetchReturns(c) PROVE FetchLockInv'
  BY <1>9 DEF FetchReturns
<1>10. ASSUME NEW c \in Callers, FetchError(c) PROVE FetchLockInv'
  BY <1>10 DEF FetchError, ReturnWith
<1>11. ASSUME NEW c \in Callers, Store(c) PROVE FetchLockInv'
  BY <1>11 DEF Store, ReturnWith
<1>12. ASSUME NEW x \in Ctxs, Cancel(x) PROVE FetchLockInv'
  BY <1>12 DEF Cancel
<1>13. ASSUME Tick PROVE FetchLockInv'
  BY <1>13 DEF Tick
<1>14. CASE UNCHANGED credVars
  BY <1>14 DEF credVars
<1> QED
  BY <1>1, <1>2, <1>3, <1>4, <1>5, <1>6, <1>7, <1>8, <1>9, <1>10, <1>11,
     <1>12, <1>13, <1>14 DEF Next, getCredsCached

(* No step takes an object from under a caller that uses it. *)
LEMMA ObjectStep == CredInv /\ [Next]_credVars => ObjectInv'
<1> SUFFICES ASSUME CredInv, [Next]_credVars PROVE ObjectInv'
  OBVIOUS
<1> USE CacheOfType, CredAssumption DEF CredInv, TypeOK, ObjectInv, Holding
<1>1. ASSUME NEW c \in Callers, Call(c) PROVE ObjectInv'
  BY <1>1 DEF Call
<1>2. ASSUME NEW c \in Callers, LookupCache(c) PROVE ObjectInv'
  BY <1>2 DEF LookupCache
<1>3. ASSUME NEW c \in Callers, CreateCache(c) PROVE ObjectInv'
  BY <1>3 DEF CreateCache
<1>4. ASSUME NEW c \in Callers, LockCache(c) PROVE ObjectInv'
  BY <1>4 DEF LockCache
<1>5. ASSUME NEW c \in Callers, CacheHit(c) PROVE ObjectInv'
  BY <1>5 DEF CacheHit, ReturnWith
<1>6. ASSUME NEW c \in Callers, CtxDone(c) PROVE ObjectInv'
  BY <1>6 DEF CtxDone, ReturnWith
<1>7. ASSUME NEW c \in Callers, CacheMiss(c) PROVE ObjectInv'
  BY <1>7 DEF CacheMiss
<1>8. ASSUME NEW c \in Callers, LockFetch(c) PROVE ObjectInv'
  BY <1>8 DEF LockFetch
<1>9. ASSUME NEW c \in Callers, FetchReturns(c) PROVE ObjectInv'
  BY <1>9 DEF FetchReturns
<1>10. ASSUME NEW c \in Callers, FetchError(c) PROVE ObjectInv'
  BY <1>10 DEF FetchError, ReturnWith
<1>11. ASSUME NEW c \in Callers, Store(c) PROVE ObjectInv'
  BY <1>11 DEF Store, ReturnWith
<1>12. ASSUME NEW x \in Ctxs, Cancel(x) PROVE ObjectInv'
  BY <1>12 DEF Cancel
<1>13. ASSUME Tick PROVE ObjectInv'
  BY <1>13 DEF Tick
<1>14. CASE UNCHANGED credVars
  BY <1>14 DEF credVars
<1> QED
  BY <1>1, <1>2, <1>3, <1>4, <1>5, <1>6, <1>7, <1>8, <1>9, <1>10, <1>11,
     <1>12, <1>13, <1>14 DEF Next, getCredsCached

(* Only its holder gives a mutex back. *)
LEMMA CacheLockStep == CredInv /\ [Next]_credVars => CacheLockInv'
<1> SUFFICES ASSUME CredInv, [Next]_credVars PROVE CacheLockInv'
  OBVIOUS
<1> USE CacheOfType, CredAssumption DEF CredInv, TypeOK, CacheLockInv, ObjectInv, Holding
<1>1. ASSUME NEW c \in Callers, Call(c) PROVE CacheLockInv'
  BY <1>1 DEF Call
<1>2. ASSUME NEW c \in Callers, LookupCache(c) PROVE CacheLockInv'
  BY <1>2 DEF LookupCache
<1>3. ASSUME NEW c \in Callers, CreateCache(c) PROVE CacheLockInv'
  BY <1>3 DEF CreateCache
<1>4. ASSUME NEW c \in Callers, LockCache(c) PROVE CacheLockInv'
  BY <1>4 DEF LockCache
<1>5. ASSUME NEW c \in Callers, CacheHit(c) PROVE CacheLockInv'
  BY <1>5 DEF CacheHit, ReturnWith
<1>6. ASSUME NEW c \in Callers, CtxDone(c) PROVE CacheLockInv'
  BY <1>6 DEF CtxDone, ReturnWith
<1>7. ASSUME NEW c \in Callers, CacheMiss(c) PROVE CacheLockInv'
  BY <1>7 DEF CacheMiss
<1>8. ASSUME NEW c \in Callers, LockFetch(c) PROVE CacheLockInv'
  BY <1>8 DEF LockFetch
<1>9. ASSUME NEW c \in Callers, FetchReturns(c) PROVE CacheLockInv'
  BY <1>9 DEF FetchReturns
<1>10. ASSUME NEW c \in Callers, FetchError(c) PROVE CacheLockInv'
  BY <1>10 DEF FetchError, ReturnWith
<1>11. ASSUME NEW c \in Callers, Store(c) PROVE CacheLockInv'
  BY <1>11 DEF Store, ReturnWith
<1>12. ASSUME NEW x \in Ctxs, Cancel(x) PROVE CacheLockInv'
  BY <1>12 DEF Cancel
<1>13. ASSUME Tick PROVE CacheLockInv'
  BY <1>13 DEF Tick
<1>14. CASE UNCHANGED credVars
  BY <1>14 DEF credVars
<1> QED
  BY <1>1, <1>2, <1>3, <1>4, <1>5, <1>6, <1>7, <1>8, <1>9, <1>10, <1>11,
     <1>12, <1>13, <1>14 DEF Next, getCredsCached

(* A caller that leaves gives its mutex back. *)
LEMMA HolderStep == CredInv /\ [Next]_credVars => HolderInv'
<1> SUFFICES ASSUME CredInv, [Next]_credVars PROVE HolderInv'
  OBVIOUS
<1> USE CacheOfType, CredAssumption DEF CredInv, TypeOK, HolderInv, ObjectInv, Holding
<1>1. ASSUME NEW c \in Callers, Call(c) PROVE HolderInv'
  BY <1>1 DEF Call
<1>2. ASSUME NEW c \in Callers, LookupCache(c) PROVE HolderInv'
  BY <1>2 DEF LookupCache
<1>3. ASSUME NEW c \in Callers, CreateCache(c) PROVE HolderInv'
  BY <1>3 DEF CreateCache
<1>4. ASSUME NEW c \in Callers, LockCache(c) PROVE HolderInv'
  BY <1>4 DEF LockCache
<1>5. ASSUME NEW c \in Callers, CacheHit(c) PROVE HolderInv'
  BY <1>5 DEF CacheHit, ReturnWith
<1>6. ASSUME NEW c \in Callers, CtxDone(c) PROVE HolderInv'
  BY <1>6 DEF CtxDone, ReturnWith
<1>7. ASSUME NEW c \in Callers, CacheMiss(c) PROVE HolderInv'
  BY <1>7 DEF CacheMiss
<1>8. ASSUME NEW c \in Callers, LockFetch(c) PROVE HolderInv'
  BY <1>8 DEF LockFetch
<1>9. ASSUME NEW c \in Callers, FetchReturns(c) PROVE HolderInv'
  BY <1>9 DEF FetchReturns
<1>10. ASSUME NEW c \in Callers, FetchError(c) PROVE HolderInv'
  BY <1>10 DEF FetchError, ReturnWith
<1>11. ASSUME NEW c \in Callers, Store(c) PROVE HolderInv'
  BY <1>11 DEF Store, ReturnWith
<1>12. ASSUME NEW x \in Ctxs, Cancel(x) PROVE HolderInv'
  BY <1>12 DEF Cancel
<1>13. ASSUME Tick PROVE HolderInv'
  BY <1>13 DEF Tick
<1>14. CASE UNCHANGED credVars
  BY <1>14 DEF credVars
<1> QED
  BY <1>1, <1>2, <1>3, <1>4, <1>5, <1>6, <1>7, <1>8, <1>9, <1>10, <1>11,
     <1>12, <1>13, <1>14 DEF Next, getCredsCached

(* The map gains an object only under its creator's ID. *)
LEMMA MapStep == CredInv /\ [Next]_credVars => MapInv'
<1> SUFFICES ASSUME CredInv, [Next]_credVars PROVE MapInv'
  OBVIOUS
<1> USE CacheOfType, CredAssumption DEF CredInv, TypeOK, MapInv
<1>1. ASSUME NEW c \in Callers, Call(c) PROVE MapInv'
  BY <1>1 DEF Call
<1>2. ASSUME NEW c \in Callers, LookupCache(c) PROVE MapInv'
  BY <1>2 DEF LookupCache
<1>3. ASSUME NEW c \in Callers, CreateCache(c) PROVE MapInv'
  BY <1>3 DEF CreateCache
<1>4. ASSUME NEW c \in Callers, LockCache(c) PROVE MapInv'
  BY <1>4 DEF LockCache
<1>5. ASSUME NEW c \in Callers, CacheHit(c) PROVE MapInv'
  BY <1>5 DEF CacheHit, ReturnWith
<1>6. ASSUME NEW c \in Callers, CtxDone(c) PROVE MapInv'
  BY <1>6 DEF CtxDone, ReturnWith
<1>7. ASSUME NEW c \in Callers, CacheMiss(c) PROVE MapInv'
  BY <1>7 DEF CacheMiss
<1>8. ASSUME NEW c \in Callers, LockFetch(c) PROVE MapInv'
  BY <1>8 DEF LockFetch
<1>9. ASSUME NEW c \in Callers, FetchReturns(c) PROVE MapInv'
  BY <1>9 DEF FetchReturns
<1>10. ASSUME NEW c \in Callers, FetchError(c) PROVE MapInv'
  BY <1>10 DEF FetchError, ReturnWith
<1>11. ASSUME NEW c \in Callers, Store(c) PROVE MapInv'
  BY <1>11 DEF Store, ReturnWith
<1>12. ASSUME NEW x \in Ctxs, Cancel(x) PROVE MapInv'
  BY <1>12 DEF Cancel
<1>13. ASSUME Tick PROVE MapInv'
  BY <1>13 DEF Tick
<1>14. CASE UNCHANGED credVars
  BY <1>14 DEF credVars
<1> QED
  BY <1>1, <1>2, <1>3, <1>4, <1>5, <1>6, <1>7, <1>8, <1>9, <1>10, <1>11,
     <1>12, <1>13, <1>14 DEF Next, getCredsCached

(* Only an object of the map is ever filled. *)
LEMMA FreshStep == CredInv /\ [Next]_credVars => FreshInv'
<1> SUFFICES ASSUME CredInv, [Next]_credVars PROVE FreshInv'
  OBVIOUS
<1> USE CacheOfType, CredAssumption DEF CredInv, TypeOK, FreshInv, ObjectInv, MapInv, Holding
<1>1. ASSUME NEW c \in Callers, Call(c) PROVE FreshInv'
  BY <1>1 DEF Call
<1>2. ASSUME NEW c \in Callers, LookupCache(c) PROVE FreshInv'
  BY <1>2 DEF LookupCache
<1>3. ASSUME NEW c \in Callers, CreateCache(c) PROVE FreshInv'
  BY <1>3 DEF CreateCache
<1>4. ASSUME NEW c \in Callers, LockCache(c) PROVE FreshInv'
  BY <1>4 DEF LockCache
<1>5. ASSUME NEW c \in Callers, CacheHit(c) PROVE FreshInv'
  BY <1>5 DEF CacheHit, ReturnWith
<1>6. ASSUME NEW c \in Callers, CtxDone(c) PROVE FreshInv'
  BY <1>6 DEF CtxDone, ReturnWith
<1>7. ASSUME NEW c \in Callers, CacheMiss(c) PROVE FreshInv'
  BY <1>7 DEF CacheMiss
<1>8. ASSUME NEW c \in Callers, LockFetch(c) PROVE FreshInv'
  BY <1>8 DEF LockFetch
<1>9. ASSUME NEW c \in Callers, FetchReturns(c) PROVE FreshInv'
  BY <1>9 DEF FetchReturns
<1>10. ASSUME NEW c \in Callers, FetchError(c) PROVE FreshInv'
  BY <1>10 DEF FetchError, ReturnWith
<1>11. ASSUME NEW c \in Callers, Store(c) PROVE FreshInv'
  BY <1>11 DEF Store, ReturnWith
<1>12. ASSUME NEW x \in Ctxs, Cancel(x) PROVE FreshInv'
  BY <1>12 DEF Cancel
<1>13. ASSUME Tick PROVE FreshInv'
  BY <1>13 DEF Tick, Less, EmptyCreds
<1>14. CASE UNCHANGED credVars
  BY <1>14 DEF credVars
<1> QED
  BY <1>1, <1>2, <1>3, <1>4, <1>5, <1>6, <1>7, <1>8, <1>9, <1>10, <1>11,
     <1>12, <1>13, <1>14 DEF Next, getCredsCached

(* While a caller waits to fetch or fetches, nobody fills its object. *)
LEMMA MissStep == CredInv /\ [Next]_credVars => MissInv'
<1> SUFFICES ASSUME CredInv, [Next]_credVars PROVE MissInv'
  OBVIOUS
<1> USE CacheOfType, CredAssumption DEF CredInv, TypeOK, MissInv, Hit, Holding
<1>1. ASSUME NEW c \in Callers, Call(c) PROVE MissInv'
  BY <1>1 DEF Call
<1>2. ASSUME NEW c \in Callers, LookupCache(c) PROVE MissInv'
  BY <1>2 DEF LookupCache
<1>3. ASSUME NEW c \in Callers, CreateCache(c) PROVE MissInv'
  BY <1>3 DEF CreateCache
<1>4. ASSUME NEW c \in Callers, LockCache(c) PROVE MissInv'
  BY <1>4 DEF LockCache
<1>5. ASSUME NEW c \in Callers, CacheHit(c) PROVE MissInv'
  BY <1>5 DEF CacheHit, ReturnWith
<1>6. ASSUME NEW c \in Callers, CtxDone(c) PROVE MissInv'
  BY <1>6 DEF CtxDone, ReturnWith
<1>7. ASSUME NEW c \in Callers, CacheMiss(c) PROVE MissInv'
  BY <1>7 DEF CacheMiss
<1>8. ASSUME NEW c \in Callers, LockFetch(c) PROVE MissInv'
  BY <1>8 DEF LockFetch
<1>9. ASSUME NEW c \in Callers, FetchReturns(c) PROVE MissInv'
  BY <1>9 DEF FetchReturns
<1>10. ASSUME NEW c \in Callers, FetchError(c) PROVE MissInv'
  BY <1>10 DEF FetchError, ReturnWith
<1>11. ASSUME NEW c \in Callers, Store(c) PROVE MissInv'
  <2> SUFFICES ASSUME NEW d \in Callers, pc'[d] \in {"fetchWait", "fetching"}
               PROVE  ~Hit(obj[d], LinkOf[d])' /\ d # c
    BY <1>11 DEF Store, ReturnWith
  <2>1. d # c /\ pc[d] = pc'[d] /\ obj'[d] = obj[d]
    BY <1>11 DEF Store, ReturnWith
  <2>2. obj[d] # obj[c] /\ obj[d] \in Callers /\ obj[c] \in Callers
    BY <1>11, <2>1, HoldersDiffer DEF Store, ObjectInv
  <2> QED
    BY <1>11, <2>1, <2>2 DEF Store
<1>12. ASSUME NEW x \in Ctxs, Cancel(x) PROVE MissInv'
  BY <1>12 DEF Cancel
<1>13. ASSUME Tick PROVE MissInv'
  <2> SUFFICES ASSUME NEW d \in Callers, pc[d] \in {"fetchWait", "fetching"}
               PROVE  ~Hit(obj[d], LinkOf[d])'
    BY <1>13 DEF Tick
  <2>1. obj[d] \in Callers /\ ~Hit(obj[d], LinkOf[d]) /\ creds[obj[d]].ttl \in Nat
    BY Lifetimes DEF ObjectInv, Creds
  <2> QED
    BY <1>13, <2>1 DEF Tick, Less
<1>14. CASE UNCHANGED credVars
  BY <1>14 DEF credVars
<1> QED
  BY <1>1, <1>2, <1>3, <1>4, <1>5, <1>6, <1>7, <1>8, <1>9, <1>10, <1>11,
     <1>12, <1>13, <1>14 DEF Next, getCredsCached

(* Time is taken from the expiry and from the lifetime alike. *)
LEMMA LifetimeStep == CredInv /\ [Next]_credVars => LifetimeInv'
<1> SUFFICES ASSUME CredInv, [Next]_credVars PROVE LifetimeInv'
  OBVIOUS
<1> USE Lifetimes, CredAssumption DEF CredInv, TypeOK, LifetimeInv
<1>1. ASSUME NEW c \in Callers, Call(c) PROVE LifetimeInv'
  BY <1>1 DEF Call
<1>2. ASSUME NEW c \in Callers, LookupCache(c) PROVE LifetimeInv'
  BY <1>2 DEF LookupCache
<1>3. ASSUME NEW c \in Callers, CreateCache(c) PROVE LifetimeInv'
  BY <1>3 DEF CreateCache
<1>4. ASSUME NEW c \in Callers, LockCache(c) PROVE LifetimeInv'
  BY <1>4 DEF LockCache
<1>5. ASSUME NEW c \in Callers, CacheHit(c) PROVE LifetimeInv'
  BY <1>5 DEF CacheHit, ReturnWith
<1>6. ASSUME NEW c \in Callers, CtxDone(c) PROVE LifetimeInv'
  BY <1>6 DEF CtxDone, ReturnWith
<1>7. ASSUME NEW c \in Callers, CacheMiss(c) PROVE LifetimeInv'
  BY <1>7 DEF CacheMiss
<1>8. ASSUME NEW c \in Callers, LockFetch(c) PROVE LifetimeInv'
  BY <1>8 DEF LockFetch
<1>9. ASSUME NEW c \in Callers, FetchReturns(c) PROVE LifetimeInv'
  BY <1>9 DEF FetchReturns, NoAnswer
<1>10. ASSUME NEW c \in Callers, FetchError(c) PROVE LifetimeInv'
  BY <1>10 DEF FetchError, ReturnWith
<1>11. ASSUME NEW c \in Callers, Store(c) PROVE LifetimeInv'
  <2>1. obj[c] \in Callers /\ got[c].srv \in Nat /\ got[c].srv >= CacheTTL
    BY <1>11 DEF Store, ObjectInv, Holding, Answers
  <2>2. \A o \in Callers : creds'[o].ttl <= creds'[o].srv
    BY <1>11, <2>1 DEF Store
  <2> QED
    BY <1>11, <2>2 DEF Store
<1>12. ASSUME NEW x \in Ctxs, Cancel(x) PROVE LifetimeInv'
  BY <1>12 DEF Cancel
<1>13. ASSUME Tick PROVE LifetimeInv'
  <2>1. \A o \in Callers : creds[o].ttl \in Nat /\ creds[o].srv \in Nat
    BY DEF Creds
  <2>2. \A o \in Callers : creds'[o].ttl <= creds'[o].srv
    BY <1>13, <2>1 DEF Tick, Less
  <2>3. ASSUME NEW c \in Callers, got'[c] # NoAnswer
        PROVE  got'[c].srv >= CredentialLifetime - MaxStoreDelay
    <3>1. got[c] # NoAnswer
      BY <1>13, <2>3 DEF Tick, NoAnswer, Less
    <3>2. got[c].srv \in Nat /\ got[c].srv > CredentialLifetime - MaxStoreDelay
      BY <1>13, <3>1 DEF Tick, Answers
    <3>3. got'[c].srv = Less(got[c].srv)
      BY <1>13 DEF Tick
    <3> QED
      BY <3>2, <3>3 DEF Less
  <2> QED
    BY <2>2, <2>3
<1>14. CASE UNCHANGED credVars
  BY <1>14 DEF credVars
<1> QED
  BY <1>1, <1>2, <1>3, <1>4, <1>5, <1>6, <1>7, <1>8, <1>9, <1>10, <1>11,
     <1>12, <1>13, <1>14 DEF Next, getCredsCached

(* An answer never changes hands. *)
LEMMA LinkStep == CredInv /\ [Next]_credVars => LinkInv'
<1> SUFFICES ASSUME CredInv, [Next]_credVars PROVE LinkInv'
  OBVIOUS
<1> USE CredAssumption DEF CredInv, TypeOK, LinkInv, AnswerForOwnLink
<1>1. ASSUME NEW c \in Callers, Call(c) PROVE LinkInv'
  BY <1>1 DEF Call
<1>2. ASSUME NEW c \in Callers, LookupCache(c) PROVE LinkInv'
  BY <1>2 DEF LookupCache
<1>3. ASSUME NEW c \in Callers, CreateCache(c) PROVE LinkInv'
  BY <1>3 DEF CreateCache
<1>4. ASSUME NEW c \in Callers, LockCache(c) PROVE LinkInv'
  BY <1>4 DEF LockCache
<1>5. ASSUME NEW c \in Callers, CacheHit(c) PROVE LinkInv'
  BY <1>5 DEF CacheHit, Hit, ReturnWith
<1>6. ASSUME NEW c \in Callers, CtxDone(c) PROVE LinkInv'
  BY <1>6 DEF CtxDone, ReturnWith
<1>7. ASSUME NEW c \in Callers, CacheMiss(c) PROVE LinkInv'
  BY <1>7 DEF CacheMiss
<1>8. ASSUME NEW c \in Callers, LockFetch(c) PROVE LinkInv'
  BY <1>8 DEF LockFetch
<1>9. ASSUME NEW c \in Callers, FetchReturns(c) PROVE LinkInv'
  BY <1>9 DEF FetchReturns, NoAnswer
<1>10. ASSUME NEW c \in Callers, FetchError(c) PROVE LinkInv'
  BY <1>10 DEF FetchError, ReturnWith
<1>11. ASSUME NEW c \in Callers, Store(c) PROVE LinkInv'
  BY <1>11 DEF Store, ReturnWith
<1>12. ASSUME NEW x \in Ctxs, Cancel(x) PROVE LinkInv'
  BY <1>12 DEF Cancel
<1>13. ASSUME Tick PROVE LinkInv'
  BY <1>13 DEF Tick, NoAnswer, Less
<1>14. CASE UNCHANGED credVars
  BY <1>14 DEF credVars
<1> QED
  BY <1>1, <1>2, <1>3, <1>4, <1>5, <1>6, <1>7, <1>8, <1>9, <1>10, <1>11,
     <1>12, <1>13, <1>14 DEF Next, getCredsCached

-----------------------------------------------------------------------------
(* CredInv is an invariant of getCredsCached, whatever the interleaving of *)
(* its callers, of cancelled contexts and of time.                         *)
THEOREM CredInvariant == Spec => []CredInv
<1>1. CredInv /\ [Next]_credVars => CredInv'
  BY TypeStep, FetchLockStep, ObjectStep, CacheLockStep, HolderStep, MapStep, FreshStep,
     MissStep, LifetimeStep, LinkStep DEF CredInv
<1> QED
  BY CredInit, <1>1, PTL DEF Spec

(* The types of the cache's state, whatever getCredsCached's callers do. *)
THEOREM TypeCorrect == Spec => []TypeOK
<1>1. CredInv => TypeOK
  BY DEF CredInv
<1> QED
  BY CredInvariant, <1>1, PTL

(* fetchMu: at most one credential fetch runs in the process. *)
THEOREM FetchesSerialized == Spec => []FetchSerialized
<1>1. CredInv => FetchSerialized
  BY DEF CredInv, FetchLockInv, FetchSerialized
<1> QED
  BY CredInvariant, <1>1, PTL

(* getStreamCache: callers with the same cache ID use the same object. *)
THEOREM ObjectsShared == Spec => []OneObjectPerCache
<1>1. CredInv => OneObjectPerCache
  BY DEF CredInv, ObjectInv, OneObjectPerCache
<1> QED
  BY CredInvariant, <1>1, PTL

(* Streams that share a cache cost one fetch: nobody fetches for a cache   *)
(* that holds unexpired credentials for the fetcher's link.                *)
THEOREM FetchesNeeded == Spec => []NoRedundantFetch
<1>1. CredInv => NoRedundantFetch
  <2> SUFFICES ASSUME CredInv, NEW c \in Callers, pc[c] \in {"fetchWait", "fetching"}
               PROVE  creds[caches[CacheOf[c]]].link # LinkOf[c]
                        \/ creds[caches[CacheOf[c]]].ttl = 0
    BY DEF NoRedundantFetch
  <2>1. obj[c] = caches[CacheOf[c]] /\ obj[c] \in Callers /\ ~Hit(obj[c], LinkOf[c])
    BY DEF CredInv, ObjectInv, MissInv, Holding
  <2>2. creds[obj[c]].ttl \in Nat
    BY <2>1, Lifetimes DEF CredInv, TypeOK, Creds
  <2> QED
    BY <2>1, <2>2 DEF Hit
<1> QED
  BY CredInvariant, <1>1, PTL

(* The safety margin: what the cache serves the server still accepts, if   *)
(* storing an answer takes no longer than the margin.                      *)
THEOREM CachedIsValid == Spec => []CachedStillValid
<1>1. CredInv => CachedStillValid
  <2> SUFFICES ASSUME CredInv, NEW o \in Callers, creds[o].ttl > 0
               PROVE  creds[o].srv > 0
    BY DEF CachedStillValid
  <2>1. creds[o].ttl \in Nat /\ creds[o].srv \in Nat /\ creds[o].ttl <= creds[o].srv
    BY Lifetimes DEF CredInv, TypeOK, Creds, LifetimeInv
  <2> QED
    BY <2>1
<1> QED
  BY CredInvariant, <1>1, PTL

(* No caller is handed credentials that were fetched for another link. *)
THEOREM AnswersForOwnLink == Spec => []AnswerForOwnLink
<1>1. CredInv => AnswerForOwnLink
  BY DEF CredInv, LinkInv
<1> QED
  BY CredInvariant, <1>1, PTL

(* The cache mutexes and fetchMu, taken in this order, never leave every   *)
(* call waiting: the holder of what a call waits for can go on, or waits   *)
(* for fetchMu, whose holder can.                                          *)
THEOREM LocksNeverStall == Spec => []NoStall
<1>1. CredInv => NoStall
  <2> SUFFICES ASSUME CredInv, NEW c \in Callers, pc[c] # "idle"
               PROVE  \E d \in Callers : pc[d] # "idle" /\ ~Waits(d)
    BY DEF NoStall
  <2> USE CredAssumption DEF CredInv, TypeOK, Waits
  <2>1. ASSUME NEW d \in Callers, pc[d] \in Holding
        PROVE  \E e \in Callers : pc[e] # "idle" /\ ~Waits(e)
    <3>1. CASE ~Waits(d)
      BY <2>1, <3>1 DEF Holding
    <3>2. CASE Waits(d)
      <4>1. fetchMu \in Callers /\ pc[fetchMu] = "fetching"
        BY <2>1, <3>2 DEF FetchLockInv, Holding
      <4> QED
        BY <4>1
    <3> QED
      BY <3>1, <3>2
  <2>2. CASE pc[c] = "lock" /\ cacheMu[obj[c]] # None
    <3>1. obj[c] \in Callers
      BY <2>2 DEF ObjectInv
    <3>2. cacheMu[obj[c]] \in Callers /\ pc[cacheMu[obj[c]]] \in Holding
      BY <2>2, <3>1 DEF HolderInv
    <3> QED
      BY <2>1, <3>2
  <2>3. CASE pc[c] \in Holding
    BY <2>1, <2>3
  <2>4. CASE ~Waits(c)
    BY <2>4
  <2> QED
    BY <2>2, <2>3, <2>4 DEF Holding
<1> QED
  BY CredInvariant, <1>1, PTL

-----------------------------------------------------------------------------
(* Refinement: each step of the cache is a step of CredService or leaves   *)
(* what CredService sees unchanged.                                        *)

SlotMap == [i \in CacheIDs |-> SlotOf(i)]
Fillers == {c \in Callers : pc[c] \in {"fetching", "store"}}

(* What a step that leaves the map and the objects alone leaves of slots.  *)
LEMMA SameSlots ==
    ASSUME caches' = caches, creds' = creds
    PROVE  SlotMap' = SlotMap
BY DEF SlotMap, SlotOf

(* The empty cache is the empty service. *)
LEMMA ServiceInit == Init => Service!Init
BY CacheOfType, CredAssumption DEF Init, Service!Init, SlotOf

(* A caller outside its fetch comes and goes unseen by the service. *)
LEMMA ServiceUnseen ==
    ASSUME CredInv, NEW c \in Callers,
           \/ Call(c) \/ LookupCache(c) \/ LockCache(c)
           \/ CacheHit(c) \/ CtxDone(c) \/ CacheMiss(c)
    PROVE  SlotMap' = SlotMap /\ fetchMu' = fetchMu /\ Fillers' = Fillers
<1>1. caches' = caches /\ creds' = creds /\ fetchMu' = fetchMu
  BY DEF Call, LookupCache, LockCache, CacheHit, CtxDone, CacheMiss, ReturnWith
<1>2. /\ \A d \in Callers : d # c => pc'[d] = pc[d]
      /\ pc[c] \notin {"fetching", "store"} /\ pc'[c] \notin {"fetching", "store"}
  BY DEF CredInv, TypeOK, Call, LookupCache, LockCache, CacheHit, CtxDone, CacheMiss, ReturnWith
<1>3. Fillers' = Fillers
  BY <1>2 DEF Fillers
<1> QED
  BY <1>1, <1>3, SameSlots

(* A new object is empty: allocating it shows nothing to the service. *)
LEMMA ServiceCreate ==
    ASSUME CredInv, NEW c \in Callers, CreateCache(c)
    PROVE  SlotMap' = SlotMap /\ fetchMu' = fetchMu /\ Fillers' = Fillers
<1>1. \A i \in CacheIDs : SlotOf(i)' = SlotOf(i)
  BY CacheOfType, CredAssumption
     DEF CredInv, TypeOK, FreshInv, CreateCache, SlotOf, EmptyCreds
<1>2. Fillers' = Fillers
  BY DEF CredInv, TypeOK, CreateCache, Fillers
<1> QED
  BY <1>1, <1>2 DEF SlotMap, CreateCache

(* Taking fetchMu starts a fetch of the service. *)
LEMMA ServiceStart ==
    ASSUME CredInv, NEW c \in Callers, LockFetch(c)
    PROVE  Service!StartFetch(c)
<1>1. \A d \in Fillers : CacheOf[d] # CacheOf[c]
  <2> SUFFICES ASSUME NEW d \in Fillers, CacheOf[d] = CacheOf[c] PROVE FALSE
    OBVIOUS
  <2>1. obj[d] = obj[c] /\ pc[d] \in Holding /\ pc[c] \in Holding /\ pc[d] # pc[c]
    BY DEF Fillers, LockFetch, CredInv, ObjectInv, Holding
  <2> QED
    BY <2>1, HoldersDiffer DEF Fillers
<1>2. ~(SlotMap[CacheOf[c]].link = LinkOf[c] /\ SlotMap[CacheOf[c]].ttl > 0)
  <2>1. obj[c] = caches[CacheOf[c]] /\ obj[c] \in Callers /\ ~Hit(obj[c], LinkOf[c])
    BY DEF LockFetch, CredInv, ObjectInv, MissInv, Holding
  <2>2. SlotMap[CacheOf[c]] = [link |-> creds[obj[c]].link, ttl |-> creds[obj[c]].ttl]
    BY <2>1, CacheOfType, CredAssumption DEF SlotMap, SlotOf
  <2> QED
    BY <2>1, <2>2 DEF Hit
<1>3. Fillers' = Fillers \cup {c}
  BY DEF CredInv, TypeOK, LockFetch, Fillers
<1>4. SlotMap' = SlotMap
  BY SameSlots DEF LockFetch
<1> QED
  BY <1>1, <1>2, <1>3, <1>4
     DEF Service!StartFetch, Service!Serves, SlotMap, Fillers, LockFetch

(* storeFn's return ends it. *)
LEMMA ServiceEnd ==
    ASSUME CredInv, NEW c \in Callers, FetchReturns(c)
    PROVE  Service!EndFetch(c)
<1>1. Fillers' = Fillers
  BY DEF CredInv, TypeOK, FetchReturns, Fillers
<1>2. SlotMap' = SlotMap
  BY SameSlots DEF FetchReturns
<1> QED
  BY <1>1, <1>2 DEF Service!EndFetch, SlotMap, Fillers, FetchReturns, CredInv, FetchLockInv

(* A caller whose fetch failed leaves with nothing published. *)
LEMMA ServiceAbandon ==
    ASSUME CredInv, NEW c \in Callers, FetchError(c)
    PROVE  Service!Abandon(c)
<1>1. Fillers' = Fillers \ {c}
  BY DEF CredInv, TypeOK, FetchError, ReturnWith, Fillers
<1>2. SlotMap' = SlotMap
  BY SameSlots DEF FetchError
<1>3. c \in Fillers /\ fetchMu # c /\ fetchMu' = fetchMu
  BY DEF Fillers, FetchError, CredInv, FetchLockInv
<1> QED
  BY <1>1, <1>2, <1>3 DEF Service!Abandon, SlotMap, Fillers

(* Storing an answer publishes it in the caller's slot and in no other. *)
LEMMA ServicePublish ==
    ASSUME CredInv, NEW c \in Callers, Store(c)
    PROVE  Service!Publish(c)
<1>1. Fillers' = Fillers \ {c}
  BY DEF CredInv, TypeOK, Store, ReturnWith, Fillers
<1>2. c \in Fillers /\ fetchMu # c /\ fetchMu' = fetchMu
  BY DEF Fillers, Store, CredInv, FetchLockInv
<1>3. obj[c] = caches[CacheOf[c]] /\ obj[c] \in Callers /\ CacheOf[c] \in CacheIDs
  BY CacheOfType DEF Store, CredInv, ObjectInv, Holding
<1>4. \A i \in CacheIDs : SlotOf(i)' =
         IF i = CacheOf[c] THEN [link |-> LinkOf[c], ttl |-> CacheTTL] ELSE SlotOf(i)
  <2> SUFFICES ASSUME NEW i \in CacheIDs
               PROVE  SlotOf(i)' = IF i = CacheOf[c]
                        THEN [link |-> LinkOf[c], ttl |-> CacheTTL] ELSE SlotOf(i)
    OBVIOUS
  <2>1. caches' = caches /\ creds' = [creds EXCEPT ![obj[c]] =
           [link |-> LinkOf[c], ttl |-> CacheTTL, srv |-> got[c].srv]]
    BY DEF Store
  <2>2. CASE i = CacheOf[c]
    <3>1. creds'[obj[c]] = [link |-> LinkOf[c], ttl |-> CacheTTL, srv |-> got[c].srv]
      BY <2>1, <1>3 DEF CredInv, TypeOK
    <3> QED
      BY <2>1, <2>2, <3>1, <1>3, CredAssumption DEF SlotOf
  <2>3. CASE i # CacheOf[c]
    <3>1. caches[i] # None => caches[i] # obj[c] /\ caches[i] \in Callers
      BY <2>3, <1>3, CredAssumption DEF CredInv, MapInv, TypeOK
    <3>2. caches[i] # None => creds'[caches[i]] = creds[caches[i]]
      BY <2>1, <3>1 DEF CredInv, TypeOK
    <3> QED
      BY <2>1, <2>3, <3>2 DEF SlotOf
  <2> QED
    BY <2>2, <2>3
<1>5. SlotMap' = [SlotMap EXCEPT ![CacheOf[c]] = [link |-> LinkOf[c], ttl |-> CacheTTL]]
  BY <1>3, <1>4 DEF SlotMap
<1> QED
  BY <1>1, <1>2, <1>5 DEF Service!Publish, SlotMap, Fillers

(* Time passes for every slot at once. *)
LEMMA ServiceExpire ==
    ASSUME CredInv, Tick
    PROVE  Service!Expire
<1>1. \A i \in CacheIDs : SlotOf(i)' =
         [link |-> SlotOf(i).link, ttl |-> IF SlotOf(i).ttl > 0 THEN SlotOf(i).ttl - 1 ELSE 0]
  BY CredAssumption DEF CredInv, TypeOK, Tick, Less, SlotOf
<1>2. Fillers' = Fillers /\ fetchMu' = fetchMu
  BY DEF Tick, Fillers
<1>3. SlotMap' = [i \in CacheIDs |-> [link |-> SlotMap[i].link,
                    ttl |-> IF SlotMap[i].ttl > 0 THEN SlotMap[i].ttl - 1 ELSE 0]]
  BY <1>1 DEF SlotMap
<1> QED
  BY <1>2, <1>3 DEF Service!Expire, SlotMap, Fillers

(* The cache implements the lock-free service of CredService: every step   *)
(* of getCredsCached and of time is a step of it or a stutter.             *)
THEOREM CacheImplementsService == Spec => ImplementsService
<1>1. CredInv /\ [Next]_credVars => [Service!Next]_(Service!svcVars)
  <2> SUFFICES ASSUME CredInv, [Next]_credVars
               PROVE  Service!Next \/ UNCHANGED Service!svcVars
    OBVIOUS
  <2> DEFINE Unseen == SlotMap' = SlotMap /\ fetchMu' = fetchMu /\ Fillers' = Fillers
  <2>1. Unseen => UNCHANGED Service!svcVars
    BY DEF Service!svcVars, SlotMap, Fillers
  <2>2. ASSUME NEW c \in Callers, Call(c) \/ getCredsCached(c)
        PROVE  Service!Next \/ Unseen
    BY <2>2, ServiceUnseen, ServiceCreate, ServiceStart, ServiceEnd, ServiceAbandon,
       ServicePublish DEF Service!Next, getCredsCached
  <2>3. ASSUME NEW x \in Ctxs, Cancel(x) PROVE Unseen
    BY <2>3, SameSlots DEF Cancel, Fillers
  <2>4. CASE Tick
    BY <2>4, ServiceExpire DEF Service!Next
  <2>5. ASSUME UNCHANGED credVars PROVE Unseen
    BY <2>5, SameSlots DEF credVars, Fillers
  <2> QED
    BY <2>1, <2>2, <2>3, <2>4, <2>5 DEF Next
<1> QED
  BY CredInvariant, ServiceInit, <1>1, PTL DEF Spec, ImplementsService, Service!Spec
=============================================================================
