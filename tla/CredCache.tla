----------------------------- MODULE CredCache -----------------------------
(***************************************************************************)
(* The TURN credential cache (internal/core/credentials.go).  Every stream *)
(* goroutine calls getCredsCached: it looks its shared cache up, takes the *)
(* cache's mutex, and either returns what is cached or, still holding that *)
(* mutex, takes the global fetchMu and fetches.  A caller's context can be *)
(* cancelled at any moment; the cache survives a restart of the proxy, so  *)
(* callers of two proxy generations, with two links, may share a cache.    *)
(*                                                                         *)
(* Time is kept as remaining ticks, so no clock grows: ttl is what is left *)
(* until ExpiresAt, srv what is left of the lifetime the server grants.    *)
(* A cache object is named by the caller that allocated it (a caller       *)
(* allocates at most one, since an entry of the map is never removed).     *)
(***************************************************************************)
EXTENDS Naturals

CONSTANTS Callers,              \* goroutines running stream.run
          StreamID,             \* StreamID[c]: s.id
          LinkOf,               \* LinkOf[c]: the link argument
          CtxOf,                \* CtxOf[c]: the proxy generation's context
          StreamsPerCred,       \* streamsPerCred
          Links, NoLink, Ctxs, None,
          CredentialLifetime,   \* credentialLifetime, in ticks
          CacheSafetyMargin,    \* cacheSafetyMargin, in ticks
          MaxStoreDelay         \* ticks a fetched result may wait to be stored

ASSUME CredAssumption ==
    /\ StreamID \in [Callers -> Nat]
    /\ LinkOf \in [Callers -> Links]
    /\ CtxOf \in [Callers -> Ctxs]
    /\ NoLink \notin Links
    /\ None \notin Callers
    /\ StreamsPerCred \in Nat \ {0}
    /\ CredentialLifetime \in Nat
    /\ CacheSafetyMargin \in 0..CredentialLifetime
    /\ MaxStoreDelay \in 0..CacheSafetyMargin

VARIABLES caches,       \* credentialsStore.caches: cache ID -> object or None
          creds,        \* creds[o]: the creds field of object o
          cacheMu,      \* cacheMu[o]: holder of o.mutex or None
          fetchMu,      \* holder of fetchMu or None
          pc,           \* where each caller is in getCredsCached
          obj,          \* the cache object the caller looked up
          got,          \* what storeFn returned to the caller
          result,       \* the link of the credentials the last call returned
          cancelled     \* the contexts whose cancel function ran

credVars == <<caches, creds, cacheMu, fetchMu, pc, obj, got, result, cancelled>>

(* streamsPerCred is a variable that every start of a proxy sets           *)
(* (turn_client.go:457); here all starts set it to the same value.         *)
getCacheID(s) == s \div StreamsPerCred

CacheOf == [c \in Callers |-> getCacheID(StreamID[c])]
CacheIDs == {CacheOf[c] : c \in Callers}

CacheTTL == CredentialLifetime - CacheSafetyMargin

AllLinks == Links \cup {NoLink}
Creds == [link : AllLinks, ttl : 0..CacheTTL, srv : 0..CredentialLifetime]
Answers == [link : AllLinks, srv : 0..CredentialLifetime]

EmptyCreds == [link |-> NoLink, ttl |-> 0, srv |-> 0]
NoAnswer == [link |-> NoLink, srv |-> 0]

Done(c) == CtxOf[c] \in cancelled

Init ==
    /\ caches = [i \in CacheIDs |-> None]
    /\ creds = [o \in Callers |-> EmptyCreds]
    /\ cacheMu = [o \in Callers |-> None]
    /\ fetchMu = None
    /\ pc = [c \in Callers |-> "idle"]
    /\ obj = [c \in Callers |-> None]
    /\ got = [c \in Callers |-> NoAnswer]
    /\ result = [c \in Callers |-> NoLink]
    /\ cancelled = {}

-----------------------------------------------------------------------------
(* getStreamCache *)

Call(c) ==
    /\ pc[c] = "idle"
    /\ pc' = [pc EXCEPT ![c] = "lookup"]
    /\ result' = [result EXCEPT ![c] = NoLink]
    /\ UNCHANGED <<caches, creds, cacheMu, fetchMu, obj, got, cancelled>>

(* The fast path: read the map under the read lock, then let it go. *)
LookupCache(c) ==
    /\ pc[c] = "lookup"
    /\ obj' = [obj EXCEPT ![c] = caches[CacheOf[c]]]
    /\ pc' = [pc EXCEPT ![c] = IF caches[CacheOf[c]] = None THEN "create" ELSE "lock"]
    /\ UNCHANGED <<caches, creds, cacheMu, fetchMu, got, result, cancelled>>

(* The slow path under the write lock, with the double check. *)
CreateCache(c) ==
    /\ pc[c] = "create"
    /\ caches' = IF caches[CacheOf[c]] = None
                   THEN [caches EXCEPT ![CacheOf[c]] = c] ELSE caches
    /\ obj' = [obj EXCEPT ![c] = caches'[CacheOf[c]]]
    /\ pc' = [pc EXCEPT ![c] = "lock"]
    /\ UNCHANGED <<creds, cacheMu, fetchMu, got, result, cancelled>>

-----------------------------------------------------------------------------
(* getCredsCached *)

LockCache(c) ==
    /\ pc[c] = "lock"
    /\ cacheMu[obj[c]] = None
    /\ cacheMu' = [cacheMu EXCEPT ![obj[c]] = c]
    /\ pc' = [pc EXCEPT ![c] = "check"]
    /\ UNCHANGED <<caches, creds, fetchMu, obj, got, result, cancelled>>

(* Mutation: the link is not compared. *)
HitAnyLink(o, l) == creds[o].ttl > 0

Hit(o, l) == creds[o].link = l /\ creds[o].ttl > 0

(* defer cache.mutex.Unlock(), and back to the caller with an answer. *)
ReturnWith(c, link) ==
    /\ cacheMu' = [cacheMu EXCEPT ![obj[c]] = None]
    /\ result' = [result EXCEPT ![c] = link]
    /\ obj' = [obj EXCEPT ![c] = None]
    /\ pc' = [pc EXCEPT ![c] = "idle"]

CacheHit(c) ==
    /\ pc[c] = "check"
    /\ Hit(obj[c], LinkOf[c])
    /\ ReturnWith(c, creds[obj[c]].link)
    /\ UNCHANGED <<caches, creds, fetchMu, got, cancelled>>

CtxDone(c) ==
    /\ pc[c] = "check"
    /\ ~Hit(obj[c], LinkOf[c])
    /\ Done(c)
    /\ ReturnWith(c, NoLink)
    /\ UNCHANGED <<caches, creds, fetchMu, got, cancelled>>

(* Mutation: the cache's mutex is released before the fetch. *)
CacheMissUnlocking(c) ==
    /\ pc[c] = "check"
    /\ ~Hit(obj[c], LinkOf[c])
    /\ ~Done(c)
    /\ pc' = [pc EXCEPT ![c] = "fetchWait"]
    /\ cacheMu' = [cacheMu EXCEPT ![obj[c]] = None]
    /\ UNCHANGED <<caches, creds, fetchMu, obj, got, result, cancelled>>

CacheMiss(c) ==
    /\ pc[c] = "check"
    /\ ~Hit(obj[c], LinkOf[c])
    /\ ~Done(c)
    /\ pc' = [pc EXCEPT ![c] = "fetchWait"]
    /\ UNCHANGED <<caches, creds, cacheMu, fetchMu, obj, got, result, cancelled>>

LockFetch(c) ==
    /\ pc[c] = "fetchWait"
    /\ fetchMu = None
    /\ fetchMu' = c
    /\ pc' = [pc EXCEPT ![c] = "fetching"]
    /\ UNCHANGED <<caches, creds, cacheMu, obj, got, result, cancelled>>

(* storeFn returns and serializeFetch unlocks.  A cancelled context makes  *)
(* failure likely, not certain: the answer may already have arrived.       *)
FetchReturns(c) ==
    /\ pc[c] = "fetching"
    /\ got' \in {[got EXCEPT ![c] = NoAnswer],
                 [got EXCEPT ![c] = [link |-> LinkOf[c], srv |-> CredentialLifetime]]}
    /\ fetchMu' = None
    /\ pc' = [pc EXCEPT ![c] = "store"]
    /\ UNCHANGED <<caches, creds, cacheMu, obj, result, cancelled>>

(* Mutation: an error return that skips the unlock. *)
FetchErrorKeepsLock(c) ==
    /\ pc[c] = "store"
    /\ got[c] = NoAnswer
    /\ result' = [result EXCEPT ![c] = NoLink]
    /\ pc' = [pc EXCEPT ![c] = "idle"]
    /\ UNCHANGED <<caches, creds, cacheMu, fetchMu, obj, got, cancelled>>

FetchError(c) ==
    /\ pc[c] = "store"
    /\ got[c] = NoAnswer
    /\ ReturnWith(c, NoLink)
    /\ UNCHANGED <<caches, creds, fetchMu, got, cancelled>>

(* Mutation: the safety margin is not subtracted. *)
StoreFullLifetime(c) ==
    /\ pc[c] = "store"
    /\ got[c] # NoAnswer
    /\ creds' = [creds EXCEPT ![obj[c]] =
                   [link |-> LinkOf[c], ttl |-> CredentialLifetime, srv |-> got[c].srv]]
    /\ got' = [got EXCEPT ![c] = NoAnswer]
    /\ ReturnWith(c, got[c].link)
    /\ UNCHANGED <<caches, fetchMu, cancelled>>

Store(c) ==
    /\ pc[c] = "store"
    /\ got[c] # NoAnswer
    /\ creds' = [creds EXCEPT ![obj[c]] =
                   [link |-> LinkOf[c], ttl |-> CacheTTL, srv |-> got[c].srv]]
    /\ got' = [got EXCEPT ![c] = NoAnswer]
    /\ ReturnWith(c, got[c].link)
    /\ UNCHANGED <<caches, fetchMu, cancelled>>

-----------------------------------------------------------------------------
(* Environment: StopProxy or a restart cancels a generation; time passes. *)

Cancel(x) ==
    /\ x \notin cancelled
    /\ cancelled' = cancelled \cup {x}
    /\ UNCHANGED <<caches, creds, cacheMu, fetchMu, pc, obj, got, result>>

Less(n) == IF n > 0 THEN n - 1 ELSE 0

Tick ==
    /\ \A c \in Callers : got[c] # NoAnswer =>
          got[c].srv > CredentialLifetime - MaxStoreDelay
    /\ creds' = [o \in Callers |-> [link |-> creds[o].link,
                                    ttl |-> Less(creds[o].ttl),
                                    srv |-> Less(creds[o].srv)]]
    /\ got' = [c \in Callers |-> [link |-> got[c].link, srv |-> Less(got[c].srv)]]
    /\ UNCHANGED <<caches, cacheMu, fetchMu, pc, obj, result, cancelled>>

getCredsCached(c) ==
    \/ LookupCache(c) \/ CreateCache(c) \/ LockCache(c)
    \/ CacheHit(c) \/ CtxDone(c) \/ CacheMiss(c)
    \/ LockFetch(c) \/ FetchReturns(c) \/ FetchError(c) \/ Store(c)

Next ==
    \/ \E c \in Callers : Call(c) \/ getCredsCached(c)
    \/ \E x \in Ctxs : Cancel(x)
    \/ Tick

Spec == Init /\ [][Next]_credVars
-----------------------------------------------------------------------------
(* Properties *)

Holding == {"check", "fetchWait", "fetching", "store"}

(* The type of the state; what is left of a cached credential's time never *)
(* exceeds the lifetime less the safety margin (credentials.go:199).       *)
TypeOK ==
    /\ caches \in [CacheIDs -> Callers \cup {None}]
    /\ creds \in [Callers -> Creds]
    /\ cacheMu \in [Callers -> Callers \cup {None}]
    /\ fetchMu \in Callers \cup {None}
    /\ pc \in [Callers -> {"idle", "lookup", "create", "lock"} \cup Holding]
    /\ obj \in [Callers -> Callers \cup {None}]
    /\ got \in [Callers -> Answers]
    /\ result \in [Callers -> AllLinks]
    /\ cancelled \subseteq Ctxs

(* fetchMu: whatever the interleaving, at most one credential fetch is     *)
(* running in the process (credentials.go:149, "serializes credential      *)
(* fetching to avoid API rate limiting").                                  *)
FetchSerialized ==
    \A c, d \in Callers : pc[c] = "fetching" /\ pc[d] = "fetching" => c = d

(* The double check of getStreamCache: two callers past the lookup that    *)
(* use the same cache ID use the same object, so the same mutex.           *)
OneObjectPerCache ==
    \A c, d \in Callers :
        /\ pc[c] \in Holding \cup {"lock"}
        /\ pc[d] \in Holding \cup {"lock"}
        /\ CacheOf[c] = CacheOf[d]
        => obj[c] = obj[d]

(* A fetch is never running for a cache that already holds unexpired       *)
(* credentials for the fetcher's link: the streams that share a cache cost *)
(* one fetch, however they interleave.                                     *)
NoRedundantFetch ==
    \A c \in Callers : pc[c] \in {"fetchWait", "fetching"} =>
        LET o == caches[CacheOf[c]]
        IN  o = None \/ creds[o].link # LinkOf[c] \/ creds[o].ttl = 0

(* Credentials served from the cache are still accepted by the server: the *)
(* expiry computed when they are stored stays inside the lifetime that     *)
(* began when they were issued.                                            *)
CachedStillValid == \A o \in Callers : creds[o].ttl > 0 => creds[o].srv > 0

(* A caller is never handed credentials fetched for another link, although *)
(* callers of two proxy generations share the cache.                       *)
AnswerForOwnLink ==
    \A c \in Callers : result[c] \in {LinkOf[c], NoLink}

(* What a call that is under way waits for, if anything. *)
Waits(c) ==
    \/ pc[c] = "lock" /\ cacheMu[obj[c]] # None
    \/ pc[c] = "fetchWait" /\ fetchMu # None

(* The two levels of locks never end in everyone waiting on everyone: when *)
(* calls are under way one of them can go on, whatever fetches failed and  *)
(* whichever contexts were cancelled (the fetch itself ends: VkAuth).      *)
NoStall ==
    (\E c \in Callers : pc[c] # "idle") =>
        \E c \in Callers : pc[c] # "idle" /\ ~Waits(c)

(* The cache implements the lock-free service of CredService. *)
SlotOf(i) == IF caches[i] = None
               THEN [link |-> NoLink, ttl |-> 0]
               ELSE [link |-> creds[caches[i]].link, ttl |-> creds[caches[i]].ttl]

Service == INSTANCE CredService WITH
    Lifetime <- CacheTTL,
    slot <- [i \in CacheIDs |-> SlotOf(i)],
    inflight <- fetchMu,
    filling <- {c \in Callers : pc[c] \in {"fetching", "store"}}

ImplementsService == Service!Spec
=============================================================================
