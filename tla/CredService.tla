---------------------------- MODULE CredService ----------------------------
(***************************************************************************)
(* What the credential cache promises to the streams, without locks: one   *)
(* slot per shared cache, fetches that never overlap, at most one caller   *)
(* filling a slot at a time, and never a fetch for a slot that already     *)
(* holds unexpired credentials for the link asked for.                     *)
(* CredCache implements this specification.                                *)
(***************************************************************************)
EXTENDS Naturals

CONSTANTS Callers,      \* the goroutines that ask for credentials
          CacheIDs,     \* the shared cache slots
          CacheOf,      \* CacheOf[c]: the slot caller c uses
          LinkOf,       \* LinkOf[c]: the link caller c asks credentials for
          Links,
          NoLink,       \* the link of an empty slot
          None,         \* nobody is fetching
          Lifetime      \* ticks for which a stored credential is served

VARIABLES slot,         \* slot[i] = [link, ttl]: what slot i holds, ttl ticks left
          inflight,     \* the caller whose fetch is running, or None
          filling       \* callers between the start of a fetch and their return

svcVars == <<slot, inflight, filling>>

Slots == [link : Links \cup {NoLink}, ttl : 0..Lifetime]

Serves(i, l) == slot[i].link = l /\ slot[i].ttl > 0

Init ==
    /\ slot = [i \in CacheIDs |-> [link |-> NoLink, ttl |-> 0]]
    /\ inflight = None
    /\ filling = {}

(* A fetch starts only alone, for a slot nobody fills and that cannot serve. *)
StartFetch(c) ==
    /\ inflight = None
    /\ \A d \in filling : CacheOf[d] # CacheOf[c]
    /\ ~Serves(CacheOf[c], LinkOf[c])
    /\ inflight' = c
    /\ filling' = filling \cup {c}
    /\ UNCHANGED slot

EndFetch(c) ==
    /\ inflight = c
    /\ inflight' = None
    /\ UNCHANGED <<slot, filling>>

(* The filler returns after its fetch, publishing the result or not. *)
Publish(c) ==
    /\ c \in filling
    /\ inflight # c
    /\ slot' = [slot EXCEPT ![CacheOf[c]] = [link |-> LinkOf[c], ttl |-> Lifetime]]
    /\ filling' = filling \ {c}
    /\ UNCHANGED inflight

Abandon(c) ==
    /\ c \in filling
    /\ inflight # c
    /\ filling' = filling \ {c}
    /\ UNCHANGED <<slot, inflight>>

Expire ==
    /\ slot' = [i \in CacheIDs |->
                  [link |-> slot[i].link,
                   ttl |-> IF slot[i].ttl > 0 THEN slot[i].ttl - 1 ELSE 0]]
    /\ UNCHANGED <<inflight, filling>>

Next ==
    \/ \E c \in Callers : StartFetch(c) \/ EndFetch(c) \/ Publish(c) \/ Abandon(c)
    \/ Expire

Spec == Init /\ [][Next]_svcVars
=============================================================================
