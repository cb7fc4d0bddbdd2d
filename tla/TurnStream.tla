----------------------------- MODULE TurnStream -----------------------------
(***************************************************************************)
(* One stream of the proxy (internal/core/turn_client.go): the reconnect   *)
(* loop run and, inside it, runDTLS or runNoDTLS with the goroutines they  *)
(* start.  An attempt is one pass of the loop that got as far as a dialled *)
(* connection; goroutines of a failed attempt may still run while the next *)
(* attempt is under way, so everything a session owns is kept per attempt. *)
(*                                                                         *)
(* A datagram's content does not matter here: a pump that reads and writes *)
(* does not change this state until a read or a write fails.  The relay,   *)
(* DTLS and the in-memory packet pipe are modelled by how they are used: a *)
(* blocked read returns when its connection is closed, closing one end of  *)
(* the pipe breaks both, and any call may fail by itself.                  *)
(***************************************************************************)
EXTENDS Naturals

CONSTANTS PeerTypes,        \* the peerType values considered
          MaxAttempts,      \* bound on dialled connections
          MaxCacheErrors    \* maxCacheErrors

ASSUME StreamAssumption ==
    /\ PeerTypes \subseteq {"wireguard", "proxy_v1", "proxy_v2", "direct"}
    /\ MaxAttempts \in Nat
    /\ MaxCacheErrors \in Nat \ {0}

VARIABLES peerType,     \* the peerType argument
          stage,        \* where run is
          att,          \* the current attempt
          conns,        \* attempts whose TURN connection is open
          relays,       \* attempts whose relayed connection is open
          pipes,        \* attempts whose packet pipe is open
          sCancelled,   \* attempts whose own context was cancelled
          after,        \* attempts whose AfterFunc is registered and has not run
          live,         \* live[a]: goroutines of attempt a that have not ended
          deadline,     \* dtlsConn's deadline during the handshake, in 5 s ticks
          ctxDone,      \* the stream's context, cancelled by StopProxy
          ready,        \* s.ready
          cacheValid,   \* the stream's credential cache holds unexpired credentials
          revoked,      \* the TURN server no longer accepts the cached credentials
          authErrors    \* 401 answers to the cached credentials (saturating)

sessVars == <<conns, relays, pipes, sCancelled, after, live>>
cacheVars == <<cacheValid, revoked, authErrors>>
vars == <<peerType, stage, att, sessVars, deadline, ctxDone, ready, cacheVars>>

Attempts == 1..MaxAttempts
HandshakeTicks == 2     \* the 10 s given to the handshake
ExtendedTicks == 6      \* the 30 s the deadline updater gives
Pumps == {"up", "down", "deadline", "tx", "rx"}

UsesDTLS == peerType \in {"wireguard", "proxy_v1", "proxy_v2"}

(* The context of attempt a's session. *)
SDone(a) == ctxDone \/ a \in sCancelled

Init ==
    /\ peerType \in PeerTypes
    /\ stage = "creds"
    /\ att = 0
    /\ conns = {} /\ relays = {} /\ pipes = {} /\ sCancelled = {} /\ after = {}
    /\ live = [a \in Attempts |-> {}]
    /\ deadline = 0
    /\ ctxDone = FALSE
    /\ ready = FALSE
    /\ cacheValid = FALSE /\ revoked = FALSE /\ authErrors = 0

Goto(s) == stage' = s

-----------------------------------------------------------------------------
(* run: credentials *)

(* getCredsCached does not look at the context on a hit. *)
CachedCreds ==
    /\ stage = "creds" /\ cacheValid
    /\ Goto("dial")
    /\ UNCHANGED <<peerType, att, sessVars, ctxDone, deadline, ready, cacheVars>>

(* A fetch fills the cache.  The streams that share it, and what they do   *)
(* to it, are in CredCache; here it is the stream's own.                   *)
FetchedCreds ==
    /\ stage = "creds" /\ ~cacheValid /\ ~ctxDone
    /\ cacheValid' = TRUE /\ revoked' = FALSE /\ authErrors' = 0
    /\ Goto("dial")
    /\ UNCHANGED <<peerType, att, sessVars, ctxDone, deadline, ready>>

CredsFailed ==
    /\ stage = "creds" /\ ~cacheValid
    /\ Goto("backoff")
    /\ UNCHANGED <<peerType, att, sessVars, ctxDone, deadline, ready, cacheVars>>

(* The two waits of the loop: select on sCtx.Done() and a timer, which may *)
(* be taken although the context is done.                                  *)
Wait ==
    /\ stage \in {"backoff", "pause"}
    /\ Goto("creds")
    /\ UNCHANGED <<peerType, att, sessVars, ctxDone, deadline, ready, cacheVars>>

(* Mutation: run returns without its deferred closes. *)
ReturnWithoutDefers ==
    /\ stage \in {"backoff", "pause"}
    /\ ctxDone
    /\ Goto("returned")
    /\ UNCHANGED <<peerType, att, sessVars, ctxDone, deadline, ready, cacheVars>>

(* Mutation: of the deferred closes, relayConn.Close() is missing. *)
ReturnKeepsRelays ==
    /\ stage \in {"backoff", "pause"}
    /\ ctxDone
    /\ Goto("returned")
    /\ conns' = {}
    /\ UNCHANGED <<peerType, att, relays, pipes, sCancelled, after, live, ctxDone, deadline, ready, cacheVars>>

(* run returns: the deferred Close calls of every attempt run now. *)
Return ==
    /\ stage \in {"backoff", "pause"}
    /\ ctxDone
    /\ Goto("returned")
    /\ conns' = {} /\ relays' = {}
    /\ UNCHANGED <<peerType, att, pipes, sCancelled, after, live, ctxDone, deadline, ready, cacheVars>>

-----------------------------------------------------------------------------
(* run: dial, client, allocation, permission.  Each failure continues the  *)
(* loop at once, leaving what was opened to the deferred closes.           *)

SetupFailed ==
    /\ stage \in {"dial", "client", "alloc", "perm"}
    /\ Goto("creds")
    /\ UNCHANGED <<peerType, att, sessVars, ctxDone, deadline, ready, cacheVars>>

(* DialContext fails on a cancelled context. *)
Dial ==
    /\ stage = "dial" /\ ~ctxDone /\ att < MaxAttempts
    /\ att' = att + 1
    /\ conns' = conns \cup {att + 1}
    /\ Goto("client")
    /\ UNCHANGED <<peerType, relays, pipes, sCancelled, after, live, ctxDone, deadline, ready, cacheVars>>

NewClient ==
    /\ stage = "client"
    /\ Goto("alloc")
    /\ UNCHANGED <<peerType, att, sessVars, ctxDone, deadline, ready, cacheVars>>

Allocate ==
    /\ stage = "alloc" /\ ~revoked
    /\ relays' = relays \cup {att}
    /\ Goto("perm")
    /\ UNCHANGED <<peerType, att, conns, pipes, sCancelled, after, live, ctxDone, deadline, ready, cacheVars>>

(* The server refuses the credentials: like any failure, the loop goes on  *)
(* without a word to the credential cache.                                 *)
AllocateRefused ==
    /\ stage = "alloc" /\ revoked
    /\ authErrors' = IF authErrors > MaxCacheErrors THEN authErrors ELSE authErrors + 1
    /\ Goto("creds")
    /\ UNCHANGED <<peerType, att, sessVars, ctxDone, deadline, ready, cacheValid, revoked>>

CreatePermission ==
    /\ stage = "perm"
    /\ Goto("session")
    /\ UNCHANGED <<peerType, att, sessVars, ctxDone, deadline, ready, cacheVars>>

-----------------------------------------------------------------------------
(* runDTLS *)

(* dtls.Client fails: the deferred closes of the pipe and sCancel run. *)
DTLSClientFailed ==
    /\ stage = "session" /\ UsesDTLS
    /\ sCancelled' = sCancelled \cup {att}
    /\ Goto("pause")
    /\ UNCHANGED <<peerType, att, conns, relays, pipes, after, live, ctxDone, deadline, ready, cacheVars>>

(* The pipe, the AfterFunc and the three goroutines, before the handshake. *)
StartDTLS ==
    /\ stage = "session" /\ UsesDTLS
    /\ pipes' = pipes \cup {att}
    /\ after' = after \cup {att}
    /\ live' = [live EXCEPT ![att] = {"up", "down", "deadline"}]
    /\ Goto("handshake")
    /\ deadline' = HandshakeTicks
    /\ UNCHANGED <<peerType, att, conns, relays, sCancelled, ctxDone, ready, cacheVars>>

(* Mutation: no defer sCancel(). *)
LeaveWithoutCancel ==
    /\ pipes' = pipes \ {att}
    /\ Goto("pause")
    /\ UNCHANGED <<peerType, att, conns, relays, sCancelled, after, live, ctxDone, deadline, ready, cacheVars>>

(* runDTLS returns: dtlsConn, c2 and c1 are closed and sCancel runs. *)
LeaveDTLS ==
    /\ pipes' = pipes \ {att}
    /\ sCancelled' = sCancelled \cup {att}
    /\ Goto("pause")
    /\ UNCHANGED <<peerType, att, conns, relays, after, live, ctxDone, deadline, ready, cacheVars>>

(* HandshakeContext returns an error for certain when its context is done, *)
(* the pipe is broken or the deadline has passed.  No wg.Wait follows.      *)
HandshakeFailed ==
    /\ stage = "handshake"
    /\ SDone(att) \/ att \notin pipes \/ deadline = 0
    /\ LeaveDTLS

(* The peer answers the handshake: it refuses, or completes it. *)
HandshakeRefused ==
    /\ stage = "handshake"
    /\ LeaveDTLS

Handshake ==
    /\ stage = "handshake"
    /\ ~SDone(att) /\ att \in pipes
    /\ Goto(IF peerType = "proxy_v2" THEN "sessionID" ELSE "ready")
    /\ UNCHANGED <<peerType, att, sessVars, ctxDone, deadline, ready, cacheVars>>

(* Five seconds of the handshake pass.  The deadline updater's ticker runs  *)
(* from the start of the session and pushes the deadline 30 s ahead.        *)
HandshakeTick ==
    /\ stage = "handshake" /\ deadline > 0
    /\ deadline' = IF "deadline" \in live[att] THEN ExtendedTicks ELSE deadline - 1
    /\ UNCHANGED <<peerType, stage, att, sessVars, ctxDone, ready, cacheVars>>

SessionIDFailed ==
    /\ stage = "sessionID"
    /\ LeaveDTLS

SessionHandshake ==
    /\ stage = "sessionID"
    /\ att \in pipes
    /\ Goto("ready")
    /\ UNCHANGED <<peerType, att, sessVars, ctxDone, deadline, ready, cacheVars>>

StartPumps ==
    /\ stage = "ready"
    /\ ready' = TRUE
    /\ live' = [live EXCEPT ![att] = @ \cup {"tx", "rx"}]
    /\ Goto("serve")
    /\ UNCHANGED <<peerType, att, conns, relays, pipes, sCancelled, after, ctxDone, deadline, cacheVars>>

(* Mutation: runDTLS returns as soon as its context is cancelled. *)
WaitOnlyForCancel ==
    /\ stage = "serve" /\ UsesDTLS
    /\ SDone(att)
    /\ LeaveDTLS

(* wg.Wait() *)
EndDTLS ==
    /\ stage = "serve" /\ UsesDTLS
    /\ live[att] = {}
    /\ LeaveDTLS

-----------------------------------------------------------------------------
(* runNoDTLS: two goroutines, nothing closes relayConn. *)

StartNoDTLS ==
    /\ stage = "session" /\ ~UsesDTLS
    /\ ready' = TRUE
    /\ live' = [live EXCEPT ![att] = {"tx", "rx"}]
    /\ Goto("serve")
    /\ UNCHANGED <<peerType, att, conns, relays, pipes, sCancelled, after, ctxDone, deadline, cacheVars>>

EndNoDTLS ==
    /\ stage = "serve" /\ ~UsesDTLS
    /\ live[att] = {}
    /\ sCancelled' = sCancelled \cup {att}
    /\ Goto("pause")
    /\ UNCHANGED <<peerType, att, conns, relays, pipes, after, live, ctxDone, deadline, ready, cacheVars>>

-----------------------------------------------------------------------------
(* The goroutines of attempt a *)

(* Mutation: the cleanup closes the pipe but not the relay. *)
CleanupPipeOnly(a) ==
    /\ a \in after /\ SDone(a)
    /\ after' = after \ {a}
    /\ pipes' = pipes \ {a}
    /\ UNCHANGED <<peerType, stage, att, conns, relays, sCancelled, live, ctxDone, deadline, ready, cacheVars>>

(* context.AfterFunc(sCtx, ...): relayConn.Close(); c1.Close() *)
Cleanup(a) ==
    /\ a \in after /\ SDone(a)
    /\ after' = after \ {a}
    /\ relays' = relays \ {a}
    /\ pipes' = pipes \ {a}
    /\ UNCHANGED <<peerType, stage, att, conns, sCancelled, live, ctxDone, deadline, ready, cacheVars>>

(* Goroutine g ends.  All but the deadline updater cancel the session. *)
End(a, g) ==
    /\ g \in live[a]
    /\ live' = [live EXCEPT ![a] = @ \ {g}]
    /\ sCancelled' = IF g = "deadline" THEN sCancelled ELSE sCancelled \cup {a}
    /\ UNCHANGED <<peerType, stage, att, conns, relays, pipes, after, ctxDone, deadline, ready, cacheVars>>

(* What makes a goroutine's blocking call return for certain. *)
Unblocked(a, g) ==
    CASE g = "up" -> a \notin pipes
      [] g = "down" -> a \notin relays
      [] g = "deadline" -> SDone(a)
      [] g = "tx" -> SDone(a)
      [] g = "rx" -> IF UsesDTLS THEN a \notin pipes ELSE a \notin relays

Unblock(a, g) == Unblocked(a, g) /\ End(a, g)

(* A read or write that fails by itself, or the TX watchdog. *)
PumpFails(a, g) ==
    /\ g # "deadline"
    /\ ~Unblocked(a, g)
    /\ End(a, g)

-----------------------------------------------------------------------------
(* Environment *)

Stop ==
    /\ ~ctxDone
    /\ ctxDone' = TRUE
    /\ UNCHANGED <<peerType, stage, att, sessVars, deadline, ready, cacheVars>>

Expire ==
    /\ cacheValid
    /\ cacheValid' = FALSE /\ authErrors' = 0
    /\ UNCHANGED <<peerType, stage, att, sessVars, ctxDone, deadline, ready, revoked>>

Revoke ==
    /\ cacheValid /\ ~revoked
    /\ revoked' = TRUE
    /\ UNCHANGED <<peerType, stage, att, sessVars, ctxDone, deadline, ready, cacheValid, authErrors>>

run ==
    \/ CachedCreds \/ FetchedCreds \/ CredsFailed \/ Wait \/ Return
    \/ SetupFailed \/ Dial \/ NewClient \/ Allocate \/ AllocateRefused \/ CreatePermission
    \/ DTLSClientFailed \/ StartDTLS \/ HandshakeFailed \/ SessionHandshake \/ SessionIDFailed
    \/ StartPumps \/ EndDTLS \/ StartNoDTLS \/ EndNoDTLS

Next ==
    \/ run
    \/ Handshake \/ HandshakeRefused \/ HandshakeTick
    \/ \E a \in Attempts : Cleanup(a)
    \/ \E a \in Attempts, g \in Pumps : Unblock(a, g) \/ PumpFails(a, g)
    \/ Stop \/ Expire \/ Revoke

(* Every goroutine that can go on is scheduled and credentials expire; no  *)
(* failure, no traffic, no answer to a handshake and no stop is assumed.   *)
(* Fairness of run rests on the bounded waits of dial and allocation.  A   *)
(* select picks at random among the cases that are ready: with the context *)
(* done for good, the timer does not win every time.                       *)
Fairness ==
    /\ WF_vars(run) /\ SF_vars(Return)
    /\ WF_vars(HandshakeTick)
    /\ WF_vars(Expire)
    /\ \A a \in Attempts : WF_vars(Cleanup(a))
    /\ \A a \in Attempts, g \in Pumps : WF_vars(Unblock(a, g))

Spec == Init /\ [][Next]_vars
LiveSpec == Spec /\ Fairness
-----------------------------------------------------------------------------
(* Properties *)

(* The type of the state; a relay is never open without the TURN           *)
(* connection it runs over (the deferred closes of run).                   *)
TypeOK ==
    /\ peerType \in PeerTypes
    /\ stage \in {"creds", "backoff", "dial", "client", "alloc", "perm", "session",
                  "handshake", "sessionID", "ready", "serve", "pause", "returned"}
    /\ att \in 0..MaxAttempts
    /\ conns \subseteq Attempts /\ relays \subseteq conns
    /\ pipes \subseteq Attempts /\ sCancelled \subseteq Attempts /\ after \subseteq Attempts
    /\ live \in [Attempts -> SUBSET Pumps]
    /\ deadline \in 0..ExtendedTicks
    /\ ctxDone \in BOOLEAN /\ ready \in BOOLEAN /\ cacheValid \in BOOLEAN
    /\ revoked \in BOOLEAN
    /\ authErrors \in 0..(MaxCacheErrors + 1)

(* Only one goroutine at a time takes packets from s.in: a reconnect never *)
(* leaves the old session's TX behind to steal the new session's packets.  *)
OneConsumer ==
    \A a, b \in Attempts : "tx" \in live[a] /\ "tx" \in live[b] => a = b

(* An attempt that run has left is shut down or shutting down: its context *)
(* is cancelled, and no goroutine of it is left that nothing will unblock  *)
(* (its pipe is closed, its relay is closed or about to be).               *)
OldAttemptsCondemned ==
    \A a \in 1..(att - 1) : live[a] # {} =>
        /\ a \in sCancelled
        /\ a \notin pipes
        /\ a \in relays => a \in after

(* Losing any one goroutine of a DTLS session ends the whole session, so   *)
(* run reconnects: once the session's context is cancelled, run does not   *)
(* wait for ever in wg.Wait.                                               *)
LostSessionEnds ==
    (stage = "serve" /\ UsesDTLS /\ SDone(att)) ~> (stage # "serve")

Released ==
    /\ stage = "returned"
    /\ conns = {} /\ relays = {} /\ pipes = {}
    /\ \A a \in Attempts : live[a] = {}

(* StopProxy stops a stream with DTLS: run returns, and every goroutine,   *)
(* relay and connection of every attempt goes with it.                     *)
StopReleasesAll == ctxDone /\ UsesDTLS ~> []Released

(* "StopProxy stops the TURN proxy" (turn_client.go:592): the same for any *)
(* stream, also one without DTLS.                                          *)
StopReleasesPlain == ctxDone ~> []Released

(* The handshake's explicit deadline: a handshake the peer never answers   *)
(* is given up, so that the stream can try again.                          *)
HandshakeEnds == (stage = "handshake") ~> (stage # "handshake")

(* handleAuthError's contract: cached credentials the server keeps refusing *)
(* are not tried again after maxCacheErrors authentication errors.          *)
RejectedCredsDropped == authErrors <= MaxCacheErrors
=============================================================================
