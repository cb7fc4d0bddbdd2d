-------------------------- MODULE TurnStreamProofs --------------------------
(***************************************************************************)
(* Proofs about one stream, for any number of attempts.  The argument is   *)
(* about the attempt the loop has moved past: runDTLS returns without      *)
(* waiting for its goroutines when the handshake fails, so the next        *)
(* attempt starts beside them, and what makes them go must be in place     *)
(* when the loop moves on.                                                 *)
(***************************************************************************)
EXTENDS TurnStream, TLAPS

(* Stages in which run is not inside an attempt. *)
Between == {"creds", "backoff", "dial", "pause", "returned"}

(* Stages of an attempt before and after its goroutines are started. *)
Setup == {"client", "alloc", "perm", "session"}
Session == {"handshake", "sessionID", "ready", "serve"}

(* An attempt that the loop has left behind. *)
Left(a) == a < att \/ (a = att /\ stage \in Between)

(* An attempt that is yet to come, or is being set up, has no goroutine    *)
(* and no pipe and was not cancelled.                                      *)
FreshInv ==
    \A a \in Attempts : a > att \/ (a = att /\ stage \in Setup) =>
        live[a] = {} /\ a \notin pipes /\ a \notin after /\ a \notin sCancelled

(* Inside an attempt its connection is open. *)
InsideInv == stage \in Setup \cup Session => att \in Attempts /\ att \in conns

(* The AfterFunc that will close the relay is there from the start of a    *)
(* session with DTLS until the relay is closed.                            *)
HookInv ==
    /\ stage \in {"handshake", "sessionID", "ready"} => UsesDTLS
    /\ stage \in Session /\ UsesDTLS /\ att \in relays => att \in after

(* What is left of an attempt the loop has moved past is condemned. *)
LeftInv ==
    \A a \in Attempts : Left(a) /\ live[a] # {} =>
        a \in sCancelled /\ a \notin pipes /\ (a \in relays => a \in after)

(* TX runs in the attempt that run waits for only. *)
ConsumerInv == \A a \in Attempts : "tx" \in live[a] => a = att /\ stage = "serve"

StreamInv ==
    /\ TypeOK
    /\ FreshInv
    /\ InsideInv
    /\ HookInv
    /\ LeftInv
    /\ ConsumerInv
-----------------------------------------------------------------------------
(* The bounds of the counters that a fetch, an expiry and a handshake set. *)
LEMMA Bounds ==
    0 \in 0..(MaxCacheErrors + 1) /\ 0 \in 0..ExtendedTicks /\ HandshakeTicks \in 0..ExtendedTicks
  BY StreamAssumption DEF ExtendedTicks, HandshakeTicks

(* Before the first attempt there is nothing. *)
LEMMA StreamInit == Init => StreamInv
<1> SUFFICES ASSUME Init
             PROVE  StreamInv
  OBVIOUS
<1> USE StreamAssumption, Bounds DEF Init, Attempts
<1>1. TypeOK
  <2>1. att \in 0..MaxAttempts
    OBVIOUS
  <2>2. live \in [Attempts -> SUBSET Pumps]
    OBVIOUS
  <2>3. QED
    BY <2>1, <2>2 DEF TypeOK
<1>2. FreshInv /\ LeftInv /\ ConsumerInv
  BY DEF FreshInv, LeftInv, Left, ConsumerInv
<1>3. InsideInv /\ HookInv
  BY DEF InsideInv, HookInv, Setup, Session
<1>4. QED
  BY <1>1, <1>2, <1>3 DEF StreamInv

(* The steps of run before a session: credentials, waits, set-up. *)
LEMMA LoopStep ==
    ASSUME StreamInv,
           \/ CachedCreds \/ FetchedCreds \/ CredsFailed \/ Wait \/ Return
           \/ SetupFailed \/ Dial \/ NewClient \/ Allocate \/ AllocateRefused
           \/ CreatePermission
    PROVE  StreamInv'
<1> USE StreamAssumption, Bounds
    DEF StreamInv, TypeOK, Attempts, Pumps, FreshInv, InsideInv, HookInv, LeftInv,
        Left, ConsumerInv, Between, Setup, Session, Goto, sessVars, cacheVars, UsesDTLS
<1>1. CASE CachedCreds \/ CredsFailed \/ Wait \/ SetupFailed
  BY <1>1 DEF CachedCreds, CredsFailed, Wait, SetupFailed
<1>2. CASE FetchedCreds
  BY <1>2 DEF FetchedCreds
<1>3. CASE Return
  BY <1>3 DEF Return
<1>4. CASE Dial
  BY <1>4 DEF Dial
<1>5. CASE NewClient \/ CreatePermission
  BY <1>5 DEF NewClient, CreatePermission
<1>6. CASE Allocate
  BY <1>6 DEF Allocate
<1>7. CASE AllocateRefused
  BY <1>7 DEF AllocateRefused
<1>8. QED
  BY <1>1, <1>2, <1>3, <1>4, <1>5, <1>6, <1>7

(* The steps of runDTLS and runNoDTLS. *)
LEMMA SessionStep ==
    ASSUME StreamInv,
           \/ DTLSClientFailed \/ StartDTLS \/ HandshakeFailed \/ HandshakeRefused
           \/ Handshake \/ HandshakeTick \/ SessionHandshake \/ SessionIDFailed
           \/ StartPumps \/ EndDTLS \/ StartNoDTLS \/ EndNoDTLS
    PROVE  StreamInv'
<1> USE StreamAssumption, Bounds
    DEF StreamInv, TypeOK, Attempts, Pumps, FreshInv, InsideInv, HookInv, LeftInv,
        Left, ConsumerInv, Between, Setup, Session, Goto, sessVars, cacheVars, UsesDTLS
<1>1. CASE DTLSClientFailed
  BY <1>1 DEF DTLSClientFailed
<1>2. CASE StartDTLS
  BY <1>2 DEF StartDTLS
<1>3. CASE HandshakeFailed \/ HandshakeRefused \/ SessionIDFailed
  <2>1. stage \in {"handshake", "sessionID"} /\ LeaveDTLS
    BY <1>3 DEF HandshakeFailed, HandshakeRefused, SessionIDFailed
  <2>2. QED
    BY <2>1 DEF LeaveDTLS
<1>4. CASE Handshake
  BY <1>4 DEF Handshake
<1>5. CASE HandshakeTick
  BY <1>5 DEF HandshakeTick, ExtendedTicks
<1>6. CASE SessionHandshake
  BY <1>6 DEF SessionHandshake
<1>7. CASE StartPumps
  BY <1>7 DEF StartPumps
<1>8. CASE EndDTLS
  BY <1>8 DEF EndDTLS, LeaveDTLS
<1>9. CASE StartNoDTLS
  BY <1>9 DEF StartNoDTLS
<1>10. CASE EndNoDTLS
  BY <1>10 DEF EndNoDTLS
<1>11. QED
  BY <1>1, <1>2, <1>3, <1>4, <1>5, <1>6, <1>7, <1>8, <1>9, <1>10

(* The goroutines of any attempt, and the world around. *)
LEMMA GoroutineStep ==
    ASSUME StreamInv,
           \/ \E a \in Attempts : Cleanup(a)
           \/ \E a \in Attempts, g \in Pumps : Unblock(a, g) \/ PumpFails(a, g)
           \/ Stop \/ Expire \/ Revoke \/ UNCHANGED vars
    PROVE  StreamInv'
<1> USE StreamAssumption, Bounds
    DEF StreamInv, TypeOK, Attempts, FreshInv, InsideInv, HookInv, LeftInv,
        Left, ConsumerInv, Between, Setup, Session, sessVars, cacheVars, UsesDTLS
<1>1. ASSUME NEW a \in Attempts, Cleanup(a)
      PROVE  StreamInv'
  BY <1>1 DEF Cleanup
<1>2. ASSUME NEW a \in Attempts, NEW g \in Pumps, End(a, g)
      PROVE  StreamInv'
  BY <1>2 DEF End
<1>3. CASE Stop
  BY <1>3 DEF Stop
<1>4. CASE Expire
  BY <1>4 DEF Expire
<1>5. CASE Revoke
  BY <1>5 DEF Revoke
<1>6. CASE UNCHANGED vars
  BY <1>6 DEF vars
<1>7. QED
  BY <1>1, <1>2, <1>3, <1>4, <1>5, <1>6 DEF Unblock, PumpFails

(* The inductive invariant holds throughout. *)
THEOREM StreamInvariant == Spec => []StreamInv
<1>1. StreamInv /\ [Next]_vars => StreamInv'
  BY LoopStep, SessionStep, GoroutineStep DEF Next, run
<1>2. QED
  BY StreamInit, <1>1, PTL DEF Spec

(* The types, with a relay never open without its TURN connection, hold    *)
(* for any number of attempts.                                             *)
THEOREM StreamTypeOK == Spec => []TypeOK
<1>1. StreamInv => TypeOK
  BY DEF StreamInv
<1>2. QED
  BY StreamInvariant, <1>1, PTL

(* At most one goroutine takes packets from s.in, however many attempts    *)
(* failed and left goroutines behind: run never starts a session while the *)
(* TX of an older one is alive.                                            *)
THEOREM OneConsumerAlways == Spec => []OneConsumer
<1>1. StreamInv => OneConsumer
  BY DEF StreamInv, ConsumerInv, OneConsumer
<1>2. QED
  BY StreamInvariant, <1>1, PTL

(* Whatever an earlier attempt left running has its context cancelled, its *)
(* pipe closed and its relay closed or about to be: run never abandons a   *)
(* goroutine that nothing will unblock.                                    *)
THEOREM OldAttemptsCondemnedAlways == Spec => []OldAttemptsCondemned
<1>1. StreamInv => OldAttemptsCondemned
  <2> SUFFICES ASSUME StreamInv, NEW a \in 1..(att - 1), live[a] # {}
               PROVE  a \in sCancelled /\ a \notin pipes /\ (a \in relays => a \in after)
    BY DEF OldAttemptsCondemned
  <2>1. a \in Attempts /\ a < att
    BY StreamAssumption DEF StreamInv, TypeOK, Attempts
  <2>2. QED
    BY <2>1 DEF StreamInv, LeftInv, Left
<1>2. QED
  BY StreamInvariant, <1>1, PTL
=============================================================================
