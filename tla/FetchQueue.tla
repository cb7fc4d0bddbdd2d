----------------------------- MODULE FetchQueue -----------------------------
(***************************************************************************)
(* The streams around a credential fetch: stream.run (turn_client.go) asks *)
(* getCredsCached (credentials.go), whose fetch function runs under the    *)
(* one fetchMu of the program, and pauses between failed fetches.  The     *)
(* streams are of different credential caches, so that each fetches for    *)
(* itself; what a fetch does is the business of VkAuth and WbAuth, which   *)
(* move pc between the steps of the fetch.                                 *)
(***************************************************************************)
EXTENDS Naturals

CONSTANTS Streams,      \* the streams, each of a cache of its own
          ShortPause,   \* stream.run's 1 s, in ticks
          LongPause,    \* stream.run's 20 s after a captcha failure, in ticks
          None

ASSUME FetchQueueAssumption ==
    /\ ShortPause \in Nat \ {0} /\ LongPause \in Nat
    /\ ShortPause < LongPause
    /\ None \notin Nat /\ None \notin Streams

VARIABLES pc,           \* where each stream is
          fetchMu,      \* the stream inside the fetch, or None
          pause,        \* ticks left of a stream's reconnect pause
          cancelled,    \* the proxy's context is cancelled
          rest          \* ticks since a stream's fetch ran out of solve modes,
                        \* counted down from LongPause (history)

queueVars == <<pc, fetchMu, pause, cancelled, rest>>

QueueInit ==
    /\ pc = [s \in Streams |-> "want"]
    /\ fetchMu = None
    /\ pause = [s \in Streams |-> 0]
    /\ cancelled = FALSE
    /\ rest = [s \in Streams |-> 0]

(* One stream moves, and nothing else of the queue. *)
Move(s, from, to) ==
    /\ pc[s] = from
    /\ pc' = [pc EXCEPT ![s] = to]
    /\ UNCHANGED <<fetchMu, pause, cancelled, rest>>

-----------------------------------------------------------------------------
(* Mutation: the pause begins without a look at the context. *)
FailWithoutSelect(s, d) ==
    /\ pc' = [pc EXCEPT ![s] = "pause"]
    /\ pause' = [pause EXCEPT ![s] = d]

(* An error of getCreds: stream.run pauses for d ticks.  Its select finds  *)
(* the context done before the timer, so a cancelled stream returns.       *)
Fail(s, d) ==
    IF cancelled
    THEN /\ pc' = [pc EXCEPT ![s] = "returned"]
         /\ UNCHANGED pause
    ELSE /\ pc' = [pc EXCEPT ![s] = "pause"]
         /\ pause' = [pause EXCEPT ![s] = d]

(* The fetch ends with an error that is not about captchas. *)
FetchFails(s) ==
    /\ Fail(s, ShortPause)
    /\ fetchMu' = None
    /\ UNCHANGED <<cancelled, rest>>

(* The fetch ends with CAPTCHA_WAIT_REQUIRED. *)
GiveUp(s) ==
    /\ Fail(s, LongPause)
    /\ fetchMu' = None
    /\ rest' = [rest EXCEPT ![s] = LongPause]
    /\ UNCHANGED cancelled

(* The fetch ends with credentials, and the stream's session begins. *)
FetchEndsWell(s, from) ==
    /\ pc[s] = from
    /\ pc' = [pc EXCEPT ![s] = "connected"]
    /\ fetchMu' = None
    /\ UNCHANGED <<pause, cancelled, rest>>

(* The cache misses; the context is looked at before queueing at fetchMu.  *)
Want(s) ==
    /\ pc[s] = "want"
    /\ IF cancelled
       THEN Fail(s, ShortPause)
       ELSE /\ pc' = [pc EXCEPT ![s] = "queue"]
            /\ UNCHANGED pause
    /\ UNCHANGED <<fetchMu, cancelled, rest>>

(* fetchMu.Lock returns, and the fetch begins at its first step. *)
LockFetch(s, first) ==
    /\ pc[s] = "queue"
    /\ pc' = [pc EXCEPT ![s] = first]
    /\ fetchMu = None
    /\ fetchMu' = s
    /\ UNCHANGED <<pause, cancelled, rest>>

Resume(s) == pause[s] = 0 /\ Move(s, "pause", "want")

(* A cancelled stream leaves its pause or its session. *)
Leave(s) ==
    /\ cancelled
    /\ \E from \in {"pause", "connected"} : Move(s, from, "returned")

(* The session is lost after the cached credentials have expired. *)
SessionLost(s) == Move(s, "connected", "want")

Cancel ==
    /\ ~cancelled
    /\ cancelled' = TRUE
    /\ UNCHANGED <<pc, fetchMu, pause, rest>>

Less(n) == IF n = 0 THEN 0 ELSE n - 1

Tick ==
    /\ \E s \in Streams : pause[s] > 0 \/ rest[s] > 0
    /\ pause' = [s \in Streams |-> Less(pause[s])]
    /\ rest' = [s \in Streams |-> Less(rest[s])]
    /\ UNCHANGED <<pc, fetchMu, cancelled>>

-----------------------------------------------------------------------------
(* Mutation: requests are made without the context. *)
AnsweredAnyway == TRUE

(* A request is made with the context of the proxy: its answer can arrive  *)
(* only while that is live.  Its client has a timeout.                     *)
Answered == ~cancelled

=============================================================================
