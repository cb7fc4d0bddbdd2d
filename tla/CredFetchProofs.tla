-------------------------- MODULE CredFetchProofs --------------------------
(***************************************************************************)
(* Proofs about fetching credentials, for any number of streams, slider    *)
(* guesses, browser requests and callbacks.  The chain of requests keeps   *)
(* its form and its counter in variables that all streams' fetches use in  *)
(* turn: that fetchMu is held by exactly the stream inside a fetch is what *)
(* the other invariants rest on.  What the captcha server returns does not *)
(* depend on the queue and is an invariant of its own.  The last part is   *)
(* about the reader of WB's messages: its loop ends on any bytes.          *)
(***************************************************************************)
EXTENDS CredFetch, WellFoundedInduction, TLAPS

Outside == {"want", "queue", "pause", "connected", "returned"}
WbStages == {"guest", "room", "join", "roomtoken", "dial", "listen", "parse"}
VkStages == {"token1", "preview", "token2", "captcha", "token3", "token4", "delay"} \cup Solving

(* fetchMu is held by exactly the stream that is inside a fetch. *)
QueueInv ==
    /\ pc \in [Streams -> Outside \cup WbStages \cup VkStages]
    /\ fetchMu \in Streams \cup {None}
    /\ cancelled \in BOOLEAN
    /\ \A s \in Streams : pc[s] \notin Outside <=> fetchMu = s

(* The form holds nothing, or token and sid of a challenge solved before   *)
(* the attempt under way; a solver runs on an attempt that has a mode.     *)
LadderInv ==
    /\ VkTypeOK
    /\ form.token = form.sid
    /\ form.token # None => form.token < attempt
    /\ \A s \in Streams : pc[s] \in Solving => attempt < 5

(* Once a solve was begun after the cancel, no challenge is waiting. *)
LateInv ==
    /\ lateSolves \in {0, 1}
    /\ lateSolves = 1 => cancelled /\ \A s \in Streams : pc[s] # "captcha"

FetchInv == QueueInv /\ LadderInv /\ LateInv
-----------------------------------------------------------------------------
(* Before the first fetch the form is empty and nobody holds fetchMu. *)
LEMMA FetchInit == Init => FetchInv
<1> SUFFICES ASSUME Init
             PROVE  FetchInv
  OBVIOUS
<1> USE FetchQueueAssumption, VkAuthAssumption DEF Init, QueueInit, VkInit
<1>1. QueueInv
  BY DEF QueueInv, Outside, WbStages, VkStages, Solving, Fallible
<1>2. LadderInv
  BY DEF LadderInv, VkTypeOK, EmptyForm, Challenges, Solving, Fallible
<1>3. LateInv
  BY DEF LateInv
<1>4. QED
  BY <1>1, <1>2, <1>3 DEF FetchInv

(* Only attempts 0 to 4 have a solver. *)
LEMMA SolveModes ==
    ASSUME NEW n \in Nat, SolveMode(n) # None
    PROVE  n \in 0..4
  BY DEF SolveMode

(* Ending a fetch with an error, if it was the stream's own, releases      *)
(* fetchMu and takes the stream out of the fetch.                          *)
LEMMA FailedFetch ==
    ASSUME QueueInv, NEW s \in Streams, pc[s] \notin Outside, FetchFails(s) \/ GiveUp(s)
    PROVE  /\ QueueInv' /\ cancelled' = cancelled
           /\ pc'[s] \in {"pause", "returned"}
           /\ \A t \in Streams : t # s => pc'[t] = pc[t]
  BY FetchQueueAssumption DEF QueueInv, FetchFails, GiveUp, Fail, Outside

(* Moving from one step of a fetch to another keeps the holder. *)
LEMMA MovedFetch ==
    ASSUME QueueInv, NEW s \in Streams, NEW from, NEW to \in WbStages \cup VkStages,
           from \notin Outside, Move(s, from, to)
    PROVE  /\ QueueInv' /\ cancelled' = cancelled
           /\ pc'[s] = to
           /\ \A t \in Streams : t # s => pc'[t] = pc[t]
  BY DEF QueueInv, Move, Outside, WbStages, VkStages, Solving, Fallible

(* A fetch that begins or ends well, and a stream outside of a fetch.      *)
LEMMA QueueStep ==
    ASSUME QueueInv, NEW s \in Streams,
           \/ \E first \in {"token1", "guest"} : LockFetch(s, first)
           \/ \E from \in {"delay", "parse"} : FetchEndsWell(s, from)
           \/ Want(s) \/ Resume(s) \/ Leave(s) \/ SessionLost(s)
    PROVE  /\ QueueInv' /\ cancelled' = cancelled
           /\ pc'[s] \in Outside \cup {"token1", "guest"}
           /\ \A t \in Streams : t # s => pc'[t] = pc[t]
<1> USE FetchQueueAssumption
    DEF QueueInv, Outside, WbStages, VkStages, Solving, Fallible, Move
<1>1. CASE \E first \in {"token1", "guest"} : LockFetch(s, first)
  BY <1>1 DEF LockFetch
<1>2. CASE \E from \in {"delay", "parse"} : FetchEndsWell(s, from)
  BY <1>2 DEF FetchEndsWell
<1>3. CASE Want(s)
  BY <1>3 DEF Want, Fail
<1>4. CASE Resume(s) \/ SessionLost(s)
  BY <1>4 DEF Resume, SessionLost
<1>5. CASE Leave(s)
  BY <1>5 DEF Leave
<1>6. QED
  BY <1>1, <1>2, <1>3, <1>4, <1>5

(* A step of one stream that leaves the chain's variables alone, and does  *)
(* not bring the stream to a solver or, after the cancel, to a challenge.  *)
LEMMA ChainKept ==
    ASSUME FetchInv, NEW s \in Streams, QueueInv', UNCHANGED chainVars, cancelled' = cancelled,
           pc'[s] \in Solving => pc[s] \in Solving,
           pc'[s] = "captcha" => ~cancelled,
           \A t \in Streams : t # s => pc'[t] = pc[t]
    PROVE  FetchInv'
<1>1. LadderInv'
  BY DEF FetchInv, LadderInv, VkTypeOK, chainVars
<1>2. LateInv'
  BY DEF FetchInv, LateInv, chainVars
<1>3. QED
  BY <1>1, <1>2 DEF FetchInv

(* The requests of getTokenChain, and a captcha that is answered by none   *)
(* of the solvers.                                                         *)
LEMMA RequestStep ==
    ASSUME FetchInv, NEW s \in Streams,
           \/ Token1(s) \/ Preview(s) \/ Token2(s) \/ Captcha(s) \/ Token3(s) \/ Token4(s)
           \/ Fetched(s) \/ RequestFails(s) \/ NoMode(s)
    PROVE  FetchInv'
<1>1. QueueInv
  BY DEF FetchInv
<1> USE <1>1
<1>2. CASE Token1(s) \/ Preview(s) \/ Token2(s) \/ Token3(s) \/ Token4(s)
  <2>1. PICK from \in VkStages, to \in VkStages \ (Solving \cup {"captcha"}) :
           Move(s, from, to) /\ from \notin Outside
    BY <1>2 DEF Token1, Preview, Token2, Token3, Token4, VkStages, Solving, Fallible, Outside
  <2>2. UNCHANGED chainVars
    BY <1>2 DEF Token1, Preview, Token2, Token3, Token4
  <2>3. QED
    BY <2>1, <2>2, MovedFetch, ChainKept
<1>3. CASE Captcha(s)
  <2>1. Move(s, "token2", "captcha") /\ ~cancelled /\ UNCHANGED chainVars
    BY <1>3 DEF Captcha, Answered
  <2>2. "captcha" \in VkStages /\ "captcha" \notin Solving /\ "token2" \notin Outside
    BY DEF VkStages, Solving, Fallible, Outside
  <2>3. QED
    BY <2>1, <2>2, MovedFetch, ChainKept
<1>4. CASE Fetched(s)
  <2>1. FetchEndsWell(s, "delay") /\ UNCHANGED chainVars
    BY <1>4 DEF Fetched
  <2>2. pc'[s] \notin Solving \cup {"captcha"}
    BY <2>1, QueueStep DEF Outside, Solving, Fallible
  <2>3. QED
    BY <2>1, <2>2, QueueStep, ChainKept
<1>5. CASE RequestFails(s) \/ NoMode(s)
  <2>1. pc[s] \notin Outside /\ (FetchFails(s) \/ GiveUp(s)) /\ UNCHANGED chainVars
    BY <1>5 DEF RequestFails, NoMode, Outside
  <2>2. pc'[s] \notin Solving \cup {"captcha"}
    BY <2>1, FailedFetch DEF Solving, Fallible
  <2>3. QED
    BY <2>1, <2>2, FailedFetch, ChainKept
<1>6. QED
  BY <1>2, <1>3, <1>4, <1>5

(* The solvers up to their verdict. *)
LEMMA SolverSteps ==
    ASSUME FetchInv, NEW s \in Streams,
           \/ Register(s) \/ Bootstrap(s) \/ SolvePoW(s) \/ CheckRefused(s)
           \/ SliderContent(s) \/ WrongGuess(s)
    PROVE  FetchInv'
<1>1. QueueInv
  BY DEF FetchInv
<1> USE <1>1
<1>2. Solving \subseteq VkStages /\ Solving \cap Outside = {} /\ "captcha" \notin Solving
  BY DEF VkStages, Solving, Fallible, Outside
<1>3. CASE Register(s) \/ Bootstrap(s) \/ SolvePoW(s) \/ CheckRefused(s)
  <2>1. PICK from \in Solving, to \in Solving : Move(s, from, to)
    BY <1>3 DEF Register, Bootstrap, SolvePoW, CheckRefused, Solver, Solving, Fallible
  <2>2. UNCHANGED chainVars
    BY <1>3 DEF Register, Bootstrap, SolvePoW, CheckRefused
  <2>3. pc[s] = from
    BY <2>1 DEF Move
  <2>4. QED
    BY <1>2, <2>1, <2>2, <2>3, MovedFetch, ChainKept
<1>4. CASE SliderContent(s)
  <2>1. PICK from \in Solving, to \in Solving : Move(s, from, to)
    BY <1>4 DEF SliderContent, Solving, Fallible
  <2>2. pc[s] = from
    BY <2>1 DEF Move
  <2>3. QueueInv' /\ cancelled' = cancelled /\ pc'[s] = to
        /\ \A t \in Streams : t # s => pc'[t] = pc[t]
    BY <1>2, <2>1, MovedFetch
  <2>4. guesses' \in 0..MaxGuesses /\ UNCHANGED <<attempt, form, lateSolves>>
    BY <1>4 DEF SliderContent, FetchInv, LadderInv, VkTypeOK
  <2>5. LadderInv'
    BY <2>1, <2>2, <2>3, <2>4 DEF FetchInv, LadderInv, VkTypeOK
  <2>6. LateInv'
    BY <1>2, <2>3, <2>4 DEF FetchInv, LateInv
  <2>7. QED
    BY <2>3, <2>5, <2>6 DEF FetchInv
<1>5. CASE WrongGuess(s)
  <2>1. guesses' \in 0..MaxGuesses /\ UNCHANGED <<queueVars, attempt, form, lateSolves>>
    BY <1>5, VkAuthAssumption DEF WrongGuess, FetchInv, LadderInv, VkTypeOK
  <2>2. QED
    BY <2>1 DEF FetchInv, QueueInv, LadderInv, LateInv, VkTypeOK, queueVars
<1>6. QED
  BY <1>3, <1>4, <1>5

(* A solver begins: after the cancel this is the challenge that waited.    *)
LEMMA StartSolveStep ==
    ASSUME FetchInv, NEW s \in Streams, StartSolve(s)
    PROVE  FetchInv'
<1>1. QueueInv /\ pc[s] = "captcha"
  BY DEF FetchInv, StartSolve, Move
<1>2. PICK to \in {"browser", "register"} : Move(s, "captcha", to)
  BY DEF StartSolve
<1>3. to \in VkStages /\ to # "captcha" /\ "captcha" \notin Outside
  BY DEF VkStages, Solving, Fallible, Outside
<1>4. QueueInv' /\ cancelled' = cancelled /\ pc'[s] = to
      /\ \A t \in Streams : t # s => pc'[t] = pc[t]
  BY <1>1, <1>2, <1>3, MovedFetch
<1>5. attempt \in 0..4 /\ UNCHANGED <<attempt, form, guesses>>
  BY SolveModes DEF StartSolve, FetchInv, LadderInv, VkTypeOK
<1>6. LadderInv'
  BY <1>4, <1>5 DEF FetchInv, LadderInv, VkTypeOK
<1>7. \A t \in Streams : pc'[t] # "captcha"
  BY <1>1, <1>3, <1>4 DEF QueueInv, Outside
<1>8. lateSolves = 0
  BY <1>1 DEF FetchInv, LateInv
<1>9. LateInv'
  BY <1>4, <1>7, <1>8 DEF LateInv, StartSolve, FetchInv, QueueInv
<1>10. QED
  BY <1>4, <1>6, <1>9 DEF FetchInv

(* A solver's verdict: the next rung with the form as it is, the form with *)
(* the token and the sid of the challenge, or the end of the ladder.       *)
LEMMA VerdictStep ==
    ASSUME FetchInv, NEW s \in Streams,
           SolveFails(s) \/ \E from \in Fallible : SendToken(s, from)
    PROVE  FetchInv'
<1>1. QueueInv
  BY DEF FetchInv
<1> USE <1>1
<1>2. Fallible \subseteq Solving /\ Fallible \cap Outside = {}
      /\ "token2" \in VkStages /\ "token2" \notin Solving \cup {"captcha"}
      /\ "pause" \notin Solving \cup {"captcha"} /\ "returned" \notin Solving \cup {"captcha"}
  BY DEF VkStages, Solving, Fallible, Outside
<1>3. ASSUME NEW from \in Fallible, Move(s, from, "token2"), UNCHANGED lateSolves,
             attempt' = attempt + 1, guesses' = 0,
             attempt < 5 =>
                \/ form' = form
                \/ form' = [sid |-> attempt, token |-> attempt]
      PROVE  FetchInv'
  <2>1. pc[s] = from /\ attempt \in 0..4
    BY <1>2, <1>3 DEF Move, FetchInv, LadderInv, VkTypeOK
  <2>2. QueueInv' /\ cancelled' = cancelled /\ pc'[s] = "token2"
        /\ \A t \in Streams : t # s => pc'[t] = pc[t]
    BY <1>2, <1>3, MovedFetch
  <2>3. \A t \in Streams : pc'[t] \notin Solving
    BY <1>2, <2>1, <2>2 DEF QueueInv, Solving, Fallible, Outside
  <2>4. LadderInv'
    <3>1. CASE form' = form
      BY <1>3, <2>1, <2>3, <3>1, VkAuthAssumption, FetchQueueAssumption
      DEF FetchInv, LadderInv, VkTypeOK, Challenges
    <3>2. CASE form' = [sid |-> attempt, token |-> attempt]
      BY <1>3, <2>1, <2>3, <3>2, VkAuthAssumption DEF FetchInv, LadderInv, VkTypeOK, Challenges
    <3>3. QED
      BY <1>3, <2>1, <3>1, <3>2
  <2>5. LateInv'
    BY <1>2, <1>3, <2>2 DEF FetchInv, LateInv
  <2>6. QED
    BY <2>2, <2>4, <2>5 DEF FetchInv
<1>4. CASE SolveFails(s)
  <2>1. CASE \E at \in Fallible : Move(s, at, "token2") /\ attempt' = attempt + 1 /\ guesses' = 0
                                 /\ UNCHANGED <<form, lateSolves>>
    BY <1>3, <2>1
  <2>2. CASE pc[s] \in Fallible /\ GiveUp(s) /\ UNCHANGED chainVars
    BY <1>2, <2>2, FailedFetch, ChainKept
  <2>3. QED
    BY <1>4, <2>1, <2>2 DEF SolveFails
<1>5. ASSUME NEW from \in Fallible, SendToken(s, from)
      PROVE  FetchInv'
  BY <1>3, <1>5 DEF SendToken
<1>6. QED
  BY <1>4, <1>5

(* All of FetchVkCreds, the browser rung included. *)
LEMMA VkStep ==
    ASSUME FetchInv, NEW s \in Streams, VkFetch(s)
    PROVE  FetchInv'
<1>1. CASE FetchVkCreds(s)
  <2>1. CASE Unsolved(s)
    BY <2>1, VerdictStep DEF Unsolved
  <2>2. CASE NotRobotSolves(s) \/ SliderSolves(s)
    BY <2>2, VerdictStep DEF NotRobotSolves, SliderSolves, Fallible
  <2>3. QED
    BY <1>1, <2>1, <2>2, RequestStep, SolverSteps DEF FetchVkCreds
<1>2. CASE OpenBrowser(s)
  BY <1>2, StartSolveStep DEF OpenBrowser
<1>3. CASE BrowserSolved(s) \/ BrowserFailed(s)
  BY <1>3, VerdictStep DEF BrowserSolved, BrowserSolves, BrowserFailed, Fallible
<1>4. QED
  BY <1>1, <1>2, <1>3 DEF VkFetch

(* The fetch of the other mode holds the same mutex and keeps its hands    *)
(* off the chain's variables.                                              *)
LEMMA WbStepKeeps ==
    ASSUME FetchInv, NEW s \in Streams, wbFetch(s) \/ ReadMessage(s), UNCHANGED chainVars
    PROVE  FetchInv'
<1>1. QueueInv
  BY DEF FetchInv
<1> USE <1>1
<1>2. WbStages \cap Outside = {} /\ WbStages \cap (Solving \cup {"captcha"}) = {}
      /\ "pause" \notin Solving \cup {"captcha"} /\ "returned" \notin Solving \cup {"captcha"}
  BY DEF WbStages, Solving, Fallible, Outside
<1>3. CASE wbReq(s) \/ Dial(s) \/ ReadMessage(s) \/ NoCreds(s)
  <2>1. PICK from \in WbStages, to \in WbStages : Move(s, from, to)
    <3>1. CASE wbReq(s)
      BY <3>1 DEF wbReq, WbStep, WbStages
    <3>2. CASE Dial(s) \/ ReadMessage(s) \/ NoCreds(s)
      BY <3>2 DEF Dial, ReadMessage, NoCreds, WbStages
    <3>3. QED
      BY <1>3, <3>1, <3>2
  <2>2. QED
    BY <1>2, <2>1, MovedFetch, ChainKept
<1>4. CASE WbRequestFails(s) \/ ReadsEnd(s)
  <2>1. pc[s] \in WbStages /\ FetchFails(s)
    BY <1>4 DEF WbRequestFails, ReadsEnd, WbStep, WbStages
  <2>2. QED
    BY <1>2, <2>1, FailedFetch, ChainKept
<1>5. CASE HandOut(s)
  <2>1. FetchEndsWell(s, "parse")
    BY <1>5 DEF HandOut
  <2>2. pc'[s] \notin Solving \cup {"captcha"}
    BY <2>1, QueueStep DEF Outside, Solving, Fallible
  <2>3. QED
    BY <2>1, <2>2, QueueStep, ChainKept
<1>6. QED
  BY <1>3, <1>4, <1>5 DEF wbFetch

(* Taking fetchMu, and everything a stream does outside of a fetch.  VK's  *)
(* chain begins with an empty form.                                        *)
LEMMA OutsideStep ==
    ASSUME FetchInv, NEW s \in Streams, Lock(s) \/ Between(s) \/ Lost(s)
    PROVE  FetchInv'
<1>1. QueueInv
  BY DEF FetchInv
<1>2. \/ \E first \in {"token1", "guest"} : LockFetch(s, first)
      \/ Want(s) \/ Resume(s) \/ Leave(s) \/ SessionLost(s)
  BY DEF Lock, VkStart, WbStart, Between, Lost
<1>3. /\ QueueInv' /\ cancelled' = cancelled
      /\ pc'[s] \notin Solving \cup {"captcha"}
      /\ \A t \in Streams : t # s => pc'[t] = pc[t]
  BY <1>1, <1>2, QueueStep DEF Outside, Solving, Fallible
<1>4. CASE VkStart(s)
  <2>1. LadderInv'
    BY <1>3, <1>4, VkAuthAssumption
    DEF VkStart, LadderInv, VkTypeOK, FetchInv, EmptyForm, Challenges
  <2>2. LateInv'
    BY <1>3, <1>4 DEF VkStart, FetchInv, LateInv
  <2>3. QED
    BY <1>3, <2>1, <2>2 DEF FetchInv
<1>5. CASE ~VkStart(s)
  <2>1. UNCHANGED chainVars
    BY <1>5 DEF Lock, Between, Lost
  <2>2. QED
    BY <1>3, <2>1, ChainKept
<1>6. QED
  BY <1>4, <1>5

(* Cancelling, time, and the browser. *)
LEMMA WorldStep ==
    ASSUME FetchInv,
           \/ (Cancel \/ Tick) /\ UNCHANGED chainVars
           \/ UNCHANGED <<queueVars, chainVars>>
    PROVE  FetchInv'
  BY DEF FetchInv, QueueInv, LadderInv, LateInv, VkTypeOK, Cancel, Tick, queueVars, chainVars

(* The inductive invariant of queue and ladder holds throughout. *)
THEOREM FetchInvariant == Spec => []FetchInv
<1>1. FetchInv /\ [Next]_vars => FetchInv'
  <2> SUFFICES ASSUME FetchInv, [Next]_vars
               PROVE  FetchInv'
    OBVIOUS
  <2>1. ASSUME NEW s \in Streams, Fetch(s) \/ Receive(s)
        PROVE  FetchInv'
    BY <2>1, VkStep, WbStepKeeps DEF Fetch, Receive
  <2>2. ASSUME NEW s \in Streams, Lock(s) \/ Between(s) \/ Lost(s)
        PROVE  FetchInv'
    BY <2>2, OutsideStep
  <2>3. CASE \/ (Cancel \/ Tick) /\ UNCHANGED <<chainVars, wbVars, serverVars, mode>>
             \/ Browse(SolverStep \/ TypeLine)
             \/ \E r \in Requests : Browse(HandlerStep(r))
             \/ UNCHANGED vars
    BY <2>3, WorldStep DEF Browse, vars
  <2>4. QED
    BY <2>1, <2>2, <2>3 DEF Next
<1>2. QED
  BY FetchInit, <1>1, PTL DEF Spec

(* After the proxy is stopped all streams together begin at most one more  *)
(* captcha, for any number of streams that wait at fetchMu or pause, and   *)
(* whatever rung of the ladder the fetch under way is on.                  *)
THEOREM OneLateSolveAlways == Spec => []OneLateSolve
<1>1. FetchInv => OneLateSolve
  BY DEF FetchInv, LateInv, OneLateSolve
<1>2. QED
  BY FetchInvariant, <1>1, PTL

(* A getAnonymousToken request never carries a success_token with the      *)
(* captcha_sid of another challenge, or one of an earlier stream's fetch.  *)
THEOREM TokenMatchesSidAlways == Spec => []TokenMatchesSid
<1>1. FetchInv => TokenMatchesSid
  BY DEF FetchInv, LadderInv, TokenMatchesSid
<1>2. QED
  BY FetchInvariant, <1>1, PTL
-----------------------------------------------------------------------------
(* The captcha server *)

(* Until the server waits nothing was posted; while it waits the channel   *)
(* has the first token, if any came.  A token that was taken is the first  *)
(* one, whatever callbacks came later, and is what is returned.            *)
ServerInv ==
    /\ req \in [Requests -> {"unsent", "proxying", "callback", "served"}]
    /\ \A r \in Requests : req[r] = "callback" => r \in Callbacks
    /\ posted \in Seq(Callbacks)
    /\ spc \in {"off", "start", "stdin"} => req = Unsent /\ posted = <<>>
    /\ spc = "wait" =>
          IF posted = <<>> THEN tokenChan = Empty ELSE tokenChan = posted[1]
    /\ spc # "returned" => result = Empty
    /\ tokenChan = Empty \/ \E i \in 1..Len(posted) : tokenChan = posted[i]
    /\ token = Empty \/ (posted # <<>> /\ token = posted[1])
    /\ result \in {Empty, Typed, token}

(* What Append does to the first element and to the others. *)
LEMMA AppendKeeps ==
    ASSUME NEW S, NEW q \in Seq(S), NEW x \in S
    PROVE  /\ Append(q, x) \in Seq(S) /\ Append(q, x) # <<>>
           /\ Len(Append(q, x)) = Len(q) + 1 /\ Append(q, x)[Len(q) + 1] = x
           /\ \A i \in 1..Len(q) : i \in 1..Len(Append(q, x)) /\ Append(q, x)[i] = q[i]
           /\ q = <<>> => Append(q, x)[1] = x
           /\ q # <<>> => Append(q, x)[1] = q[1]
  OBVIOUS

(* Every solve begins with a server and a channel of its own. *)
LEMMA OpenStep ==
    ASSUME NEW now \in {"off", "start"}, Open(now)
    PROVE  ServerInv'
  BY CaptchaServerAssumption DEF Open, ServerInv, Unsent

(* The steps of the solver. *)
LEMMA SolverKeeps ==
    ASSUME ServerInv, SolverStep \/ TypeLine
    PROVE  ServerInv'
<1> USE CaptchaServerAssumption DEF ServerInv, solveVars
<1>1. CASE Serve
  BY <1>1 DEF Serve
<1>2. CASE FallBack
  BY <1>2 DEF FallBack
<1>3. CASE StdinTimeout
  BY <1>3 DEF StdinTimeout
<1>4. CASE TakeToken
  BY <1>4 DEF TakeToken
<1>5. CASE Timeout
  BY <1>5 DEF Timeout
<1>6. CASE Return
  BY <1>6 DEF Return
<1>7. CASE TypeLine
  BY <1>7 DEF TypeLine
<1>8. QED
  BY <1>1, <1>2, <1>3, <1>4, <1>5, <1>6, <1>7 DEF SolverStep

(* The handlers, also those that post after the solver has its token. *)
LEMMA HandlerKeeps ==
    ASSUME ServerInv, NEW r \in Requests, HandlerStep(r)
    PROVE  ServerInv'
<1> USE CaptchaServerAssumption
<1>1. CASE Accept(r) \/ Proxied(r)
  BY <1>1 DEF Accept, Proxied, ServerInv, Unsent
<1>2. CASE Post(r)
  <2>1. r \in Callbacks /\ posted \in Seq(Callbacks) /\ spc \notin {"off", "start", "stdin"}
    BY <1>2 DEF Post, ServerInv, Unsent
  <2>2. posted' = Append(posted, r)
    BY <1>2 DEF Post
  <2>3. posted' # <<>> /\ posted' \in Seq(Callbacks)
    BY <2>1, <2>2, AppendKeeps
  <2>4. posted # <<>> => posted'[1] = posted[1]
    BY <2>1, <2>2, AppendKeeps
  <2>5. tokenChan' = Empty \/ \E i \in 1..Len(posted') : tokenChan' = posted'[i]
    <3>1. CASE tokenChan = Empty
      <4>1. tokenChan' = r
        BY <1>2, <3>1 DEF Post
      <4>2. Len(posted) + 1 \in 1..Len(posted') /\ posted'[Len(posted) + 1] = r
        BY <2>1, <2>2, AppendKeeps
      <4>3. QED
        BY <4>1, <4>2
    <3>2. CASE tokenChan # Empty
      <4>1. PICK i \in 1..Len(posted) : tokenChan = posted[i]
        BY <3>2 DEF ServerInv
      <4>2. i \in 1..Len(posted') /\ posted'[i] = posted[i]
        BY <2>1, <2>2, AppendKeeps
      <4>3. QED
        BY <1>2, <3>2, <4>1, <4>2 DEF Post
    <3>3. QED
      BY <3>1, <3>2
  <2>6. spc' = "wait" => tokenChan' = posted'[1]
    <3>1. CASE posted = <<>>
      BY <1>2, <2>1, <2>2, <3>1, AppendKeeps DEF Post, ServerInv
    <3>2. CASE posted # <<>>
      <4>1. SUFFICES ASSUME spc = "wait"
                     PROVE  tokenChan' = posted[1]
        BY <1>2, <2>4, <3>2 DEF Post
      <4>2. tokenChan = posted[1] /\ posted[1] \in Callbacks
        BY <2>1, <3>2, <4>1 DEF ServerInv
      <4>3. QED
        BY <1>2, <4>2 DEF Post
    <3>3. QED
      BY <3>1, <3>2
  <2>7. token' = Empty \/ token' = posted'[1]
    BY <1>2, <2>4 DEF Post, ServerInv
  <2>8. QED
    BY <1>2, <2>1, <2>3, <2>5, <2>6, <2>7 DEF Post, ServerInv
<1>3. QED
  BY <1>1, <1>2 DEF HandlerStep

(* The invariant of the captcha server holds throughout. *)
THEOREM ServerInvariant == Spec => []ServerInv
<1>1. Init => ServerInv
  BY CaptchaServerAssumption DEF Init, ServerInit, ServerInv, Unsent
<1>2. ServerInv /\ [Next]_vars => ServerInv'
  <2> SUFFICES ASSUME ServerInv, [Next]_vars
               PROVE  ServerInv'
    OBVIOUS
  <2>1. ASSUME UNCHANGED serverVars
        PROVE  ServerInv'
    BY <2>1 DEF ServerInv, serverVars, solveVars
  <2>2. ASSUME NEW s \in Streams, VkFetch(s)
        PROVE  ServerInv'
    BY <2>1, <2>2, OpenStep DEF VkFetch, OpenBrowser, BrowserSolved, BrowserFailed
  <2>3. ASSUME NEW s \in Streams, Fetch(s) \/ Receive(s) \/ Lock(s) \/ Between(s) \/ Lost(s)
        PROVE  ServerInv'
    BY <2>1, <2>2, <2>3 DEF Fetch, Receive, Lock, Between, Lost
  <2>4. CASE Browse(SolverStep \/ TypeLine)
    BY <2>4, SolverKeeps DEF Browse
  <2>5. ASSUME NEW r \in Requests, Browse(HandlerStep(r))
        PROVE  ServerInv'
    BY <2>5, HandlerKeeps DEF Browse
  <2>6. CASE (Cancel \/ Tick) /\ UNCHANGED <<chainVars, wbVars, serverVars, mode>>
    BY <2>1, <2>6
  <2>7. CASE UNCHANGED vars
    BY <2>1, <2>7 DEF vars
  <2>8. QED
    BY <2>3, <2>4, <2>5, <2>6, <2>7 DEF Next
<1>3. QED
  BY <1>1, <1>2, PTL DEF Spec

(* However many callbacks the page fires, and whether they come before the *)
(* solver has read the first one, during the shutdown or never, the solver *)
(* returns the first token or none.                                        *)
THEOREM FirstTokenWinsAlways == Spec => []FirstTokenWins
<1>1. ServerInv => FirstTokenWins
  <2> SUFFICES ASSUME ServerInv
               PROVE  FirstTokenWins
    OBVIOUS
  <2>1. result \in Callbacks => result = posted[1]
    BY CaptchaServerAssumption DEF ServerInv
  <2>2. tokenChan = Empty \/ tokenChan \in {posted[i] : i \in 1..Len(posted)}
    BY DEF ServerInv
  <2>3. token = Empty \/ token \in {posted[i] : i \in 1..Len(posted)}
    <3>1. posted # <<>> => 1 \in 1..Len(posted)
      BY DEF ServerInv
    <3>2. QED
      BY <3>1 DEF ServerInv
  <2>4. result \in {Empty, Typed, token}
    BY DEF ServerInv
  <2>5. QED
    BY <2>1, <2>2, <2>3, <2>4 DEF FirstTokenWins
<1>2. QED
  BY ServerInvariant, <1>1, PTL

-----------------------------------------------------------------------------
(* The reader of protobuf messages *)

(* A set of numbers that is not empty has a least one: induction over the  *)
(* length of something, without an operator parameter.                     *)
LEMMA LeastNumber ==
    ASSUME NEW T, T \subseteq Nat, T # {}
    PROVE  \E n \in T : \A m \in T : n <= m
<1> DEFINE R == {ss \in Nat \X Nat : ss[1] < ss[2]}
<1>1. IsWellFoundedOn(R, Nat)
  BY NatLessThanWellFounded, Zenon DEF OpToRel
<1>2. PICK n \in T : \A m \in T : ~(<<m, n>> \in R)
  <2> HIDE DEF R
  <2>1. QED
    BY <1>1, WFMin
<1>3. ASSUME NEW m \in T
      PROVE  n <= m
  <2>1. m \in Nat /\ n \in Nat
    OBVIOUS
  <2>2. m < n => <<m, n>> \in R
    BY <2>1
  <2>3. ~(m < n)
    BY <1>2, <2>2
  <2>4. QED
    BY <2>1, <2>3
<1>4. QED
  BY <1>3

(* The value of a varint is a number: its recursion over the groups is     *)
(* well founded, and every group is a number.                              *)
LEMMA VarintValue ==
    ASSUME NEW d \in Seq(0..255), NEW o \in Nat, NEW n \in Nat, o + n <= Len(d)
    PROVE  LET value[k \in 0..n] ==
                   IF k = 0 THEN 0 ELSE (d[o + n - k + 1] % 128) + 128 * value[k - 1]
           IN  value[n] \in Int
<1> DEFINE group(k) == d[o + n - k + 1] % 128
           Computes(f, l) == f = [k \in 0..l |-> IF k = 0 THEN 0 ELSE group(k) + 128 * f[k - 1]]
           T == {l \in 0..n : ~\E f : Computes(f, l)}
<1>1. \A k \in 1..n : group(k) \in Int
  <2>1. ASSUME NEW k \in 1..n
        PROVE  group(k) \in Int
    <3>1. o + n - k + 1 \in 1..Len(d)
      OBVIOUS
    <3>2. d[o + n - k + 1] \in 0..255
      <4>1. \A S : \A s \in Seq(S) : \A j \in 1..Len(s) : s[j] \in S
        OBVIOUS
      <4>2. QED
        BY <3>1, <4>1, Zenon
    <3>3. \A b \in 0..255 : b % 128 \in Int
      OBVIOUS
    <3>4. QED
      BY <3>2, <3>3
  <2>2. QED
    BY <2>1
<1> HIDE DEF group
<1>2. T = {}
  <2>1. SUFFICES ASSUME T # {}
                 PROVE  FALSE
    OBVIOUS
  <2>2. T \subseteq Nat
    OBVIOUS
  <2>3. PICK l \in T : \A m \in T : l <= m
    <3> HIDE DEF T
    <3>1. QED
      BY <2>1, <2>2, LeastNumber
  <2>4. l \in 0..n /\ ~\E f : Computes(f, l)
    BY <2>3
  <2>5. l # 0
    <3> DEFINE f == [k \in 0..0 |-> 0]
    <3>1. Computes(f, 0)
      OBVIOUS
    <3> HIDE DEF f
    <3>2. QED
      BY <2>4, <3>1
  <2>6. l - 1 \in 0..n /\ l - 1 \notin T
    <3>1. l - 1 \in 0..n
      BY <2>4, <2>5
    <3> HIDE DEF T
    <3>2. QED
      BY <2>2, <2>3, <3>1
  <2>7. PICK g : Computes(g, l - 1)
    BY <2>6
  <2> HIDE DEF T
  <2> DEFINE f == [k \in 0..l |-> IF k = l THEN group(l) + 128 * g[l - 1] ELSE g[k]]
  <2>8. \A k \in 0..(l - 1) : g[k] = IF k = 0 THEN 0 ELSE group(k) + 128 * g[k - 1]
    BY <2>7
  <2>9. ASSUME NEW k \in 0..l
        PROVE  f[k] = IF k = 0 THEN 0 ELSE group(k) + 128 * f[k - 1]
    <3>1. CASE k = 0
      BY <2>4, <2>5, <2>8, <3>1
    <3>2. CASE k # 0
      <4>1. f[k - 1] = g[k - 1]
        BY <2>4, <3>2
      <4>2. f[k] = group(k) + 128 * g[k - 1]
        BY <2>4, <2>8, <3>2
      <4>3. QED
        BY <3>2, <4>1, <4>2
    <3>3. QED
      BY <3>1, <3>2
  <2>10. Computes(f, l)
    BY <2>9
  <2>11. QED
    BY <2>4, <2>10
<1> DEFINE value[k \in 0..n] == IF k = 0 THEN 0 ELSE group(k) + 128 * value[k - 1]
<1>3. value[n] \in Int
  <2>1. \E f : Computes(f, n)
    <3>1. n \in 0..n
      OBVIOUS
    <3>2. QED
      BY <1>2, <3>1
  <2>2. Computes(value, n)
    BY <2>1
  <2> HIDE DEF value
  <2>3. \A k \in 0..n : value[k] = IF k = 0 THEN 0 ELSE group(k) + 128 * value[k - 1]
    BY <2>2
  <2> DEFINE U == {k \in 0..n : value[k] \notin Int}
  <2>4. U = {}
    <3>1. SUFFICES ASSUME U # {}
                   PROVE  FALSE
      OBVIOUS
    <3>2. U \subseteq Nat
      OBVIOUS
    <3>3. PICK k \in U : \A m \in U : k <= m
      <4> HIDE DEF U
      <4>1. QED
        BY <3>1, <3>2, LeastNumber
    <3>4. k \in 0..n /\ value[k] \notin Int
      BY <3>3
    <3>5. k # 0
      BY <2>3, <3>4
    <3>6. k \in 1..n /\ k - 1 \in 0..n
      BY <3>4, <3>5
    <3>7. value[k - 1] \in Int
      BY <3>3, <3>6
    <3> HIDE DEF U
    <3>8. value[k] = group(k) + 128 * value[k - 1] /\ group(k) \in Int
      BY <1>1, <2>3, <3>5, <3>6
    <3>9. QED
      BY <3>4, <3>7, <3>8
  <2>5. QED
    BY <2>4
<1>4. QED
  BY <1>3 DEF group

(* A varint that is read inside a message ends after its first byte or     *)
(* later, and not past the end of the message; its value is a number.      *)
LEMMA VarintEnds ==
    ASSUME NEW d \in Seq(0..255), NEW o \in 0..Len(d)
    PROVE  /\ wbPbVar(d, o).o \in o..Len(d)
           /\ o < Len(d) => wbPbVar(d, o).o > o
           /\ wbPbVar(d, o).v \in Int
<1> DEFINE most == (Word + 6) \div 7
           left == Len(d) - o
           groups == Max({0, Min({most, left})})
           last == {n \in 1..groups : d[o + n] < 128}
<1>1. most \in Nat \ {0} /\ left \in Nat /\ Len(d) \in Nat
  BY WbProtoAssumption
<1>2. wbPbVar(d, o) = VarintUpTo(d, o, groups, last)
  BY DEF wbPbVar
<1>3. groups \in 0..left /\ (left > 0 => groups > 0)
  <2> HIDE DEF most, left
  <2>1. Min({most, left}) = IF most <= left THEN most ELSE left
    BY <1>1 DEF Min
  <2> DEFINE m == Min({most, left})
  <2>2. m \in 0..left /\ (left > 0 => m > 0)
    BY <1>1, <2>1
  <2> HIDE DEF m
  <2>3. Max({0, m}) = m
    BY <1>1, <2>2 DEF Max
  <2>4. QED
    BY <2>2, <2>3 DEF m
<1> HIDE DEF groups
<1>4. CASE last = {}
  <2>1. wbPbVar(d, o) = [v |-> 0, o |-> o + groups]
    BY <1>2, <1>4 DEF VarintUpTo
  <2>2. QED
    BY <1>1, <1>3, <2>1
<1>5. CASE last # {}
  <2> DEFINE n == Min(last)
             value[k \in 0..n] ==
                 IF k = 0 THEN 0 ELSE (d[o + n - k + 1] % 128) + 128 * value[k - 1]
  <2>1. wbPbVar(d, o) = [v |-> value[n] % 2^Word, o |-> o + n]
    BY <1>2, <1>5 DEF VarintUpTo
  <2>2. n \in last
    <3>1. last \subseteq Nat
      BY <1>1, <1>3
    <3> HIDE DEF last
    <3>2. \E k \in last : \A m \in last : k <= m
      BY <1>5, <3>1, LeastNumber
    <3>3. QED
      BY <3>2 DEF Min
  <2>3. n \in 1..groups
    BY <2>2
  <2> HIDE DEF n
  <2>4. n \in Nat /\ n > 0 /\ o + n <= Len(d)
    BY <1>1, <1>3, <2>3
  <2>5. value[n] \in Int
    BY <2>4, VarintValue
  <2> HIDE DEF value
  <2>6. value[n] % 2^Word \in Int
    BY <2>5, WbProtoAssumption
  <2>7. QED
    BY <1>1, <2>1, <2>4, <2>6
<1>6. QED
  BY <1>4, <1>5

(* Every round of the loop over the fields of a message begins the next    *)
(* one further on, at most 8 bytes past the end: the guard against a       *)
(* length that overflows never lets it go back.                            *)
LEMMA ReaderAdvances ==
    ASSUME NEW d \in Seq(0..255), NEW o \in 0..(Len(d) - 1)
    PROVE  WbField(d, o).o \in (o + 1)..(Len(d) + 8)
<1> DEFINE t == wbPbVar(d, o)
           x == wbPbVar(d, t.o)
           e == Signed(x.o + Signed(x.v))
<1>1. Len(d) \in Nat /\ o \in 0..Len(d) /\ o < Len(d)
  OBVIOUS
<1>2. t.o \in Nat /\ t.o > o /\ t.o <= Len(d) /\ t.v \in Int
  BY <1>1, VarintEnds
<1> HIDE DEF t
<1>3. x.o \in Nat /\ x.o >= t.o /\ x.o <= Len(d) /\ x.v \in Int
  <2>1. t.o \in 0..Len(d)
    BY <1>1, <1>2
  <2>2. QED
    BY <1>2, <2>1, VarintEnds
<1>4. WbField(d, o) = FieldOf(d, t, x)
  BY DEF WbField, t
<1> HIDE DEF x
<1>5. e \in Int
  <2>1. \A n \in Int : Signed(n) \in Int
    BY WbProtoAssumption DEF Signed
  <2>2. Signed(x.v) \in Int
    BY <1>3, <2>1
  <2>3. x.o + Signed(x.v) \in Int
    BY <1>3, <2>2
  <2>4. QED
    BY <2>1, <2>3
<1> HIDE DEF e
<1>6. \/ WbField(d, o).o = x.o
      \/ WbField(d, o).o = t.o + 8
      \/ WbField(d, o).o = t.o + 4
      \/ WbField(d, o).o = e /\ e <= Len(d) /\ e >= x.o
      \/ WbField(d, o).o = Len(d)
  BY <1>4 DEF FieldOf, Field, e
<1>7. CASE WbField(d, o).o = e /\ e <= Len(d) /\ e >= x.o
  <2>1. e \in (o + 1)..(Len(d) + 8)
    BY <1>1, <1>2, <1>3, <1>5, <1>7
  <2>2. QED
    BY <1>7, <2>1
<1>8. ASSUME NEW n \in {x.o, t.o + 8, t.o + 4, Len(d)}
      PROVE  n \in (o + 1)..(Len(d) + 8)
  BY <1>1, <1>2, <1>3
<1>9. QED
  BY <1>6, <1>7, <1>8

(* The fields of a message are read one by one: the recursion of WbFields  *)
(* is well founded, since every round begins the next one further on.      *)
LEMMA FieldsExist ==
    ASSUME NEW d \in Seq(0..255)
    PROVE  \E f : f = [o \in 0..(Len(d) + 8) |->
                          IF o >= Len(d) THEN <<>>
                          ELSE <<WbField(d, o)>> \o f[WbField(d, o).o]]
<1> DEFINE l == Len(d)
           max == l + 8
           W(o) == WbField(d, o)
           Round(f, o) == IF o >= l THEN <<>> ELSE <<W(o)>> \o f[W(o).o]
           Computes(f, n) == f = [o \in (max - n)..max |-> Round(f, o)]
           T == {n \in 0..max : ~\E f : Computes(f, n)}
<1>1. l \in Nat /\ max \in Nat /\ max >= l
  OBVIOUS
<1>2. \A o \in 0..max : o < l => W(o).o \in (o + 1)..max
  <2>1. ASSUME NEW o \in 0..max, o < l
        PROVE  W(o).o \in (o + 1)..max
    <3>1. o \in 0..(Len(d) - 1)
      BY <1>1, <2>1
    <3>2. QED
      BY <3>1, ReaderAdvances
  <2>2. QED
    BY <2>1
<1> HIDE DEF l, max, W
<1>3. T = {}
  <2>1. SUFFICES ASSUME T # {}
                 PROVE  FALSE
    OBVIOUS
  <2>2. T \subseteq Nat
    BY <1>1
  <2>3. PICK n \in T : \A m \in T : n <= m
    <3> HIDE DEF T
    <3>1. QED
      BY <2>1, <2>2, LeastNumber
  <2>4. n \in 0..max /\ ~\E f : Computes(f, n)
    BY <2>3
  <2>5. n # 0
    <3> DEFINE f == [o \in (max - 0)..max |-> <<>>]
    <3>1. Computes(f, 0)
      BY <1>1
    <3> HIDE DEF f
    <3>2. QED
      BY <2>4, <3>1
  <2>6. n - 1 \in 0..max /\ n - 1 \notin T
    <3>1. n - 1 \in 0..max
      BY <1>1, <2>4, <2>5
    <3> HIDE DEF T
    <3>2. QED
      BY <2>2, <2>3, <3>1
  <2>7. PICK g : Computes(g, n - 1)
    BY <2>6
  <2> HIDE DEF T
  <2> DEFINE a == max - n
             f == [o \in a..max |-> IF o = a THEN Round(g, a) ELSE g[o]]
  <2>8. a \in 0..max /\ max - (n - 1) = a + 1
    BY <1>1, <2>4
  <2>9. \A o \in (a + 1)..max : g[o] = Round(g, o)
    BY <2>7, <2>8
  <2> HIDE DEF a
  <2>10. ASSUME NEW o \in a..max
         PROVE  f[o] = Round(f, o)
    <3>1. f[o] = Round(g, o)
      <4>1. CASE o = a
        BY <2>8, <4>1
      <4>2. CASE o # a
        <5>1. o \in (a + 1)..max
          BY <1>1, <2>8, <4>2
        <5>2. QED
          BY <2>9, <4>2, <5>1
      <4>3. QED
        BY <4>1, <4>2
    <3>2. CASE o >= l
      BY <3>1, <3>2
    <3>3. CASE ~(o >= l)
      <4>1. W(o).o \in (o + 1)..max /\ o \in 0..max
        BY <1>1, <1>2, <2>8, <3>3
      <4>2. W(o).o \in a..max /\ W(o).o # a
        BY <1>1, <2>8, <4>1
      <4>3. f[W(o).o] = g[W(o).o]
        BY <4>2
      <4>4. QED
        BY <3>1, <3>3, <4>3
    <3>4. QED
      BY <3>2, <3>3
  <2>11. Computes(f, n)
    BY <2>10 DEF a
  <2>12. QED
    BY <2>4, <2>11
<1>4. \E f : Computes(f, max)
  <2>1. max \in 0..max
    BY <1>1
  <2>2. QED
    BY <1>3, <2>1
<1>5. max - max = 0
  BY <1>1
<1>6. QED
  BY <1>4, <1>5 DEF l, max, W

(* The loops of wbPbAll and wbPbICE end on every sequence of bytes,        *)
(* whatever lengths it claims and however they overflow: after at most one *)
(* round per byte, each at an offset inside the message.                   *)
THEOREM ReaderEnds ==
    ASSUME NEW d \in Seq(0..255)
    PROVE  /\ WbFields(d) \in Seq({WbField(d, o) : o \in 0..(Len(d) - 1)})
           /\ Len(WbFields(d)) <= Len(d)
<1> DEFINE From[o \in 0..Len(d) + 8] ==
               IF o >= Len(d) THEN <<>>
               ELSE LET x == WbField(d, o) IN <<x>> \o From[x.o]
           S == {WbField(d, o) : o \in 0..(Len(d) - 1)}
<1>1. WbFields(d) = From[0]
  BY DEF WbFields
<1>2. From = [o \in 0..(Len(d) + 8) |->
                 IF o >= Len(d) THEN <<>> ELSE <<WbField(d, o)>> \o From[WbField(d, o).o]]
  BY FieldsExist
<1> HIDE DEF From
<1> DEFINE l == Len(d)
           max == l + 8
           W(o) == WbField(d, o)
           Good(o) == /\ From[o] \in Seq(S)
                      /\ Len(From[o]) <= IF o >= l THEN 0 ELSE l - o
           T == {n \in 0..max : ~Good(max - n)}
<1>3. l \in Nat /\ max \in Nat /\ max >= l
  OBVIOUS
<1>4. \A o \in 0..max : o < l => W(o) \in S /\ W(o).o \in Int /\ W(o).o > o /\ W(o).o <= max
  <2>1. ASSUME NEW o \in 0..max, o < l
        PROVE  W(o) \in S /\ W(o).o \in Int /\ W(o).o > o /\ W(o).o <= max
    <3>1. o \in 0..(Len(d) - 1)
      BY <1>3, <2>1
    <3>2. W(o).o \in (o + 1)..(Len(d) + 8)
      BY <3>1, ReaderAdvances
    <3>3. QED
      BY <1>3, <3>1, <3>2
  <2>2. QED
    BY <2>1
<1>5. \A o \in 0..max : From[o] = IF o >= l THEN <<>> ELSE <<W(o)>> \o From[W(o).o]
  BY <1>2
<1> HIDE DEF l, max, W, S
<1>6. T = {}
  <2>1. SUFFICES ASSUME T # {}
                 PROVE  FALSE
    OBVIOUS
  <2>2. T \subseteq Nat
    BY <1>3
  <2>3. PICK n \in T : \A m \in T : n <= m
    <3> HIDE DEF T
    <3>1. QED
      BY <2>1, <2>2, LeastNumber
  <2> DEFINE o == max - n
  <2>4. n \in 0..max /\ o \in 0..max /\ ~Good(o)
    BY <1>3, <2>3
  <2>5. ASSUME NEW q \in 0..max, q > o
        PROVE  Good(q)
    <3>1. max - q \in 0..max /\ max - q < n /\ max - (max - q) = q
      BY <1>3, <2>4, <2>5
    <3>2. max - q \notin T
      <4> HIDE DEF T
      <4>1. QED
        BY <2>2, <2>3, <3>1
    <3>3. Good(max - (max - q))
      BY <3>1, <3>2
    <3> HIDE DEF T, Good
    <3>4. QED
      BY <3>1, <3>3
  <2> HIDE DEF T, o
  <2>6. CASE o >= l
    <3>1. From[o] = <<>>
      BY <1>5, <2>4, <2>6
    <3>2. <<>> \in Seq(S) /\ Len(<<>>) = 0
      OBVIOUS
    <3>3. QED
      BY <2>4, <2>6, <3>1, <3>2
  <2>7. CASE ~(o >= l)
    <3> DEFINE q == W(o).o
               later == From[q]
    <3>1. W(o) \in S /\ q \in 0..max /\ q > o /\ o < l
      BY <1>3, <1>4, <2>4, <2>7
    <3>2. From[o] = <<W(o)>> \o later
      BY <1>5, <2>4, <2>7
    <3>3. later \in Seq(S) /\ Len(later) <= IF q >= l THEN 0 ELSE l - q
      BY <2>5, <3>1
    <3> HIDE DEF q, later
    <3>4. From[o] \in Seq(S) /\ Len(From[o]) = 1 + Len(later) /\ Len(later) \in Nat
      BY <3>1, <3>2, <3>3
    <3>5. Len(From[o]) <= l - o
      BY <1>3, <2>4, <3>1, <3>3, <3>4
    <3>6. QED
      BY <2>4, <2>7, <3>4, <3>5
  <2>8. QED
    BY <2>6, <2>7
<1>7. Good(0)
  <2>1. max \in 0..max /\ max - max = 0
    BY <1>3
  <2>2. Good(max - max)
    BY <1>6, <2>1
  <2> HIDE DEF T, Good
  <2>3. QED
    BY <2>1, <2>2
<1>8. QED
  BY <1>1, <1>3, <1>7 DEF l, S
=============================================================================
