------------------------------- MODULE VkAuth -------------------------------
(***************************************************************************)
(* The credential fetch of internal/core/vk_auth.go: FetchVkCreds runs the *)
(* request chain of getTokenChain (token 1, preview, token 2 with its      *)
(* ladder of captcha solvers, token 3, token 4).                           *)
(*                                                                         *)
(* The captcha VK answers attempt k of a fetch with is challenge k.  A     *)
(* getAnonymousToken form holds the challenge whose captcha_sid it sends   *)
(* and the challenge whose success_token it sends, or None.  The solver's  *)
(* computations are abstracted to whether they yield a token; what the     *)
(* browser rung waits for is CaptchaServer's, joined in CredFetch.         *)
(***************************************************************************)
EXTENDS FetchQueue

CONSTANTS MaxGuesses    \* bound on the slider guesses VK grants

ASSUME VkAuthAssumption == MaxGuesses \in Nat

VARIABLES attempt,      \* the loop counter of the token 2 loop
          form,         \* what the next getAnonymousToken request sends
          guesses,      \* slider guesses the solver has left
          lateSolves    \* solves begun after the cancel (history, capped at 2)

chainVars == <<attempt, form, guesses, lateSolves>>

Fallible == {"pow", "api", "slider", "recheck", "guess", "browser"}
Solving == Fallible \cup {"register", "page", "content"}
Challenges == 0..4
EmptyForm == [sid |-> None, token |-> None]

VkInit ==
    /\ attempt = 0 /\ form = EmptyForm /\ guesses = 0
    /\ lateSolves = 0

(* FetchVkCreds begins with a form of its own. *)
VkStart(s) ==
    /\ LockFetch(s, "token1")
    /\ attempt' = 0 /\ form' = EmptyForm /\ guesses' = 0
    /\ UNCHANGED lateSolves

-----------------------------------------------------------------------------
(* getTokenChain *)

(* A good answer to the first request moves on. *)
Token1(s) ==
    /\ Move(s, "token1", "preview") /\ Answered
    /\ UNCHANGED chainVars

(* The preview is optional: its answer and its error are both passed over. *)
Preview(s) ==
    /\ Move(s, "preview", "token2")
    /\ UNCHANGED chainVars

Token3(s) ==
    /\ Move(s, "token3", "token4") /\ Answered
    /\ UNCHANGED chainVars

(* The TURN credentials arrive; the 5 s delay that follows ignores ctx. *)
Token4(s) ==
    /\ Move(s, "token4", "delay") /\ Answered
    /\ UNCHANGED chainVars

Fetched(s) ==
    /\ FetchEndsWell(s, "delay")
    /\ UNCHANGED chainVars

(* A request fails, or its answer is an error or malformed. *)
RequestFails(s) ==
    /\ pc[s] \in {"token1", "token2", "token3", "token4"}
    /\ FetchFails(s)
    /\ UNCHANGED chainVars

Token2(s) ==
    /\ Move(s, "token2", "token3") /\ Answered
    /\ UNCHANGED chainVars

(* VK answers getAnonymousToken with a captcha error that has a session.   *)
Captcha(s) ==
    /\ Move(s, "token2", "captcha") /\ Answered
    /\ UNCHANGED chainVars

-----------------------------------------------------------------------------
(* The ladder of solvers *)

(* captchaSolveModeForAttempt with both the manual and the slider solver   *)
(* enabled, as getTokenChain calls it; None when no mode is left.          *)
SolveMode(n) ==
    CASE n \in {0, 2} -> "slider"
      [] n \in {1, 3} -> "auto"
      [] n = 4        -> "manual"
      [] OTHER        -> None

NoMode(s) ==
    /\ pc[s] = "captcha" /\ SolveMode(attempt) = None
    /\ GiveUp(s)
    /\ UNCHANGED chainVars

StartSolve(s) ==
    /\ SolveMode(attempt) # None
    /\ Move(s, "captcha", IF SolveMode(attempt) = "manual" THEN "browser" ELSE "register")
    /\ lateSolves' = IF cancelled /\ lateSolves < 2 THEN lateSolves + 1 ELSE lateSolves
    /\ UNCHANGED <<attempt, form, guesses>>

(* solveVkCaptcha: the fingerprint is registered, or not. *)
Register(s) ==
    /\ Move(s, "register", "page")
    /\ UNCHANGED chainVars

Solver == IF SolveMode(attempt) = "slider" THEN "slider" ELSE "api"

(* The captcha page brings the input of the proof of work; without the     *)
(* page the API is called without a proof.                                 *)
Bootstrap(s) ==
    /\ \/ Move(s, "page", "pow") /\ Answered
       \/ Move(s, "page", Solver)
    /\ UNCHANGED chainVars

SolvePoW(s) ==
    /\ Move(s, "pow", Solver)
    /\ UNCHANGED chainVars

(* The slider solver's first check, as of a checkbox, is refused. *)
CheckRefused(s) ==
    /\ Move(s, "slider", "content") /\ Answered
    /\ UNCHANGED chainVars

(* The slider image, with a budget of guesses, or else a second check.     *)
SliderContent(s) ==
    /\ \/ Move(s, "content", "guess") /\ Answered /\ guesses' \in 0..MaxGuesses
       \/ Move(s, "content", "recheck") /\ UNCHANGED guesses
    /\ UNCHANGED <<attempt, form, lateSolves>>

(* A guess that is neither right nor the end (ERROR_LIMIT). *)
WrongGuess(s) ==
    /\ pc[s] = "guess" /\ guesses > 0 /\ Answered
    /\ guesses' = guesses - 1
    /\ UNCHANGED <<queueVars, attempt, form, lateSolves>>

(* Mutation: a failed solve already stores the new captcha_sid. *)
SolveFailsNewSid(s) ==
    \/ /\ SolveMode(attempt + 1) # None
       /\ \E at \in Fallible : Move(s, at, "token2")
       /\ attempt' = attempt + 1 /\ form' = [form EXCEPT !.sid = attempt] /\ guesses' = 0
       /\ UNCHANGED lateSolves
    \/ /\ SolveMode(attempt + 1) = None /\ pc[s] \in Fallible
       /\ GiveUp(s)
       /\ UNCHANGED chainVars

(* Mutation: the repeated request does not count as an attempt. *)
SolveFailsUncounted(s) ==
    /\ \E at \in Fallible : Move(s, at, "token2")
    /\ UNCHANGED chainVars

(* A solve fails: the next rung is tried by repeating the request with the *)
(* form as it is; without a next rung the fetch gives up.                  *)
SolveFails(s) ==
    \/ /\ SolveMode(attempt + 1) # None
       /\ \E at \in Fallible : Move(s, at, "token2")
       /\ attempt' = attempt + 1 /\ guesses' = 0
       /\ UNCHANGED <<form, lateSolves>>
    \/ /\ SolveMode(attempt + 1) = None /\ pc[s] \in Fallible
       /\ GiveUp(s)
       /\ UNCHANGED chainVars

(* A success token goes into the form, with the sid of its challenge, and  *)
(* the request is repeated.                                                *)
SendToken(s, from) ==
    /\ Move(s, from, "token2")
    /\ form' = [sid |-> attempt, token |-> attempt]
    /\ attempt' = attempt + 1 /\ guesses' = 0
    /\ UNCHANGED lateSolves

(* Both automatic solvers need answers to their requests; the browser      *)
(* callback takes no context.                                              *)
NotRobotSolves(s) == Answered /\ SendToken(s, "api")
SliderSolves(s) ==
    /\ Answered
    /\ \/ SendToken(s, "slider") \/ SendToken(s, "recheck")
       \/ guesses > 0 /\ SendToken(s, "guess")
BrowserSolves(s) == SendToken(s, "browser")

-----------------------------------------------------------------------------
(* The fetch but for the steps that open the browser or come from it. *)
Unsolved(s) == SolveFails(s) /\ pc[s] # "browser"

FetchVkCreds(s) ==
    \/ Token1(s) \/ Preview(s) \/ Token2(s) \/ Captcha(s) \/ Token3(s) \/ Token4(s)
    \/ Fetched(s) \/ RequestFails(s)
    \/ NoMode(s) \/ Register(s) \/ Bootstrap(s) \/ SolvePoW(s)
    \/ CheckRefused(s) \/ SliderContent(s) \/ WrongGuess(s) \/ Unsolved(s)
    \/ NotRobotSolves(s) \/ SliderSolves(s)

-----------------------------------------------------------------------------
(* The type of the chain's state. *)
VkTypeOK ==
    /\ attempt \in 0..5
    /\ form \in [sid : Challenges \cup {None}, token : Challenges \cup {None}]
    /\ guesses \in 0..MaxGuesses

(* After the proxy is stopped all streams together begin at most one more  *)
(* captcha, the one whose challenge had already arrived: neither a queued  *)
(* stream nor the next rung of the ladder starts another.                  *)
OneLateSolve == lateSolves <= 1

(* Whatever solves failed in between, a getAnonymousToken request carries  *)
(* a success_token together with the captcha_sid of the challenge that was *)
(* solved to get it, and the challenge is one this fetch really solved.    *)
TokenMatchesSid ==
    \A s \in Streams :
        pc[s] = "token2" => /\ form.token = form.sid
                            /\ form.token # None => form.token < attempt

(* The comment at turn_client.go:105-108 says that rapid retries hammer    *)
(* the captcha API and that the code backs off explicitly: once a fetch    *)
(* gave up on the captchas, no stream works on one during the long pause.  *)
SharedBackoff ==
    (\E s \in Streams : rest[s] > 0) => \A s \in Streams : pc[s] \notin Solving
=============================================================================
