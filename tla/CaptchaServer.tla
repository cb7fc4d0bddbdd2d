--------------------------- MODULE CaptchaServer ---------------------------
(***************************************************************************)
(* The manual captcha solver: SolveCaptchaWithProxy of                     *)
(* internal/core/captcha_server.go, with its fallback                      *)
(* SolveCaptchaBrowserStdin of browser.go.  The solver serves a local      *)
(* proxy to the browser, waits for the first success token posted to it or *)
(* for 180 s, shuts the server down and returns.                           *)
(*                                                                         *)
(* A request of the browser is proxied to VK or is a callback with a       *)
(* token; a handler goroutine runs each.  net/http is external: Shutdown   *)
(* closes the listener and waits until no handler is active.  A solve that *)
(* times out at the terminal leaves its Scanln behind, which still reads   *)
(* the next line before any later solve's can.                             *)
(***************************************************************************)
EXTENDS Naturals, Sequences

CONSTANTS Requests,     \* the requests the browser may send
          Callbacks,    \* those of them that post a token (named by the request)
          Empty,        \* no token: the empty string
          Typed,        \* a token typed at the terminal
          MaxScanning   \* bound on the Scanln goroutines left behind

ASSUME CaptchaServerAssumption ==
    /\ Callbacks \subseteq Requests
    /\ Empty \notin Requests /\ Typed \notin Requests \cup {Empty}
    /\ MaxScanning \in Nat

VARIABLES spc,          \* where the solver is
          req,          \* request -> where its handler is
          tokenChan,    \* the buffered channel of one token
          token,        \* the token the solver took, or Empty
          posted,       \* the callbacks' tokens in the order they came (history)
          result,       \* what the solver returned
          scanning      \* Scanln goroutines left behind

solveVars == <<req, tokenChan, token, posted, result>>
serverVars == <<spc, solveVars, scanning>>

Unsent == [r \in Requests |-> "unsent"]

ServerInit ==
    /\ spc = "off" /\ scanning = 0
    /\ req = Unsent
    /\ tokenChan = Empty /\ token = Empty /\ posted = <<>> /\ result = Empty

(* RequestCaptchaCallback is called, and has returned: each solve has a    *)
(* server and a channel of its own.                                        *)
Open(now) ==
    /\ spc' = now
    /\ req' = Unsent
    /\ tokenChan' = Empty /\ token' = Empty /\ posted' = <<>> /\ result' = Empty
    /\ UNCHANGED scanning

-----------------------------------------------------------------------------
(* The solver *)

(* The address parses and a port is free: the server runs, and the browser *)
(* is opened.                                                              *)
Serve ==
    /\ spc = "start"
    /\ spc' = "wait"
    /\ UNCHANGED <<solveVars, scanning>>

(* Otherwise a token is asked for at the terminal for 120 s. *)
FallBack ==
    /\ spc = "start"
    /\ spc' = "stdin"
    /\ UNCHANGED <<solveVars, scanning>>

(* A line is typed; the Scanln that has waited longest gets it, and what   *)
(* one left behind reads is lost.  An empty line is no token.              *)
TypeLine ==
    \/ /\ scanning > 0
       /\ scanning' = scanning - 1
       /\ UNCHANGED <<spc, solveVars>>
    \/ /\ scanning = 0 /\ spc = "stdin"
       /\ result' \in {Empty, Typed}
       /\ spc' = "returned"
       /\ UNCHANGED <<req, tokenChan, token, posted, scanning>>

StdinTimeout ==
    /\ spc = "stdin"
    /\ spc' = "returned"
    /\ scanning' = IF scanning < MaxScanning THEN scanning + 1 ELSE scanning
    /\ UNCHANGED solveVars

(* The select: a token, or the timeout. *)
TakeToken ==
    /\ spc = "wait" /\ tokenChan # Empty
    /\ token' = tokenChan
    /\ tokenChan' = Empty
    /\ spc' = "shutdown"
    /\ UNCHANGED <<req, posted, result, scanning>>

Timeout ==
    /\ spc = "wait"
    /\ spc' = "shutdown"
    /\ UNCHANGED <<solveVars, scanning>>

Active == {r \in Requests : req[r] \in {"proxying", "callback"}}

(* server.Shutdown(context.Background()) returns, and the solver with it:  *)
(* it has no deadline and waits for every handler.                         *)
Return ==
    /\ spc = "shutdown" /\ Active = {}
    /\ result' = token
    /\ spc' = "returned"
    /\ UNCHANGED <<req, tokenChan, token, posted, scanning>>

-----------------------------------------------------------------------------
(* The handlers *)

(* The browser connects while the listener is open. *)
Accept(r) ==
    /\ spc = "wait" /\ req[r] = "unsent"
    /\ req' = [req EXCEPT ![r] = IF r \in Callbacks THEN "callback" ELSE "proxying"]
    /\ UNCHANGED <<spc, tokenChan, token, posted, result, scanning>>

(* proxy.ServeHTTP comes back (or fails), and the answer is written.  The  *)
(* transport has no timeout: whether that ever happens is up to VK.        *)
Proxied(r) ==
    /\ req[r] = "proxying"
    /\ req' = [req EXCEPT ![r] = "served"]
    /\ UNCHANGED <<spc, tokenChan, token, posted, result, scanning>>

(* Mutation: a later token takes the place of one not yet read. *)
PostLatest(r) ==
    /\ req[r] = "callback"
    /\ req' = [req EXCEPT ![r] = "served"]
    /\ tokenChan' = r
    /\ posted' = Append(posted, r)
    /\ UNCHANGED <<spc, token, result, scanning>>

(* The callback offers its token without waiting for room in the channel. *)
Post(r) ==
    /\ req[r] = "callback"
    /\ req' = [req EXCEPT ![r] = "served"]
    /\ tokenChan' = IF tokenChan = Empty THEN r ELSE tokenChan
    /\ posted' = Append(posted, r)
    /\ UNCHANGED <<spc, token, result, scanning>>

-----------------------------------------------------------------------------
SolverStep == Serve \/ FallBack \/ StdinTimeout \/ TakeToken \/ Timeout \/ Return
HandlerStep(r) == Accept(r) \/ Proxied(r) \/ Post(r)

-----------------------------------------------------------------------------
(* However many callbacks the page fires (it installs three interceptors)  *)
(* and whenever they come, the solver returns the first token or none, and *)
(* nothing it was not given.                                               *)
FirstTokenWins ==
    /\ result \in Callbacks => result = posted[1]
    /\ {tokenChan, token, result} \subseteq
          {posted[i] : i \in 1..Len(posted)} \cup {Empty, Typed}

(* browser.go:48 tells the user to paste the token and press Enter: a line *)
(* typed while the solver asks for one is the solver's answer.             *)
TypedLineCounts == [][TypeLine /\ spc = "stdin" => spc' = "returned"]_serverVars
=============================================================================
