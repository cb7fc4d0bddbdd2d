----------------------------- MODULE CredFetch -----------------------------
(***************************************************************************)
(* Streams that fetch credentials: the queue at fetchMu, the fetch of the  *)
(* mode the proxy was started with (StartProxy sets it: VK by default, or  *)
(* WB) and, on the last rung of VK's ladder, the manual captcha solver,    *)
(* which the fetch waits for with fetchMu locked.                          *)
(***************************************************************************)
EXTENDS VkAuth, WbAuth, CaptchaServer

VARIABLE mode           \* "vk" or "wb"

vars == <<queueVars, chainVars, wbVars, serverVars, mode>>

Init ==
    /\ QueueInit /\ VkInit /\ WbInit /\ ServerInit
    /\ mode \in {"vk", "wb"}

-----------------------------------------------------------------------------
(* The browser rung of VK's ladder *)

OpenBrowser(s) ==
    /\ StartSolve(s)
    /\ IF pc'[s] = "browser" THEN Open("start") ELSE UNCHANGED serverVars

BrowserSolved(s) ==
    /\ spc = "returned" /\ result # Empty
    /\ BrowserSolves(s)
    /\ Open("off")

BrowserFailed(s) ==
    /\ spc = "returned" /\ result = Empty
    /\ pc[s] = "browser" /\ SolveFails(s)
    /\ Open("off")

VkFetch(s) ==
    \/ FetchVkCreds(s) /\ UNCHANGED serverVars
    \/ OpenBrowser(s) \/ BrowserSolved(s) \/ BrowserFailed(s)

-----------------------------------------------------------------------------
Lock(s) ==
    \/ mode = "vk" /\ VkStart(s) /\ UNCHANGED <<wbVars, serverVars, mode>>
    \/ mode = "wb" /\ WbStart(s) /\ UNCHANGED <<chainVars, serverVars, mode>>

Fetch(s) ==
    \/ VkFetch(s) /\ UNCHANGED <<wbVars, mode>>
    \/ wbFetch(s) /\ UNCHANGED <<chainVars, serverVars, mode>>

Receive(s) == ReadMessage(s) /\ UNCHANGED <<chainVars, serverVars, mode>>

Between(s) ==
    /\ Want(s) \/ Resume(s) \/ Leave(s)
    /\ UNCHANGED <<chainVars, wbVars, serverVars, mode>>

Lost(s) == SessionLost(s) /\ UNCHANGED <<chainVars, wbVars, serverVars, mode>>

Browse(step) == step /\ UNCHANGED <<queueVars, chainVars, wbVars, mode>>

Next ==
    \/ \E s \in Streams : Fetch(s) \/ Receive(s) \/ Lock(s) \/ Between(s) \/ Lost(s)
    \/ (Cancel \/ Tick) /\ UNCHANGED <<chainVars, wbVars, serverVars, mode>>
    \/ Browse(SolverStep \/ TypeLine)
    \/ \E r \in Requests : Browse(HandlerStep(r))
    \/ (\A s \in Streams : pc[s] = "returned") /\ UNCHANGED vars

(* The steps that look a name up: vkHosts.Resolve (VK) and hostCache's     *)
(* Resolve (WB) take locks, without a deadline, that others may never give *)
(* back (see VkHosts' ResolveReturns and DnsPersist's StopReturns).        *)
Lookups == {"token1", "preview", "token2", "token3", "token4", "dial", "parse"}
           \cup DOMAIN WbStep

(* A goroutine that can run does: once its lookup is done a request ends,  *)
(* timers fire, a read of the websocket and the waits of the solver time   *)
(* out, and fetchMu reaches every waiter in turn (a Go mutex does not      *)
(* starve).  Nothing says that a lookup or a proxied request comes back,   *)
(* or that a session ends.                                                 *)
Fairness ==
    /\ \A s \in Streams : /\ WF_vars(Fetch(s) /\ pc[s] \notin Lookups)
                          /\ WF_vars(Between(s) /\ pc[s] # "connected")
                          /\ SF_vars(Lock(s))
    /\ WF_vars(Tick /\ UNCHANGED <<chainVars, wbVars, serverVars, mode>>)
    /\ WF_vars(Browse(SolverStep))
    /\ \A r \in Requests : WF_vars(Browse(Post(r)))

Spec == Init /\ [][Next]_vars /\ Fairness

-----------------------------------------------------------------------------
LookupsReturn == \A s \in Streams : []<>(pc[s] \notin Lookups)
UpstreamAnswers == \A r \in Requests : []<>(req[r] # "proxying")

(* Every fetch ends and releases fetchMu, whatever answers come, whatever  *)
(* the solvers and the user do and whenever the proxy is stopped, provided *)
(* that no lookup of a name and no request the captcha server proxies to   *)
(* VK waits for ever: the code bounds neither.                             *)
FetchEnds ==
    LookupsReturn /\ UpstreamAnswers => \A s \in Streams : fetchMu = s ~> fetchMu # s

(* Under the same conditions stopping the proxy takes every stream out of  *)
(* fetch, queue and pause for good.  How a session ends is TurnStream's    *)
(* matter: one without DTLS may not.                                       *)
StoppedStreamsReturn ==
    LookupsReturn /\ UpstreamAnswers =>
        (cancelled ~> [](\A s \in Streams : pc[s] \in {"returned", "connected"}))

(* "Wait for token with timeout" (captcha_server.go:313): as the timeout   *)
(* suggests, a fetch ends without these conditions.                        *)
FetchAlwaysEnds == \A s \in Streams : fetchMu = s ~> fetchMu # s
=============================================================================
