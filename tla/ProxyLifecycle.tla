--------------------------- MODULE ProxyLifecycle ---------------------------
(***************************************************************************)
(* Starting and stopping the proxy: StartProxy, startProxyImpl and         *)
(* StopProxy (internal/core/turn_client.go), called by the handlers of the *)
(* web UI (internal/core/webui.go), which run in goroutines of their own.  *)
(* Every call of StartProxy is a generation with its context, its socket   *)
(* and its streams; generations overlap, because a cancelled one is only   *)
(* told to go and its socket is closed by an AfterFunc.                    *)
(*                                                                         *)
(* The wrap key and the credential function are globals that a start       *)
(* writes and the streams read whenever they open a session or fetch       *)
(* credentials, without holding a lock in between.                         *)
(***************************************************************************)
EXTENDS Naturals, FiniteSets

CONSTANTS Gens,         \* the calls of handleStart
          KeyOf,        \* KeyOf[g]: the wrap_key parameter, or NoKey
          ModeOf,       \* ModeOf[g]: the mode parameter, "vk_link" or "wb"
          Keys, NoKey, None

ASSUME LifecycleAssumption ==
    /\ KeyOf \in [Gens -> Keys \cup {NoKey}]
    /\ ModeOf \in [Gens -> {"vk_link", "wb"}]
    /\ NoKey \notin Keys
    /\ None \notin Gens

VARIABLES st,           \* st[g]: how far the start has come
          current,      \* the generation of currentTurnCancel, or None
          cancelled,    \* generations whose cancel function ran
          hooks,        \* generations whose socket has its AfterFunc registered
          sockets,      \* generations whose local socket is open
          streams,      \* generations whose streams and hub run
          okSent,       \* generations whose ok channel holds a value
          wrapKey,      \* wrapKeyBytes
          keyArg,       \* keyArg[g]: the wrapKeyStr passed to startProxyImpl
          sessionKey,   \* sessionKey[g]: keys that sessions of g were opened with
          getCreds,     \* globalGetCreds, by its mode; nil before the first start
          fetched,      \* fetched[g]: modes that streams of g fetched credentials by
          stopping,     \* handleStop is between StopProxy and SetStatus
          status,       \* the web UI's status
          overlapped    \* history: a start or stop was called during another

ctxVars == <<current, cancelled>>
resVars == <<hooks, sockets, streams, okSent>>
keyVars == <<wrapKey, keyArg, sessionKey>>
credVars == <<getCreds, fetched>>
uiVars == <<stopping, status, overlapped>>
vars == <<st, ctxVars, resVars, keyVars, credVars, uiVars>>

Stages == {"new", "given", "called", "begun", "keyed", "installed", "moded", "resolved",
           "listening", "waiting", "ok", "failed", "done"}

Init ==
    /\ st = [g \in Gens |-> "new"]
    /\ current = None /\ cancelled = {}
    /\ hooks = {} /\ sockets = {} /\ streams = {} /\ okSent = {}
    /\ wrapKey = NoKey
    /\ keyArg = [g \in Gens |-> NoKey]
    /\ sessionKey = [g \in Gens |-> {}]
    /\ getCreds = "nil"
    /\ fetched = [g \in Gens |-> {}]
    /\ stopping = FALSE
    /\ status = "stopped"
    /\ overlapped = FALSE

Advance(g, from, to) == st[g] = from /\ st' = [st EXCEPT ![g] = to]

(* Every start and stop so far has returned and has been reported. *)
Settled == ~stopping /\ \A g \in Gens : st[g] \in {"new", "done"}

-----------------------------------------------------------------------------
(* handleStart and StartProxy *)

(* SetWrapKey, if the request has a wrap key. *)
SetWrapKey(g) ==
    /\ Advance(g, "new", "given")
    /\ wrapKey' = IF KeyOf[g] = NoKey THEN wrapKey ELSE KeyOf[g]
    /\ overlapped' = (overlapped \/ ~Settled)
    /\ UNCHANGED <<ctxVars, resVars, keyArg, sessionKey, credVars, stopping, status>>

(* SetStatus("starting"), and the goroutine is started. *)
HandleStart(g) ==
    /\ Advance(g, "given", "called")
    /\ status' = "starting"
    /\ UNCHANGED <<ctxVars, resVars, keyVars, credVars, stopping, overlapped>>

(* StartProxy reads the key back. *)
StartProxy(g) ==
    /\ Advance(g, "called", "begun")
    /\ keyArg' = [keyArg EXCEPT ![g] = wrapKey]
    /\ UNCHANGED <<ctxVars, resVars, wrapKey, sessionKey, credVars, uiVars>>

(* startProxyImpl stores it, outside turnMutex. *)
StoreKey(g) ==
    /\ Advance(g, "begun", "keyed")
    /\ wrapKey' = keyArg[g]
    /\ UNCHANGED <<ctxVars, resVars, keyArg, sessionKey, credVars, uiVars>>

(* Mutation: the running generation is not cancelled. *)
InstallBeside(g) ==
    /\ Advance(g, "keyed", "installed")
    /\ current' = g
    /\ UNCHANGED <<cancelled, resVars, keyVars, credVars, uiVars>>

(* The section under turnMutex: cancel the old context, install the new. *)
Install(g) ==
    /\ Advance(g, "keyed", "installed")
    /\ cancelled' = cancelled \cup ({current} \ {None})
    /\ current' = g
    /\ UNCHANGED <<resVars, keyVars, credVars, uiVars>>

(* The credential function of the mode, after turnMutex was released. *)
StoreMode(g) ==
    /\ Advance(g, "installed", "moded")
    /\ getCreds' = ModeOf[g]
    /\ UNCHANGED <<ctxVars, resVars, keyVars, fetched, uiVars>>

(* The peer's name is looked up, with no deadline of its own. *)
Resolve(g) ==
    /\ Advance(g, "moded", "resolved")
    /\ UNCHANGED <<ctxVars, resVars, keyVars, credVars, uiVars>>

(* The peer does not resolve: -1, the context stays installed. *)
ResolveFails(g) ==
    /\ Advance(g, "moded", "failed")
    /\ UNCHANGED <<ctxVars, resVars, keyVars, credVars, uiVars>>

(* Mutation: no AfterFunc for a context that is cancelled already. *)
ListenUnlessCancelled(g) ==
    /\ Advance(g, "resolved", "listening")
    /\ sockets = {}
    /\ sockets' = {g}
    /\ hooks' = hooks \cup ({g} \ cancelled)
    /\ UNCHANGED <<ctxVars, streams, okSent, keyVars, credVars, uiVars>>

(* net.ListenPacket, and the AfterFunc that closes the socket.  All starts *)
(* use the same address, so it succeeds only once no socket is open.       *)
Listen(g) ==
    /\ Advance(g, "resolved", "listening")
    /\ sockets = {}
    /\ sockets' = {g}
    /\ hooks' = hooks \cup {g}
    /\ UNCHANGED <<ctxVars, streams, okSent, keyVars, credVars, uiVars>>

(* The port is taken, by an older socket or another program, or is refused. *)
ListenFails(g) ==
    /\ Advance(g, "resolved", "failed")
    /\ UNCHANGED <<ctxVars, resVars, keyVars, credVars, uiVars>>

(* The DTLS certificate: -1 with the socket open. *)
CertFails(g) ==
    /\ Advance(g, "listening", "failed")
    /\ UNCHANGED <<ctxVars, resVars, keyVars, credVars, uiVars>>

StartStreams(g) ==
    /\ Advance(g, "listening", "waiting")
    /\ streams' = streams \cup {g}
    /\ UNCHANGED <<ctxVars, hooks, sockets, okSent, keyVars, credVars, uiVars>>

(* A stream asks for credentials by the function of the moment. *)
FetchCreds(g) ==
    /\ g \in streams /\ g \notin cancelled
    /\ fetched' = [fetched EXCEPT ![g] = @ \cup {getCreds}]
    /\ UNCHANGED <<st, ctxVars, resVars, keyVars, getCreds, uiVars>>

(* A stream opens a session with the wrap key of the moment and reports. *)
OpenSession(g) ==
    /\ g \in streams /\ g \notin cancelled
    /\ fetched[g] # {}
    /\ sessionKey' = [sessionKey EXCEPT ![g] = @ \cup {wrapKey}]
    /\ okSent' = okSent \cup {g}
    /\ UNCHANGED <<st, ctxVars, hooks, sockets, streams, wrapKey, keyArg, credVars, uiVars>>

(* The final select; when both cases are ready either may be taken. *)
ReturnOk(g) ==
    /\ Advance(g, "waiting", "ok")
    /\ g \in okSent
    /\ UNCHANGED <<ctxVars, resVars, keyVars, credVars, uiVars>>

ReturnCancelled(g) ==
    /\ Advance(g, "waiting", "failed")
    /\ g \in cancelled
    /\ UNCHANGED <<ctxVars, resVars, keyVars, credVars, uiVars>>

(* Mutation: the return value of StartProxy is not looked at. *)
ReportRunning(g) ==
    /\ Advance(g, "ok", "done") \/ Advance(g, "failed", "done")
    /\ status' = "running"
    /\ UNCHANGED <<ctxVars, resVars, keyVars, credVars, stopping, overlapped>>

(* Back in handleStart's goroutine. *)
ReportStart(g) ==
    /\ \/ Advance(g, "ok", "done") /\ status' = "running"
       \/ Advance(g, "failed", "done") /\ status' = "error"
    /\ UNCHANGED <<ctxVars, resVars, keyVars, credVars, stopping, overlapped>>

-----------------------------------------------------------------------------
(* handleStop *)

StopProxy ==
    /\ ~stopping
    /\ cancelled' = cancelled \cup ({current} \ {None})
    /\ current' = None
    /\ stopping' = TRUE
    /\ overlapped' = (overlapped \/ ~Settled)
    /\ UNCHANGED <<st, resVars, keyVars, credVars, status>>

ReportStop ==
    /\ stopping
    /\ stopping' = FALSE
    /\ status' = "stopped"
    /\ UNCHANGED <<st, ctxVars, resVars, keyVars, credVars, overlapped>>

-----------------------------------------------------------------------------
(* A cancelled generation goes away *)

CloseSocket(g) ==
    /\ g \in cancelled /\ g \in hooks
    /\ hooks' = hooks \ {g}
    /\ sockets' = sockets \ {g}
    /\ UNCHANGED <<st, ctxVars, streams, okSent, keyVars, credVars, uiVars>>

(* Nothing hurries it: a stream may be in a fetch that waits (CredFetch),  *)
(* and one without DTLS in a read of its relay (TurnStream).               *)
EndStreams(g) ==
    /\ g \in cancelled /\ g \in streams
    /\ streams' = streams \ {g}
    /\ UNCHANGED <<st, ctxVars, hooks, sockets, okSent, keyVars, credVars, uiVars>>

startProxyImpl(g) ==
    \/ StoreKey(g) \/ Install(g) \/ StoreMode(g) \/ Resolve(g) \/ ResolveFails(g)
    \/ Listen(g) \/ ListenFails(g) \/ CertFails(g) \/ StartStreams(g)
    \/ ReturnOk(g) \/ ReturnCancelled(g)

Next ==
    \/ \E g \in Gens :
          \/ SetWrapKey(g) \/ HandleStart(g) \/ StartProxy(g) \/ startProxyImpl(g)
          \/ ReportStart(g)
          \/ FetchCreds(g) \/ OpenSession(g) \/ CloseSocket(g) \/ EndStreams(g)
    \/ StopProxy \/ ReportStop

Spec == Init /\ [][Next]_vars

(* Handlers and goroutines are scheduled and AfterFuncs run.  Neither that *)
(* the lookup of the peer's name returns nor that streams end is assumed.  *)
LiveSpec ==
    /\ Spec
    /\ WF_vars(ReportStop)
    /\ \A g \in Gens :
          /\ WF_vars(HandleStart(g) \/ StartProxy(g) \/ ReportStart(g))
          /\ WF_vars(startProxyImpl(g) /\ st[g] # "moded")
          /\ WF_vars(CloseSocket(g))
-----------------------------------------------------------------------------
(* Properties *)

(* The type of the state: only generations that exist are cancelled, hold  *)
(* a socket or run streams.                                                *)
TypeOK ==
    /\ st \in [Gens -> Stages]
    /\ current \in Gens \cup {None}
    /\ cancelled \subseteq Gens
    /\ hooks \subseteq Gens /\ sockets \subseteq Gens
    /\ streams \subseteq Gens /\ okSent \subseteq Gens
    /\ wrapKey \in Keys \cup {NoKey}
    /\ keyArg \in [Gens -> Keys \cup {NoKey}]
    /\ sessionKey \in [Gens -> SUBSET (Keys \cup {NoKey})]
    /\ getCreds \in {"vk_link", "wb", "nil"}
    /\ fetched \in [Gens -> SUBSET {"vk_link", "wb", "nil"}]
    /\ stopping \in BOOLEAN
    /\ overlapped \in BOOLEAN
    /\ status \in {"stopped", "starting", "running", "error"}

Installed(g) == st[g] \notin {"new", "given", "called", "begun", "keyed"}

(* Only the generation whose cancel function StopProxy and the next start  *)
(* will find is alive: no interleaving of starts and stops leaves a proxy  *)
(* running that nothing can stop.                                          *)
LiveIsCurrent == \A g \in Gens : Installed(g) /\ g \notin cancelled => g = current

(* A cancelled generation gives the local socket back for good, also when  *)
(* the cancel came before the socket was opened, and its call of StartProxy*)
(* returns and is reported, unless it waits in the lookup of the peer's    *)
(* name.  Its streams are TurnStream's matter: not all of them end.        *)
CancelledGoes ==
    \A g \in Gens : g \in cancelled ~> [](g \notin sockets /\ st[g] \in {"moded", "done"})

Reported == (status = "running") <=> (current # None /\ current \in streams)

(* The status page tells the truth as long as nobody calls a start or a    *)
(* stop while another is under way: what has been reported then is what    *)
(* runs, whichever of its steps a start failed in, a start in place of a   *)
(* running proxy included.                                                 *)
SequentialStatus == Settled /\ ~overlapped => Reported

(* "Returns current proxy status" (webui.go:116): the same with calls that *)
(* overlap, once all of them have been reported.                           *)
StatusIsCurrent == Settled => Reported

(* "With the given parameters": the sessions of the current proxy use the  *)
(* wrap key its start asked for.                                           *)
OwnWrapKey ==
    \A g \in Gens : KeyOf[g] # NoKey /\ g = current => sessionKey[g] \subseteq {KeyOf[g]}

(* The same for the mode: the streams of the current proxy fetch their     *)
(* credentials the way its start asked for.                                *)
OwnMode == \A g \in Gens : g = current => fetched[g] \subseteq {ModeOf[g]}
=============================================================================
