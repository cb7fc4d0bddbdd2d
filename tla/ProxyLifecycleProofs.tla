------------------------ MODULE ProxyLifecycleProofs ------------------------
(***************************************************************************)
(* Proofs about starting and stopping the proxy, for any number of calls   *)
(* of handleStart and any wrap keys and modes.  That the only generation   *)
(* alive is the one a stop will find rests on the section under turnMutex, *)
(* which cancels one context and installs the next in one step.  That the  *)
(* status page is right without overlapping calls needs more: which        *)
(* failures can be met at all while nobody cancels the start under way.    *)
(***************************************************************************)
EXTENDS ProxyLifecycle, TLAPS

Active(g) == st[g] \notin {"new", "done"}

(* Contexts are cancelled once they are installed, and the one that is     *)
(* installed now has not been cancelled.                                   *)
ContextInv ==
    /\ \A g \in cancelled : Installed(g)
    /\ current # None => Installed(current) /\ current \notin cancelled

(* Streams exist after StartStreams only. *)
NoStreamsYet ==
    \A g \in Gens : st[g] \in {"new", "given", "called", "begun", "keyed", "installed",
                               "moded", "resolved", "listening"} => g \notin streams

(* While calls do not overlap there is one call under way, its context is  *)
(* the installed one from Install on, and how its start ends says whether  *)
(* its streams run.                                                        *)
OneCallInv ==
    ~overlapped =>
        /\ \A g, h \in Gens : Active(g) /\ Active(h) => g = h
        /\ stopping => current = None /\ \A g \in Gens : ~Active(g)
        /\ \A g \in Gens : Active(g) /\ Installed(g) => current = g
        /\ \A g \in Gens : st[g] \in {"waiting", "ok"} => g \in streams
        /\ \A g \in Gens : st[g] = "failed" => g \notin streams

LifecycleInv ==
    /\ TypeOK
    /\ LiveIsCurrent
    /\ ContextInv
    /\ NoStreamsYet
    /\ OneCallInv
    /\ SequentialStatus
-----------------------------------------------------------------------------
(* Before the first start nothing is installed and nothing runs. *)
LEMMA LifecycleInit == Init => LifecycleInv
  BY LifecycleAssumption
  DEF Init, LifecycleInv, TypeOK, Stages, LiveIsCurrent, Installed, ContextInv, NoStreamsYet,
      OneCallInv, Active, SequentialStatus, Settled, Reported

(* Every step of a start, a stop or a stream keeps the types. *)
LEMMA TypeStep == TypeOK /\ [Next]_vars => TypeOK'
<1> SUFFICES ASSUME TypeOK, [Next]_vars
             PROVE  TypeOK'
  OBVIOUS
<1> USE LifecycleAssumption DEF TypeOK, Stages, Advance, vars, ctxVars, resVars, keyVars,
                                credVars, uiVars
<1>1. ASSUME NEW g \in Gens,
             SetWrapKey(g) \/ HandleStart(g) \/ StartProxy(g) \/ ReportStart(g)
      PROVE  TypeOK'
  <2>1. CASE SetWrapKey(g)
    BY <2>1 DEF SetWrapKey, Settled
  <2>2. CASE HandleStart(g)
    BY <2>2 DEF HandleStart
  <2>3. CASE StartProxy(g)
    BY <2>3 DEF StartProxy
  <2>4. CASE ReportStart(g)
    BY <2>4 DEF ReportStart
  <2>5. QED
    BY <1>1, <2>1, <2>2, <2>3, <2>4
<1>2. ASSUME NEW g \in Gens, startProxyImpl(g)
      PROVE  TypeOK'
  <2>1. CASE StoreKey(g)
    BY <2>1 DEF StoreKey
  <2>2. CASE Install(g)
    BY <2>2 DEF Install
  <2>3. CASE StoreMode(g)
    BY <2>3 DEF StoreMode
  <2>4. CASE Resolve(g) \/ ResolveFails(g)
    BY <2>4 DEF Resolve, ResolveFails
  <2>5. CASE Listen(g)
    BY <2>5 DEF Listen
  <2>6. CASE ListenFails(g) \/ CertFails(g)
    BY <2>6 DEF ListenFails, CertFails
  <2>7. CASE StartStreams(g)
    BY <2>7 DEF StartStreams
  <2>8. CASE ReturnOk(g) \/ ReturnCancelled(g)
    BY <2>8 DEF ReturnOk, ReturnCancelled
  <2>9. QED
    BY <1>2, <2>1, <2>2, <2>3, <2>4, <2>5, <2>6, <2>7, <2>8 DEF startProxyImpl
<1>3. ASSUME NEW g \in Gens,
             FetchCreds(g) \/ OpenSession(g) \/ CloseSocket(g) \/ EndStreams(g)
      PROVE  TypeOK'
  <2>1. CASE FetchCreds(g)
    BY <2>1 DEF FetchCreds
  <2>2. CASE OpenSession(g)
    BY <2>2 DEF OpenSession
  <2>3. CASE CloseSocket(g) \/ EndStreams(g)
    BY <2>3 DEF CloseSocket, EndStreams
  <2>4. QED
    BY <1>3, <2>1, <2>2, <2>3
<1>4. CASE StopProxy
  BY <1>4 DEF StopProxy, Settled
<1>5. CASE ReportStop
  BY <1>5 DEF ReportStop
<1>6. CASE UNCHANGED vars
  BY <1>6
<1>7. QED
  BY <1>1, <1>2, <1>3, <1>4, <1>5, <1>6 DEF Next

(* What the contexts and streams of all generations satisfy is kept by     *)
(* every step, overlapping or not.                                         *)
LEMMA ContextStep ==
    LifecycleInv /\ [Next]_vars => LiveIsCurrent' /\ ContextInv' /\ NoStreamsYet'
<1> DEFINE Goal == LiveIsCurrent' /\ ContextInv' /\ NoStreamsYet'
<1> SUFFICES ASSUME LifecycleInv, [Next]_vars
             PROVE  Goal
  OBVIOUS
<1> USE LifecycleAssumption
    DEF LifecycleInv, TypeOK, Stages, LiveIsCurrent, ContextInv, NoStreamsYet, Installed,
        Advance, vars, ctxVars, resVars, keyVars, credVars, uiVars
<1>1. ASSUME NEW g \in Gens,
             SetWrapKey(g) \/ HandleStart(g) \/ StartProxy(g) \/ ReportStart(g)
      PROVE  Goal
  BY <1>1 DEF SetWrapKey, HandleStart, StartProxy, ReportStart
<1>2. ASSUME NEW g \in Gens, startProxyImpl(g)
      PROVE  Goal
  <2>1. CASE StoreKey(g) \/ StoreMode(g) \/ Resolve(g) \/ ResolveFails(g)
    BY <2>1 DEF StoreKey, StoreMode, Resolve, ResolveFails
  <2>2. CASE Install(g)
    BY <2>2 DEF Install
  <2>3. CASE Listen(g) \/ ListenFails(g) \/ CertFails(g)
    BY <2>3 DEF Listen, ListenFails, CertFails
  <2>4. CASE StartStreams(g)
    BY <2>4 DEF StartStreams
  <2>5. CASE ReturnOk(g) \/ ReturnCancelled(g)
    BY <2>5 DEF ReturnOk, ReturnCancelled
  <2>6. QED
    BY <1>2, <2>1, <2>2, <2>3, <2>4, <2>5 DEF startProxyImpl
<1>3. ASSUME NEW g \in Gens,
             FetchCreds(g) \/ OpenSession(g) \/ CloseSocket(g) \/ EndStreams(g)
      PROVE  Goal
  BY <1>3 DEF FetchCreds, OpenSession, CloseSocket, EndStreams
<1>4. CASE StopProxy \/ ReportStop
  BY <1>4 DEF StopProxy, ReportStop
<1>5. CASE UNCHANGED vars
  BY <1>5
<1>6. QED
  BY <1>1, <1>2, <1>3, <1>4, <1>5 DEF Next

(* While calls do not overlap every step keeps the status page right.  A   *)
(* start that was cancelled under way (ReturnCancelled) cannot happen then *)
(* and a stream of the current proxy does not end.                         *)
LEMMA StatusStep == LifecycleInv /\ [Next]_vars => OneCallInv' /\ SequentialStatus'
<1> DEFINE Goal == OneCallInv' /\ SequentialStatus'
<1> SUFFICES ASSUME LifecycleInv, [Next]_vars, ~overlapped'
             PROVE  Goal
  BY DEF OneCallInv, SequentialStatus
<1> USE LifecycleAssumption
    DEF LifecycleInv, TypeOK, Stages, ContextInv, NoStreamsYet, Installed, Active, OneCallInv,
        SequentialStatus, Settled, Reported, Advance, vars, ctxVars, resVars, keyVars,
        credVars, uiVars
<1>1. ASSUME NEW g \in Gens,
             SetWrapKey(g) \/ HandleStart(g) \/ StartProxy(g) \/ ReportStart(g)
      PROVE  Goal
  <2>1. CASE SetWrapKey(g)
    BY <2>1 DEF SetWrapKey
  <2>2. CASE HandleStart(g)
    BY <2>2 DEF HandleStart
  <2>3. CASE StartProxy(g)
    BY <2>3 DEF StartProxy
  <2>4. CASE ReportStart(g)
    BY <2>4 DEF ReportStart
  <2>5. QED
    BY <1>1, <2>1, <2>2, <2>3, <2>4
<1>2. ASSUME NEW g \in Gens, startProxyImpl(g)
      PROVE  Goal
  <2>1. CASE StoreKey(g) \/ StoreMode(g) \/ Resolve(g) \/ ResolveFails(g)
    BY <2>1 DEF StoreKey, StoreMode, Resolve, ResolveFails
  <2>2. CASE Install(g)
    BY <2>2 DEF Install
  <2>3. CASE Listen(g) \/ ListenFails(g) \/ CertFails(g)
    BY <2>3 DEF Listen, ListenFails, CertFails
  <2>4. CASE StartStreams(g)
    BY <2>4 DEF StartStreams
  <2>5. CASE ReturnOk(g)
    BY <2>5 DEF ReturnOk
  <2>6. CASE ReturnCancelled(g)
    BY <2>6 DEF ReturnCancelled
  <2>7. QED
    BY <1>2, <2>1, <2>2, <2>3, <2>4, <2>5, <2>6 DEF startProxyImpl
<1>3. ASSUME NEW g \in Gens,
             FetchCreds(g) \/ OpenSession(g) \/ CloseSocket(g) \/ EndStreams(g)
      PROVE  Goal
  <2>1. CASE FetchCreds(g) \/ OpenSession(g) \/ CloseSocket(g)
    BY <2>1 DEF FetchCreds, OpenSession, CloseSocket
  <2>2. CASE EndStreams(g)
    BY <2>2 DEF EndStreams
  <2>3. QED
    BY <1>3, <2>1, <2>2
<1>4. CASE StopProxy
  BY <1>4 DEF StopProxy
<1>5. CASE ReportStop
  BY <1>5 DEF ReportStop
<1>6. CASE UNCHANGED vars
  BY <1>6
<1>7. QED
  BY <1>1, <1>2, <1>3, <1>4, <1>5, <1>6 DEF Next

(* The inductive invariant holds throughout. *)
THEOREM LifecycleInvariant == Spec => []LifecycleInv
<1>1. LifecycleInv /\ [Next]_vars => LifecycleInv'
  BY TypeStep, ContextStep, StatusStep DEF LifecycleInv
<1>2. QED
  BY LifecycleInit, <1>1, PTL DEF Spec

(* However starts, stops and failures interleave, a generation that was    *)
(* installed and not cancelled is the one currentTurnCancel cancels:       *)
(* StartProxy never loses track of a proxy that runs.                      *)
THEOREM LiveIsCurrentAlways == Spec => []LiveIsCurrent
<1>1. LifecycleInv => LiveIsCurrent
  BY DEF LifecycleInv
<1>2. QED
  BY LifecycleInvariant, <1>1, PTL

(* As long as handleStart and handleStop are not called during each other, *)
(* the status the web UI reports is what runs, for any number of starts    *)
(* and whichever step one of them fails in.                                *)
THEOREM SequentialStatusAlways == Spec => []SequentialStatus
<1>1. LifecycleInv => SequentialStatus
  BY DEF LifecycleInv
<1>2. QED
  BY LifecycleInvariant, <1>1, PTL
=============================================================================
