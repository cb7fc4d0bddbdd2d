---------------------------- MODULE DnsResolver ----------------------------
(***************************************************************************)
(* The cascading resolver (internal/core/resolver.go) for one domain: the  *)
(* ordered servers, the index of the last one that worked, the two caches, *)
(* and callers of Resolve (one address) and of ResolveAll (all of them,    *)
(* with VkHosts.Resolve marking DNS as failed on an error).                *)
(*                                                                         *)
(* A response is the sequence of its answer records: addresses, or CName   *)
(* for any other record.  A server may answer each query differently.      *)
(***************************************************************************)
EXTENDS Addresses

CONSTANTS Callers,
          AllCallers,   \* those that call ResolveAll; the others call Resolve
          Transports,   \* dnsServers: the transport of each, in order
          CName,        \* a record that is not an address
          Responses,    \* what a server may answer
          MaxServers,   \* maxServers of resolveWithOrderedServersAll (3)
          Enough        \* addresses that end its loop (3)

ASSUME ResolverAssumption ==
    /\ AllCallers \subseteq Callers
    /\ Transports \in Seq({"udp", "doh", "dot"}) /\ Transports # <<>>
    /\ CName \notin IPs /\ NoIP \notin IPs
    /\ Responses \subseteq Seq(IPs \cup {CName})
    /\ MaxServers \in 1..Len(Transports) /\ Enough \in Nat \ {0}

VARIABLES lastSuccessfulIndex,
          ips,          \* hostCache.ips[domain], or NoIP
          allIps,       \* hostCache.allIps[domain]
          pc,           \* where each caller is
          start,        \* startIndex of its loop
          i,            \* the loop variable
          found,        \* the addresses it has merged
          cancelled,    \* callers whose context is done
          tried,        \* the servers its call has asked (history)
          downSeen      \* a call asked every server in vain (history)

local == <<pc, start, i, found>>
resolverVars == <<lastSuccessfulIndex, ips, allIps, dnsOK, local, cancelled, tried, downSeen>>

N == Len(Transports)
Servers == 0..(N - 1)

ResolverInit ==
    /\ lastSuccessfulIndex = 0 /\ ips = NoIP /\ allIps = <<>> /\ dnsOK = TRUE
    /\ pc = [c \in Callers |-> "idle"]
    /\ start = [c \in Callers |-> 0]
    /\ i = [c \in Callers |-> 0]
    /\ found = [c \in Callers |-> <<>>]
    /\ cancelled = {}
    /\ tried = [c \in Callers |-> {}]
    /\ downSeen = FALSE

Goto(c, to) == pc' = [pc EXCEPT ![c] = to]

(* Mutation: the index stops at the last server. *)
IndexClamped(c) == IF i[c] + start[c] < N THEN i[c] + start[c] ELSE N - 1

(* idx := (i + startIndex) % len(dnsServers) *)
Index(c) == (i[c] + start[c]) % N

Transport(c) == Transports[Index(c) + 1]

(* parseDNSResponseAll: every address of an A record, once; none is an     *)
(* error.                                                                  *)
ARecords(r) == Distinct(r, {CName})

(* parseDNSResponse: the first A record. *)
FirstARecord(r) == ARecords(r)[1]

(* The addresses b adds to the ones in a (and in seen). *)
Merged(a, b) == Distinct(a \o b, {})

(* The result is kept where the caller's local variable was. *)
ReturnWith(c, s) ==
    /\ Goto(c, "returned")
    /\ found' = [found EXCEPT ![c] = s]

-----------------------------------------------------------------------------
(* ResolveAll *)

ResolveAll(c) ==
    /\ c \in AllCallers /\ pc[c] = "idle" /\ dnsOK
    /\ IF allIps # <<>>
       THEN ReturnWith(c, allIps)
       ELSE Goto(c, "all") /\ UNCHANGED found
    /\ UNCHANGED <<lastSuccessfulIndex, ips, allIps, dnsOK, start, i, cancelled, tried, downSeen>>

(* The index is read once, before the loop. *)
BeginAll(c) ==
    /\ pc[c] = "all"
    /\ start' = [start EXCEPT ![c] = lastSuccessfulIndex]
    /\ i' = [i EXCEPT ![c] = 0]
    /\ Goto(c, "loopAll")
    /\ UNCHANGED <<lastSuccessfulIndex, ips, allIps, dnsOK, found, cancelled, tried, downSeen>>

(* A query is sent; the break in the select on ctx.Done() leaves only the  *)
(* select, so under a done context the loop goes on and the dial fails.    *)
AskAll(c) ==
    /\ pc[c] = "loopAll" /\ c \notin cancelled
    /\ tried' = [tried EXCEPT ![c] = @ \cup {Index(c)}]
    /\ Goto(c, "queryAll")
    /\ UNCHANGED <<lastSuccessfulIndex, ips, allIps, dnsOK, start, i, found, cancelled, downSeen>>

(* Mutation: the loop goes on until it has enough addresses. *)
StepAllUncapped(c, s) ==
    IF Len(s) < Enough
    THEN Goto(c, "loopAll") /\ i' = [i EXCEPT ![c] = (@ + 1) % N]
    ELSE Goto(c, "saveAll") /\ UNCHANGED i

(* On to the next server, or out of the loop. *)
StepAll(c, s) ==
    IF i[c] + 1 < MaxServers /\ Len(s) < Enough
    THEN Goto(c, "loopAll") /\ i' = [i EXCEPT ![c] = @ + 1]
    ELSE Goto(c, IF s = <<>> THEN "single" ELSE "saveAll") /\ UNCHANGED i

(* Queries in flight when the context is cancelled: UDP and DoT reads only *)
(* have a deadline, a DoH request carries the context.                     *)
UDPAnswers(c) == Transport(c) = "udp"
DoHAnswers(c) == Transport(c) = "doh" /\ c \notin cancelled
DoTAnswers(c) == Transport(c) = "dot"

(* resolveAny and resolveAnyAll *)
Answers(c) == UDPAnswers(c) \/ DoHAnswers(c) \/ DoTAnswers(c)

(* Mutation: each answer takes the place of the ones before it. *)
AnsweredAllLatest(c) ==
    /\ pc[c] = "queryAll" /\ Answers(c)
    /\ \E r \in Responses :
          /\ ARecords(r) # <<>>
          /\ found' = [found EXCEPT ![c] = ARecords(r)]
          /\ StepAll(c, found'[c])
    /\ lastSuccessfulIndex' = IF found[c] = <<>> THEN Index(c) ELSE lastSuccessfulIndex
    /\ UNCHANGED <<ips, allIps, dnsOK, start, cancelled, tried, downSeen>>

AnsweredAll(c) ==
    /\ pc[c] = "queryAll" /\ Answers(c)
    /\ \E r \in Responses :
          /\ ARecords(r) # <<>>
          /\ found' = [found EXCEPT ![c] = Merged(@, ARecords(r))]
          /\ StepAll(c, found'[c])
    /\ lastSuccessfulIndex' = IF found[c] = <<>> THEN Index(c) ELSE lastSuccessfulIndex
    /\ UNCHANGED <<ips, allIps, dnsOK, start, cancelled, tried, downSeen>>

(* No answer, one without an A record, or a context that is done. *)
FailedAll(c) ==
    /\ pc[c] = "queryAll" \/ (pc[c] = "loopAll" /\ c \in cancelled)
    /\ StepAll(c, found[c])
    /\ UNCHANGED <<lastSuccessfulIndex, ips, allIps, dnsOK, start, found, cancelled, tried, downSeen>>

(* Persist.MarkDirty follows, outside the lock; it returns unless          *)
(* Persist.Stop is under way (DnsPersist).                                 *)
SaveAll(c) ==
    /\ pc[c] = "saveAll"
    /\ allIps' = found[c]
    /\ ips' = found[c][1]
    /\ Goto(c, "returned")
    /\ UNCHANGED <<lastSuccessfulIndex, dnsOK, start, i, found, cancelled, tried, downSeen>>

-----------------------------------------------------------------------------
(* Resolve, called directly or as the fallback of ResolveAll *)

After(c) == IF c \in AllCallers THEN "saveAll" ELSE "returned"

Resolve(c) ==
    /\ pc[c] = "single" \/ (pc[c] = "idle" /\ c \notin AllCallers)
    /\ IF ips # NoIP
       THEN Goto(c, After(c)) /\ found' = [found EXCEPT ![c] = <<ips>>]
       ELSE Goto(c, "one") /\ UNCHANGED found
    /\ UNCHANGED <<lastSuccessfulIndex, ips, allIps, dnsOK, start, i, cancelled, tried, downSeen>>

BeginOne(c) ==
    /\ pc[c] = "one"
    /\ start' = [start EXCEPT ![c] = lastSuccessfulIndex]
    /\ i' = [i EXCEPT ![c] = 0]
    /\ Goto(c, "loopOne")
    /\ UNCHANGED <<lastSuccessfulIndex, ips, allIps, dnsOK, found, cancelled, tried, downSeen>>

AskOne(c) ==
    /\ pc[c] = "loopOne" /\ c \notin cancelled /\ i[c] < N
    /\ tried' = [tried EXCEPT ![c] = @ \cup {Index(c)}]
    /\ Goto(c, "queryOne")
    /\ UNCHANGED <<lastSuccessfulIndex, ips, allIps, dnsOK, start, i, found, cancelled, downSeen>>

AnsweredOne(c) ==
    /\ pc[c] = "queryOne" /\ Answers(c)
    /\ \E r \in Responses :
          /\ ARecords(r) # <<>>
          /\ found' = [found EXCEPT ![c] = <<FirstARecord(r)>>]
    /\ lastSuccessfulIndex' = Index(c)
    /\ Goto(c, "saveOne")
    /\ UNCHANGED <<ips, allIps, dnsOK, start, i, cancelled, tried, downSeen>>

FailedOne(c) ==
    /\ pc[c] = "queryOne"
    /\ i' = [i EXCEPT ![c] = @ + 1]
    /\ Goto(c, "loopOne")
    /\ UNCHANGED <<lastSuccessfulIndex, ips, allIps, dnsOK, start, found, cancelled, tried, downSeen>>

SaveOne(c) ==
    /\ pc[c] = "saveOne"
    /\ ips' = found[c][1]
    /\ Goto(c, After(c))
    /\ UNCHANGED <<lastSuccessfulIndex, allIps, dnsOK, start, i, found, cancelled, tried, downSeen>>

(* The context is done before a query, or all servers have failed. *)
GiveUp(c) ==
    /\ pc[c] = "loopOne"
    /\ c \in cancelled \/ i[c] = N
    /\ Goto(c, IF c \in AllCallers THEN "mark" ELSE "error")
    /\ downSeen' = (downSeen \/ c \notin cancelled)
    /\ UNCHANGED <<lastSuccessfulIndex, ips, allIps, dnsOK, start, i, found, cancelled, tried>>

(* VkHosts.Resolve takes any error for a failure of DNS. *)
MarkFailed(c) ==
    /\ pc[c] = "mark"
    /\ dnsOK' = FALSE
    /\ Goto(c, "error")
    /\ UNCHANGED <<lastSuccessfulIndex, ips, allIps, start, i, found, cancelled, tried, downSeen>>

-----------------------------------------------------------------------------
(* The request is cancelled, or its time is up. *)
Cancel(c) ==
    /\ c \notin cancelled /\ pc[c] \notin {"idle", "returned", "error"}
    /\ cancelled' = cancelled \cup {c}
    /\ UNCHANGED <<lastSuccessfulIndex, ips, allIps, dnsOK, local, tried, downSeen>>

Proceed(c) ==
    \/ BeginAll(c) \/ AskAll(c) \/ AnsweredAll(c) \/ FailedAll(c) \/ SaveAll(c)
    \/ Resolve(c) \/ BeginOne(c) \/ AskOne(c) \/ AnsweredOne(c) \/ FailedOne(c)
    \/ SaveOne(c) \/ GiveUp(c) \/ MarkFailed(c)

ResolverNext == \E c \in Callers : ResolveAll(c) \/ Proceed(c) \/ Cancel(c)

ResolverSpec == ResolverInit /\ [][ResolverNext]_resolverVars

(* A resolution under way is scheduled, and each query has a timeout. *)
ResolverLiveSpec == ResolverSpec /\ \A c \in Callers : WF_resolverVars(Proceed(c))

-----------------------------------------------------------------------------
(* The type of the state; the index always names a server. *)
ResolverTypeOK ==
    /\ lastSuccessfulIndex \in Servers
    /\ ips \in IPs \cup {NoIP} /\ allIps \in Seq(IPs)
    /\ dnsOK \in BOOLEAN /\ downSeen \in BOOLEAN
    /\ pc \in [Callers -> {"idle", "all", "loopAll", "queryAll", "saveAll", "single", "one",
                           "loopOne", "queryOne", "saveOne", "mark", "returned", "error"}]
    /\ start \in [Callers -> Servers] /\ i \in [Callers -> 0..N]
    /\ found \in [Callers -> Seq(IPs)]
    /\ cancelled \subseteq Callers
    /\ tried \in [Callers -> SUBSET Servers]

(* A call that fails, and was not cancelled, has asked every server: the   *)
(* loop of resolveWithOrderedServers goes all the way round from wherever  *)
(* the shared index was when it began.                                     *)
EveryServerTried ==
    \A c \in Callers : pc[c] \in {"mark", "error"} /\ c \notin cancelled => tried[c] = Servers

(* Every resolution ends, with addresses or an error, although a done      *)
(* context does not leave the loop of ResolveAll (break leaves only the    *)
(* select) and the call falls back to the other loop after it.             *)
ResolutionEnds == \A c \in Callers : pc[c] # "idle" ~> pc[c] \in {"returned", "error"}

(* An address a server has given to a call is never lost by it: what the   *)
(* call collects only grows, through failures of later servers, the        *)
(* fallback and a cancellation, until it returns.                          *)
AnswersKept ==
    [][\A c \in Callers : \A x \in IPs :
          InSeq(x, found[c]) /\ pc[c] # "idle" => InSeq(x, found'[c])]_resolverVars

(* "whether DNS works now", vk_hosts.go:83: DNS is marked as failed only   *)
(* after some call has asked every server in vain.                         *)
DownMeansDown == ~dnsOK => downSeen
=============================================================================
