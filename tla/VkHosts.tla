------------------------------ MODULE VkHosts ------------------------------
(***************************************************************************)
(* The manager of VK addresses (internal/core/vk_hosts.go) for one domain: *)
(* dialers that resolve the domain, connect and record the outcome         *)
(* (getCustomDialContext of vk_auth.go), the collector that probes all     *)
(* known addresses in the background, the metrics they share and the lock  *)
(* over them.                                                              *)
(*                                                                         *)
(* sync.RWMutex is external: a call of Lock that waits keeps new readers   *)
(* out, and is served when the readers inside have left.  A section that   *)
(* waits for nothing else is one step, so the only reader that stays       *)
(* inside is the collector.  A score is a fraction; RTTs are in ms.        *)
(***************************************************************************)
EXTENDS Addresses

CONSTANTS Dialers,      \* goroutines that connect to the domain
          Collectors,   \* collector goroutines: at most one
          Baseline,     \* vkHostsBaseline[domain], a sequence
          AnswerLists,  \* what DNS may answer: sequences of IPs
          RTTs,         \* round trip times, in ms
          FailLimit,    \* failures in a row that exclude an old address (5)
          MaxTries      \* bound on recorded attempts per address

ASSUME VkHostsAssumption ==
    /\ Baseline \in Seq(IPs) /\ Baseline # <<>>
    /\ AnswerLists \subseteq Seq(IPs) \ {<<>>}
    /\ RTTs \subseteq Nat \ {0} /\ RTTs # {}
    /\ FailLimit \in Nat /\ MaxTries \in Nat
    /\ NoIP \notin IPs
    /\ Dialers \cap Collectors = {}

Procs == Dialers \cup Collectors

VARIABLES dynamic,      \* vh.dynamic[domain]
          metrics,      \* vh.metrics, one record per address
          waiting,      \* goroutines waiting in vh.mu.Lock()
          reading,      \* collectors inside the RLock of collectMetrics
          hpc,          \* where each goroutine is
          answer,       \* the answer of DNS each carries
          listed,       \* the addresses each read with allIPs, or has yet to probe
          chosen        \* the address each resolved or probes

data == <<dynamic, metrics, dnsOK>>
hostsVars == <<data, waiting, reading, hpc, answer, listed, chosen>>

NoMetric == [tries |-> 0, ok |-> 0, fails |-> 0, rtt |-> 0, old |-> TRUE]

HostsInit ==
    /\ dynamic = <<>> /\ metrics = [a \in IPs |-> NoMetric] /\ dnsOK = TRUE
    /\ waiting = {} /\ reading = {}
    /\ hpc = [p \in Procs |-> "idle"]
    /\ answer = [p \in Procs |-> <<>>]
    /\ listed = [p \in Procs |-> <<>>]
    /\ chosen = [p \in Procs |-> NoIP]

Move(p, from, to) == hpc[p] = from /\ hpc' = [hpc EXCEPT ![p] = to]

(* RLock goes through only when no writer waits. *)
ReadLocked == waiting = {}

(* A waiting writer gets the lock when no reader is inside. *)
WriteLocked(p) == p \in waiting /\ reading = {}

Unlock(p) == waiting' = waiting \ {p}

Writes == {"merge", "dnsFailed", "success", "failure", "update", "working"}

(* vh.mu.Lock(), up to the wait. *)
Lock(p) ==
    /\ hpc[p] \in Writes /\ p \notin waiting
    /\ waiting' = waiting \cup {p}
    /\ UNCHANGED <<data, reading, hpc, answer, listed, chosen>>

-----------------------------------------------------------------------------
(* Scores *)

Unmeasured(m) == m.tries = 0

(* Less than one success in ten, or old and failing: excluded. *)
Excluded(m) ==
    /\ ~Unmeasured(m)
    /\ m.ok * 10 < m.tries \/ (m.fails > FailLimit /\ m.old)

(* Mutation: an old address that keeps failing is not excluded. *)
ScoreOfRate(m) ==
    IF Unmeasured(m) THEN [num |-> 1000, den |-> 2 * 201]
    ELSE IF m.ok * 10 < m.tries THEN [num |-> 0, den |-> 1]
    ELSE [num |-> m.ok * 1000, den |-> m.tries * (m.rtt + 1)]

(* HostMetric.Score, and the base score of an address without a metric:    *)
(* half of the tries, 200 ms.                                              *)
Score(m) ==
    IF Unmeasured(m) THEN [num |-> 1000, den |-> 2 * 201]
    ELSE IF Excluded(m) THEN [num |-> 0, den |-> 1]
    ELSE [num |-> m.ok * 1000, den |-> m.tries * (m.rtt + 1)]

Beats(f, g) == f.num * g.den > g.num * f.den

(* The loop of selectBestIP: the first address no other one beats.  Every  *)
(* score is above the initial -1, so the loop always finds one.            *)
Best(s) ==
    LET sc(i) == Score(metrics[s[i]])
        first == CHOOSE i \in 1..Len(s) :
                    /\ \A j \in 1..Len(s) : ~Beats(sc(j), sc(i))
                    /\ \A j \in 1..(i - 1) : Beats(sc(i), sc(j))
    IN  s[first]

mergeUnique(a, b) == Distinct(a \o b, {})

(* allIPs: dynamic first, then the baseline. *)
Known == mergeUnique(dynamic, Baseline)

-----------------------------------------------------------------------------
(* VkHosts.Resolve and the connection *)

(* dnsOK is read without the lock. *)
VkResolve(p) ==
    /\ p \in Dialers
    /\ Move(p, "idle", IF dnsOK THEN "dns" ELSE "all")
    /\ UNCHANGED <<data, waiting, reading, answer, listed, chosen>>

(* ResolveAll answers, to a dialer or to the collector. *)
DnsAnswers(p) ==
    /\ Move(p, "dns", IF p \in Dialers THEN "merge" ELSE "update")
    /\ \E a \in AnswerLists : answer' = [answer EXCEPT ![p] = a]
    /\ UNCHANGED <<data, waiting, reading, listed, chosen>>

DnsFails(p) ==
    /\ Move(p, "dns", IF p \in Dialers THEN "dnsFailed" ELSE "probe")
    /\ UNCHANGED <<data, waiting, reading, answer, listed, chosen>>

(* A merge that adds an address also calls Persist.MarkDirty, still with   *)
(* the lock.  That call returns unless Persist.Stop is under way: see      *)
(* MarkDirtyHeld and StopReturns of DnsPersist.                            *)
MergeDynamic(p) ==
    /\ Move(p, "merge", "all") /\ WriteLocked(p)
    /\ dynamic' = mergeUnique(dynamic, answer[p])
    /\ dnsOK' = TRUE /\ answer' = [answer EXCEPT ![p] = <<>>]
    /\ Unlock(p)
    /\ UNCHANGED <<metrics, reading, listed, chosen>>

DnsFailed(p) ==
    /\ Move(p, "dnsFailed", "all") /\ WriteLocked(p)
    /\ dnsOK' = FALSE
    /\ Unlock(p)
    /\ UNCHANGED <<dynamic, metrics, reading, answer, listed, chosen>>

(* selectBestIP: allIPs in one read section, the scores in another. *)
AllIPs(p) ==
    /\ Move(p, "all", "select") /\ ReadLocked
    /\ listed' = [listed EXCEPT ![p] = Known]
    /\ UNCHANGED <<data, waiting, reading, answer, chosen>>

Select(p) ==
    /\ Move(p, "select", "dial") /\ ReadLocked
    /\ chosen' = [chosen EXCEPT ![p] = Best(listed[p])]
    /\ listed' = [listed EXCEPT ![p] = <<>>]
    /\ UNCHANGED <<data, waiting, reading, answer>>

(* The dial, or the probe, ends; attempts per address are bounded. *)
Dial(p) ==
    /\ hpc[p] = "dial" /\ metrics[chosen[p]].tries < MaxTries
    /\ Move(p, "dial", "success") \/ Move(p, "dial", "failure")
    /\ UNCHANGED <<data, waiting, reading, answer, listed, chosen>>

AfterDial(p) == IF p \in Dialers THEN "idle" ELSE "probe"

RecordSuccess(p) ==
    /\ Move(p, "success", AfterDial(p)) /\ WriteLocked(p)
    /\ \E r \in RTTs :
          metrics' = [metrics EXCEPT ![chosen[p]] =
              [tries |-> @.tries + 1, ok |-> @.ok + 1, fails |-> 0, old |-> FALSE,
               rtt |-> IF @.rtt = 0 THEN r ELSE (7 * @.rtt + 3 * r) \div 10]]
    /\ chosen' = [chosen EXCEPT ![p] = NoIP]
    /\ Unlock(p)
    /\ UNCHANGED <<dynamic, dnsOK, reading, answer, listed>>

(* Mutation: the lock is not released. *)
RecordFailureLocked(p) ==
    /\ Move(p, "failure", AfterDial(p)) /\ WriteLocked(p)
    /\ metrics' = [metrics EXCEPT ![chosen[p]].tries = @ + 1, ![chosen[p]].fails = @ + 1]
    /\ chosen' = [chosen EXCEPT ![p] = NoIP]
    /\ UNCHANGED <<dynamic, dnsOK, waiting, reading, answer, listed>>

RecordFailure(p) ==
    /\ Move(p, "failure", AfterDial(p)) /\ WriteLocked(p)
    /\ metrics' = [metrics EXCEPT ![chosen[p]].tries = @ + 1, ![chosen[p]].fails = @ + 1]
    /\ chosen' = [chosen EXCEPT ![p] = NoIP]
    /\ Unlock(p)
    /\ UNCHANGED <<dynamic, dnsOK, reading, answer, listed>>

-----------------------------------------------------------------------------
(* collectMetrics *)

(* The outer RLock. *)
Collect(p) ==
    /\ p \in Collectors
    /\ Move(p, "idle", "outer") /\ ReadLocked
    /\ reading' = reading \cup {p}
    /\ UNCHANGED <<data, waiting, answer, listed, chosen>>

(* allIPs takes the read lock again, inside. *)
CollectIPs(p) ==
    /\ Move(p, "outer", "inside") /\ ReadLocked
    /\ listed' = [listed EXCEPT ![p] = Known]
    /\ UNCHANGED <<data, waiting, reading, answer, chosen>>

CollectUnlock(p) ==
    /\ Move(p, "inside", "dns")
    /\ reading' = reading \ {p}
    /\ UNCHANGED <<data, waiting, answer, listed, chosen>>

VkUpdateDynamic(p) ==
    /\ Move(p, "update", "working") /\ WriteLocked(p)
    /\ dynamic' = answer[p]
    /\ dnsOK' = TRUE /\ answer' = [answer EXCEPT ![p] = <<>>]
    /\ Unlock(p)
    /\ UNCHANGED <<metrics, reading, listed, chosen>>

MarkDNSWorking(p) ==
    /\ Move(p, "working", "probe") /\ WriteLocked(p)
    /\ dnsOK' = TRUE
    /\ Unlock(p)
    /\ UNCHANGED <<dynamic, metrics, reading, answer, listed, chosen>>

(* probeIP, for the addresses collected before the refresh. *)
Probe(p) ==
    /\ hpc[p] = "probe" /\ listed[p] # <<>>
    /\ Move(p, "probe", "dial")
    /\ chosen' = [chosen EXCEPT ![p] = Head(listed[p])]
    /\ listed' = [listed EXCEPT ![p] = Tail(@)]
    /\ UNCHANGED <<data, waiting, reading, answer>>

(* The pass is over, or the context is done between two addresses. *)
Collected(p) ==
    /\ Move(p, "probe", "idle")
    /\ listed' = [listed EXCEPT ![p] = <<>>]
    /\ UNCHANGED <<data, waiting, reading, answer, chosen>>

(* An hour passes without an answer of an address. *)
Age(a) ==
    /\ ~metrics[a].old
    /\ metrics' = [metrics EXCEPT ![a].old = TRUE]
    /\ UNCHANGED <<dynamic, dnsOK, waiting, reading, hpc, answer, listed, chosen>>

-----------------------------------------------------------------------------
ResolveStep(p) ==
    \/ DnsAnswers(p) \/ DnsFails(p) \/ Lock(p) \/ MergeDynamic(p) \/ DnsFailed(p)
    \/ AllIPs(p) \/ Select(p) \/ RecordSuccess(p) \/ RecordFailure(p)

CollectStep(p) ==
    \/ CollectIPs(p) \/ CollectUnlock(p) \/ VkUpdateDynamic(p) \/ MarkDNSWorking(p)
    \/ Probe(p) \/ Collected(p)

HostsNext ==
    \/ \E p \in Procs : VkResolve(p) \/ ResolveStep(p) \/ Dial(p) \/ Collect(p) \/ CollectStep(p)
    \/ \E a \in IPs : Age(a)

HostsSpec == HostsInit /\ [][HostsNext]_hostsVars

(* Goroutines that can run do, and queries end (they have timeouts).  A    *)
(* reader may be kept out now and then by other writers, but not for ever: *)
(* Unlock lets the waiting readers in.                                     *)
HostsLiveSpec ==
    /\ HostsSpec
    /\ \A p \in Procs : WF_hostsVars(CollectStep(p)) /\ SF_hostsVars(ResolveStep(p))

-----------------------------------------------------------------------------
(* The type of the state; an address never has more successes and failures *)
(* in a row than attempts, and a fresh one has answered.                   *)
HostsTypeOK ==
    /\ dynamic \in Seq(IPs)
    /\ metrics \in [IPs -> [tries : Nat, ok : Nat, fails : Nat, rtt : Nat, old : BOOLEAN]]
    /\ \A a \in IPs : metrics[a].ok + metrics[a].fails <= metrics[a].tries
    /\ \A a \in IPs : ~metrics[a].old => metrics[a].ok > 0
    /\ dnsOK \in BOOLEAN
    /\ waiting \subseteq Procs /\ reading \subseteq Collectors
    /\ hpc \in [Procs -> Writes \cup {"idle", "dns", "all", "select", "dial", "outer",
                                     "inside", "probe"}]
    /\ answer \in [Procs -> AnswerLists \cup {<<>>}]
    /\ listed \in [Procs -> Seq(IPs)]
    /\ chosen \in [Procs -> IPs \cup {NoIP}]

(* If p chooses and some address of its list is not excluded, neither is   *)
(* the one it chooses.                                                     *)
SelectsUsable(p) ==
    Select(p) /\ (\E k \in 1..Len(listed[p]) : ~Excluded(metrics[listed[p][k]]))
        => ~Excluded(metrics[chosen'[p]])

(* selectBestIP never gives out an address its metrics exclude while it    *)
(* knows one they do not exclude, with whatever the other goroutines       *)
(* recorded since the list of addresses was read.                          *)
UsableFirst == [][\A p \in Dialers : SelectsUsable(p)]_hostsVars

(* "No metric: a base score (priority lower than that of checked ones)",   *)
(* vk_hosts.go:183: an address that answered every time goes before one    *)
(* that was never tried.                                                   *)
CheckedFirst ==
    [][\A p \in Dialers :
          /\ Select(p)
          /\ \E i \in 1..Len(listed[p]) :
                LET m == metrics[listed[p][i]] IN m.tries > 0 /\ m.ok = m.tries
          => ~Unmeasured(metrics[chosen'[p]])]_hostsVars

(* "All IPs are rejected by the metrics: take the first of the baseline",  *)
(* vk_hosts.go:200.                                                        *)
RejectedFallBack ==
    [][\A p \in Dialers :
          Select(p) /\ (\A i \in 1..Len(listed[p]) : Excluded(metrics[listed[p][i]]))
              => chosen'[p] = Baseline[1]]_hostsVars

Resolving(p) == hpc[p] \in {"dns", "merge", "dnsFailed", "all", "select"}

(* The collector is between its two read locks and a writer waits: neither *)
(* can go on, and nobody else gets the lock.                               *)
Nested == waiting # {} /\ \E p \in Collectors : hpc[p] = "outer"

(* The nested read lock of collectMetrics is the only thing that can stop  *)
(* a dialer: one that has begun to resolve gets its address, whatever the  *)
(* other goroutines do with the lock, unless that deadlock occurs.         *)
StallsOnlyNested == \A p \in Dialers : Resolving(p) ~> (hpc[p] = "dial" \/ Nested)

(* Resolve chooses an address (vk_hosts.go:125): without that exception.   *)
ResolveReturns == \A p \in Dialers : Resolving(p) ~> hpc[p] = "dial"
=============================================================================
