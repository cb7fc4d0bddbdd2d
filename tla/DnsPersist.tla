----------------------------- MODULE DnsPersist -----------------------------
(***************************************************************************)
(* What is known of one domain, in memory and on disk: hostCache           *)
(* (internal/core/resolver.go), vkHosts.dynamic (internal/core/vk_hosts.go)*)
(* and the PersistentCache that saves them (internal/core/                 *)
(* dns_cache_persist.go).  Goroutines resolve the domain, the saver writes *)
(* a snapshot every minute if something changed, the process may be killed *)
(* between any two steps and started again from the file.                  *)
(*                                                                         *)
(* Lists of addresses are sets here; the file is a set of addresses or     *)
(* Torn, a file cut short by a kill.  save also collects the addresses the *)
(* metrics know; they can only add to a snapshot and are left out.         *)
(* A lock that is taken and released without waiting in between is one     *)
(* step.                                                                   *)
(***************************************************************************)
EXTENDS Addresses

CONSTANTS Resolvers,    \* goroutines that resolve the domain
          MaxIPs,       \* persistMaxIPsPerDomain
          MaxFaults,    \* bound on kills of the process and failed writes
          Nobody, Main, Torn

ASSUME PersistAssumption ==
    /\ IsFiniteSet(IPs)
    /\ NoIP \notin IPs /\ \A S \in SUBSET IPs : S # Torn
    /\ Nobody \notin Resolvers /\ Main \notin Resolvers /\ Main # Nobody
    /\ MaxIPs \in Nat \ {0} /\ MaxFaults \in Nat

VARIABLES one,          \* hostCache.ips[domain]
          all,          \* hostCache.allIps[domain]
          dyn,          \* vkHosts.dynamic[domain]
          vkMu,         \* the writer holding vkHosts.mu across a call
          pMu,          \* the holder of Persist.mu across a wait
          dirty,        \* Persist.dirty
          rpc, ans,     \* where each resolver is, and the answer it carries
          spc,          \* where the saver is
          snap,         \* the addresses save has collected
          tmp, file,    \* the temporary file and the cache file
          last,         \* the save under way is the saver's last
          stopClosed,   \* Persist.stopCh is closed
          mpc,          \* main: running, inside Persist.Stop, or past it
          up,           \* the process is running
          kills, failures, \* counters for the bounds
          failed        \* the last save failed

memVars == <<one, all, dyn, dnsOK>>
callVars == <<rpc, ans>>
saveVars == <<spc, snap, tmp, file, failed, failures>>
procVars == <<last, stopClosed, mpc, up, kills>>
vars == <<memVars, vkMu, pMu, dirty, callVars, saveVars, procVars>>

Init ==
    /\ one = NoIP /\ all = {} /\ dyn = {} /\ dnsOK = TRUE
    /\ vkMu = Nobody /\ pMu = Nobody /\ dirty = FALSE
    /\ rpc = [r \in Resolvers |-> "idle"]
    /\ ans = [r \in Resolvers |-> {}]
    /\ spc = "select" /\ snap = {} /\ tmp = {} /\ file = {}
    /\ last = FALSE /\ stopClosed = FALSE /\ mpc = "running" /\ up = TRUE
    /\ kills = 0 /\ failures = 0 /\ failed = FALSE

Step(r, from, to) == rpc[r] = from /\ rpc' = [rpc EXCEPT ![r] = to]

-----------------------------------------------------------------------------
(* Resolving *)

(* DnsCache.Resolve, called directly in wb mode: a cached address is final. *)
ResolveOne(r) ==
    /\ up /\ one = NoIP
    /\ Step(r, "idle", "askOne")
    /\ UNCHANGED <<memVars, vkMu, pMu, dirty, ans, saveVars, procVars>>

(* VkHosts.Resolve reads dnsOK without the lock and asks ResolveAll, which *)
(* answers from its cache when it can.                                     *)
ResolveVk(r) ==
    /\ up /\ dnsOK
    /\ rpc[r] = "idle"
    /\ rpc' = [rpc EXCEPT ![r] = IF all = {} THEN "askAll" ELSE "merge"]
    /\ ans' = [ans EXCEPT ![r] = all]
    /\ UNCHANGED <<memVars, vkMu, pMu, dirty, saveVars, procVars>>

(* collectMetrics asks ResolveAll whether or not dnsOK is set. *)
Refresh(r) ==
    /\ up
    /\ rpc[r] = "idle"
    /\ rpc' = [rpc EXCEPT ![r] = IF all = {} THEN "askFresh" ELSE "update"]
    /\ ans' = [ans EXCEPT ![r] = all]
    /\ UNCHANGED <<memVars, vkMu, pMu, dirty, saveVars, procVars>>

(* The answer of the single-address query is cached. *)
StoreOne(r) ==
    /\ up
    /\ one' \in IPs
    /\ Step(r, "askOne", "markOne")
    /\ UNCHANGED <<all, dyn, dnsOK, vkMu, pMu, dirty, ans, saveVars, procVars>>

OneFails(r) ==
    /\ up
    /\ Step(r, "askOne", "idle")
    /\ UNCHANGED <<memVars, vkMu, pMu, dirty, ans, saveVars, procVars>>

(* ResolveAll caches the merged answers; a singleton also stands for the   *)
(* fallback to the single-address query.                                   *)
StoreAll(r) ==
    /\ up
    /\ \E S \in SUBSET IPs \ {{}} :
          /\ all' = S
          /\ one' \in S
          /\ ans' = [ans EXCEPT ![r] = S]
    /\ Step(r, "askAll", "markAll") \/ Step(r, "askFresh", "markFresh")
    /\ UNCHANGED <<dyn, dnsOK, vkMu, pMu, dirty, saveVars, procVars>>

(* VkHosts.Resolve falls back to what it knows until DNS is seen to work. *)
AllFails(r) ==
    /\ up
    /\ \/ Step(r, "askAll", "idle") /\ vkMu = Nobody /\ dnsOK' = FALSE
       \/ Step(r, "askFresh", "idle") /\ dnsOK' = dnsOK
    /\ UNCHANGED <<one, all, dyn, vkMu, pMu, dirty, ans, saveVars, procVars>>

(* Persist.MarkDirty, outside any other lock. *)
MarkDirty(r) ==
    /\ up /\ pMu = Nobody
    /\ \/ Step(r, "markOne", "idle")
       \/ Step(r, "markAll", "merge")
       \/ Step(r, "markFresh", "update")
    /\ dirty' = TRUE
    /\ UNCHANGED <<memVars, vkMu, pMu, ans, saveVars, procVars>>

(* The answer is merged into dynamic under the write lock, which is kept   *)
(* for MarkDirty when something was added.                                 *)
Merge(r) ==
    /\ up /\ vkMu = Nobody
    /\ dyn' = dyn \cup ans[r]
    /\ dnsOK' = TRUE
    /\ vkMu' = IF dyn' = dyn THEN Nobody ELSE r
    /\ Step(r, "merge", IF dyn' = dyn THEN "idle" ELSE "markHeld")
    /\ ans' = [ans EXCEPT ![r] = {}]
    /\ UNCHANGED <<one, all, pMu, dirty, saveVars, procVars>>

MarkDirtyHeld(r) ==
    /\ up /\ pMu = Nobody
    /\ Step(r, "markHeld", "idle")
    /\ dirty' = TRUE
    /\ vkMu' = Nobody
    /\ UNCHANGED <<memVars, pMu, ans, saveVars, procVars>>

(* UpdateDynamic replaces the list, and MarkDNSWorking follows. *)
UpdateDynamic(r) ==
    /\ up /\ vkMu = Nobody
    /\ Step(r, "update", "idle")
    /\ dyn' = ans[r]
    /\ dnsOK' = TRUE
    /\ ans' = [ans EXCEPT ![r] = {}]
    /\ UNCHANGED <<one, all, vkMu, pMu, dirty, saveVars, procVars>>

-----------------------------------------------------------------------------
(* The saver *)

SaverTick ==
    /\ up /\ spc = "select" /\ pMu = Nobody
    /\ dirty
    /\ spc' = "save"
    /\ UNCHANGED <<memVars, vkMu, pMu, dirty, callVars, snap, tmp, file, failed, failures, procVars>>

(* save: dirty is cleared first, then hostCache and vkHosts are read. *)
SaveBegin ==
    /\ up /\ spc = "save" /\ pMu = Nobody
    /\ dirty' = FALSE
    /\ spc' = "hosts"
    /\ UNCHANGED <<memVars, vkMu, pMu, callVars, snap, tmp, file, failed, failures, procVars>>

CollectHosts ==
    /\ up /\ spc = "hosts"
    /\ snap' = all
    /\ spc' = "dynamic"
    /\ UNCHANGED <<memVars, vkMu, pMu, dirty, callVars, tmp, file, failed, failures, procVars>>

CollectDynamic ==
    /\ up /\ spc = "dynamic" /\ vkMu = Nobody
    /\ snap' = snap \cup dyn
    /\ spc' = "write"
    /\ UNCHANGED <<memVars, vkMu, pMu, dirty, callVars, tmp, file, failed, failures, procVars>>

(* os.WriteFile truncates the temporary file, then fills it. *)
WriteBegin ==
    /\ up /\ spc = "write"
    /\ tmp' = Torn
    /\ spc' = "writing"
    /\ UNCHANGED <<memVars, vkMu, pMu, dirty, callVars, snap, file, failed, failures, procVars>>

WriteEnd ==
    /\ up /\ spc = "writing"
    /\ tmp' = snap
    /\ spc' = "rename"
    /\ UNCHANGED <<memVars, vkMu, pMu, dirty, callVars, snap, file, failed, failures, procVars>>

AfterSave == spc' = IF last THEN "exited" ELSE "select"

(* Mutation: the saver ends with the first error. *)
SaveFailsForGood ==
    /\ up /\ spc \in {"writing", "rename"}
    /\ kills + failures < MaxFaults
    /\ failures' = failures + 1
    /\ failed' = TRUE
    /\ snap' = {}
    /\ spc' = "exited"
    /\ UNCHANGED <<memVars, vkMu, pMu, dirty, callVars, tmp, file, procVars>>

(* A failed write or rename is reported and forgotten: dirty stays false. *)
SaveFails ==
    /\ up /\ spc \in {"writing", "rename"}
    /\ kills + failures < MaxFaults
    /\ failures' = failures + 1
    /\ failed' = TRUE
    /\ snap' = {}
    /\ AfterSave
    /\ UNCHANGED <<memVars, vkMu, pMu, dirty, callVars, tmp, file, procVars>>

(* Mutation: the temporary file is renamed before it is complete. *)
RenameEarly ==
    /\ up /\ spc \in {"writing", "rename"}
    /\ file' = tmp /\ tmp' = {} /\ snap' = {}
    /\ failed' = FALSE
    /\ AfterSave
    /\ UNCHANGED <<memVars, vkMu, pMu, dirty, callVars, failures, procVars>>

(* Mutation: dirty is cleared when the save is done. *)
RenameClearing ==
    /\ up /\ spc = "rename"
    /\ file' = tmp /\ tmp' = {} /\ snap' = {}
    /\ failed' = FALSE
    /\ dirty' = FALSE
    /\ AfterSave
    /\ UNCHANGED <<memVars, vkMu, pMu, callVars, failures, procVars>>

Rename ==
    /\ up /\ spc = "rename"
    /\ file' = tmp /\ tmp' = {} /\ snap' = {}
    /\ failed' = FALSE
    /\ AfterSave
    /\ UNCHANGED <<memVars, vkMu, pMu, dirty, callVars, failures, procVars>>

-----------------------------------------------------------------------------
(* The process *)

Kill ==
    /\ up /\ kills + failures < MaxFaults
    /\ up' = FALSE
    /\ kills' = kills + 1
    /\ UNCHANGED <<memVars, vkMu, pMu, dirty, callVars, saveVars, last, stopClosed, mpc>>

(* SetCachePath: Load merges the file, at most MaxIPs addresses, into the  *)
(* caches of a fresh process, and startSaver starts the saver.  A torn     *)
(* file does not parse and leaves them empty.                              *)
Loadable == IF file = Torn THEN {} ELSE file

Restart ==
    /\ ~up
    /\ up' = TRUE
    /\ \E S \in SUBSET Loadable :
          /\ Cardinality(S) = IF Cardinality(Loadable) > MaxIPs THEN MaxIPs ELSE Cardinality(Loadable)
          /\ all' = S /\ dyn' = S
          /\ IF S = {} THEN one' = NoIP ELSE one' \in S
    /\ dnsOK' = TRUE
    /\ vkMu' = Nobody /\ pMu' = Nobody /\ dirty' = FALSE
    /\ rpc' = [r \in Resolvers |-> "idle"]
    /\ ans' = [r \in Resolvers |-> {}]
    /\ spc' = "select" /\ snap' = {} /\ failed' = FALSE
    /\ last' = FALSE /\ stopClosed' = FALSE /\ mpc' = "running"
    /\ UNCHANGED <<tmp, file, failures, kills>>

(* Persist.Stop, deferred by main: it keeps p.mu while it waits. *)
Stop ==
    /\ up /\ mpc = "running" /\ pMu = Nobody
    /\ pMu' = Main
    /\ stopClosed' = TRUE
    /\ mpc' = "waiting"
    /\ UNCHANGED <<memVars, vkMu, dirty, callVars, saveVars, last, up, kills>>

(* The saver's last save, on the closed stopCh. *)
SaverStops ==
    /\ up /\ spc = "select" /\ stopClosed
    /\ spc' = "save"
    /\ last' = TRUE
    /\ UNCHANGED <<memVars, vkMu, pMu, dirty, callVars, snap, tmp, file, failed, failures,
                   stopClosed, mpc, up, kills>>

(* wg.Wait returns and the deferred unlock runs. *)
StopReturns ==
    /\ up /\ mpc = "waiting" /\ spc = "exited"
    /\ pMu' = Nobody
    /\ mpc' = "stopped"
    /\ UNCHANGED <<memVars, vkMu, dirty, callVars, saveVars, last, stopClosed, up, kills>>

resolving(r) ==
    \/ StoreOne(r) \/ OneFails(r) \/ StoreAll(r) \/ AllFails(r)
    \/ MarkDirty(r) \/ Merge(r) \/ MarkDirtyHeld(r) \/ UpdateDynamic(r)

save ==
    \/ SaverTick \/ SaveBegin \/ CollectHosts \/ CollectDynamic
    \/ WriteBegin \/ WriteEnd \/ SaveFails \/ Rename

Next ==
    \/ \E r \in Resolvers : ResolveOne(r) \/ ResolveVk(r) \/ Refresh(r) \/ resolving(r)
    \/ save
    \/ Kill \/ Restart

Spec == Init /\ [][Next]_vars

(* Goroutines are scheduled, queries end, the saver's ticker fires. *)
Fairness == WF_vars(save) /\ \A r \in Resolvers : WF_vars(resolving(r))

LiveSpec == Spec /\ Fairness

(* The same with a graceful shutdown. *)
Shutdown == Stop \/ SaverStops \/ StopReturns
ShutdownSpec == Init /\ [][Next \/ Shutdown]_vars /\ Fairness /\ WF_vars(SaverStops \/ StopReturns)
-----------------------------------------------------------------------------
(* Properties *)

(* The type of the state; vkHosts.mu is kept exactly by the resolver that  *)
(* calls MarkDirty under it.                                               *)
TypeOK ==
    /\ one \in IPs \cup {NoIP}
    /\ all \subseteq IPs /\ dyn \subseteq IPs /\ snap \subseteq IPs
    /\ dnsOK \in BOOLEAN /\ dirty \in BOOLEAN /\ stopClosed \in BOOLEAN /\ last \in BOOLEAN
    /\ up \in BOOLEAN /\ failed \in BOOLEAN
    /\ vkMu \in Resolvers \cup {Nobody}
    /\ pMu \in {Main, Nobody}
    /\ rpc \in [Resolvers -> {"idle", "askOne", "askAll", "askFresh", "markOne", "markAll",
                              "markFresh", "merge", "markHeld", "update"}]
    /\ ans \in [Resolvers -> SUBSET IPs]
    /\ spc \in {"select", "save", "hosts", "dynamic", "write", "writing", "rename",
                "exited"}
    /\ tmp \in {Torn} \cup SUBSET IPs
    /\ file \in {Torn} \cup SUBSET IPs
    /\ mpc \in {"running", "waiting", "stopped"}
    /\ kills \in Nat /\ failures \in Nat /\ kills + failures <= MaxFaults
    /\ \A r \in Resolvers : rpc[r] = "markHeld" <=> vkMu = r

(* Whatever step a kill falls on, the cache file is a complete snapshot:   *)
(* the temporary file and the rename of save keep it whole.                *)
FileNeverTorn == file # Torn

Quiet ==
    /\ up /\ spc = "select" /\ ~dirty /\ ~failed
    /\ \A r \in Resolvers : rpc[r] \notin {"markOne", "markAll", "markFresh", "markHeld"}

(* A clean flag means a saved cache: when nothing is marked dirty and no   *)
(* update or save is under way, everything in hostCache.allIps is in the   *)
(* file, however updates interleaved with the snapshot of the last save.   *)
CleanMeansSaved == Quiet => all \subseteq file

(* The save failed and nothing has changed since: nobody will repeat it. *)
Forgotten == failed /\ spc = "select" /\ ~dirty

(* Every address cached by ResolveAll reaches the disk, unless it is       *)
(* replaced or the process is killed.  A save that failed has cleared the  *)
(* dirty flag already and is not repeated by itself, but any change marked *)
(* during or after it makes the next save write everything.                *)
LearnedGetsSaved ==
    \A i \in IPs : (i \in all) ~> (i \in file \/ i \notin all \/ Forgotten \/ ~up)

(* The header's promise for vkHosts.dynamic: the addresses VkHosts works   *)
(* with are in the file when the cache is clean.                           *)
DynamicSaved == Quiet => dyn \subseteq file

(* The header's promise for the single-address cache: what DnsCache.Resolve *)
(* learned and marked dirty is in the file when the cache is clean.         *)
ResolvedOneSaved == Quiet => one \in file \cup {NoIP}

(* Persist.Stop ends the saver with a last save and returns. *)
StopSaves == (mpc = "waiting") ~> (mpc = "stopped" /\ all \subseteq file)
=============================================================================
