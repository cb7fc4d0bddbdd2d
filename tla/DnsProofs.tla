----------------------------- MODULE DnsProofs -----------------------------
(***************************************************************************)
(* Proofs about how addresses are found, chosen and kept: the persistent   *)
(* cache (DnsPersist), the cascading resolver (DnsResolver) and the        *)
(* manager of VK addresses (VkHosts).                                      *)
(*                                                                         *)
(* The three are separate machines: a theorem is about the behaviours of   *)
(* one specification only, and the names they share (the addresses, the    *)
(* flag dnsOK) are declared once, in Addresses.                            *)
(***************************************************************************)
EXTENDS DnsPersist, DnsResolver, VkHosts, Integers, WellFoundedInduction, TLAPS
-----------------------------------------------------------------------------
(* The persistent cache, for any number of resolving goroutines and        *)
(* addresses and any number of kills and failed writes, with and without a *)
(* graceful shutdown.  SavedInv says for every stage of a save what stands *)
(* for an address that is in memory and not yet in the file: the dirty     *)
(* flag, a goroutine about to set it, or the snapshot.                     *)

AnyNext == Next \/ Shutdown

(* The temporary file is complete when it is about to be renamed. *)
RenameInv == spc = "rename" => tmp = snap

(* A goroutine that has stored a list and has not marked it yet. *)
Marking == \E r \in Resolvers : rpc[r] \in {"markAll", "markFresh"}

(* Unless somebody has said so, nothing is missing: the snapshot has all   *)
(* once it is taken, and the file between two saves.                       *)
SavedInv ==
    up /\ ~dirty /\ ~Marking =>
        /\ spc \in {"dynamic", "write", "writing", "rename"} => all \subseteq snap
        /\ spc \in {"select", "exited"} => failed \/ all \subseteq file

PersistInv ==
    /\ TypeOK
    /\ FileNeverTorn
    /\ RenameInv
    /\ SavedInv
-----------------------------------------------------------------------------
(* A fresh process without a cache file. *)
LEMMA PersistInit == Init => PersistInv
<1> SUFFICES ASSUME Init
             PROVE  PersistInv
  OBVIOUS
<1> USE PersistAssumption DEF Init
<1>1. TypeOK
  <2>1. kills \in Nat /\ failures \in Nat /\ kills + failures <= MaxFaults
    OBVIOUS
  <2>2. {} \in SUBSET IPs
    OBVIOUS
  <2>3. QED
    BY <2>1, <2>2 DEF TypeOK
<1>2. FileNeverTorn /\ RenameInv /\ SavedInv
  BY DEF FileNeverTorn, RenameInv, SavedInv, Marking
<1>3. QED
  BY <1>1, <1>2 DEF PersistInv

(* The steps of the goroutines that resolve, as far as types and the lock  *)
(* that Merge keeps for MarkDirtyHeld are concerned.                       *)
LEMMA ResolverTypes ==
    ASSUME TypeOK, NEW r \in Resolvers,
           ResolveOne(r) \/ ResolveVk(r) \/ Refresh(r) \/ resolving(r)
    PROVE  TypeOK'
<1>0. Nobody \notin Resolvers /\ MaxFaults \in Nat
  BY PersistAssumption
<1> USE <1>0 DEF TypeOK, Step, memVars, saveVars, procVars
<1>1. CASE ResolveOne(r) \/ OneFails(r)
  BY <1>1 DEF ResolveOne, OneFails
<1>2. CASE ResolveVk(r)
  BY <1>2 DEF ResolveVk
<1>3. CASE Refresh(r)
  BY <1>3 DEF Refresh
<1>4. CASE StoreOne(r)
  BY <1>4 DEF StoreOne
<1>5. CASE StoreAll(r)
  BY <1>5 DEF StoreAll
<1>6. CASE AllFails(r)
  <2>1. dnsOK' \in BOOLEAN /\ rpc' = [rpc EXCEPT ![r] = "idle"] /\ rpc[r] # "markHeld"
    BY <1>6 DEF AllFails
  <2>2. QED
    BY <1>6, <2>1 DEF AllFails
<1>7. CASE MarkDirty(r)
  BY <1>7 DEF MarkDirty
<1>8. CASE Merge(r)
  BY <1>8 DEF Merge
<1>9. CASE MarkDirtyHeld(r)
  BY <1>9 DEF MarkDirtyHeld
<1>10. CASE UpdateDynamic(r)
  BY <1>10 DEF UpdateDynamic
<1>11. QED
  BY <1>1, <1>2, <1>3, <1>4, <1>5, <1>6, <1>7, <1>8, <1>9, <1>10 DEF resolving

(* The steps of the saver and of the process, likewise. *)
LEMMA SaverTypes ==
    ASSUME TypeOK, save \/ Kill \/ Restart \/ Shutdown \/ UNCHANGED vars
    PROVE  TypeOK'
<1>0. Nobody \notin Resolvers /\ MaxFaults \in Nat
  BY PersistAssumption
<1> USE <1>0 DEF TypeOK, memVars, callVars, saveVars, procVars
<1>1. CASE SaverTick \/ SaveBegin
  <2>1. CASE SaverTick
    BY <2>1 DEF SaverTick
  <2>2. CASE SaveBegin
    BY <2>2 DEF SaveBegin
  <2>3. QED
    BY <1>1, <2>1, <2>2
<1>2. CASE CollectHosts \/ CollectDynamic
  <2>1. CASE CollectHosts
    BY <2>1 DEF CollectHosts
  <2>2. CASE CollectDynamic
    BY <2>2 DEF CollectDynamic
  <2>3. QED
    BY <1>2, <2>1, <2>2
<1>3. CASE WriteBegin \/ WriteEnd
  <2>1. CASE WriteBegin
    BY <2>1 DEF WriteBegin
  <2>2. CASE WriteEnd
    BY <2>2 DEF WriteEnd
  <2>3. QED
    BY <1>3, <2>1, <2>2
<1>4. CASE SaveFails
  BY <1>4 DEF SaveFails, AfterSave
<1>5. CASE Rename
  BY <1>5 DEF Rename, AfterSave
<1>6. CASE Kill
  <2>1. kills' \in Nat /\ failures' \in Nat /\ kills' + failures' <= MaxFaults
    BY <1>6 DEF Kill
  <2>2. /\ one' \in IPs \cup {NoIP}
        /\ all' \subseteq IPs /\ dyn' \subseteq IPs /\ snap' \subseteq IPs
    BY <1>6 DEF Kill
  <2>3. /\ dnsOK' \in BOOLEAN /\ dirty' \in BOOLEAN /\ stopClosed' \in BOOLEAN /\ last' \in BOOLEAN
        /\ up' \in BOOLEAN /\ failed' \in BOOLEAN
    BY <1>6 DEF Kill
  <2>4.  /\ vkMu' \in Resolvers \cup {Nobody}
         /\ pMu' \in {Main, Nobody} /\ rpc' = rpc
    BY <1>6 DEF Kill
  <2>5. /\ ans' \in [Resolvers -> SUBSET IPs]
        /\ tmp' \in {Torn} \cup SUBSET IPs
        /\ file' \in {Torn} \cup SUBSET IPs
    BY <1>6 DEF Kill
  <2>6. /\ spc' = spc /\ mpc' = mpc /\ vkMu' = vkMu
    BY <1>6 DEF Kill
  <2>7. QED
    BY <2>1, <2>2, <2>3, <2>4, <2>5, <2>6
<1>7. CASE Restart
  <2>1. all' \subseteq IPs /\ dyn' \subseteq IPs /\ one' \in IPs \cup {NoIP}
    BY <1>7 DEF Restart, Loadable
  <2>2. \A r \in Resolvers : rpc'[r] # "markHeld"
    BY <1>7 DEF Restart
  <2>3. QED
    BY <1>7, <2>1, <2>2 DEF Restart
<1>8. CASE Stop
  BY <1>8 DEF Stop
<1>9. CASE SaverStops
  BY <1>9 DEF SaverStops
<1>10. CASE StopReturns
  BY <1>10 DEF StopReturns
<1>11. CASE UNCHANGED vars
  BY <1>11 DEF vars
<1>12. QED
  BY <1>1, <1>2, <1>3, <1>4, <1>5, <1>6, <1>7, <1>8, <1>9, <1>10, <1>11 DEF save, Shutdown

(* No step puts a file in place that is not complete. *)
LEMMA FileStep == PersistInv /\ [AnyNext]_vars => FileNeverTorn' /\ RenameInv'
<1> DEFINE Goal == FileNeverTorn' /\ RenameInv'
<1> SUFFICES ASSUME PersistInv, [AnyNext]_vars
             PROVE  Goal
  OBVIOUS
<1> USE PersistAssumption
    DEF PersistInv, TypeOK, FileNeverTorn, RenameInv, memVars, callVars, saveVars, procVars
<1>1. ASSUME NEW r \in Resolvers,
             ResolveOne(r) \/ ResolveVk(r) \/ Refresh(r) \/ resolving(r)
      PROVE  Goal
  BY <1>1 DEF ResolveOne, ResolveVk, Refresh, resolving, StoreOne, OneFails, StoreAll, AllFails,
              MarkDirty, Merge, MarkDirtyHeld, UpdateDynamic
<1>2. CASE save
  BY <1>2 DEF save, SaverTick, SaveBegin, CollectHosts, CollectDynamic, WriteBegin, WriteEnd,
              SaveFails, Rename, AfterSave
<1>3. CASE Kill \/ Restart
  BY <1>3 DEF Kill, Restart
<1>4. CASE Shutdown \/ UNCHANGED vars
  BY <1>4 DEF Shutdown, Stop, SaverStops, StopReturns, vars
<1>5. QED
  BY <1>1, <1>2, <1>3, <1>4 DEF AnyNext, Next

(* A list stored while a save is under way is marked after the save has    *)
(* cleared the flag, or the snapshot has it.                               *)
LEMMA SavedStep == PersistInv /\ [AnyNext]_vars => SavedInv'
<1> SUFFICES ASSUME PersistInv, [AnyNext]_vars
             PROVE  SavedInv'
  OBVIOUS
<1> USE PersistAssumption
    DEF PersistInv, TypeOK, FileNeverTorn, RenameInv, SavedInv, Marking, Step, memVars, callVars,
        saveVars, procVars
<1>1. ASSUME NEW r \in Resolvers,
             ResolveOne(r) \/ ResolveVk(r) \/ Refresh(r) \/ resolving(r)
      PROVE  SavedInv'
  <2>1. CASE ResolveOne(r) \/ ResolveVk(r) \/ Refresh(r)
    BY <2>1 DEF ResolveOne, ResolveVk, Refresh
  <2>2. CASE StoreOne(r) \/ OneFails(r) \/ AllFails(r)
    BY <2>2 DEF StoreOne, OneFails, AllFails
  <2>3. CASE StoreAll(r)
    BY <2>3 DEF StoreAll
  <2>4. CASE MarkDirty(r) \/ MarkDirtyHeld(r)
    BY <2>4 DEF MarkDirty, MarkDirtyHeld
  <2>5. CASE Merge(r) \/ UpdateDynamic(r)
    BY <2>5 DEF Merge, UpdateDynamic
  <2>6. QED
    BY <1>1, <2>1, <2>2, <2>3, <2>4, <2>5 DEF resolving
<1>2. CASE save
  <2>1. CASE SaverTick \/ SaveBegin
    BY <2>1 DEF SaverTick, SaveBegin
  <2>2. CASE CollectHosts \/ CollectDynamic
    BY <2>2 DEF CollectHosts, CollectDynamic
  <2>3. CASE WriteBegin \/ WriteEnd
    BY <2>3 DEF WriteBegin, WriteEnd
  <2>4. CASE SaveFails
    BY <2>4 DEF SaveFails, AfterSave
  <2>5. CASE Rename
    BY <2>5 DEF Rename, AfterSave
  <2>6. QED
    BY <1>2, <2>1, <2>2, <2>3, <2>4, <2>5 DEF save
<1>3. CASE Kill
  BY <1>3 DEF Kill
<1>4. CASE Restart
  BY <1>4 DEF Restart, Loadable
<1>5. CASE Shutdown \/ UNCHANGED vars
  BY <1>5 DEF Shutdown, Stop, SaverStops, StopReturns, vars
<1>6. QED
  BY <1>1, <1>2, <1>3, <1>4, <1>5 DEF AnyNext, Next

(* The inductive invariant is kept by every step, shutdown included. *)
LEMMA PersistStep == PersistInv /\ [AnyNext]_vars => PersistInv'
  BY ResolverTypes, SaverTypes, FileStep, SavedStep DEF PersistInv, AnyNext, Next

(* The inductive invariant holds throughout. *)
THEOREM PersistInvariant == Spec => []PersistInv
<1>1. PersistInv /\ [Next]_vars => PersistInv'
  BY PersistStep DEF AnyNext
<1>2. QED
  BY PersistInit, <1>1, PTL DEF Spec

(* It also holds when main stops the saver gracefully. *)
THEOREM ShutdownInvariant == ShutdownSpec => []PersistInv
<1>1. PersistInv /\ [Next \/ Shutdown]_vars => PersistInv'
  BY PersistStep DEF AnyNext
<1>2. QED
  BY PersistInit, <1>1, PTL DEF ShutdownSpec

(* Whichever steps of save, main and the resolvers the kills fall on, the  *)
(* cache file is a complete snapshot.                                      *)
THEOREM FileNeverTornAlways == Spec \/ ShutdownSpec => []FileNeverTorn
<1>1. PersistInv => FileNeverTorn
  BY DEF PersistInv
<1>2. QED
  BY PersistInvariant, ShutdownInvariant, <1>1, PTL

(* A clean flag means a saved cache, however many resolvers store and mark *)
(* their lists around the steps of save.                                   *)
THEOREM CleanMeansSavedAlways == Spec \/ ShutdownSpec => []CleanMeansSaved
<1>1. PersistInv => CleanMeansSaved
  BY DEF PersistInv, SavedInv, Marking, CleanMeansSaved, Quiet
<1>2. QED
  BY PersistInvariant, ShutdownInvariant, <1>1, PTL

(* The types hold throughout; the write lock of vkHosts is kept by exactly *)
(* the resolver that calls MarkDirty under it.                             *)
THEOREM PersistTypeOK == Spec \/ ShutdownSpec => []TypeOK
<1>1. PersistInv => TypeOK
  BY DEF PersistInv
<1>2. QED
  BY PersistInvariant, ShutdownInvariant, <1>1, PTL

-----------------------------------------------------------------------------
(* Lists without repetitions *)

(* A set of numbers that is not empty has a least one: induction over the  *)
(* length of a list, or over its positions, without an operator parameter. *)
LEMMA LeastNumber ==
    ASSUME NEW T, T \subseteq Nat, T # {}
    PROVE  \E n \in T : \A m \in T : n <= m
<1> DEFINE R == {ss \in Nat \X Nat : ss[1] < ss[2]}
<1>1. IsWellFoundedOn(R, Nat)
  BY NatLessThanWellFounded, Zenon DEF OpToRel
<1>2. PICK n \in T : \A m \in T : ~(<<m, n>> \in R)
  <2> HIDE DEF R
  <2>1. QED
    BY <1>1, WFMin
<1>3. ASSUME NEW m \in T
      PROVE  n <= m
  <2>1. m \in Nat /\ n \in Nat
    OBVIOUS
  <2>2. m < n => <<m, n>> \in R
    BY <2>1
  <2>3. ~(m < n)
    BY <1>2, <2>2
  <2>4. QED
    BY <2>1, <2>3
<1>4. QED
  BY <1>3

(* f computes Distinct up to position l of s. *)
Computes(f, s, skip, l) ==
    f = [n \in 0..l |->
            IF n = 0 THEN <<>>
            ELSE IF s[n] \in skip \/ InSeq(s[n], f[n - 1]) THEN f[n - 1]
            ELSE Append(f[n - 1], s[n])]

(* The recursion of Distinct is well founded: such a function exists. *)
LEMMA DistinctExists ==
    ASSUME NEW s, NEW skip, NEW l \in Nat
    PROVE  \E f : Computes(f, s, skip, l)
<1> DEFINE T == {n \in Nat : ~\E f : Computes(f, s, skip, n)}
<1>1. SUFFICES ASSUME T # {}
               PROVE  FALSE
  OBVIOUS
<1>2. PICK n \in T : \A m \in T : n <= m
  <2>1. T \subseteq Nat
    OBVIOUS
  <2> HIDE DEF T
  <2>2. QED
    BY <1>1, <2>1, LeastNumber
<1>3. n # 0
  <2> DEFINE f == [m \in 0..0 |-> <<>>]
  <2>1. Computes(f, s, skip, 0)
    BY DEF Computes
  <2>2. QED
    BY <2>1
<1>4. n \in Nat /\ n - 1 \in Nat /\ n - 1 \notin T
  BY <1>2, <1>3
<1>5. PICK g : Computes(g, s, skip, n - 1)
  BY <1>4
<1> DEFINE Next1(f, m) == IF s[m] \in skip \/ InSeq(s[m], f[m - 1]) THEN f[m - 1]
                          ELSE Append(f[m - 1], s[m])
           f == [m \in 0..n |-> IF m = n THEN Next1(g, n) ELSE g[m]]
<1>6. \A m \in 0..(n - 1) : g[m] = IF m = 0 THEN <<>> ELSE Next1(g, m)
  BY <1>5 DEF Computes
<1>7. ASSUME NEW m \in 0..n
      PROVE  f[m] = IF m = 0 THEN <<>> ELSE Next1(f, m)
  <2>1. CASE m = 0
    BY <1>3, <1>4, <1>6, <2>1
  <2>2. CASE m # 0
    <3>1. f[m - 1] = g[m - 1]
      BY <1>4, <2>2
    <3>2. f[m] = Next1(g, m)
      BY <1>4, <1>6, <2>2
    <3>3. QED
      BY <2>2, <3>1, <3>2
  <2>3. QED
    BY <2>1, <2>2
<1>8. Computes(f, s, skip, n)
  BY <1>7 DEF Computes
<1>9. QED
  BY <1>8

(* So Distinct is what the loop computes, one element after the other. *)
LEMMA DistinctLoop ==
    ASSUME NEW A, NEW s \in Seq(A), NEW skip
    PROVE  \E f : /\ Distinct(s, skip) = f[Len(s)]
                  /\ f[0] = <<>>
                  /\ \A n \in 1..Len(s) :
                        f[n] = IF s[n] \in skip \/ InSeq(s[n], f[n - 1]) THEN f[n - 1]
                               ELSE Append(f[n - 1], s[n])
<1> DEFINE upTo[n \in 0..Len(s)] ==
               IF n = 0 THEN <<>>
               ELSE IF s[n] \in skip \/ InSeq(s[n], upTo[n - 1]) THEN upTo[n - 1]
               ELSE Append(upTo[n - 1], s[n])
<1>1. Distinct(s, skip) = upTo[Len(s)]
  BY DEF Distinct
<1>2. Len(s) \in Nat
  OBVIOUS
<1>3. Computes(upTo, s, skip, Len(s))
  <2>1. \E f : Computes(f, s, skip, Len(s))
    BY <1>2, DistinctExists
  <2>2. QED
    BY <2>1 DEF Computes
<1> HIDE DEF upTo
<1>4. \A n \in 0..Len(s) :
          upTo[n] = IF n = 0 THEN <<>>
                    ELSE IF s[n] \in skip \/ InSeq(s[n], upTo[n - 1]) THEN upTo[n - 1]
                    ELSE Append(upTo[n - 1], s[n])
  BY <1>3 DEF Computes
<1>5. upTo[0] = <<>> /\ \A n \in 1..Len(s) :
          upTo[n] = IF s[n] \in skip \/ InSeq(s[n], upTo[n - 1]) THEN upTo[n - 1]
                    ELSE Append(upTo[n - 1], s[n])
  BY <1>2, <1>4
<1>6. QED
  BY <1>1, <1>5

(* Distinct gives a list of elements of s that are not to be skipped, and  *)
(* loses none of them.                                                     *)
LEMMA DistinctKeeps ==
    ASSUME NEW A, NEW s \in Seq(A), NEW skip
    PROVE  /\ Distinct(s, skip) \in Seq(A \ skip)
           /\ \A x \in A \ skip : InSeq(x, s) => InSeq(x, Distinct(s, skip))
<1>1. PICK f : /\ Distinct(s, skip) = f[Len(s)]
               /\ f[0] = <<>>
               /\ \A n \in 1..Len(s) :
                     f[n] = IF s[n] \in skip \/ InSeq(s[n], f[n - 1]) THEN f[n - 1]
                            ELSE Append(f[n - 1], s[n])
  BY DistinctLoop
<1>2. Len(s) \in Nat /\ \A n \in 1..Len(s) : s[n] \in A
  OBVIOUS
<1> DEFINE Good(n) == /\ f[n] \in Seq(A \ skip)
                      /\ \A k \in 1..n : s[k] \in skip \/ InSeq(s[k], f[n])
           T == {n \in 0..Len(s) : ~Good(n)}
<1>3. T = {}
  <2>1. SUFFICES ASSUME T # {}
                 PROVE  FALSE
    OBVIOUS
  <2>2. T \subseteq Nat
    BY <1>2
  <2>3. PICK n \in T : \A m \in T : n <= m
    <3> HIDE DEF T
    <3>1. QED
      BY <2>1, <2>2, LeastNumber
  <2>4. Good(0)
    <3>1. <<>> \in Seq(A \ skip)
      OBVIOUS
    <3>2. QED
      BY <1>1, <3>1
  <2>5. n \in 1..Len(s) /\ n - 1 \in 0..Len(s) /\ n - 1 \notin T
    <3>1. n \in 0..Len(s) /\ n # 0
      BY <2>3, <2>4
    <3> HIDE DEF T
    <3>2. QED
      BY <1>2, <2>3, <3>1
  <2>6. Good(n - 1)
    BY <2>5
  <2>7. f[n] = IF s[n] \in skip \/ InSeq(s[n], f[n - 1]) THEN f[n - 1]
               ELSE Append(f[n - 1], s[n])
    BY <1>1, <2>5
  <2>8. ~Good(n)
    BY <2>3
  <2> HIDE DEF T
  <2>9. CASE s[n] \in skip \/ InSeq(s[n], f[n - 1])
    <3>1. f[n] = f[n - 1]
      BY <2>7, <2>9
    <3>2. \A k \in 1..n : k = n \/ k \in 1..(n - 1)
      BY <1>2, <2>5
    <3>3. QED
      BY <2>6, <2>8, <2>9, <3>1, <3>2
  <2>10. CASE ~(s[n] \in skip \/ InSeq(s[n], f[n - 1]))
    <3> DEFINE g == f[n - 1]
    <3>1. f[n] = Append(g, s[n])
      BY <2>7, <2>10
    <3>2. g \in Seq(A \ skip) /\ s[n] \in A \ skip
      BY <1>2, <2>5, <2>6, <2>10
    <3>3. \A k \in 1..(n - 1) : s[k] \in skip \/ InSeq(s[k], g)
      BY <2>6
    <3> HIDE DEF g
    <3>4. Len(g) \in Nat /\ Len(f[n]) = Len(g) + 1 /\ f[n][Len(g) + 1] = s[n]
          /\ \A k \in 1..Len(g) : f[n][k] = g[k]
      BY <3>1, <3>2
    <3>5. f[n] \in Seq(A \ skip)
      BY <3>1, <3>2
    <3>6. InSeq(s[n], f[n])
      BY <3>4 DEF InSeq
    <3>7. \A x : InSeq(x, g) => InSeq(x, f[n])
      BY <3>4 DEF InSeq
    <3>8. \A k \in 1..n : k = n \/ k \in 1..(n - 1)
      BY <1>2, <2>5
    <3>9. QED
      BY <2>8, <3>3, <3>5, <3>6, <3>7, <3>8
  <2>11. QED
    BY <2>9, <2>10
<1>4. Good(Len(s))
  BY <1>2, <1>3
<1>5. QED
  BY <1>1, <1>2, <1>4 DEF InSeq

(* A list with something to keep does not come out empty. *)
LEMMA DistinctNonempty ==
    ASSUME NEW A, NEW s \in Seq(A), NEW skip, NEW k \in 1..Len(s), s[k] \notin skip
    PROVE  Distinct(s, skip) # <<>>
<1>1. s[k] \in A \ skip /\ InSeq(s[k], s)
  BY DEF InSeq
<1>2. InSeq(s[k], Distinct(s, skip))
  BY <1>1, DistinctKeeps
<1>3. QED
  BY <1>2 DEF InSeq

-----------------------------------------------------------------------------
(* The cascading resolver, for any number of callers and of servers and    *)
(* any answers.  RoundAt counts the servers each call has asked from the   *)
(* index it began at, which the other calls move meanwhile.                *)

(* The server of each round up to the n-th of a call has been asked. *)
Asked(c, n) == \A k \in 0..n : (k + start[c]) % N \in tried[c]

(* What a call has found where it is: nothing before the first answer, and *)
(* something when it is about to save.                                     *)
FoundAt(c) ==
    /\ pc[c] \in {"idle", "all", "single", "one", "loopOne", "queryOne"} => found[c] = <<>>
    /\ pc[c] \in {"saveAll", "saveOne"} => found[c] # <<>>

(* How far the loop of a call is, and that it has asked all servers up to  *)
(* there, or every server when it failed without being cancelled.          *)
RoundAt(c) ==
    /\ pc[c] \in {"loopAll", "queryAll"} => i[c] < MaxServers
    /\ pc[c] = "loopOne" => Asked(c, i[c] - 1)
    /\ pc[c] = "queryOne" => i[c] < N /\ Asked(c, i[c])
    /\ pc[c] \in {"mark", "error"} /\ c \notin cancelled => tried[c] = Servers

CascadeInv ==
    /\ ResolverTypeOK
    /\ \A c \in Callers : FoundAt(c) /\ RoundAt(c)

(* What a response or a merge gives is a list of addresses, and a merge    *)
(* keeps what was there.                                                   *)
LEMMA MergeKeeps ==
    /\ \A r \in Responses : ARecords(r) \in Seq(IPs)
    /\ \A a, b \in Seq(IPs) :
          /\ Merged(a, b) \in Seq(IPs)
          /\ \A x \in IPs : InSeq(x, a) => InSeq(x, Merged(a, b))
          /\ b # <<>> => Merged(a, b) # <<>>
<1>1. ASSUME NEW r \in Responses
      PROVE  ARecords(r) \in Seq(IPs)
  <2>1. r \in Seq(IPs \cup {CName}) /\ (IPs \cup {CName}) \ {CName} = IPs
    BY ResolverAssumption
  <2>2. Distinct(r, {CName}) \in Seq((IPs \cup {CName}) \ {CName})
    BY <2>1, DistinctKeeps
  <2>3. QED
    BY <2>1, <2>2 DEF ARecords
<1>2. ASSUME NEW a \in Seq(IPs), NEW b \in Seq(IPs)
      PROVE  /\ Merged(a, b) \in Seq(IPs)
             /\ \A x \in IPs : InSeq(x, a) => InSeq(x, Merged(a, b))
             /\ b # <<>> => Merged(a, b) # <<>>
  <2>1. a \o b \in Seq(IPs) /\ Len(a) \in Nat /\ Len(b) \in Nat /\ IPs \ {} = IPs
    OBVIOUS
  <2>2. /\ Len(a \o b) = Len(a) + Len(b)
        /\ \A k \in 1..Len(a) : (a \o b)[k] = a[k]
    OBVIOUS
  <2>3. /\ Distinct(a \o b, {}) \in Seq(IPs \ {})
        /\ \A x \in IPs \ {} : InSeq(x, a \o b) => InSeq(x, Distinct(a \o b, {}))
    BY <2>1, DistinctKeeps
  <2>4. \A x \in IPs : InSeq(x, a) => InSeq(x, a \o b)
    BY <2>1, <2>2 DEF InSeq
  <2>5. ASSUME b # <<>>
        PROVE  Distinct(a \o b, {}) # <<>>
    <3>1. Len(b) # 0
      BY <2>5
    <3>2. 1 \in 1..Len(a \o b)
      BY <2>1, <2>2, <3>1
    <3>3. QED
      BY <2>1, <3>2, DistinctNonempty
  <2>6. QED
    BY <2>1, <2>3, <2>4, <2>5 DEF Merged
<1>3. QED
  BY <1>1, <1>2

(* The sizes, and the server of a round is a server. *)
LEMMA ResolverSizes ==
    /\ N \in Nat \ {0}
    /\ MaxServers \in Nat \ {0} /\ MaxServers <= N
    /\ \A n \in Nat : n % N \in Servers
<1>1. N \in Nat \ {0}
  BY ResolverAssumption DEF N
<1>2. MaxServers \in Nat \ {0} /\ MaxServers <= N
  BY <1>1, ResolverAssumption DEF N
<1>3. \A n \in Nat : n % N \in 0..(N - 1)
  BY <1>1
<1>4. QED
  BY <1>1, <1>2, <1>3 DEF Servers

(* Nobody has called yet. *)
LEMMA CascadeInit == ResolverInit => CascadeInv
<1> SUFFICES ASSUME ResolverInit
             PROVE  CascadeInv
  OBVIOUS
<1>1. 0 \in Servers /\ 0 \in 0..N /\ <<>> \in Seq(IPs)
  BY ResolverSizes DEF Servers
<1>2. ResolverTypeOK
  BY <1>1 DEF ResolverInit, ResolverTypeOK
<1>3. \A c \in Callers : FoundAt(c) /\ RoundAt(c)
  BY DEF ResolverInit, FoundAt, RoundAt
<1>4. QED
  BY <1>2, <1>3 DEF CascadeInv

(* The next server of the loop over a few, or what comes after the loop. *)
LEMMA StepAllEffect ==
    ASSUME ResolverTypeOK, NEW c \in Callers, NEW s,
           i[c] < MaxServers, StepAll(c, s)
    PROVE  /\ \A d \in Callers \ {c} : pc'[d] = pc[d] /\ i'[d] = i[d]
           /\ \/ pc'[c] = "loopAll" /\ i'[c] < MaxServers
              \/ pc'[c] = "single" /\ s = <<>>
              \/ pc'[c] = "saveAll" /\ s # <<>>
           /\ pc' \in [Callers -> {"idle", "all", "loopAll", "queryAll", "saveAll", "single",
                                   "one", "loopOne", "queryOne", "saveOne", "mark",
                                   "returned", "error"}]
           /\ i' \in [Callers -> 0..N]
<1>1. /\ N \in Nat /\ MaxServers \in Nat /\ MaxServers <= N
      /\ i \in [Callers -> 0..N] /\ i[c] \in Nat
  BY ResolverSizes DEF ResolverTypeOK
<1>2. CASE i[c] + 1 < MaxServers /\ Len(s) < Enough
  <2>1. i[c] + 1 \in 0..N
    BY <1>1, <1>2
  <2>2. QED
    BY <1>1, <1>2, <2>1 DEF StepAll, Goto, ResolverTypeOK
<1>3. CASE ~(i[c] + 1 < MaxServers /\ Len(s) < Enough)
  BY <1>1, <1>3 DEF StepAll, Goto, ResolverTypeOK
<1>4. QED
  BY <1>2, <1>3

(* The loops of a call keep the types. *)
LEMMA CascadeTypes ==
    ASSUME CascadeInv, [ResolverNext]_resolverVars
    PROVE  ResolverTypeOK'
<1>1. CASE UNCHANGED resolverVars
  BY <1>1 DEF CascadeInv, resolverVars, local, ResolverTypeOK
<1> SUFFICES ASSUME NEW c \in Callers,
                    ResolveAll(c) \/ Proceed(c) \/ Cancel(c)
             PROVE  ResolverTypeOK'
  BY <1>1 DEF ResolverNext
<1>2. ResolverTypeOK
  BY DEF CascadeInv
<1>3. Index(c) \in Servers /\ 0 \in 0..N
  <2>1. /\ N \in Nat \ {0} /\ i[c] \in 0..N
        /\ start[c] \in 0..(N - 1)
    BY <1>2, ResolverSizes DEF ResolverTypeOK, Servers
  <2>2. i[c] + start[c] \in Nat /\ 0 \in 0..N
    BY <2>1
  <2>3. QED
    BY <2>2, ResolverSizes DEF Index
<1> USE <1>2 DEF ResolverTypeOK, Goto
<1>4. CASE ResolveAll(c)
  BY <1>4 DEF ResolveAll, ReturnWith
<1>5. CASE BeginAll(c) \/ BeginOne(c)
  <2>1. /\ start' = [start EXCEPT ![c] = lastSuccessfulIndex]
        /\ i' = [i EXCEPT ![c] = 0]
    BY <1>5 DEF BeginAll, BeginOne
  <2>2. start' \in [Callers -> Servers] /\ i' \in [Callers -> 0..N]
    BY <1>3, <2>1
  <2>3. CASE BeginAll(c)
    BY <2>2, <2>3 DEF BeginAll
  <2>4. CASE BeginOne(c)
    BY <2>2, <2>4 DEF BeginOne
  <2>5. QED
    BY <1>5, <2>3, <2>4
<1>6. CASE AskAll(c) \/ AskOne(c)
  <2>1. tried[c] \cup {Index(c)} \in SUBSET Servers
    BY <1>3
  <2>2. tried' = [tried EXCEPT ![c] = tried[c] \cup {Index(c)}]
    BY <1>6 DEF AskAll, AskOne
  <2>3. tried' \in [Callers -> SUBSET Servers]
    BY <2>1, <2>2
  <2>4. QED
    BY <1>6, <2>3 DEF AskAll, AskOne
<1>7. CASE AnsweredAll(c)
  <2>1. PICK r \in Responses :
            /\ found' = [found EXCEPT ![c] = Merged(@, ARecords(r))]
            /\ StepAll(c, found'[c])
    BY <1>7 DEF AnsweredAll
  <2>2. found' \in [Callers -> Seq(IPs)]
    BY <2>1, MergeKeeps
  <2>3. i[c] < MaxServers
    BY <1>7 DEF AnsweredAll, CascadeInv, RoundAt
  <2>4. QED
    BY <1>3, <1>7, <2>1, <2>2, <2>3, StepAllEffect DEF AnsweredAll
<1>8. CASE FailedAll(c)
  <2>1. i[c] < MaxServers
    BY <1>8 DEF FailedAll, CascadeInv, RoundAt
  <2>2. QED
    BY <1>8, <2>1, StepAllEffect DEF FailedAll
<1>9. CASE SaveAll(c) \/ SaveOne(c)
  <2>1. found[c] \in Seq(IPs) /\ found[c] # <<>>
    BY <1>9 DEF SaveAll, SaveOne, CascadeInv, FoundAt
  <2>2. found[c][1] \in IPs
    BY <2>1
  <2>3. QED
    BY <1>9, <2>1, <2>2 DEF SaveAll, SaveOne, After
<1>10. CASE Resolve(c)
  <2>1. found' \in [Callers -> Seq(IPs)]
    <3>1. CASE ips # NoIP
      <4>1. <<ips>> \in Seq(IPs)
        BY <3>1
      <4>2. QED
        BY <1>10, <3>1, <4>1 DEF Resolve
    <3>2. QED
      BY <1>10, <3>1 DEF Resolve
  <2>2. QED
    BY <1>10, <2>1 DEF Resolve, After
<1>11. CASE AnsweredOne(c)
  <2>1. PICK r \in Responses : /\ ARecords(r) # <<>>
                               /\ found' = [found EXCEPT ![c] = <<FirstARecord(r)>>]
    BY <1>11 DEF AnsweredOne
  <2>2. FirstARecord(r) \in IPs
    BY <2>1, MergeKeeps DEF FirstARecord
  <2>3. QED
    BY <1>3, <1>11, <2>1, <2>2 DEF AnsweredOne
<1>12. CASE FailedOne(c)
  <2>1. i[c] < N
    BY <1>12 DEF FailedOne, CascadeInv, RoundAt
  <2>2. i[c] \in 0..N /\ N \in Nat
    BY ResolverSizes
  <2>3. i[c] + 1 \in 0..N
    BY <2>1, <2>2
  <2>4. QED
    BY <1>12, <2>3 DEF FailedOne
<1>13. CASE GiveUp(c) \/ MarkFailed(c) \/ Cancel(c)
  BY <1>13 DEF GiveUp, MarkFailed, Cancel, local
<1>14. QED
  BY <1>4, <1>5, <1>6, <1>7, <1>8, <1>9, <1>10, <1>11, <1>12, <1>13 DEF Proceed

(* A step of a call.  The others see of it only the shared index, caches   *)
(* and flags.                                                              *)
CallStep(c) == ResolveAll(c) \/ Proceed(c) \/ Cancel(c)

(* A step of one call leaves the variables of the others alone, and no     *)
(* step takes a cancellation back.                                         *)
LEMMA StepIsOwn ==
    ASSUME CascadeInv, NEW c \in Callers, CallStep(c),
           NEW d \in Callers, d # c
    PROVE  /\ pc'[d] = pc[d] /\ start'[d] = start[d] /\ i'[d] = i[d]
           /\ found'[d] = found[d] /\ tried'[d] = tried[d]
           /\ d \in cancelled' <=> d \in cancelled
<1>1. ResolverTypeOK /\ RoundAt(c)
  BY DEF CascadeInv
<1> USE <1>1 DEF ResolverTypeOK, Goto
<1>2. CASE ResolveAll(c) \/ Cancel(c)
  BY <1>2 DEF ResolveAll, ReturnWith, Cancel, local
<1>3. CASE BeginAll(c) \/ BeginOne(c)
  BY <1>3 DEF BeginAll, BeginOne
<1>4. CASE AskAll(c) \/ AskOne(c)
  BY <1>4 DEF AskAll, AskOne
<1>5. CASE AnsweredAll(c)
  <2>1. PICK r \in Responses :
            /\ found' = [found EXCEPT ![c] = Merged(@, ARecords(r))]
            /\ StepAll(c, found'[c])
    BY <1>5 DEF AnsweredAll
  <2>2. i[c] < MaxServers
    BY <1>5 DEF AnsweredAll, RoundAt
  <2>3. QED
    BY <1>5, <2>1, <2>2, StepAllEffect DEF AnsweredAll
<1>6. CASE FailedAll(c)
  <2>1. i[c] < MaxServers
    BY <1>6 DEF FailedAll, RoundAt
  <2>2. QED
    BY <1>6, <2>1, StepAllEffect DEF FailedAll
<1>7. CASE SaveAll(c) \/ SaveOne(c)
  BY <1>7 DEF SaveAll, SaveOne
<1>8. CASE Resolve(c)
  BY <1>8 DEF Resolve
<1>9. CASE AnsweredOne(c)
  BY <1>9 DEF AnsweredOne
<1>10. CASE FailedOne(c)
  BY <1>10 DEF FailedOne
<1>11. CASE GiveUp(c) \/ MarkFailed(c)
  BY <1>11 DEF GiveUp, MarkFailed
<1>12. QED
  BY <1>2, <1>3, <1>4, <1>5, <1>6, <1>7, <1>8, <1>9, <1>10, <1>11
     DEF CallStep, Proceed

(* The addresses a call has are still there after a step. *)
Kept(c) ==
    \A x \in IPs : InSeq(x, found[c]) /\ pc[c] # "idle" => InSeq(x, found'[c])

(* A step of a call keeps what it has found, and leaves it at a place that *)
(* agrees with that.                                                       *)
LEMMA FoundStep ==
    ASSUME CascadeInv, NEW c \in Callers, CallStep(c)
    PROVE  FoundAt(c)' /\ Kept(c)
<1>1. ResolverTypeOK /\ RoundAt(c) /\ FoundAt(c)
  BY DEF CascadeInv
<1>2. found[c] = <<>> => Kept(c)
  <2>1. Len(<<>>) = 0
    OBVIOUS
  <2>2. QED
    BY <2>1 DEF Kept, InSeq
<1>3. found'[c] = found[c] => Kept(c)
  BY DEF Kept
<1> USE <1>1 DEF ResolverTypeOK, Goto, FoundAt
<1>4. CASE ResolveAll(c)
  BY <1>2, <1>4 DEF ResolveAll, ReturnWith
<1>5. CASE Cancel(c)
  BY <1>3, <1>5 DEF Cancel, local
<1>6. CASE BeginAll(c) \/ BeginOne(c)
  BY <1>3, <1>6 DEF BeginAll, BeginOne
<1>7. CASE AskAll(c) \/ AskOne(c)
  BY <1>3, <1>7 DEF AskAll, AskOne
<1>8. CASE AnsweredAll(c)
  <2>1. PICK r \in Responses :
            /\ ARecords(r) # <<>>
            /\ found' = [found EXCEPT ![c] = Merged(@, ARecords(r))]
            /\ StepAll(c, found'[c])
    BY <1>8 DEF AnsweredAll
  <2>2. i[c] < MaxServers
    BY <1>8 DEF AnsweredAll, RoundAt
  <2>3. found'[c] = Merged(found[c], ARecords(r))
    BY <2>1
  <2>4. found[c] \in Seq(IPs) /\ ARecords(r) \in Seq(IPs)
    BY MergeKeeps
  <2>5. /\ \A x \in IPs : InSeq(x, found[c]) => InSeq(x, found'[c])
        /\ found'[c] # <<>>
    BY <2>1, <2>3, <2>4, MergeKeeps
  <2>6. Kept(c)
    BY <2>5 DEF Kept
  <2>7. pc'[c] \in {"loopAll", "saveAll"}
    BY <2>1, <2>2, <2>5, StepAllEffect
  <2>8. QED
    BY <2>5, <2>6, <2>7
<1>9. CASE FailedAll(c)
  <2>1. i[c] < MaxServers /\ StepAll(c, found[c]) /\ found' = found
    BY <1>9 DEF FailedAll, RoundAt
  <2>2. \/ pc'[c] = "loopAll"
        \/ pc'[c] = "single" /\ found[c] = <<>>
        \/ pc'[c] = "saveAll" /\ found[c] # <<>>
    BY <2>1, StepAllEffect
  <2>3. QED
    BY <1>3, <2>1, <2>2
<1>10. CASE SaveAll(c) \/ SaveOne(c)
  BY <1>3, <1>10 DEF SaveAll, SaveOne, After
<1>11. CASE Resolve(c)
  <2>1. found[c] = <<>>
    BY <1>11 DEF Resolve
  <2>2. \/ pc'[c] \in {"saveAll", "returned"} /\ found'[c] = <<ips>>
        \/ pc'[c] = "one" /\ found'[c] = <<>>
    BY <1>11, <2>1 DEF Resolve, After
  <2>3. <<ips>> # <<>>
    OBVIOUS
  <2>4. QED
    BY <1>2, <2>1, <2>2, <2>3
<1>12. CASE AnsweredOne(c)
  BY <1>2, <1>12 DEF AnsweredOne
<1>13. CASE FailedOne(c)
  BY <1>3, <1>13 DEF FailedOne
<1>14. CASE GiveUp(c) \/ MarkFailed(c)
  BY <1>3, <1>14 DEF GiveUp, MarkFailed
<1>15. QED
  BY <1>4, <1>5, <1>6, <1>7, <1>8, <1>9, <1>10, <1>11, <1>12, <1>13, <1>14
     DEF CallStep, Proceed

(* N rounds that begin anywhere come by every server. *)
LEMMA FullTurn ==
    ASSUME NEW n \in Nat \ {0}, NEW s \in 0..(n - 1), NEW v \in 0..(n - 1)
    PROVE  \E k \in 0..(n - 1) : (k + s) % n = v
<1> DEFINE k == IF v >= s THEN v - s ELSE v - s + n
<1>1. k \in 0..(n - 1)
  OBVIOUS
<1>2. (k + s) % n = v
  OBVIOUS
<1>3. QED
  BY <1>1, <1>2

(* A step of a call keeps the account of the servers it has asked. *)
LEMMA RoundStep ==
    ASSUME CascadeInv, NEW c \in Callers, CallStep(c)
    PROVE  RoundAt(c)'
<1>1. ResolverTypeOK /\ RoundAt(c)
  BY DEF CascadeInv
<1>2. /\ N \in Nat \ {0} /\ MaxServers \in Nat \ {0}
      /\ i[c] \in 0..N /\ start[c] \in 0..(N - 1)
  BY <1>1, ResolverSizes DEF ResolverTypeOK, Servers
<1> USE <1>1 DEF ResolverTypeOK, Goto, RoundAt
<1>3. CASE ResolveAll(c)
  BY <1>3 DEF ResolveAll, ReturnWith
<1>4. CASE Cancel(c)
  BY <1>4 DEF Cancel, local, Asked
<1>5. CASE BeginAll(c)
  BY <1>2, <1>5 DEF BeginAll
<1>6. CASE BeginOne(c)
  BY <1>6 DEF BeginOne, Asked
<1>7. CASE AskAll(c)
  BY <1>7 DEF AskAll
<1>8. CASE AskOne(c)
  <2>1. /\ pc'[c] = "queryOne" /\ start' = start /\ i' = i /\ i[c] < N
        /\ tried'[c] = tried[c] \cup {(i[c] + start[c]) % N}
    BY <1>8 DEF AskOne, Index
  <2>2. Asked(c, i[c] - 1)
    BY <1>8 DEF AskOne
  <2>3. \A k \in 0..i[c] : k = i[c] \/ k \in 0..(i[c] - 1)
    BY <1>2
  <2>4. \A k \in 0..i[c] : (k + start[c]) % N \in tried'[c]
    BY <2>1, <2>2, <2>3 DEF Asked
  <2>5. Asked(c, i[c])'
    BY <2>1, <2>4 DEF Asked
  <2>6. QED
    BY <2>1, <2>5
<1>9. CASE AnsweredAll(c)
  <2>1. PICK r \in Responses : StepAll(c, found'[c])
    BY <1>9 DEF AnsweredAll
  <2>2. i[c] < MaxServers
    BY <1>9 DEF AnsweredAll
  <2>3. \/ pc'[c] = "loopAll" /\ i'[c] < MaxServers
        \/ pc'[c] \in {"single", "saveAll"}
    BY <2>1, <2>2, StepAllEffect
  <2>4. QED
    BY <2>3
<1>10. CASE FailedAll(c)
  <2>1. i[c] < MaxServers /\ StepAll(c, found[c])
    BY <1>10 DEF FailedAll
  <2>2. \/ pc'[c] = "loopAll" /\ i'[c] < MaxServers
        \/ pc'[c] \in {"single", "saveAll"}
    BY <2>1, StepAllEffect
  <2>3. QED
    BY <2>2
<1>11. CASE SaveAll(c) \/ SaveOne(c)
  BY <1>11 DEF SaveAll, SaveOne, After
<1>12. CASE Resolve(c)
  BY <1>12 DEF Resolve, After
<1>13. CASE AnsweredOne(c)
  BY <1>13 DEF AnsweredOne
<1>14. CASE FailedOne(c)
  <2>1. /\ pc'[c] = "loopOne" /\ i'[c] = i[c] + 1 /\ start' = start /\ tried' = tried
        /\ Asked(c, i[c])
    BY <1>14 DEF FailedOne
  <2>2. i'[c] - 1 = i[c]
    BY <1>2, <2>1
  <2>3. Asked(c, i[c] - 1)'
    BY <2>1, <2>2 DEF Asked
  <2>4. QED
    BY <2>1, <2>3
<1>15. CASE GiveUp(c)
  <2>1. /\ pc'[c] \in {"mark", "error"} /\ cancelled' = cancelled /\ tried' = tried
        /\ c \notin cancelled => i[c] = N
        /\ Asked(c, i[c] - 1)
    BY <1>15 DEF GiveUp
  <2>2. ASSUME c \notin cancelled, NEW v \in Servers
        PROVE  v \in tried[c]
    <3>1. PICK k \in 0..(N - 1) : (k + start[c]) % N = v
      BY <1>2, FullTurn DEF Servers
    <3>2. QED
      BY <2>1, <2>2, <3>1 DEF Asked
  <2>3. tried[c] \subseteq Servers
    OBVIOUS
  <2>4. QED
    BY <2>1, <2>2, <2>3
<1>16. CASE MarkFailed(c)
  BY <1>16 DEF MarkFailed
<1>17. QED
  BY <1>3, <1>4, <1>5, <1>6, <1>7, <1>8, <1>9, <1>10, <1>11, <1>12, <1>13, <1>14, <1>15, <1>16
     DEF CallStep, Proceed

(* Every step keeps the invariant, and what each call has found. *)
LEMMA CascadeStep ==
    CascadeInv /\ [ResolverNext]_resolverVars =>
        /\ CascadeInv'
        /\ \A d \in Callers : Kept(d)
<1> SUFFICES ASSUME CascadeInv, [ResolverNext]_resolverVars
             PROVE  CascadeInv' /\ \A d \in Callers : Kept(d)
  OBVIOUS
<1>1. ResolverTypeOK'
  BY CascadeTypes
<1>2. ASSUME NEW d \in Callers
      PROVE  FoundAt(d)' /\ RoundAt(d)' /\ Kept(d)
  <2>1. FoundAt(d) /\ RoundAt(d)
    BY DEF CascadeInv
  <2>2. CASE UNCHANGED resolverVars
    BY <2>1, <2>2 DEF resolverVars, local, FoundAt, RoundAt, Asked, Kept
  <2>3. ASSUME NEW c \in Callers, CallStep(c)
        PROVE  FoundAt(d)' /\ RoundAt(d)' /\ Kept(d)
    <3>1. CASE c = d
      BY <2>3, <3>1, FoundStep, RoundStep
    <3>2. CASE c # d
      <4>1. /\ pc'[d] = pc[d] /\ start'[d] = start[d] /\ i'[d] = i[d]
            /\ found'[d] = found[d] /\ tried'[d] = tried[d]
            /\ d \in cancelled' <=> d \in cancelled
        BY <2>3, <3>2, StepIsOwn
      <4>2. QED
        BY <2>1, <4>1 DEF FoundAt, RoundAt, Asked, Kept
    <3>3. QED
      BY <3>1, <3>2
  <2>4. QED
    BY <2>2, <2>3 DEF ResolverNext, CallStep
<1>3. QED
  BY <1>1, <1>2 DEF CascadeInv

(* The account of every call under way holds throughout, for any number of *)
(* callers, servers and answers.                                           *)
THEOREM CascadeInvariant == ResolverSpec => []CascadeInv
<1>1. ResolverInit => CascadeInv
  BY CascadeInit
<1>2. CascadeInv /\ [ResolverNext]_resolverVars => CascadeInv'
  BY CascadeStep
<1>3. QED
  BY <1>1, <1>2, PTL DEF ResolverSpec

(* A resolution that fails without being cancelled has asked every server, *)
(* although the shared index it began at moves while its loop runs.        *)
THEOREM EveryServerTriedAlways == ResolverSpec => []EveryServerTried
<1>1. CascadeInv => EveryServerTried
  BY DEF CascadeInv, RoundAt, EveryServerTried
<1>2. ResolverSpec => []CascadeInv
  BY CascadeInvariant
<1>3. QED
  BY <1>1, <1>2, PTL

(* No step of any call loses an address that a server has given to it.     *)
THEOREM AnswersKeptAlways == ResolverSpec => AnswersKept
<1>1. CascadeInv /\ [ResolverNext]_resolverVars => \A c \in Callers : Kept(c)
  BY CascadeStep
<1>2. CascadeInv /\ [ResolverNext]_resolverVars =>
          [\A c \in Callers : \A x \in IPs :
              InSeq(x, found[c]) /\ pc[c] # "idle"
                  => InSeq(x, found'[c])]_resolverVars
  BY <1>1 DEF Kept
<1>3. ResolverSpec => []CascadeInv
  BY CascadeInvariant
<1>4. QED
  BY <1>2, <1>3, PTL DEF ResolverSpec, AnswersKept

-----------------------------------------------------------------------------
(* The manager of VK addresses, for any number of goroutines and           *)
(* addresses.  The loop of selectBestIP is shown to find a best address in *)
(* every list.                                                             *)

(* A dialer chooses from a list that is not empty, and whoever dials or    *)
(* records an outcome has an address.                                      *)
AddressAt(p) ==
    /\ hpc[p] = "select" => listed[p] # <<>>
    /\ hpc[p] \in {"dial", "success", "failure"} => chosen[p] \in IPs

HostsInv ==
    /\ HostsTypeOK
    /\ \A p \in Procs : AddressAt(p)

(* Comparing fractions by cross-multiplication is transitive. *)
LEMMA FractionOrder ==
    ASSUME NEW a \in Nat, NEW b \in Nat \ {0}, NEW c \in Nat, NEW d \in Nat \ {0},
           NEW e \in Nat, NEW f \in Nat \ {0},
           ~(a * d > c * b), e * d > c * f
    PROVE  e * b > a * f
<1> DEFINE ad == a * d
           cb == c * b
           ed == e * d
           cf == c * f
<1>1. ad \in Nat /\ cb \in Nat /\ ed \in Nat /\ cf \in Nat /\ ad <= cb /\ ed > cf
  OBVIOUS
<1>2. ad * f <= cb * f
  <2> HIDE DEF ad, cb, ed, cf
  <2>1. QED
    BY <1>1
<1>3. ed * b > cf * b
  <2> HIDE DEF ad, cb, ed, cf
  <2>1. QED
    BY <1>1
<1>4. cb * f = cf * b
  OBVIOUS
<1>5. ad * f = d * (a * f) /\ ed * b = d * (e * b)
  OBVIOUS
<1> DEFINE af == a * f
           eb == e * b
<1>6. af \in Nat /\ eb \in Nat /\ d * eb > d * af
  <2>1. ad * f \in Nat /\ cb * f \in Nat /\ ed * b \in Nat /\ cf * b \in Nat
    OBVIOUS
  <2>2. QED
    BY <1>2, <1>3, <1>4, <1>5, <2>1
<1>7. eb > af
  <2> HIDE DEF af, eb
  <2>1. CASE eb <= af
    <3>1. d * eb <= d * af
      BY <1>6, <2>1
    <3>2. d * eb \in Nat /\ d * af \in Nat
      BY <1>6
    <3>3. QED
      BY <1>6, <3>1, <3>2
  <2>2. QED
    BY <1>6, <2>1
<1>8. QED
  BY <1>7

(* What one knows of an address. *)
Measured == [tries : Nat, ok : Nat, fails : Nat, rtt : Nat, old : BOOLEAN]

(* A score is a fraction, and only an excluded address has the score 0. *)
LEMMA ScoreType ==
    ASSUME NEW m \in Measured
    PROVE  /\ Score(m).num \in Nat /\ Score(m).den \in Nat \ {0}
           /\ Excluded(m) => Score(m) = [num |-> 0, den |-> 1]
           /\ ~Excluded(m) => Score(m).num > 0
<1>1. CASE Unmeasured(m)
  BY <1>1 DEF Score, Excluded
<1>2. CASE ~Unmeasured(m) /\ Excluded(m)
  BY <1>2 DEF Score
<1>3. CASE ~Unmeasured(m) /\ ~Excluded(m)
  <2>1. m.tries \in Nat \ {0} /\ m.ok \in Nat /\ m.rtt + 1 \in Nat \ {0}
    BY <1>3 DEF Measured, Unmeasured
  <2>2. ~(m.ok * 10 < m.tries)
    BY <1>3 DEF Excluded
  <2>3. m.ok * 1000 \in Nat /\ m.ok * 1000 > 0
    BY <2>1, <2>2
  <2>4. \A x, y \in Nat \ {0} : x * y \in Nat \ {0}
    OBVIOUS
  <2>5. m.tries * (m.rtt + 1) \in Nat \ {0}
    BY <2>1, <2>4
  <2>6. Score(m) = [num |-> m.ok * 1000, den |-> m.tries * (m.rtt + 1)]
    BY <1>3 DEF Score
  <2>7. QED
    BY <1>3, <2>3, <2>5, <2>6
<1>4. QED
  BY <1>1, <1>2, <1>3

(* The k-th address is the first of the best among the first n of a list. *)
BestOf(s, k, n) ==
    LET sc(j) == Score(metrics[s[j]])
    IN  /\ \A j \in 1..n : ~Beats(sc(j), sc(k))
        /\ \A j \in 1..(k - 1) : Beats(sc(k), sc(j))

(* The loop of selectBestIP finds one in every list that is not empty. *)
LEMMA BestExists ==
    ASSUME metrics \in [IPs -> Measured], NEW s \in Seq(IPs), s # <<>>
    PROVE  \E k \in 1..Len(s) : BestOf(s, k, Len(s))
<1> DEFINE sc(j) == Score(metrics[s[j]])
<1>1. Len(s) \in Nat \ {0} /\ \A j \in 1..Len(s) : s[j] \in IPs
  OBVIOUS
<1>2. \A j \in 1..Len(s) : sc(j).num \in Nat /\ sc(j).den \in Nat \ {0}
  <2>1. \A j \in 1..Len(s) : metrics[s[j]] \in Measured
    BY <1>1
  <2>2. QED
    BY <2>1, ScoreType
<1> DEFINE T == {n \in 1..Len(s) : ~\E k \in 1..n : BestOf(s, k, n)}
<1>3. T = {}
  <2>1. SUFFICES ASSUME T # {}
                 PROVE  FALSE
    OBVIOUS
  <2>2. T \subseteq Nat
    BY <1>1
  <2>3. PICK n \in T : \A m \in T : n <= m
    <3> HIDE DEF T
    <3>1. QED
      BY <2>1, <2>2, LeastNumber
  <2>4. n \in 1..Len(s) /\ ~\E k \in 1..n : BestOf(s, k, n)
    BY <2>3
  <2> HIDE DEF T, sc
  <2>5. n # 1
    <3>1. ASSUME n = 1
          PROVE  BestOf(s, 1, 1)
      BY <1>1, <1>2 DEF BestOf, Beats, sc
    <3>2. QED
      BY <2>4, <3>1
  <2>6. n - 1 \in 1..Len(s) /\ n \in Nat
    BY <1>1, <2>4, <2>5
  <2>7. n - 1 \notin T
    BY <2>3, <2>6
  <2>8. PICK k \in 1..(n - 1) : BestOf(s, k, n - 1)
    BY <2>6, <2>7 DEF T
  <2>9. k \in 1..n /\ k \in 1..Len(s) /\ n \in 1..n
    BY <1>1, <2>4, <2>6
  <2>10. /\ \A j \in 1..(n - 1) : ~Beats(sc(j), sc(k))
         /\ \A j \in 1..(k - 1) : Beats(sc(k), sc(j))
    BY <2>8 DEF BestOf, sc
  <2>11. \A j \in 1..n : j = n \/ j \in 1..(n - 1)
    BY <2>6
  <2>12. CASE ~Beats(sc(n), sc(k))
    <3>1. \A j \in 1..n : ~Beats(sc(j), sc(k))
      BY <2>10, <2>11, <2>12
    <3>2. BestOf(s, k, n)
      BY <2>10, <3>1 DEF BestOf, sc
    <3>3. QED
      BY <2>4, <2>9, <3>2
  <2>13. CASE Beats(sc(n), sc(k))
    <3>1. ASSUME NEW j \in 1..(n - 1)
          PROVE  Beats(sc(n), sc(j)) /\ ~Beats(sc(j), sc(n))
      <4>1. j \in 1..Len(s)
        BY <1>1, <2>4, <2>6
      <4>2. ~(sc(j).num * sc(k).den > sc(k).num * sc(j).den)
        BY <2>10, <3>1 DEF Beats
      <4>3. sc(n).num * sc(k).den > sc(k).num * sc(n).den
        BY <2>13 DEF Beats
      <4>4. sc(n).num * sc(j).den > sc(j).num * sc(n).den
        BY <1>2, <2>4, <2>9, <4>1, <4>2, <4>3, FractionOrder
      <4>5. /\ sc(n).num * sc(j).den \in Int /\ sc(j).num * sc(n).den \in Int
        BY <1>2, <2>4, <4>1
      <4>6. QED
        BY <4>4, <4>5 DEF Beats
    <3>2. ~Beats(sc(n), sc(n))
      <4>1. sc(n).num * sc(n).den \in Int
        BY <1>2, <2>4
      <4>2. QED
        BY <4>1 DEF Beats
    <3>3. BestOf(s, n, n)
      BY <2>11, <3>1, <3>2 DEF BestOf, sc
    <3>4. QED
      BY <2>4, <2>9, <3>3
  <2>14. QED
    BY <2>12, <2>13
<1>4. QED
  BY <1>1, <1>3

(* selectBestIP gives an address of the list, and one that is not excluded *)
(* if there is one.                                                        *)
LEMMA BestIsUsable ==
    ASSUME metrics \in [IPs -> Measured], NEW s \in Seq(IPs), s # <<>>
    PROVE  /\ Best(s) \in IPs
           /\ (\E j \in 1..Len(s) : ~Excluded(metrics[s[j]]))
                  => ~Excluded(metrics[Best(s)])
<1> DEFINE first == CHOOSE k \in 1..Len(s) : BestOf(s, k, Len(s))
<1>1. Best(s) = s[first]
  BY DEF Best, BestOf
<1>2. first \in 1..Len(s) /\ BestOf(s, first, Len(s))
  BY BestExists
<1> HIDE DEF first
<1>3. s[first] \in IPs /\ metrics[s[first]] \in Measured
  BY <1>2
<1>4. ASSUME NEW j \in 1..Len(s), ~Excluded(metrics[s[j]]),
             Excluded(metrics[s[first]])
      PROVE  FALSE
  <2>1. metrics[s[j]] \in Measured
    OBVIOUS
  <2>2. /\ Score(metrics[s[first]]) = [num |-> 0, den |-> 1]
        /\ Score(metrics[s[j]]).num \in Nat /\ Score(metrics[s[j]]).num > 0
        /\ Score(metrics[s[j]]).den \in Nat
    BY <1>3, <1>4, <2>1, ScoreType
  <2>3. Beats(Score(metrics[s[j]]), Score(metrics[s[first]]))
    BY <2>2 DEF Beats
  <2>4. QED
    BY <1>2, <2>3 DEF BestOf
<1>5. QED
  BY <1>1, <1>3, <1>4

(* Lists of addresses merge into a list of addresses, which is empty only  *)
(* if both are.                                                            *)
LEMMA MergeUniqueType ==
    ASSUME NEW a \in Seq(IPs), NEW b \in Seq(IPs)
    PROVE  /\ mergeUnique(a, b) \in Seq(IPs)
           /\ b # <<>> => mergeUnique(a, b) # <<>>
<1>1. a \o b \in Seq(IPs) /\ Len(a \o b) = Len(a) + Len(b) /\ IPs \ {} = IPs
  OBVIOUS
<1>2. Distinct(a \o b, {}) \in Seq(IPs \ {})
  BY <1>1, DistinctKeeps
<1>3. ASSUME b # <<>>
      PROVE  Distinct(a \o b, {}) # <<>>
  <2>1. Len(a) \in Nat /\ Len(b) \in Nat /\ Len(b) # 0
    BY <1>3
  <2>2. 1 \in 1..Len(a \o b)
    BY <1>1, <2>1
  <2>3. QED
    BY <1>1, <2>2, DistinctNonempty
<1>4. QED
  BY <1>1, <1>2, <1>3 DEF mergeUnique

(* Nobody has resolved or measured anything yet. *)
LEMMA HostsInvInit == HostsInit => HostsInv
<1> SUFFICES ASSUME HostsInit
             PROVE  HostsInv
  OBVIOUS
<1>1. <<>> \in Seq(IPs) /\ NoMetric \in Measured
  BY DEF NoMetric, Measured
<1>2. metrics \in [IPs -> Measured] /\ \A a \in IPs : metrics[a] = NoMetric
  BY <1>1 DEF HostsInit
<1>3. HostsTypeOK
  BY <1>1, <1>2 DEF HostsInit, HostsTypeOK, NoMetric, Measured
<1>4. \A p \in Procs : AddressAt(p)
  BY DEF HostsInit, AddressAt
<1>5. QED
  BY <1>3, <1>4 DEF HostsInv

(* The metrics of every address are of their type and count no more        *)
(* outcomes than attempts.                                                 *)
MetricsOK ==
    /\ metrics \in [IPs -> Measured]
    /\ \A a \in IPs : metrics[a].ok + metrics[a].fails <= metrics[a].tries
    /\ \A a \in IPs : ~metrics[a].old => metrics[a].ok > 0

(* What the goroutines carry. *)
CarriedOK ==
    /\ dynamic \in Seq(IPs)
    /\ dnsOK \in BOOLEAN
    /\ waiting \subseteq Procs /\ reading \subseteq Collectors
    /\ hpc \in [Procs -> Writes \cup {"idle", "dns", "all", "select", "dial",
                                                 "outer", "inside", "probe"}]
    /\ answer \in [Procs -> AnswerLists \cup {<<>>}]
    /\ listed \in [Procs -> Seq(IPs)]
    /\ chosen \in [Procs -> IPs \cup {NoIP}]

(* Together they are the type of the state. *)
LEMMA HostsTypes == HostsTypeOK <=> MetricsOK /\ CarriedOK
  BY DEF HostsTypeOK, MetricsOK, CarriedOK, Measured

(* Recording an outcome, and time, keep the metrics consistent. *)
LEMMA MetricsStep ==
    ASSUME HostsInv, [HostsNext]_hostsVars
    PROVE  MetricsOK'
<1>1. MetricsOK /\ \A p \in Procs : AddressAt(p)
  BY HostsTypes DEF HostsInv
<1>2. ASSUME metrics' = metrics
      PROVE  MetricsOK'
  BY <1>1, <1>2 DEF MetricsOK
<1>3. ASSUME NEW a \in IPs, NEW m \in Measured, metrics' = [metrics EXCEPT ![a] = m],
             m.ok + m.fails <= m.tries, ~m.old => m.ok > 0
      PROVE  MetricsOK'
  <2>1. metrics' \in [IPs -> Measured]
    BY <1>1, <1>3 DEF MetricsOK
  <2>2. \A b \in IPs : metrics'[b] = IF b = a THEN m ELSE metrics[b]
    BY <1>1, <1>3 DEF MetricsOK
  <2>3. QED
    BY <1>1, <1>3, <2>1, <2>2 DEF MetricsOK
<1>4. ASSUME NEW p \in Procs, RecordSuccess(p)
      PROVE  MetricsOK'
  <2> DEFINE a == chosen[p]
             o == metrics[a]
  <2>1. a \in IPs
    BY <1>1, <1>4 DEF RecordSuccess, Move, AddressAt
  <2>2. o \in Measured /\ o.ok + o.fails <= o.tries
    BY <1>1, <2>1 DEF MetricsOK
  <2>3. PICK r \in RTTs : metrics' = [metrics EXCEPT ![a] =
            [tries |-> o.tries + 1, ok |-> o.ok + 1, fails |-> 0, old |-> FALSE,
             rtt |-> IF o.rtt = 0 THEN r ELSE (7 * o.rtt + 3 * r) \div 10]]
    BY <1>4 DEF RecordSuccess
  <2>4. r \in Nat /\ o.rtt \in Nat /\ o.ok \in Nat /\ o.fails \in Nat /\ o.tries \in Nat
    BY <2>2, VkHostsAssumption DEF Measured
  <2>5. (7 * o.rtt + 3 * r) \div 10 \in Nat
    <3>1. \A x, y \in Nat : (7 * x + 3 * y) \div 10 \in Nat
      OBVIOUS
    <3>2. QED
      BY <2>4, <3>1
  <2> DEFINE m == [tries |-> o.tries + 1, ok |-> o.ok + 1, fails |-> 0, old |-> FALSE,
                   rtt |-> IF o.rtt = 0 THEN r ELSE (7 * o.rtt + 3 * r) \div 10]
  <2>6. m \in Measured /\ m.ok + m.fails <= m.tries /\ m.ok > 0
    <3> HIDE DEF o
    <3>1. m.ok + m.fails <= m.tries /\ m.ok > 0
      BY <2>2, <2>4
    <3>2. m \in Measured
      <4>1. o.tries + 1 \in Nat /\ o.ok + 1 \in Nat /\ 0 \in Nat
        BY <2>4
      <4>2. (IF o.rtt = 0 THEN r ELSE (7 * o.rtt + 3 * r) \div 10) \in Nat
        BY <2>4, <2>5, Zenon
      <4>3. QED
        BY <4>1, <4>2, Zenon DEF Measured
    <3>3. QED
      BY <3>1, <3>2
  <2>7. QED
    BY <1>3, <2>1, <2>3, <2>6
<1>5. ASSUME NEW p \in Procs, RecordFailure(p)
      PROVE  MetricsOK'
  <2> DEFINE a == chosen[p]
             o == metrics[a]
             m == [o EXCEPT !.tries = @ + 1, !.fails = @ + 1]
  <2>1. a \in IPs
    BY <1>1, <1>5 DEF RecordFailure, Move, AddressAt
  <2>2. o \in Measured /\ o.ok + o.fails <= o.tries /\ (~o.old => o.ok > 0)
    BY <1>1, <2>1 DEF MetricsOK
  <2>3. metrics' = [metrics EXCEPT ![a] = m]
    BY <1>1, <1>5, <2>1 DEF RecordFailure, MetricsOK, Measured
  <2>4. m \in Measured /\ m.ok + m.fails <= m.tries /\ (~m.old => m.ok > 0)
    <3> HIDE DEF o
    <3>1. /\ m.tries = o.tries + 1 /\ m.fails = o.fails + 1 /\ m.ok = o.ok /\ m.old = o.old
          /\ o.tries \in Nat /\ o.fails \in Nat /\ o.ok \in Nat
      BY <2>2 DEF Measured
    <3>2. m.ok + m.fails <= m.tries
      BY <2>2, <3>1
    <3>3. m \in Measured
      <4>1. o.tries + 1 \in Nat /\ o.fails + 1 \in Nat
        BY <3>1
      <4>2. QED
        BY <2>2, <4>1, Zenon DEF Measured
    <3>4. ~m.old => m.ok > 0
      BY <2>2, <3>1
    <3>5. QED
      BY <3>2, <3>3, <3>4
  <2>5. QED
    BY <1>3, <2>1, <2>3, <2>4
<1>6. ASSUME NEW a \in IPs, Age(a)
      PROVE  MetricsOK'
  <2> DEFINE m == [metrics[a] EXCEPT !.old = TRUE]
  <2>1. metrics' = [metrics EXCEPT ![a] = m]
    BY <1>1, <1>6 DEF Age, MetricsOK, Measured
  <2>2. m \in Measured /\ m.ok + m.fails <= m.tries /\ m.old
    BY <1>1 DEF MetricsOK, Measured
  <2>3. QED
    BY <1>3, <2>1, <2>2
<1>7. CASE UNCHANGED hostsVars
  BY <1>2, <1>7 DEF hostsVars, data
<1>8. ASSUME NEW p \in Procs,
             \/ VkResolve(p) \/ ResolveStep(p) \/ Dial(p) \/ Collect(p)
             \/ CollectStep(p)
      PROVE  MetricsOK'
  <2>1. RecordSuccess(p) \/ RecordFailure(p) \/ metrics' = metrics
    BY <1>8 DEF VkResolve, ResolveStep, Dial, Collect, CollectStep,
                data, DnsAnswers, DnsFails, Lock, MergeDynamic,
                DnsFailed, AllIPs, Select, CollectIPs,
                CollectUnlock, VkUpdateDynamic, MarkDNSWorking, Probe,
                Collected
  <2>2. QED
    BY <1>2, <1>4, <1>5, <2>1
<1>9. QED
  BY <1>6, <1>7, <1>8 DEF HostsNext

(* What the goroutines carry keeps its type, and every place its address. *)
LEMMA CarriedStep ==
    ASSUME HostsInv, NEW p \in Procs,
           \/ VkResolve(p) \/ ResolveStep(p) \/ Dial(p) \/ Collect(p)
           \/ CollectStep(p)
    PROVE  CarriedOK' /\ \A q \in Procs : AddressAt(q)'
<1>1. MetricsOK /\ CarriedOK /\ \A q \in Procs : AddressAt(q)
  BY HostsTypes DEF HostsInv
<1>2. /\ Baseline \in Seq(IPs) /\ Baseline # <<>> /\ <<>> \in Seq(IPs)
      /\ \A a \in AnswerLists : a \in Seq(IPs)
      /\ answer[p] \in Seq(IPs)
  <2>1. /\ Baseline \in Seq(IPs) /\ Baseline # <<>> /\ <<>> \in Seq(IPs)
        /\ \A a \in AnswerLists : a \in Seq(IPs)
    BY VkHostsAssumption
  <2>2. answer[p] \in AnswerLists \cup {<<>>}
    BY <1>1 DEF CarriedOK
  <2>3. QED
    BY <2>1, <2>2
<1>3. Known \in Seq(IPs) /\ Known # <<>>
  BY <1>1, <1>2, MergeUniqueType DEF Known, CarriedOK
<1>4. mergeUnique(dynamic, answer[p]) \in Seq(IPs)
  BY <1>1, <1>2, MergeUniqueType DEF CarriedOK
<1> USE <1>1 DEF CarriedOK, AddressAt, Move, data, Writes, Unlock
<1>5. CASE VkResolve(p)
  BY <1>5 DEF VkResolve
<1>6. CASE DnsAnswers(p)
  BY <1>6 DEF DnsAnswers
<1>7. CASE DnsFails(p)
  BY <1>7 DEF DnsFails
<1>8. CASE Lock(p)
  BY <1>8 DEF Lock
<1>9. CASE MergeDynamic(p)
  BY <1>2, <1>4, <1>9 DEF MergeDynamic
<1>10. CASE DnsFailed(p)
  BY <1>10 DEF DnsFailed
<1>11. CASE AllIPs(p)
  BY <1>3, <1>11 DEF AllIPs
<1>12. CASE Select(p)
  <2>1. listed[p] \in Seq(IPs) /\ listed[p] # <<>>
    BY <1>12 DEF Select
  <2>2. Best(listed[p]) \in IPs
    BY <2>1, BestIsUsable DEF MetricsOK
  <2>3. QED
    BY <1>2, <1>12, <2>2 DEF Select
<1>13. CASE Dial(p)
  BY <1>13 DEF Dial
<1>14. CASE RecordSuccess(p)
  BY <1>14 DEF RecordSuccess, AfterDial
<1>15. CASE RecordFailure(p)
  BY <1>15 DEF RecordFailure, AfterDial
<1>16. CASE Collect(p)
  BY <1>16 DEF Collect
<1>17. CASE CollectIPs(p)
  BY <1>3, <1>17 DEF CollectIPs
<1>18. CASE CollectUnlock(p)
  BY <1>18 DEF CollectUnlock
<1>19. CASE VkUpdateDynamic(p)
  BY <1>2, <1>19 DEF VkUpdateDynamic
<1>20. CASE MarkDNSWorking(p)
  BY <1>20 DEF MarkDNSWorking
<1>21. CASE Probe(p)
  <2>1. listed[p] \in Seq(IPs) /\ listed[p] # <<>>
    BY <1>21 DEF Probe
  <2>2. Head(listed[p]) \in IPs /\ Tail(listed[p]) \in Seq(IPs)
    BY <2>1
  <2>3. QED
    BY <1>21, <2>2 DEF Probe
<1>22. CASE Collected(p)
  BY <1>2, <1>22 DEF Collected
<1>23. QED
  BY <1>5, <1>6, <1>7, <1>8, <1>9, <1>10, <1>11, <1>12, <1>13, <1>14, <1>15, <1>16, <1>17,
     <1>18, <1>19, <1>20, <1>21, <1>22 DEF ResolveStep, CollectStep

(* Every step keeps the invariant. *)
LEMMA HostsStep == HostsInv /\ [HostsNext]_hostsVars => HostsInv'
<1> SUFFICES ASSUME HostsInv, [HostsNext]_hostsVars
             PROVE  HostsInv'
  OBVIOUS
<1>1. MetricsOK'
  BY MetricsStep
<1>2. CarriedOK' /\ \A q \in Procs : AddressAt(q)'
  <2>1. CarriedOK /\ \A q \in Procs : AddressAt(q)
    BY HostsTypes DEF HostsInv
  <2>2. CASE UNCHANGED hostsVars
    BY <2>1, <2>2 DEF hostsVars, data, CarriedOK, AddressAt
  <2>3. CASE \E a \in IPs : Age(a)
    BY <2>1, <2>3 DEF Age, CarriedOK, AddressAt
  <2>4. QED
    BY <2>2, <2>3, CarriedStep DEF HostsNext
<1>3. HostsTypeOK'
  BY <1>1, <1>2 DEF HostsTypeOK, MetricsOK, CarriedOK, Measured
<1>4. QED
  BY <1>2, <1>3 DEF HostsInv

(* The types, the account of outcomes and the addresses at hand hold       *)
(* throughout, for any number of dialers, collectors and addresses.        *)
THEOREM HostsInvariant == HostsSpec => []HostsInv
<1>1. HostsInit => HostsInv
  BY HostsInvInit
<1>2. HostsInv /\ [HostsNext]_hostsVars => HostsInv'
  BY HostsStep
<1>3. QED
  BY <1>1, <1>2, PTL DEF HostsSpec

(* Whatever was recorded since the list was read, an excluded address is   *)
(* chosen only when all of the list are excluded.                          *)
THEOREM UsableFirstAlways == HostsSpec => UsableFirst
<1>1. HostsInv => \A p \in Dialers : SelectsUsable(p)
  <2> SUFFICES ASSUME HostsInv, NEW p \in Dialers, Select(p),
                      \E k \in 1..Len(listed[p]) : ~Excluded(metrics[listed[p][k]])
               PROVE  ~Excluded(metrics[chosen'[p]])
    BY DEF SelectsUsable
  <2>1. p \in Procs /\ MetricsOK /\ CarriedOK /\ AddressAt(p)
    BY HostsTypes DEF HostsInv, Procs
  <2>2. listed[p] \in Seq(IPs) /\ listed[p] # <<>>
    BY <2>1 DEF CarriedOK, AddressAt, Select, Move
  <2>3. chosen'[p] = Best(listed[p])
    BY <2>1 DEF CarriedOK, Select
  <2>4. ~Excluded(metrics[Best(listed[p])])
    BY <2>1, <2>2, BestIsUsable DEF MetricsOK
  <2>5. QED
    BY <2>3, <2>4
<1>2. HostsSpec => []HostsInv
  BY HostsInvariant
<1>3. QED
  BY <1>1, <1>2, PTL DEF HostsSpec, UsableFirst
=============================================================================
