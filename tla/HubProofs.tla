----------------------------- MODULE HubProofs -----------------------------
(***************************************************************************)
(* Proofs about the packet hub, for any number of streams, buffers,        *)
(* payloads and senders and any queue capacity.  OwnInv says where a       *)
(* buffer can be without counting; the counts of BufferOwnedOnce follow    *)
(* from it.  That packets stay intact rests on it too: the hub writes only *)
(* into a buffer nobody else holds.  StreakInv follows the round robin     *)
(* backwards from the stream used last.                                    *)
(***************************************************************************)
EXTENDS Hub, FiniteSetTheorems, TLAPS

InQueue(b) == \E s \in Streams : \E i \in 1..Len(queue[s]) : queue[s][i].buf = b
InTx(b) == \E s \in Streams : tx[s].buf = b

(* A buffer is in the pool at most once, and then nowhere else. *)
PoolInv ==
    \A b \in Buffers :
        /\ pool[b] \in {0, 1}
        /\ pool[b] = 1 => b \in heap /\ hbuf # b /\ ~InQueue(b) /\ ~InTx(b)

(* The hub has a buffer from Get until it sends, drops or gives it back,   *)
(* alone, and a packet in it once it has read one.                         *)
HubInv ==
    /\ hpc \in {"read", "pick", "send"} <=> hbuf # NoBuf
    /\ hbuf # NoBuf => hbuf \in heap /\ ~InQueue(hbuf) /\ ~InTx(hbuf)
    /\ hpc \in {"pick", "send"} => mem[hbuf] \in Packets

(* The entries of all queues are different buffers, within capacity. *)
QueueInv ==
    /\ \A s \in Streams : Len(queue[s]) <= QueueCap
    /\ \A s \in Streams : \A i \in 1..Len(queue[s]) : queue[s][i].buf \in heap
    /\ \A s, t \in Streams : \A i \in 1..Len(queue[s]), j \in 1..Len(queue[t]) :
          queue[s][i].buf = queue[t][j].buf => s = t /\ i = j

(* A buffer that is being sent has left its queue, and one stream sends it. *)
TxInv ==
    \A s \in Streams : tx[s] # NoItem =>
        /\ tx[s].buf \in heap /\ ~InQueue(tx[s].buf)
        /\ \A t \in Streams : tx[t].buf = tx[s].buf => s = t

(* A buffer that was allocated is somewhere. *)
NoneLost == \A b \in heap : pool[b] = 1 \/ hbuf = b \/ InQueue(b) \/ InTx(b)

OwnInv == PoolInv /\ HubInv /\ QueueInv /\ TxInv /\ NoneLost

(* How many picks ago stream s was used, if every pick is one further. *)
Age(s) == IF s <= lastUsed THEN lastUsed - s ELSE lastUsed - s + N

(* The streams of the last streak.n picks have the streak's address; while *)
(* a stream is being picked lastUsed is already one ahead.                 *)
StreakInv ==
    streak.n > 0 =>
        /\ \A s \in Streams : ready[s]
        /\ hpc = "pick" => probe = 0
        /\ \A s \in Streams :
              \/ streak.n = N
              \/ IF hpc = "pick" THEN Age(s) \in 1..streak.n ELSE Age(s) < streak.n
              => peer[s] = streak.addr

HubInvariant == TypeOK /\ OwnInv /\ PacketsIntact /\ StreakInv
-----------------------------------------------------------------------------
(* The round robin *)

(* The index arithmetic of streams[(lastUsed+i)%nStreams] stays inside the *)
(* slice, and a step of one wraps at its end only.                         *)
LEMMA RoundRobin ==
    ASSUME NEW u \in Streams
    PROVE  /\ \A i \in Nat : (u + i) % N \in Streams
           /\ (u + 0) % N = u
           /\ (u + 1) % N = IF u + 1 = N THEN 0 ELSE u + 1
  BY HubAssumption DEF Streams

(* Before the first packet all buffers are still to be allocated. *)
LEMMA HubInit == Init => HubInvariant
<1> SUFFICES ASSUME Init
             PROVE  HubInvariant
  OBVIOUS
<1> USE HubAssumption DEF Init
<1>1. TypeOK
  BY DEF TypeOK, Streams, NoItem
<1>2. OwnInv
  <2>1. \A b : ~InQueue(b)
    BY DEF InQueue
  <2>2. \A b \in Buffers : ~InTx(b)
    BY DEF InTx, NoItem
  <2>3. QED
    BY <2>1, <2>2 DEF OwnInv, PoolInv, HubInv, QueueInv, TxInv, NoneLost, NoItem
<1>3. PacketsIntact /\ StreakInv
  BY DEF PacketsIntact, StreakInv
<1>4. QED
  BY <1>1, <1>2, <1>3 DEF HubInvariant

(* Candidate indexes the slice of streams. *)
LEMMA CandidateType == TypeOK => Candidate \in Streams
  BY RoundRobin, HubAssumption DEF TypeOK, Candidate

(* What the hub adds to a queue and a stream takes from one. *)
LEMMA QueueEnds ==
    ASSUME NEW q \in Seq(Items)
    PROVE  /\ \A x \in Items :
                 /\ Append(q, x) \in Seq(Items) /\ Len(Append(q, x)) = Len(q) + 1
                 /\ Append(q, x)[Len(q) + 1] = x
                 /\ \A i \in 1..Len(q) : Append(q, x)[i] = q[i]
           /\ q # <<>> =>
                 /\ Head(q) = q[1] /\ Len(q) > 0
                 /\ Tail(q) \in Seq(Items) /\ Len(Tail(q)) = Len(q) - 1
                 /\ \A i \in 1..Len(Tail(q)) : Tail(q)[i] = q[i + 1]
  OBVIOUS

(* The entries of a queue are items. *)
LEMMA EntryType ==
    ASSUME TypeOK, NEW s \in Streams, NEW i \in 1..Len(queue[s])
    PROVE  queue[s][i] \in Items /\ queue[s][i].buf \in Buffers
<1>1. queue[s] \in Seq(Items)
  BY DEF TypeOK
<1>2. queue[s][i] \in Items
  BY <1>1
<1>3. QED
  BY <1>2 DEF Items

(* The buffer of an item is a buffer, and NoItem has none. *)
LEMMA SendingType ==
    ASSUME TypeOK, NEW s \in Streams
    PROVE  /\ tx[s] = NoItem => tx[s].buf = NoBuf /\ tx[s].buf \notin Buffers
           /\ tx[s] # NoItem => tx[s] \in Items /\ tx[s].buf \in Buffers
<1>1. tx[s] \in Items \cup {NoItem}
  BY DEF TypeOK
<1>2. NoItem.buf = NoBuf /\ NoBuf \notin Buffers
  BY HubAssumption DEF NoItem
<1>3. \A x \in Items : x.buf \in Buffers
  BY DEF Items
<1>4. QED
  BY <1>1, <1>2, <1>3

(* Every step keeps the types; a packet that is queued is one that was     *)
(* read.                                                                   *)
LEMMA TypeStep == HubInvariant /\ [Next]_vars => TypeOK'
<1> SUFFICES ASSUME HubInvariant, [Next]_vars
             PROVE  TypeOK'
  OBVIOUS
<1>0. TypeOK /\ HubInv
  BY DEF HubInvariant, OwnInv
<1>a. Candidate \in Streams
  BY <1>0, CandidateType
<1>b. hpc \in {"read", "pick", "send"} => hbuf \in Buffers
  BY <1>0 DEF TypeOK, HubInv
<1> USE HubAssumption, <1>0, <1>a, <1>b DEF TypeOK, hubVars, txVars
<1>1. ASSUME NEW b \in Buffers, HubGetPooled(b) \/ HubGetNew(b)
      PROVE  TypeOK'
  <2>1. pool' \in [Buffers -> Nat]
    BY <1>1 DEF HubGetPooled, HubGetNew
  <2>2. CASE HubGetPooled(b)
    BY <2>1, <2>2 DEF HubGetPooled
  <2>3. CASE HubGetNew(b)
    BY <2>1, <2>3 DEF HubGetNew
  <2>4. QED
    BY <1>1, <2>2, <2>3
<1>2. ASSUME NEW p \in Packets, NEW a \in Addrs, HubRead(p, a)
      PROVE  TypeOK'
  <2>1. lastUsed' \in Streams /\ 0 \in 0..N
    BY <1>2, RoundRobin DEF HubRead
  <2>2. QED
    BY <1>2, <2>1 DEF HubRead
<1>3. CASE HubReadError \/ HubNoStream \/ HubDrop
  <2>1. hpc \in {"read", "pick", "send"} /\ Put(hbuf)
    BY <1>3 DEF HubReadError, HubNoStream, HubDrop
  <2>2. hbuf \in Buffers
    BY <2>1, <1>b
  <2>3. pool' \in [Buffers -> Nat]
    BY <2>1, <2>2 DEF Put
  <2>4. hbuf' \in Buffers \cup {NoBuf} /\ hpc' \in {"get", "read", "pick", "send", "stopped"}
    BY <1>3 DEF HubReadError, HubNoStream, HubDrop
  <2>5. UNCHANGED <<heap, mem, queue, txVars, peer, listening, hfrom, lastUsed, probe, streak>>
    BY <1>3 DEF HubReadError, HubNoStream, HubDrop
  <2>6. QED
    BY <2>3, <2>4, <2>5
<1>4. CASE HubSkip
  BY <1>4 DEF HubSkip
<1>5. CASE HubPick
  <2>1. Longer \in [addr : Addrs \cup {NoAddr}, n : 0..N]
    <3>1. 0 \in 0..N /\ 1 \in 0..N /\ streak.n \in 0..N /\ streak.addr \in Addrs \cup {NoAddr}
      OBVIOUS
    <3>2. (IF streak.n < N THEN streak.n + 1 ELSE N) \in 0..N
      BY <3>1
    <3>3. [streak EXCEPT !.n = IF streak.n < N THEN streak.n + 1 ELSE N]
             \in [addr : Addrs \cup {NoAddr}, n : 0..N]
      BY <3>2
    <3>4. QED
      BY <3>1, <3>3 DEF Longer
  <2>2. QED
    BY <1>5, <2>1 DEF HubPick
<1>6. CASE HubEnqueue
  <2>1. [buf |-> hbuf, pkt |-> mem[hbuf]] \in Items
    BY <1>6 DEF HubEnqueue, HubInv, Items
  <2>2. queue' \in [Streams -> Seq(Items)]
    BY <1>6, <2>1, QueueEnds DEF HubEnqueue
  <2>3. QED
    BY <1>6, <2>2 DEF HubEnqueue
<1>7. ASSUME NEW s \in Streams, TxTake(s)
      PROVE  TypeOK'
  <2>1. Head(queue[s]) \in Items /\ Tail(queue[s]) \in Seq(Items)
    BY <1>7, QueueEnds, EntryType DEF TxTake
  <2>2. QED
    BY <1>7, <2>1 DEF TxTake
<1>8. ASSUME NEW s \in Streams, TxDone(s)
      PROVE  TypeOK'
  <2>1. tx[s].buf \in Buffers
    BY <1>8, SendingType DEF TxDone
  <2>2. pool' \in [Buffers -> Nat]
    BY <1>8, <2>1 DEF TxDone, Put
  <2>3. serving' \in [Streams -> BOOLEAN]
    BY <1>8 DEF TxDone
  <2>4. tx' \in [Streams -> Items \cup {NoItem}]
    BY <1>8 DEF TxDone
  <2>5. QED
    BY <1>8, <2>2, <2>3, <2>4 DEF TxDone
<1>9. ASSUME NEW s \in Streams, SessionUp(s) \/ SessionDown(s)
      PROVE  TypeOK'
  BY <1>9 DEF SessionUp, SessionDown
<1>10. CASE CloseListener
  BY <1>10 DEF CloseListener
<1>11. CASE UNCHANGED vars
  BY <1>11 DEF vars
<1>12. QED
  BY <1>1, <1>2, <1>3, <1>4, <1>5, <1>6, <1>7, <1>8, <1>9, <1>10, <1>11 DEF Next, Hub
-----------------------------------------------------------------------------
(* Ownership *)

(* Buffers outside the heap are nowhere. *)
LEMMA OutsideHeap ==
    ASSUME TypeOK, OwnInv, NEW b \in Buffers \ heap
    PROVE  pool[b] = 0 /\ hbuf # b /\ ~InQueue(b) /\ ~InTx(b)
<1>1. pool[b] = 0 /\ hbuf # b
  BY HubAssumption DEF OwnInv, PoolInv, HubInv
<1>2. ~InQueue(b)
  BY DEF OwnInv, QueueInv, InQueue
<1>3. ~InTx(b)
  BY SendingType DEF OwnInv, TxInv, InTx
<1>4. QED
  BY <1>1, <1>2, <1>3

(* The hub takes a buffer from the pool, or allocates one. *)
LEMMA OwnGet ==
    ASSUME TypeOK, OwnInv, NEW b \in Buffers, HubGetPooled(b) \/ HubGetNew(b)
    PROVE  OwnInv'
<1>1. UNCHANGED <<queue, tx>> /\ hbuf' = b /\ hbuf = NoBuf /\ hpc' = "read"
  BY DEF HubGetPooled, HubGetNew, txVars, OwnInv, HubInv
<1>2. \A d : (InQueue(d)' <=> InQueue(d)) /\ (InTx(d)' <=> InTx(d))
  BY <1>1 DEF InQueue, InTx
<1>3. ~InQueue(b) /\ ~InTx(b)
  BY OutsideHeap DEF HubGetPooled, HubGetNew, OwnInv, PoolInv
<1>4. b \in heap' /\ heap \subseteq heap' /\ heap' \subseteq heap \cup {b}
  BY DEF HubGetPooled, HubGetNew, OwnInv, PoolInv
<1>5. pool'[b] = 0 /\ \A d \in Buffers : d # b => pool'[d] = pool[d]
  BY OutsideHeap DEF HubGetPooled, HubGetNew, OwnInv, PoolInv, TypeOK
<1>6. PoolInv'
  BY <1>1, <1>2, <1>4, <1>5 DEF OwnInv, PoolInv
<1>7. HubInv'
  BY <1>1, <1>2, <1>3, <1>4, HubAssumption DEF HubInv
<1>8. QueueInv' /\ TxInv'
  BY <1>1, <1>2, <1>4 DEF OwnInv, QueueInv, TxInv
<1>9. NoneLost'
  BY <1>1, <1>2, <1>4, <1>5, HubAssumption DEF OwnInv, NoneLost, TypeOK
<1>10. QED
  BY <1>6, <1>7, <1>8, <1>9 DEF OwnInv

(* The hub gives its buffer back: the socket is closed, no stream is ready *)
(* or the stream's queue is full.                                          *)
LEMMA OwnGiveBack ==
    ASSUME TypeOK, OwnInv, HubReadError \/ HubNoStream \/ HubDrop
    PROVE  OwnInv'
<1>1. /\ UNCHANGED <<queue, tx, heap>> /\ hbuf' = NoBuf /\ hpc' \in {"get", "stopped"}
      /\ hpc \in {"read", "pick", "send"} /\ Put(hbuf)
  BY DEF HubReadError, HubNoStream, HubDrop, txVars
<1>2. hbuf \in heap /\ hbuf \in Buffers /\ ~InQueue(hbuf) /\ ~InTx(hbuf)
  BY <1>1 DEF OwnInv, HubInv, TypeOK
<1>3. \A d : (InQueue(d)' <=> InQueue(d)) /\ (InTx(d)' <=> InTx(d))
  BY <1>1 DEF InQueue, InTx
<1>4. pool'[hbuf] = 1 /\ \A d \in Buffers : d # hbuf => pool'[d] = pool[d]
  BY <1>1, <1>2 DEF OwnInv, PoolInv, TypeOK, Put
<1>5. PoolInv'
  BY <1>1, <1>2, <1>3, <1>4, HubAssumption DEF OwnInv, PoolInv
<1>6. HubInv'
  BY <1>1 DEF HubInv
<1>7. QueueInv' /\ TxInv'
  BY <1>1, <1>3 DEF OwnInv, QueueInv, TxInv
<1>8. NoneLost'
  BY <1>1, <1>2, <1>3, <1>4 DEF OwnInv, NoneLost, TypeOK
<1>9. QED
  BY <1>5, <1>6, <1>7, <1>8 DEF OwnInv

(* The hub's buffer goes to the end of the candidate's queue. *)
LEMMA OwnEnqueue ==
    ASSUME TypeOK, OwnInv, HubEnqueue
    PROVE  OwnInv'
<1> DEFINE c == Candidate
           x == [buf |-> hbuf, pkt |-> mem[hbuf]]
           n == Len(queue[c])
<1>1. /\ UNCHANGED <<pool, heap, tx>> /\ hbuf' = NoBuf /\ hpc' = "get" /\ hpc = "send"
      /\ n < QueueCap /\ queue' = [queue EXCEPT ![c] = Append(queue[c], x)]
  BY DEF HubEnqueue, txVars
<1>2. /\ c \in Streams /\ x \in Items /\ queue[c] \in Seq(Items) /\ n \in Nat
      /\ hbuf \in heap /\ hbuf \in Buffers /\ ~InQueue(hbuf) /\ ~InTx(hbuf)
  <2>1. hbuf \in heap /\ hbuf \in Buffers /\ ~InQueue(hbuf) /\ ~InTx(hbuf) /\ mem[hbuf] \in Packets
    BY <1>1 DEF OwnInv, HubInv, TypeOK
  <2>2. x \in Items
    BY <2>1 DEF Items
  <2>3. c \in Streams
    BY CandidateType
  <2>4. queue[c] \in Seq(Items) /\ n \in Nat
    BY <2>3 DEF TypeOK
  <2>5. QED
    BY <2>1, <2>2, <2>3, <2>4
<1>3. /\ Len(queue'[c]) = n + 1 /\ queue'[c][n + 1].buf = hbuf
      /\ \A i \in 1..n : queue'[c][i] = queue[c][i]
      /\ \A s \in Streams : s # c => queue'[s] = queue[s]
  BY <1>1, <1>2, QueueEnds DEF TypeOK
<1> HIDE DEF c, x, n
<1>4. \A d : InQueue(d)' <=> InQueue(d) \/ d = hbuf
  <2> TAKE d
  <2>1. ASSUME NEW s \in Streams, NEW i \in 1..Len(queue'[s]), queue'[s][i].buf = d
        PROVE  InQueue(d) \/ d = hbuf
    <3>1. CASE s = c /\ i = n + 1
      BY <1>3, <2>1, <3>1
    <3>2. CASE ~(s = c /\ i = n + 1)
      <4>1. i \in 1..Len(queue[s]) /\ queue[s][i] = queue'[s][i]
        BY <1>2, <1>3, <3>2 DEF n
      <4>2. QED
        BY <2>1, <4>1 DEF InQueue
    <3>3. QED
      BY <3>1, <3>2
  <2>2. ASSUME NEW s \in Streams, NEW i \in 1..Len(queue[s]), queue[s][i].buf = d
        PROVE  InQueue(d)'
    <3>1. i \in 1..Len(queue'[s]) /\ queue'[s][i] = queue[s][i]
      BY <1>2, <1>3 DEF n
    <3>2. QED
      BY <2>2, <3>1 DEF InQueue
  <2>3. ASSUME d = hbuf
        PROVE  InQueue(d)'
    <3>1. n + 1 \in 1..Len(queue'[c])
      BY <1>2, <1>3
    <3>2. \E s \in Streams : \E i \in 1..Len(queue'[s]) : queue'[s][i].buf = d
      BY <1>2, <1>3, <2>3, <3>1
    <3>3. QED
      BY <3>2 DEF InQueue
  <2>4. QED
    BY <2>1, <2>2, <2>3 DEF InQueue
<1>5. \A d : InTx(d)' <=> InTx(d)
  BY <1>1 DEF InTx
<1>6. PoolInv'
  BY <1>1, <1>4, <1>5, HubAssumption DEF OwnInv, PoolInv
<1>7. HubInv'
  BY <1>1 DEF HubInv
<1>8. QueueInv'
  <2>1. \A s \in Streams : Len(queue'[s]) <= QueueCap
    BY <1>1, <1>2, <1>3, HubAssumption DEF OwnInv, QueueInv
  <2>2. \A s \in Streams : \A i \in 1..Len(queue'[s]) :
           \/ s = c /\ i = n + 1
           \/ i \in 1..Len(queue[s]) /\ queue'[s][i] = queue[s][i]
    BY <1>2, <1>3 DEF n
  <2>3. \A s \in Streams : \A i \in 1..Len(queue[s]) : queue[s][i].buf # hbuf
    BY <1>2 DEF InQueue
  <2>4. \A s \in Streams : \A i \in 1..Len(queue'[s]) : queue'[s][i].buf \in heap'
    BY <1>1, <1>2, <1>3, <2>2 DEF OwnInv, QueueInv
  <2>5. ASSUME NEW s \in Streams, NEW t \in Streams,
               NEW i \in 1..Len(queue'[s]), NEW j \in 1..Len(queue'[t]),
               queue'[s][i].buf = queue'[t][j].buf
        PROVE  s = t /\ i = j
    <3> DEFINE Added(r, k) == r = c /\ k = n + 1
               Was(r, k) == k \in 1..Len(queue[r]) /\ queue'[r][k] = queue[r][k]
    <3>1. (Added(s, i) \/ Was(s, i)) /\ (Added(t, j) \/ Was(t, j))
      BY <2>2
    <3>2. queue'[c][n + 1].buf = hbuf
      BY <1>3
    <3>3. CASE Was(s, i) /\ Was(t, j)
      BY <2>5, <3>3 DEF OwnInv, QueueInv
    <3>4. CASE Added(s, i) /\ Was(t, j)
      BY <2>3, <2>5, <3>2, <3>4
    <3>5. CASE Was(s, i) /\ Added(t, j)
      BY <2>3, <2>5, <3>2, <3>5
    <3>6. QED
      BY <3>1, <3>3, <3>4, <3>5
  <2>6. QED
    BY <2>1, <2>4, <2>5 DEF QueueInv
<1>9. TxInv'
  BY <1>1, <1>2, <1>4 DEF OwnInv, TxInv, InTx
<1>10. NoneLost'
  BY <1>1, <1>4, <1>5 DEF OwnInv, NoneLost
<1>11. QED
  BY <1>6, <1>7, <1>8, <1>9, <1>10 DEF OwnInv

(* A stream takes the oldest entry of its queue. *)
LEMMA OwnTake ==
    ASSUME TypeOK, OwnInv, NEW s \in Streams, TxTake(s)
    PROVE  OwnInv'
<1> DEFINE h == queue[s][1]
           n == Len(queue[s])
<1>1. /\ UNCHANGED <<pool, heap, mem, hpc, hbuf>> /\ tx[s] = NoItem /\ queue[s] # <<>>
      /\ tx' = [tx EXCEPT ![s] = Head(queue[s])] /\ queue' = [queue EXCEPT ![s] = Tail(queue[s])]
  BY DEF TxTake, hubVars
<1>2. n \in Nat /\ n > 0 /\ h \in Items /\ h.buf \in Buffers /\ 1 \in 1..n /\ Head(queue[s]) = h
  <2>1. queue[s] \in Seq(Items)
    BY DEF TypeOK
  <2>2. n \in Nat /\ n > 0 /\ Head(queue[s]) = h
    BY <1>1, <2>1, QueueEnds
  <2>3. QED
    BY <2>2, EntryType
<1>3. /\ Len(queue'[s]) = n - 1
      /\ \A i \in 1..(n - 1) : queue'[s][i] = queue[s][i + 1]
      /\ \A t \in Streams : t # s => queue'[t] = queue[t]
      /\ tx'[s] = h /\ \A t \in Streams : t # s => tx'[t] = tx[t]
  BY <1>1, <1>2, QueueEnds DEF TypeOK
<1>4. h.buf \in heap /\ InQueue(h.buf) /\ ~InTx(h.buf) /\ hbuf # h.buf /\ pool[h.buf] # 1
  <2>1. h.buf \in heap
    BY <1>2 DEF OwnInv, QueueInv
  <2>2. InQueue(h.buf)
    BY <1>2 DEF InQueue
  <2>3. hbuf # h.buf /\ pool[h.buf] # 1
    BY <1>2, <2>2, HubAssumption DEF OwnInv, HubInv, PoolInv
  <2>4. ~InTx(h.buf)
    BY <1>2, <2>2, SendingType DEF OwnInv, TxInv, InTx
  <2>5. QED
    BY <2>1, <2>2, <2>3, <2>4
<1> HIDE DEF h, n
<1>5. \A t \in Streams : \A i \in 1..Len(queue'[t]) :
         LET k == IF t = s THEN i + 1 ELSE i
         IN  k \in 1..Len(queue[t]) /\ queue'[t][i] = queue[t][k] /\ queue[t][k].buf # h.buf
  <2> TAKE t \in Streams
  <2> TAKE i \in 1..Len(queue'[t])
  <2> DEFINE k == IF t = s THEN i + 1 ELSE i
  <2>1. k \in 1..Len(queue[t]) /\ queue'[t][i] = queue[t][k] /\ ~(t = s /\ k = 1)
    BY <1>2, <1>3 DEF n
  <2>2. queue[t][k].buf # h.buf
    BY <1>2, <2>1 DEF OwnInv, QueueInv, h, n
  <2>3. QED
    BY <2>1, <2>2
<1>6. \A d : InQueue(d)' <=> InQueue(d) /\ d # h.buf
  <2> TAKE d
  <2>1. ASSUME NEW t \in Streams, NEW i \in 1..Len(queue'[t]), queue'[t][i].buf = d
        PROVE  InQueue(d) /\ d # h.buf
    BY <1>5, <2>1 DEF InQueue
  <2>2. ASSUME NEW t \in Streams, NEW i \in 1..Len(queue[t]), queue[t][i].buf = d, d # h.buf
        PROVE  InQueue(d)'
    <3> DEFINE j == IF t = s THEN i - 1 ELSE i
    <3>1. ~(t = s /\ i = 1)
      BY <2>2 DEF h
    <3>2. j \in 1..Len(queue'[t]) /\ queue'[t][j] = queue[t][i]
      BY <1>2, <1>3, <3>1 DEF n
    <3>3. QED
      BY <2>2, <3>2 DEF InQueue
  <2>3. QED
    BY <2>1, <2>2 DEF InQueue
<1>7. \A d \in Buffers : InTx(d)' <=> InTx(d) \/ d = h.buf
  BY <1>1, <1>3, SendingType DEF InTx
<1>8. PoolInv'
  BY <1>1, <1>4, <1>6, <1>7 DEF OwnInv, PoolInv
<1>9. HubInv'
  <2>1. hbuf' = hbuf /\ (hbuf # NoBuf => hbuf \in Buffers)
    BY <1>1 DEF TypeOK
  <2>2. hbuf # NoBuf => ~InQueue(hbuf)' /\ ~InTx(hbuf)'
    BY <1>1, <1>4, <1>6, <1>7, <2>1 DEF OwnInv, HubInv
  <2>3. QED
    BY <1>1, <2>2 DEF OwnInv, HubInv
<1>10. QueueInv'
  <2>1. \A t \in Streams : Len(queue'[t]) <= QueueCap
    BY <1>2, <1>3, HubAssumption DEF OwnInv, QueueInv, n
  <2>2. \A t \in Streams : \A i \in 1..Len(queue'[t]) : queue'[t][i].buf \in heap'
    BY <1>1, <1>5 DEF OwnInv, QueueInv
  <2>3. ASSUME NEW t \in Streams, NEW u \in Streams,
               NEW i \in 1..Len(queue'[t]), NEW j \in 1..Len(queue'[u]),
               queue'[t][i].buf = queue'[u][j].buf
        PROVE  t = u /\ i = j
    <3> DEFINE k == IF t = s THEN i + 1 ELSE i
               l == IF u = s THEN j + 1 ELSE j
    <3>1. /\ k \in 1..Len(queue[t]) /\ l \in 1..Len(queue[u])
          /\ queue[t][k].buf = queue[u][l].buf
      BY <1>5, <2>3
    <3>2. t = u /\ k = l
      BY <3>1 DEF OwnInv, QueueInv
    <3>3. i \in Int /\ j \in Int
      BY <1>2, <1>3
    <3>4. QED
      BY <3>2, <3>3
  <2>4. QED
    BY <2>1, <2>2, <2>3 DEF QueueInv
<1>11. TxInv'
  <2> SUFFICES ASSUME NEW t \in Streams, tx'[t] # NoItem
               PROVE  /\ tx'[t].buf \in heap' /\ ~InQueue(tx[t].buf)'
                      /\ \A u \in Streams : tx'[u].buf = tx'[t].buf => t = u
    BY DEF TxInv
  <2>1. CASE t = s
    BY <1>1, <1>3, <1>4, <1>6, <2>1 DEF InTx
  <2>2. CASE t # s
    <3>1. tx'[t] = tx[t] /\ tx[t] # NoItem /\ tx[t].buf # h.buf
      BY <1>3, <1>4, <2>2 DEF InTx
    <3>2. QED
      BY <1>1, <1>3, <1>6, <3>1 DEF OwnInv, TxInv
  <2>3. QED
    BY <2>1, <2>2
<1>12. NoneLost'
  BY <1>1, <1>6, <1>7 DEF OwnInv, NoneLost, TypeOK
<1>13. QED
  BY <1>8, <1>9, <1>10, <1>11, <1>12 DEF OwnInv

(* A stream has sent a packet, or given up on it. *)
LEMMA OwnDone ==
    ASSUME TypeOK, OwnInv, NEW s \in Streams, TxDone(s)
    PROVE  OwnInv'
<1> DEFINE b == tx[s].buf
<1>1. /\ UNCHANGED <<heap, queue, mem, hpc, hbuf>> /\ Put(b) /\ tx[s] # NoItem
      /\ tx' = [tx EXCEPT ![s] = NoItem]
  BY DEF TxDone, hubVars
<1>2. b \in heap /\ b \in Buffers /\ ~InQueue(b) /\ InTx(b) /\ \A t \in Streams : tx[t].buf = b => t = s
  BY <1>1, SendingType DEF OwnInv, TxInv, InTx
<1>3. hbuf # b /\ pool[b] = 0
  BY <1>2, HubAssumption DEF OwnInv, HubInv, PoolInv
<1>4. /\ tx'[s] = NoItem /\ tx'[s].buf = NoBuf
      /\ \A t \in Streams : t # s => tx'[t] = tx[t]
  BY <1>1 DEF TypeOK, NoItem
<1> HIDE DEF b
<1>5. \A d : InQueue(d)' <=> InQueue(d)
  BY <1>1 DEF InQueue
<1>6. \A d \in Buffers : InTx(d)' <=> InTx(d) /\ d # b
  BY <1>2, <1>4, HubAssumption DEF InTx, b
<1>7. pool'[b] = 1 /\ \A d \in Buffers : d # b => pool'[d] = pool[d]
  BY <1>1, <1>2, <1>3 DEF TypeOK, Put
<1>8. PoolInv'
  BY <1>1, <1>2, <1>3, <1>5, <1>6, <1>7 DEF OwnInv, PoolInv
<1>9. HubInv'
  <2>1. hbuf' = hbuf /\ (hbuf # NoBuf => hbuf \in Buffers)
    BY <1>1 DEF TypeOK
  <2>2. hbuf # NoBuf => ~InQueue(hbuf)' /\ ~InTx(hbuf)'
    BY <1>1, <1>5, <1>6, <2>1 DEF OwnInv, HubInv
  <2>3. QED
    BY <1>1, <2>2 DEF OwnInv, HubInv
<1>10. QueueInv'
  BY <1>1 DEF OwnInv, QueueInv
<1>11. TxInv'
  <2> SUFFICES ASSUME NEW t \in Streams, tx'[t] # NoItem
               PROVE  /\ tx'[t].buf \in heap' /\ ~InQueue(tx[t].buf)'
                      /\ \A u \in Streams : tx'[u].buf = tx'[t].buf => t = u
    BY DEF TxInv
  <2>1. tx'[t] = tx[t] /\ t # s /\ tx[t].buf \in Buffers
    BY <1>4, SendingType
  <2>2. QED
    BY <1>1, <1>4, <1>5, <2>1, HubAssumption DEF OwnInv, TxInv
<1>12. NoneLost'
  BY <1>1, <1>2, <1>5, <1>6, <1>7 DEF OwnInv, NoneLost, TypeOK
<1>13. QED
  BY <1>8, <1>9, <1>10, <1>11, <1>12 DEF OwnInv

(* The other steps move no buffer. *)
LEMMA OwnKept ==
    ASSUME TypeOK, OwnInv, UNCHANGED <<pool, heap, queue, tx, hbuf>>,
           hpc \in {"read", "pick", "send"} <=> hpc' \in {"read", "pick", "send"},
           hpc' \in {"pick", "send"} => mem'[hbuf] \in Packets
    PROVE  OwnInv'
<1>1. \A d : (InQueue(d)' <=> InQueue(d)) /\ (InTx(d)' <=> InTx(d))
  BY DEF InQueue, InTx
<1>2. QED
  BY <1>1 DEF OwnInv, PoolInv, HubInv, QueueInv, TxInv, NoneLost

(* Every step keeps the ownership rule. *)
LEMMA OwnStep == HubInvariant /\ [Next]_vars => OwnInv'
<1> SUFFICES ASSUME HubInvariant, [Next]_vars
             PROVE  OwnInv'
  OBVIOUS
<1>0. TypeOK /\ OwnInv
  BY DEF HubInvariant
<1>1. ASSUME NEW p \in Packets, NEW a \in Addrs, HubRead(p, a)
      PROVE  OwnInv'
  <2>1. hbuf \in Buffers
    BY <1>0, <1>1 DEF HubRead, OwnInv, HubInv, TypeOK
  <2>2. mem'[hbuf] = p
    BY <1>0, <1>1, <2>1 DEF HubRead, TypeOK
  <2>3. QED
    BY <1>0, <1>1, <2>2, OwnKept DEF HubRead, txVars
<1>2. CASE HubSkip \/ HubPick
  BY <1>0, <1>2, OwnKept DEF HubSkip, HubPick, txVars, OwnInv, HubInv
<1>3. ASSUME NEW s \in Streams, SessionUp(s) \/ SessionDown(s)
      PROVE  OwnInv'
  BY <1>0, <1>3, OwnKept DEF SessionUp, SessionDown, hubVars, OwnInv, HubInv
<1>4. CASE CloseListener \/ UNCHANGED vars
  BY <1>0, <1>4, OwnKept DEF CloseListener, vars, txVars, hubVars, OwnInv, HubInv
<1>5. QED
  BY <1>0, <1>1, <1>2, <1>3, <1>4, OwnGet, OwnGiveBack, OwnEnqueue, OwnTake, OwnDone
  DEF Next, Hub
-----------------------------------------------------------------------------
(* Packets *)

(* Every step keeps what is queued and what is being sent: the hub writes  *)
(* into its own buffer only.                                               *)
LEMMA PacketsStep == HubInvariant /\ [Next]_vars => PacketsIntact'
<1> SUFFICES ASSUME HubInvariant, [Next]_vars
             PROVE  PacketsIntact'
  OBVIOUS
<1>0. TypeOK /\ OwnInv /\ PacketsIntact
  BY DEF HubInvariant
<1>1. ASSUME UNCHANGED <<mem, queue, tx>>
      PROVE  PacketsIntact'
  BY <1>0, <1>1 DEF PacketsIntact
<1>2. ASSUME NEW p \in Packets, NEW a \in Addrs, HubRead(p, a)
      PROVE  PacketsIntact'
  <2>1. UNCHANGED <<queue, tx>> /\ mem' = [mem EXCEPT ![hbuf] = p] /\ hbuf # NoBuf
    BY <1>0, <1>2 DEF HubRead, txVars, OwnInv, HubInv
  <2>2. \A d \in Buffers : d # hbuf => mem'[d] = mem[d]
    BY <1>0, <2>1 DEF TypeOK
  <2>3. ~InQueue(hbuf) /\ ~InTx(hbuf)
    BY <1>0, <2>1 DEF OwnInv, HubInv
  <2>4. ASSUME NEW s \in Streams, NEW i \in 1..Len(queue[s])
        PROVE  mem'[queue[s][i].buf] = queue[s][i].pkt
    BY <1>0, <2>2, <2>3, EntryType DEF PacketsIntact, InQueue
  <2>5. ASSUME NEW s \in Streams, tx[s] # NoItem
        PROVE  mem'[tx[s].buf] = tx[s].pkt
    BY <1>0, <2>2, <2>3, <2>5, SendingType DEF PacketsIntact, InTx
  <2>6. QED
    BY <2>1, <2>4, <2>5 DEF PacketsIntact
<1>3. CASE HubEnqueue
  <2> DEFINE c == Candidate
             x == [buf |-> hbuf, pkt |-> mem[hbuf]]
  <2>1. UNCHANGED <<mem, tx>> /\ queue' = [queue EXCEPT ![c] = Append(queue[c], x)]
    BY <1>3 DEF HubEnqueue, txVars
  <2>2. hbuf \in Buffers /\ mem[hbuf] \in Packets
    BY <1>0, <1>3 DEF HubEnqueue, OwnInv, HubInv, TypeOK
  <2>3. c \in Streams /\ x \in Items /\ queue[c] \in Seq(Items)
    BY <1>0, <2>2, CandidateType DEF Items, TypeOK
  <2>4. ASSUME NEW s \in Streams, NEW i \in 1..Len(queue'[s])
        PROVE  \/ queue'[s][i] = x
               \/ i \in 1..Len(queue[s]) /\ queue'[s][i] = queue[s][i]
    BY <1>0, <2>1, <2>3, QueueEnds DEF TypeOK
  <2>5. x.pkt = mem[x.buf]
    OBVIOUS
  <2>6. ASSUME NEW s \in Streams, NEW i \in 1..Len(queue'[s])
        PROVE  mem'[queue'[s][i].buf] = queue'[s][i].pkt
    <3> HIDE DEF c, x
    <3>1. QED
      BY <1>0, <2>1, <2>4, <2>5 DEF PacketsIntact
  <2>7. QED
    BY <1>0, <2>1, <2>6 DEF PacketsIntact
<1>4. ASSUME NEW s \in Streams, TxTake(s)
      PROVE  PacketsIntact'
  <2>1. /\ UNCHANGED mem /\ queue[s] # <<>> /\ tx' = [tx EXCEPT ![s] = Head(queue[s])]
        /\ queue' = [queue EXCEPT ![s] = Tail(queue[s])]
    BY <1>4 DEF TxTake
  <2>2. queue[s] \in Seq(Items) /\ Head(queue[s]) = queue[s][1] /\ 1 \in 1..Len(queue[s])
    BY <1>0, <2>1, QueueEnds DEF TypeOK
  <2>3. ASSUME NEW t \in Streams, NEW i \in 1..Len(queue'[t])
        PROVE  \E k \in 1..Len(queue[t]) : queue'[t][i] = queue[t][k]
    <3>1. CASE t = s
      <4>1. queue'[s] = Tail(queue[s])
        BY <1>0, <2>1 DEF TypeOK
      <4>2. i + 1 \in 1..Len(queue[s]) /\ queue'[s][i] = queue[s][i + 1]
        <5>1. /\ Len(Tail(queue[s])) = Len(queue[s]) - 1 /\ Len(queue[s]) \in Nat
              /\ \A j \in 1..Len(Tail(queue[s])) : Tail(queue[s])[j] = queue[s][j + 1]
          BY <2>1, <2>2, QueueEnds
        <5>2. i \in 1..Len(Tail(queue[s]))
          BY <3>1, <4>1
        <5>3. QED
          BY <4>1, <5>1, <5>2
      <4>3. QED
        BY <3>1, <4>2
    <3>2. CASE t # s
      BY <1>0, <2>1, <2>3, <3>2 DEF TypeOK
    <3>3. QED
      BY <3>1, <3>2
  <2>4. ASSUME NEW t \in Streams
        PROVE  tx'[t] = tx[t] \/ (t = s /\ tx'[t] = queue[s][1])
    BY <1>0, <2>1, <2>2 DEF TypeOK
  <2>5. QED
    BY <1>0, <2>1, <2>2, <2>3, <2>4 DEF PacketsIntact
<1>5. ASSUME NEW s \in Streams, TxDone(s)
      PROVE  PacketsIntact'
  <2>1. UNCHANGED <<mem, queue>>
    BY <1>5 DEF TxDone
  <2>2. ASSUME NEW t \in Streams
        PROVE  tx'[t] = tx[t] \/ tx'[t] = NoItem
    BY <1>0, <1>5 DEF TxDone, TypeOK
  <2>3. QED
    BY <1>0, <2>1, <2>2 DEF PacketsIntact
<1>6. CASE \/ \E b \in Buffers : HubGetPooled(b) \/ HubGetNew(b)
           \/ HubReadError \/ HubSkip \/ HubNoStream \/ HubPick \/ HubDrop
           \/ \E s \in Streams : SessionUp(s) \/ SessionDown(s)
           \/ CloseListener \/ UNCHANGED vars
  BY <1>1, <1>6 DEF HubGetPooled, HubGetNew, HubReadError, HubSkip, HubNoStream, HubPick, HubDrop,
                    SessionUp, SessionDown, CloseListener, vars, txVars
<1>7. QED
  BY <1>2, <1>3, <1>4, <1>5, <1>6 DEF Next, Hub
-----------------------------------------------------------------------------
(* Return addresses *)

(* A step of one makes every other stream one pick older. *)
LEMMA Ageing ==
    ASSUME TypeOK, lastUsed' = (lastUsed + 1) % N, NEW s \in Streams
    PROVE  /\ Age(s) \in 0..(N - 1) /\ Age(s)' \in 0..(N - 1)
           /\ Age(s)' = 0 <=> s = lastUsed'
           /\ Age(s)' > 0 => Age(s)' = Age(s) + 1
<1>1. lastUsed \in Streams /\ lastUsed' = IF lastUsed + 1 = N THEN 0 ELSE lastUsed + 1
  BY RoundRobin DEF TypeOK
<1>2. QED
  BY <1>1, HubAssumption DEF Age, Streams

(* A pick at the first probe makes the streak longer by the stream it is   *)
(* at; nothing else moves the round robin without a pick once all streams  *)
(* are ready.                                                              *)
LEMMA StreakStep == HubInvariant /\ [Next]_vars => StreakInv'
<1> SUFFICES ASSUME HubInvariant, [Next]_vars
             PROVE  StreakInv'
  OBVIOUS
<1>0. TypeOK /\ StreakInv /\ Candidate \in Streams
  BY CandidateType DEF HubInvariant
<1>a. streak.n \in 0..N /\ N \in Nat /\ N > 0 /\ lastUsed \in Streams
  BY <1>0, HubAssumption DEF TypeOK
<1>1. ASSUME UNCHANGED <<peer, lastUsed, probe, streak>>,
             \A s \in Streams : ready[s] => ready'[s],
             hpc' = hpc \/ (hpc # "pick" /\ hpc' # "pick")
      PROVE  StreakInv'
  <2>1. \A s : Age(s)' = Age(s)
    BY <1>1 DEF Age
  <2>2. QED
    BY <1>0, <1>1, <2>1 DEF StreakInv
<1>2. ASSUME NEW p \in Packets, NEW a \in Addrs, HubRead(p, a)
      PROVE  StreakInv'
  <2>1. /\ UNCHANGED <<peer, ready, streak>> /\ hpc = "read" /\ hpc' = "pick" /\ probe' = 0
        /\ lastUsed' = (lastUsed + 1) % N
    BY <1>2 DEF HubRead, txVars
  <2>2. \A s \in Streams : Age(s)' \in 1..streak.n => Age(s) < streak.n
    BY <1>0, <1>a, <2>1, Ageing
  <2>3. QED
    BY <1>0, <2>1, <2>2 DEF StreakInv
<1>3. CASE HubSkip
  BY <1>0, <1>3 DEF HubSkip, StreakInv, txVars
<1>4. CASE HubNoStream
  <2>1. streak.n = 0
    BY <1>0, <1>a, <1>4 DEF HubNoStream, StreakInv
  <2>2. QED
    BY <1>4, <2>1 DEF HubNoStream, StreakInv
<1>5. CASE HubPick
  <2>1. /\ UNCHANGED <<lastUsed, ready>> /\ hpc = "pick" /\ hpc' = "send" /\ streak' = Longer
        /\ peer' = [peer EXCEPT ![Candidate] = hfrom]
    BY <1>5 DEF HubPick, txVars
  <2>2. \A s : Age(s)' = Age(s)
    BY <2>1 DEF Age
  <2>3. CASE probe > 0 \/ \E s \in Streams : ~ready[s]
    BY <2>1, <2>3 DEF Longer, StreakInv
  <2>4. CASE ~(probe > 0 \/ \E s \in Streams : ~ready[s])
    <3>1. probe = 0 /\ Candidate = lastUsed
      BY <1>0, <2>4, RoundRobin DEF TypeOK, Candidate
    <3>2. peer'[lastUsed] = hfrom /\ \A s \in Streams : s # lastUsed => peer'[s] = peer[s]
      BY <1>0, <2>1, <3>1 DEF TypeOK
    <3>3. \A s \in Streams : Age(s) \in 0..(N - 1) /\ (Age(s) = 0 <=> s = lastUsed)
      BY <1>a DEF Age, Streams
    <3>4. CASE streak.addr # hfrom
      <4>1. streak' = [addr |-> hfrom, n |-> 1]
        BY <2>1, <2>4, <3>4 DEF Longer
      <4>2. ASSUME NEW s \in Streams, 1 = N \/ Age(s) < 1
            PROVE  s = lastUsed
        BY <1>a, <3>3, <4>2
      <4>3. QED
        BY <2>1, <2>2, <2>4, <3>2, <4>1, <4>2 DEF StreakInv
    <3>5. CASE streak.addr = hfrom
      <4> DEFINE m == IF streak.n < N THEN streak.n + 1 ELSE N
      <4>1. streak' = [streak EXCEPT !.n = m]
        BY <2>1, <2>4, <3>5 DEF Longer
      <4>2. streak'.n = m /\ streak'.addr = hfrom
        BY <1>0, <3>5, <4>1 DEF TypeOK
      <4>3. ASSUME NEW s \in Streams, m = N \/ Age(s) < m
            PROVE  peer'[s] = hfrom
        <5>1. CASE s = lastUsed
          BY <3>2, <5>1
        <5>2. CASE s # lastUsed
          <6>1. streak.n > 0 /\ (streak.n = N \/ Age(s) \in 1..streak.n)
            BY <1>a, <3>3, <4>3, <5>2
          <6>2. peer[s] = hfrom
            BY <1>0, <2>1, <3>5, <6>1 DEF StreakInv
          <6>3. QED
            BY <3>2, <5>2, <6>2
        <5>3. QED
          BY <5>1, <5>2
      <4>4. QED
        BY <2>1, <2>2, <2>4, <4>2, <4>3 DEF StreakInv
    <3>6. QED
      BY <3>4, <3>5
  <2>5. QED
    BY <2>3, <2>4
<1>6. ASSUME NEW s \in Streams, SessionUp(s)
      PROVE  StreakInv'
  <2>1. \A t \in Streams : ready[t] => ready'[t]
    BY <1>0, <1>6 DEF SessionUp, TypeOK
  <2>2. QED
    BY <1>1, <1>6, <2>1 DEF SessionUp, hubVars
<1>7. CASE \/ \E b \in Buffers : HubGetPooled(b) \/ HubGetNew(b)
           \/ HubReadError \/ HubEnqueue \/ HubDrop
           \/ \E s \in Streams : TxTake(s) \/ TxDone(s) \/ SessionDown(s)
           \/ CloseListener \/ UNCHANGED vars
  BY <1>1, <1>7 DEF HubGetPooled, HubGetNew, HubReadError, HubEnqueue, HubDrop, TxTake, TxDone,
                    SessionDown, CloseListener, vars, txVars, hubVars
<1>8. QED
  BY <1>2, <1>3, <1>4, <1>5, <1>6, <1>7 DEF Next, Hub
-----------------------------------------------------------------------------
(* The inductive invariant holds throughout. *)
THEOREM HubInvariantAlways == Spec => []HubInvariant
<1>1. HubInvariant /\ [Next]_vars => HubInvariant'
  BY TypeStep, OwnStep, PacketsStep, StreakStep DEF HubInvariant
<1>2. QED
  BY HubInit, <1>1, PTL DEF Spec

(* The hub's index into the slice of streams is in range and the rest of   *)
(* its state has its type, for any number of streams.                      *)
THEOREM HubTypeOK == Spec => []TypeOK
<1>1. HubInvariant => TypeOK
  BY DEF HubInvariant
<1>2. QED
  BY HubInvariantAlways, <1>1, PTL

(* No packet is changed between the hub's read and the stream's write,     *)
(* however the hub, the TX goroutines and the pool interleave.             *)
THEOREM PacketsIntactAlways == Spec => []PacketsIntact
<1>1. HubInvariant => PacketsIntact
  BY DEF HubInvariant
<1>2. QED
  BY HubInvariantAlways, <1>1, PTL

(* A set that has at most one element has its cardinality. *)
LEMMA AtMostOne ==
    ASSUME NEW S, \A x, y \in S : x = y
    PROVE  Cardinality(S) = IF S = {} THEN 0 ELSE 1
<1>1. CASE S = {}
  BY <1>1, FS_EmptySet
<1>2. CASE S # {}
  <2>1. PICK x : x \in S
    BY <1>2
  <2>2. S = {x}
    BY <2>1
  <2>3. QED
    BY <1>2, <2>2, FS_Singleton
<1>3. QED
  BY <1>1, <1>2

(* Every allocated buffer is in exactly one place: the pool neither hands  *)
(* out a buffer twice nor loses one, for any number of streams and any     *)
(* queue capacity.                                                         *)
THEOREM BufferOwnedOnceAlways == Spec => []BufferOwnedOnce
<1>1. HubInvariant => BufferOwnedOnce
  <2> SUFFICES ASSUME HubInvariant, NEW b \in heap
               PROVE  LET entries == {e \in Streams \X (1..QueueCap) :
                                        e[2] <= Len(queue[e[1]]) /\ queue[e[1]][e[2]].buf = b}
                          senders == {s \in Streams : tx[s].buf = b}
                          hub == IF hbuf = b THEN 1 ELSE 0
                      IN  pool[b] + hub + Cardinality(entries) + Cardinality(senders) = 1
    BY DEF BufferOwnedOnce
  <2> DEFINE entries == {e \in Streams \X (1..QueueCap) :
                           e[2] <= Len(queue[e[1]]) /\ queue[e[1]][e[2]].buf = b}
             senders == {s \in Streams : tx[s].buf = b}
  <2>1. TypeOK /\ OwnInv /\ b \in Buffers /\ b # NoBuf
    BY HubAssumption DEF HubInvariant, TypeOK
  <2>2. \A s \in Streams : Len(queue[s]) \in Nat
    BY <2>1 DEF TypeOK
  <2>3. entries = {} <=> ~InQueue(b)
    <3>1. ASSUME NEW s \in Streams, NEW i \in 1..Len(queue[s]), queue[s][i].buf = b
          PROVE  <<s, i>> \in entries
      <4>1. i \in 1..QueueCap /\ i <= Len(queue[s])
        BY <2>1, <2>2, HubAssumption DEF OwnInv, QueueInv
      <4>2. QED
        BY <3>1, <4>1
    <3>2. ASSUME NEW e \in entries
          PROVE  InQueue(b)
      BY <2>2 DEF InQueue
    <3>3. QED
      BY <3>1, <3>2 DEF InQueue
  <2>4. \A x, y \in entries : x = y
    <3> TAKE x, y \in entries
    <3>1. /\ x[1] \in Streams /\ y[1] \in Streams
          /\ x[2] \in 1..Len(queue[x[1]]) /\ y[2] \in 1..Len(queue[y[1]])
          /\ queue[x[1]][x[2]].buf = queue[y[1]][y[2]].buf
          /\ x = <<x[1], x[2]>> /\ y = <<y[1], y[2]>>
      BY <2>2
    <3>2. x[1] = y[1] /\ x[2] = y[2]
      BY <2>1, <3>1 DEF OwnInv, QueueInv
    <3>3. QED
      BY <3>1, <3>2
  <2>5. senders = {} <=> ~InTx(b)
    BY DEF InTx
  <2>6. \A x, y \in senders : x = y
    BY <2>1, SendingType DEF OwnInv, TxInv
  <2>7. /\ Cardinality(entries) = IF InQueue(b) THEN 1 ELSE 0
        /\ Cardinality(senders) = IF InTx(b) THEN 1 ELSE 0
    <3> HIDE DEF entries, senders
    <3>1. QED
      BY <2>3, <2>4, <2>5, <2>6, AtMostOne
  <2>8. ~(InQueue(b) /\ InTx(b))
    BY <2>1, SendingType DEF OwnInv, TxInv, InTx
  <2>9. /\ pool[b] \in {0, 1} /\ (pool[b] = 1 => hbuf # b /\ ~InQueue(b) /\ ~InTx(b))
        /\ hbuf = b => ~InQueue(b) /\ ~InTx(b)
        /\ pool[b] = 1 \/ hbuf = b \/ InQueue(b) \/ InTx(b)
    BY <2>1 DEF OwnInv, PoolInv, HubInv, NoneLost
  <2> HIDE DEF entries, senders
  <2>10. pool[b] + (IF hbuf = b THEN 1 ELSE 0) + Cardinality(entries) + Cardinality(senders) = 1
    BY <2>7, <2>8, <2>9
  <2>11. QED
    BY <2>10 DEF entries, senders
<1>2. QED
  BY HubInvariantAlways, <1>1, PTL

(* A client that moved is heard on every stream after one round: once the  *)
(* last N datagrams came from one address with all streams ready, every    *)
(* stream answers to it, for any number of streams.                        *)
THEOREM AddressesCatchUpAlways == Spec => []AddressesCatchUp
<1>1. HubInvariant => AddressesCatchUp
  BY HubAssumption DEF HubInvariant, StreakInv, AddressesCatchUp
<1>2. QED
  BY HubInvariantAlways, <1>1, PTL
=============================================================================
