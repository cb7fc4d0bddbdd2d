-------------------------------- MODULE Hub --------------------------------
(***************************************************************************)
(* The hub goroutine of startProxyImpl and the TX goroutines it feeds      *)
(* (internal/core/turn_client.go).  The hub takes a buffer from packetPool,*)
(* reads a datagram of the local WireGuard client into it, picks a ready   *)
(* stream round robin, remembers the sender as that stream's return        *)
(* address and offers the buffer to the stream's queue s.in.  The stream's *)
(* TX goroutine sends the buffer and gives it back to the pool.            *)
(*                                                                         *)
(* mem[b] is what buffer b holds.  A queue entry carries, beside its       *)
(* buffer, the packet that was in it when it was queued (a history value), *)
(* so that a buffer reused too early shows as a corrupted packet.  The     *)
(* pool is a bag, as sync.Pool is: a buffer put twice is handed out twice. *)
(***************************************************************************)
EXTENDS Integers, Sequences, FiniteSets

CONSTANTS N,            \* number of streams
          Buffers,      \* the packet buffers that can be allocated
          Packets,      \* payloads
          Addrs,        \* addresses of local senders
          QueueCap,     \* capacity of s.in (512)
          NoBuf, NoPkt, NoAddr

ASSUME HubAssumption ==
    /\ N \in Nat \ {0}
    /\ QueueCap \in Nat \ {0}
    /\ NoBuf \notin Buffers
    /\ NoPkt \notin Packets
    /\ NoAddr \notin Addrs

VARIABLES pool,         \* packetPool: copies of each buffer it holds
          heap,         \* buffers allocated so far
          mem,          \* contents of each buffer
          queue,        \* queue[s]: s.in, oldest first
          tx,           \* tx[s]: what the TX goroutine of s holds
          serving,      \* serving[s]: s has a session, so a TX goroutine
          ready,        \* ready[s]: s.ready
          peer,         \* peer[s]: s.peer
          listening,    \* the local socket lc is open
          hpc,          \* where the hub is
          hbuf, hfrom,  \* its buffer and the sender of the datagram in it
          lastUsed,     \* lastUsed
          probe,        \* the loop index i of the search for a ready stream
          streak        \* history: how many of the last picks, all made with
                        \* every stream ready, were for the same sender

hubVars == <<hpc, hbuf, hfrom, lastUsed, probe, streak>>
txVars == <<tx, serving, ready>>
vars == <<pool, heap, mem, queue, txVars, peer, listening, hubVars>>

Streams == 0..(N - 1)
Items == [buf : Buffers, pkt : Packets]
NoItem == [buf |-> NoBuf, pkt |-> NoPkt]

(* streams[(lastUsed+i)%nStreams] *)
Candidate == (lastUsed + probe) % N

Init ==
    /\ pool = [b \in Buffers |-> 0]
    /\ heap = {}
    /\ mem = [b \in Buffers |-> NoPkt]
    /\ queue = [s \in Streams |-> <<>>]
    /\ tx = [s \in Streams |-> NoItem]
    /\ serving = [s \in Streams |-> FALSE]
    /\ ready = [s \in Streams |-> FALSE]
    /\ peer = [s \in Streams |-> NoAddr]
    /\ listening = TRUE
    /\ hpc = "get"
    /\ hbuf = NoBuf
    /\ hfrom = NoAddr
    /\ lastUsed = 0
    /\ probe = 0
    /\ streak = [addr |-> NoAddr, n |-> 0]

(* packetPool.Put *)
Put(b) == pool' = [pool EXCEPT ![b] = @ + 1]

-----------------------------------------------------------------------------
(* The hub *)

(* packetPool.Get: a pooled buffer, or a new one when the pool has none. *)
HubGetPooled(b) ==
    /\ hpc = "get"
    /\ pool[b] > 0
    /\ pool' = [pool EXCEPT ![b] = @ - 1]
    /\ hbuf' = b
    /\ hpc' = "read"
    /\ UNCHANGED <<heap, mem, queue, txVars, peer, listening, hfrom, lastUsed, probe, streak>>

HubGetNew(b) ==
    /\ hpc = "get"
    /\ \A d \in Buffers : pool[d] = 0
    /\ b \notin heap
    /\ heap' = heap \cup {b}
    /\ hbuf' = b
    /\ hpc' = "read"
    /\ UNCHANGED <<pool, mem, queue, txVars, peer, listening, hfrom, lastUsed, probe, streak>>

(* ReadFrom, and the step of the round robin. *)
HubRead(p, a) ==
    /\ hpc = "read"
    /\ listening
    /\ mem' = [mem EXCEPT ![hbuf] = p]
    /\ hfrom' = a
    /\ lastUsed' = (lastUsed + 1) % N
    /\ probe' = 0
    /\ hpc' = "pick"
    /\ UNCHANGED <<pool, heap, queue, txVars, peer, listening, hbuf, streak>>

(* ReadFrom fails for certain on the closed socket, and may fail before.   *)
HubReadError ==
    /\ hpc = "read"
    /\ Put(hbuf)
    /\ hbuf' = NoBuf
    /\ hpc' = "stopped"
    /\ UNCHANGED <<heap, mem, queue, txVars, peer, listening, hfrom, lastUsed, probe, streak>>

HubSkip ==
    /\ hpc = "pick"
    /\ probe < N
    /\ ~ready[Candidate]
    /\ probe' = probe + 1
    /\ UNCHANGED <<pool, heap, mem, queue, txVars, peer, listening, hpc, hbuf, hfrom, lastUsed, streak>>

HubNoStream ==
    /\ hpc = "pick"
    /\ probe = N
    /\ Put(hbuf)
    /\ hbuf' = NoBuf
    /\ hpc' = "get"
    /\ UNCHANGED <<heap, mem, queue, txVars, peer, listening, hfrom, lastUsed, probe, streak>>

(* The picks for one sender in a row, counted up to N and only from when *)
(* every stream is ready.                                                *)
Longer ==
    IF probe > 0 \/ \E s \in Streams : ~ready[s] THEN [addr |-> NoAddr, n |-> 0]
    ELSE IF streak.addr # hfrom THEN [addr |-> hfrom, n |-> 1]
    ELSE [streak EXCEPT !.n = IF @ < N THEN @ + 1 ELSE N]

(* Mutation: only the first sender is remembered. *)
HubPickStoreOnce ==
    /\ hpc = "pick"
    /\ probe < N
    /\ ready[Candidate]
    /\ peer' = [peer EXCEPT ![Candidate] = IF @ = NoAddr THEN hfrom ELSE @]
    /\ streak' = Longer
    /\ hpc' = "send"
    /\ UNCHANGED <<pool, heap, mem, queue, txVars, listening, hbuf, hfrom, lastUsed, probe>>

(* s.peer.Store(&returnAddr) *)
HubPick ==
    /\ hpc = "pick"
    /\ probe < N
    /\ ready[Candidate]
    /\ peer' = [peer EXCEPT ![Candidate] = hfrom]
    /\ streak' = Longer
    /\ hpc' = "send"
    /\ UNCHANGED <<pool, heap, mem, queue, txVars, listening, hbuf, hfrom, lastUsed, probe>>

(* Mutation: the buffer goes back to the pool although it was queued. *)
HubEnqueueAndPut ==
    /\ hpc = "send"
    /\ Len(queue[Candidate]) < QueueCap
    /\ queue' = [queue EXCEPT ![Candidate] = Append(@, [buf |-> hbuf, pkt |-> mem[hbuf]])]
    /\ Put(hbuf)
    /\ hbuf' = NoBuf
    /\ hpc' = "get"
    /\ UNCHANGED <<heap, mem, txVars, peer, listening, hfrom, lastUsed, probe, streak>>

HubEnqueue ==
    /\ hpc = "send"
    /\ Len(queue[Candidate]) < QueueCap
    /\ queue' = [queue EXCEPT ![Candidate] = Append(@, [buf |-> hbuf, pkt |-> mem[hbuf]])]
    /\ hbuf' = NoBuf
    /\ hpc' = "get"
    /\ UNCHANGED <<pool, heap, mem, txVars, peer, listening, hfrom, lastUsed, probe, streak>>

HubDrop ==
    /\ hpc = "send"
    /\ Len(queue[Candidate]) >= QueueCap
    /\ Put(hbuf)
    /\ hbuf' = NoBuf
    /\ hpc' = "get"
    /\ UNCHANGED <<heap, mem, queue, txVars, peer, listening, hfrom, lastUsed, probe, streak>>

-----------------------------------------------------------------------------
(* The TX goroutine of stream s *)

(* Mutation: the buffer is given back when it is taken, before the send. *)
TxTakeAndPut(s) ==
    /\ serving[s]
    /\ tx[s] = NoItem
    /\ queue[s] # <<>>
    /\ tx' = [tx EXCEPT ![s] = Head(queue[s])]
    /\ queue' = [queue EXCEPT ![s] = Tail(@)]
    /\ Put(Head(queue[s]).buf)
    /\ UNCHANGED <<heap, mem, serving, ready, peer, listening, hubVars>>

TxTake(s) ==
    /\ serving[s]
    /\ tx[s] = NoItem
    /\ queue[s] # <<>>
    /\ tx' = [tx EXCEPT ![s] = Head(queue[s])]
    /\ queue' = [queue EXCEPT ![s] = Tail(@)]
    /\ UNCHANGED <<pool, heap, mem, serving, ready, peer, listening, hubVars>>

(* The write has ended and the buffer goes back.  A failed write, like the *)
(* watchdog, which gives the buffer back unsent, ends the goroutine.       *)
TxDone(s) ==
    /\ tx[s] # NoItem
    /\ Put(tx[s].buf)
    /\ tx' = [tx EXCEPT ![s] = NoItem]
    /\ serving' \in {serving, [serving EXCEPT ![s] = FALSE]}
    /\ UNCHANGED <<heap, mem, queue, ready, peer, listening, hubVars>>

-----------------------------------------------------------------------------
(* Environment: sessions come and go, StopProxy closes the socket. *)

SessionUp(s) ==
    /\ ~serving[s]
    /\ serving' = [serving EXCEPT ![s] = TRUE]
    /\ ready' = [ready EXCEPT ![s] = TRUE]
    /\ UNCHANGED <<pool, heap, mem, queue, tx, peer, listening, hubVars>>

(* The TX goroutine leaves its select on sCtx.Done(); s.ready stays set. *)
SessionDown(s) ==
    /\ serving[s]
    /\ tx[s] = NoItem
    /\ serving' = [serving EXCEPT ![s] = FALSE]
    /\ UNCHANGED <<pool, heap, mem, queue, tx, ready, peer, listening, hubVars>>

CloseListener ==
    /\ listening
    /\ listening' = FALSE
    /\ UNCHANGED <<pool, heap, mem, queue, txVars, peer, hubVars>>

Hub ==
    \/ \E b \in Buffers : HubGetPooled(b) \/ HubGetNew(b)
    \/ \E p \in Packets, a \in Addrs : HubRead(p, a)
    \/ HubReadError \/ HubSkip \/ HubNoStream \/ HubPick \/ HubEnqueue \/ HubDrop

Next ==
    \/ Hub
    \/ \E s \in Streams : TxTake(s) \/ TxDone(s) \/ SessionUp(s) \/ SessionDown(s)
    \/ CloseListener

Spec == Init /\ [][Next]_vars
-----------------------------------------------------------------------------
(* Properties *)

(* The type of the state; the hub's round robin stays inside the slice of  *)
(* streams it indexes.                                                     *)
TypeOK ==
    /\ pool \in [Buffers -> Nat]
    /\ heap \subseteq Buffers
    /\ mem \in [Buffers -> Packets \cup {NoPkt}]
    /\ queue \in [Streams -> Seq(Items)]
    /\ tx \in [Streams -> Items \cup {NoItem}]
    /\ serving \in [Streams -> BOOLEAN]
    /\ ready \in [Streams -> BOOLEAN]
    /\ peer \in [Streams -> Addrs \cup {NoAddr}]
    /\ listening \in BOOLEAN
    /\ hpc \in {"get", "read", "pick", "send", "stopped"}
    /\ hbuf \in Buffers \cup {NoBuf}
    /\ hfrom \in Addrs \cup {NoAddr}
    /\ lastUsed \in Streams
    /\ probe \in 0..N
    /\ streak \in [addr : Addrs \cup {NoAddr}, n : 0..N]

(* A queued packet is what the client sent when it is taken for sending:   *)
(* no buffer in a queue or in the hands of a TX goroutine is reused, by    *)
(* any interleaving of the hub, the streams and the shared pool.           *)
PacketsIntact ==
    \A s \in Streams :
        /\ \A i \in 1..Len(queue[s]) : mem[queue[s][i].buf] = queue[s][i].pkt
        /\ tx[s] # NoItem => mem[tx[s].buf] = tx[s].pkt

(* The packet pool's ownership rule: a buffer that was allocated is in     *)
(* exactly one place, the pool (once), the hub, one entry of one queue, or *)
(* one TX goroutine, whatever is dropped because a queue is full or no     *)
(* stream is ready, and whatever ends a session: none is shared or lost.   *)
BufferOwnedOnce ==
    \A b \in heap :
        LET entries == {e \in Streams \X (1..QueueCap) :
                          e[2] <= Len(queue[e[1]]) /\ queue[e[1]][e[2]].buf = b}
            senders == {s \in Streams : tx[s].buf = b}
            hub == IF hbuf = b THEN 1 ELSE 0
        IN  pool[b] + hub + Cardinality(entries) + Cardinality(senders) = 1

(* The return address of a stream is whoever last used it, and replies     *)
(* come back on every stream.  A client that moved to another port is      *)
(* heard on all of them again after one round: once N datagrams in a row   *)
(* came from one address with every stream ready, no stream keeps a stale  *)
(* address, dropped datagrams and full queues included.                    *)
AddressesCatchUp ==
    streak.n = N => \A s \in Streams : peer[s] = streak.addr
=============================================================================
