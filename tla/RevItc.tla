------------------------------- MODULE RevItc -------------------------------
(***************************************************************************)
(* infra/src/rev_itc.c: queues between threads.  The list of a queue is    *)
(* guarded by riq_lock, which all queues share; a receiver looks whether   *)
(* the list is empty, and waits, under rq_lock, the lock of the queue.     *)
(* A section under riq_lock never blocks: it is one action.                *)
(***************************************************************************)
EXTENDS Integers, Sequences, FiniteSets

CONSTANTS
  Queue,      \* handles of queues
  Sender,     \* threads that allocate buffers and send them
  Receiver,   \* threads that receive buffers
  Buffer,     \* buffers
  None,       \* no thread, queue or buffer
  Sentinel,   \* what revcq_first yields in an empty list: the queue itself
  WORD,       \* the counters are unsigned integers modulo WORD
  MaxDepth    \* bound: how many buffers fit in memory at a time

ASSUME RevItcAssumption ==
  /\ IsFiniteSet(Queue)
  /\ None \notin Queue \union Receiver \union Buffer
  /\ Sentinel \notin Buffer \union {None}
  /\ Sender \intersect Receiver = {}
  /\ WORD \in Nat /\ MaxDepth \in Nat /\ MaxDepth < WORD

Thread == Sender \union Receiver

VARIABLES
  riq_q,      \* queues that exist
  riq_count,  \* how many, as the code counts them
  rq_eq,      \* the list of each queue
  rq_depth, rq_writes, rq_reads,
  rq_lock,    \* the receiver that holds the lock of a queue, or None
  pc, qh,     \* where each receiver is in rev_itc_recv, and of which queue
  data        \* the buffer each thread holds, or None

counters == <<rq_depth, rq_writes, rq_reads>>
vars == <<riq_q, riq_count, rq_eq, counters, rq_lock, pc, qh, data>>

Inc(n) == IF n = WORD - 1 THEN 0 ELSE n + 1
Dec(n) == IF n = 0 THEN WORD - 1 ELSE n - 1

Init ==
  /\ riq_q = {} /\ riq_count = 0
  /\ rq_eq = [q \in Queue |-> <<>>]
  /\ rq_depth = [q \in Queue |-> 0]
  /\ rq_writes = [q \in Queue |-> 0]
  /\ rq_reads = [q \in Queue |-> 0]
  /\ rq_lock = [q \in Queue |-> None]
  /\ pc = [r \in Receiver |-> "idle"]
  /\ qh = [r \in Receiver |-> None]
  /\ data = [t \in Thread |-> None]

----------------------------------------------------------------------------
\* rev_itc_queue_create: the queue is zeroed before it joins the list.
Create(q) ==
  /\ q \notin riq_q
  /\ riq_q' = riq_q \union {q}
  /\ riq_count' = riq_count + 1
  /\ rq_eq' = [rq_eq EXCEPT ![q] = <<>>]
  /\ rq_depth' = [rq_depth EXCEPT ![q] = 0]
  /\ rq_writes' = [rq_writes EXCEPT ![q] = 0]
  /\ rq_reads' = [rq_reads EXCEPT ![q] = 0]
  /\ UNCHANGED <<rq_lock, pc, qh, data>>

\* Mutant: a queue leaves the list without being counted out.
Delete_Uncounted(q) ==
  /\ q \in riq_q
  /\ \A r \in Receiver : qh[r] # q
  /\ rq_depth[q] = 0
  /\ riq_q' = riq_q \ {q}
  /\ UNCHANGED riq_count
  /\ UNCHANGED <<rq_eq, counters, rq_lock, pc, qh, data>>

\* rev_itc_queue_delete refuses a queue with a depth.  That no receiver is
\* still inside rev_itc_recv is left to the caller: the queue is freed.
Delete(q) ==
  /\ q \in riq_q
  /\ \A r \in Receiver : qh[r] # q
  /\ rq_depth[q] = 0
  /\ riq_q' = riq_q \ {q}
  /\ riq_count' = riq_count - 1
  /\ UNCHANGED <<rq_eq, counters, rq_lock, pc, qh, data>>

Queued == UNION {{rq_eq[q][i] : i \in DOMAIN rq_eq[q]} : q \in riq_q}
Held == {data[t] : t \in Thread}

\* rev_itc_alloc: malloc returns a buffer that nobody has.
Alloc(s, b) ==
  /\ data[s] = None
  /\ b \notin Queued \union Held
  /\ data' = [data EXCEPT ![s] = b]
  /\ UNCHANGED <<riq_q, riq_count, rq_eq, counters, rq_lock, pc, qh>>

Waiting(q) == {r \in Receiver : pc[r] = "waiting" /\ qh[r] = q}

\* rev_cond_signal wakes one of the threads that wait, if there is one.
Signal(q) ==
  IF Waiting(q) = {}
    THEN UNCHANGED pc
    ELSE \E r \in Waiting(q) : pc' = [pc EXCEPT ![r] = "woken"]

\* Mutant: the buffer is put first in the list.
Send_AtHead(s, q) ==
  /\ q \in riq_q
  /\ data[s] # None
  /\ Len(rq_eq[q]) < MaxDepth
  /\ rq_depth' = [rq_depth EXCEPT ![q] = Inc(@)]
  /\ rq_eq' = [rq_eq EXCEPT ![q] = <<data[s]>> \o @]
  /\ rq_writes' = [rq_writes EXCEPT ![q] = Inc(@)]
  /\ Signal(q)
  /\ data' = [data EXCEPT ![s] = None]
  /\ UNCHANGED <<riq_q, riq_count, rq_reads, rq_lock, qh>>

\* Mutant: the depth is counted only when a receiver is there to be woken.
Send_Miscounted(s, q) ==
  /\ q \in riq_q
  /\ data[s] # None
  /\ Len(rq_eq[q]) < MaxDepth
  /\ rq_depth' = [rq_depth EXCEPT ![q] = IF Waiting(q) = {} THEN Inc(@) ELSE @]
  /\ rq_eq' = [rq_eq EXCEPT ![q] = Append(@, data[s])]
  /\ rq_writes' = [rq_writes EXCEPT ![q] = Inc(@)]
  /\ Signal(q)
  /\ data' = [data EXCEPT ![s] = None]
  /\ UNCHANGED <<riq_q, riq_count, rq_reads, rq_lock, qh>>

\* rev_itc_send: all of it under riq_lock, the signal too; rq_lock is not
\* taken.
Send(s, q) ==
  /\ q \in riq_q
  /\ data[s] # None
  /\ Len(rq_eq[q]) < MaxDepth
  /\ rq_depth' = [rq_depth EXCEPT ![q] = Inc(@)]
  /\ rq_eq' = [rq_eq EXCEPT ![q] = Append(@, data[s])]
  /\ rq_writes' = [rq_writes EXCEPT ![q] = Inc(@)]
  /\ Signal(q)
  /\ data' = [data EXCEPT ![s] = None]
  /\ UNCHANGED <<riq_q, riq_count, rq_reads, rq_lock, qh>>

----------------------------------------------------------------------------
(* rev_itc_recv                                                            *)

Step(r, from, to) == pc[r] = from /\ pc' = [pc EXCEPT ![r] = to]
Lock(r, q) == rq_lock[q] = None /\ rq_lock' = [rq_lock EXCEPT ![q] = r]
Unlock(r) == rq_lock' = [rq_lock EXCEPT ![qh[r]] = None]
Empty(q) == rq_eq[q] = <<>>

Recv(r, q) ==
  /\ q \in riq_q
  /\ data[r] = None
  /\ Step(r, "idle", "check")
  /\ qh' = [qh EXCEPT ![r] = q]
  /\ Lock(r, q)
  /\ UNCHANGED <<riq_q, riq_count, rq_eq, counters, data>>

\* The while loop finds the list empty: rev_cond_wait is called.
SeesEmpty(r) ==
  /\ Step(r, "check", "wait")
  /\ Empty(qh[r])
  /\ UNCHANGED <<riq_q, riq_count, rq_eq, counters, rq_lock, qh, data>>

\* pthread_cond_wait releases the lock and begins to wait, at once.
CondWait(r) ==
  /\ Step(r, "wait", "waiting")
  /\ Unlock(r)
  /\ UNCHANGED <<riq_q, riq_count, rq_eq, counters, qh, data>>

\* pthread_cond_wait may return without a signal.
Spurious(r) ==
  /\ Step(r, "waiting", "woken")
  /\ UNCHANGED <<riq_q, riq_count, rq_eq, counters, rq_lock, qh, data>>

\* Mutant: the loop is an if, left after one wait whatever woke the thread.
Reacquire_Once(r) ==
  /\ Step(r, "woken", "take")
  /\ rq_lock[qh[r]] = None
  /\ UNCHANGED <<riq_q, riq_count, rq_eq, counters, rq_lock, qh, data>>

Reacquire(r) ==
  /\ Step(r, "woken", "check")
  /\ Lock(r, qh[r])
  /\ UNCHANGED <<riq_q, riq_count, rq_eq, counters, qh, data>>

SeesData(r) ==
  /\ Step(r, "check", "take")
  /\ ~Empty(qh[r])
  /\ Unlock(r)
  /\ UNCHANGED <<riq_q, riq_count, rq_eq, counters, qh, data>>

\* Mutant: the buffer stays in the list until the next call.
Take_Leaves(r) ==
  LET q == qh[r] IN
  /\ Step(r, "take", "idle")
  /\ data' = [data EXCEPT ![r] = IF Empty(q) THEN Sentinel ELSE Head(rq_eq[q])]
  /\ rq_eq' = [rq_eq EXCEPT ![q] = IF Len(@) < 2 THEN @ ELSE Tail(@)]
  /\ rq_depth' = [rq_depth EXCEPT ![q] = Dec(@)]
  /\ rq_reads' = [rq_reads EXCEPT ![q] = Inc(@)]
  /\ qh' = [qh EXCEPT ![r] = None]
  /\ UNCHANGED <<riq_q, riq_count, rq_writes, rq_lock>>

\* The second critical section, under riq_lock: the list is not looked at
\* again, and removing the head from its own list changes nothing.
Take(r) ==
  LET q == qh[r] IN
  /\ Step(r, "take", "idle")
  /\ data' = [data EXCEPT ![r] = IF Empty(q) THEN Sentinel ELSE Head(rq_eq[q])]
  /\ rq_eq' = [rq_eq EXCEPT ![q] = IF Empty(q) THEN @ ELSE Tail(@)]
  /\ rq_depth' = [rq_depth EXCEPT ![q] = Dec(@)]
  /\ rq_reads' = [rq_reads EXCEPT ![q] = Inc(@)]
  /\ qh' = [qh EXCEPT ![r] = None]
  /\ UNCHANGED <<riq_q, riq_count, rq_writes, rq_lock>>

\* The caller is done with what it received.
Release(r) ==
  /\ data[r] # None
  /\ data' = [data EXCEPT ![r] = None]
  /\ UNCHANGED <<riq_q, riq_count, rq_eq, counters, rq_lock, pc, qh>>

----------------------------------------------------------------------------
Receives(r) ==
  \/ (\E q \in Queue : Recv(r, q))
  \/ SeesEmpty(r) \/ CondWait(r) \/ Reacquire(r) \/ SeesData(r) \/ Take(r)
  \/ Release(r)

Sends(s) ==
  \/ \E b \in Buffer : Alloc(s, b)
  \/ \E q \in Queue : Send(s, q)

Next ==
  \/ \E q \in Queue : Create(q) \/ Delete(q)
  \/ \E s \in Sender : Sends(s)
  \/ \E r \in Receiver : Receives(r) \/ Spurious(r)

Spec == Init /\ [][Next]_vars

\* Receivers call rev_itc_recv again and again; nothing makes a sender send.
FairSpec == Spec /\ \A r \in Receiver : WF_vars(Receives(r))

----------------------------------------------------------------------------
(* Properties                                                              *)

\* The types of the fields of rev_itc_s and rev_queue_s; riq_count, which is
\* kept by hand beside the list of the queues, is their number.
ITypeOK ==
  /\ riq_q \subseteq Queue
  /\ riq_count = Cardinality(riq_q)
  /\ rq_eq \in [Queue -> Seq(Buffer)]
  /\ rq_depth \in [Queue -> 0 .. WORD - 1]
  /\ rq_writes \in [Queue -> 0 .. WORD - 1]
  /\ rq_reads \in [Queue -> 0 .. WORD - 1]
  /\ rq_lock \in [Queue -> Receiver \union {None}]
  /\ pc \in [Receiver -> {"idle", "check", "wait", "waiting", "woken", "take"}]
  /\ qh \in [Receiver -> Queue \union {None}]
  /\ data \in [Thread -> Buffer \union {None, Sentinel}]

\* What a receiver that is alone gets is a buffer that was sent, although its
\* wait may end without one.  (With another receiver the list may be emptied
\* between the look at it and the removal, and the head is taken for a buffer.)
ReceivesBuffers == \A r \in Receiver : data[r] # Sentinel

\* rq_depth is the length of the list, which is what rev_itc_queue_depth and
\* rev_itc_queue_delete take it for.
DepthIsLength == \A q \in riq_q : rq_depth[q] = Len(rq_eq[q])

\* A buffer is in one place: once in one queue, or with one thread.
OneOwner ==
  /\ \A p, q \in riq_q : \A i \in DOMAIN rq_eq[p], j \in DOMAIN rq_eq[q] :
       rq_eq[p][i] = rq_eq[q][j] => p = q /\ i = j
  /\ Queued \intersect Held = {}
  /\ \A t, u \in Thread : data[t] = data[u] /\ data[t] \in Buffer => t = u

\* The queues implement the abstract channels.
Channel == INSTANCE ItcChannel WITH open <- riq_q, channel <- rq_eq, holds <- data
ImplementsChannel == Channel!Spec

\* A buffer that was sent is received: the oldest of a queue does not stay.
SentIsReceived ==
  \A q \in Queue, b \in Buffer :
    rq_eq[q] # <<>> /\ rq_eq[q][1] = b ~> ~(rq_eq[q] # <<>> /\ rq_eq[q][1] = b)
============================================================================
