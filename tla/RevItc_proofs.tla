--------------------------- MODULE RevItc_proofs ---------------------------
(***************************************************************************)
(* Theorems about the inter-thread queues, for any number of queues,       *)
(* senders and buffers.                                                    *)
(***************************************************************************)
EXTENDS RevItc, FiniteSetTheorems, TLAPS

\* A receiver inside rev_itc_recv has a queue and no buffer; a sender never
\* holds the sentinel.
CallInv ==
  /\ \A s \in Sender : data[s] # Sentinel
  /\ \A r \in Receiver :
       /\ pc[r] = "idle" => qh[r] = None
       /\ pc[r] # "idle" => qh[r] \in riq_q /\ data[r] = None

TypeInv == ITypeOK /\ CallInv

LEMMA CountersStay ==
  ASSUME NEW n \in 0 .. WORD - 1
  PROVE  Inc(n) \in 0 .. WORD - 1 /\ Dec(n) \in 0 .. WORD - 1
BY RevItcAssumption DEF Inc, Dec

LEMMA InitTypeInv == Init => TypeInv
<1> SUFFICES ASSUME Init PROVE TypeInv
  OBVIOUS
<1>1. \A r \in Receiver : qh[r] = None /\ pc[r] = "idle"
  BY DEF Init
<1>2. ITypeOK
  BY RevItcAssumption, FS_EmptySet DEF Init, ITypeOK
<1>3. QED
  BY <1>1, <1>2, RevItcAssumption DEF Init, TypeInv, CallInv, Thread

LEMMA QueueTypeInv ==
  ASSUME TypeInv, NEW q \in Queue, Create(q) \/ Delete(q)
  PROVE  TypeInv'
<1> USE RevItcAssumption DEF TypeInv, ITypeOK, CallInv
<1>0. IsFiniteSet(riq_q)
  BY FS_Subset
<1>1. CASE Create(q)
  <2>1. Cardinality(riq_q') = riq_count'
    BY <1>0, <1>1, FS_AddElement DEF Create
  <2>2. QED
    BY <1>1, <2>1 DEF Create
<1>2. CASE Delete(q)
  <2>1. Cardinality(riq_q') = riq_count'
    BY <1>0, <1>2, FS_RemoveElement DEF Delete
  <2>2. QED
    BY <1>2, <2>1 DEF Delete, counters
<1>3. QED
  BY <1>1, <1>2

LEMMA SendsTypeInv ==
  ASSUME TypeInv, NEW s \in Sender, Sends(s)
  PROVE  TypeInv'
<1> USE RevItcAssumption DEF TypeInv, ITypeOK, CallInv, Thread
<1>1. ASSUME NEW b \in Buffer, Alloc(s, b) PROVE TypeInv'
  BY <1>1 DEF Alloc, counters
<1>2. ASSUME NEW q \in Queue, Send(s, q) PROVE TypeInv'
  <2>1. data[s] \in Buffer
    BY <1>2 DEF Send
  <2>2. rq_eq' \in [Queue -> Seq(Buffer)]
    BY <1>2, <2>1 DEF Send
  <2>3. Inc(rq_depth[q]) \in 0 .. WORD - 1 /\ Inc(rq_writes[q]) \in 0 .. WORD - 1
    BY CountersStay
  <2>4. /\ pc' \in [Receiver -> {"idle", "check", "wait", "waiting", "woken", "take"}]
        /\ \A r \in Receiver : pc'[r] = "idle" <=> pc[r] = "idle"
    BY <1>2 DEF Send, Signal, Waiting
  <2>5. QED
    BY <1>2, <2>2, <2>3, <2>4 DEF Send
<1>3. QED
  BY <1>1, <1>2 DEF Sends

LEMMA ReceivesTypeInv ==
  ASSUME TypeInv, NEW r \in Receiver, Receives(r) \/ Spurious(r)
  PROVE  TypeInv'
<1> USE RevItcAssumption
    DEF TypeInv, ITypeOK, CallInv, Thread, Step, Lock, Unlock, counters
<1>1. ASSUME NEW q \in Queue, Recv(r, q) PROVE TypeInv'
  BY <1>1 DEF Recv
<1>2. CASE SeesEmpty(r)
  BY <1>2 DEF SeesEmpty
<1>3. CASE CondWait(r)
  BY <1>3 DEF CondWait
<1>4. CASE Reacquire(r)
  BY <1>4 DEF Reacquire
<1>5. CASE SeesData(r)
  BY <1>5 DEF SeesData
<1>6. CASE Take(r)
  <2> DEFINE q == qh[r]
  <2>1. q \in Queue
    BY <1>6 DEF Take
  <2>2. rq_eq[q] # <<>> => Head(rq_eq[q]) \in Buffer /\ Tail(rq_eq[q]) \in Seq(Buffer)
    BY <2>1
  <2>3. Dec(rq_depth[q]) \in 0 .. WORD - 1 /\ Inc(rq_reads[q]) \in 0 .. WORD - 1
    BY <2>1, CountersStay
  <2>4. rq_eq' \in [Queue -> Seq(Buffer)]
    BY <1>6, <2>1, <2>2 DEF Take, Empty
  <2>5. /\ data' \in [Thread -> Buffer \union {None, Sentinel}]
        /\ \A t \in Thread : t # r => data'[t] = data[t]
    BY <1>6, <2>2 DEF Take, Empty
  <2>6. QED
    BY <1>6, <2>1, <2>3, <2>4, <2>5 DEF Take
<1>7. CASE Release(r)
  BY <1>7 DEF Release
<1>8. CASE Spurious(r)
  BY <1>8 DEF Spurious
<1>9. QED
  BY <1>1, <1>2, <1>3, <1>4, <1>5, <1>6, <1>7, <1>8 DEF Receives

LEMMA NextTypeInv == TypeInv /\ [Next]_vars => TypeInv'
<1> SUFFICES ASSUME TypeInv, [Next]_vars PROVE TypeInv'
  OBVIOUS
<1>1. CASE UNCHANGED vars
  BY <1>1 DEF TypeInv, ITypeOK, CallInv, vars, counters
<1>2. CASE Next
  BY <1>2, QueueTypeInv, SendsTypeInv, ReceivesTypeInv DEF Next
<1>3. QED
  BY <1>1, <1>2

\* Every variable of the queues and of their threads keeps its type, with any
\* number of receivers.
THEOREM TypeCorrect == Spec => []ITypeOK
<1>1. Spec => []TypeInv
  BY InitTypeInv, NextTypeInv, PTL DEF Spec
<1>2. TypeInv => ITypeOK
  BY DEF TypeInv
<1>3. QED
  BY <1>1, <1>2, PTL

----------------------------------------------------------------------------
(***************************************************************************)
(* With one receiver nothing is removed between its two critical sections: *)
(* the list that it saw still has a buffer.                                *)
(***************************************************************************)
OneReceiver == \A r, s \in Receiver : r = s

SeenInv ==
  /\ \A r \in Receiver : pc[r] = "take" => rq_eq[qh[r]] # <<>>
  /\ \A q \in riq_q : Len(rq_eq[q]) <= MaxDepth

SingleInv == SeenInv /\ DepthIsLength /\ ReceivesBuffers

LEMMA InitSingleInv == Init => SingleInv
BY RevItcAssumption
   DEF Init, SingleInv, SeenInv, DepthIsLength, ReceivesBuffers, Thread

LEMMA QueueSingleInv ==
  ASSUME TypeInv, SingleInv, NEW q \in Queue, Create(q) \/ Delete(q)
  PROVE  SingleInv'
<1> USE RevItcAssumption DEF TypeInv, ITypeOK, CallInv, SingleInv, SeenInv,
                             DepthIsLength, ReceivesBuffers
<1>1. CASE Create(q)
  <2>1. \A r \in Receiver : pc[r] = "take" => qh[r] # q
    BY <1>1 DEF Create
  <2>2. QED
    BY <1>1, <2>1 DEF Create
<1>2. CASE Delete(q)
  BY <1>2 DEF Delete, counters
<1>3. QED
  BY <1>1, <1>2

LEMMA SendsSingleInv ==
  ASSUME TypeInv, SingleInv, NEW s \in Sender, Sends(s)
  PROVE  SingleInv'
<1> USE RevItcAssumption DEF TypeInv, ITypeOK, CallInv, SingleInv, SeenInv,
                             DepthIsLength, ReceivesBuffers, Thread
<1>1. ASSUME NEW b \in Buffer, Alloc(s, b) PROVE SingleInv'
  BY <1>1 DEF Alloc, counters
<1>2. ASSUME NEW q \in Queue, Send(s, q) PROVE SingleInv'
  <2>1. data[s] \in Buffer /\ q \in riq_q /\ rq_eq[q] \in Seq(Buffer)
    BY <1>2 DEF Send
  <2>2. /\ Len(Append(rq_eq[q], data[s])) = Len(rq_eq[q]) + 1
        /\ Append(rq_eq[q], data[s]) # <<>>
    BY <2>1
  <2>3. rq_eq' = [rq_eq EXCEPT ![q] = Append(rq_eq[q], data[s])]
    BY <1>2 DEF Send
  <2>4. Inc(rq_depth[q]) = Len(rq_eq[q]) + 1
    BY <1>2, <2>1 DEF Send, Inc
  <2>5. \A r \in Receiver : pc'[r] = "take" => pc[r] = "take"
    BY <1>2 DEF Send, Signal, Waiting
  <2>6. SeenInv'
    BY <1>2, <2>1, <2>2, <2>3, <2>5 DEF Send
  <2>7. DepthIsLength'
    BY <1>2, <2>1, <2>2, <2>3, <2>4 DEF Send
  <2>8. ReceivesBuffers'
    BY <1>2 DEF Send
  <2>9. QED
    BY <2>6, <2>7, <2>8
<1>3. QED
  BY <1>1, <1>2 DEF Sends

LEMMA ReceivesSingleInv ==
  ASSUME OneReceiver, TypeInv, SingleInv, NEW r \in Receiver,
         Receives(r) \/ Spurious(r)
  PROVE  SingleInv'
<1> USE RevItcAssumption
    DEF OneReceiver, TypeInv, ITypeOK, CallInv, SingleInv, SeenInv,
        DepthIsLength, ReceivesBuffers, Thread, Step, counters
<1>1. ASSUME NEW q \in Queue, Recv(r, q) PROVE SingleInv'
  BY <1>1 DEF Recv
<1>2. CASE SeesEmpty(r)
  BY <1>2 DEF SeesEmpty
<1>3. CASE CondWait(r)
  BY <1>3 DEF CondWait
<1>4. CASE Reacquire(r)
  BY <1>4 DEF Reacquire
<1>5. CASE SeesData(r)
  BY <1>5 DEF SeesData, Empty
<1>6. CASE Take(r)
  <2> DEFINE q == qh[r]
  <2>1. q \in riq_q /\ q \in Queue /\ rq_eq[q] \in Seq(Buffer) /\ rq_eq[q] # <<>>
    BY <1>6 DEF Take
  <2>2. /\ Len(rq_eq[q]) > 0 /\ Len(Tail(rq_eq[q])) = Len(rq_eq[q]) - 1
        /\ Head(rq_eq[q]) \in Buffer
    BY <2>1
  <2>3. Dec(rq_depth[q]) = Len(rq_eq[q]) - 1
    BY <2>1, <2>2 DEF Dec
  <2>4. rq_eq' = [rq_eq EXCEPT ![q] = Tail(rq_eq[q])]
    BY <1>6, <2>1 DEF Take, Empty
  <2>5. data' = [data EXCEPT ![r] = Head(rq_eq[q])]
    BY <1>6, <2>1 DEF Take, Empty
  <2>6. SeenInv'
    BY <1>6, <2>1, <2>2, <2>4 DEF Take
  <2>7. DepthIsLength'
    BY <1>6, <2>1, <2>2, <2>3, <2>4 DEF Take
  <2>8. ReceivesBuffers'
    BY <2>2, <2>5
  <2>9. QED
    BY <2>6, <2>7, <2>8
<1>7. CASE Release(r)
  BY <1>7 DEF Release
<1>8. CASE Spurious(r)
  BY <1>8 DEF Spurious
<1>9. QED
  BY <1>1, <1>2, <1>3, <1>4, <1>5, <1>6, <1>7, <1>8 DEF Receives

LEMMA NextSingleInv ==
  ASSUME OneReceiver
  PROVE  TypeInv /\ SingleInv /\ [Next]_vars => SingleInv'
<1> SUFFICES ASSUME TypeInv, SingleInv, [Next]_vars PROVE SingleInv'
  OBVIOUS
<1>1. CASE UNCHANGED vars
  BY <1>1 DEF SingleInv, SeenInv, DepthIsLength, ReceivesBuffers, vars, counters
<1>2. CASE Next
  BY OneReceiver, <1>2, QueueSingleInv, SendsSingleInv, ReceivesSingleInv DEF Next
<1>3. QED
  BY <1>1, <1>2

LEMMA SingleAlways == OneReceiver => (Spec => [](TypeInv /\ SingleInv))
<1> SUFFICES ASSUME OneReceiver PROVE Spec => [](TypeInv /\ SingleInv)
  OBVIOUS
<1>1. Init => TypeInv /\ SingleInv
  BY InitTypeInv, InitSingleInv
<1>2. TypeInv /\ SingleInv /\ [Next]_vars => (TypeInv /\ SingleInv)'
  BY NextTypeInv, NextSingleInv
<1>3. QED
  BY <1>1, <1>2, PTL DEF Spec

\* With one receiver rq_depth is the number of buffers in the list, so that
\* rev_itc_queue_delete refuses exactly the queues that have buffers.  (A second
\* receiver may empty the list between the two critical sections of a receive.)
THEOREM DepthCounts ==
  ASSUME OneReceiver
  PROVE  Spec => []DepthIsLength
<1>1. SingleInv => DepthIsLength
  BY DEF SingleInv
<1>2. QED
  BY OneReceiver, <1>1, SingleAlways, PTL

----------------------------------------------------------------------------
(***************************************************************************)
(* A buffer is in one place, with any number of receivers: one that takes  *)
(* from an emptied list gets the head of the list and no buffer.           *)
(***************************************************************************)
OwnerInv ==
  /\ \A p, q \in riq_q : \A i \in 1 .. Len(rq_eq[p]), j \in 1 .. Len(rq_eq[q]) :
       rq_eq[p][i] = rq_eq[q][j] => p = q /\ i = j
  /\ \A q \in riq_q : \A i \in 1 .. Len(rq_eq[q]), t \in Thread :
       rq_eq[q][i] # data[t]
  /\ \A t, u \in Thread : data[t] = data[u] /\ data[t] \in Buffer => t = u

LEMMA Places ==
  /\ \A x : x \in Queued <=> \E q \in riq_q : \E i \in DOMAIN rq_eq[q] : x = rq_eq[q][i]
  /\ \A x : x \in Held <=> \E t \in Thread : x = data[t]
BY DEF Queued, Held

LEMMA OwnerInvIsOneOwner == TypeInv => (OwnerInv <=> OneOwner)
<1> SUFFICES ASSUME TypeInv PROVE OwnerInv <=> OneOwner
  OBVIOUS
<1>1. \A q \in riq_q : DOMAIN rq_eq[q] = 1 .. Len(rq_eq[q])
  BY DEF TypeInv, ITypeOK
<1>2. Queued \intersect Held = {} <=>
        \A q \in riq_q : \A i \in DOMAIN rq_eq[q], t \in Thread :
          rq_eq[q][i] # data[t]
  <2>1. ASSUME NEW x \in Queued, x \in Held
        PROVE  \E q \in riq_q : \E i \in DOMAIN rq_eq[q], t \in Thread :
                 rq_eq[q][i] = data[t]
    <3>1. PICK q \in riq_q : \E i \in DOMAIN rq_eq[q] : x = rq_eq[q][i]
      BY Places, Zenon
    <3>2. PICK t \in Thread : x = data[t]
      BY <2>1, Places, Zenon
    <3>3. QED
      BY <3>1, <3>2, Zenon
  <2>2. ASSUME NEW q \in riq_q, NEW i \in DOMAIN rq_eq[q], NEW t \in Thread,
               rq_eq[q][i] = data[t]
        PROVE  rq_eq[q][i] \in Queued \intersect Held
    BY <2>2, Places, Zenon
  <2>3. QED
    BY <2>1, <2>2
<1>3. QED
  BY <1>1, <1>2 DEF OwnerInv, OneOwner

\* What an action that leaves the queues alone does to the places.
LEMMA OwnerStays ==
  ASSUME OwnerInv, riq_q' = riq_q, rq_eq' = rq_eq, data' = data
  PROVE  OwnerInv'
BY DEF OwnerInv

LEMMA Distinct ==
  ASSUME OwnerInv
  PROVE  \A p, q \in riq_q : \A i \in 1 .. Len(rq_eq[p]), j \in 1 .. Len(rq_eq[q]) :
           rq_eq[p][i] = rq_eq[q][j] => p = q /\ i = j
BY DEF OwnerInv

LEMMA Threads ==
  ASSUME TypeInv
  PROVE  /\ \A q \in riq_q : rq_eq[q] \in Seq(Buffer)
         /\ \A q \in riq_q : \A i \in 1 .. Len(rq_eq[q]) : rq_eq[q][i] \in Buffer
         /\ Sender \subseteq Thread /\ Receiver \subseteq Thread
         /\ data \in [Thread -> Buffer \union {None, Sentinel}]
         /\ None \notin Buffer /\ Sentinel \notin Buffer
BY RevItcAssumption DEF TypeInv, ITypeOK, Thread

LEMMA SendsOwner ==
  ASSUME TypeInv, OwnerInv, NEW s \in Sender, Sends(s)
  PROVE  OwnerInv'
<1> USE Threads
<1>1. ASSUME NEW b \in Buffer, Alloc(s, b) PROVE OwnerInv'
  <2>1. /\ \A q \in riq_q : \A i \in 1 .. Len(rq_eq[q]) : rq_eq[q][i] # b
        /\ \A t \in Thread : data[t] # b
    <3>1. b \notin Queued /\ b \notin Held
      BY <1>1 DEF Alloc
    <3>2. \A q \in riq_q : DOMAIN rq_eq[q] = 1 .. Len(rq_eq[q])
      OBVIOUS
    <3>3. \A q \in riq_q : \A i \in DOMAIN rq_eq[q] : rq_eq[q][i] # b
      BY <3>1, Places, Zenon
    <3>4. \A t \in Thread : data[t] # b
      BY <3>1, Places, Zenon
    <3>5. QED
      BY <3>2, <3>3, <3>4
  <2>2. QED
    BY <1>1, <2>1 DEF Alloc, OwnerInv
<1>2. ASSUME NEW q \in Queue, Send(s, q) PROVE OwnerInv'
  <2> DEFINE b == data[s]
  <2>1. /\ q \in riq_q /\ b \in Buffer /\ riq_q' = riq_q
        /\ rq_eq' = [rq_eq EXCEPT ![q] = Append(rq_eq[q], b)]
        /\ data' = [data EXCEPT ![s] = None]
    <3>1. data[s] # Sentinel
      BY DEF TypeInv, CallInv
    <3>2. QED
      BY <1>2, <3>1 DEF Send
  <2>2. /\ Len(rq_eq'[q]) = Len(rq_eq[q]) + 1
        /\ \A i \in 1 .. Len(rq_eq[q]) : rq_eq'[q][i] = rq_eq[q][i]
        /\ rq_eq'[q][Len(rq_eq[q]) + 1] = b
        /\ \A p \in riq_q : p # q => rq_eq'[p] = rq_eq[p]
        /\ \A p \in riq_q : Len(rq_eq[p]) \in Nat
    BY <2>1 DEF TypeInv, ITypeOK
  <2>3. \A p \in riq_q : \A i \in 1 .. Len(rq_eq'[p]) :
          \/ i \in 1 .. Len(rq_eq[p]) /\ rq_eq'[p][i] = rq_eq[p][i]
          \/ p = q /\ i = Len(rq_eq[q]) + 1 /\ rq_eq'[p][i] = b
    BY <2>2
  <2>4. \A p \in riq_q : \A i \in 1 .. Len(rq_eq[p]) : rq_eq[p][i] # b
    BY DEF OwnerInv
  <2>5. \A p, u \in riq_q : \A i \in 1 .. Len(rq_eq'[p]), j \in 1 .. Len(rq_eq'[u]) :
          rq_eq'[p][i] = rq_eq'[u][j] => p = u /\ i = j
    <3> SUFFICES ASSUME NEW p \in riq_q, NEW u \in riq_q,
                        NEW i \in 1 .. Len(rq_eq'[p]),
                        NEW j \in 1 .. Len(rq_eq'[u]),
                        rq_eq'[p][i] = rq_eq'[u][j]
                 PROVE  p = u /\ i = j
      OBVIOUS
    <3>1. CASE i \in 1 .. Len(rq_eq[p]) /\ rq_eq'[p][i] = rq_eq[p][i]
      <4>1. CASE j \in 1 .. Len(rq_eq[u]) /\ rq_eq'[u][j] = rq_eq[u][j]
        <5>1. rq_eq[p][i] = rq_eq[u][j]
          BY <3>1, <4>1
        <5>2. QED
          BY <3>1, <4>1, <5>1, Distinct, Zenon
      <4>2. CASE rq_eq'[u][j] = b
        BY <2>4, <3>1, <4>2
      <4>3. QED
        BY <2>3, <4>1, <4>2
    <3>2. CASE p = q /\ i = Len(rq_eq[q]) + 1 /\ rq_eq'[p][i] = b
      BY <2>3, <2>4, <3>2
    <3>3. QED
      BY <2>3, <3>1, <3>2
  <2>6. \A p \in riq_q : \A i \in 1 .. Len(rq_eq'[p]), t \in Thread :
          rq_eq'[p][i] # data'[t]
    <3> SUFFICES ASSUME NEW p \in riq_q, NEW i \in 1 .. Len(rq_eq'[p]),
                        NEW t \in Thread
                 PROVE  rq_eq'[p][i] # data'[t]
      OBVIOUS
    <3>1. CASE i \in 1 .. Len(rq_eq[p]) /\ rq_eq'[p][i] = rq_eq[p][i]
      <4>1. rq_eq[p][i] \in Buffer
        BY <3>1
      <4>2. QED
        BY <2>1, <3>1, <4>1 DEF OwnerInv
    <3>2. CASE rq_eq'[p][i] = b
      BY <2>1, <3>2 DEF OwnerInv
    <3>3. QED
      BY <2>3, <3>1, <3>2
  <2>7. \A t, u \in Thread : data'[t] = data'[u] /\ data'[t] \in Buffer => t = u
    BY <2>1 DEF OwnerInv
  <2>8. QED
    BY <2>1, <2>5, <2>6, <2>7 DEF OwnerInv
<1>3. QED
  BY <1>1, <1>2 DEF Sends

LEMMA TakeOwner ==
  ASSUME TypeInv, OwnerInv, NEW r \in Receiver, Take(r)
  PROVE  OwnerInv'
<1> USE Threads
<1> DEFINE q == qh[r]
<1>1. /\ q \in riq_q /\ q \in Queue /\ rq_eq[q] \in Seq(Buffer)
      /\ riq_q' = riq_q /\ data[r] = None
  BY DEF Take, Step, TypeInv, ITypeOK, CallInv
<1>2. \A k, l \in 1 .. Len(rq_eq[q]) : rq_eq[q][k] = rq_eq[q][l] => k = l
  BY <1>1, Distinct
<1>3. CASE rq_eq[q] = <<>>
  <2>1. rq_eq' = rq_eq /\ data' = [data EXCEPT ![r] = Sentinel]
    BY <1>1, <1>3 DEF Take, Empty, TypeInv, ITypeOK
  <2>2. QED
    BY <1>1, <2>1 DEF OwnerInv
<1>4. CASE rq_eq[q] # <<>>
  <2> DEFINE b == rq_eq[q][1]
  <2>1. /\ rq_eq' = [rq_eq EXCEPT ![q] = Tail(rq_eq[q])]
        /\ data' = [data EXCEPT ![r] = b]
    BY <1>1, <1>4 DEF Take, Empty
  <2>2. /\ Len(rq_eq[q]) \in Nat /\ Len(rq_eq[q]) >= 1
        /\ Len(Tail(rq_eq[q])) = Len(rq_eq[q]) - 1
        /\ \A i \in 1 .. Len(rq_eq[q]) - 1 : Tail(rq_eq[q])[i] = rq_eq[q][i + 1]
    BY <1>1, <1>4
  <2>3. /\ Len(rq_eq'[q]) = Len(rq_eq[q]) - 1
        /\ \A i \in 1 .. Len(rq_eq[q]) - 1 : rq_eq'[q][i] = rq_eq[q][i + 1]
        /\ \A p \in riq_q : p # q => rq_eq'[p] = rq_eq[p]
        /\ \A p \in riq_q : Len(rq_eq[p]) \in Nat
    BY <1>1, <2>1, <2>2 DEF TypeInv, ITypeOK
  \* every place of the new lists is one of the old lists, and none is the head
  <2>4. \A p \in riq_q : \A i \in 1 .. Len(rq_eq'[p]) :
          \/ /\ p = q /\ i + 1 \in 1 .. Len(rq_eq[q])
             /\ rq_eq'[p][i] = rq_eq[q][i + 1]
          \/ /\ p # q /\ i \in 1 .. Len(rq_eq[p])
             /\ rq_eq'[p][i] = rq_eq[p][i]
    BY <2>2, <2>3
  <2>5. \A p, u \in riq_q : \A i \in 1 .. Len(rq_eq'[p]), j \in 1 .. Len(rq_eq'[u]) :
          rq_eq'[p][i] = rq_eq'[u][j] => p = u /\ i = j
    <3> SUFFICES ASSUME NEW p \in riq_q, NEW u \in riq_q,
                        NEW i \in 1 .. Len(rq_eq'[p]),
                        NEW j \in 1 .. Len(rq_eq'[u]),
                        rq_eq'[p][i] = rq_eq'[u][j]
                 PROVE  p = u /\ i = j
      OBVIOUS
    <3>1. CASE p = q /\ u = q
      <4>1. /\ i + 1 \in 1 .. Len(rq_eq[q]) /\ j + 1 \in 1 .. Len(rq_eq[q])
            /\ rq_eq[q][i + 1] = rq_eq[q][j + 1]
        BY <2>4, <3>1
      <4>2. i + 1 = j + 1
        BY <1>2, <4>1
      <4>3. QED
        BY <2>3, <3>1, <4>2
    <3>2. CASE p # q \/ u # q
      <4>1. PICK k \in 1 .. Len(rq_eq[p]) :
              rq_eq'[p][i] = rq_eq[p][k] /\ (p # q => k = i)
        BY <2>4
      <4>2. PICK l \in 1 .. Len(rq_eq[u]) :
              rq_eq'[u][j] = rq_eq[u][l] /\ (u # q => l = j)
        BY <2>4
      <4>3. rq_eq[p][k] = rq_eq[u][l]
        BY <4>1, <4>2
      <4>4. p = u /\ k = l
        BY <4>3, Distinct
      <4>5. QED
        BY <3>2, <4>1, <4>2, <4>4
    <3>3. QED
      BY <3>1, <3>2
  <2>6. \A p \in riq_q : \A i \in 1 .. Len(rq_eq'[p]) :
          rq_eq'[p][i] # b /\ \A t \in Thread : rq_eq'[p][i] # data[t]
    <3> SUFFICES ASSUME NEW p \in riq_q, NEW i \in 1 .. Len(rq_eq'[p])
                 PROVE  rq_eq'[p][i] # b /\ \A t \in Thread : rq_eq'[p][i] # data[t]
      OBVIOUS
    <3>1. 1 \in 1 .. Len(rq_eq[q])
      BY <2>2
    <3>2. CASE p = q
      <4>1. /\ i + 1 \in 1 .. Len(rq_eq[q]) /\ i + 1 # 1
            /\ rq_eq'[p][i] = rq_eq[q][i + 1]
        BY <2>3, <2>4, <3>2
      <4>2. QED
        BY <1>1, <3>1, <4>1 DEF OwnerInv
    <3>3. CASE p # q
      BY <1>1, <2>4, <3>1, <3>3 DEF OwnerInv
    <3>4. QED
      BY <3>2, <3>3
  <2>7. \A t, u \in Thread : data'[t] = data'[u] /\ data'[t] \in Buffer => t = u
    <3>1. \A t \in Thread : data[t] # b
      BY <1>1, <2>2 DEF OwnerInv
    <3>2. QED
      BY <2>1, <3>1 DEF OwnerInv
  <2>8. QED
    BY <1>1, <2>1, <2>5, <2>6, <2>7 DEF OwnerInv
<1>5. QED
  BY <1>3, <1>4

LEMMA NextOwner == TypeInv /\ OwnerInv /\ [Next]_vars => OwnerInv'
<1> SUFFICES ASSUME TypeInv, OwnerInv, [Next]_vars PROVE OwnerInv'
  OBVIOUS
<1>1. CASE UNCHANGED vars
  BY <1>1, OwnerStays DEF vars
<1>2. ASSUME NEW q \in Queue, Create(q) PROVE OwnerInv'
  <2>1. \A p \in riq_q' : p # q => p \in riq_q /\ rq_eq'[p] = rq_eq[p]
    BY <1>2 DEF Create, TypeInv, ITypeOK
  <2>2. Len(rq_eq'[q]) = 0 /\ data' = data
    BY <1>2 DEF Create, TypeInv, ITypeOK
  <2>3. \A p \in riq_q' : \A i \in 1 .. Len(rq_eq'[p]) :
          p \in riq_q /\ rq_eq'[p] = rq_eq[p]
    BY <2>1, <2>2
  <2>4. QED
    BY <2>2, <2>3 DEF OwnerInv
<1>3. ASSUME NEW q \in Queue, Delete(q) PROVE OwnerInv'
  BY <1>3 DEF Delete, OwnerInv
<1>4. ASSUME NEW s \in Sender, Sends(s) PROVE OwnerInv'
  BY <1>4, SendsOwner
<1>5. ASSUME NEW r \in Receiver, Receives(r) \/ Spurious(r) PROVE OwnerInv'
  <2>1. CASE Take(r)
    BY <2>1, TakeOwner
  <2>2. CASE Release(r)
    BY <2>2, Threads DEF Release, OwnerInv
  <2>3. CASE ~Take(r) /\ ~Release(r)
    <3>1. UNCHANGED <<riq_q, rq_eq, data>>
      BY <1>5, <2>3 DEF Receives, Recv, SeesEmpty, CondWait, Reacquire,
                        SeesData, Spurious
    <3>2. QED
      BY <3>1, OwnerStays
  <2>4. QED
    BY <2>1, <2>2, <2>3
<1>6. QED
  BY <1>1, <1>2, <1>3, <1>4, <1>5 DEF Next

\* A buffer is once in one queue or with one thread, however many threads
\* receive from a queue: none is delivered twice, freed twice or freed while it
\* is queued.
THEOREM OwnedOnce == Spec => []OneOwner
<1>1. Init => TypeInv /\ OwnerInv
  <2>1. Init => OwnerInv
    BY RevItcAssumption DEF Init, OwnerInv, Thread
  <2>2. QED
    BY <2>1, InitTypeInv
<1>2. TypeInv /\ OwnerInv /\ [Next]_vars => (TypeInv /\ OwnerInv)'
  BY NextTypeInv, NextOwner
<1>3. TypeInv /\ OwnerInv => OneOwner
  BY OwnerInvIsOneOwner
<1>4. QED
  BY <1>1, <1>2, <1>3, PTL DEF Spec

----------------------------------------------------------------------------
(* Refinement                                                              *)

LEMMA QueueRefines ==
  ASSUME TypeInv, SingleInv, NEW q \in Queue, Create(q) \/ Delete(q)
  PROVE  Channel!Next
<1>1. CASE Create(q)
  BY <1>1 DEF Create, Channel!Next, Channel!Open
<1>2. CASE Delete(q)
  <2>1. Len(rq_eq[q]) = 0 /\ rq_eq[q] \in Seq(Buffer)
    BY <1>2 DEF Delete, SingleInv, DepthIsLength, TypeInv, ITypeOK
  <2>2. rq_eq[q] = <<>>
    BY <2>1
  <2>3. QED
    BY <1>2, <2>2 DEF Delete, Channel!Next, Channel!Close
<1>3. QED
  BY <1>1, <1>2

LEMMA SendsRefines ==
  ASSUME NEW s \in Sender, Sends(s)
  PROVE  Channel!Next
<1>1. ASSUME NEW b \in Buffer, Alloc(s, b) PROVE Channel!Next
  BY <1>1 DEF Alloc, Channel!Next, Channel!Obtain
<1>2. ASSUME NEW q \in Queue, Send(s, q) PROVE Channel!Next
  BY <1>2 DEF Send, Channel!Next, Channel!Send
<1>3. QED
  BY <1>1, <1>2 DEF Sends

LEMMA ReceivesRefines ==
  ASSUME TypeInv, SingleInv, NEW r \in Receiver, Receives(r) \/ Spurious(r)
  PROVE  Channel!Next \/ UNCHANGED <<riq_q, rq_eq, data>>
<1>1. CASE Take(r)
  <2> DEFINE q == qh[r]
  <2>1. q \in riq_q /\ q \in Queue /\ data[r] = None /\ rq_eq[q] # <<>>
    BY <1>1 DEF Take, Step, TypeInv, ITypeOK, CallInv, SingleInv, SeenInv
  <2>2. Channel!Receive(r, q)
    BY <1>1, <2>1 DEF Take, Empty, Channel!Receive
  <2>3. QED
    BY <2>1, <2>2 DEF Channel!Next
<1>2. CASE Release(r)
  BY <1>2 DEF Release, Channel!Next, Channel!Release
<1>3. CASE ~Take(r) /\ ~Release(r)
  BY <1>3 DEF Receives, Recv, SeesEmpty, CondWait, Reacquire, SeesData, Spurious
<1>4. QED
  BY <1>1, <1>2, <1>3

\* The queues with one receiver implement the abstract channels: first in,
\* first out, every buffer to one receiver, and a queue with buffers in it is
\* not deleted.
THEOREM Implements ==
  ASSUME OneReceiver
  PROVE  Spec => ImplementsChannel
<1>1. Init => TypeInv /\ SingleInv
  BY InitTypeInv, InitSingleInv
<1>2. TypeInv /\ SingleInv /\ [Next]_vars => (TypeInv /\ SingleInv)'
  BY OneReceiver, NextTypeInv, NextSingleInv
<1>3. Init => Channel!Init
  BY DEF Init, Channel!Init, Thread, Channel!Thread
<1>4. TypeInv /\ SingleInv /\ [Next]_vars =>
        [Channel!Next]_<<riq_q, rq_eq, data>>
  <2> SUFFICES ASSUME TypeInv, SingleInv, [Next]_vars
               PROVE  Channel!Next \/ UNCHANGED <<riq_q, rq_eq, data>>
    OBVIOUS
  <2>1. CASE UNCHANGED vars
    BY <2>1 DEF vars
  <2>2. CASE Next
    BY <2>2, QueueRefines, SendsRefines, ReceivesRefines DEF Next
  <2>3. QED
    BY <2>1, <2>2
<1>5. QED
  BY <1>1, <1>2, <1>3, <1>4, PTL DEF Spec, ImplementsChannel, Channel!Spec
============================================================================
