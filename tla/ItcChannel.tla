----------------------------- MODULE ItcChannel -----------------------------
(***************************************************************************)
(* What the inter-thread queues of infra/src/rev_itc.c promise: a queue    *)
(* hands each buffer that was sent to it to one receiver, in the order in  *)
(* which they were sent, and is only deleted when it is empty.             *)
(***************************************************************************)
EXTENDS Sequences

CONSTANTS Queue, Sender, Receiver, Buffer, None

VARIABLES
  open,      \* queues that exist
  channel,   \* the buffers in each queue, oldest first
  holds      \* the buffer each thread holds, or None

Thread == Sender \union Receiver

Init ==
  /\ open = {}
  /\ channel = [q \in Queue |-> <<>>]
  /\ holds = [t \in Thread |-> None]

Open(q) ==
  /\ q \notin open
  /\ open' = open \union {q}
  /\ channel' = [channel EXCEPT ![q] = <<>>]
  /\ UNCHANGED holds

Close(q) ==
  /\ q \in open
  /\ channel[q] = <<>>
  /\ open' = open \ {q}
  /\ UNCHANGED <<channel, holds>>

Obtain(s, b) ==
  /\ holds[s] = None
  /\ holds' = [holds EXCEPT ![s] = b]
  /\ UNCHANGED <<open, channel>>

Send(s, q) ==
  /\ q \in open
  /\ holds[s] # None
  /\ channel' = [channel EXCEPT ![q] = Append(@, holds[s])]
  /\ holds' = [holds EXCEPT ![s] = None]
  /\ UNCHANGED open

Receive(r, q) ==
  /\ q \in open
  /\ holds[r] = None
  /\ channel[q] # <<>>
  /\ holds' = [holds EXCEPT ![r] = Head(channel[q])]
  /\ channel' = [channel EXCEPT ![q] = Tail(@)]
  /\ UNCHANGED open

Release(r) ==
  /\ holds[r] # None
  /\ holds' = [holds EXCEPT ![r] = None]
  /\ UNCHANGED <<open, channel>>

Next ==
  \/ \E q \in Queue : Open(q) \/ Close(q)
  \/ \E s \in Sender, b \in Buffer : Obtain(s, b)
  \/ \E s \in Sender, q \in Queue : Send(s, q)
  \/ \E r \in Receiver, q \in Queue : Receive(r, q)
  \/ \E r \in Receiver : Release(r)

Spec == Init /\ [][Next]_<<open, channel, holds>>
============================================================================
