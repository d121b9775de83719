---------------------------- MODULE TlsSession ----------------------------
(***************************************************************************)
(* What the handshake of revsw/tlslite promises to the programs at the two *)
(* ends of a connection, without its messages: the ends that come up agree *)
(* on what was negotiated, a connection is based on a new session or on    *)
(* one that the server may still resume, and a session that an end has     *)
(* given up never becomes resumable again at that end.                     *)
(***************************************************************************)
EXTENDS Naturals

CONSTANTS Conns,      \* the connections, numbers from 1
          Ends,       \* the two ends of a connection
          Acceptor,   \* the end that decides about a resumption
          None        \* nothing agreed yet

VARIABLES basis,      \* the connection whose session this one uses, 0 undecided
          agreed,     \* what the ends agreed on, None before
          view,       \* what an end sees of a connection: "new", "up", "over"
          valid       \* the sessions that an end would still resume

vars == <<basis, agreed, view, valid>>

Init == /\ basis = [c \in Conns |-> 0]
        /\ agreed = [c \in Conns |-> None]
        /\ view = [c \in Conns |-> [e \in Ends |-> "new"]]
        /\ valid = [e \in Ends |-> {}]

\* The accepting end decides which session a connection is based on: its
\* own, or an earlier one that it has not given up.
Choose(c, s) ==
    /\ basis[c] = 0
    /\ s = c \/ s \in valid[Acceptor]
    /\ basis' = [basis EXCEPT ![c] = s]
    /\ UNCHANGED <<agreed, view, valid>>

\* An end comes up, with the terms the other end came up with if it did.
\* A session is recorded by the connection that made it.
Establish(c, e) ==
    /\ view[c][e] = "new" /\ basis[c] # 0
    /\ agreed'[c] # None
    /\ agreed[c] \in {None, agreed'[c]}
    /\ agreed' = [agreed EXCEPT ![c] = agreed'[c]]
    /\ view' = [view EXCEPT ![c][e] = "up"]
    /\ valid' \in {valid} \cup
          {[valid EXCEPT ![e] = @ \cup {c}] : s \in {basis[c]} \cap {c}}
    /\ UNCHANGED basis

\* An end gives a connection up, and with it possibly the session.
Leave(c, e) ==
    /\ view[c][e] # "over"
    /\ view' = [view EXCEPT ![c][e] = "over"]
    /\ valid' \in {valid, [valid EXCEPT ![e] = @ \ {basis[c]}]}
    /\ UNCHANGED <<basis, agreed>>

Next == \E c \in Conns :
           \/ \E s \in Conns : Choose(c, s)
           \/ \E e \in Ends : Leave(c, e) \/ Establish(c, e)

Spec == Init /\ [][Next]_vars
=============================================================================
