----------------------------- MODULE TlsStream -----------------------------
(***************************************************************************)
(* Requests and replies of revsw/tls.py over connections of revsw/tlslite  *)
(* that are up: the records of tlsrecordlayer.py, the file objects that    *)
(* makefile() returns (Python's socket._fileobject), the "Length:" lines,  *)
(* and the ends of a connection.  A client is a list of calls of           *)
(* RevTLSClient; the server has a thread for each connection.              *)
(*                                                                         *)
(* The network delivers records in order; a connection that is lost fails  *)
(* the calls of either end sooner or later.  Left out: the handshake       *)
(* (TlsHandshake), sockets that do not block, induced faults, messages     *)
(* other than data and close_notify, and interrupts of a program.          *)
(***************************************************************************)
EXTENDS Integers, Sequences, SequencesExt, FiniteSets

CONSTANTS
    MaxConns,     \* how many connections there are
    Modes,        \* what a handshake yields: [version, block], block 0 for RC4
    BufSize,      \* the default buffer of a file object
    BlockSize,    \* the data of a record
    MacSize,      \* the length of a MAC
    Window,       \* the records that a connection holds in one direction
    Replies,      \* what a handler may write
    MaxBreaks     \* how many connections may be lost

ASSUME StreamAssumption ==
    /\ MaxConns \in Nat /\ MaxBreaks \in Nat
    /\ {BufSize, BlockSize, MacSize, Window} \subseteq Nat \ {0}

Conns == 1 .. MaxConns
Ends == {"C", "S"}
Peer(e) == IF e = "C" THEN "S" ELSE "C"
Least(a, b) == IF a < b THEN a ELSE b

VARIABLES mode,     \* the parameters of each connection
          link,     \* the TLSConnection, its socket and its file object
          net,      \* the records on their way to each end
          prog,     \* where the program at each end is
          handled,  \* history: the calls of the server's handler
          replied,  \* history: what the handler wrote in each connection
          answers,  \* history: what recvall returned in each connection
          lost      \* the connections that broke or were reset

vars == <<mode, link, net, prog, handled, replied, answers, lost>>
histVars == <<handled, replied, answers>>

\* _ConnectionState and TLSRecordLayer as a handshake leaves them: "refs" is
\* _refCount, "buf" _readBuffer, "file" what a file object has read ahead.
NewLink == [open |-> TRUE, sock |-> TRUE, refs |-> 1, wseq |-> 0, rseq |-> 0,
            buf |-> <<>>, file |-> <<>>]
NoLink == [NewLink EXCEPT !.open = FALSE, !.sock = FALSE]

\* "todo" are the calls still to be made, "out" the records of the write that
\* is going on, "size" and "got" the locals of _read_with_length.
Idle == [pc |-> "idle", todo |-> <<>>, body |-> <<>>, out |-> <<>>, size |-> 0,
         got |-> <<>>]
Over == {"idle", "done", "raised", "failed"}

-----------------------------------------------------------------------------
(* Bytes and records.  A byte is what it is for, and a value.              *)

Bytes(kind, seq) == [i \in DOMAIN seq |-> <<kind, seq[i]>>]

\* Mutant of Header: the newline is counted.
Header_Long(n) == <<<<"text", 0>>, <<"line", n + 1>>>>

\* The line "Length: n"; one byte stands for all but the number.
Header(n) == <<<<"text", 0>>, <<"line", n>>>>

\* _re_length.
IsLength(line) == Len(line) = 2 /\ line[1] = <<"text", 0>>

Body(list) == Bytes("data", list)

\* Pieces of n bytes, and a last one of what is left.
Pieces(s, n) == [i \in 1 .. (Len(s) + n - 1) \div n |->
                    SubSeq(s, (i - 1) * n + 1, Least(i * n, Len(s)))]

\* Mutant of Split: the first byte is sent twice.
Split_Keeps(pieces) == <<SubSeq(pieces[1], 1, 1)>> \o pieces

\* The first byte of a write goes alone, and nothing is sent for what is left
\* when that was all (_sendMsg, splitFirstByte).
Split(pieces) ==
    <<SubSeq(pieces[1], 1, 1)>>
    \o (IF Len(pieces[1]) > 1 THEN <<SubSeq(pieces[1], 2, Len(pieces[1]))>> ELSE <<>>)
    \o Tail(pieces)

\* TLSRecordLayer.write: the records for one string.
RecordsOf(m, s) ==
    LET pieces == Pieces(s, BlockSize)
    IN  IF m.version <= 1 /\ m.block # 0 /\ pieces # <<>> THEN Split(pieces) ELSE pieces

\* _fileobject.flush: one write for each piece of the buffer.
Flushed(m, s) ==
    FlattenSeq([i \in DOMAIN Pieces(s, BufSize) |-> RecordsOf(m, Pieces(s, BufSize)[i])])

Mac(seq, type, b) == [i \in 1 .. MacSize |-> <<"mac", <<seq, type, b, i>>>>]

\* The end of _sendMsg: the MAC, the fixed block of TLS 1.1 and the padding.
Protect(m, seq, type, b) ==
    LET iv == IF m.version = 2 THEN [i \in 1 .. m.block |-> <<"iv", 0>>] ELSE <<>>
        length == Len(iv) + Len(b) + MacSize + 1
        padding == m.block - (length % m.block)
    IN  IF m.block = 0 THEN b \o Mac(seq, type, b)
        ELSE iv \o b \o Mac(seq, type, b) \o [i \in 1 .. padding + 1 |-> <<"pad", padding>>]

\* _decryptRecord.
Unprotect(m, seq, type, x) ==
    LET y == IF m.version = 2 /\ m.block # 0 THEN SubSeq(x, m.block + 1, Len(x)) ELSE x
        padding == IF m.block = 0 THEN 0 ELSE Last(y)[2] + 1
        end == Len(y) - padding
        data == SubSeq(y, 1, end - MacSize)
        padded == \/ m.version = 0
                  \/ \A i \in end + 1 .. Len(y) : y[i] = <<"pad", padding - 1>>
        whole == m.block = 0 \/ Len(x) % m.block = 0
    IN  [ok |-> /\ whole /\ padded /\ end >= MacSize
                /\ SubSeq(y, end - MacSize + 1, end) = Mac(seq, type, data),
         data |-> data]

CloseNotify == <<<<"close_notify", 0>>>>
\* A record, before it is protected; it is when it is opened that TLC looks at
\* what is on the wire.
Rec(seq, type, b) == [type |-> type, seq |-> seq, data |-> b]
Opened(m, seq, rec) ==
    Unprotect(m, seq, rec.type, Protect(m, rec.seq, rec.type, rec.data))

-----------------------------------------------------------------------------
(* What the operations of an end do to the connection.                     *)

Sent(c, e, record) ==
    IF link[c][Peer(e)].sock THEN Append(net[c][Peer(e)], record) ELSE net[c][Peer(e)]

\* A record needs room, unless nobody will read it.
Room(c, e) == Len(net[c][Peer(e)]) < Window \/ ~link[c][Peer(e)].sock

\* A socket that is closed with data unread, or written to after that,
\* resets the connection.
Resets(c, e, unread) == lost' = IF unread # <<>> THEN lost \cup {c} ELSE lost
Writes(c, e) == lost' = IF link[c][Peer(e)].sock THEN lost ELSE lost \cup {c}

\* The program at e is over: whether it shut the connection down itself
\* (_shutdown), its process ends or the server closes the request, the socket
\* is closed.
Ends_(c, e, p) ==
    /\ link' = [link EXCEPT ![c][e].open = FALSE, ![c][e].sock = FALSE]
    /\ prog' = [prog EXCEPT ![c][e] = p]

Raises(c, e) ==
    /\ Ends_(c, e, [prog[c][e] EXCEPT !.pc = "raised"])
    /\ net' = [net EXCEPT ![c][e] = <<>>]
    /\ Resets(c, e, net[c][e])
    /\ UNCHANGED <<mode, histVars>>

\* The references that are left after n file objects or connections were
\* closed, and whether the last of them says so to the peer (_decrefAsync).
Notifies(r, n) == r.refs - n = 0 /\ r.open

-----------------------------------------------------------------------------
(* Reading.                                                                *)

LineEnds(file) == {i \in DOMAIN file : file[i][1] = "line"}
FirstLine(file) == IF LineEnds(file) = {} THEN 0
                   ELSE CHOOSE i \in LineEnds(file) : \A j \in LineEnds(file) : i <= j

\* The end wants to read and has nothing read ahead.
Wants(c, e) ==
    LET r == link[c][e]
        p == prog[c][e]
    IN  /\ r.buf = <<>> /\ r.open
        /\ \/ p.pc = "line" /\ LineEnds(r.file) = {}
           \/ p.pc = "body" /\ Len(p.got) < p.size /\ r.file = <<>>

\* _getMsg for a record: data, a close_notify, which is answered and makes
\* reads return nothing from now on, or one that was tampered with.
GetRecord(c, e) ==
    /\ Wants(c, e) /\ net[c][e] # <<>>
    /\ LET got == Head(net[c][e])
           r == link[c][e]
           plain == Opened(mode[c], r.rseq, got)
       IN  CASE ~plain.ok -> Raises(c, e)
             [] plain.ok /\ got.type = "data" ->
                  /\ link' = [link EXCEPT ![c][e].rseq = @ + 1, ![c][e].buf = plain.data]
                  /\ net' = [net EXCEPT ![c][e] = Tail(@)]
                  /\ UNCHANGED <<mode, prog, lost, histVars>>
             [] plain.ok /\ got.type = "alert" ->
                  /\ link' = [link EXCEPT ![c][e].open = FALSE, ![c][e].sock = FALSE]
                  /\ net' = [net EXCEPT ![c] = [d \in Ends |->
                                IF d = e THEN <<>>
                                ELSE Sent(c, e, Rec(r.wseq, "alert", CloseNotify))]]
                  /\ Resets(c, e, Tail(net[c][e]))
                  /\ UNCHANGED <<mode, prog, histVars>>

\* The socket of the peer is closed, without a close_notify
\* (TLSAbruptCloseError), or recv fails.
GetEOF(c, e) ==
    /\ Wants(c, e)
    /\ (net[c][e] = <<>> /\ ~link[c][Peer(e)].sock) \/ c \in lost
    /\ Raises(c, e)

\* recv(n) returns at most n bytes, into the file object or straight into what
\* read() returns.
Taken(r, n) == SubSeq(r.buf, 1, Least(n, Len(r.buf)))
Left(r, n) == SubSeq(r.buf, n + 1, Len(r.buf))

\* _fileobject.readline, until there is a line or nothing more comes.
ReadLine(c, e) ==
    /\ prog[c][e].pc = "line"
    /\ LET r == link[c][e]
           end == FirstLine(r.file)
       IN  \/ /\ end = 0 /\ r.buf # <<>>
              /\ link' = [link EXCEPT ![c][e].file = @ \o Taken(r, BufSize),
                                      ![c][e].buf = Left(r, BufSize)]
              /\ UNCHANGED <<mode, net, prog, lost, histVars>>
           \/ /\ end > 0 /\ IsLength(SubSeq(r.file, 1, end))
              /\ link' = [link EXCEPT ![c][e].file = SubSeq(@, end + 1, Len(@))]
              /\ prog' = [prog EXCEPT ![c][e] = [@ EXCEPT !.pc = "body", !.got = <<>>,
                                                          !.size = r.file[end][2]]]
              /\ UNCHANGED <<mode, net, lost, histVars>>
           \/ /\ end > 0 => ~IsLength(SubSeq(r.file, 1, end))
              /\ end = 0 => r.buf = <<>> /\ ~r.open
              /\ Raises(c, e)

\* The loop of _read_with_length and the one of _fileobject.read: first what
\* was read ahead, then recv.  When nothing more comes it goes round for ever.
ReadBody(c, e) ==
    /\ prog[c][e].pc = "body" /\ Len(prog[c][e].got) < prog[c][e].size
    /\ LET r == link[c][e]
           need == prog[c][e].size - Len(prog[c][e].got)
           n == Least(need, Len(r.file))
       IN  \/ /\ r.file # <<>>
              /\ link' = [link EXCEPT ![c][e].file = SubSeq(@, n + 1, Len(@))]
              /\ prog' = [prog EXCEPT ![c][e].got = @ \o SubSeq(r.file, 1, n)]
           \/ /\ r.file = <<>> /\ r.buf # <<>>
              /\ link' = [link EXCEPT ![c][e].buf = Left(r, need)]
              /\ prog' = [prog EXCEPT ![c][e].got = @ \o Taken(r, need)]
    /\ UNCHANGED <<mode, net, lost, histVars>>

\* Mutant of Complete: one read is taken for the whole.
Complete_Once(p) == p.pc = "body" /\ (p.got # <<>> \/ p.size = 0)

Complete(p) == p.pc = "body" /\ Len(p.got) >= p.size

-----------------------------------------------------------------------------
(* Writing.                                                                *)

SendRecord(c, e) ==
    /\ prog[c][e].pc = "send" /\ prog[c][e].out # <<>>
    /\ link[c][e].open /\ Room(c, e)
    /\ net' = [net EXCEPT ![c][Peer(e)] =
                  Sent(c, e, Rec(link[c][e].wseq, "data", Head(prog[c][e].out)))]
    /\ link' = [link EXCEPT ![c][e].wseq = @ + 1]
    /\ prog' = [prog EXCEPT ![c][e].out = Tail(@)]
    /\ Writes(c, e)
    /\ UNCHANGED <<mode, histVars>>

\* socket.error, which shuts the connection down (writeAsync).
SendFails(c, e) ==
    /\ prog[c][e].pc = "send" /\ prog[c][e].out # <<>> /\ c \in lost
    /\ Raises(c, e)

-----------------------------------------------------------------------------
(* The client.                                                             *)

\* RevTLSClient.connect and the server's setup.  makefile() counts as a
\* reference, and so does the connection.  One client comes after the other;
\* the server's thread may still be busy with the one before.
Connect(c, todo, list) ==
    /\ prog[c]["C"].pc = "idle"
    /\ \A b \in 1 .. c - 1 : prog[b]["C"].pc \in Over \ {"idle"}
    /\ \E m \in Modes : mode' = [mode EXCEPT ![c] = m]
    /\ link' = [link EXCEPT ![c] = [C |-> [NewLink EXCEPT !.refs = 2],
                                    S |-> [NewLink EXCEPT !.refs = 3]]]
    /\ prog' = [prog EXCEPT ![c] = [C |-> [Idle EXCEPT !.pc = "next", !.todo = todo,
                                                       !.body = Body(list)],
                                    S |-> [Idle EXCEPT !.pc = "line"]]]
    /\ UNCHANGED <<net, lost, histVars>>

\* The next call: sendall, recvall, or conn.send without a length.
Call(c) ==
    /\ prog[c]["C"].pc = "next" /\ prog[c]["C"].todo # <<>>
    /\ LET p == prog[c]["C"]
           rest == [p EXCEPT !.todo = Tail(@)]
           what == Head(p.todo)
       IN  /\ what # "close"
           /\ prog' = [prog EXCEPT ![c]["C"] =
                 CASE what = "sendall" ->
                        [rest EXCEPT !.pc = "send",
                                     !.out = Flushed(mode[c], Header(Len(p.body)) \o p.body)]
                   [] what = "send" -> [rest EXCEPT !.pc = "send",
                                                    !.out = RecordsOf(mode[c], p.body)]
                   [] what = "recvall" -> [rest EXCEPT !.pc = "line"]]
    /\ UNCHANGED <<mode, link, net, lost, histVars>>

\* sendall or recvall returns.
Return(c) ==
    /\ LET p == prog[c]["C"]
       IN  \/ p.pc = "send" /\ p.out = <<>> /\ UNCHANGED answers
           \/ Complete(p) /\ answers' = [answers EXCEPT ![c] = Append(@, p.got)]
    /\ prog' = [prog EXCEPT ![c]["C"].pc = "next"]
    /\ UNCHANGED <<mode, link, net, lost, handled, replied>>

\* RevTLSClient.close: the file object, then the connection, whose
\* close_notify may fail.
Close(c) ==
    /\ prog[c]["C"].pc = "next" /\ prog[c]["C"].todo # <<>>
    /\ Head(prog[c]["C"].todo) = "close"
    /\ LET r == link[c]["C"]
           alert == Rec(r.wseq, "alert", CloseNotify)
       IN  /\ Room(c, "C") \/ c \in lost
           /\ net' = [net EXCEPT ![c] = [d \in Ends |->
                        IF d = "C" THEN <<>>
                        ELSE IF Notifies(r, 2) /\ Room(c, "C") THEN Sent(c, "C", alert)
                        ELSE @["S"]]]
    /\ Resets(c, "C", net[c]["C"])
    /\ Ends_(c, "C", [prog[c]["C"] EXCEPT !.pc = "done", !.todo = <<>>])
    /\ UNCHANGED <<mode, histVars>>

\* The process ends without it.
Exit(c) ==
    /\ prog[c]["C"].pc = "next" /\ prog[c]["C"].todo = <<>>
    /\ Ends_(c, "C", [prog[c]["C"] EXCEPT !.pc = "done"])
    /\ net' = [net EXCEPT ![c]["C"] = <<>>]
    /\ Resets(c, "C", net[c]["C"])
    /\ UNCHANGED <<mode, histVars>>

-----------------------------------------------------------------------------
(* The server's thread.                                                    *)

\* _ReqHandler.handle: the handler is called with the request, and raises or
\* writes a reply.  wfile is not buffered, so that the line is a write.
Handle(c) ==
    /\ Complete(prog[c]["S"])
    /\ handled' = Append(handled, [conn |-> c, data |-> prog[c]["S"].got])
    /\ \/ \E reply \in Replies :
             /\ replied' = [replied EXCEPT ![c] = Append(@, Body(reply))]
             /\ prog' = [prog EXCEPT ![c]["S"] =
                    [@ EXCEPT !.pc = "send",
                              !.out = Flushed(mode[c], Header(Len(reply)))
                                      \o Flushed(mode[c], Body(reply))]]
             /\ UNCHANGED <<link, net, lost>>
       \/ /\ Ends_(c, "S", [prog[c]["S"] EXCEPT !.pc = "failed"])
          /\ net' = [net EXCEPT ![c]["S"] = <<>>]
          /\ Resets(c, "S", net[c]["S"])
          /\ UNCHANGED replied
    /\ UNCHANGED <<mode, answers>>

\* finish and shutdown_request: two of three references are given up, so that
\* no close_notify is sent, and the socket is closed.
Finish(c) ==
    /\ prog[c]["S"].pc = "send" /\ prog[c]["S"].out = <<>>
    /\ ~Notifies(link[c]["S"], 2)
    /\ Ends_(c, "S", [prog[c]["S"] EXCEPT !.pc = "done"])
    /\ net' = [net EXCEPT ![c]["S"] = <<>>]
    /\ Resets(c, "S", net[c]["S"])
    /\ UNCHANGED <<mode, histVars>>

Break(c) ==
    /\ c \notin lost /\ Cardinality(lost) < MaxBreaks
    /\ \E e \in Ends : prog[c][e].pc \notin Over
    /\ lost' = lost \cup {c}
    /\ UNCHANGED <<mode, link, net, prog, histVars>>

EndStep(c, e) == \/ GetRecord(c, e) \/ GetEOF(c, e) \/ ReadLine(c, e) \/ ReadBody(c, e)
                 \/ SendRecord(c, e) \/ SendFails(c, e)
ClientStep(c) == EndStep(c, "C") \/ Call(c) \/ Return(c) \/ Close(c) \/ Exit(c)
ServerStep(c) == EndStep(c, "S") \/ Handle(c) \/ Finish(c)

StreamInit ==
    /\ mode = [c \in Conns |-> CHOOSE m \in Modes : TRUE]
    /\ link = [c \in Conns |-> [e \in Ends |-> NoLink]]
    /\ net = [c \in Conns |-> [e \in Ends |-> <<>>]]
    /\ prog = [c \in Conns |-> [e \in Ends |-> Idle]]
    /\ handled = <<>> /\ lost = {}
    /\ replied = [c \in Conns |-> <<>>] /\ answers = [c \in Conns |-> <<>>]

StreamStep == \E c \in Conns : ClientStep(c) \/ ServerStep(c) \/ Break(c)

\* Programs that block in recv and send, and of which some goes on as long as
\* one can.
StreamFairness == WF_vars(\E c \in Conns : ClientStep(c) \/ ServerStep(c))
=============================================================================
