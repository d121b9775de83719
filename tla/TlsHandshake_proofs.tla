------------------------ MODULE TlsHandshake_proofs ------------------------
(***************************************************************************)
(* Two theorems about the handshake, for any number of connections,        *)
(* clients and servers with any parameters, any cache, and however         *)
(* connections break and messages are late: what it negotiates, and that   *)
(* it implements TlsSession.                                               *)
(***************************************************************************)
EXTENDS TlsHandshake, SequenceTheorems, FiniteSetTheorems, TLAPS

\* A sequence, of whatever elements.
IsSeq(s) == s \in Seq(ToSet(s))

----------------------------------------------------------------------------
(* The elements of sequences.                                              *)

LEMMA SeqOver ==
  ASSUME NEW S, NEW s \in Seq(S)
  PROVE  /\ IsSeq(s) /\ ToSet(s) \subseteq S
         /\ ToSet(s) = {s[i] : i \in 1 .. Len(s)}
<1>1. s \in [1 .. Len(s) -> S] /\ DOMAIN s = 1 .. Len(s) /\ Len(s) \in Nat
  BY LenProperties
<1>2. ToSet(s) = {s[i] : i \in 1 .. Len(s)}
  BY <1>1 DEF ToSet
<1>3. s \in [1 .. Len(s) -> ToSet(s)]
  BY <1>1, <1>2
<1>4. s \in Seq(ToSet(s))
  BY <1>1, <1>3
<1>5. QED
  BY <1>1, <1>2, <1>4 DEF IsSeq

LEMMA SeqEmpty == IsSeq(<<>>) /\ ToSet(<<>>) = {}
  BY DEF IsSeq, ToSet

LEMMA SeqOne ==
  ASSUME NEW a
  PROVE  IsSeq(<<a>>) /\ ToSet(<<a>>) = {a}
<1>1. <<a>> \in Seq({a}) /\ Len(<<a>>) = 1 /\ <<a>>[1] = a
  OBVIOUS
<1>2. \A i \in 1 .. 1 : i = 1
  OBVIOUS
<1>3. {<<a>>[i] : i \in 1 .. 1} = {a}
  BY <1>1, <1>2
<1>4. QED
  BY <1>1, <1>3, SeqOver

LEMMA SeqTwo ==
  ASSUME NEW a, NEW b
  PROVE  IsSeq(<<a, b>>) /\ ToSet(<<a, b>>) = {a, b}
<1>1. /\ <<a, b>> \in Seq({a, b}) /\ Len(<<a, b>>) = 2
      /\ <<a, b>>[1] = a /\ <<a, b>>[2] = b
  OBVIOUS
<1>2. 1 \in 1 .. 2 /\ 2 \in 1 .. 2 /\ \A i \in 1 .. 2 : i = 1 \/ i = 2
  OBVIOUS
<1>3. {<<a, b>>[i] : i \in 1 .. 2} = {a, b}
  BY <1>1, <1>2
<1>4. QED
  BY <1>1, <1>3, SeqOver

LEMMA SeqConcat ==
  ASSUME NEW s, NEW t, IsSeq(s), IsSeq(t)
  PROVE  IsSeq(s \o t) /\ ToSet(s \o t) \subseteq ToSet(s) \cup ToSet(t)
<1> DEFINE U == ToSet(s) \cup ToSet(t)
<1>1. s \in Seq(U) /\ t \in Seq(U)
  BY SeqMonotonic DEF IsSeq
<1>2. s \o t \in Seq(U)
  BY <1>1, ConcatProperties
<1>3. QED
  BY <1>2, SeqOver

LEMMA SeqTail ==
  ASSUME NEW s, IsSeq(s), s # <<>>
  PROVE  /\ Head(s) \in ToSet(s)
         /\ IsSeq(Tail(s)) /\ ToSet(Tail(s)) \subseteq ToSet(s)
<1>1. Head(s) \in ToSet(s) /\ Tail(s) \in Seq(ToSet(s))
  BY HeadTailProperties DEF IsSeq
<1>2. QED
  BY <1>1, SeqOver

LEMMA SeqMap ==
  ASSUME NEW s, IsSeq(s), NEW f, DOMAIN f = DOMAIN s, f = [i \in DOMAIN s |-> f[i]]
  PROVE  IsSeq(f)
<1>1. DOMAIN s = 1 .. Len(s) /\ Len(s) \in Nat
  BY LenProperties DEF IsSeq
<1>2. f \in [1 .. Len(s) -> ToSet(f)]
  BY <1>1 DEF ToSet
<1>3. QED
  BY <1>1, <1>2 DEF IsSeq

----------------------------------------------------------------------------
(***************************************************************************)
(* The invariant.  Of a connection at which neither end has given up, it   *)
(* says what the server has decided, what each end knows at the message it *)
(* waits for, and what the messages on their way say.                      *)
(***************************************************************************)

\* Every object has the attributes it was created with.
EndShape(r) ==
  /\ r = [x \in DOMAIN r |-> r[x]]
  /\ DOMAIN r = {"pc", "version", "suite", "id", "offer", "basis", "secret", "log", "ws",
                 "rs", "chain", "requested", "protos", "resumed"}
  /\ r.resumed \in BOOLEAN

SessShape(s) ==
  /\ s = [x \in DOMAIN s |-> s[x]]
  /\ DOMAIN s = {"secret", "id", "suite", "user", "name", "resumable"}

Shape ==
  /\ end = [c \in Conns |-> [e \in Ends |-> end[c][e]]]
  /\ net = [c \in Conns |-> [e \in Ends |-> net[c][e]]]
  /\ sess = [c \in Conns |-> [e \in Ends |-> sess[c][e]]]
  /\ \A c \in Conns, e \in Ends :
       EndShape(end[c][e]) /\ IsSeq(net[c][e]) /\ SessShape(sess[c][e])

Proper == CasesAreProper(<<server, client>>)

\* The protocol of a client, if it has one, and a connection that was not opened.
Unused(c) ==
  /\ IsSeq(end[c]["C"].protos)
  /\ end[c]["C"].pc = "idle" => /\ end[c]["S"].pc = "idle" /\ net[c]["C"] = <<>>
                                /\ sess[c]["C"] = NoSession

\* Past the last message of its own key exchange.
Finishing == {"change_cipher_spec", "next_protocol", "finished", "check", "open"}

\* Whether a server k asks for a certificate.
Asks(k, suite) == suite[1] = "cert" /\ k.req

\* The secret of a client that logs in with the right password, or without one.
ClientSecret(p, c, suite) ==
  IF IsSrp(suite) /\ p.password # "right" THEN <<"own", c>> ELSE <<"shared", c>>

\* What the ClientHello of a client says.
Hello(p, r) ==
  [version |-> p.max, id |-> r.offer, suites |-> ClientSuites(p), user |-> p.user,
   name |-> p.name, npn |-> p.protos # <<>>]

\* A message m on its way to the server, or to the client.
ToServer(p, r, m) ==
  /\ m.type = "client_hello" => m.body = Hello(p, r)
  /\ m.type = "certificate" => m.body = p.cert
  /\ m.type = "finished" => r.pc \in Finishing /\ m.body[1] = r.secret

ToClient(k, s, m) ==
  /\ m.type = "server_hello" => /\ m.body.version = s.version
                                /\ m.body.suite = s.suite
                                /\ m.body.id = s.id
  /\ m.type = "certificate" => m.body = k.chain

\* The server's end, when it has answered the ClientHello.
Decided(k, p, s) ==
  /\ Filters(k) /\ p.max >= k.min /\ s.version = Smaller(p.max, k.max)

FullServer(k, p, c, s) ==
  /\ Mutual(k, ClientSuites(p)) # <<>>
  /\ s.suite = Mutual(k, ClientSuites(p))[1]
  /\ IsSrp(s.suite) => p.user \in Users
  /\ s.id \in {0, c}
  /\ IF s.pc = "certificate" THEN Asks(k, s.suite) /\ s.chain = "none"
     ELSE s.chain = IF Asks(k, s.suite) THEN p.cert ELSE "none"
  /\ s.pc \in Finishing \cup {"certificate_verify"} => s.secret = <<"shared", c>>
  /\ s.pc \in Finishing => s.chain = "none" \/ ~k.strict
  /\ s.pc = "open" => k.check \in {"any", s.chain}

ServerSide(k, p, c, r, s) ==
  /\ s.pc = "client_hello" => /\ r.pc = "server_hello"
                              /\ ~s.resumed /\ s.chain = "none"
  /\ s.pc # "client_hello" => /\ Decided(k, p, s)
                              /\ ~s.resumed => FullServer(k, p, c, s)

\* The client's end, when it has read the ServerHello.
Told(p, r, s) ==
  /\ s.pc # "client_hello"
  /\ r.version = s.version /\ r.suite = s.suite
  /\ p.min <= r.version /\ r.version <= p.max
  /\ r.resumed => s.resumed

FullClient(k, p, c, r) ==
  /\ IF r.pc = "certificate" THEN HasCertificate(r.suite) /\ r.chain = "none"
     ELSE r.chain = IF HasCertificate(r.suite) THEN k.chain ELSE "none"
  /\ r.pc \in Finishing => /\ r.suite[1] # "anon" => ~p.strict
                           /\ r.secret = ClientSecret(p, c, r.suite)
  /\ r.pc = "open" => p.check \in {"any", r.chain}

ClientSide(k, p, c, r, s) ==
  /\ r.offer # c
  /\ r.pc = "server_hello" => ~r.resumed /\ r.chain = "none"
  /\ r.pc # "server_hello" => /\ Told(p, r, s)
                              /\ ~r.resumed => FullClient(k, p, c, r)

\* What the server knows of the client when it has read its Finished.
Verified(r, s) ==
  s.pc \in {"check", "open"} /\ ~s.resumed =>
    r.pc \in Finishing /\ r.secret = s.secret

Linked(k, p, c, r, s, toC, toS) ==
  /\ s.pc = "client_hello" => toC = <<>>
  /\ \A m \in ToSet(toC) : ToClient(k, s, m)
  /\ \A m \in ToSet(toS) : ToServer(p, r, m)
  /\ ServerSide(k, p, c, r, s)
  /\ ClientSide(k, p, c, r, s)
  /\ Verified(r, s)

Alive(c) == \A e \in Ends : end[c][e].pc \notin {"idle", "closed", "failed"}

LinkInv(c) ==
  Alive(c) => /\ c \in DOMAIN client
              /\ Linked(server, client[c], c, end[c]["C"], end[c]["S"],
                        net[c]["C"], net[c]["S"])

HInv == /\ Shape /\ Proper
        /\ \A c \in Conns : Unused(c) /\ LinkInv(c)

----------------------------------------------------------------------------
(* What a step at one end of one connection leaves alone.                  *)

LEMMA LinkFrame ==
  ASSUME NEW c \in Conns, LinkInv(c), end'[c] = end[c], net'[c] = net[c],
         server' = server, client' = client
  PROVE  LinkInv(c)'
  BY DEF LinkInv, Alive

LEMMA UnusedFrame ==
  ASSUME NEW c \in Conns, Unused(c), end'[c] = end[c], net'[c] = net[c],
         sess[c]["C"] = NoSession => sess'[c]["C"] = NoSession
  PROVE  Unused(c)'
  BY DEF Unused

\* The state of the connections after a step.
Connections == /\ end = [c \in Conns |-> [e \in Ends |-> end[c][e]]]
               /\ net = [c \in Conns |-> [e \in Ends |-> net[c][e]]]
               /\ \A c \in Conns, e \in Ends : EndShape(end[c][e]) /\ IsSeq(net[c][e])
Sessions == /\ sess = [c \in Conns |-> [e \in Ends |-> sess[c][e]]]
            /\ \A c \in Conns, e \in Ends : SessShape(sess[c][e])

\* A function of two arguments, and one with one value replaced.
TwoArgs(D, E, f) == f = [x \in D |-> [y \in E |-> f[x][y]]]
With(f, a, b, v) == [f EXCEPT ![a][b] = v]

LEMMA Replaced ==
  ASSUME NEW D, NEW E, NEW f, TwoArgs(D, E, f), NEW a \in D, NEW b \in E, NEW v
  PROVE  /\ TwoArgs(D, E, With(f, a, b, v))
         /\ With(f, a, b, v)[a][b] = v
         /\ \A x \in D, y \in E : x # a \/ y # b => With(f, a, b, v)[x][y] = f[x][y]
         /\ \A x \in D \ {a} : With(f, a, b, v)[x] = f[x]
<1> DEFINE g == With(f, a, b, v)
<1>0. f = [x \in D |-> [y \in E |-> f[x][y]]] /\ g = [f EXCEPT ![a][b] = v]
  BY DEF TwoArgs, With
<1> HIDE DEF g
<1>1. g = [x \in D |-> IF x = a THEN [f[a] EXCEPT ![b] = v] ELSE f[x]]
  BY <1>0
<1>2. \A x \in D : f[x] = [y \in E |-> f[x][y]]
  BY <1>0, Zenon
<1>3. [f[a] EXCEPT ![b] = v] = [y \in E |-> IF y = b THEN v ELSE f[a][y]]
  BY <1>2
<1>4. \A x \in D \ {a} : g[x] = f[x]
  BY <1>1
<1>5. g[a] = [y \in E |-> IF y = b THEN v ELSE f[a][y]]
  BY <1>1, <1>3
<1>6. \A x \in D : g[x] = [y \in E |-> IF x = a /\ y = b THEN v ELSE f[x][y]]
  BY <1>2, <1>4, <1>5, Zenon
<1>7. \A x \in D, y \in E : g[x][y] = IF x = a /\ y = b THEN v ELSE f[x][y]
  BY <1>6
<1>8. g = [x \in D |-> [y \in E |-> IF x = a /\ y = b THEN v ELSE f[x][y]]]
  BY <1>1, <1>6, Zenon
<1>9. g = [x \in D |-> [y \in E |-> g[x][y]]]
  BY <1>6, <1>7, <1>8, Zenon
<1>10. QED
  BY <1>4, <1>7, <1>9 DEF TwoArgs, g

\* A session that is not resumed any more; one that was never made stays so.
LEMMA GivenUp ==
  ASSUME NEW s, SessShape(s)
  PROVE  /\ SessShape([s EXCEPT !.resumable = FALSE])
         /\ s = NoSession => [s EXCEPT !.resumable = FALSE] = NoSession
<1> DEFINE t == [s EXCEPT !.resumable = FALSE]
<1>1. SessShape(t) /\ DOMAIN t = DOMAIN s
  BY DEF SessShape
<1>2. \A x \in DOMAIN s : t[x] = IF x = "resumable" THEN FALSE ELSE s[x]
  BY DEF SessShape
<1>3. ASSUME s = NoSession PROVE t = NoSession
  <2>1. s.resumable = FALSE
    BY <1>3 DEF NoSession
  <2>2. \A x \in DOMAIN s : t[x] = s[x]
    BY <1>2, <2>1
  <2>3. t = [x \in DOMAIN t |-> t[x]] /\ s = [x \in DOMAIN s |-> s[x]]
    BY <1>1 DEF SessShape
  <2>4. [x \in DOMAIN t |-> t[x]] = [x \in DOMAIN s |-> s[x]]
    BY <1>1, <2>2, Zenon
  <2>. HIDE DEF t
  <2>5. QED
    BY <1>3, <2>3, <2>4
<1>4. QED
  BY <1>1, <1>3

LEMMA Delivered ==
  ASSUME Shape, NEW c \in Conns, NEW e \in Ends, NEW out, IsSeq(out)
  PROVE  /\ IsSeq(Deliver(c, e, out))
         /\ ToSet(Deliver(c, e, out)) \subseteq ToSet(net[c][Peer(e)]) \cup ToSet(out)
<1>1. Peer(e) \in Ends
  BY DEF Peer, Ends
<1>2. IsSeq(net[c][Peer(e)])
  BY <1>1 DEF Shape
<1>3. QED
  BY <1>2, SeqConcat DEF Deliver

LEMMA Proceeds ==
  ASSUME Shape, NEW c \in Conns, NEW e \in Ends, NEW r, NEW out,
         EndShape(r), IsSeq(out), net[c][e] # <<>>, Proceed(c, e, r, out)
  PROVE  /\ Connections'
         /\ end'[c][e] = r /\ end'[c][Peer(e)] = end[c][Peer(e)]
         /\ \A d \in Conns \ {c} : end'[d] = end[d] /\ net'[d] = net[d]
         /\ ToSet(net'[c][e]) \subseteq ToSet(net[c][e])
         /\ ToSet(net'[c][Peer(e)]) \subseteq ToSet(net[c][Peer(e)]) \cup ToSet(out)
<1>1. Peer(e) \in Ends /\ Peer(e) # e /\ \A d \in Ends : d = e \/ d = Peer(e)
  BY DEF Peer, Ends
<1>2. /\ end' = [end EXCEPT ![c][e] = r]
      /\ net' = [net EXCEPT ![c] = [d \in Ends |-> IF d = e THEN Tail(@[e])
                                                   ELSE Deliver(c, e, out)]]
  BY DEF Proceed
<1>3. /\ end = [d \in Conns |-> [f \in Ends |-> end[d][f]]]
      /\ net = [d \in Conns |-> [f \in Ends |-> net[d][f]]]
      /\ \A d \in Conns, f \in Ends : EndShape(end[d][f]) /\ IsSeq(net[d][f])
  BY DEF Shape
<1>4. /\ IsSeq(Tail(net[c][e])) /\ ToSet(Tail(net[c][e])) \subseteq ToSet(net[c][e])
      /\ IsSeq(Deliver(c, e, out))
      /\ ToSet(Deliver(c, e, out)) \subseteq ToSet(net[c][Peer(e)]) \cup ToSet(out)
  BY <1>3, SeqTail, Delivered
<1>5. /\ end' = [d \in Conns |-> [f \in Ends |-> end'[d][f]]]
      /\ end'[c][e] = r /\ end'[c][Peer(e)] = end[c][Peer(e)]
      /\ \A d \in Conns \ {c} : end'[d] = end[d]
  <2>1. TwoArgs(Conns, Ends, end) /\ end' = With(end, c, e, r)
    BY <1>2, <1>3 DEF TwoArgs, With
  <2>2. /\ TwoArgs(Conns, Ends, end')
        /\ end'[c][e] = r
        /\ \A d \in Conns, f \in Ends : d # c \/ f # e => end'[d][f] = end[d][f]
        /\ \A d \in Conns \ {c} : end'[d] = end[d]
    BY <2>1, Replaced
  <2>3. QED
    BY <1>1, <2>2 DEF TwoArgs
<1>6. /\ net' = [d \in Conns |-> [f \in Ends |-> net'[d][f]]]
      /\ net'[c][e] = Tail(net[c][e]) /\ net'[c][Peer(e)] = Deliver(c, e, out)
      /\ \A d \in Conns \ {c} : net'[d] = net[d]
  BY <1>1, <1>2, <1>3, Zenon
<1>7. \A d \in Conns, f \in Ends : EndShape(end'[d][f]) /\ IsSeq(net'[d][f])
  BY <1>1, <1>3, <1>4, <1>5, <1>6, Zenon
<1>8. QED
  BY <1>4, <1>5, <1>6, <1>7 DEF Connections, EndShape

LEMMA Shuts ==
  ASSUME Shape, NEW c \in Conns, NEW e \in Ends, NEW kept, NEW out, IsSeq(out),
         Shutdown(c, e, kept, out)
  PROVE  /\ Connections' /\ Sessions'
         /\ Gone(c, e)' /\ end'[c][Peer(e)] = end[c][Peer(e)]
         /\ end'[c][e].protos = end[c][e].protos
         /\ \A d \in Conns \ {c} : end'[d] = end[d] /\ net'[d] = net[d]
         /\ \A d \in Conns : sess[d]["C"] = NoSession => sess'[d]["C"] = NoSession
<1>1. Peer(e) \in Ends /\ Peer(e) # e /\ \A d \in Ends : d = e \/ d = Peer(e)
  BY DEF Peer, Ends
<1> DEFINE r == [end[c][e] EXCEPT !.ws = NoKey, !.rs = NoKey,
                    !.pc = IF end[c][e].pc = "open" THEN "closed" ELSE "failed"]
           b == end[c][e].basis
<1>2. /\ end' = [end EXCEPT ![c][e] = r]
      /\ net' = [net EXCEPT ![c] = [d \in Ends |-> IF d = e THEN <<>>
                                                   ELSE Deliver(c, e, out)]]
      /\ \/ sess' = sess
         \/ sess' = [sess EXCEPT ![b][e].resumable = FALSE]
  BY DEF Shutdown
<1>3. /\ end = [d \in Conns |-> [f \in Ends |-> end[d][f]]]
      /\ net = [d \in Conns |-> [f \in Ends |-> net[d][f]]]
      /\ sess = [d \in Conns |-> [f \in Ends |-> sess[d][f]]]
      /\ \A d \in Conns, f \in Ends :
           EndShape(end[d][f]) /\ IsSeq(net[d][f]) /\ SessShape(sess[d][f])
  BY DEF Shape
<1>4. IsSeq(<<>>) /\ IsSeq(Deliver(c, e, out))
  BY SeqEmpty, Delivered
<1>5. EndShape(r) /\ r.pc \in {"closed", "failed"} /\ r.protos = end[c][e].protos
  <2>1. EndShape(end[c][e])
    BY <1>3
  <2>2. EndShape(r)
    BY <2>1 DEF EndShape
  <2>3. r.pc \in {"closed", "failed"} /\ r.protos = end[c][e].protos
    BY <2>1 DEF EndShape
  <2>4. QED
    BY <2>2, <2>3
<1>6. /\ end' = [d \in Conns |-> [f \in Ends |-> end'[d][f]]]
      /\ end'[c][e] = r /\ end'[c][Peer(e)] = end[c][Peer(e)]
      /\ \A d \in Conns \ {c} : end'[d] = end[d]
  <2> HIDE DEF r
  <2>1. TwoArgs(Conns, Ends, end) /\ end' = With(end, c, e, r)
    BY <1>2, <1>3 DEF TwoArgs, With
  <2>2. /\ TwoArgs(Conns, Ends, end')
        /\ end'[c][e] = r
        /\ \A d \in Conns, f \in Ends : d # c \/ f # e => end'[d][f] = end[d][f]
        /\ \A d \in Conns \ {c} : end'[d] = end[d]
    BY <2>1, Replaced
  <2>3. QED
    BY <1>1, <2>2 DEF TwoArgs
<1>7. /\ net' = [d \in Conns |-> [f \in Ends |-> net'[d][f]]]
      /\ net'[c][e] = <<>> /\ net'[c][Peer(e)] = Deliver(c, e, out)
      /\ \A d \in Conns \ {c} : net'[d] = net[d]
  BY <1>1, <1>2, <1>3, Zenon
<1>8. Connections'
  <2>1. \A d \in Conns, f \in Ends : EndShape(end'[d][f]) /\ IsSeq(net'[d][f])
    <3> HIDE DEF r
    <3>1. QED
      BY <1>1, <1>3, <1>4, <1>5, <1>6, <1>7, Zenon
  <2>2. QED
    BY <1>6, <1>7, <2>1 DEF Connections, EndShape
<1>9. /\ Sessions'
      /\ \A d \in Conns : sess[d]["C"] = NoSession => sess'[d]["C"] = NoSession
  <2>1. CASE sess' = sess \/ b \notin Conns
    <3>1. sess' = sess
      BY <1>2, <1>3, <2>1
    <3>2. QED
      BY <1>3, <3>1 DEF Sessions, SessShape
  <2>2. CASE sess' = [sess EXCEPT ![b][e].resumable = FALSE] /\ b \in Conns
    <3> DEFINE t == [sess[b][e] EXCEPT !.resumable = FALSE]
    <3>1. SessShape(t) /\ (sess[b][e] = NoSession => t = NoSession)
      BY <1>3, <2>2, GivenUp
    <3>2. sess' = [sess EXCEPT ![b][e] = t]
      BY <2>2, Zenon
    <3>. b \in Conns
      BY <2>2
    <3> HIDE DEF t, b
    <3>3. TwoArgs(Conns, Ends, sess) /\ sess' = With(sess, b, e, t)
      BY <1>3, <3>2 DEF TwoArgs, With
    <3>4. /\ TwoArgs(Conns, Ends, sess')
          /\ sess'[b][e] = t
          /\ \A d \in Conns, f \in Ends : d # b \/ f # e => sess'[d][f] = sess[d][f]
      BY <3>3, Replaced
    <3>4a. \A d \in Conns, f \in Ends : sess'[d][f] = t \/ sess'[d][f] = sess[d][f]
      BY <3>4
    <3>5. \A d \in Conns, f \in Ends : SessShape(sess'[d][f])
      BY <1>3, <3>1, <3>4a
    <3>6. \A d \in Conns : sess[d]["C"] = NoSession => sess'[d]["C"] = NoSession
      BY <3>1, <3>4 DEF Ends
    <3>7. QED
      BY <3>4, <3>5, <3>6 DEF TwoArgs, Sessions, SessShape
  <2>3. QED
    BY <1>2, <2>1, <2>2
<1>10. Gone(c, e)' /\ end'[c][e].protos = end[c][e].protos
  <2> HIDE DEF r
  <2>1. QED
    BY <1>5, <1>6 DEF Gone
<1>11. QED
  BY <1>6, <1>7, <1>8, <1>9, <1>10

----------------------------------------------------------------------------
(* The invariant after a step of one end.                                  *)

\* What is left to show of a step at c.
LEMMA StepAt ==
  ASSUME HInv, NEW c \in Conns, Connections', Sessions',
         server' = server, client' = client,
         \A d \in Conns \ {c} : end'[d] = end[d] /\ net'[d] = net[d],
         \A d \in Conns \ {c} : sess[d]["C"] = NoSession => sess'[d]["C"] = NoSession,
         Unused(c)', LinkInv(c)'
  PROVE  HInv'
<1>1. Shape'
  BY DEF Connections, Sessions, Shape, EndShape, SessShape
<1>2. Proper'
  BY DEF HInv, Proper
<1>3. \A d \in Conns \ {c} : Unused(d)' /\ LinkInv(d)'
  BY LinkFrame, UnusedFrame DEF HInv
<1>4. QED
  BY <1>1, <1>2, <1>3 DEF HInv

LEMMA ShutStep ==
  ASSUME HInv, NEW c \in Conns, NEW e \in Ends, NEW kept, NEW out, IsSeq(out),
         Shutdown(c, e, kept, out), end[c][e].pc # "idle",
         server' = server, client' = client
  PROVE  HInv'
<1>1. Shape
  BY DEF HInv
<1>2. /\ Connections' /\ Sessions'
      /\ Gone(c, e)' /\ end'[c][Peer(e)] = end[c][Peer(e)]
      /\ end'[c][e].protos = end[c][e].protos
      /\ \A d \in Conns \ {c} : end'[d] = end[d] /\ net'[d] = net[d]
      /\ \A d \in Conns : sess[d]["C"] = NoSession => sess'[d]["C"] = NoSession
  BY <1>1, Shuts
<1>3. LinkInv(c)'
  BY <1>2 DEF LinkInv, Alive, Gone
<1>4. Unused(c)'
  <2>1. end[c]["C"].pc # "idle"
    BY DEF HInv, Unused, Ends
  <2>2. end'[c]["C"].pc # "idle"
    BY <1>2, <2>1 DEF Gone, Peer, Ends
  <2>3. IsSeq(end'[c]["C"].protos)
    <3>1. end'[c]["C"].protos = end[c]["C"].protos
      BY <1>2 DEF Peer, Ends
    <3>2. QED
      BY <3>1 DEF HInv, Unused
  <2>4. QED
    BY <2>2, <2>3 DEF Unused
<1>5. QED
  BY <1>2, <1>3, <1>4, StepAt

\* What is to be shown of a client that goes on as r and sends out, and of a
\* server that goes on as s.
ClientKeeps(c, r, out) ==
  Alive(c) => /\ \A m \in ToSet(net[c]["S"]) \cup ToSet(out) : ToServer(client[c], r, m)
              /\ ServerSide(server, client[c], c, r, end[c]["S"])
              /\ ClientSide(server, client[c], c, r, end[c]["S"])
              /\ Verified(r, end[c]["S"])

ServerKeeps(c, s, out) ==
  Alive(c) => /\ \A m \in ToSet(net[c]["C"]) \cup ToSet(out) : ToClient(server, s, m)
              /\ ServerSide(server, client[c], c, end[c]["C"], s)
              /\ ClientSide(server, client[c], c, end[c]["C"], s)
              /\ Verified(end[c]["C"], s)

\* The client takes a message, goes on as r and sends out.
LEMMA ClientProceeds ==
  ASSUME HInv, NEW c \in Conns, NEW r, NEW out, Proceed(c, "C", r, out), EndShape(r),
         IsSeq(out), net[c]["C"] # <<>>, r.pc # "idle", IsSeq(r.protos),
         end[c]["C"].pc \notin {"idle", "closed", "failed"},
         server' = server, client' = client, Sessions',
         \A d \in Conns \ {c} : sess'[d] = sess[d],
         ClientKeeps(c, r, out)
  PROVE  HInv'
<1>1. Shape /\ "C" \in Ends /\ Peer("C") = "S"
  BY DEF HInv, Ends, Peer
<1>2. /\ Connections'
      /\ end'[c]["C"] = r /\ end'[c]["S"] = end[c]["S"]
      /\ \A d \in Conns \ {c} : end'[d] = end[d] /\ net'[d] = net[d]
      /\ ToSet(net'[c]["C"]) \subseteq ToSet(net[c]["C"])
      /\ ToSet(net'[c]["S"]) \subseteq ToSet(net[c]["S"]) \cup ToSet(out)
  BY <1>1, Proceeds
<1>3. LinkInv(c)'
  <2> SUFFICES ASSUME Alive(c)'
               PROVE  /\ c \in DOMAIN client
                      /\ Linked(server, client[c], c, r, end[c]["S"],
                                net'[c]["C"], net'[c]["S"])
    BY <1>2 DEF LinkInv
  <2>1. Alive(c)
    BY <1>2 DEF Alive, Ends
  <2>2. LinkInv(c)
    BY DEF HInv
  <2>3. c \in DOMAIN client /\ Linked(server, client[c], c, end[c]["C"], end[c]["S"],
                                      net[c]["C"], net[c]["S"])
    BY <2>1, <2>2 DEF LinkInv
  <2>4. end[c]["S"].pc # "client_hello"
    BY <2>3 DEF Linked
  <2>5. \A m \in ToSet(net[c]["C"]) : ToClient(server, end[c]["S"], m)
    BY <2>3 DEF Linked
  <2>6. \A m \in ToSet(net'[c]["C"]) : ToClient(server, end[c]["S"], m)
    BY <1>2, <2>5
  <2>7. \A m \in ToSet(net'[c]["S"]) : ToServer(client[c], r, m)
    BY <1>2, <2>1 DEF ClientKeeps
  <2>8. QED
    BY <2>1, <2>3, <2>4, <2>6, <2>7 DEF Linked, ClientKeeps
<1>4. Unused(c)'
  BY <1>2 DEF Unused
<1>5. QED
  BY <1>2, <1>3, <1>4, StepAt

\* The server does.
LEMMA ServerProceeds ==
  ASSUME HInv, NEW c \in Conns, NEW s, NEW out, Proceed(c, "S", s, out), EndShape(s),
         IsSeq(out), net[c]["S"] # <<>>, s.pc # "client_hello",
         end[c]["S"].pc \notin {"idle", "closed", "failed"},
         server' = server, client' = client, Sessions',
         \A d \in Conns : sess'[d]["C"] = sess[d]["C"],
         ServerKeeps(c, s, out)
  PROVE  HInv'
<1>1. Shape /\ "S" \in Ends /\ Peer("S") = "C"
  BY DEF HInv, Ends, Peer
<1>2. /\ Connections'
      /\ end'[c]["S"] = s /\ end'[c]["C"] = end[c]["C"]
      /\ \A d \in Conns \ {c} : end'[d] = end[d] /\ net'[d] = net[d]
      /\ ToSet(net'[c]["S"]) \subseteq ToSet(net[c]["S"])
      /\ ToSet(net'[c]["C"]) \subseteq ToSet(net[c]["C"]) \cup ToSet(out)
  BY <1>1, Proceeds
<1>3. LinkInv(c)'
  <2> SUFFICES ASSUME Alive(c)'
               PROVE  /\ c \in DOMAIN client
                      /\ Linked(server, client[c], c, end[c]["C"], s,
                                net'[c]["C"], net'[c]["S"])
    BY <1>2 DEF LinkInv
  <2>1. Alive(c)
    BY <1>2 DEF Alive, Ends
  <2>2. LinkInv(c)
    BY DEF HInv
  <2>3. c \in DOMAIN client /\ Linked(server, client[c], c, end[c]["C"], end[c]["S"],
                                      net[c]["C"], net[c]["S"])
    BY <2>1, <2>2 DEF LinkInv
  <2>4. \A m \in ToSet(net[c]["S"]) : ToServer(client[c], end[c]["C"], m)
    BY <2>3 DEF Linked
  <2>5. \A m \in ToSet(net'[c]["S"]) : ToServer(client[c], end[c]["C"], m)
    BY <1>2, <2>4
  <2>6. \A m \in ToSet(net'[c]["C"]) : ToClient(server, s, m)
    BY <1>2, <2>1 DEF ServerKeeps
  <2>7. QED
    BY <2>1, <2>3, <2>5, <2>6 DEF Linked, ServerKeeps
<1>4. Unused(c)'
  <2>1. end[c]["C"].pc # "idle" /\ IsSeq(end[c]["C"].protos)
    BY DEF HInv, Unused
  <2>2. QED
    BY <1>2, <2>1 DEF Unused
<1>5. QED
  BY <1>2, <1>3, <1>4, StepAt

----------------------------------------------------------------------------
(* What an end sends, and what of its state it changes with it.            *)

\* The same but for the keys and the digest of the messages.
SameTerms(s, r) ==
  /\ s.pc = r.pc /\ s.version = r.version /\ s.suite = r.suite /\ s.id = r.id
  /\ s.offer = r.offer /\ s.basis = r.basis /\ s.secret = r.secret
  /\ s.chain = r.chain /\ s.requested = r.requested /\ s.protos = r.protos
  /\ s.resumed = r.resumed

LEMMA LoggedKeeps ==
  ASSUME NEW r, EndShape(r), NEW types
  PROVE  EndShape(Logged(r, types)) /\ SameTerms(Logged(r, types), r)
<1> DEFINE x == r.log \o types
<1>1. Logged(r, types) = [r EXCEPT !.log = x]
  BY DEF Logged
<1> HIDE DEF x
<1>2. QED
  BY <1>1 DEF EndShape, SameTerms

LEMMA FlightElements ==
  ASSUME NEW r, NEW bodies, IsSeq(bodies)
  PROVE  /\ IsSeq(Flight(r, bodies))
         /\ \A m \in ToSet(Flight(r, bodies)) :
              \E b \in ToSet(bodies) : m.type = b[1] /\ m.body = b[2]
<1> DEFINE f == Flight(r, bodies)
<1>1. f = [i \in DOMAIN bodies |-> [type |-> bodies[i][1], body |-> bodies[i][2],
                                    key |-> r.ws]]
  BY DEF Flight, Rec
<1>2. DOMAIN f = DOMAIN bodies /\ f = [i \in DOMAIN bodies |-> f[i]]
  BY <1>1
<1>3. IsSeq(f)
  <2> HIDE DEF f
  <2>1. QED
    BY <1>2, SeqMap
<1>4. \A i \in DOMAIN bodies : f[i].type = bodies[i][1] /\ f[i].body = bodies[i][2]
  BY <1>1
<1>5. QED
  BY <1>2, <1>3, <1>4 DEF ToSet

\* The last messages f of an end that is r.
Finishes(f, r) ==
  /\ EndShape(f.next) /\ SameTerms(f.next, r)
  /\ IsSeq(f.msgs)
  /\ \A m \in ToSet(f.msgs) :
       \/ m.type \in {"change_cipher_spec", "next_protocol"}
       \/ m.type = "finished" /\ m.body[1] = r.secret

LEMMA FinishedFlightElements ==
  ASSUME NEW c, NEW e, NEW r, EndShape(r), NEW proto, IsSeq(proto)
  PROVE  Finishes(FinishedFlight(c, e, r, proto), r)
<1> DEFINE f == FinishedFlight(c, e, r, proto)
           key == Key(c, e, r)
           types == [i \in DOMAIN proto |-> "next_protocol"]
           with == Logged(r, types)
           first == Rec("change_cipher_spec", 1, r.ws)
           middle == [i \in DOMAIN proto |-> Rec("next_protocol", proto[i], key)]
           last == Rec("finished", VerifyData(with, e), key)
           logged == Logged(with, <<"finished">>)
<1>1. /\ f.msgs = <<first>> \o middle \o <<last>>
      /\ f.next = [logged EXCEPT !.ws = key]
  BY DEF FinishedFlight
<1>2. EndShape(with) /\ SameTerms(with, r) /\ EndShape(logged) /\ SameTerms(logged, r)
  <2> HIDE DEF types
  <2>1. EndShape(with) /\ SameTerms(with, r)
    BY LoggedKeeps
  <2> HIDE DEF with
  <2>2. EndShape(logged) /\ SameTerms(logged, with)
    BY <2>1, LoggedKeeps
  <2>3. QED
    BY <2>1, <2>2 DEF SameTerms
<1>3. EndShape(f.next) /\ SameTerms(f.next, r)
  <2> HIDE DEF logged, key, f
  <2>1. QED
    BY <1>1, <1>2 DEF EndShape, SameTerms
<1>4. last.type = "finished" /\ last.body[1] = r.secret
  <2> HIDE DEF with, key
  <2>1. VerifyData(with, e)[1] = with.secret
    BY DEF VerifyData
  <2>2. last.type = "finished" /\ last.body = VerifyData(with, e)
    BY DEF Rec
  <2>3. QED
    BY <1>2, <2>1, <2>2 DEF SameTerms
<1>5. first.type = "change_cipher_spec"
  BY DEF Rec
<1>6. IsSeq(middle) /\ \A m \in ToSet(middle) : m.type = "next_protocol"
  <2> HIDE DEF key
  <2>1. \A i \in DOMAIN middle : middle[i].type = "next_protocol"
    BY DEF Rec
  <2>2. DOMAIN middle = DOMAIN proto /\ middle = [i \in DOMAIN proto |-> middle[i]]
    OBVIOUS
  <2> HIDE DEF middle
  <2>3. IsSeq(middle)
    BY <2>2, SeqMap
  <2>4. QED
    BY <2>1, <2>3 DEF ToSet
<1>7. /\ IsSeq(f.msgs)
      /\ ToSet(f.msgs) \subseteq {first} \cup ToSet(middle) \cup {last}
  <2> HIDE DEF first, middle, last, f
  <2>1. /\ IsSeq(<<first>>) /\ ToSet(<<first>>) = {first}
        /\ IsSeq(<<last>>) /\ ToSet(<<last>>) = {last}
    BY SeqOne
  <2>2. /\ IsSeq(<<first>> \o middle)
        /\ ToSet(<<first>> \o middle) \subseteq {first} \cup ToSet(middle)
    BY <1>6, <2>1, SeqConcat
  <2>3. /\ IsSeq((<<first>> \o middle) \o <<last>>)
        /\ ToSet((<<first>> \o middle) \o <<last>>)
             \subseteq ToSet(<<first>> \o middle) \cup {last}
    BY <2>1, <2>2, SeqConcat
  <2>4. QED
    BY <1>1, <2>2, <2>3
<1>8. QED
  <2> HIDE DEF first, middle, last, f
  <2>1. \A m \in ToSet(f.msgs) :
          \/ m.type \in {"change_cipher_spec", "next_protocol"}
          \/ m.type = "finished" /\ m.body[1] = r.secret
    BY <1>4, <1>5, <1>6, <1>7
  <2>2. QED
    BY <1>3, <1>7, <2>1 DEF f, Finishes

----------------------------------------------------------------------------
(* The actions of the client.                                              *)

LEMMA GotElement ==
  ASSUME HInv, NEW c \in Conns, NEW e \in Ends, net[c][e] # <<>>
  PROVE  Got(c, e) \in ToSet(net[c][e])
  BY SeqTail DEF HInv, Shape, Got

LEMMA Readies ==
  ASSUME HInv, NEW c \in Conns, NEW e \in Ends, NEW pc, Gets(c, e, pc)
  PROVE  /\ end[c][e].pc = pc /\ net[c][e] # <<>>
         /\ Got(c, e) \in ToSet(net[c][e])
         /\ Got(c, e).type \in Expected(pc)
         /\ server' = server /\ client' = client
  BY GotElement DEF Gets, envVars

LEMMA AtLink ==
  ASSUME HInv, NEW c \in Conns, Alive(c)
  PROVE  /\ c \in DOMAIN client
         /\ Linked(server, client[c], c, end[c]["C"], end[c]["S"],
                   net[c]["C"], net[c]["S"])
  BY DEF HInv, LinkInv

LEMMA SessionsStay ==
  ASSUME HInv, sess' = sess
  PROVE  Sessions'
  BY DEF HInv, Shape, Sessions, SessShape

LEMMA SendErrorStep ==
  ASSUME HInv, NEW c \in Conns, NEW e \in Ends, SendError(c, e) \/ Raise(c, e),
         end[c][e].pc # "idle", server' = server, client' = client
  PROVE  HInv'
<1>1. CASE SendError(c, e)
  <2>1. IsSeq(<<Alert("fatal", end[c][e])>>)
    BY SeqOne
  <2>2. Shutdown(c, e, FALSE, <<Alert("fatal", end[c][e])>>)
    BY <1>1 DEF SendError
  <2>3. QED
    BY <2>1, <2>2, ShutStep
<1>2. CASE Raise(c, e)
  <2>1. Shutdown(c, e, FALSE, <<>>)
    BY <1>2 DEF Raise
  <2>2. QED
    BY <2>1, SeqEmpty, ShutStep
<1>3. QED
  BY <1>1, <1>2

\* A client that only stores what it gets.
LEMMA ClientStores ==
  ASSUME HInv, NEW c \in Conns, NEW r, Proceed(c, "C", r, <<>>), EndShape(r),
         NEW pc, Gets(c, "C", pc), pc \notin {"idle", "server_hello", "closed", "failed"},
         pc \notin Finishing, sess' = sess,
         r.pc \notin {"idle", "server_hello", "certificate", "closed", "failed"},
         r.pc \notin Finishing,
         /\ r.version = end[c]["C"].version /\ r.suite = end[c]["C"].suite
         /\ r.offer = end[c]["C"].offer /\ r.secret = end[c]["C"].secret
         /\ r.protos = end[c]["C"].protos /\ r.resumed = end[c]["C"].resumed,
         IF pc = "certificate" THEN r.chain = Got(c, "C").body
         ELSE r.chain = end[c]["C"].chain
  PROVE  HInv'
<1> DEFINE k == server
           p == client[c]
           old == end[c]["C"]
           s == end[c]["S"]
<1>1. /\ "C" \in Ends
      /\ old.pc = pc /\ net[c]["C"] # <<>> /\ Got(c, "C") \in ToSet(net[c]["C"])
      /\ Got(c, "C").type \in Expected(pc) /\ server' = server /\ client' = client
  <2>1. "C" \in Ends
    BY DEF Ends
  <2>2. QED
    BY <2>1, Readies
<1>2. ClientKeeps(c, r, <<>>)
  <2> SUFFICES ASSUME Alive(c)
               PROVE  /\ \A m \in ToSet(net[c]["S"]) \cup ToSet(<<>>) : ToServer(p, r, m)
                      /\ ServerSide(k, p, c, r, s)
                      /\ ClientSide(k, p, c, r, s)
                      /\ Verified(r, s)
    BY DEF ClientKeeps
  <2>1. Linked(k, p, c, old, s, net[c]["C"], net[c]["S"])
    BY AtLink
  <2>2. \A m \in ToSet(net[c]["S"]) \cup ToSet(<<>>) : ToServer(p, r, m)
    <3>1. \A m \in ToSet(net[c]["S"]) : ToServer(p, old, m)
      BY <2>1 DEF Linked
    <3>2. QED
      BY <1>1, <3>1, SeqEmpty DEF ToServer, Hello
  <2>3. ServerSide(k, p, c, r, s)
    BY <1>1, <2>1 DEF Linked, ServerSide
  <2>4. r.resumed \/ r.chain = IF HasCertificate(r.suite) THEN k.chain ELSE "none"
    <3>1. CASE pc = "certificate"
      <4>1. Got(c, "C").type = "certificate"
        BY <1>1, <3>1 DEF Expected
      <4>2. Got(c, "C").body = k.chain
        BY <1>1, <2>1, <4>1 DEF Linked, ToClient
      <4>3. QED
        BY <1>1, <2>1, <3>1, <4>2 DEF Linked, ClientSide, FullClient
    <3>2. CASE pc # "certificate"
      BY <1>1, <2>1, <3>2 DEF Linked, ClientSide, FullClient
    <3>3. QED
      BY <3>1, <3>2
  <2>5. ClientSide(k, p, c, r, s)
    BY <1>1, <2>1, <2>4 DEF Linked, ClientSide, Told, FullClient, Finishing
  <2>6. Verified(r, s)
    BY <1>1, <2>1 DEF Linked, Verified
  <2>7. QED
    BY <2>2, <2>3, <2>5, <2>6
<1>3. Sessions' /\ \A d \in Conns \ {c} : sess'[d] = sess[d]
  BY SessionsStay
<1>4. IsSeq(<<>>) /\ r.pc # "idle" /\ IsSeq(r.protos) /\ old.pc \notin {"idle", "closed", "failed"}
  BY <1>1, SeqEmpty DEF HInv, Unused
<1>5. QED
  BY <1>1, <1>2, <1>3, <1>4, ClientProceeds

LEMMA ClientGetCertificateStep ==
  ASSUME HInv, NEW c \in Conns, ClientGetCertificate(c)
  PROVE  HInv'
<1> DEFINE old == end[c]["C"]
           r == Logged(old, <<"certificate">>)
           next == [r EXCEPT !.chain = Got(c, "C").body,
                             !.pc = IF IsSrp(r.suite) THEN "server_key_exchange"
                                    ELSE "certificate_request"]
<1>1. Gets(c, "C", "certificate") /\ Proceed(c, "C", next, <<>>) /\ sess' = sess
  BY DEF ClientGetCertificate
<1>2. EndShape(old)
  BY DEF HInv, Shape, Ends
<1>3. EndShape(r) /\ SameTerms(r, old)
  BY <1>2, LoggedKeeps
<1> HIDE DEF r
<1>4. /\ EndShape(next)
      /\ next.pc \in {"server_key_exchange", "certificate_request"}
      /\ next.chain = Got(c, "C").body
      /\ next.version = old.version /\ next.suite = old.suite
      /\ next.offer = old.offer /\ next.secret = old.secret
      /\ next.protos = old.protos /\ next.resumed = old.resumed
  BY <1>3 DEF EndShape, SameTerms
<1> HIDE DEF next
<1>5. QED
  BY <1>1, <1>4, ClientStores DEF Finishing

LEMMA ClientGetServerKeyExchangeStep ==
  ASSUME HInv, NEW c \in Conns, ClientGetServerKeyExchange(c)
  PROVE  HInv'
<1> DEFINE old == end[c]["C"]
           r == [old EXCEPT !.pc = "server_hello_done"]
           next == Logged(r, <<"server_key_exchange">>)
<1>1. /\ Gets(c, "C", "server_key_exchange") /\ Proceed(c, "C", next, <<>>)
      /\ sess' = sess
  BY DEF ClientGetServerKeyExchange
<1>2. EndShape(old)
  BY DEF HInv, Shape, Ends
<1>3. /\ EndShape(r) /\ r.pc = "server_hello_done" /\ r.chain = old.chain
      /\ r.version = old.version /\ r.suite = old.suite /\ r.offer = old.offer
      /\ r.secret = old.secret /\ r.protos = old.protos /\ r.resumed = old.resumed
  BY <1>2 DEF EndShape
<1> HIDE DEF r
<1>4. EndShape(next) /\ SameTerms(next, r)
  BY <1>3, LoggedKeeps
<1> HIDE DEF next
<1>5. QED
  BY <1>1, <1>3, <1>4, ClientStores DEF Finishing, SameTerms

LEMMA ClientGetCertificateRequestStep ==
  ASSUME HInv, NEW c \in Conns, ClientGetCertificateRequest(c)
  PROVE  HInv'
<1> DEFINE old == end[c]["C"]
           r == [old EXCEPT !.pc = "server_hello_done", !.requested = TRUE]
           next == Logged(r, <<"certificate_request">>)
<1>1. /\ Gets(c, "C", "certificate_request") /\ Proceed(c, "C", next, <<>>)
      /\ sess' = sess
  BY DEF ClientGetCertificateRequest
<1>2. EndShape(old)
  BY DEF HInv, Shape, Ends
<1>3. /\ EndShape(r) /\ r.pc = "server_hello_done" /\ r.chain = old.chain
      /\ r.version = old.version /\ r.suite = old.suite /\ r.offer = old.offer
      /\ r.secret = old.secret /\ r.protos = old.protos /\ r.resumed = old.resumed
  BY <1>2 DEF EndShape
<1> HIDE DEF r
<1>4. EndShape(next) /\ SameTerms(next, r)
  BY <1>3, LoggedKeeps
<1> HIDE DEF next
<1>5. QED
  BY <1>1, <1>3, <1>4, ClientStores DEF Finishing, SameTerms

LEMMA ClientGetServerHelloStep ==
  ASSUME HInv, NEW c \in Conns, ClientGetServerHello(c)
  PROVE  HInv'
<1> DEFINE k == server
           p == client[c]
           m == Got(c, "C").body
           old == end[c]["C"]
           s == end[c]["S"]
           q == [old EXCEPT !.version = m.version, !.suite = m.suite, !.id = m.id]
           r == Logged(q, <<"server_hello">>)
           common == SelectSeq(p.protos, LAMBDA n : m.protos # <<>> /\ n \in ToSet(m.protos[1]))
           proto == IF m.protos = <<>> \/ p.protos = <<>> THEN <<>>
                    ELSE IF common # <<>> THEN <<common[1]>> ELSE <<p.protos[1]>>
           resumes == r.offer # 0 /\ m.id = r.offer
           bad == \/ m.version < p.min \/ m.version > p.max
                  \/ m.suite \notin ToSet(ClientSuites(p))
                  \/ m.protos # <<>> /\ p.protos = <<>>
                  \/ resumes /\ m.suite # sess[r.offer]["C"].suite
           next1 == [r EXCEPT !.pc = "change_cipher_spec", !.resumed = TRUE,
                              !.basis = r.offer, !.secret = sess[r.offer]["C"].secret]
           next2 == [r EXCEPT !.basis = c, !.protos = proto,
                              !.pc = IF HasCertificate(m.suite) THEN "certificate"
                                     ELSE "server_key_exchange"]
           next == IF resumes THEN next1 ELSE next2
<1>1. /\ Gets(c, "C", "server_hello")
      /\ IF bad THEN SendError(c, "C")
         ELSE Proceed(c, "C", next, <<>>) /\ UNCHANGED <<sess, cacheVars>>
  BY DEF ClientGetServerHello
<1>2. /\ "C" \in Ends
      /\ old.pc = "server_hello" /\ net[c]["C"] # <<>>
      /\ Got(c, "C") \in ToSet(net[c]["C"])
      /\ Got(c, "C").type = "server_hello"
      /\ server' = server /\ client' = client
  BY <1>1, Readies DEF Ends, Expected
<1>3. EndShape(old)
  BY DEF HInv, Shape, Ends
<1>4. CASE bad
  <2>1. SendError(c, "C")
    BY <1>1, <1>4
  <2>2. QED
    BY <1>2, <2>1, SendErrorStep
<1>5. CASE ~bad
  <2>1. Proceed(c, "C", next, <<>>) /\ sess' = sess
    <3> HIDE DEF bad, next
    <3>1. QED
      BY <1>1, <1>5
  <2> HIDE DEF common
  <2>2. /\ EndShape(q) /\ q.version = m.version /\ q.suite = m.suite
        /\ q.pc = "server_hello" /\ q.offer = old.offer /\ q.secret = old.secret
        /\ q.chain = old.chain /\ q.protos = old.protos /\ q.resumed = old.resumed
    BY <1>2, <1>3 DEF EndShape
  <2>3. EndShape(r) /\ SameTerms(r, q)
    <3> HIDE DEF q
    <3>1. QED
      BY <2>2, LoggedKeeps
  <2>4. IsSeq(proto)
    BY SeqEmpty, SeqOne
  <2>5. ~(m.version < p.min) /\ ~(m.version > p.max)
    BY <1>5
  <2> HIDE DEF q, r, proto, bad
  <2>6. /\ EndShape(next)
        /\ next.version = m.version /\ next.suite = m.suite /\ next.offer = old.offer
        /\ next.chain = old.chain
        /\ resumes => /\ next.pc = "change_cipher_spec" /\ next.resumed
                      /\ next.protos = old.protos
        /\ ~resumes => /\ ~next.resumed \/ old.resumed
                       /\ next.pc = IF HasCertificate(next.suite) THEN "certificate"
                                    ELSE "server_key_exchange"
                       /\ next.protos = proto
    <3>1. /\ EndShape(next1)
          /\ next1.version = r.version /\ next1.suite = r.suite /\ next1.offer = r.offer
          /\ next1.chain = r.chain /\ next1.protos = r.protos
          /\ next1.pc = "change_cipher_spec" /\ next1.resumed
      BY <2>3 DEF EndShape
    <3>2. /\ EndShape(next2)
          /\ next2.version = r.version /\ next2.suite = r.suite /\ next2.offer = r.offer
          /\ next2.chain = r.chain /\ next2.protos = proto /\ next2.resumed = r.resumed
          /\ next2.pc = IF HasCertificate(m.suite) THEN "certificate"
                        ELSE "server_key_exchange"
      BY <2>3 DEF EndShape
    <3>3. next = IF resumes THEN next1 ELSE next2
      OBVIOUS
    <3> HIDE DEF next1, next2, next, resumes
    <3>4. QED
      BY <2>2, <2>3, <3>1, <3>2, <3>3 DEF SameTerms
  <2> HIDE DEF next
  <2>7. ClientKeeps(c, next, <<>>)
    <3> SUFFICES ASSUME Alive(c)
                 PROVE  /\ \A x \in ToSet(net[c]["S"]) \cup ToSet(<<>>) : ToServer(p, next, x)
                        /\ ServerSide(k, p, c, next, s)
                        /\ ClientSide(k, p, c, next, s)
                        /\ Verified(next, s)
      BY DEF ClientKeeps
    <3>1. c \in DOMAIN client /\ Linked(k, p, c, old, s, net[c]["C"], net[c]["S"])
      BY AtLink
    <3>2. /\ s.pc # "client_hello" /\ ToClient(k, s, Got(c, "C"))
          /\ ServerSide(k, p, c, old, s) /\ ClientSide(k, p, c, old, s)
          /\ Verified(old, s)
      BY <1>2, <3>1 DEF Linked
    <3>3. m.version = s.version /\ m.suite = s.suite /\ m.id = s.id
      BY <1>2, <3>2 DEF ToClient
    <3>4. \A x \in ToSet(net[c]["S"]) \cup ToSet(<<>>) : ToServer(p, next, x)
      <4>1. \A x \in ToSet(net[c]["S"]) : ToServer(p, old, x)
        BY <3>1 DEF Linked
      <4>2. QED
        BY <1>2, <2>6, <4>1, SeqEmpty DEF ToServer, Hello, Finishing
    <3>5. ServerSide(k, p, c, next, s)
      BY <3>2 DEF ServerSide
    <3>6. resumes => s.resumed
      <4>1. old.offer # c
        BY <3>2 DEF ClientSide
      <4>2. ~s.resumed => s.id \in {0, c}
        BY <3>2 DEF ServerSide, FullServer
      <4>3. QED
        BY <2>2, <2>3, <3>3, <4>1, <4>2 DEF SameTerms
    <3>7. p.min <= m.version /\ m.version <= p.max
      <4>1. p.min \in Int /\ p.max \in Int /\ k.max \in Int
        BY <3>1 DEF HInv, Proper, CasesAreProper
      <4>2. m.version = Smaller(p.max, k.max)
        BY <3>2, <3>3 DEF ServerSide, Decided
      <4>3. m.version \in Int
        BY <4>1, <4>2 DEF Smaller
      <4>4. QED
        BY <2>5, <4>1, <4>3
    <3>8. Told(p, next, s)
      BY <1>2, <2>6, <3>2, <3>3, <3>6, <3>7 DEF Told, ClientSide
    <3>9. ~next.resumed => FullClient(k, p, c, next)
      BY <1>2, <2>6, <3>2 DEF FullClient, Finishing, ClientSide
    <3>10. next.offer # c
      BY <2>6, <3>2 DEF ClientSide
    <3>11. next.pc # "server_hello"
      BY <2>6
    <3>12. Verified(next, s)
      BY <1>2, <3>2 DEF Verified, Finishing
    <3>13. QED
      BY <3>4, <3>5, <3>8, <3>9, <3>10, <3>11, <3>12 DEF ClientSide
  <2>8. Sessions' /\ \A d \in Conns \ {c} : sess'[d] = sess[d]
    BY <2>1, SessionsStay
  <2>9. /\ IsSeq(<<>>) /\ next.pc # "idle" /\ EndShape(next) /\ IsSeq(next.protos)
        /\ old.pc \notin {"idle", "closed", "failed"}
    <3>1. IsSeq(old.protos)
      BY DEF HInv, Unused
    <3>2. QED
      BY <1>2, <2>4, <2>6, <3>1, SeqEmpty
  <2>10. QED
    BY <1>2, <2>1, <2>7, <2>8, <2>9, ClientProceeds
<1>6. QED
  BY <1>4, <1>5

\* The key exchange x of a client that is r.
Exchanges(x, p, r, c) ==
  /\ IsSeq(x.sent)
  /\ \A b \in ToSet(x.sent) :
       /\ b[1] \in {"certificate", "client_key_exchange", "certificate_verify"}
       /\ b[1] = "certificate" => b[2] = p.cert
  /\ r.suite[1] # "anon" /\ ~x.bad => ~p.strict
  /\ <<x.secret, c>> = ClientSecret(p, c, r.suite)

LEMMA ClientExchanges ==
  ASSUME NEW p, NEW r, NEW c
  PROVE  Exchanges(ClientExchange(p, r), p, r, c)
<1> DEFINE x == ClientExchange(p, r)
<1> DEFINE Ok(s) == /\ IsSeq(s)
                    /\ \A b \in ToSet(s) :
                         /\ b[1] \in {"certificate", "client_key_exchange",
                                      "certificate_verify"}
                         /\ b[1] = "certificate" => b[2] = p.cert
<1>1. ASSUME NEW v PROVE Ok(<< <<"client_key_exchange", v>> >>)
  <2> DEFINE b == <<"client_key_exchange", v>>
  <2>1. b[1] = "client_key_exchange"
    OBVIOUS
  <2> HIDE DEF b
  <2>2. IsSeq(<<b>>) /\ ToSet(<<b>>) = {b}
    BY SeqOne
  <2>3. QED
    BY <2>1, <2>2 DEF b
<1>2. Ok(<< <<"certificate", p.cert>> >>) /\ Ok(<< <<"certificate_verify", p.cert>> >>)
  <2> DEFINE a == <<"certificate", p.cert>>
             b == <<"certificate_verify", p.cert>>
  <2>1. a[1] = "certificate" /\ a[2] = p.cert /\ b[1] = "certificate_verify"
    OBVIOUS
  <2> HIDE DEF a, b
  <2>2. IsSeq(<<a>>) /\ ToSet(<<a>>) = {a} /\ IsSeq(<<b>>) /\ ToSet(<<b>>) = {b}
    BY SeqOne
  <2>3. QED
    BY <2>1, <2>2 DEF a, b
<1>3. Ok(<<>>)
  BY SeqEmpty
<1>4. \A s, t : Ok(s) /\ Ok(t) => Ok(s \o t)
  BY SeqConcat
<1>5. CASE IsSrp(r.suite)
  <2>1. x = ClientSRPKeyExchange(p, r)
    BY <1>5 DEF ClientExchange, IsSrp
  <2> HIDE DEF x
  <2>2. /\ x.sent = << <<"client_key_exchange", "A">> >>
        /\ x.bad = p.strict
        /\ x.secret = IF p.password = "right" THEN "shared" ELSE "own"
    BY <2>1 DEF ClientSRPKeyExchange
  <2>3. Ok(x.sent)
    BY <1>1, <2>2
  <2>4. QED
    BY <1>5, <2>2, <2>3 DEF ClientSecret, Exchanges, x
<1>6. CASE ~IsSrp(r.suite) /\ r.suite[1] = "anon"
  <2>1. x = ClientAnonKeyExchange(p, r)
    BY <1>6 DEF ClientExchange, IsSrp
  <2> HIDE DEF x
  <2>2. x.sent = << <<"client_key_exchange", "Yc">> >> /\ x.secret = "shared"
    BY <2>1 DEF ClientAnonKeyExchange
  <2>3. Ok(x.sent)
    BY <1>1, <2>2
  <2>4. QED
    BY <1>6, <2>2, <2>3 DEF ClientSecret, Exchanges, x
<1>7. CASE ~IsSrp(r.suite) /\ r.suite[1] # "anon"
  <2> DEFINE s1 == IF r.requested THEN << <<"certificate", p.cert>> >> ELSE <<>>
             s2 == << <<"client_key_exchange", "encrypted">> >>
             s3 == IF r.requested /\ p.cert # "none"
                   THEN << <<"certificate_verify", p.cert>> >> ELSE <<>>
  <2>1. x = ClientRSAKeyExchange(p, r)
    BY <1>7 DEF ClientExchange, IsSrp
  <2> HIDE DEF x
  <2>2. x.sent = (s1 \o s2) \o s3 /\ x.bad = p.strict /\ x.secret = "shared"
    BY <2>1 DEF ClientRSAKeyExchange
  <2>3. Ok(s1) /\ Ok(s2) /\ Ok(s3)
    <3> HIDE DEF Ok
    <3>1. QED
      BY <1>1, <1>2, <1>3
  <2> HIDE DEF s1, s2, s3
  <2>4. Ok(x.sent)
    <3> HIDE DEF Ok
    <3>1. Ok(s1 \o s2)
      BY <1>4, <2>3
    <3>2. QED
      BY <1>4, <2>2, <2>3, <3>1
  <2>5. QED
    BY <1>7, <2>2, <2>4 DEF ClientSecret, Exchanges, x
<1>8. QED
  BY <1>5, <1>6, <1>7

LEMMA ClientKeyExchangeStep ==
  ASSUME HInv, NEW c \in Conns, ClientKeyExchange(c)
  PROVE  HInv'
<1> DEFINE k == server
           p == client[c]
           r == end[c]["C"]
           s == end[c]["S"]
           x == ClientExchange(p, r)
           q == [r EXCEPT !.secret = <<x.secret, c>>]
           known == Logged(q, <<"server_hello_done">> \o Types(x.sent))
           last == FinishedFlight(c, "C", known, r.protos)
           next == [last.next EXCEPT !.pc = "change_cipher_spec"]
           out == Flight(r, x.sent) \o last.msgs
<1>1. /\ \/ Gets(c, "C", "server_hello_done")
         \/ Gets(c, "C", "certificate_request")
      /\ x.bad => SendError(c, "C")
      /\ ~x.bad => Proceed(c, "C", next, out) /\ sess' = sess
  BY DEF ClientKeyExchange
<1> HIDE DEF x
<1>2. /\ "C" \in Ends
      /\ r.pc \in {"server_hello_done", "certificate_request"} /\ net[c]["C"] # <<>>
      /\ server' = server /\ client' = client
  <2>1. "C" \in Ends
    BY DEF Ends
  <2>2. QED
    BY <1>1, <2>1, Readies
<1>3. EndShape(r)
  BY DEF HInv, Shape, Ends
<1>3a. IsSeq(r.protos)
  BY DEF HInv, Unused
<1>4. CASE x.bad
  BY <1>1, <1>2, <1>4, SendErrorStep
<1>5. CASE ~x.bad
  <2>1. Proceed(c, "C", next, out) /\ sess' = sess
    <3> HIDE DEF next, out
    <3>1. QED
      BY <1>1, <1>5
  <2>2. /\ IsSeq(x.sent)
        /\ \A b \in ToSet(x.sent) :
             /\ b[1] \in {"certificate", "client_key_exchange", "certificate_verify"}
             /\ b[1] = "certificate" => b[2] = p.cert
        /\ r.suite[1] # "anon" => ~p.strict
        /\ <<x.secret, c>> = ClientSecret(p, c, r.suite)
    <3>1. Exchanges(x, p, r, c)
      BY ClientExchanges DEF x
    <3>2. QED
      BY <1>5, <3>1 DEF Exchanges
  <2>3. /\ EndShape(q) /\ q.secret = ClientSecret(p, c, r.suite)
        /\ q.version = r.version /\ q.suite = r.suite /\ q.offer = r.offer
        /\ q.chain = r.chain /\ q.protos = r.protos /\ q.resumed = r.resumed
    BY <1>3, <2>2 DEF EndShape
  <2> HIDE DEF q
  <2>4. EndShape(known) /\ SameTerms(known, q)
    <3> DEFINE types == <<"server_hello_done">> \o Types(x.sent)
    <3> HIDE DEF types
    <3>1. known = Logged(q, types)
      BY DEF types
    <3>2. QED
      BY <2>3, <3>1, LoggedKeeps
  <2> HIDE DEF known
  <2>5. /\ EndShape(last.next) /\ SameTerms(last.next, known)
        /\ IsSeq(last.msgs)
        /\ \A m \in ToSet(last.msgs) :
             \/ m.type \in {"change_cipher_spec", "next_protocol"}
             \/ m.type = "finished" /\ m.body[1] = known.secret
    <3>1. Finishes(last, known)
      BY <1>3a, <2>4, FinishedFlightElements
    <3> HIDE DEF last
    <3>2. QED
      BY <3>1 DEF Finishes
  <2> HIDE DEF last
  <2>6. /\ EndShape(next) /\ next.pc = "change_cipher_spec"
        /\ next.secret = ClientSecret(p, c, r.suite)
        /\ next.version = r.version /\ next.suite = r.suite
        /\ next.offer = r.offer /\ next.chain = r.chain
        /\ next.protos = r.protos /\ next.resumed = r.resumed
    BY <2>3, <2>4, <2>5 DEF EndShape, SameTerms
  <2> HIDE DEF next
  <2>7. /\ IsSeq(Flight(r, x.sent))
        /\ \A m \in ToSet(Flight(r, x.sent)) :
             /\ m.type \in {"certificate", "client_key_exchange", "certificate_verify"}
             /\ m.type = "certificate" => m.body = p.cert
    BY <2>2, FlightElements
  <2>8. IsSeq(out) /\ \A m \in ToSet(out) : ToServer(p, next, m)
    <3>1. IsSeq(out) /\ ToSet(out) \subseteq ToSet(Flight(r, x.sent)) \cup ToSet(last.msgs)
      BY <2>5, <2>7, SeqConcat
    <3>2. \A m \in ToSet(last.msgs) : ToServer(p, next, m)
      BY <2>3, <2>4, <2>5, <2>6 DEF ToServer, SameTerms, Finishing
    <3>3. \A m \in ToSet(Flight(r, x.sent)) : ToServer(p, next, m)
      BY <2>7 DEF ToServer
    <3>4. QED
      BY <3>1, <3>2, <3>3
  <2> HIDE DEF out
  <2>9. ClientKeeps(c, next, out)
    <3> SUFFICES ASSUME Alive(c)
                 PROVE  /\ \A m \in ToSet(net[c]["S"]) \cup ToSet(out) : ToServer(p, next, m)
                        /\ ServerSide(k, p, c, next, s)
                        /\ ClientSide(k, p, c, next, s)
                        /\ Verified(next, s)
      BY DEF ClientKeeps
    <3>1. c \in DOMAIN client /\ Linked(k, p, c, r, s, net[c]["C"], net[c]["S"])
      BY AtLink
    <3>2. /\ ServerSide(k, p, c, r, s) /\ ClientSide(k, p, c, r, s)
          /\ Verified(r, s)
      BY <3>1 DEF Linked
    <3>3. r.offer # c /\ Told(p, r, s) /\ (~r.resumed => FullClient(k, p, c, r))
      BY <1>2, <3>2 DEF ClientSide
    <3>4. \A m \in ToSet(net[c]["S"]) : ToServer(p, next, m)
      <4>1. \A m \in ToSet(net[c]["S"]) : ToServer(p, r, m)
        BY <3>1 DEF Linked
      <4>2. QED
        BY <1>2, <2>6, <3>3, <4>1 DEF ToServer, Hello, Finishing
    <3>5. ServerSide(k, p, c, next, s)
      BY <3>2, <3>3 DEF ServerSide, Told
    <3>6. Told(p, next, s)
      BY <2>6, <3>3 DEF Told
    <3>7. ~next.resumed => FullClient(k, p, c, next)
      BY <1>2, <2>2, <2>6, <3>3 DEF FullClient
    <3>8. Verified(next, s)
      BY <1>2, <3>2 DEF Verified, Finishing
    <3>9. ClientSide(k, p, c, next, s)
      BY <2>6, <3>3, <3>6, <3>7 DEF ClientSide
    <3>10. QED
      BY <2>8, <3>4, <3>5, <3>8, <3>9
  <2>10. Sessions' /\ \A d \in Conns \ {c} : sess'[d] = sess[d]
    BY <2>1, SessionsStay
  <2>11. /\ next.pc # "idle" /\ IsSeq(next.protos)
         /\ r.pc \notin {"idle", "closed", "failed"}
    BY <1>2, <1>3a, <2>6
  <2>12. QED
    BY <1>2, <2>1, <2>6, <2>8, <2>9, <2>10, <2>11, ClientProceeds
<1>6. QED
  BY <1>4, <1>5

----------------------------------------------------------------------------
(* Steps of an end that knows of the other's hello.                        *)

LEMMA ClientGoesOn ==
  ASSUME HInv, NEW c \in Conns, NEW r, NEW out, Proceed(c, "C", r, out), EndShape(r),
         IsSeq(out), net[c]["C"] # <<>>,
         end[c]["C"].pc \in Finishing, r.pc \in Finishing,
         server' = server, client' = client, Sessions',
         \A d \in Conns \ {c} : sess'[d] = sess[d],
         /\ r.version = end[c]["C"].version /\ r.suite = end[c]["C"].suite
         /\ r.offer = end[c]["C"].offer /\ r.secret = end[c]["C"].secret
         /\ r.protos = end[c]["C"].protos /\ r.resumed = end[c]["C"].resumed
         /\ r.chain = end[c]["C"].chain,
         r.pc # "open",
         \A m \in ToSet(out) : /\ m.type \notin {"client_hello", "certificate"}
                               /\ m.type = "finished" => m.body[1] = r.secret
  PROVE  HInv'
<1> DEFINE k == server
           p == client[c]
           old == end[c]["C"]
           s == end[c]["S"]
<1>1. ClientKeeps(c, r, out)
  <2> SUFFICES ASSUME Alive(c)
               PROVE  /\ \A m \in ToSet(net[c]["S"]) \cup ToSet(out) : ToServer(p, r, m)
                      /\ ServerSide(k, p, c, r, s)
                      /\ ClientSide(k, p, c, r, s)
                      /\ Verified(r, s)
    BY DEF ClientKeeps
  <2>1. Linked(k, p, c, old, s, net[c]["C"], net[c]["S"])
    BY AtLink
  <2>2. /\ ServerSide(k, p, c, old, s) /\ ClientSide(k, p, c, old, s)
        /\ Verified(old, s)
        /\ \A m \in ToSet(net[c]["S"]) : ToServer(p, old, m)
    BY <2>1 DEF Linked
  <2>3. /\ old.pc # "server_hello" /\ r.pc # "server_hello"
        /\ old.pc # "certificate" /\ r.pc # "certificate"
    BY DEF Finishing
  <2>4. r.offer # c /\ Told(p, r, s) /\ s.pc # "client_hello"
    BY <2>2, <2>3 DEF ClientSide, Told
  <2>5. ~r.resumed => FullClient(k, p, c, r)
    BY <2>2, <2>3 DEF ClientSide, FullClient
  <2>6. \A m \in ToSet(net[c]["S"]) : ToServer(p, r, m)
    BY <2>2 DEF ToServer, Hello
  <2>7. \A m \in ToSet(out) : ToServer(p, r, m)
    BY DEF ToServer
  <2>8. ServerSide(k, p, c, r, s)
    BY <2>2, <2>4 DEF ServerSide
  <2>9. ClientSide(k, p, c, r, s)
    BY <2>3, <2>4, <2>5 DEF ClientSide
  <2>10. Verified(r, s)
    BY <2>2 DEF Verified
  <2>11. QED
    BY <2>6, <2>7, <2>8, <2>9, <2>10
<1>2. /\ r.pc # "idle" /\ IsSeq(r.protos)
      /\ old.pc \notin {"idle", "closed", "failed"}
  BY DEF HInv, Unused, Finishing
<1>3. QED
  BY <1>1, <1>2, ClientProceeds

LEMMA ServerGoesOn ==
  ASSUME HInv, NEW c \in Conns, NEW s, NEW out, Proceed(c, "S", s, out), EndShape(s),
         IsSeq(out), net[c]["S"] # <<>>, s.pc # "client_hello",
         end[c]["S"].pc \notin {"idle", "client_hello", "closed", "failed"},
         server' = server, client' = client, Sessions',
         \A d \in Conns : sess'[d]["C"] = sess[d]["C"],
         /\ s.version = end[c]["S"].version /\ s.suite = end[c]["S"].suite
         /\ s.id = end[c]["S"].id /\ s.resumed = end[c]["S"].resumed,
         \A m \in ToSet(out) : m.type \notin {"server_hello", "certificate"},
         Linked(server, client[c], c, end[c]["C"], end[c]["S"], net[c]["C"], net[c]["S"])
         /\ s.pc \notin {"closed", "failed"}
           => /\ ~s.resumed => FullServer(server, client[c], c, s)
              /\ Verified(end[c]["C"], s)
  PROVE  HInv'
<1> DEFINE k == server
           p == client[c]
           old == end[c]["S"]
           r == end[c]["C"]
<1>1. CASE s.pc \notin {"closed", "failed"}
  <2>1. ServerKeeps(c, s, out)
    <3> SUFFICES ASSUME Alive(c)
                 PROVE  /\ \A m \in ToSet(net[c]["C"]) \cup ToSet(out) : ToClient(k, s, m)
                        /\ ServerSide(k, p, c, r, s)
                        /\ ClientSide(k, p, c, r, s)
                        /\ Verified(r, s)
      BY DEF ServerKeeps
    <3>1. Linked(k, p, c, r, old, net[c]["C"], net[c]["S"])
      BY AtLink
    <3>2. /\ ServerSide(k, p, c, r, old) /\ ClientSide(k, p, c, r, old)
          /\ \A m \in ToSet(net[c]["C"]) : ToClient(k, old, m)
      BY <3>1 DEF Linked
    <3>3. (~s.resumed => FullServer(k, p, c, s)) /\ Verified(r, s)
      BY <1>1, <3>1
    <3>4. ServerSide(k, p, c, r, s)
      BY <3>2, <3>3 DEF ServerSide, Decided
    <3>5. ClientSide(k, p, c, r, s)
      BY <3>2 DEF ClientSide, Told
    <3>6. \A m \in ToSet(net[c]["C"]) \cup ToSet(out) : ToClient(k, s, m)
      BY <3>2 DEF ToClient
    <3>7. QED
      BY <3>3, <3>4, <3>5, <3>6
  <2>2. old.pc \notin {"idle", "closed", "failed"}
    OBVIOUS
  <2>3. QED
    BY <2>1, <2>2, ServerProceeds
<1>2. CASE s.pc \in {"closed", "failed"}
  <2>1. Shape /\ "S" \in Ends /\ Peer("S") = "C"
    BY DEF HInv, Ends, Peer
  <2>2. /\ Connections'
        /\ end'[c]["S"] = s /\ end'[c]["C"] = end[c]["C"]
        /\ \A d \in Conns \ {c} : end'[d] = end[d] /\ net'[d] = net[d]
    BY <2>1, Proceeds
  <2>3. LinkInv(c)'
    BY <1>2, <2>1, <2>2 DEF LinkInv, Alive
  <2>4. Unused(c)'
    <3>1. r.pc # "idle" /\ IsSeq(r.protos)
      BY DEF HInv, Unused
    <3>2. QED
      BY <2>2, <3>1 DEF Unused
  <2>5. QED
    BY <2>2, <2>3, <2>4, StepAt
<1>3. QED
  BY <1>1, <1>2

LEMMA GetChangeCipherSpecStep ==
  ASSUME HInv, NEW c \in Conns, NEW e \in Ends, GetChangeCipherSpec(c, e)
  PROVE  HInv'
<1> DEFINE r == end[c][e]
           key == Key(c, Peer(e), r)
           next == [r EXCEPT !.rs = key,
                             !.pc = IF e = "S" /\ r.protos # <<>> THEN "next_protocol"
                                    ELSE "finished"]
<1>1. /\ Gets(c, e, "change_cipher_spec") /\ Proceed(c, e, next, <<>>)
      /\ sess' = sess
  BY DEF GetChangeCipherSpec
<1>2. /\ r.pc = "change_cipher_spec" /\ net[c][e] # <<>>
      /\ server' = server /\ client' = client
  BY <1>1, Readies
<1>3. EndShape(r)
  BY DEF HInv, Shape
<1> HIDE DEF key
<1>4. EndShape(next) /\ next.pc \in {"next_protocol", "finished"}
  BY <1>3 DEF EndShape
<1>5. /\ next.version = r.version /\ next.suite = r.suite /\ next.id = r.id
      /\ next.offer = r.offer /\ next.secret = r.secret /\ next.protos = r.protos
      /\ next.resumed = r.resumed /\ next.chain = r.chain
  BY <1>3 DEF EndShape
<1> HIDE DEF next
<1>6. Sessions'
  BY <1>1, SessionsStay
<1>7. CASE e = "C"
  BY <1>1, <1>2, <1>4, <1>5, <1>6, <1>7, SeqEmpty, ClientGoesOn DEF Finishing
<1>8. CASE e = "S"
  <2>1. ASSUME Linked(server, client[c], c, end[c]["C"], end[c]["S"],
                      net[c]["C"], net[c]["S"])
        PROVE  /\ ~next.resumed => FullServer(server, client[c], c, next)
               /\ Verified(end[c]["C"], next)
    <3>1. ~next.resumed => FullServer(server, client[c], c, end[c]["S"])
      BY <1>2, <1>5, <1>8, <2>1 DEF Linked, ServerSide
    <3>2. QED
      BY <1>2, <1>4, <1>5, <1>8, <3>1 DEF FullServer, Finishing, Verified
  <2>2. next.pc # "client_hello"
    BY <1>4
  <2>3. end[c]["S"].pc \notin {"idle", "client_hello", "closed", "failed"}
    BY <1>2, <1>8
  <2>4. Proceed(c, "S", next, <<>>) /\ net[c]["S"] # <<>>
    BY <1>1, <1>2, <1>8
  <2>5. /\ next.version = end[c]["S"].version /\ next.suite = end[c]["S"].suite
        /\ next.id = end[c]["S"].id /\ next.resumed = end[c]["S"].resumed
    BY <1>5, <1>8
  <2>6. QED
    BY <1>1, <1>2, <1>4, <1>6, <2>1, <2>2, <2>3, <2>4, <2>5, SeqEmpty, ServerGoesOn
<1>9. QED
  BY <1>7, <1>8 DEF Ends

LEMMA GetFinishedStep ==
  ASSUME HInv, NEW c \in Conns, NEW e \in Ends, GetFinished(c, e)
  PROVE  HInv'
<1> DEFINE old == end[c][e]
           r == Logged(old, <<"finished">>)
           last == FinishedFlight(c, e, r, <<>>)
           answers == (e = "C") = r.resumed
           stores == e = "S" /\ ~r.resumed /\ server.cache
           full == stores /\ CacheFull
           up == [(IF answers THEN last.next ELSE r) EXCEPT !.pc = "check"]
           raised == [old EXCEPT !.pc = "failed", !.ws = NoKey, !.rs = NoKey]
           next == IF full THEN raised ELSE up
           out == IF answers THEN last.msgs ELSE <<>>
           made == [NewSession(c, e, r) EXCEPT !.resumable = ~full]
           bad == Got(c, e).body # VerifyData(old, Peer(e))
<1>1. /\ Gets(c, e, "finished")
      /\ bad => SendError(c, e)
      /\ ~bad => /\ Proceed(c, e, next, out)
                 /\ sess' = IF r.resumed THEN sess ELSE [sess EXCEPT ![c][e] = made]
  BY DEF GetFinished
<1>2. /\ old.pc = "finished" /\ net[c][e] # <<>>
      /\ Got(c, e) \in ToSet(net[c][e]) /\ Got(c, e).type = "finished"
      /\ server' = server /\ client' = client
  BY <1>1, Readies DEF Expected
<1>3. EndShape(old) /\ EndShape(r) /\ SameTerms(r, old)
  <2>1. EndShape(old)
    BY DEF HInv, Shape
  <2>2. QED
    BY <2>1, LoggedKeeps
<1>4. CASE bad
  BY <1>1, <1>2, <1>4, SendErrorStep
<1>5. CASE ~bad
  <2>1. /\ Proceed(c, e, next, out)
        /\ sess' = IF r.resumed THEN sess ELSE [sess EXCEPT ![c][e] = made]
    <3> HIDE DEF bad, next, out, made, r
    <3>1. QED
      BY <1>1, <1>5
  <2>2. /\ EndShape(last.next) /\ SameTerms(last.next, r) /\ IsSeq(last.msgs)
        /\ \A m \in ToSet(last.msgs) :
             \/ m.type \in {"change_cipher_spec", "next_protocol"}
             \/ m.type = "finished" /\ m.body[1] = r.secret
    <3> HIDE DEF r
    <3>1. Finishes(last, r)
      BY <1>3, SeqEmpty, FinishedFlightElements
    <3> HIDE DEF last
    <3>2. QED
      BY <3>1 DEF Finishes
  <2> HIDE DEF bad, r, last, stores
  <2>3. /\ EndShape(next) /\ next.pc = IF full THEN "failed" ELSE "check"
        /\ next.version = old.version /\ next.suite = old.suite /\ next.id = old.id
        /\ next.offer = old.offer /\ next.secret = old.secret
        /\ next.protos = old.protos /\ next.resumed = old.resumed
        /\ next.chain = old.chain
    <3> DEFINE base == IF answers THEN last.next ELSE r
    <3>1. EndShape(base) /\ SameTerms(base, old)
      BY <1>3, <2>2 DEF SameTerms
    <3> HIDE DEF base
    <3>2. up = [base EXCEPT !.pc = "check"]
      BY DEF base
    <3> HIDE DEF up
    <3>3. /\ EndShape(up) /\ up.pc = "check"
          /\ up.version = old.version /\ up.suite = old.suite /\ up.id = old.id
          /\ up.offer = old.offer /\ up.secret = old.secret
          /\ up.protos = old.protos /\ up.resumed = old.resumed
          /\ up.chain = old.chain
      BY <3>1, <3>2 DEF EndShape, SameTerms
    <3>4. /\ EndShape(raised) /\ raised.pc = "failed"
          /\ raised.version = old.version /\ raised.suite = old.suite
          /\ raised.id = old.id /\ raised.offer = old.offer
          /\ raised.secret = old.secret /\ raised.protos = old.protos
          /\ raised.resumed = old.resumed /\ raised.chain = old.chain
      BY <1>3 DEF EndShape
    <3>5. next = IF full THEN raised ELSE up
      OBVIOUS
    <3> HIDE DEF raised, full, next
    <3>6. QED
      BY <3>3, <3>4, <3>5
  <2>4. IsSeq(out) /\ \A m \in ToSet(out) :
                        /\ m.type \notin {"client_hello", "server_hello", "certificate"}
                        /\ m.type = "finished" => m.body[1] = next.secret
    <3>1. r.secret = next.secret
      BY <1>3, <2>3 DEF SameTerms
    <3> HIDE DEF next
    <3>2. QED
      BY <2>2, <3>1, SeqEmpty
  <2>5. SessShape(made)
    <3>1. SessShape(NewSession(c, e, r))
      BY DEF NewSession, SessShape
    <3> HIDE DEF full
    <3>2. QED
      BY <3>1 DEF SessShape
  <2> HIDE DEF next, out, made, full
  <2>6. /\ Sessions' /\ \A d \in Conns \ {c} : sess'[d] = sess[d]
        /\ e = "S" => \A d \in Conns : sess'[d]["C"] = sess[d]["C"]
    <3>1. CASE sess' = sess
      BY <3>1, SessionsStay
    <3>2. CASE sess' = [sess EXCEPT ![c][e] = made]
      <4>1. /\ sess = [d \in Conns |-> [f \in Ends |-> sess[d][f]]]
            /\ \A d \in Conns, f \in Ends : SessShape(sess[d][f])
        BY DEF HInv, Shape
      <4>2. TwoArgs(Conns, Ends, sess) /\ sess' = With(sess, c, e, made)
        BY <3>2, <4>1 DEF TwoArgs, With
      <4>3. /\ TwoArgs(Conns, Ends, sess')
            /\ sess'[c][e] = made
            /\ \A d \in Conns, f \in Ends : d # c \/ f # e => sess'[d][f] = sess[d][f]
            /\ \A d \in Conns \ {c} : sess'[d] = sess[d]
        BY <4>2, Replaced
      <4>4. \A d \in Conns, f \in Ends : sess'[d][f] = made \/ sess'[d][f] = sess[d][f]
        BY <4>3
      <4>5. \A d \in Conns, f \in Ends : SessShape(sess'[d][f])
        BY <2>5, <4>1, <4>4
      <4>6. QED
        BY <4>3, <4>5 DEF TwoArgs, Sessions, SessShape, Ends
    <3>3. QED
      BY <2>1, <3>1, <3>2
  <2>7. CASE e = "C"
    <3>1. next.pc = "check"
      BY <2>3, <2>7 DEF full, stores
    <3>2. end[c]["C"].pc \in Finishing /\ next.pc \in Finishing /\ next.pc # "open"
      BY <1>2, <2>7, <3>1 DEF Finishing
    <3>3. Proceed(c, "C", next, out) /\ net[c]["C"] # <<>>
      BY <1>2, <2>1, <2>7
    <3>4. /\ next.version = end[c]["C"].version /\ next.suite = end[c]["C"].suite
          /\ next.offer = end[c]["C"].offer /\ next.secret = end[c]["C"].secret
          /\ next.protos = end[c]["C"].protos /\ next.resumed = end[c]["C"].resumed
          /\ next.chain = end[c]["C"].chain
      BY <2>3, <2>7
    <3>5. QED
      BY <1>2, <2>3, <2>4, <2>6, <3>2, <3>3, <3>4, ClientGoesOn
  <2>8. CASE e = "S"
    <3>1. ASSUME Linked(server, client[c], c, end[c]["C"], end[c]["S"],
                        net[c]["C"], net[c]["S"]),
                 next.pc \notin {"closed", "failed"}
          PROVE  /\ ~next.resumed => FullServer(server, client[c], c, next)
                 /\ Verified(end[c]["C"], next)
      <4>1. next.pc = "check"
        BY <2>3, <3>1
      <4>2. ~next.resumed => FullServer(server, client[c], c, old)
        BY <1>2, <2>3, <2>8, <3>1 DEF Linked, ServerSide
      <4>3. Got(c, e).body[1] = old.secret
        BY <1>5 DEF VerifyData, bad
      <4>4. end[c]["C"].pc \in Finishing /\ Got(c, e).body[1] = end[c]["C"].secret
        BY <1>2, <2>8, <3>1 DEF Linked, ToServer
      <4>5. Verified(end[c]["C"], next)
        BY <2>3, <4>3, <4>4 DEF Verified
      <4>6. QED
        BY <1>2, <2>3, <4>1, <4>2, <4>5 DEF FullServer, Finishing
    <3>2. next.pc # "client_hello"
      BY <2>3
    <3>3. end[c]["S"].pc \notin {"idle", "client_hello", "closed", "failed"}
      BY <1>2, <2>8
    <3>4. Proceed(c, "S", next, out) /\ net[c]["S"] # <<>>
      BY <1>2, <2>1, <2>8
    <3>5. /\ next.version = end[c]["S"].version /\ next.suite = end[c]["S"].suite
          /\ next.id = end[c]["S"].id /\ next.resumed = end[c]["S"].resumed
      BY <2>3, <2>8
    <3>6. \A d \in Conns : sess'[d]["C"] = sess[d]["C"]
      BY <2>6, <2>8
    <3>7. QED
      BY <1>2, <2>3, <2>4, <2>6, <3>1, <3>2, <3>3, <3>4, <3>5, <3>6, ServerGoesOn
  <2>9. QED
    BY <2>7, <2>8 DEF Ends
<1>6. QED
  BY <1>4, <1>5

LEMMA CheckPeerStep ==
  ASSUME HInv, NEW c \in Conns, NEW e \in Ends, CheckPeer(c, e)
  PROVE  HInv'
<1> DEFINE old == end[c][e]
           expected == IF e = "C" THEN client[c].check ELSE server.check
           fine == expected = "any" \/ old.resumed \/ old.chain = expected
           next == [old EXCEPT !.pc = "open"]
<1>1. /\ old.pc = "check"
      /\ fine => /\ end' = [end EXCEPT ![c][e].pc = "open"]
                 /\ net' = net /\ sess' = sess
      /\ ~fine => Shutdown(c, e, FALSE, <<Alert("close_notify", old)>>)
      /\ server' = server /\ client' = client
  BY DEF CheckPeer, envVars
<1>2. CASE ~fine
  <2>1. IsSeq(<<Alert("close_notify", old)>>)
    BY SeqOne
  <2>2. QED
    BY <1>1, <1>2, <2>1, ShutStep
<1>3. CASE fine
  <2>1. end = [d \in Conns |-> [f \in Ends |-> end[d][f]]]
    BY DEF HInv, Shape
  <2>2. EndShape(old)
    BY DEF HInv, Shape
  <2>3. /\ EndShape(next) /\ next.pc = "open"
        /\ next.version = old.version /\ next.suite = old.suite /\ next.id = old.id
        /\ next.offer = old.offer /\ next.secret = old.secret
        /\ next.protos = old.protos /\ next.resumed = old.resumed
        /\ next.chain = old.chain
    BY <2>2 DEF EndShape
  <2>4. end' = [end EXCEPT ![c][e] = next]
    BY <1>1, <1>3, Zenon
  <2> HIDE DEF next
  <2>5. TwoArgs(Conns, Ends, end) /\ end' = With(end, c, e, next)
    BY <2>1, <2>4 DEF TwoArgs, With
  <2>6. /\ TwoArgs(Conns, Ends, end')
        /\ end'[c][e] = next
        /\ \A d \in Conns, f \in Ends : d # c \/ f # e => end'[d][f] = end[d][f]
        /\ \A d \in Conns \ {c} : end'[d] = end[d]
    BY <2>5, Replaced
  <2>7. Connections'
    <3>1. \A d \in Conns, f \in Ends : end'[d][f] = next \/ end'[d][f] = end[d][f]
      BY <2>6
    <3>2. /\ net = [d \in Conns |-> [f \in Ends |-> net[d][f]]]
          /\ \A d \in Conns, f \in Ends : EndShape(end[d][f]) /\ IsSeq(net[d][f])
      BY DEF HInv, Shape
    <3>3. \A d \in Conns, f \in Ends : EndShape(end'[d][f])
      BY <2>3, <3>1, <3>2
    <3>4. net' = net
      BY <1>1, <1>3
    <3>5. /\ end' = [d \in Conns |-> [f \in Ends |-> end'[d][f]]]
          /\ net' = [d \in Conns |-> [f \in Ends |-> net'[d][f]]]
      BY <2>6, <3>2, <3>4 DEF TwoArgs
    <3>6. \A d \in Conns, f \in Ends : EndShape(end'[d][f]) /\ IsSeq(net'[d][f])
      BY <3>2, <3>3, <3>4
    <3>7. QED
      BY <3>5, <3>6 DEF Connections, EndShape, IsSeq
  <2>8. Sessions' /\ sess' = sess /\ net' = net
    BY <1>1, <1>3, SessionsStay
  <2>9. Unused(c)'
    <3>1. end'[c]["C"].pc # "idle" /\ end'[c]["C"].protos = end[c]["C"].protos
      BY <1>1, <2>3, <2>6 DEF HInv, Unused, Ends
    <3>2. QED
      BY <3>1 DEF HInv, Unused
  <2>10. LinkInv(c)'
    <3> DEFINE k == server
               p == client[c]
               r == end[c]["C"]
               s == end[c]["S"]
    <3> SUFFICES ASSUME Alive(c)'
                 PROVE  /\ c \in DOMAIN client
                        /\ Linked(k, p, c, end'[c]["C"], end'[c]["S"],
                                  net[c]["C"], net[c]["S"])
      BY <1>1, <2>8 DEF LinkInv
    <3>1. Alive(c)
      BY <1>1, <2>6 DEF Alive, Ends
    <3>2. c \in DOMAIN client /\ Linked(k, p, c, r, s, net[c]["C"], net[c]["S"])
      BY <3>1, AtLink
    <3>3. CASE e = "C"
      <4>1. end'[c]["C"] = next /\ end'[c]["S"] = s
        BY <2>6, <3>3 DEF Ends
      <4>2. p.check = "any" \/ next.resumed \/ next.chain = p.check
        BY <1>3, <2>3, <3>3
      <4>3. ClientSide(k, p, c, r, s)
        BY <3>2 DEF Linked
      <4>4. Told(p, r, s) /\ r.offer # c /\ (~r.resumed => FullClient(k, p, c, r))
        BY <1>1, <3>3, <4>3 DEF ClientSide
      <4>5. Told(p, next, s)
        BY <2>3, <3>3, <4>4 DEF Told
      <4>6. ~next.resumed => FullClient(k, p, c, next)
        BY <1>1, <2>3, <3>3, <4>2, <4>4 DEF FullClient, Finishing
      <4>7. ClientSide(k, p, c, next, s)
        BY <2>3, <3>3, <4>4, <4>5, <4>6 DEF ClientSide
      <4>8. \A m \in ToSet(net[c]["S"]) : ToServer(p, next, m)
        BY <2>3, <3>2, <3>3 DEF Linked, ToServer, Hello, Finishing
      <4>9. ServerSide(k, p, c, next, s)
        BY <1>1, <3>2, <3>3, <4>4 DEF Linked, ServerSide, Told
      <4>10. Verified(next, s)
        BY <2>3, <3>2, <3>3 DEF Linked, Verified, Finishing
      <4>11. QED
        BY <3>2, <4>1, <4>7, <4>8, <4>9, <4>10 DEF Linked
    <3>4. CASE e = "S"
      <4>1. end'[c]["C"] = r /\ end'[c]["S"] = next
        BY <2>6, <3>4 DEF Ends
      <4>2. k.check = "any" \/ next.resumed \/ next.chain = k.check
        BY <1>3, <2>3, <3>4
      <4>3. Decided(k, p, s) /\ (~s.resumed => FullServer(k, p, c, s))
        BY <1>1, <3>2, <3>4 DEF Linked, ServerSide
      <4>4. ~next.resumed => FullServer(k, p, c, next)
        BY <1>1, <2>3, <3>4, <4>2, <4>3 DEF FullServer, Finishing
      <4>5. ServerSide(k, p, c, r, next)
        BY <2>3, <3>4, <4>3, <4>4 DEF ServerSide, Decided
      <4>6. ClientSide(k, p, c, r, next)
        BY <2>3, <3>2, <3>4 DEF Linked, ClientSide, Told
      <4>7. Verified(r, next)
        BY <1>1, <2>3, <3>2, <3>4 DEF Linked, Verified
      <4>8. \A m \in ToSet(net[c]["C"]) : ToClient(k, next, m)
        BY <2>3, <3>2, <3>4 DEF Linked, ToClient
      <4>9. next.pc # "client_hello"
        BY <2>3
      <4>10. QED
        BY <3>2, <4>1, <4>5, <4>6, <4>7, <4>8, <4>9 DEF Linked
    <3>5. QED
      BY <3>3, <3>4 DEF Ends
  <2>11. QED
    BY <1>1, <2>6, <2>7, <2>8, <2>9, <2>10, StepAt
<1>4. QED
  BY <1>2, <1>3

----------------------------------------------------------------------------
(* The actions of the server.                                              *)

\* A server that waits for a message after the hello.
LEMMA ServerStores ==
  ASSUME HInv, NEW c \in Conns, NEW s, Proceed(c, "S", s, <<>>), EndShape(s),
         NEW pc, Gets(c, "S", pc), sess' = sess,
         pc \in {"certificate", "client_key_exchange", "certificate_verify",
                 "next_protocol"},
         s.pc \in {"client_key_exchange", "certificate_verify", "change_cipher_spec",
                   "finished"},
         /\ s.version = end[c]["S"].version /\ s.suite = end[c]["S"].suite
         /\ s.id = end[c]["S"].id /\ s.resumed = end[c]["S"].resumed,
         /\ FullServer(server, client[c], c, end[c]["S"])
         /\ ToServer(client[c], end[c]["C"], Got(c, "S"))
         => FullServer(server, client[c], c, s)
  PROVE  HInv'
<1>1. /\ "S" \in Ends
      /\ end[c]["S"].pc = pc /\ net[c]["S"] # <<>> /\ Got(c, "S") \in ToSet(net[c]["S"])
      /\ server' = server /\ client' = client
  <2>1. "S" \in Ends
    BY DEF Ends
  <2>2. QED
    BY <2>1, Readies
<1>2. ASSUME Linked(server, client[c], c, end[c]["C"], end[c]["S"],
                    net[c]["C"], net[c]["S"])
      PROVE  /\ ~s.resumed => FullServer(server, client[c], c, s)
             /\ Verified(end[c]["C"], s)
  <2>1. ToServer(client[c], end[c]["C"], Got(c, "S"))
    BY <1>1, <1>2 DEF Linked
  <2>2. ~s.resumed => FullServer(server, client[c], c, end[c]["S"])
    BY <1>1, <1>2 DEF Linked, ServerSide
  <2>3. QED
    BY <2>1, <2>2 DEF Verified
<1>3. Sessions' /\ \A d \in Conns : sess'[d]["C"] = sess[d]["C"]
  BY SessionsStay
<1>4. /\ s.pc # "client_hello"
      /\ end[c]["S"].pc \notin {"idle", "client_hello", "closed", "failed"}
  BY <1>1
<1>5. QED
  BY <1>1, <1>2, <1>3, <1>4, SeqEmpty, ServerGoesOn

LEMMA ServerGetCertificateStep ==
  ASSUME HInv, NEW c \in Conns, ServerGetCertificate(c)
  PROVE  HInv'
<1> DEFINE old == end[c]["S"]
           q == [old EXCEPT !.pc = "client_key_exchange", !.chain = Got(c, "S").body]
           next == Logged(q, <<"certificate">>)
<1>1. /\ Gets(c, "S", "certificate") /\ Proceed(c, "S", next, <<>>) /\ sess' = sess
  BY DEF ServerGetCertificate
<1>2. EndShape(old) /\ "S" \in Ends
  BY DEF HInv, Shape, Ends
<1>3. old.pc = "certificate" /\ Got(c, "S").type = "certificate"
  BY <1>1, <1>2, Readies DEF Expected
<1>4. /\ EndShape(q) /\ q.pc = "client_key_exchange" /\ q.chain = Got(c, "S").body
      /\ q.version = old.version /\ q.suite = old.suite /\ q.id = old.id
      /\ q.resumed = old.resumed
  BY <1>2 DEF EndShape
<1> HIDE DEF q
<1>5. EndShape(next) /\ SameTerms(next, q)
  BY <1>4, LoggedKeeps
<1> HIDE DEF next
<1>6. ASSUME FullServer(server, client[c], c, old),
             ToServer(client[c], end[c]["C"], Got(c, "S"))
      PROVE  FullServer(server, client[c], c, next)
  <2>1. next.chain = client[c].cert
    BY <1>3, <1>4, <1>5, <1>6 DEF ToServer, SameTerms
  <2>2. QED
    BY <1>3, <1>4, <1>5, <1>6, <2>1 DEF FullServer, Finishing, SameTerms
<1>7. QED
  BY <1>1, <1>4, <1>5, <1>6, ServerStores DEF SameTerms

LEMMA ServerGetClientKeyExchangeStep ==
  ASSUME HInv, NEW c \in Conns, ServerGetClientKeyExchange(c)
  PROVE  HInv'
<1> DEFINE old == end[c]["S"]
           q == [old EXCEPT !.secret = <<"shared", c>>]
           r == Logged(q, <<"client_key_exchange">>)
           next == [r EXCEPT !.pc = IF r.chain # "none" THEN "certificate_verify"
                                    ELSE "change_cipher_spec"]
<1>1. /\ Gets(c, "S", "client_key_exchange") /\ Proceed(c, "S", next, <<>>)
      /\ sess' = sess
  BY DEF ServerGetClientKeyExchange
<1>2. EndShape(old) /\ "S" \in Ends
  BY DEF HInv, Shape, Ends
<1>3. old.pc = "client_key_exchange"
  BY <1>1, <1>2, Readies
<1>4. /\ EndShape(q) /\ q.secret = <<"shared", c>>
      /\ q.version = old.version /\ q.suite = old.suite /\ q.id = old.id
      /\ q.resumed = old.resumed /\ q.chain = old.chain
  BY <1>2 DEF EndShape
<1> HIDE DEF q
<1>5. EndShape(r) /\ SameTerms(r, q)
  BY <1>4, LoggedKeeps
<1> HIDE DEF r
<1>6. /\ EndShape(next) /\ next.secret = <<"shared", c>>
      /\ next.version = old.version /\ next.suite = old.suite /\ next.id = old.id
      /\ next.resumed = old.resumed /\ next.chain = old.chain
      /\ next.pc = IF old.chain # "none" THEN "certificate_verify"
                   ELSE "change_cipher_spec"
  BY <1>4, <1>5 DEF EndShape, SameTerms
<1> HIDE DEF next
<1>7. ASSUME FullServer(server, client[c], c, old)
      PROVE  FullServer(server, client[c], c, next)
  BY <1>3, <1>6, <1>7 DEF FullServer, Finishing
<1>8. next.pc \in {"certificate_verify", "change_cipher_spec"}
  BY <1>6
<1>9. QED
  BY <1>1, <1>6, <1>7, <1>8, ServerStores

LEMMA ServerGetCertificateVerifyStep ==
  ASSUME HInv, NEW c \in Conns, ServerGetCertificateVerify(c)
  PROVE  HInv'
<1> DEFINE old == end[c]["S"]
           q == [old EXCEPT !.pc = "change_cipher_spec"]
           next == Logged(q, <<"certificate_verify">>)
<1>1. /\ Gets(c, "S", "certificate_verify")
      /\ server.strict => SendError(c, "S")
      /\ ~server.strict => Proceed(c, "S", next, <<>>) /\ sess' = sess
  BY DEF ServerGetCertificateVerify
<1>2. EndShape(old) /\ "S" \in Ends
  BY DEF HInv, Shape, Ends
<1>3. old.pc = "certificate_verify" /\ server' = server /\ client' = client
  BY <1>1, <1>2, Readies
<1>4. CASE server.strict
  BY <1>1, <1>2, <1>3, <1>4, SendErrorStep
<1>5. CASE ~server.strict
  <2>1. /\ EndShape(q) /\ q.pc = "change_cipher_spec" /\ q.secret = old.secret
        /\ q.version = old.version /\ q.suite = old.suite /\ q.id = old.id
        /\ q.resumed = old.resumed /\ q.chain = old.chain
    BY <1>2 DEF EndShape
  <2> HIDE DEF q
  <2>2. EndShape(next) /\ SameTerms(next, q)
    BY <2>1, LoggedKeeps
  <2> HIDE DEF next
  <2>3. ASSUME FullServer(server, client[c], c, old)
        PROVE  FullServer(server, client[c], c, next)
    BY <1>3, <1>5, <2>1, <2>2, <2>3 DEF FullServer, Finishing, SameTerms
  <2>4. QED
    BY <1>1, <1>5, <2>1, <2>2, <2>3, ServerStores DEF SameTerms
<1>6. QED
  BY <1>4, <1>5

LEMMA ServerGetNextProtocolStep ==
  ASSUME HInv, NEW c \in Conns, ServerGetNextProtocol(c)
  PROVE  HInv'
<1> DEFINE old == end[c]["S"]
           q == [old EXCEPT !.pc = "finished"]
           next == Logged(q, <<"next_protocol">>)
<1>1. /\ Gets(c, "S", "next_protocol")
      /\ \/ SendError(c, "S")
         \/ Proceed(c, "S", next, <<>>) /\ sess' = sess
  BY DEF ServerGetNextProtocol
<1>2. EndShape(old) /\ "S" \in Ends
  BY DEF HInv, Shape, Ends
<1>3. old.pc = "next_protocol" /\ server' = server /\ client' = client
  BY <1>1, <1>2, Readies
<1>4. CASE SendError(c, "S")
  BY <1>2, <1>3, <1>4, SendErrorStep
<1>5. CASE Proceed(c, "S", next, <<>>) /\ sess' = sess
  <2>1. /\ EndShape(q) /\ q.pc = "finished" /\ q.secret = old.secret
        /\ q.version = old.version /\ q.suite = old.suite /\ q.id = old.id
        /\ q.resumed = old.resumed /\ q.chain = old.chain
    BY <1>2 DEF EndShape
  <2> HIDE DEF q
  <2>2. EndShape(next) /\ SameTerms(next, q)
    BY <2>1, LoggedKeeps
  <2> HIDE DEF next
  <2>3. ASSUME FullServer(server, client[c], c, old)
        PROVE  FullServer(server, client[c], c, next)
    BY <1>3, <2>1, <2>2, <2>3 DEF FullServer, Finishing, SameTerms
  <2>4. QED
    BY <1>1, <1>5, <2>1, <2>2, <2>3, ServerStores DEF SameTerms
<1>6. QED
  BY <1>1, <1>4, <1>5

\* What a server k sends with its ServerHello, the message m.
OfServer(k, sent, m) ==
  /\ IsSeq(sent)
  /\ \A b \in ToSet(sent) : /\ b[1] = "server_hello" => b[2] = m
                            /\ b[1] = "certificate" => b[2] = k.chain
                            /\ b[1] # "finished"

LEMMA ServerSends ==
  ASSUME NEW suite, NEW m
  PROVE  OfServer(server,
                  << <<"server_hello", m>> >>
                  \o CASE IsSrp(suite) -> ServerSRPKeyExchange(suite)
                       [] suite[1] = "cert" -> ServerCertKeyExchange(suite)
                       [] OTHER -> ServerAnonKeyExchange(suite), m)
<1> DEFINE rest == CASE IsSrp(suite) -> ServerSRPKeyExchange(suite)
                     [] suite[1] = "cert" -> ServerCertKeyExchange(suite)
                     [] OTHER -> ServerAnonKeyExchange(suite)
           hello == <<"server_hello", m>>
           chain == <<"certificate", server.chain>>
           key == <<"server_key_exchange", suite>>
           request == <<"certificate_request", suite>>
           done == <<"server_hello_done", suite>>
           Ok(s) == OfServer(server, s, m)
<1>1. /\ hello[1] = "server_hello" /\ hello[2] = m
      /\ chain[1] = "certificate" /\ chain[2] = server.chain
      /\ key[1] = "server_key_exchange" /\ request[1] = "certificate_request"
      /\ done[1] = "server_hello_done"
  OBVIOUS
<1>2. CASE IsSrp(suite)
  <2>1. rest = ServerSRPKeyExchange(suite)
    BY <1>2 DEF IsSrp
  <2> HIDE DEF rest
  <2>2. rest = (IF HasCertificate(suite) THEN <<chain>> ELSE <<>>) \o <<key, done>>
    BY <2>1 DEF ServerSRPKeyExchange
  <2> HIDE DEF hello, chain, key, done
  <2>3. /\ Ok(<<hello>>) /\ Ok(IF HasCertificate(suite) THEN <<chain>> ELSE <<>>)
        /\ Ok(<<key, done>>)
    BY <1>1, SeqEmpty, SeqOne, SeqTwo DEF OfServer
  <2>4. Ok(rest)
    BY <2>2, <2>3, SeqConcat DEF OfServer
  <2>5. Ok(<<hello>> \o rest)
    BY <2>3, <2>4, SeqConcat DEF OfServer
  <2>6. QED
    BY <2>5 DEF rest, hello, IsSrp
<1>3. CASE ~IsSrp(suite) /\ suite[1] = "cert"
  <2>1. rest = ServerCertKeyExchange(suite)
    BY <1>3 DEF IsSrp
  <2> HIDE DEF rest
  <2>2. rest = (<<chain>> \o (IF server.req THEN <<request>> ELSE <<>>)) \o <<done>>
    BY <2>1 DEF ServerCertKeyExchange
  <2> HIDE DEF hello, chain, request, done
  <2>3. /\ Ok(<<hello>>) /\ Ok(<<chain>>) /\ Ok(<<done>>)
        /\ Ok(IF server.req THEN <<request>> ELSE <<>>)
    BY <1>1, SeqEmpty, SeqOne DEF OfServer
  <2>4. Ok(<<chain>> \o (IF server.req THEN <<request>> ELSE <<>>))
    BY <2>3, SeqConcat DEF OfServer
  <2>5. Ok(rest)
    BY <2>2, <2>3, <2>4, SeqConcat DEF OfServer
  <2>6. Ok(<<hello>> \o rest)
    BY <2>3, <2>5, SeqConcat DEF OfServer
  <2>7. QED
    BY <2>6 DEF rest, hello, IsSrp
<1>4. CASE ~IsSrp(suite) /\ suite[1] # "cert"
  <2>1. rest = ServerAnonKeyExchange(suite)
    BY <1>4 DEF IsSrp
  <2> HIDE DEF rest
  <2>2. rest = <<key, done>>
    BY <2>1 DEF ServerAnonKeyExchange
  <2> HIDE DEF hello, key, done
  <2>3. Ok(<<hello>>) /\ Ok(<<key, done>>)
    BY <1>1, SeqOne, SeqTwo DEF OfServer
  <2>4. Ok(<<hello>> \o rest)
    BY <2>2, <2>3, SeqConcat DEF OfServer
  <2>5. QED
    BY <2>4 DEF rest, hello, IsSrp
<1>5. QED
  BY <1>2, <1>3, <1>4

\* The server answers a ClientHello h with which it can do something.
LEMMA ServerAnswers ==
  ASSUME HInv, NEW c \in Conns, NEW s, NEW out, Proceed(c, "S", s, out), EndShape(s),
         IsSeq(out), Gets(c, "S", "client_hello"), Filters(server), sess' = sess,
         Got(c, "S").body.version \in Int /\ server.min \in Int
           => Got(c, "S").body.version >= server.min,
         s.version = Smaller(Got(c, "S").body.version, server.max),
         s.pc \in {"certificate", "client_key_exchange", "change_cipher_spec"},
         \A m \in ToSet(out) : ToClient(server, s, m),
         /\ ~end[c]["S"].resumed /\ end[c]["S"].chain = "none"
         /\ Got(c, "S").body = Hello(client[c], end[c]["C"])
         => s.resumed \/ FullServer(server, client[c], c, s)
  PROVE  HInv'
<1> DEFINE k == server
           p == client[c]
           r == end[c]["C"]
           old == end[c]["S"]
<1>1. /\ "S" \in Ends
      /\ old.pc = "client_hello" /\ net[c]["S"] # <<>>
      /\ Got(c, "S") \in ToSet(net[c]["S"]) /\ Got(c, "S").type = "client_hello"
      /\ server' = server /\ client' = client
  <2>1. "S" \in Ends
    BY DEF Ends
  <2>2. QED
    BY <2>1, Readies DEF Expected
<1>2. ServerKeeps(c, s, out)
  <2> SUFFICES ASSUME Alive(c)
               PROVE  /\ \A m \in ToSet(net[c]["C"]) \cup ToSet(out) : ToClient(k, s, m)
                      /\ ServerSide(k, p, c, r, s)
                      /\ ClientSide(k, p, c, r, s)
                      /\ Verified(r, s)
    BY DEF ServerKeeps
  <2>1. c \in DOMAIN client /\ Linked(k, p, c, r, old, net[c]["C"], net[c]["S"])
    BY AtLink
  <2>2. /\ net[c]["C"] = <<>> /\ r.pc = "server_hello"
        /\ ~old.resumed /\ old.chain = "none"
        /\ ToServer(p, r, Got(c, "S")) /\ ClientSide(k, p, c, r, old)
    BY <1>1, <2>1 DEF Linked, ServerSide
  <2>3. Got(c, "S").body = Hello(p, r) /\ Got(c, "S").body.version = p.max
    <3>1. Got(c, "S").body = Hello(p, r)
      BY <1>1, <2>2 DEF ToServer
    <3>2. Hello(p, r).version = p.max
      BY DEF Hello
    <3>3. QED
      BY <3>1, <3>2
  <2>4. p.max \in Int /\ k.min \in Int
    BY <2>1 DEF HInv, Proper, CasesAreProper
  <2>5. Decided(k, p, s)
    BY <2>3, <2>4 DEF Decided
  <2>6. ~s.resumed => FullServer(k, p, c, s)
    BY <2>2, <2>3
  <2>7. ServerSide(k, p, c, r, s)
    BY <2>5, <2>6 DEF ServerSide
  <2>8. ClientSide(k, p, c, r, s)
    BY <2>2 DEF ClientSide
  <2>9. \A m \in ToSet(net[c]["C"]) \cup ToSet(out) : ToClient(k, s, m)
    BY <2>2, SeqEmpty
  <2>10. Verified(r, s)
    BY DEF Verified
  <2>11. QED
    BY <2>7, <2>8, <2>9, <2>10
<1>3. Sessions' /\ \A d \in Conns : sess'[d]["C"] = sess[d]["C"]
  BY SessionsStay
<1>4. s.pc # "client_hello" /\ old.pc \notin {"idle", "closed", "failed"}
  BY <1>1
<1>5. QED
  BY <1>1, <1>2, <1>3, <1>4, ServerProceeds

LEMMA ServerResumesStep ==
  ASSUME HInv, NEW c \in Conns, NEW old, Gets(c, "S", "client_hello"), Filters(server),
         Got(c, "S").body.version >= server.min,
         ServerResumes(c, Logged([end[c]["S"] EXCEPT
                                    !.version = Smaller(Got(c, "S").body.version, server.max)],
                                 <<"client_hello">>), old)
  PROVE  HInv'
<1> DEFINE v == Smaller(Got(c, "S").body.version, server.max)
           first == end[c]["S"]
           q == [first EXCEPT !.version = v]
           r == Logged(q, <<"client_hello">>)
           m == [version |-> r.version, id |-> old.id, suite |-> old.suite, protos |-> <<>>]
           x == [r EXCEPT !.suite = old.suite, !.id = old.id, !.basis = old.id,
                          !.secret = old.secret, !.resumed = TRUE]
           agreed == Logged(x, <<"server_hello">>)
           last == FinishedFlight(c, "S", agreed, <<>>)
           next == [last.next EXCEPT !.pc = "change_cipher_spec"]
           hello == <<"server_hello", m>>
           sent == Flight(r, <<hello>>)
           out == sent \o last.msgs
<1>1. Proceed(c, "S", next, out) /\ sess' = sess
  BY DEF ServerResumes
<1>2. EndShape(first)
  BY DEF HInv, Shape, Ends
<1> HIDE DEF v
<1>3. EndShape(q) /\ q.version = v
  BY <1>2 DEF EndShape
<1> HIDE DEF q
<1>4. EndShape(r) /\ r.version = v
  BY <1>3, LoggedKeeps DEF SameTerms
<1>5. m.version = v /\ m.suite = old.suite /\ m.id = old.id
  BY <1>4
<1> HIDE DEF r
<1>6. /\ EndShape(x) /\ x.version = v /\ x.suite = old.suite /\ x.id = old.id
      /\ x.resumed = TRUE
  BY <1>4 DEF EndShape
<1> HIDE DEF x, m
<1>7. EndShape(agreed) /\ SameTerms(agreed, x)
  BY <1>6, LoggedKeeps
<1> HIDE DEF agreed
<1>8. /\ EndShape(last.next) /\ SameTerms(last.next, agreed) /\ IsSeq(last.msgs)
      /\ \A y \in ToSet(last.msgs) :
           y.type \in {"change_cipher_spec", "next_protocol", "finished"}
  <2>1. Finishes(last, agreed)
    BY <1>7, SeqEmpty, FinishedFlightElements
  <2> HIDE DEF last
  <2>2. QED
    BY <2>1 DEF Finishes
<1> HIDE DEF last
<1>9. /\ EndShape(next) /\ next.pc = "change_cipher_spec" /\ next.resumed
      /\ next.version = v /\ next.suite = old.suite /\ next.id = old.id
  BY <1>6, <1>7, <1>8 DEF EndShape, SameTerms
<1> HIDE DEF next
<1>10. IsSeq(sent) /\ \A y \in ToSet(sent) : y.type = "server_hello" /\ y.body = m
  <2>1. hello[1] = "server_hello" /\ hello[2] = m
    OBVIOUS
  <2> HIDE DEF hello
  <2>2. IsSeq(<<hello>>) /\ ToSet(<<hello>>) = {hello}
    BY SeqOne
  <2>3. QED
    BY <2>1, <2>2, FlightElements
<1> HIDE DEF sent
<1>11. IsSeq(out) /\ ToSet(out) \subseteq ToSet(sent) \cup ToSet(last.msgs)
  BY <1>8, <1>10, SeqConcat
<1> HIDE DEF out
<1>12. \A y \in ToSet(out) : ToClient(server, next, y)
  BY <1>5, <1>8, <1>9, <1>10, <1>11 DEF ToClient
<1>13. next.version = Smaller(Got(c, "S").body.version, server.max)
  BY <1>9 DEF v
<1>14. QED
  BY <1>1, <1>9, <1>11, <1>12, <1>13, ServerAnswers

LEMMA ServerHelloFlightStep ==
  ASSUME HInv, NEW c \in Conns, Gets(c, "S", "client_hello"), Filters(server),
         ~(Got(c, "S").body.version < server.min),
         Mutual(server, Got(c, "S").body.suites) # <<>>,
         IsSrp(Mutual(server, Got(c, "S").body.suites)[1]) => Got(c, "S").body.user \in Users,
         ServerHelloFlight(c, Logged([end[c]["S"] EXCEPT
                                       !.version = Smaller(Got(c, "S").body.version, server.max)],
                                     <<"client_hello">>), Got(c, "S").body)
  PROVE  HInv'
<1> DEFINE h == Got(c, "S").body
           v == Smaller(h.version, server.max)
           first == end[c]["S"]
           q == [first EXCEPT !.version = v]
           r == Logged(q, <<"client_hello">>)
           suite == Mutual(server, h.suites)[1]
           protos == IF h.npn THEN server.protos ELSE <<>>
           id == IF server.cache THEN c ELSE 0
           m == [version |-> r.version, id |-> id, suite |-> suite, protos |-> protos]
           sent == << <<"server_hello", m>> >>
                   \o CASE IsSrp(suite) -> ServerSRPKeyExchange(suite)
                        [] suite[1] = "cert" -> ServerCertKeyExchange(suite)
                        [] OTHER -> ServerAnonKeyExchange(suite)
           pc == IF suite[1] = "cert" /\ server.req THEN "certificate"
                 ELSE "client_key_exchange"
           x == [r EXCEPT !.suite = suite, !.id = id, !.basis = c, !.protos = protos,
                          !.pc = pc]
           next == Logged(x, Types(sent))
           out == Flight(r, sent)
<1>1. Proceed(c, "S", next, out) /\ sess' = sess
  BY DEF ServerHelloFlight
<1>2. EndShape(first)
  BY DEF HInv, Shape, Ends
<1>3. suite = Mutual(server, h.suites)[1] /\ id \in {0, c}
      /\ pc = IF Asks(server, suite) THEN "certificate" ELSE "client_key_exchange"
  BY DEF Asks
<1>4. OfServer(server, sent, m)
  <2> HIDE DEF suite, m
  <2>1. QED
    BY ServerSends DEF IsSrp
<1> HIDE DEF v, suite, sent, protos, id, pc
<1>5. EndShape(q) /\ q.version = v /\ q.chain = first.chain /\ q.resumed = first.resumed
  BY <1>2 DEF EndShape
<1> HIDE DEF q
<1>6. EndShape(r) /\ r.version = v /\ r.chain = first.chain /\ r.resumed = first.resumed
  BY <1>5, LoggedKeeps DEF SameTerms
<1> HIDE DEF r
<1>7. m.version = v /\ m.suite = suite /\ m.id = id
  BY <1>6
<1>8. /\ EndShape(x) /\ x.version = v /\ x.suite = suite /\ x.id = id /\ x.pc = pc
      /\ x.chain = first.chain /\ x.resumed = first.resumed
  BY <1>6 DEF EndShape
<1> HIDE DEF x, m
<1>9. EndShape(next) /\ SameTerms(next, x)
  <2> DEFINE types == Types(sent)
  <2> HIDE DEF types
  <2>1. next = Logged(x, types)
    BY DEF types
  <2>2. QED
    BY <1>8, <2>1, LoggedKeeps
<1> HIDE DEF next
<1>10. /\ next.version = v /\ next.suite = suite /\ next.id = id /\ next.pc = pc
       /\ next.chain = first.chain /\ next.resumed = first.resumed
  BY <1>8, <1>9 DEF SameTerms
<1>11. IsSeq(out) /\ \A y \in ToSet(out) : ToClient(server, next, y)
  <2>1. /\ IsSeq(out)
        /\ \A y \in ToSet(out) : \E b \in ToSet(sent) : y.type = b[1] /\ y.body = b[2]
    BY <1>4, FlightElements DEF OfServer
  <2>2. \A y \in ToSet(out) : /\ y.type = "server_hello" => y.body = m
                              /\ y.type = "certificate" => y.body = server.chain
    BY <1>4, <2>1 DEF OfServer
  <2>3. QED
    BY <1>7, <1>10, <2>1, <2>2 DEF ToClient
<1> HIDE DEF out
<1>12. ASSUME ~first.resumed, first.chain = "none", h = Hello(client[c], end[c]["C"])
       PROVE  FullServer(server, client[c], c, next)
  <2>1. h.suites = ClientSuites(client[c]) /\ h.user = client[c].user
    BY <1>12 DEF Hello
  <2>2. /\ Mutual(server, ClientSuites(client[c])) # <<>>
        /\ next.suite = Mutual(server, ClientSuites(client[c]))[1]
        /\ IsSrp(next.suite) => client[c].user \in Users
    BY <1>3, <1>10, <2>1
  <2>3. next.pc = IF Asks(server, next.suite) THEN "certificate" ELSE "client_key_exchange"
    BY <1>3, <1>10
  <2>4. next.id \in {0, c} /\ next.chain = "none"
    BY <1>3, <1>10, <1>12
  <2>5. QED
    BY <2>2, <2>3, <2>4 DEF FullServer, Finishing
<1>13. next.version = Smaller(Got(c, "S").body.version, server.max)
  BY <1>10 DEF v
<1>14. next.pc \in {"certificate", "client_key_exchange"}
  BY <1>3, <1>10
<1>15. Got(c, "S").body.version \in Int /\ server.min \in Int
         => Got(c, "S").body.version >= server.min
  OBVIOUS
<1>16. QED
  BY <1>1, <1>9, <1>11, <1>12, <1>13, <1>14, <1>15, ServerAnswers

LEMMA ServerGetClientHelloStep ==
  ASSUME HInv, NEW c \in Conns, ServerGetClientHello(c)
  PROVE  HInv'
<1> DEFINE h == Got(c, "S").body
           r == Logged([end[c]["S"] EXCEPT !.version = Smaller(h.version, server.max)],
                       <<"client_hello">>)
           asks == h.id # 0 /\ server.cache
           old == sess[h.id]["S"]
           impossible == \/ Mutual(server, h.suites) = <<>>
                         \/ IsSrp(Mutual(server, h.suites)[1]) /\ h.user \notin Users
<1>1. /\ Gets(c, "S", "client_hello") /\ Filters(server)
      /\ \/ SendError(c, "S") \/ Raise(c, "S")
         \/ h.version >= server.min /\ ServerResumes(c, r, old)
         \/ ~(h.version < server.min) /\ ~impossible /\ ServerHelloFlight(c, r, h)
  BY DEF ServerGetClientHello
<1>2. /\ "S" \in Ends /\ end[c]["S"].pc = "client_hello"
      /\ server' = server /\ client' = client
  <2>1. "S" \in Ends
    BY DEF Ends
  <2>2. QED
    BY <1>1, <2>1, Readies
<1>3. CASE SendError(c, "S") \/ Raise(c, "S")
  BY <1>2, <1>3, SendErrorStep
<1>4. CASE h.version >= server.min /\ ServerResumes(c, r, old)
  BY <1>1, <1>4, ServerResumesStep
<1>5. CASE ~(h.version < server.min) /\ ~impossible /\ ServerHelloFlight(c, r, h)
  <2>1. /\ Mutual(server, h.suites) # <<>>
        /\ IsSrp(Mutual(server, h.suites)[1]) => h.user \in Users
    BY <1>5
  <2>2. QED
    BY <1>1, <1>5, <2>1, ServerHelloFlightStep
<1>6. QED
  BY <1>1, <1>3, <1>4, <1>5

----------------------------------------------------------------------------
(* The other steps.                                                        *)

LEMMA HangUpStep ==
  ASSUME HInv, NEW c \in Conns, NEW e \in Ends,
         GetAlert(c, e) \/ GetUnexpected(c, e) \/ GetEOF(c, e) \/ Close(c, e)
  PROVE  HInv'
<1> DEFINE bye == Alert("close_notify", end[c][e])
<1>1. /\ end[c][e].pc # "idle" /\ server' = server /\ client' = client
      /\ \/ SendError(c, e) \/ Raise(c, e)
         \/ Shutdown(c, e, TRUE, <<bye>>)
         \/ Shutdown(c, e, FALSE, <<>>)
  BY DEF GetAlert, GetUnexpected, GetEOF, Close, Reads, Active, envVars
<1>2. IsSeq(<<bye>>) /\ IsSeq(<<>>)
  BY SeqOne, SeqEmpty
<1>3. QED
  BY <1>1, <1>2, ShutStep, SendErrorStep

LEMMA Unmoved ==
  ASSUME HInv, UNCHANGED <<server, client, end, net, sess>>
  PROVE  HInv'
<1>1. /\ server' = server /\ client' = client /\ end' = end /\ net' = net
      /\ sess' = sess
  OBVIOUS
<1>2. Shape'
  <2>1. /\ end' = [c \in Conns |-> [e \in Ends |-> end'[c][e]]]
        /\ net' = [c \in Conns |-> [e \in Ends |-> net'[c][e]]]
        /\ \A c \in Conns, e \in Ends : EndShape(end'[c][e]) /\ IsSeq(net'[c][e])
    BY <1>1 DEF HInv, Shape
  <2>2. Connections' /\ Sessions'
    BY <1>1, <2>1, SessionsStay DEF Connections, EndShape, IsSeq
  <2>3. QED
    BY <2>2 DEF Connections, Sessions, Shape, EndShape, SessShape
<1>3. Proper'
  BY <1>1 DEF HInv, Proper
<1>4. \A c \in Conns : Unused(c)' /\ LinkInv(c)'
  BY <1>1, LinkFrame, UnusedFrame DEF HInv
<1>5. QED
  BY <1>2, <1>3, <1>4 DEF HInv

LEMMA ConnectStep ==
  ASSUME HInv, NEW c \in Conns, Connect(c)
  PROVE  HInv'
<1> DEFINE p == client[c]
<1>1. /\ end[c]["C"].pc = "idle" /\ c \in DOMAIN client
      /\ server' = server /\ client' = client /\ sess' = sess
  BY DEF Connect, ClientReady, envVars
<1>2. /\ end[c]["S"].pc = "idle" /\ net[c]["C"] = <<>> /\ sess[c]["C"] = NoSession
  BY <1>1 DEF HInv, Unused
<1>3. PICK s \in {0} \cup {d \in Conns : sess[d]["C"] # NoSession} :
        LET offer == IF s # 0 /\ Valid(s, "C") THEN s ELSE 0
            old == sess[s]["C"]
            suites == ClientSuites(p)
            fits == /\ Filters(p) /\ (p.user = NoText) = (p.password = NoText)
                    /\ offer # 0 => /\ old.user = p.user /\ old.name = p.name
                                    /\ old.suite \in ToSet(suites)
            hello == [version |-> p.max, id |-> offer, suites |-> suites,
                      user |-> p.user, name |-> p.name, npn |-> p.protos # <<>>]
        IN  /\ end' = [end EXCEPT ![c] =
                  [C |-> [NewEnd EXCEPT !.pc = IF fits THEN "server_hello" ELSE "failed",
                             !.version = p.max, !.offer = offer,
                             !.log = IF fits THEN <<"client_hello">> ELSE <<>>],
                   S |-> [NewEnd EXCEPT !.pc = "client_hello", !.version = server.max]]]
            /\ net' = [net EXCEPT ![c]["S"] =
                  IF fits THEN <<Rec("client_hello", hello, NoKey)>> ELSE <<>>]
  BY Zenon DEF Connect
<1> DEFINE offer == IF s # 0 /\ Valid(s, "C") THEN s ELSE 0
           old == sess[s]["C"]
           suites == ClientSuites(p)
           fits == /\ Filters(p) /\ (p.user = NoText) = (p.password = NoText)
                   /\ offer # 0 => /\ old.user = p.user /\ old.name = p.name
                                   /\ old.suite \in ToSet(suites)
           hello == [version |-> p.max, id |-> offer, suites |-> suites,
                     user |-> p.user, name |-> p.name, npn |-> p.protos # <<>>]
           log == IF fits THEN <<"client_hello">> ELSE <<>>
           pc == IF fits THEN "server_hello" ELSE "failed"
           r == [NewEnd EXCEPT !.pc = pc, !.version = p.max, !.offer = offer, !.log = log]
           t == [NewEnd EXCEPT !.pc = "client_hello", !.version = server.max]
           rec == Rec("client_hello", hello, NoKey)
           out == IF fits THEN <<rec>> ELSE <<>>
<1>4. /\ end' = [end EXCEPT ![c] = [C |-> r, S |-> t]]
      /\ net' = [net EXCEPT ![c]["S"] = out]
  BY <1>3
<1>5. offer # c
  BY <1>2, <1>3 DEF Conns
<1>6. rec.type = "client_hello" /\ rec.body = hello /\ hello.id = offer
  BY DEF Rec
<1>7. (fits => pc = "server_hello") /\ (~fits => pc = "failed")
  OBVIOUS
<1> HIDE DEF fits, offer, log, pc
<1>8. /\ EndShape(r) /\ r.pc = pc /\ r.offer = offer /\ ~r.resumed /\ r.chain = "none"
      /\ r.protos = <<>>
  BY DEF EndShape, NewEnd
<1>9. EndShape(t) /\ t.pc = "client_hello" /\ ~t.resumed /\ t.chain = "none"
  BY DEF EndShape, NewEnd
<1>10. hello = Hello(p, r)
  BY <1>8 DEF Hello
<1> HIDE DEF r, t, rec, hello
<1>11. IsSeq(out) /\ \A m \in ToSet(out) : m = rec
  BY SeqEmpty, SeqOne
<1> HIDE DEF out, p
<1>12. /\ end = [d \in Conns |-> [f \in Ends |-> end[d][f]]]
       /\ net = [d \in Conns |-> [f \in Ends |-> net[d][f]]]
       /\ \A d \in Conns, f \in Ends : EndShape(end[d][f]) /\ IsSeq(net[d][f])
  BY DEF HInv, Shape
<1>13. /\ end'[c]["C"] = r /\ end'[c]["S"] = t
       /\ \A d \in Conns \ {c} : end'[d] = end[d]
       /\ end' = [d \in Conns |-> [f \in Ends |-> end'[d][f]]]
  <2> DEFINE new == [C |-> r, S |-> t]
  <2>1. new["C"] = r /\ new["S"] = t /\ new = [f \in Ends |-> new[f]]
    BY DEF Ends
  <2> HIDE DEF new
  <2>2. /\ end'[c] = new /\ \A d \in Conns \ {c} : end'[d] = end[d]
        /\ end' = [d \in Conns |-> end'[d]]
    BY <1>4, <1>12 DEF new
  <2>3. \A d \in Conns : end'[d] = [f \in Ends |-> end'[d][f]]
    BY <1>12, <2>1, <2>2
  <2>4. QED
    BY <2>1, <2>2, <2>3
<1>14. /\ net'[c]["C"] = <<>> /\ net'[c]["S"] = out
       /\ \A d \in Conns \ {c} : net'[d] = net[d]
       /\ net' = [d \in Conns |-> [f \in Ends |-> net'[d][f]]]
       /\ \A d \in Conns, f \in Ends : net'[d][f] = out \/ net'[d][f] = net[d][f]
  <2>1. TwoArgs(Conns, Ends, net) /\ net' = With(net, c, "S", out)
    BY <1>4, <1>12 DEF TwoArgs, With
  <2>2. /\ TwoArgs(Conns, Ends, net')
        /\ net'[c]["S"] = out
        /\ \A d \in Conns, f \in Ends : d # c \/ f # "S" => net'[d][f] = net[d][f]
        /\ \A d \in Conns \ {c} : net'[d] = net[d]
    BY <2>1, Replaced DEF Ends
  <2>3. net'[c]["C"] = <<>>
    BY <1>2, <2>2 DEF Ends
  <2>4. QED
    BY <2>2, <2>3 DEF TwoArgs
<1>15. Connections'
  <2>1. \A d \in Conns, f \in Ends : end'[d][f] \in {r, t, end[d][f]}
    BY <1>13 DEF Ends
  <2>2. \A d \in Conns, f \in Ends : EndShape(end'[d][f]) /\ IsSeq(net'[d][f])
    BY <1>8, <1>9, <1>11, <1>12, <1>14, <2>1
  <2>3. QED
    BY <1>13, <1>14, <2>2 DEF Connections, EndShape, IsSeq
<1>16. Sessions'
  BY <1>1, SessionsStay
<1>17. Unused(c)'
  BY <1>7, <1>8, <1>13, SeqEmpty DEF Unused
<1>18. LinkInv(c)'
  <2> DEFINE k == server
  <2> SUFFICES ASSUME Alive(c)'
               PROVE  Linked(k, p, c, r, t, <<>>, out)
    BY <1>1, <1>13, <1>14 DEF LinkInv, p
  <2>1. r.pc = "server_hello"
    BY <1>7, <1>8, <1>13 DEF Alive, Ends
  <2>2. \A m \in ToSet(<<>>) : ToClient(k, t, m)
    BY SeqEmpty
  <2>3. \A m \in ToSet(out) : ToServer(p, r, m)
    BY <1>6, <1>10, <1>11 DEF ToServer
  <2>4. ServerSide(k, p, c, r, t)
    BY <1>9, <2>1 DEF ServerSide
  <2>5. ClientSide(k, p, c, r, t)
    BY <1>5, <1>8, <2>1 DEF ClientSide
  <2>6. Verified(r, t)
    BY <1>9 DEF Verified
  <2>7. QED
    BY <2>2, <2>3, <2>4, <2>5, <2>6 DEF Linked
<1>19. QED
  BY <1>1, <1>13, <1>14, <1>15, <1>16, <1>17, <1>18, StepAt

----------------------------------------------------------------------------
(* The theorem.                                                            *)

LEMMA InitHInv == Init => HInv
<1> SUFFICES ASSUME Init PROVE HInv
  OBVIOUS
<1>1. /\ end = [c \in Conns |-> [e \in Ends |-> NewEnd]]
      /\ net = [c \in Conns |-> [e \in Ends |-> <<>>]]
      /\ sess = [c \in Conns |-> [e \in Ends |-> NoSession]]
  BY DEF Init
<1>2. EndShape(NewEnd) /\ NewEnd.pc = "idle" /\ NewEnd.protos = <<>>
  BY DEF EndShape, NewEnd
<1>3. SessShape(NoSession)
  BY DEF SessShape, NoSession
<1>4. \A c \in Conns, e \in Ends :
        end[c][e] = NewEnd /\ net[c][e] = <<>> /\ sess[c][e] = NoSession
  BY <1>1
<1>5. /\ end = [c \in Conns |-> [e \in Ends |-> end[c][e]]]
      /\ net = [c \in Conns |-> [e \in Ends |-> net[c][e]]]
      /\ sess = [c \in Conns |-> [e \in Ends |-> sess[c][e]]]
  BY <1>1, <1>4
<1>6. Shape
  BY <1>2, <1>3, <1>4, <1>5, SeqEmpty DEF Shape
<1>7. Proper
  <2>1. PICK k \in Cases : server = k[1] /\ client = k[2]
    BY DEF Init
  <2>2. CasesAreProper(k)
    BY CasesAssumption
  <2>3. QED
    BY <2>1, <2>2 DEF Proper, CasesAreProper
<1>8. \A c \in Conns : Unused(c) /\ LinkInv(c)
  BY <1>2, <1>4, SeqEmpty DEF Unused, LinkInv, Alive, Ends
<1>9. QED
  BY <1>6, <1>7, <1>8 DEF HInv

\* Every step keeps the invariant.
LEMMA NextHInv ==
  ASSUME HInv, [Next]_vars
  PROVE  HInv'
<1>1. CASE UNCHANGED vars
  BY <1>1, Unmoved DEF vars
<1>2. ASSUME NEW c \in Conns, Connect(c) PROVE HInv'
  BY <1>2, ConnectStep
<1>3. ASSUME NEW c \in Conns, ClientStep(c) PROVE HInv'
  BY <1>3, ClientGetServerHelloStep, ClientGetCertificateStep,
     ClientGetServerKeyExchangeStep, ClientGetCertificateRequestStep,
     ClientKeyExchangeStep DEF ClientStep
<1>4. ASSUME NEW c \in Conns, ServerStep(c) PROVE HInv'
  <2>1. CASE ServerRefuses(c)
    <3>1. /\ Raise(c, "S") /\ "S" \in Ends /\ end[c]["S"].pc # "idle"
          /\ server' = server /\ client' = client
      BY <2>1 DEF ServerRefuses, Ends, envVars
    <3>2. QED
      BY <3>1, SendErrorStep
  <2>2. QED
    BY <1>4, <2>1, ServerGetClientHelloStep, ServerGetCertificateStep,
       ServerGetClientKeyExchangeStep, ServerGetCertificateVerifyStep,
       ServerGetNextProtocolStep DEF ServerStep
<1>5. ASSUME NEW c \in Conns, NEW e \in Ends, EndStep(c, e) PROVE HInv'
  BY <1>5, GetChangeCipherSpecStep, GetFinishedStep, CheckPeerStep, HangUpStep
     DEF EndStep
<1>6. ASSUME NEW c \in Conns, NEW e \in Ends, Close(c, e) PROVE HInv'
  BY <1>6, HangUpStep
<1>7. ASSUME NEW c \in Conns, Break(c) PROVE HInv'
  BY <1>7, Unmoved DEF Break
<1>8. CASE Tick
  BY <1>8, Unmoved DEF Tick
<1>9. QED
  BY <1>1, <1>2, <1>3, <1>4, <1>5, <1>6, <1>7, <1>8 DEF Next, System

LEMMA HInvNegotiates == HInv => OpenIsNegotiated
<1> SUFFICES ASSUME HInv, NEW c \in Conns, Up(c, "C"), Up(c, "S")
             PROVE  LET p == client[c]
                        r == end[c]["C"]
                    IN  /\ VersionsMeet(p) /\ r.version = Smaller(p.max, server.max)
                        /\ \/ Resumed(c)
                           \/ /\ Compatible(p)
                              /\ r.suite = Mutual(server, ClientSuites(p))[1]
  BY DEF OpenIsNegotiated
<1> DEFINE k == server
           p == client[c]
           r == end[c]["C"]
           s == end[c]["S"]
           suite == Mutual(k, ClientSuites(p))[1]
<1>1. r.pc = "open" /\ s.pc = "open" /\ Alive(c)
  BY DEF Up, Alive, Ends
<1>2. c \in DOMAIN client /\ Linked(k, p, c, r, s, net[c]["C"], net[c]["S"])
  BY <1>1, AtLink
<1>3. ServerSide(k, p, c, r, s) /\ ClientSide(k, p, c, r, s) /\ Verified(r, s)
  BY <1>2 DEF Linked
<1>4. Decided(k, p, s) /\ Told(p, r, s)
  BY <1>1, <1>3 DEF ServerSide, ClientSide
<1>5. VersionsMeet(p) /\ r.version = Smaller(p.max, server.max)
  BY <1>4 DEF Decided, Told, VersionsMeet
<1>6. CASE ~s.resumed
  <2>1. ~r.resumed
    BY <1>4, <1>6 DEF Told
  <2>2. FullServer(k, p, c, s) /\ FullClient(k, p, c, r)
    BY <1>1, <1>3, <1>6, <2>1 DEF ServerSide, ClientSide
  <2>3. r.secret = s.secret /\ s.secret = <<"shared", c>>
    BY <1>1, <1>3, <1>6, <2>2 DEF Verified, FullServer, Finishing
  <2>4. Mutual(k, ClientSuites(p)) # <<>> /\ s.suite = suite /\ r.suite = suite
    BY <1>4, <2>2 DEF FullServer, Told
  <2> HIDE DEF suite
  <2>5. IsSrp(suite) => p.user \in Users /\ p.password = "right"
    BY <1>1, <2>2, <2>3, <2>4 DEF FullServer, FullClient, ClientSecret, Finishing
  <2>6. suite[1] # "anon" => ~p.strict
    BY <1>1, <2>2, <2>4 DEF FullClient, Finishing
  <2>7. p.check # "none" /\ k.check # "none"
    BY <1>2 DEF HInv, Proper, CasesAreProper
  <2>8. p.check \in {"any"} \cup (IF HasCertificate(suite) THEN {k.chain} ELSE {})
    BY <1>1, <2>2, <2>4, <2>7 DEF FullClient
  <2>9. s.chain = IF Asks(k, suite) THEN p.cert ELSE "none"
    BY <1>1, <2>2, <2>4 DEF FullServer
  <2>10. k.check \in {"any", s.chain} /\ (s.chain = "none" \/ ~k.strict)
    BY <1>1, <2>2 DEF FullServer, Finishing
  <2>11. k.check \in {"any"} \cup (IF Asks(k, suite) THEN {p.cert} \ {"none"} ELSE {})
    BY <2>7, <2>9, <2>10
  <2>12. Asks(k, suite) /\ p.cert # "none" => ~k.strict
    BY <2>9, <2>10
  <2>13. Filters(k)
    BY <1>4 DEF Decided
  <2>14. Compatible(p)
    BY <2>4, <2>5, <2>6, <2>8, <2>11, <2>12, <2>13 DEF Compatible, Asks, suite
  <2>15. QED
    BY <1>5, <2>4, <2>14 DEF suite
<1>7. CASE s.resumed
  BY <1>5, <1>7 DEF Resumed
<1>8. QED
  BY <1>6, <1>7

\* When both ends of a connection are open, the version is the best that both
\* know; and unless they resumed a session, what handshakeClient* and
\* handshakeServer were called with fits together, the suite is the first of the
\* server's that the client knows too, and each checker has seen the certificate
\* it expects.
THEOREM Negotiated == Spec => []OpenIsNegotiated
<1>1. HInv /\ [Next]_vars => HInv'
  BY NextHInv
<1>2. QED
  BY InitHInv, <1>1, HInvNegotiates, PTL DEF Spec

----------------------------------------------------------------------------
(***************************************************************************)
(* The refinement of TlsSession.  Its invariant says what the terms of the *)
(* two ends and their logs have to do with each other, also when one of    *)
(* them has given up: TlsSession remembers what an end came up with.       *)
(***************************************************************************)

\* An end has come up when its log holds the Finished of both.
Fins(log) == {i \in DOMAIN log : log[i] = "finished"}
Counted(r, n) ==
  IsSeq(r.log) /\ IsFiniteSet(Fins(r.log)) /\ Cardinality(Fins(r.log)) = n

Over == {"closed", "failed"}
Started == {"check", "open"}
KeyExchange == {"certificate", "client_key_exchange", "certificate_verify"}
Early == {"idle", "server_hello", "certificate", "server_key_exchange",
          "certificate_request", "server_hello_done"}

\* What the server has decided.
ServerTerms(c, r, s) ==
  /\ s.pc \in {"idle", "client_hello"} => s.basis = 0 /\ ~s.resumed
  /\ s.pc \notin {"idle", "client_hello"} \cup Over => s.basis # 0
  /\ s.basis # 0 => IF s.resumed
                    THEN s.id = s.basis /\ s.basis = r.offer /\ s.basis \in Conns
                    ELSE s.basis = c /\ s.id \in {0, c}
  /\ s.pc \in KeyExchange => ~s.resumed
  /\ s.pc \in Started => Counted(s, 2)
  /\ s.pc \notin Started \cup Over => Counted(s, IF s.resumed THEN 1 ELSE 0)

\* All the terms but the secret, and no more than these.
Agrees(r, s) == /\ s.basis # 0 /\ r.basis = s.basis
                /\ r.version = s.version /\ r.suite = s.suite /\ r.id = s.id
                /\ r.resumed = s.resumed

\* What the client knows of it.
ClientTerms(c, r, s) ==
  /\ r.offer # c
  /\ r.pc \in Early => ~r.resumed /\ Counted(r, 0)
  /\ r.pc \in {"change_cipher_spec", "finished"} => Counted(r, IF r.resumed THEN 0 ELSE 1)
  /\ r.pc \in Started => Counted(r, 2)
  /\ r.pc \notin {"idle", "server_hello"} \cup Over => Agrees(r, s)
  /\ Cardinality(Fins(r.log)) = 2 => r.basis # 0

\* What a message m on its way says of them.
TermsToClient(s, m) ==
  /\ m.type = "server_hello" => /\ m.body.version = s.version /\ m.body.suite = s.suite
                                /\ m.body.id = s.id /\ s.basis # 0
  /\ m.type = "finished" => /\ m.body[1] = s.secret
                            /\ s.pc \notin {"idle", "client_hello"} \cup KeyExchange
TermsToServer(r, m) == m.type = "client_hello" => m.body.id = r.offer

Terms(c, r, s, toC, toS) ==
  /\ ServerTerms(c, r, s) /\ ClientTerms(c, r, s)
  /\ \A m \in ToSet(toC) : TermsToClient(s, m)
  /\ \A m \in ToSet(toS) : TermsToServer(r, m)

TermsInv(c) == Terms(c, end[c]["C"], end[c]["S"], net[c]["C"], net[c]["S"])

\* A session of the server is found by the number of its connection.
Stored == /\ entriesDict \subseteq Conns
          /\ \A d \in Conns : sess[d]["S"].id \in {0, d}

RInv == Stored /\ \A c \in Conns : TermsInv(c)

----------------------------------------------------------------------------
(* How often a log holds a Finished.                                       *)

\* The positions in two logs, one after the other.
LEMMA FinsConcat ==
  ASSUME NEW s, NEW t, IsSeq(s), IsSeq(t)
  PROVE  /\ IsSeq(s \o t)
         /\ Fins(s \o t) = Fins(s) \cup {Len(s) + i : i \in Fins(t)}
<1> DEFINE U == ToSet(s) \cup ToSet(t)
           w == s \o t
<1>1. s \in Seq(U) /\ t \in Seq(U) /\ Len(s) \in Nat /\ Len(t) \in Nat
  BY SeqMonotonic, LenProperties DEF IsSeq
<1>2. /\ DOMAIN s = 1 .. Len(s) /\ DOMAIN t = 1 .. Len(t)
      /\ DOMAIN w = 1 .. Len(s) + Len(t)
      /\ \A i \in 1 .. Len(s) + Len(t) :
           w[i] = IF i <= Len(s) THEN s[i] ELSE t[i - Len(s)]
  BY <1>1, ConcatProperties, LenProperties
<1>3. IsSeq(w)
  BY SeqConcat
<1> HIDE DEF w
<1>4. ASSUME NEW i \in Fins(w)
      PROVE  i \in Fins(s) \/ \E j \in Fins(t) : i = Len(s) + j
  <2>1. i \in 1 .. Len(s) + Len(t) /\ w[i] = "finished"
    BY <1>2 DEF Fins
  <2>2. CASE i <= Len(s)
    BY <1>1, <1>2, <2>1, <2>2 DEF Fins
  <2>3. CASE ~(i <= Len(s))
    <3>1. i - Len(s) \in 1 .. Len(t) /\ i = Len(s) + (i - Len(s))
      BY <1>1, <2>1, <2>3
    <3>2. i - Len(s) \in Fins(t)
      BY <1>2, <2>1, <2>3, <3>1 DEF Fins
    <3>3. QED
      BY <3>1, <3>2
  <2>4. QED
    BY <2>2, <2>3
<1>5. ASSUME NEW i \in Fins(s) PROVE i \in Fins(w)
  <2>1. i \in 1 .. Len(s) + Len(t) /\ i <= Len(s) /\ s[i] = "finished"
    BY <1>1, <1>2 DEF Fins
  <2>2. QED
    BY <1>2, <2>1 DEF Fins
<1>6. ASSUME NEW j \in Fins(t) PROVE Len(s) + j \in Fins(w)
  <2>1. j \in 1 .. Len(t) /\ t[j] = "finished"
    BY <1>2 DEF Fins
  <2>2. /\ Len(s) + j \in 1 .. Len(s) + Len(t) /\ ~(Len(s) + j <= Len(s))
        /\ (Len(s) + j) - Len(s) = j
    BY <1>1, <2>1
  <2>3. w[Len(s) + j] = "finished"
    BY <1>2, <2>1, <2>2
  <2>4. QED
    BY <1>2, <2>2, <2>3 DEF Fins
<1>7. Fins(w) = Fins(s) \cup {Len(s) + i : i \in Fins(t)}
  BY <1>4, <1>5, <1>6
<1>8. QED
  BY <1>3, <1>7 DEF w

LEMMA NoFins ==
  ASSUME NEW s, \A m \in ToSet(s) : m # "finished"
  PROVE  Fins(s) = {}
  BY DEF Fins, ToSet

LEMMA OneFins == Fins(<<"finished">>) = {1}
<1>1. DOMAIN <<"finished">> = {1}
  OBVIOUS
<1>2. QED
  BY <1>1 DEF Fins

LEMMA CountedNone == \A r : r.log = <<>> => Counted(r, 0)
<1>1. Fins(<<>>) = {}
  BY DEF Fins
<1>2. QED
  BY <1>1, SeqEmpty, FS_EmptySet DEF Counted

\* Other messages do not count, a Finished does.
LEMMA CountedSame ==
  ASSUME NEW r, NEW n, Counted(r, n), NEW s, NEW t, IsSeq(t), s.log = r.log \o t,
         \A m \in ToSet(t) : m # "finished"
  PROVE  Counted(s, n)
<1>1. Fins(t) = {}
  BY NoFins
<1>2. /\ IsSeq(s.log)
      /\ Fins(s.log) = Fins(r.log) \cup {Len(r.log) + i : i \in Fins(t)}
  <2>1. IsSeq(r.log)
    BY DEF Counted
  <2>2. QED
    BY <2>1, FinsConcat
<1>2a. Fins(s.log) = Fins(r.log)
  BY <1>1, <1>2
<1>3. QED
  BY <1>2, <1>2a DEF Counted

LEMMA CountedMore ==
  ASSUME NEW r, NEW n, Counted(r, n), NEW s, s.log = r.log \o <<"finished">>
  PROVE  Counted(s, n + 1)
<1>1. IsSeq(r.log) /\ IsSeq(<<"finished">>) /\ Len(r.log) \in Nat
  BY SeqOne, LenProperties DEF Counted, IsSeq
<1>2. /\ IsSeq(s.log)
      /\ Fins(s.log) = Fins(r.log) \cup {Len(r.log) + i : i \in Fins(<<"finished">>)}
  BY <1>1, FinsConcat
<1>3. Fins(s.log) = Fins(r.log) \cup {Len(r.log) + 1}
  BY <1>2, OneFins
<1>4. Len(r.log) + 1 \notin Fins(r.log)
  BY <1>1, LenProperties DEF Fins, IsSeq
<1>5. QED
  BY <1>2, <1>3, <1>4, FS_AddElement DEF Counted

LEMMA CountedLogged ==
  ASSUME NEW r, EndShape(r), NEW n, Counted(r, n), NEW types, IsSeq(types)
  PROVE  /\ types = <<"finished">> => Counted(Logged(r, types), n + 1)
         /\ (\A m \in ToSet(types) : m # "finished") => Counted(Logged(r, types), n)
<1> DEFINE s == Logged(r, types)
<1>1. s.log = r.log \o types
  BY DEF Logged, EndShape
<1> HIDE DEF s
<1>2. QED
  BY <1>1, CountedMore, CountedSame DEF s

\* The last messages of an end that is r.
LEMMA FinishedFlightCounts ==
  ASSUME NEW c, NEW e, NEW r, EndShape(r), NEW proto, IsSeq(proto), NEW n, Counted(r, n)
  PROVE  Counted(FinishedFlight(c, e, r, proto).next, n + 1)
<1> DEFINE types == [i \in DOMAIN proto |-> "next_protocol"]
           with == Logged(r, types)
           logged == Logged(with, <<"finished">>)
           key == Key(c, e, r)
           next == FinishedFlight(c, e, r, proto).next
<1>1. next = [logged EXCEPT !.ws = key]
  BY DEF FinishedFlight
<1>2. IsSeq(types) /\ \A m \in ToSet(types) : m # "finished"
  <2>1. IsSeq(types)
    BY SeqMap
  <2>2. QED
    BY <2>1 DEF ToSet
<1> HIDE DEF types, key, next
<1>3. EndShape(with) /\ Counted(with, n)
  BY <1>2, LoggedKeeps, CountedLogged
<1> HIDE DEF with
<1>4. EndShape(logged) /\ Counted(logged, n + 1)
  BY <1>3, SeqOne, LoggedKeeps, CountedLogged
<1> HIDE DEF logged
<1>5. next.log = logged.log
  BY <1>1, <1>4 DEF EndShape
<1>6. QED
  BY <1>4, <1>5 DEF Counted, next

----------------------------------------------------------------------------
(* The steps of TlsSession, in terms of the ends.                          *)

Agreed(c) == IF WasUp(c, "C") THEN TermsOf(end[c]["C"])
             ELSE IF WasUp(c, "S") THEN TermsOf(end[c]["S"]) ELSE TermsOf(NewEnd)
View(c, e) == CASE end[c][e].pc \in {"check", "open"} -> "up"
                [] Gone(c, e) -> "over"
                [] OTHER -> "new"
Resumables(e) == {s \in Conns : sess[s][e].resumable}

\* What TlsSession sees of every other connection stays as it is.
LEMMA OthersSeen ==
  ASSUME NEW c \in Conns, end'[c] = end[c]
  PROVE  /\ Agreed(c)' = Agreed(c) /\ \A e \in Ends : View(c, e)' = View(c, e)
  BY DEF Agreed, View, WasUp, Gone

\* The frame of a step at c.
Elsewhere(c) == \A d \in Conns \ {c} : end'[d] = end[d]

LEMMA Stutters ==
  ASSUME NEW c \in Conns, Elsewhere(c), end'[c]["S"].basis = end[c]["S"].basis,
         Agreed(c)' = Agreed(c), \A e \in Ends : View(c, e)' = View(c, e),
         \A e \in Ends : Resumables(e)' = Resumables(e)
  PROVE  UNCHANGED Session!vars
<1>1. \A d \in Conns : /\ end'[d]["S"].basis = end[d]["S"].basis
                       /\ Agreed(d)' = Agreed(d)
                       /\ \A e \in Ends : View(d, e)' = View(d, e)
  BY OthersSeen DEF Elsewhere
<1>2. [d \in Conns |-> end[d]["S"].basis]' = [d \in Conns |-> end[d]["S"].basis]
  BY <1>1
<1>3. [d \in Conns |-> Agreed(d)]' = [d \in Conns |-> Agreed(d)]
  BY <1>1
<1>4. [d \in Conns |-> [e \in Ends |-> View(d, e)]]'
        = [d \in Conns |-> [e \in Ends |-> View(d, e)]]
  BY <1>1
<1>5. [e \in Ends |-> Resumables(e)]' = [e \in Ends |-> Resumables(e)]
  OBVIOUS
<1>6. QED
  BY <1>2, <1>3, <1>4, <1>5 DEF Session!vars, Agreed, View, Resumables

LEMMA Chooses ==
  ASSUME NEW c \in Conns, NEW s \in Conns, Elsewhere(c), end[c]["S"].basis = 0,
         s = c \/ sess[s]["S"].resumable, end'[c]["S"].basis = s,
         Agreed(c)' = Agreed(c), \A e \in Ends : View(c, e)' = View(c, e), sess' = sess
  PROVE  Session!Choose(c, s)
<1> DEFINE bases == [d \in Conns |-> end[d]["S"].basis]
           valid == [e \in Ends |-> Resumables(e)]
<1>1. \A d \in Conns : /\ end'[d]["S"].basis = IF d = c THEN s ELSE end[d]["S"].basis
                       /\ Agreed(d)' = Agreed(d)
                       /\ \A e \in Ends : View(d, e)' = View(d, e)
  BY OthersSeen DEF Elsewhere
<1>2. bases[c] = 0 /\ bases' = [bases EXCEPT ![c] = s]
  BY <1>1
<1>3. [d \in Conns |-> Agreed(d)]' = [d \in Conns |-> Agreed(d)]
  BY <1>1
<1>4. [d \in Conns |-> [e \in Ends |-> View(d, e)]]'
        = [d \in Conns |-> [e \in Ends |-> View(d, e)]]
  BY <1>1
<1>5. valid' = valid
  BY DEF Resumables
<1>6. s = c \/ s \in valid["S"]
  BY DEF Ends, Resumables
<1>7. QED
  BY <1>2, <1>3, <1>4, <1>5, <1>6 DEF Session!Choose, Agreed, View, Resumables

LEMMA Leaves ==
  ASSUME NEW c \in Conns, NEW e \in Ends, Elsewhere(c),
         end'[c]["S"].basis = end[c]["S"].basis, Agreed(c)' = Agreed(c),
         View(c, e) # "over", View(c, e)' = "over",
         View(c, Peer(e))' = View(c, Peer(e)),
         \/ \A f \in Ends : Resumables(f)' = Resumables(f)
         \/ /\ Resumables(Peer(e))' = Resumables(Peer(e))
            /\ Resumables(e)' = Resumables(e) \ {end[c]["S"].basis}
  PROVE  Session!Leave(c, e)
<1> DEFINE bases == [d \in Conns |-> end[d]["S"].basis]
           agreeds == [d \in Conns |-> Agreed(d)]
           views == [d \in Conns |-> [f \in Ends |-> View(d, f)]]
           valid == [f \in Ends |-> Resumables(f)]
<1>0. Peer(e) # e /\ \A f \in Ends : f = e \/ f = Peer(e)
  BY DEF Ends, Peer
<1>1. \A d \in Conns : /\ end'[d]["S"].basis = end[d]["S"].basis
                       /\ Agreed(d)' = Agreed(d)
                       /\ d # c => \A f \in Ends : View(d, f)' = View(d, f)
  BY OthersSeen DEF Elsewhere
<1>2. bases' = bases
  BY <1>1
<1>3. agreeds' = agreeds
  BY <1>1
<1>4. views[c][e] # "over" /\ views' = [views EXCEPT ![c][e] = "over"]
  BY <1>0, <1>1
<1>5. valid' = valid \/ valid' = [valid EXCEPT ![e] = @ \ {bases[c]}]
  BY <1>0
<1>6. QED
  BY <1>2, <1>3, <1>4, <1>5 DEF Session!Leave, Agreed, View, Resumables

LEMMA Establishes ==
  ASSUME NEW c \in Conns, NEW e \in Ends, Elsewhere(c),
         end[c]["S"].basis # 0, end'[c]["S"].basis = end[c]["S"].basis,
         View(c, e) = "new", View(c, e)' = "up", View(c, Peer(e))' = View(c, Peer(e)),
         Agreed(c)' # TermsOf(NewEnd), Agreed(c) \in {TermsOf(NewEnd), Agreed(c)'},
         \/ \A f \in Ends : Resumables(f)' = Resumables(f)
         \/ /\ end[c]["S"].basis = c
            /\ Resumables(Peer(e))' = Resumables(Peer(e))
            /\ Resumables(e)' = Resumables(e) \cup {c}
  PROVE  Session!Establish(c, e)
<1> DEFINE bases == [d \in Conns |-> end[d]["S"].basis]
           agreeds == [d \in Conns |-> Agreed(d)]
           views == [d \in Conns |-> [f \in Ends |-> View(d, f)]]
           valid == [f \in Ends |-> Resumables(f)]
<1>0. Peer(e) # e /\ \A f \in Ends : f = e \/ f = Peer(e)
  BY DEF Ends, Peer
<1>1. \A d \in Conns : /\ end'[d]["S"].basis = end[d]["S"].basis
                       /\ d # c => /\ Agreed(d)' = Agreed(d)
                                   /\ \A f \in Ends : View(d, f)' = View(d, f)
  BY OthersSeen DEF Elsewhere
<1>2. bases[c] # 0 /\ bases' = bases
  BY <1>1
<1>3. /\ agreeds'[c] # TermsOf(NewEnd) /\ agreeds[c] \in {TermsOf(NewEnd), agreeds'[c]}
      /\ agreeds' = [agreeds EXCEPT ![c] = agreeds'[c]]
  BY <1>1
<1>4. views[c][e] = "new" /\ views' = [views EXCEPT ![c][e] = "up"]
  BY <1>0, <1>1
<1>5. valid' \in {valid} \cup {[valid EXCEPT ![e] = @ \cup {c}] : s \in {bases[c]} \cap {c}}
  BY <1>0
<1>6. QED
  BY <1>2, <1>3, <1>4, <1>5 DEF Session!Establish, Agreed, View, Resumables

----------------------------------------------------------------------------
(* An end that gives up.                                                   *)

LEMMA TermsAt ==
  ASSUME RInv, NEW c \in Conns, Elsewhere(c), \A d \in Conns \ {c} : net'[d] = net[d],
         Stored', TermsInv(c)'
  PROVE  RInv'
<1>1. \A d \in Conns \ {c} : TermsInv(d)'
  BY DEF RInv, TermsInv, Elsewhere
<1>2. QED
  BY <1>1 DEF RInv

\* s has all that the terms speak of from r.
SameEnd(s, r) ==
  /\ s.version = r.version /\ s.suite = r.suite /\ s.id = r.id /\ s.offer = r.offer
  /\ s.basis = r.basis /\ s.secret = r.secret /\ s.resumed = r.resumed /\ s.log = r.log

LEMMA HangsUp ==
  ASSUME Shape, NEW c \in Conns, NEW e \in Ends, NEW kept, NEW out, IsSeq(out),
         Shutdown(c, e, kept, out)
  PROVE  /\ SameEnd(end'[c][e], end[c][e]) /\ end'[c][e].pc \in Over
         /\ end'[c][Peer(e)] = end[c][Peer(e)]
         /\ Elsewhere(c) /\ \A d \in Conns \ {c} : net'[d] = net[d]
         /\ ToSet(net'[c][e]) = {}
         /\ ToSet(net'[c][Peer(e)]) \subseteq ToSet(net[c][Peer(e)]) \cup ToSet(out)
         /\ \A d \in Conns, f \in Ends : sess'[d][f].id = sess[d][f].id
         /\ \/ sess' = sess
            \/ /\ end[c][e].pc \in Started
               /\ Resumables(Peer(e))' = Resumables(Peer(e))
               /\ Resumables(e)' = Resumables(e) \ {end[c][e].basis}
<1> DEFINE r == [end[c][e] EXCEPT !.ws = NoKey, !.rs = NoKey,
                    !.pc = IF end[c][e].pc = "open" THEN "closed" ELSE "failed"]
           b == end[c][e].basis
<1>1. /\ end' = [end EXCEPT ![c][e] = r]
      /\ net' = [net EXCEPT ![c] = [d \in Ends |-> IF d = e THEN <<>>
                                                   ELSE Deliver(c, e, out)]]
      /\ \/ sess' = sess
         \/ end[c][e].pc \in Started /\ sess' = [sess EXCEPT ![b][e].resumable = FALSE]
  BY DEF Shutdown, Started
<1>2. Peer(e) \in Ends /\ Peer(e) # e /\ \A d \in Ends : d = e \/ d = Peer(e)
  BY DEF Peer, Ends
<1>3. /\ end = [d \in Conns |-> [f \in Ends |-> end[d][f]]]
      /\ net = [d \in Conns |-> [f \in Ends |-> net[d][f]]]
      /\ sess = [d \in Conns |-> [f \in Ends |-> sess[d][f]]]
      /\ \A d \in Conns, f \in Ends : EndShape(end[d][f]) /\ SessShape(sess[d][f])
  BY DEF Shape
<1>4. SameEnd(r, end[c][e]) /\ r.pc \in Over
  BY <1>3 DEF EndShape, SameEnd, Over
<1> HIDE DEF r
<1>5. /\ end'[c][e] = r /\ end'[c][Peer(e)] = end[c][Peer(e)] /\ Elsewhere(c)
  <2>1. TwoArgs(Conns, Ends, end) /\ end' = With(end, c, e, r)
    BY <1>1, <1>3 DEF TwoArgs, With
  <2>2. QED
    BY <1>2, <2>1, Replaced DEF Elsewhere
<1>6. /\ net'[c][e] = <<>> /\ net'[c][Peer(e)] = Deliver(c, e, out)
      /\ \A d \in Conns \ {c} : net'[d] = net[d]
  BY <1>1, <1>2, <1>3, Zenon
<1>7. /\ \A d \in Conns, f \in Ends : sess'[d][f].id = sess[d][f].id
      /\ \/ sess' = sess
         \/ /\ end[c][e].pc \in Started
            /\ Resumables(Peer(e))' = Resumables(Peer(e))
            /\ Resumables(e)' = Resumables(e) \ {b}
  <2>1. CASE sess' = sess \/ b \notin Conns
    <3>1. sess' = sess
      BY <1>1, <1>3, <2>1
    <3>2. QED
      BY <3>1
  <2>2. CASE /\ end[c][e].pc \in Started /\ b \in Conns
             /\ sess' = [sess EXCEPT ![b][e].resumable = FALSE]
    <3> DEFINE t == [sess[b][e] EXCEPT !.resumable = FALSE]
    <3>1. t.id = sess[b][e].id /\ t.resumable = FALSE
      BY <1>3, <2>2 DEF SessShape
    <3>2. sess' = [sess EXCEPT ![b][e] = t]
      BY <2>2, Zenon
    <3>. b \in Conns
      BY <2>2
    <3> HIDE DEF t, b
    <3>3. TwoArgs(Conns, Ends, sess) /\ sess' = With(sess, b, e, t)
      BY <1>3, <3>2 DEF TwoArgs, With
    <3>4. /\ sess'[b][e] = t
          /\ \A d \in Conns, f \in Ends : d # b \/ f # e => sess'[d][f] = sess[d][f]
      BY <3>3, Replaced
    <3>5. \A d \in Conns, f \in Ends : sess'[d][f].id = sess[d][f].id
      BY <3>1, <3>4
    <3>6. Resumables(Peer(e))' = Resumables(Peer(e))
      BY <1>2, <3>4 DEF Resumables
    <3>7. Resumables(e)' = Resumables(e) \ {b}
      BY <3>1, <3>4 DEF Resumables
    <3>8. QED
      BY <2>2, <3>5, <3>6, <3>7
  <2>3. QED
    BY <1>1, <2>1, <2>2
<1>8. ToSet(<<>>) = {} /\ ToSet(Deliver(c, e, out)) \subseteq ToSet(net[c][Peer(e)]) \cup ToSet(out)
  BY SeqEmpty, Delivered
<1>9. QED
  BY <1>4, <1>5, <1>6, <1>7, <1>8 DEF b

\* The terms stay what they were.
LEMMA OverTerms ==
  ASSUME NEW c, NEW r, NEW s, NEW x, ServerTerms(c, r, s), ClientTerms(c, r, s),
         SameEnd(x, r) /\ x.pc \in Over
  PROVE  /\ ServerTerms(c, x, s) /\ ClientTerms(c, x, s)
         /\ \A m : TermsToServer(r, m) => TermsToServer(x, m)
<1>1. ServerTerms(c, x, s)
  BY DEF ServerTerms, SameEnd
<1>2. ClientTerms(c, x, s)
  BY DEF ClientTerms, SameEnd, Over, Early, Started
<1>3. QED
  BY <1>1, <1>2 DEF TermsToServer, SameEnd

LEMMA OverServerTerms ==
  ASSUME NEW c, NEW r, NEW s, NEW x, ServerTerms(c, r, s), ClientTerms(c, r, s),
         SameEnd(x, s) /\ x.pc \in Over
  PROVE  /\ ServerTerms(c, r, x) /\ ClientTerms(c, r, x)
         /\ \A m : TermsToClient(s, m) => TermsToClient(x, m)
<1>1. ServerTerms(c, r, x)
  BY DEF ServerTerms, SameEnd, Over, KeyExchange, Started
<1>2. ClientTerms(c, r, x)
  BY DEF ClientTerms, SameEnd, Agrees
<1>3. QED
  BY <1>1, <1>2 DEF TermsToClient, SameEnd, Over, KeyExchange

\* Whatever ends it, a connection that ends is a step of TlsSession.
LEMMA ShutdownLeaves ==
  ASSUME HInv, RInv, NEW c \in Conns, NEW e \in Ends, NEW kept, NEW out, IsSeq(out),
         \A m \in ToSet(out) : m.type = "alert", Shutdown(c, e, kept, out),
         end[c][e].pc \notin {"idle"} \cup Over, entriesDict' = entriesDict
  PROVE  RInv' /\ Session!Next
<1> DEFINE r == end[c]["C"]
           s == end[c]["S"]
           x == end'[c][e]
<1>1. /\ SameEnd(x, end[c][e]) /\ x.pc \in Over
      /\ end'[c][Peer(e)] = end[c][Peer(e)]
      /\ Elsewhere(c) /\ \A d \in Conns \ {c} : net'[d] = net[d]
      /\ ToSet(net'[c][e]) = {}
      /\ ToSet(net'[c][Peer(e)]) \subseteq ToSet(net[c][Peer(e)]) \cup ToSet(out)
      /\ \A d \in Conns, f \in Ends : sess'[d][f].id = sess[d][f].id
      /\ \/ sess' = sess
         \/ /\ end[c][e].pc \in Started
            /\ Resumables(Peer(e))' = Resumables(Peer(e))
            /\ Resumables(e)' = Resumables(e) \ {end[c][e].basis}
  BY HangsUp DEF HInv
<1>2. /\ ServerTerms(c, r, s) /\ ClientTerms(c, r, s)
      /\ \A m \in ToSet(net[c]["C"]) : TermsToClient(s, m)
      /\ \A m \in ToSet(net[c]["S"]) : TermsToServer(r, m)
  BY DEF RInv, TermsInv, Terms
<1>3. Stored'
  BY <1>1 DEF RInv, Stored, Ends
<1>4. \A m \in ToSet(out) : \A y : TermsToClient(y, m) /\ TermsToServer(y, m)
  BY DEF TermsToClient, TermsToServer
<1>5. TermsInv(c)'
  <2>1. CASE e = "C"
    <3>1. Peer(e) = "S"
      BY <2>1 DEF Peer
    <3>2. Terms(c, x, s, net'[c]["C"], net'[c]["S"])
      <4> HIDE DEF x
      <4>1. SameEnd(x, r) /\ x.pc \in Over
        BY <1>1, <2>1
      <4>2. /\ ServerTerms(c, x, s) /\ ClientTerms(c, x, s)
            /\ \A m : TermsToServer(r, m) => TermsToServer(x, m)
        <5>1. ServerTerms(c, r, s) /\ ClientTerms(c, r, s)
          BY <1>2
        <5> HIDE DEF r, s
        <5>2. QED
          BY <4>1, <5>1, OverTerms
      <4>3. /\ ToSet(net'[c]["C"]) = {}
            /\ ToSet(net'[c]["S"]) \subseteq ToSet(net[c]["S"]) \cup ToSet(out)
        BY <1>1, <2>1, <3>1
      <4>4. QED
        BY <1>2, <1>4, <4>2, <4>3 DEF Terms
    <3>3. QED
      BY <1>1, <2>1, <3>1, <3>2 DEF TermsInv
  <2>2. CASE e = "S"
    <3>1. Peer(e) = "C"
      BY <2>2 DEF Peer
    <3>2. Terms(c, r, x, net'[c]["C"], net'[c]["S"])
      <4> HIDE DEF x
      <4>1. SameEnd(x, s) /\ x.pc \in Over
        BY <1>1, <2>2
      <4>2. /\ ServerTerms(c, r, x) /\ ClientTerms(c, r, x)
            /\ \A m : TermsToClient(s, m) => TermsToClient(x, m)
        BY <1>2, <4>1, OverServerTerms
      <4>3. /\ ToSet(net'[c]["S"]) = {}
            /\ ToSet(net'[c]["C"]) \subseteq ToSet(net[c]["C"]) \cup ToSet(out)
        BY <1>1, <2>2, <3>1
      <4>4. QED
        BY <1>2, <1>4, <4>2, <4>3 DEF Terms
    <3>3. QED
      BY <1>1, <2>2, <3>1, <3>2 DEF TermsInv
  <2>3. QED
    BY <2>1, <2>2 DEF Ends
<1>6. RInv'
  BY <1>1, <1>3, <1>5, TermsAt
<1>7. /\ Peer(e) # e /\ \A f \in Ends : f = e \/ f = Peer(e)
      /\ "C" \in Ends /\ "S" \in Ends
  BY DEF Ends, Peer
<1>8. \A f \in Ends : SameEnd(end'[c][f], end[c][f])
  BY <1>1, <1>7 DEF SameEnd
<1>9. s'.basis = s.basis /\ Agreed(c)' = Agreed(c)
  <2>1. \A f \in Ends : WasUp(c, f)' = WasUp(c, f) /\ TermsOf(end'[c][f]) = TermsOf(end[c][f])
    BY <1>8 DEF SameEnd, WasUp, TermsOf
  <2>2. QED
    BY <1>7, <1>8, <2>1 DEF SameEnd, Agreed
<1>10. View(c, e) # "over" /\ View(c, e)' = "over" /\ View(c, Peer(e))' = View(c, Peer(e))
  BY <1>1 DEF View, Gone, Over
<1>11. end[c][e].pc \in Started => end[c][e].basis = s.basis
  <2>1. CASE e = "C"
    BY <1>2, <2>1 DEF ClientTerms, Started, Over, Agrees
  <2>2. QED
    BY <2>1 DEF Ends
<1>12. \/ \A f \in Ends : Resumables(f)' = Resumables(f)
       \/ /\ Resumables(Peer(e))' = Resumables(Peer(e))
          /\ Resumables(e)' = Resumables(e) \ {s.basis}
  BY <1>1, <1>11 DEF Resumables
<1>13. Session!Leave(c, e)
  BY <1>1, <1>9, <1>10, <1>12, Leaves
<1>14. QED
  BY <1>6, <1>13 DEF Session!Next

----------------------------------------------------------------------------
(* An end that goes on, without coming up.                                 *)

\* Where the client has not come up, and where the server has decided and has not.
Midway == (Early \ {"idle"}) \cup {"change_cipher_spec", "finished"}
Deciding == {"idle", "client_hello"} \cup Over \cup Started

LEMMA NotUp ==
  ASSUME NEW c \in Conns, NEW e \in Ends, \E n \in {0, 1} : Counted(end[c][e], n)
  PROVE  ~WasUp(c, e)
  BY DEF Counted, Fins, WasUp

LEMMA NotUpThen ==
  ASSUME NEW c \in Conns, NEW e \in Ends, \E n \in {0, 1} : Counted(end'[c][e], n)
  PROVE  ~WasUp(c, e)'
  BY DEF Counted, Fins, WasUp

LEMMA MidwayCounted ==
  ASSUME NEW c, NEW r, NEW s, ClientTerms(c, r, s), r.pc \in Midway
  PROVE  \E n \in {0, 1} : Counted(r, n)
  BY DEF ClientTerms, Midway, Early

LEMMA DecidedCounted ==
  ASSUME NEW c, NEW r, NEW s, ServerTerms(c, r, s), s.pc \notin Over \cup Started
  PROVE  \E n \in {0, 1} : Counted(s, n)
  BY DEF ServerTerms

LEMMA ClientMoves ==
  ASSUME HInv, RInv, NEW c \in Conns, NEW x, NEW out, Proceed(c, "C", x, out),
         EndShape(x), IsSeq(out), net[c]["C"] # <<>>,
         end[c]["C"].pc \in Midway, x.pc \in Midway, x.offer = end[c]["C"].offer,
         ClientTerms(c, x, end[c]["S"]), \A m \in ToSet(out) : m.type # "client_hello",
         sess' = sess, entriesDict' = entriesDict
  PROVE  RInv' /\ UNCHANGED Session!vars
<1> DEFINE r == end[c]["C"]
           s == end[c]["S"]
<1>1. Shape /\ "C" \in Ends /\ "S" \in Ends /\ Peer("C") = "S"
  BY DEF HInv, Ends, Peer
<1>2. /\ end'[c]["C"] = x /\ end'[c]["S"] = s
      /\ \A d \in Conns \ {c} : end'[d] = end[d] /\ net'[d] = net[d]
      /\ ToSet(net'[c]["C"]) \subseteq ToSet(net[c]["C"])
      /\ ToSet(net'[c]["S"]) \subseteq ToSet(net[c]["S"]) \cup ToSet(out)
  BY <1>1, Proceeds
<1>3. Elsewhere(c) /\ \A d \in Conns \ {c} : net'[d] = net[d]
  BY <1>2 DEF Elsewhere
<1>4. /\ ServerTerms(c, r, s) /\ ClientTerms(c, r, s)
      /\ \A m \in ToSet(net[c]["C"]) : TermsToClient(s, m)
      /\ \A m \in ToSet(net[c]["S"]) : TermsToServer(r, m)
  BY DEF RInv, TermsInv, Terms
<1>5. TermsInv(c)'
  <2>1. ServerTerms(c, x, s)
    BY <1>4 DEF ServerTerms
  <2>2. \A m \in ToSet(net'[c]["S"]) : TermsToServer(x, m)
    BY <1>2, <1>4 DEF TermsToServer
  <2>3. Terms(c, x, s, net'[c]["C"], net'[c]["S"])
    BY <1>2, <1>4, <2>1, <2>2 DEF Terms
  <2>4. QED
    BY <1>2, <2>3 DEF TermsInv
<1>6. Stored'
  BY DEF RInv, Stored
<1>7. RInv'
  BY <1>3, <1>5, <1>6, TermsAt
<1>8. ~WasUp(c, "C")
  <2>1. \E n \in {0, 1} : Counted(end[c]["C"], n)
    BY <1>4, MidwayCounted
  <2>2. QED
    BY <1>1, <2>1, NotUp
<1>9. ~WasUp(c, "C")'
  <2>1. \E n \in {0, 1} : Counted(end'[c]["C"], n)
    BY <1>2, MidwayCounted
  <2>2. QED
    BY <1>1, <2>1, NotUpThen
<1>10. Agreed(c)' = Agreed(c)
  <2>1. WasUp(c, "S")' = WasUp(c, "S")
    BY <1>2 DEF WasUp
  <2>2. QED
    BY <1>2, <1>8, <1>9, <2>1 DEF Agreed
<1>11. \A e \in Ends : View(c, e)' = View(c, e)
  <2>1. r.pc \notin Started \cup Over /\ x.pc \notin Started \cup Over
    BY DEF Midway, Early, Started, Over
  <2>2. View(c, "C")' = View(c, "C")
    BY <1>2, <2>1 DEF View, Gone, Started, Over
  <2>3. View(c, "S")' = View(c, "S")
    BY <1>2 DEF View, Gone
  <2>4. QED
    BY <2>2, <2>3 DEF Ends
<1>12. \A e \in Ends : Resumables(e)' = Resumables(e)
  BY DEF Resumables
<1>13. UNCHANGED Session!vars
  BY <1>2, <1>3, <1>10, <1>11, <1>12, Stutters
<1>14. QED
  BY <1>7, <1>13

\* What a server that goes on does not change any more.
SameDecision(x, s) ==
  /\ x.version = s.version /\ x.suite = s.suite /\ x.id = s.id /\ x.basis = s.basis
  /\ x.resumed = s.resumed
  /\ s.pc \notin KeyExchange => x.pc \notin KeyExchange /\ x.secret = s.secret

LEMMA ServerMoves ==
  ASSUME HInv, RInv, NEW c \in Conns, NEW x, Proceed(c, "S", x, <<>>),
         EndShape(x), net[c]["S"] # <<>>,
         end[c]["S"].pc \notin Deciding, x.pc \notin Deciding, SameDecision(x, end[c]["S"]),
         ServerTerms(c, end[c]["C"], x), sess' = sess, entriesDict' = entriesDict
  PROVE  RInv' /\ UNCHANGED Session!vars
<1> DEFINE r == end[c]["C"]
           s == end[c]["S"]
<1>1. Shape /\ "C" \in Ends /\ "S" \in Ends /\ Peer("S") = "C" /\ IsSeq(<<>>)
  BY SeqEmpty DEF HInv, Ends, Peer
<1>2. /\ end'[c]["S"] = x /\ end'[c]["C"] = r
      /\ \A d \in Conns \ {c} : end'[d] = end[d] /\ net'[d] = net[d]
      /\ ToSet(net'[c]["S"]) \subseteq ToSet(net[c]["S"])
      /\ ToSet(net'[c]["C"]) \subseteq ToSet(net[c]["C"])
  BY <1>1, SeqEmpty, Proceeds
<1>3. Elsewhere(c) /\ \A d \in Conns \ {c} : net'[d] = net[d]
  BY <1>2 DEF Elsewhere
<1>4. /\ ServerTerms(c, r, s) /\ ClientTerms(c, r, s)
      /\ \A m \in ToSet(net[c]["C"]) : TermsToClient(s, m)
      /\ \A m \in ToSet(net[c]["S"]) : TermsToServer(r, m)
  BY DEF RInv, TermsInv, Terms
<1>5. TermsInv(c)'
  <2>1. ClientTerms(c, r, x)
    BY <1>4 DEF ClientTerms, Agrees, SameDecision
  <2>2. \A m \in ToSet(net[c]["C"]) : TermsToClient(x, m)
    BY <1>4 DEF TermsToClient, SameDecision, Deciding
  <2>3. Terms(c, r, x, net'[c]["C"], net'[c]["S"])
    BY <1>2, <1>4, <2>1, <2>2 DEF Terms
  <2>4. QED
    BY <1>2, <2>3 DEF TermsInv
<1>6. Stored'
  BY DEF RInv, Stored
<1>7. RInv'
  BY <1>3, <1>5, <1>6, TermsAt
<1>8. ~WasUp(c, "S")
  <2>1. \E n \in {0, 1} : Counted(end[c]["S"], n)
    BY <1>4, DecidedCounted DEF Deciding
  <2>2. QED
    BY <1>1, <2>1, NotUp
<1>9. ~WasUp(c, "S")'
  <2>1. \E n \in {0, 1} : Counted(end'[c]["S"], n)
    BY <1>2, DecidedCounted DEF Deciding
  <2>2. QED
    BY <1>1, <2>1, NotUpThen
<1>10. Agreed(c)' = Agreed(c)
  <2>1. WasUp(c, "C")' = WasUp(c, "C")
    BY <1>2 DEF WasUp
  <2>2. QED
    BY <1>2, <1>8, <1>9, <2>1 DEF Agreed
<1>11. \A e \in Ends : View(c, e)' = View(c, e)
  <2>1. View(c, "S")' = View(c, "S")
    BY <1>2 DEF View, Gone, Started, Over, Deciding
  <2>2. View(c, "C")' = View(c, "C")
    BY <1>2 DEF View, Gone
  <2>3. QED
    BY <2>1, <2>2 DEF Ends
<1>12. \A e \in Ends : Resumables(e)' = Resumables(e)
  BY DEF Resumables
<1>13. end'[c]["S"].basis = s.basis
  BY <1>2 DEF SameDecision
<1>14. UNCHANGED Session!vars
  BY <1>3, <1>10, <1>11, <1>12, <1>13, Stutters
<1>15. QED
  BY <1>7, <1>14

----------------------------------------------------------------------------
(* The actions of the client, as steps of TlsSession.                      *)

Promised == Session!Next \/ UNCHANGED Session!vars

LEMMA ErrorPromised ==
  ASSUME HInv, RInv, NEW c \in Conns, NEW e \in Ends, SendError(c, e) \/ Raise(c, e),
         end[c][e].pc \notin {"idle"} \cup Over
  PROVE  RInv' /\ Promised
<1>1. CASE SendError(c, e)
  <2> DEFINE alert == Alert("fatal", end[c][e])
  <2>1. alert.type = "alert"
    BY DEF Alert, Rec
  <2>2. Shutdown(c, e, FALSE, <<alert>>) /\ entriesDict' = entriesDict
    BY <1>1 DEF SendError, cacheVars
  <2> HIDE DEF alert
  <2>3. IsSeq(<<alert>>) /\ \A m \in ToSet(<<alert>>) : m.type = "alert"
    BY <2>1, SeqOne
  <2>4. QED
    BY <2>2, <2>3, ShutdownLeaves DEF Promised
<1>2. CASE Raise(c, e)
  <2>1. Shutdown(c, e, FALSE, <<>>) /\ entriesDict' = entriesDict
    BY <1>2 DEF Raise, cacheVars
  <2>2. IsSeq(<<>>) /\ \A m \in ToSet(<<>>) : m.type = "alert"
    BY SeqEmpty
  <2>3. QED
    BY <2>1, <2>2, ShutdownLeaves DEF Promised
<1>3. QED
  BY <1>1, <1>2

\* What the end has, and the terms of a connection.
LEMMA AtTerms ==
  ASSUME HInv, RInv, NEW c \in Conns
  PROVE  /\ EndShape(end[c]["C"]) /\ EndShape(end[c]["S"])
         /\ ServerTerms(c, end[c]["C"], end[c]["S"])
         /\ ClientTerms(c, end[c]["C"], end[c]["S"])
         /\ \A m \in ToSet(net[c]["C"]) : TermsToClient(end[c]["S"], m)
         /\ \A m \in ToSet(net[c]["S"]) : TermsToServer(end[c]["C"], m)
  BY DEF HInv, Shape, Ends, RInv, TermsInv, Terms

\* The same terms, and the offer.
SameBinding(x, r) ==
  /\ x.version = r.version /\ x.suite = r.suite /\ x.id = r.id /\ x.offer = r.offer
  /\ x.basis = r.basis /\ x.resumed = r.resumed

\* A client in the middle of the key exchange that goes on with it.
LEMMA ClientExchangesTerms ==
  ASSUME HInv, RInv, NEW c \in Conns, NEW x, Proceed(c, "C", x, <<>>), EndShape(x),
         NEW pc, Gets(c, "C", pc), pc \in Early \ {"idle", "server_hello"},
         x.pc \in Early \ {"idle", "server_hello"}, SameBinding(x, end[c]["C"]),
         Counted(x, 0), sess' = sess, entriesDict' = entriesDict
  PROVE  RInv' /\ Promised
<1> DEFINE r == end[c]["C"]
           s == end[c]["S"]
<1>1. "C" \in Ends
  BY DEF Ends
<1>2. r.pc = pc /\ net[c]["C"] # <<>>
  BY <1>1, Readies
<1>3. ClientTerms(c, r, s)
  BY AtTerms
<1>4. ~r.resumed /\ Agrees(r, s)
  BY <1>2, <1>3 DEF ClientTerms, Early, Over
<1>5. Agrees(x, s)
  BY <1>4 DEF Agrees, SameBinding
<1>6. Cardinality(Fins(x.log)) # 2
  BY DEF Counted
<1>7. ClientTerms(c, x, s)
  BY <1>3, <1>4, <1>5, <1>6 DEF ClientTerms, SameBinding, Early, Started
<1>8. r.pc \in Midway /\ x.pc \in Midway /\ x.offer = r.offer
  BY <1>2 DEF Midway, SameBinding
<1>9. IsSeq(<<>>) /\ \A m \in ToSet(<<>>) : m.type # "client_hello"
  BY SeqEmpty
<1>10. QED
  BY <1>2, <1>7, <1>8, <1>9, ClientMoves DEF Promised

LEMMA ClientGetCertificateTerms ==
  ASSUME HInv, RInv, NEW c \in Conns, ClientGetCertificate(c)
  PROVE  RInv' /\ Promised
<1> DEFINE old == end[c]["C"]
           r == Logged(old, <<"certificate">>)
           next == [r EXCEPT !.chain = Got(c, "C").body,
                             !.pc = IF IsSrp(r.suite) THEN "server_key_exchange"
                                    ELSE "certificate_request"]
<1>1. /\ Gets(c, "C", "certificate") /\ Proceed(c, "C", next, <<>>) /\ sess' = sess
      /\ entriesDict' = entriesDict
  BY DEF ClientGetCertificate, cacheVars
<1>2. EndShape(old) /\ ClientTerms(c, old, end[c]["S"])
  BY AtTerms
<1>3. old.pc = "certificate"
  BY <1>1 DEF Gets
<1>4. Counted(old, 0)
  BY <1>2, <1>3 DEF ClientTerms, Early
<1>5. IsSeq(<<"certificate">>) /\ \A m \in ToSet(<<"certificate">>) : m # "finished"
  BY SeqOne
<1>6. EndShape(r) /\ SameTerms(r, old) /\ Counted(r, 0)
  BY <1>2, <1>4, <1>5, LoggedKeeps, CountedLogged
<1> HIDE DEF r
<1>7. /\ EndShape(next) /\ next.log = r.log /\ SameBinding(next, old)
      /\ next.pc \in {"server_key_exchange", "certificate_request"}
  BY <1>6 DEF EndShape, SameTerms, SameBinding
<1> HIDE DEF next
<1>8. Counted(next, 0)
  BY <1>6, <1>7 DEF Counted
<1>9. QED
  BY <1>1, <1>7, <1>8, ClientExchangesTerms DEF Early

LEMMA ClientGetServerKeyExchangeTerms ==
  ASSUME HInv, RInv, NEW c \in Conns, ClientGetServerKeyExchange(c)
  PROVE  RInv' /\ Promised
<1> DEFINE old == end[c]["C"]
           r == [old EXCEPT !.pc = "server_hello_done"]
           next == Logged(r, <<"server_key_exchange">>)
<1>1. /\ Gets(c, "C", "server_key_exchange") /\ Proceed(c, "C", next, <<>>)
      /\ sess' = sess /\ entriesDict' = entriesDict
  BY DEF ClientGetServerKeyExchange, cacheVars
<1>2. EndShape(old) /\ ClientTerms(c, old, end[c]["S"])
  BY AtTerms
<1>3. old.pc = "server_key_exchange"
  BY <1>1 DEF Gets
<1>4. Counted(old, 0)
  BY <1>2, <1>3 DEF ClientTerms, Early
<1>5. /\ EndShape(r) /\ r.pc = "server_hello_done" /\ r.log = old.log
      /\ SameBinding(r, old)
  BY <1>2 DEF EndShape, SameBinding
<1> HIDE DEF r
<1>6. /\ IsSeq(<<"server_key_exchange">>)
      /\ \A m \in ToSet(<<"server_key_exchange">>) : m # "finished"
  BY SeqOne
<1>7. Counted(r, 0)
  BY <1>4, <1>5 DEF Counted
<1>8. EndShape(next) /\ SameTerms(next, r) /\ Counted(next, 0)
  BY <1>5, <1>6, <1>7, LoggedKeeps, CountedLogged
<1> HIDE DEF next
<1>9. SameBinding(next, old) /\ next.pc = "server_hello_done"
  BY <1>5, <1>8 DEF SameTerms, SameBinding
<1>10. QED
  BY <1>1, <1>8, <1>9, ClientExchangesTerms DEF Early

LEMMA ClientGetCertificateRequestTerms ==
  ASSUME HInv, RInv, NEW c \in Conns, ClientGetCertificateRequest(c)
  PROVE  RInv' /\ Promised
<1> DEFINE old == end[c]["C"]
           r == [old EXCEPT !.pc = "server_hello_done", !.requested = TRUE]
           next == Logged(r, <<"certificate_request">>)
<1>1. /\ Gets(c, "C", "certificate_request") /\ Proceed(c, "C", next, <<>>)
      /\ sess' = sess /\ entriesDict' = entriesDict
  BY DEF ClientGetCertificateRequest, cacheVars
<1>2. EndShape(old) /\ ClientTerms(c, old, end[c]["S"])
  BY AtTerms
<1>3. old.pc = "certificate_request"
  BY <1>1 DEF Gets
<1>4. Counted(old, 0)
  BY <1>2, <1>3 DEF ClientTerms, Early
<1>5. /\ EndShape(r) /\ r.pc = "server_hello_done" /\ r.log = old.log
      /\ SameBinding(r, old)
  BY <1>2 DEF EndShape, SameBinding
<1> HIDE DEF r
<1>6. /\ IsSeq(<<"certificate_request">>)
      /\ \A m \in ToSet(<<"certificate_request">>) : m # "finished"
  BY SeqOne
<1>7. Counted(r, 0)
  BY <1>4, <1>5 DEF Counted
<1>8. EndShape(next) /\ SameTerms(next, r) /\ Counted(next, 0)
  BY <1>5, <1>6, <1>7, LoggedKeeps, CountedLogged
<1> HIDE DEF next
<1>9. SameBinding(next, old) /\ next.pc = "server_hello_done"
  BY <1>5, <1>8 DEF SameTerms, SameBinding
<1>10. QED
  BY <1>1, <1>8, <1>9, ClientExchangesTerms DEF Early

LEMMA ClientGetServerHelloTerms ==
  ASSUME HInv, RInv, NEW c \in Conns, ClientGetServerHello(c)
  PROVE  RInv' /\ Promised
<1> DEFINE p == client[c]
           m == Got(c, "C").body
           old == end[c]["C"]
           s == end[c]["S"]
           q == [old EXCEPT !.version = m.version, !.suite = m.suite, !.id = m.id]
           r == Logged(q, <<"server_hello">>)
           common == SelectSeq(p.protos, LAMBDA n : m.protos # <<>> /\ n \in ToSet(m.protos[1]))
           proto == IF m.protos = <<>> \/ p.protos = <<>> THEN <<>>
                    ELSE IF common # <<>> THEN <<common[1]>> ELSE <<p.protos[1]>>
           resumes == r.offer # 0 /\ m.id = r.offer
           bad == \/ m.version < p.min \/ m.version > p.max
                  \/ m.suite \notin ToSet(ClientSuites(p))
                  \/ m.protos # <<>> /\ p.protos = <<>>
                  \/ resumes /\ m.suite # sess[r.offer]["C"].suite
           next1 == [r EXCEPT !.pc = "change_cipher_spec", !.resumed = TRUE,
                              !.basis = r.offer, !.secret = sess[r.offer]["C"].secret]
           next2 == [r EXCEPT !.basis = c, !.protos = proto,
                              !.pc = IF HasCertificate(m.suite) THEN "certificate"
                                     ELSE "server_key_exchange"]
           next == IF resumes THEN next1 ELSE next2
<1>1. /\ Gets(c, "C", "server_hello")
      /\ IF bad THEN SendError(c, "C")
         ELSE Proceed(c, "C", next, <<>>) /\ UNCHANGED <<sess, cacheVars>>
  BY DEF ClientGetServerHello
<1>2. /\ "C" \in Ends
      /\ old.pc = "server_hello" /\ net[c]["C"] # <<>>
      /\ Got(c, "C") \in ToSet(net[c]["C"])
      /\ Got(c, "C").type = "server_hello"
  BY <1>1, Readies DEF Ends, Expected
<1>3. /\ EndShape(old) /\ ServerTerms(c, old, s) /\ ClientTerms(c, old, s)
      /\ TermsToClient(s, Got(c, "C"))
  BY <1>2, AtTerms
<1>4. CASE bad
  <2>1. SendError(c, "C") /\ old.pc \notin {"idle"} \cup Over
    BY <1>1, <1>2, <1>4 DEF Over
  <2>2. QED
    BY <1>2, <2>1, ErrorPromised
<1>5. CASE ~bad
  <2>1. Proceed(c, "C", next, <<>>) /\ sess' = sess /\ entriesDict' = entriesDict
    <3> HIDE DEF bad, next
    <3>1. QED
      BY <1>1, <1>5 DEF cacheVars
  <2> HIDE DEF common, proto, bad
  <2>2. /\ old.offer # c /\ ~old.resumed /\ Counted(old, 0)
        /\ m.version = s.version /\ m.suite = s.suite /\ m.id = s.id /\ s.basis # 0
        /\ IF s.resumed THEN s.id = s.basis /\ s.basis = old.offer
           ELSE s.basis = c /\ s.id \in {0, c}
    BY <1>2, <1>3 DEF ClientTerms, ServerTerms, TermsToClient, Early
  <2>3. /\ EndShape(q) /\ q.version = s.version /\ q.suite = s.suite /\ q.id = s.id
        /\ q.offer = old.offer /\ q.resumed = FALSE /\ q.log = old.log
    BY <1>3, <2>2 DEF EndShape
  <2> HIDE DEF q
  <2>4. EndShape(r) /\ SameTerms(r, q) /\ Counted(r, 0)
    <3>1. IsSeq(<<"server_hello">>) /\ \A x \in ToSet(<<"server_hello">>) : x # "finished"
      BY SeqOne
    <3>2. Counted(q, 0)
      BY <2>2, <2>3 DEF Counted
    <3>3. QED
      BY <2>3, <3>1, <3>2, LoggedKeeps, CountedLogged
  <2> HIDE DEF r
  <2>5. (resumes <=> s.resumed) /\ s.resumed \in BOOLEAN
    <3>1. r.offer = old.offer
      BY <2>3, <2>4 DEF SameTerms
    <3>2. s.resumed \in BOOLEAN
      BY AtTerms DEF EndShape
    <3>3. QED
      BY <2>2, <3>1, <3>2
  <2>6. /\ EndShape(next1) /\ next1.version = r.version /\ next1.suite = r.suite
        /\ next1.id = r.id /\ next1.offer = r.offer /\ next1.basis = r.offer
        /\ next1.resumed = TRUE /\ next1.log = r.log /\ next1.pc = "change_cipher_spec"
    BY <2>4 DEF EndShape
  <2>7. /\ EndShape(next2) /\ next2.version = r.version /\ next2.suite = r.suite
        /\ next2.id = r.id /\ next2.offer = r.offer /\ next2.basis = c
        /\ next2.resumed = r.resumed /\ next2.log = r.log
        /\ next2.pc \in {"certificate", "server_key_exchange"}
    BY <2>4 DEF EndShape
  <2>8. next = IF resumes THEN next1 ELSE next2
    OBVIOUS
  <2> HIDE DEF next1, next2, next, resumes
  <2>9. /\ EndShape(next) /\ Agrees(next, s) /\ next.offer = old.offer
        /\ Counted(next, 0)
        /\ IF s.resumed THEN next.pc = "change_cipher_spec"
           ELSE next.pc \in {"certificate", "server_key_exchange"}
    <3> HIDE DEF s, old, m
    <3>1. CASE s.resumed
      <4>1. next = next1
        BY <2>5, <2>8, <3>1
      <4>2. s.resumed = TRUE
        BY <2>5, <3>1
      <4>3. QED
        BY <2>2, <2>3, <2>4, <2>6, <3>1, <4>1, <4>2 DEF Agrees, SameTerms, Counted
    <3>2. CASE ~s.resumed
      <4>1. next = next2
        BY <2>5, <2>8, <3>2
      <4>2. s.resumed = FALSE
        BY <2>5, <3>2
      <4>3. /\ r.version = s.version /\ r.suite = s.suite /\ r.id = s.id
            /\ r.resumed = s.resumed /\ r.offer = old.offer
        BY <2>3, <2>4, <4>2 DEF SameTerms
      <4>4. next.basis = s.basis
        BY <2>2, <2>7, <3>2, <4>1
      <4>5. Agrees(next, s)
        BY <2>2, <2>7, <4>1, <4>3, <4>4 DEF Agrees
      <4>6. QED
        BY <2>4, <2>7, <3>2, <4>1, <4>3, <4>5 DEF Counted
    <3>3. QED
      BY <3>1, <3>2
  <2>10. ClientTerms(c, next, s)
    <3>1. Cardinality(Fins(next.log)) # 2 /\ (next.resumed <=> s.resumed)
      BY <2>9 DEF Counted, Agrees
    <3>2. QED
      BY <2>2, <2>9, <3>1 DEF ClientTerms, Early, Started
  <2>11. next.pc \in Midway /\ old.pc \in Midway
    BY <1>2, <2>9 DEF Midway, Early
  <2>12. IsSeq(<<>>) /\ \A x \in ToSet(<<>>) : x.type # "client_hello"
    BY SeqEmpty
  <2>13. QED
    BY <1>2, <2>1, <2>9, <2>10, <2>11, <2>12, ClientMoves DEF Promised
<1>6. QED
  BY <1>4, <1>5

LEMMA ClientKeyExchangeTerms ==
  ASSUME HInv, RInv, NEW c \in Conns, ClientKeyExchange(c)
  PROVE  RInv' /\ Promised
<1> DEFINE p == client[c]
           r == end[c]["C"]
           s == end[c]["S"]
           x == ClientExchange(p, r)
           q == [r EXCEPT !.secret = <<x.secret, c>>]
           types == <<"server_hello_done">> \o Types(x.sent)
           known == Logged(q, types)
           last == FinishedFlight(c, "C", known, r.protos)
           next == [last.next EXCEPT !.pc = "change_cipher_spec"]
           out == Flight(r, x.sent) \o last.msgs
<1>1. /\ \/ Gets(c, "C", "server_hello_done")
         \/ Gets(c, "C", "certificate_request")
      /\ x.bad => SendError(c, "C")
      /\ ~x.bad => Proceed(c, "C", next, out) /\ sess' = sess /\ entriesDict' = entriesDict
  BY DEF ClientKeyExchange, cacheVars
<1>1a. Exchanges(x, p, r, c)
  BY ClientExchanges
<1> HIDE DEF x
<1>2. /\ "C" \in Ends
      /\ r.pc \in {"server_hello_done", "certificate_request"} /\ net[c]["C"] # <<>>
  <2>1. "C" \in Ends
    BY DEF Ends
  <2>2. QED
    BY <1>1, <2>1, Readies
<1>3. EndShape(r) /\ IsSeq(r.protos) /\ ClientTerms(c, r, s)
  BY AtTerms DEF HInv, Unused
<1>4. ~r.resumed /\ Counted(r, 0) /\ Agrees(r, s)
  BY <1>2, <1>3 DEF ClientTerms, Early, Over
<1>5. CASE x.bad
  BY <1>1, <1>2, <1>5, ErrorPromised DEF Over
<1>6. CASE ~x.bad
  <2>1. /\ Proceed(c, "C", next, out) /\ sess' = sess /\ entriesDict' = entriesDict
    <3> HIDE DEF next, out
    <3>1. QED
      BY <1>1, <1>6
  <2>2. /\ IsSeq(x.sent)
        /\ \A b \in ToSet(x.sent) :
             b[1] \in {"certificate", "client_key_exchange", "certificate_verify"}
    BY <1>1a DEF Exchanges
  <2>3. IsSeq(types) /\ \A b \in ToSet(types) : b # "finished"
    <3> DEFINE names == Types(x.sent)
    <3>1. /\ DOMAIN names = DOMAIN x.sent /\ names = [i \in DOMAIN x.sent |-> names[i]]
          /\ \A i \in DOMAIN x.sent : names[i] = x.sent[i][1]
      BY DEF Types
    <3>2. types = <<"server_hello_done">> \o names
      OBVIOUS
    <3> HIDE DEF names, types
    <3>3. IsSeq(names)
      BY <2>2, <3>1, SeqMap
    <3>4. \A b \in ToSet(names) : b # "finished"
      BY <2>2, <3>1 DEF ToSet
    <3>5. IsSeq(<<"server_hello_done">>) /\ \A b \in ToSet(<<"server_hello_done">>) : b # "finished"
      BY SeqOne
    <3>6. QED
      BY <3>2, <3>3, <3>4, <3>5, SeqConcat
  <2> HIDE DEF types
  <2>4. EndShape(q) /\ SameBinding(q, r) /\ q.log = r.log
    BY <1>3 DEF EndShape, SameBinding
  <2>5. Counted(q, 0)
    BY <1>4, <2>4 DEF Counted
  <2> HIDE DEF q
  <2>6. EndShape(known) /\ SameTerms(known, q) /\ Counted(known, 0)
    BY <2>3, <2>4, <2>5, LoggedKeeps, CountedLogged
  <2> HIDE DEF known
  <2>7. /\ EndShape(last.next) /\ SameTerms(last.next, known) /\ IsSeq(last.msgs)
        /\ \A m \in ToSet(last.msgs) :
             m.type \in {"change_cipher_spec", "next_protocol", "finished"}
    <3>1. Finishes(last, known)
      BY <1>3, <2>6, FinishedFlightElements
    <3> HIDE DEF last
    <3>2. QED
      BY <3>1 DEF Finishes
  <2>8. Counted(last.next, 1)
    <3>1. Counted(last.next, 0 + 1)
      BY <1>3, <2>6, FinishedFlightCounts
    <3>2. QED
      BY <3>1
  <2> HIDE DEF last
  <2>9. /\ EndShape(next) /\ next.pc = "change_cipher_spec" /\ next.log = last.next.log
        /\ SameBinding(next, r)
    BY <2>4, <2>6, <2>7 DEF EndShape, SameTerms, SameBinding
  <2> HIDE DEF next
  <2>10. Counted(next, 1)
    BY <2>8, <2>9 DEF Counted
  <2>11. IsSeq(out) /\ \A m \in ToSet(out) : m.type # "client_hello"
    <3>1. /\ IsSeq(Flight(r, x.sent))
          /\ \A m \in ToSet(Flight(r, x.sent)) :
               m.type \in {"certificate", "client_key_exchange", "certificate_verify"}
      BY <2>2, FlightElements
    <3>2. IsSeq(out) /\ ToSet(out) \subseteq ToSet(Flight(r, x.sent)) \cup ToSet(last.msgs)
      BY <2>7, <3>1, SeqConcat
    <3>3. QED
      BY <2>7, <3>1, <3>2
  <2> HIDE DEF out
  <2>12. ClientTerms(c, next, s)
    <3>1. Agrees(next, s) /\ ~next.resumed /\ next.offer # c
      BY <1>3, <1>4, <2>9 DEF Agrees, SameBinding, ClientTerms
    <3>2. Cardinality(Fins(next.log)) # 2
      BY <2>10 DEF Counted
    <3>3. QED
      BY <2>9, <2>10, <3>1, <3>2 DEF ClientTerms, Early, Started
  <2>13. next.pc \in Midway /\ r.pc \in Midway /\ next.offer = r.offer
    BY <1>2, <2>9 DEF Midway, Early, SameBinding
  <2>14. QED
    BY <1>2, <2>1, <2>9, <2>11, <2>12, <2>13, ClientMoves DEF Promised
<1>7. QED
  BY <1>5, <1>6

----------------------------------------------------------------------------
(* The server's, after its decision.                                       *)

LEMMA LoggedOne ==
  ASSUME NEW r, EndShape(r), NEW n, Counted(r, n), NEW type, type # "finished"
  PROVE  Counted(Logged(r, <<type>>), n)
<1>1. IsSeq(<<type>>) /\ \A m \in ToSet(<<type>>) : m # "finished"
  BY SeqOne
<1>2. QED
  BY <1>1, CountedLogged

LEMMA ServerStoresTerms ==
  ASSUME HInv, RInv, NEW c \in Conns, NEW x, Proceed(c, "S", x, <<>>), EndShape(x),
         NEW pc, Gets(c, "S", pc), pc \notin Deciding, x.pc \notin Deciding,
         SameDecision(x, end[c]["S"]),
         \A n : Counted(end[c]["S"], n) => Counted(x, n),
         sess' = sess, entriesDict' = entriesDict
  PROVE  RInv' /\ Promised
<1> DEFINE r == end[c]["C"]
           s == end[c]["S"]
<1>1. "S" \in Ends
  BY DEF Ends
<1>2. s.pc = pc /\ net[c]["S"] # <<>>
  BY <1>1, Readies
<1>3. ServerTerms(c, r, s)
  BY AtTerms
<1>4. ServerTerms(c, r, x)
  BY <1>2, <1>3 DEF ServerTerms, SameDecision, Deciding
<1>5. QED
  BY <1>2, <1>4, ServerMoves DEF Promised

LEMMA ServerGetCertificateTerms ==
  ASSUME HInv, RInv, NEW c \in Conns, ServerGetCertificate(c)
  PROVE  RInv' /\ Promised
<1> DEFINE old == end[c]["S"]
           q == [old EXCEPT !.pc = "client_key_exchange", !.chain = Got(c, "S").body]
           next == Logged(q, <<"certificate">>)
<1>1. /\ Gets(c, "S", "certificate") /\ Proceed(c, "S", next, <<>>) /\ sess' = sess
      /\ entriesDict' = entriesDict
  BY DEF ServerGetCertificate, cacheVars
<1>2. EndShape(old) /\ old.pc = "certificate"
  BY <1>1, AtTerms DEF Gets
<1>3. /\ EndShape(q) /\ q.pc = "client_key_exchange" /\ q.log = old.log
      /\ SameBinding(q, old)
  BY <1>2 DEF EndShape, SameBinding
<1> HIDE DEF q
<1>4. EndShape(next) /\ SameTerms(next, q)
  BY <1>3, LoggedKeeps
<1>5. ASSUME NEW n, Counted(old, n) PROVE Counted(next, n)
  <2>1. Counted(q, n)
    BY <1>3, <1>5 DEF Counted
  <2>2. QED
    BY <1>3, <2>1, LoggedOne
<1> HIDE DEF next
<1>6. next.pc \notin Deciding /\ SameDecision(next, old)
  BY <1>2, <1>3, <1>4
     DEF SameTerms, SameBinding, SameDecision, Deciding, KeyExchange, Over, Started
<1>7. "certificate" \notin Deciding
  BY DEF Deciding, Over, Started
<1>8. QED
  BY <1>1, <1>4, <1>5, <1>6, <1>7, ServerStoresTerms

LEMMA ServerGetClientKeyExchangeTerms ==
  ASSUME HInv, RInv, NEW c \in Conns, ServerGetClientKeyExchange(c)
  PROVE  RInv' /\ Promised
<1> DEFINE old == end[c]["S"]
           q == [old EXCEPT !.secret = <<"shared", c>>]
           r == Logged(q, <<"client_key_exchange">>)
           next == [r EXCEPT !.pc = IF r.chain # "none" THEN "certificate_verify"
                                    ELSE "change_cipher_spec"]
<1>1. /\ Gets(c, "S", "client_key_exchange") /\ Proceed(c, "S", next, <<>>)
      /\ sess' = sess /\ entriesDict' = entriesDict
  BY DEF ServerGetClientKeyExchange, cacheVars
<1>2. EndShape(old) /\ old.pc = "client_key_exchange"
  BY <1>1, AtTerms DEF Gets
<1>3. EndShape(q) /\ q.log = old.log /\ SameBinding(q, old)
  BY <1>2 DEF EndShape, SameBinding
<1> HIDE DEF q
<1>4. EndShape(r) /\ SameTerms(r, q)
  BY <1>3, LoggedKeeps
<1>5. ASSUME NEW n, Counted(old, n) PROVE Counted(r, n)
  <2>1. Counted(q, n)
    BY <1>3, <1>5 DEF Counted
  <2>2. QED
    BY <1>3, <2>1, LoggedOne
<1> HIDE DEF r
<1>6. /\ EndShape(next) /\ next.log = r.log /\ SameBinding(next, r)
      /\ next.pc \in {"certificate_verify", "change_cipher_spec"}
  BY <1>4 DEF EndShape, SameBinding
<1> HIDE DEF next
<1>7. \A n : Counted(old, n) => Counted(next, n)
  BY <1>5, <1>6 DEF Counted
<1>8. next.pc \notin Deciding /\ SameDecision(next, old)
  BY <1>2, <1>3, <1>4, <1>6
     DEF SameTerms, SameBinding, SameDecision, Deciding, KeyExchange, Over, Started
<1>9. "client_key_exchange" \notin Deciding
  BY DEF Deciding, Over, Started
<1>10. QED
  BY <1>1, <1>6, <1>7, <1>8, <1>9, ServerStoresTerms

LEMMA ServerGetCertificateVerifyTerms ==
  ASSUME HInv, RInv, NEW c \in Conns, ServerGetCertificateVerify(c)
  PROVE  RInv' /\ Promised
<1> DEFINE old == end[c]["S"]
           q == [old EXCEPT !.pc = "change_cipher_spec"]
           next == Logged(q, <<"certificate_verify">>)
<1>1. /\ Gets(c, "S", "certificate_verify")
      /\ \/ SendError(c, "S")
         \/ Proceed(c, "S", next, <<>>) /\ sess' = sess /\ entriesDict' = entriesDict
  BY DEF ServerGetCertificateVerify, cacheVars
<1>2. EndShape(old) /\ old.pc = "certificate_verify" /\ "S" \in Ends
  BY <1>1, AtTerms DEF Gets, Ends
<1>3. CASE SendError(c, "S")
  BY <1>2, <1>3, ErrorPromised DEF Over
<1>4. CASE Proceed(c, "S", next, <<>>) /\ sess' = sess /\ entriesDict' = entriesDict
  <2>1. /\ EndShape(q) /\ q.pc = "change_cipher_spec" /\ q.log = old.log
        /\ SameBinding(q, old) /\ q.secret = old.secret
    BY <1>2 DEF EndShape, SameBinding
  <2> HIDE DEF q
  <2>2. EndShape(next) /\ SameTerms(next, q)
    BY <2>1, LoggedKeeps
  <2>3. ASSUME NEW n, Counted(old, n) PROVE Counted(next, n)
    <3>1. Counted(q, n)
      BY <2>1, <2>3 DEF Counted
    <3>2. QED
      BY <2>1, <3>1, LoggedOne
  <2> HIDE DEF next
  <2>4. next.pc \notin Deciding /\ SameDecision(next, old)
    BY <1>2, <2>1, <2>2
       DEF SameTerms, SameBinding, SameDecision, Deciding, KeyExchange, Over, Started
  <2>5. "certificate_verify" \notin Deciding
    BY DEF Deciding, Over, Started
  <2>6. QED
    BY <1>1, <1>4, <2>2, <2>3, <2>4, <2>5, ServerStoresTerms
<1>5. QED
  BY <1>1, <1>3, <1>4

LEMMA ServerGetNextProtocolTerms ==
  ASSUME HInv, RInv, NEW c \in Conns, ServerGetNextProtocol(c)
  PROVE  RInv' /\ Promised
<1> DEFINE old == end[c]["S"]
           q == [old EXCEPT !.pc = "finished"]
           next == Logged(q, <<"next_protocol">>)
<1>1. /\ Gets(c, "S", "next_protocol")
      /\ \/ SendError(c, "S")
         \/ Proceed(c, "S", next, <<>>) /\ sess' = sess /\ entriesDict' = entriesDict
  BY DEF ServerGetNextProtocol, cacheVars
<1>2. EndShape(old) /\ old.pc = "next_protocol" /\ "S" \in Ends
  BY <1>1, AtTerms DEF Gets, Ends
<1>3. CASE SendError(c, "S")
  BY <1>2, <1>3, ErrorPromised DEF Over
<1>4. CASE Proceed(c, "S", next, <<>>) /\ sess' = sess /\ entriesDict' = entriesDict
  <2>1. /\ EndShape(q) /\ q.pc = "finished" /\ q.log = old.log
        /\ SameBinding(q, old) /\ q.secret = old.secret
    BY <1>2 DEF EndShape, SameBinding
  <2> HIDE DEF q
  <2>2. EndShape(next) /\ SameTerms(next, q)
    BY <2>1, LoggedKeeps
  <2>3. ASSUME NEW n, Counted(old, n) PROVE Counted(next, n)
    <3>1. Counted(q, n)
      BY <2>1, <2>3 DEF Counted
    <3>2. QED
      BY <2>1, <3>1, LoggedOne
  <2> HIDE DEF next
  <2>4. next.pc \notin Deciding /\ SameDecision(next, old)
    BY <1>2, <2>1, <2>2
       DEF SameTerms, SameBinding, SameDecision, Deciding, KeyExchange, Over, Started
  <2>5. "next_protocol" \notin Deciding
    BY DEF Deciding, Over, Started
  <2>6. QED
    BY <1>1, <1>4, <2>2, <2>3, <2>4, <2>5, ServerStoresTerms
<1>5. QED
  BY <1>1, <1>3, <1>4

----------------------------------------------------------------------------
(* Steps of both ends.                                                     *)

LEMMA GetChangeCipherSpecTerms ==
  ASSUME HInv, RInv, NEW c \in Conns, NEW e \in Ends, GetChangeCipherSpec(c, e)
  PROVE  RInv' /\ Promised
<1> DEFINE old == end[c][e]
           key == Key(c, Peer(e), old)
           next == [old EXCEPT !.rs = key,
                               !.pc = IF e = "S" /\ old.protos # <<>> THEN "next_protocol"
                                      ELSE "finished"]
<1>1. /\ Gets(c, e, "change_cipher_spec") /\ Proceed(c, e, next, <<>>)
      /\ sess' = sess /\ entriesDict' = entriesDict
  BY DEF GetChangeCipherSpec, cacheVars
<1>2. EndShape(old) /\ old.pc = "change_cipher_spec" /\ net[c][e] # <<>>
  BY <1>1, Readies DEF HInv, Shape
<1> HIDE DEF key
<1>3. /\ EndShape(next) /\ SameEnd(next, old)
      /\ next.pc \in {"next_protocol", "finished"}
      /\ e = "C" => next.pc = "finished"
  BY <1>2 DEF EndShape, SameEnd
<1> HIDE DEF next
<1>4. CASE e = "C"
  <2> DEFINE s == end[c]["S"]
  <2>1. ClientTerms(c, old, s)
    BY <1>4, AtTerms
  <2>2. ClientTerms(c, next, s)
    BY <1>2, <1>3, <1>4, <2>1
       DEF ClientTerms, SameEnd, Early, Started, Agrees, Counted, Over
  <2>3. IsSeq(<<>>) /\ \A m \in ToSet(<<>>) : m.type # "client_hello"
    BY SeqEmpty
  <2>4. old.pc \in Midway /\ next.pc \in Midway /\ next.offer = old.offer
    BY <1>2, <1>3, <1>4 DEF Midway, SameEnd
  <2>5. QED
    BY <1>1, <1>2, <1>3, <1>4, <2>2, <2>3, <2>4, ClientMoves DEF Promised
<1>5. CASE e = "S"
  <2>1. next.pc \notin Deciding /\ SameDecision(next, old)
    BY <1>2, <1>3 DEF SameEnd, SameDecision, Deciding, KeyExchange, Over, Started
  <2>2. \A n : Counted(old, n) => Counted(next, n)
    BY <1>3 DEF SameEnd, Counted
  <2>3. "change_cipher_spec" \notin Deciding
    BY DEF Deciding, Over, Started
  <2>4. QED
    BY <1>1, <1>3, <1>5, <2>1, <2>2, <2>3, ServerStoresTerms
<1>6. QED
  BY <1>4, <1>5 DEF Ends

----------------------------------------------------------------------------
(* The server's decision.                                                  *)

LEMMA ServerChooses ==
  ASSUME HInv, RInv, NEW c \in Conns, NEW x, NEW out, Proceed(c, "S", x, out),
         EndShape(x), IsSeq(out), Gets(c, "S", "client_hello"),
         x.basis \in Conns, x.basis = c \/ sess[x.basis]["S"].resumable,
         x.pc \notin Deciding, ServerTerms(c, end[c]["C"], x),
         \A m \in ToSet(out) : TermsToClient(x, m),
         sess' = sess, entriesDict' = entriesDict
  PROVE  RInv' /\ Promised
<1> DEFINE r == end[c]["C"]
           s == end[c]["S"]
<1>1. Shape /\ "C" \in Ends /\ "S" \in Ends /\ Peer("S") = "C"
  BY DEF HInv, Ends, Peer
<1>2. s.pc = "client_hello" /\ net[c]["S"] # <<>>
  BY <1>1, Readies
<1>3. /\ end'[c]["S"] = x /\ end'[c]["C"] = r
      /\ \A d \in Conns \ {c} : end'[d] = end[d] /\ net'[d] = net[d]
      /\ ToSet(net'[c]["S"]) \subseteq ToSet(net[c]["S"])
      /\ ToSet(net'[c]["C"]) \subseteq ToSet(net[c]["C"]) \cup ToSet(out)
  BY <1>1, <1>2, Proceeds
<1>4. Elsewhere(c) /\ \A d \in Conns \ {c} : net'[d] = net[d]
  BY <1>3 DEF Elsewhere
<1>5. /\ ServerTerms(c, r, s) /\ ClientTerms(c, r, s)
      /\ \A m \in ToSet(net[c]["C"]) : TermsToClient(s, m)
      /\ \A m \in ToSet(net[c]["S"]) : TermsToServer(r, m)
  BY AtTerms
<1>6. s.basis = 0
  BY <1>2, <1>5 DEF ServerTerms
<1>7. TermsInv(c)'
  <2>1. ClientTerms(c, r, x)
    BY <1>5, <1>6 DEF ClientTerms, Agrees
  <2>2. \A m \in ToSet(net[c]["C"]) : TermsToClient(x, m)
    BY <1>2, <1>5, <1>6 DEF TermsToClient
  <2>3. Terms(c, r, x, net'[c]["C"], net'[c]["S"])
    BY <1>3, <1>5, <2>1, <2>2 DEF Terms
  <2>4. QED
    BY <1>3, <2>3 DEF TermsInv
<1>8. Stored'
  BY DEF RInv, Stored
<1>9. RInv'
  BY <1>4, <1>7, <1>8, TermsAt
<1>10. ~WasUp(c, "S")
  <2>1. s.pc \notin Over \cup Started
    BY <1>2 DEF Over, Started
  <2>2. \E n \in {0, 1} : Counted(end[c]["S"], n)
    BY <1>5, <2>1, DecidedCounted
  <2>3. QED
    BY <1>1, <2>2, NotUp
<1>11. ~WasUp(c, "S")'
  <2>1. \E n \in {0, 1} : Counted(end'[c]["S"], n)
    BY <1>3, DecidedCounted DEF Deciding
  <2>2. QED
    BY <1>1, <2>1, NotUpThen
<1>12. Agreed(c)' = Agreed(c)
  <2>1. WasUp(c, "C")' = WasUp(c, "C")
    BY <1>3 DEF WasUp
  <2>2. QED
    BY <1>3, <1>10, <1>11, <2>1 DEF Agreed
<1>13. \A e \in Ends : View(c, e)' = View(c, e)
  <2>1. View(c, "S")' = View(c, "S")
    BY <1>2, <1>3 DEF View, Gone, Started, Over, Deciding
  <2>2. View(c, "C")' = View(c, "C")
    BY <1>3 DEF View, Gone
  <2>3. QED
    BY <2>1, <2>2 DEF Ends
<1>14. Session!Choose(c, x.basis)
  BY <1>3, <1>4, <1>6, <1>12, <1>13, Chooses
<1>15. QED
  BY <1>9, <1>14 DEF Session!Next, Promised

\* A session of the server that can be resumed under an id.
Fits(old, id) == old.id = id /\ sess[id]["S"].resumable

LEMMA ServerResumesTerms ==
  ASSUME HInv, RInv, NEW c \in Conns, Gets(c, "S", "client_hello"),
         NEW old, Got(c, "S").body.id \in Conns, Fits(old, Got(c, "S").body.id),
         ServerResumes(c, Logged([end[c]["S"] EXCEPT
                                    !.version = Smaller(Got(c, "S").body.version, server.max)],
                                 <<"client_hello">>), old)
  PROVE  RInv' /\ Promised
<1> DEFINE v == Smaller(Got(c, "S").body.version, server.max)
           id == Got(c, "S").body.id
           first == end[c]["S"]
           q == [first EXCEPT !.version = v]
           r == Logged(q, <<"client_hello">>)
           m == [version |-> r.version, id |-> old.id, suite |-> old.suite, protos |-> <<>>]
           x == [r EXCEPT !.suite = old.suite, !.id = old.id, !.basis = old.id,
                          !.secret = old.secret, !.resumed = TRUE]
           agreed == Logged(x, <<"server_hello">>)
           last == FinishedFlight(c, "S", agreed, <<>>)
           next == [last.next EXCEPT !.pc = "change_cipher_spec"]
           hello == <<"server_hello", m>>
           sent == Flight(r, <<hello>>)
           out == sent \o last.msgs
<1>1. Proceed(c, "S", next, out) /\ UNCHANGED <<sess, cacheVars>>
  BY DEF ServerResumes
<1>1a. sess' = sess /\ entriesDict' = entriesDict
  BY <1>1 DEF cacheVars
<1>2. /\ "S" \in Ends /\ first.pc = "client_hello" /\ EndShape(first)
      /\ Got(c, "S") \in ToSet(net[c]["S"]) /\ Got(c, "S").type = "client_hello"
  <2>1. "S" \in Ends
    BY DEF Ends
  <2>2. EndShape(first)
    BY AtTerms
  <2>3. QED
    BY <2>1, <2>2, Readies DEF Expected
<1>3. Counted(first, 0)
  <2>1. ServerTerms(c, end[c]["C"], first)
    BY AtTerms
  <2>2. QED
    BY <1>2, <2>1 DEF ServerTerms, Over, Started
<1>4. id = end[c]["C"].offer
  BY <1>2, AtTerms DEF TermsToServer
<1>5. id \in Conns /\ old.id = id /\ id # 0 /\ sess[id]["S"].resumable
  BY DEF Fits, Conns
<1> HIDE DEF v, id
<1>6. EndShape(q) /\ q.log = first.log
  BY <1>2 DEF EndShape
<1> HIDE DEF q
<1>7. EndShape(r) /\ Counted(r, 0)
  <2>1. Counted(q, 0)
    BY <1>3, <1>6 DEF Counted
  <2>2. QED
    BY <1>6, <2>1, LoggedKeeps, LoggedOne
<1>8. m.version = r.version /\ m.suite = old.suite /\ m.id = old.id
  OBVIOUS
<1> HIDE DEF r
<1>9. /\ EndShape(x) /\ x.version = r.version /\ x.suite = old.suite /\ x.id = old.id
      /\ x.basis = old.id /\ x.resumed = TRUE /\ x.log = r.log
  BY <1>7 DEF EndShape
<1> HIDE DEF x, m
<1>10. EndShape(agreed) /\ SameTerms(agreed, x) /\ Counted(agreed, 0)
  <2>1. Counted(x, 0)
    BY <1>7, <1>9 DEF Counted
  <2>2. QED
    BY <1>9, <2>1, LoggedKeeps, LoggedOne
<1> HIDE DEF agreed
<1>11. /\ EndShape(last.next) /\ SameTerms(last.next, agreed) /\ IsSeq(last.msgs)
       /\ \A y \in ToSet(last.msgs) :
            \/ y.type \in {"change_cipher_spec", "next_protocol"}
            \/ y.type = "finished" /\ y.body[1] = agreed.secret
  <2>1. Finishes(last, agreed)
    BY <1>10, SeqEmpty, FinishedFlightElements
  <2> HIDE DEF last
  <2>2. QED
    BY <2>1 DEF Finishes
<1>12. Counted(last.next, 1)
  <2>1. Counted(last.next, 0 + 1)
    BY <1>10, SeqEmpty, FinishedFlightCounts
  <2>2. QED
    BY <2>1
<1> HIDE DEF last
<1>13. /\ EndShape(next) /\ next.pc = "change_cipher_spec" /\ next.log = last.next.log
       /\ next.version = r.version /\ next.suite = old.suite /\ next.id = old.id
       /\ next.basis = old.id /\ next.resumed = TRUE /\ next.secret = agreed.secret
  BY <1>9, <1>10, <1>11 DEF EndShape, SameTerms
<1> HIDE DEF next
<1>14. Counted(next, 1)
  BY <1>12, <1>13 DEF Counted
<1>15. IsSeq(sent) /\ \A y \in ToSet(sent) : y.type = "server_hello" /\ y.body = m
  <2>1. hello[1] = "server_hello" /\ hello[2] = m
    OBVIOUS
  <2> HIDE DEF hello
  <2>2. IsSeq(<<hello>>) /\ ToSet(<<hello>>) = {hello}
    BY SeqOne
  <2>3. QED
    BY <2>1, <2>2, FlightElements
<1> HIDE DEF sent
<1>16. IsSeq(out) /\ ToSet(out) \subseteq ToSet(sent) \cup ToSet(last.msgs)
  BY <1>11, <1>15, SeqConcat
<1> HIDE DEF out
<1>17. next.pc \notin Deciding \cup KeyExchange
  BY <1>13 DEF Deciding, KeyExchange, Over, Started
<1>18. \A y \in ToSet(out) : TermsToClient(next, y)
  <2>1. next.basis # 0
    BY <1>5, <1>13
  <2>2. \A y \in ToSet(sent) : TermsToClient(next, y)
    BY <1>8, <1>13, <1>15, <2>1 DEF TermsToClient
  <2>3. \A y \in ToSet(last.msgs) : TermsToClient(next, y)
    BY <1>11, <1>13, <1>17 DEF TermsToClient, Deciding
  <2>4. QED
    BY <1>16, <2>2, <2>3
<1>19. ServerTerms(c, end[c]["C"], next)
  BY <1>4, <1>5, <1>13, <1>14, <1>17 DEF ServerTerms, Deciding
<1>20. next.basis \in Conns /\ sess[next.basis]["S"].resumable
  BY <1>5, <1>13
<1>21. next.pc \notin Deciding
  BY <1>17
<1>22. QED
  BY <1>1, <1>1a, <1>13, <1>16, <1>18, <1>19, <1>20, <1>21, ServerChooses

LEMMA TypesKeep ==
  ASSUME NEW bodies, IsSeq(bodies), \A b \in ToSet(bodies) : b[1] # "finished"
  PROVE  IsSeq(Types(bodies)) /\ \A m \in ToSet(Types(bodies)) : m # "finished"
<1> DEFINE names == Types(bodies)
<1>1. /\ DOMAIN names = DOMAIN bodies /\ names = [i \in DOMAIN bodies |-> names[i]]
      /\ \A i \in DOMAIN bodies : names[i] = bodies[i][1]
  BY DEF Types
<1> HIDE DEF names
<1>2. IsSeq(names)
  BY <1>1, SeqMap
<1>3. \A b \in ToSet(names) : b # "finished"
  BY <1>1 DEF ToSet
<1>4. QED
  BY <1>2, <1>3 DEF names

LEMMA ServerHelloFlightTerms ==
  ASSUME HInv, RInv, NEW c \in Conns, Gets(c, "S", "client_hello"),
         ServerHelloFlight(c, Logged([end[c]["S"] EXCEPT
                                       !.version = Smaller(Got(c, "S").body.version, server.max)],
                                     <<"client_hello">>), Got(c, "S").body)
  PROVE  RInv' /\ Promised
<1> DEFINE h == Got(c, "S").body
           v == Smaller(h.version, server.max)
           first == end[c]["S"]
           q == [first EXCEPT !.version = v]
           r == Logged(q, <<"client_hello">>)
           suite == Mutual(server, h.suites)[1]
           protos == IF h.npn THEN server.protos ELSE <<>>
           id == IF server.cache THEN c ELSE 0
           m == [version |-> r.version, id |-> id, suite |-> suite, protos |-> protos]
           sent == << <<"server_hello", m>> >>
                   \o CASE IsSrp(suite) -> ServerSRPKeyExchange(suite)
                        [] suite[1] = "cert" -> ServerCertKeyExchange(suite)
                        [] OTHER -> ServerAnonKeyExchange(suite)
           pc == IF suite[1] = "cert" /\ server.req THEN "certificate"
                 ELSE "client_key_exchange"
           x == [r EXCEPT !.suite = suite, !.id = id, !.basis = c, !.protos = protos,
                          !.pc = pc]
           next == Logged(x, Types(sent))
           out == Flight(r, sent)
<1>1. Proceed(c, "S", next, out) /\ sess' = sess /\ entriesDict' = entriesDict
  BY DEF ServerHelloFlight, cacheVars
<1>2. "S" \in Ends /\ first.pc = "client_hello" /\ EndShape(first)
  <2>1. "S" \in Ends
    BY DEF Ends
  <2>2. QED
    BY <2>1, Readies, AtTerms
<1>3. Counted(first, 0) /\ first.resumed = FALSE
  <2>1. ServerTerms(c, end[c]["C"], first)
    BY AtTerms
  <2>2. ~first.resumed
    BY <1>2, <2>1 DEF ServerTerms
  <2>3. QED
    BY <1>2, <2>1, <2>2 DEF ServerTerms, Over, Started, EndShape
<1>4. id \in {0, c} /\ pc \in {"certificate", "client_key_exchange"}
  OBVIOUS
<1>5. OfServer(server, sent, m) /\ \A b \in ToSet(sent) : b[1] # "finished"
  <2> HIDE DEF suite, m
  <2>1. OfServer(server, sent, m)
    BY ServerSends DEF IsSrp
  <2>2. QED
    BY <2>1 DEF OfServer
<1> HIDE DEF v, suite, sent, protos, id, pc
<1>6. EndShape(q) /\ q.log = first.log /\ q.resumed = FALSE
  BY <1>2, <1>3 DEF EndShape
<1> HIDE DEF q
<1>7. EndShape(r) /\ Counted(r, 0) /\ r.resumed = FALSE
  <2>1. Counted(q, 0)
    BY <1>3, <1>6 DEF Counted
  <2>2. QED
    BY <1>6, <2>1, LoggedKeeps, LoggedOne DEF SameTerms
<1> HIDE DEF r
<1>8. m.version = r.version /\ m.suite = suite /\ m.id = id
  OBVIOUS
<1>9. /\ EndShape(x) /\ x.version = r.version /\ x.suite = suite /\ x.id = id
      /\ x.pc = pc /\ x.basis = c /\ x.resumed = FALSE /\ x.log = r.log
  BY <1>7 DEF EndShape
<1> HIDE DEF x, m
<1>10. EndShape(next) /\ SameTerms(next, x) /\ Counted(next, 0)
  <2> DEFINE types == Types(sent)
  <2>1. IsSeq(types) /\ \A y \in ToSet(types) : y # "finished"
    BY <1>5, TypesKeep DEF OfServer
  <2> HIDE DEF types
  <2>2. next = Logged(x, types)
    BY DEF types
  <2>3. Counted(x, 0)
    BY <1>7, <1>9 DEF Counted
  <2>4. QED
    BY <1>9, <2>1, <2>2, <2>3, LoggedKeeps, CountedLogged
<1> HIDE DEF next
<1>11. /\ next.version = r.version /\ next.suite = suite /\ next.id = id
       /\ next.pc = pc /\ next.basis = c /\ next.resumed = FALSE
  BY <1>9, <1>10 DEF SameTerms
<1>12. c # 0
  BY DEF Conns
<1>13. IsSeq(out) /\ \A y \in ToSet(out) : TermsToClient(next, y)
  <2>1. /\ IsSeq(out)
        /\ \A y \in ToSet(out) : \E b \in ToSet(sent) : y.type = b[1] /\ y.body = b[2]
    BY <1>5, FlightElements DEF OfServer
  <2>2. \A y \in ToSet(out) : /\ y.type = "server_hello" => y.body = m
                              /\ y.type # "finished"
    BY <1>5, <2>1 DEF OfServer
  <2>3. QED
    BY <1>8, <1>11, <1>12, <2>1, <2>2 DEF TermsToClient
<1> HIDE DEF out
<1>14. next.pc \notin Deciding
  BY <1>4, <1>11 DEF Deciding, Over, Started
<1>15. ServerTerms(c, end[c]["C"], next)
  BY <1>4, <1>10, <1>11, <1>12, <1>14 DEF ServerTerms, Deciding
<1>16. QED
  BY <1>1, <1>10, <1>11, <1>13, <1>14, <1>15, ServerChooses

LEMMA ServerGetClientHelloTerms ==
  ASSUME HInv, RInv, NEW c \in Conns, ServerGetClientHello(c)
  PROVE  RInv' /\ Promised
<1> DEFINE h == Got(c, "S").body
           r == Logged([end[c]["S"] EXCEPT !.version = Smaller(h.version, server.max)],
                       <<"client_hello">>)
           old == sess[h.id]["S"]
<1>1. /\ Gets(c, "S", "client_hello")
      /\ \/ SendError(c, "S") \/ Raise(c, "S")
         \/ Cached(h.id) /\ ServerResumes(c, r, old)
         \/ ServerHelloFlight(c, r, h)
  BY DEF ServerGetClientHello
<1>2. "S" \in Ends /\ end[c]["S"].pc \notin {"idle"} \cup Over
  BY <1>1 DEF Gets, Ends, Over
<1>3. Cached(h.id) => h.id \in Conns /\ Fits(old, h.id)
  BY DEF Cached, Valid, RInv, Stored, Fits
<1>4. QED
  BY <1>1, <1>2, <1>3, ErrorPromised, ServerResumesTerms, ServerHelloFlightTerms

----------------------------------------------------------------------------
(* An end that comes up.                                                   *)

\* A session is made at the end e of c.
LEMMA MakesSession ==
  ASSUME HInv, NEW c \in Conns, NEW e \in Ends, NEW made,
         sess' = With(sess, c, e, made)
  PROVE  /\ \A f \in Ends \ {e} : Resumables(f)' = Resumables(f)
         /\ made.resumable = TRUE => Resumables(e)' = Resumables(e) \cup {c}
         /\ made.resumable = FALSE => Resumables(e)' = Resumables(e) \ {c}
         /\ sess'[c][e] = made
         /\ \A d \in Conns, f \in Ends : d # c \/ f # e => sess'[d][f] = sess[d][f]
<1>2. TwoArgs(Conns, Ends, sess)
  BY DEF HInv, Shape, TwoArgs
<1>3. /\ sess'[c][e] = made
      /\ \A d \in Conns, f \in Ends : d # c \/ f # e => sess'[d][f] = sess[d][f]
  BY <1>2, Replaced
<1>4. \A f \in Ends \ {e} : Resumables(f)' = Resumables(f)
  BY <1>3 DEF Resumables
<1>5. made.resumable = TRUE => Resumables(e)' = Resumables(e) \cup {c}
  BY <1>3 DEF Resumables
<1>6. made.resumable = FALSE => Resumables(e)' = Resumables(e) \ {c}
  BY <1>3 DEF Resumables
<1>7. QED
  BY <1>3, <1>4, <1>5, <1>6

LEMMA NoneYet == TermsOf(NewEnd).basis = 0 /\ \A r : TermsOf(r).basis = r.basis
  BY DEF TermsOf, NewEnd

LEMMA Ups ==
  ASSUME NEW c \in Conns, NEW e \in Ends
  PROVE  /\ Counted(end[c][e], 2) => WasUp(c, e)
         /\ Counted(end'[c][e], 2) => WasUp(c, e)'
         /\ WasUp(c, e) => Cardinality(Fins(end[c][e].log)) = 2
  BY DEF Counted, WasUp, Fins

\* What an end sends last.
LastOf(out, x) ==
  \A m \in ToSet(out) : /\ m.type \notin {"client_hello", "server_hello"}
                        /\ m.type = "finished" => m.body[1] = x.secret

LEMMA ClientUpPromised ==
  ASSUME HInv, RInv, NEW c \in Conns, NEW x, NEW out, Proceed(c, "C", x, out),
         EndShape(x), IsSeq(out), net[c]["C"] # <<>>,
         end[c]["C"].pc = "finished", x.pc = "check", SameBinding(x, end[c]["C"]),
         x.secret = end[c]["S"].secret, Counted(x, 2), LastOf(out, x),
         NEW made, made.resumable = TRUE,
         end[c]["C"].resumed => sess' = sess,
         ~end[c]["C"].resumed => sess' = With(sess, c, "C", made),
         entriesDict' = entriesDict
  PROVE  RInv' /\ Promised
<1> DEFINE r == end[c]["C"]
           s == end[c]["S"]
<1>1. Shape /\ "C" \in Ends /\ "S" \in Ends /\ Peer("C") = "S"
  BY DEF HInv, Ends, Peer
<1>2. /\ end'[c]["C"] = x /\ end'[c]["S"] = s
      /\ \A d \in Conns \ {c} : end'[d] = end[d] /\ net'[d] = net[d]
      /\ ToSet(net'[c]["C"]) \subseteq ToSet(net[c]["C"])
      /\ ToSet(net'[c]["S"]) \subseteq ToSet(net[c]["S"]) \cup ToSet(out)
  BY <1>1, Proceeds
<1>3. Elsewhere(c) /\ \A d \in Conns \ {c} : net'[d] = net[d]
  BY <1>2 DEF Elsewhere
<1>4. /\ ServerTerms(c, r, s) /\ ClientTerms(c, r, s)
      /\ \A m \in ToSet(net[c]["C"]) : TermsToClient(s, m)
      /\ \A m \in ToSet(net[c]["S"]) : TermsToServer(r, m)
  BY AtTerms
<1>5. Agrees(r, s)
  BY <1>4 DEF ClientTerms, Over
<1>6. Agrees(x, s) /\ x.offer = r.offer
  BY <1>5 DEF Agrees, SameBinding
<1>7. /\ \A f \in Ends : r.resumed => Resumables(f)' = Resumables(f)
      /\ ~r.resumed => /\ Resumables("S")' = Resumables("S")
                       /\ Resumables("C")' = Resumables("C") \cup {c}
      /\ \A d \in Conns : sess'[d]["S"] = sess[d]["S"]
  <2>1. CASE r.resumed
    <3>1. sess' = sess
      BY <2>1
    <3>2. QED
      BY <2>1, <3>1 DEF Resumables
  <2>2. CASE ~r.resumed
    <3>1. sess' = With(sess, c, "C", made)
      BY <2>2
    <3>2. /\ \A f \in Ends \ {"C"} : Resumables(f)' = Resumables(f)
          /\ made.resumable = TRUE => Resumables("C")' = Resumables("C") \cup {c}
          /\ made.resumable = FALSE => Resumables("C")' = Resumables("C") \ {c}
          /\ sess'[c]["C"] = made
          /\ \A d \in Conns, f \in Ends : d # c \/ f # "C" => sess'[d][f] = sess[d][f]
      BY <1>1, <3>1, MakesSession
    <3>3. QED
      BY <1>1, <2>2, <3>2
  <2>3. QED
    BY <2>1, <2>2
<1>8. TermsInv(c)'
  <2>1. ServerTerms(c, x, s)
    BY <1>4, <1>6 DEF ServerTerms
  <2>2. ClientTerms(c, x, s)
    BY <1>4, <1>6 DEF ClientTerms, Early, Started, Over, Agrees
  <2>3. \A m \in ToSet(net'[c]["S"]) : TermsToServer(x, m)
    BY <1>2, <1>4, <1>6 DEF TermsToServer, LastOf
  <2>4. Terms(c, x, s, net'[c]["C"], net'[c]["S"])
    BY <1>2, <1>4, <2>1, <2>2, <2>3 DEF Terms
  <2>5. QED
    BY <1>2, <2>4 DEF TermsInv
<1>9. Stored'
  BY <1>7 DEF RInv, Stored
<1>10. RInv'
  BY <1>3, <1>8, <1>9, TermsAt
<1>11. /\ View(c, "C") = "new" /\ View(c, "C")' = "up"
       /\ View(c, "S")' = View(c, "S")
  BY <1>2 DEF View, Gone
<1>12. ~WasUp(c, "C") /\ WasUp(c, "C")'
  <2>1. r.pc \in Midway
    BY DEF Midway
  <2>2. \E n \in {0, 1} : Counted(end[c]["C"], n)
    BY <1>4, <2>1, MidwayCounted
  <2>3. QED
    BY <1>1, <1>2, <2>2, NotUp, Ups
<1>13. Agreed(c)' = TermsOf(x) /\ Agreed(c)' # TermsOf(NewEnd)
  <2>1. Agreed(c)' = TermsOf(x)
    BY <1>2, <1>12 DEF Agreed
  <2>2. TermsOf(x).basis # TermsOf(NewEnd).basis
    BY <1>6, NoneYet DEF Agrees
  <2>3. QED
    BY <2>1, <2>2
<1>14. Agreed(c) \in {TermsOf(NewEnd), Agreed(c)'}
  <2>1. TermsOf(s) = TermsOf(x)
    BY <1>6 DEF TermsOf, Agrees
  <2>2. QED
    BY <1>12, <1>13, <2>1 DEF Agreed
<1>15. Session!Establish(c, "C")
  <2>1. s.basis # 0 /\ end'[c]["S"].basis = s.basis
    BY <1>2, <1>5 DEF Agrees
  <2>2. ~r.resumed => s.basis = c
    BY <1>4, <1>5 DEF Agrees, ServerTerms
  <2>3. QED
    BY <1>1, <1>3, <1>7, <1>11, <1>13, <1>14, <2>1, <2>2, Establishes
<1>16. QED
  BY <1>1, <1>10, <1>15 DEF Session!Next, Promised

LEMMA ServerUpPromised ==
  ASSUME HInv, RInv, NEW c \in Conns, NEW x, NEW out, Proceed(c, "S", x, out),
         EndShape(x), IsSeq(out), net[c]["S"] # <<>>,
         end[c]["S"].pc = "finished", x.pc = "check", SameBinding(x, end[c]["S"]),
         x.secret = end[c]["S"].secret, Counted(x, 2), LastOf(out, x),
         NEW made, made.resumable = TRUE, made.id = end[c]["S"].id,
         end[c]["S"].resumed => sess' = sess,
         ~end[c]["S"].resumed => sess' = With(sess, c, "S", made),
         entriesDict' \subseteq entriesDict \cup {c}
  PROVE  RInv' /\ Promised
<1> DEFINE r == end[c]["C"]
           s == end[c]["S"]
<1>1. Shape /\ "C" \in Ends /\ "S" \in Ends /\ Peer("S") = "C"
  BY DEF HInv, Ends, Peer
<1>2. /\ end'[c]["S"] = x /\ end'[c]["C"] = r
      /\ \A d \in Conns \ {c} : end'[d] = end[d] /\ net'[d] = net[d]
      /\ ToSet(net'[c]["S"]) \subseteq ToSet(net[c]["S"])
      /\ ToSet(net'[c]["C"]) \subseteq ToSet(net[c]["C"]) \cup ToSet(out)
  BY <1>1, Proceeds
<1>3. Elsewhere(c) /\ \A d \in Conns \ {c} : net'[d] = net[d]
  BY <1>2 DEF Elsewhere
<1>4. /\ ServerTerms(c, r, s) /\ ClientTerms(c, r, s)
      /\ \A m \in ToSet(net[c]["C"]) : TermsToClient(s, m)
      /\ \A m \in ToSet(net[c]["S"]) : TermsToServer(r, m)
  BY AtTerms
<1>5. /\ s.basis # 0
      /\ ~s.resumed => s.basis = c /\ s.id \in {0, c}
  BY <1>4 DEF ServerTerms, Over
<1>6. /\ \A f \in Ends : s.resumed => Resumables(f)' = Resumables(f)
      /\ ~s.resumed => /\ Resumables("C")' = Resumables("C")
                       /\ Resumables("S")' = Resumables("S") \cup {c}
      /\ \A d \in Conns : sess'[d]["S"].id \in {0, d}
  <2>1. CASE s.resumed
    <3>1. sess' = sess
      BY <2>1
    <3>2. QED
      BY <2>1, <3>1 DEF Resumables, RInv, Stored
  <2>2. CASE ~s.resumed
    <3>1. sess' = With(sess, c, "S", made)
      BY <2>2
    <3>2. /\ sess'[c]["S"] = made
          /\ \A d \in Conns : d # c => sess'[d]["S"] = sess[d]["S"]
          /\ Resumables("C")' = Resumables("C")
          /\ Resumables("S")' = Resumables("S") \cup {c}
      <4>1. /\ \A f \in Ends \ {"S"} : Resumables(f)' = Resumables(f)
            /\ made.resumable = TRUE => Resumables("S")' = Resumables("S") \cup {c}
            /\ made.resumable = FALSE => Resumables("S")' = Resumables("S") \ {c}
            /\ sess'[c]["S"] = made
            /\ \A d \in Conns, f \in Ends : d # c \/ f # "S" => sess'[d][f] = sess[d][f]
        BY <1>1, <3>1, MakesSession
      <4>2. QED
        BY <1>1, <4>1
    <3>3. QED
      BY <1>5, <2>2, <3>2 DEF RInv, Stored
  <2>3. QED
    BY <2>1, <2>2
<1>7. TermsInv(c)'
  <2>1. ServerTerms(c, r, x)
    BY <1>4 DEF ServerTerms, SameBinding, KeyExchange, Started, Over
  <2>2. ClientTerms(c, r, x)
    BY <1>4 DEF ClientTerms, Agrees, SameBinding
  <2>3. \A m \in ToSet(net[c]["C"]) : TermsToClient(x, m)
    BY <1>4 DEF TermsToClient, SameBinding, KeyExchange
  <2>4. \A m \in ToSet(out) : TermsToClient(x, m)
    BY DEF TermsToClient, LastOf, KeyExchange
  <2>5. Terms(c, r, x, net'[c]["C"], net'[c]["S"])
    BY <1>2, <1>4, <2>1, <2>2, <2>3, <2>4 DEF Terms
  <2>6. QED
    BY <1>2, <2>5 DEF TermsInv
<1>8. Stored'
  BY <1>6 DEF RInv, Stored
<1>9. RInv'
  BY <1>3, <1>7, <1>8, TermsAt
<1>10. /\ View(c, "S") = "new" /\ View(c, "S")' = "up"
       /\ View(c, "C")' = View(c, "C")
  BY <1>2 DEF View, Gone
<1>11. ~WasUp(c, "S") /\ WasUp(c, "S")' /\ WasUp(c, "C")' = WasUp(c, "C")
  <2>1. \E n \in {0, 1} : Counted(end[c]["S"], n)
    BY <1>4, DecidedCounted DEF Over, Started
  <2>2. WasUp(c, "C")' = WasUp(c, "C")
    BY <1>2 DEF WasUp
  <2>3. QED
    BY <1>1, <1>2, <2>1, <2>2, NotUp, Ups
<1>12. /\ Agreed(c)' # TermsOf(NewEnd)
       /\ Agreed(c) \in {TermsOf(NewEnd), Agreed(c)'}
  <2>1. CASE WasUp(c, "C")
    <3>1. Agreed(c) = TermsOf(r) /\ Agreed(c)' = TermsOf(r)
      BY <1>2, <1>11, <2>1 DEF Agreed
    <3>2. r.basis # 0
      BY <1>1, <1>4, <2>1, Ups DEF ClientTerms
    <3>3. TermsOf(r).basis # TermsOf(NewEnd).basis
      BY <3>2, NoneYet
    <3>4. QED
      BY <3>1, <3>3
  <2>2. CASE ~WasUp(c, "C")
    <3>1. Agreed(c) = TermsOf(NewEnd) /\ Agreed(c)' = TermsOf(x)
      BY <1>2, <1>11, <2>2 DEF Agreed
    <3>2. TermsOf(x).basis # TermsOf(NewEnd).basis
      BY <1>5, NoneYet DEF SameBinding
    <3>3. QED
      BY <3>1, <3>2
  <2>3. QED
    BY <2>1, <2>2
<1>13. Session!Establish(c, "S")
  <2>1. end'[c]["S"].basis = s.basis
    BY <1>2 DEF SameBinding
  <2>2. QED
    BY <1>1, <1>3, <1>5, <1>6, <1>10, <1>12, <2>1, Establishes
<1>14. QED
  BY <1>1, <1>9, <1>13 DEF Session!Next, Promised

\* The server whose cache is full gives up, after it has answered.
LEMMA FullPromised ==
  ASSUME HInv, RInv, NEW c \in Conns, NEW x, NEW out, Proceed(c, "S", x, out),
         EndShape(x), IsSeq(out), net[c]["S"] # <<>>,
         end[c]["S"].pc = "finished", x.pc = "failed", SameEnd(x, end[c]["S"]),
         LastOf(out, x), ~end[c]["S"].resumed,
         NEW made, made.resumable = FALSE, made.id = end[c]["S"].id,
         sess' = With(sess, c, "S", made),
         entriesDict' \subseteq entriesDict \cup {c}
  PROVE  RInv' /\ Promised
<1> DEFINE r == end[c]["C"]
           s == end[c]["S"]
<1>1. Shape /\ "C" \in Ends /\ "S" \in Ends /\ Peer("S") = "C"
  BY DEF HInv, Ends, Peer
<1>2. /\ end'[c]["S"] = x /\ end'[c]["C"] = r
      /\ \A d \in Conns \ {c} : end'[d] = end[d] /\ net'[d] = net[d]
      /\ ToSet(net'[c]["S"]) \subseteq ToSet(net[c]["S"])
      /\ ToSet(net'[c]["C"]) \subseteq ToSet(net[c]["C"]) \cup ToSet(out)
  BY <1>1, Proceeds
<1>3. Elsewhere(c) /\ \A d \in Conns \ {c} : net'[d] = net[d]
  BY <1>2 DEF Elsewhere
<1>4. /\ ServerTerms(c, r, s) /\ ClientTerms(c, r, s)
      /\ \A m \in ToSet(net[c]["C"]) : TermsToClient(s, m)
      /\ \A m \in ToSet(net[c]["S"]) : TermsToServer(r, m)
  BY AtTerms
<1>5. s.basis = c /\ s.id \in {0, c}
  BY <1>4 DEF ServerTerms, Over
<1>6. /\ sess'[c]["S"] = made
      /\ \A d \in Conns : d # c => sess'[d]["S"] = sess[d]["S"]
      /\ Resumables("C")' = Resumables("C")
      /\ Resumables("S")' = Resumables("S") \ {c}
  <2>1. /\ \A f \in Ends \ {"S"} : Resumables(f)' = Resumables(f)
        /\ made.resumable = TRUE => Resumables("S")' = Resumables("S") \cup {c}
        /\ made.resumable = FALSE => Resumables("S")' = Resumables("S") \ {c}
        /\ sess'[c]["S"] = made
        /\ \A d \in Conns, f \in Ends : d # c \/ f # "S" => sess'[d][f] = sess[d][f]
    BY <1>1, MakesSession
  <2>2. QED
    BY <1>1, <2>1
<1>7. x.pc \in Over
  BY DEF Over
<1>8. TermsInv(c)'
  <2>1. /\ ServerTerms(c, r, x) /\ ClientTerms(c, r, x)
        /\ \A m : TermsToClient(s, m) => TermsToClient(x, m)
    <3>1. SameEnd(x, s) /\ x.pc \in Over /\ ServerTerms(c, r, s) /\ ClientTerms(c, r, s)
      BY <1>4, <1>7
    <3> HIDE DEF r, s
    <3>2. QED
      BY <3>1, OverServerTerms
  <2>2. \A m \in ToSet(out) : TermsToClient(x, m)
    BY DEF TermsToClient, LastOf, KeyExchange
  <2>3. Terms(c, r, x, net'[c]["C"], net'[c]["S"])
    BY <1>2, <1>4, <2>1, <2>2 DEF Terms
  <2>4. QED
    BY <1>2, <2>3 DEF TermsInv
<1>9. Stored'
  <2>1. \A d \in Conns : sess'[d]["S"].id \in {0, d}
    BY <1>5, <1>6 DEF RInv, Stored
  <2>2. QED
    BY <2>1 DEF RInv, Stored
<1>10. RInv'
  BY <1>3, <1>8, <1>9, TermsAt
<1>11. /\ View(c, "S") # "over" /\ View(c, "S")' = "over"
       /\ View(c, "C")' = View(c, "C")
  BY <1>2 DEF View, Gone
<1>12. Agreed(c)' = Agreed(c)
  <2>1. /\ WasUp(c, "S")' = WasUp(c, "S") /\ WasUp(c, "C")' = WasUp(c, "C")
        /\ TermsOf(x) = TermsOf(s)
    BY <1>2 DEF SameEnd, WasUp, TermsOf
  <2>2. QED
    BY <1>2, <2>1 DEF Agreed
<1>13. Session!Leave(c, "S")
  <2>1. end'[c]["S"].basis = s.basis
    BY <1>2 DEF SameEnd
  <2>2. QED
    BY <1>1, <1>3, <1>5, <1>6, <1>11, <1>12, <2>1, Leaves
<1>14. QED
  BY <1>1, <1>10, <1>13 DEF Session!Next, Promised

\* What an end becomes that has read the other's Finished: one that answers it,
\* and one whose own Finished was the first.
Answers(c, e, old) ==
  [FinishedFlight(c, e, Logged(old, <<"finished">>), <<>>).next EXCEPT !.pc = "check"]
Listens(old) == [Logged(old, <<"finished">>) EXCEPT !.pc = "check"]
Finished(x, old, n) == /\ EndShape(x) /\ x.pc = "check" /\ SameBinding(x, old)
                       /\ x.secret = old.secret /\ Counted(x, n)

LEMMA FinishedEnds ==
  ASSUME NEW c, NEW e, NEW old, EndShape(old)
  PROVE  /\ Counted(old, 1) => Finished(Listens(old), old, 2)
         /\ Counted(old, 0) => Finished(Answers(c, e, old), old, 2)
         /\ LET out == FinishedFlight(c, e, Logged(old, <<"finished">>), <<>>).msgs
            IN  IsSeq(out) /\ LastOf(out, old)
<1> DEFINE r == Logged(old, <<"finished">>)
           last == FinishedFlight(c, e, r, <<>>)
<1>1. EndShape(r) /\ SameTerms(r, old)
  BY LoggedKeeps
<1>2. ASSUME NEW n \in {0, 1}, Counted(old, n)
      PROVE  Counted(r, n + 1)
  BY <1>2, SeqOne, CountedLogged
<1> HIDE DEF r
<1>3. Finishes(last, r)
  BY <1>1, SeqEmpty, FinishedFlightElements
<1>4. Counted(r, 1) => Counted(last.next, 1 + 1)
  BY <1>1, SeqEmpty, FinishedFlightCounts
<1> HIDE DEF last
<1>5. ASSUME NEW q, EndShape(q), SameTerms(q, r), Counted(q, 2)
      PROVE  Finished([q EXCEPT !.pc = "check"], old, 2)
  <2> DEFINE x == [q EXCEPT !.pc = "check"]
  <2>1. /\ EndShape(x) /\ x.pc = "check" /\ SameBinding(x, q) /\ x.secret = q.secret
        /\ x.log = q.log
    BY <1>5 DEF EndShape, SameBinding
  <2> HIDE DEF x
  <2>2. SameBinding(x, old) /\ x.secret = old.secret
    BY <1>1, <1>5, <2>1 DEF SameBinding, SameTerms
  <2>3. Counted(x, 2)
    BY <1>5, <2>1 DEF Counted
  <2>4. QED
    BY <2>1, <2>2, <2>3 DEF Finished, x
<1>6. Counted(old, 1) => Finished(Listens(old), old, 2)
  <2>1. Counted(old, 1) => Counted(r, 2)
    BY <1>2
  <2>2. SameTerms(r, r)
    BY DEF SameTerms
  <2>3. Listens(old) = [r EXCEPT !.pc = "check"]
    BY DEF Listens, r
  <2>4. QED
    BY <1>1, <1>5, <2>1, <2>2, <2>3
<1>7. Counted(old, 0) => Finished(Answers(c, e, old), old, 2)
  <2>1. Counted(old, 0) => Counted(last.next, 2)
    BY <1>2, <1>4
  <2>2. EndShape(last.next) /\ SameTerms(last.next, r)
    BY <1>3 DEF Finishes
  <2>3. Answers(c, e, old) = [last.next EXCEPT !.pc = "check"]
    BY DEF Answers, last, r
  <2>4. QED
    BY <1>5, <2>1, <2>2, <2>3
<1>8. IsSeq(last.msgs) /\ LastOf(last.msgs, old)
  <2>1. r.secret = old.secret
    BY <1>1 DEF SameTerms
  <2>2. QED
    BY <1>3, <2>1 DEF Finishes, LastOf
<1>9. QED
  BY <1>6, <1>7, <1>8 DEF last, r

LEMMA GetFinishedTerms ==
  ASSUME HInv, RInv, NEW c \in Conns, NEW e \in Ends, GetFinished(c, e)
  PROVE  RInv' /\ Promised
<1> DEFINE old == end[c][e]
           r == Logged(old, <<"finished">>)
           last == FinishedFlight(c, e, r, <<>>)
           answers == (e = "C") = r.resumed
           stores == e = "S" /\ ~r.resumed /\ server.cache
           full == stores /\ CacheFull
           up == [(IF answers THEN last.next ELSE r) EXCEPT !.pc = "check"]
           raised == [old EXCEPT !.pc = "failed", !.ws = NoKey, !.rs = NoKey]
           next == IF full THEN raised ELSE up
           out == IF answers THEN last.msgs ELSE <<>>
           made == [NewSession(c, e, r) EXCEPT !.resumable = ~full]
           bad == Got(c, e).body # VerifyData(old, Peer(e))
<1>1. /\ Gets(c, e, "finished")
      /\ bad => SendError(c, e)
      /\ ~bad => /\ Proceed(c, e, next, out)
                 /\ sess' = IF r.resumed THEN sess ELSE [sess EXCEPT ![c][e] = made]
                 /\ IF stores THEN CacheSession(c) ELSE UNCHANGED cacheVars
  BY DEF GetFinished
<1>2. /\ old.pc = "finished" /\ net[c][e] # <<>>
      /\ Got(c, e) \in ToSet(net[c][e]) /\ Got(c, e).type = "finished"
  BY <1>1, Readies DEF Expected
<1>3. /\ EndShape(old) /\ old.resumed \in BOOLEAN
      /\ EndShape(r) /\ r.resumed = old.resumed /\ r.id = old.id
  <2>1. EndShape(old)
    BY DEF HInv, Shape
  <2>2. QED
    BY <2>1, LoggedKeeps DEF SameTerms, EndShape
<1>4. CASE bad
  <2>1. SendError(c, e)
    BY <1>1, <1>4
  <2> HIDE DEF bad
  <2>2. QED
    BY <1>2, <2>1, ErrorPromised DEF Over
<1>5. CASE ~bad
  <2>1. /\ Proceed(c, e, next, out)
        /\ sess' = IF r.resumed THEN sess ELSE [sess EXCEPT ![c][e] = made]
        /\ IF stores THEN CacheSession(c) ELSE UNCHANGED cacheVars
    <3> HIDE DEF bad, next, out, made, r
    <3>1. QED
      BY <1>1, <1>5
  <2>2. /\ made.resumable = ~full /\ made.id = old.id
        /\ answers => up = Answers(c, e, old)
        /\ ~answers => up = Listens(old)
    <3>1. up = IF answers THEN Answers(c, e, old) ELSE Listens(old)
      BY DEF Answers, Listens
    <3>2. made = [NewSession(c, e, r) EXCEPT !.resumable = ~full]
      OBVIOUS
    <3> HIDE DEF full, made, answers
    <3>3. made.resumable = ~full /\ made.id = r.id
      BY <3>2 DEF NewSession
    <3>4. QED
      BY <1>3, <3>1, <3>3
  <2>3. /\ Counted(old, 1) => Finished(Listens(old), old, 2)
        /\ Counted(old, 0) => Finished(Answers(c, e, old), old, 2)
        /\ IsSeq(last.msgs) /\ LastOf(last.msgs, old)
    BY <1>3, FinishedEnds
  <2>4. /\ EndShape(raised) /\ raised.pc = "failed" /\ SameEnd(raised, old)
    BY <1>3 DEF EndShape, SameEnd
  <2>5. Got(c, e).body[1] = old.secret
    BY <1>5 DEF VerifyData
  <2> HIDE DEF bad, r, last, up, raised, made
  <2>6. IsSeq(out) /\ LastOf(out, old)
    BY <2>3, SeqEmpty DEF LastOf
  <2> HIDE DEF out
  <2>7. /\ old.resumed => sess' = sess
        /\ ~old.resumed => sess' = With(sess, c, e, made)
    BY <1>3, <2>1 DEF With
  <2>8. /\ entriesDict' \subseteq entriesDict \cup {c}
        /\ e = "C" => entriesDict' = entriesDict
    BY <2>1 DEF CacheSession, cacheVars
  <2>9. CASE e = "C"
    <3>1. ~full /\ answers = old.resumed
      BY <1>3, <2>9
    <3>2. next = up
      BY <3>1
    <3>3. /\ ClientTerms(c, old, end[c]["S"])
          /\ \A m \in ToSet(net[c][e]) : TermsToClient(end[c]["S"], m)
      BY <2>9, AtTerms
    <3>4. Finished(up, old, 2)
      <4>1. Counted(old, IF old.resumed THEN 0 ELSE 1)
        BY <1>2, <3>3 DEF ClientTerms
      <4>2. QED
        BY <1>3, <2>2, <2>3, <3>1, <4>1
    <3>5. old.secret = end[c]["S"].secret
      BY <1>2, <2>5, <3>3 DEF TermsToClient
    <3>6. LastOf(out, up)
      BY <2>6, <3>4 DEF LastOf, Finished
    <3>7. made.resumable = TRUE
      BY <2>2, <3>1
    <3> HIDE DEF old, next
    <3>8. /\ Proceed(c, "C", up, out) /\ net[c]["C"] # <<>> /\ end[c]["C"].pc = "finished"
          /\ EndShape(up) /\ up.pc = "check" /\ SameBinding(up, end[c]["C"])
          /\ up.secret = end[c]["S"].secret /\ Counted(up, 2)
      BY <1>2, <2>1, <2>9, <3>2, <3>4, <3>5 DEF Finished, old
    <3>9. /\ end[c]["C"].resumed => sess' = sess
          /\ ~end[c]["C"].resumed => sess' = With(sess, c, "C", made)
      BY <2>7, <2>9 DEF old
    <3>10. QED
      BY <2>6, <2>8, <2>9, <3>6, <3>7, <3>8, <3>9, ClientUpPromised
  <2>10. CASE e = "S"
    <3>1. ServerTerms(c, end[c]["C"], old)
      BY <2>10, AtTerms
    <3>2. answers = ~old.resumed
      BY <1>3, <2>10
    <3>3. Finished(up, old, 2)
      <4>1. Counted(old, IF old.resumed THEN 1 ELSE 0)
        BY <1>2, <3>1 DEF ServerTerms, Over, Started
      <4>2. QED
        BY <1>3, <2>2, <2>3, <3>2, <4>1
    <3>4. full => ~old.resumed
      BY <1>3
    <3> HIDE DEF old, full, answers
    <3>5. /\ net[c]["S"] # <<>> /\ end[c]["S"].pc = "finished"
          /\ Proceed(c, "S", next, out) /\ made.id = end[c]["S"].id
      BY <1>2, <2>1, <2>2, <2>10 DEF old
    <3>6. CASE full
      <4>1. /\ Proceed(c, "S", raised, out) /\ EndShape(raised) /\ raised.pc = "failed"
            /\ SameEnd(raised, end[c]["S"]) /\ ~end[c]["S"].resumed
            /\ LastOf(out, raised)
        BY <2>4, <2>6, <2>10, <3>4, <3>5, <3>6 DEF old, LastOf, SameEnd
      <4>2. sess' = With(sess, c, "S", made) /\ made.resumable = FALSE
        BY <2>2, <2>7, <2>10, <3>4, <3>6
      <4>3. QED
        BY <2>6, <2>8, <3>5, <4>1, <4>2, FullPromised
    <3>7. CASE ~full
      <4>1. Proceed(c, "S", up, out)
        BY <3>5, <3>7
      <4>2. /\ EndShape(up) /\ up.pc = "check" /\ SameBinding(up, end[c]["S"])
            /\ up.secret = end[c]["S"].secret /\ Counted(up, 2)
            /\ LastOf(out, up)
        BY <2>6, <2>10, <3>3 DEF Finished, old, LastOf
      <4>3. made.resumable = TRUE
        BY <2>2, <3>7
      <4>4. /\ end[c]["S"].resumed => sess' = sess
            /\ ~end[c]["S"].resumed => sess' = With(sess, c, "S", made)
        BY <2>7, <2>10 DEF old
      <4>5. QED
        BY <2>6, <2>8, <3>5, <4>1, <4>2, <4>3, <4>4, ServerUpPromised
    <3>8. QED
      BY <3>6, <3>7
  <2>11. QED
    BY <2>9, <2>10 DEF Ends
<1>6. QED
  BY <1>4, <1>5

\* An end whose checker is content stays up, one whose checker is not gives up.
LEMMA CheckPeerTerms ==
  ASSUME HInv, RInv, NEW c \in Conns, NEW e \in Ends, CheckPeer(c, e)
  PROVE  RInv' /\ Promised
<1> DEFINE old == end[c][e]
           expected == IF e = "C" THEN client[c].check ELSE server.check
           fine == expected = "any" \/ old.resumed \/ old.chain = expected
           x == [old EXCEPT !.pc = "open"]
           bye == Alert("close_notify", old)
<1>1. /\ old.pc = "check" /\ entriesDict' = entriesDict
      /\ fine => end' = [end EXCEPT ![c][e].pc = "open"] /\ net' = net /\ sess' = sess
      /\ ~fine => Shutdown(c, e, FALSE, <<bye>>)
  BY DEF CheckPeer, cacheVars
<1> HIDE DEF fine
<1>2. CASE ~fine
  <2>1. bye.type = "alert"
    BY DEF Alert, Rec
  <2>2. Shutdown(c, e, FALSE, <<bye>>) /\ old.pc \notin {"idle"} \cup Over
    BY <1>1, <1>2 DEF Over
  <2> HIDE DEF bye
  <2>3. IsSeq(<<bye>>) /\ \A m \in ToSet(<<bye>>) : m.type = "alert"
    BY <2>1, SeqOne
  <2>4. QED
    BY <1>1, <2>2, <2>3, ShutdownLeaves DEF Promised
<1>3. CASE fine
  <2>1. /\ end = [d \in Conns |-> [f \in Ends |-> end[d][f]]]
        /\ EndShape(old)
    BY DEF HInv, Shape
  <2>2. EndShape(x) /\ SameEnd(x, old) /\ x.pc = "open"
    BY <2>1 DEF EndShape, SameEnd
  <2>3. end' = [end EXCEPT ![c][e] = x] /\ net' = net /\ sess' = sess
    BY <1>1, <1>3, Zenon
  <2> HIDE DEF x
  <2>4. /\ end'[c][e] = x
        /\ \A d \in Conns, f \in Ends : d # c \/ f # e => end'[d][f] = end[d][f]
        /\ Elsewhere(c)
    <3>1. TwoArgs(Conns, Ends, end) /\ end' = With(end, c, e, x)
      BY <2>1, <2>3 DEF TwoArgs, With
    <3>2. QED
      BY <3>1, Replaced DEF Elsewhere
  <2>5. \A f \in Ends : SameEnd(end'[c][f], end[c][f])
    BY <2>2, <2>4 DEF SameEnd
  <2>6. "C" \in Ends /\ "S" \in Ends
    BY DEF Ends
  <2>7. TermsInv(c)'
    <3> DEFINE r == end[c]["C"]
               s == end[c]["S"]
    <3>1. /\ ServerTerms(c, r, s) /\ ClientTerms(c, r, s)
          /\ \A m \in ToSet(net[c]["C"]) : TermsToClient(s, m)
          /\ \A m \in ToSet(net[c]["S"]) : TermsToServer(r, m)
      BY AtTerms
    <3>2. CASE e = "C"
      <4>1. ServerTerms(c, x, s)
        BY <2>2, <3>1, <3>2 DEF ServerTerms, SameEnd
      <4>2. ClientTerms(c, x, s)
        BY <1>1, <2>2, <3>1, <3>2
           DEF ClientTerms, SameEnd, Early, Started, Agrees, Counted, Over
      <4>3. \A m \in ToSet(net[c]["S"]) : TermsToServer(x, m)
        BY <2>2, <3>1, <3>2 DEF TermsToServer, SameEnd
      <4>4. Terms(c, x, s, net[c]["C"], net[c]["S"])
        BY <3>1, <4>1, <4>2, <4>3 DEF Terms
      <4>5. end'[c]["C"] = x /\ end'[c]["S"] = s
        BY <2>4, <2>6, <3>2
      <4>6. QED
        BY <2>3, <4>4, <4>5 DEF TermsInv
    <3>3. CASE e = "S"
      <4>1. ServerTerms(c, r, x)
        BY <1>1, <2>2, <3>1, <3>3
           DEF ServerTerms, SameEnd, KeyExchange, Started, Counted, Over
      <4>2. ClientTerms(c, r, x)
        BY <2>2, <3>1, <3>3 DEF ClientTerms, SameEnd, Agrees
      <4>3. \A m \in ToSet(net[c]["C"]) : TermsToClient(x, m)
        BY <1>1, <2>2, <3>1, <3>3 DEF TermsToClient, SameEnd, KeyExchange
      <4>4. Terms(c, r, x, net[c]["C"], net[c]["S"])
        BY <3>1, <4>1, <4>2, <4>3 DEF Terms
      <4>5. end'[c]["S"] = x /\ end'[c]["C"] = r
        BY <2>4, <2>6, <3>3
      <4>6. QED
        BY <2>3, <4>4, <4>5 DEF TermsInv
    <3>4. QED
      BY <3>2, <3>3 DEF Ends
  <2>8. Stored'
    BY <1>1, <2>3 DEF RInv, Stored
  <2>9. RInv'
    BY <2>3, <2>4, <2>7, <2>8, TermsAt
  <2>10. end'[c]["S"].basis = end[c]["S"].basis /\ Agreed(c)' = Agreed(c)
    <3>1. \A f \in Ends : /\ WasUp(c, f)' = WasUp(c, f)
                          /\ TermsOf(end'[c][f]) = TermsOf(end[c][f])
      BY <2>5 DEF SameEnd, WasUp, TermsOf
    <3>2. QED
      BY <2>5, <2>6, <3>1 DEF SameEnd, Agreed
  <2>11. \A f \in Ends : View(c, f)' = View(c, f)
    BY <1>1, <2>2, <2>4 DEF View, Gone
  <2>12. \A f \in Ends : Resumables(f)' = Resumables(f)
    BY <2>3 DEF Resumables
  <2>13. UNCHANGED Session!vars
    BY <2>4, <2>10, <2>11, <2>12, Stutters
  <2>14. QED
    BY <2>9, <2>13 DEF Promised
<1>4. QED
  BY <1>2, <1>3

\* An alert, an unexpected message, a broken connection, a program that is done.
LEMMA HangUpTerms ==
  ASSUME HInv, RInv, NEW c \in Conns, NEW e \in Ends,
         GetAlert(c, e) \/ GetUnexpected(c, e) \/ GetEOF(c, e) \/ Close(c, e)
  PROVE  RInv' /\ Promised
<1> DEFINE bye == Alert("close_notify", end[c][e])
<1>1. end[c][e].pc \notin {"idle"} \cup Over
  BY DEF GetAlert, GetUnexpected, GetEOF, Close, Reads, Active, Over
<1>2. \/ SendError(c, e) \/ Raise(c, e)
      \/ /\ Shutdown(c, e, TRUE, <<bye>>) \/ Shutdown(c, e, FALSE, <<>>)
         /\ entriesDict' = entriesDict
  BY DEF GetAlert, GetUnexpected, GetEOF, Close, cacheVars
<1>3. bye.type = "alert"
  BY DEF Alert, Rec
<1> HIDE DEF bye
<1>4. /\ IsSeq(<<bye>>) /\ \A m \in ToSet(<<bye>>) : m.type = "alert"
      /\ IsSeq(<<>>) /\ \A m \in ToSet(<<>>) : m.type = "alert"
  BY <1>3, SeqOne, SeqEmpty
<1>5. CASE SendError(c, e) \/ Raise(c, e)
  BY <1>1, <1>5, ErrorPromised
<1>6. CASE Shutdown(c, e, TRUE, <<bye>>) /\ entriesDict' = entriesDict
  BY <1>1, <1>4, <1>6, ShutdownLeaves DEF Promised
<1>7. CASE Shutdown(c, e, FALSE, <<>>) /\ entriesDict' = entriesDict
  BY <1>1, <1>4, <1>7, ShutdownLeaves DEF Promised
<1>8. QED
  BY <1>2, <1>5, <1>6, <1>7

LEMMA ServerRefusesTerms ==
  ASSUME HInv, RInv, NEW c \in Conns, ServerRefuses(c)
  PROVE  RInv' /\ Promised
<1>1. Raise(c, "S") /\ "S" \in Ends /\ end[c]["S"].pc \notin {"idle"} \cup Over
  BY DEF ServerRefuses, Ends, Over
<1>2. QED
  BY <1>1, ErrorPromised

\* What changes neither the ends nor their sessions.
LEMMA UnmovedTerms ==
  ASSUME RInv, end' = end, net' = net, sess' = sess, entriesDict' = entriesDict
  PROVE  RInv' /\ Promised
<1>1. RInv'
  BY DEF RInv, Stored, TermsInv
<1>2. UNCHANGED Session!vars
  BY DEF Session!vars, WasUp, Gone
<1>3. QED
  BY <1>1, <1>2 DEF Promised

\* A connection that is opened, or whose client gives up before it is.
LEMMA ConnectTerms ==
  ASSUME HInv, RInv, NEW c \in Conns, Connect(c)
  PROVE  RInv' /\ Promised
<1> DEFINE p == client[c]
<1>1. end[c]["C"].pc = "idle" /\ sess' = sess /\ entriesDict' = entriesDict
  BY DEF Connect, cacheVars
<1>2. /\ end[c]["S"].pc = "idle" /\ net[c]["C"] = <<>> /\ sess[c]["C"] = NoSession
      /\ "C" \in Ends /\ "S" \in Ends
  BY <1>1 DEF HInv, Unused, Ends
<1>3. PICK s \in {0} \cup {d \in Conns : sess[d]["C"] # NoSession} :
        LET offer == IF s # 0 /\ Valid(s, "C") THEN s ELSE 0
            old == sess[s]["C"]
            suites == ClientSuites(p)
            fits == /\ Filters(p) /\ (p.user = NoText) = (p.password = NoText)
                    /\ offer # 0 => /\ old.user = p.user /\ old.name = p.name
                                    /\ old.suite \in ToSet(suites)
            hello == [version |-> p.max, id |-> offer, suites |-> suites,
                      user |-> p.user, name |-> p.name, npn |-> p.protos # <<>>]
        IN  /\ end' = [end EXCEPT ![c] =
                  [C |-> [NewEnd EXCEPT !.pc = IF fits THEN "server_hello" ELSE "failed",
                             !.version = p.max, !.offer = offer,
                             !.log = IF fits THEN <<"client_hello">> ELSE <<>>],
                   S |-> [NewEnd EXCEPT !.pc = "client_hello", !.version = server.max]]]
            /\ net' = [net EXCEPT ![c]["S"] =
                  IF fits THEN <<Rec("client_hello", hello, NoKey)>> ELSE <<>>]
  BY Zenon DEF Connect
<1> DEFINE offer == IF s # 0 /\ Valid(s, "C") THEN s ELSE 0
           old == sess[s]["C"]
           suites == ClientSuites(p)
           fits == /\ Filters(p) /\ (p.user = NoText) = (p.password = NoText)
                   /\ offer # 0 => /\ old.user = p.user /\ old.name = p.name
                                   /\ old.suite \in ToSet(suites)
           hello == [version |-> p.max, id |-> offer, suites |-> suites,
                     user |-> p.user, name |-> p.name, npn |-> p.protos # <<>>]
           log == IF fits THEN <<"client_hello">> ELSE <<>>
           pc == IF fits THEN "server_hello" ELSE "failed"
           r == [NewEnd EXCEPT !.pc = pc, !.version = p.max, !.offer = offer, !.log = log]
           t == [NewEnd EXCEPT !.pc = "client_hello", !.version = server.max]
           rec == Rec("client_hello", hello, NoKey)
           out == IF fits THEN <<rec>> ELSE <<>>
<1>4. /\ end' = [end EXCEPT ![c] = [C |-> r, S |-> t]]
      /\ net' = [net EXCEPT ![c]["S"] = out]
  BY <1>3
<1>5. offer # c
  BY <1>2, <1>3 DEF Conns
<1>6. rec.type = "client_hello" /\ rec.body = hello /\ hello.id = offer
  BY DEF Rec
<1>7. pc \in {"server_hello", "failed"} /\ log \in {<<"client_hello">>, <<>>}
  OBVIOUS
<1> HIDE DEF fits, offer, log, pc
<1>8. r.pc = pc /\ r.offer = offer /\ ~r.resumed /\ r.log = log
  BY DEF NewEnd
<1>9. /\ t.pc = "client_hello" /\ ~t.resumed /\ t.basis = 0 /\ t.log = <<>>
  BY DEF NewEnd
<1> HIDE DEF r, t, rec, hello
<1>10. \A m \in ToSet(out) : m = rec
  BY SeqEmpty, SeqOne
<1> HIDE DEF out, p
<1>11. /\ end = [d \in Conns |-> [f \in Ends |-> end[d][f]]]
       /\ net = [d \in Conns |-> [f \in Ends |-> net[d][f]]]
  BY DEF HInv, Shape
<1>12. /\ end'[c]["C"] = r /\ end'[c]["S"] = t /\ Elsewhere(c)
  <2> DEFINE new == [C |-> r, S |-> t]
  <2>1. new["C"] = r /\ new["S"] = t
    OBVIOUS
  <2> HIDE DEF new
  <2>2. end'[c] = new /\ \A d \in Conns \ {c} : end'[d] = end[d]
    BY <1>4, <1>11 DEF new
  <2>3. QED
    BY <2>1, <2>2 DEF Elsewhere
<1>13. /\ net'[c]["C"] = <<>> /\ net'[c]["S"] = out
       /\ \A d \in Conns \ {c} : net'[d] = net[d]
  <2>1. TwoArgs(Conns, Ends, net) /\ net' = With(net, c, "S", out)
    BY <1>4, <1>11 DEF TwoArgs, With
  <2>2. /\ net'[c]["S"] = out
        /\ \A d \in Conns, f \in Ends : d # c \/ f # "S" => net'[d][f] = net[d][f]
        /\ \A d \in Conns \ {c} : net'[d] = net[d]
    BY <1>2, <2>1, Replaced
  <2>3. QED
    BY <1>2, <2>2
<1>14. Counted(r, 0) /\ Counted(t, 0)
  <2>1. Counted(t, 0)
    BY <1>9, CountedNone
  <2>2. Counted([log |-> <<"client_hello">>], 0)
    <3>1. Fins(<<"client_hello">>) = {}
      BY SeqOne, NoFins
    <3>2. QED
      BY <3>1, SeqOne, FS_EmptySet DEF Counted
  <2>3. Counted(r, 0)
    BY <1>7, <1>8, <2>2, CountedNone DEF Counted
  <2>4. QED
    BY <2>1, <2>3
<1>15. ~WasUp(c, "C") /\ ~WasUp(c, "S") /\ ~WasUp(c, "C")' /\ ~WasUp(c, "S")'
  <2>1. ClientTerms(c, end[c]["C"], end[c]["S"]) /\ ServerTerms(c, end[c]["C"], end[c]["S"])
    BY AtTerms
  <2>2. Counted(end[c]["C"], 0)
    BY <1>1, <2>1 DEF ClientTerms, Early
  <2>3. ~end[c]["S"].resumed /\ Counted(end[c]["S"], 0)
    BY <1>2, <2>1 DEF ServerTerms, Started, Over
  <2>4. Counted(end'[c]["C"], 0) /\ Counted(end'[c]["S"], 0)
    BY <1>12, <1>14
  <2>5. QED
    BY <1>2, <2>2, <2>3, <2>4, NotUp, NotUpThen
<1>16. TermsInv(c)'
  <2>1. ServerTerms(c, r, t)
    BY <1>9, <1>14 DEF ServerTerms, KeyExchange, Started, Over
  <2>2. ClientTerms(c, r, t)
    BY <1>5, <1>7, <1>8, <1>14 DEF ClientTerms, Early, Started, Over, Counted
  <2>3. \A m \in ToSet(<<>>) : TermsToClient(t, m)
    BY SeqEmpty
  <2>4. \A m \in ToSet(out) : TermsToServer(r, m)
    BY <1>6, <1>8, <1>10 DEF TermsToServer
  <2>5. Terms(c, r, t, <<>>, out)
    BY <2>1, <2>2, <2>3, <2>4 DEF Terms
  <2>6. QED
    BY <1>12, <1>13, <2>5 DEF TermsInv
<1>17. Stored'
  BY <1>1 DEF RInv, Stored
<1>18. RInv'
  BY <1>12, <1>13, <1>16, <1>17, TermsAt
<1>19. end[c]["S"].basis = 0 /\ end'[c]["S"].basis = end[c]["S"].basis
  <2>1. end[c]["S"].basis = 0
    BY <1>2, AtTerms DEF ServerTerms
  <2>2. QED
    BY <1>9, <1>12, <2>1
<1>20. Agreed(c)' = Agreed(c)
  BY <1>15 DEF Agreed
<1>21. \A f \in Ends : Resumables(f)' = Resumables(f)
  BY <1>1 DEF Resumables
<1>22. /\ View(c, "C") = "new" /\ View(c, "S") = "new" /\ View(c, "S")' = "new"
  BY <1>1, <1>2, <1>9, <1>12 DEF View, Gone
<1>23. CASE pc = "server_hello"
  <2>1. View(c, "C")' = "new"
    BY <1>8, <1>12, <1>23 DEF View, Gone
  <2>2. \A f \in Ends : View(c, f)' = View(c, f)
    BY <1>22, <2>1 DEF Ends
  <2>3. UNCHANGED Session!vars
    BY <1>12, <1>19, <1>20, <1>21, <2>2, Stutters
  <2>4. QED
    BY <1>18, <2>3 DEF Promised
<1>24. CASE pc = "failed"
  <2>1. View(c, "C")' = "over" /\ Peer("C") = "S"
    BY <1>8, <1>12, <1>24 DEF View, Gone, Peer
  <2>2. View(c, Peer("C"))' = View(c, Peer("C"))
    <3>1. View(c, "S")' = View(c, "S")
      BY <1>22
    <3>2. QED
      BY <2>1, <3>1
  <2>3. Session!Leave(c, "C")
    BY <1>2, <1>12, <1>19, <1>20, <1>21, <1>22, <2>1, <2>2, Leaves
  <2>4. QED
    BY <1>2, <1>18, <2>3 DEF Promised, Session!Next
<1>25. QED
  BY <1>7, <1>23, <1>24

----------------------------------------------------------------------------
(* The refinement.                                                         *)

LEMMA InitRInv == Init => RInv /\ Session!Init
<1> SUFFICES ASSUME Init PROVE RInv /\ Session!Init
  OBVIOUS
<1>1. /\ \A c \in Conns, e \in Ends :
           end[c][e] = NewEnd /\ net[c][e] = <<>> /\ sess[c][e] = NoSession
      /\ entriesDict = {} /\ "C" \in Ends /\ "S" \in Ends
  BY DEF Init, Ends
<1>2. /\ NewEnd.pc = "idle" /\ NewEnd.basis = 0 /\ ~NewEnd.resumed /\ NewEnd.offer = 0
      /\ NewEnd.log = <<>> /\ NoSession.id = 0 /\ NoSession.resumable = FALSE
  BY DEF NewEnd, NoSession
<1>3. Counted(NewEnd, 0)
  BY <1>2, CountedNone
<1>4. ASSUME NEW c \in Conns PROVE TermsInv(c)
  <2>1. ServerTerms(c, NewEnd, NewEnd)
    BY <1>2, <1>3 DEF ServerTerms, KeyExchange, Started, Over
  <2>2. ClientTerms(c, NewEnd, NewEnd)
    BY <1>2, <1>3 DEF ClientTerms, Early, Started, Over, Counted, Conns
  <2>3. Terms(c, NewEnd, NewEnd, <<>>, <<>>)
    BY <2>1, <2>2, SeqEmpty DEF Terms
  <2>4. QED
    BY <1>1, <2>3 DEF TermsInv
<1>5. RInv
  BY <1>1, <1>2, <1>4 DEF RInv, Stored
<1>6. \A c \in Conns : /\ end[c]["S"].basis = 0 /\ Agreed(c) = TermsOf(NewEnd)
                       /\ \A e \in Ends : View(c, e) = "new"
  <2>1. \A c \in Conns, e \in Ends : ~WasUp(c, e)
    BY <1>1, <1>3, NotUp
  <2>2. QED
    BY <1>1, <1>2, <2>1 DEF Agreed, View, Gone
<1>7. \A e \in Ends : Resumables(e) = {}
  BY <1>1, <1>2 DEF Resumables
<1>8. /\ [c \in Conns |-> end[c]["S"].basis] = [c \in Conns |-> 0]
      /\ [c \in Conns |-> Agreed(c)] = [c \in Conns |-> TermsOf(NewEnd)]
      /\ [c \in Conns |-> [e \in Ends |-> View(c, e)]]
           = [c \in Conns |-> [e \in Ends |-> "new"]]
      /\ [e \in Ends |-> Resumables(e)] = [e \in Ends |-> {}]
  BY <1>6, <1>7
<1>9. Session!Init
  BY <1>8 DEF Session!Init, Agreed, View, Resumables
<1>10. QED
  BY <1>5, <1>9

\* Every step keeps the terms and is a step of TlsSession or none.
LEMMA NextPromised ==
  ASSUME HInv, RInv, [Next]_vars
  PROVE  RInv' /\ Promised
<1>1. CASE UNCHANGED vars
  BY <1>1, UnmovedTerms DEF vars
<1>2. ASSUME NEW c \in Conns, Connect(c) PROVE RInv' /\ Promised
  BY <1>2, ConnectTerms
<1>3. ASSUME NEW c \in Conns, ClientStep(c) PROVE RInv' /\ Promised
  BY <1>3, ClientGetServerHelloTerms, ClientGetCertificateTerms,
     ClientGetServerKeyExchangeTerms, ClientGetCertificateRequestTerms,
     ClientKeyExchangeTerms DEF ClientStep
<1>4. ASSUME NEW c \in Conns, ServerStep(c) PROVE RInv' /\ Promised
  BY <1>4, ServerRefusesTerms, ServerGetClientHelloTerms, ServerGetCertificateTerms,
     ServerGetClientKeyExchangeTerms, ServerGetCertificateVerifyTerms,
     ServerGetNextProtocolTerms DEF ServerStep
<1>5. ASSUME NEW c \in Conns, NEW e \in Ends, EndStep(c, e) PROVE RInv' /\ Promised
  BY <1>5, GetChangeCipherSpecTerms, GetFinishedTerms, CheckPeerTerms, HangUpTerms
     DEF EndStep
<1>6. ASSUME NEW c \in Conns, NEW e \in Ends, Close(c, e) PROVE RInv' /\ Promised
  BY <1>6, HangUpTerms
<1>7. ASSUME NEW c \in Conns, Break(c) PROVE RInv' /\ Promised
  BY <1>7, UnmovedTerms DEF Break, cacheVars
<1>8. CASE Tick
  BY <1>8, UnmovedTerms DEF Tick, cacheVars
<1>9. QED
  BY <1>1, <1>2, <1>3, <1>4, <1>5, <1>6, <1>7, <1>8 DEF Next, System

\* The handshake implements TlsSession: the two ends that come up agree on the
\* version, the suite, the session and its secret, the server bases a
\* connection on a session of its own or on one that it may still resume, and a
\* session that an end has given up never becomes resumable again there.
THEOREM Refines == Spec => ImplementsSession
<1>1. Init => HInv /\ RInv /\ Session!Init
  BY InitHInv, InitRInv
<1>2. HInv /\ RInv /\ [Next]_vars => (HInv /\ RInv)' /\ [Session!Next]_(Session!vars)
  BY NextHInv, NextPromised DEF Promised
<1>3. QED
  BY <1>1, <1>2, PTL DEF Spec, ImplementsSession, Session!Spec
=============================================================================
