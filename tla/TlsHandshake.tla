--------------------------- MODULE TlsHandshake ---------------------------
(***************************************************************************)
(* The handshake of revsw/tlslite: tlsconnection.py over the record layer  *)
(* of tlsrecordlayer.py, with sessions, their cache and the checkers.  A   *)
(* client opens connections to one server, one after the other, and may    *)
(* offer to resume the session of an earlier one; the server has a thread  *)
(* for each.  An action is what an end does between two messages it waits  *)
(* for.                                                                    *)
(*                                                                         *)
(* Left out: the contents that nothing depends on (compression, TACK,      *)
(* which is not installed, the descriptions of alerts other than           *)
(* close_notify, MD5 suites, which are off), the arithmetic of the key     *)
(* exchanges (a secret is "shared", or "own" when the client computed      *)
(* another one than the server), and induced faults.  A digest of the      *)
(* messages is the sequence of their types.                                *)
(***************************************************************************)
EXTENDS TlsMessages, FiniteSets

CONSTANTS
    MaxConns,     \* how many connections the client opens
    Cases,        \* what handshakeServer is called with, and a sequence of what
                  \* handshakeClient* is called with, connection by connection
    Users,        \* the user names in the server's VerifierDB
    Utf8,         \* the bytes of each name and protocol
    MaxEntries,   \* the size of the session cache
    MaxBreaks,    \* how often a network connection breaks
    MaxNow        \* how often a session's age limit passes

ASSUME TlsAssumption == /\ MaxConns \in Nat /\ MaxEntries \in Nat \ {0, 1}
                        /\ MaxBreaks \in Nat /\ MaxNow \in Nat

\* Versions are numbers, and a checker, where there is one, has a fingerprint to
\* look for.
CasesAreProper(k) ==
    /\ {k[1].min, k[1].max} \subseteq Int /\ k[1].check # "none"
    /\ \A c \in DOMAIN k[2] : /\ {k[2][c].min, k[2][c].max} \subseteq Int
                              /\ k[2][c].check # "none"
ASSUME CasesAssumption == \A k \in Cases : CasesAreProper(k)

Conns == 1 .. MaxConns
Ends == {"C", "S"}
Peer(e) == IF e = "C" THEN "S" ELSE "C"
Smaller(a, b) == IF a < b THEN a ELSE b

VARIABLES
    server,       \* the server's parameters
    client,       \* the parameters of the connections' clients
    end,          \* the TLSConnection object at each end of each connection
    net,          \* the records on their way to each end
    sess,         \* the Session object made at each end by a full handshake
    entriesDict,  \* SessionCache: the sessions found by their ids
    entriesList,  \* SessionCache: the circular list of ids and their times
    lastIndex,    \* SessionCache: where the next pair goes
    now,          \* time, in units of maxAge
    disturbed     \* the connections that broke or that an end has closed

cacheVars == <<entriesDict, entriesList, lastIndex>>
envVars == <<server, client, now, disturbed>>
vars == <<server, client, end, net, sess, entriesDict, entriesList, lastIndex,
          now, disturbed>>

NoKey == <<>>
\* No user name, password or server name.
NoText == ""
\* Session.__init__.
NoSession == [secret |-> <<>>, id |-> 0, suite |-> <<>>, user |-> NoText,
              name |-> NoText, resumable |-> FALSE]

\* TLSRecordLayer.__init__.  "pc" is the type of message that the end waits
\* for, "check" when it is up but its checker has not been asked, then "open",
\* "closed" or "failed".  "basis" is the connection that made its session,
\* "offer" the one whose session the client offers to resume.
NewEnd == [pc |-> "idle", version |-> 0, suite |-> <<>>, id |-> 0, offer |-> 0,
           basis |-> 0, secret |-> <<>>, log |-> <<>>, ws |-> NoKey, rs |-> NoKey,
           chain |-> "none", requested |-> FALSE, protos |-> <<>>,
           resumed |-> FALSE]

Gone(c, e) == end[c][e].pc \in {"closed", "failed"}
Active(c, e) == end[c][e].pc \notin {"idle", "closed", "failed"}

\* CipherSuite.get...Suites: in the order of the class, not of the settings.
SuitesOf(kx, ciphers) ==
    LET order == CASE kx = "anon" -> <<"aes128", "aes256">>
                   [] kx = "cert" -> <<"3des", "aes128", "aes256", "rc4">>
                   [] OTHER       -> <<"3des", "aes128", "aes256">>
        named == SelectSeq(order, LAMBDA n : n \in ciphers)
    IN  [i \in DOMAIN named |-> <<kx, named[i]>>]

ClientSuites(p) ==
    IF p.kx = "srp" THEN SuitesOf("srp", p.ciphers) \o SuitesOf("srp_cert", p.ciphers)
    ELSE SuitesOf(p.kx, p.ciphers)

ServerSuites(k) ==
    CASE k.db    -> (IF k.chain # "none" THEN SuitesOf("srp_cert", k.ciphers) ELSE <<>>)
                    \o SuitesOf("srp", k.ciphers)
      [] ~k.db /\ k.chain # "none" -> SuitesOf("cert", k.ciphers)
      [] OTHER   -> SuitesOf("anon", k.ciphers)

\* The suites of a server that the client offers too, best first.
Mutual(k, suites) == SelectSeq(ServerSuites(k), LAMBDA s : s \in ToSet(suites))
IsSrp(suite) == suite[1] \in {"srp", "srp_cert"}
HasCertificate(suite) == suite[1] \in {"cert", "srp_cert"}

-----------------------------------------------------------------------------
(* Records and what an end does with them.                                 *)

Rec(type, body, key) == [type |-> type, body |-> body, key |-> key]
Alert(description, r) == Rec("alert", description, r.ws)

\* The keys of one direction, derived from the master secret and the randoms
\* of this connection (_calcPendingStates).
Key(c, e, r) == <<r.secret, c, r.version, r.suite, e>>

Logged(r, types) == [r EXCEPT !.log = @ \o types]

\* _calcFinished: the master secret, the sender and the handshake so far.
VerifyData(r, sender) == <<r.secret, sender, r.log>>

\* _sendFinished: the last messages of an end and the record with which it
\* goes on.
FinishedFlight(c, e, r, proto) ==
    LET key == Key(c, e, r)
        with == Logged(r, [i \in DOMAIN proto |-> "next_protocol"])
    IN  [msgs |-> <<Rec("change_cipher_spec", 1, r.ws)>>
                  \o [i \in DOMAIN proto |-> Rec("next_protocol", proto[i], key)]
                  \o <<Rec("finished", VerifyData(with, e), key)>>,
         next |-> [Logged(with, <<"finished">>) EXCEPT !.ws = key]]

\* Mutant of Flight: the last record stays in the buffer.
UnflushedFlight(r, bodies) ==
    [i \in 1 .. Len(bodies) - 1 |-> Rec(bodies[i][1], bodies[i][2], r.ws)]

\* Records under one key, with the handshake messages logged.
Flight(r, bodies) == [i \in DOMAIN bodies |-> Rec(bodies[i][1], bodies[i][2], r.ws)]
Types(bodies) == [i \in DOMAIN bodies |-> bodies[i][1]]

\* What arrives at an end whose socket is closed is lost.
Deliver(c, e, out) ==
    IF Gone(c, Peer(e)) THEN net[c][Peer(e)] ELSE net[c][Peer(e)] \o out

\* End e takes the first record and goes on as r, having sent out.
Proceed(c, e, r, out) ==
    /\ end' = [end EXCEPT ![c][e] = r]
    /\ net' = [net EXCEPT ![c] = [d \in Ends |->
                  IF d = e THEN Tail(@[e]) ELSE Deliver(c, e, out)]]

\* _shutdown, after out was sent: the keys are dropped, the socket is closed
\* and the session of the connection, if it has one, is not resumed again
\* unless the end was an orderly one.  A handshake that it ends has failed.
Shutdown(c, e, resumable, out) ==
    /\ end' = [end EXCEPT ![c][e] = [end[c][e] EXCEPT !.ws = NoKey, !.rs = NoKey,
                  !.pc = IF end[c][e].pc = "open" THEN "closed" ELSE "failed"]]
    /\ net' = [net EXCEPT ![c] = [d \in Ends |->
                  IF d = e THEN <<>> ELSE Deliver(c, e, out)]]
    /\ sess' = IF resumable \/ end[c][e].pc \notin {"check", "open"} THEN sess
               ELSE [sess EXCEPT ![end[c][e].basis][e].resumable = FALSE]

\* _sendError, and an exception that sends nothing.
SendError(c, e) ==
    Shutdown(c, e, FALSE, <<Alert("fatal", end[c][e])>>) /\ UNCHANGED cacheVars
Raise(c, e) == Shutdown(c, e, FALSE, <<>>) /\ UNCHANGED cacheVars

\* Mutant of Expected: a server always asks for a certificate.
OneExpected(pc) == {pc}

\* _getMsg: the record that e waits for is there and decrypts.
Expected(pc) == IF pc = "certificate_request"
                THEN {"certificate_request", "server_hello_done"} ELSE {pc}
Got(c, e) == Head(net[c][e])
Gets(c, e, pc) ==
    /\ end[c][e].pc = pc
    /\ net[c][e] # <<>>
    /\ Got(c, e).type \in Expected(pc)
    /\ Got(c, e).key = end[c][e].rs
    /\ UNCHANGED envVars

-----------------------------------------------------------------------------
(* The bytes of the messages.                                              *)

SuiteNumber(suite) ==
    CASE suite = <<"srp", "3des">> -> 49178 [] suite = <<"srp", "aes128">> -> 49181
      [] suite = <<"srp", "aes256">> -> 49184 [] suite = <<"srp_cert", "3des">> -> 49179
      [] suite = <<"srp_cert", "aes128">> -> 49182
      [] suite = <<"srp_cert", "aes256">> -> 49185
      [] suite = <<"cert", "3des">> -> 10 [] suite = <<"cert", "aes128">> -> 47
      [] suite = <<"cert", "aes256">> -> 53 [] suite = <<"cert", "rc4">> -> 5
      [] suite = <<"anon", "aes128">> -> 52 [] suite = <<"anon", "aes256">> -> 58

\* The attributes with which the message that waits for e was created.  Big
\* numbers, signatures and certificates are short ones.
Created(c, e) ==
    LET m == Got(c, e).body
        id(s) == IF s = 0 THEN <<>> ELSE [i \in 1 .. 32 |-> s]
        random == [i \in 1 .. 32 |-> c]
        chain(n) == IF n = "none" THEN <<>> ELSE <<<<Len(n)>>>>
    IN  CASE Got(c, e).type = "client_hello" ->
               [major |-> 3, minor |-> m.version, random |-> random,
                session_id |-> id(m.id), compression_methods |-> <<0>>,
                cipher_suites |-> <<255>> \o [i \in DOMAIN m.suites |-> SuiteNumber(m.suites[i])],
                certificate_types |-> <<0>>, srp_username |-> Utf8[m.user],
                tack |-> FALSE, supports_npn |-> m.npn, server_name |-> Utf8[m.name]]
          [] Got(c, e).type = "server_hello" ->
               [major |-> 3, minor |-> m.version, random |-> random,
                session_id |-> id(m.id), cipher_suite |-> SuiteNumber(m.suite),
                compression_method |-> 0, certificate_type |-> 0,
                next_protos |-> [i \in DOMAIN m.protos |->
                                   [j \in DOMAIN m.protos[i] |-> Utf8[m.protos[i][j]]]]]
          [] Got(c, e).type = "certificate" -> [certChain |-> chain(m)]
          [] Got(c, e).type = "server_key_exchange" ->
               [dh_p |-> 65537, dh_g |-> 2, dh_Ys |-> c, srp_N |-> 65537, srp_g |-> 2,
                srp_s |-> random, srp_B |-> 256, signature |-> random]
          [] Got(c, e).type = "certificate_request" ->
               [certificate_types |-> <<1>>, certificate_authorities |-> <<random, <<c>>>>]
          [] Got(c, e).type = "client_key_exchange" ->
               [dh_Yc |-> c, srp_A |-> 256, encryptedPreMasterSecret |-> random]
          [] Got(c, e).type = "certificate_verify" -> [signature |-> random]
          [] Got(c, e).type = "next_protocol" -> [next_proto |-> Utf8[m]]
          [] Got(c, e).type = "finished" ->
               [verify_data |-> [i \in 1 .. IF end[c][e].version = 0 THEN 36 ELSE 12 |-> i]]
          [] OTHER -> <<>>

\* The message's parse method understands what its write method wrote.
Arrives(c, e) ==
    LET r == end[c][e]
        family == IF r.suite = <<>> THEN "" ELSE r.suite[1]
        used == ToSet([i \in DOMAIN Layout(Got(c, e).type, family, r.version) |->
                         Layout(Got(c, e).type, family, r.version)[i].field])
        all == Created(c, e)
        m == IF Got(c, e).type \in {"server_key_exchange", "client_key_exchange"}
             THEN [f \in used |-> all[f]] ELSE all
    IN  Survives(Got(c, e).type, family, r.version, m)

-----------------------------------------------------------------------------
(* Sessions and their cache.                                               *)

\* Mutant of Valid: a session is valid for as long as it is known.
KnownIsValid(s, e) == sess[s][e] # NoSession /\ sess[s][e].id # 0

\* Session.valid.
Valid(s, e) == sess[s][e] # NoSession /\ sess[s][e].resumable /\ sess[s][e].id # 0

\* SessionCache._purge: the oldest pair has expired, and "del" is asked to
\* look up its id, a bytearray, which is not hashable: a TypeError.
PurgeRaises == /\ entriesList # <<>>
               /\ now > entriesList[1].time

\* SessionCache.__getitem__ finds a session that is still resumable.
Cached(id) == id \in entriesDict /\ Valid(id, "S")

\* SessionCache.__setitem__, which raises, for the same reason as _purge,
\* once the list is full; by then lastIndex equals firstIndex and the list
\* counts as empty.
CacheFull == (lastIndex + 1) % MaxEntries = 0
CacheSession(c) ==
    /\ entriesDict' = entriesDict \cup {c}
    /\ lastIndex' = (lastIndex + 1) % MaxEntries
    /\ entriesList' = IF CacheFull THEN <<>>
                      ELSE Append(entriesList, [id |-> c, time |-> now])

-----------------------------------------------------------------------------
(* The client.                                                             *)

ClientReady(c) == c \in DOMAIN client /\ \A d \in Conns : d < c => end[d]["C"].pc \in {"open", "closed", "failed"}

\* HandshakeSettings._filter raises no ValueError.
Filters(p) == p.ciphers # {} /\ p.min =< p.max

\* handshakeClient* up to the ClientHello, and the thread that the server
\* starts for the connection.  Settings that make no sense, or a session that
\* does not fit the parameters, are a ValueError; a session that is not valid
\* is ignored.
Connect(c) ==
    /\ end[c]["C"].pc = "idle" /\ ClientReady(c)
    /\ \E s \in {0} \cup {d \in Conns : sess[d]["C"] # NoSession} :
         LET p == client[c]
             offer == IF s # 0 /\ Valid(s, "C") THEN s ELSE 0
             old == sess[s]["C"]
             suites == ClientSuites(p)
             fits == /\ Filters(p) /\ (p.user = NoText) = (p.password = NoText)
                     /\ offer # 0 => /\ old.user = p.user /\ old.name = p.name
                                     /\ old.suite \in ToSet(suites)
             hello == [version |-> p.max, id |-> offer, suites |-> suites,
                       user |-> p.user, name |-> p.name, npn |-> p.protos # <<>>]
         IN  /\ end' = [end EXCEPT ![c] =
                   [C |-> [NewEnd EXCEPT !.pc = IF fits THEN "server_hello" ELSE "failed",
                              !.version = p.max, !.offer = offer,
                              !.log = IF fits THEN <<"client_hello">> ELSE <<>>],
                    S |-> [NewEnd EXCEPT !.pc = "client_hello", !.version = server.max]]]
             /\ net' = [net EXCEPT ![c]["S"] =
                   IF fits THEN <<Rec("client_hello", hello, NoKey)>> ELSE <<>>]
    /\ UNCHANGED <<sess, cacheVars, envVars>>

\* _clientGetServerHello, _clientSelectNextProto and _clientResume up to the
\* message that the client waits for next.
ClientGetServerHello(c) ==
    /\ Gets(c, "C", "server_hello")
    /\ LET p == client[c]
           m == Got(c, "C").body
           r == Logged([end[c]["C"] EXCEPT !.version = m.version, !.suite = m.suite,
                                           !.id = m.id], <<"server_hello">>)
           common == SelectSeq(p.protos, LAMBDA n : m.protos # <<>> /\ n \in ToSet(m.protos[1]))
           proto == IF m.protos = <<>> \/ p.protos = <<>> THEN <<>>
                    ELSE IF common # <<>> THEN <<common[1]>> ELSE <<p.protos[1]>>
           resumes == r.offer # 0 /\ m.id = r.offer
           bad == \/ m.version < p.min \/ m.version > p.max
                  \/ m.suite \notin ToSet(ClientSuites(p))
                  \/ m.protos # <<>> /\ p.protos = <<>>
                  \/ resumes /\ m.suite # sess[r.offer]["C"].suite
       IN  IF bad THEN SendError(c, "C")
           ELSE /\ Proceed(c, "C",
                     IF resumes
                     THEN [r EXCEPT !.pc = "change_cipher_spec", !.resumed = TRUE,
                                    !.basis = r.offer,
                                    !.secret = sess[r.offer]["C"].secret]
                     ELSE [r EXCEPT !.basis = c, !.protos = proto,
                                    !.pc = IF HasCertificate(m.suite) THEN "certificate"
                                           ELSE "server_key_exchange"], <<>>)
                /\ UNCHANGED <<sess, cacheVars>>

\* The messages of the server that the client only stores.
ClientGetCertificate(c) ==
    /\ Gets(c, "C", "certificate")
    /\ LET r == Logged(end[c]["C"], <<"certificate">>)
       IN  Proceed(c, "C", [r EXCEPT !.chain = Got(c, "C").body,
                              !.pc = IF IsSrp(r.suite) THEN "server_key_exchange"
                                     ELSE "certificate_request"], <<>>)
    /\ UNCHANGED <<sess, cacheVars>>

ClientGetServerKeyExchange(c) ==
    /\ Gets(c, "C", "server_key_exchange")
    /\ Proceed(c, "C", Logged([end[c]["C"] EXCEPT !.pc = "server_hello_done"],
                              <<"server_key_exchange">>), <<>>)
    /\ UNCHANGED <<sess, cacheVars>>

ClientGetCertificateRequest(c) ==
    /\ Gets(c, "C", "certificate_request") /\ Got(c, "C").type = "certificate_request"
    /\ Proceed(c, "C", Logged([end[c]["C"] EXCEPT !.pc = "server_hello_done",
                                                  !.requested = TRUE],
                              <<"certificate_request">>), <<>>)
    /\ UNCHANGED <<sess, cacheVars>>

\* What a client does after the ServerHelloDone, by the family of the suite:
\* what it sends, the secret it computes, and whether it gives up because the
\* server's keys are outside of its limits (which make it "strict").
ClientSRPKeyExchange(p, r) ==
    [bad |-> p.strict, sent |-> <<<<"client_key_exchange", "A">>>>,
     secret |-> IF p.password = "right" THEN "shared" ELSE "own"]

ClientRSAKeyExchange(p, r) ==
    [bad |-> p.strict, secret |-> "shared",
     sent |-> (IF r.requested THEN <<<<"certificate", p.cert>>>> ELSE <<>>)
              \o <<<<"client_key_exchange", "encrypted">>>>
              \o (IF r.requested /\ p.cert # "none"
                  THEN <<<<"certificate_verify", p.cert>>>> ELSE <<>>)]

ClientAnonKeyExchange(p, r) ==
    [bad |-> FALSE, sent |-> <<<<"client_key_exchange", "Yc">>>>, secret |-> "shared"]

\* Which of them it is (_handshakeClientAsyncHelper).
ClientExchange(p, r) ==
    CASE IsSrp(r.suite)      -> ClientSRPKeyExchange(p, r)
      [] r.suite[1] = "anon" -> ClientAnonKeyExchange(p, r)
      [] OTHER               -> ClientRSAKeyExchange(p, r)

\* The key exchange and _clientFinished up to the server's answer.
ClientKeyExchange(c) ==
    /\ \/ Gets(c, "C", "server_hello_done")
       \/ Gets(c, "C", "certificate_request") /\ Got(c, "C").type = "server_hello_done"
    /\ LET p == client[c]
           r == end[c]["C"]
           x == ClientExchange(p, r)
           known == Logged([r EXCEPT !.secret = <<x.secret, c>>],
                           <<"server_hello_done">> \o Types(x.sent))
           last == FinishedFlight(c, "C", known, r.protos)
       IN  IF x.bad THEN SendError(c, "C")
           ELSE /\ Proceed(c, "C", [last.next EXCEPT !.pc = "change_cipher_spec"],
                           Flight(r, x.sent) \o last.msgs)
                /\ UNCHANGED <<sess, cacheVars>>

-----------------------------------------------------------------------------
(* The server.                                                             *)

\* A server that resumes: ServerHello and its own last messages at once.
ServerResumes(c, r, old) ==
    LET m == [version |-> r.version, id |-> old.id, suite |-> old.suite, protos |-> <<>>]
        agreed == Logged([r EXCEPT !.suite = old.suite, !.id = old.id, !.basis = old.id,
                             !.secret = old.secret, !.resumed = TRUE], <<"server_hello">>)
        last == FinishedFlight(c, "S", agreed, <<>>)
    IN  /\ Proceed(c, "S", [last.next EXCEPT !.pc = "change_cipher_spec"],
                   Flight(r, <<<<"server_hello", m>>>>) \o last.msgs)
        /\ UNCHANGED <<sess, cacheVars>>

\* What the server sends up to its ServerHelloDone; a suite that is neither SRP
\* nor with a certificate alone is an anonymous one.
ServerSRPKeyExchange(suite) ==
    (IF HasCertificate(suite) THEN <<<<"certificate", server.chain>>>> ELSE <<>>)
    \o <<<<"server_key_exchange", suite>>, <<"server_hello_done", suite>>>>

ServerCertKeyExchange(suite) ==
    <<<<"certificate", server.chain>>>>
    \o (IF server.req THEN <<<<"certificate_request", suite>>>> ELSE <<>>)
    \o <<<<"server_hello_done", suite>>>>

ServerAnonKeyExchange(suite) ==
    <<<<"server_key_exchange", suite>>, <<"server_hello_done", suite>>>>

\* The first flight of a full handshake.
ServerHelloFlight(c, r, h) ==
    LET suite == Mutual(server, h.suites)[1]
        protos == IF h.npn THEN server.protos ELSE <<>>
        id == IF server.cache THEN c ELSE 0
        m == [version |-> r.version, id |-> id, suite |-> suite, protos |-> protos]
        sent == <<<<"server_hello", m>>>>
                \o CASE IsSrp(suite) -> ServerSRPKeyExchange(suite)
                     [] suite[1] = "cert" -> ServerCertKeyExchange(suite)
                     [] OTHER -> ServerAnonKeyExchange(suite)
    IN  /\ Proceed(c, "S",
              Logged([r EXCEPT !.suite = suite, !.id = id, !.basis = c, !.protos = protos,
                         !.pc = IF suite[1] = "cert" /\ server.req THEN "certificate"
                                ELSE "client_key_exchange"],
                     Types(sent)),
              Flight(r, sent))
        /\ UNCHANGED <<sess, cacheVars>>

\* handshakeServer with settings that make no sense: a ValueError.
ServerRefuses(c) ==
    /\ end[c]["S"].pc = "client_hello" /\ ~Filters(server)
    /\ Raise(c, "S") /\ UNCHANGED envVars

\* _serverGetClientHello: the version, a session from the cache, which must
\* fit the ClientHello, or else the first suite of the server's that the
\* client offers.
ServerGetClientHello(c) ==
    /\ Gets(c, "S", "client_hello") /\ Filters(server)
    /\ LET h == Got(c, "S").body
           r == Logged([end[c]["S"] EXCEPT !.version = Smaller(h.version, server.max)],
                       <<"client_hello">>)
           asks == h.id # 0 /\ server.cache
           old == sess[h.id]["S"]
           fits == /\ old.suite \in ToSet(h.suites)
                   /\ old.suite \in ToSet(ServerSuites(server))
                   /\ h.user \in {NoText, old.user} /\ h.name \in {NoText, old.name}
           impossible == \/ Mutual(server, h.suites) = <<>>
                         \/ IsSrp(Mutual(server, h.suites)[1]) /\ h.user \notin Users
       IN  CASE h.version < server.min -> SendError(c, "S")
             [] h.version >= server.min /\ asks /\ PurgeRaises -> Raise(c, "S")
             [] h.version >= server.min /\ asks /\ ~PurgeRaises /\ Cached(h.id) ->
                  IF fits THEN ServerResumes(c, r, old) ELSE SendError(c, "S")
             [] OTHER -> IF impossible THEN SendError(c, "S")
                         ELSE ServerHelloFlight(c, r, h)

ServerGetCertificate(c) ==
    /\ Gets(c, "S", "certificate")
    /\ Proceed(c, "S", Logged([end[c]["S"] EXCEPT !.pc = "client_key_exchange",
                                                  !.chain = Got(c, "S").body],
                              <<"certificate">>), <<>>)
    /\ UNCHANGED <<sess, cacheVars>>

ServerGetClientKeyExchange(c) ==
    /\ Gets(c, "S", "client_key_exchange")
    /\ LET r == Logged([end[c]["S"] EXCEPT !.secret = <<"shared", c>>],
                       <<"client_key_exchange">>)
       IN  Proceed(c, "S", [r EXCEPT !.pc = IF r.chain # "none" THEN "certificate_verify"
                                            ELSE "change_cipher_spec"], <<>>)
    /\ UNCHANGED <<sess, cacheVars>>

ServerGetCertificateVerify(c) ==
    /\ Gets(c, "S", "certificate_verify")
    /\ IF server.strict THEN SendError(c, "S")
       ELSE /\ Proceed(c, "S", Logged([end[c]["S"] EXCEPT !.pc = "change_cipher_spec"],
                                      <<"certificate_verify">>), <<>>)
            /\ UNCHANGED <<sess, cacheVars>>

\* NextProtocol.parse stops after the protocol, before the padding that
\* NextProtocol.write always adds: a SyntaxError, hence a decode_error.
ServerGetNextProtocol(c) ==
    /\ Gets(c, "S", "next_protocol")
    /\ IF Arrives(c, "S")
       THEN /\ Proceed(c, "S", Logged([end[c]["S"] EXCEPT !.pc = "finished"],
                                      <<"next_protocol">>), <<>>)
            /\ UNCHANGED <<sess, cacheVars>>
       ELSE SendError(c, "S")

-----------------------------------------------------------------------------
(* Both ends.                                                              *)

\* The first part of _getFinished: from here on the peer writes encrypted.
GetChangeCipherSpec(c, e) ==
    /\ Gets(c, e, "change_cipher_spec")
    /\ LET r == end[c][e]
       IN  Proceed(c, e, [r EXCEPT !.rs = Key(c, Peer(e), r),
                            !.pc = IF e = "S" /\ r.protos # <<>> THEN "next_protocol"
                                   ELSE "finished"], <<>>)
    /\ UNCHANGED <<sess, cacheVars>>

\* The rest of _getFinished.  In a full handshake the server answers with its
\* own Finished, in a resumed one the client.  Both then bind the session, the
\* server puts a new one into its cache, and the connection is open.
NewSession(c, e, r) ==
    [secret |-> r.secret, id |-> r.id, suite |-> r.suite, user |-> client[c].user,
     name |-> client[c].name, resumable |-> TRUE]

GetFinished(c, e) ==
    /\ Gets(c, e, "finished")
    /\ LET r == Logged(end[c][e], <<"finished">>)
           last == FinishedFlight(c, e, r, <<>>)
           answers == (e = "C") = r.resumed
           up == [(IF answers THEN last.next ELSE r) EXCEPT !.pc = "check"]
           out == IF answers THEN last.msgs ELSE <<>>
           stores == e = "S" /\ ~r.resumed /\ server.cache
           raised == [end[c][e] EXCEPT !.pc = "failed", !.ws = NoKey, !.rs = NoKey]
       IN  IF Got(c, e).body # VerifyData(end[c][e], Peer(e)) THEN SendError(c, e)
           ELSE /\ Proceed(c, e, IF stores /\ CacheFull THEN raised ELSE up, out)
                /\ sess' = IF r.resumed THEN sess
                           ELSE [sess EXCEPT ![c][e] =
                                   [NewSession(c, e, r) EXCEPT
                                       !.resumable = ~(stores /\ CacheFull)]]
                /\ IF stores THEN CacheSession(c) ELSE UNCHANGED cacheVars

\* Mutant of CheckPeer: a server has no checker.
CheckServer(c, e) ==
    /\ end[c][e].pc = "check"
    /\ IF e = "S" \/ client[c].check = "any" \/ end[c][e].resumed
          \/ end[c][e].chain = client[c].check
       THEN end' = [end EXCEPT ![c][e].pc = "open"] /\ UNCHANGED <<net, sess>>
       ELSE Shutdown(c, e, FALSE, <<Alert("close_notify", end[c][e])>>)
    /\ UNCHANGED <<cacheVars, envVars>>

\* The end of _handshakeWrapperAsync: Checker looks at the peer's certificate,
\* but not again when the session was resumed.  A peer that is turned down is
\* told by a close_notify.
CheckPeer(c, e) ==
    /\ end[c][e].pc = "check"
    /\ LET expected == IF e = "C" THEN client[c].check ELSE server.check
       IN  IF expected = "any" \/ end[c][e].resumed \/ end[c][e].chain = expected
           THEN end' = [end EXCEPT ![c][e].pc = "open"] /\ UNCHANGED <<net, sess>>
           ELSE Shutdown(c, e, FALSE, <<Alert("close_notify", end[c][e])>>)
    /\ UNCHANGED <<cacheVars, envVars>>

Reads(c, e) == Active(c, e) /\ end[c][e].pc # "check"

\* _getMsg on what the end does not wait for: an alert, of which only a
\* close_notify, answered by another, leaves the session resumable; a record
\* that does not decrypt; a message out of order.
GetAlert(c, e) ==
    /\ Reads(c, e) /\ net[c][e] # <<>>
    /\ Got(c, e).type = "alert" /\ Got(c, e).key = end[c][e].rs
    /\ IF Got(c, e).body = "close_notify"
       THEN Shutdown(c, e, TRUE, <<Alert("close_notify", end[c][e])>>)
       ELSE Shutdown(c, e, FALSE, <<>>)
    /\ UNCHANGED <<cacheVars, envVars>>

GetUnexpected(c, e) ==
    /\ Reads(c, e) /\ net[c][e] # <<>>
    /\ \/ Got(c, e).key # end[c][e].rs
       \/ Got(c, e).type \notin Expected(end[c][e].pc) \cup {"alert"}
    /\ SendError(c, e) /\ UNCHANGED envVars

\* The peer's socket is closed and all it sent is read (TLSAbruptCloseError),
\* or recv or send fails, which may happen before.
GetEOF(c, e) ==
    /\ Reads(c, e)
    /\ Gone(c, Peer(e)) \/ c \in disturbed
    /\ Raise(c, e) /\ UNCHANGED envVars

\* TLSRecordLayer.close, by a program that is done.
Close(c, e) ==
    /\ end[c][e].pc = "open"
    /\ disturbed' = disturbed \cup {c}
    /\ Shutdown(c, e, TRUE, <<Alert("close_notify", end[c][e])>>)
    /\ UNCHANGED <<server, client, now, cacheVars>>

Break(c) ==
    /\ c \notin disturbed /\ Cardinality(disturbed) < MaxBreaks
    /\ Active(c, "C") \/ Active(c, "S")
    /\ disturbed' = disturbed \cup {c}
    /\ UNCHANGED <<server, client, end, net, sess, now, cacheVars>>

\* The sessions in the cache reach maxAge.
Tick == now < MaxNow /\ now' = now + 1
        /\ UNCHANGED <<server, client, end, net, sess, disturbed, cacheVars>>

ClientStep(c) ==
    \/ ClientGetServerHello(c) \/ ClientGetCertificate(c)
    \/ ClientGetServerKeyExchange(c) \/ ClientGetCertificateRequest(c)
    \/ ClientKeyExchange(c)

ServerStep(c) ==
    \/ ServerRefuses(c) \/ ServerGetClientHello(c) \/ ServerGetCertificate(c)
    \/ ServerGetClientKeyExchange(c) \/ ServerGetCertificateVerify(c)
    \/ ServerGetNextProtocol(c)

EndStep(c, e) ==
    \/ GetChangeCipherSpec(c, e) \/ GetFinished(c, e) \/ CheckPeer(c, e)
    \/ GetAlert(c, e) \/ GetUnexpected(c, e) \/ GetEOF(c, e)

System(c) == ClientStep(c) \/ ServerStep(c) \/ \E e \in Ends : EndStep(c, e)

Init ==
    /\ \E k \in Cases : server = k[1] /\ client = k[2]
    /\ end = [c \in Conns |-> [e \in Ends |-> NewEnd]]
    /\ net = [c \in Conns |-> [e \in Ends |-> <<>>]]
    /\ sess = [c \in Conns |-> [e \in Ends |-> NoSession]]
    /\ entriesDict = {} /\ entriesList = <<>> /\ lastIndex = 0
    /\ now = 0 /\ disturbed = {}

Next == \/ \E c \in Conns : \/ Connect(c) \/ System(c) \/ Break(c)
                            \/ \E e \in Ends : Close(c, e)
        \/ Tick

Spec == Init /\ [][Next]_vars
\* Two programs that block in recv and go on when they can.
FairSpec == Spec /\ \A c \in Conns : WF_vars(System(c))

-----------------------------------------------------------------------------
(* Properties.                                                             *)

\* Whether a connection can come about at all: what handshakeClient* and
\* handshakeServer were called with fits together.
VersionsMeet(p) == /\ p.max >= server.min
                   /\ Smaller(p.max, server.max) >= p.min

Compatible(p) ==
    LET common == Mutual(server, ClientSuites(p))
        suite == common[1]
        asked == suite[1] = "cert" /\ server.req
    IN  /\ Filters(server) /\ common # <<>>
        /\ IsSrp(suite) => p.user \in Users /\ p.password = "right"
        /\ suite[1] # "anon" => ~p.strict
        /\ asked /\ p.cert # "none" => ~server.strict
        /\ p.check \in {"any"} \cup
             (IF HasCertificate(suite) THEN {server.chain} ELSE {})
        /\ server.check \in {"any"} \cup (IF asked THEN {p.cert} \ {"none"} ELSE {})

Resumed(c) == end[c]["S"].resumed
Up(c, e) == end[c][e].pc = "open"

\* When both ends are open their parameters fitted, unless they resumed a
\* session: the version is the best of both, the suite the first of the
\* server's that both know, and each checker, if there is one, has seen the
\* certificate it was given to expect.
OpenIsNegotiated ==
    \A c \in Conns : Up(c, "C") /\ Up(c, "S") =>
        LET p == client[c]
            r == end[c]["C"]
        IN  /\ VersionsMeet(p) /\ r.version = Smaller(p.max, server.max)
            /\ \/ Resumed(c)
               \/ /\ Compatible(p)
                  /\ r.suite = Mutual(server, ClientSuites(p))[1]

CacheInTheWay(c) == /\ server.cache
                    /\ \/ end[c]["C"].offer # 0 /\ now > 0
                       \/ Cardinality(entriesDict) >= MaxEntries
Negotiates(c) == client[c].protos # <<>> /\ server.protos # <<>>

\* Why a handshake may fail: the network broke or the other program hung up,
\* the session cache is full or was asked for a session when its oldest one
\* had expired, the versions or, when no session is resumed, the other
\* parameters do not fit, or the client did not get as far as a ClientHello.
Explained(c) ==
    \/ c \in disturbed \/ CacheInTheWay(c) \/ ~VersionsMeet(client[c])
    \/ ~Resumed(c) /\ ~Compatible(client[c])
    \/ end[c]["C"].log = <<>>

\* No handshake fails without one of these reasons, a protocol negotiation
\* apart.  In particular a session that is offered and not found does not
\* stand in the way of a full handshake.
FailureHasReason ==
    \A c \in DOMAIN client, e \in Ends :
        end[c][e].pc = "failed" => Explained(c) \/ Negotiates(c)

\* Every message but the one of the protocol negotiation is read as it was
\* written, with names of up to 255 bytes and whatever extensions it has.
MessagesSurvive ==
    \A c \in Conns, e \in Ends :
        /\ net[c][e] # <<>>
        /\ Got(c, e).type \in DOMAIN HandshakeType \ {"next_protocol"}
        /\ Got(c, e).type \in Expected(end[c][e].pc)
        => Arrives(c, e)

\* The two ends never wait for each other: a handshake that was started ends.
HandshakeEnds ==
    \A c \in Conns, e \in Ends :
        Active(c, e) ~> end[c][e].pc \in {"open", "closed", "failed"}

\* The handshake implements what TlsSession promises.
TermsOf(r) == [version |-> r.version, suite |-> r.suite, id |-> r.id,
               secret |-> r.secret, basis |-> r.basis, resumed |-> r.resumed]
WasUp(c, e) == Cardinality({i \in DOMAIN end[c][e].log :
                              end[c][e].log[i] = "finished"}) = 2

Session == INSTANCE TlsSession WITH
    Acceptor <- "S", None <- TermsOf(NewEnd),
    basis <- [c \in Conns |-> end[c]["S"].basis],
    agreed <- [c \in Conns |-> IF WasUp(c, "C") THEN TermsOf(end[c]["C"])
                               ELSE IF WasUp(c, "S") THEN TermsOf(end[c]["S"])
                               ELSE TermsOf(NewEnd)],
    view <- [c \in Conns |-> [e \in Ends |->
                CASE end[c][e].pc \in {"check", "open"} -> "up"
                  [] Gone(c, e) -> "over"
                  [] OTHER -> "new"]],
    valid <- [e \in Ends |-> {s \in Conns : sess[s][e].resumable}]

ImplementsSession == Session!Spec
=============================================================================
