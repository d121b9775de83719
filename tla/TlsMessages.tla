---------------------------- MODULE TlsMessages ----------------------------
(***************************************************************************)
(* The handshake messages of revsw/tlslite/messages.py as bytes: what the  *)
(* write method of each class emits with the Writer of utils/codec.py, and *)
(* what its parse method makes of bytes with the Parser.  A message is a   *)
(* record of the attributes that its class reads and writes.  Left out:    *)
(* the SSLv2 form of the ClientHello, which no client of this library      *)
(* sends, and TACK in the ServerHello, whose package is not installed.     *)
(***************************************************************************)
EXTENDS Integers, Sequences, SequencesExt

\* constants.ExtensionType and HandshakeType.
Extension == [server_name |-> 0, srp |-> 12, cert_type |-> 9, tack |-> 62208,
              supports_npn |-> 13172]
HandshakeType == [client_hello |-> 1, server_hello |-> 2, certificate |-> 11,
                  server_key_exchange |-> 12, certificate_request |-> 13,
                  server_hello_done |-> 14, certificate_verify |-> 15,
                  client_key_exchange |-> 16, finished |-> 20, next_protocol |-> 67]

\* Writer.add keeps the low bytes of a number that does not fit.
Add(x, length) == [i \in 1 .. length |-> (x \div (256 ^ (length - i))) % 256]
AddFixSeq(seq, length) ==
    IF length = 1 THEN [i \in DOMAIN seq |-> seq[i] % 256]
    ELSE FlattenSeq([i \in DOMAIN seq |-> Add(seq[i], length)])
AddVarSeq(seq, length, lengthLength) ==
    Add(Len(seq) * length, lengthLength) \o AddFixSeq(seq, length)

\* cryptomath.numberToByteArray, without leading zeros, and bytesToNumber.
NumberToByteArray(n) == Add(n, CHOOSE k \in 0 .. 3 : /\ 256 ^ k > n
                                                     /\ k > 0 => n >= 256 ^ (k - 1))
BytesToNumber(bytes) == FoldLeft(LAMBDA x, b : 256 * x + b, 0, bytes)

-----------------------------------------------------------------------------
(* The fields of a message in the order in which a method reads or writes  *)
(* them: a number, bytes of a fixed length or all that are left, bytes or  *)
(* a list of numbers after their length, a big number as bytes after their *)
(* length, and a list of byte strings, each after its length.              *)

Num(f, n) == [kind |-> "num", field |-> f, size |-> n, len |-> 0]
Fix(f, n) == [kind |-> "fix", field |-> f, size |-> n, len |-> 0]
VarBytes(f, l) == [kind |-> "bytes", field |-> f, size |-> 1, len |-> l]
VarList(f, n, l) == [kind |-> "list", field |-> f, size |-> n, len |-> l]
Rest(f) == [kind |-> "rest", field |-> f, size |-> 1, len |-> 0]
Big(f, l) == [kind |-> "big", field |-> f, size |-> 1, len |-> l]
Strings(f, n, l) == [kind |-> "strings", field |-> f, size |-> n, len |-> l]

Prefixed(strings, n) ==
    FlattenSeq([i \in DOMAIN strings |-> AddVarSeq(strings[i], 1, n)])

WriteField(v, x) ==
    CASE x.kind = "num" -> Add(v, x.size)
      [] x.kind \in {"fix", "rest"} -> AddFixSeq(v, 1)
      [] x.kind \in {"bytes", "list"} -> AddVarSeq(v, x.size, x.len)
      [] x.kind = "big" -> AddVarSeq(NumberToByteArray(v), 1, x.len)
      [] x.kind = "strings" -> LET all == Prefixed(v, x.size)
                               IN  Add(Len(all), x.len) \o all

Written(m, layout) ==
    FoldLeft(LAMBDA w, x : w \o WriteField(m[x.field], x), <<>>, layout)

\* A Parser, with the attributes read so far.  Only "get" notices the end of
\* the bytes: getFixBytes returns what there is.
Parser(bytes, index, got) == [bytes |-> bytes, index |-> index, ok |-> TRUE, got |-> got]
Fail(p) == [p EXCEPT !.ok = FALSE]
Short(p, n) == p.index + n > Len(p.bytes)
Slice(p, n) == SubSeq(p.bytes, p.index + 1, p.index + n)
Peek(p, n) == BytesToNumber(Slice(p, n))
Skip(p, n) == [p EXCEPT !.index = @ + n]
Store(p, f, v) == [p EXCEPT !.got[f] = v]
Clipped(p, n) == IF Short(p, n) THEN SubSeq(p.bytes, p.index + 1, Len(p.bytes))
                 ELSE Slice(p, n)

\* stopLengthCheck.
EndsAt(p, index) == IF p.index = index THEN p ELSE Fail(p)

\* The loops of the parse methods, which end when they have read as much as
\* they were told, go round at most this often.
MaxItems == 6
Loop(one(_), s) == FoldLeft(LAMBDA r, i : one(r), s, [i \in 1 .. MaxItems |-> i])

\* The strings that fill the given bytes.
TakeString(s, l, n) ==
    IF Short(s, l + n) THEN Fail(s)
    ELSE Skip([s EXCEPT !.got = Append(@, Slice(Skip(s, l), n))], l + n)
ReadStrings(bytes, l) ==
    LET one(s) == IF s.index = Len(bytes) \/ ~s.ok THEN s
                  ELSE IF Short(s, l) THEN Fail(s) ELSE TakeString(s, l, Peek(s, l))
    IN  EndsAt(Loop(one, Parser(bytes, 0, <<>>)), Len(bytes))

Numbers(bytes, size) ==
    [i \in 1 .. Len(bytes) \div size |->
        BytesToNumber(SubSeq(bytes, (i - 1) * size + 1, i * size))]

StoreStrings(p, f, strings) == IF strings.ok THEN Store(p, f, strings.got) ELSE Fail(p)

\* A field of n bytes.
ReadContent(p, x, n) ==
    CASE x.kind = "num" ->
           IF Short(p, n) THEN Fail(p) ELSE Skip(Store(p, x.field, Peek(p, n)), n)
      [] x.kind \in {"fix", "bytes", "rest"} -> Skip(Store(p, x.field, Clipped(p, n)), n)
      [] x.kind = "big" -> Skip(Store(p, x.field, BytesToNumber(Clipped(p, n))), n)
      [] x.kind = "list" ->
           IF n % x.size # 0 \/ Short(p, n) THEN Fail(p)
           ELSE Skip(Store(p, x.field, Numbers(Slice(p, n), x.size)), n)
      [] x.kind = "strings" ->
           IF Short(p, n) THEN Fail(p)
           ELSE Skip(StoreStrings(p, x.field, ReadStrings(Slice(p, n), x.size)), n)

ReadField(p, x) ==
    IF ~p.ok \/ Short(p, x.len) THEN Fail(p)
    ELSE ReadContent(Skip(p, x.len), x,
                     CASE x.len > 0 -> Peek(p, x.len)
                       [] x.kind = "rest" -> Len(p.bytes) - p.index
                       [] OTHER -> x.size)

Read(p, layout) == FoldLeft(ReadField, p, layout)

-----------------------------------------------------------------------------
(* Extensions.                                                             *)

\* Mutant of Extend: the length takes one byte.
NarrowExtend(type, length, body) == Add(Extension[type], 2) \o Add(length, 1) \o body
Extend(type, length, body) == Add(Extension[type], 2) \o Add(length, 2) \o body
Optional(present, bytes) == IF present THEN bytes ELSE <<>>

ClientExtensions(m) ==
    LET name == m.server_name
        types == m.certificate_types
    IN  Optional(types \notin {<<>>, <<0>>},
                 Extend("cert_type", Len(types) + 1, AddVarSeq(types, 1, 1)))
        \o Optional(m.srp_username # <<>>,
                    Extend("srp", Len(m.srp_username) + 1, AddVarSeq(m.srp_username, 1, 1)))
        \o Optional(m.supports_npn, Extend("supports_npn", 0, <<>>))
        \o Optional(name # <<>>,
                    Extend("server_name", Len(name) + 5,
                           Add(Len(name) + 3, 2) \o Add(0, 1) \o AddVarSeq(name, 1, 2)))
        \o Optional(m.tack, Extend("tack", 0, <<>>))

\* next_protos is <<>> for None, and else holds the list.
ServerExtensions(m) ==
    Optional(m.certificate_type # 0,
             Extend("cert_type", 1, Add(m.certificate_type, 1)))
    \o Optional(m.next_protos # <<>>,
                LET all == Prefixed(m.next_protos[1], 1)
                IN  Extend("supports_npn", Len(all), all))

\* The fields of an extension that the end knows.
ClientExtensionFields(type) ==
    CASE type = Extension.srp -> <<VarBytes("srp_username", 1)>>
      [] type = Extension.cert_type -> <<VarList("certificate_types", 1, 1)>>
      [] OTHER -> <<>>

\* The first entry of a list of server names, when it is a host name.
HostName(p, length, list) ==
    IF length = 2 \/ list.bytes[3] # 0 THEN Skip(p, length)
    ELSE Skip(Store(p, "server_name", ReadField(list, VarBytes("server_name", 2)).got.server_name),
              length)

\* One extension.  A server fails on one that it does not know, unless that is
\* empty; a client skips it.
ReadClientExtension(p, type, length) ==
    CASE type = Extension.tack -> EndsAt(Store(p, "tack", TRUE), p.index + length)
      [] type = Extension.supports_npn -> EndsAt(Store(p, "supports_npn", TRUE), p.index + length)
      [] type = Extension.server_name ->
           HostName(p, length, Parser(Clipped(p, length), 3, p.got))
      [] OTHER -> EndsAt(Read(p, ClientExtensionFields(type)), p.index + length)

StoreProtos(p, strings) ==
    IF strings.ok THEN Store(p, "next_protos", <<strings.got>>) ELSE Fail(p)
ReadServerExtension(p, type, length) ==
    CASE type = Extension.cert_type ->
           EndsAt(ReadField(p, Num("certificate_type", 1)), p.index + length)
      [] type = Extension.supports_npn ->
           Skip(StoreProtos(p, ReadStrings(Clipped(p, length), 1)), length)
      [] OTHER -> Skip(p, length)

\* "while soFar != totalExtLength".
ReadExtensions(p, message, total) ==
    LET end == p.index + 2 + total
        one(s) == IF ~s.ok \/ s.index = end THEN s
                  ELSE IF Short(s, 4) THEN Fail(s)
                  ELSE IF message = "client_hello"
                       THEN ReadClientExtension(Skip(s, 4), Peek(s, 2), Peek(Skip(s, 2), 2))
                       ELSE ReadServerExtension(Skip(s, 4), Peek(s, 2), Peek(Skip(s, 2), 2))
    IN  IF Short(p, 2) THEN Fail(p) ELSE EndsAt(Loop(one, Skip(p, 2)), end)

-----------------------------------------------------------------------------
(* The messages.  The cipher suite, as its family, and the version are     *)
(* what the classes whose form depends on them are constructed with.       *)

ClientHelloFields ==
    <<Num("major", 1), Num("minor", 1), Fix("random", 32), VarBytes("session_id", 1),
      VarList("cipher_suites", 2, 2), VarList("compression_methods", 1, 1)>>

ServerHelloFields ==
    <<Num("major", 1), Num("minor", 1), Fix("random", 32), VarBytes("session_id", 1),
      Num("cipher_suite", 2), Num("compression_method", 1)>>

CertificateFields == <<Strings("certChain", 3, 3)>>

CertificateRequestFields ==
    <<VarList("certificate_types", 1, 1), Strings("certificate_authorities", 2, 2)>>

ServerKeyExchangeFields(family) ==
    IF family = "anon" THEN <<Big("dh_p", 2), Big("dh_g", 2), Big("dh_Ys", 2)>>
    ELSE <<Big("srp_N", 2), Big("srp_g", 2), VarBytes("srp_s", 1), Big("srp_B", 2)>>
         \o (IF family = "srp_cert" THEN <<VarBytes("signature", 2)>> ELSE <<>>)

ClientKeyExchangeFields(family, version) ==
    CASE family = "anon" -> <<Big("dh_Yc", 2)>>
      [] family = "cert" /\ version = 0 -> <<Rest("encryptedPreMasterSecret")>>
      [] family = "cert" /\ version > 0 -> <<VarBytes("encryptedPreMasterSecret", 2)>>
      [] OTHER -> <<Big("srp_A", 2)>>

CertificateVerifyFields == <<VarBytes("signature", 2)>>
NextProtocolFields == <<VarBytes("next_proto", 1)>>
FinishedFields(version) == <<Fix("verify_data", IF version = 0 THEN 36 ELSE 12)>>

Layout(type, family, version) ==
    CASE type = "client_hello" -> ClientHelloFields
      [] type = "server_hello" -> ServerHelloFields
      [] type = "certificate" -> CertificateFields
      [] type = "certificate_request" -> CertificateRequestFields
      [] type = "server_key_exchange" -> ServerKeyExchangeFields(family)
      [] type = "server_hello_done" -> <<>>
      [] type = "client_key_exchange" -> ClientKeyExchangeFields(family, version)
      [] type = "certificate_verify" -> CertificateVerifyFields
      [] type = "next_protocol" -> NextProtocolFields
      [] type = "finished" -> FinishedFields(version)

\* What "write" puts after the fields: extensions, if there are any, and
\* NextProtocol's padding.
Trailer(type, m) ==
    LET extensions == CASE type = "client_hello" -> ClientExtensions(m)
                        [] type = "server_hello" -> ServerExtensions(m)
                        [] OTHER -> <<>>
        padding == 32 - ((Len(m.next_proto) + 2) % 32)
    IN  IF type = "next_protocol" THEN AddVarSeq([i \in 1 .. padding |-> 0], 1, 1)
        ELSE Optional(extensions # <<>>, Add(Len(extensions), 2) \o extensions)

\* HandshakeMsg.postWrite: the type and the length.
Write(type, family, version, m) ==
    LET body == Written(m, Layout(type, family, version)) \o Trailer(type, m)
    IN  Add(HandshakeType[type], 1) \o Add(Len(body), 3) \o body

\* What a message has before it is parsed, as its __init__ leaves it.
Blank(m) == [f \in DOMAIN m |->
    CASE f = "certificate_types" -> <<0>> [] f = "certificate_type" -> 0
      [] f \in {"tack", "supports_npn"} -> FALSE
      [] OTHER -> <<>>]

\* "parse", between startLengthCheck and stopLengthCheck.
ReadTrailer(p, type, end) ==
    IF p.ok /\ p.index # end /\ type \in {"client_hello", "server_hello"}
    THEN ReadExtensions(p, type, Peek(p, 2)) ELSE p

Parse(type, family, version, bytes, blank) ==
    LET end == 4 + Peek(Parser(bytes, 1, blank), 3)
    IN  EndsAt(ReadTrailer(Read(Parser(bytes, 4, blank), Layout(type, family, version)),
                           type, end), end)

\* The message arrives as it was sent.
Understood(p, m) == p.ok /\ p.got = m
Survives(type, family, version, m) ==
    Understood(Parse(type, family, version, Write(type, family, version, m), Blank(m)), m)
=============================================================================
