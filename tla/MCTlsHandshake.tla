-------------------------- MODULE MCTlsHandshake --------------------------
(***************************************************************************)
(* TLC instances of TlsHandshake: clients and servers as RevTLSClient and  *)
(* RevTLSServer call the library (certificates on both sides, a checker on *)
(* both sides), and the library's other ways to be called.                 *)
(***************************************************************************)
EXTENDS TlsHandshake

\* A protocol, a server, and two users, one with the longest name that fits.
Names == [n \in {"", "p", "q", "n", "u", "x"} |->
    CASE n = "" -> <<>> [] n = "u" -> [i \in 1 .. 255 |-> 117] [] OTHER -> <<112>>]

Plain == [kx |-> "cert", min |-> 0, max |-> 2, ciphers |-> {"aes128", "rc4"},
        protos |-> <<>>, user |-> "", password |-> "", name |-> "",
        cert |-> "none", check |-> "any", strict |-> FALSE]
RevTls == [Plain EXCEPT !.cert = "client", !.check = "server"]
Srp == [Plain EXCEPT !.kx = "srp", !.user = "u", !.password = "right", !.ciphers = {"3des"}]

Clients ==
    { RevTls, Plain,
      [Plain EXCEPT !.cert = "other", !.max = 1],     \* not whom the server expects
      [RevTls EXCEPT !.check = "other"],            \* expects another server
      [Plain EXCEPT !.min = 2], [Plain EXCEPT !.max = 0],
      [Plain EXCEPT !.ciphers = {"rc4"}],
      [Plain EXCEPT !.name = "n"],
      [Plain EXCEPT !.strict = TRUE],
      [Plain EXCEPT !.protos = <<"p">>],
      [Plain EXCEPT !.kx = "anon"],
      [Plain EXCEPT !.min = 2, !.max = 1], [Srp EXCEPT !.password = ""],
      Srp, [Srp EXCEPT !.password = "wrong"], [Srp EXCEPT !.user = "x"],
      [Srp EXCEPT !.check = "server"] }

Server == [db |-> FALSE, chain |-> "server", req |-> FALSE, cache |-> TRUE,
           protos |-> <<>>, min |-> 0, max |-> 2, ciphers |-> {"3des", "aes128", "rc4"},
           check |-> "any", strict |-> FALSE]
RevServer == [Server EXCEPT !.req = TRUE, !.check = "client", !.cache = FALSE]
Servers ==
    { RevServer, [RevServer EXCEPT !.cache = TRUE],
      [Server EXCEPT !.max = 1, !.min = 1],
      [Server EXCEPT !.req = TRUE, !.strict = TRUE],
      [Server EXCEPT !.protos = <<<<"q", "p">>>>],
      [Server EXCEPT !.db = TRUE], [Server EXCEPT !.db = TRUE, !.chain = "none"],
      [Server EXCEPT !.chain = "none"], [Server EXCEPT !.ciphers = {}] }

CachingRev == [RevServer EXCEPT !.cache = TRUE]
CachingDb == [Server EXCEPT !.db = TRUE]

\* Every client with every server, and clients that come again: with the
\* parameters of the session they offer or with others, while the server's
\* thread may still be busy with the connection before, up to a full cache.
Twice ==
    { <<CachingRev, <<RevTls, RevTls>>>>,
      <<Server, <<Plain, [Plain EXCEPT !.ciphers = {"rc4"}]>>>>,
      <<CachingDb, <<Srp, [Srp EXCEPT !.user = "x"]>>>>,
      <<Server, <<Plain, [Plain EXCEPT !.max = 1]>>>> }

SmallCases == {<<s, <<p>>>> : s \in Servers, p \in Clients} \cup Twice
=============================================================================
