--------------------------- MODULE MCRemoteClient ---------------------------
(***************************************************************************)
(* A TLC instance of RemoteClient.                                         *)
(***************************************************************************)
EXTENDS RemoteClient

\* Every version with a block cipher, and RC4.
AllModes == [version : {0, 1, 2}, block : {4}] \cup {[version |-> 2, block |-> 0]}

\* No reply at all, and one that is longer than a buffer.
SomeReplies == {<<>>, <<7, 8, 9, 10>>}

\* The client in revsw/__init__.py, one that does not wait for its reply, one
\* that closes the connection, and one that goes on after the reply.
Others == { <<"send", "close">>, <<"sendall", "close">>,
            <<"sendall", "recvall", "close">>, <<"sendall", "recvall", "sendall", "recvall">> }
=============================================================================
