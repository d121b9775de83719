---------------------------- MODULE RemoteClient ----------------------------
(***************************************************************************)
(* apache-config.py, the command line client of the remote configuration   *)
(* server: one program, run again and again, that collects commands in a   *)
(* file and at last sends them as one request (TlsStream).  What it leaves *)
(* behind between two runs is in two files in /tmp.                        *)
(*                                                                         *)
(* A command is a number, in the order in which they were given; what the  *)
(* program puts into it (templates, certificates, variables) is in the     *)
(* jobs of ConfigTransaction.  Left out: "copy", which changes neither     *)
(* file, runs that only simulate or fail before they open one, and two     *)
(* programs at a time.                                                     *)
(***************************************************************************)
EXTENDS TlsStream

CONSTANTS
    Servers,      \* the addresses of servers
    MaxRuns,      \* how often the program is run
    MaxCrashes,   \* how many runs are killed, or fail in the middle
    OtherCalls    \* what other clients of revsw/tls.py call

ASSUME ClientAssumption == MaxRuns \in Nat /\ MaxCrashes \in Nat

VARIABLES conf,     \* /tmp/apache-config.conf
          json,     \* /tmp/apache-config.json
          run,      \* the run of the program that is going on
          runs, crashes,
          wanted,   \* history: the server last named, and the commands given
                    \* since a start last ended
          asked     \* history: what was to be sent in each connection

cliVars == <<conf, json, run, runs, crashes, wanted, asked>>
allVars == <<vars, cliVars>>

\* A file: not there, cut by opening it for writing, or written.
NoConf == [state |-> "none", server |-> ""]
NoJson == [state |-> "none", list |-> <<>>]

\* What stands in front of the commands in a request.
Opening == 0
RequestOf(list) == <<Opening>> \o list

Free == [action |-> "none", conn |-> 0, server |-> "", list |-> <<>>]
Nothing == [server |-> "", list |-> <<>>]

\* The program is not run any more when the connections are used up: a bound.
Begin(r) == /\ run = Free /\ runs < MaxRuns
            /\ \A c \in Conns : prog[c]["C"].pc \in Over
            /\ \E c \in Conns : prog[c]["C"].pc = "idle"
            /\ run' = r /\ runs' = runs + 1

\* "start" opens one file, which cuts it, writes it ...
Start(s) ==
    /\ Begin([Free EXCEPT !.action = "start", !.server = s])
    /\ conf' = [NoConf EXCEPT !.state = "cut"]
    /\ UNCHANGED <<vars, json, crashes, wanted, asked>>

WriteConf ==
    /\ run.action = "start"
    /\ run' = [run EXCEPT !.action = "named"]
    /\ conf' = [state |-> "ok", server |-> run.server]
    /\ wanted' = [wanted EXCEPT !.server = run.server]
    /\ UNCHANGED <<vars, json, runs, crashes, asked>>

\* ... and closes it before it opens the other, which Dump writes.  In between,
\* and for good if the run is killed there, the commands given for the server
\* before stand beside the new one.
StartJson ==
    /\ run.action = "named"
    /\ run' = [run EXCEPT !.action = "started"]
    /\ json' = [NoJson EXCEPT !.state = "cut"]
    /\ UNCHANGED <<vars, conf, runs, crashes, wanted, asked>>

\* Mutant of Reads: a cut file is read as one with no commands.
Reads_Cut == conf.state = "ok" /\ json.state # "none"

\* The other actions begin by reading both files.
Reads == conf.state = "ok" /\ json.state = "ok"

\* "config", "del", "certs", "flush-sites" and "varnish-template".
Add ==
    /\ Reads
    /\ Begin([Free EXCEPT !.action = "add", !.list = Append(json.list, runs + 1)])
    /\ json' = [NoJson EXCEPT !.state = "cut"]
    /\ UNCHANGED <<vars, conf, crashes, wanted, asked>>

\* The list is written, and the program exits with 0.
Dump ==
    /\ run.action \in {"started", "add"}
    /\ run' = Free
    /\ json' = [state |-> "ok", list |-> run.list]
    /\ wanted' = [wanted EXCEPT !.list = IF run.action = "started" THEN <<>>
                                         ELSE Append(@, Last(run.list))]
    /\ UNCHANGED <<vars, conf, runs, crashes, asked>>

\* "send".
Send(c) ==
    /\ Reads
    /\ Begin([Free EXCEPT !.action = "send", !.conn = c])
    /\ Connect(c, <<"sendall", "recvall">>, RequestOf(json.list))
    /\ asked' = [asked EXCEPT ![c] = [server |-> wanted.server, target |-> conf.server,
                    request |-> RequestOf(wanted.list), calls |-> <<"sendall", "recvall">>]]
    /\ UNCHANGED <<conf, json, crashes, wanted>>

SendDone ==
    /\ run.action = "send" /\ prog[run.conn]["C"].pc \in Over
    /\ run' = Free
    /\ UNCHANGED <<vars, conf, json, runs, crashes, wanted, asked>>

\* The run is killed, or a file cannot be opened or written.
Crash ==
    /\ run # Free /\ crashes < MaxCrashes
    /\ crashes' = crashes + 1 /\ run' = Free
    /\ IF run.action = "send" /\ prog[run.conn]["C"].pc \notin Over
       THEN Raises(run.conn, "C") ELSE UNCHANGED vars
    /\ UNCHANGED <<conf, json, runs, wanted, asked>>

\* Another client, for instance the one in revsw/__init__.py.  It knows nothing
\* of the files and may as well come first, which is a bound.
OtherClient(c, calls) ==
    /\ runs = 0
    /\ Connect(c, calls, RequestOf(<<c>>))
    /\ asked' = [asked EXCEPT ![c] = [server |-> "other", target |-> "other",
                                      request |-> RequestOf(<<c>>), calls |-> calls]]
    /\ UNCHANGED <<conf, json, run, runs, crashes, wanted>>

Init == /\ StreamInit
        /\ conf = NoConf /\ json = NoJson /\ run = Free /\ runs = 0 /\ crashes = 0
        /\ wanted = Nothing
        /\ asked = [c \in Conns |-> [server |-> "", target |-> "", request |-> <<>>,
                                     calls |-> <<>>]]

Cli == \/ \E s \in Servers : Start(s)
       \/ WriteConf \/ StartJson \/ Add \/ Dump \/ SendDone \/ Crash
       \/ \E c \in Conns : Send(c) \/ \E calls \in OtherCalls : OtherClient(c, calls)

Next == Cli \/ (StreamStep /\ UNCHANGED cliVars)

Spec == Init /\ [][Next]_allVars
FairSpec == Spec /\ StreamFairness

-----------------------------------------------------------------------------
(* Properties.                                                             *)

\* The handler of a server is called at most once for a connection, on the
\* server that the last start named, and with all the commands that were written
\* since a start last ended: never with a part of them, nor with one twice,
\* wherever the network fails or a run of the program is killed.  (These are not
\* always the commands given for that server: see StartJson.)
HandledIsWanted ==
    /\ \A i, j \in DOMAIN handled : handled[i].conn = handled[j].conn => i = j
    /\ \A i \in DOMAIN handled :
         LET a == asked[handled[i].conn]
         IN  a.target = a.server /\ handled[i].data = Body(a.request)

\* recvall returns the whole reply to the request of its connection.
ReplyIsWhole == \A c \in Conns : IsPrefix(answers[c], replied[c])

\* A client that sends a request and receives its reply, and the thread that
\* serves it, fail only when the connection was lost, the handler raised or the
\* client was killed: that no connection ends with a close_notify from the
\* server, which closes its socket with a reference left, does not matter.
Proper(calls) == calls \in {<<"sendall", "recvall">>, <<"sendall", "recvall", "close">>}
Excused(c) == \/ c \in lost \/ crashes > 0 \/ ~Proper(asked[c].calls)
              \/ prog[c]["S"].pc = "failed"
FailsForReason == \A c \in Conns, e \in Ends : prog[c][e].pc = "raised" => Excused(c)

\* No end waits for ever for the other: every call of a client ends, and every
\* thread of a server.
CallsEnd == \A c \in Conns : []<>(\A e \in Ends : prog[c][e].pc \in Over)
=============================================================================
