----------------------------- MODULE PcmConfig -----------------------------
(***************************************************************************)
(* pcm/config/src/pcm_config.c: the daemon that takes configurations over  *)
(* websockets, puts each into its policy file and runs the script for it.  *)
(* One service thread handles every connection; a message arrives in the   *)
(* parts that the sender and the library cut it into.                      *)
(***************************************************************************)
EXTENDS Integers, Sequences, FiniteSets, SequencesExt

CONSTANTS
  Conn,       \* connections
  File,       \* policy files: apps.json, ssl.json, ui-config-<domain>.json
  None,       \* no file, contents or connection
  Message,    \* what clients send
  MaxSends,   \* bound on messages sent in all
  MaxFaults   \* bound on injected failures

\* A part is what one callback delivers: "more" if the frame has more to
\* come, "open" or "brace" for the end of a frame whose last byte is not, or
\* is, a brace, "empty" for no data at all.
Part == {"more", "open", "brace", "empty"}

\* "type" is configuration_type, None when it is missing; "named" says that
\* the operation, or the domain name, is there too.
ConfigType == {"sdk_apps_config", "ssl_config", "waf_rule"}
Fields == [type : ConfigType \union {"other", None}, named : BOOLEAN]

ASSUME MessageAssumption ==
  /\ None \notin Conn \union File
  /\ MaxSends \in Nat /\ MaxFaults \in Nat
  /\ \A m \in Message :
       /\ m.parts \in Seq(Part) \ {<<>>}
       /\ [type |-> m.type, named |-> m.named] \in Fields
       /\ m.file \in File
       /\ m.json \in BOOLEAN       \* nx_json_parse takes it
       /\ m.accepted \in BOOLEAN   \* the script takes it

VARIABLES
  open,       \* connections that are established
  inbox,      \* parts under way to the daemon, on each connection
  json_in,    \* userdata: the parts stored for each connection
  replies,    \* what each connection was answered, and for which contents
  tmp,        \* /tmp/local-json-configuration.json
  policy,     \* the policy files
  applied,    \* the contents a script last succeeded with, for each file
  apache,     \* whether a process named apache2 runs
  pc, wsi,    \* where the service thread is, and for which connection
  status,     \* the status it will answer
  sent,       \* history: the messages sent on each connection
  sends, faults

thread == <<pc, wsi, status>>
wire == <<open, inbox>>
vars == <<wire, json_in, replies, tmp, policy, applied, apache, thread,
          sent, sends, faults>>

\* A part of a message is known by its place in it.
Piece(m, i) == [msg |-> m, at |-> i, part |-> m.parts[i]]
Pieces(m) == [i \in 1..Len(m.parts) |-> Piece(m, i)]

\* The contents of a file that holds a message and nothing else: the parts
\* that are stored, in their order.
Stored(m) == {i \in DOMAIN m.parts : m.parts[i] # "empty"}
Nth(m, n) ==
  CHOOSE i \in Stored(m) : Cardinality({j \in Stored(m) : j <= i}) = n
Whole(m) == [n \in 1..Cardinality(Stored(m)) |-> Piece(m, Nth(m, n))]

\* Whether the daemon ever takes the message for complete.
Braced(m) == \E i \in DOMAIN m.parts : m.parts[i] = "brace"

Init ==
  /\ open = {}
  /\ inbox = [c \in Conn |-> <<>>]
  /\ json_in = [c \in Conn |-> <<>>]
  /\ replies = [c \in Conn |-> <<>>]
  /\ tmp = None
  /\ policy = [f \in File |-> None]
  /\ applied = [f \in File |-> None]
  /\ apache = TRUE
  /\ pc = "idle" /\ wsi = None /\ status = "success"
  /\ sent = [c \in Conn |-> <<>>]
  /\ sends = 0 /\ faults = 0

----------------------------------------------------------------------------
(* Clients and the machine                                                 *)

\* LWS_CALLBACK_ESTABLISHED starts with no stored data.
Established(c) ==
  /\ pc = "idle" /\ c \notin open
  /\ open' = open \union {c}
  /\ json_in' = [json_in EXCEPT ![c] = <<>>]
  /\ replies' = [replies EXCEPT ![c] = <<>>]
  /\ sent' = [sent EXCEPT ![c] = <<>>]
  /\ UNCHANGED <<inbox, tmp, policy, applied, apache, thread, sends, faults>>

ClientSend(c, m) ==
  /\ c \in open /\ sends < MaxSends
  /\ sends' = sends + 1
  /\ sent' = [sent EXCEPT ![c] = Append(@, m)]
  /\ inbox' = [inbox EXCEPT ![c] = @ \o Pieces(m)]
  /\ UNCHANGED <<open, json_in, replies, tmp, policy, applied, apache, thread,
                 faults>>

\* LWS_CALLBACK_CLOSED only logs; what was stored is out of reach.
Closed(c) ==
  /\ pc = "idle" /\ c \in open
  /\ open' = open \ {c}
  /\ inbox' = [inbox EXCEPT ![c] = <<>>]
  /\ UNCHANGED <<json_in, replies, tmp, policy, applied, apache, thread,
                 sent, sends, faults>>

Apache ==
  /\ apache' = ~apache
  /\ UNCHANGED <<wire, json_in, replies, tmp, policy, applied, thread, sent,
                 sends, faults>>

\* The daemon is killed and started again; the files stay.
Crash ==
  /\ faults < MaxFaults /\ faults' = faults + 1
  /\ open' = {}
  /\ inbox' = [c \in Conn |-> <<>>]
  /\ json_in' = [c \in Conn |-> <<>>]
  /\ pc' = "idle" /\ wsi' = None /\ status' = "success"
  /\ UNCHANGED <<replies, tmp, policy, applied, apache, sent, sends>>

----------------------------------------------------------------------------
(* pcm_config_process_data                                                 *)

Reply(s) ==
  /\ status' = s
  /\ pc' = "reply"

\* Mutant: the brace counts only in the first part of a message.
Receive_First(c) ==
  LET part == Head(inbox[c]).part
  IN /\ pc = "idle" /\ c \in open /\ inbox[c] # <<>>
     /\ inbox' = [inbox EXCEPT ![c] = Tail(@)]
     /\ IF part = "empty"
        THEN /\ Reply("input-error") /\ wsi' = c
             /\ UNCHANGED json_in
        ELSE /\ json_in' = [json_in EXCEPT ![c] = Append(@, Head(inbox[c]))]
             /\ IF part = "brace" /\ json_in[c] = <<>>
                THEN pc' = "write" /\ status' = "success" /\ wsi' = c
                ELSE UNCHANGED thread
     /\ UNCHANGED <<open, replies, tmp, policy, applied, apache, sent, sends,
                    faults>>

\* The part is appended to what the connection has stored; the message is
\* taken for complete when a frame ends with a brace.
Receive(c) ==
  LET part == Head(inbox[c]).part
  IN /\ pc = "idle" /\ c \in open /\ inbox[c] # <<>>
     /\ inbox' = [inbox EXCEPT ![c] = Tail(@)]
     /\ IF part = "empty"
        THEN /\ Reply("input-error") /\ wsi' = c
             /\ UNCHANGED json_in
        ELSE /\ json_in' = [json_in EXCEPT ![c] = Append(@, Head(inbox[c]))]
             /\ IF part = "brace"
                THEN pc' = "write" /\ status' = "success" /\ wsi' = c
                ELSE UNCHANGED thread
     /\ UNCHANGED <<open, replies, tmp, policy, applied, apache, sent, sends,
                    faults>>

\* Mutant: the data of the last callback are written, not what is stored.
WriteTmp_Last ==
  /\ pc = "write"
  /\ tmp' = <<Last(json_in[wsi])>>
  /\ pc' = "parse"
  /\ UNCHANGED <<wire, json_in, replies, policy, applied, apache, wsi, sent,
                 sends, status, faults>>

\* pcm_util_write_json_to_file truncates the file before it writes.
WriteTmp ==
  /\ pc = "write"
  /\ \/ /\ tmp' = json_in[wsi]
        /\ pc' = "parse"
        /\ UNCHANGED <<status, faults>>
     \/ /\ faults < MaxFaults /\ faults' = faults + 1
        /\ tmp' \in {tmp, <<>>}
        /\ Reply("file-error")
  /\ UNCHANGED <<wire, json_in, replies, policy, applied, apache, wsi, sent,
                 sends>>

\* nx_json_parse reads one value and ignores what follows it, so contents
\* that begin with a whole message are that message.
First(contents) == Head(contents).msg
Parses(contents) ==
  First(contents).json /\ IsPrefix(Whole(First(contents)), contents)

Parse ==
  /\ pc = "parse"
  /\ IF /\ Parses(json_in[wsi])
        /\ First(json_in[wsi]).type # "other"
        /\ First(json_in[wsi]).named
     THEN pc' = "check" /\ UNCHANGED status
     ELSE Reply("input-error")
  /\ UNCHANGED <<wire, json_in, replies, tmp, policy, applied, apache, wsi,
                 sent, sends, faults>>

\* What system() returns for a command that exits with a code.
System(code) == code * 256

CheckApache ==
  /\ pc = "check"
  /\ IF System(IF apache THEN 0 ELSE 1) = 1
     THEN Reply("system-error")
     ELSE pc' = "move" /\ UNCHANGED status
  /\ UNCHANGED <<wire, json_in, replies, tmp, policy, applied, apache, wsi,
                 sent, sends, faults>>

\* Mutant: the script is not run.
Move_Last ==
  /\ pc = "move"
  /\ policy' = [policy EXCEPT ![First(json_in[wsi]).file] = tmp]
  /\ tmp' = None
  /\ Reply("success")
  /\ UNCHANGED <<wire, json_in, replies, applied, apache, wsi, sent,
                 sends, faults>>

\* mv of the temporary file to the policy file
Move ==
  /\ pc = "move"
  /\ \/ /\ policy' = [policy EXCEPT ![First(json_in[wsi]).file] = tmp]
        /\ tmp' = None
        /\ pc' = "run"
        /\ UNCHANGED <<status, faults>>
     \/ /\ faults < MaxFaults /\ faults' = faults + 1
        /\ Reply("system-error")
        /\ UNCHANGED <<tmp, policy>>
  /\ UNCHANGED <<wire, json_in, replies, applied, apache, wsi, sent,
                 sends>>

\* The script reads the policy file with a strict parser.
Takes(contents) ==
  First(contents).accepted /\ contents = Whole(First(contents))

\* Mutant: the exit code of the script is not looked at.
RunScript_Ignored ==
  LET f == First(json_in[wsi]).file
  IN /\ pc = "run"
     /\ Reply("success")
     /\ \/ /\ Takes(policy[f])
           /\ applied' = [applied EXCEPT ![f] = policy[f]]
           /\ UNCHANGED faults
        \/ /\ ~Takes(policy[f])
           /\ UNCHANGED <<applied, faults>>
        \/ /\ faults < MaxFaults /\ faults' = faults + 1
           /\ UNCHANGED applied
     /\ UNCHANGED <<wire, json_in, replies, tmp, policy, apache, wsi, sent,
                 sends>>

RunScript ==
  LET f == First(json_in[wsi]).file
  IN /\ pc = "run"
     /\ \/ /\ Takes(policy[f])
           /\ applied' = [applied EXCEPT ![f] = policy[f]]
           /\ Reply("success")
           /\ UNCHANGED faults
        \/ /\ ~Takes(policy[f])
           /\ Reply("system-error")
           /\ UNCHANGED <<applied, faults>>
        \/ /\ faults < MaxFaults /\ faults' = faults + 1
           /\ Reply("system-error")
           /\ UNCHANGED applied
     /\ UNCHANGED <<wire, json_in, replies, tmp, policy, apache, wsi, sent,
                 sends>>

Done == pc' = "idle" /\ wsi' = None /\ status' = "success"

\* Mutant: the stored data are freed only after a success.
SendReply_KeepsErrors ==
  /\ pc = "reply"
  /\ \/ /\ replies' = [replies EXCEPT
             ![wsi] = Append(@, [status |-> status, contents |-> json_in[wsi]])]
        /\ UNCHANGED faults
     \/ /\ faults < MaxFaults /\ faults' = faults + 1
        /\ UNCHANGED replies
  /\ json_in' = IF status = "success"
                THEN [json_in EXCEPT ![wsi] = <<>>] ELSE json_in
  /\ Done
  /\ UNCHANGED <<wire, tmp, policy, applied, apache, sent, sends>>

\* The answer is written, or writing it fails; either way the stored data
\* are freed.
SendReply ==
  /\ pc = "reply"
  /\ \/ /\ replies' = [replies EXCEPT
             ![wsi] = Append(@, [status |-> status, contents |-> json_in[wsi]])]
        /\ UNCHANGED faults
     \/ /\ faults < MaxFaults /\ faults' = faults + 1
        /\ UNCHANGED replies
  /\ json_in' = [json_in EXCEPT ![wsi] = <<>>]
  /\ Done
  /\ UNCHANGED <<wire, tmp, policy, applied, apache, sent, sends>>

Service ==
  \/ \E c \in Conn : Receive(c)
  \/ WriteTmp \/ Parse \/ CheckApache \/ Move \/ RunScript \/ SendReply

Next ==
  \/ \E c \in Conn : Established(c) \/ Closed(c)
  \/ \E c \in Conn, m \in Message : ClientSend(c, m)
  \/ Apache \/ Crash
  \/ Service

Spec == Init /\ [][Next]_vars

\* The service loop never ends and libwebsocket_service looks at every
\* connection that has something to read.
FairSpec ==
  /\ Spec
  /\ WF_vars(Service)
  /\ \A c \in Conn : SF_vars(Receive(c))

----------------------------------------------------------------------------
(* Properties                                                              *)

\* "success" is only answered when the contents received on that connection
\* are in the policy file and the script has succeeded with them.
SuccessIsApplied ==
  pc = "reply" /\ status = "success" =>
    LET f == First(json_in[wsi]).file
    IN policy[f] = json_in[wsi] /\ applied[f] = json_in[wsi]

\* A policy file begins with one whole message that was meant for it, whatever
\* the connections sent in between and whichever step failed; nothing follows
\* unless the message had no brace to end it, so that the next was taken too.
PolicyIsWhole ==
  \A f \in File : policy[f] # None =>
    LET m == First(policy[f])
    IN /\ IsPrefix(Whole(m), policy[f])
       /\ Braced(m) => policy[f] = Whole(m)
       /\ m.file = f /\ m.json /\ m.named

\* As long as nothing fails, a policy file differs from what was applied
\* only while its script runs or because the script refused it.
PolicyIsApplied ==
  \A f \in File :
    \/ faults > 0 \/ pc = "run" \/ policy[f] = applied[f]
    \/ ~Takes(policy[f])

\* Connections whose messages have no empty frame, which drops what is stored,
\* and no frame but the last that ends with a brace.
Plain(c) ==
  \A i \in DOMAIN sent[c] : LET parts == sent[c][i].parts IN
    \A k \in DOMAIN parts :
      parts[k] # "empty" /\ (parts[k] = "brace" <=> k = Len(parts))

\* The answers on a connection are those to its messages, in their order.
AnswersMatch ==
  faults = 0 => \A c \in {k \in open : Plain(k)} : \A i \in DOMAIN replies[c] :
    i \in DOMAIN sent[c] /\ replies[c][i].contents = Whole(sent[c][i])

\* Messages that all have a brace are answered, unless their connection is
\* closed or writing the answer failed.
RequestAnswered ==
  \A c \in Conn : \A k \in 1..MaxSends :
    Len(sent[c]) >= k /\ (\A i \in 1..k : Braced(sent[c][i])) ~>
      Len(replies[c]) >= k \/ c \notin open \/ Len(sent[c]) < k \/ faults > 0
============================================================================
