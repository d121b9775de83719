# Specifications of the RevAPM proxy configuration system

TLA+ modules, TLC configurations and TLAPS proofs for the code under `src/`:
`revsw-policy-server` (C daemons that take requests over websockets and the
thread library below them) and `revsw-proxy-config` (Python 2 scripts that turn
a domain's configuration into files of Nginx and Varnish and reload them, a
remote client, and the TLS library it is shipped with).
`PROJECT.json` lists the components, runs, mutations, hazards, findings and
theorems, and maps every definition to the lines it stands for.

## The system

| Component | Code | State | Operations | Hard because |
| --- | --- | --- | --- | --- |
| Configuration transactions | `revsw_apache_config/__init__.py` (`configure_all`, `ConfigTransaction`, `NginxConfig`, `VarnishConfig`) | files of Nginx, Varnish and `/opt/revsw-config`, a tar in `/tmp`, what the two servers run, the rollback list, two reload flags | flush, delete, batch, config, force, certs, varnish_template; backup, run, finalize, rollback | any step can fail after others were done; two servers; several processes |
| Domain requests | `pc-apache-config.py` | the same files, the Varnish cache | add, update, batch, force, delete | computed differences can be stale, bans must come after reloads, retries |
| Configuration patches | `pc-apache-config.py` (`ConfigCommon`, the conversion functions), `script_configs.py`, `apache-gen-config-script.py` | the variables of both servers, `ui-config.json` | patch of every option, initial configuration, conversion of each older version, schemas | about a hundred options in two places, thirty conversion steps, repeated requests |
| Upgrade of all domains | `pc-apache-config.py` (`upgrade_all_domains`) | a second tar, the enabled sites | disable all, convert, configure, finalize, roll back | a transaction around a transaction; exceptions told apart by their message |
| Configuration daemon | `pcm/config`, `pcm/common` | data stored per connection, one temporary file, policy files | websocket callbacks | messages in parts, many connections, exit codes, crashes |
| Certificate and WAF rule managers, SDK configuration | `revsw-ssl-cert-manager.py`, `revsw-waf-rule-manager.py`, `revsw-sdk-nginx-gen-config.py` | directories, a symlink, a backup | update, delete, reload, restore | failures after the files were changed, exit codes |
| Remote client and its framing | `apache-config.py`, `revsw/tls.py` | two files in `/tmp`; file objects over connections | start, add commands, send; send, sendall, recvall, close | killed runs, partial reads, blocked writes |
| TLS library | `revsw/tlslite` | connections, sessions, the session cache | handshakes of client and server, records, resumption | two ends that must expect the same messages; expiring sessions |
| Inter-thread queues | `infra/src/rev_itc.c`, `rev_cq.h` | lists, counters, two locks, a condition variable | create, delete, alloc, send, recv | lost wake-ups, two critical sections |
| Purge daemon | `pcm/purge`, `revsw-varnish-purge.py` | the request file, counters | one request | partial bans, counters on error paths |
| Statistics daemon | `pcm/stats` | none that lasts | one request | reads other programs' logs |
| Thread table | `infra/src/rev_thread.c` | 16 slots | create, the wrapper that starts a thread | slots filled after the thread runs |
| Data sets and hash | `infra/src/rev_data.c`, `rev_hash.c` | sets, counters, buckets | create, insert, find, delete | counters outside the lock |
| Templates, schemas | `templates/` | none | rendering, validation | |

A request travels from a websocket client to the configuration daemon, which
writes it to a temporary file, moves that to a policy file and runs a script.
`pc-apache-config.py` patches the policy (the "UI configuration") into the
stored variables, calls `configure_all` once or twice, and bans cached objects
from Varnish. `configure_all` changes files and reloads the two servers inside a
transaction. After an installation of a new release the same script converts the
stored variables of all domains and configures them in one call. The remote
client is the older way in: it collects commands for `configure_all` in a file
and sends them, over `revsw/tls.py` and `revsw/tlslite`, to a server program
that is not in the repository. The daemons are built on the thread library,
whose queues they may use.

What makes each part correct: a transaction that fails leaves the files and
the servers as they were, one that succeeds has its files live, and that holds
when one is nested in another; what is stored is what the last UI configuration
asks for, in both servers, whatever release stored it first; a request that
reports success is served and leaves no stale object; the daemon answers
"success" only for what was applied, once per message and to its sender; the
remote server handles exactly the commands that were collected; a handshake
ends with both ends agreed, or for a reason; a queue hands out every buffer once
and in order.

## Modules

* `ConfigTransaction`: `configure_all` for any set of processes. `disk` holds
  the files by site (templates, certificates, variables, the `.conf` file, its
  symlink, the Varnish site file, the VCL); `tar` is the backup; `nginx` and
  `varnish` are what the servers run. A command becomes the sequence of its
  file operations and flag assignments (`CommandSteps`, one operator for each
  branch of `configure_all` with what the decorators of the two
  configuration classes add). One action is one operation that
  `ConfigTransaction.run` guards (`RunStep`), its failure (`RunStepFails`), a
  flag (`Schedule`), an exception outside of `run` (`RaiseOutside`), one of the
  parts of `finalize` or one entry of `rollback`. `Crash` kills the process.
  The contents of a file are the variables it was generated from; whether Nginx
  or Varnish accept them is a constant set (`BadN`, `BadV`).
* `DomainConfig` composes it with `add_or_update_domain` and `delete_domain`:
  the process's phase, the bans it still owes, and a cache that clients
  (`Fetch`) fill at any moment with what the live configuration stores. Here a
  UI configuration is only what changes.
* `UpgradeDomains` composes `ConfigTransaction` with `upgrade_all_domains`:
  `phase` is where that function is and `outerTar` its own backup; the actions
  of `configure_all` run inside the phase "configure" (`Configures`). What a
  conversion gives is a constant (`UpgradedN`, `UpgradedV`): new variables, an
  exception, or the end of the program. The function rolls back when the message
  of the exception is not empty, so `Caught` asks for the message.
* `ConfigPatch`, `ConfigUpgrade`: pure operators for what becomes of a UI
  configuration. The variables are functions from option names to values, a
  patch is a function from the options that it may write (`WebPatch`,
  `VarnishPatch`, one operator for each `patch_*` method), and `Changed` and
  `Patched` are `_patch_if_changed_*`. `BanUrls` is the comparison of the
  caching rules. `ConfigUpgrade` has the generated initial configuration, what
  each conversion step adds and drops (`BpAdds`, `VarnishAdds`, ...), and what
  the schemas require (`Valid`).
* `StoredConfig`: one domain over the runs of the script, over these operators.
  A run (`Add`, `Update`, `Upgrade`) is one step that stores both sets of
  variables or none; its transaction is `ConfigTransaction`'s business. A run
  may end while `ui-config.json` is written, and the Varnish file may be lost.
* `PcmConfig`: the callbacks of the configuration daemon. A message is its
  fields and the parts it arrives in; a part is how its frame ends. `json_in`,
  `tmp` and `policy` hold sequences of parts, so that a file with half a
  message, or with two, is a possible value. The service thread's position in
  `pcm_config_process_data` is `pc`; connections open, send and close, the
  daemon crashes, in between.
* `NginxScripts`: the scripts that the daemon runs for certificates, rules and
  applications. `disk` holds the certificates, the link `default`, the rules
  and `revsw-apps.conf`; `ssl_tar`, `waf_tar` and `apps_backup` are what each
  script saves; `live` is what Nginx has loaded. A certificate and its key are
  written by two steps, and a `Link` that fails may have removed the old link.
  `dirs` says which directories exist: a restore that fails may leave none, and
  every later backup of it then raises. `ConfigTest` looks at everything that the sites and the
  applications refer to, so one script's files can make another's test fail.
  `owed` and `hurt` are history: what the code leaves on disk without loading
  it (`LeavesUnloaded` is the list), and whether a step of this run failed.
* `TlsMessages`: the handshake messages as bytes, what each `write` emits and
  each `parse` takes, with the lengths of lists and extensions computed as the
  code does.
* `TlsHandshake`: both ends of `tlsconnection.py`. An action is what an end does
  between two messages it waits for; `end` is the `TLSConnection` with its
  position, keys, log of messages, suite and session, `net` the records under
  way, `entriesDict`, `entriesList` and `lastIndex` the session cache. Every key
  exchange (certificate, SRP, anonymous), client certificates, checkers,
  version negotiation, resumption, alerts and lost connections are there. A
  secret is "shared" or an end's "own"; a digest is the sequence of the message
  types.
* `TlsSession`: what the handshake promises, without messages: agreed terms, and
  sessions that stay dead once an end has given them up. `TlsHandshake`
  implements it by the mapping at its end.
* `TlsStream`: `revsw/tls.py` and the record layer below it on a connection that
  is up: the "Length:" line and body, the file objects that buffer, the records
  with their splitting (for 1/n-1), padding and MAC as lengths, a network that
  holds a bounded number of records, so that writes block.
* `RemoteClient` composes it with `apache-config.py`: one program run again and
  again, whose runs leave their state in two files (`conf`, `json`). A start
  writes them in four steps (`Start`, `WriteConf`, `StartJson`, `Dump`), a
  command cuts and writes the second (`Add`, `Dump`), and a run may be killed
  after any of them: a new server beside the complete old commands is one of the
  states that the next run may find.
* `ItcChannel`: what queues promise. `RevItc`: `rev_itc.c`. A section under
  `riq_lock` never blocks and is one action; the look at the list, the wait and
  the wake-up in `rev_itc_recv` are actions of their own, because `rq_lock` is
  a lock that the sender does not take. The circular list's head is
  `Sentinel`: it is what `revcq_first` yields for an empty list.
* `*_proofs`: theorems. `MC*`: instances.

## Runs

Passing runs (bounds in the `.cfg` files):

* `transaction`: one process, two sites, calls as the policy script makes them
  and lists of several commands as the remote client sends them, two accepted
  and one rejected value each for Nginx and Varnish, one failure or crash at
  any step. One failure already reaches every error path, in every state of
  the files; a second failure inside a rollback can only reach `RestoreFails`
  and `ReloadAgainFails`, which make no promise.
  It shows that a failed call leaves every file as it was
  (`RestoredOnFailure`), Nginx on the old files (`NginxFollowsRollback`), that
  what a call still has scheduled at its end is live when it returns
  (`LiveOnReturn`), and that calls end. Two processes share the name of the tar,
  so that a failing call may restore what the other process saved: that is not
  checked, and `RestoredOnFailure` does not hold of it.
* `domain`: requests over the same transactions, with at most one failure,
  while clients fill the cache of one site. `BansMatchLive`: the objects of
  every kind that a successful request banned are those of the live
  configuration. `RequestServed` and `NginxInSync`: without failures, a
  success means that Nginx runs what was asked for. Two sites are needed since
  the VCL is rendered for all of them.
* `upgrade`: upgrades one after the other of two domains, each with variables
  that convert, raise, exit, or become what Nginx or Varnish refuses, and two
  failures or crashes: one in each of the nested transactions. A failed upgrade
  restores every file (`FailureRestores`); a successful one has every domain,
  also those that an earlier, killed upgrade left disabled, enabled and served
  by both servers (`UpgradeIsWhole`).
* `stored_config`: three runs of the script over one domain (three are enough
  for a stored state, the run that changes it and the one that repeats or
  reverts it), a UI configuration for every field or word that takes a path of
  its own, and variables of eleven older layouts, on both sides of every
  conversion that reads what another set. `FailuresExplained`: the schemas refuse a
  result, and a conversion raises, only for the listed causes. `RepeatIsQuiet`:
  the UI configuration in force, sent again, changes nothing. `ServersAgree`:
  Nginx and Varnish are told the same. `BansCoverRules`: an update bans exactly
  the URLs whose rules it adds, removes or changes.
* `itc`: two queues, two senders, one receiver, three buffers, counters
  modulo 4 so that they wrap. The queues implement `ItcChannel`. With a second
  receiver of one queue they do not, since a receive looks at the list and
  removes from it under two locks; the run leaves that out.
* `pcm_config`: two connections, two messages in all from nine kinds (in
  parts, with an empty frame, cut after an inner brace, without a brace at its
  end, refused by the script, without its operation, of an unknown type, no
  JSON), one failure or crash. Two messages are enough for one to find what
  another left behind, on its own connection or on the other. Success is
  answered for what the script accepted (`SuccessIsApplied`); a policy file is
  one whole message, with more behind it only when it has no brace to end it
  (`PolicyIsWhole`), and is what was applied (`PolicyIsApplied`); answers come
  in the order of the messages (`AnswersMatch`, for messages with one brace, at
  their end) and each message with a brace gets one (`RequestAnswered`).
* `nginx_scripts`: four jobs in a row out of 23 (complete ones, mismatched keys,
  missing keys, batches, removals, files that are no JSON), two certificates,
  one rule, one failure. A job can then find a dangling link, an untested batch
  or an old copy that earlier ones left. What Nginx accepts is loaded
  (`AcceptedIsLive`), what it rejects is put back (`RejectedIsRestored`), and in
  between disk and Nginx agree (`StaysLoaded`); only the script for
  applications tells by its exit code (`SdkSuccessIsLive`).
* `tls_handshake`: seventeen clients with nine servers (every key exchange,
  checker, version range and certificate), and clients that connect twice and
  resume, with the same parameters or others; one broken connection, one age
  limit, a cache of two entries so that it fills. Two connections are enough for
  a session to be offered while the first is still being closed. The ends
  agree on the best common version and suite (`OpenIsNegotiated`), messages are
  read as they were written (`MessagesSurvive`), a handshake fails only for the
  listed reasons (`FailureHasReason`), ends (`HandshakeEnds`), and implements
  `TlsSession`.
* `remote_client`: five runs of the client against two servers with one kill,
  and other users of the library, over TLS versions with and without padding
  (five are a start, a command, the start that is killed, and two more);
  lengths are scaled down (`BufSize` 3, `BlockSize` 4, `Window` 2) so that a
  body spans buffers, records and the network. The handler of the server named
  last gets the commands that were collected, whole (`HandledIsWanted`), the
  reply comes back whole (`ReplyIsWhole`), failures have a reason
  (`FailsForReason`), and no end waits for ever (`CallsEnd`).

Violations, each a sentence of the repository that the code does not keep (see
`findings`):

* `ban_retry`: a failure after Varnish has been reloaded, and a retry that
  finds nothing changed, leave stale objects in the cache.
* `upgrade_rejected`: when Varnish rejects the upgraded domains, the inner
  rollback reloads Nginx from a backup in which all sites are disabled, and the
  outer one restores the sites without a reload: Nginx serves no domain.
* `itc_lost_wakeup`: the signal of a send is lost between the receiver's look
  at the list and its wait.

## Met while modelling

The models do what the code does in these cases, and the properties exclude
them by name where they must: a hazard in `PROJECT.json` without a property has
a note that says which exclusion keeps it out.

Transactions and requests: a `config` list of the remote client raises where
nothing is rolled back; a deleted site stays in the VCL and in Varnish; `flush`
leaves the sites' directories and Varnish; after a crash before the reload the
retry succeeds without one; a new domain may never reach Varnish, since the
addition clears the reload and the update after it finds no difference;
`update-force` without a change does nothing; HTML cached while a rejected
update was live stays; the test for a running Apache compares a wait status
with an exit code.

Patches and upgrades: a UI configuration without `enable_rum` is rejected by the schema; the generic configuration has no
`IP_ADDRESS_ANONYMIZER`, so that `no-bp` on a new domain and an upgrade without
a saved UI configuration are rejected; a stored "co" structure can never be
upgraded; root rewrite domains are appended to the UI configuration that is
saved; an update whose Varnish file is lost raises on an unbound variable;
the last conversion step of the "bp" structure and that of Varnish wait for
versions above the installed ones and are never reached. An exception with an
empty message during an upgrade is taken for none: all sites stay disabled and success is reported. `sys.exit` in a
conversion leaves the upgrade's transaction neither finalized nor rolled back.
The comment over `upgrade_all_domains` describes adding sites back one at a time,
which it does not do.

Scripts and daemon: a shared certificate cannot be installed once the
certificate behind the default link is gone; the scripts for certificates and
rules exit with 0 when Nginx has rejected the files, which the daemon answers as
a success; a rejected configuration of the applications stays on disk when
there was none before, or an older copy takes its place; a message that ends
with a newline is never answered and becomes the head of the next one.

TLS and the remote client: the next-protocol message is padded when it is
written and not when it is read, so negotiating a protocol fails; a cache raises
on every `maxEntries`-th session and, once its oldest session has expired, on
every offer to resume; the server never sends `close_notify`, and a client that
reads on after the reply fails; a client that sends a second request before it
reads the first reply can block both ends; a length-prefixed read never ends
when `close_notify` comes inside a message; the demo in `revsw/__init__.py`
sends without a length; a `start` that is killed between its two files keeps old
commands beside the new server, and the next `send` gives them to it, although
the help of `start` says that it starts from scratch. `HandledIsWanted` holds
then too: it asks that the server named last handles all commands added since a
start last ended, and not that they were meant for it.

## Fairness

`ConfigTransaction!FairSpec`: a process that has begun a call goes on with it
(weak fairness of `Run(p)`); the code never waits inside a call but for child
processes. `DomainConfig!DFairSpec`: the same for a request. Clients and new
requests are never forced. `PcmConfig!FairSpec`: weak fairness of the service
loop and strong fairness of each connection's receive callback:
`libwebsocket_service` is called for ever and looks at every readable
connection. `RevItc!FairSpec`: receivers go on; senders need not send.
`TlsHandshake!FairSpec`: weak fairness of the two ends of each connection, which
block in `recv` and go on when a record is there; connecting, closing and
breaking are not forced. `TlsStream!StreamFairness`: some program or thread goes
on as long as one can; a run of the client is not forced to begin.
`NginxScripts`, `StoredConfig` and `UpgradeDomains` state no liveness: their
programs are straight lines, and `CallEnds` covers the transaction inside.
Failures, crashes and lost connections have no fairness anywhere.

## Proofs

Every theorem holds for any sites, variables, jobs, messages and numbers of
failures and crashes; what is assumed of the constants is named. In each case the
stated invariant was first checked by TLC on the instance of its run.

`ConfigTransaction_proofs`, from `ValuesAssumption` and `JobsAssumption`:

* `TypeCorrect`: `TypeOK`, for any set of processes. It is inductive only with
  `StackInv`: what the rollback list can hold at each point of a call.
* `Atomic`, `NginxFollows`: `RestoredOnFailure` and `NginxFollowsRollback`,
  assuming `Alone` (one process; with two the tar is shared). `AtomicInv` follows the tar from the backup to the restore, and what
  Nginx runs from its reload to the reload that undoes it.
* `ReturnsLive`: `LiveOnReturn`, assuming `Alone`. `LiveInv` says at each part of
  `finalize` what is already live; it needs that rendering the VCL changes
  nothing that Nginx reads (`VclIsNoSite`).
* `SetOfConcat`, `ConfigOps` and the lemmas beside them give the steps of a list
  of commands as a set, for the modules that compose this one.

`DomainConfig_proofs`, from `RequestsAssumption` and `CallsAssumption` (the
calls that requests make are jobs), assuming `Alone`:

* `BansHold`: `BansMatchLive`, with clients that fill the cache at any moment.
  `RequestInv` relates a request to its phase; `BanInv` is about the cached
  objects of the kinds already banned, from the first ban on.
* `Serves`, `StaysInSync`: `RequestServed` and `NginxInSync`, also assuming
  `NoBatch`, since a batch leaves the reload to a later call. `SyncInv` describes
  a call by the set of steps it has left: the files the steps before have
  written, those still to be written, and the reload that is scheduled or will
  be. A request that finds no change relies on the sites being consistent, which
  is why the invariant speaks of every site and not of the requested one.

`UpgradeDomains_proofs`, from `UpgradeAssumption`:

* `UpgradeRestores`: `FailureRestores`. From the backup to the end of an upgrade
  the outer tar is what the upgrade found (`UInv`). No action of `configure_all`
  touches the outer tar, so nothing about it is needed: that is why nesting is
  safe.
* `UpgradesAll`: `UpgradeIsWhole`, from `SitesAssumption` (finitely many sites,
  and every list of converted domains is a job), with no restriction on failures
  or on what earlier upgrades left. In `WholeInv` each domain that was active has
  its command still to come, or each of its installing steps is left or done, and
  Varnish is on or its reload is scheduled. `TypeInv` and `LiveInv` of
  `configure_all` are reused: its actions are those of `ConfigTransaction`.

`StoredConfig_proofs`, from `UIsAssumption` (the fields that `patch_config` reads
without a default are there, a rule has a body, an access list has the fields
that its schema requires) and `StoredAssumption` (stored variables have numeric
versions and lists of rules, those of the current version every option):

* `PatchIsIdempotent`: for any stored variables and any UI configuration, a
  second patch with the same UI configuration finds no difference. It rests on
  `PatchedIsWanted`: an option that a patch names has the wanted value
  afterwards, whether it was stored, different or missing.
* `BansAreChanges`: the bans computed from two lists are the URLs of the rules
  that one has and the other lacks, for lists without duplicate URLs and with a
  body in every rule; `RuleOfUrl` is where duplicates would break it.
* `RepeatsAreQuiet`, `ServersAlwaysAgree`, `BansCoverAllRules`: `RepeatIsQuiet`,
  `ServersAgree` and `BansCoverRules`, over any runs. `SInv` says that the stored
  variables lack nothing that the UI configuration in force asks for (`Settled`),
  and, since an option that is asked for may otherwise stay missing, that they
  have every option of the initial configuration. Three things keep it that are
  not obvious. What is saved is not what was sent, the root domains having been
  added to the overlay URLs, but asks for the same (`AsPatchedWants`). An upgrade
  merges objects field by field with the generic ones, which changes nothing when
  no field is missing (`MergeKeeps`): an origin health probe without its fields
  is only refused by the schema, so a UI configuration that is in force and not
  saved, since its bans failed, has passed it. And no ban of a new domain can
  fail, as its second patch changes nothing.

`NginxScripts_proofs`, from `ScriptsAssumption`:

* `TypeCorrect`: `STypeOK`, with `TypeInv`.
* `Loaded`: `StaysLoaded`, which speaks of idle states only. `LoadedInv` adds
  what Nginx runs while a script works, `SavedInv` what the backup holds and
  which files cannot have changed, `JobInv` which jobs reach which step.
* `Accepted`, `Restored`: `AcceptedIsLive` and `RejectedIsRestored`. `Progress`
  gives the files at each step as a function of those before the job and of the
  job, `Backup` what the step that puts them back would find; `Outcome` is both
  properties with these two, as long as no step of the job has failed.
* `SdkSuccess`: `SdkSuccessIsLive`. `SdkInv` adds that the configuration under
  test, or about to be loaded, is the requested one.

`PcmConfig_proofs`, from `MessageAssumption`, for any number of connections:

* `Answered`, `Policies`, `Applies`: `SuccessIsApplied`, `PolicyIsWhole`,
  `PolicyIsApplied`. `StageInv` says what the temporary file and the policy file
  are at each step of a request; `BraceInv` that a
  part with a closing brace is the last of what its connection has stored, and
  is being served, so that a policy file is one message (`PolicyInv`); `AppliedInv` is `PolicyIsApplied` with the target of
  the running script excepted.
* `InOrderAnswers`: `AnswersMatch`. `OrderInv` says where each message that was
  sent is: answered, being served, stored in part, or on its way.

`RevItc_proofs`, from `RevItcAssumption`:

* `TypeCorrect`: `ITypeOK` with the exact count of queues, for any threads.
* `OwnedOnce`: `OneOwner`, for any numbers of senders and receivers.
* `DepthCounts`: `DepthIsLength`, assuming `OneReceiver` (a second one may empty
  the list between the two critical sections of a receive, and the depth is then
  wrong). `SeenInv` says that a list seen not to be empty is still so at the
  removal, `ReceivesBuffers` is a part of the invariant.
* `Implements`: with `OneReceiver`, every step is a step of `ItcChannel` or a
  stutter.

`TlsHandshake_proofs`, from `CasesAssumption` (versions are numbers, a checker has
a fingerprint):

* `Negotiated`: `OpenIsNegotiated`, for any number of connections, any parameters
  of clients and server, any cache. `HInv` speaks of each connection at which
  neither end has given up (`Linked`): what the messages on their way to each end
  say of the end that sent them, what the server has decided from the
  ClientHello (`ServerSide`), what the client has read of it (`ClientSide`), and
  that a server that has read a Finished made from its own secret has a client
  that knows the password (`Verified`). Nothing is needed of the cache: a client
  offers no session of the connection that it opens, so an id that comes back is
  that of a resumption. The order in which messages arrive is not needed either;
  the digests matter only for the secret in them.
* `Refines`: every step is a step of `TlsSession` or a stutter. `Negotiated`
  forgets a connection once an end has given up, but `TlsSession` remembers what
  it came up with, so `RInv` speaks of both ends at all times. `ServerTerms`: what
  the server has decided, a session of its own or the one that was offered, and
  how many Finished its log holds (none or one before it comes up, two from then
  on, which is what the mapping takes for having been up). `ClientTerms`: a client
  that has read the ServerHello agrees with the server in all but the secret, for
  which the message on its way answers: a Finished says the server's, and comes
  after the server's key exchange (`TermsToClient`). `Stored`: an id in the cache
  is the number of the connection that made the session. The server's flights
  (`ServerResumes`, `ServerHelloFlight`) are `Choose`, a Finished that fits is
  `Establish`, or `Leave` when the full cache raises; every other end of a
  connection, and a `Connect` whose parameters make no sense, is `Leave`; the
  rest stutters. Cardinalities of logs are counted by the library's theorems on
  finite sets.

Only model-checked:

* liveness (`CallEnds`, `RequestEnds`, `RequestAnswered`, `HandshakeEnds`,
  `CallsEnd`): it rests on fairness and `ENABLED`, which TLAPS does not treat;
* `FailuresExplained` of `StoredConfig`: it is about what the conversions compute
  over the layouts of the releases, which the instance lists and an assumption
  would only repeat;
* of `TlsHandshake`, `MessagesSurvive` (bytes, below) and `FailureHasReason`, which
  needs the order in which every message of both ends arrives and what a suite
  chosen by the recursive `SelectSeq` has in common with another; of
  `RemoteClient`, everything: what arrives there is a sequence of bytes cut and
  joined by recursive operators;
* `TlsMessages` is evaluated on the bytes that the handshakes produce.

## Not modelled

* Rendering (jinja templates, VCL text) and the types of single options in the
  schemas; wildcards become regular expressions by a constant.
* The branch of the reload commands that starts a stopped server, `/etc/varnish`
  being absent, and the policy file that `delete` removes. A failing restore is
  taken at its worst (nothing unpacked, the directory there or not). `mv` between directories is atomic.
* The templates of older releases, which are not in the repository: `Update`
  therefore asks for a domain of the current version.
* Of the TLS library: ciphers, hashes and key exchange arithmetic, the parsing
  of certificates and keys, TACK, SSLv2 greetings, non-blocking use and the
  integrations with other network libraries. The two ends are this library.
* What the callers of the queues must do is assumed: a queue is not deleted
  under a receiver, and a buffer is freed once. The mutex of a daemon is not a
  variable, since one thread takes it.
* The purge and statistics daemons, the thread table, the data sets and the
  search for the domain of a VCL line: see the plan. The virtualenv, the Lua
  libraries, packaging and test tools are not part of the running system.

## Plan

1. Proofs: `FailureHasReason`, with the choice of a suite stated so that it can be
   reasoned about.
2. The configuration daemon composed with `NginxScripts`: what an answer means
   for certificates and rules.
3. `PcmPurge` (counters and answers on each error path, the rules banned one by
   one), `ThreadTable` and `DataSets` (an abstract set, refined), each of them
   small beside what is modelled here.
4. Pure functions: wildcards, the search for the domain of a VCL line.
