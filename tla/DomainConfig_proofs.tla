------------------------- MODULE DomainConfig_proofs -------------------------
(***************************************************************************)
(* Requests of a process that is alone on the machine, over the theorems   *)
(* about configure_all: what a request that succeeds has put live, and     *)
(* that no object it has banned comes back.                                *)
(***************************************************************************)
EXTENDS DomainConfig, ConfigTransaction_proofs

Calling == {"adding", "updating", "deleting"}
Phases == {"idle", "add", "update", "delete", "ban"} \union Calling
Kinds == {"url", "html"}

\* The variables of a request; a call of configure_all runs only in the phase
\* that waits for it.
RequestInv ==
  /\ request \in [Process -> Requests \union {None}]
  /\ phase \in [Process -> Phases]
  /\ bans \in [Process -> SUBSET Kinds] /\ banned \in [Process -> SUBSET Kinds]
  /\ status \in [Process -> {"none", "ok", "failed"}]
  /\ cache = [s \in Site |-> cache[s]]
  /\ \A p \in Process :
       /\ pc[p] # "idle" => phase[p] \in Calling
       /\ phase[p] # "idle" => /\ request[p] \in Requests /\ status[p] = "none"
       /\ status[p] = "ok" => request[p] \in Requests
       /\ phase[p] \in {"add", "update"} \union (Calling \ {"deleting"}) =>
            request[p].kind # "delete"
       /\ phase[p] \in {"delete", "deleting"} => request[p].kind = "delete"
       /\ phase[p] \notin {"idle", "ban"} => banned[p] = {}

\* Every step is one of configure_all, or leaves all of its variables alone
\* except the count of failures.
LEMMA StepOfCall ==
  ASSUME RequestInv, [DNext]_dvars
  PROVE  \/ [Next]_vars
         \/ \E p \in Process : BanFails(p)
<1>1. ASSUME NEW p \in Process, Handle(p) PROVE Next \/ UNCHANGED vars \/ BanFails(p)
  <2>1. ASSUME AddDomain(p) \/ DeleteDomain(p) \/ UpdateDomain(p)
        PROVE  \E j \in Jobs : Begin(p, j)
    <3>1. request[p] \in Requests
      BY <2>1 DEF RequestInv, AddDomain, DeleteDomain, UpdateDomain, Move, Phases, Calling
    <3>2. CASE AddDomain(p) \/ DeleteDomain(p)
      BY <3>1, <3>2, CallsAssumption DEF AddDomain, DeleteDomain
    <3>3. CASE UpdateDomain(p)
      <4>1. /\ VarnishChanged(request[p], disk) \in BOOLEAN
            /\ ConfigChanged(request[p], disk) \in BOOLEAN
        BY DEF VarnishChanged, ConfigChanged
      <4>2. QED
        BY <3>1, <3>3, <4>1, CallsAssumption DEF UpdateDomain
    <3>4. QED
      BY <2>1, <3>2, <3>3
  <2>2. ASSUME Unchanged(p) \/ UpdateUnreadable(p) \/ Added(p) \/ Updated(p) \/ Deleted(p)
               \/ CallFailed(p) \/ (\E k \in {"url", "html"} : Ban(p, k)) \/ Done(p)
        PROVE  UNCHANGED vars
    BY <2>2 DEF Unchanged, UpdateUnreadable, Added, Updated, Deleted, CallFailed, Ban, Done
  <2>3. QED
    BY <1>1, <2>1, <2>2 DEF Handle, Next
<1>2. ASSUME NEW p \in Process, NEW r \in Requests, Accept(p, r) PROVE UNCHANGED vars
  BY <1>2 DEF Accept
<1>3. ASSUME NEW s \in Site, Fetch(s) PROVE UNCHANGED vars
  BY <1>3 DEF Fetch
<1>4. ASSUME NEW p \in Process, Crash(p) PROVE Next
  BY <1>4 DEF Next
<1>5. CASE UNCHANGED dvars
  BY <1>5 DEF dvars
<1>6. QED
  BY <1>1, <1>2, <1>3, <1>4, <1>5 DEF DNext

\* The invariants of configure_all hold inside of requests.
CallInv == TypeInv /\ AtomicInv /\ LiveInv

LEMMA NextCallInv ==
  ASSUME Alone, CallInv, RequestInv, [DNext]_dvars
  PROVE  CallInv'
<1>1. CASE [Next]_vars
  BY Alone, <1>1, NextTypeInv, NextAtomic, NextLive DEF CallInv
<1>2. ASSUME NEW p \in Process, BanFails(p) PROVE CallInv'
  <2>1. /\ UNCHANGED <<disk, tar, nginx, varnish, pc, cmds, todo, transaction, job,
                       outcome, history>>
        /\ Fault
    BY <1>2 DEF BanFails
  <2>2. faults' \in 0 .. MaxFaults
    BY <2>1, ValuesAssumption DEF Fault, CallInv, TypeInv, TypeOK
  <2>3. TypeOK'
    BY <2>1, <2>2 DEF CallInv, TypeInv, TypeOK, transaction, history
  <2>4. StackInv' /\ AtomicInv' /\ LiveInv'
    BY <2>1 DEF CallInv, TypeInv, StackInv, AtomicInv, LiveInv, NginxLive, VarnishLive,
            transaction, history
  <2>5. QED
    BY <2>3, <2>4 DEF CallInv, TypeInv
<1>3. QED
  BY <1>1, <1>2, StepOfCall

LEMMA RequestSite == \A r \in Requests : r.site \in Site
BY RequestsAssumption

LEMMA NextRequestInv ==
  ASSUME CallInv, RequestInv, [DNext]_dvars
  PROVE  RequestInv'
<1> USE DEF Move, Finish, Phases, Calling, Kinds
<1>0. ASSUME NEW p \in Process, NEW j \in Jobs, Begin(p, j)
      PROVE  \A q \in Process \ {p} : pc'[q] = pc[q]
  BY <1>0 DEF Begin, CallInv, TypeInv, TypeOK
<1>1. ASSUME NEW p \in Process, NEW r \in Requests, Accept(p, r) PROVE RequestInv'
  BY <1>1 DEF Accept, RequestInv, vars
<1>2. ASSUME NEW p \in Process, AddDomain(p) PROVE RequestInv'
  <2>1. request[p] \in Requests
    BY <1>2 DEF AddDomain, RequestInv
  <2>2. AddJob(request[p]) \in Jobs /\ Begin(p, AddJob(request[p]))
    BY <1>2, <2>1, CallsAssumption DEF AddDomain
  <2>3. \A q \in Process \ {p} : pc'[q] = pc[q]
    BY <1>0, <2>2
  <2>4. QED
    BY <1>2, <2>3 DEF AddDomain, RequestInv
<1>3. ASSUME NEW p \in Process, DeleteDomain(p) PROVE RequestInv'
  <2>1. request[p] \in Requests
    BY <1>3 DEF DeleteDomain, RequestInv
  <2>2. DeleteJob(request[p]) \in Jobs /\ Begin(p, DeleteJob(request[p]))
    BY <1>3, <2>1, CallsAssumption DEF DeleteDomain
  <2>3. \A q \in Process \ {p} : pc'[q] = pc[q]
    BY <1>0, <2>2
  <2>4. QED
    BY <1>3, <2>3 DEF DeleteDomain, RequestInv
<1>4. ASSUME NEW p \in Process, Unchanged(p) PROVE RequestInv'
  BY <1>4 DEF Unchanged, RequestInv, vars
<1>5. ASSUME NEW p \in Process, UpdateDomain(p) PROVE RequestInv'
  <2>1. BansOf(request[p], disk) \in SUBSET Kinds
    BY DEF BansOf
  <2>2. request[p] \in Requests
    BY <1>5 DEF UpdateDomain, RequestInv
  <2>3. \E j \in Jobs : Begin(p, j)
    BY <1>5, <2>2, CallsAssumption DEF UpdateDomain, VarnishChanged, ConfigChanged
  <2>4. \A q \in Process \ {p} : pc'[q] = pc[q]
    BY <1>0, <2>3
  <2>5. QED
    BY <1>5, <2>1, <2>4 DEF UpdateDomain, RequestInv
<1>6. ASSUME NEW p \in Process, UpdateUnreadable(p) PROVE RequestInv'
  BY <1>6 DEF UpdateUnreadable, RequestInv, vars
<1>7. ASSUME NEW p \in Process, Added(p) \/ Updated(p) \/ Deleted(p) PROVE RequestInv'
  BY <1>7 DEF Added, Updated, Deleted, Returned, RequestInv, vars
<1>8. ASSUME NEW p \in Process, CallFailed(p) PROVE RequestInv'
  BY <1>8 DEF CallFailed, Returned, RequestInv, vars
<1>9. ASSUME NEW p \in Process, NEW k \in {"url", "html"}, Ban(p, k) PROVE RequestInv'
  BY <1>9 DEF Ban, RequestInv, vars
<1>10. ASSUME NEW p \in Process, BanFails(p) PROVE RequestInv'
  BY <1>10 DEF BanFails, RequestInv
<1>11. ASSUME NEW p \in Process, Done(p) PROVE RequestInv'
  BY <1>11 DEF Done, RequestInv, vars
<1>12. ASSUME NEW p \in Process, Run(p) \/ Crash(p), UNCHANGED <<request_vars, cache>>
       PROVE  RequestInv'
  <2>1. pc[p] # "idle"
    BY <1>12
       DEF Run, Commands, Finalize, Rollback, Backup, BackupFails, NextCommand, RunStep,
           RunStepFails, Schedule, RaiseOutside, AtStep, SkipNginx, CheckNginx, LoadNginx,
           LoadNginxFails, SkipVarnish, WriteVcl, WriteVclFails, LoadVarnish,
           LoadVarnishFails, SaveBackup, SaveBackupFails, Restore, RestoreFails,
           ReloadAgain, ReloadAgainFails, RolledBack, RollingBack, Crash, Goto, Finished
  <2>2. \A q \in Process \ {p} : pc'[q] = pc[q]
    BY <1>12
       DEF Run, Commands, Finalize, Rollback, Backup, BackupFails, NextCommand, RunStep,
           RunStepFails, Schedule, RaiseOutside, AtStep, SkipNginx, CheckNginx, LoadNginx,
           LoadNginxFails, SkipVarnish, WriteVcl, WriteVclFails, LoadVarnish,
           LoadVarnishFails, SaveBackup, SaveBackupFails, Restore, RestoreFails,
           ReloadAgain, ReloadAgainFails, RolledBack, RollingBack, Crash, Goto, End,
           CallInv, TypeInv, TypeOK
  <2>3. QED
    BY <1>12, <2>1, <2>2 DEF RequestInv, request_vars
<1>13. ASSUME NEW s \in Site, Fetch(s) PROVE RequestInv'
  BY <1>13 DEF Fetch, RequestInv, vars, request_vars
<1>14. CASE UNCHANGED dvars
  BY <1>14 DEF RequestInv, dvars, vars, request_vars
<1>15. QED
  BY <1>1, <1>2, <1>3, <1>4, <1>5, <1>6, <1>7, <1>8, <1>9, <1>10, <1>11, <1>12, <1>13,
     <1>14 DEF DNext, Handle

LEMMA InitRequests == DInit => CallInv /\ RequestInv
<1> SUFFICES ASSUME DInit PROVE CallInv /\ RequestInv
  OBVIOUS
<1>1. Init
  BY DEF DInit
<1>2. CallInv
  BY <1>1, InitTypeInv, StacksDiffer DEF CallInv, Init, AtomicInv, LiveInv
<1>3. RequestInv
  BY <1>1, Zenon, CallsAssumption
     DEF DInit, Init, RequestInv, Phases, Calling, Kinds
<1>4. QED
  BY <1>2, <1>3

\* The invariants that the next two sections rest on.
LEMMA RequestsAlways == Alone => (DSpec => [](CallInv /\ RequestInv))
<1> SUFFICES ASSUME Alone PROVE DSpec => [](CallInv /\ RequestInv)
  OBVIOUS
<1>1. CallInv /\ RequestInv /\ [DNext]_dvars => (CallInv /\ RequestInv)'
  BY Alone, NextCallInv, NextRequestInv
<1>2. QED
  BY <1>1, InitRequests, PTL DEF DSpec

----------------------------------------------------------------------------
(* The cache                                                               *)

\* From the end of its call on, what a request has banned comes back only as
\* what is live: the call is over and no other process makes one, so that what
\* clients store is what Varnish and Nginx still run when the request ends.
BanInv ==
  \A p \in Process :
    phase[p] = "ban" \/ status[p] = "ok" =>
      \A o \in cache[request[p].site] :
        o.kind \in banned[p] => Fresh(request[p].site, o)

LEMMA NextBanInv ==
  ASSUME Alone, RequestInv, BanInv, [DNext]_dvars
  PROVE  BanInv'
<1> USE DEF Alone, BanInv, RequestInv, Move, Finish, Phases, Calling
<1>1. ASSUME NEW p \in Process, NEW r \in Requests, Accept(p, r) PROVE BanInv'
  BY <1>1 DEF Accept
<1>2. ASSUME NEW p \in Process, AddDomain(p) \/ DeleteDomain(p) \/ UpdateDomain(p)
      PROVE  BanInv'
  BY <1>2 DEF AddDomain, DeleteDomain, UpdateDomain
<1>3. ASSUME NEW p \in Process, Unchanged(p) \/ UpdateUnreadable(p) PROVE BanInv'
  BY <1>3 DEF Unchanged, UpdateUnreadable
<1>4. ASSUME NEW p \in Process, Added(p) \/ Updated(p) \/ Deleted(p) PROVE BanInv'
  BY <1>4 DEF Added, Updated, Deleted
<1>5. ASSUME NEW p \in Process, CallFailed(p) \/ BanFails(p) PROVE BanInv'
  BY <1>5 DEF CallFailed, BanFails
<1>6. ASSUME NEW p \in Process, NEW k \in {"url", "html"}, Ban(p, k) PROVE BanInv'
  <2> DEFINE s == request[p].site
  <2>1. UNCHANGED <<request, phase, status, nginx, varnish>> /\ phase[p] = "ban"
    BY <1>6 DEF Ban, vars
  <2>2. s \in Site
    BY <2>1, RequestSite
  <2>3. cache'[s] = {o \in cache[s] : o.kind # k} /\ banned'[p] = banned[p] \union {k}
    BY <1>6, <2>2 DEF Ban
  <2>4. \A o : Fresh(s, o) => Fresh(s, o)'
    BY <2>1 DEF Fresh, Live
  <2>5. QED
    BY <2>1, <2>3, <2>4
<1>7. ASSUME NEW p \in Process, Done(p) PROVE BanInv'
  <2>1. UNCHANGED <<request, banned, nginx, varnish, cache>> /\ phase[p] = "ban"
    BY <1>7 DEF Done, vars
  <2>2. QED
    BY <2>1 DEF Fresh, Live
<1>8. ASSUME NEW p \in Process, Run(p) \/ Crash(p), UNCHANGED <<request_vars, cache>>
      PROVE  BanInv'
  <2>1. pc[p] # "idle"
    BY <1>8
       DEF Run, Commands, Finalize, Rollback, Backup, BackupFails, NextCommand, RunStep,
           RunStepFails, Schedule, RaiseOutside, AtStep, SkipNginx, CheckNginx, LoadNginx,
           LoadNginxFails, SkipVarnish, WriteVcl, WriteVclFails, LoadVarnish,
           LoadVarnishFails, SaveBackup, SaveBackupFails, Restore, RestoreFails,
           ReloadAgain, ReloadAgainFails, RolledBack, RollingBack, Crash, Goto, Finished
  <2>2. QED
    BY <1>8, <2>1 DEF request_vars
<1>9. ASSUME NEW s \in Site, Fetch(s) PROVE BanInv'
  <2>1. UNCHANGED <<request, phase, banned, status, nginx, varnish>>
    BY <1>9 DEF Fetch, vars, request_vars
  <2>2. \A q \in Site : \A o : Fresh(q, o) => Fresh(q, o)'
    BY <2>1 DEF Fresh, Live
  <2>3. \A t \in Site : \A o \in cache'[t] : o \in cache[t] \/ Fresh(t, o)'
    BY <1>9, <2>1 DEF Fetch, Fresh, Live
  <2>4. ASSUME NEW p \in Process, phase[p] = "ban" \/ status[p] = "ok"
        PROVE  request[p].site \in Site
    BY <2>4, RequestSite
  <2>5. QED
    BY <2>1, <2>2, <2>3, <2>4
<1>10. CASE UNCHANGED dvars
  BY <1>10 DEF dvars, vars, request_vars, Fresh, Live
<1>11. QED
  BY <1>1, <1>2, <1>3, <1>4, <1>5, <1>6, <1>7, <1>8, <1>9, <1>10 DEF DNext, Handle

\* BansMatchLive, of a process that is alone.
THEOREM BansHold ==
  ASSUME Alone
  PROVE  DSpec => []BansMatchLive
<1>1. DInit => BanInv
  BY Zenon DEF DInit, BanInv
<1>2. CallInv /\ RequestInv /\ BanInv /\ [DNext]_dvars => BanInv'
  BY Alone, NextBanInv
<1>3. BanInv => BansMatchLive
  BY DEF BanInv, BansMatchLive
<1>4. QED
  BY Alone, RequestsAlways, <1>1, <1>2, <1>3, PTL DEF DSpec

----------------------------------------------------------------------------
(* What Nginx runs                                                         *)

\* A batch is configured now and loaded by a later call: these results are
\* about requests that ask for the reload themselves.
NoBatch == \A r \in Requests : r.kind # "batch"

\* A site whose variables are stored is enabled, with the .conf file that they
\* give.
Consistent(d) ==
  \A s \in Site : d.main[s] # None => d.conf[s] = d.main[s] /\ s \in d.enabled

\* What the files and Nginx are between two calls.
Steady(d, running) == Consistent(d) /\ ConfigTest(d) /\ running = Rendered(d)

\* The files have what the request asks for.
SiteDone(r, d) ==
  IF r.kind = "delete" THEN r.site \notin d.enabled
                       ELSE d.conf[r.site] = r.n /\ r.site \in d.enabled

\* The calls that requests make: one command, and "config_changed" is FALSE
\* only if the variables are those that are stored.
Calls(r, j, d) ==
  \/ r.kind = "delete" /\ j = DeleteJob(r)
  \/ /\ r.kind # "delete"
     /\ \E templates, vchanged, cchanged \in BOOLEAN :
          /\ j = [version |-> API_VERSION, commands |-> <<UiCommand(r, templates)>>,
                  varnish_changed |-> vchanged, config_changed |-> cchanged]
          /\ cchanged \/ d.main[r.site] = r.n

\* The steps of a command that deletes a site.
DeleteOps(r) ==
  {Do("remove_policy", r.site), Do("disable_site", r.site), Do("remove_conf", r.site),
   Do("remove_templates", r.site), Do("remove_vsite", r.site), WebOn}

\* Sites other than that of the request are as they were.
OthersKept(r, d, old) ==
  \A s \in Site \ {r.site} :
    /\ d.conf[s] = old.conf[s] /\ d.main[s] = old.main[s]
    /\ s \in d.enabled <=> s \in old.enabled

\* In the middle of the command, with the steps "left" to take: what is not
\* to be done any more is done, and Nginx will be reloaded if the variables are
\* new.
Configuring(r, left, d, old, reload) ==
  /\ left \subseteq ConfigOps(r.site, r.n, r.v)
  /\ Put("write_conf", r.site, r.n) \in left \/ d.conf[r.site] = r.n
  /\ Do("enable_site", r.site) \in left \/ r.site \in d.enabled
  /\ Put("save_vars", r.site, r.n) \in left \/ d.main[r.site] = r.n
  /\ old.main[r.site] = r.n => d.conf[r.site] = r.n /\ r.site \in d.enabled
  /\ old.main[r.site] # r.n => WebOff \notin left /\ (WebOn \in left \/ reload)

Deleting(r, left, d, reload) ==
  /\ left \subseteq DeleteOps(r)
  /\ Do("disable_site", r.site) \in left \/ r.site \notin d.enabled
  /\ Do("remove_templates", r.site) \in left \/ d.main[r.site] = None
  /\ WebOn \in left \/ reload

Working(r, left, d, old, reload) ==
  /\ OthersKept(r, d, old)
  /\ IF r.kind = "delete" THEN Deleting(r, left, d, reload)
                          ELSE Configuring(r, left, d, old, reload)

\* As long as nothing fails, the files and Nginx are steady between two calls,
\* and so are those that a call will go back to; a call that goes on puts what
\* the request asks for into the files and then into Nginx.
CallSync(p) ==
  LET r == request[p] IN
  /\ Steady(before[p], nginxBefore[p])
  /\ Calls(r, job[p], before[p])
  /\ pc[p] = "backup" => todo[p] = <<>> /\ cmds[p] = job[p].commands
  /\ pc[p] = "commands" =>
       \/ todo[p] = <<>> /\ cmds[p] = job[p].commands /\ disk = before[p]
       \/ /\ cmds[p] = <<>>
          /\ Working(r, ToSet(todo[p]), disk, before[p], webserver_reload[p])
  /\ pc[p] \in {"load_nginx", "varnish", "load_varnish", "save"} =>
       Consistent(disk) /\ SiteDone(r, disk)
  /\ pc[p] \in {"varnish", "load_varnish", "save"} => Steady(disk, nginx)

ReturnSync(p) ==
  /\ Steady(disk, nginx) /\ todo[p] = <<>>
  /\ outcome[p] \in {"ok", "rolled_back", "none"}
  /\ \/ phase[p] = "ban" \/ status[p] = "ok"
     \/ phase[p] \in Calling /\ outcome[p] = "ok"
     => SiteDone(request[p], disk)

SyncInv ==
  faults = 0 =>
    \A p \in Process : IF pc[p] = "idle" THEN ReturnSync(p) ELSE CallSync(p)

LEMMA RequestTypes ==
  \A r \in Requests : /\ r.site \in Site /\ r.n \in NVar /\ r.v \in VVar
                      /\ r.n # None /\ r.v # None
                      /\ r.kind \in {"config", "batch", "force", "delete"}
BY RequestsAssumption, ValuesAssumption

LEMMA DeleteSet ==
  ASSUME NEW r \in Requests, NEW vc, NEW cc
  PROVE  ToSet(CommandSteps(DeleteJob(r).commands[1], vc, cc)) = DeleteOps(r)
<1> DEFINE c == DeleteJob(r).commands[1]
<1>1. c.type = "delete" /\ c.named = TRUE /\ c.site = r.site
  BY DEF DeleteJob
<1>2. CommandSteps(c, vc, cc) =
        <<Do("remove_policy", r.site), Do("disable_site", r.site),
          Do("remove_conf", r.site), Do("remove_templates", r.site), WebOn,
          Do("remove_vsite", r.site)>>
  BY <1>1 DEF CommandSteps, DeleteSteps
<1>3. QED
  BY <1>2, SetsOfSix DEF DeleteOps

\* A file operation of the command leaves the rest of the command to be done.
LEMMA OpConfigures ==
  ASSUME NEW r \in Requests, r.kind # "delete", NEW d \in Disk, NEW old, NEW reload,
         NEW x, x.op \in FileOps, NEW left, NEW rest, left = {x} \union rest,
         Working(r, left, d, old, reload)
  PROVE  Working(r, rest, Effect(x, d), old, reload)
<1> DEFINE s == r.site
           n == r.n
           e == Effect(x, d)
<1>1. s \in Site /\ n \in NVar /\ r.v \in VVar
  BY RequestTypes
<1>2. Configuring(r, left, d, old, reload) /\ OthersKept(r, d, old)
  BY DEF Working
<1>3. x \in {Do("write_templates", s), Put("write_conf", s, n), Do("fixup_certs", s),
             Do("enable_site", s), Put("save_vars", s, n), Put("write_vsite", s, r.v)}
  <2>1. x \in ConfigOps(r.site, r.n, r.v)
    BY <1>2 DEF Configuring
  <2>2. x \notin {WebOn, WebOff, VarnishOn, VarnishOff}
    BY OpsDiffer DEF FileOps, GlobalOps, SiteOps, NginxOps, VarnishOps
  <2>3. QED
    BY <2>1, <2>2 DEF ConfigOps
<1>4. d.conf \in [Site -> NVar \union {None}] /\ d.main \in [Site -> NVar \union {None}]
  BY DEF Disk, NConf
<1>5. /\ e.conf = IF x = Put("write_conf", s, n) THEN [d.conf EXCEPT ![s] = n] ELSE d.conf
      /\ e.main = IF x = Put("save_vars", s, n) THEN [d.main EXCEPT ![s] = n] ELSE d.main
      /\ e.enabled = IF x = Do("enable_site", s) THEN d.enabled \union {s} ELSE d.enabled
  <2>1. CASE x = Put("write_conf", s, n)
    <3>1. x # Put("save_vars", s, n) /\ x # Do("enable_site", s)
      BY <2>1, OpsDiffer
    <3>2. QED
      BY <1>1, <2>1, <3>1, EffectOnConf
  <2>2. CASE x = Put("save_vars", s, n)
    <3>1. x # Put("write_conf", s, n) /\ x # Do("enable_site", s)
      BY <2>2, OpsDiffer
    <3>2. QED
      BY <1>1, <2>2, <3>1, EffectOnMain
  <2>3. CASE x = Do("enable_site", s)
    <3>1. x # Put("write_conf", s, n) /\ x # Put("save_vars", s, n)
      BY <2>3, OpsDiffer
    <3>2. QED
      BY <1>1, <2>3, <3>1, EffectOnEnabled
  <2>4. CASE x \in {Do("write_templates", s), Do("fixup_certs", s), Put("write_vsite", s, r.v)}
    <3>1. /\ x # Put("write_conf", s, n) /\ x # Put("save_vars", s, n)
          /\ x # Do("enable_site", s)
      BY <2>4, OpsDiffer
    <3>2. e.conf = d.conf /\ e.main = d.main /\ e.enabled = d.enabled
      <4>1. CASE x = Do("write_templates", s)
        BY <1>1, <4>1, EffectOnNone DEF SameSites
      <4>2. CASE x = Do("fixup_certs", s)
        BY <1>1, <4>2, EffectOnNone DEF SameSites
      <4>3. CASE x = Put("write_vsite", s, r.v)
        BY <1>1, <4>3, EffectOnNone DEF SameSites
      <4>4. QED
        BY <2>4, <4>1, <4>2, <4>3
    <3>3. QED
      BY <3>1, <3>2
  <2>5. QED
    BY <1>3, <2>1, <2>2, <2>3, <2>4
<1> HIDE DEF e
<1>6. OthersKept(r, e, old)
  <2>1. \A t \in Site \ {s} : /\ e.conf[t] = d.conf[t] /\ e.main[t] = d.main[t]
                              /\ t \in e.enabled <=> t \in d.enabled
    BY <1>1, <1>4, <1>5
  <2>2. QED
    BY <1>2, <2>1 DEF OthersKept
<1>7. Configuring(r, rest, e, old, reload)
  <2>1. /\ e.conf[s] = n \/ (x # Put("write_conf", s, n) /\ e.conf[s] = d.conf[s])
        /\ e.main[s] = n \/ (x # Put("save_vars", s, n) /\ e.main[s] = d.main[s])
        /\ s \in e.enabled \/ (x # Do("enable_site", s) /\ s \notin d.enabled)
        /\ d.conf[s] = n => e.conf[s] = n
        /\ s \in d.enabled => s \in e.enabled
    BY <1>1, <1>4, <1>5
  <2>2. x # WebOn
    BY OpsDiffer DEF FileOps, GlobalOps, SiteOps, NginxOps, VarnishOps
  <2>3. QED
    BY <1>2, <2>1, <2>2 DEF Configuring
<1>8. QED
  BY <1>6, <1>7 DEF Working, e

LEMMA OpDeletes ==
  ASSUME NEW r \in Requests, r.kind = "delete", NEW d \in Disk, NEW old, NEW reload,
         NEW x, x.op \in FileOps, NEW left, NEW rest, left = {x} \union rest,
         Working(r, left, d, old, reload)
  PROVE  Working(r, rest, Effect(x, d), old, reload)
<1> DEFINE s == r.site
           e == Effect(x, d)
<1>1. s \in Site
  BY RequestTypes
<1>2. Deleting(r, left, d, reload) /\ OthersKept(r, d, old)
  BY DEF Working
<1>3. x \in {Do("remove_policy", s), Do("disable_site", s), Do("remove_conf", s),
             Do("remove_templates", s), Do("remove_vsite", s)}
  <2>1. x \in DeleteOps(r)
    BY <1>2 DEF Deleting
  <2>2. x # WebOn
    BY OpsDiffer DEF FileOps, GlobalOps, SiteOps, NginxOps, VarnishOps
  <2>3. QED
    BY <2>1, <2>2 DEF DeleteOps
<1>4. d.conf \in [Site -> NVar \union {None}] /\ d.main \in [Site -> NVar \union {None}]
  BY DEF Disk, NConf
<1>5. /\ e.conf = IF x = Do("remove_conf", s) THEN [d.conf EXCEPT ![s] = None] ELSE d.conf
      /\ e.main = IF x = Do("remove_templates", s) THEN [d.main EXCEPT ![s] = None]
                                                   ELSE d.main
      /\ e.enabled = IF x = Do("disable_site", s) THEN d.enabled \ {s} ELSE d.enabled
  <2>1. CASE x = Do("remove_conf", s)
    <3>1. x # Do("remove_templates", s) /\ x # Do("disable_site", s)
      BY <2>1, OpsDiffer
    <3>2. QED
      BY <1>1, <2>1, <3>1, EffectOnConf
  <2>2. CASE x = Do("remove_templates", s)
    <3>1. x # Do("remove_conf", s) /\ x # Do("disable_site", s)
      BY <2>2, OpsDiffer
    <3>2. QED
      BY <1>1, <2>2, <3>1, EffectOnMain
  <2>3. CASE x = Do("disable_site", s)
    <3>1. x # Do("remove_conf", s) /\ x # Do("remove_templates", s)
      BY <2>3, OpsDiffer
    <3>2. QED
      BY <1>1, <2>3, <3>1, EffectOnEnabled
  <2>4. CASE x \in {Do("remove_policy", s), Do("remove_vsite", s)}
    <3>1. /\ x # Do("remove_conf", s) /\ x # Do("remove_templates", s)
          /\ x # Do("disable_site", s)
      BY <2>4, OpsDiffer
    <3>2. e.conf = d.conf /\ e.main = d.main /\ e.enabled = d.enabled
      <4>1. CASE x = Do("remove_policy", s)
        BY <1>1, <4>1, EffectOnNone DEF SameSites
      <4>2. CASE x = Do("remove_vsite", s)
        BY <1>1, <4>2, EffectOnNone DEF SameSites
      <4>3. QED
        BY <2>4, <4>1, <4>2
    <3>3. QED
      BY <3>1, <3>2
  <2>5. QED
    BY <1>3, <2>1, <2>2, <2>3, <2>4
<1> HIDE DEF e
<1>6. OthersKept(r, e, old)
  <2>1. \A t \in Site \ {s} : /\ e.conf[t] = d.conf[t] /\ e.main[t] = d.main[t]
                              /\ t \in e.enabled <=> t \in d.enabled
    BY <1>1, <1>4, <1>5
  <2>2. QED
    BY <1>2, <2>1 DEF OthersKept
<1>7. Deleting(r, rest, e, reload)
  <2>1. /\ e.main[s] = None \/ (x # Do("remove_templates", s) /\ e.main[s] = d.main[s])
        /\ s \notin e.enabled \/ (x # Do("disable_site", s) /\ s \in d.enabled)
    BY <1>1, <1>4, <1>5
  <2>2. x # WebOn
    BY OpsDiffer DEF FileOps, GlobalOps, SiteOps, NginxOps, VarnishOps
  <2>3. QED
    BY <1>2, <2>1, <2>2 DEF Deleting
<1>8. QED
  BY <1>6, <1>7 DEF Working, e

LEMMA FlagWorks ==
  ASSUME NEW r \in Requests, NEW d, NEW old, NEW reload, NEW x, x.op \in FlagOps,
         NEW left, NEW rest, left = {x} \union rest, Working(r, left, d, old, reload),
         NEW on, on = IF x.op = "web_on" THEN TRUE
                      ELSE IF x.op = "web_off" THEN FALSE ELSE reload
  PROVE  Working(r, rest, d, old, on)
<1>1. CASE r.kind = "delete"
  <2>1. OthersKept(r, d, old) /\ Deleting(r, left, d, reload)
    BY <1>1 DEF Working
  <2>2. x = WebOn
    <3>1. x \in DeleteOps(r)
      BY <2>1 DEF Deleting
    <3>2. QED
      BY <3>1, OpsDiffer DEF DeleteOps, FlagOps
  <2>3. on = TRUE
    BY <2>2, OpsDiffer
  <2>4. /\ x # Do("disable_site", r.site) /\ x # Do("remove_templates", r.site)
    BY <2>2, OpsDiffer
  <2>5. Deleting(r, rest, d, on)
    BY <2>1, <2>3, <2>4 DEF Deleting
  <2>6. QED
    BY <1>1, <2>1, <2>5 DEF Working
<1>2. CASE r.kind # "delete"
  <2>1. OthersKept(r, d, old) /\ Configuring(r, left, d, old, reload)
    BY <1>2 DEF Working
  <2>2. x \in {WebOn, WebOff, VarnishOn, VarnishOff}
    <3>1. x \in ConfigOps(r.site, r.n, r.v)
      BY <2>1 DEF Configuring
    <3>2. QED
      BY <3>1, OpsDiffer DEF ConfigOps, FlagOps
  <2>3. /\ x # Put("write_conf", r.site, r.n) /\ x # Do("enable_site", r.site)
        /\ x # Put("save_vars", r.site, r.n)
    BY <2>2, OpsDiffer
  <2>4. /\ x = WebOn => on = TRUE
        /\ x \notin {WebOn, WebOff} => on = reload
    BY <2>2, OpsDiffer
  <2>5. old.main[r.site] # r.n => WebOff \notin rest /\ (WebOn \in rest \/ on)
    BY <2>1, <2>2, <2>4 DEF Configuring
  <2>6. Configuring(r, rest, d, old, on)
    BY <2>1, <2>3, <2>5 DEF Configuring
  <2>7. QED
    BY <1>2, <2>1, <2>6 DEF Working
<1>3. QED
  BY <1>1, <1>2

\* A call starts with all of its command to do ...
LEMMA WorkBegins ==
  ASSUME NoBatch, NEW r \in Requests, NEW old, Consistent(old), NEW j, Calls(r, j, old),
         NEW reload
  PROVE  /\ Working(r, ToSet(CommandSteps(Head(j.commands), j.varnish_changed,
                                          j.config_changed)), old, old, reload)
         /\ j.commands # <<>> /\ Tail(j.commands) = <<>> /\ j.version = API_VERSION
<1>1. OthersKept(r, old, old)
  BY DEF OthersKept
<1>2. CASE r.kind = "delete"
  <2>1. j = DeleteJob(r)
    BY <1>2 DEF Calls
  <2>2. /\ Head(j.commands) = DeleteJob(r).commands[1] /\ j.commands # <<>>
        /\ Tail(j.commands) = <<>> /\ j.version = API_VERSION
    BY <2>1 DEF DeleteJob
  <2>3. ToSet(CommandSteps(Head(j.commands), j.varnish_changed, j.config_changed))
        = DeleteOps(r)
    BY <2>2, DeleteSet
  <2>4. Deleting(r, DeleteOps(r), old, reload)
    BY DEF Deleting, DeleteOps
  <2>5. QED
    BY <1>1, <1>2, <2>2, <2>3, <2>4 DEF Working
<1>3. CASE r.kind # "delete"
  <2>1. PICK t, vc, cc \in BOOLEAN :
          /\ j = [version |-> API_VERSION, commands |-> <<UiCommand(r, t)>>,
                  varnish_changed |-> vc, config_changed |-> cc]
          /\ cc \/ old.main[r.site] = r.n
    BY <1>3 DEF Calls
  <2>2. /\ Head(j.commands) = UiCommand(r, t) /\ j.commands # <<>>
        /\ Tail(j.commands) = <<>> /\ j.version = API_VERSION
        /\ j.varnish_changed = vc /\ j.config_changed = cc
    BY <2>1
  <2> DEFINE S == ToSet(CommandSteps(UiCommand(r, t), vc, cc))
  <2>3. /\ S \subseteq ConfigOps(r.site, r.n, r.v)
        /\ {Put("write_conf", r.site, r.n), Do("enable_site", r.site),
            Put("save_vars", r.site, r.n), WebOn} \subseteq S
        /\ cc => WebOff \notin S
    <3> DEFINE c == UiCommand(r, t)
    <3>1. c.type \in {"config", "force"} /\ c.site = r.site /\ c.nvars = r.n /\ c.vvars = r.v
      BY <1>3, NoBatch, RequestTypes DEF NoBatch, UiCommand
    <3>2. r.site \in Site /\ r.n \in NVar /\ r.v \in VVar
      BY RequestTypes
    <3> HIDE DEF c
    <3>3. LET Q == ToSet(CommandSteps(c, vc, cc))
          IN /\ Q \subseteq ConfigOps(r.site, r.n, r.v)
             /\ {Put("write_conf", r.site, r.n), Do("enable_site", r.site),
                 Put("save_vars", r.site, r.n), Put("write_vsite", r.site, r.v),
                 WebOn, VarnishOn} \subseteq Q
             /\ cc => WebOff \notin Q
      BY <3>1, <3>2, ConfigSet
    <3>4. QED
      BY <3>3 DEF c
  <2> HIDE DEF S
  <2>4. old.main[r.site] = r.n => old.conf[r.site] = r.n /\ r.site \in old.enabled
    BY RequestTypes DEF Consistent
  <2>5. Configuring(r, S, old, old, reload)
    BY <2>1, <2>3, <2>4 DEF Configuring
  <2>6. QED
    BY <1>1, <1>3, <2>2, <2>5 DEF Working, S
<1>4. QED
  BY <1>2, <1>3

\* ... and when none is left, the files are those that were asked for, and
\* other ones than Nginx has only if it will be reloaded.
LEMMA WorkDone ==
  ASSUME NEW r \in Requests, NEW d \in Disk, NEW old \in Disk, NEW reload,
         Consistent(old), Working(r, {}, d, old, reload)
  PROVE  /\ Consistent(d) /\ SiteDone(r, d)
         /\ ~reload /\ ConfigTest(old) => ConfigTest(d) /\ Rendered(d) = Rendered(old)
<1>1. r.site \in Site /\ r.n # None /\ OthersKept(r, d, old)
  BY RequestTypes DEF Working
<1>2. CASE r.kind = "delete"
  <2>1. r.site \notin d.enabled /\ d.main[r.site] = None /\ reload
    BY <1>2 DEF Working, Deleting
  <2>2. Consistent(d)
    BY <1>1, <2>1 DEF Consistent, OthersKept
  <2>3. QED
    BY <1>2, <2>1, <2>2 DEF SiteDone
<1>3. CASE r.kind # "delete"
  <2>1. /\ d.conf[r.site] = r.n /\ r.site \in d.enabled /\ d.main[r.site] = r.n
        /\ ~reload => old.main[r.site] = r.n
    BY <1>3 DEF Working, Configuring
  <2>2. Consistent(d)
    BY <1>1, <2>1 DEF Consistent, OthersKept
  <2>3. ASSUME ~reload
        PROVE  \A s \in Site : s \in d.enabled <=> s \in old.enabled
    BY <1>1, <2>1, <2>3 DEF Consistent, OthersKept
  <2>4. ASSUME ~reload PROVE \A s \in Site : d.conf[s] = old.conf[s]
    BY <1>1, <2>1, <2>4 DEF Consistent, OthersKept
  <2>5. d.enabled \subseteq Site /\ old.enabled \subseteq Site
    BY DEF Disk
  <2>6. ~reload /\ ConfigTest(old) => ConfigTest(d) /\ Rendered(d) = Rendered(old)
    BY <2>3, <2>4, <2>5 DEF ConfigTest, Rendered
  <2>7. QED
    BY <1>3, <2>1, <2>2, <2>6 DEF SiteDone
<1>4. QED
  BY <1>2, <1>3

\* A step of the only process has kept the invariant if it is so of that
\* process.
LEMMA OneProcess ==
  ASSUME Alone, NEW p \in Process,
         IF pc'[p] = "idle" THEN ReturnSync(p)' ELSE CallSync(p)'
  PROVE  SyncInv'
<1>1. \A q \in Process : q = p
  BY DEF Alone
<1>2. QED
  BY <1>1 DEF SyncInv

LEMMA Unfailed ==
  ASSUME CallInv, faults' = 0, Fault
  PROVE  FALSE
BY ValuesAssumption DEF CallInv, TypeInv, TypeOK, Fault

LEMMA CommandsSync ==
  ASSUME Alone, NoBatch, CallInv, RequestInv, SyncInv, faults' = 0,
         NEW p \in Process, Commands(p), UNCHANGED <<request_vars, cache>>
  PROVE  SyncInv'
<1> DEFINE r == request[p]
<1>1. /\ pc[p] # "idle"
      /\ ~Fault
  BY Unfailed
     DEF Commands, Backup, BackupFails, NextCommand, RunStep, RunStepFails, Schedule,
         RaiseOutside, AtStep, Goto
<1>2. faults = 0
  BY <1>1, Unfailed
     DEF Commands, Backup, BackupFails, NextCommand, RunStep, RunStepFails, Schedule,
         RaiseOutside
<1>3. /\ CallSync(p) /\ r \in Requests /\ phase[p] \in Calling /\ status[p] = "none"
      /\ request' = request /\ phase' = phase /\ status' = status
  BY <1>1, <1>2 DEF SyncInv, RequestInv, Calling, request_vars
<1>4. /\ disk \in Disk /\ before[p] \in Disk /\ todo[p] \in Seq(Step)
      /\ pc \in [Process -> {"idle", "backup", "commands", "load_nginx", "varnish",
                             "load_varnish", "save", "rollback"}]
      /\ todo \in [Process -> Seq(Step)] /\ cmds \in [Process -> Seq(Command)]
      /\ webserver_reload \in [Process -> BOOLEAN]
  BY DEF CallInv, TypeInv, TypeOK
<1> HIDE DEF r
<1>5. CASE Backup(p)
  <2>1. /\ pc[p] = "backup" /\ pc'[p] = "commands"
        /\ UNCHANGED <<disk, nginx, cmds, todo, job, before, nginxBefore>>
    BY <1>4, <1>5 DEF Backup, Goto, history
  <2>2. disk = before[p]
    BY <2>1 DEF CallInv, AtomicInv
  <2>3. CallSync(p)'
    BY <1>3, <2>1, <2>2 DEF CallSync
  <2>4. QED
    BY Alone, <2>1, <2>3, OneProcess
<1>6. CASE BackupFails(p)
  BY <1>1, <1>6 DEF BackupFails
<1>7. CASE NextCommand(p)
  <2>1. /\ pc[p] = "commands" /\ pc'[p] = "commands" /\ cmds[p] # <<>>
        /\ todo'[p] = CommandSteps(Head(cmds[p]), job[p].varnish_changed,
                                   job[p].config_changed)
        /\ cmds'[p] = Tail(cmds[p])
        /\ UNCHANGED <<disk, nginx, job, before, nginxBefore, webserver_reload>>
    BY <1>4, <1>7 DEF NextCommand, transaction, history
  <2>2. /\ cmds[p] = job[p].commands /\ disk = before[p]
        /\ Steady(before[p], nginxBefore[p]) /\ Calls(r, job[p], before[p])
    BY <2>1, <1>3 DEF CallSync, r
  <2>3. Consistent(before[p])
    BY <2>2 DEF Steady
  <2>4. /\ Working(r, ToSet(CommandSteps(Head(job[p].commands), job[p].varnish_changed,
                                         job[p].config_changed)),
                   before[p], before[p], webserver_reload[p])
        /\ Tail(job[p].commands) = <<>>
    BY <1>3, <2>2, <2>3, NoBatch, WorkBegins
  <2>5. cmds'[p] = <<>> /\ Working(r, ToSet(todo'[p]), disk', before'[p], webserver_reload'[p])
    BY <2>1, <2>2, <2>4
  <2>6. CallSync(p)'
    BY <1>3, <2>1, <2>2, <2>5 DEF CallSync, r
  <2>7. QED
    BY Alone, <2>1, <2>6, OneProcess
<1>8. ASSUME AtStep(p)
      PROVE  /\ pc[p] = "commands" /\ cmds[p] = <<>> /\ todo[p] # <<>>
             /\ Head(todo[p]) \in Step
             /\ ToSet(todo[p]) = {Head(todo[p])} \union ToSet(Tail(todo[p]))
             /\ Working(r, ToSet(todo[p]), disk, before[p], webserver_reload[p])
             /\ Steady(before[p], nginxBefore[p]) /\ Calls(r, job[p], before[p])
  <2>1. pc[p] = "commands" /\ todo[p] # <<>>
    BY <1>8 DEF AtStep
  <2>2. ToSet(todo[p]) = {Head(todo[p])} \union ToSet(Tail(todo[p])) /\ Head(todo[p]) \in Step
    BY <1>4, <2>1, SetOfTail
  <2>3. /\ cmds[p] = <<>>
        /\ Working(r, ToSet(todo[p]), disk, before[p], webserver_reload[p])
        /\ Steady(before[p], nginxBefore[p]) /\ Calls(r, job[p], before[p])
    BY <1>3, <2>1 DEF CallSync, r
  <2>4. QED
    BY <2>1, <2>2, <2>3
<1>9. CASE RunStep(p)
  <2> DEFINE x == Head(todo[p])
  <2>1. /\ AtStep(p) /\ x.op \in FileOps /\ disk' = Effect(x, disk)
        /\ todo'[p] = Tail(todo[p]) /\ pc'[p] = pc[p]
        /\ UNCHANGED <<nginx, cmds, job, before, nginxBefore, webserver_reload>>
    BY <1>4, <1>9 DEF RunStep, transaction, history
  <2> HIDE DEF x
  <2>2. /\ pc[p] = "commands" /\ cmds[p] = <<>>
        /\ ToSet(todo[p]) = {x} \union ToSet(todo'[p])
        /\ Working(r, ToSet(todo[p]), disk, before[p], webserver_reload[p])
        /\ Steady(before[p], nginxBefore[p]) /\ Calls(r, job[p], before[p])
    BY <1>8, <2>1 DEF x
  <2>3. Working(r, ToSet(todo'[p]), disk', before[p], webserver_reload[p])
    <3>1. CASE r.kind = "delete"
      BY <1>3, <1>4, <2>1, <2>2, <3>1, OpDeletes
    <3>2. CASE r.kind # "delete"
      BY <1>3, <1>4, <2>1, <2>2, <3>2, OpConfigures
    <3>3. QED
      BY <3>1, <3>2
  <2>4. CallSync(p)'
    BY <1>3, <2>1, <2>2, <2>3 DEF CallSync, r
  <2>5. QED
    BY Alone, <2>1, <2>2, <2>4, OneProcess
<1>10. CASE RunStepFails(p)
  <2>1. /\ pc[p] = "commands" /\ pc'[p] = "rollback"
        /\ UNCHANGED <<job, before, nginxBefore>>
    BY <1>4, <1>10 DEF RunStepFails, Goto, history
  <2>2. CallSync(p)'
    BY <1>3, <2>1 DEF CallSync
  <2>3. QED
    BY Alone, <2>1, <2>2, OneProcess
<1>11. CASE Schedule(p)
  <2> DEFINE x == Head(todo[p])
  <2>1. /\ AtStep(p) /\ x.op \in FlagOps
        /\ webserver_reload'[p] = IF x.op = "web_on" THEN TRUE
                                  ELSE IF x.op = "web_off" THEN FALSE
                                  ELSE webserver_reload[p]
        /\ todo'[p] = Tail(todo[p]) /\ pc'[p] = pc[p]
        /\ UNCHANGED <<disk, nginx, cmds, job, before, nginxBefore>>
    BY <1>4, <1>11 DEF Schedule, history
  <2> HIDE DEF x
  <2>2. /\ pc[p] = "commands" /\ cmds[p] = <<>>
        /\ ToSet(todo[p]) = {x} \union ToSet(todo'[p])
        /\ Working(r, ToSet(todo[p]), disk, before[p], webserver_reload[p])
        /\ Steady(before[p], nginxBefore[p]) /\ Calls(r, job[p], before[p])
    BY <1>8, <2>1 DEF x
  <2>3. Working(r, ToSet(todo'[p]), disk, before[p], webserver_reload'[p])
    BY <1>3, <2>1, <2>2, FlagWorks
  <2>4. CallSync(p)'
    BY <1>3, <2>1, <2>2, <2>3 DEF CallSync, r
  <2>5. QED
    BY Alone, <2>1, <2>2, <2>4, OneProcess
<1>12. CASE RaiseOutside(p)
  <2>1. AtStep(p) /\ Head(todo[p]).op = "raise"
    BY <1>12 DEF RaiseOutside
  <2>2. Head(todo[p]) \in ConfigOps(r.site, r.n, r.v) \union DeleteOps(r)
    BY <1>8, <2>1 DEF Working, Configuring, Deleting
  <2>3. QED
    BY <2>1, <2>2, OpsDiffer DEF ConfigOps, DeleteOps
<1>13. QED
  BY <1>5, <1>6, <1>7, <1>9, <1>10, <1>11, <1>12 DEF Commands

\* The VCL is no file of Nginx.
LEMMA VclKeeps ==
  ASSUME NEW r, NEW d \in Disk, NEW v \in VConf
  PROVE  LET e == [d EXCEPT !.vcl = v]
         IN /\ Consistent(e) <=> Consistent(d)
            /\ SiteDone(r, e) <=> SiteDone(r, d)
            /\ ConfigTest(e) <=> ConfigTest(d)
            /\ Rendered(e) = Rendered(d)
BY DEF Disk, Consistent, SiteDone, ConfigTest, Rendered

LEMMA FinalizeSync ==
  ASSUME Alone, NoBatch, CallInv, RequestInv, SyncInv, faults' = 0,
         NEW p \in Process, Finalize(p), UNCHANGED <<request_vars, cache>>
  PROVE  SyncInv'
<1> DEFINE r == request[p]
<1>1. pc[p] # "idle" /\ ~Fault
  BY Unfailed
     DEF Finalize, SkipNginx, CheckNginx, LoadNginx, LoadNginxFails, SkipVarnish,
         WriteVcl, WriteVclFails, LoadVarnish, LoadVarnishFails, SaveBackup,
         SaveBackupFails, Goto, Finished
<1>2. faults = 0
  BY <1>1
     DEF Finalize, SkipNginx, CheckNginx, LoadNginx, LoadNginxFails, SkipVarnish,
         WriteVcl, WriteVclFails, LoadVarnish, LoadVarnishFails, SaveBackup,
         SaveBackupFails
<1>3. /\ CallSync(p) /\ r \in Requests /\ phase[p] \in Calling /\ status[p] = "none"
      /\ request' = request /\ phase' = phase /\ status' = status
  BY <1>1, <1>2 DEF SyncInv, RequestInv, Calling, request_vars
<1>4. /\ disk \in Disk /\ before[p] \in Disk
      /\ pc \in [Process -> {"idle", "backup", "commands", "load_nginx", "varnish",
                             "load_varnish", "save", "rollback"}]
      /\ cmds \in [Process -> Seq(Command)] /\ todo \in [Process -> Seq(Step)]
      /\ rollbacks \in [Process -> RollbackStacks]
      /\ outcome \in [Process -> {"none", "ok", "raised", "unsaved", "rolled_back",
                                  "rollback_failed", "crashed"}]
  BY DEF CallInv, TypeInv, TypeOK
<1>5. Steady(before[p], nginxBefore[p]) /\ Calls(r, job[p], before[p])
  BY <1>3 DEF CallSync
<1> HIDE DEF r
<1>6. ASSUME Finished(p)
      PROVE  /\ Consistent(disk) /\ SiteDone(r, disk)
             /\ ~webserver_reload[p] => Steady(disk, nginx)
  <2>1. pc[p] = "commands" /\ todo[p] = <<>> /\ cmds[p] = <<>>
    BY <1>6 DEF Finished
  <2>2. Consistent(before[p])
    BY <1>5 DEF Steady
  <2>3. job[p].commands # <<>>
    BY <1>3, <1>5, <2>2, NoBatch, WorkBegins
  <2>4. Working(r, {}, disk, before[p], webserver_reload[p])
    BY <1>3, <2>1, <2>3, SetsOfShort DEF CallSync, r
  <2>5. /\ Consistent(disk) /\ SiteDone(r, disk)
        /\ ~webserver_reload[p] /\ ConfigTest(before[p]) =>
             ConfigTest(disk) /\ Rendered(disk) = Rendered(before[p])
    BY <1>3, <1>4, <2>2, <2>4, WorkDone
  <2>6. nginx = nginxBefore[p]
    BY <2>1 DEF CallInv, TypeInv, StackInv, AtomicInv
  <2>7. QED
    BY <1>5, <2>5, <2>6 DEF Steady
<1>7. CASE SkipNginx(p)
  <2>1. /\ Finished(p) /\ ~webserver_reload[p] /\ pc'[p] = "varnish"
        /\ UNCHANGED <<disk, nginx, job, before, nginxBefore>>
    BY <1>4, <1>7 DEF SkipNginx, Goto, history
  <2>2. Consistent(disk) /\ SiteDone(r, disk) /\ Steady(disk, nginx)
    BY <1>6, <2>1
  <2>3. CallSync(p)'
    BY <1>3, <1>5, <2>1, <2>2 DEF CallSync, r
  <2>4. QED
    BY Alone, <2>1, <2>3, OneProcess
<1>8. CASE CheckNginx(p)
  <2>1. /\ Finished(p) /\ pc'[p] \in {"load_nginx", "rollback"}
        /\ UNCHANGED <<disk, nginx, job, before, nginxBefore>>
    BY <1>4, <1>8 DEF CheckNginx, Goto, history
  <2>2. Consistent(disk) /\ SiteDone(r, disk)
    BY <1>6, <2>1
  <2>3. CallSync(p)'
    BY <1>3, <1>5, <2>1, <2>2 DEF CallSync, r
  <2>4. QED
    BY Alone, <2>1, <2>3, OneProcess
<1>9. CASE LoadNginx(p)
  <2>1. /\ pc[p] = "load_nginx" /\ pc'[p] = "varnish" /\ nginx' = Reloaded(nginx, disk)
        /\ UNCHANGED <<disk, job, before, nginxBefore>>
    BY <1>4, <1>9 DEF LoadNginx, Goto, history
  <2>2. ConfigTest(disk) /\ Consistent(disk) /\ SiteDone(r, disk)
    BY <1>3, <2>1 DEF CallInv, LiveInv, CallSync, r
  <2>3. Steady(disk, nginx')
    BY <2>1, <2>2 DEF Steady, Reloaded
  <2>4. CallSync(p)'
    BY <1>3, <1>5, <2>1, <2>2, <2>3 DEF CallSync, r
  <2>5. QED
    BY Alone, <2>1, <2>4, OneProcess
<1>10. CASE LoadNginxFails(p)
  BY <1>1, <1>10 DEF LoadNginxFails
<1>11. CASE SkipVarnish(p)
  <2>1. /\ pc[p] = "varnish" /\ pc'[p] = "save"
        /\ UNCHANGED <<disk, nginx, job, before, nginxBefore>>
    BY <1>4, <1>11 DEF SkipVarnish, Goto, history
  <2>2. CallSync(p)'
    BY <1>3, <1>5, <2>1 DEF CallSync
  <2>3. QED
    BY Alone, <2>1, <2>2, OneProcess
<1>12. CASE WriteVcl(p)
  <2>1. /\ pc[p] = "varnish" /\ pc'[p] = "load_varnish"
        /\ disk' = [disk EXCEPT !.vcl = RenderedVcl(disk)]
        /\ UNCHANGED <<nginx, job, before, nginxBefore>>
    BY <1>4, <1>12 DEF WriteVcl, Goto, history
  <2>2. RenderedVcl(disk) \in VConf
    BY <1>4 DEF RenderedVcl, Disk, VConf
  <2>3. Consistent(disk) /\ SiteDone(r, disk) /\ Steady(disk, nginx)
    BY <1>3, <2>1 DEF CallSync, r
  <2>4. Consistent(disk') /\ SiteDone(r, disk') /\ Steady(disk', nginx)
    BY <1>4, <2>1, <2>2, <2>3, VclKeeps DEF Steady
  <2>5. CallSync(p)'
    BY <1>3, <1>5, <2>1, <2>4 DEF CallSync, r
  <2>6. QED
    BY Alone, <2>1, <2>5, OneProcess
<1>13. CASE LoadVarnish(p)
  <2>1. /\ pc[p] = "load_varnish" /\ pc'[p] = "save"
        /\ UNCHANGED <<disk, nginx, job, before, nginxBefore>>
    BY <1>4, <1>13 DEF LoadVarnish, Goto, history
  <2>2. CallSync(p)'
    BY <1>3, <1>5, <2>1 DEF CallSync
  <2>3. QED
    BY Alone, <2>1, <2>2, OneProcess
<1>14. CASE WriteVclFails(p) \/ LoadVarnishFails(p)
  <2>1. /\ pc'[p] = "rollback"
        /\ UNCHANGED <<job, before, nginxBefore>>
    BY <1>4, <1>14 DEF WriteVclFails, LoadVarnishFails, Goto, history
  <2>2. CallSync(p)'
    BY <1>3, <1>5, <2>1 DEF CallSync, r
  <2>3. QED
    BY Alone, <2>1, <2>2, OneProcess
<1>15. CASE SaveBackup(p)
  <2>1. /\ pc[p] = "save" /\ pc'[p] = "idle" /\ todo'[p] = <<>> /\ outcome'[p] = "ok"
        /\ UNCHANGED <<disk, nginx>>
    BY <1>4, <1>15 DEF SaveBackup, End
  <2>2. SiteDone(r, disk) /\ Steady(disk, nginx)
    BY <1>3, <2>1 DEF CallSync, r
  <2>3. ReturnSync(p)'
    BY <1>3, <2>1, <2>2 DEF ReturnSync, r
  <2>4. QED
    BY Alone, <2>1, <2>3, OneProcess
<1>16. CASE SaveBackupFails(p)
  <2>1. pc[p] = "save" /\ tar = None
    BY <1>1, <1>16 DEF SaveBackupFails
  <2>2. tar = before[p]
    BY <2>1 DEF CallInv, TypeInv, StackInv, AtomicInv
  <2>3. QED
    BY <1>4, <2>1, <2>2, CallsAssumption
<1>17. QED
  BY <1>7, <1>8, <1>9, <1>10, <1>11, <1>12, <1>13, <1>14, <1>15, <1>16 DEF Finalize

LEMMA RollbackSync ==
  ASSUME Alone, CallInv, RequestInv, SyncInv, faults' = 0,
         NEW p \in Process, Rollback(p), UNCHANGED <<request_vars, cache>>
  PROVE  SyncInv'
<1>1. pc[p] = "rollback" /\ ~Fault
  BY Unfailed
     DEF Rollback, Restore, RestoreFails, ReloadAgain, ReloadAgainFails, RolledBack,
         RollingBack
<1>2. faults = 0
  BY <1>1
     DEF Rollback, Restore, RestoreFails, ReloadAgain, ReloadAgainFails, RolledBack
<1>3. /\ CallSync(p) /\ phase[p] \in Calling /\ status[p] = "none"
      /\ request' = request /\ phase' = phase /\ status' = status
  BY <1>1, <1>2 DEF SyncInv, RequestInv, Calling, request_vars
<1>4. /\ disk \in Disk /\ before[p] \in Disk
      /\ pc \in [Process -> {"idle", "backup", "commands", "load_nginx", "varnish",
                             "load_varnish", "save", "rollback"}]
      /\ todo \in [Process -> Seq(Step)]
      /\ rollbacks[p] \in RollbackStacks
      /\ outcome \in [Process -> {"none", "ok", "raised", "unsaved", "rolled_back",
                                  "rollback_failed", "crashed"}]
  BY DEF CallInv, TypeInv, TypeOK
<1>5. Steady(before[p], nginxBefore[p]) /\ Calls(request[p], job[p], before[p])
  BY <1>3 DEF CallSync
<1>6. CASE Restore(p) \/ ReloadAgain(p)
  <2>1. UNCHANGED <<pc, job, before, nginxBefore>>
    BY <1>6 DEF Restore, ReloadAgain, history
  <2>2. CallSync(p)'
    BY <1>1, <1>3, <1>5, <2>1 DEF CallSync
  <2>3. QED
    BY Alone, <1>1, <2>1, <2>2, OneProcess
<1>7. CASE RestoreFails(p)
  <2>1. rollbacks[p] # <<>> /\ Last(rollbacks[p]) = "restore" /\ tar = None
    BY <1>1, <1>7 DEF RestoreFails, RollingBack, Top
  <2>2. rollbacks[p] \in {<<"restore">>, <<"reload", "restore">>}
    BY <1>4, <2>1, Stacks DEF RollbackStacks
  <2>3. tar = before[p]
    BY <2>2 DEF CallInv, AtomicInv
  <2>4. QED
    BY <1>4, <2>1, <2>3, CallsAssumption
<1>8. CASE ReloadAgainFails(p)
  <2>1. rollbacks[p] # <<>> /\ Last(rollbacks[p]) = "reload" /\ ~ConfigTest(disk)
    BY <1>1, <1>8 DEF ReloadAgainFails, RollingBack, Top
  <2>2. rollbacks[p] = <<"reload">>
    BY <1>4, <2>1, Stacks DEF RollbackStacks
  <2>3. disk = before[p]
    BY <1>1, <2>2 DEF CallInv, AtomicInv
  <2>4. QED
    BY <1>5, <2>1, <2>3 DEF Steady
<1>9. CASE RolledBack(p)
  <2>1. /\ rollbacks[p] = <<>> /\ pc'[p] = "idle" /\ todo'[p] = <<>>
        /\ outcome'[p] = "rolled_back" /\ UNCHANGED <<disk, nginx>>
    BY <1>4, <1>9 DEF RolledBack, End
  <2>2. disk = before[p] /\ nginx \in {nginxBefore[p], Rendered(disk)}
    BY <1>1, <2>1 DEF CallInv, AtomicInv
  <2>3. Steady(disk, nginx)
    BY <1>5, <2>2 DEF Steady
  <2>4. phase'[p] # "ban" /\ status'[p] # "ok" /\ outcome'[p] # "ok"
    BY <1>3, <2>1 DEF Calling
  <2>5. ReturnSync(p)'
    BY <2>1, <2>3, <2>4 DEF ReturnSync
  <2>6. QED
    BY Alone, <2>1, <2>5, OneProcess
<1>10. QED
  BY <1>6, <1>7, <1>8, <1>9 DEF Rollback

LEMMA BeginSync ==
  ASSUME Alone, NoBatch, CallInv, RequestInv, SyncInv, faults' = 0,
         NEW p \in Process, NEW j, Begin(p, j), request' = request,
         request[p] \in Requests, Calls(request[p], j, disk)
  PROVE  SyncInv'
<1>1. /\ pc[p] = "idle" /\ faults' = faults
      /\ pc \in [Process -> {"idle", "backup", "commands", "load_nginx", "varnish",
                             "load_varnish", "save", "rollback"}]
      /\ cmds \in [Process -> Seq(Command)] /\ job \in [Process -> Jobs \union {None}]
      /\ before \in [Process -> Disk] /\ nginxBefore \in [Process -> NConf]
  BY DEF CallInv, TypeInv, TypeOK, Begin
<1>2. Steady(disk, nginx) /\ todo[p] = <<>>
  BY <1>1 DEF SyncInv, ReturnSync
<1>3. j.version = API_VERSION
  BY <1>2, NoBatch, WorkBegins DEF Steady
<1>4. /\ pc'[p] = "backup" /\ cmds'[p] = j.commands /\ todo'[p] = todo[p]
      /\ job'[p] = j /\ before'[p] = disk /\ nginxBefore'[p] = nginx
  BY <1>1, <1>3 DEF Begin
<1>5. CallSync(p)'
  BY <1>2, <1>4 DEF CallSync
<1>6. QED
  BY Alone, <1>4, <1>5, OneProcess

LEMMA HandleSync ==
  ASSUME Alone, NoBatch, CallInv, RequestInv, SyncInv, faults' = 0,
         NEW p \in Process, Handle(p)
  PROVE  SyncInv'
<1> USE DEF Phases, Calling
<1>1. CASE AddDomain(p)
  <2>1. /\ phase[p] = "add" /\ Begin(p, AddJob(request[p])) /\ request' = request
        /\ request[p] \in Requests /\ request[p].kind # "delete"
    BY <1>1 DEF AddDomain, Move, RequestInv
  <2>2. Calls(request[p], AddJob(request[p]), disk)
    BY <2>1 DEF Calls, AddJob
  <2>3. QED
    BY Alone, NoBatch, <2>1, <2>2, BeginSync
<1>2. CASE DeleteDomain(p)
  <2>1. /\ phase[p] = "delete" /\ Begin(p, DeleteJob(request[p])) /\ request' = request
        /\ request[p] \in Requests /\ request[p].kind = "delete"
    BY <1>2 DEF DeleteDomain, Move, RequestInv
  <2>2. Calls(request[p], DeleteJob(request[p]), disk)
    BY <2>1 DEF Calls
  <2>3. QED
    BY Alone, NoBatch, <2>1, <2>2, BeginSync
<1>3. CASE UpdateDomain(p)
  <2> DEFINE r == request[p]
             j == UpdateJob(r, VarnishChanged(r, disk), ConfigChanged(r, disk))
  <2>1. /\ phase[p] = "update" /\ Begin(p, j) /\ request' = request
        /\ r \in Requests /\ r.kind # "delete"
    BY <1>3 DEF UpdateDomain, Move, RequestInv
  <2>2. Calls(r, j, disk)
    <3>1. /\ VarnishChanged(r, disk) \in BOOLEAN /\ ConfigChanged(r, disk) \in BOOLEAN
          /\ ConfigChanged(r, disk) \/ disk.main[r.site] = r.n
      BY DEF VarnishChanged, ConfigChanged
    <3>2. j = [version |-> API_VERSION, commands |-> <<UiCommand(r, FALSE)>>,
               varnish_changed |-> VarnishChanged(r, disk),
               config_changed |-> ConfigChanged(r, disk)]
      BY DEF UpdateJob
    <3> HIDE DEF j
    <3>3. QED
      BY <2>1, <3>1, <3>2 DEF Calls
  <2> HIDE DEF j
  <2>3. QED
    BY Alone, NoBatch, <2>1, <2>2, BeginSync
\* the steps between two calls
<1>4. ASSUME UNCHANGED <<vars, request>>, pc[p] = "idle",
             phase'[p] = "ban" \/ status'[p] = "ok"
                \/ (phase'[p] \in Calling /\ outcome[p] = "ok")
             => SiteDone(request[p], disk)
      PROVE  SyncInv'
  <2>1. faults = 0
    BY <1>4 DEF vars
  <2>2. Steady(disk, nginx) /\ todo[p] = <<>> /\ outcome[p] \in {"ok", "rolled_back", "none"}
    BY <1>4, <2>1 DEF SyncInv, ReturnSync
  <2>3. ReturnSync(p)'
    BY <1>4, <2>2 DEF ReturnSync, vars
  <2>4. pc'[p] = "idle"
    BY <1>4 DEF vars
  <2>5. QED
    BY Alone, <2>3, <2>4, OneProcess
<1>5. ASSUME pc[p] = "idle", UNCHANGED vars PROVE ReturnSync(p)
  BY <1>5 DEF SyncInv, vars
<1>6. CASE Unchanged(p)
  <2>1. /\ UNCHANGED <<vars, request>> /\ phase[p] = "update"
        /\ disk.main[request[p].site] # None /\ disk.main[request[p].site] = request[p].n
    BY <1>6 DEF Unchanged, Finish, Exists, ConfigChanged
  <2>2. /\ pc[p] = "idle" /\ request[p] \in Requests /\ request[p].kind # "delete"
    BY <2>1 DEF RequestInv
  <2>3. Consistent(disk)
    BY <1>5, <2>1, <2>2 DEF ReturnSync, Steady
  <2>4. SiteDone(request[p], disk)
    BY <2>1, <2>2, <2>3, RequestTypes DEF Consistent, SiteDone
  <2>5. QED
    BY <1>4, <2>1, <2>2, <2>4
<1>7. CASE UpdateUnreadable(p) \/ CallFailed(p)
  <2>1. /\ UNCHANGED <<vars, request>> /\ pc[p] = "idle"
        /\ phase'[p] = "idle" /\ status'[p] = "failed"
    BY <1>7 DEF UpdateUnreadable, CallFailed, Finish, Returned, RequestInv
  <2>2. QED
    BY <1>4, <2>1
<1>8. CASE Added(p)
  <2>1. /\ UNCHANGED <<vars, request, status>> /\ pc[p] = "idle" /\ phase[p] # "idle"
        /\ phase'[p] = "update"
    BY <1>8 DEF Added, Returned, Move, RequestInv
  <2>2. status'[p] # "ok"
    BY <2>1 DEF RequestInv
  <2>3. QED
    BY <1>4, <2>1, <2>2
<1>9. CASE Updated(p) \/ Deleted(p)
  <2>1. /\ UNCHANGED <<vars, request>> /\ pc[p] = "idle" /\ phase[p] \in Calling
        /\ outcome[p] = "ok"
    BY <1>9 DEF Updated, Deleted, Returned, Move
  <2>2. SiteDone(request[p], disk)
    BY <1>5, <2>1 DEF ReturnSync
  <2>3. QED
    BY <1>4, <2>1, <2>2
<1>10. CASE (\E k \in {"url", "html"} : Ban(p, k)) \/ Done(p)
  <2>1. /\ UNCHANGED <<vars, request>> /\ phase[p] = "ban"
    BY <1>10 DEF Ban, Done, Finish
  <2>2. pc[p] = "idle"
    BY <2>1 DEF RequestInv
  <2>3. SiteDone(request[p], disk)
    BY <1>5, <2>1, <2>2 DEF ReturnSync
  <2>4. QED
    BY <1>4, <2>1, <2>2, <2>3
<1>11. CASE BanFails(p)
  BY <1>11, Unfailed DEF BanFails
<1>12. CASE Run(p) /\ UNCHANGED <<request_vars, cache>>
  BY Alone, NoBatch, <1>12, CommandsSync, FinalizeSync, RollbackSync DEF Run
<1>13. QED
  BY <1>1, <1>2, <1>3, <1>6, <1>7, <1>8, <1>9, <1>10, <1>11, <1>12 DEF Handle

LEMMA NextSync ==
  ASSUME Alone, NoBatch, CallInv, RequestInv, SyncInv, [DNext]_dvars
  PROVE  SyncInv'
<1> SUFFICES ASSUME faults' = 0 PROVE SyncInv'
  BY DEF SyncInv
<1>1. ASSUME NEW p \in Process, NEW r \in Requests, Accept(p, r) PROVE SyncInv'
  <2>1. /\ UNCHANGED vars /\ phase[p] = "idle" /\ phase'[p] \in {"delete", "update", "add"}
        /\ status'[p] = "none"
    BY <1>1 DEF Accept, RequestInv
  <2>2. pc[p] = "idle" /\ faults = 0
    BY <2>1 DEF RequestInv, Calling, vars
  <2>3. ReturnSync(p)
    BY <2>2 DEF SyncInv
  <2>4. ReturnSync(p)' /\ pc'[p] = "idle"
    BY <2>1, <2>2, <2>3 DEF ReturnSync, vars, Calling
  <2>5. QED
    BY Alone, <2>4, OneProcess
<1>2. ASSUME NEW p \in Process, Handle(p) PROVE SyncInv'
  BY Alone, NoBatch, <1>2, HandleSync
<1>3. ASSUME NEW p \in Process, Crash(p) PROVE SyncInv'
  BY <1>3, Unfailed DEF Crash
<1>4. CASE UNCHANGED <<vars, request_vars>>
  BY <1>4 DEF SyncInv, ReturnSync, CallSync, vars, request_vars, transaction, history
<1>5. QED
  BY <1>1, <1>2, <1>3, <1>4 DEF DNext, Fetch, dvars

LEMMA SyncAlways ==
  ASSUME Alone, NoBatch
  PROVE  DSpec => [](CallInv /\ RequestInv /\ SyncInv)
<1>1. DInit => SyncInv
  <2> SUFFICES ASSUME DInit PROVE SyncInv
    OBVIOUS
  <2>1. /\ disk = EmptyDisk /\ nginx = NoConf
        /\ \A p \in Process : /\ pc[p] = "idle" /\ todo[p] = <<>> /\ outcome[p] = "none"
                              /\ phase[p] = "idle" /\ status[p] = "none"
    BY DEF DInit, Init
  <2>2. Steady(EmptyDisk, NoConf)
    BY DEF Steady, Consistent, ConfigTest, Rendered, EmptyDisk, NoConf
  <2>3. QED
    BY <2>1, <2>2 DEF SyncInv, ReturnSync, Calling
<1>2. CallInv /\ RequestInv /\ SyncInv /\ [DNext]_dvars => SyncInv'
  BY Alone, NoBatch, NextSync
<1>3. QED
  BY Alone, RequestsAlways, <1>1, <1>2, PTL DEF DSpec

\* RequestServed, of requests that are no batches: without failures, what a
\* request that has succeeded asked for is what Nginx runs, whether the request
\* changed anything or not.
THEOREM Serves ==
  ASSUME Alone, NoBatch
  PROVE  DSpec => []RequestServed
<1>1. CallInv /\ RequestInv /\ SyncInv => RequestServed
  <2> SUFFICES ASSUME CallInv, RequestInv, SyncInv, faults = 0, NEW p \in Process,
                      status[p] = "ok"
               PROVE  nginx[request[p].site] =
                        IF request[p].kind = "delete" THEN None ELSE request[p].n
    BY DEF RequestServed, Served
  <2>1. phase[p] = "idle" /\ pc[p] = "idle" /\ request[p] \in Requests
    BY DEF RequestInv, Calling, Phases
  <2>2. nginx = Rendered(disk) /\ SiteDone(request[p], disk)
    BY <2>1 DEF SyncInv, ReturnSync, Steady
  <2>3. QED
    BY <2>1, <2>2, RequestTypes DEF Rendered, SiteDone
<1>2. QED
  BY Alone, NoBatch, <1>1, SyncAlways, PTL

\* NginxInSync, under the same assumptions: between two requests Nginx runs its
\* files as they are, also after requests that failed.
THEOREM StaysInSync ==
  ASSUME Alone, NoBatch, NEW one \in Process
  PROVE  DSpec => []NginxInSync
<1>1. CallInv /\ RequestInv /\ SyncInv => NginxInSync
  <2> SUFFICES ASSUME CallInv, RequestInv, SyncInv, faults = 0,
                      \A p \in Process : phase[p] = "idle"
               PROVE  nginx = Rendered(disk)
    BY DEF NginxInSync
  <2>1. \A p \in Process : pc[p] = "idle"
    BY DEF RequestInv, Calling
  <2>2. QED
    BY <2>1 DEF SyncInv, ReturnSync, Steady
<1>2. QED
  BY Alone, NoBatch, <1>1, SyncAlways, PTL

=============================================================================
