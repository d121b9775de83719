---------------------------- MODULE DomainConfig ----------------------------
(***************************************************************************)
(* pc-apache-config.py: adding, updating and deleting a domain.  A request *)
(* calls configure_all (module ConfigTransaction) once or twice with the   *)
(* changes it finds between the request and the files, then bans from the  *)
(* Varnish cache what the change made stale.  Clients fill the cache at    *)
(* any moment.                                                             *)
(***************************************************************************)
EXTENDS ConfigTransaction

CONSTANTS
  Requests,     \* the UI configurations that arrive
  Rules,        \* Rules[v]: the caching rules in Varnish variables v
  Html,         \* Html[n]: the Nginx variables that change cached HTML
  CachedSites   \* bound: the sites whose cache contents are followed

ASSUME RequestsAssumption ==
  /\ Requests \subseteq [kind : {"config", "batch", "force", "delete"},
                         site : Site, n : NVar, v : VVar]
  /\ CachedSites \subseteq Site
  /\ NVar \subseteq DOMAIN Html /\ VVar \subseteq DOMAIN Rules

VARIABLES
  request,  \* the request each process handles, or None
  phase,    \* how far it is
  bans,     \* the bans its update still has to issue
  banned,   \* history: the kinds of bans the update has issued
  status,   \* how the last request of the process ended
  cache     \* cached objects of each site: their kind and what they were
            \* stored under (caching rules, HTML variables)

request_vars == <<request, phase, bans, banned, status>>
dvars == <<vars, request_vars, cache>>

DInit ==
  /\ Init
  /\ request = [p \in Process |-> None]
  /\ phase = [p \in Process |-> "idle"]
  /\ bans = [p \in Process |-> {}]
  /\ banned = [p \in Process |-> {}]
  /\ status = [p \in Process |-> "none"]
  /\ cache = [s \in Site |-> {}]

----------------------------------------------------------------------------
\* NginxConfig.exists
Exists(s, d) == s \in d.templates /\ d.main[s] # None

Move(p, from, to) == phase[p] = from /\ phase' = [phase EXCEPT ![p] = to]

\* The script ends: sys.exit(-1) when an exception reached _main.
Finish(p, how) ==
  /\ phase' = [phase EXCEPT ![p] = "idle"]
  /\ status' = [status EXCEPT ![p] = how]
  /\ bans' = [bans EXCEPT ![p] = {}]
  /\ UNCHANGED <<request, banned>>

UiCommand(r, templates) ==
  [type |-> r.kind, site |-> r.site, named |-> TRUE, templates |-> templates,
   nvars |-> r.n, vvars |-> r.v]

\* Mutant: a new domain is treated as one without changes.
AddJob_Unchanged(r) ==
  [version |-> API_VERSION, commands |-> <<UiCommand(r, TRUE)>>,
   varnish_changed |-> FALSE, config_changed |-> FALSE]

\* The initial configuration is patched with the request and configured with
\* fixed flags.
AddJob(r) ==
  [version |-> API_VERSION, commands |-> <<UiCommand(r, TRUE)>>,
   varnish_changed |-> FALSE, config_changed |-> TRUE]

\* Mutant: each server is reloaded for the changes of the other.
UpdateJob_Swapped(r, vchanged, cchanged) ==
  [version |-> API_VERSION, commands |-> <<UiCommand(r, FALSE)>>,
   varnish_changed |-> cchanged, config_changed |-> vchanged]

UpdateJob(r, vchanged, cchanged) ==
  [version |-> API_VERSION, commands |-> <<UiCommand(r, FALSE)>>,
   varnish_changed |-> vchanged, config_changed |-> cchanged]

DeleteJob(r) ==
  [version |-> API_VERSION,
   commands |-> <<[type |-> "delete", site |-> r.site, named |-> TRUE,
                   templates |-> FALSE, nvars |-> None, vvars |-> None]>>,
   varnish_changed |-> None, config_changed |-> None]

\* "Jobs" holds every call that the requests make.
ASSUME CallsAssumption ==
  /\ \A r \in Requests :
       /\ AddJob(r) \in Jobs /\ DeleteJob(r) \in Jobs
       /\ \A vc, cc \in BOOLEAN : UpdateJob(r, vc, cc) \in Jobs
  /\ None \notin Requests /\ None \notin Disk

Accept(p, r) ==
  /\ phase[p] = "idle"
  /\ request' = [request EXCEPT ![p] = r]
  /\ phase' = [phase EXCEPT ![p] =
       IF r.kind = "delete" THEN "delete"
       ELSE IF Exists(r.site, disk) THEN "update" ELSE "add"]
  /\ status' = [status EXCEPT ![p] = "none"]
  /\ banned' = [banned EXCEPT ![p] = {}]
  /\ UNCHANGED <<vars, bans, cache>>

AddDomain(p) ==
  /\ Move(p, "add", "adding")
  /\ Begin(p, AddJob(request[p]))
  /\ UNCHANGED <<request, bans, banned, status, cache>>

DeleteDomain(p) ==
  /\ Move(p, "delete", "deleting")
  /\ Begin(p, DeleteJob(request[p]))
  /\ UNCHANGED <<request, bans, banned, status, cache>>

\* Comparing the request with main.json and sites/<site>.json.
ConfigChanged(r, d) == d.main[r.site] # r.n
VarnishChanged(r, d) == d.vsite[r.site] # r.v
BanUrls(r, d) == Rules[d.vsite[r.site]] # Rules[r.v]
MustBanHtml(r, d) == Html[d.main[r.site]] # Html[r.n]

BansOf(r, d) ==
  {k \in {"url", "html"} : \/ k = "url" /\ BanUrls(r, d)
                           \/ k = "html" /\ MustBanHtml(r, d)}

\* Nothing to configure: only ui-config.json is saved.
Unchanged(p) ==
  /\ phase[p] = "update"
  /\ Exists(request[p].site, disk) /\ disk.vsite[request[p].site] # None
  /\ ~ConfigChanged(request[p], disk) /\ ~VarnishChanged(request[p], disk)
  /\ Finish(p, "ok")
  /\ UNCHANGED <<vars, cache>>

\* Mutant: the bans are issued before configure_all is called.
UpdateDomain_BansFirst(p) ==
  LET r == request[p] IN
  /\ Move(p, "update", "updating")
  /\ Exists(r.site, disk) /\ disk.vsite[r.site] # None
  /\ ConfigChanged(r, disk) \/ VarnishChanged(r, disk)
  /\ banned' = [banned EXCEPT ![p] = BansOf(r, disk)]
  /\ cache' = [cache EXCEPT ![r.site] = {o \in @ : o.kind \notin BansOf(r, disk)}]
  /\ Begin(p, UpdateJob(r, VarnishChanged(r, disk), ConfigChanged(r, disk)))
  /\ UNCHANGED <<request, bans, status>>

UpdateDomain(p) ==
  LET r == request[p] IN
  /\ Move(p, "update", "updating")
  /\ Exists(r.site, disk) /\ disk.vsite[r.site] # None
  /\ ConfigChanged(r, disk) \/ VarnishChanged(r, disk)
  /\ bans' = [bans EXCEPT ![p] = BansOf(r, disk)]
  /\ Begin(p, UpdateJob(r, VarnishChanged(r, disk), ConfigChanged(r, disk)))
  /\ UNCHANGED <<request, banned, status, cache>>

\* A site without Varnish variables: the read is "ignored", and the variable
\* it should have set is then used unset.
UpdateUnreadable(p) ==
  /\ phase[p] = "update"
  /\ ~Exists(request[p].site, disk) \/ disk.vsite[request[p].site] = None
  /\ Finish(p, "failed")
  /\ UNCHANGED <<vars, cache>>

\* The call of configure_all has ended.
Returned(p) == pc[p] = "idle" /\ outcome[p] # "none"

\* After adding, the code goes on with the update of the same request.
Added(p) ==
  /\ outcome[p] = "ok" /\ Returned(p)
  /\ Move(p, "adding", "update")
  /\ UNCHANGED <<vars, request, bans, banned, status, cache>>

Updated(p) ==
  /\ outcome[p] = "ok" /\ Returned(p)
  /\ Move(p, "updating", "ban")
  /\ UNCHANGED <<vars, request, bans, banned, status, cache>>

\* delete_domain bans every object of the host.
Deleted(p) ==
  /\ outcome[p] = "ok" /\ Returned(p)
  /\ Move(p, "deleting", "ban")
  /\ bans' = [bans EXCEPT ![p] = {"url", "html"}]
  /\ UNCHANGED <<vars, request, banned, status, cache>>

\* Mutant: a call that fails is made again.
CallFailed_Retries(p) ==
  /\ Returned(p) /\ outcome[p] # "ok"
  /\ \E move \in {<<"adding", "add">>, <<"updating", "update">>,
                  <<"deleting", "delete">>} : Move(p, move[1], move[2])
  /\ UNCHANGED <<vars, request, bans, banned, status, cache>>

CallFailed(p) ==
  /\ phase[p] \in {"adding", "updating", "deleting"}
  /\ Returned(p) /\ outcome[p] # "ok"
  /\ Finish(p, "failed")
  /\ UNCHANGED <<vars, cache>>

Ban(p, k) ==
  LET s == request[p].site IN
  /\ phase[p] = "ban"
  /\ k \in bans[p]
  /\ cache' = [cache EXCEPT ![s] = {o \in @ : o.kind # k}]
  /\ bans' = [bans EXCEPT ![p] = @ \ {k}]
  /\ banned' = [banned EXCEPT ![p] = @ \union {k}]
  /\ UNCHANGED <<vars, request, phase, status>>

\* varnishadm raises: the script exits with what is configured in place.
BanFails(p) ==
  /\ phase[p] = "ban" /\ bans[p] # {}
  /\ Fault
  /\ Finish(p, "failed")
  /\ UNCHANGED <<disk, tar, nginx, varnish, pc, cmds, todo, transaction, job,
                 outcome, history, cache>>

Done(p) ==
  /\ phase[p] = "ban" /\ bans[p] = {}
  /\ Finish(p, "ok")
  /\ UNCHANGED <<vars, cache>>

\* A client's request stores an object under what Varnish and Nginx run.
Fetch(s) ==
  /\ s \in CachedSites
  /\ nginx[s] # None /\ varnish[s] # None
  /\ cache' = [cache EXCEPT ![s] = @ \union
       {[kind |-> "url", under |-> Rules[varnish[s]]],
        [kind |-> "html", under |-> Html[nginx[s]]]}]
  /\ UNCHANGED <<vars, request_vars>>

Handle(p) ==
  \/ AddDomain(p) \/ DeleteDomain(p) \/ Unchanged(p) \/ UpdateDomain(p)
  \/ UpdateUnreadable(p) \/ Added(p) \/ Updated(p) \/ Deleted(p)
  \/ CallFailed(p) \/ (\E k \in {"url", "html"} : Ban(p, k)) \/ BanFails(p)
  \/ Done(p)
  \/ (Run(p) /\ UNCHANGED <<request_vars, cache>>)

DNext ==
  \/ \E p \in Process :
       \/ \E r \in Requests : Accept(p, r)
       \/ Handle(p)
       \/ Crash(p) /\ UNCHANGED <<request_vars, cache>>
  \/ \E s \in Site : Fetch(s)

DSpec == DInit /\ [][DNext]_dvars

DFairSpec == DSpec /\ \A p \in Process : WF_dvars(Handle(p))

----------------------------------------------------------------------------
(* Properties                                                              *)

\* What an object stored now would be stored under.
Live(s, kind) ==
  IF kind = "url" THEN Rules[varnish[s]] ELSE Html[nginx[s]]

Fresh(s, o) == nginx[s] # None /\ varnish[s] # None /\ o.under = Live(s, o.kind)

\* When a request that issued bans has succeeded, the kinds of objects it
\* banned are all of the configuration that is live: the bans come after the
\* reloads, so that nothing stored in between escapes them.
BansMatchLive ==
  \A p \in Process :
    status[p] = "ok" =>
      LET s == request[p].site IN
      \A o \in cache[s] : o.kind \in banned[p] => Fresh(s, o)

\* When a request has succeeded, the cache of its site holds nothing that the
\* configuration which is live would not have stored.
NoStaleObject ==
  \A p \in Process :
    status[p] = "ok" =>
      LET s == request[p].site IN
      \A o \in cache[s] : Fresh(s, o)

Served(p) ==
  status[p] = "ok" =>
    LET r == request[p] IN
    nginx[r.site] = IF r.kind = "delete" THEN None ELSE r.n

\* As long as nothing fails: when an update has succeeded Nginx serves the
\* site with the variables that were requested, whether or not this request
\* found a change to make; when a deletion has, Nginx does not serve the site.
RequestServed == faults = 0 => \A p \in Process : Served(p)

\* As long as nothing fails, Nginx serves between requests exactly what is in
\* its files.
NginxInSync ==
  faults = 0 /\ (\A p \in Process : phase[p] = "idle") => nginx = Rendered(disk)

\* A request that was accepted ends.
RequestEnds == \A p \in Process : phase[p] # "idle" ~> phase[p] = "idle"
============================================================================
