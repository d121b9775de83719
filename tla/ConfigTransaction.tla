------------------------- MODULE ConfigTransaction -------------------------
(***************************************************************************)
(* configure_all and ConfigTransaction of revsw_apache_config/__init__.py: *)
(* the list of configuration commands that a process applies to the files  *)
(* of Nginx and Varnish, the backup it takes first, the rollbacks it runs  *)
(* when a command fails, and the reloads it ends with.                     *)
(*                                                                         *)
(* The contents of a file are abstract: what counts is which site it is    *)
(* for, which variables it was generated from, and whether Nginx or        *)
(* Varnish accept them.  A step of a command is one file operation that    *)
(* ConfigTransaction.run guards, or one assignment to a reload flag.       *)
(***************************************************************************)
EXTENDS Integers, Sequences, FiniteSets, SequencesExt

CONSTANTS
  Process,          \* processes that call configure_all
  Site,             \* site names
  NVar,             \* values of a site's Nginx variables ("config_vars")
  VVar,             \* values of a site's Varnish variables
  BadN,             \* Nginx variables whose .conf fails the configtest
  BadV,             \* Varnish variables whose VCL does not compile
  None,             \* an absent file, key or argument
  Jobs,             \* the arguments configure_all is called with
  API_VERSION,      \* the version configure_all accepts
  VarnishInstalled, \* whether varnishd is on the machine
  MaxFaults         \* bound on injected failures of file and service commands

ASSUME ValuesAssumption ==
  /\ BadN \subseteq NVar /\ None \notin NVar
  /\ BadV \subseteq VVar /\ None \notin VVar
  /\ None \notin Site /\ None \notin BOOLEAN /\ None # "reload"
  /\ VarnishInstalled \in BOOLEAN
  /\ MaxFaults \in Nat

Flag == BOOLEAN \union {None}

\* _check_and_get_attr requires a site name except of the commands for all.
Command ==
  LET Arguments(types, sites) ==
        [type      : types,
         site      : sites,
         named     : BOOLEAN,               \* "domain_name" is given
         templates : BOOLEAN,               \* "templates" are given
         nvars     : NVar \union {None},
         vvars     : VVar \union {None}]
  IN Arguments({"flush", "varnish_template"}, {None})
     \union Arguments({"delete", "batch", "config", "force", "certs"}, Site)

ASSUME JobsAssumption ==
  \A j \in Jobs : /\ j.commands \in Seq(Command)
                  /\ j.varnish_changed \in Flag
                  /\ j.config_changed \in Flag

VARIABLES
  disk,      \* /etc/nginx, /opt/revsw-config/{apache,varnish}, /etc/varnish
  tar,       \* /tmp/revsw-apache-config.0.tar, or None
  nginx,     \* what the running Nginx serves for each site
  varnish,   \* what the running Varnish serves for each site
  faults,    \* failures injected so far
  pc, cmds, todo,           \* where each process is in configure_all
  rollbacks,                \* ConfigTransaction.rollbacks, last one on top
  webserver_reload, varnish_reload_cmd,
  job,                      \* the argument of the call
  outcome,                  \* how the last call of the process ended
  before, nginxBefore       \* history: files and Nginx when it was called

transaction == <<rollbacks, webserver_reload, varnish_reload_cmd>>
history == <<before, nginxBefore>>
vars == <<disk, tar, nginx, varnish, faults, pc, cmds, todo, transaction,
          job, outcome, history>>

NConf == [Site -> NVar \union {None}]
VConf == [Site -> VVar \union {None}]

Disk ==
  [templates : SUBSET Site,  \* apache/<site>/main.jinja and main.vars.schema
   certs     : SUBSET Site,  \* apache/<site>/certs
   main      : NConf,        \* apache/<site>/main.json
   conf      : NConf,        \* sites-available/<site>.conf
   enabled   : SUBSET Site,  \* sites-enabled/<site>.conf
   vsite     : VConf,        \* varnish/sites/<site>.json
   vcl       : VConf]        \* the sites rendered into /etc/varnish/revsw.vcl

NoConf == [s \in Site |-> None]

\* What is left when the directories are removed and nothing is unpacked.
EmptyDisk ==
  [templates |-> {}, certs |-> {}, main |-> NoConf, conf |-> NoConf,
   enabled |-> {}, vsite |-> NoConf, vcl |-> NoConf]

\* The sites that have a directory under /opt/revsw-config/apache: what
\* get_all_active_domains lists.
Active(d) ==
  {s \in Site : s \in d.templates \/ s \in d.certs \/ d.main[s] # None}

\* What Nginx serves when it loads sites-enabled.
Rendered(d) == [s \in Site |-> IF s \in d.enabled THEN d.conf[s] ELSE None]

\* `service revsw-nginx configtest`
ConfigTest(d) == \A s \in d.enabled : d.conf[s] \notin BadN \union {None}

\* The VCL of write_config_file has one part for each active domain.
RenderedVcl(d) == [s \in Site |-> IF s \in Active(d) THEN d.vsite[s] ELSE None]

VclCompiles(d) == \A s \in Site : d.vcl[s] \notin BadV

----------------------------------------------------------------------------
(* Steps of a command                                                      *)

GlobalOps == {"disable_all_sites", "remove_all_vsites", "write_vtemplates"}
SiteOps == {"remove_policy", "disable_site", "remove_conf", "remove_templates",
            "remove_vsite", "write_templates", "fixup_certs", "enable_site",
            "write_certs"}
NginxOps == {"write_conf", "save_vars"}
VarnishOps == {"write_vsite"}
FileOps == GlobalOps \union SiteOps \union NginxOps \union VarnishOps
FlagOps == {"web_on", "web_off", "varnish_on", "varnish_off"}

Step ==
  [op : GlobalOps \union FlagOps \union {"raise"}, site : {None}, val : {None}]
  \union [op : SiteOps, site : Site, val : {None}]
  \union [op : NginxOps, site : Site, val : NVar]
  \union [op : VarnishOps, site : Site, val : VVar]

Do(op, site) == [op |-> op, site |-> site, val |-> None]
Put(op, site, val) == [op |-> op, site |-> site, val |-> val]
Raise == Do("raise", None)
WebOn == Do("web_on", None)
WebOff == Do("web_off", None)
VarnishOn == Do("varnish_on", None)
VarnishOff == Do("varnish_off", None)

\* acfg.write_template_files when the command brings templates, then
\* acfg.configure_site; each is decorated to schedule the Nginx reload.
ConfigureSite(c) ==
  (IF c.templates THEN <<Do("write_templates", c.site), WebOn>> ELSE <<>>)
  \o (IF c.nvars = None
        THEN <<Raise>>
        ELSE <<Put("write_conf", c.site, c.nvars),
               Do("fixup_certs", c.site), WebOn,
               Do("enable_site", c.site),
               Put("save_vars", c.site, c.nvars), WebOn>>)

\* vcfg.config_site, decorated to schedule the Varnish reload.
ConfigVsite(c) == <<Put("write_vsite", c.site, c.vvars), VarnishOn>>

FlushSteps(c) ==
  <<Do("disable_all_sites", None), WebOn, Do("remove_all_vsites", None)>>

TemplateSteps(c) == <<Do("write_vtemplates", None), VarnishOn>>

\* VarnishConfig.remove_site is not decorated: it schedules nothing.
DeleteSteps(c) ==
  IF c.named
    THEN <<Do("remove_policy", c.site), Do("disable_site", c.site),
           Do("remove_conf", c.site), Do("remove_templates", c.site), WebOn,
           Do("remove_vsite", c.site)>>
    ELSE <<Raise>>

BatchSteps(c) ==
  ConfigureSite(c)
  \o (IF c.vvars = None THEN <<>> ELSE ConfigVsite(c) \o <<VarnishOff>>)
  \o <<WebOff>>

ConfigVarnishSteps(c, varnish_changed) ==
  CASE varnish_changed = None               -> <<Raise>>
    [] varnish_changed = TRUE /\ c.vvars # None  -> ConfigVsite(c)
    [] varnish_changed = TRUE /\ c.vvars = None  -> <<Do("remove_vsite", c.site)>>
    [] varnish_changed = FALSE /\ c.vvars # None -> ConfigVsite(c) \o <<VarnishOff>>
    [] OTHER                                -> <<>>

ConfigSteps(c, varnish_changed, config_changed) ==
  ConfigureSite(c)
  \o ConfigVarnishSteps(c, varnish_changed)
  \o <<IF config_changed = TRUE THEN WebOn ELSE WebOff>>
  \o (IF c.type = "force" THEN <<WebOn, VarnishOn>> ELSE <<>>)

CertsSteps(c) == <<Do("write_certs", c.site), WebOn>>

CommandSteps(c, varnish_changed, config_changed) ==
  CASE c.type = "flush"            -> FlushSteps(c)
    [] c.type = "varnish_template" -> TemplateSteps(c)
    [] c.type = "delete"           -> DeleteSteps(c)
    [] c.type = "batch"            -> BatchSteps(c)
    [] c.type = "certs"            -> CertsSteps(c)
    [] OTHER -> ConfigSteps(c, varnish_changed, config_changed)

\* configure_site opens the template and the schema of the site first.
Possible(s, d) == s.op = "write_conf" => s.site \in d.templates

\* The files after a file operation.
Effect(s, d) ==
  CASE s.op = "disable_all_sites" -> [d EXCEPT !.enabled = {}]
    [] s.op = "remove_all_vsites" -> [d EXCEPT !.vsite = NoConf]
    [] s.op = "disable_site"      -> [d EXCEPT !.enabled = @ \ {s.site}]
    [] s.op = "remove_conf"       -> [d EXCEPT !.conf[s.site] = None]
    [] s.op = "remove_templates"  -> [d EXCEPT !.templates = @ \ {s.site},
                                               !.certs = @ \ {s.site},
                                               !.main[s.site] = None]
    [] s.op = "remove_vsite"      -> [d EXCEPT !.vsite[s.site] = None]
    [] s.op = "write_templates"   -> [d EXCEPT !.templates = @ \union {s.site}]
    [] s.op = "write_conf"        -> [d EXCEPT !.conf[s.site] = s.val]
    [] s.op = "fixup_certs"       -> [d EXCEPT !.certs = @ \union {s.site}]
    [] s.op = "write_certs"       -> [d EXCEPT !.certs = @ \union {s.site}]
    [] s.op = "enable_site"       -> [d EXCEPT !.enabled = @ \union {s.site}]
    [] s.op = "save_vars"         -> [d EXCEPT !.main[s.site] = s.val]
    [] s.op = "write_vsite"       -> [d EXCEPT !.vsite[s.site] = s.val]
    \* neither the policy nor the Varnish template is a file followed here
    [] s.op \in {"remove_policy", "write_vtemplates"} -> d
----------------------------------------------------------------------------
(* The life of a call                                                      *)

Init ==
  /\ disk = EmptyDisk /\ tar = None
  /\ nginx = NoConf /\ varnish = NoConf
  /\ faults = 0
  /\ pc = [p \in Process |-> "idle"]
  /\ cmds = [p \in Process |-> <<>>]
  /\ todo = [p \in Process |-> <<>>]
  /\ rollbacks = [p \in Process |-> <<>>]
  /\ webserver_reload = [p \in Process |-> FALSE]
  /\ varnish_reload_cmd = [p \in Process |-> None]
  /\ job = [p \in Process |-> None]
  /\ outcome = [p \in Process |-> "none"]
  /\ before = [p \in Process |-> EmptyDisk]
  /\ nginxBefore = [p \in Process |-> NoConf]

Goto(p, from, to) == pc[p] = from /\ pc' = [pc EXCEPT ![p] = to]

\* The call of p returns or raises: its locals are gone.
End(p, how) ==
  /\ pc' = [pc EXCEPT ![p] = "idle"]
  /\ outcome' = [outcome EXCEPT ![p] = how]
  /\ cmds' = [cmds EXCEPT ![p] = <<>>]
  /\ todo' = [todo EXCEPT ![p] = <<>>]
  /\ rollbacks' = [rollbacks EXCEPT ![p] = <<>>]
  /\ UNCHANGED <<webserver_reload, varnish_reload_cmd, job, history>>

\* A command that should have worked does not (full disk, killed child).
Fault == faults < MaxFaults /\ faults' = faults + 1

\* configure_all checks the version before it creates the transaction.
Begin(p, j) ==
  /\ pc[p] = "idle"
  /\ job' = [job EXCEPT ![p] = j]
  /\ before' = [before EXCEPT ![p] = disk]
  /\ nginxBefore' = [nginxBefore EXCEPT ![p] = nginx]
  /\ rollbacks' = [rollbacks EXCEPT ![p] = <<>>]
  /\ webserver_reload' = [webserver_reload EXCEPT ![p] = FALSE]
  /\ varnish_reload_cmd' = [varnish_reload_cmd EXCEPT ![p] = None]
  /\ \/ /\ j.version = API_VERSION
        /\ pc' = [pc EXCEPT ![p] = "backup"]
        /\ cmds' = [cmds EXCEPT ![p] = j.commands]
        /\ outcome' = [outcome EXCEPT ![p] = "none"]
     \/ /\ j.version # API_VERSION
        /\ outcome' = [outcome EXCEPT ![p] = "raised"]
        /\ UNCHANGED <<pc, cmds>>
  /\ UNCHANGED <<disk, tar, nginx, varnish, faults, todo>>

\* ConfigTransaction.__init__: the rollback exists once the tar is complete.
\* file_idx counts the transactions of one process, so that the first tar of
\* every process has the same path.
Backup(p) ==
  /\ Goto(p, "backup", "commands")
  /\ tar' = disk
  /\ rollbacks' = [rollbacks EXCEPT ![p] = Append(@, "restore")]
  /\ UNCHANGED <<disk, nginx, varnish, faults, cmds, todo, webserver_reload,
                 varnish_reload_cmd, job, outcome, history>>

BackupFails(p) ==
  /\ pc[p] = "backup"
  /\ Fault
  /\ tar' = None
  /\ End(p, "rolled_back")
  /\ UNCHANGED <<disk, nginx, varnish>>

\* The loop of configure_all takes the next command.
NextCommand(p) ==
  /\ pc[p] = "commands"
  /\ todo[p] = <<>> /\ cmds[p] # <<>>
  /\ todo' = [todo EXCEPT ![p] = CommandSteps(Head(cmds[p]),
                 job[p].varnish_changed, job[p].config_changed)]
  /\ cmds' = [cmds EXCEPT ![p] = Tail(@)]
  /\ UNCHANGED <<disk, tar, nginx, varnish, faults, pc, transaction, job,
                 outcome, history>>

AtStep(p) == pc[p] = "commands" /\ todo[p] # <<>>

\* One file operation inside ConfigTransaction.run.
RunStep(p) ==
  /\ AtStep(p)
  /\ Head(todo[p]).op \in FileOps
  /\ Possible(Head(todo[p]), disk)
  /\ disk' = Effect(Head(todo[p]), disk)
  /\ todo' = [todo EXCEPT ![p] = Tail(@)]
  /\ UNCHANGED <<tar, nginx, varnish, faults, pc, cmds, transaction, job,
                 outcome, history>>

\* ... that raises: run starts the rollback.
RunStepFails(p) ==
  /\ AtStep(p)
  /\ Head(todo[p]).op \in FileOps
  /\ Goto(p, "commands", "rollback")
  /\ \/ ~Possible(Head(todo[p]), disk) /\ UNCHANGED faults
     \/ Fault
  /\ UNCHANGED <<disk, tar, nginx, varnish, cmds, todo, transaction, job,
                 outcome, history>>

\* The decorators and configure_all set the flags of the transaction.
Schedule(p) ==
  LET op == Head(todo[p]).op IN
  /\ AtStep(p)
  /\ op \in FlagOps
  /\ webserver_reload' = [webserver_reload EXCEPT ![p] =
       IF op = "web_on" THEN TRUE ELSE IF op = "web_off" THEN FALSE ELSE @]
  /\ varnish_reload_cmd' = [varnish_reload_cmd EXCEPT ![p] =
       IF op = "varnish_on" THEN "reload"
       ELSE IF op = "varnish_off" THEN None ELSE @]
  /\ todo' = [todo EXCEPT ![p] = Tail(@)]
  /\ UNCHANGED <<disk, tar, nginx, varnish, faults, pc, cmds, rollbacks,
                 job, outcome, history>>

\* AttributeError or KeyError of configure_all itself: it is not raised
\* inside ConfigTransaction.run, so that nothing is rolled back.
RaiseOutside(p) ==
  /\ AtStep(p)
  /\ Head(todo[p]).op = "raise"
  /\ End(p, "raised")
  /\ UNCHANGED <<disk, tar, nginx, varnish, faults>>

----------------------------------------------------------------------------
(* finalize                                                                *)

Finished(p) == pc[p] = "commands" /\ todo[p] = <<>> /\ cmds[p] = <<>>

SkipNginx(p) ==
  /\ Finished(p) /\ ~webserver_reload[p]
  /\ Goto(p, "commands", "varnish")
  /\ UNCHANGED <<disk, tar, nginx, varnish, faults, cmds, todo, transaction,
                 job, outcome, history>>

\* Mutant: Nginx is reloaded without a configtest.
CheckNginx_Untested(p) ==
  /\ Finished(p) /\ webserver_reload[p]
  /\ Goto(p, "commands", "load_nginx")
  /\ UNCHANGED <<disk, tar, nginx, varnish, faults, cmds, todo, transaction,
                 job, outcome, history>>

\* NginxConfig.reload_or_start raises when the configtest fails.
CheckNginx(p) ==
  /\ Finished(p) /\ webserver_reload[p]
  /\ Goto(p, "commands", IF ConfigTest(disk) THEN "load_nginx" ELSE "rollback")
  /\ UNCHANGED <<disk, tar, nginx, varnish, faults, cmds, todo, transaction,
                 job, outcome, history>>

\* Mutant: the reload is appended like every other rollback, and runs first.
PushReload_OnTop(rbs) == rbs \o <<"reload">>

\* rollbacks.insert(0, reload_func): the reload is the last rollback to run.
PushReload(rbs) == <<"reload">> \o rbs

\* A running Nginx that is told to load a broken configuration keeps the old.
Reloaded(old, d) == IF ConfigTest(d) THEN Rendered(d) ELSE old

LoadNginx(p) ==
  /\ Goto(p, "load_nginx", "varnish")
  /\ nginx' = Reloaded(nginx, disk)
  /\ rollbacks' = [rollbacks EXCEPT ![p] = PushReload(@)]
  /\ UNCHANGED <<disk, tar, varnish, faults, cmds, todo, webserver_reload,
                 varnish_reload_cmd, job, outcome, history>>

LoadNginxFails(p) ==
  /\ Goto(p, "load_nginx", "rollback")
  /\ Fault
  /\ UNCHANGED <<disk, tar, nginx, varnish, cmds, todo, transaction, job,
                 outcome, history>>

SkipVarnish(p) ==
  /\ Goto(p, "varnish", "save")
  /\ varnish_reload_cmd[p] = None \/ ~VarnishInstalled
  /\ UNCHANGED <<disk, tar, nginx, varnish, faults, cmds, todo, transaction,
                 job, outcome, history>>

\* write_config_file opens main.json and sites/<site>.json of every active
\* domain, those the job does not touch included.
VclReadable(d) == \A s \in Active(d) : d.main[s] # None /\ d.vsite[s] # None

WriteVcl(p) ==
  /\ varnish_reload_cmd[p] # None /\ VarnishInstalled
  /\ Goto(p, "varnish", "load_varnish")
  /\ VclReadable(disk)
  /\ disk' = [disk EXCEPT !.vcl = RenderedVcl(disk)]
  /\ UNCHANGED <<tar, nginx, varnish, faults, cmds, todo, transaction, job,
                 outcome, history>>

WriteVclFails(p) ==
  /\ varnish_reload_cmd[p] # None /\ VarnishInstalled
  /\ Goto(p, "varnish", "rollback")
  /\ \/ ~VclReadable(disk) /\ UNCHANGED faults
     \/ Fault
  /\ UNCHANGED <<disk, tar, nginx, varnish, cmds, todo, transaction, job,
                 outcome, history>>

LoadVarnish(p) ==
  /\ Goto(p, "load_varnish", "save")
  /\ VclCompiles(disk)
  /\ varnish' = disk.vcl
  /\ UNCHANGED <<disk, tar, nginx, faults, cmds, todo, transaction, job,
                 outcome, history>>

LoadVarnishFails(p) ==
  /\ Goto(p, "load_varnish", "rollback")
  /\ \/ ~VclCompiles(disk) /\ UNCHANGED faults
     \/ Fault
  /\ UNCHANGED <<disk, tar, nginx, varnish, cmds, todo, transaction, job,
                 outcome, history>>

\* `mv -f` of the tar to /var/cache, outside of ConfigTransaction.run.
SaveBackup(p) ==
  /\ pc[p] = "save"
  /\ tar # None
  /\ tar' = None
  /\ End(p, "ok")
  /\ UNCHANGED <<disk, nginx, varnish, faults>>

SaveBackupFails(p) ==
  /\ pc[p] = "save"
  /\ \/ tar = None /\ UNCHANGED faults
     \/ Fault
  /\ End(p, "unsaved")
  /\ UNCHANGED <<disk, tar, nginx, varnish>>

----------------------------------------------------------------------------
(* rollback                                                                *)

\* Mutant: the entry is called but not removed from the list.
Pop_Keeps(p) == UNCHANGED rollbacks

\* rollback pops the last entry.
Top(p) == Last(rollbacks[p])
Pop(p) == rollbacks' = [rollbacks EXCEPT ![p] = Front(@)]
RollingBack(p, what) ==
  pc[p] = "rollback" /\ rollbacks[p] # <<>> /\ Top(p) = what

\* Mutant: the tar is unpacked over the directories, without the rm.
Restore_Over(p) ==
  /\ RollingBack(p, "restore")
  /\ tar # None
  /\ disk' = [tar EXCEPT !.templates = @ \union disk.templates,
                         !.certs = @ \union disk.certs,
                         !.enabled = @ \union disk.enabled]
  /\ Pop(p)
  /\ UNCHANGED <<tar, nginx, varnish, faults, pc, cmds, todo,
                 webserver_reload, varnish_reload_cmd, job, outcome, history>>

\* `rm -Rf <dirs> && tar -C / -xf <tar>`
Restore(p) ==
  /\ RollingBack(p, "restore")
  /\ tar # None
  /\ disk' = tar
  /\ Pop(p)
  /\ UNCHANGED <<tar, nginx, varnish, faults, pc, cmds, todo,
                 webserver_reload, varnish_reload_cmd, job, outcome, history>>

\* The directories are gone when there is no tar to unpack; a rollback that
\* raises abandons those below it.
RestoreFails(p) ==
  /\ RollingBack(p, "restore")
  /\ \/ tar = None /\ UNCHANGED faults
     \/ Fault
  /\ disk' = EmptyDisk
  /\ End(p, "rollback_failed")
  /\ UNCHANGED <<tar, nginx, varnish>>

ReloadAgain(p) ==
  /\ RollingBack(p, "reload")
  /\ ConfigTest(disk)
  /\ nginx' = Rendered(disk)
  /\ Pop(p)
  /\ UNCHANGED <<disk, tar, varnish, faults, pc, cmds, todo,
                 webserver_reload, varnish_reload_cmd, job, outcome, history>>

ReloadAgainFails(p) ==
  /\ RollingBack(p, "reload")
  /\ \/ ~ConfigTest(disk) /\ UNCHANGED faults
     \/ Fault
  /\ End(p, "rollback_failed")
  /\ UNCHANGED <<disk, tar, nginx, varnish>>

RolledBack(p) ==
  /\ pc[p] = "rollback" /\ rollbacks[p] = <<>>
  /\ End(p, "rolled_back")
  /\ UNCHANGED <<disk, tar, nginx, varnish, faults>>

\* The process is killed: nothing is rolled back and the tar stays in /tmp.
Crash(p) ==
  /\ pc[p] # "idle"
  /\ Fault
  /\ End(p, "crashed")
  /\ UNCHANGED <<disk, tar, nginx, varnish>>

----------------------------------------------------------------------------
Commands(p) ==
  \/ Backup(p) \/ BackupFails(p)
  \/ NextCommand(p) \/ RunStep(p) \/ RunStepFails(p)
  \/ Schedule(p) \/ RaiseOutside(p)

Finalize(p) ==
  \/ SkipNginx(p) \/ CheckNginx(p) \/ LoadNginx(p) \/ LoadNginxFails(p)
  \/ SkipVarnish(p) \/ WriteVcl(p) \/ WriteVclFails(p)
  \/ LoadVarnish(p) \/ LoadVarnishFails(p)
  \/ SaveBackup(p) \/ SaveBackupFails(p)

Rollback(p) ==
  \/ Restore(p) \/ RestoreFails(p)
  \/ ReloadAgain(p) \/ ReloadAgainFails(p) \/ RolledBack(p)

Run(p) == Commands(p) \/ Finalize(p) \/ Rollback(p)

Next == \E p \in Process : Run(p) \/ Crash(p) \/ \E j \in Jobs : Begin(p, j)

Spec == Init /\ [][Next]_vars

\* A process that has started a call goes on with it.
FairSpec == Spec /\ \A p \in Process : WF_vars(Run(p))

----------------------------------------------------------------------------
(* Properties                                                              *)

\* The rollbacks a transaction can hold: the restore of its own backup, with
\* below it the reload of Nginx that finalize inserts at the front of the list.
RollbackStacks == {<<>>, <<"restore">>, <<"reload", "restore">>, <<"reload">>}

\* The types of the files and of the variables of configure_all; "rollbacks"
\* never holds anything but what run and finalize can put there together.
TypeOK ==
  /\ disk \in Disk
  /\ tar \in Disk \union {None}
  /\ nginx \in NConf /\ varnish \in VConf
  /\ faults \in 0 .. MaxFaults
  /\ pc \in [Process -> {"idle", "backup", "commands", "load_nginx", "varnish",
                         "load_varnish", "save", "rollback"}]
  /\ cmds \in [Process -> Seq(Command)]
  /\ todo \in [Process -> Seq(Step)]
  /\ rollbacks \in [Process -> RollbackStacks]
  /\ webserver_reload \in [Process -> BOOLEAN]
  /\ varnish_reload_cmd \in [Process -> {None, "reload"}]
  /\ job \in [Process -> Jobs \union {None}]
  /\ outcome \in [Process -> {"none", "ok", "raised", "unsaved", "rolled_back",
                              "rollback_failed", "crashed"}]
  /\ before \in [Process -> Disk]
  /\ nginxBefore \in [Process -> NConf]

\* A call that raises inside ConfigTransaction.run, at whatever command or
\* reload, leaves every file as it found it.
RestoredOnFailure ==
  \A p \in Process : outcome[p] = "rolled_back" => disk = before[p]

\* After such a call Nginx serves what it served before, or has been reloaded
\* from the restored files: never the configuration that was given up.
NginxFollowsRollback ==
  \A p \in Process :
    outcome[p] = "rolled_back" => nginx \in {nginxBefore[p], Rendered(disk)}

\* A call that returns has put live whatever it scheduled: Nginx serves the
\* files as they are, and Varnish the site files as they are.
LiveOnReturn ==
  \A p \in Process :
    outcome[p] = "ok" =>
      /\ webserver_reload[p] => nginx = Rendered(disk)
      /\ varnish_reload_cmd[p] # None /\ VarnishInstalled =>
           varnish = RenderedVcl(disk)

\* A call that has started returns or raises.
CallEnds == \A p \in Process : pc[p] # "idle" ~> pc[p] = "idle"
============================================================================
