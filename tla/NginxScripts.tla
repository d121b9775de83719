---------------------------- MODULE NginxScripts ----------------------------
(***************************************************************************)
(* The three scripts that the configuration daemon runs for certificates   *)
(* (revsw-ssl-cert-manager.py, "ssl"), rules of the application firewall   *)
(* (revsw-waf-rule-manager.py, "waf") and mobile applications              *)
(* (revsw-sdk-nginx-gen-config.py, "apps").  Each saves its files, changes *)
(* them, lets Nginx test all of its configuration, and reloads Nginx or    *)
(* puts the saved files back.                                              *)
(***************************************************************************)
EXTENDS Integers

CONSTANTS
  Id, Rule,    \* identifiers of certificates and of rules
  Body,        \* contents of files
  Bad,         \* contents that Nginx does not accept
  Empty,       \* a file without contents, or missing from its directory
  None,        \* no file, key or job
  SiteCerts,   \* certificates that the sites of Nginx refer to
  SiteRules,   \* rules that they include
  Job,         \* what the daemon hands to a script
  MaxRuns,     \* bound on scripts run
  MaxFaults    \* bound on injected failures

Text == Body \union {Empty}

\* A certificate is public.crt with private.key (and its pass phrase).
Cert == [crt : Text, key : Text]

\* A missing key of the JSON file is None.
SslJob == [script : {"ssl"}, json : BOOLEAN, id : Id,
           op : {"update", "update-batch", "delete", "other"},
           cert_type : {"shared", "private", None},
           crt : Body \union {None}, key : Body \union {None}]
WafJob == [script : {"waf"}, json : BOOLEAN, id : Rule,
           op : {"update", "update-batch", "delete", "other"},
           rule_body : Body \union {None}]
\* "flags": configuration_type, operation and configs are there; configs is
\* None if it is no list or an empty one; "renders": the template accepts it.
AppsJob == [script : {"apps"}, json : BOOLEAN, flags : BOOLEAN,
            op : {"app-update", "other"},
            configs : Body \union {None}, renders : BOOLEAN]

ASSUME ScriptsAssumption ==
  /\ Bad \subseteq Body /\ SiteCerts \subseteq Id /\ SiteRules \subseteq Rule
  /\ Empty \notin Body /\ None \notin Text \union Id \union Cert
  /\ Job \subseteq SslJob \union WafJob \union AppsJob /\ None \notin Job
  /\ MaxRuns \in Nat /\ MaxFaults \in Nat

VARIABLES
  disk,         \* certs, the link "default", waf-rules and revsw-apps.conf,
                \* and the scripts whose directory is there
  ssl_tar,      \* /tmp/revsw-ssl-cert.tar: certificates and link
  waf_tar,      \* /tmp/revsw-waf-rule.tar
  apps_backup,  \* /etc/nginx/backup/revsw-apps.conf
  live,         \* the files that Nginx has loaded
  pc, job,      \* where the script is, and what it works on
  code,         \* its exit code
  before,       \* history: the files when it began
  owed,         \* history: files may differ from what Nginx has loaded
  hurt,         \* history: something has failed while the script ran
  runs, faults

saved == <<ssl_tar, waf_tar, apps_backup>>
history == <<before, owed, hurt>>
vars == <<disk, saved, live, pc, job, code, history, runs, faults>>

\* The scripts that keep a directory of files
Dirs == {"ssl", "waf"}

Disk == [certs : [Id -> Cert \union {None}], link : Id \union {None},
         rules : [Rule -> Text \union {None}], apps : Text \union {None},
         dirs : SUBSET Dirs]
SslTar == [certs : [Id -> Cert \union {None}], link : Id \union {None}]
WafTar == [Rule -> Text \union {None}]

\* Nginx takes a pair of files that belong together.
Usable(d, i) ==
  /\ d.certs[i] # None
  /\ d.certs[i].crt = d.certs[i].key /\ d.certs[i].crt \in Body \ Bad

\* revsw-nginx configtest: everything that the sites and the applications
\* refer to is there and is accepted.
ConfigTest(d) ==
  /\ \A i \in SiteCerts : Usable(d, i)
  /\ \A r \in SiteRules : d.rules[r] \in Body \ Bad
  /\ d.apps # None =>
       d.apps \in Body \ Bad /\ d.link # None /\ Usable(d, d.link)

\* os.path.exists follows the link: a link to a removed directory counts as
\* absent, but its name is taken.
Dangling(d) == d.link # None /\ d.certs[d.link] = None

Updates == {"update", "update-batch"}

\* What the code leaves on disk without loading it: a batch, an update that
\* raises after it has changed a file, and a first configuration of the
\* applications, of which there is nothing to restore.
LeavesUnloaded(d, j) ==
  \/ /\ j.script = "ssl" /\ j.json /\ j.op \in Updates
     /\ \/ j.op = "update-batch" \/ None \in {j.crt, j.key, j.cert_type}
        \/ j.cert_type = "shared" /\ Dangling(d)
  \/ j.script = "waf" /\ j.json /\ j.op = "update-batch"
  \/ /\ j.script = "apps" /\ j.json /\ j.flags /\ j.op = "app-update"
     /\ j.configs # None /\ j.renders /\ d.apps = None

Start(j) ==
  /\ pc = "idle" /\ runs < MaxRuns
  /\ pc' = "read" /\ job' = j /\ code' = 0 /\ runs' = runs + 1
  /\ before' = disk /\ hurt' = FALSE /\ owed' = (owed \/ LeavesUnloaded(disk, j))
  /\ UNCHANGED <<disk, saved, live, faults>>

----------------------------------------------------------------------------
(* Steps of a script.  Each says which files and backups it changes.       *)

At(s, label) == pc = label /\ job.script = s

Go(label) == pc' = label /\ UNCHANGED code
Exit(n) == pc' = "idle" /\ code' = n

NoFault == UNCHANGED <<history, faults>>
Fault ==
  /\ faults < MaxFaults /\ faults' = faults + 1
  /\ hurt' = TRUE /\ owed' = TRUE /\ UNCHANGED before

Same == UNCHANGED <<live, job, runs>>

\* An exception ends the script with exit code 1; what it wrote stays.
Raise == Exit(1)

(* revsw-ssl-cert-manager.py and revsw-waf-rule-manager.py                 *)

\* _read_config_files: sys.exit with a message is exit code 1.
Read ==
  /\ pc = "read" /\ job.script \in {"ssl", "waf"}
  /\ IF job.json THEN Go("backup") ELSE Exit(1)
  /\ UNCHANGED <<disk, saved>> /\ NoFault /\ Same

\* Where __init__ goes after the backup.
Operation ==
  IF job.op \in Updates THEN Go("create")
  ELSE IF job.op = "delete" THEN Go("remove") ELSE Exit(0)

\* Mutant: the archive is only written for an update.
BackupCerts_Updates ==
  /\ At("ssl", "backup")
  /\ ssl_tar' = IF job.op \in Updates
                THEN [certs |-> disk.certs, link |-> disk.link] ELSE ssl_tar
  /\ Operation
  /\ NoFault /\ UNCHANGED <<disk, waf_tar, apps_backup>> /\ Same

\* _backup_certs: the old archive is removed before the new one is written, and
\* tar fails when there is no directory.
BackupCerts ==
  /\ At("ssl", "backup")
  /\ \/ "ssl" \notin disk.dirs /\ ssl_tar' = None /\ Raise /\ NoFault
     \/ /\ "ssl" \in disk.dirs
        /\ ssl_tar' = [certs |-> disk.certs, link |-> disk.link]
        /\ Operation /\ NoFault
     \/ ssl_tar' = None /\ Raise /\ Fault
  /\ UNCHANGED <<disk, waf_tar, apps_backup>> /\ Same

BackupRules ==
  /\ At("waf", "backup")
  /\ \/ "waf" \notin disk.dirs /\ waf_tar' = None /\ Raise /\ NoFault
     \/ "waf" \in disk.dirs /\ waf_tar' = disk.rules /\ Operation /\ NoFault
     \/ waf_tar' = None /\ Raise /\ Fault
  /\ UNCHANGED <<disk, ssl_tar, apps_backup>> /\ Same

\* The directory as os.makedirs leaves it.
Folder(i) == IF disk.certs[i] = None THEN [crt |-> Empty, key |-> Empty]
             ELSE disk.certs[i]

\* A file is truncated before the key of the JSON file is looked up.
Written(value) == IF value = None THEN Empty ELSE value

\* _create_certs writes public.crt ...
WriteCert ==
  /\ At("ssl", "create")
  /\ \/ /\ disk' = [disk EXCEPT !.certs[job.id] =
                      [Folder(job.id) EXCEPT !.crt = Written(job.crt)]]
        /\ IF job.crt = None THEN Raise ELSE Go("key")
        /\ NoFault
     \/ /\ disk' = [disk EXCEPT !.certs[job.id] =
                      [Folder(job.id) EXCEPT !.crt = Empty]]
        /\ Raise /\ Fault
  /\ UNCHANGED saved /\ Same

\* ... and then private.key with its pass phrase.
WriteKey ==
  /\ At("ssl", "key")
  /\ \/ /\ disk' = [disk EXCEPT !.certs[job.id] =
                      [Folder(job.id) EXCEPT !.key = Written(job.key)]]
        /\ IF job.key = None THEN Raise ELSE Go("link")
        /\ NoFault
     \/ /\ disk' = [disk EXCEPT !.certs[job.id] =
                      [Folder(job.id) EXCEPT !.key = Empty]]
        /\ Raise /\ Fault
  /\ UNCHANGED saved /\ Same

\* require_reloading, as it is after an update
Finish == IF job.op = "update" THEN Go("test") ELSE Exit(0)

\* Mutant: a new default certificate is not loaded.
Link_Unloaded ==
  /\ At("ssl", "link")
  /\ CASE job.cert_type = None -> Raise /\ UNCHANGED disk
       [] job.cert_type = "private" -> Finish /\ UNCHANGED disk
       [] job.cert_type = "shared" -> disk' = [disk EXCEPT !.link = job.id] /\ Exit(0)
  /\ NoFault /\ UNCHANGED saved /\ Same

\* _create_symlink removes the link and makes a new one, which may fail;
\* os.symlink raises if the name is taken.
Link ==
  /\ At("ssl", "link")
  /\ \/ /\ CASE job.cert_type = None -> Raise /\ UNCHANGED disk
            [] job.cert_type = "private" -> Finish /\ UNCHANGED disk
            [] job.cert_type = "shared" ->
                 IF Dangling(disk) THEN Raise /\ UNCHANGED disk
                 ELSE disk' = [disk EXCEPT !.link = job.id] /\ Finish
        /\ NoFault
     \/ /\ job.cert_type = "shared" /\ ~Dangling(disk)
        /\ disk' = [disk EXCEPT !.link = None] /\ Raise /\ Fault
  /\ UNCHANGED saved /\ Same

\* _create_rules: the body is rendered before the file is opened.
WriteRules ==
  /\ At("waf", "create")
  /\ \/ IF job.rule_body = None THEN Raise /\ UNCHANGED disk /\ NoFault
        ELSE /\ disk' = [disk EXCEPT !.rules[job.id] = job.rule_body]
             /\ Finish /\ NoFault
     \/ /\ job.rule_body # None
        /\ disk' = [disk EXCEPT !.rules[job.id] = Empty]
        /\ Raise /\ Fault
  /\ UNCHANGED saved /\ Same

\* _remove_certs: no reload if there is no directory, or if shutil.rmtree
\* fails after it has removed some of the files.
RemoveCerts ==
  /\ At("ssl", "remove")
  /\ IF disk.certs[job.id] = None
     THEN Exit(0) /\ UNCHANGED disk /\ NoFault
     ELSE \/ /\ disk' = [disk EXCEPT !.certs[job.id] = None]
             /\ Go("test") /\ NoFault
          \/ /\ disk' \in {[disk EXCEPT !.certs[job.id].crt = Empty],
                          [disk EXCEPT !.certs[job.id].key = Empty]}
             /\ Exit(0) /\ Fault
  /\ UNCHANGED saved /\ Same

RemoveRules ==
  /\ At("waf", "remove")
  /\ IF disk.rules[job.id] = None
     THEN Exit(0) /\ UNCHANGED disk /\ NoFault
     ELSE \/ /\ disk' = [disk EXCEPT !.rules[job.id] = None]
             /\ Go("test") /\ NoFault
          \/ Exit(0) /\ UNCHANGED disk /\ Fault
  /\ UNCHANGED saved /\ Same

----------------------------------------------------------------------------
(* revsw-sdk-nginx-gen-config.py, refresh_configuration                    *)

ReadApps ==
  /\ At("apps", "read")
  /\ IF ~job.json \/ ~job.flags THEN Go("remove")
     ELSE IF job.op # "app-update" THEN Exit(0)
     ELSE IF job.configs = None THEN Go("remove") ELSE Go("backup")
  /\ UNCHANGED <<disk, saved>> /\ NoFault /\ Same

RemoveApps ==
  /\ At("apps", "remove")
  /\ disk' = [disk EXCEPT !.apps = None] /\ Go("test")
  /\ UNCHANGED saved /\ NoFault /\ Same

\* Mutant: the file is copied the first time only.
BackupApps_Once ==
  /\ At("apps", "backup")
  /\ apps_backup' = IF apps_backup = None THEN disk.apps ELSE apps_backup
  /\ Go("create")
  /\ NoFault /\ UNCHANGED <<disk, ssl_tar, waf_tar>> /\ Same

\* _backup_active_sdk_nginx_config leaves an older copy alone when there is
\* no file to copy.
BackupApps ==
  /\ At("apps", "backup")
  /\ \/ /\ apps_backup' = IF disk.apps # None THEN disk.apps ELSE apps_backup
        /\ Go("create") /\ NoFault
     \/ apps_backup' \in {apps_backup, Empty} /\ Raise /\ Fault
  /\ UNCHANGED <<disk, ssl_tar, waf_tar>> /\ Same

\* _generate_final_nginx_config renders into /tmp and copies.
WriteApps ==
  /\ At("apps", "create")
  /\ \/ IF job.renders
        THEN disk' = [disk EXCEPT !.apps = job.configs] /\ Go("test") /\ NoFault
        ELSE Raise /\ UNCHANGED disk /\ NoFault
     \/ disk' \in {disk, [disk EXCEPT !.apps = Empty]} /\ Raise /\ Fault
  /\ UNCHANGED saved /\ Same

\* The branches of refresh_configuration that load a removal.
Removes == ~job.json \/ ~job.flags \/ job.configs = None

\* Their exit codes, given the result of _load_new_configuration.
RemovalExit(failed) ==
  IF ~job.json THEN Exit(IF failed THEN 1 ELSE 0)
  ELSE IF ~job.flags THEN Exit(1) ELSE Exit(0)

----------------------------------------------------------------------------
(* _reload_nginx and _load_new_configuration                               *)

\* What follows a failed configtest.
Rejected ==
  IF job.script = "apps" /\ Removes THEN RemovalExit(TRUE) ELSE Go("restore")

Test ==
  /\ pc = "test"
  /\ IF ConfigTest(disk) THEN Go("reload") ELSE Rejected
  /\ UNCHANGED <<disk, saved>> /\ NoFault /\ Same

\* Mutant: the result of the reload is not looked at.
Reload_Ignored ==
  /\ pc = "reload"
  /\ \/ /\ live' = disk
        /\ IF job.script = "apps" /\ Removes THEN RemovalExit(FALSE) ELSE Exit(0)
        /\ owed' = FALSE /\ UNCHANGED <<before, hurt, faults>>
     \/ Exit(0) /\ UNCHANGED live /\ Fault
  /\ UNCHANGED <<disk, saved, job, runs>>

\* Only the script for applications looks at the result of the reload.
Reload ==
  /\ pc = "reload"
  /\ \/ /\ live' = disk
        /\ IF job.script = "apps" /\ Removes THEN RemovalExit(FALSE) ELSE Exit(0)
        /\ owed' = FALSE /\ UNCHANGED <<before, hurt, faults>>
     \/ /\ IF job.script = "apps" THEN Rejected ELSE Exit(0)
        /\ UNCHANGED live /\ Fault
  /\ UNCHANGED <<disk, saved, job, runs>>

NoCerts == [i \in Id |-> None]

\* Mutant: the archive is unpacked over the changed directory.
RestoreCerts_Over ==
  /\ At("ssl", "restore")
  /\ disk' = [disk EXCEPT
       !.certs = [i \in Id |-> IF ssl_tar.certs[i] = None THEN @[i]
                               ELSE ssl_tar.certs[i]],
       !.link = ssl_tar.link]
  /\ Exit(0) /\ NoFault
  /\ UNCHANGED saved /\ Same

\* The directory is removed and unpacked again; the exit code stays 0.  When
\* that fails, nothing is unpacked, or nothing but the directory.
RestoreCerts ==
  /\ At("ssl", "restore")
  /\ \/ /\ disk' = [disk EXCEPT !.certs = ssl_tar.certs, !.link = ssl_tar.link]
        /\ Exit(0) /\ NoFault
     \/ /\ \E left \in {disk.dirs, disk.dirs \ {"ssl"}} :
             disk' = [disk EXCEPT !.certs = NoCerts, !.link = None, !.dirs = left]
        /\ Raise /\ Fault
  /\ UNCHANGED saved /\ Same

RestoreRules ==
  /\ At("waf", "restore")
  /\ \/ disk' = [disk EXCEPT !.rules = waf_tar] /\ Exit(0) /\ NoFault
     \/ /\ \E left \in {disk.dirs, disk.dirs \ {"waf"}} :
             disk' = [disk EXCEPT !.rules = [r \in Rule |-> None], !.dirs = left]
        /\ Raise /\ Fault
  /\ UNCHANGED saved /\ Same

\* _restore_sdk_nginx_from_backup copies whatever copy there is, or raises.
RestoreApps ==
  /\ At("apps", "restore")
  /\ Exit(1)
  /\ \/ /\ disk' = IF apps_backup = None THEN disk
                   ELSE [disk EXCEPT !.apps = apps_backup]
        /\ NoFault
     \/ disk' \in {disk, [disk EXCEPT !.apps = Empty]} /\ Fault
  /\ UNCHANGED saved /\ Same

\* A script is killed, or a system call fails, before a step: the files stay
\* as they are and the exit code is not 0.
Crash ==
  /\ pc # "idle" /\ Raise /\ Fault
  /\ UNCHANGED <<disk, saved>> /\ Same

Script ==
  \/ Read \/ BackupCerts \/ BackupRules
  \/ WriteCert \/ WriteKey \/ Link \/ WriteRules
  \/ RemoveCerts \/ RemoveRules
  \/ ReadApps \/ RemoveApps \/ BackupApps \/ WriteApps
  \/ Test \/ Reload \/ RestoreCerts \/ RestoreRules \/ RestoreApps

Next == (\E j \in Job : Start(j)) \/ Script \/ Crash

\* The files that the sites need are there, and loaded, at the beginning.
Init ==
  /\ \E b \in Body \ Bad :
       disk = [certs |-> [i \in Id |-> IF i \in SiteCerts
                                       THEN [crt |-> b, key |-> b] ELSE None],
               link |-> None,
               rules |-> [r \in Rule |-> IF r \in SiteRules THEN b ELSE None],
               apps |-> None, dirs |-> Dirs]
  /\ live = disk /\ before = disk
  /\ ssl_tar = None /\ waf_tar = None /\ apps_backup = None
  /\ pc = "idle" /\ job = None /\ code = 0
  /\ owed = FALSE /\ hurt = FALSE /\ runs = 0 /\ faults = 0

Spec == Init /\ [][Next]_vars

----------------------------------------------------------------------------
(* Properties                                                              *)

\* The types of the variables; an archive is there whenever it is unpacked
\* (_reload_nginx reads the one that _backup_certs or _backup_rules wrote).
STypeOK ==
  /\ disk \in Disk /\ live \in Disk /\ before \in Disk
  /\ ssl_tar \in SslTar \union {None} /\ waf_tar \in WafTar \union {None}
  /\ apps_backup \in Text \union {None}
  /\ job \in Job \union {None} /\ (job = None => pc = "idle")
  /\ pc \in {"idle", "read", "backup", "create", "key", "link",
             "remove", "test", "reload", "restore"}
  /\ pc = "restore" => /\ job.script = "ssl" => ssl_tar \in SslTar
                       /\ job.script = "waf" => waf_tar \in WafTar
  /\ code \in {0, 1} /\ owed \in BOOLEAN /\ hurt \in BOOLEAN
  /\ runs \in 0..MaxRuns /\ faults \in 0..MaxFaults

\* Unless something was left unloaded on purpose or by a failure, Nginx runs
\* the files between two scripts and would start with them again.
StaysLoaded == pc = "idle" /\ ~owed => live = disk /\ ConfigTest(disk)

\* The files that a job asks for.
Requested(d, j) ==
  CASE j.script = "ssl" /\ j.op = "update" ->
         [d EXCEPT !.certs[j.id] = [crt |-> j.crt, key |-> j.key],
                   !.link = IF j.cert_type = "shared" THEN j.id ELSE @]
    [] j.script = "ssl" /\ j.op = "delete" -> [d EXCEPT !.certs[j.id] = None]
    [] j.script = "waf" /\ j.op = "update" ->
         [d EXCEPT !.rules[j.id] = j.rule_body]
    [] j.script = "waf" /\ j.op = "delete" -> [d EXCEPT !.rules[j.id] = None]
    [] j.script = "apps" -> [d EXCEPT !.apps = j.configs]

\* Jobs with all their keys that are to be loaded, given the files at the
\* beginning.  A shared certificate cannot replace a link to a removed one, and
\* without their directory the first two scripts raise at the backup.
Loads(d, j) ==
  /\ j.json /\ (j.script \in Dirs => j.script \in d.dirs)
  /\ CASE j.script = "ssl" ->
            \/ /\ j.op = "update" /\ None \notin {j.crt, j.key, j.cert_type}
               /\ j.cert_type = "shared" => ~Dangling(d)
            \/ j.op = "delete" /\ d.certs[j.id] # None
       [] j.script = "waf" ->
            \/ j.op = "update" /\ j.rule_body # None
            \/ j.op = "delete" /\ d.rules[j.id] # None
       [] j.script = "apps" ->
            j.flags /\ j.op = "app-update" /\ (j.configs = None \/ j.renders)

\* A complete job that Nginx accepts together with everything else is on disk
\* and loaded when its script has ended, if nothing failed in it.
AcceptedIsLive ==
  pc = "idle" /\ job # None /\ ~hurt =>
    (Loads(before, job) /\ ConfigTest(Requested(before, job))
       => disk = Requested(before, job) /\ live = disk)

\* One that Nginx rejects leaves every file as it was; the script for
\* applications only knows how to put back a file that there was.
RejectedIsRestored ==
  pc = "idle" /\ job # None /\ ~hurt =>
    (Loads(before, job) /\ ~ConfigTest(Requested(before, job))
       /\ (job.script = "apps" => before.apps # None /\ job.configs # None)
       => disk = before)

\* Exit code 0 of an update of the applications means that Nginx runs it,
\* whatever failed (sys.exit(1) in refresh_configuration).
SdkSuccessIsLive ==
  pc = "idle" /\ job # None /\ job.script = "apps" =>
    (Loads(before, job) /\ job.configs # None /\ code = 0
       => disk.apps = job.configs /\ live = disk)
============================================================================
