--------------------------- MODULE UpgradeDomains ---------------------------
(***************************************************************************)
(* pc-apache-config.py -U: upgrade_all_domains disables every site inside  *)
(* a transaction of its own, converts the stored variables of all domains  *)
(* and configures them with one call of configure_all (module              *)
(* ConfigTransaction), whose transaction is nested in the first.           *)
(*                                                                         *)
(* Here "tar" is the backup of the inner transaction; the outer one has a  *)
(* file of its own, since both are of one process.  What a conversion does *)
(* to the variables is the business of module ConfigUpgrade.               *)
(***************************************************************************)
EXTENDS ConfigTransaction

CONSTANTS
  Upgrader,     \* the process
  Exits,        \* result of a conversion that ends in sys.exit
  UpgradedN,    \* the converted Nginx variables, None: an exception, or Exits
  UpgradedV     \* the converted Varnish variables, None: an exception

ASSUME UpgradeAssumption ==
  /\ Process = {Upgrader}
  /\ UpgradedN \in [NVar -> NVar \union {None, Exits}]
  /\ UpgradedV \in [VVar -> VVar \union {None}]

VARIABLES
  phase,     \* where upgrade_all_domains is
  outerTar,  \* /tmp/revsw-apache-config.0.tar
  silent,    \* the exception that reached the function has an empty message
  report,    \* how the last upgrade ended
  start      \* history: the files and Nginx when it began

upgrade_vars == <<phase, outerTar, silent, report, start>>
uvars == <<vars, upgrade_vars>>

\* The state between two configurations: every site has its variables.
Installed(main, vsite) ==
  LET sites == {s \in Site : main[s] # None} IN
  [templates |-> sites, certs |-> sites, main |-> main, conf |-> main,
   enabled |-> sites, vsite |-> vsite, vcl |-> vsite]

UInit ==
  /\ \E main \in [Site -> (NVar \ BadN) \union {None}],
        vsite \in [Site -> (VVar \ BadV) \union {None}] :
       /\ \A s \in Site : main[s] = None => vsite[s] = None
       /\ disk = Installed(main, vsite)
  /\ nginx = Rendered(disk) /\ varnish = disk.vcl
  /\ tar = None /\ outerTar = None /\ faults = 0
  /\ pc = [p \in Process |-> "idle"]
  /\ cmds = [p \in Process |-> <<>>]
  /\ todo = [p \in Process |-> <<>>]
  /\ rollbacks = [p \in Process |-> <<>>]
  /\ webserver_reload = [p \in Process |-> FALSE]
  /\ varnish_reload_cmd = [p \in Process |-> None]
  /\ job = [p \in Process |-> None]
  /\ outcome = [p \in Process |-> "none"]
  /\ before = [p \in Process |-> disk]
  /\ nginxBefore = [p \in Process |-> nginx]
  /\ phase = "idle" /\ silent = FALSE /\ report = "none"
  /\ start = [disk |-> disk, nginx |-> nginx]

Move(from, to) == phase = from /\ phase' = to

\* The run of the script ends.
Report(how) == phase' = "idle" /\ report' = how

\* Nothing of configure_all moves.
InnerStays == UNCHANGED <<pc, cmds, todo, transaction, job, outcome, history>>

----------------------------------------------------------------------------
\* get_all_active_domains opens the main.json of every site directory before
\* anything is backed up.
Begins ==
  /\ phase = "idle"
  /\ start' = [disk |-> disk, nginx |-> nginx]
  /\ silent' = FALSE
  /\ IF \A s \in Active(disk) : disk.main[s] # None
       THEN phase' = "backup" /\ report' = "none"
       ELSE Report("failed")
  /\ UNCHANGED <<disk, tar, outerTar, nginx, varnish, faults>> /\ InnerStays

\* Mutant: the sites are disabled before they are backed up.
OuterBackup_Late ==
  /\ Move("backup", "disable")
  /\ outerTar' = [disk EXCEPT !.enabled = {}]
  /\ UNCHANGED <<disk, tar, nginx, varnish, faults, silent, report, start>>
  /\ InnerStays

OuterBackup ==
  /\ Move("backup", "disable")
  /\ outerTar' = disk
  /\ UNCHANGED <<disk, tar, nginx, varnish, faults, silent, report, start>>
  /\ InnerStays

OuterBackupFails ==
  /\ phase = "backup"
  /\ Fault
  /\ Report("failed")
  /\ outerTar' = None
  /\ UNCHANGED <<disk, tar, nginx, varnish, silent, start>> /\ InnerStays

\* disable_all_sites: a failure is rolled back and ends the upgrade.
DisableSites ==
  /\ Move("disable", "convert")
  /\ disk' = Effect(Do("disable_all_sites", None), disk)
  /\ UNCHANGED <<tar, outerTar, nginx, varnish, faults, silent, report, start>>
  /\ InnerStays

DisableSitesFails ==
  /\ Move("disable", "restore")
  /\ Fault
  /\ UNCHANGED <<disk, tar, outerTar, nginx, varnish, silent, report, start>>
  /\ InnerStays

----------------------------------------------------------------------------
(* The conversions and the call of configure_all                           *)

NginxOf(d, s) == UpgradedN[d.main[s]]
VarnishOf(d, s) == IF d.vsite[s] = None THEN None ELSE UpgradedV[d.vsite[s]]

Convertible(d, s) == NginxOf(d, s) \in NVar /\ VarnishOf(d, s) # None

\* One "config" command, with its templates, for each domain.
UpgradeCommand(d, s) ==
  [type |-> "config", site |-> s, named |-> FALSE, templates |-> TRUE,
   nvars |-> NginxOf(d, s), vvars |-> VarnishOf(d, s)]

\* Mutant: Varnish is not told.
UpgradeJob_Quiet(d) ==
  LET order == SetToSeq(Active(d)) IN
  [version |-> API_VERSION,
   commands |-> [i \in DOMAIN order |-> UpgradeCommand(d, order[i])],
   varnish_changed |-> FALSE, config_changed |-> TRUE]

UpgradeJob(d) ==
  LET order == SetToSeq(Active(d)) IN
  [version |-> API_VERSION,
   commands |-> [i \in DOMAIN order |-> UpgradeCommand(d, order[i])],
   varnish_changed |-> TRUE, config_changed |-> TRUE]

\* The upgrades are among the calls of configure_all.
ASSUME SitesAssumption ==
  /\ IsFiniteSet(Site)
  /\ \A main \in [Site -> NVar \union {None}], vsite \in [Site -> VVar \union {None}] :
       LET d == Installed(main, vsite) IN
       (\A s \in Active(d) : Convertible(d, s)) => UpgradeJob(d) \in Jobs

ConfigureAll ==
  /\ Move("convert", "configure")
  /\ \A s \in Active(disk) : Convertible(disk, s)
  /\ Begin(Upgrader, UpgradeJob(disk))
  /\ UNCHANGED <<outerTar, silent, report, start>>

\* After an exception: the outer transaction is rolled back if its message is
\* not empty, and finalized if it is.
Caught(from, message) == Move(from, IF message = "" THEN "finalize" ELSE "restore")

\* A conversion raises (KeyError and the like name what they miss), or a file
\* it reads cannot be read: the message of an IOError with a number is empty.
ConversionFails ==
  /\ \/ /\ \E s \in Active(disk) : ~ Convertible(disk, s) /\ NginxOf(disk, s) # Exits
        /\ Caught("convert", "text") /\ UNCHANGED <<faults, silent>>
     \/ /\ Fault
        /\ \E message \in {"", "text"} :
             Caught("convert", message) /\ silent' = (message = "")
  /\ UNCHANGED <<disk, tar, outerTar, nginx, varnish, report, start>>
  /\ InnerStays

\* sys.exit raises SystemExit, which `except Exception` does not catch.
ConversionExits ==
  /\ phase = "convert"
  /\ \E s \in Active(disk) : NginxOf(disk, s) = Exits
  /\ Report("exited")
  /\ UNCHANGED <<disk, tar, outerTar, nginx, varnish, faults, silent, start>>
  /\ InnerStays

\* configure_all runs; the message of what failed in it may be empty, that of
\* a rejected configuration is not.
Configures ==
  /\ phase = "configure"
  /\ Run(Upgrader)
  /\ silent' \in (IF faults' = faults THEN {silent} ELSE BOOLEAN)
  /\ UNCHANGED <<phase, outerTar, report, start>>

Returned == phase = "configure" /\ pc[Upgrader] = "idle"

Configured ==
  /\ Returned /\ outcome[Upgrader] = "ok"
  /\ Move("configure", "finalize")
  /\ UNCHANGED <<vars, outerTar, silent, report, start>>

ConfigureFails ==
  /\ Returned /\ outcome[Upgrader] # "ok"
  /\ Caught("configure", IF silent THEN "" ELSE "text")
  /\ UNCHANGED <<vars, outerTar, silent, report, start>>

----------------------------------------------------------------------------
(* The end of the outer transaction                                        *)

\* finalize: disable_all_sites has scheduled the reload of Nginx.
OuterReload ==
  /\ Move("finalize", "save")
  /\ ConfigTest(disk)
  /\ nginx' = Rendered(disk)
  /\ UNCHANGED <<disk, tar, outerTar, varnish, faults, silent, report, start>>
  /\ InnerStays

\* run restores the files, but its reload is not among the rollbacks yet.
OuterReloadFails ==
  /\ Move("finalize", "restore")
  /\ \/ ~ ConfigTest(disk) /\ UNCHANGED faults
     \/ Fault
  /\ UNCHANGED <<disk, tar, outerTar, nginx, varnish, silent, report, start>>
  /\ InnerStays

OuterSave ==
  /\ phase = "save"
  /\ Report("upgraded")
  /\ outerTar' = None
  /\ UNCHANGED <<disk, tar, nginx, varnish, faults, silent, start>> /\ InnerStays

OuterSaveFails ==
  /\ phase = "save"
  /\ Fault
  /\ Report("unsaved")
  /\ UNCHANGED <<disk, tar, outerTar, nginx, varnish, silent, start>> /\ InnerStays

\* The only rollback of the outer transaction.
OuterRestore ==
  /\ phase = "restore"
  /\ disk' = outerTar
  /\ Report("failed")
  /\ UNCHANGED <<tar, outerTar, nginx, varnish, faults, silent, start>>
  /\ InnerStays

OuterRestoreFails ==
  /\ phase = "restore"
  /\ Fault
  /\ disk' = EmptyDisk
  /\ Report("rollback_failed")
  /\ UNCHANGED <<tar, outerTar, nginx, varnish, silent, start>> /\ InnerStays

\* The process is killed, inside configure_all or around it.
Killed ==
  /\ phase # "idle"
  /\ Report("crashed")
  /\ \/ Crash(Upgrader)
     \/ /\ pc[Upgrader] = "idle" /\ Fault
        /\ UNCHANGED <<disk, tar, nginx, varnish>> /\ InnerStays
  /\ UNCHANGED <<outerTar, silent, start>>

UNext ==
  \/ Begins \/ OuterBackup \/ OuterBackupFails
  \/ DisableSites \/ DisableSitesFails
  \/ ConfigureAll \/ ConversionFails \/ ConversionExits
  \/ Configures \/ Configured \/ ConfigureFails
  \/ OuterReload \/ OuterReloadFails \/ OuterSave \/ OuterSaveFails
  \/ OuterRestore \/ OuterRestoreFails \/ Killed

USpec == UInit /\ [][UNext]_uvars

----------------------------------------------------------------------------
(* Properties                                                              *)

\* Whatever fails, at any depth: an upgrade that reports its failure, and
\* could restore, leaves every file as it found it, although the transaction
\* of configure_all restores a backup in which all sites are disabled.
FailureRestores == report = "failed" => disk = start.disk

Serves(s, n, v) ==
  /\ s \in disk.enabled
  /\ disk.main[s] = n /\ nginx[s] = n
  /\ VarnishInstalled => varnish[s] = v

\* An upgrade that succeeds, without an exception whose empty message hides
\* it, has every domain that has a directory enabled and served with its
\* converted variables by both servers, also the domains that an earlier
\* upgrade disabled before it was killed or left by sys.exit, and no other.
UpgradeIsWhole ==
  report = "upgraded" /\ ~ silent =>
    /\ disk.enabled = Active(start.disk)
    /\ \A s \in Active(start.disk) :
         Serves(s, NginxOf(start.disk, s), VarnishOf(start.disk, s))

\* After an upgrade that reports its failure Nginx serves what it served, or
\* what is in the restored files.
NginxFollowsRestore ==
  report = "failed" => nginx \in {start.nginx, Rendered(disk)}
=============================================================================
