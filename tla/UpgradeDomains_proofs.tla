------------------------ MODULE UpgradeDomains_proofs ------------------------
(***************************************************************************)
(* A failed upgrade restores what it found, and a successful one installs  *)
(* the converted variables of every domain, for any sites, variables,      *)
(* conversions and failures.                                               *)
(***************************************************************************)
EXTENDS UpgradeDomains, ConfigTransaction_proofs, FiniteSetTheorems

\* The phases in which the outer transaction can restore its backup.
Backed == {"disable", "convert", "configure", "finalize", "save", "restore"}

\* The outer backup is what the upgrade found, whatever configure_all does to
\* the files and to its own backup, and nothing is reported on the way.
UInv ==
  /\ phase \in {"idle", "backup"} \union Backed
  /\ phase # "idle" => report = "none"
  /\ phase = "backup" => disk = start.disk
  /\ phase \in Backed => outerTar = start.disk
  /\ report = "failed" => disk = start.disk

LEMMA UInitInv == UInit => UInv
<1>1. UInit => phase = "idle" /\ report = "none"
  BY Zenon DEF UInit
<1> QED BY <1>1 DEF UInv, Backed

\* The steps up to the backup, which change no file.
LEMMA BackupSteps ==
  ASSUME UInv, Begins \/ OuterBackup \/ OuterBackupFails
  PROVE  UInv'
<1>1. CASE Begins
  <2>1. start'.disk = disk /\ disk' = disk
    BY <1>1 DEF Begins
  <2>2. \/ phase' = "backup" /\ report' = "none"
        \/ phase' = "idle" /\ report' = "failed"
    BY <1>1 DEF Begins, Report
  <2> QED BY <2>1, <2>2 DEF UInv, Backed
<1>2. CASE OuterBackup
  BY <1>2 DEF OuterBackup, Move, UInv, Backed
<1>3. CASE OuterBackupFails
  BY <1>3 DEF OuterBackupFails, Report, UInv, Backed
<1> QED BY <1>1, <1>2, <1>3

\* A step between the phases of the outer transaction that reports nothing.
LEMMA Goes ==
  ASSUME UInv, phase \in Backed, phase' \in Backed,
         UNCHANGED <<outerTar, report, start>>
  PROVE  UInv'
BY DEF UInv, Backed

\* A step that ends the upgrade without a restore, and without "failed".
LEMMA Ends ==
  ASSUME NEW how, how # "failed", Report(how), UNCHANGED start
  PROVE  UInv'
BY DEF UInv, Report, Backed

LEMMA StepInv ==
  ASSUME UInv, UNext
  PROVE  UInv'
<1>1. CASE Begins \/ OuterBackup \/ OuterBackupFails
  BY <1>1, BackupSteps
<1>2. CASE DisableSites
  BY <1>2, Goes DEF DisableSites, Move, Backed
<1>3. CASE DisableSitesFails
  BY <1>3, Goes DEF DisableSitesFails, Move, Backed
<1>4. CASE ConfigureAll
  BY <1>4, Goes DEF ConfigureAll, Move, Backed
<1>5. CASE ConversionFails
  <2>1. phase = "convert" /\ phase' \in {"finalize", "restore"}
    BY <1>5 DEF ConversionFails, Caught, Move
  <2> QED BY <1>5, <2>1, Goes DEF ConversionFails, Backed
<1>6. CASE ConversionExits
  BY <1>6, Ends DEF ConversionExits
<1>7. CASE Configures
  BY <1>7, Goes DEF Configures, Backed
<1>8. CASE Configured
  BY <1>8, Goes DEF Configured, Move, Backed
<1>9. CASE ConfigureFails
  <2>1. phase = "configure" /\ phase' \in {"finalize", "restore"}
    BY <1>9 DEF ConfigureFails, Caught, Move
  <2> QED BY <1>9, <2>1, Goes DEF ConfigureFails, Backed
<1>10. CASE OuterReload
  BY <1>10, Goes DEF OuterReload, Move, Backed
<1>11. CASE OuterReloadFails
  BY <1>11, Goes DEF OuterReloadFails, Move, Backed
<1>12. CASE OuterSave
  BY <1>12, Ends DEF OuterSave
<1>13. CASE OuterSaveFails
  BY <1>13, Ends DEF OuterSaveFails
<1>14. CASE OuterRestore
  BY <1>14 DEF OuterRestore, Report, UInv, Backed
<1>15. CASE OuterRestoreFails
  BY <1>15, Ends DEF OuterRestoreFails
<1>16. CASE Killed
  BY <1>16, Ends DEF Killed
<1> QED
  BY <1>1, <1>2, <1>3, <1>4, <1>5, <1>6, <1>7, <1>8, <1>9, <1>10, <1>11,
     <1>12, <1>13, <1>14, <1>15, <1>16 DEF UNext

LEMMA StutterInv ==
  ASSUME UInv, UNCHANGED uvars
  PROVE  UInv'
BY DEF UInv, uvars, upgrade_vars, vars

\* An upgrade that reports its failure leaves every file as it found it
\* (upgrade_all_domains around configure_all, with nested backups).
THEOREM UpgradeRestores == USpec => []FailureRestores
<1>1. UInit => UInv
  BY UInitInv
<1>2. UInv /\ [UNext]_uvars => UInv'
  BY StepInv, StutterInv
<1>3. UInv => FailureRestores
  BY DEF UInv, FailureRestores
<1> QED BY <1>1, <1>2, <1>3, PTL DEF USpec

----------------------------------------------------------------------------
(***************************************************************************)
(* A successful upgrade is whole.  While configure_all works, every domain *)
(* still has its command to come, or each of the steps that install its    *)
(* converted variables is still to come or has been done; the commands     *)
(* only write these domains, and each of them ends up scheduling the       *)
(* reload of Varnish.                                                      *)
(***************************************************************************)
DomainDone(o, s, d) ==
  /\ s \in d.enabled
  /\ d.conf[s] = NginxOf(o, s) /\ d.main[s] = NginxOf(o, s) /\ d.vsite[s] = VarnishOf(o, s)

\* All that the files must have ...
Filled(o, d, reload) ==
  /\ d.enabled = Active(o)
  /\ \A s \in Active(o) : DomainDone(o, s, d) /\ reload # None

\* ... what they have of it for a domain, with these steps left ...
DomainInstalls(o, s, left, d, reload) ==
  /\ Do("enable_site", s) \in left \/ s \in d.enabled
  /\ Put("write_conf", s, NginxOf(o, s)) \in left \/ d.conf[s] = NginxOf(o, s)
  /\ Put("save_vars", s, NginxOf(o, s)) \in left \/ d.main[s] = NginxOf(o, s)
  /\ Put("write_vsite", s, VarnishOf(o, s)) \in left \/ d.vsite[s] = VarnishOf(o, s)
  /\ VarnishOn \in left \/ reload # None

\* ... and while these commands are to come.
Installs(o, ahead, left, d, reload) ==
  /\ ahead \subseteq {UpgradeCommand(o, s) : s \in Active(o)}
  /\ \A x \in left : \E s \in Active(o) :
       x \in ConfigOps(s, NginxOf(o, s), VarnishOf(o, s)) \ {VarnishOff}
  /\ d.enabled \subseteq Active(o)
  /\ \A s \in Active(o) :
       UpgradeCommand(o, s) \in ahead \/ DomainInstalls(o, s, left, d, reload)

\* Where configure_all is.
CallInstalls ==
  /\ pc[Upgrader] \in {"backup", "commands"} =>
       Installs(start.disk, ToSet(cmds[Upgrader]), ToSet(todo[Upgrader]), disk,
            varnish_reload_cmd[Upgrader])
  /\ \/ pc[Upgrader] \in {"load_nginx", "varnish", "load_varnish", "save"}
     \/ pc[Upgrader] = "idle" /\ outcome[Upgrader] = "ok"
     => Filled(start.disk, disk, varnish_reload_cmd[Upgrader])

\* What the upgrade has brought about.
Upgraded ==
  /\ disk.enabled = Active(start.disk)
  /\ \A s \in Active(start.disk) :
       /\ DomainDone(start.disk, s, disk)
       /\ VarnishInstalled => varnish[s] = VarnishOf(start.disk, s)

WholeInv ==
  /\ start.disk \in Disk
  /\ phase # "idle" => \A s \in Active(start.disk) : start.disk.main[s] # None
  /\ phase = "disable" => disk = start.disk
  /\ phase = "convert" => disk = [start.disk EXCEPT !.enabled = {}]
  /\ phase # "configure" => pc[Upgrader] = "idle"
  /\ pc[Upgrader] = "idle" => todo[Upgrader] = <<>>
  /\ phase = "configure" =>
       /\ LiveInv /\ CallInstalls
       /\ job[Upgrader] = UpgradeJob(start.disk)
       /\ \A s \in Active(start.disk) : Convertible(start.disk, s)
  /\ phase \in {"finalize", "save"} \/ report = "upgraded" => silent \/ Upgraded
  /\ phase = "save" \/ report = "upgraded" => nginx = Rendered(disk)

\* The upgrades have one command for each domain.
LEMMA OrderOfSites ==
  ASSUME NEW S \in SUBSET Site
  PROVE  LET q == SetToSeq(S)
         IN Cardinality(S) \in Nat /\ q \in [1..Cardinality(S) -> S] /\ Range(q) = S
<1>1. IsFiniteSet(S)
  BY SitesAssumption, FS_Subset
<1> DEFINE n == Cardinality(S)
           q == SetToSeq(S)
<1>2. n \in Nat /\ ExistsBijection(1..n, S)
  BY <1>1, FS_CardinalityType
<1>3. \E f \in [1..n -> S] : IsInjective(f)
  BY <1>2 DEF ExistsBijection, Bijection, Injection
<1>4. q \in [1..n -> S] /\ IsInjective(q)
  BY <1>3 DEF SetToSeq
<1> HIDE DEF q
<1>5. q \in Injection(1..n, S)
  BY <1>4 DEF Injection
<1>6. IsFiniteSet(1..n) /\ Cardinality(1..n) = n
  <2>1. n \in Int /\ 1 \in Int
    BY <1>2
  <2>2. IsFiniteSet(1..n) /\ Cardinality(1..n) = IF 1 > n THEN 0 ELSE n - 1 + 1
    BY <2>1, FS_Interval
  <2>3. QED
    BY <1>2, <2>2
<1>7. q \in Surjection(1..n, S)
  BY <1>1, <1>5, <1>6, FS_Injection
<1>8. Range(q) = S
  BY <1>4, <1>7 DEF Surjection, Range
<1>9. QED
  BY <1>2, <1>4, <1>8 DEF q

LEMMA JobOfUpgrade ==
  ASSUME NEW d
  PROVE  LET j == UpgradeJob(d)
         IN /\ j.version = API_VERSION /\ j.varnish_changed = TRUE /\ j.config_changed = TRUE
            /\ ToSet(j.commands) = {UpgradeCommand(d, s) : s \in Active(d)}
<1> DEFINE order == SetToSeq(Active(d))
           j == UpgradeJob(d)
<1>1. Active(d) \in SUBSET Site
  BY DEF Active
<1>2. /\ Cardinality(Active(d)) \in Nat
      /\ order \in [1..Cardinality(Active(d)) -> Active(d)] /\ Range(order) = Active(d)
  BY <1>1, OrderOfSites
<1>3. /\ j.version = API_VERSION /\ j.varnish_changed = TRUE /\ j.config_changed = TRUE
      /\ j.commands = [i \in DOMAIN order |-> UpgradeCommand(d, order[i])]
  BY DEF UpgradeJob
<1> HIDE DEF order, j
<1>4. ToSet(j.commands) = {UpgradeCommand(d, order[i]) : i \in DOMAIN order}
  <2> DEFINE cs == j.commands
  <2>1. /\ DOMAIN cs = DOMAIN order
        /\ \A i \in DOMAIN order : cs[i] = UpgradeCommand(d, order[i])
    BY <1>3
  <2>2. ToSet(cs) = {cs[i] : i \in DOMAIN cs}
    BY DEF ToSet
  <2> HIDE DEF cs
  <2>3. ToSet(cs) = {UpgradeCommand(d, order[i]) : i \in DOMAIN order}
    BY <2>1, <2>2
  <2>4. QED
    BY <2>3 DEF cs
<1>5. Active(d) = {order[i] : i \in DOMAIN order}
  BY <1>2 DEF Range
<1>6. ToSet(j.commands) = {UpgradeCommand(d, s) : s \in Active(d)}
  <2>1. \A i \in DOMAIN order : order[i] \in Active(d)
    BY <1>5
  <2>2. \A s \in Active(d) : \E i \in DOMAIN order : s = order[i]
    BY <1>5
  <2>3. QED
    BY <1>4, <2>1, <2>2
<1>7. QED
  BY <1>3, <1>6 DEF j

\* The values a conversion gives.
LEMMA ConvertedTypes ==
  ASSUME NEW o \in Disk, NEW s \in Active(o), Convertible(o, s)
  PROVE  s \in Site /\ NginxOf(o, s) \in NVar /\ VarnishOf(o, s) \in VVar
<1>1. s \in Site
  BY DEF Active
<1>2. NginxOf(o, s) \in NVar /\ VarnishOf(o, s) # None
  BY DEF Convertible
<1>3. o.vsite[s] \in VVar \union {None}
  BY <1>1 DEF Disk, VConf
<1>4. VarnishOf(o, s) = IF o.vsite[s] = None THEN None ELSE UpgradedV[o.vsite[s]]
  BY DEF VarnishOf
<1>5. UpgradedV[o.vsite[s]] \in VVar \union {None}
  BY <1>2, <1>3, <1>4, UpgradeAssumption
<1>6. QED
  BY <1>1, <1>2, <1>4, <1>5

\* What the file operations of such a command do.
ConfigChange(x, s, n, v, d, e) ==
  \/ /\ x \in {Do("write_templates", s), Do("fixup_certs", s)}
     /\ e.enabled = d.enabled /\ e.conf = d.conf /\ e.main = d.main /\ e.vsite = d.vsite
  \/ /\ x = Do("enable_site", s)
     /\ e.enabled = d.enabled \union {s}
     /\ e.conf = d.conf /\ e.main = d.main /\ e.vsite = d.vsite
  \/ /\ x = Put("write_conf", s, n)
     /\ e.conf = [d.conf EXCEPT ![s] = n]
     /\ e.enabled = d.enabled /\ e.main = d.main /\ e.vsite = d.vsite
  \/ /\ x = Put("save_vars", s, n)
     /\ e.main = [d.main EXCEPT ![s] = n]
     /\ e.enabled = d.enabled /\ e.conf = d.conf /\ e.vsite = d.vsite
  \/ /\ x = Put("write_vsite", s, v)
     /\ e.vsite = [d.vsite EXCEPT ![s] = v]
     /\ e.enabled = d.enabled /\ e.conf = d.conf /\ e.main = d.main

LEMMA ConfigEffect ==
  ASSUME NEW d \in Disk, NEW s \in Site, NEW n, NEW v,
         NEW x \in ConfigOps(s, n, v), x.op \in FileOps
  PROVE  ConfigChange(x, s, n, v, d, Effect(x, d))
<1> DEFINE e == Effect(x, d)
<1>1. CASE x = Do("write_templates", s)
  <2>1. e = [d EXCEPT !.templates = @ \union {s}]
    BY <1>1 DEF Effect, Do
  <2>2. QED
    BY <1>1, <2>1 DEF Disk, ConfigChange
<1>2. CASE x = Do("fixup_certs", s)
  <2>1. e = [d EXCEPT !.certs = @ \union {s}]
    BY <1>2 DEF Effect, Do
  <2>2. QED
    BY <1>2, <2>1 DEF Disk, ConfigChange
<1>3. CASE x = Do("enable_site", s)
  <2>1. e = [d EXCEPT !.enabled = @ \union {s}]
    BY <1>3 DEF Effect, Do
  <2>2. QED
    BY <1>3, <2>1 DEF Disk, ConfigChange
<1>4. CASE x = Put("write_conf", s, n)
  <2>1. e = [d EXCEPT !.conf[s] = n]
    BY <1>4 DEF Effect, Put
  <2>2. QED
    BY <1>4, <2>1 DEF Disk, ConfigChange
<1>5. CASE x = Put("save_vars", s, n)
  <2>1. e = [d EXCEPT !.main[s] = n]
    BY <1>5 DEF Effect, Put
  <2>2. QED
    BY <1>5, <2>1 DEF Disk, ConfigChange
<1>6. CASE x = Put("write_vsite", s, v)
  <2>1. e = [d EXCEPT !.vsite[s] = v]
    BY <1>6 DEF Effect, Put
  <2>2. QED
    BY <1>6, <2>1 DEF Disk, ConfigChange
<1>7. x \notin {WebOn, WebOff, VarnishOn, VarnishOff}
  BY OpsDiffer DEF FileOps, GlobalOps, SiteOps, NginxOps, VarnishOps
<1>8. QED
  BY <1>1, <1>2, <1>3, <1>4, <1>5, <1>6, <1>7 DEF ConfigOps, ConfigChange

\* A step that is done is no longer left: its effect is in the files, or the
\* reload of Varnish is scheduled.
LEMMA OpInstalls ==
  ASSUME NEW o \in Disk, \A s \in Active(o) : Convertible(o, s),
         NEW d \in Disk, NEW ahead, NEW q \in Seq(Step), q # <<>>, NEW reload,
         Installs(o, ahead, ToSet(q), d, reload), Head(q).op \in FileOps
  PROVE  Installs(o, ahead, ToSet(Tail(q)), Effect(Head(q), d), reload)
<1> DEFINE x == Head(q)
           e == Effect(x, d)
           left == ToSet(q)
           rest == ToSet(Tail(q))
<1>1. left = {x} \union rest
  BY SetOfTail
<1>2. PICK t \in Active(o) : x \in ConfigOps(t, NginxOf(o, t), VarnishOf(o, t))
  BY <1>1 DEF Installs
<1> HIDE DEF x, left, rest
<1>3. t \in Site /\ x.op \in FileOps
  BY <1>2, ConvertedTypes DEF x
<1>4. ConfigChange(x, t, NginxOf(o, t), VarnishOf(o, t), d, e)
  BY <1>2, <1>3, ConfigEffect
<1> HIDE DEF e
<1>5. Installs(o, ahead, left, d, reload)
  BY DEF left
<1>6. /\ DOMAIN d.conf = Site /\ DOMAIN d.main = Site /\ DOMAIN d.vsite = Site
      /\ \A s \in Active(o) : s \in Site
  BY DEF Disk, NConf, VConf, Active
<1>7. e.enabled \subseteq Active(o)
  BY <1>4, <1>5 DEF Installs, ConfigChange
<1>8. ASSUME NEW s \in Active(o), DomainInstalls(o, s, left, d, reload)
      PROVE  DomainInstalls(o, s, rest, e, reload)
  <2>1. s \in d.enabled => s \in e.enabled
    BY <1>4 DEF ConfigChange
  <2>2. d.conf[s] = NginxOf(o, s) => e.conf[s] = NginxOf(o, s)
    BY <1>3, <1>4, <1>6 DEF ConfigChange
  <2>3. d.main[s] = NginxOf(o, s) => e.main[s] = NginxOf(o, s)
    BY <1>3, <1>4, <1>6 DEF ConfigChange
  <2>4. d.vsite[s] = VarnishOf(o, s) => e.vsite[s] = VarnishOf(o, s)
    BY <1>3, <1>4, <1>6 DEF ConfigChange
  <2>5. x = Do("enable_site", s) => s \in e.enabled
    <3>1. \A a, b : Do("enable_site", a) = Do("enable_site", b) => a = b
      BY DEF Do
    <3>2. /\ x = Do("enable_site", s) => x.op = "enable_site"
          /\ Do("write_templates", t).op = "write_templates"
          /\ Do("fixup_certs", t).op = "fixup_certs"
          /\ \A op, n : Put(op, t, n).op = op
      BY OpsDiffer
    <3>3. QED
      BY <1>4, <3>1, <3>2 DEF ConfigChange
  <2>6. x = Put("write_conf", s, NginxOf(o, s)) => e.conf[s] = NginxOf(o, s)
    <3>1. \A a, b, n, m : Put("write_conf", a, n) = Put("write_conf", b, m) => a = b
      BY DEF Put
    <3>2. /\ x = Put("write_conf", s, NginxOf(o, s)) => x.op = "write_conf"
          /\ \A op : Do(op, t).op = op
          /\ \A op, n : Put(op, t, n).op = op
      BY OpsDiffer
    <3>3. QED
      BY <1>3, <1>4, <1>6, <3>1, <3>2 DEF ConfigChange
  <2>7. x = Put("save_vars", s, NginxOf(o, s)) => e.main[s] = NginxOf(o, s)
    <3>1. \A a, b, n, m : Put("save_vars", a, n) = Put("save_vars", b, m) => a = b
      BY DEF Put
    <3>2. /\ x = Put("save_vars", s, NginxOf(o, s)) => x.op = "save_vars"
          /\ \A op : Do(op, t).op = op
          /\ \A op, n : Put(op, t, n).op = op
      BY OpsDiffer
    <3>3. QED
      BY <1>3, <1>4, <1>6, <3>1, <3>2 DEF ConfigChange
  <2>8. x = Put("write_vsite", s, VarnishOf(o, s)) => e.vsite[s] = VarnishOf(o, s)
    <3>1. \A a, b, n, m : Put("write_vsite", a, n) = Put("write_vsite", b, m) => a = b
      BY DEF Put
    <3>2. /\ x = Put("write_vsite", s, VarnishOf(o, s)) => x.op = "write_vsite"
          /\ \A op : Do(op, t).op = op
          /\ \A op, n : Put(op, t, n).op = op
      BY OpsDiffer
    <3>3. QED
      BY <1>3, <1>4, <1>6, <3>1, <3>2 DEF ConfigChange
  <2>9. x # VarnishOn
    BY <1>3, OpsDiffer DEF FileOps, GlobalOps, SiteOps, NginxOps, VarnishOps
  <2>10. QED
    BY <1>1, <1>8, <2>1, <2>2, <2>3, <2>4, <2>5, <2>6, <2>7, <2>8, <2>9
       DEF DomainInstalls
<1>9. Installs(o, ahead, rest, e, reload)
  BY <1>1, <1>5, <1>7, <1>8 DEF Installs
<1>10. QED
  BY <1>9 DEF x, e, rest

LEMMA FlagInstalls ==
  ASSUME NEW o, NEW d, NEW ahead, NEW q \in Seq(Step), q # <<>>, NEW reload, NEW next,
         Installs(o, ahead, ToSet(q), d, reload), Head(q).op \in FlagOps,
         next = IF Head(q).op = "varnish_on" THEN "reload"
                ELSE IF Head(q).op = "varnish_off" THEN None ELSE reload
  PROVE  Installs(o, ahead, ToSet(Tail(q)), d, next)
<1> DEFINE x == Head(q)
           left == ToSet(q)
           rest == ToSet(Tail(q))
<1>1. left = {x} \union rest
  BY SetOfTail
<1>2. PICK t \in Active(o) : x \in ConfigOps(t, NginxOf(o, t), VarnishOf(o, t)) \ {VarnishOff}
  BY <1>1 DEF Installs
<1>3. x.op \in FlagOps /\ next = IF x.op = "varnish_on" THEN "reload"
                ELSE IF x.op = "varnish_off" THEN None ELSE reload
  OBVIOUS
<1> HIDE DEF x, left, rest
<1>4. x \in {WebOn, WebOff, VarnishOn}
  BY <1>2, <1>3, OpsDiffer DEF ConfigOps, FlagOps
<1>5. next = IF x = VarnishOn THEN "reload" ELSE reload
  BY <1>3, <1>4, OpsDiffer
<1>6. x.op \notin {"enable_site", "write_conf", "save_vars", "write_vsite"}
  BY <1>3 DEF FlagOps
<1>7. \A s : /\ x # Do("enable_site", s) /\ x # Put("write_conf", s, NginxOf(o, s))
             /\ x # Put("save_vars", s, NginxOf(o, s)) /\ x # Put("write_vsite", s, VarnishOf(o, s))
  BY <1>6, OpsDiffer
<1>8. ASSUME NEW s \in Active(o), DomainInstalls(o, s, left, d, reload)
      PROVE  DomainInstalls(o, s, rest, d, next)
  BY <1>1, <1>5, <1>7, <1>8, ValuesAssumption DEF DomainInstalls
<1>9. Installs(o, ahead, left, d, reload)
  BY DEF left
<1>10. Installs(o, ahead, rest, d, next)
  BY <1>1, <1>8, <1>9 DEF Installs
<1>11. QED
  BY <1>10 DEF rest

\* The next command is taken.
LEMMA CommandInstalls ==
  ASSUME NEW o \in Disk, \A s \in Active(o) : Convertible(o, s),
         NEW d, NEW q \in Seq(Command), q # <<>>, NEW reload,
         Installs(o, ToSet(q), {}, d, reload)
  PROVE  Installs(o, ToSet(Tail(q)), ToSet(CommandSteps(Head(q), TRUE, TRUE)), d, reload)
<1> DEFINE c == Head(q)
           ahead == ToSet(Tail(q))
           S == ToSet(CommandSteps(c, TRUE, TRUE))
<1>1. ToSet(q) = {c} \union ahead
  BY SetOfTail
<1>2. PICK t \in Active(o) : c = UpgradeCommand(o, t)
  BY <1>1 DEF Installs
<1> HIDE DEF c, ahead
<1>3. t \in Site /\ NginxOf(o, t) \in NVar /\ VarnishOf(o, t) \in VVar
  BY <1>2, ConvertedTypes
<1>4. /\ c.type \in {"config", "force"} /\ c.site = t
      /\ c.nvars = NginxOf(o, t) /\ c.vvars = VarnishOf(o, t)
  BY <1>2 DEF UpgradeCommand
<1>5. /\ S \subseteq ConfigOps(t, NginxOf(o, t), VarnishOf(o, t))
      /\ {Put("write_conf", t, NginxOf(o, t)), Do("enable_site", t),
          Put("save_vars", t, NginxOf(o, t)), Put("write_vsite", t, VarnishOf(o, t)), WebOn, VarnishOn} \subseteq S
      /\ VarnishOff \notin S
  <2>1. PICK yes \in BOOLEAN : yes = TRUE
    OBVIOUS
  <2> DEFINE n == NginxOf(o, t)
             v == VarnishOf(o, t)
  <2>2. n \in NVar /\ v \in VVar /\ c.nvars = n /\ c.vvars = v
    BY <1>3, <1>4
  <2> HIDE DEF n, v
  <2>3. LET Q == ToSet(CommandSteps(c, yes, yes))
        IN /\ Q \subseteq ConfigOps(t, n, v)
           /\ {Put("write_conf", t, n), Do("enable_site", t), Put("save_vars", t, n),
               Put("write_vsite", t, v), WebOn, VarnishOn} \subseteq Q
           /\ yes => VarnishOff \notin Q
    BY <1>3, <1>4, <2>2, ConfigSet
  <2>4. QED
    BY <2>1, <2>3 DEF n, v
<1> HIDE DEF S
<1>6. ASSUME NEW s \in Active(o)
      PROVE  UpgradeCommand(o, s) \in ahead \/ DomainInstalls(o, s, S, d, reload)
  <2>1. CASE s = t
    BY <1>5, <2>1 DEF DomainInstalls
  <2>2. CASE s # t
    <3>1. UpgradeCommand(o, s) # c
      BY <1>2, <2>2 DEF UpgradeCommand
    <3>2. CASE UpgradeCommand(o, s) \in ToSet(q)
      BY <1>1, <3>1, <3>2
    <3>3. CASE DomainInstalls(o, s, {}, d, reload)
      BY <3>3 DEF DomainInstalls
    <3>4. QED
      BY <3>2, <3>3 DEF Installs
  <2>3. QED
    BY <2>1, <2>2
<1>7. Installs(o, ahead, S, d, reload)
  BY <1>1, <1>2, <1>5, <1>6 DEF Installs
<1>8. QED
  BY <1>7 DEF c, ahead, S

LEMMA AllInstalled ==
  ASSUME NEW o, NEW d, NEW reload, Installs(o, {}, {}, d, reload)
  PROVE  Filled(o, d, reload)
BY DEF Installs, Filled, DomainInstalls, DomainDone

\* The call depends on the variables of the domains only.
LEMMA SameJob ==
  ASSUME NEW d, NEW e, Active(e) = Active(d), e.main = d.main, e.vsite = d.vsite
  PROVE  /\ UpgradeJob(e) = UpgradeJob(d)
         /\ \A s : NginxOf(e, s) = NginxOf(d, s) /\ (Convertible(e, s) <=> Convertible(d, s))
<1>1. \A s : NginxOf(e, s) = NginxOf(d, s) /\ VarnishOf(e, s) = VarnishOf(d, s)
  BY DEF NginxOf, VarnishOf
<1>2. \A s : UpgradeCommand(e, s) = UpgradeCommand(d, s)
  BY <1>1, Zenon DEF UpgradeCommand
<1>3. UpgradeJob(e) = UpgradeJob(d)
  BY <1>2, Zenon DEF UpgradeJob
<1>4. \A s : Convertible(e, s) <=> Convertible(d, s)
  BY <1>1 DEF Convertible
<1>5. QED
  BY <1>1, <1>3, <1>4

LEMMA JobIsCall ==
  ASSUME NEW d \in Disk, \A s \in Active(d) : d.main[s] # None /\ Convertible(d, s)
  PROVE  UpgradeJob(d) \in Jobs
<1> DEFINE i == Installed(d.main, d.vsite)
<1>1. d.main \in [Site -> NVar \union {None}] /\ d.vsite \in [Site -> VVar \union {None}]
  BY DEF Disk, NConf, VConf
<1>2. /\ i.main = d.main /\ i.vsite = d.vsite
      /\ i.templates = {s \in Site : d.main[s] # None}
      /\ i.certs = {s \in Site : d.main[s] # None}
  BY DEF Installed
<1> HIDE DEF i
<1>3. Active(i) = Active(d)
  BY <1>2 DEF Active
<1>4. \A s \in Active(i) : Convertible(i, s)
  BY <1>2, <1>3, SameJob
<1>5. UpgradeJob(i) \in Jobs
  BY <1>1, <1>4, SitesAssumption DEF i
<1>6. QED
  BY <1>2, <1>3, <1>5, SameJob

LEMMA CommandsInstalls ==
  ASSUME TypeInv, start.disk \in Disk, CallInstalls, start' = start,
         \A s \in Active(start.disk) : Convertible(start.disk, s),
         job[Upgrader] = UpgradeJob(start.disk), Commands(Upgrader)
  PROVE  CallInstalls'
<1> DEFINE u == Upgrader
           o == start.disk
<1>1. u \in Process /\ o \in Disk /\ o' = o /\ \A s \in Active(o) : Convertible(o, s)
  BY UpgradeAssumption
<1>2. /\ disk \in Disk
      /\ pc \in [Process -> {"idle", "backup", "commands", "load_nginx", "varnish",
                             "load_varnish", "save", "rollback"}]
      /\ DOMAIN outcome = Process /\ DOMAIN varnish_reload_cmd = Process
      /\ cmds \in [Process -> Seq(Command)] /\ todo \in [Process -> Seq(Step)]
  BY DEF TypeInv, TypeOK
<1>3. /\ pc[u] \in {"backup", "commands"} =>
           Installs(o, ToSet(cmds[u]), ToSet(todo[u]), disk, varnish_reload_cmd[u])
      /\ pc[u] \in {"load_nginx", "varnish", "load_varnish", "save"}
           \/ (pc[u] = "idle" /\ outcome[u] = "ok")
         => Filled(o, disk, varnish_reload_cmd[u])
  BY DEF CallInstalls
<1>4. SUFFICES
        /\ pc'[u] \in {"backup", "commands"} =>
             Installs(o, ToSet(cmds'[u]), ToSet(todo'[u]), disk', varnish_reload_cmd'[u])
        /\ pc'[u] \in {"load_nginx", "varnish", "load_varnish", "save"}
             \/ (pc'[u] = "idle" /\ outcome'[u] = "ok")
           => Filled(o, disk', varnish_reload_cmd'[u])
  BY <1>1 DEF CallInstalls
<1> HIDE DEF u, o
<1>5. CASE Backup(u)
  <2>1. /\ pc[u] = "backup" /\ pc' = [pc EXCEPT ![u] = "commands"]
        /\ UNCHANGED <<cmds, todo, disk, varnish_reload_cmd>>
    BY <1>5 DEF Backup, Goto
  <2>2. QED
    BY <1>1, <1>2, <1>3, <2>1
<1>6. CASE BackupFails(u)
  <2>1. pc'[u] = "idle" /\ outcome'[u] = "rolled_back"
    BY <1>1, <1>2, <1>6 DEF BackupFails, End
  <2>2. QED
    BY <2>1
<1>7. CASE NextCommand(u)
  <2>1. /\ pc[u] = "commands" /\ pc' = pc /\ todo[u] = <<>> /\ cmds[u] # <<>>
        /\ todo'[u] = CommandSteps(Head(cmds[u]), job[u].varnish_changed,
                                   job[u].config_changed)
        /\ cmds'[u] = Tail(cmds[u]) /\ disk' = disk
        /\ varnish_reload_cmd' = varnish_reload_cmd
    BY <1>1, <1>2, <1>7 DEF NextCommand, transaction
  <2>2. job[u].varnish_changed = TRUE /\ job[u].config_changed = TRUE
    BY JobOfUpgrade DEF u
  <2>3. Installs(o, ToSet(cmds[u]), {}, disk, varnish_reload_cmd[u])
    BY <1>3, <2>1, SetsOfShort
  <2> DEFINE q == cmds[u]
             reload == varnish_reload_cmd[u]
  <2>4. q \in Seq(Command) /\ q # <<>> /\ Installs(o, ToSet(q), {}, disk, reload)
    BY <1>1, <1>2, <2>1, <2>3
  <2> HIDE DEF q, reload
  <2>5. Installs(o, ToSet(Tail(q)), ToSet(CommandSteps(Head(q), TRUE, TRUE)), disk, reload)
    BY <1>1, <1>2, <2>4, CommandInstalls
  <2>6. QED
    BY <2>1, <2>2, <2>5 DEF q, reload
<1>8. CASE RunStep(u)
  <2>1. /\ pc[u] = "commands" /\ pc' = pc /\ todo[u] # <<>>
        /\ Head(todo[u]).op \in FileOps /\ disk' = Effect(Head(todo[u]), disk)
        /\ todo'[u] = Tail(todo[u]) /\ cmds' = cmds
        /\ varnish_reload_cmd' = varnish_reload_cmd
    BY <1>1, <1>2, <1>8 DEF RunStep, AtStep, transaction
  <2> DEFINE q == todo[u]
             ahead == ToSet(cmds[u])
             reload == varnish_reload_cmd[u]
  <2>2. /\ q \in Seq(Step) /\ q # <<>> /\ Head(q).op \in FileOps
        /\ Installs(o, ahead, ToSet(q), disk, reload)
    BY <1>1, <1>2, <1>3, <2>1
  <2> HIDE DEF q, ahead, reload
  <2>3. Installs(o, ahead, ToSet(Tail(q)), Effect(Head(q), disk), reload)
    BY <1>1, <1>2, <2>2, OpInstalls
  <2>4. QED
    BY <2>1, <2>3 DEF q, ahead, reload
<1>9. CASE RunStepFails(u)
  <2>1. pc'[u] = "rollback"
    BY <1>1, <1>2, <1>9 DEF RunStepFails, Goto
  <2>2. QED
    BY <2>1
<1>10. CASE Schedule(u)
  <2> DEFINE q == todo[u]
             ahead == ToSet(cmds[u])
             reload == varnish_reload_cmd[u]
             next == varnish_reload_cmd'[u]
  <2>1. /\ pc[u] = "commands" /\ pc' = pc /\ q # <<>>
        /\ Head(q).op \in FlagOps /\ disk' = disk
        /\ todo'[u] = Tail(q) /\ cmds' = cmds
        /\ next = IF Head(q).op = "varnish_on" THEN "reload"
                  ELSE IF Head(q).op = "varnish_off" THEN None ELSE reload
    BY <1>1, <1>2, <1>10 DEF Schedule, AtStep
  <2>2. q \in Seq(Step) /\ Installs(o, ahead, ToSet(q), disk, reload)
    BY <1>1, <1>2, <1>3, <2>1
  <2>3. ahead = ToSet(cmds'[u])
    BY <2>1
  <2> HIDE DEF q, ahead, reload, next
  <2>4. Installs(o, ahead, ToSet(Tail(q)), disk, next)
    BY <2>1, <2>2, FlagInstalls
  <2>5. QED
    BY <2>1, <2>3, <2>4 DEF next
<1>11. CASE RaiseOutside(u)
  <2>1. pc'[u] = "idle" /\ outcome'[u] = "raised"
    BY <1>1, <1>2, <1>11 DEF RaiseOutside, AtStep, End
  <2>2. QED
    BY <2>1
<1>12. QED
  BY <1>5, <1>6, <1>7, <1>8, <1>9, <1>10, <1>11 DEF Commands, u

LEMMA FinalizeInstalls ==
  ASSUME TypeInv, start.disk \in Disk, CallInstalls, start' = start, Finalize(Upgrader)
  PROVE  CallInstalls'
<1> DEFINE u == Upgrader
           o == start.disk
           reload == varnish_reload_cmd[u]
<1>1. u \in Process /\ o' = o
  BY UpgradeAssumption
<1>2. /\ disk \in Disk
      /\ pc \in [Process -> {"idle", "backup", "commands", "load_nginx", "varnish",
                             "load_varnish", "save", "rollback"}]
      /\ DOMAIN outcome = Process
  BY DEF TypeInv, TypeOK
<1>3. /\ pc[u] \in {"backup", "commands"} =>
           Installs(o, ToSet(cmds[u]), ToSet(todo[u]), disk, reload)
      /\ pc[u] \in {"load_nginx", "varnish", "load_varnish", "save"} => Filled(o, disk, reload)
  BY DEF CallInstalls
<1>4. SUFFICES
        /\ pc'[u] \notin {"backup", "commands"}
        /\ pc'[u] \in {"load_nginx", "varnish", "load_varnish", "save"}
             \/ (pc'[u] = "idle" /\ outcome'[u] = "ok")
           => Filled(o, disk', varnish_reload_cmd'[u])
  BY <1>1 DEF CallInstalls
<1> HIDE DEF u, o, reload
<1>5. ASSUME Finished(u) PROVE Filled(o, disk, reload)
  <2>1. pc[u] = "commands" /\ todo[u] = <<>> /\ cmds[u] = <<>>
    BY <1>5 DEF Finished
  <2>2. ToSet(cmds[u]) = {} /\ ToSet(todo[u]) = {}
    BY <2>1, SetsOfShort
  <2>3. Installs(o, {}, {}, disk, reload)
    BY <1>3, <2>1, <2>2
  <2>4. QED
    BY <2>3, AllInstalled
<1> USE DEF reload
<1>6. CASE SkipNginx(u) \/ CheckNginx(u)
  <2>1. /\ Finished(u) /\ pc'[u] \in {"varnish", "load_nginx", "rollback"}
        /\ disk' = disk /\ varnish_reload_cmd' = varnish_reload_cmd
    BY <1>1, <1>2, <1>6 DEF SkipNginx, CheckNginx, Goto, transaction
  <2>2. QED
    BY <1>5, <2>1
<1>7. CASE LoadNginx(u) \/ SkipVarnish(u) \/ LoadVarnish(u)
  <2>1. /\ pc[u] \in {"load_nginx", "varnish", "load_varnish"}
        /\ pc'[u] \in {"varnish", "save"}
        /\ disk' = disk /\ varnish_reload_cmd' = varnish_reload_cmd
    BY <1>1, <1>2, <1>7 DEF LoadNginx, SkipVarnish, LoadVarnish, Goto, transaction
  <2>2. QED
    BY <1>3, <2>1
<1>8. CASE LoadNginxFails(u) \/ WriteVclFails(u) \/ LoadVarnishFails(u)
  <2>1. pc'[u] = "rollback"
    BY <1>1, <1>2, <1>8 DEF LoadNginxFails, WriteVclFails, LoadVarnishFails, Goto
  <2>2. QED
    BY <2>1
<1>9. CASE WriteVcl(u)
  <2>1. /\ pc[u] = "varnish" /\ pc'[u] = "load_varnish"
        /\ disk' = [disk EXCEPT !.vcl = RenderedVcl(disk)]
        /\ varnish_reload_cmd' = varnish_reload_cmd
    BY <1>1, <1>2, <1>9 DEF WriteVcl, Goto, transaction
  <2>2. /\ disk'.enabled = disk.enabled /\ disk'.conf = disk.conf
        /\ disk'.main = disk.main /\ disk'.vsite = disk.vsite
    BY <1>2, <2>1 DEF Disk
  <2>3. Filled(o, disk', reload)
    BY <1>3, <2>1, <2>2 DEF Filled, DomainDone
  <2>4. QED
    BY <2>1, <2>3
<1>10. CASE SaveBackup(u)
  <2>1. /\ pc[u] = "save" /\ pc'[u] = "idle"
        /\ disk' = disk /\ varnish_reload_cmd' = varnish_reload_cmd
    BY <1>1, <1>2, <1>10 DEF SaveBackup, End
  <2>2. QED
    BY <1>3, <2>1
<1>11. CASE SaveBackupFails(u)
  <2>1. pc'[u] = "idle" /\ outcome'[u] = "unsaved"
    BY <1>1, <1>2, <1>11 DEF SaveBackupFails, End
  <2>2. QED
    BY <2>1
<1>12. QED
  BY <1>6, <1>7, <1>8, <1>9, <1>10, <1>11 DEF Finalize, u

LEMMA RollbackInstalls ==
  ASSUME TypeInv, Rollback(Upgrader)
  PROVE  CallInstalls'
<1>1. Upgrader \in Process
  BY UpgradeAssumption
<1>2. /\ DOMAIN pc = Process /\ DOMAIN outcome = Process
  BY DEF TypeInv, TypeOK
<1>3. \/ pc'[Upgrader] = "rollback"
      \/ pc'[Upgrader] = "idle" /\ outcome'[Upgrader] \in {"rolled_back", "rollback_failed"}
  <2>1. CASE Restore(Upgrader) \/ ReloadAgain(Upgrader)
    BY <2>1 DEF Restore, ReloadAgain, RollingBack
  <2>2. CASE RestoreFails(Upgrader) \/ ReloadAgainFails(Upgrader) \/ RolledBack(Upgrader)
    BY <1>1, <1>2, <2>2 DEF RestoreFails, ReloadAgainFails, RolledBack, End
  <2>3. QED
    BY <2>1, <2>2 DEF Rollback
<1>4. QED
  BY <1>3 DEF CallInstalls

\* The upgrades run in one process.
LEMMA UpgraderAlone == Alone /\ Upgrader \in Process
BY UpgradeAssumption DEF Alone

\* When the call returns, both servers have the variables of every domain.
LEMMA ReturnUpgrades ==
  ASSUME TypeInv, LiveInv, CallInstalls, pc[Upgrader] = "idle", outcome[Upgrader] = "ok",
         start.disk \in Disk, \A s \in Active(start.disk) : Convertible(start.disk, s)
  PROVE  Upgraded
<1> DEFINE o == start.disk
           reload == varnish_reload_cmd[Upgrader]
<1>1. Filled(o, disk, reload)
  BY DEF CallInstalls
<1>2. reload # None /\ VarnishInstalled => varnish = RenderedVcl(disk)
  BY UpgraderAlone DEF LiveInv, VarnishLive
<1>3. o \in Disk /\ \A s \in Active(o) : Convertible(o, s)
  OBVIOUS
<1> HIDE DEF o, reload
<1>4. ASSUME NEW s \in Active(o)
      PROVE  DomainDone(o, s, disk) /\ (VarnishInstalled => varnish[s] = VarnishOf(o, s))
  <2>1. DomainDone(o, s, disk) /\ reload # None
    BY <1>1 DEF Filled
  <2>2. s \in Site /\ NginxOf(o, s) \in NVar
    BY <1>3, ConvertedTypes
  <2>3. disk.main[s] # None
    BY <2>1, <2>2, ValuesAssumption DEF DomainDone
  <2>4. RenderedVcl(disk)[s] = disk.vsite[s]
    BY <2>2, <2>3 DEF RenderedVcl, Active
  <2>5. QED
    BY <1>2, <2>1, <2>4 DEF DomainDone
<1>5. QED
  BY <1>1, <1>4 DEF Upgraded, Filled, o

\* A step of upgrade_all_domains itself keeps the types ...
LEMMA OuterType ==
  ASSUME TypeInv, InnerStays, tar' = tar, varnish' = varnish,
         disk' \in Disk, nginx' \in NConf, faults' \in 0 .. MaxFaults
  PROVE  TypeInv'
BY DEF TypeInv, TypeOK, StackInv, InnerStays, transaction, history

LEMMA OuterTypes ==
  ASSUME TypeInv
  PROVE  /\ disk \in Disk /\ nginx \in NConf /\ EmptyDisk \in Disk
         /\ faults \in 0 .. MaxFaults /\ (Fault => faults' \in 0 .. MaxFaults)
         /\ Rendered(disk) \in NConf
<1>1. disk \in Disk /\ nginx \in NConf /\ faults \in 0 .. MaxFaults
  BY DEF TypeInv, TypeOK
<1>2. EmptyDisk \in Disk
  BY DEF EmptyDisk, Disk, NoConf, NConf, VConf
<1>3. Fault => faults' \in 0 .. MaxFaults
  BY <1>1, ValuesAssumption DEF Fault
<1>4. Rendered(disk) \in NConf
  BY <1>1 DEF Rendered, NConf, Disk
<1>5. QED
  BY <1>1, <1>2, <1>3, <1>4

\* ... and, around the call, the rest.
LEMMA OuterStep ==
  ASSUME WholeInv, InnerStays, start' = start, phase # "configure",
         phase' \notin {"disable", "convert", "configure"},
         phase' # "idle" => phase # "idle",
         phase' \in {"finalize", "save"} \/ report' = "upgraded" => silent' \/ Upgraded',
         phase' = "save" \/ report' = "upgraded" => nginx' = Rendered(disk')
  PROVE  WholeInv'
BY DEF WholeInv, InnerStays

\* Before the call.
LEMMA DisabledDisk ==
  ASSUME NEW d \in Disk
  PROVE  LET e == [d EXCEPT !.enabled = {}]
         IN /\ e \in Disk /\ Active(e) = Active(d) /\ e.enabled = {}
            /\ e.main = d.main /\ e.vsite = d.vsite
            /\ Effect(Do("disable_all_sites", None), d) = e
<1> DEFINE e == [d EXCEPT !.enabled = {}]
<1>1. Effect(Do("disable_all_sites", None), d) = e
  BY DEF Effect, Do
<1>2. /\ e \in Disk /\ e.enabled = {} /\ e.main = d.main /\ e.vsite = d.vsite
      /\ e.templates = d.templates /\ e.certs = d.certs
  BY DEF Disk
<1> HIDE DEF e
<1>3. Active(e) = Active(d)
  BY <1>2 DEF Active
<1>4. QED
  BY <1>1, <1>2, <1>3 DEF e

LEMMA BeforeWhole ==
  ASSUME TypeInv, UInv, WholeInv,
         Begins \/ OuterBackup \/ OuterBackupFails \/ DisableSites \/ DisableSitesFails
  PROVE  TypeInv' /\ WholeInv'
<1>1. CASE Begins
  <2>1. /\ phase = "idle" /\ InnerStays /\ start'.disk = disk
        /\ UNCHANGED <<disk, tar, nginx, varnish, faults>>
    BY <1>1 DEF Begins
  <2>2. \/ /\ phase' = "backup" /\ report' = "none"
           /\ \A s \in Active(disk) : disk.main[s] # None
        \/ phase' = "idle" /\ report' = "failed"
    BY <1>1 DEF Begins, Report
  <2>3. TypeInv'
    BY <2>1, OuterTypes, OuterType
  <2>4. pc'[Upgrader] = "idle" /\ todo'[Upgrader] = <<>>
    BY <2>1 DEF WholeInv, InnerStays
  <2>5. start'.disk \in Disk
    BY <2>1, OuterTypes
  <2>6. WholeInv'
    BY <2>1, <2>2, <2>4, <2>5 DEF WholeInv
  <2>7. QED
    BY <2>3, <2>6
<1>2. CASE OuterBackup
  <2>1. /\ phase = "backup" /\ phase' = "disable" /\ InnerStays
        /\ UNCHANGED <<disk, tar, nginx, varnish, faults, report, start>>
    BY <1>2 DEF OuterBackup, Move
  <2>2. disk = start.disk /\ report = "none"
    BY <2>1 DEF UInv
  <2>3. TypeInv'
    BY <2>1, OuterTypes, OuterType
  <2>4. WholeInv'
    BY <2>1, <2>2 DEF WholeInv, InnerStays
  <2>5. QED
    BY <2>3, <2>4
<1>3. CASE OuterBackupFails
  <2>1. /\ phase = "backup" /\ phase' = "idle" /\ report' = "failed" /\ InnerStays
        /\ Fault /\ UNCHANGED <<disk, tar, nginx, varnish, start>>
    BY <1>3 DEF OuterBackupFails, Report
  <2>2. QED
    BY <2>1, OuterTypes, OuterType, OuterStep
<1>4. CASE DisableSites
  <2>1. /\ phase = "disable" /\ phase' = "convert" /\ InnerStays
        /\ disk' = Effect(Do("disable_all_sites", None), disk)
        /\ UNCHANGED <<tar, nginx, varnish, faults, report, start>>
    BY <1>4 DEF DisableSites, Move
  <2>2. disk = start.disk /\ report = "none"
    BY <2>1 DEF UInv, WholeInv
  <2>3. disk' = [start.disk EXCEPT !.enabled = {}] /\ disk' \in Disk
    BY <2>1, <2>2, OuterTypes, DisabledDisk
  <2>4. TypeInv'
    BY <2>1, <2>3, OuterTypes, OuterType
  <2>5. WholeInv'
    BY <2>1, <2>2, <2>3 DEF WholeInv, InnerStays
  <2>6. QED
    BY <2>4, <2>5
<1>5. CASE DisableSitesFails
  <2>1. /\ phase = "disable" /\ phase' = "restore" /\ InnerStays /\ Fault
        /\ UNCHANGED <<disk, tar, nginx, varnish, report, start>>
    BY <1>5 DEF DisableSitesFails, Move
  <2>2. report = "none"
    BY <2>1 DEF UInv
  <2>3. QED
    BY <2>1, <2>2, OuterTypes, OuterType, OuterStep
<1>6. QED
  BY <1>1, <1>2, <1>3, <1>4, <1>5

\* The call begins with a command for each domain ...
LEMMA ConfigureAllWhole ==
  ASSUME TypeInv, UInv, WholeInv, ConfigureAll
  PROVE  TypeInv' /\ WholeInv'
<1> DEFINE u == Upgrader
           o == start.disk
           j == UpgradeJob(o)
<1>1. /\ phase = "convert" /\ phase' = "configure" /\ start' = start /\ report' = report
      /\ \A s \in Active(disk) : Convertible(disk, s)
      /\ Begin(u, UpgradeJob(disk))
  BY DEF ConfigureAll, Move
<1>2. /\ o \in Disk /\ disk = [o EXCEPT !.enabled = {}] /\ report = "none"
      /\ \A s \in Active(o) : o.main[s] # None
      /\ pc[u] = "idle" /\ todo[u] = <<>>
  BY <1>1 DEF WholeInv, UInv
<1>3. /\ Active(disk) = Active(o) /\ disk.enabled = {}
      /\ disk.main = o.main /\ disk.vsite = o.vsite
  BY <1>2, DisabledDisk
<1>4. UpgradeJob(disk) = j /\ \A s \in Active(o) : Convertible(o, s)
  BY <1>1, <1>3, SameJob
<1>5. j \in Jobs
  BY <1>2, <1>4, JobIsCall
<1>6. u \in Process /\ Alone
  BY UpgraderAlone
<1>7. /\ j.version = API_VERSION
      /\ ToSet(j.commands) = {UpgradeCommand(o, s) : s \in Active(o)}
  BY JobOfUpgrade
<1> HIDE DEF u, o, j
<1>8. TypeInv'
  BY <1>1, <1>4, <1>5, <1>6, BeginTypeInv
<1>9. /\ disk' = disk /\ todo' = todo
      /\ pc'[u] = "backup" /\ cmds'[u] = j.commands /\ outcome'[u] = "none" /\ job'[u] = j
  BY <1>1, <1>4, <1>6, <1>7 DEF Begin, TypeInv, TypeOK
<1>10. LiveInv'
  BY <1>6, <1>9 DEF LiveInv, Alone
<1>11. Installs(o, ToSet(j.commands), {}, disk, varnish_reload_cmd'[u])
  BY <1>3, <1>7 DEF Installs
<1>12. Installs(o, ToSet(cmds'[u]), ToSet(todo'[u]), disk', varnish_reload_cmd'[u])
  BY <1>2, <1>9, <1>11, SetsOfShort
<1>13. CallInstalls'
  BY <1>1, <1>9, <1>12 DEF CallInstalls, u, o
<1>14. WholeInv'
  BY <1>1, <1>2, <1>4, <1>9, <1>10, <1>13 DEF WholeInv, u, o, j
<1>15. QED
  BY <1>8, <1>14

\* ... which configure_all works off ...
LEMMA ConfiguresWhole ==
  ASSUME TypeInv, UInv, WholeInv, Configures
  PROVE  TypeInv' /\ WholeInv'
<1>1. /\ phase = "configure" /\ Run(Upgrader)
      /\ phase' = phase /\ start' = start /\ report' = report
  BY DEF Configures
<1>2. /\ LiveInv /\ CallInstalls /\ start.disk \in Disk /\ report = "none"
      /\ job[Upgrader] = UpgradeJob(start.disk)
      /\ \A s \in Active(start.disk) : start.disk.main[s] # None
      /\ \A s \in Active(start.disk) : Convertible(start.disk, s)
  BY <1>1 DEF WholeInv, UInv
<1>3. [Next]_vars
  BY <1>1, UpgraderAlone DEF Next
<1>4. TypeInv' /\ LiveInv'
  BY <1>2, <1>3, UpgraderAlone, NextTypeInv, NextLive
<1>5. CallInstalls'
  BY <1>1, <1>2, CommandsInstalls, FinalizeInstalls, RollbackInstalls DEF Run
<1>6. job' = job
  <2>1. CASE Commands(Upgrader)
    BY <2>1 DEF Commands, Backup, BackupFails, NextCommand, RunStep, RunStepFails,
                Schedule, RaiseOutside, End
  <2>2. CASE Finalize(Upgrader)
    BY <2>2 DEF Finalize, SkipNginx, CheckNginx, LoadNginx, LoadNginxFails, SkipVarnish,
                WriteVcl, WriteVclFails, LoadVarnish, LoadVarnishFails, SaveBackup,
                SaveBackupFails, End
  <2>3. CASE Rollback(Upgrader)
    BY <2>3 DEF Rollback, Restore, RestoreFails, ReloadAgain, ReloadAgainFails,
                RolledBack, End
  <2>4. QED
    BY <1>1, <2>1, <2>2, <2>3 DEF Run
<1>7. pc'[Upgrader] = "idle" => todo'[Upgrader] = <<>>
  <2>0. Upgrader \in Process /\ DOMAIN pc = Process /\ DOMAIN todo = Process
    BY UpgraderAlone DEF TypeInv, TypeOK
  <2> USE DEF Goto
  <2>1. CASE Commands(Upgrader)
    BY <2>0, <2>1 DEF Commands, Backup, BackupFails, NextCommand, RunStep, RunStepFails,
                Schedule, RaiseOutside, AtStep, End
  <2>2. CASE Finalize(Upgrader)
    BY <2>0, <2>2 DEF Finalize, SkipNginx, CheckNginx, LoadNginx, LoadNginxFails, SkipVarnish,
                WriteVcl, WriteVclFails, LoadVarnish, LoadVarnishFails, SaveBackup,
                SaveBackupFails, End
  <2>3. CASE Rollback(Upgrader)
    BY <2>0, <2>3 DEF Rollback, Restore, RestoreFails, ReloadAgain, ReloadAgainFails,
                RolledBack, RollingBack, End
  <2>4. QED
    BY <1>1, <2>1, <2>2, <2>3 DEF Run
<1>8. WholeInv'
  BY <1>1, <1>2, <1>4, <1>5, <1>6, <1>7 DEF WholeInv
<1>9. QED
  BY <1>4, <1>8

\* ... and when it returns, the files and Varnish are upgraded.
LEMMA ReturnWhole ==
  ASSUME TypeInv, UInv, WholeInv, Configured \/ ConfigureFails
  PROVE  TypeInv' /\ WholeInv'
<1>1. /\ phase = "configure" /\ pc[Upgrader] = "idle"
      /\ UNCHANGED <<vars, silent, report, start>>
      /\ \/ outcome[Upgrader] = "ok" /\ phase' = "finalize"
         \/ phase' \in {"finalize", "restore"} /\ (phase' = "finalize" => silent)
  BY DEF Configured, ConfigureFails, Returned, Move, Caught
<1>2. TypeInv'
  BY <1>1, NextTypeInv
<1>3. /\ start.disk \in Disk /\ report = "none"
      /\ \A s \in Active(start.disk) : start.disk.main[s] # None
      /\ LiveInv /\ CallInstalls
      /\ \A s \in Active(start.disk) : Convertible(start.disk, s)
  BY <1>1 DEF WholeInv, UInv
<1>4. phase' = "finalize" => silent \/ Upgraded
  BY <1>1, <1>3, ReturnUpgrades
<1>5. todo[Upgrader] = <<>>
  BY <1>1 DEF WholeInv
<1>6. (silent \/ Upgraded) => (silent' \/ Upgraded')
  BY <1>1 DEF Upgraded, vars
<1>7. pc' = pc /\ todo' = todo
  BY <1>1 DEF vars
<1>8. WholeInv'
  BY <1>1, <1>3, <1>4, <1>5, <1>6, <1>7 DEF WholeInv
<1>9. QED
  BY <1>2, <1>8

\* A conversion that fails; the end of the outer transaction.
LEMMA AfterWhole ==
  ASSUME TypeInv, UInv, WholeInv,
         \/ ConversionFails \/ ConversionExits
         \/ OuterReload \/ OuterReloadFails \/ OuterSave \/ OuterSaveFails
         \/ OuterRestore \/ OuterRestoreFails
  PROVE  TypeInv' /\ WholeInv'
<1>1. CASE ConversionFails
  <2>1. /\ phase = "convert" /\ phase' \in {"finalize", "restore"} /\ InnerStays
        /\ phase' = "finalize" => silent'
        /\ UNCHANGED faults \/ Fault
        /\ UNCHANGED <<disk, tar, nginx, varnish, report, start>>
    BY <1>1 DEF ConversionFails, Caught, Move
  <2>2. report = "none"
    BY <2>1 DEF UInv
  <2>3. TypeInv'
    BY <2>1, OuterTypes, OuterType
  <2>4. WholeInv'
    BY <2>1, <2>2, OuterStep
  <2>5. QED
    BY <2>3, <2>4
<1>2. CASE ConversionExits
  <2>1. /\ phase = "convert" /\ phase' = "idle" /\ report' = "exited" /\ InnerStays
        /\ UNCHANGED <<disk, tar, nginx, varnish, faults, start>>
    BY <1>2 DEF ConversionExits, Report
  <2>2. QED
    BY <2>1, OuterTypes, OuterType, OuterStep
<1>3. CASE OuterReload
  <2>1. /\ phase = "finalize" /\ phase' = "save" /\ nginx' = Rendered(disk) /\ InnerStays
        /\ UNCHANGED <<disk, tar, varnish, faults, silent, report, start>>
    BY <1>3 DEF OuterReload, Move
  <2>2. silent' \/ Upgraded'
    BY <2>1 DEF WholeInv, Upgraded
  <2>3. TypeInv'
    BY <2>1, OuterTypes, OuterType
  <2>4. WholeInv'
    BY <2>1, <2>2, OuterStep
  <2>5. QED
    BY <2>3, <2>4
<1>4. CASE OuterReloadFails
  <2>1. /\ phase = "finalize" /\ phase' = "restore" /\ InnerStays
        /\ UNCHANGED faults \/ Fault
        /\ UNCHANGED <<disk, tar, nginx, varnish, report, start>>
    BY <1>4 DEF OuterReloadFails, Move
  <2>2. report = "none"
    BY <2>1 DEF UInv
  <2>3. QED
    BY <2>1, <2>2, OuterTypes, OuterType, OuterStep
<1>5. CASE OuterSave
  <2>1. /\ phase = "save" /\ phase' = "idle" /\ report' = "upgraded" /\ InnerStays
        /\ UNCHANGED <<disk, tar, nginx, varnish, faults, silent, start>>
    BY <1>5 DEF OuterSave, Report
  <2>2. (silent' \/ Upgraded') /\ nginx' = Rendered(disk')
    BY <2>1 DEF WholeInv, Upgraded
  <2>3. TypeInv'
    BY <2>1, OuterTypes, OuterType
  <2>4. WholeInv'
    BY <2>1, <2>2, OuterStep
  <2>5. QED
    BY <2>3, <2>4
<1>6. CASE OuterSaveFails
  <2>1. /\ phase = "save" /\ phase' = "idle" /\ report' = "unsaved" /\ InnerStays /\ Fault
        /\ UNCHANGED <<disk, tar, nginx, varnish, start>>
    BY <1>6 DEF OuterSaveFails, Report
  <2>2. QED
    BY <2>1, OuterTypes, OuterType, OuterStep
<1>7. CASE OuterRestore
  <2>1. /\ phase = "restore" /\ phase' = "idle" /\ report' = "failed" /\ InnerStays
        /\ disk' = outerTar /\ UNCHANGED <<tar, nginx, varnish, faults, start>>
    BY <1>7 DEF OuterRestore, Report
  <2>2. disk' \in Disk
    BY <2>1 DEF UInv, Backed, WholeInv
  <2>3. QED
    BY <2>1, <2>2, OuterTypes, OuterType, OuterStep
<1>8. CASE OuterRestoreFails
  <2>1. /\ phase = "restore" /\ phase' = "idle" /\ report' = "rollback_failed"
        /\ InnerStays /\ Fault
        /\ disk' = EmptyDisk /\ UNCHANGED <<tar, nginx, varnish, start>>
    BY <1>8 DEF OuterRestoreFails, Report
  <2>2. QED
    BY <2>1, OuterTypes, OuterType, OuterStep
<1>9. QED
  BY <1>1, <1>2, <1>3, <1>4, <1>5, <1>6, <1>7, <1>8

LEMMA KilledWhole ==
  ASSUME TypeInv, UInv, WholeInv, Killed
  PROVE  TypeInv' /\ WholeInv'
<1>1. phase # "idle" /\ phase' = "idle" /\ report' = "crashed" /\ start' = start
  BY DEF Killed, Report
<1>2. start.disk \in Disk
  BY DEF WholeInv
<1>3. CASE Crash(Upgrader)
  <2>1. TypeInv'
    BY <1>3, UpgraderAlone, CrashTypeInv
  <2>2. pc'[Upgrader] = "idle" /\ todo'[Upgrader] = <<>>
    BY <1>3, UpgraderAlone DEF Crash, End, TypeInv, TypeOK
  <2>3. WholeInv'
    BY <1>1, <1>2, <2>2 DEF WholeInv
  <2>4. QED
    BY <2>1, <2>3
<1>4. CASE /\ pc[Upgrader] = "idle" /\ Fault
           /\ UNCHANGED <<disk, tar, nginx, varnish>> /\ InnerStays
  <2>1. TypeInv'
    BY <1>4, OuterTypes, OuterType
  <2>2. todo[Upgrader] = <<>>
    BY <1>4 DEF WholeInv
  <2>3. WholeInv'
    BY <1>1, <1>2, <1>4, <2>2 DEF WholeInv, InnerStays
  <2>4. QED
    BY <2>1, <2>3
<1>5. QED
  BY <1>3, <1>4 DEF Killed

LEMMA NextWhole ==
  ASSUME TypeInv, UInv, WholeInv, [UNext]_uvars
  PROVE  TypeInv' /\ WholeInv'
<1>1. CASE UNext
  BY <1>1, BeforeWhole, ConfigureAllWhole, ConfiguresWhole, ReturnWhole, AfterWhole,
     KilledWhole DEF UNext
<1>2. CASE UNCHANGED uvars
  <2>1. UNCHANGED vars /\ UNCHANGED <<phase, silent, report, start>>
    BY <1>2 DEF uvars, upgrade_vars
  <2>2. TypeInv' /\ (LiveInv => LiveInv')
    BY <2>1, UpgraderAlone, NextTypeInv, NextLive
  <2>3. /\ UNCHANGED <<disk, nginx, varnish, pc, cmds, todo, varnish_reload_cmd, job,
                       outcome>>
    BY <2>1 DEF vars, transaction
  <2>4. (CallInstalls => CallInstalls') /\ (Upgraded => Upgraded')
    BY <2>1, <2>3 DEF CallInstalls, Upgraded
  <2>5. WholeInv'
    BY <2>1, <2>2, <2>3, <2>4 DEF WholeInv
  <2>6. QED
    BY <2>2, <2>5
<1>3. QED
  BY <1>1, <1>2

LEMMA UInitWhole == UInit => TypeInv /\ WholeInv
<1> SUFFICES ASSUME UInit PROVE TypeInv /\ WholeInv
  OBVIOUS
<1>1. /\ disk \in Disk
      /\ nginx = Rendered(disk) /\ varnish = disk.vcl
      /\ tar = None /\ faults = 0
      /\ pc = [p \in Process |-> "idle"] /\ cmds = [p \in Process |-> <<>>]
      /\ todo = [p \in Process |-> <<>>] /\ rollbacks = [p \in Process |-> <<>>]
      /\ webserver_reload = [p \in Process |-> FALSE]
      /\ varnish_reload_cmd = [p \in Process |-> None]
      /\ job = [p \in Process |-> None] /\ outcome = [p \in Process |-> "none"]
      /\ before = [p \in Process |-> disk] /\ nginxBefore = [p \in Process |-> nginx]
      /\ phase = "idle" /\ report = "none" /\ start = [disk |-> disk, nginx |-> nginx]
  <2>1. PICK main \in [Site -> (NVar \ BadN) \union {None}],
             vsite \in [Site -> (VVar \ BadV) \union {None}] : disk = Installed(main, vsite)
    BY Zenon DEF UInit
  <2>2. main \in NConf /\ vsite \in VConf
    BY DEF NConf, VConf
  <2>3. disk \in Disk
    BY <2>1, <2>2 DEF Installed, Disk
  <2>4. QED
    BY <2>3, Zenon DEF UInit
<1>2. Rendered(disk) \in NConf /\ disk.vcl \in VConf
  BY <1>1 DEF Rendered, NConf, Disk
<1>3. <<>> \in Seq(Command) /\ <<>> \in Seq(Step)
  OBVIOUS
<1>4. TypeInv
  BY <1>1, <1>2, <1>3, ValuesAssumption DEF TypeInv, TypeOK, StackInv, RollbackStacks
<1>5. WholeInv
  BY <1>1, UpgraderAlone DEF WholeInv
<1>6. QED
  BY <1>4, <1>5

\* Whichever sites there are, whatever failed or killed earlier upgrades: one
\* that reports its success, and hides no exception with an empty message, has
\* every domain that has a directory, and no other, enabled and served with
\* its converted variables by both servers (upgrade_all_domains around
\* configure_all).
THEOREM UpgradesAll == USpec => []UpgradeIsWhole
<1> DEFINE Inv == TypeInv /\ UInv /\ WholeInv
<1>1. UInit => Inv
  BY UInitInv, UInitWhole
<1>2. Inv /\ [UNext]_uvars => Inv'
  BY StepInv, StutterInv, NextWhole
<1>3. Inv => UpgradeIsWhole
  <2> SUFFICES ASSUME Inv, report = "upgraded", ~ silent
               PROVE  /\ disk.enabled = Active(start.disk)
                      /\ \A s \in Active(start.disk) :
                           Serves(s, NginxOf(start.disk, s), VarnishOf(start.disk, s))
    BY DEF UpgradeIsWhole
  <2>1. Upgraded /\ nginx = Rendered(disk)
    BY DEF WholeInv
  <2>2. ASSUME NEW s \in Active(start.disk)
        PROVE  Serves(s, NginxOf(start.disk, s), VarnishOf(start.disk, s))
    <3>1. /\ DomainDone(start.disk, s, disk)
          /\ VarnishInstalled => varnish[s] = VarnishOf(start.disk, s)
      BY <2>1 DEF Upgraded
    <3>2. s \in Site
      BY DEF Active
    <3>3. nginx[s] = disk.conf[s]
      BY <2>1, <3>1, <3>2 DEF Rendered, DomainDone
    <3>4. QED
      BY <3>1, <3>3 DEF Serves, DomainDone
  <2>3. QED
    BY <2>1, <2>2 DEF Upgraded
<1> HIDE DEF Inv
<1>4. QED
  BY <1>1, <1>2, <1>3, PTL DEF USpec
=============================================================================
