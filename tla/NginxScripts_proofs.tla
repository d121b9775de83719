------------------------ MODULE NginxScripts_proofs ------------------------
(***************************************************************************)
(* Theorems about NginxScripts: types, and that what is on disk between    *)
(* two scripts is what Nginx runs.                                         *)
(***************************************************************************)
EXTENDS NginxScripts, TLAPS

\* A job has the keys of its script.
LEMMA JobTypes ==
  ASSUME NEW j \in Job
  PROVE  /\ j.script \in {"ssl", "waf", "apps"} /\ j.json \in BOOLEAN
         /\ j.script = "ssl" => /\ j.id \in Id
                                /\ j.crt \in Body \union {None}
                                /\ j.key \in Body \union {None}
                                /\ j.cert_type \in {"shared", "private", None}
                                /\ j.op \in {"update", "update-batch", "delete", "other"}
         /\ j.script = "waf" => /\ j.id \in Rule
                                /\ j.rule_body \in Body \union {None}
                                /\ j.op \in {"update", "update-batch", "delete", "other"}
         /\ j.script = "apps" => /\ j.configs \in Body \union {None}
                                 /\ j.flags \in BOOLEAN /\ j.renders \in BOOLEAN
  BY ScriptsAssumption DEF SslJob, WafJob, AppsJob

\* The places of a script after its backup
Changing == {"create", "key", "link", "remove", "test", "reload", "restore"}

Labels == {"idle", "read", "backup"} \union Changing

\* The archive is there from the backup on.
TypeInv ==
  /\ STypeOK
  /\ pc \in Changing => /\ job.script = "ssl" => ssl_tar \in SslTar
                        /\ job.script = "waf" => waf_tar \in WafTar

LEMMA InitTypeInv == Init => TypeInv
<1> SUFFICES ASSUME Init PROVE TypeInv
  OBVIOUS
<1>1. PICK b \in Body \ Bad :
        disk = [certs |-> [i \in Id |-> IF i \in SiteCerts
                                        THEN [crt |-> b, key |-> b] ELSE None],
                link |-> None,
                rules |-> [r \in Rule |-> IF r \in SiteRules THEN b ELSE None],
                apps |-> None, dirs |-> Dirs]
  BY DEF Init
<1>2. disk \in Disk
  BY <1>1 DEF Disk, Cert, Text
<1>3. /\ live = disk /\ before = disk /\ pc = "idle" /\ job = None /\ code = 0
      /\ ssl_tar = None /\ waf_tar = None /\ apps_backup = None
  BY DEF Init
<1>4. owed \in BOOLEAN /\ hurt \in BOOLEAN
  BY DEF Init
<1>5. runs \in 0 .. MaxRuns /\ faults \in 0 .. MaxFaults
  BY ScriptsAssumption DEF Init
<1>6. QED
  BY <1>2, <1>3, <1>4, <1>5 DEF TypeInv, STypeOK, Changing

LEMMA StartTypeInv ==
  ASSUME TypeInv, NEW j \in Job, Start(j)
  PROVE  TypeInv'
<1>1. owed' \in BOOLEAN /\ hurt' \in BOOLEAN
  BY DEF Start, LeavesUnloaded, TypeInv, STypeOK
<1>2. runs' \in 0 .. MaxRuns /\ faults' \in 0 .. MaxFaults
  BY ScriptsAssumption DEF Start, TypeInv, STypeOK
<1>3. /\ disk' \in Disk /\ live' \in Disk /\ before' \in Disk
      /\ job' = j /\ job' # None /\ pc' = "read" /\ code' = 0
      /\ ssl_tar' = ssl_tar /\ waf_tar' = waf_tar /\ apps_backup' = apps_backup
  BY ScriptsAssumption DEF Start, TypeInv, STypeOK, saved
<1>4. QED
  BY <1>1, <1>2, <1>3 DEF TypeInv, STypeOK, Changing

\* What a step has to show beside the history that every step shares.
LEMMA StepTypeInv ==
  ASSUME TypeInv, pc # "idle", Same, NoFault \/ Fault,
         disk' \in Disk, pc' \in Labels, code' \in {0, 1},
         ssl_tar' \in SslTar \union {None}, waf_tar' \in WafTar \union {None},
         apps_backup' \in Text \union {None},
         pc' \in Changing => /\ job.script = "ssl" => ssl_tar' \in SslTar
                             /\ job.script = "waf" => waf_tar' \in WafTar
  PROVE  TypeInv'
<1>1. before' \in Disk /\ owed' \in BOOLEAN /\ hurt' \in BOOLEAN
  BY DEF TypeInv, STypeOK, NoFault, Fault, history
<1>2. faults' \in 0 .. MaxFaults
  BY ScriptsAssumption DEF TypeInv, STypeOK, NoFault, Fault
<1>3. /\ job' = job /\ job # None /\ live' \in Disk /\ job' \in Job \union {None}
      /\ runs' \in 0 .. MaxRuns
  BY DEF TypeInv, STypeOK, Same
<1>4. QED
  BY <1>1, <1>2, <1>3 DEF TypeInv, STypeOK, Labels, Changing

\* A step that leaves the backups alone, taken after the backup.
LEMMA ChangeTypeInv ==
  ASSUME TypeInv, pc \in Changing, Same, NoFault \/ Fault, UNCHANGED saved,
         disk' \in Disk, pc' \in Labels, code' \in {0, 1}
  PROVE  TypeInv'
<1>1. /\ pc # "idle" /\ ssl_tar' = ssl_tar /\ waf_tar' = waf_tar
      /\ apps_backup' = apps_backup
  BY DEF Changing, saved
<1>2. QED
  BY <1>1, StepTypeInv DEF TypeInv, STypeOK

LEMMA ReadTypeInv ==
  ASSUME TypeInv, Read \/ ReadApps \/ BackupCerts \/ BackupRules \/ BackupApps
  PROVE  TypeInv'
<1> USE DEF TypeInv, STypeOK, saved, At, Go, Exit, Raise, Operation, Labels, Changing
<1>1. CASE Read \/ ReadApps
  <2>1. pc # "idle" /\ Same /\ NoFault /\ disk' = disk /\ UNCHANGED saved
    BY <1>1 DEF Read, ReadApps
  <2>2. pc' \in Labels /\ code' \in {0, 1}
    BY <1>1 DEF Read, ReadApps
  <2>3. pc' \in Changing => job.script = "apps"
    BY <1>1 DEF Read, ReadApps
  <2>4. QED
    BY <2>1, <2>2, <2>3, StepTypeInv
<1>2. CASE BackupCerts
  <2>1. pc # "idle" /\ Same /\ (NoFault \/ Fault) /\ disk' = disk
    BY <1>2 DEF BackupCerts
  <2>2. pc' \in Labels /\ code' \in {0, 1}
    BY <1>2 DEF BackupCerts
  <2>3. /\ ssl_tar' \in SslTar \union {None} /\ job.script = "ssl"
        /\ pc' # "idle" => ssl_tar' \in SslTar
    BY <1>2 DEF BackupCerts, SslTar, Disk
  <2>4. waf_tar' = waf_tar /\ apps_backup' = apps_backup
    BY <1>2 DEF BackupCerts
  <2>5. QED
    BY <2>1, <2>2, <2>3, <2>4, StepTypeInv
<1>3. CASE BackupRules
  <2>1. pc # "idle" /\ Same /\ (NoFault \/ Fault) /\ disk' = disk
    BY <1>3 DEF BackupRules
  <2>2. pc' \in Labels /\ code' \in {0, 1}
    BY <1>3 DEF BackupRules
  <2>3. /\ waf_tar' \in WafTar \union {None} /\ job.script = "waf"
        /\ pc' # "idle" => waf_tar' \in WafTar
    BY <1>3 DEF BackupRules, WafTar, Disk
  <2>4. ssl_tar' = ssl_tar /\ apps_backup' = apps_backup
    BY <1>3 DEF BackupRules
  <2>5. QED
    BY <2>1, <2>2, <2>3, <2>4, StepTypeInv
<1>4. CASE BackupApps
  <2>1. pc # "idle" /\ Same /\ (NoFault \/ Fault) /\ disk' = disk
    BY <1>4 DEF BackupApps
  <2>2. pc' \in Labels /\ code' \in {0, 1} /\ job.script = "apps"
    BY <1>4 DEF BackupApps
  <2>3. apps_backup' \in Text \union {None}
    BY <1>4 DEF BackupApps, Disk, Text
  <2>4. ssl_tar' = ssl_tar /\ waf_tar' = waf_tar
    BY <1>4 DEF BackupApps
  <2>5. QED
    BY <2>1, <2>2, <2>3, <2>4, StepTypeInv
<1>5. QED
  BY <1>1, <1>2, <1>3, <1>4

\* The steps that change files, after the backup.
Changes ==
  \/ WriteCert \/ WriteKey \/ Link \/ WriteRules \/ RemoveCerts \/ RemoveRules
  \/ RemoveApps \/ WriteApps \/ RestoreCerts \/ RestoreRules \/ RestoreApps

LEMMA ChangedDisk ==
  ASSUME TypeInv, Changes
  PROVE  disk' \in Disk
<1> USE DEF TypeInv, STypeOK, At
<1>0. job \in Job
  BY DEF Changes, WriteCert, WriteKey, Link, WriteRules, RemoveCerts,
         RemoveRules, RemoveApps, WriteApps, RestoreCerts, RestoreRules,
         RestoreApps
<1>1. CASE WriteCert
  <2>1. job.id \in Id /\ Folder(job.id) \in Cert /\ Written(job.crt) \in Text
    BY <1>1, <1>0, JobTypes DEF WriteCert, Folder, Cert, Text, Written, Disk
  <2>2. PICK text \in Text :
          disk' = [disk EXCEPT !.certs[job.id] = [Folder(job.id) EXCEPT !.crt = text]]
    BY <1>1, <2>1 DEF WriteCert, Text
  <2>3. [Folder(job.id) EXCEPT !.crt = text] \in Cert
    BY <2>1 DEF Cert
  <2>4. QED
    BY <2>1, <2>2, <2>3 DEF Disk
<1>2. CASE WriteKey
  <2>1. job.id \in Id /\ Folder(job.id) \in Cert /\ Written(job.key) \in Text
    BY <1>2, <1>0, JobTypes DEF WriteKey, Folder, Cert, Text, Written, Disk
  <2>2. PICK text \in Text :
          disk' = [disk EXCEPT !.certs[job.id] = [Folder(job.id) EXCEPT !.key = text]]
    BY <1>2, <2>1 DEF WriteKey, Text
  <2>3. [Folder(job.id) EXCEPT !.key = text] \in Cert
    BY <2>1 DEF Cert
  <2>4. QED
    BY <2>1, <2>2, <2>3 DEF Disk
<1>3. CASE Link
  <2>1. job.id \in Id /\ job.cert_type \in {"shared", "private", None}
    BY <1>3, <1>0, JobTypes DEF Link
  <2>2. \/ disk' = disk
        \/ disk' = [disk EXCEPT !.link = job.id]
        \/ disk' = [disk EXCEPT !.link = None]
    BY <1>3, <2>1 DEF Link
  <2>3. QED
    BY <2>1, <2>2 DEF Disk
<1>4. CASE WriteRules
  BY <1>4, <1>0, JobTypes DEF WriteRules, Disk, Text
<1>5. CASE RemoveCerts
  <2>1. job.id \in Id
    BY <1>5, <1>0, JobTypes DEF RemoveCerts
  <2>2. CASE disk.certs[job.id] = None
    BY <1>5, <2>2 DEF RemoveCerts
  <2>3. CASE disk.certs[job.id] # None
    <3>1. disk.certs[job.id] \in Cert
      BY <2>1, <2>3 DEF Disk
    <3>2. QED
      BY <1>5, <2>1, <2>3, <3>1 DEF RemoveCerts, Disk, Cert, Text
  <2>4. QED
    BY <2>2, <2>3
<1>6. CASE RemoveRules
  BY <1>6, <1>0, JobTypes DEF RemoveRules, Disk
<1>7. CASE RemoveApps
  BY <1>7 DEF RemoveApps, Disk
<1>8. CASE WriteApps
  BY <1>8, <1>0, JobTypes DEF WriteApps, Disk, Text
<1>9. CASE RestoreCerts
  <2>1. /\ ssl_tar.certs \in [Id -> Cert \union {None}]
        /\ ssl_tar.link \in Id \union {None}
    BY <1>9 DEF RestoreCerts, SslTar
  <2>2. NoCerts \in [Id -> Cert \union {None}] /\ disk.dirs \ {"ssl"} \in SUBSET Dirs
    BY DEF NoCerts, Disk
  <2>3. \/ disk' = [disk EXCEPT !.certs = ssl_tar.certs, !.link = ssl_tar.link]
        \/ \E left \in {disk.dirs, disk.dirs \ {"ssl"}} :
             disk' = [disk EXCEPT !.certs = NoCerts, !.link = None, !.dirs = left]
    BY <1>9 DEF RestoreCerts
  <2>4. QED
    BY <2>1, <2>2, <2>3 DEF Disk
<1>10. CASE RestoreRules
  <2>1. /\ [r \in Rule |-> None] \in [Rule -> Text \union {None}]
        /\ disk.dirs \ {"waf"} \in SUBSET Dirs
    BY DEF Disk
  <2>2. QED
    BY <1>10, <2>1 DEF RestoreRules, Disk, WafTar
<1>11. CASE RestoreApps
  BY <1>11 DEF RestoreApps, Disk, Text
<1>12. QED
  BY <1>1, <1>2, <1>3, <1>4, <1>5, <1>6, <1>7, <1>8, <1>9, <1>10, <1>11
  DEF Changes

LEMMA ChangesTypeInv ==
  ASSUME TypeInv, Changes
  PROVE  TypeInv'
<1> USE DEF TypeInv, STypeOK, At, Go, Exit, Raise, Finish, Labels, Changing
<1>0. disk' \in Disk
  BY ChangedDisk
<1>1. pc \in Changing /\ Same /\ (NoFault \/ Fault) /\ UNCHANGED saved
  BY DEF Changes, WriteCert, WriteKey, Link, WriteRules, RemoveCerts,
         RemoveRules, RemoveApps, WriteApps, RestoreCerts, RestoreRules,
         RestoreApps
<1>2. pc' \in Labels /\ code' \in {0, 1}
  <2>1. CASE Link
    <3>1. job.cert_type \in {"shared", "private", None}
      BY <2>1, JobTypes DEF Link
    <3>2. QED
      BY <2>1, <3>1 DEF Link
  <2>2. CASE ~Link
    BY <2>2 DEF Changes, WriteCert, WriteKey, WriteRules, RemoveCerts,
           RemoveRules, RemoveApps, WriteApps, RestoreCerts, RestoreRules,
           RestoreApps
  <2>3. QED
    BY <2>1, <2>2
<1>3. QED
  BY <1>0, <1>1, <1>2, ChangeTypeInv

LEMMA LoadTypeInv ==
  ASSUME TypeInv, Test \/ Reload \/ Crash
  PROVE  TypeInv'
<1> USE DEF TypeInv, STypeOK, At, Go, Exit, Raise, Labels, Changing, Rejected, RemovalExit
<1>1. CASE Test
  <2>1. /\ pc \in Changing /\ Same /\ NoFault /\ UNCHANGED saved
        /\ pc' \in Labels /\ code' \in {0, 1} /\ disk' = disk
    BY <1>1 DEF Test
  <2>2. QED
    BY <2>1, ChangeTypeInv
<1>2. CASE Crash
  <2>1. /\ pc # "idle" /\ Same /\ Fault /\ UNCHANGED saved
        /\ pc' = "idle" /\ code' \in {0, 1} /\ disk' = disk
    BY <1>2 DEF Crash
  <2>2. QED
    BY <2>1, StepTypeInv DEF saved
<1>3. CASE Reload
  <2>1. /\ pc \in Changing /\ UNCHANGED <<disk, ssl_tar, waf_tar, apps_backup, job, runs>>
        /\ pc' \in Labels /\ code' \in {0, 1} /\ live' \in Disk
    BY <1>3 DEF Reload, Same, saved, Fault
  <2>2. before' = before /\ owed' \in BOOLEAN /\ hurt' \in BOOLEAN
    BY <1>3 DEF Reload, Fault
  <2>3. faults' \in 0 .. MaxFaults
    BY <1>3, ScriptsAssumption DEF Reload, Fault
  <2>4. QED
    BY <2>1, <2>2, <2>3
<1>4. QED
  BY <1>1, <1>2, <1>3

LEMMA NextTypeInv ==
  ASSUME TypeInv, [Next]_vars
  PROVE  TypeInv'
<1>1. CASE UNCHANGED vars
  BY <1>1 DEF vars, saved, history, TypeInv, STypeOK
<1>2. CASE Next
  BY <1>2, StartTypeInv, ReadTypeInv, ChangesTypeInv, LoadTypeInv
  DEF Next, Script, Changes
<1>3. QED
  BY <1>1, <1>2

\* All variables keep their types, and each script finds the archive that it
\* unpacks after a failed configtest, whatever jobs the daemon hands out.
THEOREM TypeCorrect == Spec => []STypeOK
<1>1. Spec => []TypeInv
  BY InitTypeInv, NextTypeInv, PTL DEF Spec
<1>2. TypeInv => STypeOK
  BY DEF TypeInv
<1>3. QED
  BY <1>1, <1>2, PTL

----------------------------------------------------------------------------
(***************************************************************************)
(* Between two scripts Nginx runs what is on disk.  While one runs, the    *)
(* invariant follows what its backup holds, which files it may have        *)
(* changed, and why it cannot end before the test.                         *)
(***************************************************************************)

\* What the place of a script says about its job.
JobInv ==
  /\ pc \in {"backup", "create", "key", "link"} /\ job.script \in {"ssl", "waf"} =>
       job.json
  /\ pc \in {"create", "key", "link"} /\ job.script \in {"ssl", "waf"} =>
       job.op \in Updates
  /\ pc \in {"key", "link"} => job.script = "ssl" /\ job.crt # None
  /\ pc = "link" => job.key # None
  /\ job.script = "apps" =>
       /\ pc \in {"backup", "create"} => ~Removes /\ job.op = "app-update"
       /\ pc = "remove" => Removes
       /\ pc \in {"test", "reload", "restore"} /\ ~Removes =>
            job.op = "app-update" /\ job.renders
       /\ pc = "restore" => ~Removes
  /\ pc = "reload" => ConfigTest(disk)

\* What has been saved, and the files that the script does not touch.
SavedInv ==
  /\ pc \in {"read", "backup", "create", "remove"} => disk = before
  /\ pc \in Changing =>
       /\ disk.dirs = before.dirs
       /\ job.script = "ssl" =>
            /\ ssl_tar.certs = before.certs /\ ssl_tar.link = before.link
            /\ disk.rules = before.rules /\ disk.apps = before.apps
       /\ job.script = "waf" =>
            /\ waf_tar = before.rules /\ disk.certs = before.certs
            /\ disk.link = before.link /\ disk.apps = before.apps
       /\ job.script = "apps" =>
            /\ disk.certs = before.certs /\ disk.link = before.link
            /\ disk.rules = before.rules
            /\ IF Removes THEN pc # "remove" => disk.apps = None
               ELSE before.apps # None => apps_backup = before.apps
  /\ pc \in {"key", "link"} =>
       /\ disk.link = before.link
       /\ \A i \in Id : disk.certs[i] = None => before.certs[i] = None

LoadedInv ==
  /\ StaysLoaded
  /\ pc # "idle" /\ ~owed =>
       /\ live = before /\ ConfigTest(before) /\ ~LeavesUnloaded(before, job)
       /\ SavedInv

LEMMA DiskEquality ==
  ASSUME NEW d \in Disk, NEW e \in Disk,
         d.certs = e.certs, d.link = e.link, d.rules = e.rules, d.apps = e.apps,
         d.dirs = e.dirs
  PROVE  d = e
BY DEF Disk

\* Nginx starts without a configuration of the applications if it did with one.
LEMMA RemovalTest ==
  ASSUME NEW d \in Disk, NEW e \in Disk, ConfigTest(e),
         d.certs = e.certs, d.rules = e.rules, d.apps = None
  PROVE  ConfigTest(d)
BY DEF ConfigTest, Usable

LEMMA InitLoadedInv == Init => JobInv /\ LoadedInv
<1> SUFFICES ASSUME Init PROVE JobInv /\ LoadedInv
  OBVIOUS
<1>1. PICK b \in Body \ Bad :
        disk = [certs |-> [i \in Id |-> IF i \in SiteCerts
                                        THEN [crt |-> b, key |-> b] ELSE None],
                link |-> None,
                rules |-> [r \in Rule |-> IF r \in SiteRules THEN b ELSE None],
                apps |-> None, dirs |-> Dirs]
  BY DEF Init
<1>2. \A i \in SiteCerts : i \in Id /\ disk.certs[i] = [crt |-> b, key |-> b]
  BY <1>1, ScriptsAssumption
<1>3. None # [crt |-> b, key |-> b]
  BY ScriptsAssumption DEF Cert, Text
<1>4. ConfigTest(disk)
  BY <1>1, <1>2, <1>3, ScriptsAssumption DEF ConfigTest, Usable
<1>5. pc = "idle" /\ live = disk
  BY DEF Init
<1>6. QED
  BY <1>4, <1>5 DEF JobInv, LoadedInv, StaysLoaded

LEMMA NextJobInv ==
  ASSUME TypeInv, JobInv, [Next]_vars
  PROVE  JobInv'
<1> USE DEF JobInv, At, Go, Exit, Raise, Same, Removes
<1>1. CASE UNCHANGED vars
  BY <1>1 DEF vars, ConfigTest, Usable
<1>2. ASSUME NEW j \in Job, Start(j) PROVE JobInv'
  BY <1>2 DEF Start
<1>3. CASE Crash
  BY <1>3 DEF Crash
<1>4. CASE Read
  BY <1>4 DEF Read
<1>5. CASE BackupCerts \/ BackupRules
  BY <1>5 DEF BackupCerts, BackupRules, Operation
<1>6. CASE WriteCert \/ WriteKey
  BY <1>6 DEF WriteCert, WriteKey
<1>7. CASE Link
  <2>1. job.cert_type \in {"shared", "private", None}
    BY <1>7, JobTypes DEF Link, TypeInv, STypeOK
  <2>2. pc' \in {"test", "idle"} /\ job' = job /\ job.script = "ssl"
    BY <1>7, <2>1 DEF Link, Finish
  <2>3. QED
    BY <2>2
<1>8. CASE WriteRules \/ RemoveCerts \/ RemoveRules
  BY <1>8 DEF WriteRules, RemoveCerts, RemoveRules, Finish
<1>9. CASE ReadApps \/ RemoveApps \/ BackupApps \/ WriteApps
  BY <1>9 DEF ReadApps, RemoveApps, BackupApps, WriteApps
<1>10. CASE Test
  BY <1>10 DEF Test, Rejected, RemovalExit, ConfigTest, Usable
<1>11. CASE Reload
  BY <1>11 DEF Reload, Rejected, RemovalExit
<1>12. CASE RestoreCerts \/ RestoreRules \/ RestoreApps
  BY <1>12 DEF RestoreCerts, RestoreRules, RestoreApps
<1>13. QED
  BY <1>1, <1>2, <1>3, <1>4, <1>5, <1>6, <1>7, <1>8, <1>9, <1>10, <1>11, <1>12
  DEF Next, Script

\* A step of a script that ends it may do so once the files are the old ones.
LEMMA EndsRestored ==
  ASSUME LoadedInv, pc # "idle", ~owed, live' = live, disk' = before
  PROVE  live' = disk' /\ ConfigTest(disk')
BY DEF LoadedInv, ConfigTest, Usable

LEMMA StartLoadedInv ==
  ASSUME LoadedInv, NEW j \in Job, Start(j)
  PROVE  LoadedInv'
<1> SUFFICES ASSUME ~owed' PROVE LoadedInv'
  BY DEF LoadedInv, StaysLoaded
<1>1. /\ pc = "idle" /\ pc' = "read" /\ job' = j /\ before' = disk
      /\ disk' = disk /\ live' = live
  BY DEF Start
<1>2. ~owed /\ ~LeavesUnloaded(disk, j)
  BY DEF Start
<1>3. live = disk /\ ConfigTest(disk)
  BY <1>1, <1>2 DEF LoadedInv, StaysLoaded
<1>4. ConfigTest(before') /\ ~LeavesUnloaded(before', job')
  BY <1>1, <1>2, <1>3
<1>5. SavedInv'
  BY <1>1 DEF SavedInv, Changing
<1>6. QED
  BY <1>1, <1>3, <1>4, <1>5 DEF LoadedInv, StaysLoaded

\* Steps that do not end: the saved files are what is left to show.
LEMMA GoesOn ==
  ASSUME LoadedInv, pc # "idle", ~owed, Same, NoFault, pc' # "idle", SavedInv'
  PROVE  LoadedInv'
<1>1. before' = before /\ live' = live /\ job' = job /\ owed' = owed
  BY DEF Same, NoFault, history
<1>2. live' = before' /\ ConfigTest(before') /\ ~LeavesUnloaded(before', job')
  BY <1>1 DEF LoadedInv
<1>3. QED
  BY <1>2 DEF LoadedInv, StaysLoaded

LEMMA Ends ==
  ASSUME LoadedInv, pc # "idle", ~owed, Same, pc' = "idle", disk' = before
  PROVE  LoadedInv'
<1>1. live' = disk' /\ ConfigTest(disk')
  BY EndsRestored DEF Same
<1>2. QED
  BY <1>1 DEF LoadedInv, StaysLoaded

LEMMA ReadLoadedInv ==
  ASSUME TypeInv, JobInv, LoadedInv, ~owed, ~owed',
         Read \/ ReadApps \/ BackupCerts \/ BackupRules \/ BackupApps
  PROVE  LoadedInv'
<1> USE DEF At, Go, Exit, Raise, Operation
<1>1. pc \in {"read", "backup"} /\ Same /\ disk' = disk /\ job' = job
  BY DEF Read, ReadApps, BackupCerts, BackupRules, BackupApps, Same
<1>2. NoFault /\ before' = before
  BY DEF Read, ReadApps, BackupCerts, BackupRules, BackupApps, Fault, NoFault, history
<1>3. disk = before
  BY <1>1 DEF LoadedInv, SavedInv
<1>4. CASE pc' = "idle"
  BY <1>1, <1>3, <1>4, Ends
<1>5. CASE pc' # "idle"
  <2>1. pc' \in {"backup", "create", "remove"}
    BY <1>5 DEF Read, ReadApps, BackupCerts, BackupRules, BackupApps
  <2>2. CASE pc' = "backup"
    BY <1>1, <1>2, <1>3, <2>2, GoesOn DEF SavedInv, Changing
  <2>3. CASE Read
    BY <1>5, <2>2, <2>3 DEF Read
  <2>4. CASE ReadApps /\ pc' = "remove"
    <3>1. Removes /\ job.script = "apps"
      BY <2>4 DEF ReadApps, Removes
    <3>2. SavedInv'
      BY <1>1, <1>2, <1>3, <2>4, <3>1 DEF SavedInv, Removes
    <3>3. QED
      BY <1>1, <1>2, <1>5, <3>2, GoesOn
  <2>5. CASE BackupCerts
    <3>1. ssl_tar'.certs = before.certs /\ ssl_tar'.link = before.link
      BY <1>3, <2>5, <1>5 DEF BackupCerts
    <3>2. job.script = "ssl"
      BY <2>5 DEF BackupCerts
    <3>3. SavedInv'
      BY <1>1, <1>2, <1>3, <2>1, <3>1, <3>2 DEF SavedInv
    <3>4. QED
      BY <1>1, <1>2, <1>5, <3>3, GoesOn
  <2>6. CASE BackupRules
    <3>1. waf_tar' = before.rules /\ job.script = "waf"
      BY <1>3, <2>6, <1>5 DEF BackupRules
    <3>2. SavedInv'
      BY <1>1, <1>2, <1>3, <2>1, <3>1 DEF SavedInv
    <3>3. QED
      BY <1>1, <1>2, <1>5, <3>2, GoesOn
  <2>7. CASE BackupApps
    <3>1. /\ before.apps # None => apps_backup' = before.apps
          /\ job.script = "apps"
      BY <1>3, <2>7, <1>5 DEF BackupApps
    <3>2. ~Removes /\ ~Removes'
      BY <1>1, <2>7, <3>1 DEF BackupApps, JobInv, Removes
    <3>3. SavedInv'
      BY <1>1, <1>2, <1>3, <2>1, <3>1, <3>2 DEF SavedInv
    <3>4. QED
      BY <1>1, <1>2, <1>5, <3>3, GoesOn
  <2>8. QED
    BY <2>1, <2>2, <2>3, <2>4, <2>5, <2>6, <2>7 DEF ReadApps
<1>6. QED
  BY <1>4, <1>5

\* The three steps of an update of a certificate; it has all its keys and is
\* no batch, or something would be owed.
LEMMA UpdateLoadedInv ==
  ASSUME TypeInv, JobInv, LoadedInv, ~owed, ~owed', WriteCert \/ WriteKey \/ Link
  PROVE  LoadedInv'
<1> USE DEF At, Go, Exit, Raise
<1>1. /\ pc \in {"create", "key", "link"} /\ Same /\ UNCHANGED saved
      /\ job.script = "ssl" /\ job' = job /\ ssl_tar' = ssl_tar
  BY DEF WriteCert, WriteKey, Link, Same, saved
<1>2. NoFault /\ before' = before
  BY DEF WriteCert, WriteKey, Link, Fault, NoFault, history
<1>3. SavedInv /\ ~LeavesUnloaded(before, job)
  BY <1>1 DEF LoadedInv
<1>4. /\ job.crt # None /\ job.key # None /\ job.cert_type # None
      /\ job.op = "update" /\ (job.cert_type = "shared" => ~Dangling(before))
  BY <1>1, <1>3 DEF LeavesUnloaded, JobInv, Updates
<1>5. /\ job.id \in Id /\ job.cert_type \in {"shared", "private", None}
      /\ job.crt \in Text /\ job.key \in Text
  BY <1>1, <1>4, JobTypes DEF TypeInv, STypeOK, Text
<1>6. /\ disk \in Disk /\ disk.link = before.link
      /\ \A i \in Id : disk.certs[i] = None => before.certs[i] = None
  BY <1>1, <1>3 DEF SavedInv, TypeInv, STypeOK
<1>7. ssl_tar.certs = before.certs /\ ssl_tar.link = before.link
  BY <1>1, <1>3 DEF SavedInv, Changing
<1>8. disk.rules = before.rules /\ disk.apps = before.apps /\ disk.dirs = before.dirs
  BY <1>1, <1>3 DEF SavedInv, Changing
<1>9. CASE WriteCert \/ WriteKey
  <2>1. PICK c \in Cert : disk' = [disk EXCEPT !.certs[job.id] = c]
    <3>1. Folder(job.id) \in Cert
      BY <1>5, <1>6 DEF Folder, Disk, Cert, Text
    <3>2. /\ [Folder(job.id) EXCEPT !.crt = job.crt] \in Cert
          /\ [Folder(job.id) EXCEPT !.key = job.key] \in Cert
      BY <1>5, <3>1 DEF Cert
    <3>3. Written(job.crt) = job.crt /\ Written(job.key) = job.key
      BY <1>4 DEF Written
    <3>4. CASE WriteCert
      BY <1>2, <3>2, <3>3, <3>4 DEF WriteCert, Fault, NoFault
    <3>5. CASE WriteKey
      BY <1>2, <3>2, <3>3, <3>5 DEF WriteKey, Fault, NoFault
    <3>6. QED
      BY <1>9, <3>4, <3>5
  <2>2. pc' \in {"key", "link"}
    BY <1>4, <1>9 DEF WriteCert, WriteKey, Fault
  <2>3. c # None
    BY ScriptsAssumption
  <2>4. /\ disk'.link = before.link /\ disk'.rules = before.rules
        /\ disk'.apps = before.apps /\ disk'.dirs = before.dirs
    BY <2>1, <1>6, <1>8 DEF Disk
  <2>5. \A i \in Id : disk'.certs[i] = None => before.certs[i] = None
    BY <2>1, <2>3, <1>5, <1>6 DEF Disk
  <2>6. SavedInv'
    BY <1>1, <1>2, <1>7, <2>2, <2>4, <2>5 DEF SavedInv
  <2>7. QED
    BY <1>1, <1>2, <2>2, <2>6, GoesOn
<1>10. CASE Link
  <2>1. job.cert_type = "shared" => ~Dangling(disk)
    BY <1>4, <1>6 DEF Dangling, Disk
  <2>2. disk' = disk \/ disk' = [disk EXCEPT !.link = job.id]
    BY <1>2, <1>10, <1>4, <1>5, <2>1 DEF Link, Fault, NoFault
  <2>3. pc' = "test"
    BY <1>2, <1>10, <1>4, <1>5, <2>1 DEF Link, Finish, Fault, NoFault
  <2>4. disk'.rules = before.rules /\ disk'.apps = before.apps /\ disk'.dirs = before.dirs
    BY <2>2, <1>6, <1>8 DEF Disk
  <2>5. SavedInv'
    BY <1>1, <1>2, <1>7, <2>3, <2>4 DEF SavedInv
  <2>6. QED
    BY <1>1, <1>2, <2>3, <2>5, GoesOn
<1>11. QED
  BY <1>9, <1>10

\* Rules written, certificates or rules removed: the script ends here only if
\* it has changed nothing.
LEMMA WriteLoadedInv ==
  ASSUME TypeInv, JobInv, LoadedInv, ~owed, ~owed',
         WriteRules \/ RemoveCerts \/ RemoveRules
  PROVE  LoadedInv'
<1> USE DEF At, Go, Exit, Raise
<1>1. /\ pc \in {"create", "remove"} /\ Same /\ job' = job
      /\ ssl_tar' = ssl_tar /\ waf_tar' = waf_tar
      /\ job.script \in {"ssl", "waf"}
  BY DEF WriteRules, RemoveCerts, RemoveRules, Same, saved
<1>2. NoFault /\ before' = before
  BY DEF WriteRules, RemoveCerts, RemoveRules, Fault, NoFault, history
<1>3. SavedInv /\ ~LeavesUnloaded(before, job) /\ disk = before /\ disk \in Disk
  BY <1>1 DEF LoadedInv, SavedInv, TypeInv, STypeOK
<1>4. CASE disk' = disk /\ pc' = "idle"
  BY <1>1, <1>3, <1>4, Ends
<1>5. CASE ~(disk' = disk /\ pc' = "idle")
  <2>1. pc' = "test"
    <3>1. CASE WriteRules
      <4>1. job.json /\ job.op \in Updates /\ job.script = "waf"
        BY <3>1 DEF JobInv, WriteRules
      <4>2. job.op = "update"
        BY <4>1, <1>3 DEF LeavesUnloaded, Updates
      <4>3. QED
        BY <1>5, <3>1, <4>2 DEF WriteRules, Finish, Fault
    <3>2. CASE RemoveCerts \/ RemoveRules
      BY <1>5, <3>2 DEF RemoveCerts, RemoveRules, Fault
    <3>3. QED
      BY <3>1, <3>2
  <2>2. CASE RemoveCerts
    <3>1. disk' = [disk EXCEPT !.certs[job.id] = None] /\ job.script = "ssl"
      BY <2>1, <2>2 DEF RemoveCerts, Fault
    <3>2. SavedInv'
      BY <1>1, <1>2, <1>3, <2>1, <3>1 DEF SavedInv, Changing, Disk
    <3>3. QED
      BY <1>1, <1>2, <2>1, <3>2, GoesOn
  <2>3. CASE WriteRules \/ RemoveRules
    <3>1. /\ \E r : disk' = [disk EXCEPT !.rules[job.id] = r]
          /\ job.script = "waf"
      BY <2>1, <2>3 DEF WriteRules, RemoveRules, Fault
    <3>2. SavedInv'
      BY <1>1, <1>2, <1>3, <2>1, <3>1 DEF SavedInv, Changing, Disk
    <3>3. QED
      BY <1>1, <1>2, <2>1, <3>2, GoesOn
  <2>4. QED
    BY <2>2, <2>3
<1>6. QED
  BY <1>4, <1>5

LEMMA AppsLoadedInv ==
  ASSUME TypeInv, JobInv, LoadedInv, ~owed, ~owed', RemoveApps \/ WriteApps
  PROVE  LoadedInv'
<1> USE DEF At, Go, Exit, Raise
<1>1. /\ pc \in {"create", "remove"} /\ Same /\ job' = job /\ job.script = "apps"
      /\ apps_backup' = apps_backup
  BY DEF RemoveApps, WriteApps, Same, saved
<1>2. NoFault /\ before' = before
  BY DEF RemoveApps, WriteApps, Fault, NoFault, history
<1>3. SavedInv /\ disk = before /\ disk \in Disk
  BY <1>1 DEF LoadedInv, SavedInv, TypeInv, STypeOK
<1>4. CASE pc' = "idle"
  <2>1. disk' = before
    BY <1>3, <1>4 DEF RemoveApps, WriteApps, Fault
  <2>2. QED
    BY <1>1, <1>4, <2>1, Ends
<1>5. CASE pc' # "idle"
  <2>1. pc' = "test" /\ \E a : disk' = [disk EXCEPT !.apps = a]
    BY <1>5 DEF RemoveApps, WriteApps
  <2>2. /\ disk'.certs = before.certs /\ disk'.link = before.link
        /\ disk'.rules = before.rules /\ disk'.dirs = before.dirs
    BY <1>3, <2>1 DEF Disk
  <2>3. Removes => disk'.apps = None
    BY <1>1, <1>3, <1>5 DEF RemoveApps, WriteApps, JobInv, Disk
  <2>4. ~Removes /\ before.apps # None => apps_backup = before.apps
    BY <1>1, <1>3 DEF SavedInv, Changing
  <2>5. SavedInv'
    BY <1>1, <1>2, <2>1, <2>2, <2>3, <2>4 DEF SavedInv, Removes
  <2>6. QED
    BY <1>1, <1>2, <1>5, <2>5, GoesOn
<1>6. QED
  BY <1>4, <1>5

\* What is put back is what was there.
LEMMA RestoreLoadedInv ==
  ASSUME TypeInv, JobInv, LoadedInv, ~owed, ~owed',
         RestoreCerts \/ RestoreRules \/ RestoreApps
  PROVE  LoadedInv'
<1> USE DEF At, Go, Exit, Raise
<1>1. pc = "restore" /\ pc' = "idle" /\ Same
  BY DEF RestoreCerts, RestoreRules, RestoreApps, Fault
<1>2. SavedInv /\ disk \in Disk /\ before \in Disk
  BY <1>1 DEF LoadedInv, TypeInv, STypeOK
<1>3. disk' \in Disk
  BY ChangedDisk DEF Changes
<1>4. CASE RestoreCerts
  <2>1. /\ disk' = [disk EXCEPT !.certs = before.certs, !.link = before.link]
        /\ disk.rules = before.rules /\ disk.apps = before.apps /\ disk.dirs = before.dirs
    BY <1>1, <1>2, <1>4 DEF RestoreCerts, Fault, SavedInv, Changing
  <2>2. disk' = before
    BY <1>2, <1>3, <2>1, DiskEquality DEF Disk
  <2>3. QED
    BY <1>1, <2>2, Ends
<1>5. CASE RestoreRules
  <2>1. /\ disk' = [disk EXCEPT !.rules = before.rules] /\ disk.apps = before.apps
        /\ disk.certs = before.certs /\ disk.link = before.link /\ disk.dirs = before.dirs
    BY <1>1, <1>2, <1>5 DEF RestoreRules, Fault, SavedInv, Changing
  <2>2. disk' = before
    BY <1>2, <1>3, <2>1, DiskEquality DEF Disk
  <2>3. QED
    BY <1>1, <2>2, Ends
<1>6. CASE RestoreApps
  <2>1. ~Removes /\ job.op = "app-update" /\ job.renders /\ job.script = "apps"
    BY <1>1, <1>6 DEF RestoreApps, JobInv
  <2>2. before.apps # None
    BY <1>1, <2>1 DEF LoadedInv, LeavesUnloaded, Removes
  <2>3. /\ apps_backup = before.apps /\ disk.rules = before.rules
        /\ disk.certs = before.certs /\ disk.link = before.link /\ disk.dirs = before.dirs
    BY <1>1, <1>2, <2>1, <2>2 DEF SavedInv, Changing
  <2>4. disk' = [disk EXCEPT !.apps = before.apps]
    BY <1>6, <2>2, <2>3 DEF RestoreApps, Fault
  <2>5. disk' = before
    BY <1>2, <1>3, <2>3, <2>4, DiskEquality DEF Disk
  <2>6. QED
    BY <1>1, <2>5, Ends
<1>7. QED
  BY <1>4, <1>5, <1>6

\* A removal is never refused, and a reload loads what was tested.
LEMMA LoadLoadedInv ==
  ASSUME TypeInv, JobInv, LoadedInv, ~owed', Test \/ Reload
  PROVE  LoadedInv'
<1> USE DEF Go, Exit
<1>1. CASE Reload
  <2>1. live' = disk' /\ ConfigTest(disk)
    BY <1>1 DEF Reload, JobInv, Fault
  <2>2. disk' = disk
    BY <1>1 DEF Reload
  <2>3. live' = disk' /\ ConfigTest(disk')
    BY <2>1, <2>2
  <2>4. pc' = "idle"
    BY <1>1 DEF Reload, Fault, RemovalExit
  <2>5. QED
    BY <2>3, <2>4 DEF LoadedInv, StaysLoaded
<1>2. CASE Test
  <2>1. /\ pc = "test" /\ NoFault /\ Same /\ disk' = disk /\ job' = job
        /\ UNCHANGED <<ssl_tar, waf_tar, apps_backup, before>> /\ ~owed
    BY <1>2 DEF Test, NoFault, Same, history, saved
  <2>2. SavedInv /\ disk \in Disk /\ before \in Disk /\ ConfigTest(before)
    BY <2>1 DEF LoadedInv, TypeInv, STypeOK
  <2>3. ~(job.script = "apps" /\ Removes /\ ~ConfigTest(disk))
    BY <2>1, <2>2, RemovalTest DEF SavedInv, Changing
  <2>4. pc' \in {"reload", "restore"}
    BY <1>2, <2>3 DEF Test, Rejected
  <2>5. SavedInv'
    BY <2>1, <2>2, <2>4 DEF SavedInv, Changing, Removes
  <2>6. QED
    BY <2>1, <2>4, <2>5, GoesOn
<1>3. QED
  BY <1>1, <1>2

LEMMA NextLoadedInv ==
  ASSUME TypeInv, JobInv, LoadedInv, [Next]_vars
  PROVE  LoadedInv'
<1> SUFFICES ASSUME ~owed' PROVE LoadedInv'
  BY DEF LoadedInv, StaysLoaded
<1>1. CASE UNCHANGED vars
  <2>1. StaysLoaded'
    BY <1>1 DEF vars, history, LoadedInv, StaysLoaded, ConfigTest, Usable
  <2>2. ASSUME pc' # "idle"
        PROVE  live' = before' /\ ConfigTest(before') /\ SavedInv'
    BY <1>1, <2>2
    DEF vars, history, saved, LoadedInv, ConfigTest, Usable, SavedInv, Removes, Changing
  <2>3. ASSUME pc' # "idle" PROVE ~LeavesUnloaded(before', job')
    BY <1>1, <2>3 DEF vars, history, LoadedInv
  <2>4. QED
    BY <2>1, <2>2, <2>3 DEF LoadedInv
<1>2. ASSUME NEW j \in Job, Start(j) PROVE LoadedInv'
  BY <1>2, StartLoadedInv
<1>3. CASE Test \/ Reload
  BY <1>3, LoadLoadedInv
<1>4. CASE Crash
  BY <1>4 DEF Crash, Fault
<1>5. CASE Script /\ ~Reload
  <2>1. ~owed
    BY <1>5 DEF Script, Read, BackupCerts, BackupRules, WriteCert, WriteKey,
       Link, WriteRules, RemoveCerts, RemoveRules, ReadApps, RemoveApps,
       BackupApps, WriteApps, Test, RestoreCerts, RestoreRules, RestoreApps,
       NoFault, Fault, history
  <2>2. QED
    BY <1>3, <1>5, <2>1, ReadLoadedInv, UpdateLoadedInv, WriteLoadedInv,
       AppsLoadedInv, RestoreLoadedInv DEF Script
<1>6. QED
  BY <1>1, <1>2, <1>3, <1>4, <1>5 DEF Next

\* Unless something was left unloaded, Nginx runs between two scripts what is
\* on disk, and would start with it: certificates, rules and configurations of
\* the applications that it rejects are all put back, and what it accepts is
\* loaded, for any sequence of jobs and of failures.
THEOREM Loaded == Spec => []StaysLoaded
<1>1. Init => TypeInv /\ JobInv /\ LoadedInv
  BY InitTypeInv, InitLoadedInv
<1>2. TypeInv /\ JobInv /\ LoadedInv /\ [Next]_vars
        => (TypeInv /\ JobInv /\ LoadedInv)'
  BY NextTypeInv, NextJobInv, NextLoadedInv
<1>3. LoadedInv => StaysLoaded
  BY DEF LoadedInv
<1>4. QED
  BY <1>1, <1>2, <1>3, PTL DEF Spec

----------------------------------------------------------------------------
(***************************************************************************)
(* What a job that nothing has disturbed comes to.  Its files are either   *)
(* the old ones or those it asks for, and which of the two is decided by   *)
(* the test alone.                                                         *)
(***************************************************************************)

\* A step taken before the files change works on the old ones; after that the
\* steps of the update add up to what the job requests.
Progress ==
  /\ pc \in {"read", "backup", "create", "remove"} => disk = before
  /\ pc = "remove" /\ job.script \in {"ssl", "waf"} => job.op = "delete"
  /\ pc = "key" => \E k \in Text :
       disk = [before EXCEPT !.certs[job.id] = [crt |-> job.crt, key |-> k]]
  /\ pc = "link" =>
       disk = [before EXCEPT !.certs[job.id] = [crt |-> job.crt, key |-> job.key]]
  /\ pc \in {"test", "reload", "restore"} => disk = Requested(before, job)
  /\ pc = "restore" => ~ConfigTest(disk)

\* What the step to put the files back would find.
Backup ==
  pc \in Changing =>
    /\ job.script = "ssl" => /\ ssl_tar.certs = before.certs
                             /\ ssl_tar.link = before.link
    /\ job.script = "waf" => waf_tar = before.rules
    /\ job.script = "apps" /\ ~Removes /\ before.apps # None =>
         apps_backup = before.apps

Outcome ==
  /\ AcceptedIsLive /\ RejectedIsRestored
  /\ pc # "idle" /\ ~hurt /\ Loads(before, job) => Progress /\ Backup

\* A complete job has the keys that its steps look up.
LEMMA LoadsKeys ==
  ASSUME TypeInv, pc # "idle", Loads(before, job)
  PROVE  /\ job.json /\ job.script \in {"ssl", "waf", "apps"}
         /\ job.script \in Dirs => job.script \in before.dirs
         /\ job.script = "ssl" =>
              /\ job.id \in Id /\ job.op \in {"update", "delete"}
              /\ job.op = "update" =>
                   /\ job.crt \in Body /\ job.key \in Body
                   /\ job.cert_type \in {"shared", "private"} \ {None}
                   /\ job.cert_type = "shared" => ~Dangling(before)
              /\ job.op = "delete" => before.certs[job.id] # None
         /\ job.script = "waf" =>
              /\ job.id \in Rule /\ job.op \in {"update", "delete"}
              /\ job.op = "update" => job.rule_body \in Body
              /\ job.op = "delete" => before.rules[job.id] # None
         /\ job.script = "apps" =>
              /\ job.flags /\ job.op = "app-update"
              /\ Removes <=> job.configs = None
              /\ ~Removes => job.renders /\ job.configs \in Body
<1>1. job \in Job
  BY DEF TypeInv, STypeOK
<1>2. job.script \in {"ssl", "waf", "apps"}
  BY <1>1, JobTypes
<1>3. CASE job.script = "ssl"
  BY <1>1, <1>3, JobTypes DEF Loads
<1>4. CASE job.script = "waf"
  BY <1>1, <1>4, JobTypes DEF Loads
<1>5. CASE job.script = "apps"
  BY <1>1, <1>5, JobTypes DEF Loads, Removes
<1>6. QED
  BY <1>2, <1>3, <1>4, <1>5

\* Steps that go on in an undisturbed job
LEMMA OutcomeGoesOn ==
  ASSUME Outcome, pc' # "idle",
         ~hurt' /\ Loads(before', job') => (Progress /\ Backup)'
  PROVE  Outcome'
BY DEF Outcome, AcceptedIsLive, RejectedIsRestored

\* Steps that may end it
LEMMA OutcomeEnds ==
  ASSUME pc' = "idle",
         ~hurt' /\ Loads(before', job') =>
           IF ConfigTest(Requested(before', job'))
           THEN disk' = Requested(before', job') /\ live' = disk'
           ELSE \/ disk' = before'
                \/ /\ job'.script = "apps"
                   /\ before'.apps = None \/ job'.configs = None
  PROVE  Outcome'
BY DEF Outcome, AcceptedIsLive, RejectedIsRestored

\* What a step has to show: the job that it works on is complete and nothing
\* has failed.
Undisturbed == ~hurt /\ Loads(before, job) /\ Progress /\ Backup

Ended ==
  IF ConfigTest(Requested(before, job))
  THEN disk' = Requested(before, job) /\ live' = disk'
  ELSE \/ disk' = before
       \/ job.script = "apps" /\ None \in {before.apps, job.configs}

LEMMA StepOutcome ==
  ASSUME TypeInv, Outcome, pc # "idle", before' = before, job' = job, ~hurt' => ~hurt,
         ~hurt' /\ Undisturbed => IF pc' = "idle" THEN Ended ELSE (Progress /\ Backup)'
  PROVE  Outcome'
<1>1. CASE ~hurt' /\ Loads(before, job)
  <2>1. Undisturbed
    BY <1>1 DEF Outcome, Undisturbed
  <2>2. CASE pc' = "idle"
    BY <2>1, <1>1, <2>2, OutcomeEnds DEF Ended
  <2>3. CASE pc' # "idle"
    BY <2>1, <1>1, <2>3, OutcomeGoesOn
  <2>4. QED
    BY <2>2, <2>3
<1>2. CASE ~(~hurt' /\ Loads(before, job))
  BY <1>2, OutcomeEnds, OutcomeGoesOn
<1>3. QED
  BY <1>1, <1>2

LEMMA ReadOutcome ==
  ASSUME TypeInv, JobInv, Outcome,
         Read \/ ReadApps \/ BackupCerts \/ BackupRules \/ BackupApps
  PROVE  Outcome'
<1> USE DEF At, Go, Exit, Raise, Operation
<1>1. /\ pc \in {"read", "backup"} /\ disk' = disk /\ job' = job
      /\ before' = before /\ (~hurt' => NoFault)
  BY DEF Read, ReadApps, BackupCerts, BackupRules, BackupApps, Same, Fault,
         NoFault, history
<1>2. ASSUME ~hurt', Undisturbed
      PROVE  pc' # "idle" /\ (Progress /\ Backup)'
  <2>1. disk = before /\ Loads(before, job) /\ NoFault
    BY <1>1, <1>2 DEF Undisturbed, Progress
  <2>2. CASE Read
    <3>1. pc' = "backup"
      BY <2>1, <2>2, LoadsKeys DEF Read
    <3>2. QED
      BY <1>1, <2>1, <3>1 DEF Progress, Backup, Changing
  <2>3. CASE ReadApps
    <3>1. /\ pc' \in {"remove", "backup"} /\ job.script = "apps"
          /\ pc' = "remove" => Removes
      BY <2>1, <2>3, LoadsKeys DEF ReadApps
    <3>2. QED
      BY <1>1, <2>1, <3>1 DEF Progress, Backup, Changing, Removes
  <2>4. CASE BackupCerts
    <3>1. /\ job.script = "ssl" /\ job.op \in {"update", "delete"} /\ ~Fault
          /\ "ssl" \in disk.dirs
      BY <1>2, <2>1, <2>4, LoadsKeys DEF BackupCerts, Fault, Dirs
    <3>2. /\ pc' \in {"create", "remove"} /\ (pc' = "remove" => job.op = "delete")
          /\ ssl_tar'.certs = before.certs /\ ssl_tar'.link = before.link
      BY <2>1, <2>4, <3>1 DEF BackupCerts, Updates
    <3>3. QED
      BY <1>1, <2>1, <3>1, <3>2 DEF Progress, Backup
  <2>5. CASE BackupRules
    <3>1. /\ job.script = "waf" /\ job.op \in {"update", "delete"} /\ ~Fault
          /\ "waf" \in disk.dirs
      BY <1>2, <2>1, <2>5, LoadsKeys DEF BackupRules, Fault, Dirs
    <3>2. /\ pc' \in {"create", "remove"} /\ (pc' = "remove" => job.op = "delete")
          /\ waf_tar' = before.rules
      BY <2>1, <2>5, <3>1 DEF BackupRules, Updates
    <3>3. QED
      BY <1>1, <2>1, <3>1, <3>2 DEF Progress, Backup
  <2>6. CASE BackupApps
    <3>1. job.script = "apps" /\ ~Fault
      BY <1>2, <2>6 DEF BackupApps, Fault
    <3>2. pc' = "create" /\ (before.apps # None => apps_backup' = before.apps)
      BY <2>1, <2>6, <3>1 DEF BackupApps
    <3>3. QED
      BY <1>1, <2>1, <3>1, <3>2 DEF Progress, Backup
  <2>7. QED
    BY <2>2, <2>3, <2>4, <2>5, <2>6
<1>3. pc # "idle" /\ (~hurt' => ~hurt)
  BY <1>1 DEF NoFault, history
<1>4. QED
  BY <1>1, <1>2, <1>3, StepOutcome

\* public.crt, private.key and the link are written one after the other.
LEMMA UpdateOutcome ==
  ASSUME TypeInv, JobInv, Outcome, WriteCert \/ WriteKey \/ Link
  PROVE  Outcome'
<1> USE DEF At, Go, Exit, Raise
<1>1. /\ pc \in {"create", "key", "link"} /\ job' = job /\ before' = before
      /\ job.script = "ssl" /\ ssl_tar' = ssl_tar /\ (~hurt' => NoFault)
  BY DEF WriteCert, WriteKey, Link, Same, saved, Fault, NoFault, history
<1>2. ASSUME ~hurt', Undisturbed
      PROVE  pc' # "idle" /\ (Progress /\ Backup)'
  <2>1. Loads(before, job) /\ ~Fault /\ before \in Disk /\ disk \in Disk /\ job.op \in Updates
    BY <1>1, <1>2 DEF Undisturbed, Fault, TypeInv, STypeOK, JobInv
  <2>2. /\ job.id \in Id /\ job.op = "update" /\ job.crt \in Body /\ job.key \in Body
        /\ job.cert_type \in {"shared", "private"} \ {None}
        /\ job.cert_type = "shared" => ~Dangling(before)
    BY <1>1, <2>1, LoadsKeys DEF Updates
  <2>3. Written(job.crt) = job.crt /\ Written(job.key) = job.key
        /\ job.crt # None /\ job.key # None
    BY <2>2, ScriptsAssumption DEF Written, Text
  <2>4. Backup' /\ before.certs \in [Id -> Cert \union {None}]
    BY <1>1, <1>2, <2>1 DEF Undisturbed, Backup, Changing, Disk
  <2>5. CASE WriteCert
    <3>1. disk = before /\ Folder(job.id) \in Cert
      BY <2>1, <2>2, <2>5, <1>2 DEF WriteCert, Undisturbed, Progress, Folder, Cert, Text, Disk
    <3>2. /\ pc' = "key"
          /\ disk' = [disk EXCEPT !.certs[job.id] = [Folder(job.id) EXCEPT !.crt = job.crt]]
      BY <2>1, <2>3, <2>5 DEF WriteCert
    <3>3. PICK k \in Text : [Folder(job.id) EXCEPT !.crt = job.crt] = [crt |-> job.crt, key |-> k]
      BY <3>1 DEF Cert
    <3>4. QED
      BY <1>1, <2>4, <3>1, <3>2, <3>3 DEF Progress
  <2>6. CASE WriteKey
    <3>1. PICK k \in Text :
            disk = [before EXCEPT !.certs[job.id] = [crt |-> job.crt, key |-> k]]
      BY <2>6, <1>2 DEF WriteKey, Undisturbed, Progress
    <3>2. disk.certs[job.id] = [crt |-> job.crt, key |-> k]
      BY <3>1, <2>1, <2>2, <2>4 DEF Disk
    <3>3. Folder(job.id) = [crt |-> job.crt, key |-> k]
      BY <3>2, <2>2, ScriptsAssumption DEF Folder, Cert, Text
    <3>4. /\ pc' = "link"
          /\ disk' = [disk EXCEPT !.certs[job.id] = [Folder(job.id) EXCEPT !.key = job.key]]
      BY <2>1, <2>3, <2>6 DEF WriteKey
    <3>5. [Folder(job.id) EXCEPT !.key = job.key] = [crt |-> job.crt, key |-> job.key]
      BY <3>3
    <3>6. disk' = [disk EXCEPT !.certs[job.id] = [crt |-> job.crt, key |-> job.key]]
      BY <3>4, <3>5
    <3> DEFINE half == [crt |-> job.crt, key |-> k]
               whole == [crt |-> job.crt, key |-> job.key]
    <3>7. /\ disk = [before EXCEPT !.certs[job.id] = half]
          /\ disk' = [disk EXCEPT !.certs[job.id] = whole]
      BY <3>1, <3>6
    <3>8. disk' = [before EXCEPT !.certs[job.id] = whole]
      <4> HIDE DEF half, whole
      <4>1. disk.certs = [before.certs EXCEPT ![job.id] = half]
        BY <3>7, <2>1 DEF Disk
      <4>2. [disk.certs EXCEPT ![job.id] = whole]
              = [before.certs EXCEPT ![job.id] = whole]
        BY <4>1, <2>4
      <4>3. QED
        BY <3>7, <4>2, <2>1 DEF Disk
    <3>9. QED
      BY <1>1, <2>4, <3>4, <3>8 DEF Progress
  <2>7. CASE Link
    <3>1. disk = [before EXCEPT !.certs[job.id] = [crt |-> job.crt, key |-> job.key]]
      BY <2>7, <1>2 DEF Link, Undisturbed, Progress
    <3>2. job.cert_type = "shared" => ~Dangling(disk)
      BY <2>1, <2>2, <2>4, <3>1, ScriptsAssumption DEF Dangling, Disk, Cert, Text
    <3>3. /\ pc' = "test"
          /\ disk' = IF job.cert_type = "shared" THEN [disk EXCEPT !.link = job.id] ELSE disk
      BY <2>1, <2>2, <2>7, <3>2 DEF Link, Finish
    <3>4. Requested(before, job) =
            [before EXCEPT !.certs[job.id] = [crt |-> job.crt, key |-> job.key],
                           !.link = IF job.cert_type = "shared" THEN job.id ELSE @]
      BY <1>1, <2>2 DEF Requested
    <3>5. disk' = Requested(before, job)
      BY <2>1, <3>1, <3>3, <3>4 DEF Disk
    <3>6. QED
      BY <1>1, <2>4, <3>3, <3>5 DEF Progress
  <2>8. QED
    BY <2>5, <2>6, <2>7
<1>3. pc # "idle" /\ (~hurt' => ~hurt)
  BY <1>1 DEF NoFault, history
<1>4. QED
  BY <1>1, <1>2, <1>3, StepOutcome

\* One file written or removed: all that the job asks for.
LEMMA WriteOutcome ==
  ASSUME TypeInv, JobInv, Outcome,
         WriteRules \/ RemoveCerts \/ RemoveRules \/ RemoveApps \/ WriteApps
  PROVE  Outcome'
<1> USE DEF At, Go, Exit, Raise
<1>1. /\ pc \in {"create", "remove"} /\ job' = job /\ before' = before
      /\ UNCHANGED <<ssl_tar, waf_tar, apps_backup>> /\ (~hurt' => NoFault)
  BY DEF WriteRules, RemoveCerts, RemoveRules, RemoveApps, WriteApps, Same,
         saved, Fault, NoFault, history
<1>2. ASSUME ~hurt', Undisturbed
      PROVE  pc' # "idle" /\ (Progress /\ Backup)'
  <2>1. /\ Loads(before, job) /\ ~Fault /\ disk = before
        /\ pc = "remove" /\ job.script \in {"ssl", "waf"} => job.op = "delete"
    BY <1>1, <1>2 DEF Undisturbed, Progress, Fault
  <2>2. Backup'
    BY <1>1, <1>2 DEF Undisturbed, Backup, Changing, Removes
  <2>3. pc' = "test" /\ disk' = Requested(before, job)
    <3>1. CASE WriteRules
      <4>1. /\ job.script = "waf" /\ job.op = "update" /\ job.rule_body # None
        BY <2>1, <3>1, LoadsKeys, ScriptsAssumption DEF WriteRules, JobInv, Updates, Text
      <4>2. QED
        BY <2>1, <3>1, <4>1 DEF WriteRules, Finish, Requested
    <3>2. CASE RemoveCerts
      <4>1. /\ job.script = "ssl" /\ job.op = "delete" /\ before.certs[job.id] # None
        BY <2>1, <3>2, LoadsKeys DEF RemoveCerts
      <4>2. QED
        BY <2>1, <3>2, <4>1 DEF RemoveCerts, Requested
    <3>3. CASE RemoveRules
      <4>1. /\ job.script = "waf" /\ job.op = "delete" /\ before.rules[job.id] # None
        BY <2>1, <3>3, LoadsKeys DEF RemoveRules
      <4>2. QED
        BY <2>1, <3>3, <4>1 DEF RemoveRules, Requested
    <3>4. CASE RemoveApps
      <4>1. job.script = "apps" /\ job.configs = None
        BY <2>1, <3>4, LoadsKeys DEF RemoveApps, JobInv
      <4>2. QED
        BY <2>1, <3>4, <4>1 DEF RemoveApps, Requested
    <3>5. CASE WriteApps
      <4>1. job.script = "apps" /\ job.renders
        BY <2>1, <3>5, LoadsKeys DEF WriteApps, JobInv
      <4>2. QED
        BY <2>1, <3>5, <4>1 DEF WriteApps, Requested
    <3>6. QED
      BY <3>1, <3>2, <3>3, <3>4, <3>5
  <2>4. QED
    BY <1>1, <2>2, <2>3 DEF Progress
<1>3. pc # "idle" /\ (~hurt' => ~hurt)
  BY <1>1 DEF NoFault, history
<1>4. QED
  BY <1>1, <1>2, <1>3, StepOutcome

\* The test decides; only a removal of the applications does not go back.
LEMMA LoadOutcome ==
  ASSUME TypeInv, JobInv, Outcome, Test \/ Reload
  PROVE  Outcome'
<1> USE DEF Go, Exit
<1>1. /\ pc \in {"test", "reload"} /\ job' = job /\ before' = before /\ disk' = disk
      /\ UNCHANGED <<ssl_tar, waf_tar, apps_backup>> /\ (~hurt' => ~hurt)
  <2>1. CASE Test
    <3>1. pc = "test" /\ UNCHANGED saved /\ NoFault /\ Same /\ disk' = disk
      BY <2>1 DEF Test
    <3>2. QED
      BY <3>1 DEF Same, saved, NoFault, history
  <2>2. CASE Reload
    <3>1. /\ pc = "reload" /\ UNCHANGED <<disk, saved, job>>
          /\ UNCHANGED <<before, hurt>> \/ Fault
      BY <2>2 DEF Reload
    <3>2. QED
      BY <3>1 DEF saved, Fault
  <2>3. QED
    BY <2>1, <2>2
<1>2. ASSUME ~hurt', Undisturbed
      PROVE  IF pc' = "idle" THEN Ended ELSE (Progress /\ Backup)'
  <2>1. Loads(before, job) /\ disk = Requested(before, job) /\ ~Fault
    BY <1>1, <1>2 DEF Undisturbed, Progress, Fault
  <2>2. Backup'
    BY <1>1, <1>2 DEF Undisturbed, Backup, Changing, Removes
  <2>3. CASE Reload
    <3>1. ConfigTest(disk) /\ live' = disk /\ pc' = "idle"
      BY <2>1, <2>3 DEF Reload, JobInv, RemovalExit
    <3>2. QED
      BY <1>1, <2>1, <3>1 DEF Ended
  <2>4. CASE Test /\ ConfigTest(disk)
    <3>1. pc' = "reload"
      BY <2>4 DEF Test
    <3>2. QED
      BY <1>1, <2>1, <2>2, <3>1 DEF Progress
  <2>5. CASE Test /\ ~ConfigTest(disk) /\ job.script = "apps" /\ Removes
    <3>1. pc' = "idle" /\ job.configs = None
      BY <2>1, <1>1, <2>5, LoadsKeys DEF Test, Rejected, RemovalExit
    <3>2. QED
      BY <2>1, <2>5, <3>1 DEF Ended
  <2>6. CASE Test /\ ~ConfigTest(disk) /\ ~(job.script = "apps" /\ Removes)
    <3>1. pc' = "restore"
      BY <2>6 DEF Test, Rejected
    <3>2. ~ConfigTest(disk')
      BY <1>1, <2>6
    <3>3. ~ConfigTest(disk)'
      BY <3>2 DEF ConfigTest, Usable
    <3>4. QED
      BY <1>1, <2>1, <2>2, <3>1, <3>3 DEF Progress
  <2>7. QED
    BY <2>3, <2>4, <2>5, <2>6
<1>3. QED
  BY <1>1, <1>2, StepOutcome

LEMMA RestoreOutcome ==
  ASSUME TypeInv, JobInv, Outcome, RestoreCerts \/ RestoreRules \/ RestoreApps
  PROVE  Outcome'
<1> USE DEF At, Go, Exit, Raise
<1>1. /\ pc = "restore" /\ pc' = "idle" /\ job' = job /\ before' = before
      /\ (~hurt' => NoFault)
  BY DEF RestoreCerts, RestoreRules, RestoreApps, Same, Fault, NoFault, history
<1>2. ASSUME ~hurt', Undisturbed PROVE Ended
  <2>1. /\ Loads(before, job) /\ ~Fault /\ disk = Requested(before, job)
        /\ ~ConfigTest(Requested(before, job)) /\ Backup
    BY <1>1, <1>2 DEF Undisturbed, Progress, Fault
  <2>2. disk \in Disk /\ before \in Disk /\ disk' \in Disk
    BY ChangedDisk DEF Changes, TypeInv, STypeOK
  <2>3. CASE RestoreCerts
    <3>1. job.script = "ssl" /\ job.id \in Id /\ job.op \in {"update", "delete"}
      BY <1>1, <2>1, <2>3, LoadsKeys DEF RestoreCerts
    <3>2. disk' = [disk EXCEPT !.certs = before.certs, !.link = before.link]
      BY <1>1, <2>1, <2>3, <3>1 DEF RestoreCerts, Backup, Changing
    <3>3. disk.rules = before.rules /\ disk.apps = before.apps /\ disk.dirs = before.dirs
      BY <2>1, <2>2, <3>1 DEF Requested, Disk
    <3>4. disk' = before
      BY <2>2, <3>2, <3>3, DiskEquality DEF Disk
    <3>5. QED
      BY <2>1, <3>4 DEF Ended
  <2>4. CASE RestoreRules
    <3>1. job.script = "waf" /\ job.op \in {"update", "delete"}
      BY <1>1, <2>1, <2>4, LoadsKeys DEF RestoreRules
    <3>2. disk' = [disk EXCEPT !.rules = before.rules]
      BY <1>1, <2>1, <2>4, <3>1 DEF RestoreRules, Backup, Changing
    <3>3. /\ disk.certs = before.certs /\ disk.link = before.link
          /\ disk.apps = before.apps /\ disk.dirs = before.dirs
      BY <2>1, <2>2, <3>1 DEF Requested, Disk
    <3>4. disk' = before
      BY <2>2, <3>2, <3>3, DiskEquality DEF Disk
    <3>5. QED
      BY <2>1, <3>4 DEF Ended
  <2>5. CASE RestoreApps /\ before.apps # None
    <3>1. job.script = "apps" /\ ~Removes
      BY <1>1, <2>5 DEF RestoreApps, JobInv
    <3>2. disk' = [disk EXCEPT !.apps = before.apps]
      BY <1>1, <2>1, <2>5, <3>1 DEF RestoreApps, Backup, Changing
    <3>3. /\ disk.certs = before.certs /\ disk.link = before.link
          /\ disk.rules = before.rules /\ disk.dirs = before.dirs
      BY <2>1, <2>2, <3>1 DEF Requested, Disk
    <3>4. disk' = before
      BY <2>2, <3>2, <3>3, DiskEquality DEF Disk
    <3>5. QED
      BY <2>1, <3>4 DEF Ended
  <2>6. CASE RestoreApps /\ before.apps = None
    BY <2>1, <2>6 DEF RestoreApps, Ended
  <2>7. QED
    BY <2>3, <2>4, <2>5, <2>6
<1>3. pc # "idle" /\ (~hurt' => ~hurt)
  BY <1>1 DEF NoFault, history
<1>4. QED
  BY <1>1, <1>2, <1>3, StepOutcome

LEMMA NextOutcome ==
  ASSUME TypeInv, JobInv, Outcome, [Next]_vars
  PROVE  Outcome'
<1>1. CASE UNCHANGED vars
  <2>1. UNCHANGED <<disk, ssl_tar, waf_tar, apps_backup, live, pc, job, before, hurt>>
    BY <1>1 DEF vars, history, saved
  <2>2. /\ Loads(before', job') <=> Loads(before, job)
        /\ ConfigTest(Requested(before', job')) <=> ConfigTest(Requested(before, job))
        /\ Requested(before', job') = Requested(before, job)
    BY <2>1
  <2>3. (Progress /\ Backup) => (Progress /\ Backup)'
    BY <2>1 DEF Progress, Backup, Removes, Changing, ConfigTest, Usable
  <2>4. QED
    BY <2>1, <2>2, <2>3 DEF Outcome, AcceptedIsLive, RejectedIsRestored
<1>2. ASSUME NEW j \in Job, Start(j) PROVE Outcome'
  <2>1. pc' = "read" /\ before' = disk /\ disk' = disk
    BY <1>2 DEF Start
  <2>2. (Progress /\ Backup)'
    BY <2>1 DEF Progress, Backup, Changing
  <2>3. QED
    BY <2>1, <2>2, OutcomeGoesOn
<1>3. CASE Crash
  BY <1>3, OutcomeEnds DEF Crash, Raise, Exit, Fault
<1>4. CASE Script
  BY <1>4, ReadOutcome, UpdateOutcome, WriteOutcome, LoadOutcome, RestoreOutcome
  DEF Script
<1>5. QED
  BY <1>1, <1>2, <1>3, <1>4 DEF Next

LEMMA OutcomeAlways == Spec => [](TypeInv /\ JobInv /\ Outcome)
<1>1. Init => TypeInv /\ JobInv /\ Outcome
  <2>1. Init => pc = "idle" /\ job = None
    BY DEF Init
  <2>2. pc = "idle" /\ job = None => Outcome
    BY DEF Outcome, AcceptedIsLive, RejectedIsRestored
  <2>3. QED
    BY <2>1, <2>2, InitTypeInv, InitLoadedInv
<1>2. TypeInv /\ JobInv /\ Outcome /\ [Next]_vars => (TypeInv /\ JobInv /\ Outcome)'
  BY NextTypeInv, NextJobInv, NextOutcome
<1>3. QED
  BY <1>1, <1>2, PTL DEF Spec

\* A complete job that Nginx accepts is on disk and loaded when its script has
\* ended, if nothing failed in it, whatever was left behind by earlier jobs.
THEOREM Accepted == Spec => []AcceptedIsLive
<1>1. Outcome => AcceptedIsLive
  BY DEF Outcome
<1>2. QED
  BY <1>1, OutcomeAlways, PTL

\* One that Nginx rejects leaves all files as they were.
THEOREM Restored == Spec => []RejectedIsRestored
<1>1. Outcome => RejectedIsRestored
  BY DEF Outcome
<1>2. QED
  BY <1>1, OutcomeAlways, PTL

----------------------------------------------------------------------------
(***************************************************************************)
(* The exit code of the script for applications.  Every way out of it      *)
(* before the test and every way back is an exit with another code, so     *)
(* that failures need no case of their own.                                *)
(***************************************************************************)

\* An update that has come to the test has its configuration on disk.
UpdateOfApps ==
  job.script = "apps" /\ Loads(before, job) /\ job.configs # None

SdkInv ==
  /\ SdkSuccessIsLive
  /\ pc \in {"test", "reload"} /\ UpdateOfApps => disk.apps = job.configs

LEMMA UpdateKeys ==
  ASSUME UpdateOfApps
  PROVE  /\ job.json /\ job.flags /\ job.op = "app-update" /\ job.renders
         /\ ~Removes /\ job.script = "apps"
BY DEF UpdateOfApps, Loads, Removes

LEMMA StepSdk ==
  ASSUME SdkInv, pc # "idle", before' = before, job' = job,
         UpdateOfApps => /\ pc' = "idle" /\ code' = 0 => disk'.apps = job.configs /\ live' = disk'
                         /\ pc' \in {"test", "reload"} => disk'.apps = job.configs
  PROVE  SdkInv'
BY DEF SdkInv, SdkSuccessIsLive, UpdateOfApps

LEMMA NextSdkInv ==
  ASSUME TypeInv, JobInv, SdkInv, [Next]_vars
  PROVE  SdkInv'
<1>1. CASE UNCHANGED vars
  BY <1>1 DEF vars, history, SdkInv, SdkSuccessIsLive, UpdateOfApps
<1>2. ASSUME NEW j \in Job, Start(j) PROVE SdkInv'
  BY <1>2 DEF Start, SdkInv, SdkSuccessIsLive
<1>3. ASSUME Script \/ Crash
      PROVE  pc # "idle" /\ before' = before /\ job' = job
  BY <1>3 DEF Script, Read, BackupCerts, BackupRules, WriteCert, WriteKey,
     Link, WriteRules, RemoveCerts, RemoveRules, ReadApps, RemoveApps,
     BackupApps, WriteApps, Test, Reload, RestoreCerts, RestoreRules,
     RestoreApps, Crash, At, NoFault, Fault, Same, history
<1>4. ASSUME Script \/ Crash, UpdateOfApps,
             (pc' = "idle" /\ code' = 0) \/ pc' \in {"test", "reload"}
      PROVE  disk'.apps = job.configs /\ (pc' = "idle" => live' = disk')
  <2> USE <1>4, UpdateKeys DEF At, Go, Exit, Raise
  <2>1. CASE Crash
    BY <2>1 DEF Crash
  <2>2. CASE Read \/ BackupCerts \/ BackupRules \/ WriteCert \/ WriteKey \/ Link
             \/ WriteRules \/ RemoveCerts \/ RemoveRules \/ RestoreCerts \/ RestoreRules
    BY <2>2 DEF Read, BackupCerts, BackupRules, WriteCert, WriteKey, Link,
       WriteRules, RemoveCerts, RemoveRules, RestoreCerts, RestoreRules
  <2>3. CASE ReadApps \/ BackupApps
    BY <2>3 DEF ReadApps, BackupApps, UpdateOfApps
  <2>4. CASE RemoveApps
    BY <2>4 DEF RemoveApps, JobInv
  <2>5. CASE WriteApps
    <3>1. pc' = "test" /\ disk' = [disk EXCEPT !.apps = job.configs]
      BY <2>5 DEF WriteApps
    <3>2. QED
      BY <3>1 DEF TypeInv, STypeOK, Disk
  <2>6. CASE Test
    <3>1. pc' \in {"reload", "restore"} /\ disk' = disk /\ pc = "test"
      BY <2>6 DEF Test, Rejected
    <3>2. QED
      BY <3>1 DEF SdkInv
  <2>7. CASE Reload
    <3>1. pc' = "idle" /\ disk' = disk /\ live' = disk /\ pc = "reload"
      BY <2>7 DEF Reload, Rejected
    <3>2. QED
      BY <3>1 DEF SdkInv
  <2>8. CASE RestoreApps
    BY <2>8 DEF RestoreApps
  <2>9. QED
    BY <2>1, <2>2, <2>3, <2>4, <2>5, <2>6, <2>7, <2>8 DEF Script
<1>5. ASSUME Script \/ Crash PROVE SdkInv'
  BY <1>3, <1>4, <1>5, StepSdk
<1>6. QED
  BY <1>1, <1>2, <1>5 DEF Next

\* Exit code 0 of an update of the applications means that Nginx runs it, even
\* if something has failed: the configuration daemon decides by it.
THEOREM SdkSuccess == Spec => []SdkSuccessIsLive
<1>1. Init => SdkInv
  <2>1. Init => pc = "idle" /\ job = None
    BY DEF Init
  <2>2. QED
    BY <2>1 DEF SdkInv, SdkSuccessIsLive
<1>2. SdkInv => SdkSuccessIsLive
  BY DEF SdkInv
<1>3. TypeInv /\ JobInv /\ SdkInv /\ [Next]_vars => SdkInv'
  BY NextSdkInv
<1>4. QED
  BY <1>1, <1>2, <1>3, OutcomeAlways, PTL DEF Spec
=============================================================================
