--------------------- MODULE ConfigTransaction_proofs ---------------------
EXTENDS ConfigTransaction, SequenceTheorems, TLAPS

(***************************************************************************)
(* The stacks of rollbacks, as the operations build them.                  *)
(***************************************************************************)
LEMMA Stacks ==
  /\ Append(<<>>, "restore") = <<"restore">>
  /\ PushReload(<<"restore">>) = <<"reload", "restore">>
  /\ Last(<<"restore">>) = "restore" /\ Front(<<"restore">>) = <<>>
  /\ Last(<<"reload">>) = "reload" /\ Front(<<"reload">>) = <<>>
  /\ Last(<<"reload", "restore">>) = "restore"
  /\ Front(<<"reload", "restore">>) = <<"reload">>
<1>1. Append(<<>>, "restore") = <<"restore">>
  OBVIOUS
<1>2. PushReload(<<"restore">>) = <<"reload", "restore">>
  <2> DEFINE s == <<"reload">> \o <<"restore">>
             t == <<"reload", "restore">>
  <2>1. <<"reload">> \in Seq({"reload", "restore"}) /\ <<"restore">> \in Seq({"reload", "restore"})
    OBVIOUS
  <2>2. s \in Seq({"reload", "restore"}) /\ Len(s) = 2 /\ s[1] = "reload" /\ s[2] = "restore"
    BY <2>1, ConcatProperties
  <2>3. t \in Seq({"reload", "restore"}) /\ Len(t) = 2 /\ t[1] = "reload" /\ t[2] = "restore"
    OBVIOUS
  <2>4. \A i \in 1 .. Len(s) : s[i] = t[i]
    BY <2>2, <2>3
  <2>5. s = t
    BY <2>2, <2>3, <2>4, SeqEqual
  <2>6. QED
    BY <2>5 DEF PushReload
<1>3. Last(<<"restore">>) = "restore" /\ Front(<<"restore">>) = <<>>
  BY DEF Last, Front
<1>4. Last(<<"reload">>) = "reload" /\ Front(<<"reload">>) = <<>>
  BY DEF Last, Front
<1>5. Last(<<"reload", "restore">>) = "restore"
  BY DEF Last
<1>6. Front(<<"reload", "restore">>) = <<"reload">>
  <2> DEFINE s == SubSeq(<<"reload", "restore">>, 1, 1)
             t == <<"reload">>
  <2>1. \A i \in 1 .. 1 : <<"reload", "restore">>[i] \in {"reload", "restore"}
    OBVIOUS
  <2>2. s \in Seq({"reload", "restore"}) /\ Len(s) = 1 /\ s[1] = "reload"
    BY <2>1, SubSeqProperties
  <2>3. t \in Seq({"reload", "restore"}) /\ Len(t) = 1 /\ t[1] = "reload"
    OBVIOUS
  <2>4. \A i \in 1 .. Len(s) : s[i] = t[i]
    BY <2>2, <2>3
  <2>5. s = t
    BY <2>2, <2>3, <2>4, SeqEqual
  <2>6. QED
    BY <2>5 DEF Front
<1>7. QED
  BY <1>1, <1>2, <1>3, <1>4, <1>5, <1>6

----------------------------------------------------------------------------
(***************************************************************************)
(* Every command is a sequence of steps of the right type.                 *)
(***************************************************************************)
LEMMA GlobalSteps ==
  /\ \A op \in GlobalOps \union FlagOps \union {"raise"} : Do(op, None) \in Step
  /\ \A op \in SiteOps, s \in Site : Do(op, s) \in Step
  /\ \A op \in NginxOps, s \in Site, v \in NVar : Put(op, s, v) \in Step
  /\ \A op \in VarnishOps, s \in Site, v \in VVar : Put(op, s, v) \in Step
BY DEF Do, Put, Step

LEMMA FlagSteps ==
  {WebOn, WebOff, VarnishOn, VarnishOff, Raise} \subseteq Step
BY GlobalSteps DEF WebOn, WebOff, VarnishOn, VarnishOff, Raise, FlagOps

LEMMA ConfigureSiteType ==
  ASSUME NEW c \in Command, c.site \in Site
  PROVE  ConfigureSite(c) \in Seq(Step)
<1> DEFINE t == IF c.templates
                  THEN <<Do("write_templates", c.site), WebOn>> ELSE <<>>
           u == IF c.nvars = None
                  THEN <<Raise>>
                  ELSE <<Put("write_conf", c.site, c.nvars),
                         Do("fixup_certs", c.site), WebOn,
                         Do("enable_site", c.site),
                         Put("save_vars", c.site, c.nvars), WebOn>>
<1>1. t \in Seq(Step)
  BY GlobalSteps, FlagSteps DEF SiteOps
<1>2. u \in Seq(Step)
  <2>1. c.nvars \in NVar \union {None}
    BY DEF Command
  <2>2. QED
    BY <2>1, GlobalSteps, FlagSteps DEF SiteOps, NginxOps
<1>3. QED
  BY <1>1, <1>2, ConcatProperties DEF ConfigureSite

LEMMA CommandStepsType ==
  ASSUME NEW c \in Command, NEW vchanged \in Flag, NEW cchanged \in Flag
  PROVE  CommandSteps(c, vchanged, cchanged) \in Seq(Step)
<1>1. /\ c.type \in {"flush", "varnish_template", "delete", "batch", "config",
                     "force", "certs"}
      /\ c.type \notin {"flush", "varnish_template"} => c.site \in Site
      /\ c.vvars \in VVar \union {None}
  BY DEF Command
<1>2. CASE c.type = "flush"
  BY <1>2, GlobalSteps, FlagSteps DEF CommandSteps, FlushSteps, GlobalOps
<1>3. CASE c.type = "varnish_template"
  BY <1>3, GlobalSteps, FlagSteps DEF CommandSteps, TemplateSteps, GlobalOps
<1>4. CASE c.type = "delete"
  BY <1>1, <1>4, GlobalSteps, FlagSteps DEF CommandSteps, DeleteSteps, SiteOps
<1>5. CASE c.type = "certs"
  BY <1>1, <1>5, GlobalSteps, FlagSteps DEF CommandSteps, CertsSteps, SiteOps
<1> DEFINE v == ConfigVsite(c)
           off == <<VarnishOff>>
<1>6. c.vvars # None /\ c.site \in Site =>
        v \in Seq(Step) /\ v \o off \in Seq(Step)
  <2>1. off \in Seq(Step)
    BY FlagSteps
  <2>2. c.vvars # None /\ c.site \in Site => v \in Seq(Step)
    BY <1>1, GlobalSteps, FlagSteps DEF ConfigVsite, VarnishOps
  <2>3. QED
    BY <2>1, <2>2, ConcatProperties
<1>7. CASE c.type = "batch"
  <2> DEFINE w == IF c.vvars = None THEN <<>> ELSE v \o off
  <2>1. ConfigureSite(c) \in Seq(Step) /\ w \in Seq(Step)
    BY <1>1, <1>6, <1>7, ConfigureSiteType
  <2>2. ConfigureSite(c) \o w \in Seq(Step) /\ <<WebOff>> \in Seq(Step)
    BY <2>1, FlagSteps, ConcatProperties
  <2>3. (ConfigureSite(c) \o w) \o <<WebOff>> \in Seq(Step)
    BY <2>2, ConcatProperties
  <2>4. QED
    BY <1>7, <2>3 DEF CommandSteps, BatchSteps
<1>8. CASE c.type \in {"config", "force"}
  <2> DEFINE w == ConfigVarnishSteps(c, vchanged)
             x == <<IF cchanged = TRUE THEN WebOn ELSE WebOff>>
             y == IF c.type = "force" THEN <<WebOn, VarnishOn>> ELSE <<>>
  <2>1. ConfigureSite(c) \in Seq(Step)
    BY <1>1, <1>8, ConfigureSiteType
  <2>2. w \in Seq(Step)
    BY <1>1, <1>6, <1>8, GlobalSteps, FlagSteps
       DEF ConfigVarnishSteps, Flag, SiteOps
  <2>3. x \in Seq(Step) /\ y \in Seq(Step)
    BY FlagSteps
  <2>4. ConfigureSite(c) \o w \in Seq(Step)
    BY <2>1, <2>2, ConcatProperties
  <2>5. (ConfigureSite(c) \o w) \o x \in Seq(Step)
    BY <2>3, <2>4, ConcatProperties
  <2>6. ((ConfigureSite(c) \o w) \o x) \o y \in Seq(Step)
    BY <2>3, <2>5, ConcatProperties
  <2>7. QED
    BY <1>8, <2>6 DEF CommandSteps, ConfigSteps
<1>9. QED
  BY <1>1, <1>2, <1>3, <1>4, <1>5, <1>7, <1>8

----------------------------------------------------------------------------
(***************************************************************************)
(* Every file operation maps a state of the files to a state of the files. *)
(***************************************************************************)
LEMMA EffectType ==
  ASSUME NEW s \in Step, s.op \in FileOps, NEW d \in Disk
  PROVE  Effect(s, d) \in Disk
<1> USE DEF Disk, NConf, VConf
<1>1. CASE s.op \in GlobalOps
  BY <1>1 DEF GlobalOps, Effect, NoConf
<1>2. CASE s.op \in SiteOps
  <2>1. s.site \in Site
    BY <1>2 DEF Step, SiteOps, GlobalOps, FlagOps, NginxOps, VarnishOps
  <2>2. QED
    BY <1>2, <2>1 DEF SiteOps, Effect
<1>3. CASE s.op \in NginxOps
  <2>1. s.site \in Site /\ s.val \in NVar
    BY <1>3 DEF Step, SiteOps, GlobalOps, FlagOps, NginxOps, VarnishOps
  <2>2. QED
    BY <1>3, <2>1 DEF NginxOps, Effect
<1>4. CASE s.op \in VarnishOps
  <2>1. s.site \in Site /\ s.val \in VVar
    BY <1>4 DEF Step, SiteOps, GlobalOps, FlagOps, NginxOps, VarnishOps
  <2>2. QED
    BY <1>4, <2>1 DEF VarnishOps, Effect
<1>5. QED
  BY <1>1, <1>2, <1>3, <1>4 DEF FileOps

LEMMA RenderType ==
  ASSUME NEW d \in Disk
  PROVE  /\ Rendered(d) \in NConf
         /\ [d EXCEPT !.vcl = RenderedVcl(d)] \in Disk
         /\ d.vcl \in VConf
         /\ EmptyDisk \in Disk /\ NoConf \in NConf /\ NoConf \in VConf
BY DEF Disk, NConf, VConf, Rendered, RenderedVcl, EmptyDisk, NoConf

----------------------------------------------------------------------------
(***************************************************************************)
(* Type correctness, for every set of processes.  The stack of rollbacks   *)
(* has the shape that the point in the call determines.                    *)
(***************************************************************************)
StackInv ==
  \A p \in Process :
    /\ pc[p] \in {"idle", "backup"} => rollbacks[p] = <<>>
    /\ pc[p] \in {"commands", "load_nginx"} => rollbacks[p] = <<"restore">>
    /\ pc[p] \in {"varnish", "load_varnish", "save"} =>
         rollbacks[p] \in {<<"restore">>, <<"reload", "restore">>}
    /\ pc[p] # "idle" => job[p] \in Jobs /\ outcome[p] = "none"

TypeInv == TypeOK /\ StackInv

LEMMA StacksDiffer ==
  /\ <<>> # <<"restore">> /\ <<>> # <<"reload">>
  /\ <<>> # <<"reload", "restore">>
  /\ <<"restore">> # <<"reload">> /\ <<"restore">> # <<"reload", "restore">>
  /\ <<"reload">> # <<"reload", "restore">>
OBVIOUS

LEMMA InitTypeInv == Init => TypeInv
<1> SUFFICES ASSUME Init PROVE TypeInv
  OBVIOUS
<1>1. EmptyDisk \in Disk /\ NoConf \in NConf /\ NoConf \in VConf
  BY DEF EmptyDisk, Disk, NoConf, NConf, VConf
<1>2. <<>> \in Seq(Command) /\ <<>> \in Seq(Step)
  OBVIOUS
<1>3. QED
  BY <1>1, <1>2, ValuesAssumption
     DEF Init, TypeInv, TypeOK, StackInv, RollbackStacks

LEMMA BeginTypeInv ==
  ASSUME TypeInv, NEW p \in Process, NEW j \in Jobs, Begin(p, j)
  PROVE  TypeInv'
<1>1. j.commands \in Seq(Command)
  BY JobsAssumption
<1>2. TypeOK'
  BY <1>1 DEF TypeInv, TypeOK, Begin, RollbackStacks
<1>3. StackInv'
  BY DEF TypeInv, TypeOK, StackInv, Begin
<1>4. QED
  BY <1>2, <1>3 DEF TypeInv

LEMMA CommandsTypeInv ==
  ASSUME TypeInv, NEW p \in Process, Commands(p)
  PROVE  TypeInv'
<1> USE DEF TypeInv, Goto, transaction, history
<1>1. CASE Backup(p)
  <2>1. rollbacks' = [rollbacks EXCEPT ![p] = <<"restore">>]
    BY <1>1, Stacks DEF TypeOK, StackInv, Backup
  <2>2. TypeOK'
    BY <1>1, <2>1 DEF TypeOK, Backup, RollbackStacks
  <2>3. StackInv'
    BY <1>1, <2>1 DEF TypeOK, StackInv, Backup
  <2>4. QED
    BY <2>2, <2>3
<1>2. CASE BackupFails(p)
  <2>1. TypeOK'
    BY <1>2, ValuesAssumption DEF TypeOK, BackupFails, End, Fault, RollbackStacks
  <2>2. StackInv'
    BY <1>2 DEF TypeOK, StackInv, BackupFails, End
  <2>3. QED
    BY <2>1, <2>2
<1>3. CASE NextCommand(p)
  <2>1. Head(cmds[p]) \in Command /\ Tail(cmds[p]) \in Seq(Command)
    BY <1>3, HeadTailProperties DEF TypeOK, NextCommand
  <2>2. job[p] \in Jobs
    BY <1>3 DEF StackInv, NextCommand
  <2>3. CommandSteps(Head(cmds[p]), job[p].varnish_changed,
                     job[p].config_changed) \in Seq(Step)
    BY <2>1, <2>2, CommandStepsType, JobsAssumption
  <2>4. TypeOK'
    BY <1>3, <2>1, <2>3 DEF TypeOK, NextCommand
  <2>5. StackInv'
    BY <1>3 DEF StackInv, NextCommand
  <2>6. QED
    BY <2>4, <2>5
<1>4. CASE RunStep(p)
  <2>1. Head(todo[p]) \in Step /\ Tail(todo[p]) \in Seq(Step)
    BY <1>4, HeadTailProperties DEF TypeOK, RunStep, AtStep
  <2>2. Effect(Head(todo[p]), disk) \in Disk
    BY <1>4, <2>1, EffectType DEF TypeOK, RunStep
  <2>3. TypeOK'
    BY <1>4, <2>1, <2>2 DEF TypeOK, RunStep
  <2>4. StackInv'
    BY <1>4 DEF StackInv, RunStep
  <2>5. QED
    BY <2>3, <2>4
<1>5. CASE RunStepFails(p)
  <2>1. TypeOK'
    BY <1>5, ValuesAssumption DEF TypeOK, RunStepFails, Fault
  <2>2. StackInv'
    BY <1>5 DEF TypeOK, StackInv, RunStepFails
  <2>3. QED
    BY <2>1, <2>2
<1>6. CASE Schedule(p)
  <2>1. Tail(todo[p]) \in Seq(Step)
    BY <1>6, HeadTailProperties DEF TypeOK, Schedule, AtStep
  <2>2. TypeOK'
    BY <1>6, <2>1 DEF TypeOK, Schedule
  <2>3. StackInv'
    BY <1>6 DEF StackInv, Schedule
  <2>4. QED
    BY <2>2, <2>3
<1>7. CASE RaiseOutside(p)
  <2>1. TypeOK'
    BY <1>7 DEF TypeOK, RaiseOutside, End, RollbackStacks
  <2>2. StackInv'
    BY <1>7 DEF TypeOK, StackInv, RaiseOutside, End
  <2>3. QED
    BY <2>1, <2>2
<1>8. QED
  BY <1>1, <1>2, <1>3, <1>4, <1>5, <1>6, <1>7 DEF Commands

LEMMA FinalizeTypeInv ==
  ASSUME TypeInv, NEW p \in Process, Finalize(p)
  PROVE  TypeInv'
<1> USE DEF TypeInv, Goto, transaction, history
<1>1. CASE SkipNginx(p)
  BY <1>1 DEF TypeOK, StackInv, SkipNginx, Finished
<1>2. CASE CheckNginx(p)
  BY <1>2 DEF TypeOK, StackInv, CheckNginx, Finished
<1>3. CASE LoadNginx(p)
  <2>1. rollbacks' = [rollbacks EXCEPT ![p] = <<"reload", "restore">>]
    BY <1>3, Stacks DEF TypeOK, StackInv, LoadNginx
  <2>2. nginx' \in NConf
    BY <1>3, RenderType DEF TypeOK, LoadNginx, Reloaded
  <2>3. TypeOK'
    BY <1>3, <2>1, <2>2 DEF TypeOK, LoadNginx, RollbackStacks
  <2>4. StackInv'
    BY <1>3, <2>1 DEF TypeOK, StackInv, LoadNginx
  <2>5. QED
    BY <2>3, <2>4
<1>4. CASE LoadNginxFails(p)
  BY <1>4, ValuesAssumption DEF TypeOK, StackInv, LoadNginxFails, Fault
<1>5. CASE SkipVarnish(p)
  BY <1>5 DEF TypeOK, StackInv, SkipVarnish
<1>6. CASE WriteVcl(p)
  <2>1. disk' \in Disk
    BY <1>6, RenderType DEF TypeOK, WriteVcl
  <2>2. QED
    BY <1>6, <2>1 DEF TypeOK, StackInv, WriteVcl
<1>7. CASE WriteVclFails(p)
  BY <1>7, ValuesAssumption DEF TypeOK, StackInv, WriteVclFails, Fault
<1>8. CASE LoadVarnish(p)
  <2>1. varnish' \in VConf
    BY <1>8, RenderType DEF TypeOK, LoadVarnish
  <2>2. QED
    BY <1>8, <2>1 DEF TypeOK, StackInv, LoadVarnish
<1>9. CASE LoadVarnishFails(p)
  BY <1>9, ValuesAssumption DEF TypeOK, StackInv, LoadVarnishFails, Fault
<1>10. CASE SaveBackup(p)
  <2>1. TypeOK'
    BY <1>10 DEF TypeOK, SaveBackup, End, RollbackStacks
  <2>2. StackInv'
    BY <1>10 DEF TypeOK, StackInv, SaveBackup, End
  <2>3. QED
    BY <2>1, <2>2
<1>11. CASE SaveBackupFails(p)
  <2>1. TypeOK'
    BY <1>11, ValuesAssumption
       DEF TypeOK, SaveBackupFails, End, Fault, RollbackStacks
  <2>2. StackInv'
    BY <1>11 DEF TypeOK, StackInv, SaveBackupFails, End
  <2>3. QED
    BY <2>1, <2>2
<1>12. QED
  BY <1>1, <1>2, <1>3, <1>4, <1>5, <1>6, <1>7, <1>8, <1>9, <1>10, <1>11
     DEF Finalize

\* What a pop leaves, given what is on top.
LEMMA PopStack ==
  ASSUME TypeInv, NEW p \in Process, NEW what, RollingBack(p, what), Pop(p)
  PROVE  \/ /\ what = "restore" /\ rollbacks[p] = <<"restore">>
            /\ rollbacks' = [rollbacks EXCEPT ![p] = <<>>]
         \/ /\ what = "restore" /\ rollbacks[p] = <<"reload", "restore">>
            /\ rollbacks' = [rollbacks EXCEPT ![p] = <<"reload">>]
         \/ /\ what = "reload" /\ rollbacks[p] = <<"reload">>
            /\ rollbacks' = [rollbacks EXCEPT ![p] = <<>>]
<1>1. rollbacks[p] \in {<<"restore">>, <<"reload", "restore">>, <<"reload">>}
  BY DEF TypeInv, TypeOK, RollbackStacks, RollingBack
<1>2. CASE rollbacks[p] = <<"restore">>
  BY <1>2, Stacks DEF RollingBack, Top, Pop
<1>3. CASE rollbacks[p] = <<"reload", "restore">>
  BY <1>3, Stacks DEF RollingBack, Top, Pop
<1>4. CASE rollbacks[p] = <<"reload">>
  BY <1>4, Stacks DEF RollingBack, Top, Pop
<1>5. QED
  BY <1>1, <1>2, <1>3, <1>4

LEMMA RollbackTypeInv ==
  ASSUME TypeInv, NEW p \in Process, Rollback(p)
  PROVE  TypeInv'
<1> USE DEF TypeInv, transaction, history
<1>1. CASE Restore(p)
  <2>1. \E st \in RollbackStacks : rollbacks' = [rollbacks EXCEPT ![p] = st]
    BY <1>1, PopStack DEF Restore, RollbackStacks
  <2>2. TypeOK'
    BY <1>1, <2>1, ValuesAssumption DEF TypeOK, Restore
  <2>3. StackInv'
    BY <1>1, <2>1 DEF TypeOK, StackInv, Restore, RollingBack
  <2>4. QED
    BY <2>2, <2>3
<1>2. CASE RestoreFails(p)
  <2>1. disk' \in Disk
    BY <1>2, RenderType DEF TypeOK, RestoreFails
  <2>2. TypeOK'
    BY <1>2, <2>1, ValuesAssumption
       DEF TypeOK, RestoreFails, End, Fault, RollbackStacks
  <2>3. StackInv'
    BY <1>2 DEF TypeOK, StackInv, RestoreFails, End
  <2>4. QED
    BY <2>2, <2>3
<1>3. CASE ReloadAgain(p)
  <2>1. \E st \in RollbackStacks : rollbacks' = [rollbacks EXCEPT ![p] = st]
    BY <1>3, PopStack DEF ReloadAgain, RollbackStacks
  <2>2. TypeOK'
    BY <1>3, <2>1, RenderType DEF TypeOK, ReloadAgain
  <2>3. StackInv'
    BY <1>3, <2>1 DEF TypeOK, StackInv, ReloadAgain, RollingBack
  <2>4. QED
    BY <2>2, <2>3
<1>4. CASE ReloadAgainFails(p)
  <2>1. TypeOK'
    BY <1>4, ValuesAssumption
       DEF TypeOK, ReloadAgainFails, End, Fault, RollbackStacks
  <2>2. StackInv'
    BY <1>4 DEF TypeOK, StackInv, ReloadAgainFails, End
  <2>3. QED
    BY <2>1, <2>2
<1>5. CASE RolledBack(p)
  <2>1. TypeOK'
    BY <1>5 DEF TypeOK, RolledBack, End, RollbackStacks
  <2>2. StackInv'
    BY <1>5 DEF TypeOK, StackInv, RolledBack, End
  <2>3. QED
    BY <2>1, <2>2
<1>6. QED
  BY <1>1, <1>2, <1>3, <1>4, <1>5 DEF Rollback

LEMMA CrashTypeInv ==
  ASSUME TypeInv, NEW p \in Process, Crash(p)
  PROVE  TypeInv'
<1>1. TypeOK'
  BY ValuesAssumption
     DEF TypeInv, TypeOK, Crash, End, Fault, RollbackStacks, history
<1>2. StackInv'
  BY DEF TypeInv, TypeOK, StackInv, Crash, End, history
<1>3. QED
  BY <1>1, <1>2 DEF TypeInv

LEMMA NextTypeInv == TypeInv /\ [Next]_vars => TypeInv'
<1> SUFFICES ASSUME TypeInv, [Next]_vars PROVE TypeInv'
  OBVIOUS
<1>1. CASE UNCHANGED vars
  BY <1>1 DEF TypeInv, TypeOK, StackInv, vars, transaction, history
<1>2. CASE Next
  BY <1>2, BeginTypeInv, CommandsTypeInv, FinalizeTypeInv, RollbackTypeInv,
     CrashTypeInv DEF Next, Run
<1>3. QED
  BY <1>1, <1>2

\* The variables of every process, the files and both servers keep their
\* types; a transaction never holds anything but the restore of its backup,
\* with at most one reload of Nginx below it.
THEOREM TypeCorrect == Spec => []TypeOK
<1>1. Spec => []TypeInv
  BY InitTypeInv, NextTypeInv, PTL DEF Spec
<1>2. TypeInv => TypeOK
  BY DEF TypeInv
<1>3. QED
  BY <1>1, <1>2, PTL

----------------------------------------------------------------------------
(***************************************************************************)
(* A process that is alone on the machine.  As long as it can restore, the *)
(* tar is the files it found (and Nginx is untouched until the reload is   *)
(* in its stack); once it has restored, the files are those.               *)
(***************************************************************************)
AtomicInv ==
  \A p \in Process :
    /\ pc[p] = "backup" => disk = before[p] /\ nginx = nginxBefore[p]
    /\ rollbacks[p] \in {<<"restore">>, <<"reload", "restore">>} =>
         tar = before[p]
    /\ rollbacks[p] = <<"restore">> => nginx = nginxBefore[p]
    /\ pc[p] = "rollback" /\ rollbacks[p] \in {<<>>, <<"reload">>} =>
         disk = before[p]
    /\ pc[p] = "rollback" /\ rollbacks[p] = <<>> =>
         nginx \in {nginxBefore[p], Rendered(disk)}
    /\ outcome[p] = "rolled_back" =>
         /\ disk = before[p]
         /\ nginx \in {nginxBefore[p], Rendered(disk)}

Alone == \A p, q \in Process : p = q

LEMMA BeginAtomic ==
  ASSUME Alone, TypeInv, AtomicInv, NEW p \in Process, NEW j \in Jobs,
         Begin(p, j)
  PROVE  AtomicInv'
BY StacksDiffer DEF Alone, TypeInv, TypeOK, StackInv, AtomicInv, Begin

LEMMA CommandsAtomic ==
  ASSUME Alone, TypeInv, AtomicInv, NEW p \in Process, Commands(p)
  PROVE  AtomicInv'
<1> USE StacksDiffer DEF Alone, TypeInv, TypeOK, StackInv, AtomicInv, Goto,
                         transaction, history
<1>1. CASE Backup(p)
  <2>1. rollbacks' = [rollbacks EXCEPT ![p] = <<"restore">>]
    BY <1>1, Stacks DEF Backup
  <2>2. QED
    BY <1>1, <2>1 DEF Backup
<1>2. CASE BackupFails(p)
  BY <1>2 DEF BackupFails, End
<1>3. CASE NextCommand(p)
  BY <1>3 DEF NextCommand
<1>4. CASE RunStep(p)
  BY <1>4 DEF RunStep, AtStep
<1>5. CASE RunStepFails(p)
  BY <1>5 DEF RunStepFails, AtStep
<1>6. CASE Schedule(p)
  BY <1>6 DEF Schedule, AtStep
<1>7. CASE RaiseOutside(p)
  BY <1>7 DEF RaiseOutside, AtStep, End
<1>8. QED
  BY <1>1, <1>2, <1>3, <1>4, <1>5, <1>6, <1>7 DEF Commands

LEMMA FinalizeAtomic ==
  ASSUME Alone, TypeInv, AtomicInv, NEW p \in Process, Finalize(p)
  PROVE  AtomicInv'
<1> USE StacksDiffer DEF Alone, TypeInv, TypeOK, StackInv, AtomicInv, Goto,
                         transaction, history
<1>1. CASE SkipNginx(p)
  BY <1>1 DEF SkipNginx, Finished
<1>2. CASE CheckNginx(p)
  BY <1>2 DEF CheckNginx, Finished
<1>3. CASE LoadNginx(p)
  <2>1. rollbacks' = [rollbacks EXCEPT ![p] = <<"reload", "restore">>]
    BY <1>3, Stacks DEF LoadNginx
  <2>2. /\ disk' = disk /\ tar' = tar /\ outcome' = outcome
        /\ before' = before /\ pc'[p] = "varnish" /\ outcome[p] = "none"
    BY <1>3 DEF LoadNginx
  <2>3. tar = before[p]
    BY <1>3 DEF LoadNginx
  <2>4. rollbacks'[p] = <<"reload", "restore">>
    BY <2>1
  <2>5. QED
    BY <2>2, <2>3, <2>4
<1>4. CASE LoadNginxFails(p)
  BY <1>4 DEF LoadNginxFails
<1>5. CASE SkipVarnish(p)
  BY <1>5 DEF SkipVarnish
<1>6. CASE WriteVcl(p)
  BY <1>6 DEF WriteVcl
<1>7. CASE WriteVclFails(p)
  BY <1>7 DEF WriteVclFails
<1>8. CASE LoadVarnish(p)
  BY <1>8 DEF LoadVarnish
<1>9. CASE LoadVarnishFails(p)
  BY <1>9 DEF LoadVarnishFails
<1>10. CASE SaveBackup(p)
  BY <1>10 DEF SaveBackup, End
<1>11. CASE SaveBackupFails(p)
  BY <1>11 DEF SaveBackupFails, End
<1>12. QED
  BY <1>1, <1>2, <1>3, <1>4, <1>5, <1>6, <1>7, <1>8, <1>9, <1>10, <1>11
     DEF Finalize

LEMMA RollbackAtomic ==
  ASSUME Alone, TypeInv, AtomicInv, NEW p \in Process, Rollback(p)
  PROVE  AtomicInv'
<1> USE StacksDiffer DEF Alone, TypeInv, TypeOK, StackInv, AtomicInv,
                         RollingBack, transaction, history
<1>1. CASE Restore(p)
  <2>1. Pop(p) /\ RollingBack(p, "restore")
    BY <1>1 DEF Restore
  <2>2. CASE rollbacks[p] = <<"restore">>
    <3>1. rollbacks' = [rollbacks EXCEPT ![p] = <<>>]
      BY <2>1, <2>2, PopStack
    <3>2. QED
      BY <1>1, <2>2, <3>1 DEF Restore
  <2>3. CASE rollbacks[p] = <<"reload", "restore">>
    <3>1. rollbacks' = [rollbacks EXCEPT ![p] = <<"reload">>]
      BY <2>1, <2>3, PopStack
    <3>2. QED
      BY <1>1, <2>3, <3>1 DEF Restore
  <2>4. QED
    BY <2>1, <2>2, <2>3, PopStack
<1>2. CASE RestoreFails(p)
  BY <1>2 DEF RestoreFails, End
<1>3. CASE ReloadAgain(p)
  <2>1. rollbacks[p] = <<"reload">> /\ rollbacks' = [rollbacks EXCEPT ![p] = <<>>]
    BY <1>3, PopStack DEF ReloadAgain
  <2>2. /\ nginx' = Rendered(disk) /\ disk' = disk /\ tar' = tar /\ pc' = pc
        /\ outcome' = outcome /\ before' = before
        /\ pc[p] = "rollback" /\ outcome[p] = "none"
    BY <1>3 DEF ReloadAgain
  <2>3. rollbacks'[p] = <<>>
    BY <2>1
  <2>4. QED
    BY <2>1, <2>2, <2>3
<1>4. CASE ReloadAgainFails(p)
  BY <1>4 DEF ReloadAgainFails, End
<1>5. CASE RolledBack(p)
  BY <1>5 DEF RolledBack, End
<1>6. QED
  BY <1>1, <1>2, <1>3, <1>4, <1>5 DEF Rollback

LEMMA CrashAtomic ==
  ASSUME Alone, TypeInv, AtomicInv, NEW p \in Process, Crash(p)
  PROVE  AtomicInv'
BY StacksDiffer
   DEF Alone, TypeInv, TypeOK, StackInv, AtomicInv, Crash, End, history

LEMMA NextAtomic ==
  ASSUME Alone
  PROVE  TypeInv /\ AtomicInv /\ [Next]_vars => AtomicInv'
<1> SUFFICES ASSUME TypeInv, AtomicInv, [Next]_vars PROVE AtomicInv'
  OBVIOUS
<1>1. CASE UNCHANGED vars
  BY <1>1 DEF AtomicInv, vars, transaction, history
<1>2. CASE Next
  BY Alone, <1>2, BeginAtomic, CommandsAtomic, FinalizeAtomic, RollbackAtomic,
     CrashAtomic DEF Next, Run
<1>3. QED
  BY <1>1, <1>2

LEMMA AtomicAlways == Alone => (Spec => [](TypeInv /\ AtomicInv))
<1> SUFFICES ASSUME Alone PROVE Spec => [](TypeInv /\ AtomicInv)
  OBVIOUS
<1>1. Init => TypeInv /\ AtomicInv
  BY InitTypeInv, StacksDiffer DEF Init, AtomicInv
<1>2. TypeInv /\ AtomicInv /\ [Next]_vars => (TypeInv /\ AtomicInv)'
  BY NextTypeInv, NextAtomic
<1>3. QED
  BY <1>1, <1>2, PTL DEF Spec

\* A call of a process that is alone and that raises inside
\* ConfigTransaction.run leaves every file as it found it.
THEOREM Atomic ==
  ASSUME Alone
  PROVE  Spec => []RestoredOnFailure
<1>1. TypeInv /\ AtomicInv => RestoredOnFailure
  BY DEF AtomicInv, RestoredOnFailure
<1>2. QED
  BY Alone, <1>1, AtomicAlways, PTL

\* ... and Nginx never keeps the configuration that was given up: it serves
\* what it served before, or what is in the files that were restored.
THEOREM NginxFollows ==
  ASSUME Alone
  PROVE  Spec => []NginxFollowsRollback
<1>1. TypeInv /\ AtomicInv => NginxFollowsRollback
  BY DEF AtomicInv, NginxFollowsRollback
<1>2. QED
  BY Alone, <1>1, AtomicAlways, PTL

----------------------------------------------------------------------------
(***************************************************************************)
(* What finalize has put live when it is at each of its steps.  Writing    *)
(* the VCL comes after the reload of Nginx and changes no file of a site,  *)
(* so that Nginx still serves the files when the call returns.             *)
(***************************************************************************)
NginxLive(p) == webserver_reload[p] => nginx = Rendered(disk)
VarnishLive(p) ==
  varnish_reload_cmd[p] # None /\ VarnishInstalled => varnish = RenderedVcl(disk)

LiveInv ==
  \A p \in Process :
    /\ pc[p] = "load_nginx" => ConfigTest(disk)
    /\ pc[p] \in {"varnish", "load_varnish", "save"} => NginxLive(p)
    /\ pc[p] = "load_varnish" => disk.vcl = RenderedVcl(disk)
    /\ pc[p] = "save" => VarnishLive(p)
    /\ outcome[p] = "ok" => NginxLive(p) /\ VarnishLive(p)

LEMMA VclIsNoSite ==
  ASSUME NEW d \in Disk, NEW v \in VConf
  PROVE  /\ Rendered([d EXCEPT !.vcl = v]) = Rendered(d)
         /\ RenderedVcl([d EXCEPT !.vcl = v]) = RenderedVcl(d)
         /\ [d EXCEPT !.vcl = v].vcl = v
BY DEF Disk, Rendered, RenderedVcl, Active

LEMMA CommandsLive ==
  ASSUME Alone, TypeInv, LiveInv, NEW p \in Process, Commands(p)
  PROVE  LiveInv'
<1> USE DEF Alone, TypeInv, TypeOK, StackInv, LiveInv, NginxLive, VarnishLive,
            Goto, transaction, history
<1>1. CASE Backup(p)
  BY <1>1 DEF Backup
<1>2. CASE BackupFails(p)
  BY <1>2 DEF BackupFails, End
<1>3. CASE NextCommand(p)
  BY <1>3 DEF NextCommand
<1>4. CASE RunStep(p)
  BY <1>4 DEF RunStep, AtStep
<1>5. CASE RunStepFails(p)
  BY <1>5 DEF RunStepFails, AtStep
<1>6. CASE Schedule(p)
  BY <1>6 DEF Schedule, AtStep
<1>7. CASE RaiseOutside(p)
  BY <1>7 DEF RaiseOutside, AtStep, End
<1>8. QED
  BY <1>1, <1>2, <1>3, <1>4, <1>5, <1>6, <1>7 DEF Commands

LEMMA FinalizeLive ==
  ASSUME Alone, TypeInv, LiveInv, NEW p \in Process, Finalize(p)
  PROVE  LiveInv'
<1> USE DEF Alone, TypeInv, TypeOK, StackInv, LiveInv, NginxLive, VarnishLive,
            Goto, transaction, history
<1>1. CASE SkipNginx(p)
  BY <1>1 DEF SkipNginx, Finished
<1>2. CASE CheckNginx(p)
  BY <1>2 DEF CheckNginx, Finished
<1>3. CASE LoadNginx(p)
  BY <1>3 DEF LoadNginx, Reloaded
<1>4. CASE LoadNginxFails(p)
  BY <1>4 DEF LoadNginxFails
<1>5. CASE SkipVarnish(p)
  BY <1>5 DEF SkipVarnish
<1>6. CASE WriteVcl(p)
  <2>1. /\ Rendered(disk') = Rendered(disk)
        /\ RenderedVcl(disk') = RenderedVcl(disk)
        /\ disk'.vcl = RenderedVcl(disk)
    <3>1. RenderedVcl(disk) \in VConf
      BY DEF RenderedVcl, Disk, VConf
    <3>2. QED
      BY <1>6, <3>1, VclIsNoSite DEF WriteVcl
  <2>2. /\ pc[p] = "varnish" /\ pc'[p] = "load_varnish" /\ nginx' = nginx
        /\ webserver_reload' = webserver_reload /\ outcome' = outcome
    BY <1>6 DEF WriteVcl
  <2>3. QED
    BY <2>1, <2>2
<1>7. CASE WriteVclFails(p)
  BY <1>7 DEF WriteVclFails
<1>8. CASE LoadVarnish(p)
  BY <1>8 DEF LoadVarnish
<1>9. CASE LoadVarnishFails(p)
  BY <1>9 DEF LoadVarnishFails
<1>10. CASE SaveBackup(p)
  BY <1>10 DEF SaveBackup, End
<1>11. CASE SaveBackupFails(p)
  BY <1>11 DEF SaveBackupFails, End
<1>12. QED
  BY <1>1, <1>2, <1>3, <1>4, <1>5, <1>6, <1>7, <1>8, <1>9, <1>10, <1>11
     DEF Finalize

LEMMA RollbackLive ==
  ASSUME Alone, TypeInv, LiveInv, NEW p \in Process, Rollback(p)
  PROVE  LiveInv'
<1> USE DEF Alone, TypeInv, TypeOK, StackInv, LiveInv, NginxLive, VarnishLive,
            RollingBack, transaction, history
<1>1. CASE Restore(p)
  BY <1>1 DEF Restore
<1>2. CASE RestoreFails(p)
  BY <1>2 DEF RestoreFails, End
<1>3. CASE ReloadAgain(p)
  BY <1>3 DEF ReloadAgain
<1>4. CASE ReloadAgainFails(p)
  BY <1>4 DEF ReloadAgainFails, End
<1>5. CASE RolledBack(p)
  BY <1>5 DEF RolledBack, End
<1>6. QED
  BY <1>1, <1>2, <1>3, <1>4, <1>5 DEF Rollback

LEMMA NextLive == Alone /\ TypeInv /\ LiveInv /\ [Next]_vars => LiveInv'
<1> SUFFICES ASSUME Alone, TypeInv, LiveInv, [Next]_vars PROVE LiveInv'
  OBVIOUS
<1>1. CASE UNCHANGED vars
  BY <1>1 DEF LiveInv, NginxLive, VarnishLive, vars, transaction, history
<1>2. ASSUME NEW p \in Process, NEW j \in Jobs, Begin(p, j) PROVE LiveInv'
  BY <1>2 DEF Alone, TypeInv, TypeOK, StackInv, LiveInv, NginxLive,
              VarnishLive, Begin
<1>3. ASSUME NEW p \in Process, Crash(p) PROVE LiveInv'
  BY <1>3 DEF Alone, TypeInv, TypeOK, StackInv, LiveInv, NginxLive,
              VarnishLive, Crash, End, history
<1>4. QED
  BY <1>1, <1>2, <1>3, CommandsLive, FinalizeLive, RollbackLive DEF Next, Run

\* A call of a process that is alone and that returns has put live whatever it
\* scheduled: after a reload Nginx serves the files as they are, and Varnish
\* the sites as they are.
THEOREM ReturnsLive ==
  ASSUME Alone
  PROVE  Spec => []LiveOnReturn
<1>1. Init => TypeInv /\ LiveInv
  BY InitTypeInv DEF Init, LiveInv
<1>2. TypeInv /\ LiveInv /\ [Next]_vars => (TypeInv /\ LiveInv)'
  BY Alone, NextTypeInv, NextLive
<1>3. LiveInv => LiveOnReturn
  BY DEF LiveInv, LiveOnReturn, NginxLive, VarnishLive
<1>4. QED
  BY <1>1, <1>2, <1>3, PTL DEF Spec

----------------------------------------------------------------------------
(* What the commands consist of, and what their steps do: lemmas for the     *)
(* callers of configure_all.                                                 *)

\* The elements of a sequence that is taken apart or put together.
LEMMA SetOfTail ==
  ASSUME NEW S, NEW q \in Seq(S), q # <<>>
  PROVE  /\ ToSet(q) = {Head(q)} \union ToSet(Tail(q))
         /\ ToSet(Tail(q)) \subseteq ToSet(q) /\ Head(q) \in ToSet(q)
<1>1. /\ DOMAIN q = 1..Len(q) /\ Len(q) \in Nat \ {0}
      /\ Head(q) = q[1] /\ DOMAIN Tail(q) = 1..(Len(q) - 1)
      /\ \A i \in 1..(Len(q) - 1) : Tail(q)[i] = q[i + 1]
  OBVIOUS
<1>2. \A i \in 1..Len(q) : i = 1 \/ i - 1 \in 1..(Len(q) - 1)
  BY <1>1
<1>3. \A i \in 1..Len(q) : i = 1 \/ q[i] = Tail(q)[i - 1]
  BY <1>1, <1>2
<1>4. \A i \in 1..(Len(q) - 1) : i + 1 \in 1..Len(q)
  BY <1>1
<1>5. ToSet(q) \subseteq {Head(q)} \union ToSet(Tail(q))
  <2>1. ASSUME NEW i \in 1..Len(q) PROVE q[i] = Head(q) \/ q[i] \in ToSet(Tail(q))
    <3>1. CASE i = 1
      BY <1>1, <3>1
    <3>2. CASE i # 1
      BY <1>1, <1>2, <1>3, <3>2 DEF ToSet
    <3>3. QED
      BY <3>1, <3>2
  <2>2. QED
    BY <1>1, <2>1 DEF ToSet
<1>6. ToSet(Tail(q)) \subseteq ToSet(q) /\ Head(q) \in ToSet(q)
  BY <1>1, <1>4 DEF ToSet
<1>7. QED
  BY <1>5, <1>6

LEMMA SetOfConcat ==
  ASSUME NEW S, NEW q \in Seq(S), NEW t \in Seq(S)
  PROVE  ToSet(q \o t) = ToSet(q) \union ToSet(t)
<1>1. /\ DOMAIN q = 1..Len(q) /\ DOMAIN t = 1..Len(t)
      /\ DOMAIN (q \o t) = 1..(Len(q) + Len(t))
      /\ Len(q) \in Nat /\ Len(t) \in Nat
  OBVIOUS
<1>2. \A i \in 1..Len(q) : i \in 1..(Len(q) + Len(t)) /\ (q \o t)[i] = q[i]
  BY <1>1
<1>3. \A i \in 1..Len(t) : /\ Len(q) + i \in 1..(Len(q) + Len(t))
                           /\ (q \o t)[Len(q) + i] = t[i]
  BY <1>1
<1>4. ASSUME NEW i \in 1..(Len(q) + Len(t))
      PROVE  \/ i \in 1..Len(q) /\ (q \o t)[i] = q[i]
             \/ i - Len(q) \in 1..Len(t) /\ (q \o t)[i] = t[i - Len(q)]
  BY <1>1
<1>5. ToSet(q \o t) \subseteq ToSet(q) \union ToSet(t)
  BY <1>1, <1>4 DEF ToSet
<1>6. ToSet(q) \subseteq ToSet(q \o t)
  BY <1>1, <1>2 DEF ToSet
<1>7. ToSet(t) \subseteq ToSet(q \o t)
  BY <1>1, <1>3 DEF ToSet
<1>8. QED
  BY <1>5, <1>6, <1>7

LEMMA SetsOfShort ==
  /\ ToSet(<<>>) = {}
  /\ \A a : ToSet(<<a>>) = {a}
  /\ \A a, b : ToSet(<<a, b>>) = {a, b}
<1>1. ToSet(<<>>) = {}
  BY DEF ToSet
<1>2. \A a : DOMAIN <<a>> = {1} /\ <<a>>[1] = a
  OBVIOUS
<1>3. \A a, b : DOMAIN <<a, b>> = {1, 2} /\ <<a, b>>[1] = a /\ <<a, b>>[2] = b
  OBVIOUS
<1>4. QED
  BY <1>1, <1>2, <1>3 DEF ToSet

LEMMA SetsOfSix ==
  ASSUME NEW a, NEW b, NEW c, NEW d, NEW e, NEW f
  PROVE  ToSet(<<a, b, c, d, e, f>>) = {a, b, c, d, e, f}
<1>1. DOMAIN <<a, b, c, d, e, f>> = {1, 2, 3, 4, 5, 6}
  OBVIOUS
<1>2. QED
  BY <1>1 DEF ToSet

\* The steps are told apart by their operation.
LEMMA OpsDiffer ==
  /\ \A op, s : Do(op, s).op = op
  /\ \A op, s, v : Put(op, s, v).op = op
  /\ WebOn.op = "web_on" /\ WebOff.op = "web_off"
  /\ VarnishOn.op = "varnish_on" /\ VarnishOff.op = "varnish_off"
BY DEF Do, Put, WebOn, WebOff, VarnishOn, VarnishOff

\* The steps of a command that configures a site.
ConfigOps(s, n, v) ==
  {Do("write_templates", s), Put("write_conf", s, n), Do("fixup_certs", s),
   Do("enable_site", s), Put("save_vars", s, n), Put("write_vsite", s, v),
   WebOn, WebOff, VarnishOn, VarnishOff}

\* What such a command does, in any order.
LEMMA ConfigSet ==
  ASSUME NEW c, NEW s \in Site, NEW n \in NVar, NEW v \in VVar,
         c.type \in {"config", "force"}, c.site = s, c.nvars = n, c.vvars = v,
         NEW vc \in BOOLEAN, NEW cc \in BOOLEAN
  PROVE  LET S == ToSet(CommandSteps(c, vc, cc))
         IN /\ S \subseteq ConfigOps(s, n, v)
            /\ {Put("write_conf", s, n), Do("enable_site", s), Put("save_vars", s, n),
                Put("write_vsite", s, v), WebOn, VarnishOn} \subseteq S
            /\ cc => WebOff \notin S
            /\ vc => VarnishOff \notin S
<1> DEFINE wt == IF c.templates THEN <<Do("write_templates", s), WebOn>> ELSE <<>>
           cs == <<Put("write_conf", s, n), Do("fixup_certs", s), WebOn,
                   Do("enable_site", s), Put("save_vars", s, n), WebOn>>
           vs == <<Put("write_vsite", s, v), VarnishOn>>
           vf == IF vc THEN <<>> ELSE <<VarnishOff>>
           wf == <<IF cc THEN WebOn ELSE WebOff>>
           ff == IF c.type = "force" THEN <<WebOn, VarnishOn>> ELSE <<>>
<1>1. n # None /\ v # None
  BY ValuesAssumption
<1>3. /\ {Do("write_templates", s), Do("fixup_certs", s),
          Do("enable_site", s)} \subseteq Step
      /\ {Put("write_conf", s, n), Put("save_vars", s, n),
          Put("write_vsite", s, v)} \subseteq Step
      /\ {WebOn, WebOff, VarnishOn, VarnishOff} \subseteq Step
  BY GlobalSteps, FlagSteps DEF SiteOps, NginxOps, VarnishOps
<1>4. /\ wt \in Seq(Step) /\ cs \in Seq(Step) /\ vs \in Seq(Step) /\ vf \in Seq(Step)
      /\ wf \in Seq(Step) /\ ff \in Seq(Step)
  BY <1>3
<1>5. CommandSteps(c, vc, cc) = (((wt \o cs) \o (vs \o vf)) \o wf) \o ff
  <2>1. ConfigureSite(c) = wt \o cs
    BY <1>1, Zenon DEF ConfigureSite
  <2>2. ConfigVarnishSteps(c, vc) = vs \o vf
    <3>1. ConfigVsite(c) = vs
      BY DEF ConfigVsite
    <3>2. CASE vc = TRUE
      <4>1. ConfigVarnishSteps(c, vc) = vs
        BY <1>1, <3>1, <3>2, ValuesAssumption DEF ConfigVarnishSteps
      <4>2. vs \o <<>> = vs
        BY <1>4
      <4>3. QED
        BY <4>1, <4>2, <3>2
    <3>3. CASE vc = FALSE
      BY <1>1, <3>1, <3>3, ValuesAssumption DEF ConfigVarnishSteps
    <3>4. QED
      BY <3>2, <3>3
  <2>3. CommandSteps(c, vc, cc) = ConfigSteps(c, vc, cc)
    BY <1>1 DEF CommandSteps
  <2>4. ConfigSteps(c, vc, cc) = (((wt \o cs) \o (vs \o vf)) \o wf) \o ff
    BY <2>1, <2>2 DEF ConfigSteps
  <2>5. QED
    BY <2>3, <2>4
<1> HIDE DEF wt, cs, vs, vf, wf, ff
<1>6. ToSet(CommandSteps(c, vc, cc)) =
        (((ToSet(wt) \union ToSet(cs)) \union (ToSet(vs) \union ToSet(vf))) \union ToSet(wf))
        \union ToSet(ff)
  <2>1. /\ wt \o cs \in Seq(Step) /\ vs \o vf \in Seq(Step)
        /\ (wt \o cs) \o (vs \o vf) \in Seq(Step)
        /\ ((wt \o cs) \o (vs \o vf)) \o wf \in Seq(Step)
    BY <1>4
  <2>2. ToSet(wt \o cs) = ToSet(wt) \union ToSet(cs)
    BY <1>4, SetOfConcat
  <2>3. ToSet(vs \o vf) = ToSet(vs) \union ToSet(vf)
    BY <1>4, SetOfConcat
  <2> DEFINE a == wt \o cs
             b == vs \o vf
             d == (wt \o cs) \o (vs \o vf)
             e == ((wt \o cs) \o (vs \o vf)) \o wf
  <2>0. a \in Seq(Step) /\ b \in Seq(Step) /\ d \in Seq(Step) /\ e \in Seq(Step)
    BY <2>1
  <2> HIDE DEF a, b, d, e
  <2>4. ToSet(a \o b) = ToSet(a) \union ToSet(b)
    BY <2>0, SetOfConcat
  <2>5. ToSet(d \o wf) = ToSet(d) \union ToSet(wf)
    BY <1>4, <2>0, SetOfConcat
  <2>6. ToSet(e \o ff) = ToSet(e) \union ToSet(ff)
    BY <1>4, <2>0, SetOfConcat
  <2>7. ToSet(a) = ToSet(wt) \union ToSet(cs) /\ ToSet(b) = ToSet(vs) \union ToSet(vf)
    BY <2>2, <2>3 DEF a, b
  <2>8. d = a \o b /\ e = d \o wf /\ CommandSteps(c, vc, cc) = e \o ff
    BY <1>5 DEF a, b, d, e
  <2>9. QED
    BY <2>4, <2>5, <2>6, <2>7, <2>8
<1>7. /\ ToSet(wt) \subseteq {Do("write_templates", s), WebOn}
      /\ ToSet(cs) = {Put("write_conf", s, n), Do("fixup_certs", s), WebOn,
                      Do("enable_site", s), Put("save_vars", s, n), WebOn}
      /\ ToSet(vs) = {Put("write_vsite", s, v), VarnishOn}
      /\ ToSet(vf) \subseteq {VarnishOff}
      /\ ToSet(wf) = {IF cc THEN WebOn ELSE WebOff}
      /\ ToSet(ff) \subseteq {WebOn, VarnishOn}
  BY SetsOfShort, SetsOfSix DEF wt, cs, vs, vf, wf, ff
<1>8. WebOff \notin {Do("write_templates", s), Put("write_conf", s, n),
                     Do("fixup_certs", s), Do("enable_site", s),
                     Put("save_vars", s, n), Put("write_vsite", s, v),
                     WebOn, VarnishOn, VarnishOff}
  BY DEF Do, Put, WebOn, WebOff, VarnishOn, VarnishOff
<1>9. VarnishOff \notin {Do("write_templates", s), Put("write_conf", s, n),
                        Do("fixup_certs", s), Do("enable_site", s),
                        Put("save_vars", s, n), Put("write_vsite", s, v),
                        WebOn, VarnishOn, WebOff}
  BY DEF Do, Put, WebOn, WebOff, VarnishOn, VarnishOff
<1>10. vc => ToSet(vf) = {}
  BY SetsOfShort DEF vf
<1>11. QED
  BY <1>6, <1>7, <1>8, <1>9, <1>10 DEF ConfigOps

\* What the file operations do to the files that Nginx depends on: nothing, or
\* one of them.
SameSites(e, d) == e.conf = d.conf /\ e.main = d.main /\ e.enabled = d.enabled

LEMMA EffectOnNone ==
  ASSUME NEW d \in Disk, NEW s \in Site
  PROVE  /\ SameSites(Effect(Do("write_templates", s), d), d)
         /\ SameSites(Effect(Do("fixup_certs", s), d), d)
         /\ SameSites(Effect(Do("remove_policy", s), d), d)
         /\ SameSites(Effect(Do("remove_vsite", s), d), d)
         /\ \A v : SameSites(Effect(Put("write_vsite", s, v), d), d)
<1> USE DEF Disk, NConf, Do, Put, Effect, SameSites
<1>1. SameSites(Effect(Do("write_templates", s), d), d)
  OBVIOUS
<1>2. SameSites(Effect(Do("fixup_certs", s), d), d)
  OBVIOUS
<1>3. SameSites(Effect(Do("remove_policy", s), d), d)
  OBVIOUS
<1>4. SameSites(Effect(Do("remove_vsite", s), d), d)
  OBVIOUS
<1>5. \A v : SameSites(Effect(Put("write_vsite", s, v), d), d)
  OBVIOUS
<1> HIDE DEF SameSites, Effect, Do, Put
<1>6. QED
  BY <1>1, <1>2, <1>3, <1>4, <1>5

LEMMA EffectOnConf ==
  ASSUME NEW d \in Disk, NEW x, NEW s \in Site, NEW v,
         \/ x = Put("write_conf", s, v)
         \/ x = Do("remove_conf", s) /\ v = None
  PROVE  /\ Effect(x, d).conf = [d.conf EXCEPT ![s] = v]
         /\ Effect(x, d).main = d.main /\ Effect(x, d).enabled = d.enabled
<1>1. CASE x = Put("write_conf", s, v)
  <2>1. x.op = "write_conf" /\ x.site = s /\ x.val = v
    BY <1>1 DEF Put
  <2>2. Effect(x, d) = [d EXCEPT !.conf[s] = v]
    BY <2>1 DEF Effect
  <2>3. QED
    BY <2>2 DEF Disk
<1>2. CASE x = Do("remove_conf", s) /\ v = None
  <2>1. x.op = "remove_conf" /\ x.site = s
    BY <1>2 DEF Do
  <2>2. Effect(x, d) = [d EXCEPT !.conf[s] = None]
    BY <2>1 DEF Effect
  <2>3. QED
    BY <1>2, <2>2 DEF Disk
<1>3. QED
  BY <1>1, <1>2

LEMMA EffectOnMain ==
  ASSUME NEW d \in Disk, NEW x, NEW s \in Site, NEW v,
         \/ x = Put("save_vars", s, v)
         \/ x = Do("remove_templates", s) /\ v = None
  PROVE  /\ Effect(x, d).main = [d.main EXCEPT ![s] = v]
         /\ Effect(x, d).conf = d.conf /\ Effect(x, d).enabled = d.enabled
<1>1. CASE x = Put("save_vars", s, v)
  <2>1. x.op = "save_vars" /\ x.site = s /\ x.val = v
    BY <1>1 DEF Put
  <2>2. Effect(x, d) = [d EXCEPT !.main[s] = v]
    BY <2>1 DEF Effect
  <2>3. QED
    BY <2>2 DEF Disk
<1>2. CASE x = Do("remove_templates", s) /\ v = None
  <2>1. x.op = "remove_templates" /\ x.site = s
    BY <1>2 DEF Do
  <2>2. Effect(x, d) = [d EXCEPT !.templates = @ \ {s}, !.certs = @ \ {s}, !.main[s] = None]
    BY <2>1 DEF Effect
  <2>3. QED
    BY <1>2, <2>2 DEF Disk
<1>3. QED
  BY <1>1, <1>2

LEMMA EffectOnEnabled ==
  ASSUME NEW d \in Disk, NEW s \in Site
  PROVE  /\ LET e == Effect(Do("enable_site", s), d)
            IN e.enabled = d.enabled \union {s} /\ e.conf = d.conf /\ e.main = d.main
         /\ LET e == Effect(Do("disable_site", s), d)
            IN e.enabled = d.enabled \ {s} /\ e.conf = d.conf /\ e.main = d.main
<1>1. Effect(Do("enable_site", s), d) = [d EXCEPT !.enabled = @ \union {s}]
  BY DEF Effect, Do
<1>2. Effect(Do("disable_site", s), d) = [d EXCEPT !.enabled = @ \ {s}]
  BY DEF Effect, Do
<1>3. QED
  BY <1>1, <1>2 DEF Disk
=============================================================================
