------------------------------ MODULE Release -------------------------------
(***************************************************************************)
(* A deployment (.github/workflows/deploy.yml), one at a time: it runs the *)
(* backup script of module Backup and goes on only after a copy was        *)
(* uploaded and verified; it copies the build, runs the two guarded        *)
(* migration runners (scripts/deploy-streak-migration.ts and               *)
(* scripts/deploy-journal-migration.ts) and restarts the application.      *)
(* Meanwhile the nightly backup may run, and an operator may run all       *)
(* pending migrations by hand.  Each deployment may find another database. *)
(*                                                                         *)
(* A table is absent, as its migration makes it, or drifted: there, but    *)
(* without a column, constraint or index that the runner looks for.        *)
(***************************************************************************)
EXTENDS Backup

CONSTANT MaxDeploy   \* bound: deployments

ASSUME ReleaseConstants == MaxDeploy \in Nat

\* The migrations of the build.  "earlier" stands for those no runner applies.
Registry == {"earlier", "sepay", "streak", "journal"}
Gated == {"sepay", "streak", "journal"}

Runners == {"streak", "journal"}
\* BACKUP_GATED_MIGRATIONS and JOURNAL_MIGRATION_NAME
Allowed(runner) == IF runner = "streak" THEN {"sepay", "streak"} ELSE {"journal"}

VARIABLES
  recorded,  \* committed migration history
  tables,    \* committed state of the tables of each gated migration
  deploy,    \* where the deployment is, its run of the backup script, and their number
  runner     \* the guarded runner: what it read first, and its open transaction

schema == <<recorded, tables>>
release == <<schema, deploy, runner>>
releaseVars == <<backupVars, release>>

Idle == [at |-> "idle", pending |-> {}, executed |-> {}, tx |-> {}]
Steps == {"none", "backup", "copy", "streak", "journal", "restart", "done", "refused", "failed"}

ReleaseTypeOK ==
  /\ BackupTypeOK
  /\ recorded \subseteq Registry
  /\ tables \in [Gated -> {"absent", "made", "drifted"}]
  /\ deploy \in [step : Steps, run : Run \cup {NoRun}, number : 0 .. MaxDeploy]
  /\ runner \in [at : {"idle", "begin", "apply", "verify"}, pending : SUBSET Registry,
                 executed : SUBSET Registry, tx : SUBSET Registry]

\* The database may be any older one.  Migrations run in the order of their
\* dates, on which sepay and journal are equal; by hand, a table may have been
\* made without a record (1792674636227-AiUsageUniqueUserDateApp.ts:106) or changed.
ReleaseInit ==
  /\ BackupInit
  /\ recorded \in {{}, {"earlier"}, {"earlier", "sepay"}, {"earlier", "journal"},
                  Registry \ {"streak"}, Registry}
  /\ tables \in [Gated -> {"absent", "made", "drifted"}]
  /\ Cardinality({g \in Gated : (tables[g] = "made") # (g \in recorded)}) <= 1
  /\ \A g \in Gated \cap recorded : tables[g] # "absent"
  /\ scene # "deploys" => recorded = Registry /\ \A g \in Gated : tables[g] = "made"
  /\ deploy = [step |-> "none", run |-> NoRun, number |-> 0]
  /\ runner = Idle

Ended == deploy.step \in {"none", "done", "refused", "failed"}

\* What the runner's transaction sees: READ COMMITTED, and its own changes.
Seen == recorded \cup runner.tx
SeenTables == [g \in Gated |-> IF g \in runner.tx /\ tables[g] = "absent" THEN "made" ELSE tables[g]]
Pending == Registry \ Seen

-----------------------------------------------------------------------------
(* The backup gate.                                                        *)

Begin(run) == deploy' = [step |-> "backup", run |-> run, number |-> deploy.number + 1]

\* The workflow starts the script, which takes the lock ...
OpenGate ==
  /\ scene = "deploys" /\ Ended /\ deploy.number < MaxDeploy
  /\ Start /\ Begin(lastRun')
  /\ UNCHANGED <<schema, runner>>

\* ... or fails, because the nightly run has it or the script's own checks fail.
GateIsBusy ==
  /\ scene = "deploys" /\ Ended /\ deploy.number < MaxDeploy
  /\ StartWhileRunning \/ StartRefused
  /\ deploy' = [step |-> "failed", run |-> lastRun', number |-> deploy.number + 1]
  /\ UNCHANGED <<schema, runner>>

\* The gate looks for the marker in the output of its own run.
Outcome(ok) ==
  /\ deploy' = IF deploy.step = "backup" /\ holder = deploy.run /\ holder' = NoRun
               THEN [deploy EXCEPT !.step = IF ok THEN "copy" ELSE "failed"] ELSE deploy
  /\ UNCHANGED <<schema, runner>>

AnyCompletion == KeepLocal /\ Outcome(TRUE)
LocalCompletion == KeepLocal /\ Outcome(FALSE)
RemoteCompletion == KeepRemote /\ Outcome(TRUE)
BackupFails == OnError /\ Outcome(FALSE)
BackupKilled == Killed /\ Outcome(FALSE)

-----------------------------------------------------------------------------
(* The build and the two runners.                                          *)

Stop(step) == deploy' = [deploy EXCEPT !.step = step] /\ runner' = Idle

CopyBuild ==
  /\ deploy.step = "copy"
  /\ Stop("streak")
  /\ UNCHANGED <<backupVars, schema>>

ReadPendingUnguarded ==
  /\ deploy.step \in Runners /\ runner.at = "idle"
  /\ runner' = [Idle EXCEPT !.at = IF Pending = {} THEN "verify" ELSE "begin",
                            !.pending = Pending, !.executed = recorded]
  /\ UNCHANGED <<backupVars, schema, deploy>>

\* The guard of each runner, and the history it will compare with.  The pending
\* migrations of the journal runner are all the journal's, so at most one.
ReadPending ==
  /\ deploy.step \in Runners /\ runner.at = "idle"
  /\ IF Pending \subseteq Allowed(deploy.step)
     THEN /\ runner' = [Idle EXCEPT !.at = IF Pending = {} THEN "verify" ELSE "begin",
                                    !.pending = Pending, !.executed = recorded]
          /\ UNCHANGED deploy
     ELSE Stop("refused")
  /\ UNCHANGED <<backupVars, schema>>

\* The first statement of the transaction reads the pending migrations again.
BeginTransaction ==
  /\ runner.at = "begin"
  /\ IF Pending = runner.pending
     THEN runner' = [runner EXCEPT !.at = "apply"] /\ UNCHANGED deploy
     ELSE Stop("failed")
  /\ UNCHANGED <<backupVars, schema>>

\* executeMigration: the tables are made unless they are there.
ExecuteMigration ==
  /\ runner.at = "apply"
  /\ \E g \in runner.pending \ runner.tx :
       runner' = [runner EXCEPT !.tx = @ \cup {g},
                                !.at = IF runner.pending = runner.tx \cup {g} THEN "verify" ELSE @]
  /\ UNCHANGED <<backupVars, schema, deploy>>

\* verifyMigrationHistory, which each runner has.
NewlyExecuted == Seen \ runner.executed

HistoryIsRight ==
  /\ Pending = {}
  /\ NewlyExecuted = runner.pending
  /\ Allowed(deploy.step) \subseteq Seen

\* The verification of the tables, by each runner.
StreakTablesAreRight == SeenTables["sepay"] = "made" /\ SeenTables["streak"] = "made"
JournalTablesAreRight == SeenTables["journal"] = "made"

TablesAreRight == IF deploy.step = "streak" THEN StreakTablesAreRight ELSE JournalTablesAreRight

CommitUnverified ==
  /\ runner.at = "verify"
  /\ HistoryIsRight
  /\ recorded' = Seen /\ tables' = SeenTables
  /\ Stop(IF deploy.step = "streak" THEN "journal" ELSE "restart")
  /\ UNCHANGED backupVars

\* The answer to a commit may be lost: the workflow then takes it for a failure.
VerifyAndCommit ==
  /\ runner.at = "verify"
  /\ IF HistoryIsRight /\ TablesAreRight
     THEN /\ recorded' = Seen /\ tables' = SeenTables
          /\ \/ Stop(IF deploy.step = "streak" THEN "journal" ELSE "restart")
             \/ Stop("failed")
     ELSE Stop("failed") /\ UNCHANGED schema
  /\ UNCHANGED backupVars

\* A query fails, the connection or the machine is lost: the transaction is
\* rolled back and the workflow stops, as it does when copying fails.  A runner
\* that outlives its SSH connection and commits later is left out, and with it
\* the advisory lock that keeps it apart from the next one.
DeployFails ==
  /\ deploy.step \in Runners \cup {"copy"}
  /\ Stop("failed")
  /\ UNCHANGED <<backupVars, schema>>

\* pm2 restart, and the health check, which undoes nothing.
Restart ==
  /\ deploy.step = "restart"
  /\ \E step \in {"done", "failed"} : Stop(step)
  /\ UNCHANGED <<backupVars, schema>>

-----------------------------------------------------------------------------
(* Everyone else.                                                          *)

\* migration:run applies everything in one transaction.  It waits for tables
\* that an open transaction has made.
MigrationRun ==
  /\ scene = "deploys" /\ runner.tx = {} /\ recorded # Registry
  /\ recorded' = Registry
  /\ tables' = [g \in Gated |-> IF tables[g] = "absent" /\ g \notin recorded THEN "made" ELSE tables[g]]
  /\ UNCHANGED <<backupVars, deploy, runner>>

Others == UNCHANGED release

ReleaseNext ==
  \/ \E m \in Message :
       \/ CreateMessage(m) /\ Apart /\ Others
       \/ PersistImage(m) /\ Apart /\ Others
       \/ SaveMessage(m) /\ Apart /\ Others
       \/ CreateFails(m) /\ Apart /\ Others
       \/ Notify(m) /\ Apart /\ Others
       \/ DeleteMessage(m) /\ Apart /\ Others
  \/ Start /\ Others
  \/ StartWhileRunning /\ Others
  \/ StartRefused /\ Others
  \/ DumpDatabase /\ Others
  \/ ArchiveFile /\ Others
  \/ ArchiveEnds /\ Others
  \/ FinishLocal /\ Others
  \/ UploadDaily /\ Others
  \/ UploadMonthly /\ Others
  \/ NextDay /\ Others
  \/ LocalCompletion \/ RemoteCompletion \/ BackupFails \/ BackupKilled
  \/ OpenGate \/ GateIsBusy \/ CopyBuild
  \/ ReadPending \/ BeginTransaction \/ ExecuteMigration \/ VerifyAndCommit
  \/ DeployFails \/ Restart \/ MigrationRun

ReleaseSpec == ReleaseInit /\ [][ReleaseNext]_releaseVars

-----------------------------------------------------------------------------
(* Properties.                                                             *)

\* A deployment changes the schema only after a copy that was made for it is
\* complete in the remote place (deploy.yml:157-177).
ChangeIsBackedUp ==
  runner.tx # {} /\ schema' # schema => deploy.run \in daily

\* A runner commits the migrations it may apply, all that are pending and nothing
\* else, whatever an operator does meanwhile (deploy-streak-migration.ts:315-379).
RunnerKeepsToItsOwn ==
  runner.tx # {} /\ schema' # schema =>
    /\ recorded' = Registry
    /\ recorded' \ recorded = runner.pending /\ runner.pending \subseteq Gated

\* The application is restarted only over a database that has every migration
\* and whose gated tables were found right (deploy.yml:226-249).
RestartsFindTables ==
  deploy.step \in {"restart", "done"} =>
    recorded = Registry /\ \A g \in Gated : tables[g] = "made"

\* From the backup to the restart a deployment changes only what it may, after a
\* copy that was made for it, and ends on a database that fits the new build
\* (deploy.yml:157-249, deploy-streak-migration.ts:315-379).
DeploymentsAreSafe ==
  [][ChangeIsBackedUp /\ RunnerKeepsToItsOwn /\ RestartsFindTables']_releaseVars

\* deploy.yml:191, docs/backup-restore.md:145: the workflow applies the Journal
\* migration.  So it refuses a database only for some other pending migration
\* (deploy-streak-migration.ts:110-120).
GatedAreNotRefused ==
  [][deploy'.step = "refused" /\ deploy.step # "refused" => ~(Pending \subseteq Gated)]_releaseVars

=============================================================================
