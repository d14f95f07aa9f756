------------------------------- MODULE Backup -------------------------------
(***************************************************************************)
(* The backup script (src/scripts/backup-vinfi.sh), run every night and by *)
(* every deployment, beside the contact form, whose rows and files it      *)
(* copies at different moments.  A run takes the lock, dumps the database, *)
(* archives the upload directory file by file, finishes the local copy,    *)
(* removes old local copies, uploads and verifies the copy, removes old    *)
(* uploads, and reports how far it has come in a status file and in a      *)
(* summary for the administration page (src/src/system-status).            *)
(*                                                                         *)
(* Encryption, checksums, ownership of files and what the settings say are *)
(* left out; a check that fails is a failure of its stage, and one before  *)
(* the lock refuses the run.  A day is the unit of time.                   *)
(***************************************************************************)
EXTENDS Contact

CONSTANTS
  LocalDays,    \* how long local copies are kept, 7 days in the script
  DailyDays,    \* how long daily uploads are kept, 30 days
  MonthlyDays,  \* how long monthly uploads are kept, 365 days
  FreshDays,    \* BACKUP_SUMMARY_MAX_AGE_MS, 26 hours
  Month,        \* bound: every how many days a month begins
  MaxDay,       \* bound: days that pass
  MaxRun,       \* bound: times the script is started
  VisitedRuns,  \* bound: the same, when there are visitors
  Scenes        \* bound: "visits", "days" or others

\* Copies are kept for longer than the page trusts a summary of them.
ASSUME BackupConstants ==
  /\ {LocalDays, DailyDays, MonthlyDays, FreshDays, MaxDay, MaxRun, VisitedRuns} \subseteq Nat
  /\ Month \in Nat \ {0} /\ VisitedRuns <= MaxRun
  /\ FreshDays + 1 < LocalDays /\ FreshDays + 1 < DailyDays

Run == 1 .. MaxRun
NoRun == 0
Day == 0 .. MaxDay

Stages == {"database_dump", "uploads_archive", "local_checksum", "local_retention",
           "offsite_daily", "offsite_monthly", "remote_retention", "complete"}

VARIABLES
  scene,     \* bound: what happens beside the runs of the script
  day,
  lastRun,   \* how often the script was started
  holder,    \* the run that holds the lock
  rclone,    \* RCLONE_ENABLED of the holder: its configuration names a remote
  stage,     \* RUN_STAGE of the holder
  ready,     \* LOCAL_READY and OFFSITE_READY of the holder
  todo,      \* files that tar has listed and not read yet
  copy,      \* what each run has copied, its RUN_DATE, and the day it was complete
  local, daily, monthly,  \* runs whose copies are complete in each place
  status,    \* the status file
  summary    \* the summary for the administration page, with its day

backup == <<lastRun, holder, rclone, stage, ready, todo, copy, local, daily, monthly, status, summary>>
copies == <<copy, local, daily, monthly>>
backupVars == <<contact, scene, day, backup>>

NoCopy == [rows |-> {}, files |-> {}, date |-> 0, made |-> 0]
NoStatus == [run |-> NoRun, status |-> "none", local |-> FALSE, offsite |-> FALSE]
NotReady == [local |-> FALSE, offsite |-> FALSE]
Status ==
  [run : Run \cup {NoRun},
   status : {"none", "running", "failed", "offsite_failed", "local_only", "offsite_ok"},
   local : BOOLEAN, offsite : BOOLEAN]

BackupTypeOK ==
  /\ ContactTypeOK /\ scene \in Scenes
  /\ day \in Day /\ lastRun \in 0 .. MaxRun /\ holder \in Run \cup {NoRun}
  /\ rclone \in BOOLEAN /\ stage \in Stages /\ ready \in [local : BOOLEAN, offsite : BOOLEAN]
  /\ todo \subseteq Image
  /\ copy \in [Run -> [rows : SUBSET Message, files : SUBSET Image, date : Day, made : Day]]
  /\ local \cup daily \cup monthly \subseteq Run
  /\ status \in Status /\ summary \in [says : Status, day : Day]

BackupInit ==
  /\ ContactInit /\ scene \in Scenes
  /\ day = 0 /\ lastRun = 0 /\ holder = NoRun /\ rclone = FALSE /\ stage = "complete" /\ ready = NotReady
  /\ todo = {} /\ copy = [r \in Run |-> NoCopy]
  /\ local = {} /\ daily = {} /\ monthly = {}
  /\ status = NoStatus /\ summary = [says |-> NoStatus, day |-> 0]

MayStart == lastRun < IF scene = "visits" THEN VisitedRuns ELSE MaxRun

At(s) == holder # NoRun /\ stage = s

\* write_ui_backup_summary is best effort (and unused in the scene "deploys").
WriteSummary(s) ==
  summary' \in IF scene = "deploys" THEN {summary} ELSE {summary, [says |-> s, day |-> day]}

WriteStatus(run, s, flags) ==
  /\ status' = [run |-> run, status |-> s, local |-> flags.local, offsite |-> flags.offsite]
  /\ WriteSummary(status')

\* Copies that are older than a number of days.
Old(set, days) == {r \in set : day - copy[r].made >= days}

-----------------------------------------------------------------------------
(* The stages of a run.                                                    *)

Start ==
  /\ holder = NoRun /\ MayStart
  /\ lastRun' = lastRun + 1 /\ holder' = lastRun + 1
  /\ rclone' \in BOOLEAN
  /\ stage' = "database_dump" /\ ready' = NotReady
  /\ copy' = [copy EXCEPT ![lastRun + 1].date = day]
  /\ WriteStatus(lastRun + 1, "running", NotReady)
  /\ UNCHANGED <<contact, scene, day, todo, local, daily, monthly>>

\* fail: a run that does not get the lock leaves nothing but its report.
Fail ==
  /\ MayStart
  /\ lastRun' = lastRun + 1
  /\ WriteStatus(lastRun + 1, "failed", NotReady)
  /\ UNCHANGED <<contact, scene, day, holder, rclone, stage, ready, todo, copies>>

\* flock -n: a second run fails.
StartWhileRunning == holder # NoRun /\ Fail

\* So does one that finds its settings, the modes of their files or the commands
\* wrong before it asks for the lock; it may have nowhere to report that.
StartRefused ==
  \/ Fail
  \/ /\ MayStart /\ lastRun' = lastRun + 1
     /\ UNCHANGED <<contact, scene, day, holder, rclone, stage, ready, todo, copies, status, summary>>

MakeRoomFirst ==
  /\ At("database_dump")
  /\ local' = local \ Old(local, LocalDays)
  /\ copy' = [copy EXCEPT ![holder].rows = rows]
  /\ todo' = files /\ stage' = "uploads_archive"
  /\ UNCHANGED <<contact, scene, day, lastRun, holder, rclone, ready, daily, monthly, status, summary>>

\* pg_dump copies the rows of one moment; tar then lists the files.
DumpDatabase ==
  /\ At("database_dump")
  /\ copy' = [copy EXCEPT ![holder].rows = rows]
  /\ todo' = files /\ stage' = "uploads_archive"
  /\ UNCHANGED <<contact, scene, day, lastRun, holder, rclone, ready, local, daily, monthly, status, summary>>

\* A file that is gone when tar comes to it is missing from the archive.
ArchiveFile ==
  /\ At("uploads_archive")
  /\ \E f \in todo :
       /\ todo' = todo \ {f}
       /\ copy' = [copy EXCEPT ![holder].files = @ \cup ({f} \cap files)]
  /\ UNCHANGED <<contact, scene, day, lastRun, holder, rclone, stage, ready, local, daily, monthly, status, summary>>

DumpAfterArchive ==
  /\ At("uploads_archive") /\ todo = {}
  /\ stage' = "local_checksum" /\ copy' = [copy EXCEPT ![holder].rows = rows]
  /\ UNCHANGED <<contact, scene, day, lastRun, holder, rclone, ready, todo, local, daily, monthly, status, summary>>

ArchiveEnds ==
  /\ At("uploads_archive") /\ todo = {}
  /\ stage' = "local_checksum"
  /\ UNCHANGED <<contact, scene, day, lastRun, holder, rclone, ready, todo, copies, status, summary>>

\* The temporary directory becomes the copy.
FinishLocal ==
  /\ At("local_checksum")
  /\ local' = local \cup {holder}
  /\ copy' = [copy EXCEPT ![holder].made = day]
  /\ ready' = [ready EXCEPT !.local = TRUE] /\ stage' = "local_retention"
  /\ WriteStatus(holder, "running", ready')
  /\ UNCHANGED <<contact, scene, day, lastRun, holder, rclone, todo, daily, monthly>>

End(s, flags) ==
  /\ WriteStatus(holder, s, flags)
  /\ holder' = NoRun /\ rclone' = FALSE /\ stage' = "complete" /\ ready' = NotReady /\ todo' = {}

KeepLocal ==
  /\ At("local_retention")
  /\ local' = local \ Old(local, LocalDays)
  /\ IF rclone
     THEN /\ stage' = "offsite_daily"
          /\ UNCHANGED <<holder, rclone, ready, todo, status, summary>>
     ELSE End("local_only", ready)
  /\ UNCHANGED <<contact, scene, day, lastRun, copy, daily, monthly>>

ReadyBeforeCheck ==
  /\ At("offsite_daily") /\ ~ready.offsite
  /\ ready' = [ready EXCEPT !.offsite = TRUE]
  /\ WriteStatus(holder, "running", ready')
  /\ UNCHANGED <<contact, scene, day, lastRun, holder, rclone, stage, todo, copies>>

\* rclone copy and rclone check.
UploadDaily ==
  /\ At("offsite_daily")
  /\ daily' = daily \cup {holder}
  /\ ready' = [ready EXCEPT !.offsite = TRUE]
  /\ stage' = IF copy[holder].date % Month = 0 THEN "offsite_monthly" ELSE "remote_retention"
  /\ WriteStatus(holder, "running", ready')
  /\ UNCHANGED <<contact, scene, day, lastRun, holder, rclone, todo, copy, local, monthly>>

UploadMonthly ==
  /\ At("offsite_monthly")
  /\ monthly' = monthly \cup {holder}
  /\ stage' = "remote_retention"
  /\ UNCHANGED <<contact, scene, day, lastRun, holder, rclone, ready, todo, copy, local, daily, status, summary>>

KeepRemote ==
  /\ At("remote_retention")
  /\ daily' = daily \ Old(daily, DailyDays) /\ monthly' = monthly \ Old(monthly, MonthlyDays)
  /\ End("offsite_ok", ready)
  /\ UNCHANGED <<contact, scene, day, lastRun, copy, local>>

\* The temporary directory of a run that has not become a copy; nothing reads it
\* again (cleanup removes it).
Dropped == IF holder \in local THEN copy ELSE [copy EXCEPT ![holder] = NoCopy]

\* on_error, for a command of the stage that fails, and cleanup.
OnError ==
  /\ holder # NoRun /\ copy' = Dropped
  /\ End(IF stage \in {"offsite_daily", "offsite_monthly", "remote_retention"}
         THEN "offsite_failed" ELSE "failed", ready)
  /\ UNCHANGED <<contact, scene, day, lastRun, local, daily, monthly>>

\* The machine goes down: the kernel releases the lock, and nothing is reported.
Killed ==
  /\ holder # NoRun /\ copy' = Dropped
  /\ holder' = NoRun /\ rclone' = FALSE /\ stage' = "complete" /\ ready' = NotReady /\ todo' = {}
  /\ UNCHANGED <<contact, scene, day, lastRun, local, daily, monthly, status, summary>>

\* Bound: a run is over on the day after it began.
NextDay ==
  /\ scene = "days" /\ day < MaxDay /\ (holder # NoRun => copy[holder].date = day)
  /\ day' = day + 1
  /\ UNCHANGED <<contact, scene, backup>>

\* Visitors act apart from the script.  Module Release puts the actions together.
Apart == scene = "visits" /\ UNCHANGED <<scene, day, backup>>

-----------------------------------------------------------------------------
(* The administration page.                                                *)

\* getSafeReadiness: which flags may come with a status.
SafeReadiness(s) ==
  CASE s.status = "offsite_ok" -> s.local /\ s.offsite
    [] s.status = "local_only" -> s.local /\ ~s.offsite
    [] s.status = "offsite_failed" -> s.local
    [] OTHER -> TRUE

ShownForever == IF SafeReadiness(summary.says) THEN summary.says ELSE NoStatus

\* readSanitizedBackupSummary: a summary that is too old shows nothing as ready.
Shown == IF SafeReadiness(summary.says) /\ day - summary.day <= FreshDays
         THEN summary.says ELSE NoStatus

-----------------------------------------------------------------------------
(* Properties.                                                             *)

\* Whatever visitors and administrators do while it is made, a complete copy
\* restores every message with its images (backup-vinfi.sh:402-415,
\* contact.service.ts:483-496).
CopiesRestore ==
  \A r \in local \cup daily \cup monthly :
    \A m \in copy[r].rows \ unsure : Keys(m) \subseteq copy[r].files

\* Once there is a copy there is always one, in each place: what is old is only
\* removed when a new copy is complete (backup-vinfi.sh:427-430, 459-473).
CopiesRemain ==
  [][(local # {} => local' # {}) /\ (daily # {} => daily' # {})]_backupVars

\* Who reads the status file finds the copies it reports (backup-vinfi.sh:323-377).
ReportedCopiesExist ==
  /\ status.local => status.run \in local
  /\ status.offsite => status.run \in daily

\* The page never takes a summary of the script for an invalid one, and what it
\* shows as ready is there, although summaries get lost
\* (system-status.service.ts:87-99, 160-193).
ShownCopiesExist ==
  /\ SafeReadiness(summary.says)
  /\ Shown.local => Shown.run \in local
  /\ Shown.offsite => Shown.run \in daily

\* Copies are what they are said to be: complete ones restore, and what the
\* script or the page reports is there (backup-vinfi.sh:323-473,
\* system-status.service.ts:87-193).
CopiesAreTrue == CopiesRestore /\ ReportedCopiesExist /\ ShownCopiesExist

=============================================================================
