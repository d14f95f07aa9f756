-------------------------- MODULE OperationsProofs --------------------------
(***************************************************************************)
(* Proofs about the tools an operator runs over the live data: backup and  *)
(* guarded migration (Release, Backup, Contact), for every number of       *)
(* messages, images, days, runs and deployments; then the re-encryption    *)
(* and recovery of readings beside the requests for readings and journal   *)
(* entries (Reencryption, Journal, Readings), for every table, batch size, *)
(* number of requests and set of keys.  The two halves share no variable.  *)
(***************************************************************************)
EXTENDS Release, Reencryption, FiniteSetTheorems, WellFoundedInduction, TLAPS

-----------------------------------------------------------------------------
(* The invariants.                                                         *)

\* The first images of a message.
First(m, n) == {m} \X (1 .. n)

\* A message's row is inserted when all of its images are stored.
MessagesInOrder ==
  \A m \in Message :
    /\ phase[m] = "new" => m \notin rows /\ m \notin unsure /\ stored[m] = 0
    /\ phase[m] = "storing" =>
         m \notin rows /\ m \notin unsure /\ First(m, stored[m]) \subseteq files

MessageInv == ContactTypeOK /\ MessagesInOrder /\ MessagesKeepTheirImages

\* A message that may be in a dump, and keeps its images from then on.
Lasting(m) ==
  /\ phase[m] \in {"notifying", "ended"}
  /\ m \notin unsure => Keys(m) \subseteq files

\* What a run has copied so far.
CopyGrows(r) ==
  stage # "database_dump" =>
    \A m \in copy[r].rows \ unsure :
      Keys(m) \subseteq copy[r].files \cup (IF stage = "uploads_archive" THEN todo ELSE {})

CopiesInv ==
  /\ \A r \in Run : \A m \in copy[r].rows : Lasting(m)
  /\ holder # NoRun => CopyGrows(holder)
  /\ CopiesRestore

Early == {"database_dump", "uploads_archive", "local_checksum"}

\* The run that holds the lock.
HolderInv ==
  holder # NoRun =>
    /\ holder \in 1 .. lastRun /\ stage # "complete"
    /\ copy[holder].date <= day /\ day <= copy[holder].date + 1
    /\ stage \in Early =>
         /\ holder \notin local \cup daily \cup monthly /\ ready = NotReady
         /\ summary.says.run = holder => ~summary.says.local /\ ~summary.says.offsite
    /\ stage \notin Early =>
         /\ holder \in local /\ ready.local
         /\ copy[holder].date <= copy[holder].made
    /\ ready.offsite <=> stage \in {"offsite_monthly", "remote_retention"}
    /\ ready.offsite => holder \in daily
    /\ status.local \/ status.offsite => status.run = holder

\* A summary that says that a copy of run r is in a place.
Vouches(r, place, days) ==
  /\ r \in Run /\ r <= lastRun
  /\ r \in place \/ day - copy[r].made >= days
  /\ summary.day <= copy[r].made + 1

\* The summary for the administration page can be relied on.
Reliable ==
  /\ SafeReadiness(summary.says) /\ summary.day <= day /\ summary.says.run <= lastRun
  /\ summary.says.local => Vouches(summary.says.run, local, LocalDays)
  /\ summary.says.offsite => Vouches(summary.says.run, daily, DailyDays)

RunsInv ==
  /\ local \cup daily \cup monthly \subseteq 1 .. lastRun /\ status.run <= lastRun
  /\ \A r \in Run : copy[r].made <= day
  /\ HolderInv /\ ReportedCopiesExist /\ Reliable

ScriptInv == BackupTypeOK /\ MessageInv /\ CopiesInv /\ RunsInv

\* A deployment and its runner.
GateInv ==
  /\ scene # "days" => day = 0
  /\ deploy.step # "none" => scene = "deploys"
  /\ deploy.step \in Runners \cup {"copy", "restart"} => deploy.run \in daily
  /\ deploy.step \notin Runners => runner = Idle

RunnerInv ==
  runner.at # "idle" =>
    /\ runner.pending \subseteq Allowed(deploy.step)
    /\ runner.pending = Registry \ runner.executed /\ runner.executed \subseteq Registry
    /\ \/ recorded = runner.executed
       \/ recorded = Registry /\ \A g \in runner.pending : tables[g] # "absent"
    /\ runner.tx \subseteq runner.pending
    /\ runner.at = "begin" => runner.tx = {} /\ runner.pending # {}
    /\ runner.at = "verify" => runner.tx = runner.pending

DeployInv ==
  /\ GateInv /\ RunnerInv
  /\ runner.at = "idle" => runner.tx = {}
  /\ deploy.step \in {"journal", "restart", "done"} =>
       tables["sepay"] = "made" /\ tables["streak"] = "made"
  /\ RestartsFindTables

ReleaseInv ==
  /\ ReleaseTypeOK /\ MessageInv /\ CopiesInv /\ RunsInv /\ DeployInv

-----------------------------------------------------------------------------
(* Visitors and administrators.                                            *)

ContactStep(m) ==
  \/ CreateMessage(m) \/ PersistImage(m) \/ SaveMessage(m) \/ CreateFails(m)
  \/ Notify(m) \/ DeleteMessage(m)

\* One more image.
LEMMA FirstGrows ==
  ASSUME NEW m, NEW n \in Nat
  PROVE  First(m, n + 1) = First(m, n) \cup {<<m, n + 1>>}
  <1>1. 1 .. (n + 1) = (1 .. n) \cup {n + 1}
    OBVIOUS
  <1> QED
    BY <1>1 DEF First

\* A step for one message keeps the types.
LEMMA ContactTypes ==
  ASSUME ContactTypeOK, NEW m \in Message, ContactStep(m)
  PROVE  ContactTypeOK'
  <1> USE ContactConstants
  <1>1. CASE CreateMessage(m)
    BY <1>1 DEF CreateMessage, ContactTypeOK
  <1>2. CASE PersistImage(m)
    <2>1. /\ images[m] \in 0 .. MaxImages /\ stored[m] \in 0 .. MaxImages
          /\ stored[m] + 1 <= images[m]
      BY <1>2 DEF PersistImage, ContactTypeOK
    <2>2. stored[m] + 1 \in 1 .. MaxImages
      BY <2>1
    <2>3. <<m, stored[m] + 1>> \in Image /\ stored[m] + 1 \in 0 .. MaxImages
      BY <2>2 DEF Image
    <2> QED
      BY <1>2, <2>3 DEF PersistImage, ContactTypeOK
  <1>3. CASE SaveMessage(m)
    BY <1>3 DEF SaveMessage, ContactTypeOK
  <1>4. CASE CreateFails(m)
    BY <1>4 DEF CreateFails, ContactTypeOK
  <1>5. CASE Notify(m) \/ DeleteMessage(m)
    BY <1>5 DEF Notify, DeleteMessage, ContactTypeOK
  <1> QED
    BY <1>1, <1>2, <1>3, <1>4, <1>5 DEF ContactStep

\* A step for one message leaves the images and the files of the others, and
\* never deletes a file once the message is saved.
LEMMA FilesStay ==
  ASSUME MessageInv, NEW m \in Message, ContactStep(m), NEW x \in Message
  PROVE  /\ x # m => /\ phase'[x] = phase[x] /\ images'[x] = images[x]
                     /\ stored'[x] = stored[x]
                     /\ x \in rows' <=> x \in rows
                     /\ x \in unsure' <=> x \in unsure
         /\ x # m \/ phase[x] \in {"notifying", "ended"} =>
              /\ images'[x] = images[x]
              /\ \A i : <<x, i>> \in files => <<x, i>> \in files'
         /\ phase[x] \in {"notifying", "ended"} =>
              phase'[x] \in {"notifying", "ended"} /\ (x \in unsure' <=> x \in unsure)
  <1> USE DEF MessageInv, ContactTypeOK
  <1>1. CASE CreateMessage(m)
    BY <1>1 DEF CreateMessage
  <1>2. CASE PersistImage(m)
    BY <1>2 DEF PersistImage
  <1>3. CASE SaveMessage(m)
    BY <1>3 DEF SaveMessage
  <1>4. CASE CreateFails(m)
    <2>1. PICK left \in SUBSET Keys(m) : files' = files \ left
      BY <1>4 DEF CreateFails
    <2>2. \A i : <<x, i>> \in left => x = m
      BY DEF Keys
    <2>3. phase[m] = "storing" /\ phase' = [phase EXCEPT ![m] = "ended"] /\ images' = images
          /\ stored' = stored /\ (\A y \in Message : y # m => (y \in rows' <=> y \in rows))
          /\ (\A y \in Message : y # m => (y \in unsure' <=> y \in unsure))
      BY <1>4 DEF CreateFails
    <2> QED
      BY <2>1, <2>2, <2>3
  <1>5. CASE Notify(m)
    BY <1>5 DEF Notify
  <1>6. CASE DeleteMessage(m)
    BY <1>6 DEF DeleteMessage
  <1> QED
    BY <1>1, <1>2, <1>3, <1>4, <1>5, <1>6 DEF ContactStep

LEMMA ContactKeepsMessages ==
  ASSUME MessageInv, NEW m \in Message, ContactStep(m)
  PROVE  MessageInv'
  <1> USE ContactConstants
  <1>1. ContactTypeOK'
    BY ContactTypes DEF MessageInv
  <1>2. ASSUME NEW x \in Message, x # m
        PROVE  /\ phase'[x] = "new" => x \notin rows' /\ x \notin unsure' /\ stored'[x] = 0
               /\ phase'[x] = "storing" =>
                    x \notin rows' /\ x \notin unsure' /\ First(x, stored'[x]) \subseteq files'
               /\ x \notin unsure' /\ (x \in rows' \/ phase'[x] = "notifying") =>
                    Keys(x)' \subseteq files'
    <2>1. /\ phase'[x] = phase[x] /\ images'[x] = images[x] /\ stored'[x] = stored[x]
          /\ (x \in rows' <=> x \in rows) /\ (x \in unsure' <=> x \in unsure)
          /\ \A i : <<x, i>> \in files => <<x, i>> \in files'
      BY <1>2, FilesStay
    <2>2. \A n : First(x, n) \subseteq files => First(x, n) \subseteq files'
      BY <2>1 DEF First
    <2>3. Keys(x)' = First(x, images[x]) /\ Keys(x) = First(x, images[x])
      BY <2>1 DEF Keys, First
    <2> QED
      BY <2>1, <2>2, <2>3 DEF MessageInv, MessagesInOrder, MessagesKeepTheirImages
  <1>3. /\ phase'[m] = "new" => m \notin rows' /\ m \notin unsure' /\ stored'[m] = 0
        /\ phase'[m] = "storing" =>
             m \notin rows' /\ m \notin unsure' /\ First(m, stored'[m]) \subseteq files'
        /\ m \notin unsure' /\ (m \in rows' \/ phase'[m] = "notifying") =>
             Keys(m)' \subseteq files'
    <2>1. /\ phase[m] = "new" => m \notin rows /\ m \notin unsure /\ stored[m] = 0
          /\ phase[m] = "storing" =>
               m \notin rows /\ m \notin unsure /\ First(m, stored[m]) \subseteq files
          /\ m \notin unsure /\ (m \in rows \/ phase[m] = "notifying") => Keys(m) \subseteq files
          /\ Keys(m) = First(m, images[m]) /\ Keys(m)' = First(m, images'[m])
          /\ phase \in [Message -> {"new", "storing", "notifying", "ended"}]
          /\ images \in [Message -> 0 .. MaxImages] /\ stored \in [Message -> 0 .. MaxImages]
      BY DEF MessageInv, ContactTypeOK, MessagesInOrder, MessagesKeepTheirImages, Keys, First
    <2>2. CASE CreateMessage(m)
      <3>1. First(m, 0) = {}
        BY DEF First
      <3> QED
        BY <2>1, <2>2, <3>1 DEF CreateMessage
    <2>3. CASE PersistImage(m)
      <3>1. First(m, stored[m] + 1) = First(m, stored[m]) \cup {<<m, stored[m] + 1>>}
        BY <2>1, FirstGrows
      <3>2. /\ phase[m] = "storing" /\ phase' = phase /\ rows' = rows /\ unsure' = unsure
            /\ stored'[m] = stored[m] + 1 /\ files' = files \cup {<<m, stored[m] + 1>>}
        BY <2>1, <2>3 DEF PersistImage
      <3> QED
        BY <2>1, <3>1, <3>2
    <2>4. CASE SaveMessage(m)
      BY <2>1, <2>4 DEF SaveMessage
    <2>5. CASE CreateFails(m)
      BY <2>1, <2>5 DEF CreateFails
    <2>6. CASE Notify(m) \/ DeleteMessage(m)
      BY <2>1, <2>6 DEF Notify, DeleteMessage
    <2> QED
      BY <2>2, <2>3, <2>4, <2>5, <2>6 DEF ContactStep
  <1> QED
    BY <1>1, <1>2, <1>3 DEF MessageInv, MessagesInOrder, MessagesKeepTheirImages

\* What was in a dump keeps its images.
LEMMA LastingLasts ==
  ASSUME MessageInv, NEW m \in Message, ContactStep(m), NEW x \in Message, Lasting(x)
  PROVE  Lasting(x)' /\ (x \in unsure' <=> x \in unsure) /\ Keys(x)' = Keys(x)
  <1>1. /\ images'[x] = images[x] /\ phase'[x] \in {"notifying", "ended"}
        /\ (x \in unsure' <=> x \in unsure)
        /\ \A i : <<x, i>> \in files => <<x, i>> \in files'
    BY FilesStay DEF Lasting
  <1>2. Keys(x)' = Keys(x)
    BY <1>1 DEF Keys
  <1>3. \A f \in Keys(x) : \E i : f = <<x, i>>
    BY DEF Keys
  <1> QED
    BY <1>1, <1>2, <1>3 DEF Lasting

\* A step of a visitor or administrator, beside the script.
LEMMA ContactSteps ==
  ASSUME ReleaseInv, NEW m \in Message, ContactStep(m), Apart, Others
  PROVE  ReleaseInv'
  <1>1. MessageInv /\ MessageInv'
    BY ContactKeepsMessages DEF ReleaseInv
  <1>2. UNCHANGED <<scene, day, backup, recorded, tables, deploy, runner>>
    BY DEF Apart, Others, release, schema
  <1>3. ReleaseTypeOK'
    BY <1>1, <1>2 DEF ReleaseInv, ReleaseTypeOK, BackupTypeOK, MessageInv, backup
  <1>4. RunsInv' /\ DeployInv'
    BY <1>2 DEF ReleaseInv, RunsInv, DeployInv, backup, HolderInv, Reliable, ReportedCopiesExist, Vouches,
                SafeReadiness, GateInv, RunnerInv, RestartsFindTables
  <1>5. ASSUME NEW r \in Run, NEW x \in copy[r].rows
        PROVE  x \in Message /\ Lasting(x) /\ Lasting(x)'
               /\ (x \in unsure' <=> x \in unsure) /\ Keys(x)' = Keys(x)
    <2>1. Lasting(x) /\ x \in Message
      BY <1>5 DEF ReleaseInv, ReleaseTypeOK, BackupTypeOK, CopiesInv
    <2> QED
      BY <1>1, <2>1, LastingLasts
  <1>6. CopiesInv'
    <2>1. UNCHANGED <<holder, stage, todo, copy, local, daily, monthly>>
      BY <1>2 DEF backup
    <2>2. \A r \in Run : \A x \in copy'[r].rows : Lasting(x)'
      BY <1>5, <2>1
    <2>3. holder # NoRun => holder \in Run
      BY DEF ReleaseInv, ReleaseTypeOK, BackupTypeOK
    <2>4. holder # NoRun => CopyGrows(holder)'
      BY <1>5, <2>1, <2>3 DEF ReleaseInv, CopiesInv, CopyGrows
    <2>5. \A r \in local \cup daily \cup monthly : r \in Run
      BY DEF ReleaseInv, ReleaseTypeOK, BackupTypeOK
    <2>6. CopiesRestore'
      BY <1>5, <2>1, <2>5 DEF ReleaseInv, CopiesInv, CopiesRestore
    <2> QED
      BY <2>1, <2>2, <2>4, <2>6 DEF CopiesInv
  <1> QED
    BY <1>1, <1>3, <1>4, <1>6 DEF ReleaseInv

-----------------------------------------------------------------------------
(* The stages of a run of the script.                                      *)

Copied == [rows : SUBSET Message, files : SUBSET Image, date : Day, made : Day]

\* Only visitors and administrators change messages.
LEMMA Standing ==
  ASSUME UNCHANGED contact
  PROVE  /\ MessageInv => MessageInv'
         /\ \A x : (Lasting(x) => Lasting(x)') /\ Keys(x)' = Keys(x)
         /\ unsure' = unsure /\ rows' = rows /\ files' = files
  BY DEF contact, MessageInv, ContactTypeOK, MessagesInOrder, MessagesKeepTheirImages,
         Lasting, Keys

\* Facts about the run that holds the lock and about the constants.
LEMMA Holding ==
  ASSUME ScriptInv
  PROVE  /\ {LocalDays, DailyDays, FreshDays} \subseteq Nat
         /\ 1 < LocalDays /\ 1 < DailyDays
         /\ day \in Nat /\ lastRun \in 0 .. MaxRun /\ MaxRun \in Nat
         /\ \A r \in Run : /\ r \in Nat /\ r # NoRun /\ copy[r] \in Copied
                           /\ copy[r].made \in Nat /\ copy[r].date \in Nat
         /\ holder # NoRun => holder \in Run
         /\ local \cup daily \cup monthly \subseteq Run
         /\ ready \in [local : BOOLEAN, offsite : BOOLEAN]
  <1>1. /\ LocalDays \in Nat /\ DailyDays \in Nat /\ FreshDays \in Nat
        /\ MaxDay \in Nat /\ MaxRun \in Nat
        /\ FreshDays + 1 < LocalDays /\ FreshDays + 1 < DailyDays
    BY BackupConstants
  <1>2. /\ \A r \in Run : r \in Nat /\ r # NoRun
        /\ \A d \in Day : d \in Nat
    BY <1>1 DEF Run, NoRun, Day
  <1>3. /\ day \in Day /\ lastRun \in 0 .. MaxRun /\ copy \in [Run -> Copied]
        /\ holder \in Run \cup {NoRun} /\ local \cup daily \cup monthly \subseteq Run
        /\ ready \in [local : BOOLEAN, offsite : BOOLEAN]
    BY DEF ScriptInv, BackupTypeOK, Copied
  <1>4. \A r \in Run : copy[r] \in Copied /\ copy[r].made \in Day /\ copy[r].date \in Day
    BY <1>3 DEF Copied
  <1>5. 1 < LocalDays /\ 1 < DailyDays
    BY <1>1
  <1> QED
    BY <1>1, <1>2, <1>3, <1>4, <1>5

\* A status is written, and perhaps a summary with it.
LEMMA Reports ==
  ASSUME BackupTypeOK, Reliable, NEW run \in Run, NEW s,
         s \in {"running", "failed", "offsite_failed", "local_only", "offsite_ok"},
         NEW flags \in [local : BOOLEAN, offsite : BOOLEAN], WriteStatus(run, s, flags),
         NEW y, y = [run |-> run, status |-> s, local |-> flags.local, offsite |-> flags.offsite]
  PROVE  /\ status' = y /\ y \in Status
         /\ y.run = run /\ y.status = s /\ y.local = flags.local /\ y.offsite = flags.offsite
         /\ summary' \in [says : Status, day : Day]
         /\ summary' = summary \/ (summary'.says = y /\ summary'.day = day)
  BY DEF WriteStatus, WriteSummary, Status, BackupTypeOK, NoRun

\* What is said of a run stays reliable.
LEMMA StaysReliable ==
  ASSUME ScriptInv, lastRun <= lastRun', lastRun' \in Nat, day' = day,
         \A r \in Run : copy'[r].made \in Nat,
         \/ /\ summary' = summary
            /\ summary.says.local => /\ copy'[summary.says.run].made = copy[summary.says.run].made
                                     /\ local \ Old(local, LocalDays) \subseteq local'
            /\ summary.says.offsite => /\ copy'[summary.says.run].made = copy[summary.says.run].made
                                       /\ daily \ Old(daily, DailyDays) \subseteq daily'
         \/ /\ summary'.day = day /\ SafeReadiness(summary'.says)
            /\ summary'.says.run \in Run /\ summary'.says.run <= lastRun'
            /\ summary'.says.local => /\ summary'.says.run \in local'
                                      /\ day <= copy'[summary'.says.run].made + 1
            /\ summary'.says.offsite => /\ summary'.says.run \in daily'
                                        /\ day <= copy'[summary'.says.run].made + 1
  PROVE  Reliable'
  <1>1. Reliable /\ summary \in [says : Status, day : Day]
    BY DEF ScriptInv, RunsInv, BackupTypeOK
  <1>2. summary.says.run \in Nat /\ lastRun \in Nat /\ day \in Nat
    BY <1>1, Holding DEF Status, Run, NoRun
  <1>3. CASE summary' = summary
           /\ (summary.says.local => /\ copy'[summary.says.run].made = copy[summary.says.run].made
                                     /\ local \ Old(local, LocalDays) \subseteq local')
           /\ (summary.says.offsite => /\ copy'[summary.says.run].made = copy[summary.says.run].made
                                       /\ daily \ Old(daily, DailyDays) \subseteq daily')
    <2>1. summary.says.local => Vouches(summary.says.run, local, LocalDays)'
      BY <1>1, <1>2, <1>3, Holding DEF Reliable, Vouches, Old
    <2>2. summary.says.offsite => Vouches(summary.says.run, daily, DailyDays)'
      BY <1>1, <1>2, <1>3, Holding DEF Reliable, Vouches, Old
    <2> QED
      BY <1>1, <1>2, <1>3, <2>1, <2>2 DEF Reliable, SafeReadiness
  <1>4. CASE /\ summary'.day = day /\ SafeReadiness(summary'.says)
             /\ summary'.says.run \in Run /\ summary'.says.run <= lastRun'
             /\ summary'.says.local => /\ summary'.says.run \in local'
                                       /\ day <= copy'[summary'.says.run].made + 1
             /\ summary'.says.offsite => /\ summary'.says.run \in daily'
                                         /\ day <= copy'[summary'.says.run].made + 1
    BY <1>2, <1>4 DEF Reliable, Vouches, SafeReadiness
  <1> QED
    BY <1>3, <1>4

\* The script is started.
LEMMA NextRun ==
  ASSUME ScriptInv, MayStart
  PROVE  lastRun + 1 \in Run /\ lastRun + 1 \in 0 .. MaxRun /\ lastRun \in Nat
  <1>1. VisitedRuns \in Nat /\ MaxRun \in Nat /\ VisitedRuns <= MaxRun
    BY BackupConstants
  <1>2. lastRun \in 0 .. MaxRun
    BY Holding
  <1>3. lastRun < VisitedRuns \/ lastRun < MaxRun
    BY DEF MayStart
  <1> QED
    BY <1>1, <1>2, <1>3 DEF Run

LEMMA StartSteps ==
  ASSUME ScriptInv, Start
  PROVE  ScriptInv' /\ daily \subseteq daily'
  <1>1. PICK new : new = lastRun + 1
    OBVIOUS
  <1>2. /\ new \in Run /\ new \in 0 .. MaxRun /\ lastRun \in Nat /\ lastRun < new
    BY <1>1, NextRun DEF Start
  <1>3. /\ UNCHANGED <<contact, scene, day, todo, local, daily, monthly>>
        /\ lastRun' = new /\ holder' = new /\ rclone' \in BOOLEAN
        /\ stage' = "database_dump" /\ ready' = NotReady
        /\ copy' = [copy EXCEPT ![new].date = day]
        /\ WriteStatus(new, "running", NotReady)
    BY <1>1 DEF Start
  <1>4. BackupTypeOK /\ MessageInv /\ CopiesInv /\ RunsInv /\ copy \in [Run -> Copied]
    BY DEF ScriptInv, BackupTypeOK, Copied
  <1>5. /\ copy' \in [Run -> Copied] /\ copy'[new].date = day
        /\ \A r \in Run : /\ copy'[r].rows = copy[r].rows /\ copy'[r].files = copy[r].files
                          /\ copy'[r].made = copy[r].made
    <2>1. PICK c : c = [copy[new] EXCEPT !.date = day]
      OBVIOUS
    <2>2. /\ c \in Copied /\ c.date = day /\ c.rows = copy[new].rows /\ c.files = copy[new].files
          /\ c.made = copy[new].made
      BY <1>2, <1>4, <2>1 DEF BackupTypeOK, Copied
    <2>3. copy' = [copy EXCEPT ![new] = c]
      BY <1>3, <2>1
    <2> QED
      BY <1>2, <1>4, <2>2, <2>3
  <1>6. PICK y : y = [run |-> new, status |-> "running", local |-> FALSE, offsite |-> FALSE]
    OBVIOUS
  <1>7. /\ status' = y /\ y \in Status
        /\ y.run = new /\ y.status = "running" /\ y.local = FALSE /\ y.offsite = FALSE
        /\ summary' \in [says : Status, day : Day]
        /\ summary' = summary \/ (summary'.says = y /\ summary'.day = day)
    <2>1. NotReady \in [local : BOOLEAN, offsite : BOOLEAN]
          /\ NotReady.local = FALSE /\ NotReady.offsite = FALSE
      BY DEF NotReady
    <2>2. Reliable
      BY <1>4 DEF RunsInv
    <2>3. y = [run |-> new, status |-> "running", local |-> NotReady.local, offsite |-> NotReady.offsite]
      BY <1>6, <2>1
    <2> QED
      BY <1>2, <1>3, <1>4, <2>1, <2>2, <2>3, Reports
  <1>8. BackupTypeOK'
    BY <1>2, <1>3, <1>4, <1>5, <1>7 DEF BackupTypeOK, contact, ContactTypeOK, Stages, NotReady, Copied
  <1>9. MessageInv' /\ CopiesInv'
    <2>1. /\ MessageInv' /\ unsure' = unsure
          /\ \A x : (Lasting(x) => Lasting(x)') /\ Keys(x)' = Keys(x)
      BY <1>3, <1>4, Standing
    <2>2. \A r \in local \cup daily \cup monthly : r \in Run
      BY Holding
    <2>3. CopyGrows(holder)'
      BY <1>3 DEF CopyGrows
    <2> QED
      BY <1>3, <1>4, <1>5, <2>1, <2>2, <2>3 DEF CopiesInv, CopiesRestore
  <1>10. RunsInv'
    <2>1. Reliable'
      BY <1>2, <1>3, <1>5, <1>7, StaysReliable, Holding DEF SafeReadiness
    <2>2. local' \cup daily' \cup monthly' \subseteq 1 .. lastRun' /\ status'.run <= lastRun'
      BY <1>2, <1>3, <1>4, <1>7 DEF RunsInv
    <2>3. summary'.says.run = new => ~summary'.says.local /\ ~summary'.says.offsite
      BY <1>2, <1>4, <1>7 DEF RunsInv, Reliable, BackupTypeOK, Status
    <2>4. new \notin local \cup daily \cup monthly
      BY <1>2, <1>4 DEF RunsInv
    <2>5. HolderInv'
      BY <1>2, <1>3, <1>5, <1>7, <2>3, <2>4, Holding DEF HolderInv, Early, NotReady, Run
    <2>6. ReportedCopiesExist' /\ \A r \in Run : copy'[r].made <= day'
      BY <1>3, <1>4, <1>5, <1>7 DEF RunsInv, ReportedCopiesExist
    <2> QED
      BY <2>1, <2>2, <2>5, <2>6 DEF RunsInv
  <1> QED
    BY <1>3, <1>8, <1>9, <1>10 DEF ScriptInv

LEMMA FailSteps ==
  ASSUME ScriptInv, Fail
  PROVE  ScriptInv' /\ daily \subseteq daily'
  <1>1. PICK new : new = lastRun + 1
    OBVIOUS
  <1>2. /\ new \in Run /\ new \in 0 .. MaxRun /\ lastRun \in Nat /\ lastRun < new
    BY <1>1, NextRun DEF Fail
  <1>3. /\ UNCHANGED <<contact, scene, day, holder, rclone, stage, ready, todo, copies>>
        /\ lastRun' = new /\ WriteStatus(new, "failed", NotReady)
    BY <1>1 DEF Fail
  <1>4. BackupTypeOK /\ MessageInv /\ CopiesInv /\ RunsInv
    BY DEF ScriptInv
  <1>6. PICK y : y = [run |-> new, status |-> "failed", local |-> FALSE, offsite |-> FALSE]
    OBVIOUS
  <1>7. /\ status' = y /\ y \in Status
        /\ y.run = new /\ y.status = "failed" /\ y.local = FALSE /\ y.offsite = FALSE
        /\ summary' \in [says : Status, day : Day]
        /\ summary' = summary \/ (summary'.says = y /\ summary'.day = day)
    <2>1. NotReady \in [local : BOOLEAN, offsite : BOOLEAN]
          /\ NotReady.local = FALSE /\ NotReady.offsite = FALSE
      BY DEF NotReady
    <2>2. Reliable
      BY <1>4 DEF RunsInv
    <2>3. y = [run |-> new, status |-> "failed", local |-> NotReady.local, offsite |-> NotReady.offsite]
      BY <1>6, <2>1
    <2> QED
      BY <1>2, <1>3, <1>4, <2>1, <2>2, <2>3, Reports
  <1>8. BackupTypeOK'
    BY <1>2, <1>3, <1>4, <1>7 DEF BackupTypeOK, contact, ContactTypeOK, copies
  <1>9. MessageInv' /\ CopiesInv'
    <2>1. /\ MessageInv' /\ unsure' = unsure
          /\ \A x : (Lasting(x) => Lasting(x)') /\ Keys(x)' = Keys(x)
      BY <1>3, <1>4, Standing
    <2>2. \A r \in local \cup daily \cup monthly : r \in Run
      BY Holding
    <2> QED
      BY <1>3, <1>4, <2>1, <2>2 DEF CopiesInv, CopyGrows, CopiesRestore, copies
  <1>10. RunsInv'
    <2>1. Reliable'
      BY <1>2, <1>3, <1>7, StaysReliable, Holding DEF SafeReadiness, copies
    <2>2. local' \cup daily' \cup monthly' \subseteq 1 .. lastRun' /\ status'.run <= lastRun'
      BY <1>2, <1>3, <1>4, <1>7 DEF RunsInv, copies
    <2>3. holder # NoRun => holder \in 1 .. lastRun
      BY <1>3, <1>4 DEF RunsInv, HolderInv
    <2>4. holder # NoRun /\ summary'.says.run = holder /\ stage \in Early =>
            ~summary'.says.local /\ ~summary'.says.offsite
      BY <1>2, <1>3, <1>4, <1>7 DEF RunsInv, HolderInv
    <2>5. HolderInv'
      BY <1>2, <1>3, <1>4, <1>7, <2>3, <2>4 DEF RunsInv, HolderInv, copies
    <2>6. ReportedCopiesExist' /\ \A r \in Run : copy'[r].made <= day'
      BY <1>3, <1>4, <1>7 DEF RunsInv, ReportedCopiesExist, copies
    <2> QED
      BY <2>1, <2>2, <2>5, <2>6 DEF RunsInv
  <1> QED
    BY <1>3, <1>8, <1>9, <1>10 DEF ScriptInv, copies

\* A run that nothing is left of.
LEMMA SilentSteps ==
  ASSUME ScriptInv, lastRun < MaxRun, lastRun' = lastRun + 1,
         UNCHANGED <<contact, scene, day, holder, rclone, stage, ready, todo, copies, status, summary>>
  PROVE  ScriptInv' /\ daily \subseteq daily'
  <1>1. BackupTypeOK /\ MessageInv /\ CopiesInv /\ RunsInv
    BY DEF ScriptInv
  <1>2. PICK new : new = lastRun + 1
    OBVIOUS
  <1>3. /\ lastRun \in Nat /\ lastRun' = new /\ new \in 0 .. MaxRun /\ lastRun < new
        /\ new \in Nat
    BY <1>1, <1>2, BackupConstants DEF BackupTypeOK
  <1>4. BackupTypeOK'
    BY <1>1, <1>3 DEF BackupTypeOK, contact, ContactTypeOK, copies
  <1>5. MessageInv' /\ CopiesInv'
    <2>1. /\ MessageInv' /\ unsure' = unsure
          /\ \A x : (Lasting(x) => Lasting(x)') /\ Keys(x)' = Keys(x)
      BY <1>1, Standing
    <2>2. \A r \in local \cup daily \cup monthly : r \in Run
      BY Holding
    <2> QED
      BY <1>1, <2>1, <2>2 DEF CopiesInv, CopyGrows, CopiesRestore, copies
  <1>6. RunsInv'
    <2>1. Reliable'
      <3>1. /\ lastRun <= lastRun' /\ lastRun' \in Nat /\ day' = day /\ summary' = summary
            /\ copy' = copy /\ local' = local /\ daily' = daily
            /\ \A r \in Run : copy'[r].made \in Nat
        BY <1>3, Holding DEF copies
      <3>2. local \ Old(local, LocalDays) \subseteq local'
            /\ daily \ Old(daily, DailyDays) \subseteq daily'
        BY <3>1
      <3> QED
        BY <3>1, <3>2, StaysReliable
    <2>2. HolderInv'
      BY <1>1, <1>3 DEF RunsInv, HolderInv, copies
    <2>3. status.run <= lastRun' /\ local \cup daily \cup monthly \subseteq 1 .. lastRun'
      BY <1>1, <1>3, Holding, SMTT(30) DEF RunsInv, BackupTypeOK, Status, NoRun, Run
    <2> QED
      BY <1>1, <2>1, <2>2, <2>3 DEF RunsInv, ReportedCopiesExist, copies
  <1> QED
    BY <1>4, <1>5, <1>6 DEF ScriptInv, copies

\* Runs that do not get the lock.
LEMMA RefusedSteps ==
  ASSUME ScriptInv, StartWhileRunning \/ StartRefused
  PROVE  /\ ScriptInv' /\ daily \subseteq daily'
         /\ MayStart /\ lastRun' = lastRun + 1
         /\ UNCHANGED <<contact, scene, day, copies>>
  <1>1. CASE Fail
    BY <1>1, FailSteps DEF Fail
  <1>2. CASE /\ MayStart /\ lastRun' = lastRun + 1
             /\ UNCHANGED <<contact, scene, day, holder, rclone, stage, ready, todo, copies,
                            status, summary>>
    <2>1. lastRun < MaxRun
      <3>1. lastRun \in 0 .. MaxRun /\ lastRun + 1 \in Run
        BY <1>2, NextRun, Holding
      <3> QED
        BY <3>1, BackupConstants DEF Run
    <2> QED
      BY <1>2, <2>1, SilentSteps
  <1> QED
    BY <1>1, <1>2 DEF StartWhileRunning, StartRefused

\* Dumping and archiving leave what was said of runs alone.
LEMMA CopyingKeepsRuns ==
  ASSUME ScriptInv, holder # NoRun, stage \in Early, stage' \in Early,
         UNCHANGED <<day, lastRun, holder, ready, local, daily, monthly, status, summary>>,
         \A r \in Run : copy'[r].made = copy[r].made /\ copy'[r].date = copy[r].date
  PROVE  RunsInv'
  <1>1. RunsInv /\ holder \in Run /\ summary.says.run \in Run \cup {NoRun}
    BY Holding DEF ScriptInv, BackupTypeOK, Status
  <1>2. Reliable'
    BY <1>1, Holding DEF RunsInv, Reliable, Vouches, SafeReadiness
  <1>3. HolderInv'
    BY <1>1 DEF RunsInv, HolderInv, Early
  <1> QED
    BY <1>1, <1>2, <1>3 DEF RunsInv, ReportedCopiesExist

LEMMA CopyingSteps ==
  ASSUME ScriptInv, DumpDatabase \/ ArchiveFile \/ ArchiveEnds
  PROVE  ScriptInv' /\ daily \subseteq daily'
  <1>1. /\ UNCHANGED <<contact, scene, day, lastRun, holder, rclone, ready>>
        /\ UNCHANGED <<local, daily, monthly, status, summary>> /\ holder # NoRun
    BY DEF DumpDatabase, ArchiveFile, ArchiveEnds, At, copies
  <1>2. BackupTypeOK /\ MessageInv /\ CopiesInv /\ RunsInv /\ copy \in [Run -> Copied]
    BY DEF ScriptInv, BackupTypeOK, Copied
  <1>3. holder \in Run
    BY <1>1, Holding
  <1>4. /\ MessageInv' /\ unsure' = unsure
        /\ \A x : (Lasting(x) => Lasting(x)') /\ Keys(x)' = Keys(x)
    BY <1>1, <1>2, Standing
  <1>5. /\ stage \in Early /\ stage' \in Early /\ todo' \subseteq Image
        /\ copy' \in [Run -> Copied]
        /\ \A r \in Run : copy'[r].made = copy[r].made /\ copy'[r].date = copy[r].date
        /\ \A r \in Run : r # holder => copy'[r] = copy[r]
        /\ \A x \in copy'[holder].rows : Lasting(x)'
        /\ CopyGrows(holder)'
    <2>1. CASE DumpDatabase
      <3>1. PICK c : c = [copy[holder] EXCEPT !.rows = rows]
        OBVIOUS
      <3>2. /\ stage = "database_dump" /\ stage' = "uploads_archive" /\ todo' = files
            /\ copy' = [copy EXCEPT ![holder] = c]
        BY <2>1, <3>1 DEF DumpDatabase, At
      <3>3. /\ c \in Copied /\ c.rows = rows /\ c.made = copy[holder].made
            /\ c.date = copy[holder].date
        BY <1>2, <1>3, <3>1 DEF BackupTypeOK, ContactTypeOK, Copied
      <3>4. /\ copy' \in [Run -> Copied] /\ copy'[holder] = c
            /\ \A r \in Run : r # holder => copy'[r] = copy[r]
        BY <1>2, <1>3, <3>2, <3>3
      <3>5. \A x \in rows : Lasting(x) /\ (x \notin unsure => Keys(x) \subseteq files)
        BY <1>2 DEF MessageInv, ContactTypeOK, MessagesInOrder, MessagesKeepTheirImages, Lasting
      <3>6. CopyGrows(holder)'
        BY <1>1, <1>4, <3>2, <3>3, <3>4, <3>5 DEF CopyGrows
      <3> QED
        BY <1>2, <1>4, <3>2, <3>3, <3>4, <3>5, <3>6 DEF Early, BackupTypeOK, ContactTypeOK
    <2>2. CASE ArchiveFile
      <3>1. PICK f \in todo :
              /\ todo' = todo \ {f}
              /\ copy' = [copy EXCEPT ![holder].files = @ \cup ({f} \cap files)]
        BY <2>2 DEF ArchiveFile
      <3>2. PICK c : c = [copy[holder] EXCEPT !.files = copy[holder].files \cup ({f} \cap files)]
        OBVIOUS
      <3>3. /\ c \in Copied /\ c.rows = copy[holder].rows /\ c.made = copy[holder].made
            /\ c.files = copy[holder].files \cup ({f} \cap files)
            /\ c.date = copy[holder].date
        BY <1>2, <1>3, <3>2 DEF BackupTypeOK, ContactTypeOK, Copied
      <3>4. copy' = [copy EXCEPT ![holder] = c]
        BY <3>1, <3>2
      <3>5. /\ copy' \in [Run -> Copied] /\ copy'[holder] = c
            /\ \A r \in Run : r # holder => copy'[r] = copy[r]
        BY <1>2, <1>3, <3>3, <3>4
      <3>6. stage = "uploads_archive" /\ stage' = stage
        BY <2>2 DEF ArchiveFile, At
      <3>7. \A x \in copy[holder].rows : Lasting(x)
        BY <1>2, <1>3 DEF CopiesInv
      <3>8. ASSUME NEW x \in copy[holder].rows \ unsure
            PROVE  Keys(x) \subseteq c.files \cup (todo \ {f})
        <4>1. Keys(x) \subseteq copy[holder].files \cup todo /\ Keys(x) \subseteq files
          BY <1>1, <1>2, <3>6, <3>7 DEF CopiesInv, CopyGrows, Lasting
        <4> QED
          BY <3>3, <4>1
      <3>9. CopyGrows(holder)'
        BY <1>1, <1>4, <3>1, <3>3, <3>5, <3>6, <3>8 DEF CopyGrows
      <3> QED
        BY <1>2, <1>4, <3>1, <3>3, <3>5, <3>6, <3>7, <3>9 DEF Early, BackupTypeOK
    <2>3. CASE ArchiveEnds
      <3>1. /\ stage = "uploads_archive" /\ stage' = "local_checksum" /\ todo = {} /\ todo' = todo
            /\ copy' = copy
        BY <2>3 DEF ArchiveEnds, At, copies
      <3>2. CopyGrows(holder)'
        BY <1>1, <1>2, <1>4, <3>1 DEF CopiesInv, CopyGrows
      <3> QED
        BY <1>2, <1>3, <1>4, <3>1, <3>2 DEF Early, BackupTypeOK, CopiesInv
    <2> QED
      BY <2>1, <2>2, <2>3
  <1>6. RunsInv'
    BY <1>1, <1>5, CopyingKeepsRuns
  <1>7. BackupTypeOK'
    BY <1>1, <1>2, <1>5 DEF BackupTypeOK, contact, ContactTypeOK, Copied, Early, Stages
  <1>8. CopiesInv'
    <2>1. \A r \in local \cup daily \cup monthly : r \in Run /\ r # holder
      BY <1>1, <1>2, <1>5, Holding DEF RunsInv, HolderInv
    <2>2. CopiesRestore'
      BY <1>1, <1>2, <1>4, <1>5, <2>1 DEF CopiesInv, CopiesRestore
    <2>3. \A r \in Run : \A x \in copy'[r].rows : Lasting(x)'
      BY <1>2, <1>4, <1>5 DEF CopiesInv
    <2> QED
      BY <1>1, <1>5, <2>2, <2>3 DEF CopiesInv
  <1> QED
    BY <1>1, <1>4, <1>6, <1>7, <1>8 DEF ScriptInv

\* What a late run knows of its copy: it is there, and not old.
LEMMA LateRun ==
  ASSUME ScriptInv, holder # NoRun, stage \notin Early
  PROVE  /\ holder \in Run /\ holder \in local /\ ready.local
         /\ day <= copy[holder].made + 1
         /\ holder \notin Old(local, LocalDays) /\ holder \notin Old(daily, DailyDays)
  <1>1. /\ holder \in Run /\ holder \in local /\ ready.local
        /\ copy[holder].date <= copy[holder].made /\ day <= copy[holder].date + 1
    BY Holding DEF ScriptInv, RunsInv, HolderInv
  <1>2. /\ day \in Nat /\ copy[holder].date \in Nat /\ copy[holder].made \in Nat
        /\ LocalDays \in Nat /\ DailyDays \in Nat /\ 1 < LocalDays /\ 1 < DailyDays
    BY <1>1, Holding
  <1>3. day <= copy[holder].made + 1
    BY <1>1, <1>2
  <1>4. ~(day - copy[holder].made >= LocalDays) /\ ~(day - copy[holder].made >= DailyDays)
    BY <1>2, <1>3
  <1> QED
    BY <1>1, <1>3, <1>4 DEF Old

\* The local copy is complete.
LEMMA FinishSteps ==
  ASSUME ScriptInv, FinishLocal
  PROVE  ScriptInv' /\ daily \subseteq daily'
  <1>1. PICK f : f = ready'
    OBVIOUS
  <1>2. /\ UNCHANGED <<contact, scene, day, lastRun, holder, rclone, todo, daily, monthly>>
        /\ holder # NoRun /\ stage = "local_checksum" /\ stage' = "local_retention"
        /\ local' = local \cup {holder} /\ f = [ready EXCEPT !.local = TRUE]
        /\ copy' = [copy EXCEPT ![holder].made = day] /\ WriteStatus(holder, "running", f)
    BY <1>1 DEF FinishLocal, At
  <1>3. BackupTypeOK /\ MessageInv /\ CopiesInv /\ RunsInv /\ copy \in [Run -> Copied]
    BY DEF ScriptInv, BackupTypeOK, Copied
  <1>4. /\ holder \in Run /\ holder \in 1 .. lastRun /\ holder \notin local \cup daily \cup monthly
        /\ ready = NotReady /\ copy[holder].date <= day /\ day <= copy[holder].date + 1
        /\ summary.says.run = holder => ~summary.says.local /\ ~summary.says.offsite
    BY <1>2, <1>3, Holding DEF RunsInv, HolderInv, Early
  <1>5. f \in [local : BOOLEAN, offsite : BOOLEAN] /\ f.local = TRUE /\ f.offsite = FALSE
    BY <1>2, <1>4 DEF NotReady
  <1>6. /\ copy' \in [Run -> Copied] /\ copy'[holder].made = day
        /\ copy'[holder].date = copy[holder].date
        /\ \A r \in Run : copy'[r].rows = copy[r].rows /\ copy'[r].files = copy[r].files
        /\ \A r \in Run : r # holder => copy'[r] = copy[r]
    <2>1. PICK c : c = [copy[holder] EXCEPT !.made = day]
      OBVIOUS
    <2>2. /\ c \in Copied /\ c.made = day /\ c.rows = copy[holder].rows
          /\ c.files = copy[holder].files /\ c.date = copy[holder].date
      BY <1>3, <1>4, <2>1 DEF BackupTypeOK, Copied
    <2>3. copy' = [copy EXCEPT ![holder] = c]
      BY <1>2, <2>1
    <2> QED
      BY <1>3, <1>4, <2>2, <2>3
  <1>7. PICK y : y = [run |-> holder, status |-> "running", local |-> f.local, offsite |-> f.offsite]
    OBVIOUS
  <1>8. /\ status' = y /\ y \in Status
        /\ y.run = holder /\ y.status = "running" /\ y.local = f.local /\ y.offsite = f.offsite
        /\ summary' \in [says : Status, day : Day]
        /\ summary' = summary \/ (summary'.says = y /\ summary'.day = day)
    <2>1. /\ BackupTypeOK /\ Reliable /\ holder \in Run /\ WriteStatus(holder, "running", f)
          /\ f \in [local : BOOLEAN, offsite : BOOLEAN]
      BY <1>2, <1>3, <1>4, <1>5 DEF RunsInv
    <2> QED
      BY <1>7, <2>1, Reports
  <1>9. BackupTypeOK'
    BY <1>1, <1>2, <1>3, <1>4, <1>5, <1>6, <1>8
    DEF BackupTypeOK, contact, ContactTypeOK, Stages, Copied
  <1>10. MessageInv' /\ CopiesInv'
    <2>1. /\ MessageInv' /\ unsure' = unsure
          /\ \A x : (Lasting(x) => Lasting(x)') /\ Keys(x)' = Keys(x)
      BY <1>2, <1>3, Standing
    <2>2. \A x \in copy[holder].rows \ unsure : Keys(x) \subseteq copy[holder].files
      BY <1>2, <1>3 DEF CopiesInv, CopyGrows
    <2>3. CopyGrows(holder)'
      BY <1>2, <1>4, <1>6, <2>1, <2>2 DEF CopyGrows
    <2>4. \A r \in local \cup daily \cup monthly : r \in Run
      BY Holding
    <2>5. CopiesRestore'
      BY <1>2, <1>3, <1>4, <1>6, <2>1, <2>2, <2>4 DEF CopiesInv, CopiesRestore
    <2>6. \A r \in Run : \A x \in copy'[r].rows : Lasting(x)'
      BY <1>3, <1>6, <2>1 DEF CopiesInv
    <2> QED
      BY <1>2, <2>1, <2>3, <2>5, <2>6 DEF CopiesInv
  <1>11. RunsInv'
    <2>1. /\ lastRun \in Nat /\ day \in Nat /\ \A r \in Run : copy'[r].made \in Nat
          /\ copy[holder].date \in Nat /\ holder \in Nat
      BY <1>4, <1>6, Holding
    <2>2. Reliable'
      <3>1. CASE summary' = summary
        <4>1. summary.says.local \/ summary.says.offsite =>
                copy'[summary.says.run].made = copy[summary.says.run].made
          BY <1>3, <1>4, <1>6 DEF RunsInv, Reliable, Vouches
        <4> QED
          BY <1>2, <2>1, <3>1, <4>1, StaysReliable
      <3>2. CASE summary'.says = y /\ summary'.day = day
        <4>1. /\ summary'.says.run \in local' /\ day <= copy'[summary'.says.run].made + 1
              /\ summary'.says.run <= lastRun' /\ summary'.says.run \in Run
              /\ ~summary'.says.offsite
          BY <1>2, <1>4, <1>5, <1>6, <1>8, <2>1, <3>2
        <4>2. SafeReadiness(summary'.says)
          BY <1>8, <3>2 DEF SafeReadiness
        <4> QED
          BY <1>2, <2>1, <3>2, <4>1, <4>2, StaysReliable
      <3> QED
        BY <1>8, <3>1, <3>2
    <2>3. local' \cup daily' \cup monthly' \subseteq 1 .. lastRun' /\ status'.run <= lastRun'
      BY <1>2, <1>3, <1>4, <1>8, <2>1 DEF RunsInv
    <2>4. HolderInv'
      BY <1>1, <1>2, <1>4, <1>5, <1>6, <1>8 DEF HolderInv, Early
    <2>5. ReportedCopiesExist'
      BY <1>2, <1>5, <1>8 DEF ReportedCopiesExist
    <2>6. \A r \in Run : copy'[r].made <= day'
      BY <1>2, <1>3, <1>6, <2>1 DEF RunsInv
    <2> QED
      BY <2>2, <2>3, <2>4, <2>5, <2>6 DEF RunsInv
  <1> QED
    BY <1>2, <1>9, <1>10, <1>11 DEF ScriptInv

\* The stages after the local copy: old copies go, the run's own is added, and
\* what is reported is there.
LEMMA LateSteps ==
  ASSUME ScriptInv, holder # NoRun, stage \notin Early,
         UNCHANGED <<contact, scene, day, lastRun, copy>>,
         rclone' \in BOOLEAN, stage' \in Stages, todo' \subseteq Image,
         ready' \in [local : BOOLEAN, offsite : BOOLEAN],
         local \ Old(local, LocalDays) \subseteq local', local' \subseteq local,
         daily \ Old(daily, DailyDays) \subseteq daily', daily' \subseteq daily \cup {holder},
         monthly' \subseteq monthly \cup {holder},
         \/ holder' = NoRun
         \/ /\ holder' = holder /\ stage' \notin Early \cup {"complete"} /\ ready'.local
            /\ ready'.offsite <=> stage' \in {"offsite_monthly", "remote_retention"}
            /\ ready'.offsite => holder \in daily',
         \/ status' = status /\ summary' = summary
         \/ /\ status' \in Status /\ status'.run = holder /\ SafeReadiness(status')
            /\ status'.offsite => holder \in daily'
            /\ summary' \in [says : Status, day : Day]
            /\ summary' = summary \/ (summary'.says = status' /\ summary'.day = day)
  PROVE  ScriptInv'
  <1>1. BackupTypeOK /\ MessageInv /\ CopiesInv /\ RunsInv
    BY DEF ScriptInv
  <1>2. /\ holder \in Run /\ holder \in local' /\ day <= copy[holder].made + 1
        /\ holder \in 1 .. lastRun /\ lastRun \in Nat
        /\ holder \in daily => holder \in daily'
        /\ copy[holder].date <= day /\ day <= copy[holder].date + 1
        /\ copy[holder].date <= copy[holder].made
    BY <1>1, LateRun, Holding DEF RunsInv, HolderInv
  <1>3. /\ summary' \in [says : Status, day : Day] /\ status' \in Status
    BY <1>1 DEF BackupTypeOK
  <1>4. BackupTypeOK'
    BY <1>1, <1>2, <1>3 DEF BackupTypeOK, contact, ContactTypeOK
  <1>5. MessageInv' /\ CopiesInv'
    <2>1. /\ MessageInv' /\ unsure' = unsure
          /\ \A x : (Lasting(x) => Lasting(x)') /\ Keys(x)' = Keys(x)
      BY <1>1, Standing
    <2>2. holder' # NoRun => CopyGrows(holder)'
      BY <1>1, <2>1 DEF CopiesInv, CopyGrows, Early
    <2>3. \A r \in local' \cup daily' \cup monthly' : r \in local \cup daily \cup monthly
      BY LateRun
    <2>4. CopiesRestore'
      BY <1>1, <2>1, <2>3 DEF CopiesInv, CopiesRestore
    <2>5. \A r \in Run : \A x \in copy'[r].rows : Lasting(x)'
      BY <1>1, <2>1 DEF CopiesInv
    <2> QED
      BY <2>1, <2>2, <2>4, <2>5 DEF CopiesInv
  <1>6. RunsInv'
    <2>1. /\ \A r \in Run : copy'[r].made \in Nat
          /\ lastRun <= lastRun' /\ lastRun' \in Nat /\ day' = day /\ copy' = copy
      BY <1>2, Holding
    <2>2. Reliable'
      <3>1. CASE summary' = summary
        BY <2>1, <3>1, StaysReliable
      <3>2. CASE summary'.says = status' /\ summary'.day = day /\ status'.run = holder
                 /\ SafeReadiness(status') /\ (status'.offsite => holder \in daily')
        <4>1. /\ SafeReadiness(summary'.says) /\ summary'.says.run = holder
              /\ holder <= lastRun' /\ day <= copy'[holder].made + 1
              /\ summary'.says.offsite => holder \in daily'
          BY <1>2, <2>1, <3>2
        <4> QED
          BY <1>2, <2>1, <3>2, <4>1, StaysReliable
      <3> QED
        BY <3>1, <3>2
    <2>3. local' \cup daily' \cup monthly' \subseteq 1 .. lastRun' /\ status'.run <= lastRun'
      <3>1. /\ local \cup daily \cup monthly \subseteq 1 .. lastRun /\ status.run <= lastRun
            /\ status'.run = status.run \/ status'.run = holder
        BY <1>1 DEF RunsInv
      <3>2. holder <= lastRun
        BY <1>2
      <3> QED
        BY <1>2, <2>1, <3>1, <3>2
    <2>4. ReportedCopiesExist'
      <3>1. CASE status' = status
        <4>1. /\ status.local => status.run \in local /\ status.run = holder
              /\ status.offsite => status.run \in daily /\ status.run = holder
          BY <1>1 DEF RunsInv, HolderInv, ReportedCopiesExist
        <4> QED
          BY <1>2, <3>1, <4>1 DEF ReportedCopiesExist
      <3>2. CASE status'.run = holder /\ (status'.offsite => holder \in daily')
        BY <1>2, <3>2 DEF ReportedCopiesExist
      <3> QED
        BY <3>1, <3>2
    <2>5. HolderInv'
      BY <1>1, <1>2 DEF RunsInv, HolderInv, Early
    <2>6. \A r \in Run : copy'[r].made <= day'
      BY <1>1 DEF RunsInv
    <2> QED
      BY <2>2, <2>3, <2>4, <2>5, <2>6 DEF RunsInv
  <1> QED
    BY <1>4, <1>5, <1>6 DEF ScriptInv

\* How a run ends with a report.
LEMMA Ending ==
  ASSUME ScriptInv, holder # NoRun, NEW s,
         s \in {"failed", "offsite_failed", "local_only", "offsite_ok"}, End(s, ready)
  PROVE  /\ holder' = NoRun /\ rclone' \in BOOLEAN /\ stage' = "complete"
         /\ todo' \subseteq Image /\ ready' \in [local : BOOLEAN, offsite : BOOLEAN]
         /\ status' \in Status /\ status'.run = holder /\ status'.status = s
         /\ status'.local = ready.local /\ status'.offsite = ready.offsite
         /\ summary' \in [says : Status, day : Day]
         /\ summary' = summary \/ (summary'.says = status' /\ summary'.day = day)
  <1>1. PICK y : y = [run |-> holder, status |-> s, local |-> ready.local, offsite |-> ready.offsite]
    OBVIOUS
  <1>2. /\ BackupTypeOK /\ Reliable /\ holder \in Run /\ WriteStatus(holder, s, ready)
        /\ ready \in [local : BOOLEAN, offsite : BOOLEAN]
    BY Holding DEF ScriptInv, RunsInv, End
  <1>3. PICK f \in [local : BOOLEAN, offsite : BOOLEAN] : f = ready
    BY <1>2
  <1>4. /\ status' = y /\ y \in Status
        /\ y.run = holder /\ y.status = s /\ y.local = f.local /\ y.offsite = f.offsite
        /\ summary' \in [says : Status, day : Day]
        /\ summary' = summary \/ (summary'.says = y /\ summary'.day = day)
    BY <1>1, <1>2, <1>3, Reports
  <1> QED
    BY <1>3, <1>4 DEF End, NotReady

LEMMA KeepLocalSteps ==
  ASSUME ScriptInv, KeepLocal
  PROVE  ScriptInv' /\ daily \subseteq daily'
  <1>1. /\ UNCHANGED <<contact, scene, day, lastRun, copy, daily, monthly>>
        /\ holder # NoRun /\ stage = "local_retention" /\ stage \notin Early
        /\ local' = local \ Old(local, LocalDays)
    BY DEF KeepLocal, At, Early
  <1>2. BackupTypeOK /\ ready.local /\ ~ready.offsite
    BY <1>1 DEF ScriptInv, RunsInv, HolderInv
  <1>3. CASE rclone
    <2>1. stage' = "offsite_daily" /\ UNCHANGED <<holder, rclone, ready, todo, status, summary>>
      BY <1>3 DEF KeepLocal
    <2> QED
      BY <1>1, <1>2, <2>1, LateSteps DEF BackupTypeOK, Stages, Early
  <1>4. CASE ~rclone
    <2>1. End("local_only", ready)
      BY <1>4 DEF KeepLocal
    <2>2. /\ holder' = NoRun /\ rclone' \in BOOLEAN /\ stage' = "complete"
          /\ todo' \subseteq Image /\ ready' \in [local : BOOLEAN, offsite : BOOLEAN]
          /\ status' \in Status /\ status'.run = holder /\ status'.status = "local_only"
          /\ status'.local = ready.local /\ status'.offsite = ready.offsite
          /\ summary' \in [says : Status, day : Day]
          /\ summary' = summary \/ (summary'.says = status' /\ summary'.day = day)
      BY <1>1, <2>1, Ending
    <2>3. SafeReadiness(status') /\ ~status'.offsite
      BY <1>2, <2>2 DEF SafeReadiness
    <2> QED
      BY <1>1, <1>2, <2>2, <2>3, LateSteps DEF Stages
  <1> QED
    BY <1>3, <1>4

LEMMA UploadSteps ==
  ASSUME ScriptInv, UploadDaily \/ UploadMonthly
  PROVE  ScriptInv' /\ daily \subseteq daily'
  <1>1. /\ UNCHANGED <<contact, scene, day, lastRun, holder, rclone, todo, copy, local>>
        /\ holder # NoRun /\ stage \in {"offsite_daily", "offsite_monthly"} /\ stage \notin Early
    BY DEF UploadDaily, UploadMonthly, At, Early
  <1>2. /\ BackupTypeOK /\ ready.local /\ holder \in Run /\ Reliable
        /\ ready.offsite <=> stage = "offsite_monthly"
        /\ ready.offsite => holder \in daily
    BY <1>1, Holding DEF ScriptInv, RunsInv, HolderInv
  <1>3. CASE UploadDaily
    <2>1. PICK f : f = ready'
      OBVIOUS
    <2>2. /\ daily' = daily \cup {holder} /\ monthly' = monthly
          /\ f = [ready EXCEPT !.offsite = TRUE]
          /\ stage' \in {"offsite_monthly", "remote_retention"}
          /\ WriteStatus(holder, "running", f)
      BY <1>3, <2>1 DEF UploadDaily
    <2>3. f \in [local : BOOLEAN, offsite : BOOLEAN] /\ f.local /\ f.offsite
      BY <1>2, <2>2 DEF BackupTypeOK
    <2>4. PICK y : y = [run |-> holder, status |-> "running", local |-> f.local, offsite |-> f.offsite]
      OBVIOUS
    <2>5. /\ status' = y /\ y \in Status
          /\ y.run = holder /\ y.status = "running" /\ y.local = f.local /\ y.offsite = f.offsite
          /\ summary' \in [says : Status, day : Day]
          /\ summary' = summary \/ (summary'.says = y /\ summary'.day = day)
      <3>1. /\ BackupTypeOK /\ Reliable /\ holder \in Run /\ WriteStatus(holder, "running", f)
            /\ f \in [local : BOOLEAN, offsite : BOOLEAN]
        BY <1>2, <2>2, <2>3
      <3> QED
        BY <2>4, <3>1, Reports
    <2>6. SafeReadiness(status')
      BY <2>5 DEF SafeReadiness
    <2> QED
      BY <1>1, <1>2, <2>1, <2>2, <2>3, <2>5, <2>6, LateSteps DEF BackupTypeOK, Stages, Early
  <1>4. CASE UploadMonthly
    <2>1. /\ monthly' = monthly \cup {holder} /\ stage = "offsite_monthly"
          /\ stage' = "remote_retention" /\ UNCHANGED <<ready, daily, status, summary>>
      BY <1>4 DEF UploadMonthly, At
    <2> QED
      BY <1>1, <1>2, <2>1, LateSteps DEF BackupTypeOK, Stages, Early
  <1> QED
    BY <1>3, <1>4

LEMMA KeepRemoteSteps ==
  ASSUME ScriptInv, KeepRemote
  PROVE  /\ ScriptInv' /\ UNCHANGED scene
         /\ holder \in daily' /\ daily' = daily \ Old(daily, DailyDays)
  <1>1. /\ UNCHANGED <<contact, scene, day, lastRun, copy, local>>
        /\ holder # NoRun /\ stage = "remote_retention" /\ stage \notin Early
        /\ daily' = daily \ Old(daily, DailyDays)
        /\ monthly' = monthly \ Old(monthly, MonthlyDays)
        /\ End("offsite_ok", ready)
    BY DEF KeepRemote, At, Early
  <1>2. ready.local /\ ready.offsite /\ holder \in daily
    BY <1>1 DEF ScriptInv, RunsInv, HolderInv
  <1>3. holder \in daily'
    BY <1>1, <1>2, LateRun
  <1>4. /\ holder' = NoRun /\ rclone' \in BOOLEAN /\ stage' = "complete"
        /\ todo' \subseteq Image /\ ready' \in [local : BOOLEAN, offsite : BOOLEAN]
        /\ status' \in Status /\ status'.run = holder /\ status'.status = "offsite_ok"
        /\ status'.local = ready.local /\ status'.offsite = ready.offsite
        /\ summary' \in [says : Status, day : Day]
        /\ summary' = summary \/ (summary'.says = status' /\ summary'.day = day)
    BY <1>1, Ending
  <1>5. SafeReadiness(status')
    BY <1>2, <1>4 DEF SafeReadiness
  <1> QED
    BY <1>1, <1>3, <1>4, <1>5, LateSteps DEF Stages

\* What remains of the copy of a run that fails.
LEMMA Dropping ==
  ASSUME ScriptInv, holder # NoRun, copy' = Dropped
  PROVE  /\ copy' \in [Run -> Copied]
         /\ \A r \in Run : copy'[r] = copy[r] \/ (r = holder /\ copy'[r] = NoCopy)
         /\ \A r \in local \cup daily \cup monthly : copy'[r] = copy[r]
         /\ stage \notin Early => copy' = copy
         /\ NoCopy \in Copied /\ NoCopy.rows = {} /\ NoCopy.made = 0
  <1>1. copy \in [Run -> Copied] /\ holder \in Run /\ HolderInv
    BY Holding DEF ScriptInv, RunsInv, BackupTypeOK, Copied
  <1>2. NoCopy \in Copied /\ NoCopy.rows = {} /\ NoCopy.made = 0
    BY BackupConstants DEF NoCopy, Copied, Day
  <1>3. CASE holder \in local
    BY <1>1, <1>2, <1>3 DEF Dropped
  <1>4. CASE holder \notin local
    <2>1. holder \notin local \cup daily \cup monthly /\ stage \in Early
      BY <1>1, <1>4 DEF HolderInv
    <2>2. copy' = [copy EXCEPT ![holder] = NoCopy]
      BY <1>4 DEF Dropped
    <2> QED
      BY <1>1, <1>2, <2>1, <2>2
  <1> QED
    BY <1>3, <1>4

\* A command fails, or the machine goes down.
LEMMA FailingSteps ==
  ASSUME ScriptInv, OnError \/ Killed
  PROVE  ScriptInv' /\ daily' = daily
  <1>1. /\ UNCHANGED <<contact, scene, day, lastRun, local, daily, monthly>>
        /\ holder # NoRun /\ copy' = Dropped
    BY DEF OnError, Killed
  <1>2. BackupTypeOK /\ MessageInv /\ CopiesInv /\ RunsInv /\ HolderInv /\ holder \in Run
    BY <1>1, Holding DEF ScriptInv, RunsInv
  <1>3. /\ copy' \in [Run -> Copied]
        /\ \A r \in Run : copy'[r] = copy[r] \/ (r = holder /\ copy'[r] = NoCopy)
        /\ \A r \in local \cup daily \cup monthly : copy'[r] = copy[r]
        /\ stage \notin Early => copy' = copy
        /\ NoCopy.rows = {} /\ NoCopy.made = 0
    BY <1>1, Dropping
  <1>4. /\ holder' = NoRun /\ rclone' \in BOOLEAN /\ stage' = "complete"
        /\ todo' \subseteq Image /\ ready' \in [local : BOOLEAN, offsite : BOOLEAN]
        /\ \/ status' = status /\ summary' = summary
           \/ /\ status' \in Status /\ status'.run = holder /\ SafeReadiness(status')
              /\ status'.local => holder \in local
              /\ status'.offsite => holder \in daily
              /\ (status'.local \/ status'.offsite) => stage \notin Early
              /\ summary' \in [says : Status, day : Day]
              /\ summary' = summary \/ (summary'.says = status' /\ summary'.day = day)
    <2>1. CASE Killed
      BY <2>1 DEF Killed, NotReady
    <2>2. CASE OnError
      <3>1. PICK s \in {"failed", "offsite_failed"} :
              /\ End(s, ready)
              /\ s = "offsite_failed" => stage \in {"offsite_daily", "offsite_monthly", "remote_retention"}
        BY <2>2 DEF OnError
      <3>2. /\ holder' = NoRun /\ rclone' \in BOOLEAN /\ stage' = "complete"
            /\ todo' \subseteq Image /\ ready' \in [local : BOOLEAN, offsite : BOOLEAN]
            /\ status' \in Status /\ status'.run = holder /\ status'.status = s
            /\ status'.local = ready.local /\ status'.offsite = ready.offsite
            /\ summary' \in [says : Status, day : Day]
            /\ summary' = summary \/ (summary'.says = status' /\ summary'.day = day)
        BY <1>1, <3>1, Ending
      <3>3. /\ stage \in Early => ~ready.local /\ ~ready.offsite
            /\ stage \notin Early => ready.local /\ holder \in local
            /\ ready.offsite => holder \in daily
        BY <1>1, <1>2 DEF HolderInv, NotReady
      <3>4. SafeReadiness(status')
        BY <3>1, <3>2, <3>3 DEF SafeReadiness, Early
      <3> QED
        BY <3>2, <3>3, <3>4
    <2> QED
      BY <2>1, <2>2
  <1>5. BackupTypeOK'
    BY <1>1, <1>2, <1>3, <1>4 DEF BackupTypeOK, contact, ContactTypeOK, Stages, Copied
  <1>6. MessageInv' /\ CopiesInv'
    <2>1. /\ MessageInv' /\ unsure' = unsure
          /\ \A x : (Lasting(x) => Lasting(x)') /\ Keys(x)' = Keys(x)
      BY <1>1, <1>2, Standing
    <2>2. CopiesRestore'
      BY <1>1, <1>2, <1>3, <2>1 DEF CopiesInv, CopiesRestore
    <2>3. \A r \in Run : \A x \in copy'[r].rows : Lasting(x)'
      BY <1>2, <1>3, <2>1 DEF CopiesInv
    <2> QED
      BY <1>4, <2>1, <2>2, <2>3 DEF CopiesInv
  <1>7. RunsInv'
    <2>1. /\ \A r \in Run : copy'[r].made \in Nat
          /\ lastRun <= lastRun' /\ lastRun' \in Nat /\ day' = day /\ day \in Nat
          /\ local \cup daily \cup monthly \subseteq Run
      BY <1>1, <1>3, Holding
    <2>2. \A r \in Run : copy'[r].made <= day'
      BY <1>2, <1>3, <2>1 DEF RunsInv
    <2>3. Reliable'
      <3>1. CASE summary' = summary
        <4>1. ASSUME summary.says.local \/ summary.says.offsite
              PROVE  copy'[summary.says.run].made = copy[summary.says.run].made
          <5>1. summary.says.run \in Run
            BY <1>2, <4>1 DEF RunsInv, Reliable, Vouches
          <5>2. summary.says.run # holder \/ stage \notin Early
            BY <1>1, <1>2, <4>1 DEF HolderInv
          <5> QED
            BY <1>3, <5>1, <5>2
        <4> QED
          BY <1>1, <2>1, <3>1, <4>1, StaysReliable
      <3>2. CASE /\ summary'.says = status' /\ summary'.day = day
                 /\ status'.run = holder /\ SafeReadiness(status')
                 /\ status'.local => holder \in local
                 /\ status'.offsite => holder \in daily
                 /\ (status'.local \/ status'.offsite) => stage \notin Early
        <4>1. holder <= lastRun'
          BY <1>1, <1>2, <2>1 DEF HolderInv
        <4>2. ASSUME stage \notin Early
              PROVE  day <= copy'[holder].made + 1
          BY <1>1, <1>3, <4>2, LateRun
        <4>3. /\ SafeReadiness(summary'.says) /\ summary'.says.run = holder
              /\ summary'.says.local => holder \in local' /\ day <= copy'[holder].made + 1
              /\ summary'.says.offsite => holder \in daily' /\ day <= copy'[holder].made + 1
          BY <1>1, <3>2, <4>2
        <4> QED
          BY <1>2, <2>1, <3>2, <4>1, <4>3, StaysReliable
      <3> QED
        BY <1>4, <3>1, <3>2
    <2>4. local' \cup daily' \cup monthly' \subseteq 1 .. lastRun' /\ status'.run <= lastRun'
      <3>1. /\ local \cup daily \cup monthly \subseteq 1 .. lastRun /\ status.run <= lastRun
            /\ status'.run = status.run \/ status'.run = holder
        BY <1>2, <1>4 DEF RunsInv
      <3>2. holder <= lastRun
        BY <1>1, <1>2, <2>1 DEF HolderInv
      <3> QED
        BY <1>1, <2>1, <3>1, <3>2
    <2>5. ReportedCopiesExist'
      BY <1>1, <1>2, <1>4 DEF RunsInv, ReportedCopiesExist
    <2> QED
      BY <1>4, <2>2, <2>3, <2>4, <2>5 DEF RunsInv, HolderInv
  <1> QED
    BY <1>1, <1>5, <1>6, <1>7 DEF ScriptInv

\* A day passes.
LEMMA DaySteps ==
  ASSUME ScriptInv, NextDay
  PROVE  ScriptInv' /\ daily' = daily
  <1>1. /\ UNCHANGED <<contact, scene, backup>> /\ day' = day + 1 /\ day < MaxDay
        /\ holder # NoRun => copy[holder].date = day
    BY DEF NextDay
  <1>2. BackupTypeOK /\ MessageInv /\ CopiesInv /\ RunsInv
    BY DEF ScriptInv
  <1>3. day \in Nat /\ MaxDay \in Nat /\ day' \in Day
    BY <1>1, BackupConstants, Holding DEF Day
  <1>4. BackupTypeOK'
    BY <1>1, <1>2, <1>3 DEF BackupTypeOK, backup, contact, ContactTypeOK
  <1>5. MessageInv' /\ CopiesInv'
    BY <1>1, <1>2, Standing, Holding DEF backup, CopiesInv, CopiesRestore, CopyGrows
  <1>6. RunsInv'
    <2>1. /\ summary' = summary /\ copy' = copy /\ local' = local /\ daily' = daily
          /\ lastRun' = lastRun
      BY <1>1 DEF backup
    <2>2. /\ summary.day \in Nat /\ LocalDays \in Nat /\ DailyDays \in Nat
      BY <1>2, Holding DEF BackupTypeOK, Day
    <2>3. summary.says.local => Vouches(summary.says.run, local, LocalDays)'
      BY <1>1, <1>2, <1>3, <2>1, <2>2, Holding DEF RunsInv, Reliable, Vouches
    <2>4. summary.says.offsite => Vouches(summary.says.run, daily, DailyDays)'
      BY <1>1, <1>2, <1>3, <2>1, <2>2, Holding DEF RunsInv, Reliable, Vouches
    <2>5. Reliable'
      BY <1>1, <1>2, <1>3, <2>1, <2>2, <2>3, <2>4 DEF RunsInv, Reliable, SafeReadiness
    <2>6. HolderInv'
      BY <1>1, <1>2, <1>3 DEF RunsInv, HolderInv, backup
    <2>7. \A r \in Run : copy'[r].made <= day'
      BY <1>1, <1>2, <1>3, <2>1, Holding DEF RunsInv
    <2> QED
      BY <1>1, <1>2, <2>5, <2>6, <2>7 DEF RunsInv, backup, ReportedCopiesExist
  <1> QED
    BY <1>1, <1>4, <1>5, <1>6 DEF ScriptInv, backup

-----------------------------------------------------------------------------
(* Deployments.                                                            *)

\* The parts of the invariant.
LEMMA InvariantParts ==
  /\ ReleaseInv <=> ReleaseTypeOK /\ ScriptInv /\ DeployInv
  /\ ReleaseInv' <=> ReleaseTypeOK' /\ ScriptInv' /\ DeployInv'
  BY DEF ReleaseInv, ScriptInv, ReleaseTypeOK

\* What the migrations of a runner are among.
LEMMA RunnersApplyGated ==
  ASSUME NEW step
  PROVE  Allowed(step) \subseteq Gated /\ Gated \subseteq Registry
  BY DEF Allowed, Gated, Registry

\* Outside the scene "days" no upload gets old.
LEMMA NothingIsOld ==
  ASSUME ScriptInv, DeployInv, scene # "days"
  PROVE  Old(daily, DailyDays) = {}
  <1>1. day = 0
    BY DEF DeployInv, GateInv
  <1>2. \A r \in daily : copy[r].made \in Nat
    BY Holding
  <1>3. DailyDays \in Nat /\ 1 < DailyDays
    BY Holding
  <1> QED
    BY <1>1, <1>2, <1>3 DEF Old

\* A step of the script that no deployment waits for.
LEMMA BesideDeployments ==
  ASSUME ReleaseInv, ScriptInv', Others, scene' = scene, day' = day \/ scene = "days",
         daily \subseteq daily'
  PROVE  ReleaseInv'
  <1>1. UNCHANGED <<recorded, tables, deploy, runner>>
    BY DEF Others, release, schema
  <1>2. ReleaseTypeOK'
    BY <1>1 DEF ReleaseInv, ScriptInv, ReleaseTypeOK
  <1>3. DeployInv'
    BY <1>1 DEF ReleaseInv, DeployInv, GateInv, RunnerInv, RestartsFindTables
  <1> QED
    BY <1>2, <1>3, InvariantParts

\* The end of a run, which a deployment may wait for.
LEMMA Outcomes ==
  ASSUME ReleaseInv, ScriptInv', NEW ok \in BOOLEAN, Outcome(ok), UNCHANGED <<scene, day>>,
         scene = "deploys" => daily \subseteq daily',
         ok => holder \in daily'
  PROVE  ReleaseInv'
  <1>1. UNCHANGED <<recorded, tables, runner>>
    BY DEF Outcome, schema
  <1>2. ReleaseTypeOK /\ GateInv /\ RunnerInv /\ DeployInv
    BY DEF ReleaseInv, DeployInv
  <1>3. CASE deploy' = deploy
    <2>1. ReleaseTypeOK'
      BY <1>1, <1>2, <1>3 DEF ScriptInv, ReleaseTypeOK
    <2>2. DeployInv'
      BY <1>1, <1>2, <1>3 DEF DeployInv, GateInv, RunnerInv, RestartsFindTables, Runners
    <2> QED
      BY <2>1, <2>2, InvariantParts
  <1>4. CASE deploy' # deploy
    <2>1. PICK s : s = IF ok THEN "copy" ELSE "failed"
      OBVIOUS
    <2>2. /\ deploy.step = "backup" /\ holder = deploy.run /\ deploy' = [deploy EXCEPT !.step = s]
          /\ deploy \in [step : Steps, run : Run \cup {NoRun}, number : 0 .. MaxDeploy]
          /\ s \in {"copy", "failed"} /\ (s = "copy" => ok)
      BY <1>2, <1>4, <2>1 DEF Outcome, ReleaseTypeOK
    <2>3. /\ deploy'.step = s /\ deploy'.run = deploy.run
          /\ deploy' \in [step : Steps, run : Run \cup {NoRun}, number : 0 .. MaxDeploy]
      BY <2>2 DEF Steps
    <2>4. ReleaseTypeOK'
      BY <1>1, <1>2, <2>3 DEF ScriptInv, ReleaseTypeOK
    <2>5. runner = Idle /\ scene = "deploys"
      BY <1>2, <2>2 DEF GateInv, Runners
    <2>6. GateInv'
      BY <1>1, <1>2, <2>2, <2>3, <2>5 DEF GateInv, Runners
    <2>7. RunnerInv' /\ runner'.tx = {}
      BY <1>1, <2>5 DEF RunnerInv, Idle
    <2>8. DeployInv'
      BY <2>2, <2>3, <2>6, <2>7 DEF DeployInv, RestartsFindTables
    <2> QED
      BY <2>4, <2>8, InvariantParts
  <1> QED
    BY <1>3, <1>4

\* The workflow starts the script, or fails because the lock is taken.
LEMMA GateSteps ==
  ASSUME ReleaseInv, OpenGate \/ GateIsBusy
  PROVE  ReleaseInv'
  <1>1. ScriptInv /\ DeployInv /\ ReleaseTypeOK
    BY InvariantParts
  <1>2. ScriptInv' /\ daily \subseteq daily'
    BY <1>1, StartSteps, RefusedSteps DEF OpenGate, GateIsBusy
  <1>3. /\ scene = "deploys" /\ Ended /\ deploy.number < MaxDeploy /\ UNCHANGED <<scene, day>>
        /\ UNCHANGED <<recorded, tables, runner>>
    BY <1>1, RefusedSteps DEF OpenGate, GateIsBusy, Start, schema
  <1>4. PICK s \in {"backup", "failed"} :
          deploy' = [step |-> s, run |-> lastRun', number |-> deploy.number + 1]
    BY DEF OpenGate, GateIsBusy, Begin
  <1>5. /\ lastRun' = lastRun + 1 /\ lastRun + 1 \in Run
    BY <1>1, NextRun, RefusedSteps DEF OpenGate, GateIsBusy, Start
  <1>6. deploy.number + 1 \in 0 .. MaxDeploy
    BY <1>1, <1>3, ReleaseConstants DEF ReleaseTypeOK
  <1>7. deploy'.step = s /\ s \in Steps
        /\ deploy' \in [step : Steps, run : Run \cup {NoRun}, number : 0 .. MaxDeploy]
    BY <1>4, <1>5, <1>6 DEF Steps
  <1>8. ReleaseTypeOK'
    BY <1>1, <1>2, <1>3, <1>7 DEF ScriptInv, ReleaseTypeOK
  <1>9. runner = Idle
    BY <1>1, <1>3 DEF Ended, DeployInv, GateInv, Runners
  <1>10. DeployInv'
    BY <1>1, <1>3, <1>7, <1>9 DEF DeployInv, GateInv, RunnerInv, RestartsFindTables, Idle, Runners
  <1> QED
    BY <1>2, <1>8, <1>10, InvariantParts

\* Steps of a deployment that leave the script and the messages alone.
LEMMA ScriptStands ==
  ASSUME ScriptInv, UNCHANGED backupVars
  PROVE  ScriptInv' /\ UNCHANGED <<scene, day, daily>>
  <1>1. UNCHANGED <<contact, scene, day, lastRun, holder, rclone, stage, ready, todo, copy>>
        /\ UNCHANGED <<local, daily, monthly, status, summary>>
    BY DEF backupVars, backup
  <1>2. MessageInv' /\ CopiesInv'
    BY <1>1, Standing, Holding DEF ScriptInv, CopiesInv, CopiesRestore, CopyGrows
  <1>3. BackupTypeOK'
    BY <1>1, <1>2 DEF ScriptInv, BackupTypeOK, MessageInv
  <1>4. RunsInv'
    BY <1>1 DEF ScriptInv, RunsInv, HolderInv, Reliable, ReportedCopiesExist, Vouches, SafeReadiness
  <1> QED
    BY <1>1, <1>2, <1>3, <1>4 DEF ScriptInv

\* The deployment goes on to another step without a runner's transaction.
LEMMA Stopping ==
  ASSUME ReleaseInv, UNCHANGED backupVars, UNCHANGED schema,
         deploy.step \in Runners \cup {"copy", "restart"},
         NEW step \in {"streak", "refused", "failed"}, Stop(step)
  PROVE  ReleaseInv'
  <1>1. /\ ReleaseTypeOK /\ ScriptInv /\ DeployInv /\ ScriptInv'
        /\ UNCHANGED <<scene, day, daily>>
    BY InvariantParts, ScriptStands
  <1>2. deploy \in [step : Steps, run : Run \cup {NoRun}, number : 0 .. MaxDeploy]
    BY <1>1 DEF ReleaseTypeOK
  <1>3. /\ deploy'.step = step /\ deploy'.run = deploy.run /\ runner' = Idle
        /\ deploy' \in [step : Steps, run : Run \cup {NoRun}, number : 0 .. MaxDeploy]
    BY <1>2 DEF Stop, Steps
  <1>4. /\ deploy.step # "none" /\ deploy.run \in daily /\ scene = "deploys"
        /\ UNCHANGED <<recorded, tables>>
    BY <1>1 DEF DeployInv, GateInv, Runners, schema
  <1>5. ReleaseTypeOK'
    BY <1>1, <1>3, <1>4 DEF ScriptInv, ReleaseTypeOK, Idle
  <1>6. DeployInv'
    BY <1>1, <1>3, <1>4 DEF DeployInv, GateInv, RunnerInv, RestartsFindTables, Idle, Runners
  <1> QED
    BY <1>1, <1>5, <1>6, InvariantParts

\* A runner is at work only in its step, after a copy was uploaded.
LEMMA Working ==
  ASSUME ReleaseInv, runner.at # "idle"
  PROVE  /\ deploy.step \in Runners /\ deploy.run \in daily /\ scene = "deploys"
         /\ recorded \subseteq Registry /\ runner.tx \subseteq runner.pending
         /\ runner.pending \subseteq Gated /\ Gated \subseteq Registry
  <1>1. deploy.step \in Runners
    BY DEF ReleaseInv, DeployInv, GateInv, Idle
  <1>2. /\ deploy.run \in daily /\ scene = "deploys"
        /\ recorded \subseteq Registry /\ runner.tx \subseteq runner.pending
        /\ runner.pending \subseteq Allowed(deploy.step)
    BY <1>1 DEF ReleaseInv, DeployInv, GateInv, RunnerInv, ReleaseTypeOK, Runners
  <1> QED
    BY <1>1, <1>2, RunnersApplyGated

LEMMA ReadPendingSteps ==
  ASSUME ReleaseInv, ReadPending
  PROVE  ReleaseInv'
  <1>1. /\ ReleaseTypeOK /\ ScriptInv /\ DeployInv /\ ScriptInv'
        /\ UNCHANGED <<scene, day, daily, recorded, tables>>
    BY InvariantParts, ScriptStands DEF ReadPending, schema
  <1>2. deploy.step \in Runners /\ runner.at = "idle" /\ runner.tx = {}
    BY <1>1 DEF ReadPending, DeployInv
  <1>3. CASE Pending \subseteq Allowed(deploy.step)
    <2>1. PICK at : at = IF Pending = {} THEN "verify" ELSE "begin"
      OBVIOUS
    <2>2. /\ deploy' = deploy
          /\ runner' = [Idle EXCEPT !.at = at, !.pending = Pending, !.executed = recorded]
      BY <1>3, <2>1 DEF ReadPending
    <2>3. runner' = [at |-> at, pending |-> Pending, executed |-> recorded, tx |-> {}]
      BY <2>2 DEF Idle
    <2>4. Pending = Registry \ recorded /\ recorded \subseteq Registry
      BY <1>1, <1>2 DEF Pending, Seen, ReleaseTypeOK
    <2>5. /\ runner'.at = at /\ runner'.pending = Pending /\ runner'.executed = recorded
          /\ runner'.tx = {} /\ at \in {"begin", "verify"}
          /\ (at = "verify" <=> Pending = {})
      BY <2>1, <2>3
    <2>6. ReleaseTypeOK'
      BY <1>1, <2>2, <2>3, <2>4, <2>5 DEF ScriptInv, ReleaseTypeOK
    <2>7. RunnerInv'
      BY <1>1, <1>3, <2>2, <2>4, <2>5 DEF RunnerInv
    <2>8. DeployInv'
      BY <1>1, <1>2, <2>2, <2>5, <2>7 DEF DeployInv, GateInv, RestartsFindTables
    <2> QED
      BY <1>1, <2>6, <2>8, InvariantParts
  <1>4. CASE ~(Pending \subseteq Allowed(deploy.step))
    BY <1>2, <1>4, Stopping DEF ReadPending
  <1> QED
    BY <1>3, <1>4

LEMMA BeginSteps ==
  ASSUME ReleaseInv, BeginTransaction
  PROVE  ReleaseInv'
  <1>1. /\ ReleaseTypeOK /\ ScriptInv /\ DeployInv /\ ScriptInv' /\ runner.at = "begin"
        /\ UNCHANGED <<scene, day, daily, recorded, tables>>
    BY InvariantParts, ScriptStands DEF BeginTransaction, schema
  <1>2. deploy.step \in Runners
    BY <1>1, Working
  <1>3. CASE Pending = runner.pending
    <2>1. deploy' = deploy /\ runner' = [runner EXCEPT !.at = "apply"]
      BY <1>3 DEF BeginTransaction
    <2>2. runner \in [at : {"idle", "begin", "apply", "verify"}, pending : SUBSET Registry,
                      executed : SUBSET Registry, tx : SUBSET Registry]
      BY <1>1 DEF ReleaseTypeOK
    <2>3. /\ runner'.at = "apply" /\ runner'.pending = runner.pending
          /\ runner'.executed = runner.executed /\ runner'.tx = runner.tx
          /\ runner' \in [at : {"idle", "begin", "apply", "verify"}, pending : SUBSET Registry,
                          executed : SUBSET Registry, tx : SUBSET Registry]
      BY <2>1, <2>2
    <2>4. ReleaseTypeOK'
      BY <1>1, <2>1, <2>3 DEF ScriptInv, ReleaseTypeOK
    <2>5. RunnerInv'
      BY <1>1, <2>1, <2>3 DEF DeployInv, RunnerInv
    <2>6. DeployInv'
      BY <1>1, <1>2, <2>1, <2>3, <2>5 DEF DeployInv, GateInv, RestartsFindTables
    <2> QED
      BY <1>1, <2>4, <2>6, InvariantParts
  <1>4. CASE Pending # runner.pending
    BY <1>2, <1>4, Stopping DEF BeginTransaction
  <1> QED
    BY <1>3, <1>4

LEMMA ExecuteSteps ==
  ASSUME ReleaseInv, ExecuteMigration
  PROVE  ReleaseInv'
  <1>1. /\ ReleaseTypeOK /\ ScriptInv /\ DeployInv /\ ScriptInv' /\ runner.at = "apply"
        /\ UNCHANGED <<scene, day, daily, recorded, tables, deploy>>
    BY InvariantParts, ScriptStands DEF ExecuteMigration, schema
  <1>2. /\ deploy.step \in Runners
        /\ runner.tx \subseteq runner.pending /\ runner.pending \subseteq Gated
    BY <1>1, Working
  <1>3. PICK g \in runner.pending \ runner.tx :
          runner' = [runner EXCEPT !.tx = @ \cup {g},
                                   !.at = IF runner.pending = runner.tx \cup {g} THEN "verify" ELSE @]
    BY DEF ExecuteMigration
  <1>4. runner \in [at : {"idle", "begin", "apply", "verify"}, pending : SUBSET Registry,
                    executed : SUBSET Registry, tx : SUBSET Registry]
    BY <1>1 DEF ReleaseTypeOK
  <1>5. PICK at : at = IF runner.pending = runner.tx \cup {g} THEN "verify" ELSE "apply"
    OBVIOUS
  <1>6. /\ runner'.at = at /\ runner'.pending = runner.pending
        /\ runner'.executed = runner.executed /\ runner'.tx = runner.tx \cup {g}
        /\ at \in {"apply", "verify"}
        /\ runner' \in [at : {"idle", "begin", "apply", "verify"}, pending : SUBSET Registry,
                        executed : SUBSET Registry, tx : SUBSET Registry]
    BY <1>1, <1>3, <1>4, <1>5
  <1>7. at = "verify" => runner'.tx = runner'.pending
    BY <1>5, <1>6
  <1>8. ReleaseTypeOK'
    BY <1>1, <1>6 DEF ScriptInv, ReleaseTypeOK
  <1>9. RunnerInv'
    BY <1>1, <1>2, <1>3, <1>6, <1>7 DEF DeployInv, RunnerInv
  <1>10. DeployInv'
    BY <1>1, <1>2, <1>6, <1>9 DEF DeployInv, GateInv, RestartsFindTables
  <1> QED
    BY <1>1, <1>8, <1>10, InvariantParts

\* What a commit finds and makes: all migrations are recorded, the pending ones
\* are new, and nothing is dropped.
LEMMA Committing ==
  ASSUME ReleaseInv, VerifyAndCommit, HistoryIsRight, TablesAreRight
  PROVE  /\ recorded' = Registry /\ tables' = SeenTables
         /\ \A g \in Gated : tables[g] = "made" => tables'[g] = "made"
         /\ \A g \in Allowed(deploy.step) : tables'[g] = "made"
         /\ \/ recorded' \ recorded = runner.pending
            \/ recorded' = recorded /\ tables' = tables
  <1>1. runner.at = "verify" /\ recorded' = Seen /\ tables' = SeenTables
    BY DEF VerifyAndCommit
  <1>2. recorded \subseteq Registry /\ runner.tx \subseteq Registry /\ tables \in [Gated -> {"absent", "made", "drifted"}]
    BY DEF ReleaseInv, ReleaseTypeOK
  <1>3. Seen = Registry
    BY <1>2 DEF HistoryIsRight, Pending, Seen
  <1>4. \A g \in Gated : tables[g] = "made" => SeenTables[g] = "made"
    BY DEF SeenTables
  <1>5. \A g \in Allowed(deploy.step) : SeenTables[g] = "made"
    BY DEF TablesAreRight, StreakTablesAreRight, JournalTablesAreRight, Allowed
  <1>6. /\ runner.tx = runner.pending /\ runner.pending = Registry \ runner.executed
        /\ runner.executed \subseteq Registry
        /\ \/ recorded = runner.executed
           \/ recorded = Registry /\ \A g \in runner.pending : tables[g] # "absent"
    BY <1>1 DEF ReleaseInv, DeployInv, RunnerInv
  <1>7. CASE recorded = runner.executed
    BY <1>1, <1>3, <1>4, <1>5, <1>6, <1>7
  <1>8. CASE recorded = Registry /\ \A g \in runner.pending : tables[g] # "absent"
    <2>1. \A g \in Gated : SeenTables[g] = tables[g]
      BY <1>6, <1>8 DEF SeenTables
    <2>2. SeenTables = tables
      BY <1>2, <2>1 DEF SeenTables
    <2> QED
      BY <1>1, <1>3, <1>4, <1>5, <1>8, <2>2
  <1> QED
    BY <1>6, <1>7, <1>8

LEMMA CommitSteps ==
  ASSUME ReleaseInv, VerifyAndCommit
  PROVE  ReleaseInv'
  <1>1. /\ ReleaseTypeOK /\ ScriptInv /\ DeployInv /\ ScriptInv' /\ runner.at = "verify"
        /\ UNCHANGED <<scene, day, daily>>
    BY InvariantParts, ScriptStands DEF VerifyAndCommit
  <1>2. deploy.step \in Runners /\ deploy.run \in daily /\ scene = "deploys"
    BY <1>1, Working
  <1>3. CASE HistoryIsRight /\ TablesAreRight
    <2> DEFINE after == IF deploy.step = "streak" THEN "journal" ELSE "restart"
    <2>1. PICK s : s \in {after, "failed"} /\ Stop(s)
      BY <1>3 DEF VerifyAndCommit
    <2>2. Stop(s)
      BY <2>1
    <2>3. deploy \in [step : Steps, run : Run \cup {NoRun}, number : 0 .. MaxDeploy]
      BY <1>1 DEF ReleaseTypeOK
    <2>4. /\ deploy'.step = s /\ deploy'.run = deploy.run /\ runner' = Idle
          /\ s \in {"journal", "restart", "failed"}
          /\ deploy' \in [step : Steps, run : Run \cup {NoRun}, number : 0 .. MaxDeploy]
      BY <2>1, <2>2, <2>3 DEF Stop, Steps
    <2>5. /\ recorded' = Registry /\ tables' = SeenTables
          /\ \A g \in Gated : tables[g] = "made" => tables'[g] = "made"
          /\ \A g \in Allowed(deploy.step) : tables'[g] = "made"
      BY <1>3, Committing
    <2>6. tables' \in [Gated -> {"absent", "made", "drifted"}]
      BY <1>1, <2>5 DEF SeenTables, ReleaseTypeOK
    <2>7. ReleaseTypeOK'
      BY <1>1, <2>4, <2>5, <2>6 DEF ScriptInv, ReleaseTypeOK, Idle
    <2>8. CASE s = "failed"
      <3>1. DeployInv'
        BY <1>1, <1>2, <2>4, <2>8
        DEF DeployInv, GateInv, RunnerInv, RestartsFindTables, Idle, Runners
      <3> QED
        BY <1>1, <2>7, <3>1, InvariantParts
    <2>9. CASE deploy.step = "streak" /\ s # "failed"
      <3>1. tables'["sepay"] = "made" /\ tables'["streak"] = "made" /\ s = "journal"
        BY <2>1, <2>5, <2>9 DEF Allowed
      <3>2. DeployInv'
        BY <1>1, <1>2, <2>4, <3>1 DEF DeployInv, GateInv, RunnerInv, RestartsFindTables, Idle, Runners
      <3> QED
        BY <1>1, <2>7, <3>2, InvariantParts
    <2>10. CASE deploy.step = "journal" /\ s # "failed"
      <3>1. tables["sepay"] = "made" /\ tables["streak"] = "made" /\ s = "restart"
        BY <1>1, <2>1, <2>10 DEF DeployInv
      <3>2. \A g \in Gated : tables'[g] = "made"
        BY <2>5, <2>10, <3>1 DEF Gated, Allowed
      <3>3. DeployInv'
        BY <1>1, <1>2, <2>4, <2>5, <3>1, <3>2
        DEF DeployInv, GateInv, RunnerInv, RestartsFindTables, Idle, Runners, Gated
      <3> QED
        BY <1>1, <2>7, <3>3, InvariantParts
    <2> QED
      BY <1>2, <2>8, <2>9, <2>10 DEF Runners
  <1>4. CASE ~(HistoryIsRight /\ TablesAreRight)
    BY <1>2, <1>4, Stopping DEF VerifyAndCommit
  <1> QED
    BY <1>3, <1>4

LEMMA RestartSteps ==
  ASSUME ReleaseInv, Restart
  PROVE  ReleaseInv'
  <1>1. /\ ReleaseTypeOK /\ ScriptInv /\ DeployInv /\ ScriptInv' /\ deploy.step = "restart"
        /\ UNCHANGED <<scene, day, daily, recorded, tables>>
    BY InvariantParts, ScriptStands DEF Restart, schema
  <1>2. PICK s \in {"done", "failed"} : Stop(s)
    BY DEF Restart
  <1>3. deploy \in [step : Steps, run : Run \cup {NoRun}, number : 0 .. MaxDeploy]
    BY <1>1 DEF ReleaseTypeOK
  <1>4. /\ deploy'.step = s /\ deploy'.run = deploy.run /\ runner' = Idle
        /\ deploy' \in [step : Steps, run : Run \cup {NoRun}, number : 0 .. MaxDeploy]
    BY <1>2, <1>3 DEF Stop, Steps
  <1>5. ReleaseTypeOK'
    BY <1>1, <1>4 DEF ScriptInv, ReleaseTypeOK, Idle
  <1>6. DeployInv'
    BY <1>1, <1>4 DEF DeployInv, GateInv, RunnerInv, RestartsFindTables, Idle, Runners
  <1> QED
    BY <1>1, <1>5, <1>6, InvariantParts

\* An operator's migration:run makes the tables that a runner would have made.
LEMMA OperatorSteps ==
  ASSUME ReleaseInv, MigrationRun
  PROVE  ReleaseInv'
  <1>1. /\ ReleaseTypeOK /\ ScriptInv /\ DeployInv /\ ScriptInv'
        /\ UNCHANGED <<scene, day, daily, deploy, runner>>
    BY InvariantParts, ScriptStands DEF MigrationRun
  <1>2. /\ runner.tx = {} /\ recorded # Registry /\ recorded' = Registry
        /\ tables' = [g \in Gated |-> IF tables[g] = "absent" /\ g \notin recorded
                                      THEN "made" ELSE tables[g]]
    BY DEF MigrationRun
  <1>3. ReleaseTypeOK'
    BY <1>1, <1>2 DEF ScriptInv, ReleaseTypeOK
  <1>4. \A g \in Gated : (tables[g] = "made" => tables'[g] = "made")
                         /\ (g \notin recorded => tables'[g] # "absent")
    BY <1>2
  <1>5. RunnerInv'
    <2>1. SUFFICES ASSUME runner.at # "idle"
                   PROVE  RunnerInv'
      BY <1>1 DEF RunnerInv
    <2>2. /\ runner.pending \subseteq Gated
          /\ runner.pending = Registry \ runner.executed /\ recorded = runner.executed
      BY <1>2, <2>1, Working DEF ReleaseInv, DeployInv, RunnerInv
    <2>3. \A g \in runner.pending : tables'[g] # "absent"
      BY <1>4, <2>2
    <2> QED
      BY <1>1, <1>2, <2>1, <2>3 DEF DeployInv, RunnerInv
  <1>6. DeployInv'
    BY <1>1, <1>2, <1>4, <1>5 DEF DeployInv, GateInv, RestartsFindTables, Gated
  <1> QED
    BY <1>1, <1>3, <1>6, InvariantParts

-----------------------------------------------------------------------------
(* All steps.                                                              *)

LEMMA ReleaseInvInit ==
  ASSUME ReleaseInit
  PROVE  ReleaseInv
  <1> USE DEF ReleaseInit, BackupInit, ContactInit
  <1>1. /\ MaxDay \in Nat /\ MaxRun \in Nat /\ MaxDeploy \in Nat /\ MaxImages \in Nat
    BY BackupConstants, ReleaseConstants, ContactConstants
  <1>2. ContactTypeOK
    BY <1>1 DEF ContactTypeOK
  <1>3. MessageInv
    BY <1>2 DEF MessageInv, MessagesInOrder, MessagesKeepTheirImages
  <1>4. NoCopy \in Copied /\ NoCopy.rows = {} /\ NoCopy.made = 0
    BY <1>1 DEF NoCopy, Copied, Day
  <1>5. /\ NoStatus \in Status /\ NoStatus.local = FALSE /\ NoStatus.offsite = FALSE
        /\ NoStatus.run = 0 /\ NoStatus.status = "none" /\ SafeReadiness(NoStatus)
    BY DEF NoStatus, Status, NoRun, SafeReadiness
  <1>6. BackupTypeOK
    <2>1. copy \in [Run -> Copied]
      BY <1>4
    <2>2. status \in Status /\ summary \in [says : Status, day : Day]
      BY <1>1, <1>5 DEF Day
    <2>3. /\ day \in Day /\ lastRun \in 0 .. MaxRun /\ holder \in Run \cup {NoRun}
          /\ ready \in [local : BOOLEAN, offsite : BOOLEAN] /\ stage \in Stages
      BY <1>1 DEF Day, NotReady, Stages
    <2> QED
      BY <1>2, <2>1, <2>2, <2>3 DEF BackupTypeOK, Copied
  <1>7. CopiesInv
    BY <1>4 DEF CopiesInv, CopiesRestore
  <1>8. RunsInv
    BY <1>4, <1>5 DEF RunsInv, HolderInv, ReportedCopiesExist, Reliable
  <1>9. recorded \subseteq Registry /\ tables \in [Gated -> {"absent", "made", "drifted"}]
    BY DEF Registry
  <1>10. /\ deploy = [step |-> "none", run |-> NoRun, number |-> 0] /\ deploy.step = "none"
         /\ runner = Idle /\ Idle.at = "idle" /\ Idle.tx = {}
    BY DEF Idle
  <1>11. ReleaseTypeOK
    BY <1>1, <1>6, <1>9, <1>10 DEF ReleaseTypeOK, Steps, Idle
  <1>12. DeployInv
    BY <1>10 DEF DeployInv, GateInv, RunnerInv, RestartsFindTables, Runners
  <1> QED
    BY <1>3, <1>7, <1>8, <1>11, <1>12 DEF ReleaseInv

\* The steps of the script beside which nothing else happens.
AloneStep ==
  \/ Start \/ StartWhileRunning \/ StartRefused \/ DumpDatabase \/ ArchiveFile \/ ArchiveEnds
  \/ FinishLocal \/ UploadDaily \/ UploadMonthly

LEMMA AloneSteps ==
  ASSUME ReleaseInv, AloneStep, Others
  PROVE  ReleaseInv'
  <1>1. ScriptInv
    BY InvariantParts
  <1>2. ScriptInv' /\ daily \subseteq daily'
    BY <1>1, StartSteps, RefusedSteps, CopyingSteps, FinishSteps, UploadSteps DEF AloneStep
  <1>3. scene' = scene /\ day' = day
    BY <1>1, RefusedSteps DEF AloneStep, Start, DumpDatabase, ArchiveFile, ArchiveEnds,
           FinishLocal, UploadDaily, UploadMonthly
  <1> QED
    BY <1>2, <1>3, BesideDeployments

\* The ends of a run.
EndStep == LocalCompletion \/ RemoteCompletion \/ BackupFails \/ BackupKilled

LEMMA EndSteps ==
  ASSUME ReleaseInv, EndStep
  PROVE  ReleaseInv'
  <1>1. ScriptInv /\ DeployInv
    BY InvariantParts
  <1>2. UNCHANGED <<scene, day>>
    BY DEF EndStep, LocalCompletion, RemoteCompletion, BackupFails, BackupKilled,
           KeepLocal, KeepRemote, OnError, Killed
  <1>3. CASE LocalCompletion
    <2>1. ScriptInv' /\ daily \subseteq daily' /\ Outcome(FALSE)
      BY <1>1, <1>3, KeepLocalSteps DEF LocalCompletion
    <2> QED
      BY <1>2, <2>1, Outcomes
  <1>4. CASE RemoteCompletion
    <2>1. /\ ScriptInv' /\ holder \in daily' /\ daily' = daily \ Old(daily, DailyDays)
          /\ Outcome(TRUE)
      BY <1>1, <1>4, KeepRemoteSteps DEF RemoteCompletion
    <2>2. scene = "deploys" => daily \subseteq daily'
      BY <1>1, <2>1, NothingIsOld
    <2> QED
      BY <1>2, <2>1, <2>2, Outcomes
  <1>5. CASE BackupFails \/ BackupKilled
    <2>1. ScriptInv' /\ daily' = daily /\ Outcome(FALSE)
      BY <1>1, <1>5, FailingSteps DEF BackupFails, BackupKilled
    <2> QED
      BY <1>2, <2>1, Outcomes
  <1> QED
    BY <1>3, <1>4, <1>5 DEF EndStep

\* The steps of a deployment and of an operator.
DeployStep ==
  \/ OpenGate \/ GateIsBusy \/ CopyBuild
  \/ ReadPending \/ BeginTransaction \/ ExecuteMigration \/ VerifyAndCommit
  \/ DeployFails \/ Restart \/ MigrationRun

LEMMA DeploySteps ==
  ASSUME ReleaseInv, DeployStep
  PROVE  ReleaseInv'
  <1>1. CASE CopyBuild
    BY <1>1, Stopping DEF CopyBuild
  <1>2. CASE DeployFails
    BY <1>2, Stopping DEF DeployFails
  <1> QED
    BY <1>1, <1>2, GateSteps, ReadPendingSteps, BeginSteps, ExecuteSteps, CommitSteps,
       RestartSteps, OperatorSteps
    DEF DeployStep

\* A day passes only when there are no deployments.
LEMMA DayStep ==
  ASSUME ReleaseInv, NextDay, Others
  PROVE  ReleaseInv'
  <1>1. ScriptInv' /\ daily' = daily
    BY InvariantParts, DaySteps
  <1>2. scene' = scene /\ scene = "days"
    BY DEF NextDay
  <1> QED
    BY <1>1, <1>2, BesideDeployments

\* Every step is one of these.
LEMMA StepsAre ==
  ASSUME ReleaseNext
  PROVE  \/ \E m \in Message : ContactStep(m) /\ Apart /\ Others
         \/ (AloneStep /\ Others) \/ (NextDay /\ Others) \/ EndStep \/ DeployStep
  BY DEF ReleaseNext, ContactStep, AloneStep, EndStep, DeployStep

LEMMA ReleaseInvNext ==
  ASSUME ReleaseInv, [ReleaseNext]_releaseVars
  PROVE  ReleaseInv'
  <1>1. CASE ReleaseNext
    BY <1>1, StepsAre, ContactSteps, AloneSteps, DayStep, EndSteps, DeploySteps
  <1>2. CASE UNCHANGED releaseVars
    <2>1. UNCHANGED backupVars /\ Others
      BY <1>2 DEF releaseVars, Others
    <2>2. ScriptInv' /\ UNCHANGED <<scene, day, daily>>
      BY <2>1, InvariantParts, ScriptStands
    <2> QED
      BY <2>1, <2>2, BesideDeployments
  <1> QED
    BY <1>1, <1>2

-----------------------------------------------------------------------------
(* The theorems.                                                           *)

\* In every reachable state the invariant holds, and with it the types of all
\* variables of the deployment, the script and the contact form.
THEOREM ReleaseInvariant == ReleaseSpec => []ReleaseInv
  <1>1. ReleaseInit => ReleaseInv
    BY ReleaseInvInit
  <1>2. ReleaseInv /\ [ReleaseNext]_releaseVars => ReleaseInv'
    BY ReleaseInvNext
  <1> QED
    BY <1>1, <1>2, PTL DEF ReleaseSpec

THEOREM ReleaseTypeCorrect == ReleaseSpec => []ReleaseTypeOK
  <1>1. ReleaseInv => ReleaseTypeOK
    BY DEF ReleaseInv
  <1> QED
    BY <1>1, ReleaseInvariant, PTL

\* Every message in the database, and every one whose e-mail is being written,
\* has all of its images in the upload directory, however visitors, administrators
\* and failures interleave (contact.service.ts:483-516).
THEOREM MessagesAlwaysKeepTheirImages == ReleaseSpec => []MessagesKeepTheirImages
  <1>1. ReleaseInv => MessagesKeepTheirImages
    BY DEF ReleaseInv, MessageInv
  <1> QED
    BY <1>1, ReleaseInvariant, PTL

\* What the page shows as ready is there: a summary that is fresh enough was
\* written when its copy was too young to be removed by now.
LEMMA ShownIsThere ==
  ASSUME ScriptInv
  PROVE  ShownCopiesExist
  <1>1. Reliable /\ summary.day \in Nat
    BY BackupConstants DEF ScriptInv, RunsInv, BackupTypeOK, Day
  <1>2. /\ LocalDays \in Nat /\ DailyDays \in Nat /\ FreshDays \in Nat /\ day \in Nat
        /\ FreshDays + 1 < LocalDays /\ FreshDays + 1 < DailyDays
        /\ \A r \in Run : copy[r].made \in Nat
    BY BackupConstants, Holding
  <1>3. CASE SafeReadiness(summary.says) /\ day - summary.day <= FreshDays
    <2>1. Shown = summary.says
      BY <1>3 DEF Shown
    <2>2. summary.says.local => summary.says.run \in local
      <3>1. SUFFICES ASSUME summary.says.local
                     PROVE  summary.says.run \in local
        OBVIOUS
      <3>2. Vouches(summary.says.run, local, LocalDays)
        BY <1>1, <3>1 DEF Reliable
      <3> QED
        BY <1>1, <1>2, <1>3, <3>2 DEF Vouches
    <2>3. summary.says.offsite => summary.says.run \in daily
      <3>1. SUFFICES ASSUME summary.says.offsite
                     PROVE  summary.says.run \in daily
        OBVIOUS
      <3>2. Vouches(summary.says.run, daily, DailyDays)
        BY <1>1, <3>1 DEF Reliable
      <3> QED
        BY <1>1, <1>2, <1>3, <3>2 DEF Vouches
    <2> QED
      BY <1>3, <2>1, <2>2, <2>3 DEF ShownCopiesExist
  <1>4. CASE ~(SafeReadiness(summary.says) /\ day - summary.day <= FreshDays)
    <2>1. Shown = NoStatus /\ NoStatus.local = FALSE /\ NoStatus.offsite = FALSE
      BY <1>4 DEF Shown, NoStatus
    <2> QED
      BY <1>1, <2>1 DEF Reliable, ShownCopiesExist
  <1> QED
    BY <1>3, <1>4

\* Complete copies restore every message with its images, and what the script or
\* the page reports of a copy is true (backup-vinfi.sh:323-473,
\* system-status.service.ts:87-193).
THEOREM CopiesAreAlwaysTrue == ReleaseSpec => []CopiesAreTrue
  <1>1. ReleaseInv => CopiesAreTrue
    BY InvariantParts, ShownIsThere DEF ScriptInv, CopiesInv, RunsInv, CopiesAreTrue
  <1> QED
    BY <1>1, ReleaseInvariant, PTL

\* One step of the copies: a run that removes what is old has a copy of its own,
\* which is not.
CopiesStay == (local # {} => local' # {}) /\ (daily # {} => daily' # {})

LEMMA CopiesStayNext ==
  ASSUME ReleaseInv, ReleaseNext
  PROVE  CopiesStay
  <1>1. ScriptInv
    BY InvariantParts
  <1>2. CASE \E m \in Message : ContactStep(m) /\ Apart /\ Others
    BY <1>2 DEF Apart, backup, CopiesStay
  <1>3. CASE AloneStep /\ Others
    <2>1. daily \subseteq daily'
      BY <1>1, <1>3, StartSteps, RefusedSteps, CopyingSteps, FinishSteps, UploadSteps
      DEF AloneStep
    <2>2. local \subseteq local'
      BY <1>1, <1>3, RefusedSteps DEF AloneStep, Start, DumpDatabase, ArchiveFile, ArchiveEnds,
                  FinishLocal, UploadDaily, UploadMonthly, copies
    <2> QED
      BY <2>1, <2>2 DEF CopiesStay
  <1>4. CASE NextDay /\ Others
    BY <1>4 DEF NextDay, backup, CopiesStay
  <1>5. CASE EndStep
    <2>1. CASE LocalCompletion
      <3>1. /\ holder # NoRun /\ stage \notin Early /\ daily' = daily
            /\ local' = local \ Old(local, LocalDays)
        BY <2>1 DEF LocalCompletion, KeepLocal, At, Early
      <3>2. holder \in local'
        BY <1>1, <3>1, LateRun
      <3> QED
        BY <3>1, <3>2 DEF CopiesStay
    <2>2. CASE RemoteCompletion
      <3>1. holder \in daily' /\ local' = local
        BY <1>1, <2>2, KeepRemoteSteps DEF RemoteCompletion, KeepRemote
      <3> QED
        BY <3>1 DEF CopiesStay
    <2>3. CASE BackupFails \/ BackupKilled
      BY <2>3 DEF BackupFails, BackupKilled, OnError, Killed, CopiesStay
    <2> QED
      BY <1>5, <2>1, <2>2, <2>3 DEF EndStep
  <1>6. CASE DeployStep
    BY <1>1, <1>6, RefusedSteps DEF DeployStep, OpenGate, GateIsBusy, Start, CopyBuild, ReadPending,
                BeginTransaction, ExecuteMigration, VerifyAndCommit, DeployFails, Restart,
                MigrationRun, backupVars, backup, copies, CopiesStay
  <1> QED
    BY <1>2, <1>3, <1>4, <1>5, <1>6, StepsAre

\* Once there is a copy there is always one, in each place
\* (backup-vinfi.sh:427-430, 459-473).
THEOREM CopiesAlwaysRemain == ReleaseSpec => CopiesRemain
  <1>1. ReleaseInv /\ [ReleaseNext]_releaseVars =>
          [(local # {} => local' # {}) /\ (daily # {} => daily' # {})]_backupVars
    BY CopiesStayNext DEF CopiesStay, releaseVars
  <1> QED
    BY <1>1, ReleaseInvariant, PTL DEF ReleaseSpec, CopiesRemain

\* A change of the schema under an open transaction is the runner's own commit.
LEMMA ChangesAreCommits ==
  ASSUME ReleaseInv, ReleaseNext, runner.tx # {}, schema' # schema
  PROVE  VerifyAndCommit /\ HistoryIsRight /\ TablesAreRight
  <1>1. DeployStep
    <2>1. ~Others
      BY DEF Others, release
    <2>2. ~EndStep
      BY DEF EndStep, LocalCompletion, RemoteCompletion, BackupFails, BackupKilled, Outcome
    <2> QED
      BY <2>1, <2>2, StepsAre
  <1>2. VerifyAndCommit
    BY <1>1 DEF DeployStep, OpenGate, GateIsBusy, CopyBuild, ReadPending, BeginTransaction,
                ExecuteMigration, DeployFails, Restart, MigrationRun
  <1> QED
    BY <1>2 DEF VerifyAndCommit

\* From the backup to the restart a deployment changes only what it may, after a
\* copy that was made for it, and ends on a database that fits the new build,
\* whatever an operator does meanwhile (deploy.yml:157-249,
\* deploy-streak-migration.ts:315-379).
THEOREM DeploymentsAreAlwaysSafe == ReleaseSpec => DeploymentsAreSafe
  <1>1. ASSUME ReleaseInv, ReleaseNext, ReleaseInv'
        PROVE  ChangeIsBackedUp /\ RunnerKeepsToItsOwn /\ RestartsFindTables'
    <2>1. RestartsFindTables'
      BY <1>1 DEF ReleaseInv, DeployInv
    <2>2. SUFFICES ASSUME runner.tx # {}, schema' # schema
                   PROVE  /\ deploy.run \in daily /\ recorded' = Registry
                          /\ recorded' \ recorded = runner.pending /\ runner.pending \subseteq Gated
      BY <2>1 DEF ChangeIsBackedUp, RunnerKeepsToItsOwn
    <2>3. runner.at # "idle"
      BY <1>1, <2>2 DEF ReleaseInv, DeployInv
    <2>4. deploy.run \in daily /\ runner.pending \subseteq Gated
      BY <1>1, <2>3, Working
    <2>5. /\ recorded' = Registry
          /\ recorded' \ recorded = runner.pending \/ (recorded' = recorded /\ tables' = tables)
      BY <1>1, <2>2, ChangesAreCommits, Committing
    <2> QED
      BY <2>2, <2>4, <2>5 DEF schema
  <1>2. ReleaseInv /\ ReleaseInv' /\ [ReleaseNext]_releaseVars =>
          [ChangeIsBackedUp /\ RunnerKeepsToItsOwn /\ RestartsFindTables']_releaseVars
    BY <1>1
  <1> QED
    BY <1>2, ReleaseInvariant, PTL DEF ReleaseSpec, DeploymentsAreSafe

-----------------------------------------------------------------------------
(* Readings, entries and the scripts over them: the invariants.            *)

Table == [Reading -> Row \cup {NoRow}]

ScriptRun ==
  [mode : Mode, phase : {"preflight", "write"}, cursor : Nat, reencrypt : BOOLEAN,
   expected : SUBSET Reading, failed : SUBSET Reading, ring : Ring,
   snap : Table \cup {<<>>}]

Draft == [reading : Reading \cup {0}, seen : Entry \cup {NoEntry},
          text : Word \cup {"none"}, tags : Word \cup {"none"}, late : BOOLEAN]
Saying == [text : Word \cup {"none"}, tags : Word \cup {"none"}]

RecordTypes ==
  /\ TypeOK
  /\ script = NoScript \/ script \in ScriptRun
  /\ script.mode = "exact" => script.snap \in Table
  /\ draft \in [Request -> Draft]
  /\ \A q \in Request : draft[q].reading # 0 => draft[q].seen \in Entry
  /\ said \in [1 .. MaxEntry -> Saying]

\* An update under way read a document that could be decrypted; unless another
\* request came first, what it read is still what the reading holds.
PatchesAreFresh ==
  \A q \in Request : patch[q].reading # 0 =>
    /\ app.up
    /\ ~Damaged(patch[q].reading)
    /\ ~patch[q].late => /\ Exists(patch[q].reading)
                         /\ patch[q].seen.has = readings[patch[q].reading].has

ReadingsInv == PatchesAreFresh /\ ContentIsKept

\* The same of a request to an entry; an id never moves to another reading.
FreshDraft(d) ==
  ~d.late => IF HasEntry(d.reading) THEN entries[d.reading] = d.seen
                                    ELSE d.text \in Word /\ d.tags \in Word
OwnId(d) ==
  /\ d.seen.id \in 1 .. written
  /\ \A s \in Reading : entries[s].id = d.seen.id => s = d.reading
  /\ \A p \in Request : draft[p].reading # 0 /\ draft[p].seen.id = d.seen.id
                          => draft[p].reading = d.reading
DraftsAreFresh ==
  \A q \in Request : draft[q].reading # 0 => FreshDraft(draft[q]) /\ OwnId(draft[q])

EntriesInv ==
  /\ DraftsAreFresh
  /\ \A r \in Reading : entries[r].id \in 0 .. written
  /\ EntriesStayTrue

SealedUnder(keys) ==
  \A r \in Reading : readings[r].form \in {"v2", "v3"} => readings[r].key \in keys

\* Which keys are in use, at each point of a rotation.
RotationInv ==
  /\ SealedUnder(app.ring.keys)
  /\ turned = "no" => /\ ring.keys = {ring.active} /\ app.ring.active = ring.active
                      /\ SealedUnder({ring.active})
  /\ turned = "turned" => /\ script = NoScript /\ app.ring.active \in ring.keys
                          /\ SealedUnder({app.ring.active})
  /\ turned \in {"restarted", "reencrypted"} => app.ring = ring
  /\ turned = "reencrypted" => SealedUnder({ring.active})
  /\ script # NoScript => script.ring = ring

\* The readings a run of the script has passed.
Passed == {r \in Reading : r <= script.cursor}

\* A default run knows every damaged document it has passed, and writes when
\* there is none at all.
DefaultRun ==
  script.mode = "apply" =>
    /\ script.expected = {}
    /\ script.phase = "preflight" => \A r \in Passed : Damaged(r) => r \in script.failed
    /\ script.phase = "write" =>
         /\ \A r \in Reading : ~Damaged(r)
         /\ \A r \in Passed : /\ readings[r].form \in {"none", "v3"}
                              /\ script.reencrypt /\ Exists(r)
                                   => readings[r].key = ring.active
RollbackRun ==
  script.mode = "rollback" =>
    /\ ~app.up
    /\ script.phase = "write" => \A r \in Passed : readings[r].form # "v3"

\* A run that expects damaged documents holds locks on what it has passed, and
\* only new documents differ from its snapshot in what it has not.
ExactRun ==
  script.mode = "exact" =>
    /\ \A r \in Reading :
         readings[r] # script.snap[r] => readings[r].form \in {"none", "v3"}
    /\ locked = {r \in Passed : script.snap[r].form # "none"}
    /\ \A r \in locked : readings[r] = script.snap[r]
    /\ script.failed = {r \in Passed : Unreadable(script.snap[r])}

RunInv ==
  /\ DefaultRun /\ RollbackRun /\ ExactRun
  /\ script.reencrypt => script.mode = "apply"
  /\ script.mode # "exact" => locked = {}
  /\ script # NoScript => outcome = NoOutcome
  /\ outcome.mode = "rollback" => ~app.up
  /\ FinishedRunsAreComplete

\* A historical document is the one the copy was made of.
RecoveryInv ==
  /\ \A r \in Reading : restored # NoTable /\ readings[r].form = "legacy"
                          => restored[r] = readings[r]
  /\ ArtifactsAreComplete

RecordsInv ==
  RecordTypes /\ ReadingsInv /\ EntriesInv /\ RotationInv /\ RunInv /\ RecoveryInv

-----------------------------------------------------------------------------
(* Batches of rows in the order of their ids.                              *)

\* A set of natural numbers has a least member.
LEMMA LeastNumber ==
  ASSUME NEW T \in SUBSET Nat, T # {}
  PROVE  \E m \in T : \A n \in T : m <= n
  <1>1. PICK m \in T : \A n \in T : ~(<<n, m>> \in OpToRel(<, Nat))
    BY NatLessThanWellFounded, WFMin, Zenon
  <1>2. ASSUME NEW n \in T
        PROVE  m <= n
    <2>1. m \in Nat /\ n \in Nat
      OBVIOUS
    <2>2. n < m => <<n, m>> \in OpToRel(<, Nat)
      BY <2>1 DEF OpToRel
    <2>3. ~(n < m)
      BY <1>1, <2>2, Zenon
    <2> QED
      BY <2>1, <2>3
  <1> QED
    BY <1>2

\* A finite set of natural numbers has a greatest member.
LEMMA GreatestNumber ==
  ASSUME NEW S \in SUBSET Nat, IsFiniteSet(S), S # {}
  PROVE  \E m \in S : \A n \in S : n <= m
  <1> DEFINE Bad == {U \in SUBSET S : U # {} /\ \A m \in U : \E n \in U : ~(n <= m)}
             Sizes == {Cardinality(U) : U \in Bad}
  <1>1. \A U \in SUBSET S : IsFiniteSet(U) /\ Cardinality(U) \in Nat
    BY FS_Subset, FS_CardinalityType
  <1>2. ASSUME Bad # {}
        PROVE  FALSE
    <2>1. Sizes \in SUBSET Nat /\ Sizes # {}
      BY <1>1, <1>2
    <2>2. PICK k \in Sizes : \A n \in Sizes : k <= n
      <3> HIDE DEF Sizes
      <3> QED
        BY <2>1, LeastNumber
    <2>3. PICK U \in Bad : Cardinality(U) = k
      BY <2>2
    <2>4. PICK x \in U : TRUE
      BY <2>3
    <2> DEFINE V == U \ {x}
    <2>5. V \in SUBSET S /\ Cardinality(V) = k - 1 /\ k \in Nat
      BY <1>1, <2>3, <2>4, FS_RemoveElement
    <2>6. V \notin Bad
      <3>1. V \in Bad => Cardinality(V) \in Sizes
        OBVIOUS
      <3>2. ~(k <= k - 1)
        BY <2>5
      <3> HIDE DEF Sizes, Bad, V
      <3> QED
        BY <2>2, <2>5, <3>1, <3>2
    <2>7. CASE V = {}
      <3>1. U = {x} /\ x \in Nat
        BY <2>3, <2>4, <2>7
      <3> QED
        BY <2>3, <3>1
    <2>8. CASE V # {}
      <3>1. PICK m \in V : \A n \in V : n <= m
        BY <2>5, <2>6, <2>8
      <3>2. x \in Nat /\ m \in Nat /\ x \in U /\ m \in U /\ \A n \in U : n \in Nat /\ (n = x \/ n <= m)
        BY <2>3, <2>4, <3>1
      <3>3. CASE x <= m
        BY <2>3, <3>2, <3>3
      <3>4. CASE ~(x <= m)
        <4>1. \A n \in U : n <= x
          BY <3>2, <3>4
        <4> QED
          BY <2>3, <3>2, <4>1
      <3> QED
        BY <3>3, <3>4
    <2> QED
      BY <2>7, <2>8
  <1> QED
    BY <1>2

\* What is behind the cursor in a table.
Rest(table) == {r \in Reading : r > script.cursor /\ table[r].form # "none"}

LEMMA BatchIsOfTheRest ==
  ASSUME NEW table
  PROVE  /\ Batch(table) = {r \in Rest(table) :
                              Cardinality({s \in Rest(table) : s < r}) < BatchSize}
         /\ Batch(table) \subseteq Rest(table) /\ Rest(table) \subseteq Reading
  BY DEF Batch, Rest

LEMMA EmptyBatch ==
  ASSUME NEW table, Batch(table) = {}
  PROVE  Rest(table) = {}
  <1> SUFFICES ASSUME Rest(table) # {} PROVE FALSE
    OBVIOUS
  <1>1. Rest(table) \in SUBSET Nat
    BY ReadingsConstants, BatchIsOfTheRest
  <1>2. PICK m \in Rest(table) : \A n \in Rest(table) : m <= n
    BY <1>1, LeastNumber
  <1>3. {s \in Rest(table) : s < m} = {}
    BY <1>1, <1>2
  <1>4. Cardinality({s \in Rest(table) : s < m}) = 0
    BY <1>3, FS_EmptySet
  <1> QED
    BY <1>2, <1>4, BatchIsOfTheRest, ReencryptionConstants

\* The cursor moves to the last row of the batch, and passes no row by.
LEMMA FullBatch ==
  ASSUME NEW table, Batch(table) # {}, script.cursor \in Nat
  PROVE  /\ LastOf(Batch(table)) \in Batch(table) /\ LastOf(Batch(table)) \in Nat
         /\ \A r \in Reading : table[r].form # "none" =>
              (r \in Batch(table) <=> r > script.cursor /\ r <= LastOf(Batch(table)))
  <1> DEFINE B == Batch(table)
             R == Rest(table)
  <1>1. R \in SUBSET Nat /\ IsFiniteSet(R) /\ B \in SUBSET R /\ Reading \subseteq Nat
    BY ReadingsConstants, BatchIsOfTheRest, FS_Subset
  <1>2. B \in SUBSET Nat /\ IsFiniteSet(B) /\ B # {}
    BY <1>1, FS_Subset
  <1>3. \E m \in B : \A n \in B : n <= m
    <2> HIDE DEF B
    <2> QED
      BY <1>2, GreatestNumber
  <1>4. LastOf(B) \in B /\ \A n \in B : n <= LastOf(B)
    BY <1>3 DEF LastOf
  <1>5. ASSUME NEW r \in R, r <= LastOf(B)
        PROVE  r \in B
    <2> DEFINE Below(x) == {s \in R : s < x}
    <2>1. Below(r) \subseteq Below(LastOf(B)) /\ IsFiniteSet(Below(LastOf(B)))
      <3>1. Below(LastOf(B)) \in SUBSET R
        OBVIOUS
      <3>2. IsFiniteSet(Below(LastOf(B)))
        BY <1>1, <3>1, FS_Subset
      <3> QED
        BY <1>1, <1>4, <1>5, <3>2
    <2>2. /\ Cardinality(Below(r)) <= Cardinality(Below(LastOf(B)))
          /\ Cardinality(Below(r)) \in Nat /\ Cardinality(Below(LastOf(B))) \in Nat
      BY <2>1, FS_Subset, FS_CardinalityType
    <2>3. Cardinality(Below(LastOf(B))) < BatchSize
      BY <1>4, BatchIsOfTheRest
    <2>4. Cardinality(Below(r)) < BatchSize
      BY <2>2, <2>3, ReencryptionConstants
    <2> QED
      BY <2>4, BatchIsOfTheRest
  <1>6. \A r \in Reading : table[r].form # "none" => (r \in R <=> r > script.cursor)
    BY DEF Rest
  <1> QED
    BY <1>1, <1>2, <1>4, <1>5, <1>6

-----------------------------------------------------------------------------
(* What the script makes of a row, and which steps there are.              *)

LEMMA ConvertedRows ==
  ASSUME NEW row \in Row \cup {NoRow}, script \in ScriptRun
  PROVE  /\ Convert(row) \in Row \cup {NoRow}
         /\ Convert(row).has = row.has
         /\ Convert(row).form = "none" <=> row.form = "none"
         /\ Convert(row) = row \/ /\ Convert(row).form \in {"v2", "v3"}
                                  /\ Convert(row).key = script.ring.active
         /\ row.form = "legacy" /\ row.key # "owner" => Convert(row) = row
         /\ script.mode = "rollback" => Convert(row).form # "v3"
         /\ script.mode # "rollback" =>
              /\ Convert(row).form \in {"none", "v3"} \/ Unreadable(row)
              /\ script.reencrypt => \/ row.form = "none" \/ Unreadable(row)
                                     \/ Convert(row).key = script.ring.active
  <1>1. script.ring.active \in Key /\ script.ring \in Ring /\ script.mode \in Mode
    BY DEF ScriptRun, Ring
  <1>2. CASE row = NoRow
    <2>1. Convert(row) = row
      BY <1>2 DEF Convert, NoRow
    <2> QED
      BY <1>2, <2>1 DEF NoRow
  <1>3. CASE row.form = "legacy" /\ row \in Row
    <2>1. row.form # "none" /\ row.form # "v3" /\ row.has \in SUBSET Field
      BY <1>3 DEF Row
    <2>2. CASE script.mode = "rollback" \/ Unreadable(row)
      <3>1. Convert(row) = row
        BY <2>1, <2>2 DEF Convert
      <3> QED
        BY <1>3, <2>1, <2>2, <3>1
    <2>3. CASE script.mode # "rollback" /\ ~Unreadable(row)
      <3>1. Convert(row) = [row EXCEPT !.form = "v3", !.key = script.ring.active]
        BY <2>1, <2>3 DEF Convert
      <3>2. Convert(row) = [form |-> "v3", key |-> script.ring.active, has |-> row.has]
        BY <1>3, <3>1 DEF Row
      <3>3. Convert(row) \in Row
        BY <1>1, <2>1, <3>2 DEF Row
      <3> QED
        BY <1>3, <2>1, <2>3, <3>2, <3>3 DEF Unreadable
    <2> QED
      BY <2>2, <2>3
  <1>4. CASE row.form # "legacy" /\ row \in Row
    <2>1. /\ row \in [form : {"v2", "v3"}, key : Key, has : SUBSET Field]
          /\ row.form \in {"v2", "v3"} /\ row.form # "none" /\ ~Unreadable(row)
      BY <1>4 DEF Row, Unreadable
    <2>2. CASE script.mode = "rollback"
      <3>1. CASE row.form = "v3"
        <4>1. Convert(row) = [row EXCEPT !.form = "v2", !.key = script.ring.active]
          BY <2>1, <2>2, <3>1 DEF Convert
        <4>2. Convert(row) = [form |-> "v2", key |-> script.ring.active, has |-> row.has]
          BY <2>1, <4>1
        <4>3. Convert(row) \in Row
          BY <1>1, <2>1, <4>2 DEF Row
        <4> QED
          BY <1>4, <2>1, <2>2, <4>2, <4>3
      <3>2. CASE row.form # "v3"
        <4>1. Convert(row) = row
          BY <2>1, <2>2, <3>2 DEF Convert
        <4> QED
          BY <1>4, <2>1, <2>2, <3>2, <4>1
      <3> QED
        BY <3>1, <3>2
    <2>3. CASE script.mode # "rollback"
      <3>1. CASE row.form = "v3" /\ ~script.reencrypt
        <4>1. Convert(row) = row
          BY <2>1, <2>3, <3>1 DEF Convert
        <4> QED
          BY <1>4, <2>1, <2>3, <3>1, <4>1
      <3>2. CASE ~(row.form = "v3" /\ ~script.reencrypt)
        <4>1. Convert(row) = [row EXCEPT !.form = "v3", !.key = script.ring.active]
          BY <2>1, <2>3, <3>2 DEF Convert
        <4>2. Convert(row) = [form |-> "v3", key |-> script.ring.active, has |-> row.has]
          BY <2>1, <4>1
        <4>3. Convert(row) \in Row
          BY <1>1, <2>1, <4>2 DEF Row
        <4> QED
          BY <1>4, <2>1, <2>3, <4>2, <4>3
      <3> QED
        BY <3>1, <3>2
    <2> QED
      BY <2>2, <2>3
  <1> QED
    BY <1>2, <1>3, <1>4

LEMMA ResealedRows ==
  ASSUME NEW row \in Row, row.form = "legacy", ring \in Ring
  PROVE  /\ Resealed(row) \in Row /\ Resealed(row).form = "v3"
         /\ Resealed(row).has = row.has
  <1>1. row.has \in SUBSET Field
    BY DEF Row
  <1>2. Resealed(row) = [form |-> "v3", key |-> ring.active, has |-> row.has]
    <2>1. Resealed(row) = [row EXCEPT !.form = "v3", !.key = ring.active]
      BY DEF Resealed
    <2> QED
      BY <2>1 DEF Row
  <1>3. ring.active \in Key
    BY DEF Ring
  <1>4. Resealed(row) \in [form : {"v2", "v3"}, key : Key, has : SUBSET Field]
    BY <1>1, <1>2, <1>3
  <1> QED
    BY <1>2, <1>4 DEF Row

LEMMA SealedRows ==
  ASSUME RecordTypes, NEW has \in SUBSET Field
  PROVE  /\ Sealed(has) \in Row /\ Sealed(has).form = "v3"
         /\ Sealed(has).key = app.ring.active /\ Sealed(has).has = has
         /\ app.ring.active \in app.ring.keys
  BY DEF RecordTypes, TypeOK, ReadingsTypeOK, Sealed, Row, Ring

\* A request that is overtaken keeps what it has read.
LEMMA LatePatch ==
  ASSUME NEW p \in PatchType
  PROVE  LET l == [p EXCEPT !.late = TRUE]
         IN l \in PatchType /\ l.reading = p.reading /\ l.seen = p.seen /\ l.add = p.add /\ l.late
  BY DEF PatchType

LEMMA LateDraft ==
  ASSUME NEW d \in Draft
  PROVE  LET l == [d EXCEPT !.late = TRUE]
         IN /\ l \in Draft /\ l.reading = d.reading /\ l.seen = d.seen
            /\ l.text = d.text /\ l.tags = d.tags /\ l.late
  BY DEF Draft

\* A request of a client for readings.
ReadingStep ==
  /\ UNCHANGED toolVars
  /\ \/ Creates /\ UNCHANGED journalVars
     \/ Finds /\ UNCHANGED journalVars
     \/ Saves /\ UNCHANGED journalVars
     \/ Deletes /\ CascadeEntries
     \/ DeleteAllReadings /\ CascadeEntries
     \/ StopApp /\ ForgetDrafts

\* ... or for entries.
EntryStep ==
  /\ UNCHANGED toolVars
  /\ Begins \/ Revises \/ SavesEntry \/ Refuses \/ DeletesEntry

ScriptStep ==
  \/ Runs \/ ScriptDies \/ Preflight \/ PreflightEnds \/ GivesUp
  \/ WriteBatch \/ WriteEnds \/ LockBatch \/ CommitExact

OperatorStep ==
  \/ StartServer \/ (\E k \in Key : TurnKey(k)) \/ RemoveOldKeys
  \/ RestoreCopy \/ \E mode \in LegacyKey : Recover(mode)

LEMMA RecordSteps ==
  ASSUME Next
  PROVE  ReadingStep \/ EntryStep \/ ScriptStep \/ OperatorStep
  BY DEF Next, Same, ReadingStep, EntryStep, ScriptStep, OperatorStep

LEMMA EntryStepsLeaveReadings ==
  ASSUME EntryStep
  PROVE  UNCHANGED <<readings, locked, app, patch, told, toolVars>> /\ crossed \subseteq crossed'
  BY DEF EntryStep, Begins, Revises, SavesEntry, Refuses, DeletesEntry, BeginEntry, FindEntry,
         SaveEntry, SaveRefused, DeleteEntry, readingVars

LEMMA ScriptStepsLeaveRequests ==
  ASSUME ScriptStep
  PROVE  UNCHANGED <<app, patch, told, crossed, journalVars, ring, restored, artifact>>
  BY DEF ScriptStep, Runs, StartRun, ScriptDies, RunFails, Preflight, PreflightEnds, GivesUp,
         WriteBatch, WriteEnds, RunEnds, LockBatch, CommitExact, readingVars

LEMMA OperatorStepsLeaveReadings ==
  ASSUME OperatorStep
  PROVE  UNCHANGED <<readings, locked, patch, told, crossed, journalVars, script, outcome>>
  BY DEF OperatorStep, StartServer, StartApp, TurnKey, RemoveOldKeys, RestoreCopy, Recover,
         readingVars

-----------------------------------------------------------------------------
(* Types.                                                                  *)

LEMMA ReadingStepKeepsTypes ==
  ASSUME RecordTypes, ReadingStep
  PROVE  RecordTypes'
  <1> USE DEF RecordTypes, TypeOK, ReadingsTypeOK, JournalTypeOK, ReadingStep, toolVars
  <1>1. CASE Creates /\ UNCHANGED journalVars
    <2>1. PICK r \in Reading, f \in Field : CreateReading(r, f)
      BY <1>1 DEF Creates
    <2>2. Sealed({f}) \in Row
      BY <2>1, SealedRows
    <2>3. readings' \in [Reading -> Row \cup {NoRow}] /\ told' \in [Reading -> SUBSET Field]
      BY <2>1, <2>2 DEF CreateReading
    <2> QED
      BY <1>1, <2>1, <2>3 DEF CreateReading, journalVars
  <1>2. CASE Finds /\ UNCHANGED journalVars
    <2>1. PICK q \in Request, r \in Reading, f \in Field : FindReading(q, r, f)
      BY <1>2 DEF Finds
    <2>2. patch' \in [Request -> PatchType]
      BY <2>1 DEF FindReading, PatchType
    <2> QED
      BY <1>2, <2>1, <2>2 DEF FindReading, journalVars
  <1>3. CASE Saves /\ UNCHANGED journalVars
    <2>1. PICK q \in Request : SaveReading(q)
      BY <1>3 DEF Saves
    <2>2. patch[q].reading \in Reading /\ patch[q] \in PatchType
      BY <2>1 DEF SaveReading, PatchType
    <2>3. Merged(q) \in SUBSET Field /\ patch[q].add \in SUBSET Field
      BY <2>2 DEF Merged, MergedPatch, PatchType, Row, NoRow
    <2>4. Sealed(Merged(q)) \in Row
      BY <2>3, SealedRows
    <2>5. readings' \in [Reading -> Row \cup {NoRow}] /\ told' \in [Reading -> SUBSET Field]
      BY <2>1, <2>2, <2>3, <2>4 DEF SaveReading
    <2>6. Overtake(patch[q].reading, q) \in [Request -> PatchType] /\ NoPatch \in PatchType
      <3>1. \A p \in Request : Overtake(patch[q].reading, q)[p] \in PatchType
        BY LatePatch DEF Overtake
      <3> QED
        BY <3>1 DEF Overtake, PatchType, NoPatch
    <2>7. patch' \in [Request -> PatchType]
      BY <2>1, <2>6 DEF SaveReading
    <2> QED
      BY <1>3, <2>1, <2>5, <2>7 DEF SaveReading, journalVars
  <1>4. ASSUME NEW gone \in SUBSET Reading, Delete(gone), CascadeEntries
        PROVE  RecordTypes'
    <2>1. readings' \in [Reading -> Row \cup {NoRow}] /\ told' \in [Reading -> SUBSET Field]
      BY <1>4 DEF Delete
    <2>2. patch' \in [Request -> PatchType]
      BY <1>4, LatePatch DEF Delete
    <2>3. entries' \in [Reading -> Entry \cup {NoEntry}]
      BY <1>4 DEF CascadeEntries
    <2>4. ASSUME NEW q \in Request
          PROVE  /\ draft'[q] \in Draft /\ draft'[q].reading = draft[q].reading
                 /\ draft'[q].seen = draft[q].seen
      <3>1. draft[q] \in Draft
        OBVIOUS
      <3>2. draft'[q] = draft[q] \/ draft'[q] = [draft[q] EXCEPT !.late = TRUE]
        BY <1>4 DEF CascadeEntries
      <3> QED
        BY <3>1, <3>2, LateDraft
    <2>5. /\ draft' \in [Request -> Draft]
          /\ \A q \in Request : draft'[q].reading # 0 => draft'[q].seen \in Entry
      <3>1. draft' = [q \in Request |-> draft'[q]]
        BY <1>4 DEF CascadeEntries
      <3> QED
        BY <2>4, <3>1
    <2>6. NoSaying \in Saying
      BY DEF NoSaying, Saying
    <2>7. said' \in [1 .. MaxEntry -> Saying]
      BY <1>4, <2>6 DEF CascadeEntries
    <2>8. \A q \in Request : draft'[q].reading \in Reading \cup {0}
      BY <2>5 DEF Draft
    <2> QED
      BY <1>4, <2>1, <2>2, <2>3, <2>5, <2>7, <2>8 DEF Delete, CascadeEntries
  <1>5. CASE Deletes /\ CascadeEntries
    <2>1. PICK r \in Reading : Delete({r})
      BY <1>5 DEF Deletes, DeleteReading
    <2>2. {r} \in SUBSET Reading
      OBVIOUS
    <2> QED
      BY <1>4, <1>5, <2>1, <2>2
  <1>6. CASE DeleteAllReadings /\ CascadeEntries
    <2>1. {r \in Reading : Exists(r)} \in SUBSET Reading
      OBVIOUS
    <2> QED
      BY <1>4, <1>6, <2>1 DEF DeleteAllReadings
  <1>7. CASE StopApp /\ ForgetDrafts
    <2>1. NoPatch \in PatchType /\ NoDraft \in Draft /\ NoDraft.reading = 0
      BY DEF NoPatch, PatchType, NoDraft, Draft
    <2>2. app' \in [up : BOOLEAN, ring : Ring]
      BY <1>7 DEF StopApp
    <2>3. patch' \in [Request -> PatchType] /\ draft' \in [Request -> Draft]
      BY <1>7, <2>1 DEF StopApp, ForgetDrafts
    <2> QED
      BY <1>7, <2>1, <2>2, <2>3 DEF StopApp, ForgetDrafts
  <1> QED
    BY <1>1, <1>2, <1>3, <1>5, <1>6, <1>7

LEMMA EntryStepKeepsTypes ==
  ASSUME RecordTypes, EntryStep
  PROVE  RecordTypes'
  <1>1. UNCHANGED <<readings, locked, app, patch, told, toolVars>>
    BY EntryStepsLeaveReadings
  <1>2. /\ entries \in [Reading -> Entry \cup {NoEntry}] /\ written \in 0 .. MaxEntry
        /\ draft \in [Request -> Draft] /\ said \in [1 .. MaxEntry -> Saying]
        /\ \A q \in Request : draft[q].reading # 0 => draft[q].seen \in Entry
        /\ app.ring.active \in Key /\ MaxEntry \in Nat
    BY JournalConstants DEF RecordTypes, TypeOK, JournalTypeOK, ReadingsTypeOK, Ring
  <1>3. NoDraft \in Draft /\ NoSaying \in Saying /\ NoDraft.reading = 0
    BY DEF NoDraft, Draft, NoSaying, Saying
  <1>4. SUFFICES /\ entries' \in [Reading -> Entry \cup {NoEntry}] /\ written' \in 0 .. MaxEntry
                 /\ draft' \in [Request -> Draft] /\ said' \in [1 .. MaxEntry -> Saying]
                 /\ \A q \in Request : draft'[q].reading # 0 => draft'[q].seen \in Entry
    <2>1. ASSUME draft' \in [Request -> Draft], NEW q \in Request
          PROVE  draft'[q].reading \in Reading \cup {0}
      BY <2>1 DEF Draft
    <2> QED
      BY <1>1, <2>1 DEF RecordTypes, TypeOK, JournalTypeOK, ReadingsTypeOK, toolVars
  <1>5. CASE Begins
    <2>1. PICK q \in Request, r \in Reading, w \in Word : BeginEntry(q, r, w, w)
      BY <1>5 DEF Begins
    <2>2. written' \in 1 .. MaxEntry
      BY <1>2, <2>1 DEF BeginEntry
    <2>3. [id |-> written + 1, key |-> app.ring.active, text |-> w, tags |-> w] \in Entry
      BY <1>2, <2>1, <2>2 DEF Entry, BeginEntry
    <2>4. /\ draft' \in [Request -> Draft]
          /\ \A p \in Request : draft'[p].reading # 0 => draft'[p].seen \in Entry
      BY <1>2, <2>1, <2>3 DEF Draft, BeginEntry
    <2> QED
      BY <1>2, <2>1, <2>2, <2>4 DEF BeginEntry
  <1>6. CASE Revises
    <2>1. PICK q \in Request, r \in Reading, t \in Word \cup {"none"}, g \in Word \cup {"none"} :
            FindEntry(q, r, t, g)
      BY <1>6 DEF Revises
    <2>2. entries[r] \in Entry
      BY <1>2, <2>1 DEF FindEntry, HasEntry, NoEntry
    <2>3. /\ draft' \in [Request -> Draft]
          /\ \A p \in Request : draft'[p].reading # 0 => draft'[p].seen \in Entry
      BY <1>2, <2>1, <2>2 DEF Draft, FindEntry
    <2> QED
      BY <1>2, <2>1, <2>3 DEF FindEntry
  <1>7. CASE SavesEntry
    <2>1. PICK q \in Request : SaveEntry(q)
      BY <1>7 DEF SavesEntry
    <2> DEFINE d == draft[q]
               e == Revision(d)
    <2>2. d.reading \in Reading /\ d \in Draft /\ d.seen \in Entry
      BY <1>2, <2>1 DEF SaveEntry, Draft
    <2>3. e \in Entry /\ e.id \in 1 .. MaxEntry
      BY <1>2, <2>2 DEF Revision, Draft, Entry
    <2>4. /\ draft' \in [Request -> Draft]
          /\ \A p \in Request : draft'[p].reading # 0 => draft'[p].seen \in Entry
      <3>1. ASSUME NEW p \in Request
            PROVE  draft'[p] = NoDraft \/ draft'[p] = draft[p]
                     \/ draft'[p] = [draft[p] EXCEPT !.late = TRUE]
        BY <1>2, <2>1 DEF SaveEntry, Overtaken
      <3>2. ASSUME NEW p \in Request
            PROVE  draft'[p] \in Draft /\ (draft'[p].reading # 0 => draft'[p].seen \in Entry)
        <4>1. draft[p] \in Draft /\ (draft[p].reading # 0 => draft[p].seen \in Entry)
          BY <1>2
        <4>2. draft'[p] = [draft[p] EXCEPT !.late = TRUE] =>
                /\ draft'[p] \in Draft /\ draft'[p].reading = draft[p].reading
                /\ draft'[p].seen = draft[p].seen
          BY <4>1, LateDraft
        <4> HIDE DEF d, e
        <4> QED
          BY <1>3, <3>1, <4>1, <4>2
      <3>3. draft' = [p \in Request |-> draft'[p]]
        BY <1>2, <2>1 DEF SaveEntry, Overtaken
      <3> QED
        BY <3>2, <3>3
    <2>5. said' \in [1 .. MaxEntry -> Saying]
      <3> DEFINE old == said[e.id]
                 new == [text |-> IF d.text = "none" THEN old.text ELSE d.text,
                         tags |-> IF d.tags = "none" THEN old.tags ELSE d.tags]
      <3>1. new \in Saying
        BY <1>2, <2>2, <2>3 DEF Saying, Draft
      <3>2. said' = [said EXCEPT ![e.id] = new]
        BY <2>1 DEF SaveEntry
      <3> HIDE DEF new
      <3> QED
        BY <1>2, <3>1, <3>2
    <2> QED
      BY <1>2, <2>1, <2>2, <2>3, <2>4, <2>5 DEF SaveEntry
  <1>8. CASE Refuses
    BY <1>2, <1>3, <1>8 DEF Refuses, SaveRefused
  <1>9. CASE DeletesEntry
    <2>1. PICK r \in Reading : DeleteEntry(r)
      BY <1>9 DEF DeletesEntry
    <2>2. /\ draft' \in [Request -> Draft]
          /\ \A q \in Request : draft'[q].reading # 0 => draft'[q].seen \in Entry
      BY <1>2, <2>1, LateDraft DEF DeleteEntry
    <2> QED
      BY <1>2, <1>3, <2>1, <2>2 DEF DeleteEntry
  <1> QED
    BY <1>5, <1>6, <1>7, <1>8, <1>9 DEF EntryStep

LEMMA RunIsTyped ==
  ASSUME RecordTypes, script.mode # "none"
  PROVE  script \in ScriptRun /\ script # NoScript /\ script.cursor \in Nat
  BY DEF RecordTypes, NoScript, ScriptRun

LEMMA NoScriptRuns ==
  /\ NoScript.mode = "none" /\ NoScript.failed = {} /\ NoScript.expected = {}
  /\ NoScript.reencrypt = FALSE
  BY DEF NoScript

LEMMA ScriptStepKeepsTypes ==
  ASSUME RecordTypes, ScriptStep
  PROVE  RecordTypes'
  <1>1. UNCHANGED <<app, patch, told, crossed, journalVars, ring, restored, artifact>>
    BY ScriptStepsLeaveRequests
  <1>2. ASSUME /\ readings' \in Table /\ locked' \subseteq Reading
               /\ turned' \in {"no", "turned", "restarted", "reencrypted"}
               /\ outcome' \in [mode : Mode \cup {"none"}, expected : SUBSET Reading]
               /\ script' = NoScript \/ script' \in ScriptRun
               /\ script'.mode = "exact" => script'.snap \in Table
        PROVE  RecordTypes'
    <2>1. script'.mode \in Mode \cup {"none"} /\ script'.failed \subseteq Reading
      BY <1>2, NoScriptRuns DEF ScriptRun
    <2> QED
      BY <1>1, <1>2, <2>1
      DEF RecordTypes, TypeOK, ReadingsTypeOK, JournalTypeOK, journalVars, Table
  <1>3. /\ readings \in Table /\ locked \subseteq Reading
        /\ turned \in {"no", "turned", "restarted", "reencrypted"} /\ ring \in Ring
        /\ outcome \in [mode : Mode \cup {"none"}, expected : SUBSET Reading]
        /\ script = NoScript \/ script \in ScriptRun
        /\ script.mode = "exact" => script.snap \in Table
    BY DEF RecordTypes, TypeOK, ReadingsTypeOK, Table
  <1>4. NoOutcome \in [mode : Mode \cup {"none"}, expected : SUBSET Reading]
    BY DEF NoOutcome
  <1>5. CASE Runs
    <2>1. PICK mode \in Mode, reencrypt \in BOOLEAN, expected \in SUBSET Reading :
            StartRun(mode, reencrypt, expected)
      BY <1>5 DEF Runs
    <2>2. script' \in ScriptRun /\ (script'.mode = "exact" => script'.snap \in Table)
      BY <1>3, <2>1 DEF StartRun, ScriptRun
    <2> QED
      BY <1>2, <1>3, <1>4, <2>1, <2>2 DEF StartRun, readingVars
  <1>6. CASE RunFails
    BY <1>2, <1>3, <1>6, NoScriptRuns DEF RunFails
  <1>7. ASSUME script.mode \in Mode, Batch(readings) # {}, Preflight \/ WriteBatch
        PROVE  RecordTypes'
    <2>1. script \in ScriptRun /\ script.cursor \in Nat
      BY <1>7, RunIsTyped DEF Mode
    <2>2. LastOf(Batch(readings)) \in Nat
      BY <1>7, <2>1, FullBatch
    <2>3. Failures(readings, Batch(readings)) \subseteq Reading
      BY BatchIsOfTheRest DEF Failures
    <2>4. CASE Preflight
      <3>1. script' \in ScriptRun /\ script'.mode # "exact"
        BY <2>1, <2>2, <2>3, <2>4 DEF Preflight, ScriptRun
      <3> QED
        BY <1>2, <1>3, <2>4, <3>1 DEF Preflight, readingVars
    <2>5. CASE WriteBatch
      <3>1. script' \in ScriptRun /\ script'.mode # "exact"
        BY <2>1, <2>2, <2>5 DEF WriteBatch, ScriptRun
      <3>2. \A r \in Reading : Convert(readings[r]) \in Row \cup {NoRow}
        BY <1>3, <2>1, ConvertedRows DEF Table
      <3>3. readings' \in Table
        BY <1>3, <2>5, <3>2 DEF WriteBatch, Table
      <3> QED
        BY <1>2, <1>3, <2>5, <3>1, <3>3 DEF WriteBatch
    <2> QED
      BY <1>7, <2>4, <2>5
  <1>8. CASE PreflightEnds
    <2>1. script \in ScriptRun
      BY <1>8, RunIsTyped DEF PreflightEnds
    <2>2. script' \in ScriptRun /\ script'.mode # "exact"
      BY <1>8, <2>1 DEF PreflightEnds, ScriptRun
    <2> QED
      BY <1>2, <1>3, <1>8, <2>2 DEF PreflightEnds, readingVars
  <1>9. CASE LockBatch
    <2>1. script \in ScriptRun /\ script.cursor \in Nat
      BY <1>9, RunIsTyped DEF LockBatch
    <2>2. LastOf(Batch(script.snap)) \in Nat
      BY <1>9, <2>1, FullBatch DEF LockBatch
    <2>3. Failures(script.snap, Batch(script.snap)) \subseteq Reading
          /\ Batch(script.snap) \subseteq Reading
      BY BatchIsOfTheRest DEF Failures
    <2>4. script' \in ScriptRun /\ script'.snap = script.snap
      BY <1>9, <2>1, <2>2, <2>3 DEF LockBatch, ScriptRun
    <2> QED
      BY <1>2, <1>3, <1>9, <2>3, <2>4 DEF LockBatch
  <1>10. ASSUME NEW table \in Table, RunEnds(table), script.mode \in Mode
         PROVE  RecordTypes'
    <2>1. script \in ScriptRun
      BY <1>10, RunIsTyped DEF Mode
    <2>2. outcome' \in [mode : Mode \cup {"none"}, expected : SUBSET Reading]
      BY <1>10, <2>1 DEF RunEnds, ScriptRun
    <2> QED
      BY <1>2, <1>3, <1>10, <2>2, NoScriptRuns DEF RunEnds
  <1>11. CASE WriteEnds
    BY <1>3, <1>10, <1>11 DEF WriteEnds, Mode
  <1>12. CASE CommitExact
    <2>1. script \in ScriptRun /\ script.mode \in Mode
      BY <1>12, RunIsTyped DEF CommitExact, Mode
    <2>2. \A r \in Reading : Convert(readings[r]) \in Row \cup {NoRow}
      BY <1>3, <2>1, ConvertedRows DEF Table
    <2>3. [r \in Reading |-> IF r \in locked THEN Convert(readings[r]) ELSE readings[r]] \in Table
      BY <1>3, <2>2 DEF Table
    <2> QED
      BY <1>10, <1>12, <2>1, <2>3 DEF CommitExact
  <1> QED
    BY <1>5, <1>6, <1>7, <1>8, <1>9, <1>11, <1>12
    DEF ScriptStep, ScriptDies, GivesUp, Preflight, WriteBatch, Mode

LEMMA OperatorStepKeepsTypes ==
  ASSUME RecordTypes, OperatorStep
  PROVE  RecordTypes'
  <1>1. UNCHANGED <<readings, locked, patch, told, crossed, journalVars, script, outcome>>
    BY OperatorStepsLeaveReadings
  <1>2. ASSUME /\ app' \in [up : BOOLEAN, ring : Ring] /\ ring' \in Ring
               /\ turned' \in {"no", "turned", "restarted", "reencrypted"}
               /\ restored' \in Table /\ artifact' \in Table
        PROVE  RecordTypes'
    BY <1>1, <1>2
    DEF RecordTypes, TypeOK, ReadingsTypeOK, JournalTypeOK, journalVars, Table
  <1>3. /\ app \in [up : BOOLEAN, ring : Ring] /\ ring \in Ring
        /\ turned \in {"no", "turned", "restarted", "reencrypted"}
        /\ restored \in Table /\ artifact \in Table /\ readings \in Table
    BY DEF RecordTypes, TypeOK, ReadingsTypeOK, Table
  <1>4. CASE StartServer
    BY <1>2, <1>3, <1>4 DEF StartServer, StartApp
  <1>5. ASSUME NEW k \in Key, TurnKey(k)
        PROVE  RecordTypes'
    <2>1. ring' \in Ring
      BY <1>3, <1>5 DEF TurnKey, Ring
    <2> QED
      BY <1>2, <1>3, <1>5, <2>1 DEF TurnKey, readingVars
  <1>6. CASE RemoveOldKeys
    <2>1. ring' \in Ring
      BY <1>3, <1>6 DEF RemoveOldKeys, Ring
    <2> QED
      BY <1>2, <1>3, <1>6, <2>1 DEF RemoveOldKeys, readingVars
  <1>7. CASE RestoreCopy
    BY <1>2, <1>3, <1>7 DEF RestoreCopy, readingVars
  <1>8. ASSUME NEW mode, Recover(mode)
        PROVE  RecordTypes'
    <2>1. \A r \in Candidates : Resealed(restored[r]) \in Row
      <3> SUFFICES ASSUME NEW r \in Candidates PROVE Resealed(restored[r]) \in Row
        OBVIOUS
      <3>1. r \in Reading /\ restored[r].form = "legacy"
        BY DEF Candidates
      <3>2. restored[r] # NoRow /\ restored[r] \in Row \cup {NoRow}
        BY <1>3, <3>1 DEF Table, NoRow
      <3> QED
        BY <1>3, <3>1, <3>2, ResealedRows
    <2>2. artifact' \in Table
      BY <1>8, <2>1 DEF Recover, Table
    <2> QED
      BY <1>2, <1>3, <1>8, <2>2 DEF Recover, readingVars
  <1> QED
    BY <1>4, <1>5, <1>6, <1>7, <1>8 DEF OperatorStep

\* What the tables, the requests, the run of the script and the keyrings hold.
THEOREM RecordTypesHold == Spec => []RecordTypes
  <1>1. ReencryptionInit => RecordTypes
    <2> SUFFICES ASSUME ReencryptionInit PROVE RecordTypes
      OBVIOUS
    <2>1. PICK initial \in Histories[part] :
            ReadingsInit(initial, [keys |-> {FirstKey}, active |-> FirstKey]) /\ part \in Parts
      BY DEF ReencryptionInit
    <2>2. initial \in Table
      BY <2>1, ReencryptionConstants DEF Found, Table
    <2>3. [keys |-> {FirstKey}, active |-> FirstKey] \in Ring
      BY ReencryptionConstants DEF Ring
    <2>4. NoPatch \in PatchType /\ NoDraft \in Draft /\ NoSaying \in Saying /\ NoDraft.reading = 0
      BY DEF NoPatch, PatchType, NoDraft, Draft, NoSaying, Saying
    <2>5. \A r \in Reading : initial[r].has \in SUBSET Field
      BY <2>2 DEF Table, Row, NoRow
    <2>6. ReadingsTypeOK
      BY <2>1, <2>2, <2>3, <2>4, <2>5 DEF ReadingsInit, ReadingsTypeOK, Table
    <2>7. JournalTypeOK /\ draft \in [Request -> Draft] /\ said \in [1 .. MaxEntry -> Saying]
          /\ \A q \in Request : draft[q].reading = 0
      BY <2>4, JournalConstants DEF ReencryptionInit, JournalInit, JournalTypeOK
    <2>8. NoTable \in [Reading -> Row \cup {NoRow}]
      BY DEF NoTable
    <2> QED
      BY <2>3, <2>6, <2>7, <2>8, NoScriptRuns DEF ReencryptionInit, RecordTypes, TypeOK, NoOutcome
  <1>2. RecordTypes /\ [Next]_vars => RecordTypes'
    <2> SUFFICES ASSUME RecordTypes, [Next]_vars PROVE RecordTypes'
      OBVIOUS
    <2>1. CASE Next
      BY <2>1, RecordSteps, ReadingStepKeepsTypes, EntryStepKeepsTypes, ScriptStepKeepsTypes,
         OperatorStepKeepsTypes
    <2>2. CASE UNCHANGED vars
      BY <2>2 DEF vars, readingVars, journalVars, toolVars, RecordTypes, TypeOK, ReadingsTypeOK,
                  JournalTypeOK
    <2> QED
      BY <2>1, <2>2
  <1> QED
    BY <1>1, <1>2, PTL DEF Spec

-----------------------------------------------------------------------------
(* What readings hold.                                                     *)

\* A row that is not there is not a damaged one, and holds nothing.
LEMMA MissingRows ==
  ASSUME RecordTypes, NEW r \in Reading
  PROVE  /\ ~Exists(r) => readings[r] = NoRow /\ readings[r].has = {}
         /\ Damaged(r) => Exists(r)
         /\ readings[r].has \in SUBSET Field /\ told[r] \in SUBSET Field
  <1>1. readings[r] \in Row \cup {NoRow} /\ told[r] \in SUBSET Field
    BY DEF RecordTypes, TypeOK, ReadingsTypeOK
  <1> QED
    BY <1>1 DEF Row, NoRow, Exists, Damaged

LEMMA ReadingStepKeepsReadings ==
  ASSUME RecordTypes, ReadingsInv, ReadingStep
  PROVE  ReadingsInv' /\ DamagedStayAsTheyAre
  <1> USE DEF ReadingsInv, PatchesAreFresh, ContentIsKept
  <1>1. /\ readings \in [Reading -> Row \cup {NoRow}] /\ patch \in [Request -> PatchType]
        /\ told \in [Reading -> SUBSET Field]
    BY DEF RecordTypes, TypeOK, ReadingsTypeOK
  <1>2. CASE Creates
    <2>1. PICK r \in Reading, f \in Field : CreateReading(r, f)
      BY <1>2 DEF Creates
    <2>2. /\ \A s \in Reading \ {r} : readings'[s] = readings[s] /\ told'[s] = told[s]
          /\ readings'[r] = Sealed({f}) /\ told'[r] = {f} /\ ~Exists(r)
          /\ UNCHANGED <<app, patch, crossed>> /\ \A q \in Request : patch[q].reading # r
      BY <1>1, <2>1 DEF CreateReading
    <2>3. Sealed({f}).form = "v3" /\ Sealed({f}).has = {f} /\ ~Damaged(r)
      BY <2>2, SealedRows, MissingRows
    <2>4. PatchesAreFresh'
      BY <1>1, <2>2 DEF Damaged, Exists, PatchType
    <2>5. ContentIsKept'
      <3> SUFFICES ASSUME NEW s \in Reading, <<"reading", s>> \notin crossed'
                   PROVE  /\ ~Exists(s)' => told'[s] = {}
                          /\ Exists(s)' => told'[s] = readings'[s].has
        OBVIOUS
      <3>1. CASE s = r
        <4>1. readings'[s].form = "v3" /\ readings'[s].has = {f} /\ told'[s] = {f}
          BY <2>2, <2>3, <3>1
        <4> QED
          BY <4>1 DEF Exists
      <3>2. CASE s # r
        <4>1. /\ readings'[s] = readings[s] /\ told'[s] = told[s]
              /\ <<"reading", s>> \notin crossed
          BY <2>2, <3>2
        <4> QED
          BY <4>1 DEF Exists
      <3> QED
        BY <3>1, <3>2
    <2>6. DamagedStayAsTheyAre
      BY <2>2, <2>3 DEF DamagedStayAsTheyAre
    <2> QED
      BY <2>4, <2>5, <2>6
  <1>3. CASE Finds
    <2>1. PICK q \in Request, r \in Reading, f \in Field : FindReading(q, r, f)
      BY <1>3 DEF Finds
    <2>2. ~Damaged(r)
      BY <2>1 DEF FindReading, Decrypts, Damaged
    <2>3. PatchesAreFresh'
      BY <1>1, <2>1, <2>2 DEF FindReading, Exists, Damaged
    <2> QED
      BY <2>1, <2>3 DEF FindReading, DamagedStayAsTheyAre, Exists
  <1>4. CASE Saves
    <2>1. PICK q \in Request : SaveReading(q)
      BY <1>4 DEF Saves
    <2> DEFINE r == patch[q].reading
               after == Overtake(r, q)
    <2>2. r \in Reading /\ patch[q] \in PatchType
      BY <1>1, <2>1 DEF SaveReading, PatchType
    <2>3. Merged(q) = patch[q].seen.has \cup patch[q].add /\ Merged(q) \in SUBSET Field
      BY <2>2 DEF Merged, MergedPatch, PatchType, Row, NoRow
    <2>4. /\ \A s \in Reading \ {r} : readings'[s] = readings[s] /\ told'[s] = told[s]
          /\ readings'[r] = Sealed(Merged(q)) /\ told'[r] = told[r] \cup patch[q].add
          /\ UNCHANGED app
      BY <1>1, <2>1, <2>2 DEF SaveReading
    <2>5. Sealed(Merged(q)).form = "v3" /\ Sealed(Merged(q)).has = Merged(q) /\ ~Damaged(r)
      BY <2>1, <2>2, <2>3, SealedRows DEF SaveReading
    <2>6. ASSUME NEW p \in Request, patch'[p].reading # 0
          PROVE  /\ p # q /\ patch'[p].reading = patch[p].reading
                 /\ patch'[p].seen = patch[p].seen
                 /\ patch[p].reading = r => patch'[p].late
                 /\ patch[p].reading # r => patch'[p] = patch[p]
      <3>1. p # q /\ patch'[p] = after[p]
        BY <1>1, <2>1, <2>6 DEF SaveReading, NoPatch, Overtake
      <3>2. patch[p] \in PatchType
        BY <1>1
      <3> QED
        BY <3>1, <3>2, LatePatch DEF Overtake
    <2>7. PatchesAreFresh'
      <3> SUFFICES ASSUME NEW p \in Request, (patch[p].reading # 0)'
                   PROVE  /\ app'.up /\ ~Damaged(patch[p].reading)'
                          /\ ~patch'[p].late =>
                               /\ Exists(patch[p].reading)'
                               /\ patch'[p].seen.has = (readings[patch[p].reading].has)'
        OBVIOUS
      <3>1. patch[p].reading \in Reading /\ app.up /\ ~Damaged(patch[p].reading)
        BY <1>1, <2>6 DEF PatchType
      <3>2. CASE patch[p].reading = r
        BY <2>4, <2>5, <2>6, <3>1, <3>2 DEF Damaged
      <3>3. CASE patch[p].reading # r
        BY <2>4, <2>6, <3>1, <3>3 DEF Damaged, Exists
      <3> QED
        BY <3>2, <3>3
    <2>8. ContentIsKept'
      <3> SUFFICES ASSUME NEW s \in Reading, <<"reading", s>> \notin crossed'
                   PROVE  /\ ~Exists(s)' => told'[s] = {}
                          /\ Exists(s)' => told'[s] = readings'[s].has
        OBVIOUS
      <3>1. <<"reading", s>> \notin crossed /\ (s = r => ~patch[q].late)
        BY <2>1 DEF SaveReading
      <3>2. CASE s # r
        BY <2>4, <3>1, <3>2 DEF Exists
      <3>3. CASE s = r
        <4>1. told[r] = readings[r].has /\ patch[q].seen.has = readings[r].has
          BY <2>1, <2>2, <3>1, <3>3 DEF SaveReading
        <4>2. told'[r] = readings[r].has \cup patch[q].add
          BY <2>4, <4>1
        <4>3. readings'[r].has = readings[r].has \cup patch[q].add /\ readings'[r].form = "v3"
          BY <2>3, <2>4, <2>5, <4>1
        <4> QED
          BY <3>3, <4>2, <4>3 DEF Exists
      <3> QED
        BY <3>2, <3>3
    <2>9. DamagedStayAsTheyAre
      BY <2>4, <2>5 DEF DamagedStayAsTheyAre
    <2> QED
      BY <2>7, <2>8, <2>9
  <1>5. ASSUME NEW gone \in SUBSET Reading, Delete(gone)
        PROVE  ReadingsInv' /\ DamagedStayAsTheyAre
    <2>1. ASSUME NEW p \in Request, patch'[p].reading # 0
          PROVE  /\ patch'[p].reading = patch[p].reading /\ patch'[p].seen = patch[p].seen
                 /\ patch[p].reading \in gone => patch'[p].late
                 /\ patch[p].reading \notin gone => patch'[p] = patch[p]
      <3>1. patch[p] \in PatchType
        BY <1>1
      <3> QED
        BY <1>5, <3>1, LatePatch DEF Delete
    <2>2. \A s \in Reading : /\ s \in gone => readings'[s] = NoRow /\ told'[s] = {}
                             /\ s \notin gone => readings'[s] = readings[s] /\ told'[s] = told[s]
      BY <1>5 DEF Delete
    <2>3. NoRow.form = "none" /\ UNCHANGED <<app, crossed>>
      BY <1>5 DEF NoRow, Delete
    <2>4. PatchesAreFresh'
      <3> SUFFICES ASSUME NEW p \in Request, (patch[p].reading # 0)'
                   PROVE  /\ app'.up /\ ~Damaged(patch[p].reading)'
                          /\ ~patch'[p].late =>
                               /\ Exists(patch[p].reading)'
                               /\ patch'[p].seen.has = (readings[patch[p].reading].has)'
        OBVIOUS
      <3>1. patch[p].reading \in Reading /\ app.up /\ ~Damaged(patch[p].reading)
        BY <1>1, <2>1 DEF PatchType
      <3>2. CASE patch[p].reading \in gone
        BY <2>1, <2>2, <2>3, <3>1, <3>2 DEF Damaged
      <3>3. CASE patch[p].reading \notin gone
        BY <2>1, <2>2, <2>3, <3>1, <3>3 DEF Damaged, Exists
      <3> QED
        BY <3>2, <3>3
    <2>5. ContentIsKept'
      BY <2>2, <2>3 DEF Exists
    <2>6. DamagedStayAsTheyAre
      BY <2>2 DEF DamagedStayAsTheyAre
    <2> QED
      BY <2>4, <2>5, <2>6
  <1>6. CASE Deletes
    <2>1. PICK r \in Reading : Delete({r})
      BY <1>6 DEF Deletes, DeleteReading
    <2>2. {r} \in SUBSET Reading
      OBVIOUS
    <2> QED
      BY <1>5, <2>1, <2>2
  <1>7. CASE DeleteAllReadings
    <2>1. {r \in Reading : Exists(r)} \in SUBSET Reading
      OBVIOUS
    <2> QED
      BY <1>5, <1>7, <2>1 DEF DeleteAllReadings
  <1>8. CASE StopApp
    <2>1. NoPatch.reading = 0
      BY DEF NoPatch
    <2> QED
      BY <1>8, <2>1 DEF StopApp, DamagedStayAsTheyAre, Exists
  <1> QED
    BY <1>2, <1>3, <1>4, <1>6, <1>7, <1>8 DEF ReadingStep

\* What a step of the script makes of each row.
LEMMA ScriptStepsConvert ==
  ASSUME RecordTypes, ScriptStep, NEW r \in Reading
  PROVE  \/ readings'[r] = readings[r]
         \/ readings'[r] = Convert(readings[r]) /\ script \in ScriptRun
  <1>1. CASE WriteBatch
    BY <1>1, RunIsTyped DEF WriteBatch
  <1>2. CASE CommitExact
    BY <1>2, RunIsTyped DEF CommitExact, RunEnds
  <1>3. CASE ~WriteBatch /\ ~CommitExact
    BY <1>3 DEF ScriptStep, Runs, StartRun, ScriptDies, RunFails, Preflight, PreflightEnds,
                GivesUp, WriteEnds, RunEnds, LockBatch, readingVars
  <1> QED
    BY <1>1, <1>2, <1>3

LEMMA ScriptStepKeepsReadings ==
  ASSUME RecordTypes, ReadingsInv, ScriptStep
  PROVE  ReadingsInv' /\ DamagedStayAsTheyAre
  <1>1. UNCHANGED <<app, patch, told, crossed>>
    BY ScriptStepsLeaveRequests
  <1>2. readings \in [Reading -> Row \cup {NoRow}] /\ patch \in [Request -> PatchType]
    BY DEF RecordTypes, TypeOK, ReadingsTypeOK
  <1>3. ASSUME NEW r \in Reading
        PROVE  /\ readings'[r].has = readings[r].has
               /\ readings'[r].form = "none" <=> readings[r].form = "none"
               /\ Damaged(r) => readings'[r] = readings[r]
               /\ Damaged(r)' => Damaged(r)
    BY <1>2, ScriptStepsConvert, ConvertedRows DEF Damaged
  <1>4. PatchesAreFresh'
    BY <1>1, <1>2, <1>3 DEF ReadingsInv, PatchesAreFresh, PatchType, Exists
  <1>5. ContentIsKept'
    BY <1>1, <1>3 DEF ReadingsInv, ContentIsKept, Exists
  <1>6. DamagedStayAsTheyAre
    BY <1>3 DEF DamagedStayAsTheyAre
  <1> QED
    BY <1>4, <1>5, <1>6 DEF ReadingsInv

-----------------------------------------------------------------------------
(* What entries say.                                                       *)

LEMMA EntryTypes ==
  ASSUME RecordTypes
  PROVE  /\ draft \in [Request -> Draft] /\ entries \in [Reading -> Entry \cup {NoEntry}]
         /\ said \in [1 .. MaxEntry -> Saying]
         /\ written \in Nat /\ MaxEntry \in Nat /\ written \in 0 .. MaxEntry
         /\ \A q \in Request : draft[q].reading \in Reading \cup {0}
         /\ \A q \in Request : draft[q].reading # 0 =>
              draft[q].reading \in Reading /\ draft[q].seen \in Entry
         /\ NoEntry.id = 0 /\ NoDraft.reading = 0 /\ NoDraft.seen.id = 0 /\ 0 \notin Reading
         /\ \A r \in Reading : HasEntry(r) => entries[r] \in Entry
  BY JournalConstants, ReadingsConstants
  DEF RecordTypes, TypeOK, JournalTypeOK, NoEntry, NoDraft, HasEntry

LEMMA EntriesLeftAlone ==
  ASSUME EntriesInv, UNCHANGED journalVars, crossed \subseteq crossed',
         \A r \in Reading : Exists(r) => Exists(r)'
  PROVE  EntriesInv'
  <1>1. \A r \in Reading : HasEntry(r)' <=> HasEntry(r)
    BY DEF HasEntry, journalVars
  <1>2. DraftsAreFresh'
    BY <1>1 DEF EntriesInv, DraftsAreFresh, FreshDraft, OwnId, journalVars, HasEntry
  <1>3. EntriesSayWhatWasWritten'
    BY <1>1 DEF EntriesInv, EntriesStayTrue, EntriesSayWhatWasWritten, journalVars
  <1>4. EntriesHaveTheirReading'
    BY <1>1 DEF EntriesInv, EntriesStayTrue, EntriesHaveTheirReading, journalVars
  <1> QED
    BY <1>2, <1>3, <1>4 DEF EntriesInv, EntriesStayTrue, journalVars

LEMMA BeginKeepsEntries ==
  ASSUME RecordTypes, EntriesInv, Begins
  PROVE  EntriesInv'
  <1>1. PICK q \in Request, r \in Reading, w \in Word : BeginEntry(q, r, w, w)
    BY DEF Begins
  <1>2. /\ UNCHANGED <<entries, said, crossed, readings>> /\ written' = written + 1
        /\ ~HasEntry(r) /\ \A p \in Request \ {q} : draft'[p] = draft[p]
        /\ draft'[q].reading = r /\ draft'[q].seen.id = written + 1
        /\ draft'[q].text = w /\ draft'[q].tags = w
    BY <1>1, EntryTypes DEF BeginEntry, readingVars
  <1>3. \A s \in Reading : entries[s].id \in 0 .. written
    BY DEF EntriesInv
  <1>4. \A p \in Request : draft[p].reading # 0 => draft[p].seen.id \in 1 .. written
    BY DEF EntriesInv, DraftsAreFresh, OwnId
  <1>5. ASSUME NEW p \in Request, (draft[p].reading # 0)'
        PROVE  FreshDraft(draft[p])' /\ OwnId(draft[p])'
    <2>1. CASE p = q
      <3>1. FreshDraft(draft[p])'
        BY <1>2, <2>1 DEF FreshDraft, HasEntry
      <3>2. \A s \in Reading : entries[s].id # written + 1
        BY <1>3, EntryTypes
      <3>3. \A o \in Request \ {q} : draft'[o].reading # 0 => draft'[o].seen.id # written + 1
        BY <1>2, <1>4, EntryTypes
      <3>4. written + 1 \in 1 .. (written + 1)
        BY EntryTypes
      <3>5. OwnId(draft[p])'
        BY <1>2, <2>1, <3>2, <3>3, <3>4 DEF OwnId
      <3> QED
        BY <3>1, <3>5
    <2>2. CASE p # q
      <3>1. draft'[p] = draft[p] /\ FreshDraft(draft[p]) /\ OwnId(draft[p])
        BY <1>2, <1>5, <2>2 DEF EntriesInv, DraftsAreFresh
      <3>2. FreshDraft(draft[p])'
        BY <1>2, <3>1 DEF FreshDraft, HasEntry
      <3>3. draft[p].seen.id # written + 1 /\ draft[p].seen.id \in 1 .. (written + 1)
        BY <3>1, EntryTypes DEF OwnId
      <3>4. OwnId(draft[p])'
        BY <1>2, <3>1, <3>3 DEF OwnId
      <3> QED
        BY <3>2, <3>4
    <2> QED
      BY <2>1, <2>2
  <1>6. DraftsAreFresh'
    BY <1>5 DEF DraftsAreFresh
  <1>7. \A s \in Reading : entries'[s].id \in 0 .. written'
    BY <1>2, <1>3, EntryTypes
  <1>8. EntriesStayTrue'
    BY <1>2 DEF EntriesInv, EntriesStayTrue, EntriesSayWhatWasWritten, EntriesHaveTheirReading,
                HasEntry, Exists
  <1> QED
    BY <1>6, <1>7, <1>8 DEF EntriesInv

LEMMA ReviseKeepsEntries ==
  ASSUME RecordTypes, EntriesInv, Revises
  PROVE  EntriesInv'
  <1>1. PICK q \in Request, r \in Reading, t \in Word \cup {"none"}, g \in Word \cup {"none"} :
          FindEntry(q, r, t, g)
    BY DEF Revises
  <1>2. /\ UNCHANGED <<entries, said, crossed, readings, written>>
        /\ HasEntry(r) /\ \A p \in Request \ {q} : draft'[p] = draft[p]
        /\ draft'[q].reading = r /\ draft'[q].seen = entries[r]
    BY <1>1, EntryTypes DEF FindEntry, readingVars
  <1>3. /\ entries[r].id \in 1 .. written
        /\ \A s \in Reading : entries[s].id = entries[r].id => s = r
    BY <1>2, EntryTypes DEF EntriesInv, EntriesStayTrue, EntriesHaveTheirReading, HasEntry
  <1>4. \A p \in Request : draft[p].reading # 0 /\ draft[p].seen.id = entries[r].id
                             => draft[p].reading = r
    BY DEF EntriesInv, DraftsAreFresh, OwnId
  <1>5. ASSUME NEW p \in Request, (draft[p].reading # 0)'
        PROVE  FreshDraft(draft[p])' /\ OwnId(draft[p])'
    <2>1. CASE p = q
      <3>1. FreshDraft(draft[p])'
        BY <1>2, <2>1 DEF FreshDraft, HasEntry
      <3>2. OwnId(draft[p])'
        BY <1>2, <1>3, <1>4, <2>1 DEF OwnId
      <3> QED
        BY <3>1, <3>2
    <2>2. CASE p # q
      <3>1. draft'[p] = draft[p] /\ FreshDraft(draft[p]) /\ OwnId(draft[p]) /\ draft[p].reading # 0
        BY <1>2, <1>5, <2>2 DEF EntriesInv, DraftsAreFresh
      <3>2. FreshDraft(draft[p])'
        BY <1>2, <3>1 DEF FreshDraft, HasEntry
      <3>3. entries[r].id = draft[p].seen.id => draft[p].reading = r
        BY <1>4, <3>1
      <3>4. OwnId(draft[p])'
        BY <1>2, <3>1, <3>3 DEF OwnId
      <3> QED
        BY <3>2, <3>4
    <2> QED
      BY <2>1, <2>2
  <1>6. DraftsAreFresh'
    BY <1>5 DEF DraftsAreFresh
  <1>7. EntriesStayTrue'
    BY <1>2 DEF EntriesInv, EntriesStayTrue, EntriesSayWhatWasWritten, EntriesHaveTheirReading,
                HasEntry, Exists
  <1> QED
    BY <1>2, <1>6, <1>7 DEF EntriesInv

\* The save of a request: what was sent over what was read.
LEMMA SaveKeepsEntries ==
  ASSUME RecordTypes, EntriesInv, SavesEntry
  PROVE  EntriesInv'
  <1>1. PICK q \in Request : SaveEntry(q)
    BY DEF SavesEntry
  <1> DEFINE d == draft[q]
             r == d.reading
             e == Revision(d)
  <1>2. /\ d.reading # 0 /\ FreshDraft(d) /\ OwnId(d) /\ r \in Reading /\ d.seen \in Entry
        /\ FitsIndex(d)
    BY <1>1, EntryTypes DEF SaveEntry, EntriesInv, DraftsAreFresh
  <1>3. /\ e.id = d.seen.id /\ e.id \in 1 .. written /\ e.id # 0 /\ e.id \in 1 .. MaxEntry
        /\ e.text = IF d.text = "none" THEN d.seen.text ELSE d.text
        /\ e.tags = IF d.tags = "none" THEN d.seen.tags ELSE d.tags
    BY <1>2, EntryTypes DEF Revision, OwnId
  <1>4. /\ UNCHANGED <<written, readings>> /\ crossed \subseteq crossed'
        /\ entries' = [entries EXCEPT ![r] = e]
        /\ d.late => <<"entry", e.id>> \in crossed'
        /\ draft' = [Overtaken(r, q) EXCEPT ![q] = NoDraft]
    BY <1>1 DEF SaveEntry
  <1>5. /\ \A i \in 1 .. MaxEntry : i # e.id => said'[i] = said[i]
        /\ said'[e.id].text = IF d.text = "none" THEN said[e.id].text ELSE d.text
        /\ said'[e.id].tags = IF d.tags = "none" THEN said[e.id].tags ELSE d.tags
    BY <1>1, <1>3, EntryTypes DEF SaveEntry
  <1>6. /\ entries'[r] = e /\ \A s \in Reading \ {r} : entries'[s] = entries[s]
        /\ \A s \in Reading \ {r} : entries[s].id # e.id
    BY <1>2, <1>3, <1>4, EntryTypes DEF OwnId
  <1>7. ASSUME NEW p \in Request, draft'[p].reading # 0
        PROVE  /\ p # q /\ draft[p].reading # 0 /\ draft'[p].reading = draft[p].reading
               /\ draft'[p].seen = draft[p].seen
               /\ draft[p].reading = r => draft'[p].late
               /\ draft[p].reading # r => draft'[p] = draft[p]
    <2>1. p # q /\ draft'[p] = Overtaken(r, q)[p]
      BY <1>4, <1>7, EntryTypes DEF Overtaken
    <2>2. draft[p] \in Draft
      BY EntryTypes
    <2> HIDE DEF d, r, e
    <2> QED
      BY <1>7, <2>1, <2>2, LateDraft DEF Overtaken
  <1>8. DraftsAreFresh'
    <2> SUFFICES ASSUME NEW p \in Request, (draft[p].reading # 0)'
                 PROVE  FreshDraft(draft[p])' /\ OwnId(draft[p])'
      BY DEF DraftsAreFresh
    <2>1. /\ p # q /\ draft[p].reading # 0 /\ draft'[p].reading = draft[p].reading
          /\ draft'[p].seen = draft[p].seen
          /\ draft[p].reading = r => draft'[p].late
          /\ draft[p].reading # r => draft'[p] = draft[p]
      BY <1>7
    <2>2. FreshDraft(draft[p]) /\ OwnId(draft[p]) /\ draft[p].reading \in Reading
      BY <2>1, EntryTypes DEF EntriesInv, DraftsAreFresh
    <2>3. FreshDraft(draft[p])'
      <3>1. CASE draft[p].reading = r
        BY <2>1, <3>1 DEF FreshDraft
      <3>2. CASE draft[p].reading # r
        BY <1>6, <2>1, <2>2, <3>2 DEF FreshDraft, HasEntry
      <3> QED
        BY <3>1, <3>2
    <2>4. draft[p].seen.id = e.id => draft[p].reading = r
      BY <1>2, <1>3, <2>1 DEF OwnId
    <2>5. \A s \in Reading : entries'[s].id = draft[p].seen.id => s = draft[p].reading
      BY <1>6, <2>2, <2>4 DEF OwnId
    <2>6. \A o \in Request : draft'[o].reading # 0 /\ draft'[o].seen.id = draft[p].seen.id
                               => draft'[o].reading = draft[p].reading
      BY <1>7, <2>2 DEF OwnId
    <2>7. OwnId(draft[p])'
      BY <1>4, <2>1, <2>2, <2>5, <2>6 DEF OwnId
    <2> QED
      BY <2>3, <2>7
  <1>9. \A s \in Reading : entries'[s].id \in 0 .. written'
    <2>1. \A s \in Reading : entries[s].id \in 0 .. written
      BY DEF EntriesInv
    <2>2. e.id \in 0 .. written
      BY <1>3, EntryTypes
    <2> HIDE DEF r, e
    <2> QED
      BY <1>4, <1>6, <2>1, <2>2
  <1>10. EntriesSayWhatWasWritten'
    <2> SUFFICES ASSUME NEW s \in Reading, HasEntry(s)', <<"entry", entries'[s].id>> \notin crossed'
                 PROVE  /\ entries'[s].text = said'[entries'[s].id].text
                        /\ entries'[s].tags = said'[entries'[s].id].tags
      BY DEF EntriesSayWhatWasWritten
    <2>1. CASE s # r
      <3>1. entries'[s] = entries[s] /\ entries[s].id # e.id /\ entries[s] \in Entry
        BY <1>6, <2>1, EntryTypes DEF HasEntry
      <3>2. said'[entries[s].id] = said[entries[s].id]
        BY <1>5, <3>1 DEF Entry
      <3> QED
        BY <1>4, <3>1, <3>2
        DEF EntriesInv, EntriesStayTrue, EntriesSayWhatWasWritten, HasEntry
    <2>2. CASE s = r
      <3>1. ~d.late /\ <<"entry", e.id>> \notin crossed /\ entries'[s] = e
        BY <1>4, <1>6, <2>2
      <3>2. CASE HasEntry(r)
        <4>1. entries[r] = d.seen
          BY <1>2, <3>1, <3>2 DEF FreshDraft
        <4>2. d.seen.text = said[e.id].text /\ d.seen.tags = said[e.id].tags
          BY <1>2, <1>3, <3>1, <3>2, <4>1
          DEF EntriesInv, EntriesStayTrue, EntriesSayWhatWasWritten
        <4> HIDE DEF d, e, r
        <4> QED
          BY <1>3, <1>5, <3>1, <4>2
      <3>3. CASE ~HasEntry(r)
        <4>1. d.text # "none" /\ d.tags # "none"
          BY <1>2, <3>1, <3>3, JournalConstants DEF FreshDraft
        <4> HIDE DEF d, e, r
        <4> QED
          BY <1>3, <1>5, <3>1, <4>1
      <3> QED
        BY <3>2, <3>3
    <2> QED
      BY <2>1, <2>2
  <1>11. EntriesHaveTheirReading'
    <2>1. Exists(r)
      BY <1>2 DEF FitsIndex
    <2>2. \A s \in Reading : HasEntry(s) =>
            Exists(s) /\ \A o \in Reading \ {s} : entries[o].id # entries[s].id
      BY DEF EntriesInv, EntriesStayTrue, EntriesHaveTheirReading
    <2> SUFFICES ASSUME NEW s \in Reading, HasEntry(s)'
                 PROVE  Exists(s)' /\ \A o \in Reading \ {s} : entries'[o].id # entries'[s].id
      BY DEF EntriesHaveTheirReading
    <2> HIDE DEF d, e, r
    <2>3. Exists(s)'
      BY <1>4, <1>6, <2>1, <2>2 DEF Exists, HasEntry
    <2>4. ASSUME NEW o \in Reading \ {s}
          PROVE  entries'[o].id # entries'[s].id
      BY <1>6, <2>2 DEF HasEntry
    <2> QED
      BY <2>3, <2>4
  <1> QED
    BY <1>8, <1>9, <1>10, <1>11 DEF EntriesInv, EntriesStayTrue

\* Entries that go take what was said with them, and make their requests late.
LEMMA GoneEntries ==
  ASSUME RecordTypes, EntriesInv, NEW gone \in SUBSET Reading,
         crossed' = crossed, written' = written,
         entries' = [r \in Reading |-> IF r \in gone THEN NoEntry ELSE entries[r]],
         \A r \in Reading \ gone : HasEntry(r) =>
             said'[entries[r].id] = said[entries[r].id] /\ Exists(r)',
         \A q \in Request : /\ draft'[q] \in {draft[q], [draft[q] EXCEPT !.late = TRUE]}
                            /\ draft[q].reading \in gone /\ HasEntry(draft[q].reading)
                               /\ draft[q].seen.id = entries[draft[q].reading].id
                                 => draft'[q].late
  PROVE  EntriesInv'
  <1>1. ASSUME NEW q \in Request
        PROVE  /\ draft'[q].reading = draft[q].reading /\ draft'[q].seen = draft[q].seen
               /\ draft'[q].late \/ draft'[q] = draft[q]
    <2>1. draft[q] \in Draft
      BY EntryTypes
    <2> QED
      BY <2>1, LateDraft
  <1>2. \A r \in Reading : IF r \in gone THEN entries'[r] = NoEntry ELSE entries'[r] = entries[r]
    OBVIOUS
  <1>3. ASSUME NEW q \in Request, (draft[q].reading # 0)'
        PROVE  FreshDraft(draft[q])' /\ OwnId(draft[q])'
    <2>1. draft[q].reading # 0 /\ FreshDraft(draft[q]) /\ OwnId(draft[q]) /\ draft[q].reading \in Reading
      BY <1>1, <1>3, EntryTypes DEF EntriesInv, DraftsAreFresh
    <2>2. OwnId(draft[q])'
      <3>1. \A s \in Reading : entries'[s].id = draft[q].seen.id => s = draft[q].reading
        BY <1>2, <2>1, EntryTypes DEF OwnId
      <3> QED
        BY <1>1, <2>1, <3>1 DEF OwnId
    <2>3. CASE ~draft'[q].late
      <3>1. draft'[q] = draft[q] /\ ~draft[q].late
        BY <1>1, <2>3
      <3>2. CASE draft[q].reading \in gone
        <4>1. ~HasEntry(draft[q].reading)
          BY <2>1, <2>3, <3>1, <3>2 DEF FreshDraft
        <4>2. ~HasEntry(draft[q].reading)'
          BY <1>2, <3>1, <3>2, <2>1, EntryTypes DEF HasEntry
        <4> QED
          BY <2>1, <2>2, <3>1, <4>1, <4>2 DEF FreshDraft
      <3>3. CASE draft[q].reading \notin gone
        BY <1>2, <2>1, <2>2, <3>1, <3>3 DEF FreshDraft, HasEntry
      <3> QED
        BY <3>2, <3>3
    <2>4. CASE draft'[q].late
      BY <2>2, <2>4 DEF FreshDraft
    <2> QED
      BY <2>3, <2>4
  <1>4. DraftsAreFresh'
    BY <1>3 DEF DraftsAreFresh
  <1>5. \A r \in Reading : entries'[r].id \in 0 .. written'
    BY <1>2, EntryTypes DEF EntriesInv
  <1>6. \A r \in Reading : HasEntry(r)' => HasEntry(r) /\ r \notin gone /\ entries'[r] = entries[r]
    BY <1>2, EntryTypes DEF HasEntry
  <1>7. EntriesSayWhatWasWritten'
    BY <1>6 DEF EntriesInv, EntriesStayTrue, EntriesSayWhatWasWritten
  <1>8. EntriesHaveTheirReading'
    <2> SUFFICES ASSUME NEW s \in Reading, HasEntry(s)'
                 PROVE  Exists(s)' /\ \A o \in Reading \ {s} : entries'[o].id # entries'[s].id
      BY DEF EntriesHaveTheirReading
    <2>1. Exists(s)'
      BY <1>6
    <2>2. ASSUME NEW o \in Reading \ {s}
          PROVE  entries'[o].id # entries'[s].id
      <3>1. entries[o].id # entries[s].id /\ entries[s].id # 0
        BY <1>6 DEF EntriesInv, EntriesStayTrue, EntriesHaveTheirReading, HasEntry
      <3> QED
        BY <1>2, <1>6, <3>1, EntryTypes
    <2> QED
      BY <2>1, <2>2
  <1> QED
    BY <1>4, <1>5, <1>7, <1>8 DEF EntriesInv, EntriesStayTrue

LEMMA DeletionKeepsEntries ==
  ASSUME RecordTypes, EntriesInv, DeletesEntry
  PROVE  EntriesInv'
  <1>1. PICK r \in Reading : DeleteEntry(r)
    BY DEF DeletesEntry
  <1>2. UNCHANGED <<crossed, written, readings>> /\ {r} \in SUBSET Reading
    BY <1>1 DEF DeleteEntry, readingVars
  <1>3. entries' = [s \in Reading |-> IF s \in {r} THEN NoEntry ELSE entries[s]]
    BY <1>1, EntryTypes DEF DeleteEntry
  <1>4. ASSUME NEW s \in Reading \ {r}, HasEntry(s)
        PROVE  said'[entries[s].id] = said[entries[s].id] /\ Exists(s)'
    <2>1. entries[r].id # entries[s].id /\ Exists(s)
      BY <1>4 DEF EntriesInv, EntriesStayTrue, EntriesHaveTheirReading
    <2>2. entries[s].id \in 1 .. MaxEntry
      BY <1>4, EntryTypes DEF Entry
    <2> QED
      BY <1>1, <1>2, <2>1, <2>2, EntryTypes DEF DeleteEntry, Exists
  <1>5. ASSUME NEW q \in Request
        PROVE  /\ draft'[q] \in {draft[q], [draft[q] EXCEPT !.late = TRUE]}
               /\ draft[q].reading \in {r} /\ HasEntry(draft[q].reading)
                  /\ draft[q].seen.id = entries[draft[q].reading].id => draft'[q].late
    <2>1. draft[q] \in Draft
      BY EntryTypes
    <2> QED
      BY <1>1, <2>1, LateDraft DEF DeleteEntry
  <1> QED
    BY <1>2, <1>3, <1>4, <1>5, GoneEntries

\* Deleting readings deletes their entries.
LEMMA CascadeKeepsEntries ==
  ASSUME RecordTypes, EntriesInv, CascadeEntries, crossed' = crossed
  PROVE  EntriesInv'
  <1> DEFINE gone == {r \in Reading : readings'[r].form = "none"}
  <1>1. gone \in SUBSET Reading /\ written' = written
    BY DEF CascadeEntries
  <1>2. entries' = [r \in Reading |-> IF r \in gone THEN NoEntry ELSE entries[r]]
    BY DEF CascadeEntries
  <1>3. ASSUME NEW r \in Reading \ gone, HasEntry(r)
        PROVE  said'[entries[r].id] = said[entries[r].id] /\ Exists(r)'
    <2>1. \A s \in Reading : entries[s].id = entries[r].id => s = r
      BY <1>3 DEF EntriesInv, EntriesStayTrue, EntriesHaveTheirReading
    <2>2. entries[r].id \in 1 .. MaxEntry
      BY <1>3, EntryTypes DEF Entry
    <2>3. ~\E s \in Reading : entries[s].id = entries[r].id /\ readings'[s].form = "none"
      BY <1>3, <2>1
    <2> QED
      BY <1>3, <2>2, <2>3 DEF CascadeEntries, Exists
  <1>4. ASSUME NEW q \in Request
        PROVE  /\ draft'[q] \in {draft[q], [draft[q] EXCEPT !.late = TRUE]}
               /\ draft[q].reading \in gone /\ HasEntry(draft[q].reading)
                  /\ draft[q].seen.id = entries[draft[q].reading].id => draft'[q].late
    <2>1. draft[q] \in Draft /\ 0 \notin Reading
      BY EntryTypes
    <2> QED
      BY <2>1, LateDraft DEF CascadeEntries
  <1> HIDE DEF gone
  <1> QED
    BY <1>1, <1>2, <1>3, <1>4, GoneEntries

LEMMA ReadingStepKeepsEntries ==
  ASSUME RecordTypes, EntriesInv, ReadingStep
  PROVE  EntriesInv'
  <1>1. CASE (Creates \/ Finds \/ Saves) /\ UNCHANGED journalVars
    <2>1. readings \in [Reading -> Row \cup {NoRow}] /\ patch \in [Request -> PatchType]
      BY DEF RecordTypes, TypeOK, ReadingsTypeOK
    <2>2. CASE Creates
      <3>1. PICK r \in Reading, f \in Field : CreateReading(r, f)
        BY <2>2 DEF Creates
      <3>2. Sealed({f}).form = "v3"
        BY SealedRows
      <3>3. crossed' = crossed /\ \A s \in Reading : Exists(s) => Exists(s)'
        BY <2>1, <3>1, <3>2 DEF CreateReading, Exists
      <3> QED
        BY <1>1, <3>3, EntriesLeftAlone
    <2>3. CASE Finds
      <3>1. UNCHANGED <<crossed, readings>>
        BY <2>3 DEF Finds, FindReading
      <3> QED
        BY <1>1, <3>1, EntriesLeftAlone DEF Exists
    <2>4. CASE Saves
      <3>1. PICK q \in Request : SaveReading(q)
        BY <2>4 DEF Saves
      <3>2. \A has : Sealed(has).form = "v3"
        BY DEF Sealed
      <3>3. crossed \subseteq crossed' /\ \A s \in Reading : Exists(s) => Exists(s)'
        BY <2>1, <3>1, <3>2 DEF SaveReading, Exists
      <3> QED
        BY <1>1, <3>3, EntriesLeftAlone
    <2> QED
      BY <1>1, <2>2, <2>3, <2>4
  <1>2. CASE (Deletes \/ DeleteAllReadings) /\ CascadeEntries
    <2>1. crossed' = crossed
      BY <1>2 DEF Deletes, DeleteReading, DeleteAllReadings, Delete
    <2> QED
      BY <1>2, <2>1, CascadeKeepsEntries
  <1>3. CASE StopApp /\ ForgetDrafts
    <2>1. UNCHANGED <<entries, written, said, readings, crossed>>
      BY <1>3 DEF StopApp, ForgetDrafts
    <2>2. DraftsAreFresh'
      BY <1>3, EntryTypes DEF ForgetDrafts, DraftsAreFresh
    <2> QED
      BY <2>1, <2>2 DEF EntriesInv, EntriesStayTrue, EntriesSayWhatWasWritten,
                        EntriesHaveTheirReading, HasEntry, Exists
  <1> QED
    BY <1>1, <1>2, <1>3 DEF ReadingStep

LEMMA EntryStepKeepsEntries ==
  ASSUME RecordTypes, EntriesInv, EntryStep
  PROVE  EntriesInv'
  <1>1. CASE Refuses
    <2>1. PICK q \in Request : SaveRefused(q)
      BY <1>1 DEF Refuses
    <2>2. /\ UNCHANGED <<entries, written, said, readings, crossed>>
          /\ \A p \in Request : draft'[p].reading # 0 =>
               draft'[p] = draft[p] /\ draft[p].reading # 0
      BY <2>1, EntryTypes DEF SaveRefused, readingVars
    <2>3. DraftsAreFresh'
      <3> SUFFICES ASSUME NEW p \in Request, (draft[p].reading # 0)'
                   PROVE  FreshDraft(draft[p])' /\ OwnId(draft[p])'
        BY DEF DraftsAreFresh
      <3>1. FreshDraft(draft[p]) /\ OwnId(draft[p]) /\ draft'[p] = draft[p]
        BY <2>2 DEF EntriesInv, DraftsAreFresh
      <3> QED
        BY <2>2, <3>1 DEF FreshDraft, OwnId, HasEntry
    <2> QED
      BY <2>2, <2>3 DEF EntriesInv, EntriesStayTrue, EntriesSayWhatWasWritten,
                        EntriesHaveTheirReading, HasEntry, Exists
  <1> QED
    BY <1>1, BeginKeepsEntries, ReviseKeepsEntries, SaveKeepsEntries, DeletionKeepsEntries
    DEF EntryStep

LEMMA ScriptStepKeepsEntries ==
  ASSUME RecordTypes, EntriesInv, ScriptStep
  PROVE  EntriesInv'
  <1>1. UNCHANGED <<crossed, journalVars>>
    BY ScriptStepsLeaveRequests
  <1>2. \A r \in Reading : readings[r] \in Row \cup {NoRow}
    BY DEF RecordTypes, TypeOK, ReadingsTypeOK
  <1>3. \A r \in Reading : Exists(r) => Exists(r)'
    BY <1>2, ScriptStepsConvert, ConvertedRows DEF Exists
  <1> QED
    BY <1>1, <1>3, EntriesLeftAlone

\* An entry is about a reading that is there and says what its author last wrote,
\* whatever is revised or deleted at the same time (journal.service.ts:173-258).
THEOREM EntriesAlwaysStayTrue == Spec => []EntriesStayTrue
  <1>1. ReencryptionInit /\ RecordTypes => EntriesInv
    <2> SUFFICES ASSUME ReencryptionInit, RecordTypes PROVE EntriesInv
      OBVIOUS
    <2>1. /\ \A r \in Reading : ~HasEntry(r) /\ entries[r].id = 0
          /\ \A q \in Request : draft[q].reading = 0
      BY EntryTypes DEF ReencryptionInit, JournalInit, HasEntry
    <2> QED
      BY <2>1, EntryTypes DEF EntriesInv, DraftsAreFresh, EntriesStayTrue, EntriesSayWhatWasWritten,
                              EntriesHaveTheirReading
  <1>2. RecordTypes /\ EntriesInv /\ [Next]_vars => EntriesInv'
    <2> SUFFICES ASSUME RecordTypes, EntriesInv, [Next]_vars PROVE EntriesInv'
      OBVIOUS
    <2>1. CASE OperatorStep
      <3>1. UNCHANGED <<readings, crossed, journalVars>>
        BY <2>1, OperatorStepsLeaveReadings
      <3> QED
        BY <3>1, EntriesLeftAlone DEF Exists
    <2>2. CASE UNCHANGED vars
      BY <2>2, EntriesLeftAlone DEF vars, readingVars, Exists
    <2> QED
      BY <2>1, <2>2, RecordSteps, ReadingStepKeepsEntries, EntryStepKeepsEntries, ScriptStepKeepsEntries
  <1>3. EntriesInv => EntriesStayTrue
    BY DEF EntriesInv
  <1> QED
    BY <1>1, <1>2, <1>3, RecordTypesHold, PTL DEF Spec

-----------------------------------------------------------------------------
(* What requests write.                                                    *)

LEMMA ReadingStepsLeaveTools ==
  ASSUME RecordTypes, ReadingStep
  PROVE  UNCHANGED <<locked, toolVars>> /\ app'.ring = app.ring /\ (app'.up => app.up)
  <1>1. app \in [up : BOOLEAN, ring : Ring]
    BY DEF RecordTypes, TypeOK, ReadingsTypeOK
  <1>2. \A gone : Delete(gone) => UNCHANGED <<locked, app>>
    BY DEF Delete
  <1> QED
    BY <1>1, <1>2
    DEF ReadingStep, Creates, CreateReading, Finds, FindReading, Saves, SaveReading, Deletes,
        DeleteReading, DeleteAllReadings, StopApp

\* A request leaves a row, deletes it, or seals it under the server's key; it
\* does so to no row that the script has locked.
LEMMA ReadingStepsSeal ==
  ASSUME RecordTypes, ReadingsInv, ReadingStep, NEW r \in Reading
  PROVE  /\ \/ readings'[r] = readings[r]
            \/ readings'[r] = NoRow
            \/ app.up /\ readings'[r].form = "v3" /\ readings'[r].key = app.ring.active
         /\ r \in locked /\ Exists(r) => readings'[r] = readings[r]
  <1>1. readings \in [Reading -> Row \cup {NoRow}] /\ patch \in [Request -> PatchType]
    BY DEF RecordTypes, TypeOK, ReadingsTypeOK
  <1>3. CASE Creates
    <2>1. PICK s \in Reading, f \in Field : CreateReading(s, f)
      BY <1>3 DEF Creates
    <2> QED
      BY <1>1, <2>1, SealedRows DEF CreateReading
  <1>4. CASE Finds
    BY <1>4 DEF Finds, FindReading
  <1>5. CASE Saves
    <2>1. PICK q \in Request : SaveReading(q)
      BY <1>5 DEF Saves
    <2>2. app.up
      BY <2>1 DEF SaveReading, ReadingsInv, PatchesAreFresh
    <2> QED
      BY <1>1, <2>1, <2>2 DEF SaveReading, Sealed
  <1>6. ASSUME NEW gone, Delete(gone)
        PROVE  /\ readings'[r] = readings[r] \/ readings'[r] = NoRow
               /\ r \in locked => readings'[r] = readings[r]
    BY <1>1, <1>6 DEF Delete
  <1>7. CASE Deletes \/ DeleteAllReadings
    BY <1>6, <1>7 DEF Deletes, DeleteReading, DeleteAllReadings
  <1>8. CASE StopApp
    BY <1>8 DEF StopApp
  <1> QED
    BY <1>3, <1>4, <1>5, <1>7, <1>8 DEF ReadingStep

\* A document in its historical form is never made, only found.
LEMMA LegacyIsNeverMade ==
  ASSUME RecordTypes, ReadingsInv, Next, NEW r \in Reading
  PROVE  /\ readings'[r].form = "legacy" => readings'[r] = readings[r]
         /\ Damaged(r)' => Damaged(r)
  <1>1. readings[r] \in Row \cup {NoRow} /\ NoRow.form = "none"
    BY DEF RecordTypes, TypeOK, ReadingsTypeOK, NoRow
  <1>2. CASE ReadingStep
    BY <1>1, <1>2, ReadingStepsSeal DEF Damaged
  <1>3. CASE ScriptStep
    BY <1>1, <1>3, ScriptStepsConvert, ConvertedRows DEF Damaged
  <1>4. CASE EntryStep \/ OperatorStep
    BY <1>4, EntryStepsLeaveReadings, OperatorStepsLeaveReadings DEF Damaged
  <1> QED
    BY <1>2, <1>3, <1>4, RecordSteps

-----------------------------------------------------------------------------
(* The rotation of the key.                                                *)

LEMMA NothingIsSealed ==
  /\ NoRow.form \notin {"v2", "v3"} /\ NoRow.form = "none"
  BY DEF NoRow

LEMMA ReadingStepKeepsRotation ==
  ASSUME RecordTypes, ReadingsInv, RotationInv, ReadingStep
  PROVE  RotationInv'
  <1>1. app.ring.active \in app.ring.keys /\ ring \in Ring
    BY DEF RecordTypes, TypeOK, ReadingsTypeOK, Ring
  <1>2. ASSUME NEW keys, SealedUnder(keys), app.ring.active \in keys
        PROVE  \A r \in Reading : readings'[r].form \in {"v2", "v3"} => readings'[r].key \in keys
    BY <1>2, ReadingStepsSeal, NothingIsSealed DEF SealedUnder
  <1>3. UNCHANGED <<locked, toolVars>> /\ app'.ring = app.ring
    BY ReadingStepsLeaveTools
  <1>4. SealedUnder(app.ring.keys)'
    BY <1>1, <1>2, <1>3 DEF RotationInv, SealedUnder
  <1>5. turned = "no" => SealedUnder({ring.active})'
    BY <1>2, <1>3 DEF RotationInv, SealedUnder, toolVars
  <1>6. turned = "turned" => SealedUnder({app.ring.active})'
    BY <1>2, <1>3 DEF RotationInv, SealedUnder, toolVars
  <1>7. turned = "reencrypted" => SealedUnder({ring.active})'
    BY <1>2, <1>3 DEF RotationInv, SealedUnder, toolVars
  <1> QED
    BY <1>3, <1>4, <1>5, <1>6, <1>7 DEF RotationInv, SealedUnder, toolVars

LEMMA RingTypes ==
  ASSUME RecordTypes
  PROVE  /\ ring \in Ring /\ app.ring \in Ring
         /\ ring.active \in ring.keys /\ app.ring.active \in app.ring.keys
  BY DEF RecordTypes, TypeOK, ReadingsTypeOK, Ring

\* Every row that a run of the script writes is under the active key.
LEMMA ScriptStepsSeal ==
  ASSUME RecordTypes, RotationInv, ScriptStep, NEW r \in Reading
  PROVE  \/ readings'[r] = readings[r]
         \/ /\ readings'[r].form \in {"v2", "v3"} /\ readings'[r].key = ring.active
            /\ turned # "turned"
  <1>1. readings[r] \in Row \cup {NoRow}
    BY DEF RecordTypes, TypeOK, ReadingsTypeOK
  <1>2. CASE readings'[r] # readings[r]
    <2>1. readings'[r] = Convert(readings[r]) /\ script \in ScriptRun
      BY <1>2, ScriptStepsConvert
    <2>2. script # NoScript
      BY <2>1 DEF ScriptRun, NoScript, Mode
    <2>3. script.ring = ring /\ turned # "turned"
      BY <2>2 DEF RotationInv
    <2> QED
      BY <1>1, <1>2, <2>1, <2>3, ConvertedRows
  <1> QED
    BY <1>2

\* A default run that ends with --reencrypt has brought every row under the
\* active key.
LEMMA EndOfRotation ==
  ASSUME RecordTypes, RotationInv, RunInv, ScriptStep, turned' # turned
  PROVE  turned = "restarted" /\ turned' = "reencrypted" /\ SealedUnder({ring.active})'
  <1>1. turned = "restarted" /\ turned' = "reencrypted" /\ script.reencrypt /\ ScriptStep
        /\ (WriteEnds \/ CommitExact)
    BY DEF ScriptStep, Runs, StartRun, ScriptDies, RunFails, Preflight, PreflightEnds, GivesUp,
           WriteBatch, WriteEnds, RunEnds, LockBatch, CommitExact
  <1>2. script.mode = "apply"
    BY <1>1 DEF RunInv
  <1>3. WriteEnds /\ readings' = readings /\ Batch(readings) = {} /\ script.phase = "write"
    BY <1>1, <1>2 DEF CommitExact, WriteEnds, RunEnds
  <1>4. script.cursor \in Nat
    BY <1>2, RunIsTyped
  <1>5. Rest(readings) = {}
    BY <1>3, EmptyBatch
  <1>6. ASSUME NEW r \in Reading, Exists(r)
        PROVE  readings[r].key = ring.active
    <2>1. r \in Passed
      BY <1>4, <1>5, <1>6, ReadingsConstants DEF Rest, Passed, Exists
    <2> QED
      BY <1>1, <1>2, <1>3, <1>6, <2>1 DEF RunInv, DefaultRun
  <1>7. ring' = ring /\ readings' = readings
    BY <1>3, ScriptStepsLeaveRequests
  <1>8. \A r \in Reading : readings[r].form \in {"v2", "v3"} => readings[r].key = ring.active
    BY <1>6 DEF Exists
  <1> QED
    BY <1>1, <1>7, <1>8 DEF SealedUnder

LEMMA ScriptStepKeepsRotation ==
  ASSUME RecordTypes, RotationInv, RunInv, ScriptStep
  PROVE  RotationInv'
  <1>1. UNCHANGED <<app, ring>>
    BY ScriptStepsLeaveRequests
  <1>2. CASE Runs
    <2>1. /\ UNCHANGED <<readings, turned>> /\ turned # "turned" /\ script'.ring = ring
      BY <1>2 DEF Runs, StartRun, readingVars
    <2> QED
      BY <1>1, <2>1 DEF RotationInv, SealedUnder
  <1>3. CASE ~Runs
    <2>1. script # NoScript /\ script \in ScriptRun
      BY <1>3, NoScriptRuns
      DEF ScriptStep, ScriptDies, Preflight, PreflightEnds, GivesUp, Stuck, WriteBatch, WriteEnds,
          LockBatch, CommitExact, RecordTypes
    <2>2. script' = NoScript \/ script'.ring = script.ring
      BY <1>3, <2>1
      DEF ScriptRun, ScriptStep, ScriptDies, RunFails, Preflight, PreflightEnds, GivesUp, WriteBatch,
          WriteEnds, RunEnds, LockBatch, CommitExact
    <2>3. turned # "turned" /\ script.ring = ring
      BY <2>1 DEF RotationInv
    <2>4. ASSUME NEW keys, SealedUnder(keys), ring.active \in keys
          PROVE  \A r \in Reading : readings'[r].form \in {"v2", "v3"} => readings'[r].key \in keys
      BY <2>4, ScriptStepsSeal DEF SealedUnder
    <2>5. ring.active \in app.ring.keys
      BY <2>3, RingTypes DEF RotationInv, RecordTypes, TypeOK
    <2>6. SealedUnder(app.ring.keys)'
      BY <1>1, <2>4, <2>5 DEF RotationInv, SealedUnder
    <2>7. turned \in {"no", "reencrypted"} => SealedUnder({ring.active})'
      BY <1>1, <2>4 DEF RotationInv, SealedUnder
    <2>8. turned' = turned \/ /\ turned = "restarted" /\ turned' = "reencrypted"
                              /\ SealedUnder({ring.active})'
      BY EndOfRotation
    <2>9. turned' # "turned"
      BY <2>3, <2>8
    <2>10. turned' = "no" => /\ turned = "no" /\ ring.keys = {ring.active}
                             /\ app.ring.active = ring.active
      BY <2>8 DEF RotationInv
    <2>11. turned' \in {"restarted", "reencrypted"} => app.ring = ring
      BY <2>8 DEF RotationInv
    <2> QED
      BY <1>1, <2>2, <2>3, <2>6, <2>7, <2>8, <2>9, <2>10, <2>11 DEF RotationInv
  <1> QED
    BY <1>2, <1>3

LEMMA OperatorStepKeepsRotation ==
  ASSUME RecordTypes, RotationInv, OperatorStep
  PROVE  RotationInv'
  <1>1. UNCHANGED <<readings, script>>
    BY OperatorStepsLeaveReadings
  <1>2. CASE StartServer
    <2>1. app'.ring = ring /\ ring' = ring
      BY <1>2 DEF StartServer, StartApp
    <2>2. turned' = IF turned = "turned" THEN "restarted" ELSE turned
      BY <1>2 DEF StartServer
    <2>3. SealedUnder(ring.keys) /\ turned \in {"no", "turned", "restarted", "reencrypted"}
      BY RingTypes DEF RotationInv, SealedUnder, RecordTypes, TypeOK
    <2> QED
      BY <1>1, <2>1, <2>2, <2>3 DEF RotationInv, SealedUnder
  <1>3. ASSUME NEW k \in Key, TurnKey(k)
        PROVE  RotationInv'
    <2>1. /\ ring'.keys = ring.keys \cup {k} /\ turned = "no" /\ turned' = "turned"
          /\ script = NoScript /\ app' = app
      BY <1>3 DEF TurnKey, readingVars
    <2>2. app.ring.active \in ring'.keys
      BY <2>1, RingTypes DEF RotationInv
    <2> QED
      BY <1>1, <2>1, <2>2 DEF RotationInv, SealedUnder
  <1>4. CASE RemoveOldKeys
    <2>1. /\ ring' = [ring EXCEPT !.keys = {ring.active}] /\ turned = "reencrypted"
          /\ turned' = "no" /\ script = NoScript /\ app' = app
      BY <1>4 DEF RemoveOldKeys, readingVars
    <2>2. ring'.keys = {ring.active} /\ ring'.active = ring.active
      BY <2>1, RingTypes DEF Ring
    <2> QED
      BY <1>1, <2>1, <2>2 DEF RotationInv, SealedUnder
  <1>5. CASE RestoreCopy \/ \E mode \in LegacyKey : Recover(mode)
    BY <1>1, <1>5 DEF RestoreCopy, Recover, readingVars, RotationInv, SealedUnder
  <1> QED
    BY <1>2, <1>3, <1>4, <1>5 DEF OperatorStep

-----------------------------------------------------------------------------
(* The runs of the script.                                                 *)

\* While the script runs, the server writes under the key the script uses.
LEMMA OneKeyWhileItRuns ==
  ASSUME RecordTypes, RotationInv, script # NoScript
  PROVE  app.ring.active = ring.active /\ script.ring = ring
  BY DEF RecordTypes, TypeOK, RotationInv

LEMMA ReadingStepKeepsRun ==
  ASSUME RecordTypes, ReadingsInv, RotationInv, RunInv, ReadingStep, Next
  PROVE  RunInv'
  <1>1. /\ UNCHANGED <<locked, ring, script, outcome>> /\ (app'.up => app.up)
        /\ Passed' = Passed
    BY ReadingStepsLeaveTools DEF toolVars, Passed
  <1>2. ASSUME NEW r \in Reading
        PROVE  /\ \/ readings'[r] = readings[r]
                  \/ readings'[r] = NoRow
                  \/ app.up /\ readings'[r].form = "v3" /\ readings'[r].key = app.ring.active
               /\ r \in locked /\ Exists(r) => readings'[r] = readings[r]
               /\ Damaged(r)' => Damaged(r)
               /\ readings'[r] # readings[r] => readings'[r].form \in {"none", "v3"}
    BY ReadingStepsSeal, LegacyIsNeverMade, NothingIsSealed
  <1>3. DefaultRun'
    <2>1. script.mode = "apply" => app.ring.active = ring.active
      BY OneKeyWhileItRuns, NoScriptRuns
    <2>2. ASSUME script.mode = "apply", script.phase = "write", NEW r \in Passed
          PROVE  /\ readings'[r].form \in {"none", "v3"}
                 /\ script.reencrypt /\ Exists(r)' => readings'[r].key = ring.active
      <3>1. r \in Reading /\ readings[r].form \in {"none", "v3"}
            /\ (script.reencrypt /\ Exists(r) => readings[r].key = ring.active)
        BY <2>2 DEF RunInv, DefaultRun, Passed
      <3> QED
        BY <1>2, <2>1, <2>2, <3>1, NothingIsSealed DEF Exists
    <2>3. \A r \in Passed : r \in Reading
      BY DEF Passed
    <2> QED
      BY <1>1, <1>2, <2>2, <2>3 DEF RunInv, DefaultRun
  <1>4. RollbackRun'
    <2>1. \A r \in Passed : r \in Reading
      BY DEF Passed
    <2> QED
      BY <1>1, <1>2, <2>1, NothingIsSealed DEF RunInv, RollbackRun
  <1>5. ExactRun'
    <2> SUFFICES ASSUME script.mode = "exact" PROVE ExactRun'
      BY <1>1 DEF ExactRun
    <2>1. \A r \in Reading : readings'[r] # script.snap[r] => readings'[r].form \in {"none", "v3"}
      BY <1>2 DEF RunInv, ExactRun
    <2>2. \A r \in locked : readings'[r] = script.snap[r]
      <3> SUFFICES ASSUME NEW r \in locked PROVE readings'[r] = script.snap[r]
        OBVIOUS
      <3>1. r \in Reading /\ readings[r] = script.snap[r] /\ Exists(r)
        BY DEF RunInv, ExactRun, Passed, Exists
      <3> QED
        BY <1>2, <3>1
    <2> QED
      BY <1>1, <2>1, <2>2 DEF RunInv, ExactRun, Unreadable
  <1>6. FinishedRunsAreComplete'
    <2>1. ASSUME NEW r \in Reading, outcome.mode \in {"apply", "exact"}
          PROVE  readings'[r].form \in {"none", "v3"} \/ (Damaged(r)' /\ r \in outcome.expected)
      <3>1. CASE readings'[r] = readings[r]
        BY <2>1, <3>1 DEF RunInv, FinishedRunsAreComplete, Damaged
      <3>2. CASE readings'[r] # readings[r]
        BY <1>2, <3>2
      <3> QED
        BY <3>1, <3>2
    <2>2. ASSUME NEW r \in Reading, outcome.mode = "rollback"
          PROVE  readings'[r].form # "v3"
      BY <1>2, <2>2, NothingIsSealed DEF RunInv, FinishedRunsAreComplete
    <2> QED
      BY <1>1, <2>1, <2>2 DEF FinishedRunsAreComplete
  <1> QED
    BY <1>1, <1>3, <1>4, <1>5, <1>6 DEF RunInv

LEMMA OperatorStepKeepsRun ==
  ASSUME RunInv, OperatorStep
  PROVE  RunInv'
  <1>1. UNCHANGED <<readings, locked, script, outcome>>
    BY OperatorStepsLeaveReadings
  <1>2. /\ script.mode = "rollback" \/ outcome.mode = "rollback" => (app'.up => app.up)
        /\ script.mode = "apply" => ring' = ring
    BY NoScriptRuns
    DEF OperatorStep, StartServer, TurnKey, RemoveOldKeys, RestoreCopy, Recover, readingVars
  <1>3. FinishedRunsAreComplete'
    BY <1>1 DEF RunInv, FinishedRunsAreComplete, Damaged
  <1>4. DefaultRun' /\ RollbackRun' /\ ExactRun'
    BY <1>1, <1>2 DEF RunInv, DefaultRun, RollbackRun, ExactRun, Passed, Damaged, Exists, Unreadable
  <1> QED
    BY <1>1, <1>2, <1>3, <1>4 DEF RunInv

LEMMA NothingIsPassed ==
  ASSUME NEW r \in Reading
  PROVE  ~(r <= 0)
  BY ReadingsConstants

LEMMA RunStarts ==
  ASSUME RunInv, Runs
  PROVE  RunInv'
  <1>1. PICK mode \in Mode, reencrypt \in BOOLEAN, expected \in SUBSET Reading :
          /\ part = "rollback" <=> mode = "rollback"
          /\ part = "exact" <=> mode = "exact"
          /\ part = "rotation" <=> reencrypt
          /\ StartRun(mode, reencrypt, expected)
    BY DEF Runs
  <1>2. /\ UNCHANGED <<readings, locked, app, ring>> /\ locked = {} /\ outcome' = NoOutcome
        /\ script'.mode = mode /\ script'.phase = "preflight" /\ script'.cursor = 0
        /\ script'.reencrypt = reencrypt /\ script'.expected = expected /\ script'.failed = {}
        /\ mode = "exact" => script'.snap = readings
        /\ mode = "rollback" => ~app.up
    BY <1>1, NoScriptRuns DEF StartRun, readingVars, RunInv
  <1>3. Passed' = {}
    BY <1>2, NothingIsPassed DEF Passed
  <1>4. reencrypt => mode = "apply"
    BY <1>1 DEF Mode
  <1>5. mode = "apply" => expected = {}
    BY <1>1 DEF StartRun, ExpectedSets
  <1>6. FinishedRunsAreComplete' /\ NoOutcome.mode = "none"
    BY <1>2 DEF FinishedRunsAreComplete, NoOutcome
  <1>7. DefaultRun' /\ RollbackRun' /\ ExactRun'
    BY <1>2, <1>3, <1>5 DEF DefaultRun, RollbackRun, ExactRun
  <1> QED
    BY <1>2, <1>4, <1>6, <1>7 DEF RunInv

LEMMA RunStops ==
  ASSUME RunInv, RunFails
  PROVE  RunInv'
  <1>1. script' = NoScript /\ locked' = {} /\ UNCHANGED <<readings, app, ring, outcome>>
    BY DEF RunFails
  <1>2. FinishedRunsAreComplete'
    BY <1>1 DEF RunInv, FinishedRunsAreComplete, Damaged
  <1> QED
    BY <1>1, <1>2, NoScriptRuns DEF RunInv, DefaultRun, RollbackRun, ExactRun

\* The preflight of a default run notes every damaged row it passes.
LEMMA PreflightKeepsRun ==
  ASSUME RecordTypes, RunInv, Preflight
  PROVE  RunInv'
  <1> DEFINE batch == Batch(readings)
  <1>1. script \in ScriptRun /\ script # NoScript /\ script.cursor \in Nat
    BY RunIsTyped DEF Preflight
  <1>2. /\ UNCHANGED <<readings, locked, app, ring, outcome>> /\ script.mode \in {"apply", "rollback"}
        /\ script.phase = "preflight" /\ batch # {}
        /\ script' = [script EXCEPT !.cursor = LastOf(batch),
                                    !.failed = @ \cup Failures(readings, batch)]
    BY DEF Preflight, readingVars
  <1>3. /\ script'.mode = script.mode /\ script'.phase = "preflight"
        /\ script'.cursor = LastOf(batch) /\ script'.reencrypt = script.reencrypt
        /\ script'.expected = script.expected
        /\ script'.failed = script.failed \cup Failures(readings, batch)
    BY <1>1, <1>2 DEF ScriptRun
  <1>4. DefaultRun'
    <2> SUFFICES ASSUME script.mode = "apply", NEW r \in Reading, r <= LastOf(batch), Damaged(r)
                 PROVE  r \in script'.failed
      BY <1>2, <1>3 DEF DefaultRun, RunInv, Passed, Damaged
    <2>1. CASE r <= script.cursor
      BY <1>2, <1>3, <2>1 DEF RunInv, DefaultRun, Passed
    <2>2. CASE ~(r <= script.cursor)
      <3>1. r \in Nat /\ r > script.cursor
        BY <1>1, <2>2, ReadingsConstants
      <3>2. r \in batch
        BY <1>1, <1>2, <3>1, FullBatch, MissingRows DEF Exists
      <3> QED
        BY <1>3, <3>2 DEF Failures, Damaged, Unreadable
    <2> QED
      BY <2>1, <2>2
  <1>5. RollbackRun' /\ ExactRun'
    BY <1>2, <1>3 DEF RunInv, RollbackRun, ExactRun
  <1>6. FinishedRunsAreComplete'
    BY <1>2 DEF RunInv, FinishedRunsAreComplete, Damaged
  <1> QED
    BY <1>1, <1>2, <1>3, <1>4, <1>5, <1>6 DEF RunInv

\* When it has found what it expects, nothing, there is nothing.
LEMMA PreflightEndKeepsRun ==
  ASSUME RecordTypes, RunInv, PreflightEnds
  PROVE  RunInv'
  <1>1. script \in ScriptRun /\ script # NoScript /\ script.cursor \in Nat
    BY RunIsTyped DEF PreflightEnds
  <1>2. /\ UNCHANGED <<readings, locked, app, ring, outcome>> /\ script.mode \in {"apply", "rollback"}
        /\ script.phase = "preflight" /\ Batch(readings) = {} /\ script.failed = script.expected
        /\ script' = [script EXCEPT !.phase = "write", !.cursor = 0, !.failed = {}]
    BY DEF PreflightEnds, readingVars
  <1>3. /\ script'.mode = script.mode /\ script'.phase = "write" /\ script'.cursor = 0
        /\ script'.reencrypt = script.reencrypt /\ script'.expected = script.expected
    BY <1>1, <1>2 DEF ScriptRun
  <1>4. Passed' = {}
    BY <1>3, NothingIsPassed DEF Passed
  <1>5. ASSUME script.mode = "apply", NEW r \in Reading
        PROVE  ~Damaged(r)
    <2>1. Damaged(r) => r \in Passed
      BY <1>1, <1>2, EmptyBatch, MissingRows, ReadingsConstants DEF Rest, Passed, Exists
    <2> QED
      BY <1>2, <1>5, <2>1 DEF RunInv, DefaultRun
  <1>6. DefaultRun'
    BY <1>2, <1>3, <1>4, <1>5 DEF DefaultRun, RunInv, Damaged
  <1>7. RollbackRun' /\ ExactRun'
    BY <1>2, <1>3, <1>4 DEF RunInv, RollbackRun, ExactRun
  <1>8. FinishedRunsAreComplete'
    BY <1>2 DEF RunInv, FinishedRunsAreComplete, Damaged
  <1> QED
    BY <1>1, <1>2, <1>3, <1>6, <1>7, <1>8 DEF RunInv

\* A batch of a default run brings its rows to v3, one of a rollback to v2.
LEMMA BatchKeepsRun ==
  ASSUME RecordTypes, RotationInv, RunInv, WriteBatch
  PROVE  RunInv'
  <1> DEFINE batch == Batch(readings)
  <1>1. script \in ScriptRun /\ script # NoScript /\ script.cursor \in Nat
    BY RunIsTyped DEF WriteBatch
  <1>2. /\ UNCHANGED <<locked, app, ring, outcome>> /\ script.mode \in {"apply", "rollback"}
        /\ script.phase = "write" /\ batch # {}
        /\ script' = [script EXCEPT !.cursor = LastOf(batch)]
        /\ \A r \in Reading : readings'[r] = IF r \in batch THEN Convert(readings[r]) ELSE readings[r]
    BY ScriptStepsLeaveRequests DEF WriteBatch, ScriptStep
  <1>3. /\ script'.mode = script.mode /\ script'.phase = "write"
        /\ script'.cursor = LastOf(batch) /\ script'.reencrypt = script.reencrypt
        /\ script'.expected = script.expected
    BY <1>1, <1>2 DEF ScriptRun
  <1>4. script.ring = ring /\ outcome.mode = "none"
    BY <1>1 DEF RotationInv, RunInv, NoOutcome
  <1>5. \A r \in Reading : readings[r] \in Row \cup {NoRow}
    BY DEF RecordTypes, TypeOK, ReadingsTypeOK
  \* A row behind the new cursor was passed before, is missing, or is converted.
  <1>6. ASSUME NEW r \in Reading, r <= LastOf(batch)
        PROVE  \/ r \in Passed /\ readings'[r] = readings[r]
               \/ readings'[r].form = "none"
               \/ readings'[r] = Convert(readings[r])
    <2>1. r \in Nat /\ (r \in batch => r > script.cursor)
      BY ReadingsConstants, BatchIsOfTheRest DEF Rest
    <2>2. CASE r <= script.cursor
      BY <1>1, <1>2, <2>1, <2>2 DEF Passed
    <2>3. CASE r > script.cursor /\ readings[r].form # "none"
      BY <1>1, <1>2, <1>6, <2>3, FullBatch
    <2>4. CASE readings[r].form = "none"
      <3>1. Convert(readings[r]).form = "none"
        BY <1>1, <1>5, <2>4, ConvertedRows
      <3> QED
        BY <1>2, <2>4, <3>1
    <2> QED
      BY <1>1, <2>1, <2>2, <2>3, <2>4
  <1>7. DefaultRun'
    <2> SUFFICES ASSUME script.mode = "apply"
                 PROVE  /\ script'.expected = {}
                        /\ \A r \in Reading : ~Damaged(r)'
                        /\ \A r \in Reading : r <= LastOf(batch) =>
                             /\ readings'[r].form \in {"none", "v3"}
                             /\ script.reencrypt /\ Exists(r)' => readings'[r].key = ring.active
      BY <1>2, <1>3 DEF DefaultRun, Passed
    <2>1. \A r \in Reading : ~Damaged(r) /\ ~Unreadable(readings[r])
      BY <1>2 DEF RunInv, DefaultRun, Damaged, Unreadable
    <2>2. ASSUME NEW r \in Reading
          PROVE  ~Damaged(r)'
      <3>1. readings'[r] = readings[r] \/ readings'[r] = Convert(readings[r])
        BY <1>2
      <3>2. ~Unreadable(readings[r]) => ~Unreadable(Convert(readings[r]))
        BY <1>1, <1>5, ConvertedRows DEF Unreadable
      <3> QED
        BY <2>1, <3>1, <3>2 DEF Damaged, Unreadable
    <2>3. ASSUME NEW r \in Reading, r <= LastOf(batch)
          PROVE  /\ readings'[r].form \in {"none", "v3"}
                 /\ script.reencrypt /\ Exists(r)' => readings'[r].key = ring.active
      <3>1. CASE r \in Passed /\ readings'[r] = readings[r]
        BY <1>2, <3>1 DEF RunInv, DefaultRun, Exists
      <3>2. CASE readings'[r].form = "none"
        BY <3>2 DEF Exists
      <3>3. CASE readings'[r] = Convert(readings[r])
        <4>1. script.mode # "rollback"
          OBVIOUS
        <4>2. /\ Convert(readings[r]).form \in {"none", "v3"}
              /\ script.reencrypt => \/ readings[r].form = "none"
                                     \/ Convert(readings[r]).key = script.ring.active
              /\ readings[r].form = "none" => Convert(readings[r]).form = "none"
          BY <1>1, <1>5, <2>1, <4>1, ConvertedRows
        <4> QED
          BY <1>4, <3>3, <4>2 DEF Exists
      <3> QED
        BY <1>6, <2>3, <3>1, <3>2, <3>3
    <2> QED
      BY <1>3, <2>2, <2>3 DEF RunInv, DefaultRun
  <1>8. RollbackRun'
    <2> SUFFICES ASSUME script.mode = "rollback", NEW r \in Reading, r <= LastOf(batch)
                 PROVE  readings'[r].form # "v3"
      BY <1>2, <1>3 DEF RunInv, RollbackRun, Passed
    <2>1. r \in Passed => readings[r].form # "v3"
      BY <1>2 DEF RunInv, RollbackRun
    <2>2. Convert(readings[r]).form # "v3"
      BY <1>1, <1>5, ConvertedRows
    <2> QED
      BY <1>6, <2>1, <2>2
  <1>9. ExactRun' /\ FinishedRunsAreComplete'
    BY <1>2, <1>3, <1>4 DEF ExactRun, FinishedRunsAreComplete
  <1> QED
    BY <1>1, <1>2, <1>3, <1>4, <1>7, <1>8, <1>9 DEF RunInv

LEMMA EndKeepsRun ==
  ASSUME RecordTypes, RunInv, WriteEnds
  PROVE  RunInv'
  <1>1. script \in ScriptRun /\ script.cursor \in Nat /\ script.mode \in {"apply", "rollback"}
        /\ script.phase = "write"
    BY RunIsTyped DEF WriteEnds
  <1>2. /\ script' = NoScript /\ locked' = {} /\ UNCHANGED <<readings, app>>
        /\ outcome'.mode = script.mode
    BY DEF WriteEnds, RunEnds
  <1>3. \A r \in Reading : Exists(r) => r \in Passed
    BY <1>1, EmptyBatch, ReadingsConstants DEF WriteEnds, Rest, Passed, Exists
  <1>4. FinishedRunsAreComplete'
    <2> SUFFICES ASSUME NEW r \in Reading
                 PROVE  /\ script.mode = "apply" => readings[r].form \in {"none", "v3"}
                        /\ script.mode = "rollback" => readings[r].form # "v3"
      BY <1>1, <1>2 DEF FinishedRunsAreComplete
    <2> QED
      BY <1>1, <1>3 DEF RunInv, DefaultRun, RollbackRun, Exists
  <1>5. outcome'.mode = "rollback" => ~app'.up
    BY <1>2 DEF RunInv, RollbackRun
  <1> QED
    BY <1>2, <1>4, <1>5, NoScriptRuns DEF RunInv, DefaultRun, RollbackRun, ExactRun

\* A transaction with expected failures checks what it locks.
LEMMA LockKeepsRun ==
  ASSUME RecordTypes, RunInv, LockBatch
  PROVE  RunInv'
  <1> DEFINE batch == Batch(script.snap)
  <1>1. script \in ScriptRun /\ script # NoScript /\ script.cursor \in Nat
    BY RunIsTyped DEF LockBatch
  <1>2. /\ UNCHANGED <<readings, app, ring, outcome>> /\ script.mode = "exact" /\ batch # {}
        /\ locked' = locked \cup batch
        /\ script' = [script EXCEPT !.cursor = LastOf(batch),
                                    !.failed = @ \cup Failures(script.snap, batch)]
        /\ \A r \in batch : readings[r] = script.snap[r]
    BY ScriptStepsLeaveRequests DEF LockBatch, ScriptStep, Stuck
  <1>3. /\ script'.mode = "exact" /\ script'.snap = script.snap
        /\ script'.cursor = LastOf(batch) /\ script'.reencrypt = script.reencrypt
        /\ script'.failed = script.failed \cup Failures(script.snap, batch)
    BY <1>1, <1>2 DEF ScriptRun
  <1>4. ASSUME NEW r \in Reading, script.snap[r].form # "none"
        PROVE  r <= LastOf(batch) <=> r <= script.cursor \/ r \in batch
    <2>1. r \in Nat /\ LastOf(batch) \in Nat /\ LastOf(batch) > script.cursor
      BY <1>1, <1>2, FullBatch, ReadingsConstants, BatchIsOfTheRest DEF Rest
    <2>2. r \in batch <=> r > script.cursor /\ r <= LastOf(batch)
      BY <1>1, <1>2, <1>4, FullBatch
    <2> QED
      BY <1>1, <2>1, <2>2
  <1>5. batch \subseteq Reading /\ \A r \in batch : script.snap[r].form # "none"
    BY BatchIsOfTheRest DEF Rest
  <1>6. locked' = {r \in Passed' : script.snap[r].form # "none"}
    BY <1>2, <1>3, <1>4, <1>5 DEF RunInv, ExactRun, Passed
  <1>7. script'.failed = {r \in Passed' : Unreadable(script.snap[r])}
    <2>1. \A r \in Reading : Unreadable(script.snap[r]) => script.snap[r].form # "none"
      BY DEF Unreadable
    <2> QED
      BY <1>2, <1>3, <1>4, <1>5, <2>1 DEF RunInv, ExactRun, Passed, Failures
  <1>8. ExactRun'
    BY <1>2, <1>3, <1>6, <1>7 DEF RunInv, ExactRun, Unreadable
  <1>9. DefaultRun' /\ RollbackRun'
    BY <1>3 DEF DefaultRun, RollbackRun
  <1>10. FinishedRunsAreComplete'
    BY <1>2 DEF RunInv, FinishedRunsAreComplete, Damaged
  <1> QED
    BY <1>1, <1>2, <1>3, <1>8, <1>9, <1>10 DEF RunInv

\* It commits when it has locked all there was and failed on what it expected.
LEMMA WholeTransaction ==
  ASSUME RecordTypes, RunInv, CommitExact
  PROVE  /\ script \in ScriptRun /\ script.mode = "exact"
         /\ \A r \in Reading : r \notin locked => readings[r].form \in {"none", "v3"}
         /\ \A r \in Reading : r \in script.expected <=> Damaged(r)
         /\ locked \subseteq Reading
  <1>1. script \in ScriptRun /\ script.cursor \in Nat /\ script.mode = "exact"
        /\ script.failed = script.expected /\ Batch(script.snap) = {}
    BY RunIsTyped DEF CommitExact, Stuck
  <1>2. ASSUME NEW r \in Reading
        PROVE  /\ r \in Passed \/ script.snap[r].form = "none"
               /\ r \notin locked => readings[r].form \in {"none", "v3"}
               /\ r \in script.expected <=> Damaged(r)
    <2>1. r \in Passed \/ script.snap[r].form = "none"
      BY <1>1, EmptyBatch, ReadingsConstants DEF Rest, Passed
    <2>2. r \in locked <=> script.snap[r].form # "none"
      BY <1>1, <2>1 DEF RunInv, ExactRun
    <2>3. r \notin locked => readings[r].form \in {"none", "v3"}
      BY <1>1, <2>2 DEF RunInv, ExactRun
    <2>4. r \in locked => readings[r] = script.snap[r]
      BY <1>1 DEF RunInv, ExactRun
    <2>5. r \in script.failed <=> Unreadable(script.snap[r])
      BY <1>1, <2>1 DEF RunInv, ExactRun, Unreadable
    <2> QED
      BY <1>1, <2>1, <2>2, <2>3, <2>4, <2>5 DEF Damaged, Unreadable
  <1> QED
    BY <1>1, <1>2 DEF RecordTypes, TypeOK, ReadingsTypeOK

LEMMA CommitKeepsRun ==
  ASSUME RecordTypes, RunInv, CommitExact
  PROVE  RunInv'
  <1>1. /\ script' = NoScript /\ locked' = {} /\ app' = app
        /\ outcome'.mode = "exact" /\ outcome'.expected = script.expected
        /\ \A r \in Reading : readings'[r] = IF r \in locked THEN Convert(readings[r]) ELSE readings[r]
    BY DEF CommitExact, RunEnds
  <1>2. ASSUME NEW r \in Reading
        PROVE  readings'[r].form \in {"none", "v3"} \/ (Damaged(r)' /\ r \in script.expected)
    <2>1. readings[r] \in Row \cup {NoRow}
      BY DEF RecordTypes, TypeOK, ReadingsTypeOK
    <2>2. CASE r \notin locked
      BY <1>1, <2>2, WholeTransaction
    <2>3. CASE r \in locked
      <3>1. readings'[r] = Convert(readings[r]) /\ script \in ScriptRun /\ script.mode # "rollback"
        BY <1>1, <2>3, WholeTransaction
      <3>2. CASE Unreadable(readings[r])
        <4>1. readings'[r] = readings[r] /\ Damaged(r)
          BY <2>1, <3>1, <3>2, ConvertedRows DEF Unreadable, Damaged
        <4> QED
          BY <4>1, WholeTransaction DEF Damaged
      <3>3. CASE ~Unreadable(readings[r])
        BY <2>1, <3>1, <3>3, ConvertedRows
      <3> QED
        BY <3>2, <3>3
    <2> QED
      BY <2>2, <2>3
  <1>3. FinishedRunsAreComplete'
    BY <1>1, <1>2 DEF FinishedRunsAreComplete
  <1> QED
    BY <1>1, <1>3, NoScriptRuns DEF RunInv, DefaultRun, RollbackRun, ExactRun

LEMMA ScriptStepKeepsRun ==
  ASSUME RecordTypes, RotationInv, RunInv, ScriptStep
  PROVE  RunInv'
  BY RunStarts, RunStops, PreflightKeepsRun, PreflightEndKeepsRun, BatchKeepsRun, EndKeepsRun,
     LockKeepsRun, CommitKeepsRun
  DEF ScriptStep, ScriptDies, GivesUp

-----------------------------------------------------------------------------
(* The recovery of historical documents.                                   *)

LEMMA NextKeepsRecovery ==
  ASSUME RecordTypes, ReadingsInv, RecoveryInv, Next
  PROVE  RecoveryInv'
  <1>1. ASSUME NEW r \in Reading, readings'[r].form = "legacy"
        PROVE  readings'[r] = readings[r] /\ readings[r].form = "legacy"
    BY <1>1, LegacyIsNeverMade
  <1>2. restored \in [Reading -> Row \cup {NoRow}] /\ ring \in Ring
    BY DEF RecordTypes, TypeOK
  <1>3. CASE RestoreCopy
    <2>1. restored' = readings /\ readings' = readings /\ artifact' = artifact
      BY <1>3 DEF RestoreCopy, readingVars
    <2> QED
      BY <2>1 DEF RecoveryInv, ArtifactsAreComplete
  <1>4. ASSUME NEW mode, Recover(mode)
        PROVE  RecoveryInv'
    <2>1. /\ UNCHANGED <<readings, restored>> /\ Candidates # {}
          /\ artifact' = [r \in Reading |-> IF r \in Candidates THEN Resealed(restored[r]) ELSE NoRow]
      BY <1>4 DEF Recover, readingVars
    <2>2. restored # NoTable
      BY <2>1, NothingIsSealed DEF Candidates, NoTable
    <2>3. ASSUME NEW r \in Reading, readings[r].form = "legacy"
          PROVE  artifact'[r].form = "v3" /\ artifact'[r].has = readings[r].has
      <3>1. restored[r] = readings[r] /\ r \in Candidates
        BY <2>2, <2>3 DEF RecoveryInv, Candidates
      <3>2. restored[r] \in Row /\ restored[r].form = "legacy"
        BY <1>2, <2>3, <3>1, NothingIsSealed
      <3> QED
        BY <1>2, <2>1, <3>1, <3>2, ResealedRows
    <2> QED
      BY <2>1, <2>3 DEF RecoveryInv, ArtifactsAreComplete
  <1>5. CASE UNCHANGED <<restored, artifact>>
    BY <1>1, <1>5 DEF RecoveryInv, ArtifactsAreComplete
  <1>6. ReadingStep \/ EntryStep \/ ScriptStep => UNCHANGED <<restored, artifact>>
    BY EntryStepsLeaveReadings, ScriptStepsLeaveRequests DEF ReadingStep, toolVars
  <1>7. OperatorStep => \/ RestoreCopy \/ UNCHANGED <<restored, artifact>>
                        \/ \E mode \in LegacyKey : Recover(mode)
    BY DEF OperatorStep, StartServer, TurnKey, RemoveOldKeys
  <1> QED
    BY <1>3, <1>4, <1>5, <1>6, <1>7, RecordSteps

-----------------------------------------------------------------------------
(* All of it together.                                                     *)

LEMMA RecordsInit ==
  ASSUME ReencryptionInit, RecordTypes
  PROVE  ReadingsInv /\ RotationInv /\ RunInv /\ RecoveryInv
  <1> DEFINE first == [keys |-> {FirstKey}, active |-> FirstKey]
  <1>1. PICK initial \in Histories[part] : ReadingsInit(initial, first) /\ part \in Parts
    BY DEF ReencryptionInit
  <1>2. initial \in [Reading -> Found]
    BY <1>1, ReencryptionConstants
  <1>3. /\ readings = initial /\ app = [up |-> TRUE, ring |-> first] /\ crossed = {} /\ locked = {}
        /\ ring = first /\ turned = "no" /\ script = NoScript /\ outcome = NoOutcome
        /\ restored = NoTable /\ artifact = NoTable
        /\ \A q \in Request : patch[q].reading = 0
        /\ \A r \in Reading : told[r] = readings[r].has
    BY <1>1 DEF ReencryptionInit, ReadingsInit, NoPatch
  <1>4. ReadingsInv
    BY <1>3, MissingRows DEF ReadingsInv, PatchesAreFresh, ContentIsKept
  <1>5. \A r \in Reading : readings[r].form \in {"v2", "v3"} => readings[r].key = FirstKey
    BY <1>2, <1>3, NothingIsSealed DEF Found
  <1>6. RotationInv
    BY <1>3, <1>5 DEF RotationInv, SealedUnder
  <1>7. RunInv
    BY <1>3, NoScriptRuns DEF RunInv, DefaultRun, RollbackRun, ExactRun, NoOutcome,
                              FinishedRunsAreComplete
  <1>8. RecoveryInv
    BY <1>3 DEF RecoveryInv, ArtifactsAreComplete
  <1> QED
    BY <1>4, <1>6, <1>7, <1>8

LEMMA ReadingsLeftAlone ==
  ASSUME ReadingsInv, UNCHANGED <<readings, app, patch, told>>, crossed \subseteq crossed'
  PROVE  ReadingsInv' /\ DamagedStayAsTheyAre
  BY DEF ReadingsInv, PatchesAreFresh, ContentIsKept, DamagedStayAsTheyAre, Damaged, Exists

\* An operator's step leaves what readings hold; a server that starts has no
\* request under way.
LEMMA OperatorStepKeepsReadings ==
  ASSUME ReadingsInv, OperatorStep
  PROVE  ReadingsInv' /\ DamagedStayAsTheyAre
  <1>1. UNCHANGED <<readings, patch, told, crossed>>
    BY OperatorStepsLeaveReadings
  <1>2. app.up => app'.up
    BY DEF OperatorStep, StartServer, StartApp, TurnKey, RemoveOldKeys, RestoreCopy, Recover,
           readingVars
  <1> QED
    BY <1>1, <1>2
    DEF ReadingsInv, PatchesAreFresh, ContentIsKept, DamagedStayAsTheyAre, Damaged, Exists

\* An entry's request leaves the tables of readings and the runs alone.
LEMMA EntryStepKeepsRest ==
  ASSUME ReadingsInv, RotationInv, RunInv, EntryStep
  PROVE  ReadingsInv' /\ RotationInv' /\ RunInv' /\ DamagedStayAsTheyAre
  <1>1. UNCHANGED <<readings, locked, app, patch, told, toolVars>> /\ crossed \subseteq crossed'
    BY EntryStepsLeaveReadings
  <1>2. RotationInv'
    BY <1>1 DEF RotationInv, SealedUnder, toolVars
  <1>3. RunInv'
    BY <1>1 DEF RunInv, DefaultRun, RollbackRun, ExactRun, Passed, FinishedRunsAreComplete,
                Damaged, Exists, Unreadable, toolVars
  <1> QED
    BY <1>1, <1>2, <1>3, ReadingsLeftAlone

LEMMA RecordsStep ==
  ASSUME RecordTypes, ReadingsInv, RotationInv, RunInv, RecoveryInv, Next
  PROVE  ReadingsInv' /\ RotationInv' /\ RunInv' /\ RecoveryInv' /\ DamagedStayAsTheyAre
  <1>1. RecoveryInv'
    BY NextKeepsRecovery
  <1>2. CASE ReadingStep
    BY <1>1, <1>2, ReadingStepKeepsReadings, ReadingStepKeepsRotation, ReadingStepKeepsRun
  <1>3. CASE EntryStep
    BY <1>1, <1>3, EntryStepKeepsRest
  <1>4. CASE ScriptStep
    BY <1>1, <1>4, ScriptStepKeepsReadings, ScriptStepKeepsRotation, ScriptStepKeepsRun
  <1>5. CASE OperatorStep
    BY <1>1, <1>5, OperatorStepKeepsReadings, OperatorStepKeepsRotation, OperatorStepKeepsRun
  <1> QED
    BY <1>2, <1>3, <1>4, <1>5, RecordSteps

LEMMA RecordsStutter ==
  ASSUME ReadingsInv, RotationInv, RunInv, RecoveryInv, UNCHANGED vars
  PROVE  ReadingsInv' /\ RotationInv' /\ RunInv' /\ RecoveryInv'
  <1>1. UNCHANGED <<readings, locked, app, patch, told, crossed, toolVars>>
    BY DEF vars, readingVars
  <1>2. ReadingsInv'
    BY <1>1, ReadingsLeftAlone
  <1>3. RotationInv'
    BY <1>1 DEF RotationInv, SealedUnder, toolVars
  <1>4. RunInv'
    BY <1>1 DEF RunInv, DefaultRun, RollbackRun, ExactRun, Passed, FinishedRunsAreComplete,
                Damaged, Exists, Unreadable, toolVars
  <1>5. RecoveryInv'
    BY <1>1 DEF RecoveryInv, ArtifactsAreComplete, toolVars
  <1> QED
    BY <1>2, <1>3, <1>4, <1>5

\* A run that writes has found exactly the damaged documents it expects.
LEMMA WritesAreExpected ==
  ASSUME RecordTypes, RunInv, Next
  PROVE  WritesMatchTheExpected
  <1> SUFFICES ASSUME readings' # readings, script.mode \in {"apply", "exact"}, script' # script
               PROVE  {r \in Reading : Damaged(r)} = script.expected
    BY DEF WritesMatchTheExpected
  <1>1. script \in ScriptRun
    BY RunIsTyped
  <1>2. ScriptStep
    BY RecordSteps, EntryStepsLeaveReadings, OperatorStepsLeaveReadings DEF ReadingStep, toolVars
  <1>3. WriteBatch \/ CommitExact
    BY <1>2 DEF ScriptStep, Runs, StartRun, ScriptDies, RunFails, Preflight, PreflightEnds, GivesUp,
                WriteEnds, RunEnds, LockBatch, readingVars
  <1>4. CASE WriteBatch
    <2>1. script.mode = "apply" /\ script.phase = "write"
      BY <1>4 DEF WriteBatch
    <2> QED
      BY <2>1 DEF RunInv, DefaultRun
  <1>5. CASE CommitExact
    <2>1. script.expected \subseteq Reading
      BY <1>1 DEF ScriptRun
    <2> QED
      BY <1>5, <2>1, WholeTransaction
  <1> QED
    BY <1>3, <1>4, <1>5

\* What is sealed can be opened with the keyring of the server.
LEMMA SealedAreReadable ==
  ASSUME RecordTypes, RotationInv
  PROVE  ReadingsStayReadable
  <1> SUFFICES ASSUME NEW r \in Reading, Exists(r), ~Damaged(r)
               PROVE  Decrypts(readings[r], app.ring.keys)
    BY DEF ReadingsStayReadable
  <1>1. readings[r] \in Row \cup {NoRow}
    BY DEF RecordTypes, TypeOK, ReadingsTypeOK
  <1>2. readings[r].form \in {"legacy", "v2", "v3"}
    BY <1>1, NothingIsSealed DEF Exists, Row
  <1> QED
    BY <1>2 DEF RotationInv, SealedUnder, Damaged, Decrypts

\* The readings, the keyrings, the run of the script and the recovery are always as the
\* invariants of this part say: what an update under way has read is fresh or it is known
\* to be late, every envelope is under a key the server holds at each point of a rotation,
\* and a run knows everything it has passed (readings.service.ts:109-251,
\* encrypt-readings.ts:283-545, recover-legacy-readings.ts:117-230).
THEOREM RecordsAreSound ==
  Spec => [](RecordTypes /\ ReadingsInv /\ RotationInv /\ RunInv /\ RecoveryInv)
  <1> DEFINE Sound == ReadingsInv /\ RotationInv /\ RunInv /\ RecoveryInv
  <1>1. ReencryptionInit /\ RecordTypes => Sound
    BY RecordsInit
  <1>2. RecordTypes /\ Sound /\ [Next]_vars => Sound'
    BY RecordsStep, RecordsStutter
  <1> QED
    BY <1>1, <1>2, RecordTypesHold, PTL DEF Spec

\* The state of readings, journal and tools is always well typed.
THEOREM RecordsAreTyped == Spec => []TypeOK
  <1>1. RecordTypes => TypeOK
    BY DEF RecordTypes
  <1> QED
    BY <1>1, RecordTypesHold, PTL

\* Neither an update nor a run of the script loses what a reading holds, or the
\* chance to decrypt a damaged one later (readings.service.ts:109-172, 233-251,
\* encrypt-readings.ts:283-358), for every table, batch size and number of requests.
THEOREM ReadingsAreAlwaysKept == Spec => ReadingsAreKept
  <1> DEFINE Sound == RecordTypes /\ ReadingsInv /\ RotationInv /\ RunInv /\ RecoveryInv
  <1>1. Sound /\ Sound' /\ [Next]_vars => [ContentIsKept' /\ DamagedStayAsTheyAre]_vars
    <2> SUFFICES ASSUME Sound, Sound', Next PROVE ContentIsKept' /\ DamagedStayAsTheyAre
      OBVIOUS
    <2> QED
      BY RecordsStep DEF ReadingsInv
  <1> QED
    BY <1>1, RecordsAreSound, PTL DEF Spec, ReadingsAreKept

\* What a finished run of encrypt-readings, a rotation of the key in the documented
\* order or a recovery promises is so, and a run that cannot promise it writes nothing
\* (encrypt-readings.ts:360-545, recover-legacy-readings.ts:117-230).
THEOREM RunsAlwaysKeepTheirPromise == Spec => RunsKeepTheirPromise
  <1> DEFINE Sound == RecordTypes /\ ReadingsInv /\ RotationInv /\ RunInv /\ RecoveryInv
             Kept == ReadingsStayReadable /\ FinishedRunsAreComplete /\ ArtifactsAreComplete
             Promise == /\ WritesMatchTheExpected /\ ReadingsStayReadable'
                        /\ FinishedRunsAreComplete' /\ ArtifactsAreComplete'
  <1>1. Sound => Kept
    BY SealedAreReadable DEF RunInv, RecoveryInv
  <1>2. Sound /\ Kept' /\ [Next]_vars => [Promise]_vars
    <2> SUFFICES ASSUME Sound, Kept', Next PROVE Promise
      OBVIOUS
    <2> QED
      BY WritesAreExpected
  <1> QED
    BY <1>1, <1>2, RecordsAreSound, PTL DEF Spec, RunsKeepTheirPromise

=============================================================================
