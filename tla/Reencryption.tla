--------------------------- MODULE Reencryption ---------------------------
(***************************************************************************)
(* The command line tools over the readings table: encrypt-readings.ts     *)
(* brings every row to v3 (or back to v2 before an older release takes     *)
(* over) in batches ordered by id while the server may be running, and     *)
(* recover-legacy-readings.ts reads a restored copy.  An operator rotates  *)
(* the keys in the order DEPLOYMENT_GUIDE.md:270-289 gives: configure and  *)
(* activate the new key, restart the server, re-encrypt, remove the old.   *)
(***************************************************************************)
EXTENDS Journal

CONSTANTS
    FirstKey,      \* the key configured at first
    BatchSize,     \* rows read by one batch
    Parts,         \* which of the parts below a behaviour exercises
    Histories      \* for each part, the tables found at the start

\* A row found at the start: an envelope of the server is under the key that
\* is configured, a historical document is anybody's.
Found == {NoRow} \cup {row \in Row : row.form # "legacy" => row.key = FirstKey}

ASSUME ReencryptionConstants ==
    /\ FirstKey \in Key
    /\ BatchSize \in Nat \ {0}
    /\ \A p \in Parts : Histories[p] \subseteq [Reading -> Found]

VARIABLES
    ring,       \* the keyring in the environment file
    turned,     \* how far the rotation of the key has come
    script,     \* the run of encrypt-readings under way
    outcome,    \* how the last run ended
    restored,   \* the restored copy of the table
    artifact,   \* the recovered readings
    part

toolVars == <<ring, turned, script, outcome, restored, artifact>>
vars == <<readingVars, journalVars, toolVars, part>>

Mode == {"apply", "exact", "rollback"}
NoScript == [mode |-> "none", phase |-> "none", cursor |-> 0, reencrypt |-> FALSE,
          expected |-> {}, failed |-> {}, ring |-> [keys |-> {}, active |-> "none"],
          snap |-> <<>>]
NoOutcome == [mode |-> "none", expected |-> {}]
NoTable == [r \in Reading |-> NoRow]

ReencryptionInit ==
    /\ part \in Parts
    /\ \E initial \in Histories[part] :
           ReadingsInit(initial, [keys |-> {FirstKey}, active |-> FirstKey])
    /\ JournalInit
    /\ ring = [keys |-> {FirstKey}, active |-> FirstKey]
    /\ turned = "no"
    /\ script = NoScript
    /\ outcome = NoOutcome
    /\ restored = NoTable
    /\ artifact = NoTable

---------------------------------------------------------------------------
(* encrypt-readings.ts                                                     *)

\* loadBatch: the first rows of a table behind the cursor, in order of id.
Batch(table) ==
    LET rest == {r \in Reading : r > script.cursor /\ table[r].form # "none"}
    IN {r \in rest : Cardinality({s \in rest : s < r}) < BatchSize}

\* A cursor that points behind the batch.
BehindLast(batch) == 1 + CHOOSE r \in batch : \A s \in batch : s <= r

LastOf(batch) == CHOOSE r \in batch : \A s \in batch : s <= r

\* An envelope that cannot be opened ends the run in every mode; a rollback
\* leaves legacy rows alone.
Fatal(row) == row.form # "legacy" /\ row.key \notin script.ring.keys
Unreadable(row) == row.form = "legacy" /\ row.key # "owner"
Failures(table, batch) ==
    IF script.mode = "rollback" THEN {} ELSE {r \in batch : Unreadable(table[r])}

\* processBatch with --reencrypt forgotten for rows that are v3 already.
ConvertOldForms(row) ==
    IF row.form \in {"none", "v3"} \/ Unreadable(row) THEN row
    ELSE [row EXCEPT !.form = "v3", !.key = script.ring.active]

\* processBatch: what becomes of a row.
Convert(row) ==
    CASE row.form = "none" -> row
      [] script.mode = "rollback" ->
            IF row.form = "v3"
              THEN [row EXCEPT !.form = "v2", !.key = script.ring.active] ELSE row
      [] OTHER ->
            IF Unreadable(row) \/ (row.form = "v3" /\ ~script.reencrypt) THEN row
            ELSE [row EXCEPT !.form = "v3", !.key = script.ring.active]

\* loadExpectedUnreadableLegacyIds: the ids a run is told to find unreadable.
ExpectedSets(mode) == IF mode = "exact" THEN SUBSET Reading ELSE {{}}

StartRun(mode, reencrypt, expected) ==
    /\ script = NoScript
    /\ turned # "turned"        \* the server is restarted first
    /\ mode = "rollback" => ~app.up /\ ~reencrypt
    /\ expected \in ExpectedSets(mode)
    /\ script' = [mode |-> mode, phase |-> "preflight", cursor |-> 0,
                  reencrypt |-> reencrypt, expected |-> expected, failed |-> {},
                  ring |-> ring, snap |-> IF mode = "exact" THEN readings ELSE <<>>]
    /\ outcome' = NoOutcome
    /\ UNCHANGED <<readingVars, journalVars, ring, turned, restored, artifact>>

\* The run ends without having committed what it had not; its locks go.
RunFails ==
    /\ script' = NoScript
    /\ locked' = {}
    /\ UNCHANGED <<readings, app, patch, told, crossed, journalVars, ring, turned,
                   outcome, restored, artifact>>

ScriptDies == script # NoScript /\ RunFails

RunEnds(table) ==
    /\ script' = NoScript
    /\ locked' = {}
    /\ readings' = table
    /\ outcome' = [mode |-> script.mode, expected |-> script.expected]
    /\ turned' = IF turned = "restarted" /\ script.reencrypt THEN "reencrypted"
                                                            ELSE turned
    /\ UNCHANGED <<app, patch, told, crossed, journalVars, ring, restored, artifact>>

\* runPass with apply off: rows are read without locks and nothing is written.
Preflight ==
    LET batch == Batch(readings)
    IN /\ script.mode \in {"apply", "rollback"}
       /\ script.phase = "preflight"
       /\ batch # {}
       /\ \A r \in batch : ~Fatal(readings[r])
       /\ script' = [script EXCEPT !.cursor = LastOf(batch),
                                   !.failed = @ \cup Failures(readings, batch)]
       /\ UNCHANGED <<readingVars, journalVars, ring, turned, outcome, restored,
                      artifact>>

\* A default run that trusts the checks of its batches.
PreflightIgnoresFailures ==
    /\ script.mode \in {"apply", "rollback"}
    /\ script.phase = "preflight"
    /\ Batch(readings) = {}
    /\ script' = [script EXCEPT !.phase = "write", !.cursor = 0, !.failed = {}]
    /\ UNCHANGED <<readingVars, journalVars, ring, turned, outcome, restored,
                   artifact>>

\* The failures found must be the expected ones before anything is written.
PreflightEnds ==
    /\ script.mode \in {"apply", "rollback"}
    /\ script.phase = "preflight"
    /\ Batch(readings) = {}
    /\ script.failed = script.expected
    /\ script' = [script EXCEPT !.phase = "write", !.cursor = 0, !.failed = {}]
    /\ UNCHANGED <<readingVars, journalVars, ring, turned, outcome, restored,
                   artifact>>

\* The batch a run cannot go on with.
Stuck ==
    \/ /\ script.mode \in {"apply", "rollback"}
       /\ LET batch == Batch(readings)
          IN \/ \E r \in batch : Fatal(readings[r])
             \/ script.phase = "write" /\ Failures(readings, batch) # {}
             \/ /\ script.phase = "preflight"
                /\ batch = {}
                /\ script.failed # script.expected
    \/ /\ script.mode = "exact"
       /\ LET batch == Batch(script.snap)
          IN \/ \E r \in batch : \/ Fatal(script.snap[r])
                                 \/ readings[r] # script.snap[r]
             \/ batch = {} /\ script.failed # script.expected

GivesUp == Stuck /\ RunFails

\* processBatch with apply on, one transaction per batch.
WriteBatch ==
    LET batch == Batch(readings)
    IN /\ script.mode \in {"apply", "rollback"}
       /\ script.phase = "write"
       /\ batch # {}
       /\ ~Stuck
       /\ readings' = [r \in Reading |-> IF r \in batch THEN Convert(readings[r])
                                                    ELSE readings[r]]
       /\ script' = [script EXCEPT !.cursor = LastOf(batch)]
       /\ UNCHANGED <<locked, app, patch, told, crossed, journalVars, ring, turned,
                      outcome, restored, artifact>>

WriteEnds ==
    /\ script.mode \in {"apply", "rollback"}
    /\ script.phase = "write"
    /\ Batch(readings) = {}
    /\ RunEnds(readings)

\* applyWithExpectedUnreadableLegacyIds: the serializable transaction reads
\* its snapshot and locks its rows batch by batch; a row changed since the
\* snapshot ends it.
LockBatch ==
    LET batch == Batch(script.snap)
    IN /\ script.mode = "exact"
       /\ batch # {}
       /\ ~Stuck
       /\ locked' = locked \cup batch
       /\ script' = [script EXCEPT !.cursor = LastOf(batch),
                                   !.failed = @ \cup Failures(script.snap, batch)]
       /\ UNCHANGED <<readings, app, patch, told, crossed, journalVars, ring, turned,
                      outcome, restored, artifact>>

\* The second pass over the locked rows, and the commit.
CommitExact ==
    /\ script.mode = "exact"
    /\ Batch(script.snap) = {}
    /\ ~Stuck
    /\ RunEnds([r \in Reading |-> IF r \in locked THEN Convert(readings[r])
                                                  ELSE readings[r]])

---------------------------------------------------------------------------
(* The operator                                                            *)

\* The new key is added and made active in the environment file.
TurnKey(k) ==
    /\ turned = "no"
    /\ script = NoScript
    /\ k \notin ring.keys
    /\ ring' = [keys |-> ring.keys \cup {k}, active |-> k]
    /\ turned' = "turned"
    /\ UNCHANGED <<readingVars, journalVars, script, outcome, restored, artifact>>

\* The v3 release is not started between a rollback and the older release.
StartServer ==
    /\ StartApp(ring)
    /\ script.mode # "rollback" /\ outcome.mode # "rollback"
    /\ turned' = IF turned = "turned" THEN "restarted" ELSE turned
    /\ UNCHANGED <<journalVars, ring, script, outcome, restored, artifact>>

RemoveOldKeys ==
    /\ turned = "reencrypted"
    /\ script = NoScript
    /\ ring' = [ring EXCEPT !.keys = {ring.active}]
    /\ turned' = "no"
    /\ UNCHANGED <<readingVars, journalVars, script, outcome, restored, artifact>>

RestoreCopy ==
    /\ restored = NoTable
    /\ restored' = readings
    /\ UNCHANGED <<readingVars, journalVars, ring, turned, script, outcome,
                   artifact>>

\* recover: every historical row of the copy is decrypted with the key of the
\* mode (the owner's, the default user's, or one out of a browser, from a key
\* file), or no artifact is written.
Candidates == {r \in Reading : restored[r].form = "legacy"}

\* createEncryptedRecoveryArtifactRecord
Resealed(row) == [row EXCEPT !.form = "v3", !.key = ring.active]

\* An artifact of the rows that could be read.
RecoverSome(mode) ==
    /\ artifact = NoTable
    /\ \E r \in Candidates : restored[r].key = mode
    /\ artifact' = [r \in Reading |->
         IF r \in Candidates /\ restored[r].key = mode
           THEN Resealed(restored[r]) ELSE NoRow]
    /\ UNCHANGED <<readingVars, journalVars, ring, turned, script, outcome,
                   restored>>

Recover(mode) ==
    /\ artifact = NoTable
    /\ Candidates # {}
    /\ \A r \in Candidates : restored[r].key = mode
    /\ artifact' = [r \in Reading |->
         IF r \in Candidates
           THEN Resealed(restored[r]) ELSE NoRow]
    /\ UNCHANGED <<readingVars, journalVars, ring, turned, script, outcome,
                   restored>>

---------------------------------------------------------------------------
IdleRequest(q) == patch[q].reading = 0 /\ draft[q].reading = 0

\* A request may begin beside others, in the parts about overlapping requests.
MayBegin(q) == /\ IdleRequest(q)
               /\ part \in {"edits", "journal"} \/ \A p \in Request : IdleRequest(p)

Creates == \E r \in Reading, f \in Field :
    CreateReading(r, f) /\ \A q \in Request : draft[q].reading # r
Finds == \E q \in Request, r \in Reading, f \in Field : MayBegin(q) /\ FindReading(q, r, f)
Saves == \E q \in Request : SaveReading(q)
Deletes == \E r \in Reading : DeleteReading(r)
Begins == \E q \in Request, r \in Reading, w \in Word :
             MayBegin(q) /\ BeginEntry(q, r, w, w)
Revises == \E q \in Request, r \in Reading, t \in Word \cup {"none"},
              g \in Word \cup {"none"} : MayBegin(q) /\ FindEntry(q, r, t, g)
SavesEntry == \E q \in Request : SaveEntry(q)
Refuses == \E q \in Request : SaveRefused(q)
DeletesEntry == \E r \in Reading : DeleteEntry(r)
Runs == \E mode \in Mode, reencrypt \in BOOLEAN, expected \in SUBSET Reading :
    /\ part = "rollback" <=> mode = "rollback"
    /\ part = "exact" <=> mode = "exact"
    /\ part = "rotation" <=> reencrypt
    /\ StartRun(mode, reencrypt, expected)

Same == UNCHANGED <<toolVars, part>>
Untouched == UNCHANGED part

Next ==
    \/ Creates /\ part \notin {"recovery", "journal"} /\ UNCHANGED journalVars /\ Same
    \/ Finds /\ part # "journal" /\ UNCHANGED journalVars /\ Same
    \/ Saves /\ UNCHANGED journalVars /\ Same
    \/ Deletes /\ part # "rotation" /\ CascadeEntries /\ Same
    \/ DeleteAllReadings /\ part = "edits" /\ CascadeEntries /\ Same
    \/ StopApp /\ part # "edits" /\ ForgetDrafts /\ Same
    \/ Begins /\ part \in {"journal", "rotation"} /\ Same
    \/ Revises /\ part = "journal" /\ Same
    \/ SavesEntry /\ Same
    \/ Refuses /\ Same
    \/ DeletesEntry /\ part = "journal" /\ Same
    \/ StartServer /\ Untouched
    \/ Runs /\ part \in {"edits", "rotation", "exact", "rollback"} /\ Untouched
    \/ ScriptDies /\ Untouched
    \/ Preflight /\ Untouched
    \/ PreflightEnds /\ Untouched
    \/ GivesUp /\ Untouched
    \/ WriteBatch /\ Untouched
    \/ WriteEnds /\ Untouched
    \/ LockBatch /\ Untouched
    \/ CommitExact /\ Untouched
    \/ (\E k \in Key : TurnKey(k)) /\ part = "rotation" /\ Untouched
    \/ RemoveOldKeys /\ Untouched
    \/ RestoreCopy /\ part = "recovery" /\ Untouched
    \/ (\E mode \in LegacyKey : Recover(mode)) /\ Untouched

Spec == ReencryptionInit /\ [][Next]_vars

---------------------------------------------------------------------------
TypeOK ==
    /\ ReadingsTypeOK
    /\ JournalTypeOK
    /\ ring \in Ring
    /\ turned \in {"no", "turned", "restarted", "reencrypted"}
    /\ script.mode \in Mode \cup {"none"}
    /\ script.failed \subseteq Reading
    /\ outcome \in [mode : Mode \cup {"none"}, expected : SUBSET Reading]
    /\ restored \in [Reading -> Row \cup {NoRow}]
    /\ artifact \in [Reading -> Row \cup {NoRow}]

\* A historical document the server cannot decrypt is never rewritten, by an
\* update or by the script, only deleted (readings.service.ts:233-251,
\* encrypt-readings.ts:325-341): its only chance is another key.
DamagedStayAsTheyAre ==
    \A r \in Reading : Damaged(r) => readings'[r] \in {readings[r], NoRow}

\* Whatever the client was told is stored in a reading is in it, through every
\* conversion by the script, unless two requests for it overlapped.
ContentIsKept ==
    \A r \in Reading : <<"reading", r>> \notin crossed =>
        /\ ~Exists(r) => told[r] = {}
        /\ Exists(r) => told[r] = readings[r].has

\* Neither an update nor a run of the script loses what a reading holds, or the
\* chance to decrypt it later (readings.service.ts:109-172, 233-251,
\* encrypt-readings.ts:283-358).
ReadingsAreKept == [][ContentIsKept' /\ DamagedStayAsTheyAre]_vars

\* encrypt-readings writes only when the rows it cannot read are exactly the
\* ones its operator expects, none in a default run: a run that has to fail
\* fails before its first batch (encrypt-readings.ts:505-524, 405-444).
WritesMatchTheExpected ==
    /\ readings' # readings
    /\ script.mode \in {"apply", "exact"}
    /\ script' # script
    => {r \in Reading : Damaged(r)} = script.expected

\* After a run that reported success every row is in the form it promised,
\* whatever the running server wrote meanwhile: an older release that starts
\* after a rollback can read everything.
FinishedRunsAreComplete ==
    \A r \in Reading :
        /\ outcome.mode \in {"apply", "exact"} =>
               \/ readings[r].form \in {"none", "v3"}
               \/ Damaged(r) /\ r \in outcome.expected
        /\ outcome.mode = "rollback" => readings[r].form # "v3"

\* A rotation in the documented order leaves no reading without its key,
\* however requests, restarts and runs that fail overlap with it.
ReadingsStayReadable ==
    \A r \in Reading :
        app.up /\ Exists(r) /\ ~Damaged(r) => Decrypts(readings[r], app.ring.keys)

\* .env.example:38 asks to keep an old key until its readings have been
\* re-encrypted; the entries of the journal use the same keys.
EntriesStayReadable ==
    \A r \in Reading :
        app.up /\ HasEntry(r) => entries[r].key \in app.ring.keys

\* An artifact holds every reading that is still in its historical form and
\* says what that reading says, so importing it loses nothing.
ArtifactsAreComplete ==
    \A r \in Reading :
        artifact # NoTable /\ readings[r].form = "legacy" =>
            artifact[r].form = "v3" /\ artifact[r].has = readings[r].has

\* What a finished run, a rotation of the key or a recovery promises is so, and a
\* run that cannot promise it writes nothing (encrypt-readings.ts:360-545,
\* recover-legacy-readings.ts:117-230).
RunsKeepTheirPromise ==
    [][/\ WritesMatchTheExpected
       /\ ReadingsStayReadable' /\ FinishedRunsAreComplete' /\ ArtifactsAreComplete']_vars
=============================================================================
