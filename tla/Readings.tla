----------------------------- MODULE Readings -----------------------------
(***************************************************************************)
(* The saved readings of one user (readings.service.ts) and the documents  *)
(* they are stored as.  A row is a historical document encrypted by the    *)
(* client ("legacy") or an envelope of the server ("v2", "v3") under one   *)
(* of the configured keys.  The application reads a row without a lock,    *)
(* decrypts it, merges the client's fields into it and saves the whole     *)
(* document.  The content of a reading is the set of fields merged into    *)
(* it.                                                                     *)
(***************************************************************************)
EXTENDS Naturals, FiniteSets

CONSTANTS
    Reading,   \* the readings of the user, numbered in the order of their ids
    Field,     \* the fields a client stores or merges
    Key,       \* the ids of the encryption keys
    Request    \* the requests under way at once

ASSUME ReadingsConstants == Reading \subseteq Nat \ {0} /\ IsFiniteSet(Reading)

\* Who encrypted a historical document; only "owner" can be decrypted by the
\* server, and "local" only with the raw key of one browser.
LegacyKey == {"owner", "default_user", "local"}

Row == [form : {"legacy"}, key : LegacyKey, has : SUBSET Field]
         \cup [form : {"v2", "v3"}, key : Key, has : SUBSET Field]
NoRow == [form |-> "none", key |-> "none", has |-> {}]

\* A keyring: the keys configured and the one new documents use.
Ring == {k \in [keys : SUBSET Key, active : Key] : k.active \in k.keys}

VARIABLES
    readings,  \* the table of readings
    locked,    \* rows locked by a transaction of the migration script
    app,       \* the server: whether it runs, and the keyring it started with
    patch,     \* the updates under way
    told,      \* what the client was told is stored in each reading
    crossed    \* readings and entries written by overlapping requests

readingVars == <<readings, locked, app, patch, told, crossed>>

NoPatch == [reading |-> 0, seen |-> NoRow, add |-> {}, late |-> FALSE]
PatchType == [reading : Reading \cup {0}, seen : Row \cup {NoRow},
              add : SUBSET Field, late : BOOLEAN]

Exists(r) == readings[r].form # "none"

\* decryptEnvelope and decryptLegacyClientTree: the document can be read with
\* the keys given.
Decrypts(row, keys) == IF row.form = "legacy" THEN row.key = "owner"
                                             ELSE row.key \in keys

\* encryptPayload: a document is always stored as v3 under the active key.
Sealed(has) == [form |-> "v3", key |-> app.ring.active, has |-> has]

\* Another request that read reading r before this write is now late.
Overtake(r, q) ==
    [p \in Request |-> IF p # q /\ patch[p].reading = r
                         THEN [patch[p] EXCEPT !.late = TRUE] ELSE patch[p]]

ReadingsInit(initial, ring) ==
    /\ readings = initial
    /\ locked = {}
    /\ app = [up |-> TRUE, ring |-> ring]
    /\ patch = [q \in Request |-> NoPatch]
    /\ told = [r \in Reading |-> initial[r].has]
    /\ crossed = {}

---------------------------------------------------------------------------
(* Requests of the client                                                  *)

CreateReading(r, f) ==
    /\ app.up
    /\ ~Exists(r)
    /\ <<"reading", r>> \notin crossed
    /\ \A q \in Request : patch[q].reading # r  \* ids are random: never reused
    /\ readings' = [readings EXCEPT ![r] = Sealed({f})]
    /\ told' = [told EXCEPT ![r] = {f}]
    /\ UNCHANGED <<locked, app, patch, crossed>>

\* An update that refuses nothing: legacy documents are taken as they are.
FindAnyReading(q, r, f) ==
    /\ app.up
    /\ patch[q].reading = 0
    /\ Exists(r)
    /\ patch' = [patch EXCEPT ![q] =
                   [reading |-> r, seen |-> readings[r], add |-> {f}, late |-> FALSE]]
    /\ UNCHANGED <<readings, locked, app, told, crossed>>

\* updateReadingData up to its save: a document that cannot be decrypted is
\* refused.
FindReading(q, r, f) ==
    /\ app.up
    /\ patch[q].reading = 0
    /\ Exists(r)
    /\ Decrypts(readings[r], app.ring.keys)
    /\ patch' = [patch EXCEPT ![q] =
                   [reading |-> r, seen |-> readings[r], add |-> {f}, late |-> FALSE]]
    /\ UNCHANGED <<readings, locked, app, told, crossed>>

MergedPatch(q) == patch[q].seen.has \cup patch[q].add
PatchOnly(q) == patch[q].add

Merged(q) == MergedPatch(q)

\* TypeORM updates the row, or inserts it again when it has been deleted.
SaveReading(q) ==
    LET r == patch[q].reading
    IN /\ r # 0
       /\ r \notin locked
       /\ readings' = [readings EXCEPT ![r] = Sealed(Merged(q))]
       /\ told' = [told EXCEPT ![r] = @ \cup patch[q].add]
       /\ crossed' = IF patch[q].late THEN crossed \cup {<<"reading", r>>}
                                             ELSE crossed
       /\ patch' = [Overtake(r, q) EXCEPT ![q] = NoPatch]
       /\ UNCHANGED <<locked, app>>

\* The rows of a set are deleted by one statement.
Delete(gone) ==
    /\ app.up
    /\ gone # {}
    /\ gone \cap locked = {}
    /\ readings' = [r \in Reading |-> IF r \in gone THEN NoRow ELSE readings[r]]
    /\ told' = [r \in Reading |-> IF r \in gone THEN {} ELSE told[r]]
    /\ patch' = [q \in Request |-> IF patch[q].reading \in gone
                                     THEN [patch[q] EXCEPT !.late = TRUE]
                                     ELSE patch[q]]
    /\ UNCHANGED <<locked, app, crossed>>

DeleteReading(r) == Exists(r) /\ Delete({r})

DeleteAllReadings == Delete({r \in Reading : Exists(r)})

\* The server is stopped: what its requests had not saved is gone.
StopApp ==
    /\ app.up
    /\ app' = [app EXCEPT !.up = FALSE]
    /\ patch' = [q \in Request |-> NoPatch]
    /\ UNCHANGED <<readings, locked, told, crossed>>

\* ReadingEncryption reads the keyring when the server starts.
StartApp(ring) ==
    /\ ~app.up
    /\ app' = [up |-> TRUE, ring |-> ring]
    /\ UNCHANGED <<readings, locked, patch, told, crossed>>

---------------------------------------------------------------------------
ReadingsTypeOK ==
    /\ readings \in [Reading -> Row \cup {NoRow}]
    /\ locked \subseteq Reading
    /\ app \in [up : BOOLEAN, ring : Ring]
    /\ patch \in [Request -> PatchType]
    /\ told \in [Reading -> SUBSET Field]

Damaged(r) == readings[r].form = "legacy" /\ readings[r].key # "owner"
=============================================================================
