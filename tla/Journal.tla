------------------------------ MODULE Journal ------------------------------
(***************************************************************************)
(* Reflections on readings (journal.service.ts): at most one entry for a   *)
(* reading, encrypted under the keyring of the readings and removed with   *)
(* its reading.  Entries are looked up, decrypted, merged and saved like   *)
(* readings, without a lock.                                               *)
(***************************************************************************)
EXTENDS Readings

CONSTANTS Word,       \* what a reflection or its tags may say
          MaxEntry    \* bound: entries ever written

ASSUME JournalConstants == MaxEntry \in Nat /\ "none" \notin Word

Entry == [id : 1..MaxEntry, key : Key, text : Word, tags : Word]
NoEntry == [id |-> 0]
NoSaying == [text |-> "none", tags |-> "none"]

VARIABLES
    entries,    \* the entry of each reading
    written,    \* the number of entries inserted or about to be
    draft,      \* the requests under way
    said        \* what the client was told each entry says

journalVars == <<entries, written, draft, said>>

NoDraft == [reading |-> 0, seen |-> NoEntry, text |-> "none", tags |-> "none",
            late |-> FALSE]

JournalInit ==
    /\ entries = [r \in Reading |-> NoEntry]
    /\ written = 0
    /\ draft = [q \in Request |-> NoDraft]
    /\ said = [e \in 1..MaxEntry |-> NoSaying]

HasEntry(r) == entries[r].id # 0

Overtaken(r, q) ==
    [p \in Request |-> IF p # q /\ draft[p].reading = r
                         THEN [draft[p] EXCEPT !.late = TRUE] ELSE draft[p]]

\* createEntry up to its insert: the reading exists and has no entry yet.
BeginEntry(q, r, text, tags) ==
    /\ app.up
    /\ draft[q].reading = 0
    /\ Exists(r)
    /\ ~HasEntry(r)
    /\ written < MaxEntry
    /\ written' = written + 1
    /\ draft' = [draft EXCEPT ![q] =
                   [reading |-> r, text |-> text, tags |-> tags, late |-> FALSE,
                    seen |-> [id |-> written + 1, key |-> app.ring.active,
                              text |-> text, tags |-> tags]]]
    /\ UNCHANGED <<entries, said, readingVars>>

\* updateEntry up to its save; a field that is not sent is "none".
FindEntry(q, r, text, tags) ==
    /\ app.up
    /\ draft[q].reading = 0
    /\ <<text, tags>> # <<"none", "none">>
    /\ HasEntry(r)
    /\ entries[r].key \in app.ring.keys
    /\ draft' = [draft EXCEPT ![q] =
                   [reading |-> r, text |-> text, tags |-> tags, late |-> FALSE,
                    seen |-> entries[r]]]
    /\ UNCHANGED <<entries, written, said, readingVars>>

\* An update that also saves the fields it was not sent.
RevisionInFull(d) == [id |-> d.seen.id, key |-> app.ring.active,
                      text |-> d.text, tags |-> d.tags]

\* What a request saves: what it was sent over what it read.
Revision(d) == [id |-> d.seen.id, key |-> app.ring.active,
                text |-> IF d.text = "none" THEN d.seen.text ELSE d.text,
                tags |-> IF d.tags = "none" THEN d.seen.tags ELSE d.tags]

\* A table without the foreign key of the reading.
FitsUniqueOnly(d) == \/ ~HasEntry(d.reading)
                     \/ entries[d.reading].id = d.seen.id

\* The unique index on the reading and its foreign key refuse the others.
FitsIndex(d) == /\ Exists(d.reading)
                /\ \/ ~HasEntry(d.reading)
                   \/ entries[d.reading].id = d.seen.id

\* The save of createEntry and updateEntry: a row deleted meanwhile is
\* inserted again.
SaveEntry(q) ==
    LET d == draft[q]
        e == Revision(d)
    IN /\ d.reading # 0
       /\ FitsIndex(d)
       /\ entries' = [entries EXCEPT ![d.reading] = e]
       /\ said' = [said EXCEPT ![e.id] =
                     [text |-> IF d.text = "none" THEN @.text ELSE d.text,
                      tags |-> IF d.tags = "none" THEN @.tags ELSE d.tags]]
       /\ crossed' = IF d.late THEN crossed \cup {<<"entry", e.id>>} ELSE crossed
       /\ draft' = [Overtaken(d.reading, q) EXCEPT ![q] = NoDraft]
       /\ UNCHANGED <<written, readings, locked, app, patch, told>>

\* The save is refused: 409 or an error.
SaveRefused(q) ==
    /\ draft[q].reading # 0
    /\ ~FitsIndex(draft[q])
    /\ draft' = [draft EXCEPT ![q] = NoDraft]
    /\ UNCHANGED <<entries, written, said, readingVars>>

\* deleteEntry deletes the entry by its id.
DeleteEntry(r) ==
    /\ app.up
    /\ HasEntry(r)
    /\ entries' = [entries EXCEPT ![r] = NoEntry]
    /\ said' = [said EXCEPT ![entries[r].id] = NoSaying]
    /\ draft' = [q \in Request |-> IF draft[q].seen.id = entries[r].id
                                     THEN [draft[q] EXCEPT !.late = TRUE]
                                     ELSE draft[q]]
    /\ UNCHANGED <<written, readingVars>>

\* ON DELETE CASCADE, with every deletion of readings.
CascadeEntries ==
    /\ entries' = [r \in Reading |-> IF readings'[r].form = "none" THEN NoEntry
                                                              ELSE entries[r]]
    /\ said' = [e \in 1..MaxEntry |->
                  IF \E r \in Reading : /\ entries[r].id = e
                                        /\ readings'[r].form = "none"
                    THEN NoSaying ELSE said[e]]
    /\ draft' = [q \in Request |->
                   IF /\ draft[q].reading # 0
                      /\ readings'[draft[q].reading].form = "none"
                     THEN [draft[q] EXCEPT !.late = TRUE] ELSE draft[q]]
    /\ UNCHANGED written

\* The requests of a stopped server are gone.
ForgetDrafts ==
    /\ draft' = [q \in Request |-> NoDraft]
    /\ UNCHANGED <<entries, written, said>>

---------------------------------------------------------------------------
JournalTypeOK ==
    /\ entries \in [Reading -> Entry \cup {NoEntry}]
    /\ written \in 0..MaxEntry
    /\ \A q \in Request : draft[q].reading \in Reading \cup {0}

\* An entry says what the last acknowledged update of each of its parts
\* wrote, whatever the script did to readings meanwhile, unless two requests
\* to the same entry overlapped (journal.service.ts:219 saves what it read).
EntriesSayWhatWasWritten ==
    \A r \in Reading :
        HasEntry(r) /\ <<"entry", entries[r].id>> \notin crossed =>
            /\ entries[r].text = said[entries[r].id].text
            /\ entries[r].tags = said[entries[r].id].tags

\* An entry is never left without its reading, and no entry belongs to two
\* readings, however deletions and late saves overlap.
EntriesHaveTheirReading ==
    \A r \in Reading : HasEntry(r) =>
        /\ Exists(r)
        /\ \A s \in Reading \ {r} : entries[s].id # entries[r].id

\* An entry is about a reading that is there and says what its author last wrote,
\* whatever is revised or deleted at the same time (journal.service.ts:173-258).
EntriesStayTrue == EntriesSayWhatWasWritten /\ EntriesHaveTheirReading
=============================================================================
