------------------------------ MODULE Contact -------------------------------
(***************************************************************************)
(* Messages of visitors and the images attached to them                    *)
(* (src/src/contact/contact.service.ts).  The images of a message are      *)
(* stored one after another, then the row is inserted, then an e-mail is   *)
(* sent from the stored images, while the visitor has the answer already.  *)
(*                                                                         *)
(* What the visitor writes, where the visitor comes from, the token for    *)
(* the history of a session and the mark that a message was read are left  *)
(* out: only the row and the images it names matter here.                  *)
(***************************************************************************)
EXTENDS Integers, FiniteSets

CONSTANTS
  Message,    \* messages that are sent
  MaxImages   \* images of one message

ASSUME ContactConstants == MaxImages \in Nat

VARIABLES
  phase,    \* where createMessage is for each message
  images,   \* how many images each message has
  stored,   \* how many of them are stored
  rows,     \* messages in the database
  files,    \* images in the upload directory
  unsure    \* history: messages that were saved, but the answer was lost

contact == <<phase, images, stored, rows, files, unsure>>

\* The storage keys of a message are drawn at random: they are its own.
Keys(m) == {m} \X (1 .. images[m])
Image == Message \X (1 .. MaxImages)

ContactTypeOK ==
  /\ phase \in [Message -> {"new", "storing", "notifying", "ended"}]
  /\ images \in [Message -> 0 .. MaxImages] /\ stored \in [Message -> 0 .. MaxImages]
  /\ rows \subseteq Message /\ files \subseteq Image /\ unsure \subseteq Message

ContactInit ==
  /\ phase = [m \in Message |-> "new"]
  /\ images = [m \in Message |-> 0] /\ stored = [m \in Message |-> 0]
  /\ rows = {} /\ files = {} /\ unsure = {}

\* The controller has checked the message and its images.
CreateMessage(m) ==
  /\ phase[m] = "new"
  /\ phase' = [phase EXCEPT ![m] = "storing"]
  /\ \E n \in 0 .. MaxImages : images' = [images EXCEPT ![m] = n]
  /\ UNCHANGED <<stored, rows, files, unsure>>

\* persistImages, one image after another.
PersistImage(m) ==
  LET n == stored[m] + 1 IN
  /\ phase[m] = "storing" /\ n <= images[m]
  /\ files' = files \cup {<<m, n>>}
  /\ stored' = [stored EXCEPT ![m] = n]
  /\ UNCHANGED <<phase, images, rows, unsure>>

SaveFirst(m) ==
  /\ phase[m] = "storing"
  /\ rows' = rows \cup {m}
  /\ phase' = [phase EXCEPT ![m] = IF stored[m] = images[m] THEN "notifying" ELSE @]
  /\ UNCHANGED <<images, stored, files, unsure>>

SaveMessage(m) ==
  /\ phase[m] = "storing" /\ stored[m] = images[m]
  /\ rows' = rows \cup {m}
  /\ phase' = [phase EXCEPT ![m] = "notifying"]
  /\ UNCHANGED <<images, stored, files, unsure>>

\* Storing or saving fails, or the process dies.  Each stored image is deleted
\* again, if that succeeds.  The row may be there when the answer of the
\* database was lost.
CreateFails(m) ==
  /\ phase[m] = "storing"
  /\ phase' = [phase EXCEPT ![m] = "ended"]
  /\ \E left \in SUBSET Keys(m) : files' = files \ left
  /\ \/ UNCHANGED <<rows, unsure>>
     \/ /\ stored[m] = images[m]
        /\ rows' = rows \cup {m} /\ unsure' = unsure \cup {m}
  /\ UNCHANGED <<images, stored>>

\* The e-mail is sent or not; nobody waits for it.
Notify(m) ==
  /\ phase[m] = "notifying"
  /\ phase' = [phase EXCEPT ![m] = "ended"]
  /\ UNCHANGED <<images, stored, rows, files, unsure>>

\* The files are kept, for the backups that hold the row.
DeleteMessage(m) ==
  /\ m \in rows
  /\ rows' = rows \ {m}
  /\ UNCHANGED <<phase, images, stored, files, unsure>>

-----------------------------------------------------------------------------
(* Properties.                                                             *)

\* The images of a message can be read as long as the message exists, and until
\* its e-mail is sent, even if an administrator deletes it in between
\* (contact.service.ts:217-262, 483-496, 545-553).
MessagesKeepTheirImages ==
  \A m \in Message \ unsure :
    m \in rows \/ phase[m] = "notifying" => Keys(m) \subseteq files

=============================================================================
