------------------------------- MODULE Notes --------------------------------
(***************************************************************************)
(* A note: its text and revisions, its share link, the users it is shared  *)
(* with, its invites and its images (src/src/notes/notes.service.ts).      *)
(* Every operation reads the row, checks what it has read, and saves the   *)
(* whole entity: save reads the row again, without a lock, and writes the  *)
(* columns that differ, also those that others have changed meanwhile; a   *)
(* row that is gone is inserted again.  A statement may fail, and one that *)
(* saves the row may be committed although its answer is lost: the request *)
(* then ends as one that failed.                                           *)
(*                                                                         *)
(* There is one note.  Titles, colours, pins, passwords, image sizes, the  *)
(* limits on lengths and whether a friend may edit are left out: an        *)
(* operation on them saves the row all the same (SaveOther).  What only    *)
(* reads is left out too.                                                  *)
(***************************************************************************)
EXTENDS Integers, Sequences, FiniteSets

CONSTANTS
  Proc,          \* concurrent requests
  Friend,        \* users who may be invited
  NoFriend,
  Scenes,        \* sets of operations, one of which is in use
  UploadsOnDisk, \* the object storage is the upload directory itself
  MaxHistory,    \* MAX_SERVER_HISTORY
  MaxImages,     \* MAX_IMAGES_PER_NOTE
  MaxText,       \* bound: texts
  MaxKey,        \* bound: images that are uploaded
  MaxLink,       \* bound: share tokens that are drawn
  MaxInvite,     \* bound: invites that are sent
  MaxLost        \* bound: columns overwritten unseen when a request of a scene begins

ASSUME NotesConstants ==
  /\ UploadsOnDisk \in BOOLEAN /\ NoFriend \notin Friend
  /\ {MaxHistory, MaxImages, MaxKey, MaxInvite} \subseteq Nat /\ MaxLost \in [Scenes -> Nat]
  /\ {MaxText, MaxLink} \subseteq Nat \ {0}   \* the note is written, and may have a link

None == 0
Text == 0 .. MaxText            \* 0 is the empty text
Key == 1 .. MaxKey
Link == 1 .. MaxLink
Invite == 1 .. MaxInvite
Mode == {"none", "view", "edit"}
Columns == {"owner", "text", "history", "mode", "link", "sharedWith", "images"}

VARIABLES
  scene,       \* the operations in use
  exists,      \* the row is there
  note,        \* the row
  files,       \* images in the object storage
  invites,     \* the rows of note_invites
  lastKey, lastLink, lastInvite,  \* how many have been drawn
  req,         \* what each request is doing
  lost,        \* history: columns of which a save has written, or was based on,
               \* another value than the row held
  astray,      \* history: images that the code has let out of the storage, or may,
               \* while the row names them: those a deletion of the note unlinks,
               \* those a save brings back, and that of a save without an answer
  owed,        \* history: texts of an account's note, but for those that were
               \* replaced without a revision
  closed,      \* history: share links that were closed
  removed      \* history: friends who were removed

row == <<exists, note>>
drawn == <<lastKey, lastLink, lastInvite>>
history == <<lost, astray, owed, closed, removed>>
notesVars == <<scene, row, files, invites, drawn, req, history>>

NewNote == [owner |-> "guest", text |-> 0, history |-> <<>>, mode |-> "none",
            link |-> None, sharedWith |-> {}, images |-> {}]

(***************************************************************************)
(* pc: "upload" is about to store an image for `entity'; "save" is about   *)
(* to save `entity', in which it has changed the columns of `base';        *)
(* "write" has found that `update' brings the row there, "insert" that     *)
(* there is no row; "clean" deletes the image `old', "delete" the row.     *)
(* "check" and "invite" are steps of an invitation of `friend', "accept"   *)
(* and "mark" of the acceptance of `invite'.  `key' is an image the        *)
(* request has stored, and a `plain' request keeps no revision.            *)
(***************************************************************************)
Nothing == [c \in {} |-> None]
Idle == [pc |-> "idle", entity |-> NewNote, base |-> Nothing, update |-> Nothing,
         key |-> None, old |-> None, invite |-> None, friend |-> NoFriend, plain |-> FALSE]

NotesTypeOK ==
  /\ scene \in Scenes /\ exists \in BOOLEAN /\ DOMAIN note = Columns
  /\ note.owner \in {"guest", "user"} /\ note.mode \in Mode
  /\ note.text \in Text /\ note.history \in Seq(Text) /\ Len(note.history) <= MaxHistory
  /\ note.link \in Link \cup {None} /\ note.sharedWith \subseteq Friend
  /\ note.images \subseteq Key /\ files \subseteq Key
  /\ invites \in [Invite -> [to : Friend \cup {NoFriend},
                             state : {"none", "pending", "expired", "accepted"}]]
  /\ lastKey \in 0 .. MaxKey /\ lastLink \in 0 .. MaxLink /\ lastInvite \in 0 .. MaxInvite
  /\ \A p \in Proc :
       /\ req[p].pc \in {"idle", "upload", "save", "write", "insert", "clean", "delete",
                         "check", "invite", "accept", "mark"}
       /\ DOMAIN req[p].entity = Columns
       /\ DOMAIN req[p].base \cup DOMAIN req[p].update \subseteq Columns
       /\ {req[p].key, req[p].old} \subseteq Key \cup {None}
       /\ req[p].invite \in Invite \cup {None} /\ req[p].friend \in Friend \cup {NoFriend}
  /\ lost \subseteq Columns \cup {"row"} /\ astray \subseteq Key
  /\ owed \subseteq Text /\ closed \subseteq Link /\ removed \subseteq Friend

\* A note that has been written, with or without an account, and may have a link.
NotesInit ==
  /\ scene \in Scenes
  /\ exists = TRUE
  /\ \E o \in {"guest", "user"}, m \in {"none", "edit"} :
       /\ o = "user" \/ "claim" \in scene
       /\ m = "none" \/ "update by link" \in scene
       /\ note = [NewNote EXCEPT !.owner = o, !.text = 1, !.mode = m,
                                 !.link = IF m = "none" THEN None ELSE 1]
       /\ lastLink = note.link
       /\ owed = IF o = "user" THEN {1} ELSE {}
  /\ files = {} /\ lastKey = 0 /\ lastInvite = 0
  /\ invites = [i \in Invite |-> [to |-> NoFriend, state |-> "none"]]
  /\ req = [p \in Proc |-> Idle]
  /\ lost = {} /\ astray = {} /\ closed = {} /\ removed = {}

At(p, pc) == req[p].pc = pc
Become(p, r) == req' = [req EXCEPT ![p] = r]
Finish(p) == Become(p, Idle)
CanBegin(p, op) ==
  op \in scene /\ At(p, "idle") /\ exists /\ Cardinality(lost) <= MaxLost[scene]

\* readNoteImage: what the note names and the storage has.
Readable == note.images \cap files

-----------------------------------------------------------------------------
(* Operations that change the entity they have read and save it.           *)

Save(p, entity, changed, r) ==
  Become(p, [r EXCEPT !.pc = "save", !.entity = entity,
                      !.base = [c \in changed |-> note[c]]])

FirstOf(s) == SubSeq(s, 1, IF Len(s) < MaxHistory THEN Len(s) ELSE MaxHistory)

RevisedUnlessLatest(n, t) ==
  [n EXCEPT !.text = t,
            !.history = IF n.owner = "guest" THEN <<>>
                        ELSE IF n.text \in {0, t} \/ (@ # <<>> /\ Head(@) = t) THEN @
                        ELSE FirstOf(<<n.text>> \o @)]

\* The previous text becomes the newest revision, unless it is empty or is the
\* newest one already; a guest's note has no revisions.
Revised(n, t) ==
  LET kept == n.text \in {0, t} \/ (n.history # <<>> /\ Head(n.history) = n.text)
  IN [n EXCEPT !.text = t,
               !.history = IF n.owner = "guest" THEN <<>>
                           ELSE IF kept THEN @ ELSE FirstOf(<<n.text>> \o @)]

\* updateNote, by the owner or by a friend who may edit.
UpdateNote(p) ==
  /\ CanBegin(p, "update")
  /\ \E t \in Text : Save(p, Revised(note, t), {"text", "history"},
                          [Idle EXCEPT !.plain = note.owner = "guest"])
  /\ UNCHANGED <<scene, row, files, invites, drawn, history>>

UpdateByShareToken(p) ==
  /\ CanBegin(p, "update by link") /\ note.link # None /\ note.mode = "edit"
  /\ \E t \in Text : Save(p, [note EXCEPT !.text = t], {"text"}, [Idle EXCEPT !.plain = TRUE])
  /\ UNCHANGED <<scene, row, files, invites, drawn, history>>

\* setNotePassword, and updateNote of a colour or a pin.
SaveOther(p) ==
  /\ CanBegin(p, "other")
  /\ Save(p, note, {}, Idle)
  /\ UNCHANGED <<scene, row, files, invites, drawn, history>>

ClaimGuestNotes(p) ==
  /\ CanBegin(p, "claim") /\ note.owner = "guest"
  /\ Save(p, [note EXCEPT !.owner = "user"], {"owner"}, Idle)
  /\ UNCHANGED <<scene, row, files, invites, drawn, history>>

UpdateShareMode(p) ==
  /\ CanBegin(p, "share") /\ lastLink < MaxLink
  /\ \E m \in Mode :
       LET draws == m # "none" /\ note.link = None IN
       /\ lastLink' = IF draws THEN lastLink + 1 ELSE lastLink
       /\ Save(p, [note EXCEPT !.mode = m, !.link = IF draws THEN lastLink + 1 ELSE @],
               {"mode", "link"}, Idle)
  /\ UNCHANGED <<scene, row, files, invites, lastKey, lastInvite, history>>

UpdateShareSettings(p) ==
  /\ CanBegin(p, "share")
  /\ \E m \in Mode :
       \/ /\ m # "none" /\ note.link = None /\ lastLink < MaxLink
          /\ lastLink' = lastLink + 1
          /\ Save(p, [note EXCEPT !.mode = m, !.link = lastLink + 1], {"mode", "link"}, Idle)
       \/ /\ m = "none" \/ note.link # None
          /\ Save(p, [note EXCEPT !.mode = m, !.link = IF m = "none" THEN None ELSE @],
                  {"mode", "link"}, Idle)
          /\ UNCHANGED lastLink
  /\ UNCHANGED <<scene, row, files, invites, lastKey, lastInvite, history>>

RemoveSharedUser(p) ==
  /\ CanBegin(p, "remove") /\ note.owner = "user"
  /\ \E f \in Friend : Save(p, [note EXCEPT !.sharedWith = @ \ {f}], {"sharedWith"},
                            [Idle EXCEPT !.friend = f])
  /\ UNCHANGED <<scene, row, files, invites, drawn, history>>

-----------------------------------------------------------------------------
(* Images.                                                                 *)

UploadImage(p) ==
  /\ CanBegin(p, "upload") /\ Cardinality(note.images) < MaxImages
  /\ Become(p, [Idle EXCEPT !.pc = "upload", !.entity = note])
  /\ UNCHANGED <<scene, row, files, invites, drawn, history>>

\* put of the object storage
Put(k) == files' = files \cup {k}

\* The file is stored before the row names it.
PutImage(p) ==
  LET k == lastKey + 1
      n == req[p].entity
  IN /\ At(p, "upload") /\ k \in Key
     /\ lastKey' = k /\ Put(k)
     /\ Become(p, [Idle EXCEPT !.pc = "save", !.key = k, !.base = [c \in {"images"} |-> n[c]],
                               !.entity = [n EXCEPT !.images = @ \cup {k}]])
     /\ UNCHANGED <<scene, row, invites, lastLink, lastInvite, history>>

DeleteFileFirst(p) ==
  /\ CanBegin(p, "delete image")
  /\ \E k \in note.images : /\ files' = files \ {k}
                            /\ Save(p, [note EXCEPT !.images = @ \ {k}], {"images"}, Idle)
  /\ UNCHANGED <<scene, row, invites, drawn, history>>

DeleteImage(p) ==
  /\ CanBegin(p, "delete image")
  /\ \E k \in note.images : Save(p, [note EXCEPT !.images = @ \ {k}], {"images"},
                                 [Idle EXCEPT !.old = k])
  /\ UNCHANGED <<scene, row, files, invites, drawn, history>>

\* After the row does not name it any more.
CleanImage(p) ==
  /\ At(p, "clean")
  /\ files' = files \ {req[p].old}
  /\ Finish(p)
  /\ UNCHANGED <<scene, row, invites, drawn, history>>

\* The files in the upload directory are unlinked first ...
BeginDelete(p) ==
  /\ CanBegin(p, "delete")
  /\ LET unlinked == IF UploadsOnDisk THEN note.images ELSE {} IN
       files' = files \ unlinked /\ astray' = astray \cup unlinked
  /\ Become(p, [Idle EXCEPT !.pc = "delete"])
  /\ UNCHANGED <<scene, row, invites, drawn, lost, owed, closed, removed>>

\* ... and the row is deleted then, its invites with it.
DeleteNote(p) ==
  /\ At(p, "delete")
  /\ exists' = FALSE
  /\ invites' = [i \in Invite |-> [invites[i] EXCEPT !.state = "none"]]
  /\ Finish(p)
  /\ UNCHANGED <<scene, note, files, drawn, history>>

-----------------------------------------------------------------------------
(* Invites.                                                                *)

SendShareInvite(p) ==
  /\ CanBegin(p, "invite") /\ note.owner = "user" /\ lastInvite < MaxInvite
  /\ \E f \in Friend :
       /\ f \notin note.sharedWith
       /\ Become(p, [Idle EXCEPT !.pc = "check", !.friend = f])
  /\ UNCHANGED <<scene, row, files, invites, drawn, history>>

Unaccepted(f) == {i \in Invite : invites[i].to = f /\ invites[i].state \in {"pending", "expired"}}

\* findOne returns any of the invites that were not accepted.
CheckPending(p) ==
  LET found == Unaccepted(req[p].friend) IN
  /\ At(p, "check")
  /\ \/ (found = {} \/ \E i \in found : invites[i].state = "expired")
          /\ Become(p, [req[p] EXCEPT !.pc = "invite"])
     \/ (\E i \in found : invites[i].state = "pending") /\ Finish(p)
  /\ UNCHANGED <<scene, row, files, invites, drawn, history>>

\* The e-mail that follows may fail.
InsertInvite(p) ==
  /\ At(p, "invite") /\ lastInvite < MaxInvite
  /\ IF exists
     THEN /\ lastInvite' = lastInvite + 1
          /\ invites' = [invites EXCEPT ![lastInvite + 1] =
                           [to |-> req[p].friend, state |-> "pending"]]
     ELSE UNCHANGED <<invites, lastInvite>>
  /\ Finish(p)
  /\ UNCHANGED <<scene, row, files, lastKey, lastLink, history>>

AcceptInvite(p) ==
  /\ CanBegin(p, "accept")
  /\ \E i \in Invite : /\ invites[i].state = "pending"
                       /\ Become(p, [Idle EXCEPT !.pc = "accept", !.invite = i])
  /\ UNCHANGED <<scene, row, files, invites, drawn, history>>

SpendBeforeSharing(p) ==
  LET i == req[p].invite
      f == invites[i].to
  IN /\ At(p, "accept") /\ exists
     /\ invites' = [invites EXCEPT ![i].state = "accepted"]
     /\ Save(p, [note EXCEPT !.sharedWith = @ \cup {f}], {"sharedWith"}, req[p])
     /\ UNCHANGED <<scene, row, files, drawn, history>>

ReadForAccept(p) ==
  LET i == invites[req[p].invite] IN
  /\ At(p, "accept")
  /\ CASE ~exists -> Finish(p)
       [] exists /\ i.to \in note.sharedWith -> Become(p, [req[p] EXCEPT !.pc = "mark"])
       [] OTHER -> Save(p, [note EXCEPT !.sharedWith = @ \cup {i.to}], {"sharedWith"}, req[p])
  /\ UNCHANGED <<scene, row, files, invites, drawn, history>>

\* The invite is spent after the note is shared.
MarkAccepted(p) ==
  /\ At(p, "mark")
  /\ invites' = IF exists THEN [invites EXCEPT ![req[p].invite].state = "accepted"] ELSE invites
  /\ Finish(p)
  /\ UNCHANGED <<scene, row, files, drawn, history>>

ExpireInvite(i) ==
  /\ invites[i].state = "pending"
  /\ invites' = [invites EXCEPT ![i].state = "expired"]
  /\ UNCHANGED <<scene, row, files, drawn, req, history>>

\* cleanupExpiredNotes, every night.
CleanupExpiredInvites ==
  /\ \E i \in Invite : invites[i].state = "expired"
  /\ invites' = [i \in Invite |-> IF invites[i].state = "expired"
                   THEN [invites[i] EXCEPT !.state = "none"] ELSE invites[i]]
  /\ UNCHANGED <<scene, row, files, drawn, req, history>>

-----------------------------------------------------------------------------
(* The statements of save, and failures.                                   *)

AfterSave(p) ==
  LET r == req[p] IN
  Become(p, CASE r.invite # None -> [Idle EXCEPT !.pc = "mark", !.invite = r.invite]
              [] r.old # None -> [Idle EXCEPT !.pc = "clean", !.old = r.old]
              [] OTHER -> Idle)

\* save reads the row and compares it with the entity.
Reload(p) ==
  LET r == req[p]
      differ == {c \in Columns : note[c] # r.entity[c]}
      read(c) == IF c \in DOMAIN r.base THEN r.base[c] ELSE r.entity[c]
  IN /\ At(p, "save")
     /\ CASE ~exists -> Become(p, [r EXCEPT !.pc = "insert"])
          [] exists /\ differ = {} -> AfterSave(p)
          [] OTHER -> Become(p, [r EXCEPT !.pc = "write", !.entity = NewNote,
                                          !.base = [c \in differ \cup DOMAIN @ |-> read(c)],
                                          !.update = [c \in differ |-> r.entity[c]]])
     /\ UNCHANGED <<scene, row, files, invites, drawn, history>>

Chronicle(p, n) ==
  LET r == req[p] IN
  /\ owed' = IF n.owner = "guest" THEN {}
             ELSE (IF r.plain THEN owed \ {note.text} ELSE owed) \cup {n.text}
  /\ closed' = IF n.mode = "none" /\ note.mode # "none" THEN (closed \cup {note.link}) \ {None}
               ELSE closed
  /\ removed' = (removed \cup {r.friend}) \ {NoFriend}

\* The images that a save of n brings back to the row, and those, gone, that its
\* error path deletes.
Strays(p, n, gone) ==
  astray' = astray \cup gone \cup
              (n.images \ ((IF exists THEN note.images ELSE {}) \cup {req[p].key}))

\* An UPDATE of a row that is gone changes nothing.
Update(p, gone) ==
  LET r == req[p]
      n == [c \in Columns |-> IF c \in DOMAIN r.update THEN r.update[c] ELSE note[c]]
  IN /\ At(p, "write")
     /\ IF exists
        THEN /\ note' = n
             /\ lost' = lost \cup {c \in DOMAIN r.base : note[c] # r.base[c]}
             /\ Strays(p, n, gone)
             /\ Chronicle(p, n)
        ELSE UNCHANGED <<note, history>>
     /\ UNCHANGED exists

\* The note that was deleted is back.
Insert(p, gone) ==
  /\ At(p, "insert") /\ ~exists
  /\ exists' = TRUE /\ note' = req[p].entity
  /\ lost' = lost \cup {"row"}
  /\ Strays(p, req[p].entity, gone)
  /\ Chronicle(p, req[p].entity)

Write(p) == Update(p, {}) /\ AfterSave(p) /\ UNCHANGED <<scene, files, invites, drawn>>

Reinsert(p) == Insert(p, {}) /\ AfterSave(p) /\ UNCHANGED <<scene, files, invites, drawn>>

\* The database or the storage fails, or the process dies: a stored image that
\* no row names is deleted again, if that succeeds.
Fail(p) ==
  /\ ~At(p, "idle")
  /\ files' \in {files, files \ {req[p].key}}
  /\ Finish(p)
  /\ UNCHANGED <<scene, row, invites, drawn, history>>

\* The row is saved and the answer lost: the error path is the same, although the
\* row may name the image now.  (After any other statement a lost answer leaves
\* what the answer, or a failure without its effect, would.)
AnswerLost(p) ==
  /\ \E gone \in {{}, {req[p].key} \ {None}} :
       /\ Update(p, gone) \/ Insert(p, gone)
       /\ files' = files \ gone
  /\ Finish(p)
  /\ UNCHANGED <<scene, invites, drawn>>

TextStep(p) ==
  \/ UpdateNote(p) \/ UpdateByShareToken(p) \/ SaveOther(p) \/ ClaimGuestNotes(p)
  \/ BeginDelete(p) \/ DeleteNote(p)

ShareStep(p) ==
  \/ UpdateShareSettings(p) \/ RemoveSharedUser(p)
  \/ SendShareInvite(p) \/ CheckPending(p) \/ InsertInvite(p)
  \/ AcceptInvite(p) \/ ReadForAccept(p) \/ MarkAccepted(p)

ImageStep(p) ==
  \/ UploadImage(p) \/ PutImage(p) \/ DeleteImage(p) \/ CleanImage(p)

SaveStep(p) == Reload(p) \/ Write(p) \/ Reinsert(p) \/ Fail(p) \/ AnswerLost(p)

NotesNext ==
  \/ \E p \in Proc : TextStep(p) \/ ShareStep(p) \/ ImageStep(p) \/ SaveStep(p)
  \/ \E i \in Invite : ExpireInvite(i)
  \/ CleanupExpiredInvites

NotesSpec == NotesInit /\ [][NotesNext]_notesVars

-----------------------------------------------------------------------------
(* Properties.  Most excuse the columns of which a save has not seen the   *)
(* latest value: that is what the code does not prevent.                   *)

Unharmed(columns) == lost \cap (columns \cup {"row"}) = {}

\* However edits by the owner, by friends and through the link interleave, a text
\* that updateNote replaced is the current text or a revision, until newer
\* revisions push it out (notes.service.ts:436-471).
RevisionsAreKept ==
  exists /\ note.owner = "user" /\ Unharmed({"owner", "text", "history"}) =>
    \A t \in owed \ {0} :
      \/ t = note.text \/ Len(note.history) = MaxHistory
      \/ \E i \in DOMAIN note.history : note.history[i] = t

\* A share link that was closed is never the way to the note again, and a note
\* that is open has a link, whatever else is saved (notes.service.ts:620-640).
ClosedLinksStayClosed ==
  exists /\ note.mode # "none" /\ Unharmed({"mode", "link"}) => note.link \notin closed \cup {None}

\* Whoever has accepted an invite has the note, until the owner takes it away:
\* an invite is not spent in vain, whatever fails half-way
\* (notes.service.ts:704-738).
AcceptedIsShared ==
  exists /\ Unharmed({"sharedWith"}) =>
    \A i \in Invite : invites[i].state = "accepted" =>
      invites[i].to \in note.sharedWith \cup removed

\* Sharing and unsharing stick, whatever else is saved meanwhile
\* (notes.service.ts:620-738).
SharingSticks == ClosedLinksStayClosed /\ AcceptedIsShared

\* Every image the note names can be read, whatever uploads and deletions run or
\* fail, also after a deletion of the note has failed or a save has brought back
\* what it had read (notes.service.ts:589-618, 759-817, 868-901): what is missing
\* was unlinked to delete the note, brought back, or deleted when the answer to
\* its save was lost, and nothing that is stored later.
ImagesAreStored == exists => note.images \ astray \subseteq Readable

=============================================================================
