----------------------------- MODULE DraftFiles -----------------------------
(***************************************************************************)
(* The files of one draft, from the owner's choice to the send             *)
(* (compose-data.ts, draft-editor.tsx, packages/offline/src/store.ts).     *)
(*                                                                         *)
(* A file travels in two requests: its bytes to POST /uploads, then the    *)
(* link to POST /drafts/:id/uploads.  Without a connection, or when the    *)
(* first is not answered, the bytes stay on the device and a replay pass   *)
(* uploads them; when only the link is missing, the device remembers the   *)
(* acknowledged id and the editor links it later, with every list of       *)
(* attachments it reads.  Any answer can be lost, and the page can be      *)
(* reloaded between any two steps: the device's records stay.              *)
(*                                                                         *)
(* One file is added at a time (fileBusy), one pass of the editor and one  *)
(* upload of the replay run at a time; a send queued without a connection, *)
(* reviews and generations are the subject of OfflineReplay.               *)
(***************************************************************************)
EXTENDS Naturals, Sequences, FiniteSets

CONSTANTS
    Files,         \* the files the owner adds, each once
    MaxCopies      \* rows of the uploads table

VARIABLES
    copies,        \* the server's uploads: the file of each id
    linked,        \* the ids the server draft references
    draftLocked,   \* whether a queued send froze the draft
    online,        \* what the browser knows of its connection
    records,       \* the device's upload records: acknowledged id, attached
    queued,        \* files with an upload action waiting in the queue
    adding,        \* the file being added and how far it came
    replaying,     \* the upload the replay pass is at
    refreshing,    \* the read of the attachment list
    listed,        \* the editor's attachments, by id
    pendingUploads, \* the files the editor shows as waiting
    relinking,     \* the editor's pass over acknowledged uploads
    removed,       \* history: files the owner took off the draft
    reported       \* history: files the editor said are attached or queued

vars == <<copies, linked, draftLocked, online, records, queued, adding, replaying,
          refreshing, listed, pendingUploads, relinking, removed, reported>>

Id == 1 .. MaxCopies
Unsent == 0                          \* serverId null: the bytes are here
NoFile == "none"
Idle == [file |-> NoFile, step |-> "idle", id |-> Unsent]
Quiet == [step |-> "idle", now |-> NoFile, known |-> {}, todo |-> {}, changed |-> FALSE]

TypeOK ==
    LET Task == [file : Files \cup {NoFile}, id : Id \cup {Unsent},
                 step : {"idle", "upload", "stored", "attach", "linked"}]
    IN  /\ copies \in Seq(Files) /\ Len(copies) <= MaxCopies
        /\ linked \subseteq DOMAIN copies
        /\ draftLocked \in BOOLEAN /\ online \in BOOLEAN
        /\ DOMAIN records \subseteq Files
        /\ \A f \in DOMAIN records :
              records[f] \in [id : Id \cup {Unsent}, attached : BOOLEAN]
        /\ queued \subseteq DOMAIN records
        /\ adding \in Task /\ replaying \in Task
        /\ refreshing \in [step : {"idle", "asked", "read"}, ids : SUBSET Id]
        /\ listed \subseteq Id /\ pendingUploads \subseteq Files
        /\ relinking \in [step : {"idle", "next", "asked"}, now : Files \cup {NoFile},
                          known : SUBSET Id, todo : SUBSET Files, changed : BOOLEAN]
        /\ removed \subseteq Files /\ reported \subseteq Files

Init ==
    /\ copies = << >> /\ linked = {} /\ draftLocked = FALSE
    /\ online = TRUE
    /\ records = << >> /\ queued = {}
    /\ adding = Idle /\ replaying = Idle
    /\ refreshing = [step |-> "idle", ids |-> {}]
    /\ listed = {} /\ pendingUploads = {}
    /\ relinking = Quiet
    /\ removed = {} /\ reported = {}

server == <<copies, linked, draftLocked>>
device == <<records, queued>>
screen == <<listed, pendingUploads>>
history == <<removed, reported>>

-----------------------------------------------------------------------------
(* Adding a file.                                                          *)

\* What the editor reads after every change of its files.
AskList == refreshing' = [step |-> "asked", ids |-> {}]

\* The record and its action are written together; a full quota refuses both.
PutPendingUpload(f, id) ==
    /\ records' = [g \in DOMAIN records \cup {f} |->
                     IF g = f THEN [id |-> id, attached |-> FALSE] ELSE records[g]]
    /\ queued' = queued \cup {f}
    /\ reported' = reported \cup {f}

Rejected == UNCHANGED <<records, queued, reported>>

queueUpload(f) == PutPendingUpload(f, Unsent) \/ Rejected

AddFile(f) ==
    /\ ~draftLocked /\ adding = Idle
    /\ f \notin reported \cup removed /\ f \notin DOMAIN records
    /\ \A i \in DOMAIN copies : copies[i] # f      \* each file once
    /\ IF online
       THEN /\ adding' = [Idle EXCEPT !.file = f, !.step = "upload"]
            /\ UNCHANGED <<records, queued, reported, refreshing>>
       ELSE queueUpload(f) /\ AskList /\ UNCHANGED adding
    /\ UNCHANGED <<server, online, replaying, screen, relinking, removed>>

\* The server stores the bytes under a new id, whoever sent them.
StoreUpload(f) ==
    /\ Len(copies) < MaxCopies
    /\ copies' = Append(copies, f)

UploadStored ==
    /\ adding.step = "upload"
    /\ StoreUpload(adding.file)
    /\ adding' = [adding EXCEPT !.step = "stored", !.id = Len(copies) + 1]
    /\ UNCHANGED <<linked, draftLocked, online, device, replaying, refreshing, screen,
                   relinking, history>>

UploadAnswered ==
    /\ adding.step = "stored"
    /\ adding' = [adding EXCEPT !.step = "attach"]
    /\ UNCHANGED <<server, online, device, replaying, refreshing, screen,
                   relinking, history>>

\* No answer: the file queues as if it had been added without a connection.
UploadLost ==
    /\ adding.step \in {"upload", "stored"}
    /\ queueUpload(adding.file)
    /\ adding' = Idle /\ AskList
    /\ UNCHANGED <<server, online, replaying, screen, relinking, removed>>

UploadRefused ==
    /\ adding.step = "upload"
    /\ adding' = Idle /\ AskList
    /\ UNCHANGED <<server, online, device, replaying, screen, relinking, history>>

\* A link the draft already has is answered with the row it has.
Link(id) == ~draftLocked /\ linked' = linked \cup {id}

UploadLinked ==
    /\ adding.step = "attach"
    /\ Link(adding.id)
    /\ adding' = [adding EXCEPT !.step = "linked"]
    /\ UNCHANGED <<copies, draftLocked, online, device, replaying, refreshing, screen,
                   relinking, history>>

LinkAnswered ==
    /\ adding.step = "linked"
    /\ reported' = reported \cup {adding.file}
    /\ adding' = Idle /\ AskList
    /\ UNCHANGED <<server, online, device, replaying, screen, relinking, removed>>

\* The acknowledged id is remembered, so that no second copy is uploaded.
Forgotten(id) == Unsent
Remembered(id) == id

LinkFailed ==
    /\ adding.step \in {"attach", "linked"}
    /\ PutPendingUpload(adding.file, Remembered(adding.id)) \/ Rejected
    /\ adding' = Idle /\ AskList
    /\ UNCHANGED <<server, online, replaying, screen, relinking, removed>>

-----------------------------------------------------------------------------
(* The replay of queued uploads.                                           *)

\* An upload whose id is known is done without a request.
ReplayUpload(f) ==
    /\ online /\ replaying = Idle /\ f \in queued
    /\ IF records[f].id # Unsent
       THEN queued' = queued \ {f} /\ AskList /\ UNCHANGED replaying
       ELSE /\ replaying' = [Idle EXCEPT !.file = f, !.step = "upload"]
            /\ UNCHANGED <<queued, refreshing>>
    /\ UNCHANGED <<server, online, records, adding, screen, relinking, history>>

ReplayStored ==
    /\ replaying.step = "upload"
    /\ StoreUpload(replaying.file)
    /\ replaying' = [replaying EXCEPT !.step = "stored", !.id = Len(copies) + 1]
    /\ UNCHANGED <<linked, draftLocked, online, device, adding, refreshing, screen,
                   relinking, history>>

\* The acknowledgement replaces the bytes; the pass ends and the editor reads.
ReplayAnswered ==
    /\ replaying.step = "stored"
    /\ records' = [records EXCEPT ![replaying.file].id = replaying.id]
    /\ queued' = queued \ {replaying.file}
    /\ replaying' = Idle /\ AskList
    /\ UNCHANGED <<server, online, adding, screen, relinking, history>>

ReplayLost ==
    /\ replaying.step # "idle"
    /\ replaying' = Idle /\ AskList
    /\ UNCHANGED <<server, online, device, adding, screen, relinking, history>>

\* Records of linked files go after a week.
Acknowledged(f) == records[f].id # Unsent
Settled(f) == records[f].attached

Prune(f) ==
    /\ f \in DOMAIN records /\ Settled(f)
    /\ records' = [g \in DOMAIN records \ {f} |-> records[g]]
    /\ queued' = queued \ {f}
    /\ UNCHANGED <<server, online, adding, replaying, refreshing, screen,
                   relinking, history>>

-----------------------------------------------------------------------------
(* The editor's lists and its pass over acknowledged uploads.              *)

ReadList ==
    /\ refreshing.step = "asked"
    /\ refreshing' = [step |-> "read", ids |-> linked]
    /\ UNCHANGED <<server, online, device, adding, replaying, screen, relinking,
                   history>>

\* The pass goes over the records as they are when it starts.
StartRelinking(known) ==
    relinking' = [Quiet EXCEPT !.step = "next", !.known = known,
                    !.todo = {f \in DOMAIN records : records[f].id # Unsent}]

\* Every new list starts a pass, and so does a connection that comes back.
ShowList(ids) ==
    /\ listed' = ids
    /\ pendingUploads' = {f \in DOMAIN records : records[f].id = Unsent}
    /\ IF online THEN StartRelinking(ids) ELSE UNCHANGED relinking
    /\ refreshing' = [step |-> "idle", ids |-> {}]

RefreshAttachments ==
    /\ \/ refreshing.step = "read" /\ ShowList(refreshing.ids)
       \/ refreshing.step # "idle" /\ ShowList({})           \* the read failed
    /\ UNCHANGED <<server, online, device, adding, replaying, history>>

\* The next record of the pass: a link the list has is only marked.
Marked(f) == records' = IF f \in DOMAIN records
                        THEN [records EXCEPT ![f].attached = TRUE] ELSE records

Take(f) ==
    /\ relinking.step = "next" /\ f \in relinking.todo
    /\ relinking' = [relinking EXCEPT !.todo = @ \ {f}]

AlreadyLinked(f) ==
    /\ Take(f)
    /\ f \in DOMAIN records /\ records[f].id \in relinking.known
    /\ Marked(f)
    /\ UNCHANGED <<server, online, queued, adding, replaying, refreshing, screen,
                   history>>

\* The link is asked for, and the server sets it; or it does not, and the
\* pass goes on, as it does for a record that is gone.
Relink(f) ==
    /\ relinking.step = "next" /\ f \in relinking.todo
    /\ f \in DOMAIN records /\ records[f].id \notin relinking.known
    /\ Link(records[f].id)
    /\ relinking' = [relinking EXCEPT !.step = "asked", !.now = f, !.todo = @ \ {f}]
    /\ UNCHANGED <<copies, draftLocked, online, device, adding, replaying, refreshing,
                   screen, history>>

NotLinked(f) ==
    /\ Take(f)
    /\ f \in DOMAIN records => records[f].id \notin relinking.known
    /\ UNCHANGED <<server, online, device, adding, replaying, refreshing, screen,
                   history>>

RelinkAnswered ==
    /\ relinking.step = "asked"
    /\ Marked(relinking.now)
    /\ relinking' = [relinking EXCEPT !.step = "next", !.now = NoFile, !.changed = TRUE]
    /\ UNCHANGED <<server, online, queued, adding, replaying, refreshing, screen,
                   history>>

RelinkLost ==
    /\ relinking.step = "asked"
    /\ relinking' = [relinking EXCEPT !.step = "next", !.now = NoFile]
    /\ UNCHANGED <<server, online, device, adding, replaying, refreshing, screen,
                   history>>

RelinkDone ==
    /\ relinking.step = "next" /\ relinking.todo = {}
    /\ relinking' = Quiet
    /\ IF relinking.changed THEN AskList ELSE UNCHANGED refreshing
    /\ UNCHANGED <<server, online, device, adding, replaying, screen, history>>

-----------------------------------------------------------------------------
(* Removing a file, sending, and the world around.                         *)

\* Only the link goes; the device's record of the upload is not touched.
RemoveAttachment(id) ==
    /\ ~draftLocked /\ adding = Idle /\ id \in listed \cap linked
    /\ linked' = linked \ {id}
    /\ removed' = removed \cup {copies[id]}
    /\ AskList
    /\ UNCHANGED <<copies, draftLocked, online, device, adding, replaying, screen,
                   relinking, reported>>

\* The button asks for pendingUploads to be empty; the server freezes what is linked.
Send ==
    /\ online /\ ~draftLocked /\ pendingUploads = {}
    /\ draftLocked' = TRUE
    /\ UNCHANGED <<copies, linked, online, device, adding, replaying, refreshing,
                   screen, relinking, history>>

\* Coming back also ends in a replay pass, after which the lists are read.
Connection ==
    /\ online' = ~online
    /\ IF online THEN UNCHANGED <<refreshing, relinking>>
       ELSE AskList /\ StartRelinking(listed)
    /\ UNCHANGED <<server, device, adding, replaying, screen, history>>

ReloadPage ==
    /\ adding' = Idle /\ replaying' = Idle /\ relinking' = Quiet
    /\ listed' = {} /\ pendingUploads' = {} /\ AskList
    /\ UNCHANGED <<server, online, device, history>>

Next ==
    \/ \E f \in Files :
          \/ AddFile(f) \/ ReplayUpload(f) \/ Prune(f)
          \/ AlreadyLinked(f) \/ Relink(f) \/ NotLinked(f)
    \/ UploadStored \/ UploadAnswered \/ UploadLost \/ UploadRefused
    \/ UploadLinked \/ LinkAnswered \/ LinkFailed
    \/ ReplayStored \/ ReplayAnswered \/ ReplayLost
    \/ ReadList \/ RefreshAttachments
    \/ RelinkAnswered \/ RelinkLost \/ RelinkDone
    \/ \E id \in DOMAIN copies : RemoveAttachment(id)
    \/ Send \/ Connection \/ ReloadPage

Spec == Init /\ [][Next]_vars

-----------------------------------------------------------------------------
(* What an added file may rely on.                                         *)

(***************************************************************************)
(* A file the editor reported as attached or waiting is never lost: the    *)
(* draft references it, or the device holds its bytes with an action to    *)
(* send them, or holds the id under which the server has them              *)
(* (markUploadAcknowledged "the earliest point the server owns them",      *)
(* pruneSettledLocalRecords "nothing waits on").                           *)
(***************************************************************************)
FilesAreKept ==
    \A f \in reported \ removed :
        \/ \E id \in linked : copies[id] = f
        \/ /\ f \in DOMAIN records
           /\ IF records[f].id = Unsent THEN f \in queued
              ELSE records[f].id \in DOMAIN copies /\ copies[records[f].id] = f

(***************************************************************************)
(* No retry links a second copy of a file (compose-data.ts addFileToDraft: *)
(* "retries the same link without uploading and attaching a second copy"). *)
(***************************************************************************)
LinkedOnce ==
    \A i, j \in linked : copies[i] = copies[j] => i = j

(***************************************************************************)
(* A send waits until every acknowledged upload of the draft is linked     *)
(* (draft-editor.tsx: "The send waits until they are.").                   *)
(***************************************************************************)
SendWaitsForLinks ==
    [][Send => \A f \in DOMAIN records \ removed :
                  records[f].id # Unsent => records[f].id \in linked]_vars

(***************************************************************************)
(* A file the owner took off the draft stays off                           *)
(* (detachDraftAttachment: "Detaches one upload from a draft").            *)
(***************************************************************************)
RemovedStaysRemoved ==
    \A id \in linked : copies[id] \notin removed
=============================================================================
