---------------------------- MODULE DraftClients ----------------------------
(***************************************************************************)
(* A draft from three sides: its row and its send on the server (Drafts),  *)
(* its editors on several devices (DraftEditor), and the offline queue of  *)
(* one (OfflineReplay).  They share no state here: a step of the whole is  *)
(* a step of one of them.                                                  *)
(***************************************************************************)
EXTENDS Drafts, Sequences

CONSTANTS
    Device, HasStore, MaxEdits, LastRevision, MaxLost,  \* of DraftEditor
    MaxItems, MaxTrouble, MaxAcks                       \* of OfflineReplay

VARIABLES
    server, editor, ask, late, typed, lost, seen, queued, left, written,
    frozen,
    hub, meta, queue, file, pass, watch, budget, held, mailed

draftsVars == <<draft, upload, outbound, request>>
editorsVars == <<server, editor, ask, late, typed, lost, seen, queued, left,
                written, frozen>>
offlineVars == <<hub, meta, queue, file, pass, watch, budget, held, mailed>>
clientsVars == <<draftsVars, editorsVars, offlineVars>>

\* Editors of one draft, some of them with an offline store.
Editors == INSTANCE DraftEditor WITH MaxRevision <- LastRevision

\* The offline queue of one device.
Offline == INSTANCE OfflineReplay

ClientsInit == Init /\ Editors!Init /\ Offline!Init

DraftsMove == Next /\ UNCHANGED <<editorsVars, offlineVars>>
EditorsMove == Editors!Next /\ UNCHANGED <<draftsVars, offlineVars>>
OfflineMoves == Offline!Next /\ UNCHANGED <<draftsVars, editorsVars>>

ClientsNext == DraftsMove \/ EditorsMove \/ OfflineMoves

ClientsSpec == ClientsInit /\ [][ClientsNext]_clientsVars

-----------------------------------------------------------------------------
(* An edit in an open editor is on its way to the server, a queued send    *)
(* froze what its editor showed, a text is only replaced by a device that  *)
(* saw it, and what a send loaded is what the draft holds at its revision  *)
(* (DraftAutosaver, submitSend, the base revision; updateDraft).           *)
EditorsKeepWork ==
    /\ [](LoadedIsCurrent /\ Editors!PendingHasASave /\ Editors!SendFreezesWhatWasShown)
    /\ [][Editors!ReplacesOnlyWhatItSaw]_editorsVars

(* A queued edit is called synced only when the server took it, and        *)
(* reaches it before its draft's send (runPass, replayRank).               *)
ReplayKeepsEdits == Offline!EditsAreKept /\ Offline!SavesGoFirst

=============================================================================
