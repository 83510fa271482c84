---------------------------- MODULE DraftEditor ----------------------------
(***************************************************************************)
(* Editors of one draft on several devices: the autosave state machine     *)
(* (packages/compose/src/autosave.ts), the editor that drives it           *)
(* (draft-editor.tsx) and its save and send calls (compose-data.ts).  The  *)
(* server's transactions are those of Drafts, each in one step.            *)
(*                                                                         *)
(* An edit is a number, in the order typed; the draft's one field holds    *)
(* the last edit written to it.  A call is handled by the server and       *)
(* answered, or its answer is lost; a call given up may be handled late.   *)
(***************************************************************************)
EXTENDS Naturals, FiniteSets

CONSTANTS
    Device,
    HasStore,       \* those of them whose browser keeps an offline queue
    MaxEdits,       \* bound: edits typed
    MaxRevision,    \* bound: revisions of the draft
    MaxLost         \* bound: calls given up, of all devices

VARIABLES
    server,     \* the draft row: revision, text, locked by a queued send
    editor,     \* one editor and its autosaver per device
    ask,        \* the send request of each device
    late,       \* save calls given up that the server may still handle
    typed,      \* edits typed so far
    lost,       \* calls given up so far
    seen,       \* history: the revisions each device was shown or made
    queued,     \* history: the edits each device put into its offline queue
    left,       \* history: edits unsaved in an editor when it was closed
    written,    \* history: edits the server has held
    frozen      \* history: the sends frozen, with what the editor showed

history == <<seen, queued, left, written, frozen>>
vars == <<server, editor, ask, late, typed, lost, history>>

-----------------------------------------------------------------------------
State == {"closed", "saved", "unsaved", "saving", "conflict", "offline", "error"}

NoCall == [at |-> "none", patch |-> 0, base |-> 0]
Save(patch, base) == [at |-> "sent", patch |-> patch, base |-> base]

Edit == 0 .. MaxEdits           \* 0: no edit, or the text the draft began with
Revision == 0 .. MaxRevision    \* 0: none

(* text is server's, when it could be read.                                *)
Choice == [revision : Revision, readable : BOOLEAN, text : Edit]
NoChoice == [revision |-> 0, readable |-> FALSE, text |-> 0]

Call == [at : {"none", "sent", "saved", "stale", "refused"}, patch : Edit, base : Revision]
Editor ==
    [state : State, base : Revision, pending : Edit, timer : BOOLEAN,
     flushWanted : BOOLEAN, call : Call,
     choice : Choice,           \* the conflict shown, once the copy was fetched
     view : Edit,               \* what the fields show
     sending : BOOLEAN]         \* submitSend waits for the flush
Ask == [at : {"none", "sent"}, base : Revision, view : Edit]

Closed ==
    [state |-> "closed", base |-> 0, pending |-> 0, timer |-> FALSE,
     flushWanted |-> FALSE, call |-> NoCall, choice |-> NoChoice, view |-> 0,
     sending |-> FALSE]
NoAsk == [at |-> "none", base |-> 0, view |-> 0]

TypeOK ==
    /\ server \in [revision : 1 .. MaxRevision, text : Edit, locked : BOOLEAN]
    /\ editor \in [Device -> Editor]
    /\ ask \in [Device -> Ask]
    /\ late \subseteq [device : Device, call : Call]
    /\ typed \in 0 .. MaxEdits /\ lost \in 0 .. MaxLost
    /\ seen \in [Device -> SUBSET Revision]
    /\ queued \in [Device -> SUBSET Edit] /\ left \in [Device -> SUBSET Edit]
    /\ written \subseteq Edit /\ frozen \subseteq [text : Edit, view : Edit]

Init ==
    /\ server = [revision |-> 1, text |-> 0, locked |-> FALSE]
    /\ editor = [c \in Device |-> Closed]
    /\ ask = [c \in Device |-> NoAsk]
    /\ late = {} /\ typed = 0 /\ lost = 0
    /\ seen = [c \in Device |-> {}]
    /\ queued = [c \in Device |-> {}] /\ left = [c \in Device |-> {}]
    /\ written = {0} /\ frozen = {}

Open(c) == editor[c].state # "closed"
Sees(c, revision) == seen' = [seen EXCEPT ![c] = @ \cup {revision}]

-----------------------------------------------------------------------------
(* The autosaver: what each method makes of its record.                    *)

(* runSave up to the call.                                                 *)
StartSave(e) ==
    [e EXCEPT !.state = "saving", !.call = Save(e.pending, e.base)]

RunSave(e) ==
    CASE e.state = "conflict" -> e
      [] e.state # "conflict" /\ e.pending = 0 -> [e EXCEPT !.state = "saved"]
      [] OTHER -> StartSave(e)

(* flush, from the debounce timer, the Save now button or submitSend.      *)
Flush(e) ==
    IF e.call # NoCall THEN [e EXCEPT !.flushWanted = TRUE]
    ELSE RunSave([e EXCEPT !.timer = FALSE])

Push(e, edit) ==
    [e EXCEPT !.pending = edit, !.view = edit,
        !.timer = @ \/ e.state # "conflict",
        !.state = IF e.state \in {"conflict", "saving"} THEN @ ELSE "unsaved"]

(* A flush asked for during the save that just ended runs now.             *)
Flushed(e) ==
    IF e.flushWanted /\ e.pending # 0 THEN RunSave([e EXCEPT !.flushWanted = FALSE])
    ELSE [e EXCEPT !.flushWanted = FALSE]

(* runSave after the answer.  Edits typed meanwhile are saved at once.     *)
LeavesTheRest(e, revision) ==   \* a slip: they wait for another edit
    [e EXCEPT !.base = revision, !.call = NoCall, !.state = "saved",
              !.pending = IF @ = e.call.patch THEN 0 ELSE @]

Saved(e, revision) ==
    LET kept == IF e.pending = e.call.patch THEN 0 ELSE e.pending
        next == [e EXCEPT !.base = revision, !.pending = kept, !.call = NoCall,
                          !.state = "saved"]
    IN  IF kept = 0 THEN Flushed(next) ELSE StartSave(next)

Unsaved(e, state) == Flushed([e EXCEPT !.state = state, !.call = NoCall])

-----------------------------------------------------------------------------
(* The editor.                                                             *)

Becomes(c, e) == editor' = [editor EXCEPT ![c] = e]

(* load: the draft is read and a new autosaver starts at its revision.     *)
OpenEditor(c) ==
    /\ ~Open(c)
    /\ Becomes(c, [Closed EXCEPT !.state = "saved", !.base = server.revision,
                                 !.view = server.text])
    /\ Sees(c, server.revision)
    /\ UNCHANGED <<server, ask, late, typed, lost, queued, left, written, frozen>>

(* edit: the fields of a draft this editor knows to be locked are read     *)
(* only, but it may not know yet.                                          *)
Type(c) ==
    /\ Open(c) /\ typed < MaxEdits
    /\ typed' = typed + 1
    /\ Becomes(c, Push(editor[c], typed'))
    /\ UNCHANGED <<server, ask, late, lost, history>>

TimerFires(c) ==
    /\ Open(c) /\ editor[c].timer
    /\ Becomes(c, Flush([editor[c] EXCEPT !.timer = FALSE]))
    /\ UNCHANGED <<server, ask, late, typed, lost, history>>

SaveNow(c) ==
    /\ editor[c].state \in {"unsaved", "saving", "conflict"}
    /\ Becomes(c, Flush(editor[c]))
    /\ UNCHANGED <<server, ask, late, typed, lost, history>>

Retry(c) ==
    /\ editor[c].state \in {"offline", "error"} /\ editor[c].call = NoCall
    /\ Becomes(c, Flush([editor[c] EXCEPT !.state = "unsaved"]))
    /\ UNCHANGED <<server, ask, late, typed, lost, history>>

(* updateDraft (see Drafts) for a save call.                               *)
OverwritingAnswer(call) ==      \* a slip: the base revision is not compared
    IF server.locked THEN "refused" ELSE "saved"

UpdateAnswer(call) ==
    CASE server.locked -> "refused"
      [] ~server.locked /\ call.base # server.revision -> "stale"
      [] OTHER -> "saved"

Update(call) ==
    IF UpdateAnswer(call) = "saved"
    THEN /\ server.revision < MaxRevision
         /\ server' = [server EXCEPT !.revision = @ + 1, !.text = call.patch]
         /\ written' = written \cup {call.patch}
    ELSE UNCHANGED <<server, written>>

HandleSave(c) ==
    LET call == editor[c].call IN
    /\ call.at = "sent"
    /\ Update(call)
    /\ Becomes(c, [editor[c] EXCEPT !.call.at = UpdateAnswer(call),
                                    !.call.base = server'.revision])
    /\ UNCHANGED <<ask, late, typed, lost, seen, queued, left, frozen>>

HandleLate(l) ==
    /\ Update(l.call)
    /\ late' = late \ {l}
    /\ UNCHANGED <<editor, ask, typed, lost, seen, queued, left, frozen>>

(* draftSaveRunner: a stale answer is a conflict, any other an error.      *)
Conflict(e) == Unsaved([e EXCEPT !.choice = NoChoice], "conflict")

SettleSave(c) ==
    LET e == editor[c] IN
    /\ Open(c)
    /\ \/ /\ e.call.at = "saved"
          /\ Becomes(c, Saved(e, e.call.base))
          /\ Sees(c, e.call.base)
       \/ /\ e.call.at = "stale"
          /\ Becomes(c, Conflict(e))
          /\ UNCHANGED seen
       \/ /\ e.call.at = "refused"
          /\ Becomes(c, Unsaved(e, "error"))
          /\ UNCHANGED seen
    /\ UNCHANGED <<server, ask, late, typed, lost, queued, left, written, frozen>>

(* queueDraftSave: the same patch waits in the offline queue, and stays    *)
(* pending in the editor.                                                  *)
Queue(c, edit) ==
    queued' = IF c \in HasStore THEN [queued EXCEPT ![c] = @ \cup {edit}] ELSE queued

LoseSave(c) ==
    LET e == editor[c] IN
    /\ Open(c) /\ e.call # NoCall /\ lost < MaxLost
    /\ late' = late \cup (IF e.call.at = "sent" THEN {[device |-> c, call |-> e.call]} ELSE {})
    /\ lost' = lost + 1
    /\ Queue(c, e.call.patch)
    /\ Becomes(c, Unsaved(e, "offline"))
    /\ UNCHANGED <<server, ask, typed, seen, left, written, frozen>>

(* The conflict fetches the server's copy to show both.                    *)
ShowConflict(c) ==
    /\ editor[c].state = "conflict" /\ editor[c].choice = NoChoice
    /\ Becomes(c, [editor[c] EXCEPT !.choice =
            [revision |-> server.revision, readable |-> TRUE, text |-> server.text]])
    /\ Sees(c, server.revision)
    /\ UNCHANGED <<server, ask, late, typed, lost, queued, left, written, frozen>>

(* The copy cannot be read: the choice offers the revision it has.         *)
ShowOwnRevision(c) ==
    /\ editor[c].state = "conflict" /\ editor[c].choice = NoChoice /\ lost < MaxLost
    /\ lost' = lost + 1
    /\ Becomes(c, [editor[c] EXCEPT !.choice.revision = editor[c].base])
    /\ UNCHANGED <<server, ask, late, typed, history>>

(* What was shown is adopted; it may be older than the server's text now.  *)
AcceptServerCopy(c) ==
    LET e == editor[c] IN
    /\ e.state = "conflict" /\ e.choice.readable
    /\ Becomes(c, [e EXCEPT !.base = e.choice.revision, !.pending = 0,
                            !.view = e.choice.text, !.state = "saved"])
    /\ UNCHANGED <<server, ask, late, typed, lost, history>>

KeepLocalCopy(c) ==
    LET e == editor[c] IN
    /\ e.state = "conflict" /\ e.choice # NoChoice
    /\ Becomes(c, Flush([e EXCEPT !.base = e.choice.revision, !.state = "unsaved"]))
    /\ UNCHANGED <<server, ask, late, typed, lost, history>>

(* retireAutosaver: a flush, unless in conflict, and then dispose.  A save *)
(* started here goes on without its autosaver.                             *)
CloseEditor(c) ==
    LET e == editor[c]
        saves == e.pending # 0 /\ e.state # "conflict"
        last == IF saves THEN Flush(e).call ELSE e.call
    IN  /\ Open(c)
        /\ late' = late \cup (IF last.at = "sent" THEN {[device |-> c, call |-> last]} ELSE {})
        /\ left' = [left EXCEPT ![c] = @ \cup (IF saves THEN {e.pending} ELSE {})]
        /\ Becomes(c, Closed)
        /\ UNCHANGED <<server, ask, typed, lost, seen, queued, written, frozen>>

-----------------------------------------------------------------------------
(* submitSend.                                                             *)

(* A disposed or waiting send flushes first and then looks for edits that  *)
(* are still pending.                                                      *)
ClickSend(c) ==
    LET e == editor[c] IN
    /\ e.state \in {"saved", "unsaved"} /\ ~e.sending /\ ask[c] = NoAsk
    /\ Becomes(c, IF e.pending = 0 THEN [e EXCEPT !.sending = TRUE]
                  ELSE Flush([e EXCEPT !.sending = TRUE]))
    /\ UNCHANGED <<server, ask, late, typed, lost, history>>

SendsAnyway(e) == TRUE      \* a slip: the pending edits are not looked at
SendsNow(e) == e.pending = 0

AskSend(c) ==
    LET e == editor[c] IN
    /\ e.sending /\ e.call = NoCall
    /\ Becomes(c, [e EXCEPT !.sending = FALSE])
    /\ ask' = IF SendsNow(e)
              THEN [ask EXCEPT ![c] = [at |-> "sent", base |-> e.base, view |-> e.view]]
              ELSE ask
    /\ UNCHANGED <<server, late, typed, lost, history>>

(* freezeSnapshot (see Drafts).                                            *)
HandleAsk(c) ==
    /\ ask[c].at = "sent"
    /\ IF ask[c].base = server.revision /\ ~server.locked
       THEN /\ server' = [server EXCEPT !.locked = TRUE]
            /\ frozen' = frozen \cup {[text |-> server.text, view |-> ask[c].view]}
       ELSE UNCHANGED <<server, frozen>>
    /\ ask' = [ask EXCEPT ![c] = NoAsk]
    /\ UNCHANGED <<editor, late, typed, lost, seen, queued, left, written>>

(* The send ended definitively.                                            *)
Unlock ==
    /\ server.locked
    /\ server' = [server EXCEPT !.locked = FALSE]
    /\ UNCHANGED <<editor, ask, late, typed, lost, history>>

-----------------------------------------------------------------------------
EditorStep(c) ==
    \/ OpenEditor(c) \/ Type(c) \/ TimerFires(c) \/ SaveNow(c) \/ Retry(c)
    \/ HandleSave(c) \/ SettleSave(c) \/ LoseSave(c)
    \/ ShowConflict(c) \/ ShowOwnRevision(c) \/ AcceptServerCopy(c) \/ KeepLocalCopy(c)
    \/ CloseEditor(c) \/ ClickSend(c) \/ AskSend(c) \/ HandleAsk(c)

Next ==
    \/ \E c \in Device : EditorStep(c)
    \/ \E l \in late : HandleLate(l)
    \/ Unlock

Spec == Init /\ [][Next]_vars

-----------------------------------------------------------------------------
(* The server's text is only ever replaced by a device that was shown the  *)
(* revision it replaces, or made it: an edit of another device is never    *)
(* overwritten unseen, whatever calls are lost or late (the base revision  *)
(* of the autosaver and the conflict choice).                              *)
ReplacesOnlyWhatItSaw ==
    \A c \in Device : HandleSave(c) /\ server' # server
        => server.revision \in seen[c]

(* An edit in an open editor that is not held for the person is on its     *)
(* way: a call is in flight, or the debounce timer runs.                   *)
PendingHasASave ==
    \A c \in Device :
        editor[c].pending # 0 /\ editor[c].state \notin {"conflict", "offline", "error"}
            => editor[c].timer \/ editor[c].call # NoCall

(* A queued send froze what its editor showed when the button was pressed  *)
(* (submitSend flushes, looks again, and sends the acknowledged revision). *)
SendFreezesWhatWasShown == \A s \in frozen : s.text = s.view

(* draft-editor.tsx:154: an edit inside the debounce window still belongs  *)
(* to the draft, so closing the editor must not drop it.                   *)
ClosingKeepsEdits ==
    \A c \in Device : \A edit \in left[c] :
        \/ edit \in written \cup queued[c]
        \/ \E l \in late : l.call.patch = edit
=============================================================================
