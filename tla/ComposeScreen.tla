---------------------------- MODULE ComposeScreen ----------------------------
(***************************************************************************)
(* The compose dialog over several drafts (compose-screen.tsx,             *)
(* draft-editor.tsx, compose-data.ts): one editor that changes draft in    *)
(* place, creations, replies that ask for a choice, sends, checks of an    *)
(* uncertain send, resends and discards, each a request whose answer may   *)
(* come after the owner moved on.                                          *)
(*                                                                         *)
(* A draft's text is its identity and every draft is at the same revision: *)
(* edits and saves are those of DraftEditor.  The server's part of a       *)
(* request and the answer are one step.                                    *)
(***************************************************************************)
EXTENDS Naturals, FiniteSets

CONSTANTS Live,         \* drafts there from the start
          MaxDrafts,    \* bound: drafts
          MaxCalls      \* bound: requests on the way

VARIABLES rows,     \* the drafts on the server and the send of each
          surface,  \* the dialog: open, active draft, reply choice
          editor,   \* the mounted editor: what it shows and its autosaver
          calls,    \* requests not answered yet
          asked,    \* history: what the owner asked the dialog to show last
          strayed   \* history: a queued send froze another draft than the one on screen

vars == <<rows, surface, editor, calls, asked, strayed>>

Draft == 1..MaxDrafts
None == 0
\* A send under way or sent, refused, of unknown outcome.
Outbound == {"none", "queued", "failed", "unknown"}
Locking == {"queued", "unknown"}

NoEditor == [draft |-> None, locked |-> FALSE, fields |-> None, saver |-> None, target |-> None, uncertain |-> FALSE,
             sending |-> FALSE, inFlight |-> FALSE]

Init ==
  /\ rows = [d \in Draft |-> [state |-> IF d \in Live THEN "live" ELSE "none", send |-> "none"]]
  /\ surface = [open |-> FALSE, active |-> None, choosing |-> FALSE]
  /\ editor = NoEditor /\ calls = {} /\ asked = [what |-> "nothing", draft |-> None] /\ strayed = FALSE

Editable(d) == rows[d].state = "live" /\ rows[d].send \notin Locking
Mounted == surface.open /\ surface.active # None /\ ~surface.choosing

\* A request: whose answer it waits for, the active draft when it was sent,
\* whether its fields are adopted, the fields on screen; whether
\* no navigation came since (a creation), whether its editor is still mounted.
Creation == {"new", "reply"}
NewCall(kind, draft) ==
  [kind |-> kind, draft |-> draft, prop |-> None, adopt |-> FALSE, shown |-> None,
   newest |-> kind \in Creation, alive |-> kind \notin Creation]
Room == Cardinality(calls) < MaxCalls

-----------------------------------------------------------------------------
(* What a change of the dialog does to the editor.                         *)

Unmounted(C) == {[c EXCEPT !.alive = FALSE] : c \in C}
Moved(C) == {[c EXCEPT !.newest = FALSE] : c \in C}

\* The editor has no key: another draft in the same place keeps its state but
\* for what the load effect resets.
Switched(e) ==
  [e EXCEPT !.saver = None, !.target = None, !.uncertain = FALSE, !.sending = FALSE]

Mounts(next) == next.open /\ next.active # None /\ ~next.choosing
Stays(next) == Mounted /\ Mounts(next) /\ next.active = surface.active
Read(d, adopt) == [NewCall("load", d) EXCEPT !.adopt = adopt]
Shows(next, C) ==
  /\ surface' = next
  /\ editor' = IF Stays(next) THEN editor
               ELSE IF Mounted /\ Mounts(next) THEN Switched(editor) ELSE NoEditor
  /\ calls' = IF Stays(next) THEN C
              ELSE (IF Mounts(next) THEN C \cup {Read(next.active, TRUE)} ELSE Unmounted(C))
Goes(next, C) == Shows(next, C) /\ UNCHANGED rows

-----------------------------------------------------------------------------
(* Navigation.                                                             *)

Asks(what, d) == asked' = [what |-> what, draft |-> d]
Follows(d) == IF asked.what = "draft" THEN Asks("draft", d) ELSE UNCHANGED asked

\* A draft of the list, or the intent that names one; the list intent has none.
OpenDraft(d) ==
  /\ d # None => rows[d].state = "live"
  /\ Room /\ Goes([open |-> TRUE, active |-> d, choosing |-> FALSE], Moved(calls))
  /\ Asks("draft", d) /\ UNCHANGED strayed

handleOpenChange ==
  /\ surface.open /\ Goes([open |-> FALSE, active |-> None, choosing |-> FALSE], Moved(calls))
  /\ Asks("draft", None) /\ UNCHANGED strayed

\* A creation leaves the draft that was active.
startIntent(kind) ==
  /\ Room /\ Goes([open |-> TRUE, active |-> None, choosing |-> FALSE],
                   Moved(calls) \cup {NewCall(kind, None)})
  /\ Asks("creation", None) /\ UNCHANGED strayed

\* A reply may ask for its account, its identity or its recipients: the step
\* repeats the request with one field more.
PickChoice ==
  /\ surface.choosing /\ Room
  /\ Goes([surface EXCEPT !.choosing = FALSE], Moved(calls) \cup {NewCall("reply", None)})
  /\ Asks("creation", None) /\ UNCHANGED strayed
CancelChoice ==
  /\ surface.choosing /\ Room /\ Goes([surface EXCEPT !.choosing = FALSE], calls)
  /\ UNCHANGED <<asked, strayed>>

\* A creation moves the surface only while no navigation came after it.
Always(c) == c.kind # "none"
IfNewest(c) == c.newest
Fresh(d) == rows[d].state = "none" /\ \A e \in Draft : rows[e].state = "none" => d <= e
Created(c) ==
  /\ c \in calls /\ c.kind \in Creation
  /\ \E d \in Draft :
       LET next == IF IfNewest(c) THEN [surface EXCEPT !.active = d] ELSE surface
       IN  /\ Fresh(d) /\ Shows(next, calls \ {c})
           /\ rows' = [rows EXCEPT ![d].state = "live"]
  /\ UNCHANGED <<asked, strayed>>

NotCreated(c) ==
  /\ c \in calls /\ c.kind \in Creation
  /\ IF c.kind = "reply" /\ c.newest
       THEN \E choose \in BOOLEAN : Goes([surface EXCEPT !.choosing = choose], calls \ {c})
       ELSE calls' = calls \ {c} /\ UNCHANGED <<rows, surface, editor>>
  /\ UNCHANGED <<asked, strayed>>

-----------------------------------------------------------------------------
(* The editor.                                                             *)

\* The answer of a read: the draft, its fields when the reader adopts them,
\* and an autosaver of its own when the current one is another draft's.
Adopt(c, e) ==
  LET d == c.draft
      shown == [e EXCEPT !.draft = d, !.locked = rows[d].send \in Locking,
                         !.fields = IF c.adopt THEN d ELSE @]
  IN  [shown EXCEPT !.saver = d]

load(c) ==
  /\ c \in calls /\ c.kind = "load" /\ calls' = calls \ {c}
  /\ IF c.alive /\ rows[c.draft].state = "live"
       THEN editor' = Adopt(c, editor) ELSE UNCHANGED editor
  /\ UNCHANGED <<rows, surface, asked, strayed>>

\* The button is off while `sending`; the guard behind it is a flag of its own.
ByButton == ~editor.sending
GuardInFlight == ~editor.inFlight
submitSend ==
  /\ Mounted /\ editor.draft # None /\ editor.fields # None /\ editor.saver # None
  /\ ByButton /\ GuardInFlight /\ ~editor.locked /\ Room
  /\ editor' = [editor EXCEPT !.sending = TRUE, !.inFlight = TRUE]
  /\ calls' = calls \cup
       {[NewCall("send", editor.draft) EXCEPT !.prop = surface.active, !.shown = editor.fields]}
  /\ UNCHANGED <<rows, surface, asked, strayed>>

Settled(e) == [e EXCEPT !.sending = FALSE, !.inFlight = FALSE]

\* The draft shown is read again by the reader of the draft of that time.
Queued(c) ==
  /\ c \in calls /\ c.kind = "send" /\ Editable(c.draft)
  /\ rows' = [rows EXCEPT ![c.draft].send = "queued"]
  /\ strayed' = (strayed \/ c.draft # c.shown)
  /\ \/ /\ editor' = IF c.alive THEN [Settled(editor) EXCEPT !.uncertain = FALSE, !.target = c.draft] ELSE editor
        /\ calls' = (calls \ {c}) \cup
             (IF c.alive THEN {Read(c.prop, FALSE)} ELSE {})
     \/ /\ editor' = IF c.alive THEN [Settled(editor) EXCEPT !.uncertain = TRUE] ELSE editor
        /\ calls' = calls \ {c}
  /\ UNCHANGED <<surface, asked>>

\* Refused, or the request never arrived.
NotQueued(c) ==
  /\ c \in calls /\ c.kind = "send" /\ calls' = calls \ {c}
  /\ \E lost \in BOOLEAN :
       editor' = IF c.alive THEN [Settled(editor) EXCEPT !.uncertain = lost \/ @] ELSE editor
  /\ UNCHANGED <<rows, surface, asked, strayed>>

checkUncertain ==
  /\ Mounted /\ editor.uncertain /\ editor.draft # None /\ Room
  /\ calls' = calls \cup {NewCall("check", editor.draft)}
  /\ UNCHANGED <<rows, surface, editor, asked, strayed>>

Checked(c) ==
  LET locks == rows[c.draft].send \in Locking
  IN  /\ c \in calls /\ c.kind = "check" /\ calls' = calls \ {c}
      /\ editor' = IF c.alive /\ rows[c.draft].state = "live"
                     THEN [editor EXCEPT !.draft = c.draft, !.locked = locks, !.uncertain = FALSE,
                                         !.target = IF locks THEN c.draft ELSE @]
                     ELSE editor
      /\ UNCHANGED <<rows, surface, asked, strayed>>

-----------------------------------------------------------------------------
(* The send panel.                                                         *)

Shown == IF editor.target # None THEN editor.target
         ELSE IF editor.locked THEN editor.draft ELSE None
resendGateOf(d) ==
  CASE rows[d].send = "failed" -> "edit-again"
    [] rows[d].send = "unknown" -> "resend-copy"
    [] OTHER -> "unavailable"

editAgain ==
  /\ Mounted /\ Shown # None /\ resendGateOf(Shown) = "edit-again" /\ Room
  /\ editor' = [Switched(editor) EXCEPT !.saver = editor.saver]
  /\ calls' = calls \cup {Read(surface.active, TRUE)}
  /\ UNCHANGED <<rows, surface, asked, strayed>>

resendFromCopy ==
  /\ Mounted /\ Shown # None /\ resendGateOf(Shown) = "resend-copy" /\ Room
  /\ ~\E c \in calls : c.kind = "resend" /\ c.alive
  /\ calls' = calls \cup {NewCall("resend", Shown)}
  /\ UNCHANGED <<rows, surface, editor, asked, strayed>>

\* The copy opens whenever its answer comes.
Resent(c) ==
  /\ c \in calls /\ c.kind = "resend" /\ rows[c.draft].send = "unknown"
  /\ \E d \in Draft :
       LET next == [surface EXCEPT !.active = d]
       IN  /\ Fresh(d) /\ Shows(next, calls \ {c}) /\ Follows(d)
           /\ rows' = [rows EXCEPT ![d].state = "live"]
  /\ UNCHANGED strayed

NotResent(c) ==
  /\ c \in calls /\ c.kind = "resend" /\ calls' = calls \ {c}
  /\ UNCHANGED <<rows, surface, editor, asked, strayed>>

discard ==
  /\ Mounted /\ editor.draft # None /\ Room
  /\ calls' = calls \cup {NewCall("discard", editor.draft)}
  /\ UNCHANGED <<rows, surface, editor, asked, strayed>>

\* The dialog leaves whichever draft is active by now.
Discarded(c) ==
  LET next == [surface EXCEPT !.active = None]
  IN  /\ c \in calls /\ c.kind = "discard" /\ Editable(c.draft)
      /\ Shows(next, calls \ {c}) /\ Follows(None)
      /\ rows' = [rows EXCEPT ![c.draft].state = "deleted"]
      /\ UNCHANGED strayed

NotDiscarded(c) ==
  /\ c \in calls /\ c.kind = "discard" /\ calls' = calls \ {c}
  /\ UNCHANGED <<rows, surface, editor, asked, strayed>>

\* The worker settles a queued send; a definitive failure unlocks the draft.
Settles(d) ==
  /\ rows[d].send = "queued"
  /\ \E outcome \in {"failed", "unknown"} : rows' = [rows EXCEPT ![d].send = outcome]
  /\ UNCHANGED <<surface, editor, calls, asked, strayed>>

-----------------------------------------------------------------------------
Next ==
  \/ \E d \in Draft \cup {None} : OpenDraft(d)
  \/ handleOpenChange \/ \E kind \in {"new", "reply"} : startIntent(kind)
  \/ PickChoice \/ CancelChoice \/ submitSend \/ checkUncertain
  \/ editAgain \/ resendFromCopy \/ discard
  \/ \E c \in calls : \/ Created(c) \/ NotCreated(c) \/ load(c) \/ Queued(c) \/ NotQueued(c)
                      \/ Checked(c) \/ Resent(c) \/ NotResent(c) \/ Discarded(c) \/ NotDiscarded(c)
  \/ \E d \in Draft : Settles(d)

Spec == Init /\ [][Next]_vars

-----------------------------------------------------------------------------
TypeOK ==
  /\ \A d \in Draft : rows[d].state \in {"none", "live", "deleted"} /\ rows[d].send \in Outbound
  /\ surface.active \in Draft \cup {None} /\ surface.choosing \in BOOLEAN
  /\ {editor.draft, editor.fields, editor.saver, editor.target} \subseteq Draft \cup {None}
  /\ Cardinality(calls) <= MaxCalls + 1

\* A draft the owner clicked stays open however late a creation or a reply is
\* answered, and a creation opens nothing but what it made (compose-screen.tsx,
\* navigationRef).  A resent copy and a discard move the surface by themselves.
ClickedDraftStays == asked.what = "draft" => surface.active = asked.draft

\* One press is one request: an editor never has two sends on the way, also
\* when the owner changes draft meanwhile (draft-editor.tsx, sendInFlight).
OneSendAtATime == Cardinality({c \in calls : c.kind = "send" /\ c.alive}) <= 1

\* What a queued send freezes is the draft whose fields were on screen.
SendsWhatIsShown == ~strayed
=============================================================================
