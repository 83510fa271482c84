------------------------------ MODULE Actions ------------------------------
(***************************************************************************)
(* The management actions of packages/actions: a request that freezes its  *)
(* targets, and the passes of the sync cycle that carry it out over IMAP   *)
(* (reconcileIncomplete, execute, executeFolderGroup, commitDisposition,   *)
(* TwoWayActionExecutor).                                                  *)
(*                                                                         *)
(* Every message has one occurrence, under the first UIDVALIDITY of its    *)
(* folder; messages are numbered by UID and actions by creation.  One flag *)
(* stands for the two an action can set.  A step of a run is one database  *)
(* transaction, one read whose result a later step uses, or one IMAP       *)
(* command.                                                                *)
(***************************************************************************)
EXTENDS Naturals, FiniteSets

CONSTANTS
    Action, Message,    \* sets of positive numbers
    Folder, FolderOf,   \* the folder of each message
    Kinds,              \* the kinds that are submitted
    Run,                \* concurrent passes over the account
    Limit,              \* DEFAULT_RECONCILIATION_LIMIT
    Condstore,          \* the session reports modification sequences
    MaxChanges,         \* bound: flag changes by other clients
    MaxCrashes,         \* bound: passes lost to a crash or a dead session
    Outside,            \* what else happens: a subset of Events
    NoFolder

(* Another client expunges; the server numbers a folder anew, loses it, or *)
(* answers NO; the operator begins a recovery.                             *)
Events == {"removal", "reset", "vanish", "refusal", "recovery"}

VARIABLES
    action,     \* the actions rows
    item,       \* the action_items rows, by action and target
    local,      \* the message_occurrences rows
    validity,   \* folders.uidvalidity
    ready,      \* the control state is ready for this generation
    run,        \* what each pass is doing
    server,     \* the messages in the mailbox
    mailbox,    \* the folders on the server: UIDVALIDITY, or 0 if gone
    issued,     \* MOVE commands sent for each item
    moved,      \* the action whose MOVE took the message, or 0
    strayed,    \* a write took effect in another UID space
    held,       \* the targets that had the wanted flag since submission
    passesLost, changes

rows == <<action, item, local>>
env == <<validity, ready, mailbox, passesLost, changes>>
ghosts == <<issued, moved, strayed, held>>
vars == <<rows, run, server, env, ghosts>>

-----------------------------------------------------------------------------
(* Statuses of actions and of items alike.                                 *)
Pending == {"queued", "executing"}
Disposed == {"confirmed", "conflicted", "failed", "unknown"}

(* What an outcome's reason is kept for: the hold of an interrupted move,  *)
(* the hold after a restore, and a conflict over a rejected condition.     *)
Reason == {"none", "interrupted", "restored", "condstore_rejected"}

(* One work item with its frozen target.                                   *)
Item == [status : {"absent"} \cup Pending \cup Disposed, reason : Reason,
         revision : Nat, modseq : Nat]

NoItem == [status |-> "absent", reason |-> "none", revision |-> 0, modseq |-> 0]

(* modseq is the sequence an action recorded, 0 when none did: the sync    *)
(* does not record one (steady.ts:474).                                    *)
Occurrence == [flag : BOOLEAN, revision : Nat, modseq : Nat,
               expunged : BOOLEAN, invalidated : BOOLEAN]

Remote == [present : BOOLEAN, flag : BOOLEAN, modseq : Nat]
Unseen == [present |-> FALSE, flag |-> FALSE, modseq |-> 0]

(* What a run will record for its item.                                    *)
Outcome == [status : Disposed \cup {"accepted", "rejected", "none"},
            reason : Reason, observed : Remote, expunge : BOOLEAN]

Answer(status, reason, observed, expunge) ==
    [status |-> status, reason |-> reason,
     observed |-> observed, expunge |-> expunge]

Nothing == Answer("none", "none", Unseen, FALSE)

Pc == {"idle", "next", "holding", "folder", "item", "settle",
       "conflict", "claim", "apply", "readback", "receipt"}

Idle == [pc |-> "idle", list |-> {}, todo |-> {}, was |-> {},
         folder |-> NoFolder, remote |-> [m \in Message |-> Unseen],
         selected |-> 0, out |-> Nothing]

RunState ==
    [pc : Pc, list : SUBSET Action, \* the actions of the pass, the first one
                                    \* in execution
     todo : SUBSET Message,         \* its items still to do
     was : SUBSET Message,          \* those that were executing when loaded
     folder : Folder \cup {NoFolder},
     remote : [Message -> Remote],  \* fetchFlags of the folder group
     selected : Nat,                \* UIDVALIDITY of the last SELECT
     out : Outcome]

TypeOK ==
    /\ action \in [Action -> [status : {"none", "complete"} \cup Pending,
                              kind : Kinds \cup {"none"}]]
    /\ item \in [Action -> [Message -> Item]]
    /\ local \in [Message -> Occurrence]
    /\ validity \in [Folder -> {1, 2}]
    /\ ready \in BOOLEAN
    /\ run \in [Run -> RunState]
    /\ server \in [Message -> Remote]
    /\ mailbox \in [Folder -> {0, 1, 2}]
    /\ issued \in [Action -> [Message -> Nat]]
    /\ moved \in [Message -> Action \cup {0}]
    /\ strayed \in BOOLEAN
    /\ held \in [Action -> SUBSET Message]
    /\ passesLost \in 0 .. MaxCrashes /\ changes \in 0 .. MaxChanges

Init ==
    /\ action = [a \in Action |-> [status |-> "none", kind |-> "none"]]
    /\ item = [a \in Action |-> [m \in Message |-> NoItem]]
    /\ local = [m \in Message |->
                 [flag |-> FALSE, revision |-> 0, modseq |-> 0,
                  expunged |-> FALSE, invalidated |-> FALSE]]
    /\ validity = [f \in Folder |-> 1]
    /\ ready = TRUE
    /\ run = [w \in Run |-> Idle]
    /\ server = [m \in Message |-> [present |-> TRUE, flag |-> FALSE, modseq |-> 1]]
    /\ mailbox = [f \in Folder |-> 1]
    /\ issued = [a \in Action |-> [m \in Message |-> 0]]
    /\ moved = [m \in Message |-> 0]
    /\ strayed = FALSE
    /\ held = [a \in Action |-> {}]
    /\ passesLost = 0 /\ changes = 0

Least(S) == CHOOSE n \in S : \A k \in S : n <= k

-----------------------------------------------------------------------------
(* commitDisposition: the receipt of one item, what was observed of its    *)
(* target, and the status of the action, in one transaction.               *)

(* A slip: only an action that was executing is completed.                 *)
StuckStatus(a, items) ==
    IF \E m \in Message : items[m].status \in Pending THEN "executing"
    ELSE IF action[a].status = "queued" THEN "queued" ELSE "complete"

Finalized(a, items) ==
    IF \E m \in Message : items[m].status \in Pending
    THEN IF action[a].status = "queued" THEN "executing" ELSE action[a].status
    ELSE "complete"

(* Only a pending item takes a disposition; the receipt of a claim also    *)
(* replaces the hold that a concurrent run put on it.                      *)
EligibleAny(i, supersedesHold) ==       \* a slip: any hold may be replaced
    i.status \in Pending \/ (supersedesHold /\ i.status = "unknown")

Eligible(i, supersedesHold) ==
    \/ i.status \in Pending
    \/ supersedesHold /\ i.status = "unknown" /\ i.reason = "interrupted"

(* The occurrence after an observation.  The revision moves only when the  *)
(* flag did, the sequence is recorded when the session reports one.        *)
Observed(o, out) ==
    IF o.expunged \/ ~out.observed.present THEN o
    ELSE [o EXCEPT !.flag = out.observed.flag,
                   !.revision = IF o.flag = out.observed.flag THEN @ ELSE @ + 1,
                   !.modseq = IF Condstore THEN out.observed.modseq ELSE @,
                   !.expunged = out.expunge]

ForgottenStatus(a, items) == action[a].status   \* a slip: left to the end

Completion(a, items) == Finalized(a, items)

CommitDisposition(a, m, out, supersedesHold) ==
    IF Eligible(item[a][m], supersedesHold)
    THEN /\ item' = [item EXCEPT ![a][m].status = out.status,
                                 ![a][m].reason = out.reason]
         /\ local' = [local EXCEPT ![m] = Observed(@, out)]
         /\ action' = [action EXCEPT ![a].status = Completion(a, item'[a])]
    ELSE UNCHANGED rows

Conflict(reason, observed) == Answer("conflicted", reason, observed, FALSE)

-----------------------------------------------------------------------------
(* Submission.                                                             *)

Desired(kind) == kind = "set"

(* The bookkeeping of held, after a submission or a change of a flag.      *)
NoteFlags ==
    held' = [a \in Action |->
              IF action'[a].status = "none" THEN {}
              ELSE held[a] \cup
                    {m \in Message : server'[m].flag = Desired(action'[a].kind)}]

Active(m) == ~local[m].expunged /\ ~local[m].invalidated

(* submit and freezeTargets: every target must be active, and is frozen    *)
(* with its revision and recorded sequence.                                *)
Submit(a, kind, targets) ==
    /\ ready
    /\ action[a].status = "none"
    /\ \A b \in Action : b < a => action[b].status # "none"
    /\ targets # {} /\ \A m \in targets : Active(m)
    /\ action' = [action EXCEPT ![a] = [status |-> "queued", kind |-> kind]]
    /\ item' = [item EXCEPT ![a] =
                [m \in Message |->
                    IF m \in targets
                    THEN [status |-> "queued", reason |-> "none",
                          revision |-> local[m].revision,
                          modseq |-> local[m].modseq]
                    ELSE NoItem]]
    /\ UNCHANGED <<local, run, server, env, issued, moved, strayed>>
    /\ NoteFlags

-----------------------------------------------------------------------------
(* A pass: reconcileIncomplete and execute.                                *)

At(w, pc) == run[w].pc = pc
Current(w) == Least(run[w].list)

Due == {a \in Action : action[a].status \in Pending}

StartPass(w) ==
    /\ At(w, "idle") /\ Due # {}
    /\ run' = [run EXCEPT ![w].pc = "next",
                ![w].list = {a \in Due : Cardinality({b \in Due : b < a}) < Limit}]
    /\ UNCHANGED <<rows, server, env, ghosts>>

(* The current action is left; also the early return of blockedResult.     *)
Leaves(w) ==
    run' = [run EXCEPT ![w] =
             [Idle EXCEPT !.pc = "next", !.list = run[w].list \ {Current(w)}]]

Interrupted(a) ==
    IF action[a].kind = "move"
    THEN {m \in Message : item[a][m].status = "executing"} ELSE {}

(* Nothing is held: an interrupted move stays pending and runs again.      *)
ReplayedAll(a) == {}        \* a slip: a move is taken as replayable

Holdable(a) == Interrupted(a)

ExecuteNext(w) ==
    /\ At(w, "next")
    /\ IF run[w].list = {} THEN run' = [run EXCEPT ![w] = Idle]
       ELSE IF action[Current(w)].status = "complete" \/ ~ready THEN Leaves(w)
       ELSE run' = [run EXCEPT ![w].pc = "holding",
                               ![w].todo = Holdable(Current(w))]
    /\ UNCHANGED <<rows, server, env, ghosts>>

(* An interrupted move is never replayed: it is held as unknown.           *)
HoldInterrupted(w) ==
    LET m == Least(run[w].todo) IN
    /\ At(w, "holding") /\ run[w].todo # {}
    /\ CommitDisposition(Current(w), m,
                         Answer("unknown", "interrupted", Unseen, FALSE), FALSE)
    /\ run' = [run EXCEPT ![w].todo = @ \ {m}]
    /\ UNCHANGED <<server, env, ghosts>>

(* The pending items are loaded a second time.                             *)
ReloadPending(w) ==
    LET items == item[Current(w)] IN
    /\ At(w, "holding") /\ run[w].todo = {}
    /\ run' = [run EXCEPT
                ![w].pc = "folder",
                ![w].todo = {m \in Message : items[m].status \in Pending},
                ![w].was = {m \in Message : items[m].status = "executing"}]
    /\ UNCHANGED <<rows, server, env, ghosts>>

(* refreshActionStatus.                                                    *)
Finish(w) ==
    LET a == Current(w) IN
    /\ At(w, "folder") /\ run[w].todo = {}
    /\ action' = [action EXCEPT ![a].status = Finalized(a, item[a])]
    /\ Leaves(w)
    /\ UNCHANGED <<item, local, server, env, ghosts>>

-----------------------------------------------------------------------------
(* executeFolderGroup.                                                     *)

Group(w) == {m \in run[w].todo : FolderOf[m] = run[w].folder}
Target(w) == Least(Group(w))

(* The server answers for a UID of the selected folder.  A message is      *)
(* under UIDVALIDITY 1; in another UID space its UID names a stranger.     *)
Stranger == [present |-> TRUE, flag |-> FALSE, modseq |-> 1]
Seen(m) == IF mailbox[FolderOf[m]] = 1 THEN server[m] ELSE Stranger

(* The mailbox call throws, and nothing in the pass catches it.            *)
Throws(w) == run' = [run EXCEPT ![w] = Idle]

SelectFolder(w) ==
    LET f == FolderOf[Least(run[w].todo)] IN
    /\ At(w, "folder") /\ run[w].todo # {}
    /\ IF mailbox[f] = 0 THEN Throws(w)
       ELSE run' = [run EXCEPT
                     ![w].pc = IF mailbox[f] = validity[f] THEN "item" ELSE "conflict",
                     ![w].folder = f,
                     ![w].selected = mailbox[f],
                     ![w].remote =
                        [m \in Message |->
                            IF m \in run[w].todo /\ FolderOf[m] = f
                            THEN Seen(m) ELSE Unseen]]
    /\ UNCHANGED <<rows, server, env, ghosts>>

GroupDone(w) ==
    /\ run[w].pc \in {"item", "conflict"} /\ Group(w) = {}
    /\ run' = [run EXCEPT ![w].pc = "folder", ![w].folder = NoFolder,
                          ![w].selected = 0, ![w].remote = Idle.remote]
    /\ UNCHANGED <<rows, server, env, ghosts>>

Advance(w, pc) ==
    run' = [run EXCEPT ![w].pc = pc, ![w].out = Nothing, ![w].todo = @ \ {Target(w)}]

(* conflictItems, for the rest of a group whose folder moved.              *)
ConflictRest(w) ==
    /\ At(w, "conflict") /\ Group(w) # {}
    /\ CommitDisposition(Current(w), Target(w), Conflict("none", Unseen), FALSE)
    /\ Advance(w, "conflict")
    /\ UNCHANGED <<server, env, ghosts>>

(* What the refreshed state says of an item; "none" lets it be executed.   *)
Verdict(a, m, remote) ==
    LET o == local[m]
        gone == ~remote.present \/ o.expunged \/ o.invalidated
        holds == action[a].kind # "move" /\ remote.flag = Desired(action[a].kind)
        stale == o.revision # item[a][m].revision \/ o.modseq # item[a][m].modseq
    IN  IF gone THEN Conflict("none", Unseen)
        ELSE IF holds THEN Answer("confirmed", "none", remote, FALSE)
        ELSE IF stale THEN Conflict("none", Unseen)
        ELSE Nothing

(* A SELECT before every item: the folder may have moved since the group   *)
(* was refreshed.                                                          *)
SameFolder(w) == TRUE       \* a slip: the answer is not compared

Revalidated(w) == mailbox[run[w].folder] = run[w].selected

Inspect(w) ==
    LET out == Verdict(Current(w), Target(w), run[w].remote[Target(w)]) IN
    /\ At(w, "item") /\ Group(w) # {}
    /\ IF mailbox[run[w].folder] = 0 THEN Throws(w)
       ELSE run' = [run EXCEPT
                     ![w].selected = mailbox[run[w].folder],
                     ![w].pc = IF ~Revalidated(w) THEN "conflict"
                               ELSE IF out = Nothing THEN "claim" ELSE "settle",
                     ![w].out = IF Revalidated(w) THEN out ELSE Nothing]
    /\ UNCHANGED <<rows, server, env, ghosts>>

Settle(w) ==
    /\ At(w, "settle")
    /\ CommitDisposition(Current(w), Target(w), run[w].out, FALSE)
    /\ Advance(w, "item")
    /\ UNCHANGED <<server, env, ghosts>>

(* markExecuting, and the recovery check before the remote call.           *)
ClaimItem(w) ==
    LET a == Current(w)
        m == Target(w)
        claimed == item[a][m].status = "queued" IN
    /\ At(w, "claim")
    /\ item' = IF claimed THEN [item EXCEPT ![a][m].status = "executing"] ELSE item
    /\ IF ~claimed /\ m \notin run[w].was THEN Advance(w, "item")
       ELSE IF ~ready THEN Leaves(w)
       ELSE run' = [run EXCEPT ![w].pc = "apply"]
    /\ UNCHANGED <<action, local, server, env, ghosts>>

(* The receipt belongs to the claim that ran the write.                    *)
Receipt(w) ==
    /\ At(w, "receipt")
    /\ CommitDisposition(Current(w), Target(w), run[w].out, TRUE)
    /\ Advance(w, "item")
    /\ UNCHANGED <<server, env, ghosts>>

-----------------------------------------------------------------------------
(* The executor.                                                           *)

Kind(w) == action[Current(w)].kind

Answers(w, pc, out) == run' = [run EXCEPT ![w].pc = pc, ![w].out = out]

RawRefusal == Answer("rejected", "none", Unseen, FALSE)     \* a slip: not mapped
Failed == Answer("failed", "none", Unseen, FALSE)
Lost == Answer("unknown", "none", Unseen, FALSE)

(* A command reaches the folder while the selection is still the server's. *)
Reaches(w) == run[w].selected = mailbox[run[w].folder]
Hits(w) == Reaches(w) /\ Seen(Target(w)).present

(* A capability is missing, or the executor throws: no command is sent.    *)
Unavailable(w) ==
    /\ At(w, "apply") /\ "refusal" \in Outside
    /\ Answers(w, "receipt", Failed)
    /\ UNCHANGED <<rows, server, env, ghosts>>

(* applyMove.  A MOVE of a UID that is gone is answered OK.                *)
MoveAnswers(w) ==
    {Lost} \cup
    (IF "refusal" \in Outside THEN {Failed} ELSE {}) \cup
    (IF Reaches(w) /\ ~Hits(w)
     THEN {Answer("confirmed", "none", run[w].remote[Target(w)], TRUE)} ELSE {})

ApplyMove(w) ==
    LET a == Current(w)
        m == Target(w) IN
    /\ At(w, "apply") /\ Kind(w) = "move"
    /\ issued' = [issued EXCEPT ![a][m] = @ + 1]
    /\ strayed' = (strayed \/ (Reaches(w) /\ run[w].selected # 1))
    /\ \/ /\ Hits(w) /\ run[w].selected = 1
          /\ server' = [server EXCEPT ![m].present = FALSE]
          /\ moved' = [moved EXCEPT ![m] = a]
          /\ \E out \in {Answer("confirmed", "none", run[w].remote[m], TRUE), Lost} :
                Answers(w, "receipt", out)
       \/ /\ \E out \in MoveAnswers(w) : Answers(w, "receipt", out)
          /\ UNCHANGED <<server, moved>>
    /\ UNCHANGED <<rows, env, held>>

(* applyFlags: the write is conditional when a sequence was captured.      *)
Conditional(w) == Condstore /\ item[Current(w)][Target(w)].modseq # 0

Unchanged(w) ==
    Conditional(w) =>
        server[Target(w)].modseq <= item[Current(w)][Target(w)].modseq

Write(w, result) == Answers(w, "readback", Answer(result, "none", Unseen, FALSE))

WriteFlag(w) ==
    LET m == Target(w)
        value == Desired(Kind(w)) IN
    /\ At(w, "apply") /\ Kind(w) # "move"
    /\ strayed' = (strayed \/ (Reaches(w) /\ run[w].selected # 1))
    /\ \/ /\ Hits(w) /\ Unchanged(w) /\ run[w].selected = 1
          /\ server' = [server EXCEPT ![m].flag = value,
                          ![m].modseq = IF server[m].flag = value THEN @ ELSE @ + 1]
          /\ \/ Write(w, "accepted")
             \/ Answers(w, "receipt", Lost)
       \/ /\ \/ "refusal" \in Outside /\ Write(w, "rejected")
             \/ Answers(w, "receipt", Lost)
             \/ /\ Reaches(w) /\ ~(Hits(w) /\ Unchanged(w))
                /\ Write(w, "accepted")
          /\ UNCHANGED server
    /\ UNCHANGED <<rows, env, issued, moved>>
    /\ NoteFlags

(* A slip: an accepted write is confirmed whatever is read back.           *)
Credulous(w, back) ==
    IF run[w].out.status = "accepted" THEN Answer("confirmed", "none", back, FALSE)
    ELSE Failed

(* What the flag read back makes of the answer to the write.               *)
ReadbackOutcome(w, back) ==
    LET result == run[w].out.status IN
    CASE ~back.present ->
            IF result = "accepted" THEN Lost
            ELSE Conflict("none", run[w].remote[Target(w)])
      [] back.present /\ back.flag = Desired(Kind(w)) ->
            Answer("confirmed", "none", back, FALSE)
      [] back.present /\ back.flag # Desired(Kind(w)) ->
            IF Conditional(w) THEN Conflict("condstore_rejected", back)
            ELSE IF result = "accepted" THEN Answer("confirmed", "none", back, FALSE)
            ELSE Failed

Readback(w) ==
    /\ At(w, "readback")
    /\ \/ Answers(w, "receipt", Lost)
       \/ /\ Reaches(w)
          /\ Answers(w, "receipt", ReadbackOutcome(w, Seen(Target(w))))
    /\ UNCHANGED <<rows, server, env, ghosts>>

-----------------------------------------------------------------------------
(* The mailbox, the sync, crashes and the operator.                        *)

Crash(w) ==
    /\ ~At(w, "idle") /\ passesLost < MaxCrashes
    /\ passesLost' = passesLost + 1
    /\ run' = [run EXCEPT ![w] = Idle]
    /\ UNCHANGED <<rows, validity, ready, server, mailbox, changes, ghosts>>

(* Another client changes the flag, or expunges the message.               *)
ClientFlags(m) ==
    /\ server[m].present /\ changes < MaxChanges
    /\ changes' = changes + 1
    /\ server' = [server EXCEPT ![m].flag = ~@, ![m].modseq = @ + 1]
    /\ UNCHANGED <<rows, run, validity, ready, mailbox, passesLost,
                   issued, moved, strayed>>
    /\ NoteFlags

ClientRemoves(m) ==
    /\ "removal" \in Outside /\ server[m].present
    /\ server' = [server EXCEPT ![m].present = FALSE]
    /\ UNCHANGED <<rows, run, env, ghosts>>

(* The folder is created again under another UIDVALIDITY, or is gone.      *)
ServerResets(f) ==
    /\ "reset" \in Outside /\ mailbox[f] = 1
    /\ mailbox' = [mailbox EXCEPT ![f] = 2]
    /\ UNCHANGED <<rows, run, server, validity, ready, passesLost, changes, ghosts>>

FolderVanishes(f) ==
    /\ "vanish" \in Outside /\ mailbox[f] # 0
    /\ mailbox' = [mailbox EXCEPT ![f] = 0]
    /\ UNCHANGED <<rows, run, server, validity, ready, passesLost, changes, ghosts>>

(* Only a changed observation bumps the revision.                          *)
Revised(m) == IF local[m].flag = server[m].flag THEN local[m].revision
              ELSE local[m].revision + 1

(* markExpunges, refreshFlags: the sync brings one occurrence up to date.  *)
SyncMessage(m) ==
    /\ mailbox[FolderOf[m]] = 1 /\ validity[FolderOf[m]] = 1
    /\ ~local[m].expunged
    /\ local' = [local EXCEPT ![m] =
                  IF ~server[m].present THEN [@ EXCEPT !.expunged = TRUE]
                  ELSE [@ EXCEPT !.flag = server[m].flag,
                                 !.revision = Revised(m)]]
    /\ local' # local
    /\ UNCHANGED <<action, item, run, server, env, ghosts>>

(* resetFolderGeneration.                                                  *)
SyncResets(f) ==
    /\ mailbox[f] = 2 /\ validity[f] = 1
    /\ validity' = [validity EXCEPT ![f] = 2]
    /\ local' = [m \in Message |->
                  IF FolderOf[m] = f THEN [local[m] EXCEPT !.invalidated = TRUE]
                  ELSE local[m]]
    /\ UNCHANGED <<action, item, ready, run, server, mailbox, passesLost, changes, ghosts>>

(* The operator begins a recovery under another generation, and holds what *)
(* is pending (dispositionRestoredActions).                                *)
BeginRecovery ==
    /\ "recovery" \in Outside /\ ready
    /\ ready' = FALSE
    /\ UNCHANGED <<rows, validity, run, server, mailbox, passesLost, changes, ghosts>>

RestoredItem(i) ==
    CASE i.status = "queued" -> [i EXCEPT !.status = "conflicted", !.reason = "restored"]
      [] i.status = "executing" -> [i EXCEPT !.status = "unknown", !.reason = "restored"]
      [] OTHER -> i

DispositionRestored(a) ==
    /\ ~ready /\ action[a].status \in Pending
    /\ action' = [action EXCEPT ![a].status = "complete"]
    /\ item' = [item EXCEPT ![a] = [m \in Message |-> RestoredItem(@[m])]]
    /\ UNCHANGED <<local, run, server, env, ghosts>>

-----------------------------------------------------------------------------
PassStep(w) ==
    \/ ExecuteNext(w) \/ HoldInterrupted(w) \/ ReloadPending(w) \/ Finish(w)
    \/ SelectFolder(w) \/ GroupDone(w) \/ ConflictRest(w)
    \/ Inspect(w) \/ Settle(w) \/ ClaimItem(w) \/ Receipt(w)
    \/ Unavailable(w) \/ ApplyMove(w) \/ WriteFlag(w) \/ Readback(w)

ServerStep ==
    \/ \E m \in Message : ClientFlags(m) \/ ClientRemoves(m) \/ SyncMessage(m)
    \/ \E f \in Folder : ServerResets(f) \/ FolderVanishes(f) \/ SyncResets(f)

Next ==
    \/ \E a \in Action, kind \in Kinds, targets \in SUBSET Message :
            Submit(a, kind, targets)
    \/ \E w \in Run : StartPass(w) \/ PassStep(w) \/ Crash(w)
    \/ ServerStep
    \/ BeginRecovery \/ \E a \in Action : DispositionRestored(a)

Spec == Init /\ [][Next]_vars

(* The sync cycle runs for ever, and a pass in a live process goes on.     *)
Fairness == \A w \in Run : WF_vars(StartPass(w)) /\ WF_vars(PassStep(w))

FairSpec == Spec /\ Fairness

-----------------------------------------------------------------------------
(* Properties.                                                             *)

IsMove(a) == action[a].kind = "move"

(* An action is complete exactly when every item has its disposition, so   *)
(* no item is left behind by a status and no pass comes back to a finished *)
(* action: finalizeActionStatus runs in the transaction of the receipt.    *)
CompleteMeansDisposed ==
    \A a \in Action : action[a].status # "none" =>
        (action[a].status = "complete"
            <=> \A m \in Message : item[a][m].status \notin Pending)

(* A receipt never changes, whatever a slower run or the operator records  *)
(* later, except that the claim's own answer replaces the hold of an       *)
(* interrupted move (commitDisposition's eligible states).                 *)
ReceiptIsFinal ==
    \A a \in Action, m \in Message :
        item[a][m].status \in Disposed /\ item[a][m].reason # "interrupted"
            => item'[a][m] = item[a][m]

(* No command takes effect in a UID space other than the one the target    *)
(* was frozen in: executeFolderGroup selects again before every item.      *)
NoWriteAcrossGenerations == ~strayed

(* A MOVE is sent at most once for an item, through crashes, lost answers  *)
(* and later passes ("An interrupted move is never replayed blindly",      *)
(* service.ts:52).                                                         *)
MoveIssuedOnce == \A a \in Action, m \in Message : issued[a][m] <= 1

(* A receipt that says a move did not happen is true: a move that failed   *)
(* or conflicted did not take the message.                                 *)
RefusedMoveDidNotHappen ==
    \A a \in Action, m \in Message :
        IsMove(a) /\ item[a][m].status \in {"failed", "conflicted"} => moved[m] # a

(* A confirmed flag action tells the truth: the server held the wanted     *)
(* value at some moment after the request, whether the pass wrote it or    *)
(* found it (the readback of applyFlags and the no-op of                   *)
(* executeFolderGroup), across crashes, lost answers and other clients.    *)
ConfirmedFlagWasHeld ==
    \A a \in Action, m \in Message :
        ~IsMove(a) /\ item[a][m].status = "confirmed" => m \in held[a]

\* The passes over an account do not overlap.
OnePass == \A v, w \in Run : v = w

(* A command takes effect only in the UID space its target was frozen in,  *)
(* and a MOVE is sent at most once for a target, while passes do not       *)
(* overlap (executeFolderGroup, execute).                                  *)
WritesAreSafe == NoWriteAcrossGenerations /\ (OnePass => MoveIssuedOnce)

(* What the receipts say is true: a complete action has no open target, a  *)
(* confirmed flag was held, and, while passes do not overlap, a refused    *)
(* move did not happen (commitDisposition, applyFlags, applyMove).         *)
ReportsAreTrue ==
    /\ CompleteMeansDisposed /\ ConfirmedFlagWasHeld
    /\ OnePass => RefusedMoveDidNotHappen

(* A queued action ends with a receipt for each of its targets.            *)
ActionsComplete ==
    \A a \in Action : action[a].status = "queued" ~> action[a].status = "complete"

(* Claimed by SPEC.md section 7 (step 5, an outcome for each target): an   *)
(* action whose own folders exist completes, also when the folder of       *)
(* another action has disappeared from the server.                         *)
(* Not kept: README, section 9.                                            *)
ActionsCompleteBesideLostFolder ==
    \A a \in Action :
        action[a].status = "queued" ~>
            \/ action[a].status = "complete"
            \/ \E m \in Message :
                    item[a][m].status \in Pending /\ mailbox[FolderOf[m]] = 0
=============================================================================
