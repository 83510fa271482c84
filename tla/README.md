# Personal Mail Hub: TLA+ models, checks and proofs

The hub keeps a person's mail: it synchronizes IMAP mailboxes into a PostgreSQL
database and a store of original messages, sends mail through SMTP relays, changes
mailboxes on the owner's behalf, works offline in a browser, and survives backups
and restores. Each of these parts repeats remote calls whose answers can be lost,
from processes that can die between any two steps. The modules here model the
protocols that keep those repetitions harmless; TLC checks them on small instances
and TLAPS proves the central results for instances of any size.

Every definition is read from the TypeScript source (and the shell of `deploy/`).
`PROJECT.json` maps each one to the lines it stands for.

## 1. The system

| Part | Source | State it keeps | Operations |
|---|---|---|---|
| Recovery controls | `packages/recovery` | `service_state` (generation, mode); the configured `RECOVERY_GENERATION` | init, begin, complete, mutation gate, job gate |
| Send | `packages/send` | `outbound_messages`: status, Sent-copy status, lease stamps, attempt counters | queueSend, executeOutbound, executeSentCopyAppend, reconcileUnknownOutcome, recoverAbandonedAttempts, the sweeps |
| Compose | `packages/compose` | `drafts` (revision, lockedBySend), `uploads`, `draft_uploads` | create, reply, update, delete, attach, detach, lock, unlock |
| Editor and compose screen | `apps/web` (draft-editor, compose-screen, compose-data), `packages/compose/src/autosave.ts` | the shown draft, the autosaver, the attachment list, requests on the way | edit, save, resolve, close, open, send, check, resend, attach, remove |
| Actions | `packages/actions` | `mail_actions`, `mail_action_items` with a frozen target each | submit, execute, receipt, disposition of restored actions |
| Sync | `packages/sync` | `folders` (UIDVALIDITY, generation, backfill boundary, arrival checkpoint), `message_occurrences` | backfill, arrivals, expunges, flag refresh, generation reset, body fetch, thread reconciliation |
| Ingestion | `packages/ingestion` | `messages`, `bodies`, `attachments`, thread jobs | stage original, commit parsed, merge duplicates, refresh body, regenerate attachment |
| Storage | `packages/database/src/storage` | durable and disposable objects on disk, the collection pause marker | put, get, remove, collect |
| Offline | `packages/offline`, `apps/web/src/offline` | the browser's queue of actions, the server generation it saw | enqueue, replay pass, review, retry |
| Auth | `packages/auth` | owner, credentials, sessions, enrollment grants, ceremonies | bootstrap, recover, enroll, sign in, reverify, add, remove, revoke |
| Accounts | `packages/accounts` | account rows, folders with their roles, sealed credentials | create, import folders, assign and clear a role |
| Settings | `packages/settings`, `apps/web/src/settings` | preferences; the shown ones and the failed patches | read, update, retry |
| Classification | `packages/classification` | labels, corrections, decisions, failures | cycle, correct, evaluate |
| Home | `packages/home`, `apps/web/src/home` | saved work, dismissals, priorities, the visit boundary; the shown sections | rank, page, refresh, save, choose, evaluate |
| Reading and search | `packages/reading`, `packages/search`, `apps/web/src/mail` | none on the server; the browser's list, window, overlays and cache | search, page, reload, act |
| Transport, harness | `packages/transport`, `packages/harness` | a connection; the scripted servers of the tests | submit, probe; serve |
| Worker, API, admin | `apps/*` | job queues and schedules | the crons, the routes, the operator's commands |
| Backup and restore | `deploy/*.sh` | bundles | backup with collection paused, restore under a new generation |

**How they interact.** The API and the worker are separate processes that share the
database and the object store and nothing else; the admin command is a third. Every
mutation passes the recovery gate first. `queueSend` freezes a draft into an outbound
row and locks the draft in one transaction; the worker's send queue claims the row and
talks to the relay; the acceptance writes the row, the local message and the draft's
lock together; the sent-copy queue appends to the Sent folder that the sync of the same
folder imports back. Actions are submitted by the API and executed by the worker's sync
cycle against the occurrences sync recorded. Ingestion turns an occurrence into a
message and merges rows with equal bytes, which moves anchors of drafts, outbound rows
and home. The browser's offline queue is a client of the same gate, and its editors
share the draft row with other devices.

**What is hard here.** SMTP and IMAP calls cannot be repeated blindly and their answers
can be lost on either side of the effect; leases can end while the attempt they guard is
alive; the send and sent-copy queues are not exclusive and a rolling restart overlaps
two workers; decisions are made from rows read in an earlier statement; a restore brings
back rows, credentials and half-done work of an earlier history, while devices still
hold requests of a later one; in the browser, answers arrive after the owner has moved
on. `hazards` in `PROJECT.json` lists these at their lines, with the properties that
cover them.

**What makes each part correct.**

- Recovery: no effect twice across restores; a ready service has no undispositioned work
  and no credential of an earlier history; a recovery can be completed.
- Send: one submission per row; an outcome is true and final; the draft is locked exactly
  while the outcome is open; a local message and a stored copy have their proof; every
  send resolves and every copy leaves the sweep.
- Compose: a snapshot holds exactly the revision and files its draft had; a replayed
  request is the same request; a reply goes to whom the parent names.
- Editors: nothing typed is overwritten unseen; the draft on the screen is the one that
  is sent; a reported file is kept.
- Actions: a move is never issued twice; a report is true; a receipt is final.
- Sync: no generation's rows are committed under another; checkpoints are monotonic; every
  message below a checkpoint was imported; nothing present is expunged. Threads follow
  the links of the headers.
- Ingestion and storage: a fetched row has its original, the right one, on disk and in
  every bundle.
- Offline: no edit lost or passed by an older one, no action of an earlier history replayed.
- Auth: what was revoked stays revoked; one assertion is accepted once.
- Home, lists, settings, roles, classification: nothing is skipped, the newest choice of
  the owner stands, spending is bounded.

## 2. Plan

All of the following is done; the order was that of importance.

1. `RecoveryStatus`, `RecoveryControls`: the gates every other part relies on.
2. `Outbound`, `SendPromise`: the execution of a send and what it promises.
3. `Actions`, `FolderSync`: the two users of a mailbox.
4. `Drafts`, `DraftEditor`, `OfflineReplay`: the freeze, the editors, the offline queue.
5. `Originals`, `Threads`: what becomes of fetched mail.
6. `Auth`, `HomeWork`, `HomeSections`, `Classification`, `FolderRoles`, `MailList`,
   `SettingsSync`, `Worker`, `Submission`, `ScriptedImap`.
7. `ComposeScreen`, `DraftFiles`, `Reply`: the compose dialog, its files, its replies.
8. `OwnerSends`, `OwnerAccess`, `DraftClients`, `Mailbox`, `FetchedMail` and `SideBySide`, which
   compose components, and the MC modules, which compose the others; and the proofs:
   `OutboundProofs`, `DraftClientsProofs`, `FetchedMailProofs`, `FolderSyncProofs`, `AuthProofs`,
   `ActionsProofs`, `HomeProofs`, `ServicesProofs`.

Worth doing next: `Reply` and `ScriptedImap` as theorems; an abstract promise that `Actions` implements; the bounded windows of
the send sweeps, with several rows and a clock. No module uses a RECURSIVE operator, so each
can be proved about.

## 3. The modules

In every module an action is one transaction, one remote call, one read whose result a
later step uses, or one act of a person; what the code does without a gap in between is
one step. Variables marked *history* in a module are read by properties only.

### Recovery: RecoveryStatus, RecoveryControls

`RecoveryStatus` holds the pure decisions of `packages/recovery/src/status.ts`.
`RecoveryControls` puts them to work in one deployment: `db` is the database (the row, the
owner, credentials, the live grant, the operations), `backup` the last bundle, `deployment`
the configured generation, `running` and `claims` what a worker holds in memory, `effects`
how often each operation reached the outside world, `captured` the generation a device
stamped. A restore replaces the whole database and is possible whenever the processes are
stopped; a device may submit the same request at any time.

### Sending: Outbound, SendPromise

`Outbound` models `packages/send/src/service.ts` from a frozen row on. `row` is the
`outbound_messages` row with the lock of its draft; `message` whether `messages` has a row
with the snapshot's hash; `copies` the server's Sent folder; `worker` each concurrent
execution with its program counter and what it remembers. `Submit` and `AppendMessage`
choose every answer the relay and the server may give, including answers lost after the
effect. `Crash` ends an execution anywhere. `SendPromise` is what a caller of `queueSend`
is promised: a send is open, then accepted, refused or unknown; the relay is asked at most
once; the draft's lock follows. `Outbound!KeepsPromise` is the refinement.

### Mailbox: Actions, FolderSync

`Actions` (`packages/actions`): `action` and `item` are the two tables, `local` the
occurrences, `run` each pass with everything it read and will use later, `server` and
`mailbox` the other side. `StartPass`, `ExecuteNext`, `HoldInterrupted`, `ReloadPending`
are `reconcileIncomplete` and `execute`; `SelectFolder` to `GroupDone` are
`executeFolderGroup`; `ApplyMove`, `WriteFlag`, `Readback` are the two-way executor. A
command reaches a message only while the selection it was made under is still the server's;
in another UID space the UID names a stranger (`strayed`). Abstractions: a message has one
occurrence; one flag stands for the two; the destination of a move always exists, since no
code deletes a folder row.

`FolderSync` (`packages/sync`): `box` is the folder on the server, `folder` its row, `occ`
the occurrences by UIDVALIDITY and UID, `cycle` what each cycle holds in memory. Everything
between the read of the row and the locked commit is a separate step, so another cycle, a
delivery, an expunge or a renumbering can come in between. Abstractions: a SELECT and the
SEARCH after it are one exchange, and so are a page of occurrences and its FETCH of flags;
UIDVALIDITY only grows, as RFC 3501 demands. Lines 160-173 of `runBatch` are left out: a
boundary of 1 is only ever written together with `backfillComplete`.

### Composing: Drafts, DraftEditor, ComposeScreen, DraftFiles, Reply

`Drafts` is the server: a draft's row with its links, uploads, and `queueSend` split at its
reads (`ReadLinks` to the freezing transaction), so that edits, links and other sends commit
in between. `DraftEditor` is the autosave state machine on several devices with the
editor's own reads and its send call; calls are lost or handled late. `ComposeScreen` is
the dialog over several drafts: navigation numbers, one editor that changes draft in place,
creations, sends, checks, resends and discards whose answers come late. Edits, saves and
revisions are left out there, "queued" stands also for "sent", and the steps of a reply's
choice are one boolean. `DraftFiles` follows the files of one draft through upload, link,
replay, relinking and removal, with one relink pass and one replayed upload at a time.
`Reply` is the derivation of accounts, identities, recipients and references from stored
headers, with the questions the dialog asks; request and answer are one step, quotes and
subjects are left out.

### Offline: OfflineReplay

One device's queue for one draft and one file: a pass, an observation of the server's
generation and the person interleave at every await; calls are refused or lost, pages
close, another device edits, a restore intervenes (all within `MaxTrouble`).

### Fetched mail: Originals, Threads

`Originals` joins the body fetch, the commit with its merge of byte-identical rows, the
store (an object is seen before it is on disk; a power failure drops what no directory sync
has reached), the collection, the backup and the restore. Keys hit by one of two races that
the code leaves open are collected in `raced` and excepted (section 9). `Threads` is the
reconciliation of dirty rows under overlapping passes and imports; import transactions are
atomic, and the row of a locally sent message is left out. A `Chain` is the least set of rows
that holds the start and every parent of its members, so a walk that meets itself ends; its root
is then the last row it reached, as in `chainRoot`.

### Owner: Auth, HomeWork, HomeSections, SettingsSync, MailList

`Auth`: a request verifies first and commits later (`request`), so every check can be stale;
`era` counts what revoked everything. `HomeWork`: changes name the revision and the
generation of a screen read earlier; `version` identifies what a row held. `HomeSections`:
sections are paged and refreshed while mail arrives, is classified, filed and dismissed; a
`loadMore` is sent and answered from one query, a refresh reads one snapshot, one page per
section is outstanding. `SettingsSync`: overlapping patches with tickets, lost answers and
one retry. `MailList`: the list of a scope with its window, overlapping reads, overlays and
the rows kept for offline use. Messages are numbers in order of arrival, which is also taken
for the order of their dates: one that arrives with an old date belongs between rows that are
shown, and appears there with the next reload. `lost` is a history of the list, not a field of
the code: whether something left the mailbox since the first page was read, or more arrived
above a page than the rows it continues (`Overtaken`).

### Background: Classification, FolderRoles, Worker

`Classification`: the sweep with its breaker and cap, corrections beside it, and the
evaluation; one cycle at a time. `FolderRoles`: discovery and the owner's assignments under
the account's lock. `Worker`: setup, schedules, signals, the accounts of a sync cycle and
the health report; "send" stands for the three queues of the standard policy.

### Wire: Submission, ScriptedImap

`Submission` is one SMTP conversation between `submit.ts` and the scripted server, cut
anywhere. The order of commands and the error codes are those of the mail library and are
marked external. `ScriptedImap` is the mailbox every suite of sync, send and actions runs
against: sequence numbers, late expunges, modification sequences, faults.

### OwnerSends, OwnerAccess, DraftClients, Mailbox, FetchedMail, SideBySide and the MC modules

Four modules compose components that share no variable: every step is a step of one of them,
and the parameters are theirs. The theorems about these components speak of the compositions.

`OwnerSends` extends `Outbound` and puts `ComposeScreen` next to it: the dialog in which sends are
made and the execution of the queued rows.
`DraftClients` extends `Drafts` and puts `DraftEditor` and `OfflineReplay` next to it: the
server's row, the editors of several devices, the queue of one. `FetchedMail` puts `Originals`,
`Threads`, `Classification` and `HomeWork` next to each other. `SideBySide` does so with `Worker`, `Submission`,
`SettingsSync`, `DraftFiles` and `MailList`. It numbers the accounts of a sync cycle in the order of their
visits and writes 0 for a schedule that stamps no generation, which counts from 1.

`Mailbox` extends `FolderSync` and puts `Actions` next to it, in three settings: moves, overlapping
passes, flags. `OwnerAccess` puts `Auth`, in four settings, next to `HomeSections`, in three. A
setting is a record of values for the constants of the component, and the settings are constants
themselves, so that a theorem speaks of any. The components are instantiated from the modules of
their proofs (`ActionsProofs`, `AuthProofs`, `HomeProofs`), which extend them: the definitions are
the component's, and the theorems come with them.

`MCSending` (around `OwnerSends` and `OwnerAccess`), `MCMailbox` (around `Mailbox`), `MCDevice` (around
`DraftClients`), `MCServices` (around `RecoveryControls`, `FetchedMail` and `SideBySide`) and
`MCFair` extend these modules and instantiate other components that share no variable with
them. The variable `scenario` says which one moves while the others rest in their initial
state, so the state spaces add up instead of multiplying. A property of an extended module is
checked under its own name; a property of the MC module joins the named properties of its
instances, each under its scenario. `PartsTypeOK` joins the type invariants.

## 4. The runs

| Run | Scenarios | What it shows |
|---|---|---|
| `sending` | sends, composing, addressing, referencing, numbers, faulty; setup, revoked, removals, counters; pages, arrivals, evaluation | one submission, true and final outcomes, the lock, the cause of every copy, the refinement of `SendPromise`; the dialog, replies, the scripted IMAP server, sign-in and the pages of Home |
| `fair` | recovery, sends, folder, moves | everything that must come to an end does |
| `mailbox` | moves, overlap, flags, folder | true reports, no second MOVE, no write in another UID space, a true mirror, checkpoints and receipts that are never taken back |
| `device` | drafts, editors, offline | frozen drafts, editors and the offline queue |
| `services` | recovery; fetches, reads, storage, rejected; conflicts, anchors, choices; sweep, breaker; roles; circle, returning, copies; reading, archiving, overtaking; working; submitting; settings; files | effects at most once and no restored access across two restores; ten further components, one property each |
| `closing_editor` | `DraftEditor` | finding |
| `older_edit` | `OfflineReplay` | finding |
| `wrong_draft` | `ComposeScreen` | finding |
| `left_behind`, `returned_file` | `DraftFiles` | two findings |
| `replayed_move` | `MCMailbox` (overlap) | finding |
| `rewound_folder` | `FolderSync` | finding |

**What the joint properties join.**

- `CopiesAreBacked`: `MessageHasProof`, `StoredIsInFolder` (Outbound). `RestoreIsSafe`:
  `EffectAtMostOnce`, `PendingIsCurrent`, `AccessIsCurrent` (RecoveryControls).
- `OwnerIsFollowed`: `ClickedDraftStays`, `OneSendAtATime` (ComposeScreen).
  `RepliesAndNumbersAreTrue`: `ReplyIsTheParents` (Reply), `ModseqIsProof`, `NumbersAgree`
  (ScriptedImap).
- `WritesAreSafe` (Actions): `NoWriteAcrossGenerations` and, while passes do not overlap,
  `MoveIssuedOnce`. `ReportsAreTrue` (Actions): `CompleteMeansDisposed`, `ConfirmedFlagWasHeld`
  and, while passes do not overlap, `RefusedMoveDidNotHappen`. Both are asked of the scenarios
  moves, overlap and flags. `MirrorIsTrue`: `ScannedMailIsListed`, `RowsAreTrue`,
  `OnlyCurrentIsActive`. `ProgressIsKept`: `CheckpointsAdvance`, `ReceiptIsFinal`.
- `EditorsKeepWork`: `LoadedIsCurrent` (Drafts); `PendingHasASave`,
  `SendFreezesWhatWasShown`, `ReplacesOnlyWhatItSaw` (DraftEditor). `ReplayKeepsEdits`:
  `EditsAreKept`, `SavesGoFirst`.
- `AccessIsRevoked` is Auth's with `AcceptedOnce` and `LeavesAPasskey`; `HomeShowsAll`
  (HomeSections) is `WalkMissesNothing`, `AttentionFollowsRanking` and `MissIsReal`, asked of
  pages, arrivals and evaluation.
- In `services` each property has the name of the component's own, joined with a second or
  third one: `RightOriginal` and `BundleIsComplete`; `OneOpenRecord` and `KeepsCompleted`;
  `BreakerHolds` and `SpendsWithinCap`; `KeepsReports`; `LinksAreSound`;
  `SignalStops`, `TicksAreCurrent` and `FailureShowsStep`; `NothingInTheClear`;
  `LinkedOnce`.

**Bounds.**

- Recovery: three generations are a history, one restore of it and a second restore, so
  rows of two earlier histories can meet; `MaxEffects` is 2, one more than allowed. In
  `fair` two generations: one restore.
- Outbound: rows share nothing (every guard reads one row), so one row with three workers is
  the interesting instance: the claimant, the one that overtakes it after a hold, and a third
  that read before both. `AttemptCap` is 2, so that a first failure, the last attempt and the
  capped row all occur. In `fair` two workers and two crashes.
- Actions: two moves in two folders with one action per pass (the second waits for a later
  pass); one bulk move under two passes; two flag actions on one message of one folder with two changes by
  others. In `fair` refusals and a crash.
- FolderSync: two UIDs with windows, batches and repairs of one give every poll and backfill
  a middle and an end; two UID spaces are the one before and the one after a renumbering. Two
  overlapping cycles need no crash beside them: a cycle that stalls for ever is a crashed one.
  The safety run starts from a contacted folder, see `rewound_folder`; the fair one from first
  contact on, with a crash.
- Drafts: two drafts, two requests, two keys, two texts, one upload and two revisions: each
  of an edit, a link and a second send can come between the reads and the freeze of a first.
- Editors: two devices, one of them with an offline store, two edits, one lost call. Offline:
  two queued items and one fault; the pass that meets the fault and the one that makes up
  for it both occur.
- Originals: two rows of the same bytes and two fetches; a fetch beside a reader, or beside a
  collection and a backup, with one failure. Threads, under two passes: a cycle of two headers; two
  copies of a message and a third row that names it and is named by it, whose merge closes a
  cycle; and a message stored twice whose reply loses its reference, with a reply to the reply. HomeSections: three entries
  with pages of one. HomeWork: two devices and two generations around one record, two records
  around a merge. Auth: two passkeys and two requests around each kind of revocation.
  Classification: two messages against a ceiling of one call, once with every level of
  precedence and once with a breaker that opens at two failures, five instants. FolderRoles:
  two spellings of the inbox and two roles. MailList: pages of one, two
  messages and one arrival around a list that requests one at a time, or two arrivals above a
  page that continues one row; two messages, of which one is archived. Worker: one account, two generations, two processes. Submission: two recipients,
  two conversations. SettingsSync: three patches. DraftFiles: one file, up to three copies of
  it on the server.
- Compose: one draft and one more to be made, two requests on the way. Reply: every
  combination of a few headers, two accounts, one change of identities. ScriptedImap: two
  connections and two messages; or one connection, a replaced folder and a fault.

`MaxChanges`, `MaxCrashes`, `MaxFaults`, `MaxTrouble` and `MaxLost` bound only the
environment. Workers, passes, cycles, requests and uploads are interchangeable, and the runs
use that symmetry, except `fair`, which has liveness, and `services`.

CHECK_DEADLOCK is off wherever the bounds or the end of the work leave nothing to do: a
scenario rests when its row is settled, its actions are complete or its budget is spent.

## 5. Fairness

`MCFair` states the fairness of each part, guarded by its scenario; the formulas are those
of the components.

- Sends: weak fairness of each worker's next step (an execution in a live process goes on,
  with timeouts on every remote call), of the end of a lease (the clock), and of handing a
  due row to a worker: the crons of `apps/worker/src/main.ts` run every 5 seconds (send) and
  15 seconds (Sent copies) for as long as the process is up, and crashes end because
  `MaxCrashes` bounds them. The mapping of the Sent folder has no fairness: the owner may
  never create it, and `CopyLeavesSweep` asks that it becomes stable. A lease is longer than
  its attempt there (`EarlyExpiry = FALSE`); the safety run drops that assumption.
- Recovery: an operator who follows the restore runbook of `deploy/README.md` and repeats a
  step that a restart or a second restore undid; those steps need strong fairness, since the
  environment can disable them again and again. `RecoveryCompletes` excepts a database with
  restored pending sends (section 9).
- Actions: weak fairness of the start of a pass and of its next step: the sync cycle of
  every account runs on a cron and calls `reconcileIncomplete` each time. Nothing is assumed
  of the mailbox.
- Folder: weak fairness of a cycle's next step, and strong fairness of beginning a backfill
  and a poll: a cycle runs both whenever they are due, but may be in another stage at any
  given moment. An inventory is never forced. `EventuallyMirrored` needs a mailbox that comes
  to rest, which the bounds on its changes provide.

The other components promise nothing that must happen without a person or a network, so no
liveness is stated for them.

## 6. What is proved

**OutboundProofs**, from `OutboundAssumption` alone (distinct model values, a positive cap,
bounds of the right type), for any number of rows and workers: `TypeCorrect`, `AtMostOnce`
(`SubmittedAtMostOnce`), `LockFollowsOutcome` (`LockedWhileUnresolved`), `OutcomeCorrect`
(`OutcomeIsTrue`), `CopiesStayBacked` (`CopiesAreBacked`), `DefinitiveStays`
(`DefinitiveIsFinal`) and `PromiseKept` (`KeepsPromise`, the refinement of `SendPromise`). None
is inductive alone. At most one
submission holds because a worker past its claim is the only one: `Attempts` says that a
queued row was never submitted, that no worker is past a claim of a queued row, and that two
workers past a claim of the same row are the same worker, which has not submitted yet when it
is at `claimed`. The truth of an outcome needs what each worker remembers to be true:
`AnswerIsTrue` says that an `accepted` answer has an acceptance behind it, that a `rejected`
one has none, and that a worker committing from a verified copy found one that only an
acceptance can have put there. `IInv` joins `TypeOK`, `Attempts`, `LockedWhileUnresolved` and
`OutcomeIsTrue` with it; each step lemma covers one group of actions and `StepInv` collects
them. The refinement uses `MovesKeepPromise`: every step either leaves the status and the
relay alone, or is one of the named moves of `SendPromise`. For the copies, `CopyInv` adds that
a worker about to record a copy as stored, or an outcome as proved by one, holds an answer that
only a copy in the Sent folder can have given, also after its lease ended and another worker
took the row.

`DialogFollowsOwner` (`OwnerIsFollowed`) is about the dialog, for any drafts and any requests on
the way. `DialogInv` says that as long as the owner's last wish is a draft, no creation on its
way is the newest navigation (`Quiet`), so none moves the dialog when it is answered; a copy that
opens and a discard carry the wish along. It also says that a press whose answer still matters
is the only one, and that its editor is on screen with the flag of the press (`SendsOK`). That is
inductive because the flag survives a change of draft (`Switched` leaves `inFlight` alone, unlike
the button's `sending`), and an editor that goes away takes its requests with it. `ShowsOK` is
the lemma of every change of the dialog, `StaysOK` of every step that leaves it where it is.

**DraftClientsProofs** begins with the service, from `DraftsAssumption` (a key that names no
send, positive bounds), for any number of drafts, uploads, keys, texts and requests:
`DraftsTyped` (`TypeOK`), `DraftIsFrozen` (`FrozenDraftIsTheSnapshot`),
`ReplayAnswersItsRequest` (`ReplayIsTheSameRequest`) and `LoadedStaysCurrent`. A send composes
its snapshot from a text it read outside of any transaction; that the freeze takes the draft's
own text holds because the freezing update names the revision that was read, and
`LoadedIsCurrent` says that at that revision the text is still the one read. `DraftsInv` is
`TypeOK`, `LoadedIsCurrent` and `FrozenDraftIsTheSnapshot`. The check of the files stands in the
transaction itself.

Then the clients, for any number of devices, edits, lost calls, edits by others and restores.
`EditorsStayTrue` (`EditorsKeepWork`) rests on no assumption but that of `Drafts`. `HandOK` says
what an editor has in hand: a call carries an edit that is still pending, a conflict has an edit
and no call, the fields show what is pending. `SeenOK` says that every revision it may save
against, its base, that of a call or of the choice shown in a conflict, was shown to its device;
`NewestOK` that whatever it holds of the server's newest revision is that revision's text, so a
send that asks for it (`AskOK`) showed what is frozen. Each is a fact about one editor's record
and the row, and each method of the autosaver has its lemma (`FlushOK`, `SavedOK`, `UnsavedOK`,
`PushOK`), so a step is the method's lemma and the row's: when the row moves, it moves to a
revision no editor holds (`RowMoves`).

`ReplayStaysInOrder` (`ReplayKeepsEdits`) asks that the queue holds finitely many actions
(`QueueEnds`). A pass works on a list and on copies while the person, the observer of restores
and the server move on. `InOrder` says that an edit queued before a send and never called
stands before it in the list: true when the list is made, since both the timestamps and the
ranks agree (`OrderLists`), and kept because an action begins to wait only when it is queued,
behind all others (`Moved`); an edit that comes back from a failure was called, one from a
review was rebased. `WorkOK` says that the action a pass works on is the one it copied or was
dropped, and that no edit waits before a send that is called; `AnswerOK` that a save answered
as synced is on the server.

**FetchedMailProofs**, from `FetchedAssumption` (the absent value is neither a message nor a
content; the contents of UIDs are contents; the guardrails are naturals; an account has finitely
many rows), for any number of messages, fetches, passes and failures. `OriginalsStayIntact` (`OriginalsAreIntact`, the whole property
of the run) is about files and a database without a common transaction. `FetchOK` follows one
fetch: the object of its row holds what it staged from the rename on, also on disk from the
directory sync on, and is young enough for no collection to have it on its list; what it is
about to commit is what its UID held at first, because the generation was compared after the
staging; a row about to be merged has a fetched twin. `RowOK` says that a row's occurrence
points to it unless it was merged, and only a fetched row takes over another's. `RowsSound` adds
that no two fetched rows hold the same bytes. `CollectionOK` says that an object missing from
the references a pass has listed is not old if a row has come to need it since. `BackupOK` says
that the rows of a snapshot stay fetched with their digests while the objects are copied, and
that the copies made so far are theirs; `KeptOK` that a complete bundle has all of them, which
is what a restore needs. The races that the code leaves open (section 9) are excepted in each of
them by `raced`, as in the property.

`SpendingStaysBounded` (`SpendingIsBounded`) rests on `SweepInv`: within a cycle the number of
calls it knows is that of the decisions, and every burst of failures has one that is older than
the cooldown (`NoBurstCools`). What a cycle assesses is not the bursts themselves but the widest
window that starts at a failure still remembered; that a burst inside the cooldown lies in such
a window is the argument of the lemmas about `WidestBurst`, from the library's facts on
cardinality and the well-foundedness of <. Time only lets failures grow older, and the failure
that ends a cycle is not followed by a call of it.

`WorkStaysKept` is about saved work on any number of devices, with `ChangesWhatWasSeen`,
`OneOpenRecord` and the action property `KeepsCompleted`; `WorkIsKept` checks these of two
instances. A revision names what a row holds only within one generation, since a restore brings
back older rows whose revisions are used again. `SavedInv` says so: `Since` relates a row that was
seen to the row there is (it stands at a later revision, or unchanged at the same one, or it was
cancelled), and `ScreenOK` and `NamesOK` claim it of a screen and of a request read in the present
generation, nothing of older ones. `AdmittedOK` adds that a row still at the revision the gate
compared suits the change as it did then, which is what keeps a late cancellation from completed
work. Merged messages change the anchors of rows and no revision, so `OneOpen` has to be carried
through a merge by what the merge leaves behind: the record whose kind the survivor has open.

The conversations are proved in two steps. `LinksStaySound` (`LinksAreSound`) needs no more than
the account's lock and the marks. A pass decides in one transaction and writes in another, and in
between imports, parses and merges go on; each marks every row that names an identifier it
changed, and waits for a row that is locked. `LeavesTheRest` says this of each of them: a row
that is clean afterwards, or was locked, is the row it was, and the identifier it names has the
holders it had. Hence `LinkInv`: a decision in flight is still supported by the headers, so is the
link of every clean row, and every parent cycle, those a decision in flight would close included,
has a marked row besides the one being decided. It cannot say that there is no cycle: a merge
closes one (section 9), and its survivor is then marked.

`ConversationsHold` (`ThreadsFollowLinks`, the whole property of the run) adds what a thread is
worth while jobs are left. `ThreadInv` says that a row has the thread of its parent unless a
marked row is above it, that a clean row has a thread, and that two rows without a parent never
share one. The last clause is the hard one: when a row loses its parent it must not keep the
thread, or the rows it left would share it. The pass sees to that for a parent it takes away
itself; a parent that a merge took away it does not see. So the theorem has two hypotheses,
`CopiesAgree` (byte-identical copies parse alike, as they do through one parser) and `ParsesAgree`
(what a message refers to by its full parse is not the identifier its header block alone gave it,
unless that is its own). Both parses are of the same header fields, so a counterexample needs a
malformed message on which the two parsers disagree in this way; section 9 has it. `ParentsNamed`
turns the hypotheses into the fact that is used: the survivor of a merge is never linked to the
row it replaces. The run's instances satisfy both (`ExamplesAgree`).

**FolderSyncProofs**, from no assumption, for any number of cycles, messages and UID spaces:
`RowsStayTrue` (`RowsAreTrue`) and `OldSpacesAreInactive` (`OnlyCurrentIsActive`).
UIDVALIDITY only grows, so a window whose recheck finds the value the cycle works under was
fetched under that value; `MemoryOK` says so of what a cycle remembers at each point of its
work. A commit writes rows only under the value of the locked folder row, and a reset leaves
that row's old UID space with no active row. `IInv` is the shape of the state, `MemoryOK` for
each cycle and the two properties.

From a folder that was contacted before (`MirrorAssumption`: no first contact, natural bounds, a
positive arrival batch), `MirrorStaysTrue` adds what the checkpoints claim (`MirrorIsTrue`, the
whole property of the run) and `CheckpointsOnlyAdvance` that they are never taken back
(`CheckpointsAdvance`). The hypothesis is needed: after a first contact the folder can return
to a UID space it has left (`rewound_folder`), and its checkpoints with it. A commit claims a
range of UIDs that an earlier exchange searched, in a folder that other cycles moved on
meanwhile. `WindowIsFull` says that between the two every message of the range is in the
window, and after the fetch among the fetched: nothing can be delivered below the UIDs the
search saw, and a renumbering stops the commit. `RowIsOlder` says that a cycle's copy of the
folder row is never ahead of the row, so the comparison under the lock cannot pass on a stale
boundary; `Knowledge` that whoever marks a row expunged knows its message to be gone.
`MirrorInv` joins them with the bounds of the row (`FolderOK`) and the absence of rows of later
UID spaces (`SpacesOK`).

`FolderTyped` (the type invariant, which `PartsTypeOK` checks) is again about any folder, one
never contacted included, with positive windows and batches (`TypingAssumption`): the boundary
that a window of any size leaves, and the last UID of an arrival batch, are UIDs of the space.
`IInv` supplies what a cycle is doing at each point.

**AuthProofs**, from `SomePasskeys` (finitely many authenticators, and at least one), for any
number of ceremonies, grants, sessions and requests: `RevocationIsFinal`
(`NothingOutlivesRevocation`) and `APasskeyIsLeft` (`LeavesAPasskey`). A request verifies its
answer outside of any transaction and commits later, only if its challenge is still live
under the lock. `RequestOK` says that a checked request whose challenge is live made its
checks since the last revocation; a challenge that was ended never becomes live again. A
removal counts the active passkeys again under the owner's lock, so two removals that both
saw two passkeys do not both commit.

Two more theorems rest on the same invariant. `AssertionsCountOnce` (`AcceptedOnce`) adds
`OnceInv`: every count a passkey had accepted is behind its stored counter, and a passkey that
is not registered has none (`CountsOK`); at most one bootstrap grant is live and at most
one was used, which made the owner (`GrantsOK`), and a request that may still enrol with one
found no owner and there is none yet (`EnrollsOK`). `AuthTyped` (`TypeOK`) asks besides that the
authenticators' counters are bounded by a natural (`CountsEnd`).

**ActionsProofs**, from `Numbered` (messages are naturals, each in a folder), for any number
of actions, messages, folders and passes: `WritesStayInGeneration`
(`NoWriteAcrossGenerations`), `CompleteIsDisposed` (`CompleteMeansDisposed`) and
`ReceiptsAreFinal` (`ReceiptIsFinal`). The status of an action is recomputed in the
transaction of every receipt. `RunOK` says that a pass past its claim selected the folder in
its first UID space: a pass that selected the second one found the hub to agree, and then
the sync has invalidated every local occurrence of the folder (`ResetInvalidates`), so the
pass claims none. The order in which a pass takes its items is used only through
`LeastIsMember`, from the library's theorem that < is well-founded on the naturals.

Three further theorems concern what a pass remembers over several remote calls. They ask that
actions are numbered from 1 (`Counted`), since 0 marks a message no MOVE took.
`ConfirmedFlagsWereHeld` (`ConfirmedFlagWasHeld`) holds for any number of overlapping passes,
other clients and crashes: `HeldOK` says that a pass about to confirm a flag has seen
the message with the value, or had its write taken. `MovesAreIssuedOnce`
(`MoveIssuedOnce`) and `RefusedMovesDidNotHappen` (`RefusedMoveDidNotHappen`) ask that passes do
not overlap (`OnePass`), the condition under which they are true: `replayed_move` shows two
passes sending a MOVE twice. `MoveOK` says that a pass that has loaded its items and not yet
sent its command works on items no pass ever sent, because it held whatever an earlier one left
in execution, and that its answer to a MOVE that took the message is no refusal. `PlaceInv` says
at which point of its work a pass holds a target, a command and an answer.

`ActionsWriteSafely` (`WritesAreSafe`) and `ActionsReportTruly` (`ReportsAreTrue`) join these
five, from `Counted`, for any number of passes: each part that needs passes not to overlap says
so itself.

`ActionsTyped` (the type invariant, which `PartsTypeOK` checks) asks besides that the bounds of
the changes and crashes are naturals (`Sized`). `TypesInv` adds to the types that a pass about
to write a receipt holds a disposition (`Records`): the answer to a flag write is read back
before it is recorded, and never recorded as it came.

**ServicesProofs** holds two developments. From no assumption but naturals for the bounds
where one is named, it proves the five properties of `SideBySide`, each for any values of its component's parameters. Every
step belongs to one component and leaves the variables of the others alone (`SettingsAlone`,
`SmtpAlone`, `FilesAlone`, `WorkerAlone`, `ListAlone`), so each argument is that of one component.

- `NewestEditStays` (`NewestEditShows`), for any number of edits, retries and requests: a
  request the server is done with is answered with its own patch, and the patch that owns a key
  by its ticket carries what was applied to that key last. An answer adopts only the keys it
  owns, so it repeats what the screen shows; a failed request adopts nothing.
- `VerdictsStaySound` (`VerdictIsSound`), for any script of the server, recipients and cuts of
  the connection: `TalkInv` follows the conversation stage by stage, what is on the wire in each
  direction, what the server has stored, and what the client may therefore conclude; a rejection
  is concluded only while no message can have been stored and none is on its way. `SecureInv`
  says that before the upgrade only the commands that ask for it were sent.
- `WorkerKeepsReports` (`WorkerReports`), for any accounts, generations and starts: `WorkerInv`
  says that a schedule that was armed stamps the generation its process was started under, and
  that a signal that came before the stop gate existed is honoured when it is armed.
- `FilesStayKept` (`FilesAreKept`), for any files, uploads, lost answers and reloads: three
  writers link a file, the addition, the replay of the offline queue and the relinking pass.
  `RecordsInv` says that a record with an id names the only copy of its file that can be linked,
  and one without an id has none linked and waits in the queue; `ListsInv` that a list read from
  the server some time ago names only copies that are still linked or that the owner removed, so
  that no stale list lets a pass link a second copy.
- `ListStaysUnbroken` (`ListSkipsNothing`), for any number of messages, arrivals, pages and
  actions, any page size and limits, and reads that overtake each other; `ArrivalOrder` says that
  messages are numbered in the order of their arrival. A message has its place in a listing: the
  number of messages above it (`Above`). `PageHolds`: a page holds exactly the messages of its
  places. `MailInv` says that the list asks for its next page where its rows end, that at most
  one read can still paint it (`OneLive`), and that the answer of that read, when it is to be
  appended, continues the rows (`Continues`): what is new in it is older than all of them, and
  no message between the last row and a row of the page is missing. That is where the choice of
  the window counts: while nothing leaves, the places of the rows only grow, so a page that
  starts at their number starts at or above the message after the last one (`PageContinues`). It
  starts too high only if more messages arrived than there are rows, which is the case
  `Overtaken` marks; without that case the scenario overtaking refutes the property.

The other is about `RecoveryControls`: from distinct generations and a positive bound (`RecoveryAssumption`),
for any number of operations, backups and restores: `RecoveryTyped`, `EffectsHappenOnce`
(`EffectAtMostOnce`), `NoRestoredWorkRuns` (`PendingIsCurrent`), `NoRestoredAccess`
(`AccessIsCurrent`) and `RestoresAreSafe`, which joins these three (`RestoreIsSafe`). An
operation's row carries the generation its device captured. A restore
retires the deployed generation and the operator never reuses one, so what a bundle brings
back carries a generation that is never deployed again: neither gate lets it act. While the
generation is deployed, the row itself remembers that it was claimed. `GenerationsAreUsed`
and `EffectsAreSpent` say this of the live database, of the bundle and of every claim.

**HomeProofs**, from distinct ids, finitely many messages with dates, and pages of at least one row
(`HomeAssumption`), for any number of visits, refreshes, pages and changes: `HomeStaysWhole`
(`HomeShowsAll`). It starts from the ranking. A candidate is known by its section and its mail
(`CandidatesKnown`), ids are the last key, so two candidates of one section are never equal in
rank, and an entry has one leader. `InOrder` takes at each place the row that as many others
precede; that there is exactly one such row at each place is a counting argument over finite
sets. Hence a page holds what ranks first after its cursor, and its own cursor covers the rest
(`PageCovers`).

`HomeInv` then says where an entry that stayed in its place since its section was read can be:
on the screen, or ranked after the cursor the screen will ask with (`Goes`). `ReadingCovers` says
it of a full read under way, section by section, since each of its five queries sees another
database; `ScreenCovers` of the screen, of a page on its way (it was asked with the cursor of the
screen, unless the section was paged across a refresh) and of a refresh on its way, for any number
of rows the refresh asks for. What leaves its place or is dismissed is in place no longer, so a
step only has to carry the promise for fewer entries (`FewerCovered`). With no cursor left,
nothing can rank after it, which is `WalkMissesNothing`. `OwnRows` adds that the row of such an
entry is led by its mail and counts it among its members, so the walk of the evaluation holds
it: `JudgedTruly` says that a verdict was made of a whole screen, or is still open. No
induction over a list is needed for any of this, because the pages are functions of ranks and not
folds.

**The runs as a whole.** Where a run moves one component in several settings, the theorems about the
component have to be carried to the composition. They are, for any settings that meet the
component's assumptions (`SettingAssumption`, `SignInAssumption`, `ShownAssumption`; the MC modules
assert them of their values, `SettingValues`). Under one scenario the whole takes steps of one
component in one setting, and a scenario never changes (`MovesAlone`, `SetupAlone`, `PagesAlone`
and their likes), so what the component keeps, the whole keeps under that scenario. In
`FolderSyncProofs`: `MailboxWritesSafely` (`WritesAreSafe`), `MailboxReportsTruly`
(`ReportsAreTrue`), `ProgressStaysKept` (`ProgressIsKept`) and `MailboxTyped` (`PartsTypeOK`), so that
with `MirrorStaysTrue` every property of `mailbox` is a theorem, the last about a folder contacted
before. In `OutboundProofs`: `AccessStaysRevoked` (`AccessIsRevoked`) and `HomeStaysShown`
(`HomeShowsAll`).

## 7. What is only model-checked

- Liveness (`SendResolves`, `CopyLeavesSweep`, `RecoveryCompletes`, `ActionsComplete`,
  `EventuallyMirrored`): the proof system does not handle fairness with ENABLED.
- `RolesAreStable` and `Reply`: what a fold over a list of folders or headers computes for every
  list needs induction over data, which the provers cannot instantiate.
- The joint properties of `MCSending`, `MCDevice` and `MCServices` themselves (`PartsTypeOK`,
  `RepliesAndNumbersAreTrue`) speak of particular instances, of components whose types are not
  all proved.
- The type invariants of `ComposeScreen` and the components of `FetchedMail` and
  `SideBySide`.
- Every property of a component that §6 does not name: those of `ScriptedImap`, and `TypeOK` of `HomeSections`.
  `SendsWhatIsShown` of `ComposeScreen` is a finding (`wrong_draft`).

No module declares a RECURSIVE operator.

## 8. What is not modelled

`components` in `PROJECT.json` lists every part with its status. In short:

- Functions over strings: message parsing and sanitizing, MIME text, Markdown, the query
  language, prompts, cryptography, address syntax. They appear as model values and as the
  outcomes the code distinguishes.
- Layout, wording, keyboard and themes of the web application; the service worker's cache.
- The bounded windows and orders of the send sweeps: a due row is eventually handed to a
  worker, without a model of which rows fill a window.
- Disposable objects and stale temporary files; retention of bundles; the deployment probes.
- Account and identity rows, which are single statements; contracts and migrations.
- The relay, the IMAP server, the clock, the network, the operator and the owner are the
  environment: they are modelled by what the code lets them do.

## 9. Findings

Seven runs show a disagreement between the code and a comment or document; each is quoted
in `PROJECT.json`.

- `closing_editor`: an editor that is closed while a save is in flight drops the edit typed
  since. The flush only marks itself wanted and the disposed autosaver never runs it.
- `older_edit`: a queued save that has to be tried again is chained past the newer save that
  synced after it, and then replaces the newer text.
- `wrong_draft`: a read, a check or a send that is answered after the owner changed draft puts
  that draft behind the fields of the other; the next send freezes the one not on the screen.
- `left_behind`: a file whose link failed does not hold back a send made online.
- `returned_file`: a file the owner removes is linked again from the record of its upload.
- `replayed_move`: a pass that reads the items a second time takes another pass's claim for
  an item of its own and sends the MOVE again. `MoveIssuedOnce` therefore speaks of passes
  that do not overlap.
- `rewound_folder`: a first contact that lost to a cycle with an older UIDVALIDITY calls the
  older one *observed*. If the folder is reset forward before its own reset runs, the folder
  goes back and the rows of the newer UID space are invalidated. `MirrorIsTrue` therefore
  starts from a contacted folder.

### Properties that are stated and not kept

Some modules state, beside their properties, what a comment or document promises and the
model shows not to hold; no run checks them.

- `RestoredSendsCanComplete`: SPEC.md section 10 (step 4) and deploy/README.md (Restore,
  step 5) have restored sends reviewed and held; no command does that, and a restored queued
  or sending row makes `recovery complete` refuse for ever.
- `ActionsCompleteBesideLostFolder`: selecting a folder the server lost throws out of every
  pass (`actions/service.ts:404`), so the actions behind it never get the outcome of SPEC.md
  section 7.
- `OwnerAnswerStays`: `classifyRow` (`classification/service.ts:365`) overwrites an owner's
  correction that was committed after `listCandidates`; `corrections.ts:22` says otherwise.
- `ResumesAfterNewest`: the breaker closes one cooldown after the oldest failure of its burst
  (`classification/service.ts:574`), the description at 592 says the newest.
- `ArrivalSurfaces`: `advanceVisitBoundary` (`home/service.ts:399`) takes the newest
  `ingested_at` after the sections were read, so mail committed in between is behind the
  boundary without having been shown.
- `QueuedHasNotRun`: a mail action whose answer was lost looks like one that was never sent
  and is queued under a new idempotency key (`actions.ts:82`).
- `RetrySendsTheNewest`: a patch that is in flight while its key is edited again is appended
  to the failed ones when it fails (`settings-context.tsx:184`), and Retry sends the older
  value, against the comment at 77.
- `FullVolumePauses`: a full volume is caught per body (`sync/runner.ts:194`) and does not
  pause the cycle as `worker/main.ts:274` describes.
- `OnlyCurrentWorkReplays`: a pass that read one generation while `observeGeneration` writes
  the next lets an item of the older one go out with the newer header (`port.ts:110`, against
  the comment at 23).

- `LinksFormNoCycle`: "no validated link can ever form a cycle" (`threads.ts:427`). Each decision
  refuses to close one, but `mergeDuplicate` (`ingestion/service.ts:458`) moves the children of the
  removed row to the survivor and looks for a cycle only where the survivor is itself such a
  child. Of two copies of a message, one is the parent and the other the child of a third row
  (the scenario returning): their merge closes the cycle, which lasts until a marked row on it
  is decided again. `LinksAreSound` says that there always is one.

### Further observations

Each is reachable in a model or was met while reading, without a property of its own.

- Outbound: a Sent import between the lookup by hash and the insert raises a wrapped unique
  violation, so an accepted message stays in `sending` until its lease ends (comment at
  1237); a conclusion of an append ends the claim of another worker (comment at 1421); an
  append that outlives its lease each time is never counted (1449); the conclusion of a pass
  that found no Sent folder overwrites an unknown outcome (780); a reconciliation that throws
  after its session opened counts no pass (1042).
- Actions: a second pass that finds the source gone concludes a conflict, and the first
  pass's confirmed receipt is refused; a MOVE of a UID that is gone is answered OK and
  confirmed; the sync moves flag and revision without the modification sequence, so a later
  action conflicts without need or writes unconditionally; an interrupted flag action can be
  replayed after a newer, contrary one.
- Originals (`raced`): a fetch that overlaps the first one of its row after a renumbering, and
  the removal between the stat and the unlink of `gc.ts:91-107`. The grace is measured from
  the modification time, not as the comment at gc.ts:19 says. An expired sync job can overlap
  the next cycle although its queue is exclusive.
- Threads: a row left ambiguous because of a cycle is not marked again when a third row
  changes; a marking statement that ran before a concurrent child became visible leaves that
  child pending. A merge takes the parent from a survivor that was linked to the row it
  replaces, so the pass that then finds it without a parent does not call it detached
  (`threads.ts:291`), and it keeps the thread of the chain it left, which other rows may still
  be in. It takes a row whose full parse refers to the identifier its own header block showed;
  `ParsesAgree` excludes that.
- Auth: the sign-in screen shows no enrollment form while login is inspection-only
  (`sign-in.tsx:105`).
- Home: a row kept across a restore and a refreshed generation can pass the revision check; a
  page that overlaps a refresh can skip an entry until the next one; an answer from before a
  generation change is cached under the new one; a refresh asked for during a refresh is
  dropped; the evaluation counts expunged inbox rows as missing a signal.
- Classification: mail ingested between enabling and the first cycle lies before the session
  marker; disabling and enabling between two cycles writes no marker; `roundCents` closes the
  cap up to half a cent early.
- Accounts: a failed connection test can leave a second account behind; the list of
  identities is last-writer-wins.
- Lists: if more messages arrive than rows are shown before the next page is loaded, the page
  holds only messages newer than the rows, which `useMessageList` appends below them without
  sorting (`data.ts:698`; `compareItems` is used for the unified inbox only), so the list is out
  of order, and messages between them and the older rows can be missing, until a reload (the
  scenario overtaking); a page that only repeats rows does not move the window, so once a page's
  worth arrived, loading more adds nothing, until a reload; offline paging skips rows after messages left, until a reload; a read that was
  answered before an action ran clears that action's overlay (`app-shell.tsx:159`);
  `markReadOnOpen` tries once per session; the tests at `commands.test.ts:128` and 156 pin
  the toggle of `commands.ts:200`, whose label is the inverse of its effect.
- Worker: the health report reads in parallel statements; the overall status is "ok" while an
  account is stale; a mailbox that cannot be opened keeps its last status until 900 seconds
  have passed.
- Harness: the SMTP server counts refused final answers as completed and reuses an attempt
  cut off before its dot; the IMAP server numbers FETCH answers by the live folder before
  pending expunges are told, and an APPEND to the selected folder drops earlier ones.
- Compose: the answer of a resend or a discard changes the surface without asking the
  navigation number, and a discard answered after a switch disposes the other draft's
  autosaver; text typed between a switch and the new draft's answer goes to no autosaver;
  what was typed in one reply's question stays in the next one's field.
- Files: `canSend` ignores a file still being added; a failed read of the list is taken for
  an empty one, which relinks.
- Settings: `updateSettings` reads outside of its write transaction, so the older of two
  overlapping updates can stay stored while "Saved." shows the newer; a merged retry that
  fails again is dropped whole when one of its keys is edited.
- Offline: a save that is answered "retry" does not hold back its draft's send.
- Reading: `useResource` shows the old entry for one render under new inputs; after a 401 the
  probe shows the last answer's shell while it loads.
- Reply: References need not end with the parent's identifier when the parent's own list
  already holds it; a reply to one's own mail whose identity was removed since addresses the
  old one; the question for an account lists accounts that hold no copy.
