-------------------------- MODULE RecoveryControls --------------------------
(***************************************************************************)
(* One deployment through backups and restores: the RECOVERY_GENERATION    *)
(* of its configuration, the service_state row, the owner's credentials,   *)
(* and the pending operations that a restored database brings back to      *)
(* life.  A send and a management action are kept at the grain recovery    *)
(* sees: queued, claimed by a worker, concluded.  Module Outbound has the  *)
(* full life of a send.                                                    *)
(*                                                                         *)
(* A step is one database transaction, one remote call, or one act of the  *)
(* operator (restore.sh, the admin commands, starting and stopping).       *)
(***************************************************************************)
EXTENDS RecoveryStatus, Naturals, FiniteSets

CONSTANTS
    SendKey,        \* idempotency keys of sends
    ActionKey,      \* others, of non-replayable mailbox actions
    MaxEffects      \* bound, 2 or more: remote effects counted for one key

Key == SendKey \cup ActionKey

VARIABLES
    deployment,     \* RECOVERY_GENERATION of the running processes
    used,           \* every generation the operator ever configured
    running,        \* the API and the worker run
    db,             \* the database
    backup,         \* the last bundle of deploy/backup.sh, or NoBackup
    claims,         \* what the worker process does about each key
    effects,        \* remote effects of each key: mail accepted or moved
    captured        \* the generation a device captured for each key

vars == <<deployment, used, running, db, backup, claims, effects, captured>>

-----------------------------------------------------------------------------
(* The database.                                                           *)

(* A send joins its outbound status with the status of its Sent copy once  *)
(* it is sent ("copy_..."); an action has its own status.                  *)
OperationStatus ==
    {"queued", "executing", "outcome_unknown", "failed",
     "copy_pending", "copy_appending", "copy_settled", "complete"}

NoOperation == [status |-> "absent", generation |-> NoGeneration]
Operation == [status : OperationStatus, generation : Generation]

NoGrant == [purpose |-> "none", generation |-> NoGeneration]
Grant == [purpose : {"bootstrap", "recovery"}, generation : Generation]

Database ==
    [serviceState : ServiceStateRow \cup {NoControls},
     owner : BOOLEAN,                       \* the owner row exists
     credentials : SUBSET Generation,       \* active, by the generation they
                                            \* were registered under
     grant : Grant \cup {NoGrant},          \* the live enrollment grant
     operations : [Key -> Operation \cup {NoOperation}]]

EmptyDatabase ==
    [serviceState |-> NoControls, owner |-> FALSE, credentials |-> {},
     grant |-> NoGrant, operations |-> [k \in Key |-> NoOperation]]

NoBackup == [bundle |-> FALSE, data |-> EmptyDatabase]

Status == ClassifyControlState(db.serviceState, deployment)

(* databaseIsEmpty: no account, no mail and no queued work.  Accounts and  *)
(* mail appear with the same gate as operations, which stand for all.      *)
DatabaseIsEmpty(d) == \A k \in Key : d.operations[k] = NoOperation

PendingStatus == {"queued", "executing", "copy_pending", "copy_appending"}

(* countUndispositionedOperations = 0 *)
NoUndispositioned(d, current) ==
    \A k \in Key : d.operations[k].status \in PendingStatus =>
                        d.operations[k].generation = current

RevokeAllAuth(d) == [d EXCEPT !.credentials = {}, !.grant = NoGrant]

HasRegisteredOwner(d) == d.owner /\ d.credentials # {}

Idle == [k \in Key |-> "idle"]

TypeOK ==
    /\ deployment \in Generation \cup {NoGeneration}
    /\ used \subseteq Generation
    /\ running \in BOOLEAN
    /\ db \in Database
    /\ backup \in [bundle : BOOLEAN, data : Database]
    /\ claims \in [Key -> {"idle", "claimed", "effected"}]
    /\ effects \in [Key -> 0 .. MaxEffects]
    /\ captured \in [Key -> Generation \cup {NoGeneration}]

Init ==
    /\ deployment = NoGeneration
    /\ used = {}
    /\ running = FALSE
    /\ db = EmptyDatabase
    /\ backup = NoBackup
    /\ claims = Idle
    /\ effects = [k \in Key |-> 0]
    /\ captured = [k \in Key |-> NoGeneration]

-----------------------------------------------------------------------------
(* The operator and the processes.                                         *)

(* Write a RECOVERY_GENERATION nobody used before (restore.sh, step 1).    *)
Configure(g) ==
    /\ ~running /\ deployment = NoGeneration
    /\ g \notin used
    /\ deployment' = g
    /\ used' = used \cup {g}
    /\ UNCHANGED <<running, db, backup, claims, effects, captured>>

Start ==
    /\ ~running
    /\ running' = TRUE
    /\ UNCHANGED <<deployment, used, db, backup, claims, effects, captured>>

(* Stopping, or crashing, drops what the worker held in memory.            *)
Stop ==
    /\ running
    /\ running' = FALSE
    /\ claims' = Idle
    /\ UNCHANGED <<deployment, used, db, backup, effects, captured>>

(* backup.sh: one consistent snapshot, also while the service runs.        *)
Backup ==
    /\ deployment # NoGeneration
    /\ backup' = [bundle |-> TRUE, data |-> db]
    /\ UNCHANGED <<deployment, used, running, db, claims, effects, captured>>

(* restore.sh: the whole database, in one transaction, with the processes  *)
(* stopped.  The old RECOVERY_GENERATION is not valid any more.            *)
Restore ==
    /\ ~running /\ backup.bundle
    /\ used # Generation
    /\ db' = backup.data
    /\ deployment' = NoGeneration
    /\ UNCHANGED <<used, running, backup, claims, effects, captured>>

-----------------------------------------------------------------------------
(* The admin commands.  A command that the code rejects changes nothing    *)
(* and is no step here.                                                    *)

SetDb(d) ==
    /\ db' = d
    /\ UNCHANGED <<deployment, used, running, backup, claims, effects, captured>>

ControlRow(g, mode) == [generation |-> g, mode |-> mode]

(* recovery init *)
Initialize ==
    /\ deployment # NoGeneration
    /\ DatabaseIsEmpty(db)
    /\ db.serviceState = NoControls
    /\ SetDb([db EXCEPT !.serviceState = ControlRow(deployment, "ready")])

(* recovery begin, as the pair of its effect on the database and whether   *)
(* it has one: the active recovery is resumed without a second revocation. *)
BeginRevokesOnInsert(d, g) ==   \* a slip: an existing row keeps its auth
    IF d.serviceState \in {ControlRow(g, "ready"), ControlRow(g, "reconciling")}
    THEN d
    ELSE LET begun == [d EXCEPT !.serviceState = ControlRow(g, "reconciling")]
         IN  IF d.serviceState = NoControls THEN RevokeAllAuth(begun) ELSE begun

Begin(d, g) ==
    IF d.serviceState \in {ControlRow(g, "ready"), ControlRow(g, "reconciling")}
    THEN d
    ELSE RevokeAllAuth([d EXCEPT !.serviceState = ControlRow(g, "reconciling")])

BeginRecovery ==
    /\ deployment # NoGeneration
    /\ Begin(db, deployment) # db
    /\ SetDb(Begin(db, deployment))

(* recovery complete *)
CompleteChecksQueueOnly(d, g) ==    \* a slip: Sent copies are not counted
    /\ d.serviceState = ControlRow(g, "reconciling")
    /\ \A k \in Key : d.operations[k].status \in {"queued", "executing"} =>
                            d.operations[k].generation = g
    /\ HasRegisteredOwner(d)

MayComplete(d, g) ==
    /\ d.serviceState = ControlRow(g, "reconciling")
    /\ NoUndispositioned(d, g)
    /\ HasRegisteredOwner(d)

CompleteRecovery ==
    /\ deployment # NoGeneration
    /\ MayComplete(db, deployment)
    /\ SetDb([db EXCEPT !.serviceState.mode = "ready"])

(* recovery hold-actions: each old queued or executing action completes,   *)
(* its items conflicted or unknown, in a transaction of its own.           *)
RestoredQueued(op, g) ==    \* a slip: interrupted actions are left behind
    op.status = "queued" /\ op.generation # g

RestoredPending(op, g) ==
    op.status \in {"queued", "executing"} /\ op.generation # g

HoldAction(k) ==
    /\ Status.state \in {"reconciling", "ready"}
    /\ k \in ActionKey /\ RestoredPending(db.operations[k], deployment)
    /\ SetDb([db EXCEPT !.operations[k].status = "complete"])

(* auth bootstrap: before there is an owner.  It initializes a fresh       *)
(* database first, in a transaction of its own (Initialize).               *)
IssueBootstrapGrant ==
    /\ ~db.owner
    /\ Status.state \in {"reconciling", "ready"}
    /\ SetDb([db EXCEPT !.grant =
                [purpose |-> "bootstrap", generation |-> deployment]])

(* auth recover: whatever the control state, once there is an owner.       *)
IssueRecoveryGrant ==
    /\ db.owner
    /\ deployment # NoGeneration
    /\ SetDb([RevokeAllAuth(db) EXCEPT !.grant =
                [purpose |-> "recovery", generation |-> deployment]])

(* completeEnrollment, with a device that answers the ceremony.            *)
Enroll ==
    /\ running
    /\ Status.state \in {"reconciling", "ready"}
    /\ \/ db.grant.purpose = "bootstrap" /\ ~db.owner
       \/ db.grant.purpose = "recovery" /\ db.owner
    /\ SetDb([db EXCEPT !.grant = NoGrant, !.owner = TRUE,
                        !.credentials = @ \cup {deployment}])

-----------------------------------------------------------------------------
(* Devices.                                                                *)

(* A device creates the operation and captures the generation that the     *)
(* owner's session exposes.                                                *)
Capture(k) ==
    /\ running /\ db.credentials # {}
    /\ Status.state \in {"ready", "reconciling"}
    /\ captured[k] = NoGeneration
    /\ captured' = [captured EXCEPT ![k] = ClientGeneration(Status)]
    /\ UNCHANGED <<deployment, used, running, db, backup, claims, effects>>

(* queueSend, ActionService.submit: the gate comes before the idempotency  *)
(* lookup; a key the database knows is answered without a change.  The     *)
(* device never learns more than an answer, so it may submit again at any  *)
(* time, also after a restore.                                             *)
LookupFirst(status, request, known) ==  \* a slip: only a replay is gated
    known \/ (request # NoGeneration /\ status.state = "ready")

MayInsert(status, request, known) ==
    DecideMutationGate(status, request) = "allow"

Submit(k) ==
    LET known == db.operations[k] # NoOperation IN
    /\ running
    /\ captured[k] # NoGeneration
    /\ MayInsert(Status, captured[k], known)
    /\ ~known
    /\ SetDb([db EXCEPT !.operations[k] =
                [status |-> "queued", generation |-> Status.generation]])

-----------------------------------------------------------------------------
(* The worker.                                                             *)

OperationIs(k, status) == db.operations[k].status = status

MayExecute(k) == AssessJob(Status, db.operations[k].generation) = "execute"

SetOperation(k, status, w) ==
    /\ db' = [db EXCEPT !.operations[k].status = status]
    /\ claims' = [claims EXCEPT ![k] = w]
    /\ UNCHANGED <<deployment, used, running, backup, effects, captured>>

(* executeOutbound, executeFolderGroup: the claim.                         *)
Claim(k) ==
    /\ running /\ claims[k] = "idle"
    /\ OperationIs(k, "queued") /\ MayExecute(k)
    /\ SetOperation(k, "executing", "claimed")

(* The remote call takes effect: the relay accepts, the folder changes.    *)
RemoteEffect(k) ==
    /\ claims[k] = "claimed"
    /\ effects[k] < MaxEffects
    /\ effects' = [effects EXCEPT ![k] = @ + 1]
    /\ claims' = [claims EXCEPT ![k] = "effected"]
    /\ UNCHANGED <<deployment, used, running, db, backup, captured>>

(* What the worker commits once the call answered, or failed to.  The      *)
(* commit needs the row still in the state of the claim.                   *)
ItemOutcomes(k) ==      \* a slip: the status of an item put on the action
    CASE k \in ActionKey -> {"complete", "unknown"}
      [] k \in SendKey /\ claims[k] = "claimed" -> {"failed", "outcome_unknown"}
      [] OTHER -> {"copy_pending", "outcome_unknown"}

Outcomes(k) ==
    CASE k \in ActionKey -> {"complete"}
      [] k \in SendKey /\ claims[k] = "claimed" -> {"failed", "outcome_unknown"}
      [] OTHER -> {"copy_pending", "outcome_unknown"}

Conclude(k, outcome) ==
    /\ claims[k] # "idle"
    /\ outcome \in Outcomes(k)
    /\ SetOperation(k, IF OperationIs(k, "executing")
                       THEN outcome ELSE db.operations[k].status, "idle")

(* recoverAbandonedAttempts after the lease of a claim, and the hold of an *)
(* interrupted action: never a replay, the outcome is unknown.             *)
HoldAbandoned(k) ==
    /\ running /\ MayExecute(k)
    /\ OperationIs(k, "executing")
    /\ SetOperation(k, IF k \in SendKey THEN "outcome_unknown" ELSE "complete",
                    claims[k])

(* reconcileUnknownOutcome: the Sent folder or a receipt proves acceptance.*)
ReconcileUnknown(k) ==
    /\ running /\ MayExecute(k)
    /\ OperationIs(k, "outcome_unknown") /\ effects[k] > 0
    /\ SetOperation(k, "copy_settled", claims[k])

(* The Sent-copy append: claimed, then concluded or held as unknown.       *)
AppendCopy(k) ==
    /\ running /\ MayExecute(k)
    /\ OperationIs(k, "copy_pending")
    /\ SetOperation(k, "copy_appending", claims[k])

ConcludeCopy(k) ==
    /\ running /\ MayExecute(k)
    /\ OperationIs(k, "copy_appending")
    /\ SetOperation(k, "copy_settled", claims[k])

-----------------------------------------------------------------------------
OperatorStep ==
    \/ \E g \in Generation : Configure(g)
    \/ Start \/ Stop \/ Backup \/ Restore
    \/ Initialize \/ BeginRecovery \/ CompleteRecovery
    \/ \E k \in ActionKey : HoldAction(k)
    \/ IssueBootstrapGrant \/ IssueRecoveryGrant \/ Enroll

OperationStep(k) ==
    \/ Capture(k) \/ Submit(k)
    \/ Claim(k) \/ RemoteEffect(k) \/ \E o \in Outcomes(k) : Conclude(k, o)
    \/ HoldAbandoned(k) \/ ReconcileUnknown(k)
    \/ AppendCopy(k) \/ ConcludeCopy(k)

Next == OperatorStep \/ \E k \in Key : OperationStep(k)

Spec == Init /\ [][Next]_vars

(* An operator who carries the runbook of restore.sh through: stops a      *)
(* service that came up without a generation, configures a new one,        *)
(* begins, holds the actions, replaces the passkey when there is none,     *)
(* completes.  The operator repeats what a restart, a second restore or    *)
(* another auth recover undid: strong fairness.                            *)
Runbook ==
    /\ WF_vars(deployment = NoGeneration /\ Stop)
    /\ SF_vars(\E g \in Generation : Configure(g))
    /\ WF_vars(Start)
    /\ WF_vars(BeginRecovery)
    /\ \A k \in ActionKey : WF_vars(HoldAction(k))
    /\ WF_vars(db.grant = NoGrant /\ IssueBootstrapGrant)
    /\ WF_vars(db.credentials = {} /\ db.grant = NoGrant /\ IssueRecoveryGrant)
    /\ SF_vars(Enroll)
    /\ SF_vars(CompleteRecovery)

FairSpec == Spec /\ Runbook

-----------------------------------------------------------------------------
(* Properties.                                                             *)

(* No operation reaches the outside world twice, whatever was restored and *)
(* whatever the devices submit again: the gate refuses a request of an     *)
(* earlier history before it looks the key up, and a restored row keeps a  *)
(* generation no worker executes.                                          *)
EffectAtMostOnce == \A k \in Key : effects[k] <= 1

(* In a ready service every pending operation is of the current            *)
(* generation: completeRecovery leaves no restored work without a          *)
(* disposition, and none can come back later.                              *)
PendingIsCurrent ==
    Status.state = "ready" => NoUndispositioned(db, deployment)

(* Once the row and the deployment agree, no credential and no enrollment  *)
(* grant of an earlier history gives access: beginRecovery revoked what    *)
(* the backup brought back.                                                *)
AccessIsCurrent ==
    Status.state \in {"ready", "reconciling"} =>
        /\ db.credentials \subseteq {deployment}
        /\ db.grant # NoGrant => db.grant.generation = deployment

(* What a restore must not undo: no effect twice, no restored work or      *)
(* access in a ready service.                                              *)
RestoreIsSafe == EffectAtMostOnce /\ PendingIsCurrent /\ AccessIsCurrent

(* A recovery that an operator carries through by the runbook ends with a  *)
(* ready service, unless the restore brought back an unfinished send,      *)
(* which completeRecovery refuses and no command holds.                    *)
RestoredSend(k) ==
    /\ db.operations[k].status \in PendingStatus
    /\ db.operations[k].generation # deployment

RecoveryCompletes ==
    Status.state = "reconciling" ~>
        Status.state = "ready" \/ \E k \in SendKey : RestoredSend(k)

(* Without the exception.  SPEC.md section 10 (step 4) and                 *)
(* deploy/README.md (Restore, step 5) say that restored sends are reviewed *)
(* and held at outcome_unknown so that "recovery complete" can succeed.    *)
(* Not kept: README, section 9.                                            *)
RestoredSendsCanComplete ==
    Status.state = "reconciling" ~> Status.state = "ready"
=============================================================================
