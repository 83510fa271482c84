------------------------------ MODULE Outbound ------------------------------
(***************************************************************************)
(* The execution of queued sends (packages/send/src/service.ts): the SMTP  *)
(* claim, the acceptance transaction, the Sent-copy append, the            *)
(* reconciliation of an unknown outcome, and the hold of the attempts a    *)
(* crash or a slow connection left behind.                                 *)
(*                                                                         *)
(* Workers are the concurrent executions: the send and sent-copy queues    *)
(* of apps/worker are not exclusive, and a rolling restart overlaps two    *)
(* processes.  A step of a worker is one database transaction, one read    *)
(* whose result is used by a later step, or one remote call.  Every row    *)
(* here has the deployment's generation and the service is ready;          *)
(* RecoveryControls models the other cases.                                *)
(***************************************************************************)
EXTENDS Naturals, FiniteSets

CONSTANTS
    Row,            \* the outbound_messages rows
    Worker,         \* concurrent executions
    NoRow,
    AttemptCap,     \* SEND_SWEEP_ATTEMPT_CAP
    MaxSubmissions, \* bound: SMTP submissions counted for one row
    MaxCopies,      \* bound: copies of one message in the Sent folder
    MaxCrashes,     \* bound: executions lost
    EarlyExpiry     \* an attempt may outlive its lease

ASSUME OutboundAssumption ==
    /\ NoRow \notin Row
    /\ AttemptCap \in Nat \ {0}
    /\ MaxSubmissions \in Nat \ {0, 1}
    /\ MaxCopies \in Nat \ {0}
    /\ MaxCrashes \in Nat /\ EarlyExpiry \in BOOLEAN

VARIABLES
    row,        \* the database rows, with the lock of the draft they froze
    message,    \* the messages table has a row with the snapshot's hash
    mapped,     \* the account maps a folder to the Sent role
    copies,     \* copies with the snapshot's bytes in the server's Sent folder
    worker,     \* what each worker is doing, for which row, and a memo
    submissions,\* SMTP submissions of each row
    accepted,   \* how often the relay took the message
    crashes     \* executions lost so far

tables == <<row, message, mapped>>
remote == <<copies, submissions, accepted>>
vars == <<row, message, mapped, copies, worker, submissions, accepted, crashes>>

-----------------------------------------------------------------------------
OutboundStatus == {"queued", "sending", "sent", "failed", "outcome_unknown"}
SentCopyStatus == {"pending", "appending", "stored", "failed", "unknown"}

(* The states of the Sent copy an append may claim.                        *)
Claimable == {"pending", "failed", "unknown"}

(* A lease is over when ATTEMPT_LEASE_MS passed since the claim's stamp.   *)
Lease == {"none", "live", "expired"}

OutboundRow ==
    [status : OutboundStatus, copy : SentCopyStatus,
     sendLease : Lease, appendLease : Lease,
     attempts : Nat, passes : Nat,      \* sentCopyAttempts, reconcileAttempts
     unmapped : BOOLEAN,                \* lastError is sent_folder_unmapped
     locked : BOOLEAN]                  \* the draft is lockedBySend this row

(* What freezeSnapshot commits: a queued row and the lock of its draft.    *)
Frozen ==
    [status |-> "queued", copy |-> "pending",
     sendLease |-> "none", appendLease |-> "none",
     attempts |-> 0, passes |-> 0, unmapped |-> FALSE, locked |-> TRUE]

(* Where a worker is: the state after its last step.                       *)
SendPc == {"read_queued", "claimed", "answered"}
CommitPc == {"commit_new", "commit_found"}
CopyPc == {"read_due", "no_folder", "folder", "opened", "absent", "appended",
           "concluding", "holding"}
ReconcilePc == {"searching", "noting"}
Pc == {"idle", "threw"} \cup SendPc \cup CommitPc \cup CopyPc \cup ReconcilePc

SmtpAnswer == {"accepted", "rejected", "unknown"}
AppendAnswer == {"coordinates", "no_coordinates", "rejected", "uncertain"}
Memo == {"none", "verified"} \cup SmtpAnswer \cup AppendAnswer
            \cup OutboundStatus \cup SentCopyStatus

Execution == [pc : Pc, row : Row \cup {NoRow}, memo : Memo]
Idle == [pc |-> "idle", row |-> NoRow, memo |-> "none"]

TypeOK ==
    /\ row \in [Row -> OutboundRow]
    /\ message \in [Row -> BOOLEAN]
    /\ mapped \in BOOLEAN
    /\ copies \in [Row -> 0 .. MaxCopies]
    /\ worker \in [Worker -> Execution]
    /\ \A w \in Worker :
        /\ worker[w].pc \notin {"idle", "threw"} => worker[w].row \in Row
        /\ worker[w].pc = "concluding" => worker[w].memo \in {"stored", "failed", "unknown"}
    /\ submissions \in [Row -> 0 .. MaxSubmissions]
    /\ accepted \in [Row -> 0 .. MaxSubmissions]
    /\ crashes \in 0 .. MaxCrashes

Init ==
    /\ row = [o \in Row |-> Frozen]
    /\ message = [o \in Row |-> FALSE]
    /\ mapped \in BOOLEAN
    /\ copies = [o \in Row |-> 0]
    /\ worker = [w \in Worker |-> Idle]
    /\ submissions = [o \in Row |-> 0]
    /\ accepted = [o \in Row |-> 0]
    /\ crashes = 0

(* Worker w goes on to pc, for the same row.                               *)
Goes(w, pc, memo) ==
    worker' = [worker EXCEPT ![w] = [pc |-> pc, row |-> @.row, memo |-> memo]]

Begins(w, pc, o, memo) ==
    worker' = [worker EXCEPT ![w] = [pc |-> pc, row |-> o, memo |-> memo]]

Ends(w) == worker' = [worker EXCEPT ![w] = Idle]

(* An exception leaves the handler; the sweep counts it in rowErrors.      *)
Throws(w) == Goes(w, "threw", "none")

At(w, pc) == worker[w].pc = pc

-----------------------------------------------------------------------------
(* executeOutbound.                                                        *)

ReadQueued(w, o) ==
    /\ At(w, "idle") /\ row[o].status = "queued"
    /\ Begins(w, "read_queued", o, "none")
    /\ UNCHANGED <<tables, remote, crashes>>

(* The claim is an UPDATE guarded by the status it replaces.               *)
MayClaim(r) == r.status = "queued"

ClaimSend(w) ==
    LET o == worker[w].row IN
    /\ At(w, "read_queued")
    /\ IF MayClaim(row[o])
       THEN /\ row' = [row EXCEPT ![o].status = "sending",
                                  ![o].sendLease = "live"]
            /\ Goes(w, "claimed", "none")
       ELSE /\ Ends(w)
            /\ UNCHANGED row
    /\ UNCHANGED <<message, mapped, remote, crashes>>

(* The bytes are missing or changed, or the account has no usable          *)
(* credentials: a definitive failure, and SMTP never opened.               *)
FailLocally(w) ==
    /\ At(w, "claimed")
    /\ Goes(w, "answered", "rejected")
    /\ UNCHANGED <<tables, remote, crashes>>

(* The SMTP transaction.  The answer can be lost on either side of the     *)
(* relay's acceptance.                                                     *)
Submit(w) ==
    LET o == worker[w].row IN
    /\ At(w, "claimed")
    /\ submissions[o] < MaxSubmissions /\ accepted[o] < MaxSubmissions
    /\ submissions' = [submissions EXCEPT ![o] = @ + 1]
    /\ \/ /\ accepted' = [accepted EXCEPT ![o] = @ + 1]
          /\ \E answer \in {"accepted", "unknown"} : Goes(w, "answered", answer)
       \/ /\ \E answer \in {"rejected", "unknown"} : Goes(w, "answered", answer)
          /\ UNCHANGED accepted
    /\ UNCHANGED <<tables, copies, crashes>>

(* recordFailure: the status and the draft lock in one transaction; the    *)
(* lock release throws, and rolls back, unless the row is failed.          *)
LateFailed(r) ==        \* a slip: a late failure ends a held row
    IF r.status \in {"sending", "outcome_unknown"}
    THEN [r EXCEPT !.status = "failed", !.locked = FALSE]
    ELSE r

Failed(r) ==
    IF r.status = "sending"
    THEN [r EXCEPT !.status = "failed", !.locked = FALSE]
    ELSE r

RecordFailure(w) ==
    LET o == worker[w].row IN
    /\ At(w, "answered") /\ worker[w].memo = "rejected"
    /\ row' = [row EXCEPT ![o] = Failed(@)]
    /\ IF row'[o].status = "failed" THEN Ends(w) ELSE Throws(w)
    /\ UNCHANGED <<message, mapped, remote, crashes>>

(* recordUnknown: the draft stays locked.                                  *)
RecordUnknown(w) ==
    LET o == worker[w].row IN
    /\ At(w, "answered") /\ worker[w].memo = "unknown"
    /\ row' = IF row[o].status = "sending"
              THEN [row EXCEPT ![o].status = "outcome_unknown"] ELSE row
    /\ Ends(w)
    /\ UNCHANGED <<message, mapped, remote, crashes>>

-----------------------------------------------------------------------------
(* commitAcceptance, from a positive answer or from a verified copy.       *)

(* The transaction reads the messages table by hash...                     *)
LookUpMessage(w, from) ==
    Goes(w, IF message[worker[w].row] THEN "commit_found" ELSE "commit_new", from)

AcceptAnswer(w) ==
    /\ At(w, "answered") /\ worker[w].memo = "accepted"
    /\ LookUpMessage(w, "sending")
    /\ UNCHANGED <<tables, remote, crashes>>

(* ... and then inserts the local message when it found none.  A Sent      *)
(* import that committed in between breaks the unique (account, hash): the *)
(* driver's error reaches isUniqueViolation wrapped by Drizzle, without    *)
(* the code it looks for, so the transaction is not tried again.           *)
MessageRaced(w) == At(w, "commit_new") /\ message[worker[w].row]

(* The row as the acceptance leaves it.  A verified copy ends the append   *)
(* job in the same transaction.                                            *)
AcceptedRow(r, from) ==
    [r EXCEPT !.status = "sent", !.unmapped = FALSE, !.locked = FALSE,
              !.copy = IF from = "outcome_unknown" THEN "stored" ELSE @]

(* AcceptanceSupersededError: nothing commits without the transition.      *)
MessageWithoutTransition(o, from) ==    \* a slip: the message is committed
    /\ row' = IF row[o].status = from
              THEN [row EXCEPT ![o] = AcceptedRow(@, from)] ELSE row
    /\ message' = [message EXCEPT ![o] = TRUE]

AcceptOrRollBack(o, from) ==
    IF row[o].status = from
    THEN /\ row' = [row EXCEPT ![o] = AcceptedRow(@, from)]
         /\ message' = [message EXCEPT ![o] = TRUE]
    ELSE UNCHANGED <<row, message>>

CommitAcceptance(w) ==
    /\ worker[w].pc \in CommitPc
    /\ IF MessageRaced(w)
       THEN /\ Throws(w)
            /\ UNCHANGED <<row, message>>
       ELSE /\ AcceptOrRollBack(worker[w].row, worker[w].memo)
            /\ Ends(w)
    /\ UNCHANGED <<mapped, remote, crashes>>

-----------------------------------------------------------------------------
(* executeSentCopyAppend.                                                  *)

(* A row past its first pass waits for a Sent folder and for the cap.      *)
CopyIsDue(r) ==
    /\ r.status = "sent" /\ r.copy \in Claimable
    /\ r.attempts < AttemptCap
    /\ r.copy = "pending" \/ mapped

ReadDue(w, o) ==
    /\ At(w, "idle") /\ CopyIsDue(row[o])
    /\ Begins(w, "read_due", o,
              IF row[o].copy = "failed" /\ row[o].unmapped
              THEN "none" ELSE row[o].copy)
    /\ UNCHANGED <<tables, remote, crashes>>

(* findSentFolder.  Without a folder an unknown copy, and one that failed  *)
(* for that very reason, stay as they are.                                 *)
FindSentFolder(w) ==
    /\ At(w, "read_due")
    /\ \/ mapped /\ Goes(w, "folder", "none")
       \/ ~mapped /\ worker[w].memo \in {"unknown", "none"} /\ Ends(w)
       \/ ~mapped /\ worker[w].memo \in {"pending", "failed"}
                  /\ Goes(w, "no_folder", "failed")
    /\ UNCHANGED <<tables, remote, crashes>>

(* concludeSentCopy, the row of a conclusion that still finds a state it   *)
(* may replace.                                                            *)
UncountedRow(r, outcome, noFolder) ==   \* a slip: only refusals count
    IF outcome = "stored"
    THEN [r EXCEPT !.copy = "stored", !.unmapped = FALSE]
    ELSE [r EXCEPT !.copy = outcome, !.unmapped = noFolder,
                   !.attempts = IF outcome = "failed" THEN @ + 1 ELSE @]

ConcludedRow(r, outcome, noFolder) ==
    IF outcome = "stored"
    THEN [r EXCEPT !.copy = "stored", !.unmapped = FALSE]
    ELSE [r EXCEPT !.copy = outcome, !.unmapped = noFolder, !.attempts = @ + 1]

MayConcludeAny(r, states) ==    \* a slip: the state is not checked again
    r.status = "sent"

MayConclude(r, states) == r.status = "sent" /\ r.copy \in states

ConcludeUnclaimed(w) ==
    LET o == worker[w].row IN
    /\ At(w, "no_folder")
    /\ row' = IF MayConclude(row[o], Claimable)
              THEN [row EXCEPT ![o] = ConcludedRow(@, "failed", TRUE)] ELSE row
    /\ Ends(w)
    /\ UNCHANGED <<message, mapped, remote, crashes>>

ConcludeClaimed(w) ==
    LET o == worker[w].row IN
    /\ At(w, "concluding")
    /\ row' = IF MayConclude(row[o], {"appending"})
              THEN [row EXCEPT ![o] = ConcludedRow(@, worker[w].memo, FALSE)]
              ELSE row
    /\ Ends(w)
    /\ UNCHANGED <<message, mapped, remote, crashes>>

ClaimAppend(w) ==
    LET o == worker[w].row IN
    /\ At(w, "folder")
    /\ IF row[o].status = "sent" /\ row[o].copy \in Claimable
       THEN /\ row' = [row EXCEPT ![o].copy = "appending",
                                  ![o].appendLease = "live"]
            /\ Goes(w, "opened", "none")
       ELSE /\ Ends(w)
            /\ UNCHANGED row
    /\ UNCHANGED <<message, mapped, remote, crashes>>

(* The session cannot be opened or breaks, the bytes are missing or        *)
(* changed: nothing more is tried and the copy's outcome is unknown.       *)
SessionFails(w) ==
    /\ worker[w].pc \in {"opened", "absent", "appended"}
    /\ Goes(w, "concluding", "unknown")
    /\ UNCHANGED <<tables, remote, crashes>>

(* locateVerifiedCopy: a copy the search misses, or another message with   *)
(* the same identifier, is possible at any time.                           *)
Evidence(o) ==
    {"absent", "conflict"} \cup (IF copies[o] > 0 THEN {"verified"} ELSE {})

LocateFirst(w) ==
    /\ At(w, "opened")
    /\ \E e \in Evidence(worker[w].row) :
        CASE e = "verified" -> Goes(w, "concluding", "stored")
          [] e = "conflict" -> Goes(w, "concluding", "unknown")
          [] e = "absent" -> Goes(w, "absent", "none")
    /\ UNCHANGED <<tables, remote, crashes>>

(* The APPEND, and what the server answers.                                *)
StoresCopy(answer) ==
    CASE answer \in {"coordinates", "no_coordinates"} -> {TRUE}
      [] answer = "rejected" -> {FALSE}
      [] answer = "uncertain" -> BOOLEAN

AppendMessage(w) ==
    LET o == worker[w].row IN
    /\ At(w, "absent") /\ copies[o] < MaxCopies
    /\ \E answer \in AppendAnswer : \E stored \in StoresCopy(answer) :
        /\ copies' = IF stored THEN [copies EXCEPT ![o] = @ + 1] ELSE copies
        /\ CASE answer = "rejected" -> Goes(w, "concluding", "failed")
             [] answer = "coordinates" -> Goes(w, "concluding", "stored")
             [] OTHER -> Goes(w, "appended", answer)
    /\ UNCHANGED <<tables, submissions, accepted, crashes>>

(* Without coordinates the folder is searched again before anything is     *)
(* decided; a positive answer counts as stored when the search shows       *)
(* nothing to the contrary.                                                *)
AnswerAsStatus(answer) == answer        \* a slip: the answer is recorded
UncertainIsStored(answer) == "stored"   \* a slip: a lost answer counts too

AbsentAfterAppend(answer) ==
    IF answer = "no_coordinates" THEN "stored" ELSE "unknown"

LocateAgain(w) ==
    /\ At(w, "appended")
    /\ \E e \in Evidence(worker[w].row) :
        Goes(w, "concluding",
             CASE e = "verified" -> "stored"
               [] e = "conflict" -> "unknown"
               [] e = "absent" -> AbsentAfterAppend(worker[w].memo))
    /\ UNCHANGED <<tables, remote, crashes>>

-----------------------------------------------------------------------------
(* reconcileUnknownOutcome: read only towards SMTP.                        *)

ReadUnknown(w, o) ==
    /\ At(w, "idle")
    /\ row[o].status = "outcome_unknown" /\ row[o].passes < AttemptCap /\ mapped
    /\ Begins(w, "searching", o, "none")
    /\ UNCHANGED <<tables, remote, crashes>>

(* Only a copy whose bytes hash to the snapshot proves the acceptance.     *)
Proves(e) == e = "verified"

Search(w) ==
    LET o == worker[w].row IN
    /\ At(w, "searching")
    /\ \E e \in Evidence(o) :
        IF Proves(e) THEN LookUpMessage(w, "outcome_unknown")
                     ELSE Goes(w, "noting", "none")
    /\ UNCHANGED <<tables, remote, crashes>>

(* A session that opens and then breaks ends the pass without a note.      *)
SearchThrows(w) ==
    /\ At(w, "searching")
    /\ Throws(w)
    /\ UNCHANGED <<tables, remote, crashes>>

NoteReconcilePass(w) ==
    LET o == worker[w].row IN
    /\ At(w, "noting")
    /\ row' = IF row[o].status = "outcome_unknown"
              THEN [row EXCEPT ![o].passes = @ + 1] ELSE row
    /\ Ends(w)
    /\ UNCHANGED <<message, mapped, remote, crashes>>

-----------------------------------------------------------------------------
(* recoverAbandonedAttempts, once the lease of an attempt is over.         *)

FailedSend(r) ==                                    \* a slip: taken as failed
    [r EXCEPT !.status = "failed", !.locked = FALSE]
RequeuedSend(r) == [r EXCEPT !.status = "queued"]   \* a slip: tried again
ReleasedSend(r) ==                                  \* a slip: draft released
    [r EXCEPT !.status = "outcome_unknown", !.locked = FALSE]

HeldSend(r) == [r EXCEPT !.status = "outcome_unknown"]

UnstampedLease(lease) == lease = "none"             \* a slip

LeaseIsOver(lease) == lease = "expired"

(* "sending" never comes back, so the select and the update are one step.  *)
HoldSend(w, o) ==
    /\ At(w, "idle")
    /\ row[o].status = "sending" /\ LeaseIsOver(row[o].sendLease)
    /\ row' = [row EXCEPT ![o] = HeldSend(@)]
    /\ UNCHANGED <<message, mapped, worker, remote, crashes>>

(* The update of an append does not look at the lease again.               *)
ReadAbandonedAppend(w, o) ==
    /\ At(w, "idle")
    /\ row[o].copy = "appending" /\ LeaseIsOver(row[o].appendLease)
    /\ Begins(w, "holding", o, "none")
    /\ UNCHANGED <<tables, remote, crashes>>

HoldAppend(w) ==
    LET o == worker[w].row IN
    /\ At(w, "holding")
    /\ row' = IF row[o].copy = "appending"
              THEN [row EXCEPT ![o].copy = "unknown", ![o].unmapped = FALSE]
              ELSE row
    /\ Ends(w)
    /\ UNCHANGED <<message, mapped, remote, crashes>>

-----------------------------------------------------------------------------
(* Time, crashes, the mail server and the rest of the application.         *)

(* A worker still runs the attempt the lease belongs to.                   *)
Attempting(o, pcs) == \E w \in Worker : worker[w].row = o /\ worker[w].pc \in pcs

SendLeaseExpires(o) ==
    /\ row[o].status = "sending" /\ row[o].sendLease = "live"
    /\ EarlyExpiry \/ ~Attempting(o, {"claimed", "answered"} \cup CommitPc)
    /\ row' = [row EXCEPT ![o].sendLease = "expired"]
    /\ UNCHANGED <<message, mapped, worker, remote, crashes>>

AppendLeaseExpires(o) ==
    /\ row[o].copy = "appending" /\ row[o].appendLease = "live"
    /\ EarlyExpiry \/ ~Attempting(o, {"opened", "absent", "appended", "concluding"})
    /\ row' = [row EXCEPT ![o].appendLease = "expired"]
    /\ UNCHANGED <<message, mapped, worker, remote, crashes>>

(* The execution is lost, at any point; or its exception was logged.       *)
Crash(w) ==
    /\ worker[w].pc \notin {"idle", "threw"} /\ crashes < MaxCrashes
    /\ crashes' = crashes + 1
    /\ Ends(w)
    /\ UNCHANGED <<tables, remote>>

Recover(w) ==
    /\ At(w, "threw")
    /\ Ends(w)
    /\ UNCHANGED <<tables, remote, crashes>>

(* Some providers store a copy of what they relay.                         *)
ProviderStoresCopy(o) ==
    /\ accepted[o] > 0 /\ copies[o] < MaxCopies
    /\ copies' = [copies EXCEPT ![o] = @ + 1]
    /\ UNCHANGED <<tables, worker, submissions, accepted, crashes>>

(* The sync of the Sent folder ingests the copy as a message.              *)
ImportSent(o) ==
    /\ copies[o] > 0 /\ ~message[o]
    /\ message' = [message EXCEPT ![o] = TRUE]
    /\ UNCHANGED <<row, mapped, worker, remote, crashes>>

(* The owner maps a folder to the Sent role, or removes the mapping.       *)
MapSentFolder ==
    /\ mapped' = ~mapped
    /\ UNCHANGED <<row, message, worker, remote, crashes>>

-----------------------------------------------------------------------------
(* The next step of a worker in the middle of an execution.                *)
SendStep(w) ==
    \/ ClaimSend(w) \/ FailLocally(w) \/ Submit(w)
    \/ RecordFailure(w) \/ RecordUnknown(w)
    \/ AcceptAnswer(w) \/ CommitAcceptance(w)

CopyStep(w) ==
    \/ FindSentFolder(w) \/ ConcludeUnclaimed(w) \/ ClaimAppend(w)
    \/ SessionFails(w) \/ LocateFirst(w) \/ AppendMessage(w) \/ LocateAgain(w)
    \/ ConcludeClaimed(w) \/ HoldAppend(w)

ReconcileStep(w) == Search(w) \/ SearchThrows(w) \/ NoteReconcilePass(w)

WorkerStep(w) == SendStep(w) \/ CopyStep(w) \/ ReconcileStep(w) \/ Recover(w)

(* The sweeps of apps/worker hand a due row to an idle worker.             *)
SweepStep(w, o) ==
    \/ ReadQueued(w, o) \/ ReadDue(w, o) \/ ReadUnknown(w, o)
    \/ HoldSend(w, o) \/ ReadAbandonedAppend(w, o)

WorldStep(o) ==
    \/ SendLeaseExpires(o) \/ AppendLeaseExpires(o)
    \/ ProviderStoresCopy(o) \/ ImportSent(o)

Next ==
    \/ \E w \in Worker : WorkerStep(w) \/ Crash(w)
    \/ \E w \in Worker, o \in Row : SweepStep(w, o)
    \/ \E o \in Row : WorldStep(o)
    \/ MapSentFolder

Spec == Init /\ [][Next]_vars

(* A worker goes on with what it began, leases end, and the crons, every   *)
(* few seconds, hand every due row to a worker.                            *)
Fairness ==
    /\ \A w \in Worker : WF_vars(WorkerStep(w))
    /\ \A o \in Row :
        /\ WF_vars(SendLeaseExpires(o))
        /\ WF_vars(AppendLeaseExpires(o))
        /\ WF_vars(\E w \in Worker : ReadQueued(w, o))
        /\ WF_vars(\E w \in Worker : HoldSend(w, o))
        /\ WF_vars(\E w \in Worker : ReadDue(w, o))
        /\ WF_vars(\E w \in Worker : ReadAbandonedAppend(w, o))

FairSpec == Spec /\ Fairness

-----------------------------------------------------------------------------
(* Properties.                                                             *)

(* A row opens SMTP at most once, through crashes, expired leases and      *)
(* retries: the claim in executeOutbound is the only door, and no step     *)
(* leads a row back to "queued".                                           *)
SubmittedAtMostOnce == \A o \in Row : submissions[o] <= 1

(* The draft a send froze stays locked exactly while the outcome is open:  *)
(* recordFailure and commitAcceptance release it with the status, a hold   *)
(* and a late answer do not.                                               *)
LockedWhileUnresolved ==
    \A o \in Row :
        row[o].locked <=> row[o].status \in {"queued", "sending", "outcome_unknown"}

(* A row is sent only if the relay took the message, and failed only if it *)
(* did not: whatever answer came late, and whatever the reconciliation     *)
(* found.                                                                  *)
OutcomeIsTrue ==
    \A o \in Row : /\ row[o].status = "sent" => accepted[o] > 0 /\ message[o]
                   /\ row[o].status = "failed" => accepted[o] = 0

(* A local message never exists without its proof: the row is sent, or the *)
(* Sent folder held a copy to import.  An acceptance that lost its row to  *)
(* a hold rolls the message back (AcceptanceSupersededError).              *)
MessageHasProof ==
    \A o \in Row : message[o] => row[o].status = "sent" \/ copies[o] > 0

(* A Sent copy recorded as stored is in the Sent folder, although two      *)
(* appends can run for one row when a lease ends early.                    *)
StoredIsInFolder == \A o \in Row : row[o].copy = "stored" => copies[o] > 0

(* What is stored has its cause: a local message its proof, a stored copy  *)
(* its mail (acceptOutbound, concludeAppend).                              *)
CopiesAreBacked == MessageHasProof /\ StoredIsInFolder

(* What was definitive stays: sent and failed never change, nor does a     *)
(* stored copy, whatever an overtaken worker still commits.                *)
DefinitiveIsFinal ==
    [][\A o \in Row :
        /\ row[o].status \in {"sent", "failed"} => row'[o].status = row[o].status
        /\ row[o].copy = "stored" => row'[o].copy = "stored"]_vars

(* What the owner sees of a row.                                           *)
Answer(status) ==
    CASE status \in {"queued", "sending"} -> "open"
      [] status = "outcome_unknown" -> "unknown"
      [] OTHER -> status

Promise == INSTANCE SendPromise WITH
    Send <- Row,
    answer <- [o \in Row |-> Answer(row[o].status)],
    deliveries <- accepted,
    editable <- [o \in Row |-> ~row[o].locked]

(* The execution of sends keeps the promise of SendPromise: every step of  *)
(* a worker, a sweep or the mail server is one of its steps or invisible.  *)
KeepsPromise == Promise!Spec

(* Every queued send gets an outcome: an answer, or the hold of an attempt *)
(* that a crash or an exception abandoned.                                 *)
SendResolves ==
    \A o \in Row : row[o].status = "queued" ~>
                    row[o].status \in {"sent", "failed", "outcome_unknown"}

(* The Sent copy of a sent message does not stay in the sweep for ever     *)
(* once the account keeps a Sent folder: it is stored, or its attempts     *)
(* reach the cap (the counter concludeSentCopy keeps, service.ts:1449).    *)
CopyLeavesSweep ==
    <>[]mapped => \A o \in Row :
        row[o].status = "sent" ~> \/ row[o].copy = "stored"
                                  \/ row[o].attempts >= AttemptCap

(* The attempts behind these properties.  A worker owns the one submission *)
(* of a row from its claim to its commit, also when a hold has called the  *)
(* outcome unknown in the meantime; what it carries from step to step is   *)
(* what happened at the relay, and a Sent copy exists only for a message   *)
(* that was accepted.                                                      *)
Owns(w, o) ==
    /\ worker[w].row = o
    /\ \/ worker[w].pc \in {"claimed", "answered"}
       \/ worker[w].pc \in CommitPc /\ worker[w].memo = "sending"

OneOwner ==
    \A w1, w2 \in Worker, o \in Row : Owns(w1, o) /\ Owns(w2, o) => w1 = w2

OwnerIsOpen ==
    \A w \in Worker, o \in Row :
        Owns(w, o) => row[o].status \in {"sending", "outcome_unknown", "sent"}

TrueTo(w, o) ==
    /\ At(w, "claimed") => submissions[o] = 0 /\ row[o].status # "sent"
    /\ At(w, "answered") /\ worker[w].memo = "rejected" => accepted[o] = 0
    /\ At(w, "answered") /\ worker[w].memo = "accepted" => accepted[o] > 0
    /\ worker[w].pc \in CommitPc => /\ accepted[o] > 0
                                    /\ worker[w].memo \in {"sending", "outcome_unknown"}
    /\ worker[w].pc \in CopyPc => row[o].status = "sent"

AnswerIsTrue ==
    \A w \in Worker, o \in Row : worker[w].row = o => TrueTo(w, o)

RowIsTrue ==
    \A o \in Row :
        /\ row[o].status = "queued" => submissions[o] = 0
        /\ submissions[o] <= 1 /\ accepted[o] <= submissions[o]
        /\ row[o].copy # "pending" => row[o].status = "sent"
        /\ copies[o] > 0 => accepted[o] > 0

Attempts == OneOwner /\ OwnerIsOpen /\ AnswerIsTrue /\ RowIsTrue

(* The inductive invariant of the proofs.                                  *)
IInv == TypeOK /\ Attempts /\ LockedWhileUnresolved /\ OutcomeIsTrue
=============================================================================
