--------------------------- MODULE OutboundProofs ---------------------------
(***************************************************************************)
(* Proofs about Outbound, for any number of rows and workers, any cap and  *)
(* any bound, about the dialog in which its rows are queued, and about who *)
(* gets in and what Home shows them.                                       *)
(***************************************************************************)
EXTENDS OwnerSends, OwnerAccess, FiniteSetTheorems, TLAPS

-----------------------------------------------------------------------------
(* Types.                                                                  *)

(* The part of TypeOK that a step of one worker can disturb.               *)
WorkersOK ==
    /\ worker \in [Worker -> Execution]
    /\ \A w \in Worker :
        /\ worker[w].pc \notin {"idle", "threw"} => worker[w].row \in Row
        /\ worker[w].pc = "concluding" => worker[w].memo \in {"stored", "failed", "unknown"}

(* A worker that moves on keeps its row; one that ends forgets it.         *)
LEMMA MovesType ==
    ASSUME TypeOK, NEW w \in Worker, worker[w].pc \notin {"idle", "threw"},
           \/ UNCHANGED worker
           \/ Ends(w)
           \/ \E pc \in Pc \ {"idle", "concluding"}, memo \in Memo : Goes(w, pc, memo)
           \/ \E memo \in {"stored", "failed", "unknown"} : Goes(w, "concluding", memo)
    PROVE  WorkersOK'
<1>1. Idle \in Execution /\ Idle.pc = "idle"
    BY DEF Idle, Execution, Pc, Memo
<1>2. "concluding" \in Pc /\ {"stored", "failed", "unknown"} \subseteq Memo
    BY DEF Pc, CopyPc, Memo, SentCopyStatus
<1>3. CASE UNCHANGED worker
    BY <1>3 DEF TypeOK, WorkersOK
<1>4. CASE Ends(w)
    BY <1>1, <1>4 DEF TypeOK, WorkersOK, Ends
<1>5. CASE \E pc \in Pc \ {"idle", "concluding"}, memo \in Memo : Goes(w, pc, memo)
    BY <1>5 DEF TypeOK, WorkersOK, Goes, Execution
<1>6. CASE \E memo \in {"stored", "failed", "unknown"} : Goes(w, "concluding", memo)
    BY <1>2, <1>6 DEF TypeOK, WorkersOK, Goes, Execution
<1> QED
    BY <1>3, <1>4, <1>5, <1>6

(* The states a row goes through are rows.                                 *)
LEMMA RowsType ==
    ASSUME NEW r \in OutboundRow
    PROVE  /\ Failed(r) \in OutboundRow /\ HeldSend(r) \in OutboundRow
           /\ \A from : AcceptedRow(r, from) \in OutboundRow
           /\ \A outcome \in {"stored", "failed", "unknown"}, b \in BOOLEAN :
                ConcludedRow(r, outcome, b) \in OutboundRow
<1> USE DEF OutboundRow, OutboundStatus, SentCopyStatus
<1>1. Failed(r) \in OutboundRow /\ HeldSend(r) \in OutboundRow
    BY DEF Failed, HeldSend
<1>2. ASSUME NEW from PROVE AcceptedRow(r, from) \in OutboundRow
    BY DEF AcceptedRow
<1>3. ASSUME NEW outcome \in {"stored", "failed", "unknown"}, NEW b \in BOOLEAN
      PROVE  ConcludedRow(r, outcome, b) \in OutboundRow
  <2>1. CASE outcome = "stored"
    BY <2>1 DEF ConcludedRow
  <2>2. CASE outcome # "stored"
    <3>1. outcome \in SentCopyStatus /\ r.attempts + 1 \in Nat
      OBVIOUS
    <3>2. ConcludedRow(r, outcome, b) =
            [r EXCEPT !.copy = outcome, !.unmapped = b, !.attempts = r.attempts + 1]
      BY <2>2 DEF ConcludedRow
    <3> QED
      BY <3>1, <3>2
  <2> QED
    BY <2>1, <2>2
<1> QED
    BY <1>1, <1>2, <1>3

LEMMA SendStepType ==
    ASSUME TypeOK, NEW w \in Worker, SendStep(w)
    PROVE  TypeOK'
<1> DEFINE o == worker[w].row
<1>1. CASE ClaimSend(w)
  <2>1. worker[w].pc \notin {"idle", "threw"} /\ o \in Row
    BY <1>1 DEF TypeOK, ClaimSend, At
  <2>2. row' \in [Row -> OutboundRow]
    BY <1>1, <2>1 DEF TypeOK, ClaimSend, OutboundRow, OutboundStatus, Lease
  <2>3. Goes(w, "claimed", "none") \/ Ends(w)
    BY <1>1 DEF ClaimSend
  <2>4. "claimed" \in Pc \ {"idle", "concluding"} /\ "none" \in Memo
    BY DEF Pc, SendPc, Memo
  <2>5. WorkersOK'
    BY <2>1, <2>3, <2>4, MovesType
  <2> QED
    BY <1>1, <2>2, <2>5 DEF ClaimSend, TypeOK, WorkersOK, remote
<1>2. CASE FailLocally(w)
  <2>1. worker[w].pc \notin {"idle", "threw"}
    BY <1>2 DEF FailLocally, At
  <2>2. "answered" \in Pc \ {"idle", "concluding"} /\ "rejected" \in Memo
    BY DEF Pc, SendPc, Memo, SmtpAnswer
  <2>3. WorkersOK'
    BY <1>2, <2>1, <2>2, MovesType DEF FailLocally
  <2> QED
    BY <1>2, <2>3 DEF FailLocally, TypeOK, WorkersOK, tables, remote
<1>3. CASE Submit(w)
  <2>1. worker[w].pc \notin {"idle", "threw"} /\ o \in Row
    BY <1>3 DEF TypeOK, Submit, At
  <2>2. "answered" \in Pc \ {"idle", "concluding"} /\ SmtpAnswer \subseteq Memo
    BY DEF Pc, SendPc, Memo
  <2>3. \E answer \in SmtpAnswer : Goes(w, "answered", answer)
    BY <1>3 DEF Submit, SmtpAnswer
  <2>4. WorkersOK'
    BY <2>1, <2>2, <2>3, MovesType
  <2>5. /\ submissions' \in [Row -> 0 .. MaxSubmissions]
        /\ accepted' \in [Row -> 0 .. MaxSubmissions]
    BY <1>3, <2>1, OutboundAssumption DEF TypeOK, Submit
  <2> QED
    BY <1>3, <2>4, <2>5 DEF Submit, TypeOK, WorkersOK, tables
<1>4. CASE RecordFailure(w)
  <2>1. worker[w].pc \notin {"idle", "threw"} /\ o \in Row
    BY <1>4 DEF TypeOK, RecordFailure, At
  <2>2. row' \in [Row -> OutboundRow]
    BY <1>4, <2>1, RowsType DEF TypeOK, RecordFailure
  <2>3. "threw" \in Pc \ {"idle", "concluding"} /\ "none" \in Memo
    BY DEF Pc, Memo
  <2>4. WorkersOK'
    BY <1>4, <2>1, <2>3, MovesType DEF RecordFailure, Throws
  <2> QED
    BY <1>4, <2>2, <2>4 DEF RecordFailure, TypeOK, WorkersOK, remote
<1>5. CASE RecordUnknown(w)
  <2>1. worker[w].pc \notin {"idle", "threw"} /\ o \in Row
    BY <1>5 DEF TypeOK, RecordUnknown, At
  <2>2. row' \in [Row -> OutboundRow]
    <3>1. row \in [Row -> OutboundRow] /\ row[o] \in OutboundRow
      BY <2>1 DEF TypeOK
    <3>2. [row[o] EXCEPT !.status = "outcome_unknown"] \in OutboundRow
      BY <3>1 DEF OutboundRow, OutboundStatus
    <3>3. \/ row' = row
          \/ row' = [row EXCEPT ![o] = [row[o] EXCEPT !.status = "outcome_unknown"]]
      BY <1>5, <2>1, <3>1 DEF RecordUnknown
    <3> QED
      BY <2>1, <3>1, <3>2, <3>3
  <2>3. WorkersOK'
    BY <1>5, <2>1, MovesType DEF RecordUnknown
  <2> QED
    BY <1>5, <2>2, <2>3 DEF RecordUnknown, TypeOK, WorkersOK, remote
<1>6. CASE AcceptAnswer(w)
  <2>1. worker[w].pc \notin {"idle", "threw"}
    BY <1>6 DEF AcceptAnswer, At
  <2>2. CommitPc \subseteq Pc \ {"idle", "concluding"} /\ "sending" \in Memo
    BY DEF Pc, CommitPc, Memo, OutboundStatus
  <2>3. \E pc \in CommitPc : Goes(w, pc, "sending")
    BY <1>6 DEF AcceptAnswer, LookUpMessage, CommitPc
  <2>4. WorkersOK'
    BY <2>1, <2>2, <2>3, MovesType
  <2> QED
    BY <1>6, <2>4 DEF AcceptAnswer, TypeOK, WorkersOK, tables, remote
<1>7. CASE CommitAcceptance(w)
  <2>1. worker[w].pc \notin {"idle", "threw"} /\ o \in Row
    BY <1>7 DEF TypeOK, CommitAcceptance, CommitPc
  <2>2. row' \in [Row -> OutboundRow] /\ message' \in [Row -> BOOLEAN]
    <3>1. AcceptedRow(row[o], worker[w].memo) \in OutboundRow
      BY <2>1, RowsType DEF TypeOK
    <3> QED
      BY <1>7, <2>1, <3>1 DEF TypeOK, CommitAcceptance, AcceptOrRollBack
  <2>3. "threw" \in Pc \ {"idle", "concluding"} /\ "none" \in Memo
    BY DEF Pc, Memo
  <2>4. WorkersOK'
    BY <1>7, <2>1, <2>3, MovesType DEF CommitAcceptance, Throws
  <2> QED
    BY <1>7, <2>2, <2>4 DEF CommitAcceptance, TypeOK, WorkersOK, remote
<1> QED
    BY <1>1, <1>2, <1>3, <1>4, <1>5, <1>6, <1>7 DEF SendStep

LEMMA CopyStepType ==
    ASSUME TypeOK, NEW w \in Worker, CopyStep(w)
    PROVE  TypeOK'
<1> DEFINE o == worker[w].row
<1>0. /\ {"opened", "absent", "appended", "folder", "no_folder"} \subseteq
            Pc \ {"idle", "concluding"}
      /\ {"none", "failed"} \cup AppendAnswer \subseteq Memo
    BY DEF Pc, CopyPc, Memo, SentCopyStatus
<1>1. CASE FindSentFolder(w)
  <2>1. worker[w].pc \notin {"idle", "threw"}
    BY <1>1 DEF FindSentFolder, At
  <2>2. WorkersOK'
    BY <1>0, <1>1, <2>1, MovesType DEF FindSentFolder
  <2> QED
    BY <1>1, <2>2 DEF FindSentFolder, TypeOK, WorkersOK, tables, remote
<1>2. CASE ConcludeUnclaimed(w)
  <2>1. worker[w].pc \notin {"idle", "threw"} /\ o \in Row
    BY <1>2 DEF TypeOK, ConcludeUnclaimed, At
  <2>2. row' \in [Row -> OutboundRow]
    <3>1. ConcludedRow(row[o], "failed", TRUE) \in OutboundRow
      BY <2>1, RowsType DEF TypeOK
    <3> QED
      BY <1>2, <2>1, <3>1 DEF TypeOK, ConcludeUnclaimed
  <2>3. WorkersOK'
    BY <1>2, <2>1, MovesType DEF ConcludeUnclaimed
  <2> QED
    BY <1>2, <2>2, <2>3 DEF ConcludeUnclaimed, TypeOK, WorkersOK, remote
<1>3. CASE ClaimAppend(w)
  <2>1. worker[w].pc \notin {"idle", "threw"} /\ o \in Row
    BY <1>3 DEF TypeOK, ClaimAppend, At
  <2>2. row' \in [Row -> OutboundRow]
    <3>1. row \in [Row -> OutboundRow] /\ row[o] \in OutboundRow
      BY <2>1 DEF TypeOK
    <3>2. [row[o] EXCEPT !.copy = "appending", !.appendLease = "live"] \in OutboundRow
      BY <3>1 DEF OutboundRow, SentCopyStatus, Lease
    <3>3. \/ row' = row
          \/ row' = [row EXCEPT ![o] = [row[o] EXCEPT !.copy = "appending",
                                                     !.appendLease = "live"]]
      BY <1>3, <2>1, <3>1 DEF ClaimAppend
    <3> QED
      BY <2>1, <3>1, <3>2, <3>3
  <2>3. WorkersOK'
    BY <1>0, <1>3, <2>1, MovesType DEF ClaimAppend
  <2> QED
    BY <1>3, <2>2, <2>3 DEF ClaimAppend, TypeOK, WorkersOK, remote
<1>4. CASE SessionFails(w)
  <2>1. worker[w].pc \notin {"idle", "threw"}
    BY <1>4 DEF SessionFails
  <2>2. WorkersOK'
    BY <1>4, <2>1, MovesType DEF SessionFails
  <2> QED
    BY <1>4, <2>2 DEF SessionFails, TypeOK, WorkersOK, tables, remote
<1>5. CASE LocateFirst(w)
  <2>1. worker[w].pc \notin {"idle", "threw"}
    BY <1>5 DEF LocateFirst, At
  <2>2. \/ \E memo \in {"stored", "failed", "unknown"} : Goes(w, "concluding", memo)
        \/ Goes(w, "absent", "none")
    BY <1>5 DEF LocateFirst, Evidence
  <2>3. WorkersOK'
    BY <1>0, <2>1, <2>2, MovesType
  <2> QED
    BY <1>5, <2>3 DEF LocateFirst, TypeOK, WorkersOK, tables, remote
<1>6. CASE AppendMessage(w)
  <2>1. worker[w].pc \notin {"idle", "threw"} /\ o \in Row
    BY <1>6 DEF TypeOK, AppendMessage, At
  <2>2. \/ \E memo \in {"stored", "failed", "unknown"} : Goes(w, "concluding", memo)
        \/ \E memo \in AppendAnswer : Goes(w, "appended", memo)
    BY <1>6 DEF AppendMessage, AppendAnswer
  <2>3. WorkersOK'
    BY <1>0, <2>1, <2>2, MovesType
  <2>4. copies' \in [Row -> 0 .. MaxCopies]
    BY <1>6, <2>1, OutboundAssumption DEF TypeOK, AppendMessage
  <2> QED
    BY <1>6, <2>3, <2>4 DEF AppendMessage, TypeOK, WorkersOK, tables
<1>7. CASE LocateAgain(w)
  <2>1. worker[w].pc \notin {"idle", "threw"}
    BY <1>7 DEF LocateAgain, At
  <2>2. \E memo \in {"stored", "failed", "unknown"} : Goes(w, "concluding", memo)
    BY <1>7 DEF LocateAgain, Evidence, AbsentAfterAppend
  <2>3. WorkersOK'
    BY <2>1, <2>2, MovesType
  <2> QED
    BY <1>7, <2>3 DEF LocateAgain, TypeOK, WorkersOK, tables, remote
<1>8. CASE ConcludeClaimed(w)
  <2>1. worker[w].pc \notin {"idle", "threw"} /\ o \in Row
    BY <1>8 DEF TypeOK, ConcludeClaimed, At
  <2>2. worker[w].memo \in {"stored", "failed", "unknown"}
    BY <1>8 DEF TypeOK, ConcludeClaimed, At
  <2>3. ConcludedRow(row[o], worker[w].memo, FALSE) \in OutboundRow
    BY <2>1, <2>2, RowsType DEF TypeOK
  <2>4. row' \in [Row -> OutboundRow]
    BY <1>8, <2>1, <2>3 DEF TypeOK, ConcludeClaimed
  <2>5. WorkersOK'
    BY <1>8, <2>1, MovesType DEF ConcludeClaimed
  <2> QED
    BY <1>8, <2>4, <2>5 DEF ConcludeClaimed, TypeOK, WorkersOK, remote
<1>9. CASE HoldAppend(w)
  <2>1. worker[w].pc \notin {"idle", "threw"} /\ o \in Row
    BY <1>9 DEF TypeOK, HoldAppend, At
  <2>2. row' \in [Row -> OutboundRow]
    <3>1. row \in [Row -> OutboundRow] /\ row[o] \in OutboundRow
      BY <2>1 DEF TypeOK
    <3>2. [row[o] EXCEPT !.copy = "unknown", !.unmapped = FALSE] \in OutboundRow
      BY <3>1 DEF OutboundRow, SentCopyStatus
    <3>3. \/ row' = row
          \/ row' = [row EXCEPT ![o] = [row[o] EXCEPT !.copy = "unknown", !.unmapped = FALSE]]
      BY <1>9, <2>1, <3>1 DEF HoldAppend
    <3> QED
      BY <2>1, <3>1, <3>2, <3>3
  <2>3. WorkersOK'
    BY <1>9, <2>1, MovesType DEF HoldAppend
  <2> QED
    BY <1>9, <2>2, <2>3 DEF HoldAppend, TypeOK, WorkersOK, remote
<1> QED
    BY <1>1, <1>2, <1>3, <1>4, <1>5, <1>6, <1>7, <1>8, <1>9 DEF CopyStep

LEMMA ReconcileStepType ==
    ASSUME TypeOK, NEW w \in Worker, ReconcileStep(w)
    PROVE  TypeOK'
<1> DEFINE o == worker[w].row
<1>1. CASE Search(w)
  <2>1. worker[w].pc \notin {"idle", "threw"}
    BY <1>1 DEF Search, At
  <2>2. /\ CommitPc \cup {"noting"} \subseteq Pc \ {"idle", "concluding"}
        /\ {"outcome_unknown", "none"} \subseteq Memo
    BY DEF Pc, CommitPc, ReconcilePc, Memo, OutboundStatus
  <2>3. \/ \E pc \in CommitPc : Goes(w, pc, "outcome_unknown")
        \/ Goes(w, "noting", "none")
    BY <1>1 DEF Search, LookUpMessage, CommitPc
  <2>4. WorkersOK'
    BY <2>1, <2>2, <2>3, MovesType
  <2> QED
    BY <1>1, <2>4 DEF Search, TypeOK, WorkersOK, tables, remote
<1>2. CASE SearchThrows(w)
  <2>1. worker[w].pc \notin {"idle", "threw"}
    BY <1>2 DEF SearchThrows, At
  <2>2. "threw" \in Pc \ {"idle", "concluding"} /\ "none" \in Memo
    BY DEF Pc, Memo
  <2>3. WorkersOK'
    BY <1>2, <2>1, <2>2, MovesType DEF SearchThrows, Throws
  <2> QED
    BY <1>2, <2>3 DEF SearchThrows, TypeOK, WorkersOK, tables, remote
<1>3. CASE NoteReconcilePass(w)
  <2>1. worker[w].pc \notin {"idle", "threw"} /\ o \in Row
    BY <1>3 DEF TypeOK, NoteReconcilePass, At
  <2>2. row' \in [Row -> OutboundRow]
    <3>1. row \in [Row -> OutboundRow] /\ row[o] \in OutboundRow
      BY <2>1 DEF TypeOK
    <3>2. [row[o] EXCEPT !.passes = @ + 1] \in OutboundRow
      BY <3>1 DEF OutboundRow
    <3>3. \/ row' = row
          \/ row' = [row EXCEPT ![o] = [row[o] EXCEPT !.passes = @ + 1]]
      BY <1>3, <2>1, <3>1 DEF NoteReconcilePass
    <3> QED
      BY <2>1, <3>1, <3>2, <3>3
  <2>3. WorkersOK'
    BY <1>3, <2>1, MovesType DEF NoteReconcilePass
  <2> QED
    BY <1>3, <2>2, <2>3 DEF NoteReconcilePass, TypeOK, WorkersOK, remote
<1> QED
    BY <1>1, <1>2, <1>3 DEF ReconcileStep

LEMMA SweepStepType ==
    ASSUME TypeOK, NEW w \in Worker, NEW o \in Row, SweepStep(w, o)
    PROVE  TypeOK'
<1>1. ASSUME NEW pc \in Pc \ {"concluding"}, NEW memo \in Memo, Begins(w, pc, o, memo)
      PROVE  WorkersOK'
    BY <1>1 DEF TypeOK, WorkersOK, Begins, Execution
<1>2. /\ {"read_queued", "read_due", "searching", "holding"} \subseteq Pc \ {"concluding"}
      /\ SentCopyStatus \cup {"none"} \subseteq Memo
    BY DEF Pc, SendPc, CopyPc, ReconcilePc, Memo
<1>3. CASE ReadQueued(w, o)
  <2>1. WorkersOK'
    BY <1>1, <1>2, <1>3 DEF ReadQueued
  <2> QED
    BY <1>3, <2>1 DEF ReadQueued, TypeOK, WorkersOK, tables, remote
<1>4. CASE ReadDue(w, o)
  <2>1. row[o].copy \in SentCopyStatus
    BY DEF TypeOK, OutboundRow
  <2>2. WorkersOK'
    BY <1>1, <1>2, <1>4, <2>1 DEF ReadDue
  <2> QED
    BY <1>4, <2>2 DEF ReadDue, TypeOK, WorkersOK, tables, remote
<1>5. CASE ReadUnknown(w, o)
  <2>1. WorkersOK'
    BY <1>1, <1>2, <1>5 DEF ReadUnknown
  <2> QED
    BY <1>5, <2>1 DEF ReadUnknown, TypeOK, WorkersOK, tables, remote
<1>6. CASE HoldSend(w, o)
  <2>1. row' \in [Row -> OutboundRow]
    BY <1>6, RowsType DEF TypeOK, HoldSend
  <2> QED
    BY <1>6, <2>1 DEF HoldSend, TypeOK, remote
<1>7. CASE ReadAbandonedAppend(w, o)
  <2>1. WorkersOK'
    BY <1>1, <1>2, <1>7 DEF ReadAbandonedAppend
  <2> QED
    BY <1>7, <2>1 DEF ReadAbandonedAppend, TypeOK, WorkersOK, tables, remote
<1> QED
    BY <1>3, <1>4, <1>5, <1>6, <1>7 DEF SweepStep

LEMMA WorldStepType ==
    ASSUME TypeOK, NEW o \in Row, WorldStep(o)
    PROVE  TypeOK'
<1>1. CASE SendLeaseExpires(o)
  <2>1. row' \in [Row -> OutboundRow]
    BY <1>1 DEF TypeOK, SendLeaseExpires, OutboundRow, Lease
  <2> QED
    BY <1>1, <2>1 DEF SendLeaseExpires, TypeOK, remote
<1>2. CASE AppendLeaseExpires(o)
  <2>1. row' \in [Row -> OutboundRow]
    BY <1>2 DEF TypeOK, AppendLeaseExpires, OutboundRow, Lease
  <2> QED
    BY <1>2, <2>1 DEF AppendLeaseExpires, TypeOK, remote
<1>3. CASE ProviderStoresCopy(o)
  <2>1. copies' \in [Row -> 0 .. MaxCopies]
    BY <1>3, OutboundAssumption DEF TypeOK, ProviderStoresCopy
  <2> QED
    BY <1>3, <2>1 DEF ProviderStoresCopy, TypeOK, tables
<1>4. CASE ImportSent(o)
    BY <1>4 DEF ImportSent, TypeOK, remote
<1> QED
    BY <1>1, <1>2, <1>3, <1>4 DEF WorldStep

LEMMA CrashType ==
    ASSUME TypeOK, NEW w \in Worker, Recover(w) \/ Crash(w)
    PROVE  TypeOK'
<1>1. Ends(w) => WorkersOK'
  <2>1. Idle \in Execution /\ Idle.pc = "idle"
    BY DEF Idle, Execution, Pc, Memo
  <2> QED
    BY <2>1 DEF TypeOK, WorkersOK, Ends
<1>2. CASE Recover(w)
    BY <1>1, <1>2 DEF Recover, TypeOK, WorkersOK, tables, remote
<1>3. CASE Crash(w)
  <2>1. crashes' \in 0 .. MaxCrashes
    BY <1>3, OutboundAssumption DEF TypeOK, Crash
  <2> QED
    BY <1>1, <1>3, <2>1 DEF Crash, TypeOK, WorkersOK, tables, remote
<1> QED
    BY <1>2, <1>3

LEMMA InitType == Init => TypeOK
<1> SUFFICES ASSUME Init PROVE TypeOK
    OBVIOUS
<1>1. Frozen \in OutboundRow
    BY DEF Frozen, OutboundRow, OutboundStatus, SentCopyStatus, Lease
<1>2. Idle \in Execution /\ Idle.pc = "idle"
    BY DEF Idle, Execution, Pc, Memo
<1>3. 0 \in 0 .. MaxCopies /\ 0 \in 0 .. MaxSubmissions /\ 0 \in 0 .. MaxCrashes
    BY OutboundAssumption
<1> QED
    BY <1>1, <1>2, <1>3 DEF Init, TypeOK

LEMMA StepType == TypeOK /\ [Next]_vars => TypeOK'
<1> SUFFICES ASSUME TypeOK, [Next]_vars PROVE TypeOK'
    OBVIOUS
<1>1. CASE \E w \in Worker : WorkerStep(w) \/ Crash(w)
    BY <1>1, SendStepType, CopyStepType, ReconcileStepType, CrashType DEF WorkerStep
<1>2. CASE \E w \in Worker, o \in Row : SweepStep(w, o)
    BY <1>2, SweepStepType
<1>3. CASE \E o \in Row : WorldStep(o)
    BY <1>3, WorldStepType
<1>4. CASE MapSentFolder
    BY <1>4 DEF MapSentFolder, TypeOK, remote
<1>5. CASE UNCHANGED vars
    BY <1>5 DEF vars, TypeOK
<1> QED
    BY <1>1, <1>2, <1>3, <1>4, <1>5 DEF Next

(* Every reachable state has its types: no transaction, remote answer,     *)
(* crash or expired lease leads a row or a worker out of the states the    *)
(* schema and the handlers of service.ts know.                             *)
THEOREM TypeCorrect == Spec => []TypeOK
<1>1. Init => TypeOK
    BY InitType
<1>2. TypeOK /\ [Next]_vars => TypeOK'
    BY StepType
<1> QED
    BY <1>1, <1>2, PTL DEF Spec

-----------------------------------------------------------------------------
(* Attempts.                                                               *)

(* Most steps leave the status and the lock of every row alone.            *)
RowsKept ==
    /\ UNCHANGED <<submissions, accepted>>
    /\ \A o \in Row : /\ row'[o].status = row[o].status
                      /\ row'[o].locked = row[o].locked
                      /\ row'[o].copy # "pending" => row[o].status = "sent"
                      /\ row[o].copy = "stored" => row'[o].copy = "stored"
                      /\ message[o] => message'[o]
                      /\ copies'[o] > 0 => accepted[o] > 0

(* The others move the status of one row, or deliver its message.          *)
StatusMoves(o, from, to) ==
    /\ row[o].status \in from /\ row'[o].status = to
    /\ \A p \in Row \ {o} : row'[p] = row[p]
    /\ UNCHANGED accepted

Delivers(o) ==
    /\ row[o].status \in {"sending", "outcome_unknown"} /\ accepted[o] = 0
    /\ accepted' = [accepted EXCEPT ![o] = 1]
    /\ UNCHANGED row

SendMoves ==
    \E o \in Row :
        \/ StatusMoves(o, {"queued"}, "sending")
        \/ StatusMoves(o, {"sending"}, "outcome_unknown")
        \/ StatusMoves(o, {"sending"}, "failed") /\ accepted[o] = 0
        \/ StatusMoves(o, {"sending", "outcome_unknown"}, "sent") /\ accepted[o] = 1
        \/ Delivers(o)

Moves == RowsKept \/ SendMoves \/ UNCHANGED <<row, accepted>>

(* When the rows are kept, only what a moving worker carries matters.      *)
LEMMA KeepsStatus ==
    ASSUME IInv, TypeOK', RowsKept,
           \A w \in Worker : \/ worker'[w] = worker[w]
                             \/ \A o \in Row :
                                  /\ Owns(w, o)' => Owns(w, o)
                                  /\ worker'[w].row = o => TrueTo(w, o)'
    PROVE  IInv'
<1> USE DEF IInv, Attempts, RowsKept
<1>1. OneOwner'
    BY DEF OneOwner, Owns
<1>2. OwnerIsOpen'
    BY DEF OwnerIsOpen, Owns
<1>3. AnswerIsTrue'
    BY DEF AnswerIsTrue, TrueTo, At
<1>4. RowIsTrue'
    BY DEF RowIsTrue
<1>5. LockedWhileUnresolved' /\ OutcomeIsTrue'
    BY DEF LockedWhileUnresolved, OutcomeIsTrue
<1> QED
    BY <1>1, <1>2, <1>3, <1>4, <1>5

LEMMA UnchangedKeeps ==
    ASSUME IInv, UNCHANGED <<row, message, remote>>
    PROVE  RowsKept
    BY DEF RowsKept, remote, IInv, Attempts, RowIsTrue

(* A worker that ends, or throws, owns nothing and carries nothing.        *)
LEMMA DoneIsTrue ==
    ASSUME TypeOK, NEW w \in Worker, Ends(w) \/ Throws(w)
    PROVE  /\ \A v \in Worker \ {w} : worker'[v] = worker[v]
           /\ \A o \in Row : ~Owns(w, o)' /\ TrueTo(w, o)'
<1>1. /\ worker'[w].pc \in {"idle", "threw"}
      /\ \A v \in Worker \ {w} : worker'[v] = worker[v]
    BY DEF TypeOK, Ends, Throws, Goes, Idle
<1> QED
    BY <1>1 DEF Owns, TrueTo, At, CommitPc, CopyPc

(* A worker that goes on to a step of the Sent copy, or of the             *)
(* reconciliation, owns no submission; it needs a sent row for the first.  *)
LEMMA CopyStepIsTrue ==
    ASSUME TypeOK, NEW w \in Worker, NEW p \in Row, NEW pc \in CopyPc \cup ReconcilePc,
           NEW memo, Begins(w, pc, p, memo) \/ (worker[w].row = p /\ Goes(w, pc, memo)),
           pc \in CopyPc => row'[p].status = "sent"
    PROVE  /\ \A v \in Worker \ {w} : worker'[v] = worker[v]
           /\ \A o \in Row : ~Owns(w, o)' /\ (worker'[w].row = o => TrueTo(w, o)')
<1>1. /\ worker'[w].pc = pc /\ worker'[w].row = p
      /\ \A v \in Worker \ {w} : worker'[v] = worker[v]
    BY DEF TypeOK, Begins, Goes
<1>2. pc \notin {"claimed", "answered"} \cup CommitPc
    BY DEF CommitPc, CopyPc, ReconcilePc
<1> QED
    BY <1>1, <1>2 DEF Owns, TrueTo, At

(* The steps of the Sent copy keep every status, and leave "pending" only  *)
(* for a sent row.                                                         *)
LEMMA CopyStepRow ==
    ASSUME IInv, NEW w \in Worker, CopyStep(w)
    PROVE  /\ worker[w].row \in Row /\ row[worker[w].row].status = "sent"
           /\ accepted[worker[w].row] > 0
           /\ \A p \in Row : row[p].copy # "pending" => row[p].status = "sent"
           /\ \A p \in Row : copies[p] > 0 => accepted[p] > 0
<1> DEFINE o == worker[w].row
<1>1. worker[w].pc \in CopyPc
    BY DEF CopyStep, FindSentFolder, ConcludeUnclaimed, ClaimAppend, SessionFails,
           LocateFirst, AppendMessage, LocateAgain, ConcludeClaimed, HoldAppend, At, CopyPc
<1>2. o \in Row
    BY <1>1 DEF CopyPc, IInv, TypeOK
<1> QED
    BY <1>1, <1>2 DEF IInv, Attempts, AnswerIsTrue, TrueTo, RowIsTrue, OutcomeIsTrue

LEMMA CopyStepKeeps ==
    ASSUME IInv, NEW w \in Worker, CopyStep(w)
    PROVE  RowsKept
<1> DEFINE o == worker[w].row
<1>0. /\ o \in Row /\ row[o].status = "sent" /\ accepted[o] > 0
      /\ \A p \in Row : row[p].copy # "pending" => row[p].status = "sent"
      /\ \A p \in Row : copies[p] > 0 => accepted[p] > 0
    BY CopyStepRow
<1>1. CASE UNCHANGED <<row, message, remote>>
    BY <1>1, UnchangedKeeps
<1>2. CASE AppendMessage(w)
    BY <1>0, <1>2, OutboundAssumption DEF AppendMessage, RowsKept, tables, IInv, TypeOK
<1>3. ASSUME NEW r, r.status = row[o].status, r.locked = row[o].locked,
             row' = [row EXCEPT ![o] = r], row[o].copy # "stored",
             UNCHANGED <<message, remote>>
      PROVE  RowsKept
    BY <1>0, <1>3 DEF RowsKept, remote, IInv, TypeOK
<1>4. CASE ConcludeUnclaimed(w) \/ ConcludeClaimed(w)
  <2> DEFINE outcome == IF ConcludeUnclaimed(w) THEN "failed" ELSE worker[w].memo
             r == ConcludedRow(row[o], outcome, ConcludeUnclaimed(w))
  <2>1. r.status = row[o].status /\ r.locked = row[o].locked
    BY <1>0 DEF ConcludedRow, IInv, TypeOK, OutboundRow
  <2>2. \/ UNCHANGED row
        \/ row' = [row EXCEPT ![o] = r] /\ row[o].copy # "stored"
    BY <1>4 DEF ConcludeUnclaimed, ConcludeClaimed, At, MayConclude, Claimable
  <2> QED
    BY <1>1, <1>3, <1>4, <2>1, <2>2 DEF ConcludeUnclaimed, ConcludeClaimed
<1>5. CASE ClaimAppend(w)
  <2> DEFINE r == [row[o] EXCEPT !.copy = "appending", !.appendLease = "live"]
  <2>1. r.status = row[o].status /\ r.locked = row[o].locked
    BY <1>0 DEF IInv, TypeOK, OutboundRow
  <2>2. UNCHANGED row \/ (row' = [row EXCEPT ![o] = r] /\ row[o].copy # "stored")
    BY <1>0, <1>5 DEF ClaimAppend, Claimable, IInv, TypeOK, OutboundRow
  <2> QED
    BY <1>1, <1>3, <1>5, <2>1, <2>2 DEF ClaimAppend
<1>6. CASE HoldAppend(w)
  <2> DEFINE r == [row[o] EXCEPT !.copy = "unknown", !.unmapped = FALSE]
  <2>1. r.status = row[o].status /\ r.locked = row[o].locked
    BY <1>0 DEF IInv, TypeOK, OutboundRow
  <2>2. UNCHANGED row \/ (row' = [row EXCEPT ![o] = r] /\ row[o].copy # "stored")
    BY <1>0, <1>6 DEF HoldAppend, IInv, TypeOK, OutboundRow
  <2> QED
    BY <1>1, <1>3, <1>6, <2>1, <2>2 DEF HoldAppend
<1> QED
    BY <1>1, <1>2, <1>4, <1>5, <1>6
    DEF CopyStep, FindSentFolder, SessionFails, LocateFirst, LocateAgain, tables

LEMMA CopyStepInv ==
    ASSUME IInv, NEW w \in Worker, CopyStep(w)
    PROVE  IInv' /\ RowsKept
<1>0. TypeOK'
    BY CopyStepType DEF IInv
<1>1. worker[w].row \in Row /\ row[worker[w].row].status = "sent"
    BY CopyStepRow
<1>2. RowsKept
    BY CopyStepKeeps
<1>3. \/ Ends(w)
      \/ \E pc \in CopyPc, memo \in Memo : Goes(w, pc, memo)
  <2>1. /\ {"no_folder", "folder", "opened", "absent", "appended", "concluding"} \subseteq CopyPc
        /\ SentCopyStatus \cup AppendAnswer \cup {"none", "failed"} \subseteq Memo
        /\ {"stored", "failed", "unknown"} \subseteq SentCopyStatus
    BY DEF CopyPc, Memo, SentCopyStatus
  <2>2. CASE FindSentFolder(w) \/ ClaimAppend(w) \/ SessionFails(w)
    BY <2>1, <2>2 DEF FindSentFolder, ClaimAppend, SessionFails
  <2>3. CASE LocateFirst(w) \/ LocateAgain(w)
    BY <2>1, <2>3 DEF LocateFirst, LocateAgain, Evidence, AbsentAfterAppend
  <2>4. CASE AppendMessage(w)
    BY <2>1, <2>4 DEF AppendMessage, AppendAnswer
  <2>5. CASE ConcludeUnclaimed(w) \/ ConcludeClaimed(w) \/ HoldAppend(w)
    BY <2>5 DEF ConcludeUnclaimed, ConcludeClaimed, HoldAppend
  <2> QED
    BY <2>2, <2>3, <2>4, <2>5 DEF CopyStep
<1>4. /\ \A v \in Worker \ {w} : worker'[v] = worker[v]
      /\ \A p \in Row : ~Owns(w, p)' /\ (worker'[w].row = p => TrueTo(w, p)')
    BY <1>1, <1>2, <1>3, DoneIsTrue, CopyStepIsTrue DEF IInv, RowsKept
<1> QED
    BY <1>0, <1>2, <1>4, KeepsStatus

(* The reconciliation only counts its pass, and takes nothing for a proof  *)
(* but a copy in the Sent folder, which only an accepted message has.      *)
LEMMA ReconcileStepInv ==
    ASSUME IInv, NEW w \in Worker, ReconcileStep(w)
    PROVE  IInv' /\ RowsKept
<1> DEFINE o == worker[w].row
<1>0. TypeOK'
    BY ReconcileStepType DEF IInv
<1>1. worker[w].pc \in ReconcilePc /\ o \in Row
    BY DEF ReconcileStep, Search, SearchThrows, NoteReconcilePass, At, ReconcilePc, IInv, TypeOK
<1>2. RowsKept
  <2>1. CASE Search(w) \/ SearchThrows(w)
    BY <2>1, UnchangedKeeps DEF Search, SearchThrows, tables
  <2>2. CASE NoteReconcilePass(w)
    <3> DEFINE r == [row[o] EXCEPT !.passes = @ + 1]
    <3>1. r.status = row[o].status /\ r.locked = row[o].locked /\ r.copy = row[o].copy
      BY <1>1 DEF IInv, TypeOK, OutboundRow
    <3>2. row' = [row EXCEPT ![o] = r] \/ UNCHANGED row
      BY <1>1, <2>2 DEF NoteReconcilePass, IInv, TypeOK, OutboundRow
    <3>3. \A p \in Row : row'[p] = row[p] \/ (p = o /\ row'[p] = r)
      BY <1>1, <3>2 DEF IInv, TypeOK
    <3> QED
      BY <2>2, <3>1, <3>3
      DEF NoteReconcilePass, RowsKept, remote, IInv, Attempts, RowIsTrue
  <2> QED
    BY <2>1, <2>2 DEF ReconcileStep
<1>3. /\ \A v \in Worker \ {w} : worker'[v] = worker[v]
      /\ \A p \in Row : ~Owns(w, p)' /\ (worker'[w].row = p => TrueTo(w, p)')
  <2>1. CASE Ends(w) \/ Throws(w)
    BY <2>1, DoneIsTrue DEF IInv
  <2>2. CASE Goes(w, "noting", "none")
    <3>1. "noting" \in CopyPc \cup ReconcilePc /\ "noting" \notin CopyPc
      BY DEF CopyPc, ReconcilePc
    <3> QED
      BY <1>1, <2>2, <3>1, CopyStepIsTrue DEF IInv
  <2>3. CASE copies[o] > 0 /\ LookUpMessage(w, "outcome_unknown")
    <3>1. accepted'[o] > 0
      BY <1>1, <1>2, <2>3 DEF IInv, Attempts, RowIsTrue, RowsKept
    <3>2. /\ worker'[w].row = o /\ worker'[w].pc \in CommitPc
          /\ worker'[w].memo = "outcome_unknown"
          /\ \A v \in Worker \ {w} : worker'[v] = worker[v]
      BY <2>3 DEF LookUpMessage, Goes, CommitPc, IInv, TypeOK
    <3> QED
      BY <3>1, <3>2 DEF Owns, TrueTo, At, CommitPc, CopyPc
  <2> QED
    BY <2>1, <2>2, <2>3
    DEF ReconcileStep, Search, SearchThrows, NoteReconcilePass, Proves, Evidence
<1> QED
    BY <1>0, <1>2, <1>3, KeepsStatus

(* A sweep hands out a row it read; the hold of a send is the one update.  *)
LEMMA HoldSendInv ==
    ASSUME IInv, NEW w \in Worker, NEW o \in Row, HoldSend(w, o)
    PROVE  IInv' /\ Moves
<1>0. TypeOK'
    BY SweepStepType DEF IInv, SweepStep
<1>1. /\ row[o].status = "sending"
      /\ row' = [row EXCEPT ![o] = HeldSend(@)]
      /\ UNCHANGED <<message, worker, copies, submissions, accepted>>
    BY DEF HoldSend, remote
<1>2. \A p \in Row :
        /\ p # o => row'[p] = row[p]
        /\ row'[o].status = "outcome_unknown"
        /\ row'[o].locked = row[o].locked /\ row'[o].copy = row[o].copy
    BY <1>1 DEF HeldSend, IInv, TypeOK, OutboundRow
<1>3. OneOwner' /\ OwnerIsOpen'
    BY <1>1, <1>2 DEF IInv, Attempts, OneOwner, OwnerIsOpen, Owns
<1>4. AnswerIsTrue'
    BY <1>1, <1>2 DEF IInv, Attempts, AnswerIsTrue, TrueTo, At
<1>5. RowIsTrue'
    BY <1>1, <1>2 DEF IInv, Attempts, RowIsTrue
<1>6. LockedWhileUnresolved' /\ OutcomeIsTrue'
    BY <1>1, <1>2 DEF IInv, LockedWhileUnresolved, OutcomeIsTrue
<1>7. StatusMoves(o, {"sending"}, "outcome_unknown")
    BY <1>1, <1>2 DEF StatusMoves
<1> QED
    BY <1>0, <1>3, <1>4, <1>5, <1>6, <1>7 DEF IInv, Attempts, Moves, SendMoves

LEMMA SweepStepInv ==
    ASSUME IInv, NEW w \in Worker, NEW o \in Row, SweepStep(w, o)
    PROVE  IInv' /\ Moves
<1>1. CASE HoldSend(w, o)
    BY <1>1, HoldSendInv
<1>2. CASE ReadDue(w, o) \/ ReadUnknown(w, o) \/ ReadAbandonedAppend(w, o)
  <2>0. TypeOK'
    BY SweepStepType DEF IInv
  <2>1. RowsKept /\ UNCHANGED tables
    BY <1>2, UnchangedKeeps DEF ReadDue, ReadUnknown, ReadAbandonedAppend, tables
  <2>2. \E pc \in CopyPc \cup ReconcilePc : \E memo :
           Begins(w, pc, o, memo) /\ (pc \in CopyPc => row[o].status = "sent")
    BY <1>2 DEF ReadDue, ReadUnknown, ReadAbandonedAppend, CopyIsDue, CopyPc, ReconcilePc,
                IInv, Attempts, RowIsTrue
  <2>3. /\ \A v \in Worker \ {w} : worker'[v] = worker[v]
        /\ \A p \in Row : ~Owns(w, p)' /\ (worker'[w].row = p => TrueTo(w, p)')
    BY <2>1, <2>2, CopyStepIsTrue DEF IInv, tables
  <2> QED
    BY <2>0, <2>1, <2>3, KeepsStatus DEF Moves
<1>3. CASE ReadQueued(w, o)
  <2>0. TypeOK'
    BY SweepStepType DEF IInv
  <2>1. RowsKept
    BY <1>3, UnchangedKeeps DEF ReadQueued, tables
  <2>2. /\ worker'[w].pc = "read_queued"
        /\ \A v \in Worker \ {w} : worker'[v] = worker[v]
    BY <1>3 DEF ReadQueued, Begins, IInv, TypeOK
  <2>3. \A p \in Row : ~Owns(w, p)' /\ TrueTo(w, p)'
    BY <2>2 DEF Owns, TrueTo, At, CommitPc, CopyPc
  <2> QED
    BY <2>0, <2>1, <2>2, <2>3, KeepsStatus DEF Moves
<1> QED
    BY <1>1, <1>2, <1>3 DEF SweepStep

LEMMA CrashInv ==
    ASSUME IInv, NEW w \in Worker, Recover(w) \/ Crash(w)
    PROVE  IInv' /\ RowsKept
<1>1. TypeOK' /\ Ends(w) /\ RowsKept
    BY CrashType, UnchangedKeeps DEF IInv, Recover, Crash, tables
<1>2. /\ \A v \in Worker \ {w} : worker'[v] = worker[v]
      /\ \A p \in Row : ~Owns(w, p)' /\ TrueTo(w, p)'
    BY <1>1, DoneIsTrue DEF IInv
<1> QED
    BY <1>1, <1>2, KeepsStatus

(* The world outside changes leases, copies and messages.                  *)
LEMMA WorldInv ==
    ASSUME IInv, (\E o \in Row : WorldStep(o)) \/ MapSentFolder
    PROVE  IInv' /\ RowsKept
<1>0. TypeOK'
    BY StepType DEF IInv, Next
<1>1. UNCHANGED worker /\ RowsKept
  <2>1. CASE \E o \in Row : SendLeaseExpires(o) \/ AppendLeaseExpires(o)
    <3>1. PICK o \in Row :
            \/ row' = [row EXCEPT ![o] = [@ EXCEPT !.sendLease = "expired"]]
            \/ row' = [row EXCEPT ![o] = [@ EXCEPT !.appendLease = "expired"]]
      BY <2>1 DEF SendLeaseExpires, AppendLeaseExpires
    <3>2. \A p \in Row : /\ row'[p].status = row[p].status
                         /\ row'[p].locked = row[p].locked
                         /\ row'[p].copy = row[p].copy
      BY <3>1 DEF IInv, TypeOK, OutboundRow
    <3> QED
      BY <2>1, <3>2 DEF SendLeaseExpires, AppendLeaseExpires, RowsKept, remote, IInv, Attempts, RowIsTrue
  <2>2. CASE \E o \in Row : ProviderStoresCopy(o) \/ ImportSent(o)
    BY <2>2 DEF ProviderStoresCopy, ImportSent, RowsKept, tables, remote, IInv,
                TypeOK, Attempts, RowIsTrue
  <2>3. CASE MapSentFolder
    BY <2>3 DEF MapSentFolder, RowsKept, remote, IInv, Attempts, RowIsTrue
  <2> QED
    BY <2>1, <2>2, <2>3 DEF WorldStep
<1> QED
    BY <1>0, <1>1, KeepsStatus

-----------------------------------------------------------------------------
(* The steps of a send: here the status moves.                             *)

LEMMA ClaimSendInv ==
    ASSUME IInv, NEW w \in Worker, ClaimSend(w)
    PROVE  IInv' /\ Moves
<1> DEFINE o == worker[w].row
<1>0. TypeOK' /\ o \in Row
    BY SendStepType DEF IInv, SendStep, ClaimSend, At, TypeOK
<1>1. CASE Ends(w) /\ UNCHANGED row
  <2>1. RowsKept
    BY <1>1, UnchangedKeeps DEF ClaimSend, remote
  <2> QED
    BY <1>0, <1>1, <2>1, DoneIsTrue, KeepsStatus DEF IInv, Moves
<1>2. CASE /\ MayClaim(row[o])
           /\ row' = [row EXCEPT ![o].status = "sending", ![o].sendLease = "live"]
           /\ Goes(w, "claimed", "none")
  <2>1. /\ row[o].status = "queued" /\ row'[o].status = "sending"
        /\ row'[o].locked = row[o].locked /\ row'[o].copy = row[o].copy
        /\ \A p \in Row : p # o => row'[p] = row[p]
    BY <1>0, <1>2 DEF MayClaim, IInv, TypeOK, OutboundRow
  <2>2. /\ worker'[w] = [pc |-> "claimed", row |-> o, memo |-> "none"]
        /\ \A v \in Worker \ {w} : worker'[v] = worker[v]
    BY <1>2 DEF Goes, IInv, TypeOK
  <2>3. UNCHANGED <<submissions, accepted, message, copies>>
    BY DEF ClaimSend, remote
  <2>4. OneOwner'
    BY <1>0, <2>1, <2>2 DEF IInv, Attempts, OneOwner, OwnerIsOpen, Owns, CommitPc
  <2>5. OwnerIsOpen'
    BY <1>0, <2>1, <2>2 DEF IInv, Attempts, OwnerIsOpen, Owns, CommitPc
  <2>6. AnswerIsTrue'
    BY <1>0, <2>1, <2>2, <2>3
    DEF IInv, Attempts, AnswerIsTrue, TrueTo, At, RowIsTrue, CommitPc, CopyPc
  <2>7. RowIsTrue'
    BY <2>1, <2>3 DEF IInv, Attempts, RowIsTrue
  <2>8. LockedWhileUnresolved' /\ OutcomeIsTrue'
    BY <2>1, <2>3 DEF IInv, LockedWhileUnresolved, OutcomeIsTrue
  <2>9. StatusMoves(o, {"queued"}, "sending")
    BY <2>1, <2>3 DEF StatusMoves
  <2> QED
    BY <1>0, <2>4, <2>5, <2>6, <2>7, <2>8, <2>9 DEF IInv, Attempts, Moves, SendMoves
<1> QED
    BY <1>1, <1>2 DEF ClaimSend

(* The one owner submits, and no other step counts a submission.           *)
LEMMA SubmitInv ==
    ASSUME IInv, NEW w \in Worker, Submit(w)
    PROVE  IInv' /\ Moves
<1> DEFINE o == worker[w].row
<1>0. TypeOK' /\ o \in Row /\ Owns(w, o) /\ worker[w].pc = "claimed"
    BY SendStepType DEF IInv, SendStep, Submit, At, TypeOK, Owns
<1>1. /\ submissions[o] = 0 /\ accepted[o] = 0
      /\ row[o].status \in {"sending", "outcome_unknown"} /\ copies[o] = 0
  <2>1. submissions[o] = 0 /\ row[o].status # "sent"
    BY <1>0 DEF IInv, Attempts, AnswerIsTrue, TrueTo, At
  <2> QED
    BY <1>0, <2>1 DEF IInv, TypeOK, Attempts, RowIsTrue, OwnerIsOpen
<1>2. /\ UNCHANGED <<row, message, copies>>
      /\ submissions'[o] = 1 /\ accepted'[o] \in {0, 1}
      /\ \A p \in Row : p # o => submissions'[p] = submissions[p] /\ accepted'[p] = accepted[p]
    BY <1>0, <1>1 DEF Submit, tables, IInv, TypeOK
<1>3. /\ worker'[w].pc = "answered" /\ worker'[w].row = o
      /\ worker'[w].memo = "accepted" => accepted'[o] = 1
      /\ worker'[w].memo = "rejected" => accepted'[o] = 0
      /\ \A v \in Worker \ {w} : worker'[v] = worker[v]
    BY <1>0, <1>1 DEF Submit, Goes, IInv, TypeOK
<1>4. \A v \in Worker \ {w} : ~Owns(v, o)
    BY <1>0 DEF IInv, Attempts, OneOwner
<1>5. OneOwner' /\ OwnerIsOpen'
    BY <1>0, <1>1, <1>2, <1>3 DEF IInv, Attempts, OneOwner, OwnerIsOpen, Owns
<1>6. AnswerIsTrue'
  <2> SUFFICES ASSUME NEW v \in Worker, NEW p \in Row, worker'[v].row = p
               PROVE  TrueTo(v, p)'
    BY DEF AnswerIsTrue
  <2>1. CASE v = w
    BY <1>2, <1>3, <2>1 DEF TrueTo, At, CommitPc, CopyPc
  <2>2. CASE v # w
    BY <1>1, <1>2, <1>3, <1>4, <2>2 DEF IInv, Attempts, AnswerIsTrue, TrueTo, At, Owns
  <2> QED
    BY <2>1, <2>2
<1>7. RowIsTrue'
    BY <1>1, <1>2 DEF IInv, Attempts, RowIsTrue
<1>8. LockedWhileUnresolved' /\ OutcomeIsTrue'
    BY <1>1, <1>2 DEF IInv, LockedWhileUnresolved, OutcomeIsTrue
<1>9. UNCHANGED <<row, accepted>> \/ Delivers(o)
    BY <1>0, <1>1, <1>2 DEF Submit, Delivers, tables, IInv, TypeOK
<1> QED
    BY <1>0, <1>5, <1>6, <1>7, <1>8, <1>9 DEF IInv, Attempts, Moves, SendMoves

(* An answer is recorded by the worker that has it; a failure only of a    *)
(* row still "sending", which the relay then never took.                   *)
LEMMA RecordInv ==
    ASSUME IInv, NEW w \in Worker, RecordFailure(w) \/ RecordUnknown(w)
    PROVE  IInv' /\ Moves
<1> DEFINE o == worker[w].row
<1>0. TypeOK' /\ o \in Row /\ Owns(w, o)
    BY SendStepType DEF IInv, SendStep, RecordFailure, RecordUnknown, At, TypeOK, Owns
<1>1. /\ UNCHANGED <<submissions, accepted, message, copies>>
      /\ Ends(w) \/ Throws(w)
    BY DEF RecordFailure, RecordUnknown, remote
<1>2. CASE UNCHANGED row
  <2>1. RowsKept
    BY <1>1, <1>2, UnchangedKeeps DEF remote
  <2> QED
    BY <1>0, <1>1, <2>1, DoneIsTrue, KeepsStatus DEF IInv, Moves
<1>3. CASE row[o].status = "sending" /\ row' # row
  <2>1. /\ \A p \in Row : p # o => row'[p] = row[p]
        /\ row'[o].copy = row[o].copy
        /\ \/ row'[o].status = "outcome_unknown" /\ row'[o].locked = row[o].locked
           \/ row'[o].status = "failed" /\ ~row'[o].locked /\ accepted[o] = 0
    <3>1. CASE RecordFailure(w)
      <4>1. accepted[o] = 0
        BY <1>0, <3>1 DEF RecordFailure, IInv, Attempts, AnswerIsTrue, TrueTo
      <4> QED
        BY <1>0, <1>3, <3>1, <4>1 DEF RecordFailure, Failed, IInv, TypeOK, OutboundRow
    <3>2. CASE RecordUnknown(w)
      BY <1>0, <1>3, <3>2 DEF RecordUnknown, IInv, TypeOK, OutboundRow
    <3> QED
      BY <3>1, <3>2
  <2>2. /\ \A v \in Worker \ {w} : worker'[v] = worker[v]
        /\ \A p \in Row : ~Owns(w, p)' /\ TrueTo(w, p)'
    BY <1>1, DoneIsTrue DEF IInv
  <2>3. \A v \in Worker \ {w} : ~Owns(v, o)
    BY <1>0 DEF IInv, Attempts, OneOwner
  <2>4. OneOwner' /\ OwnerIsOpen'
    BY <2>1, <2>2, <2>3 DEF IInv, Attempts, OneOwner, OwnerIsOpen, Owns
  <2>5. AnswerIsTrue'
    BY <1>1, <1>3, <2>1, <2>2, <2>3 DEF IInv, Attempts, AnswerIsTrue, TrueTo, At, Owns
  <2>6. RowIsTrue'
    BY <1>1, <1>3, <2>1 DEF IInv, Attempts, RowIsTrue
  <2>7. LockedWhileUnresolved' /\ OutcomeIsTrue'
    BY <1>1, <1>3, <2>1 DEF IInv, LockedWhileUnresolved, OutcomeIsTrue
  <2>8. \/ StatusMoves(o, {"sending"}, "outcome_unknown")
        \/ StatusMoves(o, {"sending"}, "failed") /\ accepted[o] = 0
    BY <1>1, <1>3, <2>1 DEF StatusMoves
  <2> QED
    BY <1>0, <2>4, <2>5, <2>6, <2>7, <2>8 DEF IInv, Attempts, Moves, SendMoves
<1>4. row[o].status = "sending" \/ UNCHANGED row
    BY <1>0 DEF RecordFailure, RecordUnknown, Failed, IInv, TypeOK
<1> QED
    BY <1>2, <1>3, <1>4

(* An acceptance commits whole, for a row in the status it was proved for, *)
(* and only what the relay took gets that far.                             *)
LEMMA CommitInv ==
    ASSUME IInv, NEW w \in Worker, CommitAcceptance(w)
    PROVE  IInv' /\ Moves
<1> DEFINE o == worker[w].row
<1>0. /\ TypeOK' /\ o \in Row /\ accepted[o] > 0
      /\ worker[w].memo \in {"sending", "outcome_unknown"}
    BY SendStepType
    DEF IInv, SendStep, CommitAcceptance, CommitPc, TypeOK, Attempts, AnswerIsTrue, TrueTo
<1>1. /\ UNCHANGED <<submissions, accepted, copies>>
      /\ Ends(w) \/ Throws(w)
    BY DEF CommitAcceptance, remote
<1>2. /\ \A v \in Worker \ {w} : worker'[v] = worker[v]
      /\ \A p \in Row : ~Owns(w, p)' /\ TrueTo(w, p)'
    BY <1>1, DoneIsTrue DEF IInv
<1>3. CASE UNCHANGED <<row, message>>
  <2>1. RowsKept
    BY <1>1, <1>3, UnchangedKeeps DEF remote
  <2> QED
    BY <1>0, <1>2, <2>1, KeepsStatus DEF Moves
<1>4. CASE /\ row[o].status = worker[w].memo
           /\ row' = [row EXCEPT ![o] = AcceptedRow(@, worker[w].memo)]
           /\ message' = [message EXCEPT ![o] = TRUE]
  <2>1. /\ \A p \in Row : p # o => row'[p] = row[p] /\ message'[p] = message[p]
        /\ row'[o].status = "sent" /\ ~row'[o].locked /\ message'[o]
        /\ row[o].status \in {"sending", "outcome_unknown"}
    BY <1>0, <1>4 DEF AcceptedRow, IInv, TypeOK, OutboundRow
  <2>2. submissions[o] > 0
    BY <1>0 DEF IInv, TypeOK, Attempts, RowIsTrue
  <2>3. OneOwner' /\ OwnerIsOpen'
    BY <1>2, <2>1 DEF IInv, Attempts, OneOwner, OwnerIsOpen, Owns
  <2>4. AnswerIsTrue'
    BY <1>1, <1>2, <2>1, <2>2 DEF IInv, Attempts, AnswerIsTrue, TrueTo, At
  <2>5. RowIsTrue'
    BY <1>1, <2>1 DEF IInv, Attempts, RowIsTrue
  <2>6. LockedWhileUnresolved' /\ OutcomeIsTrue'
    BY <1>0, <1>1, <2>1 DEF IInv, LockedWhileUnresolved, OutcomeIsTrue
  <2>7. accepted[o] = 1
    <3>1. accepted[o] \in Nat /\ submissions[o] \in Nat
      BY <1>0, OutboundAssumption DEF IInv, TypeOK
    <3>2. accepted[o] <= submissions[o] /\ submissions[o] <= 1
      BY <1>0 DEF IInv, Attempts, RowIsTrue
    <3> QED
      BY <1>0, <3>1, <3>2
  <2>8. StatusMoves(o, {"sending", "outcome_unknown"}, "sent")
    BY <1>1, <2>1 DEF StatusMoves
  <2> QED
    BY <1>0, <2>3, <2>4, <2>5, <2>6, <2>7, <2>8 DEF IInv, Attempts, Moves, SendMoves
<1> QED
    BY <1>3, <1>4 DEF CommitAcceptance, AcceptOrRollBack

LEMMA SendStepInv ==
    ASSUME IInv, NEW w \in Worker, SendStep(w)
    PROVE  IInv' /\ Moves
<1> DEFINE o == worker[w].row
<1>0. TypeOK'
    BY SendStepType DEF IInv
<1>1. CASE FailLocally(w)
  <2>1. /\ o \in Row /\ accepted[o] = 0 /\ Owns(w, o)
        /\ UNCHANGED <<tables, remote>>
    BY <1>1 DEF FailLocally, At, Owns, IInv, TypeOK, Attempts, AnswerIsTrue, TrueTo, RowIsTrue
  <2>2. /\ worker'[w] = [pc |-> "answered", row |-> o, memo |-> "rejected"]
        /\ \A v \in Worker \ {w} : worker'[v] = worker[v]
    BY <1>1 DEF FailLocally, Goes, IInv, TypeOK
  <2>3. \A p \in Row : /\ Owns(w, p)' => Owns(w, p)
                       /\ worker'[w].row = p => TrueTo(w, p)'
    BY <2>1, <2>2 DEF Owns, TrueTo, At, CommitPc, CopyPc, tables, remote
  <2> QED
    BY <1>0, <2>1, <2>2, <2>3, KeepsStatus, UnchangedKeeps DEF tables, Moves
<1>2. CASE AcceptAnswer(w)
  <2>1. /\ o \in Row /\ accepted[o] > 0 /\ Owns(w, o)
        /\ UNCHANGED <<tables, remote>>
    BY <1>2 DEF AcceptAnswer, At, Owns, IInv, TypeOK, Attempts, AnswerIsTrue, TrueTo
  <2>2. /\ worker'[w].pc \in CommitPc /\ worker'[w].row = o /\ worker'[w].memo = "sending"
        /\ \A v \in Worker \ {w} : worker'[v] = worker[v]
    BY <1>2 DEF AcceptAnswer, LookUpMessage, Goes, CommitPc, IInv, TypeOK
  <2>3. \A p \in Row : /\ Owns(w, p)' => Owns(w, p)
                       /\ worker'[w].row = p => TrueTo(w, p)'
    BY <2>1, <2>2 DEF Owns, TrueTo, At, CommitPc, CopyPc, tables, remote
  <2> QED
    BY <1>0, <2>1, <2>2, <2>3, KeepsStatus, UnchangedKeeps DEF tables, Moves
<1> QED
    BY <1>1, <1>2, ClaimSendInv, SubmitInv, RecordInv, CommitInv DEF SendStep

LEMMA InitInv == Init => IInv
<1> SUFFICES ASSUME Init PROVE IInv
    OBVIOUS
<1>1. OneOwner /\ OwnerIsOpen
    BY DEF Init, OneOwner, OwnerIsOpen, Owns, Idle, CommitPc
<1>2. AnswerIsTrue
    BY DEF Init, AnswerIsTrue, TrueTo, At, Idle, CommitPc, CopyPc
<1>3. RowIsTrue
    BY DEF Init, RowIsTrue, Frozen
<1>4. LockedWhileUnresolved /\ OutcomeIsTrue
    BY DEF Init, LockedWhileUnresolved, OutcomeIsTrue, Frozen
<1> QED
    BY <1>1, <1>2, <1>3, <1>4, InitType DEF IInv, Attempts

LEMMA StepInv == IInv /\ [Next]_vars => IInv' /\ Moves
<1> SUFFICES ASSUME IInv, [Next]_vars PROVE IInv' /\ Moves
    OBVIOUS
<1>1. CASE \E w \in Worker : WorkerStep(w) \/ Crash(w)
    BY <1>1, SendStepInv, CopyStepInv, ReconcileStepInv, CrashInv DEF WorkerStep, Moves
<1>2. CASE \E w \in Worker, o \in Row : SweepStep(w, o)
    BY <1>2, SweepStepInv
<1>3. CASE (\E o \in Row : WorldStep(o)) \/ MapSentFolder
    BY <1>3, WorldInv DEF Moves
<1>4. CASE UNCHANGED vars
  <2>1. TypeOK'
    BY StepType DEF IInv
  <2> QED
    BY <1>4, <2>1, KeepsStatus, UnchangedKeeps DEF vars, remote, Moves
<1> QED
    BY <1>1, <1>2, <1>3, <1>4 DEF Next

(* The argument behind every result below: a submission has one owner, the *)
(* worker whose UPDATE took the row from "queued", and what a worker       *)
(* carries from the relay to the database is what the relay did.           *)
THEOREM Invariant == Spec => []IInv
<1>1. Init => IInv
    BY InitInv
<1>2. IInv /\ [Next]_vars => IInv'
    BY StepInv
<1> QED
    BY <1>1, <1>2, PTL DEF Spec

(* No row opens SMTP twice, for any number of workers, crashes and early   *)
(* expired leases (the claim of executeOutbound).                          *)
THEOREM AtMostOnce == Spec => []SubmittedAtMostOnce
<1>1. IInv => SubmittedAtMostOnce
    BY DEF IInv, Attempts, RowIsTrue, SubmittedAtMostOnce
<1> QED
    BY <1>1, Invariant, PTL

(* The draft is locked exactly while its send has no definitive outcome    *)
(* (recordFailure and commitAcceptance release it, the holds do not).      *)
THEOREM LockFollowsOutcome == Spec => []LockedWhileUnresolved
<1>1. IInv => LockedWhileUnresolved
    BY DEF IInv
<1> QED
    BY <1>1, Invariant, PTL

(* sent and failed say what the relay did, whoever recorded them.          *)
THEOREM OutcomeCorrect == Spec => []OutcomeIsTrue
<1>1. IInv => OutcomeIsTrue
    BY DEF IInv
<1> QED
    BY <1>1, Invariant, PTL

(* What was definitive stays so: no late answer, hold or second append     *)
(* changes a row that is sent or failed, or a Sent copy that is stored.    *)
THEOREM DefinitiveStays == Spec => DefinitiveIsFinal
<1> DEFINE Final == \A o \in Row :
              /\ row[o].status \in {"sent", "failed"} => row'[o].status = row[o].status
              /\ row[o].copy = "stored" => row'[o].copy = "stored"
<1>1. IInv /\ [Next]_vars => [Final]_vars
  <2> SUFFICES ASSUME IInv, Moves PROVE Final
    BY StepInv
  <2>1. CASE RowsKept \/ UNCHANGED <<row, accepted>>
    BY <2>1 DEF RowsKept
  <2>2. CASE SendMoves
    BY <2>2 DEF SendMoves, StatusMoves, Delivers, IInv, Attempts, RowIsTrue
  <2> QED
    BY <2>1, <2>2 DEF Moves
<1> QED
    BY <1>1, Invariant, PTL DEF Spec, DefinitiveIsFinal

(* A step of the rows is a step of the promise, or the owner sees nothing. *)
LEMMA MovesKeepPromise ==
    ASSUME IInv, IInv', Moves
    PROVE  [Promise!Next]_(Promise!vars)
<1> DEFINE answer == [o \in Row |-> Answer(row[o].status)]
           editable == [o \in Row |-> ~row[o].locked]
<1>1. CASE RowsKept \/ UNCHANGED <<row, accepted>>
  <2>1. answer' = answer /\ editable' = editable /\ accepted' = accepted
    BY <1>1 DEF RowsKept
  <2> QED
    BY <2>1 DEF Promise!vars
<1>2. CASE SendMoves
  <2>1. PICK o \in Row :
          \/ StatusMoves(o, {"queued"}, "sending")
          \/ StatusMoves(o, {"sending"}, "outcome_unknown")
          \/ StatusMoves(o, {"sending"}, "failed") /\ accepted[o] = 0
          \/ StatusMoves(o, {"sending", "outcome_unknown"}, "sent") /\ accepted[o] = 1
          \/ Delivers(o)
    BY <1>2 DEF SendMoves
  <2>2. ASSUME NEW from, NEW to \in OutboundStatus, StatusMoves(o, from, to),
               from \subseteq {"queued", "sending", "outcome_unknown"}
        PROVE  /\ answer' = [answer EXCEPT ![o] = Answer(to)]
               /\ editable' = [editable EXCEPT ![o] = (to \in {"sent", "failed"})]
               /\ answer[o] \in {"open", "unknown"} /\ ~editable[o] /\ accepted' = accepted
    <3>1. /\ row'[o].locked \in BOOLEAN /\ (row'[o].locked <=> to \notin {"sent", "failed"})
          /\ row[o].locked = TRUE
          /\ \A p \in Row \ {o} : row'[p] = row[p]
          /\ row'[o].status = to /\ row[o].status \in {"queued", "sending", "outcome_unknown"}
      BY <2>2 DEF StatusMoves, IInv, LockedWhileUnresolved, TypeOK, OutboundRow, OutboundStatus
    <3>2. answer' = [answer EXCEPT ![o] = Answer(to)]
      BY <3>1
    <3>3. editable' = [editable EXCEPT ![o] = (to \in {"sent", "failed"})]
      <4>1. CASE to \in {"sent", "failed"}
        <5>1. row'[o].locked = FALSE /\ (to \in {"sent", "failed"}) = TRUE
          BY <3>1, <4>1
        <5> QED
          BY <3>1, <5>1
      <4>2. CASE to \notin {"sent", "failed"}
        <5>1. row'[o].locked = TRUE /\ (to \in {"sent", "failed"}) = FALSE
          BY <3>1, <4>2
        <5> QED
          BY <3>1, <5>1
      <4> QED
        BY <4>1, <4>2
    <3>4. answer[o] \in {"open", "unknown"} /\ ~editable[o]
      BY <3>1 DEF Answer
    <3> QED
      BY <2>2, <3>2, <3>3, <3>4 DEF StatusMoves
  <2>3. CASE StatusMoves(o, {"queued"}, "sending")
    <3>1. answer' = answer /\ editable' = editable /\ accepted' = accepted
      BY <2>2, <2>3 DEF StatusMoves, Answer, OutboundStatus
    <3> QED
      BY <3>1 DEF Promise!vars
  <2>4. CASE StatusMoves(o, {"sending"}, "outcome_unknown")
    <3>1. Promise!LoseTrack(o)
      BY <2>2, <2>4 DEF StatusMoves, Answer, OutboundStatus, Promise!LoseTrack
    <3> QED
      BY <3>1 DEF Promise!Next
  <2>5. CASE StatusMoves(o, {"sending"}, "failed") /\ accepted[o] = 0
    <3>1. Promise!AnswerFailed(o)
      BY <2>2, <2>5
      DEF StatusMoves, Answer, OutboundStatus, Promise!AnswerFailed, Promise!Conclude
    <3> QED
      BY <3>1 DEF Promise!Next
  <2>6. CASE StatusMoves(o, {"sending", "outcome_unknown"}, "sent") /\ accepted[o] = 1
    <3>1. Promise!AnswerSent(o)
      BY <2>2, <2>6
      DEF StatusMoves, Answer, OutboundStatus, Promise!AnswerSent, Promise!Conclude
    <3> QED
      BY <3>1 DEF Promise!Next
  <2>7. CASE Delivers(o)
    <3>1. Promise!Deliver(o)
      BY <2>7 DEF Delivers, Answer, Promise!Deliver
    <3> QED
      BY <3>1 DEF Promise!Next
  <2> QED
    BY <2>1, <2>3, <2>4, <2>5, <2>6, <2>7
<1> QED
    BY <1>1, <1>2 DEF Moves

(* The execution of sends implements SendPromise: whatever the workers,    *)
(* the sweeps, the mail server and the crashes do, the owner sees one      *)
(* delivery at most, a true and final answer, and the draft freed with it. *)
THEOREM PromiseKept == Spec => KeepsPromise
<1>1. Init => Promise!Init
  <2> SUFFICES ASSUME Init PROVE Promise!Init
    OBVIOUS
  <2>1. \A o \in Row : Answer(row[o].status) = "open" /\ row[o].locked = TRUE
    BY DEF Init, Frozen, Answer
  <2> QED
    BY <2>1 DEF Init, Promise!Init
<1>2. IInv /\ IInv' /\ [Next]_vars => [Promise!Next]_(Promise!vars)
    BY StepInv, MovesKeepPromise
<1> QED
    BY <1>1, <1>2, Invariant, PTL DEF Spec, KeepsPromise, Promise!Spec

-----------------------------------------------------------------------------
(* Copies.  What a worker carries as proof of a copy is backed by one in   *)
(* the Sent folder: a conclusion "stored", a positive answer without       *)
(* coordinates, a verified copy that settles an unknown outcome.           *)

Carrying(pc, memo) ==
    \/ pc = "concluding" /\ memo = "stored"
    \/ pc = "appended" /\ memo = "no_coordinates"
    \/ pc \in CommitPc /\ memo = "outcome_unknown"

Backed(x, in) == Carrying(x.pc, x.memo) => in[x.row] > 0

CopyInv ==
    /\ MessageHasProof /\ StoredIsInFolder
    /\ \A w \in Worker : Backed(worker[w], copies)

(* What every step must respect.                                           *)
CopiesGrow == \A o \in Row : copies[o] > 0 => copies'[o] > 0

RowsBacked ==
    \A o \in Row :
        /\ row[o].status = "sent" => row'[o].status = "sent"
        /\ message'[o] => message[o] \/ row'[o].status = "sent" \/ copies'[o] > 0
        /\ row'[o].copy = "stored" => row[o].copy = "stored" \/ copies'[o] > 0

WorkersBacked == \A w \in Worker : worker'[w] = worker[w] \/ Backed(worker'[w], copies')

LEMMA CopiesKept ==
    ASSUME IInv, CopyInv, CopiesGrow, RowsBacked, WorkersBacked
    PROVE  CopyInv'
<1>1. MessageHasProof' /\ StoredIsInFolder'
    BY DEF CopyInv, CopiesGrow, RowsBacked, MessageHasProof, StoredIsInFolder
<1>2. ASSUME NEW w \in Worker PROVE Backed(worker'[w], copies')
  <2>1. CASE worker'[w] = worker[w]
    <3>1. Carrying(worker[w].pc, worker[w].memo) => worker[w].row \in Row
      BY DEF Carrying, CommitPc, IInv, TypeOK
    <3> QED
      BY <2>1, <3>1 DEF CopyInv, CopiesGrow, Backed
  <2> QED
    BY <2>1 DEF WorkersBacked
<1> QED
    BY <1>1, <1>2 DEF CopyInv

(* A worker that carries no proof, or one that it has, is backed.          *)
LEMMA GoesBacked ==
    ASSUME TypeOK, NEW w \in Worker,
           \/ UNCHANGED worker \/ Ends(w) \/ Throws(w)
           \/ \E pc, memo, o : /\ Begins(w, pc, o, memo) /\ ~Carrying(pc, memo)
           \/ \E pc, memo : /\ Goes(w, pc, memo)
                            /\ Carrying(pc, memo) => copies'[worker[w].row] > 0
    PROVE  WorkersBacked
<1>1. ~Carrying("idle", "none") /\ ~Carrying("threw", "none")
    BY DEF Carrying, CommitPc
<1>2. CASE UNCHANGED worker
    BY <1>2 DEF WorkersBacked
<1>3. CASE Ends(w)
    BY <1>1, <1>3 DEF Ends, Idle, TypeOK, WorkersBacked, Backed
<1>4. CASE Throws(w)
    BY <1>1, <1>4 DEF Throws, Goes, TypeOK, WorkersBacked, Backed
<1>5. CASE \E pc, memo, o : Begins(w, pc, o, memo) /\ ~Carrying(pc, memo)
    BY <1>5 DEF Begins, TypeOK, WorkersBacked, Backed
<1>6. CASE \E pc, memo : /\ Goes(w, pc, memo)
                         /\ Carrying(pc, memo) => copies'[worker[w].row] > 0
    BY <1>6 DEF Goes, TypeOK, WorkersBacked, Backed
<1> QED
    BY <1>2, <1>3, <1>4, <1>5, <1>6

(* A row that is sent stays sent: every step is one of those of Moves.     *)
LEMMA SentStays ==
    ASSUME IInv, Moves, NEW o \in Row, row[o].status = "sent"
    PROVE  row'[o].status = "sent"
<1>1. CASE RowsKept \/ UNCHANGED <<row, accepted>>
    BY <1>1 DEF RowsKept
<1>2. CASE SendMoves
    BY <1>2 DEF SendMoves, StatusMoves, Delivers
<1> QED
    BY <1>1, <1>2 DEF Moves

(* A step that stores no message and calls no copy stored.                 *)
LEMMA NothingStored ==
    ASSUME IInv, CopyInv, Moves, CopiesGrow, UNCHANGED message, WorkersBacked,
           \A o \in Row : row'[o].copy = "stored" => row[o].copy = "stored" \/ copies'[o] > 0
    PROVE  CopyInv'
<1>1. RowsBacked
    BY SentStays DEF RowsBacked
<1> QED
    BY <1>1, CopiesKept

LEMMA SendStepCopies ==
    ASSUME IInv, CopyInv, Moves, NEW w \in Worker, SendStep(w)
    PROVE  CopyInv'
<1> DEFINE o == worker[w].row
<1>1. UNCHANGED copies /\ CopiesGrow
    BY DEF SendStep, ClaimSend, FailLocally, Submit, RecordFailure, RecordUnknown,
           AcceptAnswer, CommitAcceptance, tables, remote, CopiesGrow
<1>2. TypeOK /\ o \in Row
    BY DEF IInv, TypeOK, SendStep, ClaimSend, FailLocally, Submit, RecordFailure,
           RecordUnknown, AcceptAnswer, CommitAcceptance, At, CommitPc
<1>3. CASE ClaimSend(w)
  <2>1. ~Carrying("claimed", "none")
    BY DEF Carrying, CommitPc
  <2>2. WorkersBacked
    BY <1>2, <1>3, <2>1, GoesBacked DEF ClaimSend
  <2>3. \A p \in Row : row'[p].copy = row[p].copy
    BY <1>2, <1>3 DEF ClaimSend, TypeOK, OutboundRow
  <2> QED
    BY <1>1, <1>3, <2>2, <2>3, NothingStored DEF ClaimSend
<1>4. CASE FailLocally(w) \/ Submit(w)
  <2>1. \A memo : ~Carrying("answered", memo)
    BY DEF Carrying, CommitPc
  <2>2. WorkersBacked
    BY <1>2, <1>4, <2>1, GoesBacked DEF FailLocally, Submit
  <2> QED
    BY <1>1, <1>4, <2>2, NothingStored DEF FailLocally, Submit, tables
<1>5. CASE RecordFailure(w) \/ RecordUnknown(w)
  <2>1. WorkersBacked
    BY <1>2, <1>5, GoesBacked DEF RecordFailure, RecordUnknown
  <2>2. Failed(row[o]).copy = row[o].copy
    BY <1>2 DEF Failed, TypeOK, OutboundRow
  <2>3. \A p \in Row : row'[p].copy = row[p].copy
    <3>1. CASE RecordFailure(w)
      <4>1. row' = [row EXCEPT ![o] = Failed(row[o])]
        BY <3>1 DEF RecordFailure
      <4> QED
        BY <1>2, <2>2, <4>1 DEF TypeOK
    <3>2. CASE RecordUnknown(w)
      BY <1>2, <3>2 DEF RecordUnknown, TypeOK, OutboundRow
    <3> QED
      BY <1>5, <3>1, <3>2
  <2> QED
    BY <1>1, <1>5, <2>1, <2>3, NothingStored DEF RecordFailure, RecordUnknown
<1>6. CASE AcceptAnswer(w)
  <2>1. \A pc : ~Carrying(pc, "sending")
    BY DEF Carrying
  <2>2. WorkersBacked
    BY <1>2, <1>6, <2>1, GoesBacked DEF AcceptAnswer, LookUpMessage
  <2> QED
    BY <1>1, <1>6, <2>2, NothingStored DEF AcceptAnswer, tables
<1>7. CASE CommitAcceptance(w)
  <2>1. WorkersBacked
    BY <1>2, <1>7, GoesBacked DEF CommitAcceptance
  <2>2. CASE UNCHANGED <<row, message>>
    BY <1>1, <2>1, <2>2, NothingStored
  <2>3. CASE ~UNCHANGED <<row, message>>
    <3> DEFINE from == worker[w].memo
               r == AcceptedRow(row[o], from)
    <3>1. /\ row' = [row EXCEPT ![o] = r]
          /\ message' = [message EXCEPT ![o] = TRUE] /\ worker[w].pc \in CommitPc
      BY <1>7, <2>3 DEF CommitAcceptance, AcceptOrRollBack
    <3>2. r.status = "sent" /\ (r.copy = "stored" => row[o].copy = "stored" \/ from = "outcome_unknown")
      BY <1>2 DEF AcceptedRow, TypeOK, OutboundRow
    <3>3. from = "outcome_unknown" => copies[o] > 0
      BY <3>1 DEF CopyInv, Backed, Carrying
    <3> HIDE DEF r
    <3>4. RowsBacked
      BY <1>1, <1>2, <3>1, <3>2, <3>3 DEF RowsBacked, TypeOK
    <3> QED
      BY <1>1, <2>1, <3>4, CopiesKept
  <2> QED
    BY <2>2, <2>3
<1> QED
    BY <1>3, <1>4, <1>5, <1>6, <1>7 DEF SendStep

LEMMA CopyStepCopies ==
    ASSUME IInv, CopyInv, Moves, NEW w \in Worker, CopyStep(w)
    PROVE  CopyInv'
<1> DEFINE o == worker[w].row
<1>1. TypeOK /\ o \in Row /\ Backed(worker[w], copies)
    BY CopyStepRow DEF IInv, CopyInv
<1>2. \A pc \in {"folder", "no_folder", "opened", "absent"} : \A memo : ~Carrying(pc, memo)
    BY DEF Carrying, CommitPc
<1>3. CASE FindSentFolder(w)
  <2>1. WorkersBacked
    BY <1>1, <1>2, <1>3, GoesBacked DEF FindSentFolder
  <2> QED
    BY <1>3, <2>1, NothingStored DEF FindSentFolder, tables, remote, CopiesGrow
<1>4. CASE ClaimAppend(w)
  <2>1. WorkersBacked
    BY <1>1, <1>2, <1>4, GoesBacked DEF ClaimAppend
  <2>2. \A p \in Row : row'[p].copy = "stored" => row[p].copy = "stored"
    BY <1>1, <1>4 DEF ClaimAppend, TypeOK, OutboundRow
  <2> QED
    BY <1>4, <2>1, <2>2, NothingStored DEF ClaimAppend, remote, CopiesGrow
<1>5. CASE SessionFails(w)
  <2>1. ~Carrying("concluding", "unknown")
    BY DEF Carrying, CommitPc
  <2>2. WorkersBacked
    BY <1>1, <1>5, <2>1, GoesBacked DEF SessionFails
  <2> QED
    BY <1>5, <2>2, NothingStored DEF SessionFails, tables, remote, CopiesGrow
<1>6. CASE LocateFirst(w)
  <2>1. ~Carrying("concluding", "unknown")
    BY DEF Carrying, CommitPc
  <2>2. \E pc, memo : /\ Goes(w, pc, memo)
                      /\ Carrying(pc, memo) => copies[o] > 0
    <3>1. PICK e \in Evidence(o) :
                CASE e = "verified" -> Goes(w, "concluding", "stored")
                  [] e = "conflict" -> Goes(w, "concluding", "unknown")
                  [] e = "absent" -> Goes(w, "absent", "none")
      BY <1>6 DEF LocateFirst
    <3>2. CASE e = "verified"
      BY <3>1, <3>2 DEF Evidence
    <3>3. CASE e = "conflict"
      BY <2>1, <3>1, <3>3
    <3>4. CASE e = "absent"
      BY <1>2, <3>1, <3>4
    <3> QED
      BY <3>2, <3>3, <3>4 DEF Evidence
  <2>3. UNCHANGED <<row, message, copies>>
    BY <1>6 DEF LocateFirst, tables, remote
  <2>4. WorkersBacked
    BY <1>1, <2>2, <2>3, GoesBacked
  <2> QED
    BY <2>3, <2>4, NothingStored DEF CopiesGrow
<1>7. CASE AppendMessage(w)
  <2>0. PICK answer \in AppendAnswer : \E stored \in StoresCopy(answer) :
            /\ copies' = IF stored THEN [copies EXCEPT ![o] = @ + 1] ELSE copies
            /\ CASE answer = "rejected" -> Goes(w, "concluding", "failed")
                 [] answer = "coordinates" -> Goes(w, "concluding", "stored")
                 [] OTHER -> Goes(w, "appended", answer)
    BY <1>7 DEF AppendMessage
  <2>1. PICK stored \in StoresCopy(answer) :
            /\ copies' = IF stored THEN [copies EXCEPT ![o] = @ + 1] ELSE copies
            /\ CASE answer = "rejected" -> Goes(w, "concluding", "failed")
                 [] answer = "coordinates" -> Goes(w, "concluding", "stored")
                 [] OTHER -> Goes(w, "appended", answer)
    BY <2>0
  <2>2. CopiesGrow /\ (stored => copies'[o] > 0)
    BY <1>1, <2>1 DEF TypeOK, CopiesGrow
  <2>3. answer \in {"coordinates", "no_coordinates"} => copies'[o] > 0
    BY <2>2 DEF StoresCopy
  <2>4. ~Carrying("concluding", "failed") /\ ~Carrying("appended", "uncertain")
    BY DEF Carrying, CommitPc
  <2>5. WorkersBacked
    <3>1. CASE answer = "rejected"
      BY <1>1, <2>1, <2>4, <3>1, GoesBacked
    <3>2. CASE answer = "coordinates"
      BY <1>1, <2>1, <2>3, <3>2, GoesBacked
    <3>3. CASE answer \in {"no_coordinates", "uncertain"}
      BY <1>1, <2>1, <2>3, <2>4, <3>3, GoesBacked
    <3> QED
      BY <3>1, <3>2, <3>3 DEF AppendAnswer
  <2> QED
    BY <1>7, <2>2, <2>5, NothingStored DEF AppendMessage, tables
<1>8. CASE LocateAgain(w)
  <2>1. ~Carrying("concluding", "unknown") /\ worker[w].pc = "appended"
    BY <1>8 DEF Carrying, CommitPc, LocateAgain, At
  <2>2. PICK e \in Evidence(o) :
            Goes(w, "concluding",
                 CASE e = "verified" -> "stored"
                   [] e = "conflict" -> "unknown"
                   [] e = "absent" -> AbsentAfterAppend(worker[w].memo))
    BY <1>8 DEF LocateAgain
  <2>3. UNCHANGED <<row, message, copies>>
    BY <1>8 DEF LocateAgain, tables, remote
  <2>4. WorkersBacked
    <3>1. CASE e = "verified"
      BY <1>1, <2>2, <2>3, <3>1, GoesBacked DEF Evidence
    <3>2. CASE e = "conflict"
      BY <1>1, <2>1, <2>2, <3>2, GoesBacked
    <3>3. CASE e = "absent"
      <4>1. worker[w].memo = "no_coordinates" => copies[o] > 0
        BY <1>1, <2>1 DEF Backed, Carrying
      <4>2. \/ Goes(w, "concluding", "stored") /\ worker[w].memo = "no_coordinates"
            \/ Goes(w, "concluding", "unknown")
        BY <2>2, <3>3 DEF AbsentAfterAppend
      <4> QED
        BY <1>1, <2>1, <2>3, <4>1, <4>2, GoesBacked
    <3> QED
      BY <3>1, <3>2, <3>3 DEF Evidence
  <2> QED
    BY <2>3, <2>4, NothingStored DEF CopiesGrow
<1>9. CASE ConcludeUnclaimed(w) \/ ConcludeClaimed(w)
  <2> DEFINE outcome == IF ConcludeUnclaimed(w) THEN "failed" ELSE worker[w].memo
             r == ConcludedRow(row[o], outcome, ConcludeUnclaimed(w))
  <2>1. row' = row \/ row' = [row EXCEPT ![o] = r]
    BY <1>9 DEF ConcludeUnclaimed, ConcludeClaimed, At
  <2>2. r.copy = outcome
    BY <1>1 DEF ConcludedRow, TypeOK, OutboundRow
  <2>3. outcome = "stored" => copies[o] > 0
    BY <1>1, <1>9 DEF ConcludeClaimed, At, Backed, Carrying
  <2>4. UNCHANGED <<message, copies>> /\ Ends(w)
    BY <1>9 DEF ConcludeUnclaimed, ConcludeClaimed, remote
  <2> HIDE DEF outcome, r
  <2>5. \A p \in Row : row'[p].copy = "stored" => row[p].copy = "stored" \/ copies'[p] > 0
    BY <1>1, <2>1, <2>2, <2>3, <2>4 DEF TypeOK
  <2>6. WorkersBacked
    BY <1>1, <2>4, GoesBacked
  <2> QED
    BY <2>4, <2>5, <2>6, NothingStored DEF CopiesGrow
<1>10. CASE HoldAppend(w)
  <2>1. WorkersBacked
    BY <1>1, <1>10, GoesBacked DEF HoldAppend
  <2>2. \A p \in Row : row'[p].copy = "stored" => row[p].copy = "stored"
    BY <1>1, <1>10 DEF HoldAppend, TypeOK, OutboundRow
  <2> QED
    BY <1>10, <2>1, <2>2, NothingStored DEF HoldAppend, remote, CopiesGrow
<1> QED
    BY <1>3, <1>4, <1>5, <1>6, <1>7, <1>8, <1>9, <1>10 DEF CopyStep

LEMMA ReconcileStepCopies ==
    ASSUME IInv, CopyInv, Moves, NEW w \in Worker, ReconcileStep(w)
    PROVE  CopyInv'
<1> DEFINE o == worker[w].row
<1>1. TypeOK /\ o \in Row /\ UNCHANGED <<message, copies>> /\ CopiesGrow
    BY DEF IInv, TypeOK, ReconcileStep, Search, SearchThrows, NoteReconcilePass, At,
           tables, remote, CopiesGrow
<1>2. CASE Search(w)
  <2>1. PICK e \in Evidence(o) :
            IF Proves(e) THEN LookUpMessage(w, "outcome_unknown")
                         ELSE Goes(w, "noting", "none")
    BY <1>2 DEF Search
  <2>2. ~Carrying("noting", "none")
    BY DEF Carrying, CommitPc
  <2>3. CASE Proves(e)
    <3>1. copies[o] > 0
      BY <2>3 DEF Proves, Evidence
    <3>2. WorkersBacked
      BY <1>1, <2>1, <2>3, <3>1, GoesBacked DEF LookUpMessage
    <3> QED
      BY <1>1, <1>2, <3>2, NothingStored DEF Search, tables
  <2>4. CASE ~Proves(e)
    <3>1. WorkersBacked
      BY <1>1, <2>1, <2>2, <2>4, GoesBacked
    <3> QED
      BY <1>1, <1>2, <3>1, NothingStored DEF Search, tables
  <2> QED
    BY <2>3, <2>4
<1>3. CASE SearchThrows(w)
  <2>1. WorkersBacked
    BY <1>1, <1>3, GoesBacked DEF SearchThrows
  <2> QED
    BY <1>1, <1>3, <2>1, NothingStored DEF SearchThrows, tables
<1>4. CASE NoteReconcilePass(w)
  <2>1. WorkersBacked
    BY <1>1, <1>4, GoesBacked DEF NoteReconcilePass
  <2>2. \A p \in Row : row'[p].copy = row[p].copy
    BY <1>1, <1>4 DEF NoteReconcilePass, TypeOK, OutboundRow
  <2> QED
    BY <1>1, <2>1, <2>2, NothingStored
<1> QED
    BY <1>2, <1>3, <1>4 DEF ReconcileStep

LEMMA SweepStepCopies ==
    ASSUME IInv, CopyInv, Moves, NEW w \in Worker, NEW o \in Row, SweepStep(w, o)
    PROVE  CopyInv'
<1>1. TypeOK /\ UNCHANGED <<message, copies>> /\ CopiesGrow
    BY DEF IInv, SweepStep, ReadQueued, ReadDue, ReadUnknown, HoldSend,
           ReadAbandonedAppend, tables, remote, CopiesGrow
<1>2. \A pc \in {"read_queued", "read_due", "searching", "holding"} : \A memo : ~Carrying(pc, memo)
    BY DEF Carrying, CommitPc
<1>3. WorkersBacked
    BY <1>1, <1>2, GoesBacked DEF SweepStep, ReadQueued, ReadDue, ReadUnknown, HoldSend,
                                  ReadAbandonedAppend
<1>4. \A p \in Row : row'[p].copy = row[p].copy
  <2>1. CASE UNCHANGED row
    BY <2>1
  <2>2. CASE HoldSend(w, o)
    BY <1>1, <2>2 DEF HoldSend, HeldSend, TypeOK, OutboundRow
  <2> QED
    BY <2>1, <2>2 DEF SweepStep, ReadQueued, ReadDue, ReadUnknown, ReadAbandonedAppend, tables
<1> QED
    BY <1>1, <1>3, <1>4, NothingStored

LEMMA WorldCopies ==
    ASSUME IInv, CopyInv, Moves, (\E o \in Row : WorldStep(o)) \/ MapSentFolder
    PROVE  CopyInv'
<1>1. TypeOK /\ WorkersBacked
    BY DEF IInv, WorldStep, SendLeaseExpires, AppendLeaseExpires, ProviderStoresCopy,
           ImportSent, MapSentFolder, WorkersBacked
<1>2. CASE MapSentFolder
    BY <1>1, <1>2, NothingStored DEF MapSentFolder, remote, CopiesGrow
<1>3. ASSUME NEW o \in Row, SendLeaseExpires(o) \/ AppendLeaseExpires(o)
      PROVE  CopyInv'
  <2>1. \A p \in Row : row'[p].copy = row[p].copy
    BY <1>1, <1>3 DEF SendLeaseExpires, AppendLeaseExpires, TypeOK, OutboundRow
  <2> QED
    BY <1>1, <1>3, <2>1, NothingStored
    DEF SendLeaseExpires, AppendLeaseExpires, remote, CopiesGrow
<1>4. ASSUME NEW o \in Row, ProviderStoresCopy(o) PROVE CopyInv'
  <2>1. CopiesGrow
    BY <1>1, <1>4 DEF ProviderStoresCopy, CopiesGrow, TypeOK
  <2> QED
    BY <1>1, <1>4, <2>1, NothingStored DEF ProviderStoresCopy, tables
<1>5. ASSUME NEW o \in Row, ImportSent(o) PROVE CopyInv'
  <2>1. CopiesGrow /\ RowsBacked
    BY <1>1, <1>5, SentStays DEF ImportSent, remote, CopiesGrow, RowsBacked, TypeOK
  <2> QED
    BY <1>1, <2>1, CopiesKept
<1> QED
    BY <1>2, <1>3, <1>4, <1>5 DEF WorldStep

LEMMA CopyInvStep == IInv /\ CopyInv /\ [Next]_vars => CopyInv'
<1> SUFFICES ASSUME IInv, CopyInv, [Next]_vars PROVE CopyInv'
    OBVIOUS
<1>1. Moves /\ TypeOK
    BY StepInv DEF IInv
<1>2. ASSUME NEW w \in Worker, Recover(w) \/ Crash(w) PROVE CopyInv'
  <2>1. WorkersBacked
    BY <1>1, <1>2, GoesBacked DEF Recover, Crash
  <2> QED
    BY <1>1, <1>2, <2>1, NothingStored DEF Recover, Crash, tables, remote, CopiesGrow
<1>3. CASE UNCHANGED vars
    BY <1>1, <1>3, NothingStored DEF vars, CopiesGrow, WorkersBacked
<1> QED
    BY <1>1, <1>2, <1>3, SendStepCopies, CopyStepCopies, ReconcileStepCopies,
       SweepStepCopies, WorldCopies DEF Next, WorkerStep

(* What is stored has its cause, for any number of workers and rows: a     *)
(* local message has a sent row or a copy in the Sent folder, and a copy   *)
(* called stored is in the folder, although appends of one row overlap     *)
(* (commitAcceptance, concludeSentCopy, locateVerifiedCopy).               *)
THEOREM CopiesStayBacked == Spec => []CopiesAreBacked
<1>1. Init => CopyInv
    BY DEF Init, CopyInv, MessageHasProof, StoredIsInFolder, Frozen, Idle, Backed, Carrying,
           CommitPc
<1>2. CopyInv => CopiesAreBacked
    BY DEF CopyInv, CopiesAreBacked
<1> QED
    BY <1>1, <1>2, CopyInvStep, Invariant, PTL DEF Spec

-----------------------------------------------------------------------------
(* The compose dialog.  A press is answered in the editor it was made in,  *)
(* which keeps the flag of the press from draft to draft; an editor that   *)
(* goes away takes its requests with it.                                   *)

CallFields == {"kind", "draft", "prop", "adopt", "shown", "newest", "alive"}
DialogFields ==
    {"draft", "locked", "fields", "saver", "target", "uncertain", "sending", "inFlight"}

CallsOK(C) == \A c \in C : DOMAIN c = CallFields

(* A send whose answer still matters has its editor on screen.             *)
Pressed(c) == c.kind = "send" /\ c.alive
SendsOK(C, e, m) ==
    /\ \A c \in C : Pressed(c) => e.inFlight /\ m
    /\ \A c, d \in C : Pressed(c) /\ Pressed(d) => c = d

(* No creation on its way may move the dialog.                             *)
Quiet(C) == \A c \in C : c.kind \in Dialog!Creation => ~c.newest

DialogInv ==
    /\ DOMAIN surface = {"open", "active", "choosing"} /\ DOMAIN editor = DialogFields
    /\ CallsOK(calls) /\ SendsOK(calls, editor, Dialog!Mounted)
    /\ asked.what = "draft" => surface.active = asked.draft /\ Quiet(calls)

LEMMA DialogAlone == [OwnerNext]_ownerVars => [Dialog!Next]_dialogVars
BY DEF OwnerNext, OutboundMoves, DialogMoves, ownerVars

LEMMA DialogBegins == Dialog!Init => DialogInv
BY DEF Dialog!Init, DialogInv, Dialog!NoEditor, DialogFields, CallsOK, SendsOK, Quiet

LEMMA NewCallOK ==
    ASSUME NEW kind, NEW d
    PROVE  /\ DOMAIN Dialog!NewCall(kind, d) = CallFields
           /\ Dialog!NewCall(kind, d).kind = kind
           /\ Dialog!NewCall(kind, d).newest = (kind \in Dialog!Creation)
           /\ Dialog!NewCall(kind, d).alive = (kind \notin Dialog!Creation)
BY DEF Dialog!NewCall, CallFields

LEMMA ReadOK ==
    ASSUME NEW d, NEW adopt
    PROVE  /\ DOMAIN Dialog!Read(d, adopt) = CallFields /\ Dialog!Read(d, adopt).kind = "load"
           /\ ~Pressed(Dialog!Read(d, adopt)) /\ "load" \notin Dialog!Creation
<1> DEFINE new == Dialog!NewCall("load", d)
<1>1. DOMAIN new = CallFields /\ new.kind = "load"
    BY NewCallOK
<1> HIDE DEF new
<1>2. Dialog!Read(d, adopt) = [new EXCEPT !.adopt = adopt]
    BY DEF Dialog!Read, new
<1>3. QED BY <1>1, <1>2 DEF CallFields, Pressed, Dialog!Creation

LEMMA UnmountedOK ==
    ASSUME NEW C, CallsOK(C)
    PROVE  /\ CallsOK(Dialog!Unmounted(C)) /\ \A e, m : SendsOK(Dialog!Unmounted(C), e, m)
           /\ Quiet(C) => Quiet(Dialog!Unmounted(C))
<1>1. ASSUME NEW d \in Dialog!Unmounted(C)
      PROVE  DOMAIN d = CallFields /\ ~d.alive /\ (Quiet(C) /\ d.kind \in Dialog!Creation => ~d.newest)
    <2>1. PICK c \in C : d = [c EXCEPT !.alive = FALSE]
        BY DEF Dialog!Unmounted
    <2>2. DOMAIN d = CallFields /\ d.alive = FALSE /\ d.kind = c.kind /\ d.newest = c.newest
        BY <2>1 DEF CallsOK, CallFields
    <2>3. QED BY <2>2 DEF Quiet
<1>2. QED BY <1>1 DEF CallsOK, SendsOK, Pressed, Quiet

LEMMA MovedOK ==
    ASSUME NEW C, NEW e, NEW m, CallsOK(C), SendsOK(C, e, m)
    PROVE  /\ CallsOK(Dialog!Moved(C)) /\ SendsOK(Dialog!Moved(C), e, m) /\ Quiet(Dialog!Moved(C))
<1>1. ASSUME NEW c \in C
      PROVE  LET d == [c EXCEPT !.newest = FALSE]
             IN  DOMAIN d = CallFields /\ d.newest = FALSE /\ d.kind = c.kind /\ d.alive = c.alive
    BY DEF CallsOK, CallFields
<1>2. \A d \in Dialog!Moved(C) : \E c \in C : d = [c EXCEPT !.newest = FALSE]
    BY DEF Dialog!Moved
<1>3. ASSUME NEW x \in Dialog!Moved(C), NEW y \in Dialog!Moved(C), Pressed(x), Pressed(y)
      PROVE  x = y /\ e.inFlight /\ m
    <2>1. PICK c \in C, d \in C : x = [c EXCEPT !.newest = FALSE] /\ y = [d EXCEPT !.newest = FALSE]
        BY <1>2
    <2>2. Pressed(c) /\ Pressed(d)
        BY <1>1, <1>3, <2>1 DEF Pressed
    <2>3. QED BY <2>1, <2>2 DEF SendsOK
<1>4. CallsOK(Dialog!Moved(C)) /\ Quiet(Dialog!Moved(C))
    BY <1>1, <1>2 DEF CallsOK, Quiet
<1>5. QED BY <1>3, <1>4 DEF SendsOK

(* A change of the dialog, from what is left of the requests on the way.   *)
LEMMA ShowsOK ==
    ASSUME DialogInv, NEW next, NEW C, DOMAIN next = {"open", "active", "choosing"},
           CallsOK(C), SendsOK(C, editor, Dialog!Mounted), Dialog!Shows(next, C),
           asked'.what = "draft" => next.active = asked'.draft /\ Quiet(C)
    PROVE  DialogInv'
<1> DEFINE read == Dialog!Read(next.active, TRUE)
<1>1. /\ DOMAIN read = CallFields /\ read.kind = "load" /\ ~Pressed(read)
      /\ "load" \notin Dialog!Creation
    BY ReadOK
<1> HIDE DEF read
<1>2. surface' = next /\ (Dialog!Mounted' <=> Dialog!Mounts(next))
    BY DEF Dialog!Shows, Dialog!Mounted, Dialog!Mounts
<1>3. CASE Dialog!Stays(next)
    <2>1. editor' = editor /\ calls' = C /\ Dialog!Mounts(next)
        BY <1>3 DEF Dialog!Shows, Dialog!Stays
    <2>2. SendsOK(calls', editor', Dialog!Mounted')
        BY <1>2, <2>1 DEF SendsOK
    <2>3. QED BY <1>2, <2>1, <2>2 DEF DialogInv, CallsOK, SendsOK, Quiet
<1>4. CASE ~Dialog!Stays(next) /\ Dialog!Mounts(next)
    <2>1. /\ calls' = C \cup {read}
          /\ editor' = IF Dialog!Mounted THEN Dialog!Switched(editor) ELSE Dialog!NoEditor
        BY <1>4 DEF Dialog!Shows, read
    <2>2. DOMAIN editor' = DialogFields /\ (Dialog!Mounted => editor'.inFlight = editor.inFlight)
        BY <2>1 DEF DialogInv, DialogFields, Dialog!Switched, Dialog!NoEditor
    <2>3. CallsOK(calls') /\ SendsOK(calls', editor', Dialog!Mounted')
        BY <1>1, <1>2, <1>4, <2>1, <2>2 DEF CallsOK, SendsOK
    <2>4. Quiet(C) => Quiet(calls')
        BY <1>1, <2>1 DEF Quiet
    <2>5. QED BY <1>2, <2>2, <2>3, <2>4 DEF DialogInv, CallsOK, SendsOK, Quiet
<1>5. CASE ~Dialog!Stays(next) /\ ~Dialog!Mounts(next)
    <2>1. calls' = Dialog!Unmounted(C) /\ editor' = Dialog!NoEditor
        BY <1>5 DEF Dialog!Shows
    <2>2. DOMAIN editor' = DialogFields
        BY <2>1 DEF DialogFields, Dialog!NoEditor
    <2>3. CallsOK(calls') /\ SendsOK(calls', editor', Dialog!Mounted') /\ (Quiet(C) => Quiet(calls'))
        BY <2>1, UnmountedOK
    <2>4. QED BY <1>2, <2>2, <2>3 DEF DialogInv, CallsOK, SendsOK, Quiet
<1>6. QED BY <1>3, <1>4, <1>5

(* What the owner asks of the dialog himself.                              *)
LEMMA NavigationOK ==
    ASSUME DialogInv,
           \/ \E d \in Dialog!Draft \cup {Dialog!None} : Dialog!OpenDraft(d)
           \/ Dialog!handleOpenChange \/ \E kind \in {"new", "reply"} : Dialog!startIntent(kind)
           \/ Dialog!PickChoice \/ Dialog!CancelChoice
    PROVE  DialogInv'
<1>1. /\ CallsOK(Dialog!Moved(calls)) /\ SendsOK(Dialog!Moved(calls), editor, Dialog!Mounted)
      /\ Quiet(Dialog!Moved(calls))
    BY MovedOK DEF DialogInv
<1>2. ASSUME NEW kind \in {"new", "reply"}
      PROVE  LET C == Dialog!Moved(calls) \cup {Dialog!NewCall(kind, Dialog!None)}
             IN  CallsOK(C) /\ SendsOK(C, editor, Dialog!Mounted)
    <2>1. PICK c : c = Dialog!NewCall(kind, Dialog!None)
        OBVIOUS
    <2>2. DOMAIN c = CallFields /\ c.kind = kind
        BY <2>1, NewCallOK
    <2>3. ~Pressed(c)
        BY <2>2 DEF Pressed
    <2>4. QED BY <1>1, <2>1, <2>2, <2>3 DEF CallsOK, SendsOK
<1>3. ASSUME NEW d, Dialog!OpenDraft(d) PROVE DialogInv'
    <2>1. /\ Dialog!Shows([open |-> TRUE, active |-> d, choosing |-> FALSE], Dialog!Moved(calls))
          /\ asked' = [what |-> "draft", draft |-> d]
        BY <1>3 DEF Dialog!OpenDraft, Dialog!Goes, Dialog!Asks
    <2>2. QED BY <1>1, <2>1, ShowsOK
<1>4. CASE Dialog!handleOpenChange
    <2>1. /\ Dialog!Shows([open |-> FALSE, active |-> Dialog!None, choosing |-> FALSE],
                          Dialog!Moved(calls))
          /\ asked' = [what |-> "draft", draft |-> Dialog!None]
        BY <1>4 DEF Dialog!handleOpenChange, Dialog!Goes, Dialog!Asks
    <2>2. QED BY <1>1, <2>1, ShowsOK
<1>5. ASSUME NEW kind \in {"new", "reply"}, Dialog!startIntent(kind) PROVE DialogInv'
    <2>1. /\ Dialog!Shows([open |-> TRUE, active |-> Dialog!None, choosing |-> FALSE],
                          Dialog!Moved(calls) \cup {Dialog!NewCall(kind, Dialog!None)})
          /\ asked' = [what |-> "creation", draft |-> Dialog!None]
        BY <1>5 DEF Dialog!startIntent, Dialog!Goes, Dialog!Asks
    <2>2. QED BY <1>2, <2>1, ShowsOK
<1>6. CASE Dialog!PickChoice
    <2>1. PICK next : next = [surface EXCEPT !.choosing = FALSE]
        OBVIOUS
    <2>2. /\ Dialog!Shows(next, Dialog!Moved(calls) \cup {Dialog!NewCall("reply", Dialog!None)})
          /\ asked' = [what |-> "creation", draft |-> Dialog!None]
        BY <1>6, <2>1 DEF Dialog!PickChoice, Dialog!Goes, Dialog!Asks
    <2>3. DOMAIN next = {"open", "active", "choosing"}
        BY <2>1 DEF DialogInv
    <2>4. QED BY <1>2, <2>2, <2>3, ShowsOK
<1>7. CASE Dialog!CancelChoice
    <2>1. PICK next : next = [surface EXCEPT !.choosing = FALSE]
        OBVIOUS
    <2>2. Dialog!Shows(next, calls) /\ asked' = asked
        BY <1>7, <2>1 DEF Dialog!CancelChoice, Dialog!Goes
    <2>3. DOMAIN next = {"open", "active", "choosing"} /\ next.active = surface.active
        BY <2>1 DEF DialogInv
    <2>4. QED BY <2>2, <2>3, ShowsOK DEF DialogInv
<1>8. QED BY <1>3, <1>4, <1>5, <1>6, <1>7

LEMMA FewerOK ==
    ASSUME DialogInv, NEW c
    PROVE  /\ CallsOK(calls \ {c}) /\ SendsOK(calls \ {c}, editor, Dialog!Mounted)
           /\ Quiet(calls) => Quiet(calls \ {c})
BY DEF DialogInv, CallsOK, SendsOK, Quiet

(* The dialog stays: requests go, others that are no press come, and the   *)
(* flag of the press is lowered only with the answer of the press.         *)
Plain(c) == DOMAIN c = CallFields /\ ~Pressed(c) /\ c.kind \notin Dialog!Creation
Swaps(gone, new) ==
    /\ calls' = (calls \ gone) \cup new /\ \A c \in new : Plain(c)
    /\ surface' = surface /\ asked' = asked

LEMMA StaysOK ==
    ASSUME DialogInv, NEW gone, NEW new, Swaps(gone, new), DOMAIN editor' = DialogFields,
           editor'.inFlight = editor.inFlight \/ \E c \in gone \cap calls : Pressed(c)
    PROVE  DialogInv'
<1> USE DEF Swaps, Plain
<1>1. Dialog!Mounted' <=> Dialog!Mounted
    BY DEF Dialog!Mounted
<1>2. CallsOK(calls')
    BY DEF DialogInv, CallsOK
<1>3. \A c \in calls' : Pressed(c) => c \in calls /\ c \notin gone
    OBVIOUS
<1>4. ASSUME NEW c \in calls', Pressed(c) PROVE editor'.inFlight /\ Dialog!Mounted
    <2>1. c \in calls /\ c \notin gone /\ editor.inFlight /\ Dialog!Mounted
        BY <1>3, <1>4 DEF DialogInv, SendsOK
    <2>2. ~\E d \in gone \cap calls : Pressed(d)
        BY <1>4, <2>1 DEF DialogInv, SendsOK
    <2>3. QED BY <2>1, <2>2
<1>5. SendsOK(calls', editor', Dialog!Mounted')
    BY <1>1, <1>3, <1>4 DEF DialogInv, SendsOK
<1>6. Quiet(calls) => Quiet(calls')
    BY DEF Quiet
<1>7. QED BY <1>2, <1>5, <1>6 DEF DialogInv, CallsOK, SendsOK, Quiet

LEMMA CreationsOK ==
    ASSUME DialogInv, NEW c \in calls, Dialog!Created(c) \/ Dialog!NotCreated(c)
    PROVE  DialogInv'
<1>1. CallsOK(calls \ {c}) /\ SendsOK(calls \ {c}, editor, Dialog!Mounted)
    BY FewerOK
<1>2. asked.what = "draft" =>
        surface.active = asked.draft /\ Quiet(calls \ {c}) /\ ~c.newest
    <2>1. c.kind \in Dialog!Creation
        BY DEF Dialog!Created, Dialog!NotCreated
    <2>2. QED BY <2>1, FewerOK DEF DialogInv, Quiet
<1>3. CASE Dialog!Created(c)
    <2>1. PICK d : Dialog!Shows(IF c.newest THEN [surface EXCEPT !.active = d] ELSE surface, calls \ {c})
        BY <1>3 DEF Dialog!Created, Dialog!IfNewest
    <2>2. PICK next : next = IF c.newest THEN [surface EXCEPT !.active = d] ELSE surface
        OBVIOUS
    <2>3. Dialog!Shows(next, calls \ {c}) /\ asked' = asked
        BY <1>3, <2>1, <2>2 DEF Dialog!Created
    <2>4. DOMAIN next = {"open", "active", "choosing"} /\ (~c.newest => next.active = surface.active)
        BY <2>2 DEF DialogInv
    <2>5. QED BY <1>1, <1>2, <2>3, <2>4, ShowsOK
<1>4. CASE Dialog!NotCreated(c) /\ c.kind = "reply" /\ c.newest
    <2>1. PICK choose \in BOOLEAN :
            Dialog!Shows([surface EXCEPT !.choosing = choose], calls \ {c})
        BY <1>4 DEF Dialog!NotCreated, Dialog!Goes
    <2>2. PICK next : next = [surface EXCEPT !.choosing = choose]
        OBVIOUS
    <2>3. Dialog!Shows(next, calls \ {c}) /\ asked' = asked
        BY <1>4, <2>1, <2>2 DEF Dialog!NotCreated
    <2>4. DOMAIN next = {"open", "active", "choosing"} /\ next.active = surface.active
        BY <2>2 DEF DialogInv
    <2>5. QED BY <1>1, <1>2, <2>3, <2>4, ShowsOK
<1>5. CASE Dialog!NotCreated(c) /\ ~(c.kind = "reply" /\ c.newest)
    <2>1. Swaps({c}, {}) /\ editor' = editor
        BY <1>5 DEF Dialog!NotCreated, Swaps
    <2>2. QED BY <2>1, StaysOK DEF DialogInv
<1>6. QED BY <1>3, <1>4, <1>5

LEMMA PressOK ==
    ASSUME DialogInv, Dialog!submitSend
    PROVE  DialogInv'
<1>1. PICK new : new = Dialog!NewCall("send", editor.draft)
    OBVIOUS
<1>2. PICK press : press = [new EXCEPT !.prop = surface.active, !.shown = editor.fields]
    OBVIOUS
<1>3. DOMAIN press = CallFields /\ press.kind = "send" /\ "send" \notin Dialog!Creation
    BY <1>1, <1>2, NewCallOK DEF CallFields, Dialog!Creation
<1>4. /\ calls' = calls \cup {press} /\ surface' = surface /\ asked' = asked
      /\ editor' = [editor EXCEPT !.sending = TRUE, !.inFlight = TRUE]
      /\ Dialog!Mounted /\ ~editor.inFlight
    BY <1>1, <1>2 DEF Dialog!submitSend, Dialog!GuardInFlight
<1>5. DOMAIN editor' = DialogFields /\ editor'.inFlight
    BY <1>4 DEF DialogInv, DialogFields
<1>6. \A c \in calls' : Pressed(c) => c = press
    BY <1>4 DEF DialogInv, SendsOK
<1>7. CallsOK(calls') /\ (Quiet(calls) => Quiet(calls'))
    BY <1>3, <1>4 DEF DialogInv, CallsOK, Quiet
<1>8. Dialog!Mounted'
    BY <1>4 DEF Dialog!Mounted
<1>9. SendsOK(calls', editor', Dialog!Mounted')
    BY <1>5, <1>6, <1>8 DEF SendsOK
<1>10. QED BY <1>4, <1>5, <1>7, <1>9 DEF DialogInv, CallsOK, SendsOK, Quiet

LEMMA AnswersOK ==
    ASSUME DialogInv, NEW c \in calls, Dialog!Queued(c) \/ Dialog!NotQueued(c)
    PROVE  DialogInv'
<1>1. c.kind = "send" /\ surface' = surface /\ asked' = asked
    BY DEF Dialog!Queued, Dialog!NotQueued
<1>2. PICK read : read = Dialog!Read(c.prop, FALSE)
    OBVIOUS
<1>3. Plain(read)
    BY <1>2, ReadOK DEF Plain
<1>4. Swaps({c}, {}) \/ Swaps({c}, {read})
    BY <1>1, <1>2, <1>3 DEF Dialog!Queued, Dialog!NotQueued, Swaps
<1>5. DOMAIN editor' = DialogFields
    BY DEF Dialog!Queued, Dialog!NotQueued, Dialog!Settled, DialogInv, DialogFields
<1>6. editor'.inFlight = editor.inFlight \/ Pressed(c)
    <2>1. c.alive \/ editor' = editor
        BY DEF Dialog!Queued, Dialog!NotQueued
    <2>2. QED BY <1>1, <2>1 DEF Pressed
<1>7. c \in {c} \cap calls
    OBVIOUS
<1>8. QED BY <1>4, <1>5, <1>6, <1>7, StaysOK

(* The other requests, and their answers that leave the dialog where it is.*)
LEMMA RequestsOK ==
    ASSUME DialogInv,
           \/ Dialog!checkUncertain \/ Dialog!editAgain \/ Dialog!resendFromCopy \/ Dialog!discard
    PROVE  DialogInv'
<1>1. PICK new : Plain(new) /\ calls' = calls \cup {new}
    <2>1. ASSUME NEW kind \in {"check", "resend", "discard"}, NEW d
          PROVE  Plain(Dialog!NewCall(kind, d))
        BY NewCallOK DEF Plain, Pressed, Dialog!Creation
    <2>2. Plain(Dialog!Read(surface.active, TRUE))
        BY ReadOK DEF Plain
    <2>3. CASE Dialog!editAgain
        BY <2>2, <2>3 DEF Dialog!editAgain
    <2>4. CASE ~Dialog!editAgain
        BY <2>1, <2>4 DEF Dialog!checkUncertain, Dialog!resendFromCopy, Dialog!discard
    <2>5. QED BY <2>3, <2>4
<1>2. Swaps({}, {new})
    BY <1>1 DEF Swaps, Dialog!checkUncertain, Dialog!editAgain, Dialog!resendFromCopy, Dialog!discard
<1>3. DOMAIN editor' = DialogFields /\ editor'.inFlight = editor.inFlight
    BY DEF Dialog!checkUncertain, Dialog!editAgain, Dialog!resendFromCopy, Dialog!discard,
           Dialog!Switched, DialogInv, DialogFields
<1>4. QED BY <1>2, <1>3, StaysOK

LEMMA RepliesOK ==
    ASSUME DialogInv, NEW c \in calls,
           \/ Dialog!load(c) \/ Dialog!Checked(c) \/ Dialog!NotResent(c) \/ Dialog!NotDiscarded(c)
    PROVE  DialogInv'
<1>1. Swaps({c}, {})
    BY DEF Swaps, Dialog!load, Dialog!Checked, Dialog!NotResent, Dialog!NotDiscarded
<1>2. DOMAIN editor' = DialogFields /\ editor'.inFlight = editor.inFlight
    BY DEF Dialog!load, Dialog!Checked, Dialog!NotResent, Dialog!NotDiscarded, Dialog!Adopt,
           DialogInv, DialogFields
<1>3. QED BY <1>1, <1>2, StaysOK

(* A copy that opens and a discard move the dialog by themselves.          *)
LEMMA MovesOK ==
    ASSUME DialogInv, NEW c \in calls, Dialog!Resent(c) \/ Dialog!Discarded(c)
    PROVE  DialogInv'
<1>1. /\ CallsOK(calls \ {c}) /\ SendsOK(calls \ {c}, editor, Dialog!Mounted)
      /\ asked.what = "draft" => Quiet(calls \ {c})
    BY FewerOK DEF DialogInv
<1>2. PICK d : Dialog!Shows([surface EXCEPT !.active = d], calls \ {c}) /\ Dialog!Follows(d)
    BY DEF Dialog!Resent, Dialog!Discarded
<1>3. PICK next : next = [surface EXCEPT !.active = d]
    OBVIOUS
<1>4. Dialog!Shows(next, calls \ {c})
    BY <1>2, <1>3
<1>5. asked'.what = "draft" => asked.what = "draft" /\ asked'.draft = d
    BY <1>2 DEF Dialog!Follows, Dialog!Asks
<1>6. DOMAIN next = {"open", "active", "choosing"} /\ next.active = d
    BY <1>3 DEF DialogInv
<1>7. QED BY <1>1, <1>4, <1>5, <1>6, ShowsOK

LEMMA DialogStep == DialogInv /\ [Dialog!Next]_dialogVars => DialogInv'
<1> SUFFICES ASSUME DialogInv, [Dialog!Next]_dialogVars PROVE DialogInv'
    OBVIOUS
<1>1. CASE UNCHANGED dialogVars
    BY <1>1 DEF dialogVars, DialogInv, CallsOK, SendsOK, Quiet, Dialog!Mounted
<1>2. CASE \E d \in Dialog!Draft : Dialog!Settles(d)
    BY <1>2 DEF Dialog!Settles, DialogInv, CallsOK, SendsOK, Quiet, Dialog!Mounted
<1>3. CASE \E c \in calls : \/ Dialog!Created(c) \/ Dialog!NotCreated(c) \/ Dialog!load(c)
                            \/ Dialog!Queued(c) \/ Dialog!NotQueued(c) \/ Dialog!Checked(c)
                            \/ Dialog!Resent(c) \/ Dialog!NotResent(c)
                            \/ Dialog!Discarded(c) \/ Dialog!NotDiscarded(c)
    BY <1>3, CreationsOK, AnswersOK, RepliesOK, MovesOK
<1>4. QED BY <1>1, <1>2, <1>3, NavigationOK, PressOK, RequestsOK DEF Dialog!Next

LEMMA CountOnDialog == ASSUME NEW S PROVE Dialog!Cardinality(S) = Cardinality(S)
BY DEF Dialog!Cardinality, Cardinality

LEMMA DialogSafe == DialogInv => OwnerIsFollowed
<1> SUFFICES ASSUME DialogInv PROVE OwnerIsFollowed
    OBVIOUS
<1> DEFINE S == {c \in calls : c.kind = "send" /\ c.alive}
<1>1. \A c, d \in S : c = d
    BY DEF DialogInv, SendsOK, Pressed
<1>2. Cardinality(S) <= 1
    <2>1. CASE S = {}
        BY <2>1, FS_EmptySet
    <2>2. CASE S # {}
        <3>1. PICK c \in S : TRUE
            BY <2>2
        <3>2. S = {c}
            BY <1>1, <3>1
        <3>3. Cardinality({c}) = 1
            BY FS_Singleton
        <3>4. QED BY <3>2, <3>3
    <2>3. QED BY <2>1, <2>2
<1>3. Dialog!OneSendAtATime
    BY <1>2, CountOnDialog DEF Dialog!OneSendAtATime
<1>4. QED BY <1>3 DEF DialogInv, OwnerIsFollowed, Dialog!ClickedDraftStays

(* A clicked draft stays open and an editor has one send on its way, for   *)
(* any drafts and any requests on the way (navigationRef, sendInFlight).   *)
THEOREM DialogFollowsOwner == OwnerSpec => []OwnerIsFollowed
<1>1. OwnerInit => DialogInv
    BY DialogBegins DEF OwnerInit
<1>2. DialogInv /\ [OwnerNext]_ownerVars => DialogInv'
    BY DialogAlone, DialogStep
<1>3. QED BY <1>1, <1>2, DialogSafe, PTL DEF OwnerSpec

-----------------------------------------------------------------------------
(* Who gets in, and what Home shows: under one scenario the whole behaves  *)
(* as one component does in one setting, and a scenario never changes.     *)

LEMMA SetupAlone ==
    /\ AccessSpec /\ scenario = "setup" => Setup!Spec /\ [](scenario = "setup")
    /\ AccessSpec /\ ~(scenario = "setup") => []~(scenario = "setup")
<1>1. AccessInit /\ scenario = "setup" => Setup!Init
    BY DEF AccessInit
<1>2. scenario = "setup" /\ [AccessNext]_accessVars => [Setup!Next]_(Setup!vars) /\ (scenario = "setup")'
    BY DEF AccessNext, AuthMoves, HomeMoves, accessVars, authVars, homeVars, Setup!vars
<1>3. ~(scenario = "setup") /\ [AccessNext]_accessVars => ~(scenario = "setup")'
    BY DEF AccessNext, accessVars
<1>4. QED BY <1>1, <1>2, <1>3, PTL DEF AccessSpec, Setup!Spec

LEMMA RevokedAlone ==
    /\ AccessSpec /\ scenario = "revoked" => Revoked!Spec /\ [](scenario = "revoked")
    /\ AccessSpec /\ ~(scenario = "revoked") => []~(scenario = "revoked")
<1>1. AccessInit /\ scenario = "revoked" => Revoked!Init
    BY DEF AccessInit
<1>2. scenario = "revoked" /\ [AccessNext]_accessVars => [Revoked!Next]_(Revoked!vars) /\ (scenario = "revoked")'
    BY DEF AccessNext, AuthMoves, HomeMoves, accessVars, authVars, homeVars, Revoked!vars
<1>3. ~(scenario = "revoked") /\ [AccessNext]_accessVars => ~(scenario = "revoked")'
    BY DEF AccessNext, accessVars
<1>4. QED BY <1>1, <1>2, <1>3, PTL DEF AccessSpec, Revoked!Spec

LEMMA RemovalsAlone ==
    /\ AccessSpec /\ scenario = "removals" => Removals!Spec /\ [](scenario = "removals")
    /\ AccessSpec /\ ~(scenario = "removals") => []~(scenario = "removals")
<1>1. AccessInit /\ scenario = "removals" => Removals!Init
    BY DEF AccessInit
<1>2. scenario = "removals" /\ [AccessNext]_accessVars => [Removals!Next]_(Removals!vars) /\ (scenario = "removals")'
    BY DEF AccessNext, AuthMoves, HomeMoves, accessVars, authVars, homeVars, Removals!vars
<1>3. ~(scenario = "removals") /\ [AccessNext]_accessVars => ~(scenario = "removals")'
    BY DEF AccessNext, accessVars
<1>4. QED BY <1>1, <1>2, <1>3, PTL DEF AccessSpec, Removals!Spec

LEMMA CountersAlone ==
    /\ AccessSpec /\ scenario = "counters" => Counters!Spec /\ [](scenario = "counters")
    /\ AccessSpec /\ ~(scenario = "counters") => []~(scenario = "counters")
<1>1. AccessInit /\ scenario = "counters" => Counters!Init
    BY DEF AccessInit
<1>2. scenario = "counters" /\ [AccessNext]_accessVars => [Counters!Next]_(Counters!vars) /\ (scenario = "counters")'
    BY DEF AccessNext, AuthMoves, HomeMoves, accessVars, authVars, homeVars, Counters!vars
<1>3. ~(scenario = "counters") /\ [AccessNext]_accessVars => ~(scenario = "counters")'
    BY DEF AccessNext, accessVars
<1>4. QED BY <1>1, <1>2, <1>3, PTL DEF AccessSpec, Counters!Spec

LEMMA PagesAlone ==
    /\ AccessSpec /\ scenario = "pages" => Pages!Spec /\ [](scenario = "pages")
    /\ AccessSpec /\ ~(scenario = "pages") => []~(scenario = "pages")
<1>1. AccessInit /\ scenario = "pages" => Pages!Init
    BY DEF AccessInit
<1>2. scenario = "pages" /\ [AccessNext]_accessVars => [Pages!Next]_(Pages!vars) /\ (scenario = "pages")'
    BY DEF AccessNext, AuthMoves, HomeMoves, accessVars, authVars, homeVars, Pages!vars, Pages!db
<1>3. ~(scenario = "pages") /\ [AccessNext]_accessVars => ~(scenario = "pages")'
    BY DEF AccessNext, accessVars
<1>4. QED BY <1>1, <1>2, <1>3, PTL DEF AccessSpec, Pages!Spec

LEMMA ArrivalsAlone ==
    /\ AccessSpec /\ scenario = "arrivals" => Arrivals!Spec /\ [](scenario = "arrivals")
    /\ AccessSpec /\ ~(scenario = "arrivals") => []~(scenario = "arrivals")
<1>1. AccessInit /\ scenario = "arrivals" => Arrivals!Init
    BY DEF AccessInit
<1>2. scenario = "arrivals" /\ [AccessNext]_accessVars => [Arrivals!Next]_(Arrivals!vars) /\ (scenario = "arrivals")'
    BY DEF AccessNext, AuthMoves, HomeMoves, accessVars, authVars, homeVars, Arrivals!vars, Arrivals!db
<1>3. ~(scenario = "arrivals") /\ [AccessNext]_accessVars => ~(scenario = "arrivals")'
    BY DEF AccessNext, accessVars
<1>4. QED BY <1>1, <1>2, <1>3, PTL DEF AccessSpec, Arrivals!Spec

LEMMA EvaluationAlone ==
    /\ AccessSpec /\ scenario = "evaluation" => Evaluation!Spec /\ [](scenario = "evaluation")
    /\ AccessSpec /\ ~(scenario = "evaluation") => []~(scenario = "evaluation")
<1>1. AccessInit /\ scenario = "evaluation" => Evaluation!Init
    BY DEF AccessInit
<1>2. scenario = "evaluation" /\ [AccessNext]_accessVars => [Evaluation!Next]_(Evaluation!vars) /\ (scenario = "evaluation")'
    BY DEF AccessNext, AuthMoves, HomeMoves, accessVars, authVars, homeVars, Evaluation!vars, Evaluation!db
<1>3. ~(scenario = "evaluation") /\ [AccessNext]_accessVars => ~(scenario = "evaluation")'
    BY DEF AccessNext, accessVars
<1>4. QED BY <1>1, <1>2, <1>3, PTL DEF AccessSpec, Evaluation!Spec

(* What the theorems of Auth and of HomeSections ask of their constants,   *)
(* for each setting.                                                       *)
SignInAssumption ==
    Setup!SomePasskeys /\ Revoked!SomePasskeys /\ Removals!SomePasskeys /\ Counters!SomePasskeys
ShownAssumption ==
    Pages!HomeAssumption /\ Arrivals!HomeAssumption /\ Evaluation!HomeAssumption

(* What was revoked stays revoked whatever was in flight, an assertion is  *)
(* accepted once, and removals that run together leave a passkey           *)
(* (consumeChallenge, consumeGrant, requireLiveCredential, lockOwner).     *)
THEOREM AccessStaysRevoked == SignInAssumption => (AccessSpec => AccessIsRevoked)
<1> SUFFICES ASSUME SignInAssumption PROVE AccessSpec => AccessIsRevoked
    OBVIOUS
<1>1. /\ Setup!Spec => []Setup!NothingOutlivesRevocation
      /\ Setup!Spec => []Setup!AcceptedOnce
    BY Setup!RevocationIsFinal, Setup!AssertionsCountOnce DEF SignInAssumption
<1>2. /\ Revoked!Spec => []Revoked!NothingOutlivesRevocation
      /\ Revoked!Spec => []Revoked!AcceptedOnce
    BY Revoked!RevocationIsFinal, Revoked!AssertionsCountOnce DEF SignInAssumption
<1>3. /\ Removals!Spec => []Removals!NothingOutlivesRevocation
      /\ Removals!Spec => [][Removals!LeavesAPasskey]_(Removals!vars)
    BY Removals!RevocationIsFinal, Removals!APasskeyIsLeft DEF SignInAssumption
<1>4. Counters!Spec => []Counters!AcceptedOnce
    BY Counters!AssertionsCountOnce DEF SignInAssumption
<1>5. scenario = "removals" /\ [AccessNext]_accessVars /\ UNCHANGED Removals!vars
        => UNCHANGED accessVars
    BY DEF AccessNext, AuthMoves, HomeMoves, accessVars, authVars, homeVars, Removals!vars
<1>6. QED
    BY <1>1, <1>2, <1>3, <1>4, <1>5, SetupAlone, RevokedAlone, RemovalsAlone, CountersAlone, PTL
       DEF AccessIsRevoked, AccessSpec

(* Paging to the end shows every conversation that stayed in its place, in *)
(* the order of the ranking, and the evaluation reports missing only what  *)
(* no section held (encodeCursor, ranking.ts, evaluateHome).               *)
THEOREM HomeStaysShown == ShownAssumption => (AccessSpec => []HomeShowsAll)
<1> SUFFICES ASSUME ShownAssumption PROVE AccessSpec => []HomeShowsAll
    OBVIOUS
<1>1. Pages!Spec => []Pages!HomeShowsAll
    BY Pages!HomeStaysWhole DEF ShownAssumption
<1>2. Arrivals!Spec => []Arrivals!HomeShowsAll
    BY Arrivals!HomeStaysWhole DEF ShownAssumption
<1>3. Evaluation!Spec => []Evaluation!HomeShowsAll
    BY Evaluation!HomeStaysWhole DEF ShownAssumption
<1>4. QED BY <1>1, <1>2, <1>3, PagesAlone, ArrivalsAlone, EvaluationAlone, PTL DEF HomeShowsAll

=============================================================================
