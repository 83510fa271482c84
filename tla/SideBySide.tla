----------------------------- MODULE SideBySide -----------------------------
(***************************************************************************)
(* Five components that share no state, side by side: the worker process,  *)
(* the SMTP submission, the settings of one browser, its message list, and *)
(* the files of one draft.  A step of the whole is a step of one of them.  *)
(***************************************************************************)
EXTENDS Naturals, FiniteSets, Sequences

CONSTANTS
    AccountCount, MaxGeneration, MaxWaiting, MaxStarts,     \* of Worker
    Recipient, MaxAttempts,                                 \* of Submission
    MaxTickets, MaxReads, LastStart,                        \* of SettingsSync
    Files, MaxCopies,                                       \* of DraftFiles
    AllMail, Old, SentOnly,                                 \* of MailList
    PageSize, RequestCap, OffsetCap, MaxCommands

(* Messages are numbered in the order of their arrival.                    *)
ASSUME ArrivalOrder ==
    /\ AllMail \in SUBSET Nat /\ IsFiniteSet(AllMail) /\ Old \subseteq AllMail
    /\ \A m \in Old, n \in AllMail \ Old : m < n
    /\ PageSize \in Nat /\ RequestCap \in Nat

VARIABLES
    database, worker, starts, schedule, waiting, syncJob, status, backlog,
    volumeFull,
    script, client, wire, server, submissions, attempts, seenInPlain,
    table, shown, readPhase, settingsRead, savePhase, failedPatches,
    keyTickets, puts, startup, opened, readsLeft, entered, lastEdit,
    copies, linked, draftLocked, online, records, queued, adding,
    replaying, refreshing, listed, pendingUploads, relinking, removed,
    reported,
    onServer, inbox, scope, list, listReads, aside, command, downloaded

workerVars == <<database, worker, starts, schedule, waiting, syncJob,
               status, backlog, volumeFull>>
smtpVars == <<script, client, wire, server, submissions, attempts,
             seenInPlain>>
settingsVars == <<table, shown, readPhase, settingsRead, savePhase,
                 failedPatches, keyTickets, puts, startup, opened,
                 readsLeft, entered, lastEdit>>
filesVars == <<copies, linked, draftLocked, online, records, queued, adding,
              replaying, refreshing, listed, pendingUploads, relinking,
              removed, reported>>
listVars == <<onServer, inbox, scope, list, listReads, aside, command,
             downloaded>>
sideVars == <<workerVars, smtpVars, settingsVars, filesVars, listVars>>

\* Accounts visited in the order of their numbers; generations count from 1.
Working == INSTANCE Worker WITH
    Accounts <- [i \in 1 .. AccountCount |-> i], NoGeneration <- 0

\* Conversations of one client with a server that follows a script.
Smtp == INSTANCE Submission

\* Patches, edits and retries, with lost answers and failed reads.
Settings == INSTANCE SettingsSync

\* Files uploaded more than once, with lost answers and reloads.
AddedFiles == INSTANCE DraftFiles

\* Reads of the list and mail actions, beside mail that arrives and leaves.
Reading == INSTANCE MailList WITH Mail <- AllMail

SideInit ==
    /\ Working!Init /\ Smtp!Init /\ Settings!Init /\ AddedFiles!Init
    /\ Reading!Init

WorkerMoves == Working!Next /\ UNCHANGED <<smtpVars, settingsVars, filesVars, listVars>>
SmtpMoves == Smtp!Next /\ UNCHANGED <<workerVars, settingsVars, filesVars, listVars>>
SettingsMoves == Settings!Next /\ UNCHANGED <<workerVars, smtpVars, filesVars, listVars>>
FilesMoves == AddedFiles!Next /\ UNCHANGED <<workerVars, smtpVars, settingsVars, listVars>>
ListMoves == Reading!Next /\ UNCHANGED <<workerVars, smtpVars, settingsVars, filesVars>>

SideNext == WorkerMoves \/ SmtpMoves \/ SettingsMoves \/ FilesMoves \/ ListMoves

SideSpec == SideInit /\ [][SideNext]_sideVars

-----------------------------------------------------------------------------
(* A worker stops for every signal, its schedules stamp the current        *)
(* generation, and a contained failure shows until a clean cycle (armStop, *)
(* armSchedule, syncStateOf).                                              *)
WorkerReports ==
    /\ [](Working!SignalStops /\ Working!TicksAreCurrent)
    /\ [][Working!FailureShowsStep]_workerVars

(* A rejected message is not on the server, an accepted one is, and        *)
(* nothing crosses the wire in the clear (rejectedOrUnknown, requireTLS).  *)
VerdictIsSound == Smtp!VerdictIsSound /\ Smtp!NothingInTheClear

(* A late answer never repaints an older value (keyTickets).               *)
NewestEditShows == Settings!NewestEditShows

(* A reported file is never lost, and no retry links a second copy of it   *)
(* (markUploadAcknowledged, rememberAcknowledgedUpload).                   *)
FilesAreKept == AddedFiles!FilesAreKept /\ AddedFiles!LinkedOnce

(* The list shows its own view, each message once; in order, and with none *)
(* skipped, while nothing left and no more arrived than it shows           *)
(* (useMessageList).                                                       *)
ListSkipsNothing == Reading!ListSkipsNothing

=============================================================================
