------------------------------ MODULE MCFair ------------------------------
(*****************************************************************************)
(* What must come to an end: a send, the copy of a sent mail, a recovery,  *)
(* a management action, the mirror of a folder. The scenario says which    *)
(* part moves; the others rest in their initial state, so the state spaces *)
(* add up instead of multiplying.                                          *)
(*****************************************************************************)
EXTENDS Naturals, FiniteSets

CONSTANTS
    g1, g2, NoGeneration, s1, a1, o1, w1, w2, NoRow, c1

VARIABLES
    scenario,
    deployment, used, running, db, backup, claims, effects, captured,
    row, message, mapped, copies, worker, submissions, accepted, crashes,
    box, folder, occ, cycle, flips, cycleCrashes,
    action, item, local, validity, ready, run, server, mailbox, issued,
    moved, strayed, held, passesLost, changes

runbookVars == <<deployment, used, running, db, backup, claims, effects,
                captured>>
outboundVars == <<row, message, mapped, copies, worker, submissions,
                 accepted, crashes>>
fairfoldersVars == <<box, folder, occ, cycle, flips, cycleCrashes>>
fairmovesVars == <<action, item, local, validity, ready, run, server,
                  mailbox, issued, moved, strayed, held, passesLost, changes>>

-----------------------------------------------------------------------------
(* The operator's runbook.                                                 *)
\* One restore, a send and an action.
Recovering == INSTANCE RecoveryControls WITH
    Generation <- {g1, g2}, NoGeneration <- NoGeneration, SendKey <- {s1},
    ActionKey <- {a1}, MaxEffects <- 2

-----------------------------------------------------------------------------
(* Sends.                                                                  *)
\* One send, two workers, two crashes.
Sends == INSTANCE Outbound WITH
    Row <- {o1}, Worker <- {w1, w2}, NoRow <- NoRow, AttemptCap <- 2,
    MaxSubmissions <- 2, MaxCopies <- 2, MaxCrashes <- 2,
    EarlyExpiry <- FALSE

-----------------------------------------------------------------------------
(* Folder synchronization.                                                 *)
\* One cycle at a time, a renumbering, a crash.
Mirroring == INSTANCE FolderSync WITH
    Cycle <- {c1}, WindowSize <- 1, ArrivalBatch <- 1, RepairLimit <- 1,
    FirstContact <- TRUE, MaxUid <- 2, MaxValidity <- 2, MaxFlags <- 0,
    MaxCrashes <- 1

-----------------------------------------------------------------------------
(* Management actions.                                                     *)
FolderEach == [m \in {1, 2} |-> IF m = 1 THEN "inbox" ELSE "archive"]

\* Two moves of two messages in two folders, one at a time; a crash, a refusal.
Moves == INSTANCE Actions WITH
    Action <- {1, 2}, Message <- {1, 2}, Folder <- {"inbox", "archive"},
    FolderOf <- FolderEach, Kinds <- {"move"}, Run <- {w1}, Limit <- 1,
    Condstore <- FALSE, MaxChanges <- 0, MaxCrashes <- 1,
    Outside <- {"refusal"}, NoFolder <- "none"

-----------------------------------------------------------------------------
Init ==
    /\ scenario \in {
        "recovery", "sends", "folder", "moves"}
    /\ Recovering!Init
    /\ Sends!Init
    /\ Mirroring!Init
    /\ Moves!Init
    /\ scenario # "sends" => mapped
    /\ scenario # "folder" => box.present = {}

RunbookMoves ==
    \/ scenario = "recovery" /\ Recovering!Next

OutboundMoves ==
    \/ scenario = "sends" /\ Sends!Next

FairfoldersMoves ==
    \/ scenario = "folder" /\ Mirroring!Next

FairmovesMoves ==
    \/ scenario = "moves" /\ Moves!Next

Next ==
    /\ UNCHANGED scenario
    /\ \/ RunbookMoves /\ UNCHANGED <<outboundVars, fairfoldersVars, fairmovesVars>>
       \/ OutboundMoves /\ UNCHANGED <<runbookVars, fairfoldersVars, fairmovesVars>>
       \/ FairfoldersMoves /\ UNCHANGED <<runbookVars, outboundVars, fairmovesVars>>
       \/ FairmovesMoves /\ UNCHANGED <<runbookVars, outboundVars, fairfoldersVars>>

vars == <<scenario,
          runbookVars, outboundVars, fairfoldersVars, fairmovesVars>>

(* What each part's scheduling gives: the workers, cycles and passes go    *)
(* on, the crons come back, and the operator carries the runbook through   *)
(* (the Fairness and Runbook of the parts, each in its own scenario).      *)
Fairness ==
    /\ WF_runbookVars(scenario = "recovery" /\ deployment = NoGeneration /\ Recovering!Stop)
    /\ SF_runbookVars(scenario = "recovery" /\ \E g \in {g1, g2} : Recovering!Configure(g))
    /\ WF_runbookVars(scenario = "recovery" /\ Recovering!Start)
    /\ WF_runbookVars(scenario = "recovery" /\ Recovering!BeginRecovery)
    /\ WF_runbookVars(scenario = "recovery" /\ Recovering!HoldAction(a1))
    /\ WF_runbookVars(scenario = "recovery" /\ db.grant = Recovering!NoGrant /\ Recovering!IssueBootstrapGrant)
    /\ WF_runbookVars(scenario = "recovery" /\ db.credentials = {} /\ db.grant = Recovering!NoGrant /\ Recovering!IssueRecoveryGrant)
    /\ SF_runbookVars(scenario = "recovery" /\ Recovering!Enroll)
    /\ SF_runbookVars(scenario = "recovery" /\ Recovering!CompleteRecovery)
    /\ \A w \in {w1, w2} : WF_outboundVars(scenario = "sends" /\ Sends!WorkerStep(w))
    /\ WF_outboundVars(scenario = "sends" /\ Sends!SendLeaseExpires(o1))
    /\ WF_outboundVars(scenario = "sends" /\ Sends!AppendLeaseExpires(o1))
    /\ WF_outboundVars(scenario = "sends" /\ \E w \in {w1, w2} : Sends!ReadQueued(w, o1))
    /\ WF_outboundVars(scenario = "sends" /\ \E w \in {w1, w2} : Sends!HoldSend(w, o1))
    /\ WF_outboundVars(scenario = "sends" /\ \E w \in {w1, w2} : Sends!ReadDue(w, o1))
    /\ WF_outboundVars(scenario = "sends" /\ \E w \in {w1, w2} : Sends!ReadAbandonedAppend(w, o1))
    /\ WF_fairfoldersVars(scenario = "folder" /\ Mirroring!CycleStep(c1))
    /\ SF_fairfoldersVars(scenario = "folder" /\ Mirroring!Begin(c1, "backfill"))
    /\ SF_fairfoldersVars(scenario = "folder" /\ Mirroring!Begin(c1, "arrivals"))
    /\ WF_fairmovesVars(scenario = "moves" /\ Moves!StartPass(w1))
    /\ WF_fairmovesVars(scenario = "moves" /\ Moves!PassStep(w1))

Spec == Init /\ [][Next]_vars /\ Fairness

-----------------------------------------------------------------------------
(* A recovery comes to its end (RecoveryControls).                         *)
RecoveryCompletes ==
    scenario = "recovery" => Recovering!RecoveryCompletes

(* A send gets an outcome (Outbound).                                      *)
SendResolves ==
    scenario = "sends" => Sends!SendResolves

(* The copy of a sent mail leaves the sweep (Outbound).                    *)
CopyLeavesSweep ==
    scenario = "sends" => Sends!CopyLeavesSweep

(* When the mailbox rests, the hub comes to list what it holds             *)
(* (FolderSync).                                                           *)
EventuallyMirrored ==
    scenario = "folder" => Mirroring!EventuallyMirrored

(* A queued action ends with a receipt for each target (Actions).          *)
ActionsComplete ==
    scenario = "moves" => Moves!ActionsComplete

=============================================================================
