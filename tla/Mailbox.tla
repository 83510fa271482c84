------------------------------ MODULE Mailbox ------------------------------
(***************************************************************************)
(* The mailbox from two sides: the synchronization of a folder             *)
(* (FolderSync) and management actions under way (Actions).  The scenario  *)
(* says which part moves; the others rest in their initial state, so the   *)
(* state spaces add up instead of multiplying.                             *)
(*                                                                         *)
(* The actions come in three settings.  Each takes its operators from the  *)
(* module of their proofs, which extends Actions, so that the theorems     *)
(* about them can be cited.                                                *)
(***************************************************************************)
EXTENDS FolderSync

CONSTANT
    Setting     \* the constants of Actions for moves, overlap and flags

VARIABLES
    scenario,
    action, item, local, validity, ready, run, server, mailbox, issued,
    moved, strayed, held, passesLost, changes

actionsVars == <<action, item, local, validity, ready, run, server, mailbox,
                issued, moved, strayed, held, passesLost, changes>>
folderVars == <<box, folder, occ, cycle, flips, cycleCrashes>>

-----------------------------------------------------------------------------
(* Management actions.                                                     *)
\* Moves of messages in several folders.
Moves == INSTANCE ActionsProofs WITH
    Action <- Setting.moves.action, Message <- Setting.moves.message,
    Folder <- Setting.moves.folder, FolderOf <- Setting.moves.folderOf,
    Kinds <- Setting.moves.kinds, Run <- Setting.moves.run, Limit <- Setting.moves.limit,
    Condstore <- Setting.moves.condstore, MaxChanges <- Setting.moves.maxChanges,
    MaxCrashes <- Setting.moves.maxCrashes, Outside <- Setting.moves.outside,
    NoFolder <- Setting.moves.noFolder

\* Passes that overlap.
Overlap == INSTANCE ActionsProofs WITH
    Action <- Setting.overlap.action, Message <- Setting.overlap.message,
    Folder <- Setting.overlap.folder, FolderOf <- Setting.overlap.folderOf,
    Kinds <- Setting.overlap.kinds, Run <- Setting.overlap.run, Limit <- Setting.overlap.limit,
    Condstore <- Setting.overlap.condstore, MaxChanges <- Setting.overlap.maxChanges,
    MaxCrashes <- Setting.overlap.maxCrashes, Outside <- Setting.overlap.outside,
    NoFolder <- Setting.overlap.noFolder

\* Flags, which other clients change as well.
Flags == INSTANCE ActionsProofs WITH
    Action <- Setting.flags.action, Message <- Setting.flags.message,
    Folder <- Setting.flags.folder, FolderOf <- Setting.flags.folderOf,
    Kinds <- Setting.flags.kinds, Run <- Setting.flags.run, Limit <- Setting.flags.limit,
    Condstore <- Setting.flags.condstore, MaxChanges <- Setting.flags.maxChanges,
    MaxCrashes <- Setting.flags.maxCrashes, Outside <- Setting.flags.outside,
    NoFolder <- Setting.flags.noFolder

-----------------------------------------------------------------------------
MailboxInit ==
    /\ scenario \in {
        "moves", "overlap", "flags", "folder"}
    /\ \/ scenario \notin {"overlap", "flags"} /\ Moves!Init
       \/ scenario = "overlap" /\ Overlap!Init
       \/ scenario = "flags" /\ Flags!Init
    /\ Init
    /\ scenario # "folder" => box.present = {}

ActionsMoves ==
    \/ scenario = "moves" /\ Moves!Next
    \/ scenario = "overlap" /\ Overlap!Next
    \/ scenario = "flags" /\ Flags!Next

FolderMoves == scenario = "folder" /\ Next

MailboxNext ==
    /\ UNCHANGED scenario
    /\ \/ ActionsMoves /\ UNCHANGED folderVars
       \/ FolderMoves /\ UNCHANGED actionsVars

allVars == <<scenario, actionsVars, folderVars>>

MailboxSpec == MailboxInit /\ [][MailboxNext]_allVars

-----------------------------------------------------------------------------
(* The state of every component keeps its type.                            *)
PartsTypeOK ==
    /\ scenario = "moves" => Moves!TypeOK
    /\ scenario = "overlap" => Overlap!TypeOK
    /\ scenario = "flags" => Flags!TypeOK
    /\ scenario = "folder" => TypeOK

(* No write lands in another UID space, and a MOVE is sent at most once    *)
(* for a target, while passes do not overlap (executeFolderGroup).         *)
WritesAreSafe ==
    /\ scenario = "moves" => Moves!WritesAreSafe
    /\ scenario = "overlap" => Overlap!WritesAreSafe
    /\ scenario = "flags" => Flags!WritesAreSafe

(* One MOVE while passes overlap, as service.ts:53 of the actions package  *)
(* says of an interrupted move: never replayed blindly (execute).          *)
InterruptedMoveIsNotReplayed ==
    /\ scenario = "overlap" => Overlap!MoveIssuedOnce

(* A completed action left no target open, a confirmed flag was held, and  *)
(* a refused move did not happen while passes do not overlap (Actions).    *)
ReportsAreTrue ==
    /\ scenario = "moves" => Moves!ReportsAreTrue
    /\ scenario = "overlap" => Overlap!ReportsAreTrue
    /\ scenario = "flags" => Flags!ReportsAreTrue

(* A slow cycle never takes a checkpoint back, and no later pass changes a *)
(* receipt (FolderSync, Actions).                                          *)
ProgressIsKept ==
    [][
        /\ scenario = "folder" => CheckpointsAdvance
        /\ scenario = "moves" => Moves!ReceiptIsFinal
        /\ scenario = "overlap" => Overlap!ReceiptIsFinal
        /\ scenario = "flags" => Flags!ReceiptIsFinal
      ]_allVars

=============================================================================
