----------------------------- MODULE OwnerSends -----------------------------
(***************************************************************************)
(* The owner's sends from both ends: the dialog in which they are made     *)
(* (ComposeScreen) and the execution of the rows they queue (Outbound).    *)
(* They share no state here: a step of the whole is a step of one of them. *)
(***************************************************************************)
EXTENDS Outbound

CONSTANTS
    Live, MaxDrafts, MaxCalls       \* of ComposeScreen

VARIABLES
    rows, surface, editor, calls, asked, strayed

outboundVars == <<row, message, mapped, copies, worker, submissions,
                 accepted, crashes>>
dialogVars == <<rows, surface, editor, calls, asked, strayed>>
ownerVars == <<outboundVars, dialogVars>>

\* The dialog of one device.
Dialog == INSTANCE ComposeScreen

OwnerInit == Init /\ Dialog!Init

OutboundMoves == Next /\ UNCHANGED dialogVars
DialogMoves == Dialog!Next /\ UNCHANGED outboundVars

OwnerNext == OutboundMoves \/ DialogMoves

OwnerSpec == OwnerInit /\ [][OwnerNext]_ownerVars

-----------------------------------------------------------------------------
(* A clicked draft stays open however late a creation is answered, and an  *)
(* editor has one send on its way (navigationRef, sendInFlight).           *)
OwnerIsFollowed == Dialog!ClickedDraftStays /\ Dialog!OneSendAtATime

=============================================================================
