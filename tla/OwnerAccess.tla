---------------------------- MODULE OwnerAccess ----------------------------
(***************************************************************************)
(* Who gets in and what Home shows them: sign-in (Auth) and the sections   *)
(* of Home (HomeSections), which share no variable.  The scenario says     *)
(* which part moves; the other rests in its initial state.                 *)
(*                                                                         *)
(* Each part comes in several settings, and takes its operators from the   *)
(* module of its proofs, which extends it, so that the theorems about it   *)
(* can be cited.                                                           *)
(***************************************************************************)
EXTENDS Naturals, FiniteSets

CONSTANTS
    AuthSetting,    \* the constants of Auth: setup, revoked, removals, counters
    HomeSetting     \* the constants of HomeSections: pages, arrivals, evaluation

VARIABLES
    scenario,
    control, ownerRow, passkey, ceremony, grant, session, request, issuing,
    era, acceptedCounts,
    begun, ingested, answered, hidden, filed, planned, visit, reading,
    view, more, fresh, verdict, steady, overlap, start, surfaced, effort

authVars == <<control, ownerRow, passkey, ceremony, grant, session, request,
             issuing, era, acceptedCounts>>
homeVars == <<begun, ingested, answered, hidden, filed, planned, visit,
             reading, view, more, fresh, verdict, steady, overlap, start,
             surfaced, effort>>

-----------------------------------------------------------------------------
\* A fresh installation.
Setup == INSTANCE AuthProofs WITH
    accepted <- acceptedCounts, Passkey <- AuthSetting.setup.passkey,
    Ceremony <- AuthSetting.setup.ceremony, Grant <- AuthSetting.setup.grant,
    Session <- AuthSetting.setup.session,
    Request <- AuthSetting.setup.request,
    MaxCount <- AuthSetting.setup.maxCount,
    MaxEra <- AuthSetting.setup.maxEra, Settled <- AuthSetting.setup.settled

\* Setup, sign-in, emergency, restore and re-enrollment.
Revoked == INSTANCE AuthProofs WITH
    accepted <- acceptedCounts, Passkey <- AuthSetting.revoked.passkey,
    Ceremony <- AuthSetting.revoked.ceremony,
    Grant <- AuthSetting.revoked.grant,
    Session <- AuthSetting.revoked.session,
    Request <- AuthSetting.revoked.request,
    MaxCount <- AuthSetting.revoked.maxCount,
    MaxEra <- AuthSetting.revoked.maxEra,
    Settled <- AuthSetting.revoked.settled

\* Removals and an emergency around a settled owner.
Removals == INSTANCE AuthProofs WITH
    accepted <- acceptedCounts, Passkey <- AuthSetting.removals.passkey,
    Ceremony <- AuthSetting.removals.ceremony,
    Grant <- AuthSetting.removals.grant,
    Session <- AuthSetting.removals.session,
    Request <- AuthSetting.removals.request,
    MaxCount <- AuthSetting.removals.maxCount,
    MaxEra <- AuthSetting.removals.maxEra,
    Settled <- AuthSetting.removals.settled

\* Assertions of a settled owner.
Counters == INSTANCE AuthProofs WITH
    accepted <- acceptedCounts, Passkey <- AuthSetting.counters.passkey,
    Ceremony <- AuthSetting.counters.ceremony,
    Grant <- AuthSetting.counters.grant,
    Session <- AuthSetting.counters.session,
    Request <- AuthSetting.counters.request,
    MaxCount <- AuthSetting.counters.maxCount,
    MaxEra <- AuthSetting.counters.maxEra,
    Settled <- AuthSetting.counters.settled

\* Sections page by page.
Pages == INSTANCE HomeProofs WITH
    Mail <- HomeSetting.pages.mail, Traits <- HomeSetting.pages.traits,
    Present <- HomeSetting.pages.present,
    SectionPage <- HomeSetting.pages.sectionPage,
    MaxPage <- HomeSetting.pages.maxPage,
    MaxVisits <- HomeSetting.pages.maxVisits,
    MaxChanges <- HomeSetting.pages.maxChanges,
    MaxRefreshes <- HomeSetting.pages.maxRefreshes,
    Evaluates <- HomeSetting.pages.evaluates

\* Mail arriving around visits.
Arrivals == INSTANCE HomeProofs WITH
    Mail <- HomeSetting.arrivals.mail, Traits <- HomeSetting.arrivals.traits,
    Present <- HomeSetting.arrivals.present,
    SectionPage <- HomeSetting.arrivals.sectionPage,
    MaxPage <- HomeSetting.arrivals.maxPage,
    MaxVisits <- HomeSetting.arrivals.maxVisits,
    MaxChanges <- HomeSetting.arrivals.maxChanges,
    MaxRefreshes <- HomeSetting.arrivals.maxRefreshes,
    Evaluates <- HomeSetting.arrivals.evaluates

\* The evaluation walks the attention sections.
Evaluation == INSTANCE HomeProofs WITH
    Mail <- HomeSetting.evaluation.mail,
    Traits <- HomeSetting.evaluation.traits,
    Present <- HomeSetting.evaluation.present,
    SectionPage <- HomeSetting.evaluation.sectionPage,
    MaxPage <- HomeSetting.evaluation.maxPage,
    MaxVisits <- HomeSetting.evaluation.maxVisits,
    MaxChanges <- HomeSetting.evaluation.maxChanges,
    MaxRefreshes <- HomeSetting.evaluation.maxRefreshes,
    Evaluates <- HomeSetting.evaluation.evaluates

-----------------------------------------------------------------------------
AccessInit ==
    /\ \/ scenario \notin {"revoked", "removals", "counters"} /\ Setup!Init
       \/ scenario = "revoked" /\ Revoked!Init
       \/ scenario = "removals" /\ Removals!Init
       \/ scenario = "counters" /\ Counters!Init
    /\ \/ scenario \notin {"arrivals", "evaluation"} /\ Pages!Init
       \/ scenario = "arrivals" /\ Arrivals!Init
       \/ scenario = "evaluation" /\ Evaluation!Init

AuthMoves ==
    \/ scenario = "setup" /\ Setup!Next
    \/ scenario = "revoked" /\ Revoked!Next
    \/ scenario = "removals" /\ Removals!Next
    \/ scenario = "counters" /\ Counters!Next

HomeMoves ==
    \/ scenario = "pages" /\ Pages!Next
    \/ scenario = "arrivals" /\ Arrivals!Next
    \/ scenario = "evaluation" /\ Evaluation!Next

AccessNext ==
    /\ UNCHANGED scenario
    /\ \/ AuthMoves /\ UNCHANGED homeVars
       \/ HomeMoves /\ UNCHANGED authVars

accessVars == <<scenario, authVars, homeVars>>

AccessSpec == AccessInit /\ [][AccessNext]_accessVars

-----------------------------------------------------------------------------
(* What was revoked stays revoked whatever was in flight, an assertion is  *)
(* accepted once, and removals that run together leave a passkey           *)
(* (consumeChallenge, consumeGrant, requireLiveCredential, lockOwner).     *)
AccessIsRevoked ==
    /\ [](
        /\ scenario = "setup" =>
            /\ Setup!NothingOutlivesRevocation
            /\ Setup!AcceptedOnce
        /\ scenario = "revoked" =>
            /\ Revoked!NothingOutlivesRevocation
            /\ Revoked!AcceptedOnce
        /\ scenario = "removals" => Removals!NothingOutlivesRevocation
        /\ scenario = "counters" => Counters!AcceptedOnce)
    /\ [][scenario = "removals" => Removals!LeavesAPasskey]_accessVars

(* Paging to the end shows every conversation that stayed in its place, in *)
(* the order of the ranking, and the evaluation reports missing only what  *)
(* no section held (encodeCursor, ranking.ts, evaluateHome).               *)
HomeShowsAll ==
    /\ scenario = "pages" => Pages!HomeShowsAll
    /\ scenario = "arrivals" => Arrivals!HomeShowsAll
    /\ scenario = "evaluation" => Evaluation!HomeShowsAll

=============================================================================
