---------------------------- MODULE MCSending -----------------------------
(***************************************************************************)
(* Parts of the owner's side that share no variable, side by side: the     *)
(* outbound row and the compose dialog (OwnerSends), reply drafts, sign-in, *)
(* the sections of Home, and the scripted mail server of the tests.  The   *)
(* scenario says which part moves; the others rest in their initial state, *)
(* so the state spaces add up instead of multiplying.                      *)
(***************************************************************************)
EXTENDS OwnerSends, OwnerAccess, Sequences, TLC

CONSTANTS
    c1, c2, inboxPath, archivePath,
    k1, k2, g1, g2, s1, s2, r1, r2, m1, m2, m3

VARIABLES
    parent, holders, identities, accountsShown, dialog, draft, questions,
    lineage, identityChanges,
    boxes, paths, connections, heard, faultQueue, minted

replyVars == <<parent, holders, identities, accountsShown, dialog, draft,
              questions, lineage, identityChanges>>
imapVars == <<boxes, paths, connections, heard, faultQueue, minted>>

-----------------------------------------------------------------------------
(* Reply drafts.                                                           *)
\* Two spellings of the owner's address, a correspondent, an address no mail reaches.
Written == {"me", "Me", "alias", "ann", "bob", "bad"}
Spelled == [w \in Written |-> IF w = "Me" THEN "me" ELSE w]
ReplyHeaders(senders, replyTos, tos, ccs, own, inReplyTos, references) ==
    [sender : senders, replyTo : replyTos, to : tos, cc : ccs,
     messageId : own, inReplyTo : inReplyTos, referenceIds : references]
\* Every short combination of addresses, with one identifier; and of identifiers, with one address.
AddressHeaders ==
    ReplyHeaders({"nobody", "Me", "ann"}, {<<"absent">>, <<>>, <<"bad">>, <<"Me", "ann">>},
                 {<<>>, <<"me", "bob">>, <<"bob", "bob", "alias">>},
                 {<<>>, <<"alias", "ann">>}, {<<"p">>}, {<<>>}, {<<>>})
IdHeaders ==
    ReplyHeaders({"ann"}, {<<"absent">>}, {<<"me">>}, {<<>>}, {<<>>, <<"p">>, <<"p", "q">>},
                 {<<>>, <<"a">>, <<"a", "b">>, <<"p">>}, {<<>>, <<"a">>, <<"a", "a">>, <<"r", "a">>, <<"p", "a">>})


\* Every combination of a few addresses, an identity change.
Addressed == INSTANCE Reply WITH
    Accounts <- {"home", "work"}, Home <- "home",
    Addresses <- {"me", "alias"}, Written <- Written, KeyOf <- Spelled,
    Unsendable <- {"bad"}, Headers <- AddressHeaders, Chosen <- "ann",
    MaxChanges <- 1

\* Every combination of a few identifiers.
Referenced == INSTANCE Reply WITH
    Accounts <- {"home"}, Home <- "home", Addresses <- {"me"},
    Written <- Written, KeyOf <- Spelled, Unsendable <- {"bad"},
    Headers <- IdHeaders, Chosen <- "ann", MaxChanges <- 0

-----------------------------------------------------------------------------
(* The scripted IMAP server.                                               *)
\* Two connections on one folder: arrivals, removals and writes each learns of.
Numbering == INSTANCE ScriptedImap WITH
    Connection <- {c1, c2}, Folder <- {inboxPath}, MaxMessages <- 2,
    MaxModseq <- 3, MaxBoxes <- 1, MaxGeneration <- 1, MaxFaults <- 0

\* Copies, a replaced and a renumbered folder, a fault.
Faulting == INSTANCE ScriptedImap WITH
    Connection <- {c1}, Folder <- {inboxPath}, MaxMessages <- 2,
    MaxModseq <- 3, MaxBoxes <- 2, MaxGeneration <- 2, MaxFaults <- 1

-----------------------------------------------------------------------------
(* Sign-in of the owner.                                                   *)
FourSignIns ==
    [\* Two enrollments with two bootstrap grants on a fresh installation.
     setup |->
        [passkey |-> {k1, k2}, ceremony |-> {c1, c2}, grant |-> {g1, g2},
         session |-> {s1, s2}, request |-> {r1, r2}, maxCount |-> 0, maxEra |-> 0,
         settled |-> FALSE],
     \* Setup, sign-in, emergency, restore and re-enrollment.
     revoked |->
        [passkey |-> {k1, k2}, ceremony |-> {c1, c2}, grant |-> {g1, g2},
         session |-> {s1}, request |-> {r1}, maxCount |-> 1, maxEra |-> 2,
         settled |-> FALSE],
     \* Removals and an emergency around an owner with two passkeys.
     removals |->
        [passkey |-> {k1, k2}, ceremony |-> {c1}, grant |-> {g1},
         session |-> {s1, s2}, request |-> {r1, r2}, maxCount |-> 1, maxEra |-> 1,
         settled |-> TRUE],
     \* Two assertions of one passkey, perhaps of two devices.
     counters |->
        [passkey |-> {k1}, ceremony |-> {c1, c2}, grant |-> {},
         session |-> {s1, s2}, request |-> {r1, r2}, maxCount |-> 2, maxEra |-> 0,
         settled |-> TRUE]]

-----------------------------------------------------------------------------
(* What Home shows.                                                        *)
Trait(thread, id, signals, marks) ==
    [thread |-> thread, id |-> id, sent |-> 1, signals |-> signals, work |-> marks]
Apart == m1 :> Trait("a", 1, {"reply"}, {}) @@ m2 :> Trait("b", 2, {"reply"}, {"due"})
         @@ m3 :> Trait("c", 3, {"reply"}, {"starred"})
Grouped == m1 :> Trait("a", 1, {"reply"}, {}) @@ m2 :> Trait("b", 2, {"sure_action"}, {})
           @@ m3 :> Trait("a", 3, {"security_alert"}, {"starred"})

ThreeHomes ==
    [\* Three conversations of one date, page by page.
     pages |->
        [mail |-> {m1, m2, m3}, traits |-> [Apart EXCEPT ![m2].work = {}, ![m3].work = {}],
         present |-> {m1, m2, m3}, sectionPage |-> 1, maxPage |-> 2, maxVisits |-> 1,
         maxChanges |-> 2, maxRefreshes |-> 1, evaluates |-> FALSE],
     \* Mail arriving around two visits, two messages of one conversation.
     arrivals |->
        [mail |-> {m1, m2, m3}, traits |-> Grouped, present |-> {m1}, sectionPage |-> 1,
         maxPage |-> 2, maxVisits |-> 2, maxChanges |-> 1, maxRefreshes |-> 1,
         evaluates |-> FALSE],
     \* The evaluation walks the attention sections.
     evaluation |->
        [mail |-> {m1, m2, m3}, traits |-> Apart, present |-> {m1, m2}, sectionPage |-> 1,
         maxPage |-> 2, maxVisits |-> 1, maxChanges |-> 2, maxRefreshes |-> 0,
         evaluates |-> TRUE]]

\* What the theorems about sign-in and about Home ask of the constants.
ASSUME SettingValues ==
    /\ Setup!SomePasskeys /\ Revoked!SomePasskeys /\ Removals!SomePasskeys /\ Counters!SomePasskeys
    /\ Pages!HomeAssumption /\ Arrivals!HomeAssumption /\ Evaluation!HomeAssumption

-----------------------------------------------------------------------------
SendingInit ==
    /\ scenario \in {
        "sends", "composing", "addressing", "referencing",
        "numbers", "faulty", "setup", "revoked", "removals", "counters",
        "pages", "arrivals", "evaluation"}
    /\ OwnerInit
    /\ \/ scenario \notin {"referencing"} /\ Addressed!Init
       \/ scenario = "referencing" /\ Referenced!Init
    /\ \/ scenario \notin {"faulty"} /\ Numbering!Init
       \/ scenario = "faulty" /\ Faulting!Init
    /\ AccessInit
    /\ scenario # "sends" => mapped

ReplyMoves ==
    \/ scenario = "addressing" /\ Addressed!Next
    \/ scenario = "referencing" /\ Referenced!Next

ImapMoves ==
    \/ scenario = "numbers" /\ Numbering!Next
    \/ scenario = "faulty" /\ Faulting!Next

OwnerMoves ==
    \/ scenario = "sends" /\ OutboundMoves
    \/ scenario = "composing" /\ DialogMoves

SendingNext ==
    /\ UNCHANGED scenario
    /\ \/ OwnerMoves /\ UNCHANGED <<replyVars, imapVars, authVars, homeVars>>
       \/ ReplyMoves /\ UNCHANGED <<ownerVars, imapVars, authVars, homeVars>>
       \/ ImapMoves /\ UNCHANGED <<ownerVars, replyVars, authVars, homeVars>>
       \/ AuthMoves /\ UNCHANGED <<ownerVars, replyVars, imapVars, homeVars>>
       \/ HomeMoves /\ UNCHANGED <<ownerVars, replyVars, imapVars, authVars>>

allVars == <<scenario, ownerVars, replyVars, imapVars, authVars, homeVars>>

SendingSpec == SendingInit /\ [][SendingNext]_allVars

MCSymmetry == Permutations(Worker)

-----------------------------------------------------------------------------
(* The state of every other component keeps its type.                      *)
PartsTypeOK ==
    /\ scenario = "composing" => Dialog!TypeOK
    /\ scenario = "addressing" => Addressed!TypeOK
    /\ scenario = "referencing" => Referenced!TypeOK
    /\ scenario = "numbers" => Numbering!TypeOK
    /\ scenario = "faulty" => Faulting!TypeOK
    /\ scenario = "setup" => Setup!TypeOK
    /\ scenario = "revoked" => Revoked!TypeOK
    /\ scenario = "removals" => Removals!TypeOK
    /\ scenario = "counters" => Counters!TypeOK
    /\ scenario = "pages" => Pages!TypeOK
    /\ scenario = "arrivals" => Arrivals!TypeOK
    /\ scenario = "evaluation" => Evaluation!TypeOK

(* A reply goes from the holding account to everyone but ourselves         *)
(* (createReplyDraft).  A held modification sequence proves that nothing   *)
(* changed since, and the numbers a client counts by are the server's      *)
(* (bumpModseq, flushView).                                                *)
RepliesAndNumbersAreTrue ==
    /\ scenario = "addressing" => Addressed!ReplyIsTheParents
    /\ scenario = "referencing" => Referenced!ReplyIsTheParents
    /\ scenario = "numbers" => Numbering!ModseqIsProof /\ Numbering!NumbersAgree
    /\ scenario = "faulty" => Faulting!ModseqIsProof /\ Faulting!NumbersAgree

=============================================================================
