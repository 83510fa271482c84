------------------------------- MODULE Reply -------------------------------
(***************************************************************************)
(* A reply, from the message it answers to its draft (compose/src/         *)
(* reply.ts, service.ts createReplyDraft, compose-screen.tsx ReplyChoice). *)
(*                                                                         *)
(* The server derives the From identity, the recipients and the reply      *)
(* headers from the stored headers of the parent alone.  What it cannot    *)
(* derive it asks for, by a rejection the dialog turns into a question and *)
(* repeats with the answer.  Between a question and its answer another     *)
(* account may receive a copy of the parent and the owner may change the   *)
(* identities; a reply that is sent becomes a parent itself.               *)
(*                                                                         *)
(* The request and its answer are one step here: late answers are those of *)
(* ComposeScreen, quotes and subjects are left out.                        *)
(***************************************************************************)
EXTENDS Naturals, Sequences, FiniteSets, SequencesExt

CONSTANTS
    Accounts, Home,   \* the accounts, and the one of the selected row
    Addresses,        \* addresses as identities and drafts store them
    Written,          \* spellings that headers carry
    KeyOf,            \* the address of each spelling, trimmed and in lower case
    Unsendable,       \* spellings no mail can be sent to
    Headers,          \* the parents that may be received
    Chosen,           \* the recipient the owner names when asked
    MaxChanges        \* bound: changes of the identities

VARIABLES
    parent,       \* the stored headers of the selected message
    holders,      \* accounts that hold it byte for byte
    identities,   \* the configured identities of each account
    accountsShown, \* the same, as the page read them
    dialog,       \* the reply request and the open question
    draft,        \* the draft the server made
    questions,    \* history: what this reply was asked
    lineage,      \* history: identifiers a reply to our own reply must name
    identityChanges \* number of identity changes

vars == <<parent, holders, identities, accountsShown, dialog, draft, questions, lineage, identityChanges>>

Absent == <<"absent">>      \* a header that is not there
Nobody == "nobody"
NoParent == [sender |-> Nobody, replyTo |-> Absent, to |-> <<>>, cc |-> <<>>,
             messageId |-> <<>>, inReplyTo |-> <<>>, referenceIds |-> <<>>]
NoDialog == [step |-> "closed", mode |-> "reply", account |-> Nobody, identity |-> Nobody,
             recipients |-> Absent, offered |-> {}]
NoDraft == [account |-> Nobody, identity |-> Nobody, to |-> <<>>, cc |-> <<>>, derived |-> FALSE,
            own |-> {}, inReplyTo |-> <<>>, referenceIds |-> <<>>]

TypeOK ==
    /\ holders \subseteq Accounts
    /\ identities \in [Accounts -> SUBSET Addresses]
    /\ accountsShown \in [Accounts -> SUBSET Addresses]
    /\ dialog.step \in {"closed", "asking", "account", "identity", "recipients", "failed", "drafted"}
    /\ dialog.account \in Accounts \cup {Nobody}
    /\ dialog.identity \in Addresses \cup {Nobody}
    /\ draft.account \in Accounts \cup {Nobody}
    /\ identityChanges \in 0 .. MaxChanges

Init ==
    /\ parent = NoParent /\ holders = {}
    /\ identities = [a \in Accounts |-> Addresses] /\ accountsShown = identities
    /\ dialog = NoDialog /\ draft = NoDraft
    /\ questions = <<>> /\ lineage = <<>> /\ identityChanges = 0

-----------------------------------------------------------------------------
(* The derivations; an error is the list Correction.                       *)

Correction == <<"correction">>
Distinct(ids) == FoldLeft(LAMBDA kept, id : IF Contains(kept, id) THEN kept ELSE Append(kept, id),
                          <<>>, ids)

\* Headers hold the bracketed identifiers in order; only a single one is valid
\* as the parent's own or as its In-Reply-To.
Single(ids) == IF Len(Distinct(ids)) = 1 THEN <<ids[1]>> ELSE <<>>

FreezeReplyReferences(p) ==
    LET references == Distinct(p.referenceIds)
        ancestors == IF references # <<>> THEN references ELSE Single(p.inReplyTo)
    IN  [inReplyTo |-> Single(p.messageId), referenceIds |-> Distinct(ancestors \o Single(p.messageId))]

Keys(list) == [i \in DOMAIN list |-> KeyOf[list[i]]]
Visible(p) == {KeyOf[w] : w \in ToSet(p.to \o p.cc)}

PreselectReplyIdentity(p, configured) ==
    LET matches == configured \cap Visible(p)
    IN  IF p.sender # Nobody /\ KeyOf[p.sender] \in configured THEN KeyOf[p.sender]
        ELSE IF Cardinality(matches) = 1 THEN CHOOSE i \in matches : TRUE
        ELSE Nobody

PrimaryRecipients(p) ==
    IF p.replyTo = Absent THEN (IF p.sender = Nobody THEN <<>> ELSE <<p.sender>>)
    ELSE IF p.replyTo = <<>> THEN Correction
    ELSE p.replyTo

UsableAddressesKeepingOwn(list, own, earlier) ==
    IF list = Correction \/ earlier = Correction \/ ToSet(list) \cap Unsendable # {} THEN Correction
    ELSE SelectSeq(Distinct(Keys(list)), LAMBDA a : ~Contains(earlier, a))

UsableAddresses(list, own, earlier) ==
    IF list = Correction \/ earlier = Correction \/ ToSet(list) \cap Unsendable # {} THEN Correction
    ELSE SelectSeq(Distinct(Keys(list)), LAMBDA a : a \notin own /\ ~Contains(earlier, a))

RequireRecipients(to, cc) ==
    IF to = Correction \/ cc = Correction \/ to \o cc = <<>>
    THEN [to |-> Correction, cc |-> <<>>]
    ELSE [to |-> to, cc |-> cc]

DeriveReplyRecipients(p, own, mode) ==
    LET mine == p.sender # Nobody /\ KeyOf[p.sender] \in own
        to == UsableAddresses(IF mine THEN p.to ELSE PrimaryRecipients(p), own, <<>>)
        cc == UsableAddresses(IF mine THEN p.cc ELSE p.to \o p.cc, own, to)
    IN  RequireRecipients(to, IF mine \/ mode = "reply_all" THEN cc ELSE <<>>)

-----------------------------------------------------------------------------
(* Mail, accounts and the page.                                            *)

Receive ==
    /\ parent = NoParent
    /\ \E h \in Headers : parent' = h
    /\ holders' = {Home}
    /\ UNCHANGED <<identities, accountsShown, dialog, draft, questions, lineage, identityChanges>>

\* Another account syncs the same original.
CopyArrives ==
    /\ parent # NoParent
    /\ \E a \in Accounts \ holders : holders' = holders \cup {a}
    /\ UNCHANGED <<parent, identities, accountsShown, dialog, draft, questions, lineage, identityChanges>>

Configure ==
    /\ identityChanges < MaxChanges
    /\ \E a \in Accounts, S \in SUBSET Addresses :
          S # identities[a] /\ identities' = [identities EXCEPT ![a] = S]
    /\ identityChanges' = identityChanges + 1
    /\ UNCHANGED <<parent, holders, accountsShown, dialog, draft, questions, lineage>>

ReadAccounts ==
    /\ accountsShown # identities
    /\ accountsShown' = identities
    /\ UNCHANGED <<parent, holders, identities, dialog, draft, questions, lineage, identityChanges>>

-----------------------------------------------------------------------------
(* The dialog asks; the server derives or rejects with a choice code.      *)

StartReply(mode, account) ==
    /\ parent # NoParent /\ dialog.step \in {"closed", "failed", "drafted"}
    /\ dialog' = [NoDialog EXCEPT !.step = "asking", !.mode = mode, !.account = account]
    /\ questions' = <<>> /\ draft' = NoDraft
    /\ UNCHANGED <<parent, holders, identities, accountsShown, lineage, identityChanges>>

\* resolveReplyParent: a grouped row needs a named account, a named one a copy.
Grouped == holders # {Home}
AccountUnclear == dialog.account = Nobody /\ Grouped
HoldsNoCopy == dialog.account # Nobody /\ dialog.account \notin holders
Target == IF dialog.account = Nobody THEN Home ELSE dialog.account

Identity == IF dialog.identity # Nobody THEN dialog.identity
            ELSE PreselectReplyIdentity(parent, identities[Target])
IdentityGone == dialog.identity # Nobody /\ dialog.identity \notin identities[Target]
Recipients == IF dialog.recipients # Absent
              THEN [to |-> Distinct(dialog.recipients), cc |-> <<>>]
              ELSE DeriveReplyRecipients(parent, identities[Target], dialog.mode)

Ask(step) ==
    /\ dialog' = [dialog EXCEPT !.step = step,
                                !.offered = IF step = "identity" THEN accountsShown[dialog.account] ELSE {}]
    /\ questions' = Append(questions, step)
    /\ UNCHANGED draft

\* The dialog asks for the account first when an identity is missing and none
\* was named: it could not list the identities the server accepts.
QuestionFor(rejection) ==
    IF rejection = "identity" /\ dialog.account = Nobody THEN "account" ELSE rejection

Create ==
    LET r == Recipients
        refs == FreezeReplyReferences(parent)
    IN  /\ draft' = [account |-> Target, identity |-> Identity, to |-> r.to, cc |-> r.cc,
                     derived |-> dialog.recipients = Absent, own |-> identities[Target],
                     inReplyTo |-> refs.inReplyTo, referenceIds |-> refs.referenceIds]
        /\ dialog' = [dialog EXCEPT !.step = "drafted"]
        /\ UNCHANGED questions

CreateReplyDraft ==
    /\ dialog.step = "asking"
    /\ IF AccountUnclear THEN Ask("account")
       ELSE IF HoldsNoCopy \/ IdentityGone
            THEN dialog' = [dialog EXCEPT !.step = "failed"] /\ UNCHANGED <<draft, questions>>
       ELSE IF Identity = Nobody THEN Ask(QuestionFor("identity"))
       ELSE IF Recipients.to = Correction THEN Ask("recipients")
       ELSE Create
    /\ UNCHANGED <<parent, holders, identities, accountsShown, lineage, identityChanges>>

\* The account question lists every account the page knows of.
PickAccount ==
    /\ dialog.step = "account"
    /\ \E a \in Accounts : dialog' = [dialog EXCEPT !.step = "asking", !.account = a]
    /\ UNCHANGED <<parent, holders, identities, accountsShown, draft, questions, lineage, identityChanges>>

PickIdentity ==
    /\ dialog.step = "identity"
    /\ \E i \in dialog.offered : dialog' = [dialog EXCEPT !.step = "asking", !.identity = i]
    /\ UNCHANGED <<parent, holders, identities, accountsShown, draft, questions, lineage, identityChanges>>

PickRecipients ==
    /\ dialog.step = "recipients"
    /\ dialog' = [dialog EXCEPT !.step = "asking", !.recipients = <<Chosen>>]
    /\ UNCHANGED <<parent, holders, identities, accountsShown, draft, questions, lineage, identityChanges>>

Cancel ==
    /\ dialog.step \in {"account", "identity", "recipients"}
    /\ dialog' = NoDialog
    /\ UNCHANGED <<parent, holders, identities, accountsShown, draft, questions, lineage, identityChanges>>

\* The sent reply is a message of its own, with the headers its draft froze,
\* and can be answered in turn (once: the identifier it gets is Fresh).
Fresh == "sent"
SendReply ==
    /\ dialog.step = "drafted" /\ parent.messageId # <<Fresh>>
    /\ parent' = [sender |-> draft.identity, replyTo |-> Absent, to |-> draft.to, cc |-> draft.cc,
                  messageId |-> <<Fresh>>, inReplyTo |-> draft.inReplyTo,
                  referenceIds |-> draft.referenceIds]
    /\ lineage' = Append(draft.referenceIds, Fresh)
    /\ holders' = {draft.account}
    /\ draft.account = Home          \* the row the next reply starts from
    /\ dialog' = NoDialog /\ draft' = NoDraft /\ questions' = <<>>
    /\ UNCHANGED <<identities, accountsShown, identityChanges>>

Next ==
    \/ Receive \/ CopyArrives \/ Configure \/ ReadAccounts
    \/ \E mode \in {"reply", "reply_all"}, a \in {Nobody, Home} : StartReply(mode, a)
    \/ CreateReplyDraft \/ PickAccount \/ PickIdentity \/ PickRecipients \/ Cancel
    \/ SendReply

Spec == Init /\ [][Next]_vars

-----------------------------------------------------------------------------
(* What a reply draft promises.                                            *)

\* The From address is one of the account that holds the parent.
FromTheHolder ==
    draft # NoDraft => draft.account \in holders /\ draft.identity \in draft.own

\* Nobody is addressed twice, nobody is ourselves, and a reply to all misses
\* no one the parent showed.
ReachesTheOthers ==
    draft.derived =>
        LET all == draft.to \o draft.cc
        IN  /\ all # <<>> /\ IsInjective(all) /\ ToSet(all) \cap draft.own = {}
            /\ dialog.mode = "reply_all" => Visible(parent) \ draft.own \subseteq ToSet(all)

\* The reply headers name identifiers of the parent, each once, its own among
\* them, and a reply to our own reply keeps everything that one named.
NamesTheParent ==
    draft # NoDraft =>
        /\ IsInjective(draft.referenceIds)
        /\ ToSet(draft.inReplyTo) \subseteq ToSet(draft.referenceIds)
        /\ ToSet(draft.referenceIds) \subseteq ToSet(parent.messageId \o parent.inReplyTo \o parent.referenceIds)
        /\ lineage # <<>> => draft.referenceIds = lineage

\* No reply asks the owner the same question twice.
AsksOnce == IsInjective(questions)

\* A reply draft goes from the holding account to everyone but ourselves, in
\* the parent's thread, after each question at most once (createReplyDraft).
ReplyIsTheParents == FromTheHolder /\ ReachesTheOthers /\ NamesTheParent /\ AsksOnce
=============================================================================
