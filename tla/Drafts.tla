------------------------------- MODULE Drafts -------------------------------
(***************************************************************************)
(* Drafts, uploads and the freeze of a send: packages/compose and          *)
(* queueSend of packages/send.  Every action is one database transaction,  *)
(* except those of a send request, which reads the draft's links, the key, *)
(* the draft and its files one after the other before the transaction that *)
(* freezes them.  Other requests commit in between.                        *)
(*                                                                         *)
(* The recovery gate passes (RecoveryControls models it) and the input is  *)
(* valid: an invalid one is refused before anything is written.            *)
(***************************************************************************)
EXTENDS Naturals, FiniteSets

CONSTANTS
    Draft,          \* the drafts rows that may exist
    Upload,         \* the uploads that may exist
    Key,            \* idempotency keys
    NoKey,
    Text,           \* what the editable fields of a draft may hold
    Request,        \* send requests, each made once
    MaxRevision,    \* bound: revisions of one draft
    MaxOrdinal      \* bound: attachment positions of one draft

ASSUME DraftsAssumption ==
    /\ NoKey \notin Key
    /\ Draft # {} /\ Key # {} /\ Text # {}
    /\ MaxRevision \in Nat \ {0} /\ MaxOrdinal \in Nat

VARIABLES
    draft,      \* the drafts rows and their draft_uploads links
    upload,     \* what durable storage and the uploads table hold
    outbound,   \* the outbound snapshot of each idempotency key
    request     \* the send requests in progress

vars == <<draft, upload, outbound, request>>

-----------------------------------------------------------------------------
(* A link is the position of an upload in a draft, 0 for no link.          *)
Files == [Upload -> 0 .. MaxOrdinal]
NoFiles == [u \in Upload |-> 0]

DraftRow ==
    [state : {"absent", "live", "deleted"}, revision : 1 .. MaxRevision,
     text : Text, files : Files, lockedBy : Key \cup {NoKey}]

Unresolved == {"queued", "outcome_unknown"}    \* sending is queued here

Snapshot ==
    [status : Unresolved \cup {"none", "sent", "failed"},
     draft : Draft, revision : 1 .. MaxRevision, text : Text, files : Files]

(* linked is the file set of the request hash, files the one composed.     *)
SendRequest ==
    [at : {"unsent", "hashed", "fresh", "loaded", "composed",
           "created", "replayed", "refused"},
     draft : Draft, base : 1 .. MaxRevision, key : Key,
     text : Text, linked : Files, files : Files]

TypeOK ==
    /\ draft \in [Draft -> DraftRow]
    /\ upload \in [Upload -> {"absent", "stored", "recorded"}]
    /\ outbound \in [Key -> Snapshot]
    /\ request \in [Request -> SendRequest]

FromZero(text, files) ==    \* a slip: revisions begin at 0
    [state |-> "live", revision |-> 0, text |-> text, files |-> files,
     lockedBy |-> NoKey]

Fresh(text, files) ==
    [state |-> "live", revision |-> 1, text |-> text, files |-> files,
     lockedBy |-> NoKey]

AnyDraft == CHOOSE d \in Draft : TRUE
AnyKey == CHOOSE k \in Key : TRUE
AnyText == CHOOSE t \in Text : TRUE

(* A request that is not in progress; what it read is forgotten.           *)
Idle(at) ==
    [at |-> at, draft |-> AnyDraft, base |-> 1, key |-> AnyKey,
     text |-> AnyText, linked |-> NoFiles, files |-> NoFiles]

Init ==
    /\ draft = [d \in Draft |-> [Fresh(AnyText, NoFiles) EXCEPT !.state = "absent"]]
    /\ upload = [u \in Upload |-> "absent"]
    /\ outbound = [k \in Key |->
                    [status |-> "none", draft |-> AnyDraft, revision |-> 1,
                     text |-> AnyText, files |-> NoFiles]]
    /\ request = [r \in Request |-> Idle("unsent")]

-----------------------------------------------------------------------------
(* The drafts service.                                                     *)

CreateDraft(d, t) ==
    /\ draft[d].state = "absent"
    /\ draft' = [draft EXCEPT ![d] = Fresh(t, NoFiles)]
    /\ UNCHANGED <<upload, outbound, request>>

(* lockEditableDraft.                                                      *)
Editable(row) == row.state = "live" /\ row.lockedBy = NoKey

EditWithoutRevision(d, base, t) ==    \* a slip: the text moves alone
    /\ Editable(draft[d]) /\ draft[d].revision = base
    /\ draft' = [draft EXCEPT ![d].text = t]
    /\ UNCHANGED <<upload, outbound, request>>

(* A stale base is refused; an edit that changes a field moves the         *)
(* revision.                                                               *)
UpdateDraft(d, base, t) ==
    /\ Editable(draft[d]) /\ draft[d].revision = base
    /\ base < MaxRevision
    /\ draft' = [draft EXCEPT ![d].text = t, ![d].revision = base + 1]
    /\ UNCHANGED <<upload, outbound, request>>

DeleteDraft(d) ==
    /\ Editable(draft[d])
    /\ draft' = [draft EXCEPT ![d].state = "deleted"]
    /\ UNCHANGED <<upload, outbound, request>>

(* createUpload: the bytes are durable and verified before the row.        *)
StoreUpload(u) ==
    /\ upload[u] = "absent"
    /\ upload' = [upload EXCEPT ![u] = "stored"]
    /\ UNCHANGED <<draft, outbound, request>>

RecordUpload(u) ==
    /\ upload[u] = "stored"
    /\ upload' = [upload EXCEPT ![u] = "recorded"]
    /\ UNCHANGED <<draft, outbound, request>>

(* nextOrdinal: n is one past the highest position.                        *)
NextOrdinal(files, n) ==
    /\ \A u \in Upload : files[u] < n
    /\ n = 1 \/ \E u \in Upload : files[u] = n - 1

(* A repeated attach answers from the recorded link.  The budget of the    *)
(* attachments' sizes refuses like any other invalid input.                *)
AttachUpload(d, u) ==
    /\ Editable(draft[d]) /\ upload[u] = "recorded"
    /\ draft[d].files[u] = 0
    /\ \E n \in 1 .. MaxOrdinal :
        /\ NextOrdinal(draft[d].files, n)
        /\ draft' = [draft EXCEPT ![d].files[u] = n]
    /\ UNCHANGED <<upload, outbound, request>>

DetachUpload(d, u) ==
    /\ Editable(draft[d]) /\ draft[d].files[u] # 0
    /\ draft' = [draft EXCEPT ![d].files[u] = 0]
    /\ UNCHANGED <<upload, outbound, request>>

(* createResendDraft: a copy of a snapshot whose outcome is unknown.       *)
CreateResendDraft(k, d) ==
    /\ outbound[k].status = "outcome_unknown" /\ draft[d].state = "absent"
    /\ draft' = [draft EXCEPT ![d] = Fresh(outbound[k].text, outbound[k].files)]
    /\ UNCHANGED <<upload, outbound, request>>

-----------------------------------------------------------------------------
(* queueSend.                                                              *)

At(r, where) == request[r].at = where

(* The request hash is taken over links read without a lock.               *)
AskSend(r, d, base, k) ==
    /\ At(r, "unsent") /\ draft[d].state # "absent"
    /\ base \in 1 .. draft[d].revision
    /\ request' = [request EXCEPT ![r].at = "hashed", ![r].draft = d,
                        ![r].base = base, ![r].key = k, ![r].linked = draft[d].files]
    /\ UNCHANGED <<draft, upload, outbound>>

(* existingSnapshot: the key's snapshot, or a conflict.                    *)
SameDraft(s, q) == s.draft = q.draft    \* a slip: the hash leaves parts out

SameRequest(s, q) ==
    s.draft = q.draft /\ s.revision = q.base /\ s.files = q.linked

Replay(r) ==
    request' = [request EXCEPT ![r] =
        IF SameRequest(outbound[@.key], @)
        THEN [@ EXCEPT !.at = "replayed"] ELSE Idle("refused")]

Refuse(r) == request' = [request EXCEPT ![r] = Idle("refused")]

(* A request that lost the lock to one with the same key answers with that *)
(* one's snapshot.                                                         *)
LosesLock(r) ==
    IF outbound[request[r].key].status = "none" THEN Refuse(r) ELSE Replay(r)

FindKey(r) ==
    /\ At(r, "hashed")
    /\ IF outbound[request[r].key].status = "none"
       THEN request' = [request EXCEPT ![r].at = "fresh"]
       ELSE Replay(r)
    /\ UNCHANGED <<draft, upload, outbound>>

(* The checks before and, again, inside the transaction.                   *)
SendCheck(row, base) ==
    CASE row.state # "live"   -> "not_found"
      [] row.revision # base  -> "draft_stale"
      [] row.lockedBy # NoKey -> "draft_locked"
      [] OTHER                -> "ok"

LoadDraft(r) ==
    LET row == draft[request[r].draft]
        check == SendCheck(row, request[r].base)
    IN  /\ At(r, "fresh")
        /\ CASE check = "ok" ->
                  request' = [request EXCEPT ![r].at = "loaded", ![r].text = row.text]
             [] check = "draft_locked" -> LosesLock(r)
             [] OTHER -> Refuse(r)
        /\ UNCHANGED <<draft, upload, outbound>>

(* Every file is read and verified, the message is composed from them and  *)
(* stored.  A missing or changed file ends the request.                    *)
ComposeMessage(r) ==
    /\ At(r, "loaded")
    /\ \/ request' = [request EXCEPT ![r].at = "composed",
                            ![r].files = draft[request[r].draft].files]
       \/ Refuse(r)
    /\ UNCHANGED <<draft, upload, outbound>>

AnyFiles(row, q) == TRUE    \* a slip: the links are not read again
MatchesFrozen(row, q) == row.files = q.files

(* freezeSnapshot: the snapshot and the draft's lock in one transaction.   *)
CommitSend(r) ==
    LET q == request[r]
        row == draft[q.draft]
        check == SendCheck(row, q.base)
    IN  /\ At(r, "composed")
        /\ CASE check = "draft_locked" ->
                  LosesLock(r) /\ UNCHANGED <<draft, outbound>>
             [] check = "ok" /\ MatchesFrozen(row, q) /\ outbound[q.key].status = "none" ->
                  /\ outbound' = [outbound EXCEPT ![q.key] =
                        [status |-> "queued", draft |-> q.draft, revision |-> q.base,
                         text |-> q.text, files |-> q.files]]
                  /\ draft' = [draft EXCEPT ![q.draft].lockedBy = q.key]
                  /\ request' = [request EXCEPT ![r] = Idle("created")]
             [] check # "draft_locked" /\ ~(check = "ok" /\ MatchesFrozen(row, q)
                                            /\ outbound[q.key].status = "none") ->
                  Refuse(r) /\ UNCHANGED <<draft, outbound>>
        /\ UNCHANGED upload

(* The worker ends or holds the attempt; a definitive outcome releases the *)
(* drafts the snapshot's row has locked (Outbound models the execution).   *)
Resolve(k, status) ==
    /\ outbound[k].status \in Unresolved
    /\ outbound' = [outbound EXCEPT ![k].status = status]
    /\ draft' = [d \in Draft |->
                    IF status \in {"sent", "failed"} /\ draft[d].lockedBy = k
                    THEN [draft[d] EXCEPT !.lockedBy = NoKey] ELSE draft[d]]
    /\ UNCHANGED <<upload, request>>

-----------------------------------------------------------------------------
DraftStep(d) ==
    \/ \E t \in Text : CreateDraft(d, t)
    \/ \E base \in 1 .. MaxRevision, t \in Text : UpdateDraft(d, base, t)
    \/ DeleteDraft(d)
    \/ \E u \in Upload : AttachUpload(d, u) \/ DetachUpload(d, u)
    \/ \E k \in Key : CreateResendDraft(k, d)

SendStep(r) ==
    \/ \E d \in Draft, base \in 1 .. MaxRevision, k \in Key : AskSend(r, d, base, k)
    \/ FindKey(r) \/ LoadDraft(r) \/ ComposeMessage(r) \/ CommitSend(r)

Next ==
    \/ \E d \in Draft : DraftStep(d)
    \/ \E u \in Upload : StoreUpload(u) \/ RecordUpload(u)
    \/ \E r \in Request : SendStep(r)
    \/ \E k \in Key, status \in {"sent", "failed", "outcome_unknown"} : Resolve(k, status)

Spec == Init /\ [][Next]_vars

-----------------------------------------------------------------------------
(* While the outcome of a send is open its draft is locked by it, and is,  *)
(* word for word and file for file, what the snapshot froze: no edit, no   *)
(* attachment change and no second send came in between the unlocked reads *)
(* of freezeSnapshot and its transaction, or slips in afterwards.          *)
FrozenDraftIsTheSnapshot ==
    \A k \in Key : outbound[k].status \in Unresolved =>
        LET row == draft[outbound[k].draft]
        IN  /\ row.state = "live" /\ row.lockedBy = k
            /\ row.revision = outbound[k].revision
            /\ row.text = outbound[k].text /\ row.files = outbound[k].files

(* What a send read of its draft before it composed the message is still   *)
(* what the draft holds at that revision: every edit of a text moves the   *)
(* revision, so the check inside the transaction finds it (updateDraft).   *)
LoadedIsCurrent ==
    \A r \in Request : request[r].at \in {"loaded", "composed"} =>
        LET row == draft[request[r].draft]
        IN  /\ row.state # "absent" /\ request[r].base <= row.revision
            /\ request[r].base = row.revision => row.text = request[r].text

(* A key answers with a stored snapshot only to a repetition of the        *)
(* request the snapshot answers: same draft, same revision, and the files  *)
(* the repetition read (existingSnapshot).                                 *)
ReplayIsTheSameRequest ==
    \A r \in Request : At(r, "replayed") =>
        LET s == outbound[request[r].key]
        IN  /\ s.status # "none"
            /\ s.draft = request[r].draft /\ s.revision = request[r].base
            /\ s.files = request[r].linked
=============================================================================
