------------------------- MODULE DraftClientsProofs -------------------------
(***************************************************************************)
(* A draft and its clients, for any number of drafts, sends, devices,      *)
(* edits, queued actions, lost calls and restores: what a send froze stays *)
(* frozen, the editors keep the edits in their hands and overwrite nothing *)
(* unseen, and the offline queue neither forgets an edit nor lets a send   *)
(* overtake one.                                                           *)
(***************************************************************************)
EXTENDS DraftClients, FiniteSetTheorems, FunctionTheorems, SequenceTheorems, TLAPS

-----------------------------------------------------------------------------
(* The service.  What a send froze is inductive only together with         *)
(* LoadedIsCurrent, which carries the text a request read outside of any   *)
(* transaction to the one that freezes it.                                 *)

DraftsInv == TypeOK /\ LoadedIsCurrent /\ FrozenDraftIsTheSnapshot

-----------------------------------------------------------------------------
(* Values the actions build.                                               *)

LEMMA DefaultsTyped ==
    AnyDraft \in Draft /\ AnyKey \in Key /\ AnyText \in Text /\ NoFiles \in Files
BY DraftsAssumption DEF AnyDraft, AnyKey, AnyText, NoFiles, Files

LEMMA FreshTyped ==
    ASSUME NEW t \in Text, NEW files \in Files
    PROVE  Fresh(t, files) \in DraftRow
BY DraftsAssumption DEF Fresh, DraftRow

LEMMA IdleTyped ==
    ASSUME NEW at \in {"unsent", "refused", "created"}
    PROVE  Idle(at) \in SendRequest
BY DefaultsTyped, DraftsAssumption DEF Idle, SendRequest

(* A draft that no send has locked is frozen by no open snapshot.          *)
LEMMA UnlockedIsFree ==
    ASSUME TypeOK, FrozenDraftIsTheSnapshot, NEW d \in Draft,
           draft[d].lockedBy = NoKey \/ draft[d].state # "live",
           NEW k \in Key, outbound[k].status \in Unresolved
    PROVE  outbound[k].draft # d
BY DraftsAssumption DEF FrozenDraftIsTheSnapshot

-----------------------------------------------------------------------------
(* The drafts service.                                                     *)

(* A step that replaces one row, which is absent or editable, by one that  *)
(* is no older and keeps its text with its revision, keeps the invariant.  *)
LEMMA RowReplaced ==
    ASSUME DraftsInv, NEW d \in Draft, NEW row \in DraftRow,
           draft' = [draft EXCEPT ![d] = row],
           UNCHANGED <<upload, outbound, request>>,
           draft[d].state = "absent" \/ Editable(draft[d]),
           draft[d].state # "absent" =>
               /\ row.state # "absent" /\ draft[d].revision <= row.revision
               /\ row.revision = draft[d].revision => row.text = draft[d].text
    PROVE  DraftsInv'
<1>1. TypeOK'
    BY DEF DraftsInv, TypeOK
<1>2. LoadedIsCurrent'
  <2>1. SUFFICES ASSUME NEW r \in Request, request[r].at \in {"loaded", "composed"}
                 PROVE  LET after == draft'[request[r].draft]
                        IN  /\ after.state # "absent" /\ request[r].base <= after.revision
                            /\ request[r].base = after.revision => after.text = request[r].text
        BY DEF LoadedIsCurrent
  <2>2. /\ request[r].draft \in Draft /\ request[r].base \in Nat
        /\ draft[d].revision \in Nat /\ row.revision \in Nat
        BY DraftsAssumption DEF DraftsInv, TypeOK, SendRequest, DraftRow
  <2>3. LET before == draft[request[r].draft]
        IN  /\ before.state # "absent" /\ request[r].base <= before.revision
            /\ request[r].base = before.revision => before.text = request[r].text
        BY <2>1 DEF DraftsInv, LoadedIsCurrent
  <2>4. CASE request[r].draft = d
    <3>1. draft'[request[r].draft] = row
        BY <2>4 DEF DraftsInv, TypeOK
    <3>2. QED BY <2>2, <2>3, <2>4, <3>1
  <2>5. CASE request[r].draft # d
    <3>1. draft'[request[r].draft] = draft[request[r].draft]
        BY <2>2, <2>5 DEF DraftsInv, TypeOK
    <3>2. QED BY <2>3, <3>1
  <2>6. QED BY <2>4, <2>5
<1>3. FrozenDraftIsTheSnapshot'
  <2>1. SUFFICES ASSUME NEW k \in Key, outbound[k].status \in Unresolved
                 PROVE  draft'[outbound[k].draft] = draft[outbound[k].draft]
        BY DEF DraftsInv, FrozenDraftIsTheSnapshot
  <2>2. outbound[k].draft # d
        BY <2>1, UnlockedIsFree DEF DraftsInv, Editable
  <2>3. outbound[k].draft \in Draft
        BY DEF DraftsInv, TypeOK, Snapshot
  <2>4. QED BY <2>2, <2>3 DEF DraftsInv, TypeOK
<1>4. QED BY <1>1, <1>2, <1>3 DEF DraftsInv

LEMMA DraftStepKeeps ==
    ASSUME DraftsInv, NEW d \in Draft, DraftStep(d)
    PROVE  DraftsInv'
<1>0. draft \in [Draft -> DraftRow] /\ outbound \in [Key -> Snapshot]
    BY DEF DraftsInv, TypeOK
<1>1. ASSUME NEW t \in Text, CreateDraft(d, t) PROVE DraftsInv'
  <2>1. Fresh(t, NoFiles) \in DraftRow
        BY DefaultsTyped, FreshTyped
  <2>2. QED BY <1>1, <2>1, RowReplaced DEF CreateDraft
<1>2. ASSUME NEW base \in 1 .. MaxRevision, NEW t \in Text, UpdateDraft(d, base, t)
      PROVE  DraftsInv'
  <2> DEFINE row == [draft[d] EXCEPT !.text = t, !.revision = base + 1]
  <2>1. draft' = [draft EXCEPT ![d] = row]
        BY <1>0, <1>2 DEF UpdateDraft
  <2>2. row \in DraftRow
        BY <1>0, <1>2, DraftsAssumption DEF UpdateDraft, DraftRow
  <2>3. /\ row.state = draft[d].state /\ row.revision = base + 1
        /\ draft[d].revision = base
        BY <1>0, <1>2 DEF UpdateDraft, DraftRow
  <2>4. Editable(draft[d]) /\ UNCHANGED <<upload, outbound, request>>
        BY <1>2 DEF UpdateDraft
  <2>5. draft[d].state = "absent" \/ Editable(draft[d])
        BY <2>4
  <2>6. /\ row.state # "absent" /\ draft[d].revision <= row.revision
        /\ row.revision = draft[d].revision => row.text = draft[d].text
        BY <2>3, <2>4, DraftsAssumption DEF Editable
  <2> HIDE DEF row
  <2>7. QED BY <2>1, <2>2, <2>4, <2>5, <2>6, RowReplaced
<1>3. CASE DeleteDraft(d)
  <2> DEFINE row == [draft[d] EXCEPT !.state = "deleted"]
  <2>1. draft' = [draft EXCEPT ![d] = row]
        BY <1>0, <1>3 DEF DeleteDraft
  <2>2. row \in DraftRow
        BY <1>0 DEF DraftRow
  <2>3. /\ row.state = "deleted" /\ row.revision = draft[d].revision
        /\ row.text = draft[d].text /\ draft[d].revision \in Nat
        BY <1>0, DraftsAssumption DEF DraftRow
  <2>4. Editable(draft[d]) /\ UNCHANGED <<upload, outbound, request>>
        BY <1>3 DEF DeleteDraft
  <2>5. /\ row.state # "absent" /\ draft[d].revision <= row.revision
        /\ row.revision = draft[d].revision => row.text = draft[d].text
        BY <2>3
  <2> HIDE DEF row
  <2>6. QED BY <2>1, <2>2, <2>4, <2>5, RowReplaced
<1>4. ASSUME NEW u \in Upload, NEW n \in 0 .. MaxOrdinal, Editable(draft[d]),
             draft' = [draft EXCEPT ![d].files[u] = n],
             UNCHANGED <<upload, outbound, request>>
      PROVE  DraftsInv'
  <2> DEFINE row == [draft[d] EXCEPT !.files[u] = n]
  <2>1. draft' = [draft EXCEPT ![d] = row]
        BY <1>0, <1>4
  <2>2. row \in DraftRow
        BY <1>0 DEF DraftRow, Files
  <2>3. /\ row.state = draft[d].state /\ row.revision = draft[d].revision
        /\ row.text = draft[d].text /\ draft[d].revision \in Nat
        BY <1>0, DraftsAssumption DEF DraftRow
  <2>4. draft[d].state # "absent" =>
            /\ row.state # "absent" /\ draft[d].revision <= row.revision
            /\ row.revision = draft[d].revision => row.text = draft[d].text
        BY <2>3
  <2> HIDE DEF row
  <2>5. QED BY <1>4, <2>1, <2>2, <2>4, RowReplaced
<1>5. ASSUME NEW u \in Upload, AttachUpload(d, u) PROVE DraftsInv'
  <2>1. PICK n \in 1 .. MaxOrdinal : draft' = [draft EXCEPT ![d].files[u] = n]
        BY <1>5 DEF AttachUpload
  <2>2. n \in 0 .. MaxOrdinal
        BY DraftsAssumption
  <2>3. QED BY <1>4, <1>5, <2>1, <2>2 DEF AttachUpload
<1>6. ASSUME NEW u \in Upload, DetachUpload(d, u) PROVE DraftsInv'
  <2>1. Editable(draft[d]) /\ UNCHANGED <<upload, outbound, request>>
        /\ draft' = [draft EXCEPT ![d].files[u] = 0]
        BY <1>6 DEF DetachUpload
  <2>2. 0 \in 0 .. MaxOrdinal
        BY DraftsAssumption
  <2>3. QED BY <1>4, <2>1, <2>2
<1>7. ASSUME NEW k \in Key, CreateResendDraft(k, d) PROVE DraftsInv'
  <2>1. Fresh(outbound[k].text, outbound[k].files) \in DraftRow
        BY <1>0, FreshTyped DEF Snapshot
  <2>2. QED BY <1>7, <2>1, RowReplaced DEF CreateResendDraft
<1>8. QED BY <1>1, <1>2, <1>3, <1>5, <1>6, <1>7 DEF DraftStep

-----------------------------------------------------------------------------
(* queueSend.                                                              *)

(* A step that only moves a request, and takes it to "loaded" or           *)
(* "composed" only with what its draft holds, keeps the invariant.         *)
LEMMA RequestMoved ==
    ASSUME DraftsInv, NEW r \in Request, NEW q \in SendRequest,
           request' = [request EXCEPT ![r] = q],
           UNCHANGED <<draft, upload, outbound>>,
           q.at \in {"loaded", "composed"} =>
               /\ draft[q.draft].state # "absent" /\ q.base <= draft[q.draft].revision
               /\ q.base = draft[q.draft].revision => draft[q.draft].text = q.text
    PROVE  DraftsInv'
<1>1. TypeOK'
    BY DEF DraftsInv, TypeOK
<1>2. LoadedIsCurrent'
  <2>1. SUFFICES ASSUME NEW p \in Request, request'[p].at \in {"loaded", "composed"}
                 PROVE  LET row == draft[request'[p].draft]
                        IN  /\ row.state # "absent" /\ request'[p].base <= row.revision
                            /\ request'[p].base = row.revision => row.text = request'[p].text
        BY DEF LoadedIsCurrent
  <2>2. CASE p = r
    <3>1. request'[p] = q
        BY <2>2 DEF DraftsInv, TypeOK
    <3>2. QED BY <2>1, <3>1
  <2>3. CASE p # r
    <3>1. request'[p] = request[p]
        BY <2>3 DEF DraftsInv, TypeOK
    <3>2. QED BY <2>1, <3>1 DEF DraftsInv, LoadedIsCurrent
  <2>4. QED BY <2>2, <2>3
<1>3. FrozenDraftIsTheSnapshot'
    BY DEF DraftsInv, FrozenDraftIsTheSnapshot
<1>4. QED BY <1>1, <1>2, <1>3 DEF DraftsInv

LEMMA RefuseKeeps ==
    ASSUME DraftsInv, NEW r \in Request, Refuse(r), UNCHANGED <<draft, upload, outbound>>
    PROVE  DraftsInv'
<1>1. Idle("refused") \in SendRequest /\ Idle("refused").at = "refused"
    BY IdleTyped DEF Idle
<1>2. request' = [request EXCEPT ![r] = Idle("refused")]
    BY DEF Refuse
<1>3. QED BY <1>1, <1>2, RequestMoved

LEMMA ReplayKeeps ==
    ASSUME DraftsInv, NEW r \in Request, Replay(r), UNCHANGED <<draft, upload, outbound>>
    PROVE  DraftsInv'
<1>1. request[r] \in SendRequest
    BY DEF DraftsInv, TypeOK
<1>2. CASE SameRequest(outbound[request[r].key], request[r])
  <2> DEFINE q == [request[r] EXCEPT !.at = "replayed"]
  <2>1. request' = [request EXCEPT ![r] = q]
        BY <1>2 DEF Replay
  <2>2. q \in SendRequest /\ q.at = "replayed"
        BY <1>1 DEF SendRequest
  <2> HIDE DEF q
  <2>3. QED BY <2>1, <2>2, RequestMoved
<1>3. CASE ~SameRequest(outbound[request[r].key], request[r])
  <2>1. Refuse(r)
        BY <1>3 DEF Replay, Refuse
  <2>2. QED BY <2>1, RefuseKeeps
<1>4. QED BY <1>2, <1>3

LEMMA LosesLockKeeps ==
    ASSUME DraftsInv, NEW r \in Request, LosesLock(r), UNCHANGED <<draft, upload, outbound>>
    PROVE  DraftsInv'
BY RefuseKeeps, ReplayKeeps DEF LosesLock

(* The transaction that freezes: everything it checked holds of the row    *)
(* that it locks.                                                          *)
LEMMA FreezeKeeps ==
    ASSUME DraftsInv, NEW r \in Request, At(r, "composed"),
           SendCheck(draft[request[r].draft], request[r].base) = "ok",
           MatchesFrozen(draft[request[r].draft], request[r]),
           outbound[request[r].key].status = "none",
           outbound' = [outbound EXCEPT ![request[r].key] =
               [status |-> "queued", draft |-> request[r].draft,
                revision |-> request[r].base, text |-> request[r].text,
                files |-> request[r].files]],
           draft' = [draft EXCEPT ![request[r].draft].lockedBy = request[r].key],
           request' = [request EXCEPT ![r] = Idle("created")],
           UNCHANGED upload
    PROVE  DraftsInv'
<1> DEFINE q == request[r]
           row == draft[q.draft]
           copied == [status |-> "queued", draft |-> q.draft, revision |-> q.base,
                      text |-> q.text, files |-> q.files]
<1>1. q \in SendRequest /\ q.draft \in Draft /\ q.key \in Key /\ row \in DraftRow
    BY DEF DraftsInv, TypeOK, SendRequest
<1>2. row.state = "live" /\ row.revision = q.base /\ row.lockedBy = NoKey
    BY DEF SendCheck
<1>3. row.text = q.text /\ row.files = q.files
    BY <1>2 DEF DraftsInv, LoadedIsCurrent, At, MatchesFrozen
<1>4. copied \in Snapshot
    BY <1>1 DEF SendRequest, Snapshot, Unresolved
<1>5. TypeOK'
  <2>1. outbound' \in [Key -> Snapshot]
        BY <1>1, <1>4 DEF DraftsInv, TypeOK
  <2>2. draft' \in [Draft -> DraftRow]
        BY <1>1 DEF DraftsInv, TypeOK, DraftRow
  <2>3. request' \in [Request -> SendRequest]
        BY IdleTyped DEF DraftsInv, TypeOK
  <2>4. QED BY <2>1, <2>2, <2>3 DEF DraftsInv, TypeOK
<1>6. \A d \in Draft : /\ draft'[d].state = draft[d].state
                      /\ draft'[d].revision = draft[d].revision
                      /\ draft'[d].text = draft[d].text
                      /\ draft'[d].files = draft[d].files
                      /\ d # q.draft => draft'[d] = draft[d]
    BY DEF DraftsInv, TypeOK, DraftRow
<1>7. LoadedIsCurrent'
  <2>1. SUFFICES ASSUME NEW p \in Request, request'[p].at \in {"loaded", "composed"}
                 PROVE  LET after == draft'[request'[p].draft]
                        IN  /\ after.state # "absent" /\ request'[p].base <= after.revision
                            /\ request'[p].base = after.revision => after.text = request'[p].text
        BY DEF LoadedIsCurrent
  <2>2. p # r /\ request'[p] = request[p]
        BY <2>1 DEF DraftsInv, TypeOK, Idle
  <2>3. request[p].draft \in Draft
        BY DEF DraftsInv, TypeOK, SendRequest
  <2>4. QED BY <1>6, <2>1, <2>2, <2>3 DEF DraftsInv, LoadedIsCurrent
<1>8. FrozenDraftIsTheSnapshot'
  <2>1. SUFFICES ASSUME NEW k \in Key, outbound'[k].status \in Unresolved
                 PROVE  LET after == draft'[outbound'[k].draft]
                        IN  /\ after.state = "live" /\ after.lockedBy = k
                            /\ after.revision = outbound'[k].revision
                            /\ after.text = outbound'[k].text
                            /\ after.files = outbound'[k].files
        BY DEF FrozenDraftIsTheSnapshot
  <2>2. CASE k = q.key
    <3>1. outbound'[k] = copied
        BY <2>2 DEF DraftsInv, TypeOK
    <3>2. draft'[q.draft].lockedBy = q.key
        BY <1>1 DEF DraftsInv, TypeOK, DraftRow
    <3>3. QED BY <1>1, <1>2, <1>3, <1>6, <2>2, <3>1, <3>2
  <2>3. CASE k # q.key
    <3>1. outbound'[k] = outbound[k]
        BY <2>3 DEF DraftsInv, TypeOK
    <3>2. outbound[k].draft # q.draft
        BY <1>1, <1>2, <2>1, <3>1, UnlockedIsFree DEF DraftsInv
    <3>3. outbound[k].draft \in Draft
        BY DEF DraftsInv, TypeOK, Snapshot
    <3>4. draft'[outbound[k].draft] = draft[outbound[k].draft]
        BY <1>6, <3>2, <3>3
    <3>5. LET before == draft[outbound[k].draft]
          IN  /\ before.state = "live" /\ before.lockedBy = k
              /\ before.revision = outbound[k].revision
              /\ before.text = outbound[k].text /\ before.files = outbound[k].files
        BY <2>1, <3>1 DEF DraftsInv, FrozenDraftIsTheSnapshot
    <3>6. QED BY <3>1, <3>4, <3>5
  <2>4. QED BY <2>2, <2>3
<1>9. QED BY <1>5, <1>7, <1>8 DEF DraftsInv

LEMMA SendStepKeeps ==
    ASSUME DraftsInv, NEW r \in Request, SendStep(r)
    PROVE  DraftsInv'
<1>0. request[r] \in SendRequest /\ draft \in [Draft -> DraftRow]
    BY DEF DraftsInv, TypeOK
<1>1. ASSUME NEW d \in Draft, NEW base \in 1 .. MaxRevision, NEW k \in Key,
             AskSend(r, d, base, k)
      PROVE  DraftsInv'
  <2> DEFINE q == [request[r] EXCEPT !.at = "hashed", !.draft = d, !.base = base,
                                     !.key = k, !.linked = draft[d].files]
  <2>1. request' = [request EXCEPT ![r] = q]
        BY <1>0, <1>1 DEF AskSend, DraftsInv, TypeOK
  <2>2. q \in SendRequest /\ q.at = "hashed"
        BY <1>0 DEF SendRequest, DraftRow
  <2>3. UNCHANGED <<draft, upload, outbound>>
        BY <1>1 DEF AskSend
  <2> HIDE DEF q
  <2>4. QED BY <2>1, <2>2, <2>3, RequestMoved
<1>2. CASE FindKey(r)
  <2>1. CASE outbound[request[r].key].status = "none"
    <3> DEFINE q == [request[r] EXCEPT !.at = "fresh"]
    <3>1. request' = [request EXCEPT ![r] = q]
        BY <1>0, <1>2, <2>1 DEF FindKey, DraftsInv, TypeOK
    <3>2. q \in SendRequest /\ q.at = "fresh"
        BY <1>0 DEF SendRequest
    <3>3. UNCHANGED <<draft, upload, outbound>>
        BY <1>2 DEF FindKey
    <3> HIDE DEF q
    <3>4. QED BY <3>1, <3>2, <3>3, RequestMoved
  <2>2. CASE outbound[request[r].key].status # "none"
        BY <1>2, <2>2, ReplayKeeps DEF FindKey
  <2>3. QED BY <2>1, <2>2
<1>3. CASE LoadDraft(r)
  <2> DEFINE row == draft[request[r].draft]
             check == SendCheck(row, request[r].base)
  <2>0. UNCHANGED <<draft, upload, outbound>>
        BY <1>3 DEF LoadDraft
  <2>1. CASE check = "ok"
    <3> DEFINE q == [request[r] EXCEPT !.at = "loaded", !.text = row.text]
    <3>1. request' = [request EXCEPT ![r] = q]
        BY <1>0, <1>3, <2>1 DEF LoadDraft, DraftsInv, TypeOK
    <3>2. request[r].draft \in Draft /\ row \in DraftRow
        BY <1>0 DEF SendRequest
    <3>3. q \in SendRequest
        BY <1>0, <3>2 DEF SendRequest, DraftRow
    <3>4. /\ q.draft = request[r].draft /\ q.base = request[r].base
          /\ q.text = row.text
        BY <1>0 DEF SendRequest
    <3>5. row.state = "live" /\ row.revision = request[r].base
        BY <2>1 DEF SendCheck
    <3>6. row.revision \in Nat
        BY <3>2, DraftsAssumption DEF DraftRow
    <3>7. /\ draft[q.draft].state # "absent" /\ q.base <= draft[q.draft].revision
          /\ q.base = draft[q.draft].revision => draft[q.draft].text = q.text
        BY <3>4, <3>5, <3>6
    <3> HIDE DEF q
    <3>8. QED BY <2>0, <3>1, <3>3, <3>7, RequestMoved
  <2>2. CASE check = "draft_locked"
    <3>1. LosesLock(r)
        BY <1>3, <2>2 DEF LoadDraft
    <3>2. QED BY <2>0, <3>1, LosesLockKeeps
  <2>3. CASE check \notin {"ok", "draft_locked"}
    <3>1. Refuse(r)
        BY <1>3, <2>3 DEF LoadDraft
    <3>2. QED BY <2>0, <3>1, RefuseKeeps
  <2>4. QED BY <2>1, <2>2, <2>3
<1>4. CASE ComposeMessage(r)
  <2>1. UNCHANGED <<draft, upload, outbound>>
        BY <1>4 DEF ComposeMessage
  <2>2. CASE Refuse(r)
        BY <2>1, <2>2, RefuseKeeps
  <2>3. CASE request' = [request EXCEPT ![r].at = "composed",
                              ![r].files = draft[request[r].draft].files]
    <3> DEFINE q == [request[r] EXCEPT !.at = "composed",
                                       !.files = draft[request[r].draft].files]
    <3>1. request' = [request EXCEPT ![r] = q]
        BY <1>0, <2>3 DEF DraftsInv, TypeOK
    <3>2. request[r].draft \in Draft /\ draft[request[r].draft] \in DraftRow
        BY <1>0 DEF SendRequest
    <3>3. q \in SendRequest
        BY <1>0, <3>2 DEF SendRequest, DraftRow
    <3>4. /\ q.draft = request[r].draft /\ q.base = request[r].base
          /\ q.text = request[r].text
        BY <1>0 DEF SendRequest
    <3>5. request[r].at = "loaded"
        BY <1>4 DEF ComposeMessage, At
    <3>6. /\ draft[q.draft].state # "absent" /\ q.base <= draft[q.draft].revision
          /\ q.base = draft[q.draft].revision => draft[q.draft].text = q.text
        BY <3>4, <3>5 DEF DraftsInv, LoadedIsCurrent
    <3> HIDE DEF q
    <3>7. QED BY <2>1, <3>1, <3>3, <3>6, RequestMoved
  <2>4. QED BY <1>4, <2>2, <2>3 DEF ComposeMessage
<1>5. CASE CommitSend(r)
  <2> DEFINE row == draft[request[r].draft]
             check == SendCheck(row, request[r].base)
             free == outbound[request[r].key].status = "none"
  <2>0. At(r, "composed") /\ UNCHANGED upload
        BY <1>5 DEF CommitSend
  <2>1. CASE check = "draft_locked"
    <3>1. LosesLock(r) /\ UNCHANGED <<draft, outbound>>
        BY <1>5, <2>1 DEF CommitSend
    <3>2. QED BY <2>0, <3>1, LosesLockKeeps
  <2>2. CASE check = "ok" /\ MatchesFrozen(row, request[r]) /\ free
    <3>1. /\ outbound' = [outbound EXCEPT ![request[r].key] =
               [status |-> "queued", draft |-> request[r].draft,
                revision |-> request[r].base, text |-> request[r].text,
                files |-> request[r].files]]
          /\ draft' = [draft EXCEPT ![request[r].draft].lockedBy = request[r].key]
          /\ request' = [request EXCEPT ![r] = Idle("created")]
        BY <1>5, <2>2 DEF CommitSend
    <3>2. QED BY <2>0, <2>2, <3>1, FreezeKeeps
  <2>3. CASE check # "draft_locked" /\ ~(check = "ok" /\ MatchesFrozen(row, request[r]) /\ free)
    <3>1. Refuse(r) /\ UNCHANGED <<draft, outbound>>
        BY <1>5, <2>3 DEF CommitSend
    <3>2. QED BY <2>0, <3>1, RefuseKeeps
  <2>4. QED BY <2>1, <2>2, <2>3
<1>6. QED BY <1>1, <1>2, <1>3, <1>4, <1>5 DEF SendStep

-----------------------------------------------------------------------------
(* The worker ends or holds an attempt.  Another snapshot's draft has       *)
(* another lock, so it keeps it.                                           *)
LEMMA ResolveKeeps ==
    ASSUME DraftsInv, NEW k \in Key, NEW status \in {"sent", "failed", "outcome_unknown"},
           Resolve(k, status)
    PROVE  DraftsInv'
<1>1. /\ outbound[k].status \in Unresolved
      /\ outbound' = [outbound EXCEPT ![k].status = status]
      /\ draft' = [d \in Draft |->
                     IF status \in {"sent", "failed"} /\ draft[d].lockedBy = k
                     THEN [draft[d] EXCEPT !.lockedBy = NoKey] ELSE draft[d]]
      /\ UNCHANGED <<upload, request>>
    BY DEF Resolve
<1>2. TypeOK'
  <2>1. outbound' \in [Key -> Snapshot]
        BY <1>1 DEF DraftsInv, TypeOK, Snapshot, Unresolved
  <2>2. draft' \in [Draft -> DraftRow]
        BY <1>1 DEF DraftsInv, TypeOK, DraftRow
  <2>3. QED BY <1>1, <2>1, <2>2 DEF DraftsInv, TypeOK
<1>3. \A d \in Draft : /\ draft'[d].state = draft[d].state
                      /\ draft'[d].revision = draft[d].revision
                      /\ draft'[d].text = draft[d].text
    BY <1>1 DEF DraftsInv, TypeOK, DraftRow
<1>4. LoadedIsCurrent'
  <2>1. SUFFICES ASSUME NEW r \in Request, request[r].at \in {"loaded", "composed"}
                 PROVE  LET after == draft'[request[r].draft]
                        IN  /\ after.state # "absent" /\ request[r].base <= after.revision
                            /\ request[r].base = after.revision => after.text = request[r].text
        BY <1>1 DEF LoadedIsCurrent
  <2>2. request[r].draft \in Draft
        BY DEF DraftsInv, TypeOK, SendRequest
  <2>3. LET before == draft[request[r].draft]
        IN  /\ before.state # "absent" /\ request[r].base <= before.revision
            /\ request[r].base = before.revision => before.text = request[r].text
        BY <2>1 DEF DraftsInv, LoadedIsCurrent
  <2>4. QED BY <1>3, <2>2, <2>3
<1>5. FrozenDraftIsTheSnapshot'
  <2>1. SUFFICES ASSUME NEW j \in Key, outbound'[j].status \in Unresolved
                 PROVE  LET after == draft'[outbound'[j].draft]
                        IN  /\ after.state = "live" /\ after.lockedBy = j
                            /\ after.revision = outbound'[j].revision
                            /\ after.text = outbound'[j].text
                            /\ after.files = outbound'[j].files
        BY DEF FrozenDraftIsTheSnapshot
  <2>2. /\ outbound'[j].draft = outbound[j].draft
        /\ outbound'[j].revision = outbound[j].revision
        /\ outbound'[j].text = outbound[j].text /\ outbound'[j].files = outbound[j].files
        BY <1>1 DEF DraftsInv, TypeOK, Snapshot
  <2>3. outbound[j].status \in Unresolved /\ (j = k => status = "outcome_unknown")
        BY <1>1, <2>1 DEF DraftsInv, TypeOK, Snapshot, Unresolved
  <2>4. LET before == draft[outbound[j].draft]
        IN  /\ before.state = "live" /\ before.lockedBy = j
            /\ before.revision = outbound[j].revision
            /\ before.text = outbound[j].text /\ before.files = outbound[j].files
        BY <2>3 DEF DraftsInv, FrozenDraftIsTheSnapshot
  <2>5. outbound[j].draft \in Draft
        BY DEF DraftsInv, TypeOK, Snapshot
  <2>6. draft'[outbound[j].draft] = draft[outbound[j].draft]
    <3>1. draft[outbound[j].draft].lockedBy # k \/ status \notin {"sent", "failed"}
        BY <2>3, <2>4
    <3>2. QED BY <1>1, <2>5, <3>1
  <2>7. QED BY <2>2, <2>4, <2>6
<1>6. QED BY <1>2, <1>4, <1>5 DEF DraftsInv

LEMMA UploadKeeps ==
    ASSUME DraftsInv, NEW u \in Upload, StoreUpload(u) \/ RecordUpload(u)
    PROVE  DraftsInv'
<1>1. UNCHANGED <<draft, outbound, request>>
    BY DEF StoreUpload, RecordUpload
<1>2. upload' \in [Upload -> {"absent", "stored", "recorded"}]
    BY DEF DraftsInv, TypeOK, StoreUpload, RecordUpload
<1>3. QED BY <1>1, <1>2 DEF DraftsInv, TypeOK, LoadedIsCurrent, FrozenDraftIsTheSnapshot

-----------------------------------------------------------------------------
LEMMA InitHolds == Init => DraftsInv
<1> SUFFICES ASSUME Init PROVE DraftsInv
    OBVIOUS
<1>1. Fresh(AnyText, NoFiles) \in DraftRow
    BY DefaultsTyped, FreshTyped
<1>2. draft \in [Draft -> DraftRow]
    BY <1>1 DEF Init, DraftRow
<1>3. outbound \in [Key -> Snapshot]
    BY DefaultsTyped, DraftsAssumption DEF Init, Snapshot
<1>4. request \in [Request -> SendRequest]
    BY IdleTyped DEF Init
<1>5. TypeOK
    BY <1>2, <1>3, <1>4 DEF Init, TypeOK
<1>6. LoadedIsCurrent /\ FrozenDraftIsTheSnapshot
    BY DEF Init, Idle, LoadedIsCurrent, FrozenDraftIsTheSnapshot, Unresolved
<1>7. QED BY <1>5, <1>6 DEF DraftsInv

LEMMA StepHolds == DraftsInv /\ [Next]_vars => DraftsInv'
<1> SUFFICES ASSUME DraftsInv, [Next]_vars PROVE DraftsInv'
    OBVIOUS
<1>1. ASSUME NEW d \in Draft, DraftStep(d) PROVE DraftsInv'
    BY <1>1, DraftStepKeeps
<1>2. ASSUME NEW u \in Upload, StoreUpload(u) \/ RecordUpload(u) PROVE DraftsInv'
    BY <1>2, UploadKeeps
<1>3. ASSUME NEW r \in Request, SendStep(r) PROVE DraftsInv'
    BY <1>3, SendStepKeeps
<1>4. ASSUME NEW k \in Key, NEW status \in {"sent", "failed", "outcome_unknown"},
             Resolve(k, status)
      PROVE  DraftsInv'
    BY <1>4, ResolveKeeps
<1>5. CASE UNCHANGED vars
    BY <1>5 DEF vars, DraftsInv, TypeOK, LoadedIsCurrent, FrozenDraftIsTheSnapshot
<1>6. QED BY <1>1, <1>2, <1>3, <1>4, <1>5 DEF Next

-----------------------------------------------------------------------------
(* Replays.  A snapshot that exists keeps what it froze.                   *)
Kept ==
    \A k \in Key : outbound[k].status # "none" =>
        /\ outbound'[k].status # "none" /\ outbound'[k].draft = outbound[k].draft
        /\ outbound'[k].revision = outbound[k].revision
        /\ outbound'[k].files = outbound[k].files

LEMMA SnapshotsKept == TypeOK /\ [Next]_vars => Kept
<1> SUFFICES ASSUME TypeOK, [Next]_vars PROVE Kept
    OBVIOUS
<1>1. CASE UNCHANGED outbound
    BY <1>1 DEF Kept
<1>2. ASSUME NEW k \in Key, NEW status \in {"sent", "failed", "outcome_unknown"},
             Resolve(k, status)
      PROVE  Kept
    BY <1>2 DEF Resolve, Kept, TypeOK, Snapshot
<1>3. ASSUME NEW r \in Request, CommitSend(r), ~UNCHANGED outbound PROVE Kept
  <2>1. outbound[request[r].key].status = "none"
        BY <1>3 DEF CommitSend
  <2>2. \A k \in Key : k # request[r].key => outbound'[k] = outbound[k]
        BY <1>3 DEF CommitSend, TypeOK
  <2>3. QED BY <2>1, <2>2 DEF Kept
<1>4. ASSUME NEW d \in Draft, DraftStep(d) PROVE UNCHANGED outbound
    BY <1>4 DEF DraftStep, CreateDraft, UpdateDraft, DeleteDraft, AttachUpload,
                DetachUpload, CreateResendDraft
<1>5. ASSUME NEW r \in Request, SendStep(r), ~CommitSend(r) PROVE UNCHANGED outbound
    BY <1>5 DEF SendStep, AskSend, FindKey, LoadDraft, ComposeMessage
<1>6. ASSUME NEW u \in Upload, StoreUpload(u) \/ RecordUpload(u) PROVE UNCHANGED outbound
    BY <1>6 DEF StoreUpload, RecordUpload
<1>7. QED BY <1>1, <1>2, <1>3, <1>4, <1>5, <1>6 DEF Next, vars

(* A request is moved by its own steps only, and comes to "replayed" only  *)
(* over a snapshot that answers it.                                        *)
Answered(r) ==
    LET s == outbound[request'[r].key]
    IN  /\ s.status # "none" /\ s.draft = request'[r].draft
        /\ s.revision = request'[r].base /\ s.files = request'[r].linked

LEMMA ReplayAnswers ==
    ASSUME TypeOK, NEW r \in Request, Replay(r),
           outbound[request[r].key].status # "none"
    PROVE  /\ \A p \in Request \ {r} : request'[p] = request[p]
           /\ request'[r].at = "replayed" => Answered(r)
<1>1. request[r] \in SendRequest
    BY DEF TypeOK
<1>2. CASE SameRequest(outbound[request[r].key], request[r])
  <2>1. request' = [request EXCEPT ![r] = [request[r] EXCEPT !.at = "replayed"]]
        BY <1>2 DEF Replay
  <2>2. /\ request'[r].key = request[r].key /\ request'[r].draft = request[r].draft
        /\ request'[r].base = request[r].base /\ request'[r].linked = request[r].linked
        BY <1>1, <2>1 DEF TypeOK, SendRequest
  <2>3. \A p \in Request \ {r} : request'[p] = request[p]
        BY <2>1 DEF TypeOK
  <2>4. QED BY <1>2, <2>2, <2>3 DEF SameRequest, Answered
<1>3. CASE ~SameRequest(outbound[request[r].key], request[r])
  <2>1. request' = [request EXCEPT ![r] = Idle("refused")]
        BY <1>3 DEF Replay
  <2>2. QED BY <2>1 DEF TypeOK, Idle
<1>4. QED BY <1>2, <1>3

LEMMA SendStepAnswers ==
    ASSUME TypeOK, NEW r \in Request, SendStep(r)
    PROVE  /\ \A p \in Request \ {r} : request'[p] = request[p]
           /\ request'[r].at = "replayed" => Answered(r)
<1>0. request[r] \in SendRequest
    BY DEF TypeOK
<1> DEFINE Goal == /\ \A p \in Request \ {r} : request'[p] = request[p]
                   /\ request'[r].at = "replayed" => Answered(r)
<1>1. ASSUME Refuse(r) PROVE Goal
    BY <1>1 DEF Refuse, Idle, TypeOK
<1>2. ASSUME LosesLock(r) PROVE Goal
    BY <1>1, <1>2, ReplayAnswers DEF LosesLock
<1>3. ASSUME NEW d \in Draft, NEW base \in 1 .. MaxRevision, NEW k \in Key,
             AskSend(r, d, base, k)
      PROVE  Goal
  <2>1. request'[r].at = "hashed"
        BY <1>0, <1>3 DEF AskSend, TypeOK, SendRequest
  <2>2. \A p \in Request \ {r} : request'[p] = request[p]
        BY <1>3 DEF AskSend, TypeOK
  <2>3. QED BY <2>1, <2>2
<1>4. CASE FindKey(r)
  <2>1. CASE outbound[request[r].key].status = "none"
    <3>1. request' = [request EXCEPT ![r].at = "fresh"]
        BY <1>4, <2>1 DEF FindKey
    <3>2. QED BY <1>0, <3>1 DEF TypeOK, SendRequest
  <2>2. CASE outbound[request[r].key].status # "none"
        BY <1>4, <2>2, ReplayAnswers DEF FindKey
  <2>3. QED BY <2>1, <2>2
<1>5. CASE LoadDraft(r)
  <2>1. \/ request' = [request EXCEPT ![r].at = "loaded",
                                     ![r].text = draft[request[r].draft].text]
        \/ LosesLock(r)
        \/ Refuse(r)
        BY <1>5 DEF LoadDraft
  <2>2. CASE request' = [request EXCEPT ![r].at = "loaded",
                                        ![r].text = draft[request[r].draft].text]
        BY <1>0, <2>2 DEF TypeOK, SendRequest
  <2>3. QED BY <1>1, <1>2, <2>1, <2>2
<1>6. CASE ComposeMessage(r)
  <2>1. CASE request' = [request EXCEPT ![r].at = "composed",
                                        ![r].files = draft[request[r].draft].files]
        BY <1>0, <2>1 DEF TypeOK, SendRequest
  <2>2. QED BY <1>1, <1>6, <2>1 DEF ComposeMessage
<1>7. CASE CommitSend(r)
  <2>1. \/ request' = [request EXCEPT ![r] = Idle("created")]
        \/ LosesLock(r)
        \/ Refuse(r)
        BY <1>7 DEF CommitSend
  <2>2. CASE request' = [request EXCEPT ![r] = Idle("created")]
        BY <2>2 DEF Idle, TypeOK
  <2>3. QED BY <1>1, <1>2, <2>1, <2>2
<1>8. QED BY <1>3, <1>4, <1>5, <1>6, <1>7 DEF SendStep

LEMMA ReplayHolds ==
    ASSUME TypeOK, TypeOK', ReplayIsTheSameRequest, [Next]_vars
    PROVE  ReplayIsTheSameRequest'
<1> SUFFICES ASSUME NEW p \in Request, request'[p].at = "replayed"
             PROVE  LET s == outbound'[request'[p].key]
                    IN  /\ s.status # "none" /\ s.draft = request'[p].draft
                        /\ s.revision = request'[p].base /\ s.files = request'[p].linked
    BY DEF ReplayIsTheSameRequest, At
<1>1. Kept
    BY SnapshotsKept
<1>2. CASE request'[p] = request[p]
  <2>1. request'[p].key \in Key
        BY <1>2 DEF TypeOK, SendRequest
  <2>2. Answered(p)
        BY <1>2 DEF ReplayIsTheSameRequest, At, Answered
  <2>3. QED BY <1>1, <2>1, <2>2 DEF Kept, Answered
<1>3. ASSUME NEW r \in Request, SendStep(r), request'[p] # request[p]
      PROVE  Answered(p) /\ request'[p].key \in Key
  <2>1. p = r /\ Answered(p)
        BY <1>3, SendStepAnswers
  <2>2. request'[p].key \in Key
        BY DEF TypeOK, SendRequest
  <2>3. QED BY <2>1, <2>2
<1>4. CASE UNCHANGED request
    BY <1>2, <1>4
<1>5. ASSUME ~UNCHANGED request PROVE \E r \in Request : SendStep(r)
  <2>1. ASSUME NEW d \in Draft, DraftStep(d) PROVE UNCHANGED request
        BY <2>1 DEF DraftStep, CreateDraft, UpdateDraft, DeleteDraft, AttachUpload,
                    DetachUpload, CreateResendDraft
  <2>2. ASSUME NEW u \in Upload, StoreUpload(u) \/ RecordUpload(u)
        PROVE  UNCHANGED request
        BY <2>2 DEF StoreUpload, RecordUpload
  <2>3. ASSUME NEW k \in Key, NEW status \in {"sent", "failed", "outcome_unknown"},
               Resolve(k, status)
        PROVE  UNCHANGED request
        BY <2>3 DEF Resolve
  <2>4. QED BY <1>5, <2>1, <2>2, <2>3 DEF Next, vars
<1>6. QED BY <1>1, <1>2, <1>3, <1>4, <1>5 DEF Kept, Answered

-----------------------------------------------------------------------------
(* The rows of drafts, uploads, snapshots and requests keep their types,   *)
(* whatever requests run together.                                         *)
THEOREM DraftsTyped == Spec => []TypeOK
<1>1. Init => DraftsInv
    BY InitHolds
<1>2. DraftsInv /\ [Next]_vars => DraftsInv'
    BY StepHolds
<1>3. DraftsInv => TypeOK
    BY DEF DraftsInv
<1>4. QED BY <1>1, <1>2, <1>3, PTL DEF Spec

(* What a request read before composing is what its draft still holds at   *)
(* the revision it names: the guard of the freezing transaction suffices.  *)
THEOREM LoadedStaysCurrent == Spec => []LoadedIsCurrent
<1>1. Init => DraftsInv
    BY InitHolds
<1>2. DraftsInv /\ [Next]_vars => DraftsInv'
    BY StepHolds
<1>3. DraftsInv => LoadedIsCurrent
    BY DEF DraftsInv
<1>4. QED BY <1>1, <1>2, <1>3, PTL DEF Spec

(* While a send is open its draft is locked by it and is, word for word    *)
(* and file for file, what was frozen (queueSend, lockEditableDraft).      *)
THEOREM DraftIsFrozen == Spec => []FrozenDraftIsTheSnapshot
<1>1. Init => DraftsInv
    BY InitHolds
<1>2. DraftsInv /\ [Next]_vars => DraftsInv'
    BY StepHolds
<1>3. DraftsInv => FrozenDraftIsTheSnapshot
    BY DEF DraftsInv
<1>4. QED BY <1>1, <1>2, <1>3, PTL DEF Spec

(* A key answers a repeated request with the snapshot of that request, and *)
(* of no other, however many requests run together (existingSnapshot).     *)
THEOREM ReplayAnswersItsRequest == Spec => []ReplayIsTheSameRequest
<1> DEFINE Inv == DraftsInv /\ ReplayIsTheSameRequest
<1>1. Init => Inv
    BY InitHolds DEF Init, Idle, At, ReplayIsTheSameRequest
<1>2. Inv /\ [Next]_vars => Inv'
    BY StepHolds, ReplayHolds DEF DraftsInv
<1>3. Inv => ReplayIsTheSameRequest
    OBVIOUS
<1>4. QED BY <1>1, <1>2, <1>3, PTL DEF Spec

-----------------------------------------------------------------------------
(* The service beside its clients.  A step of the whole is a step of one   *)
(* of them or leaves its variables as they are, so the invariant of a      *)
(* component holds of the whole.                                           *)

LEMMA DraftsAlone == [ClientsNext]_clientsVars => [Next]_vars
BY DEF ClientsNext, DraftsMove, EditorsMove, OfflineMoves, clientsVars, draftsVars, vars

LEMMA EditorsAlone == [ClientsNext]_clientsVars => [Editors!Next]_editorsVars
BY DEF ClientsNext, DraftsMove, EditorsMove, OfflineMoves, clientsVars

LEMMA OfflineAlone == [ClientsNext]_clientsVars => [Offline!Next]_offlineVars
BY DEF ClientsNext, DraftsMove, EditorsMove, OfflineMoves, clientsVars

-----------------------------------------------------------------------------
(* The editors.                                                            *)

EditorParts ==
    {"state", "base", "pending", "timer", "flushWanted", "call", "choice", "view", "sending"}

PartsOK(e) ==
    /\ DOMAIN e = EditorParts
    /\ DOMAIN e.call = {"at", "patch", "base"}
    /\ DOMAIN e.choice = {"revision", "readable", "text"}

(* A conflict waits for the person with the edit in hand, a call carries   *)
(* an edit that is still pending, and the fields show what is pending.     *)
HandOK(e) ==
    /\ e.call # Editors!NoCall => e.pending # 0
    /\ e.state = "conflict" => e.call = Editors!NoCall /\ e.pending # 0
    /\ e.pending # 0 => e.view = e.pending

(* Every revision an editor may save against was shown to its device.      *)
SeenOK(e, shown) ==
    /\ e.state # "closed" => e.base \in shown
    /\ e.call.at = "sent" => e.call.base \in shown
    /\ e.choice # Editors!NoChoice => e.choice.revision \in shown

(* What an editor holds of the server's newest revision is its text.       *)
NewestOK(e, row) ==
    /\ row.revision \in Nat \ {0} /\ e.base \in Nat /\ e.base <= row.revision
    /\ e.call.base \in Nat /\ e.call.base <= row.revision
    /\ e.choice.revision \in Nat /\ e.choice.revision <= row.revision
    /\ e.pending = 0 /\ e.base = row.revision => e.view = row.text
    /\ e.call.at = "saved" /\ e.call.base = row.revision => e.call.patch = row.text
    /\ e.choice.readable /\ e.choice.revision = row.revision => e.choice.text = row.text

Steady(e, shown, row) == PartsOK(e) /\ HandOK(e) /\ SeenOK(e, shown) /\ NewestOK(e, row)

(* A pending edit is on its way, unless it is held for the person.         *)
Moving(e) ==
    e.pending # 0 /\ e.state \notin {"conflict", "offline", "error"}
        => e.timer \/ e.call # Editors!NoCall

EditorOK(e, shown, row) == Steady(e, shown, row) /\ Moving(e)

(* A send that asks for the newest revision showed its text.               *)
AskOK(q, row) ==
    /\ DOMAIN q = {"at", "base", "view"}
    /\ q.at = "sent" =>
        /\ q.base \in Nat /\ q.base <= row.revision
        /\ q.base = row.revision => q.view = row.text

EditorsInv ==
    /\ DOMAIN server = {"revision", "text", "locked"} /\ server.revision \in Nat \ {0}
    /\ DOMAIN editor = Device /\ DOMAIN seen = Device /\ DOMAIN ask = Device
    /\ typed \in Nat
    /\ \A c \in Device : EditorOK(editor[c], seen[c], server) /\ AskOK(ask[c], server)
    /\ Editors!SendFreezesWhatWasShown

LEMMA ClosedOK ==
    ASSUME NEW shown, NEW row, row.revision \in Nat \ {0}
    PROVE  EditorOK(Editors!Closed, shown, row)
<1> DEFINE e == Editors!Closed
<1>1. /\ e.call = Editors!NoCall /\ e.choice = Editors!NoChoice /\ e.state = "closed"
      /\ e.base = 0 /\ e.pending = 0 /\ DOMAIN e = EditorParts
    BY DEF Editors!Closed, EditorParts
<1> HIDE DEF e
<1>2. PartsOK(e) /\ HandOK(e) /\ Moving(e)
    BY <1>1 DEF Editors!NoCall, Editors!NoChoice, PartsOK, HandOK, Moving
<1>3. SeenOK(e, shown) /\ NewestOK(e, row)
    BY <1>1 DEF Editors!NoCall, Editors!NoChoice, SeenOK, NewestOK
<1>4. QED BY <1>2, <1>3 DEF EditorOK, Steady, e

LEMMA EditorsBegin == Editors!Init => EditorsInv
<1> SUFFICES ASSUME Editors!Init PROVE EditorsInv
    OBVIOUS
<1>1. server.revision = 1
    BY DEF Editors!Init
<1>2. \A c \in Device : EditorOK(editor[c], seen[c], server)
    BY <1>1, ClosedOK DEF Editors!Init
<1>3. \A c \in Device : AskOK(ask[c], server)
    BY DEF Editors!Init, Editors!NoAsk, AskOK
<1>4. QED BY <1>1, <1>2, <1>3 DEF Editors!Init, EditorsInv, Editors!SendFreezesWhatWasShown

-----------------------------------------------------------------------------
(* What the methods of the autosaver make of an editor.                    *)

LEMMA StartSaveOK ==
    ASSUME NEW e, NEW shown, NEW row, Steady(e, shown, row), e.pending # 0, e.state # "closed"
    PROVE  EditorOK(Editors!StartSave(e), shown, row)
<1> DEFINE n == Editors!StartSave(e)
<1>1. /\ DOMAIN n = EditorParts /\ n.state = "saving"
      /\ n.call = [at |-> "sent", patch |-> e.pending, base |-> e.base]
      /\ n.base = e.base /\ n.pending = e.pending /\ n.choice = e.choice /\ n.view = e.view
    BY DEF Editors!StartSave, Editors!Save, Steady, PartsOK, EditorParts
<1> HIDE DEF n
<1>2. n.call # Editors!NoCall
    BY <1>1 DEF Editors!NoCall
<1>3. PartsOK(n)
    BY <1>1 DEF Steady, PartsOK
<1>4. HandOK(n) /\ Moving(n)
    BY <1>1, <1>2 DEF Steady, HandOK, Moving
<1>5. SeenOK(n, shown)
    BY <1>1 DEF Steady, SeenOK
<1>6. NewestOK(n, row)
    BY <1>1 DEF Steady, NewestOK
<1>7. QED BY <1>3, <1>4, <1>5, <1>6 DEF EditorOK, Steady, n

LEMMA RunSaveOK ==
    ASSUME NEW e, NEW shown, NEW row, Steady(e, shown, row),
           e.call = Editors!NoCall, e.state # "closed"
    PROVE  EditorOK(Editors!RunSave(e), shown, row)
<1>1. CASE e.state = "conflict"
    BY <1>1 DEF Editors!RunSave, EditorOK, Moving
<1>2. CASE e.state # "conflict" /\ e.pending = 0
    <2> DEFINE n == Editors!RunSave(e)
    <2>1. /\ DOMAIN n = EditorParts /\ n.state = "saved" /\ n.call = e.call
          /\ n.base = e.base /\ n.pending = 0 /\ n.choice = e.choice /\ n.view = e.view
        BY <1>2 DEF Editors!RunSave, Steady, PartsOK, EditorParts
    <2> HIDE DEF n
    <2>2. PartsOK(n) /\ HandOK(n) /\ Moving(n)
        BY <2>1 DEF Steady, PartsOK, HandOK, Moving
    <2>3. SeenOK(n, shown) /\ NewestOK(n, row)
        BY <1>2, <2>1 DEF Steady, SeenOK, NewestOK
    <2>4. QED BY <2>2, <2>3 DEF EditorOK, Steady, n
<1>3. CASE e.state # "conflict" /\ e.pending # 0
    BY <1>3, StartSaveOK DEF Editors!RunSave
<1>4. QED BY <1>1, <1>2, <1>3

(* A change of the timer, of the wish to flush or of the waiting send.     *)
LEMMA SignalsFree ==
    ASSUME NEW e, NEW shown, NEW row, Steady(e, shown, row), NEW n,
           DOMAIN n = EditorParts,
           \A part \in EditorParts \ {"timer", "flushWanted", "sending"} : n[part] = e[part]
    PROVE  Steady(n, shown, row)
<1>1. /\ n.state = e.state /\ n.base = e.base /\ n.pending = e.pending
      /\ n.call = e.call /\ n.choice = e.choice /\ n.view = e.view
    BY DEF EditorParts
<1>2. QED BY <1>1 DEF Steady, PartsOK, HandOK, SeenOK, NewestOK

LEMMA FlushOK ==
    ASSUME NEW e, NEW shown, NEW row, Steady(e, shown, row), e.state # "closed"
    PROVE  EditorOK(Editors!Flush(e), shown, row)
<1>1. CASE e.call # Editors!NoCall
    <2> DEFINE n == [e EXCEPT !.flushWanted = TRUE]
    <2>1. Steady(n, shown, row)
        BY SignalsFree DEF Steady, PartsOK, EditorParts
    <2>2. n.call = e.call
        BY DEF Steady, PartsOK, EditorParts
    <2>3. Editors!Flush(e) = n
        BY <1>1 DEF Editors!Flush
    <2> HIDE DEF n
    <2>4. QED BY <1>1, <2>1, <2>2, <2>3 DEF EditorOK, Moving
<1>2. CASE e.call = Editors!NoCall
    <2> DEFINE n == [e EXCEPT !.timer = FALSE]
    <2>1. Steady(n, shown, row)
        BY SignalsFree DEF Steady, PartsOK, EditorParts
    <2>2. n.call = e.call /\ n.state = e.state
        BY DEF Steady, PartsOK, EditorParts
    <2>3. Editors!Flush(e) = Editors!RunSave(n)
        BY <1>2 DEF Editors!Flush
    <2> HIDE DEF n
    <2>4. QED BY <1>2, <2>1, <2>2, <2>3, RunSaveOK
<1>3. QED BY <1>1, <1>2

(* A call that failed: its state and the flush asked for meanwhile.        *)
LEMMA UnsavedOK ==
    ASSUME NEW e, NEW shown, NEW row, Steady(e, shown, row), e.pending # 0, e.state # "closed",
           NEW state \in {"conflict", "offline", "error"}
    PROVE  EditorOK(Editors!Unsaved(e, state), shown, row)
<1> DEFINE n == [e EXCEPT !.state = state, !.call = Editors!NoCall]
           m == [n EXCEPT !.flushWanted = FALSE]
<1>1. /\ DOMAIN m = EditorParts /\ m.state = state /\ m.call = Editors!NoCall
      /\ m.base = e.base /\ m.pending = e.pending /\ m.choice = e.choice /\ m.view = e.view
    BY DEF Steady, PartsOK, EditorParts
<1>2. \/ Editors!Unsaved(e, state) = m
      \/ Editors!Unsaved(e, state) = Editors!RunSave(m)
    BY DEF Editors!Unsaved, Editors!Flushed
<1> HIDE DEF m
<1>3. PartsOK(m) /\ HandOK(m)
    <2>1. PartsOK(m)
        BY <1>1 DEF Steady, PartsOK, Editors!NoCall
    <2>2. HandOK(m)
        BY <1>1 DEF Steady, HandOK
    <2>3. QED BY <2>1, <2>2
<1>4. SeenOK(m, shown) /\ NewestOK(m, row)
    BY <1>1 DEF Steady, SeenOK, NewestOK, Editors!NoCall
<1>5. Steady(m, shown, row) /\ Moving(m)
    BY <1>1, <1>3, <1>4 DEF Steady, Moving
<1>6. QED BY <1>1, <1>2, <1>5, RunSaveOK DEF EditorOK

(* A save that was acknowledged: the rest of the edits is saved at once.   *)
LEMMA SavedOK ==
    ASSUME NEW e, NEW shown, NEW row, Steady(e, shown, row), e.call.at = "saved",
           e.state # "closed"
    PROVE  EditorOK(Editors!Saved(e, e.call.base), shown \cup {e.call.base}, row)
<1> DEFINE kept == IF e.pending = e.call.patch THEN 0 ELSE e.pending
           all == shown \cup {e.call.base}
           n == [e EXCEPT !.base = e.call.base, !.pending = kept, !.call = Editors!NoCall,
                          !.state = "saved"]
           m == [n EXCEPT !.flushWanted = FALSE]
<1>1. e.pending # 0
    BY DEF Steady, HandOK, Editors!NoCall
<1>2. \A x \in {n, m} :
        /\ DOMAIN x = EditorParts /\ x.state = "saved" /\ x.call = Editors!NoCall
        /\ x.base = e.call.base /\ x.pending = kept /\ x.choice = e.choice /\ x.view = e.view
    BY DEF Steady, PartsOK, EditorParts
<1>3. Editors!Saved(e, e.call.base) = IF kept = 0 THEN m ELSE Editors!StartSave(n)
    BY <1>2 DEF Editors!Saved, Editors!Flushed
<1> HIDE DEF n, m
<1>4. \A x \in {n, m} : PartsOK(x) /\ HandOK(x)
    <2>1. \A x \in {n, m} : PartsOK(x)
        BY <1>2 DEF Steady, PartsOK, Editors!NoCall
    <2>2. \A x \in {n, m} : HandOK(x)
        BY <1>2 DEF Steady, HandOK
    <2>3. QED BY <2>1, <2>2
<1>5. \A x \in {n, m} : SeenOK(x, all)
    BY <1>2 DEF Steady, SeenOK, Editors!NoCall
<1>6. \A x \in {n, m} : NewestOK(x, row)
    <2>1. e.call.base = row.revision /\ kept = 0 => e.view = row.text
        BY <1>1 DEF Steady, HandOK, NewestOK
    <2>2. QED BY <1>2, <2>1 DEF Steady, NewestOK, Editors!NoCall
<1>7. Steady(n, all, row) /\ Steady(m, all, row)
    BY <1>4, <1>5, <1>6 DEF Steady
<1>8. CASE kept = 0
    BY <1>2, <1>3, <1>7, <1>8 DEF EditorOK, Moving
<1>9. CASE kept # 0
    BY <1>2, <1>3, <1>7, <1>9, StartSaveOK
<1>10. QED BY <1>8, <1>9

LEMMA PushOK ==
    ASSUME NEW e, NEW shown, NEW row, EditorOK(e, shown, row), e.state # "closed",
           NEW edit, edit # 0
    PROVE  EditorOK(Editors!Push(e, edit), shown, row)
<1> DEFINE n == Editors!Push(e, edit)
<1>1. /\ DOMAIN n = EditorParts /\ n.call = e.call /\ n.base = e.base /\ n.pending = edit
      /\ n.choice = e.choice /\ n.view = edit
      /\ n.state = IF e.state \in {"conflict", "saving"} THEN e.state ELSE "unsaved"
      /\ n.timer = (e.timer \/ e.state # "conflict")
    BY DEF Editors!Push, EditorOK, Steady, PartsOK, EditorParts
<1> HIDE DEF n
<1>2. PartsOK(n) /\ HandOK(n) /\ Moving(n)
    BY <1>1 DEF EditorOK, Steady, PartsOK, HandOK, Moving
<1>3. SeenOK(n, shown) /\ NewestOK(n, row)
    BY <1>1 DEF EditorOK, Steady, SeenOK, NewestOK
<1>4. QED BY <1>2, <1>3 DEF EditorOK, Steady, n

-----------------------------------------------------------------------------
(* The steps of the editors.                                               *)

(* One editor changes, and its device may be shown more.                   *)
LEMMA EditorTurns ==
    ASSUME EditorsInv, NEW c \in Device, NEW e, Editors!Becomes(c, e),
           DOMAIN seen' = Device, \A d \in Device \ {c} : seen'[d] = seen[d],
           EditorOK(e, seen'[c], server), typed' \in Nat, UNCHANGED <<server, ask, frozen>>
    PROVE  EditorsInv'
<1>1. /\ DOMAIN editor' = Device /\ editor'[c] = e
      /\ \A d \in Device \ {c} : editor'[d] = editor[d]
    BY DEF EditorsInv, Editors!Becomes
<1>2. \A d \in Device : EditorOK(editor'[d], seen'[d], server') /\ AskOK(ask'[d], server')
    BY <1>1 DEF EditorsInv
<1>3. QED BY <1>1, <1>2 DEF EditorsInv, Editors!SendFreezesWhatWasShown

(* The row moves to a new revision, or its text stays.                     *)
Follows(new, row) ==
    /\ DOMAIN new = {"revision", "text", "locked"} /\ new.revision \in Nat \ {0}
    /\ \/ new.revision > row.revision
       \/ new.revision = row.revision /\ new.text = row.text

LEMMA RowMoves ==
    ASSUME NEW new, NEW row, Follows(new, row)
    PROVE  /\ \A e, shown : EditorOK(e, shown, row) => EditorOK(e, shown, new)
           /\ \A q : row.revision \in Nat /\ AskOK(q, row) => AskOK(q, new)
<1>1. ASSUME NEW e, NEW shown, EditorOK(e, shown, row) PROVE EditorOK(e, shown, new)
    <2>1. NewestOK(e, new)
        BY <1>1 DEF Follows, EditorOK, Steady, NewestOK
    <2>2. QED BY <1>1, <2>1 DEF EditorOK, Steady
<1>2. ASSUME NEW q, row.revision \in Nat, AskOK(q, row) PROVE AskOK(q, new)
    BY <1>2 DEF Follows, AskOK
<1>3. QED BY <1>1, <1>2

LEMMA UpdateFollows ==
    ASSUME EditorsInv, NEW call, Editors!Update(call)
    PROVE  /\ Follows(server', server)
           /\ Editors!UpdateAnswer(call) = "saved" => server'.text = call.patch
           /\ Editors!UpdateAnswer(call) # "saved" => server' = server
<1>1. CASE Editors!UpdateAnswer(call) = "saved"
    <2>1. server' = [server EXCEPT !.revision = @ + 1, !.text = call.patch]
        BY <1>1 DEF Editors!Update
    <2>2. DOMAIN server = {"revision", "text", "locked"} /\ server.revision \in Nat \ {0}
        BY DEF EditorsInv
    <2>3. /\ DOMAIN server' = {"revision", "text", "locked"} /\ server'.text = call.patch
          /\ server'.revision = server.revision + 1
        BY <2>1, <2>2
    <2>4. QED BY <1>1, <2>2, <2>3 DEF Follows
<1>2. CASE Editors!UpdateAnswer(call) # "saved"
    BY <1>2 DEF EditorsInv, Editors!Update, Follows
<1>3. QED BY <1>1, <1>2

LEMMA HandleSaveStep ==
    ASSUME EditorsInv, NEW c \in Device, Editors!HandleSave(c)
    PROVE  EditorsInv'
<1> DEFINE e == editor[c]
           answer == Editors!UpdateAnswer(e.call)
           n == [e EXCEPT !.call.at = answer, !.call.base = server'.revision]
<1>1. /\ e.call.at = "sent" /\ Editors!Update(e.call) /\ Editors!Becomes(c, n)
      /\ UNCHANGED <<ask, typed, seen, frozen>>
    BY DEF Editors!HandleSave
<1>2. /\ Follows(server', server)
      /\ answer = "saved" => server'.text = e.call.patch
    BY <1>1, UpdateFollows
<1>3. answer \in {"refused", "stale", "saved"}
    BY DEF Editors!UpdateAnswer
<1>4. EditorOK(e, seen[c], server')
    BY <1>2, RowMoves DEF EditorsInv
<1>5. EditorOK(n, seen[c], server')
    <2>1. /\ DOMAIN n = EditorParts /\ n.state = e.state /\ n.base = e.base
          /\ n.pending = e.pending /\ n.choice = e.choice /\ n.view = e.view /\ n.timer = e.timer
        BY <1>4 DEF EditorOK, Steady, PartsOK, EditorParts
    <2>2. /\ DOMAIN n.call = {"at", "patch", "base"} /\ n.call.at = answer
          /\ n.call.base = server'.revision /\ n.call.patch = e.call.patch
        BY <1>4 DEF EditorOK, Steady, PartsOK, EditorParts
    <2>3. e.call # Editors!NoCall /\ n.call # Editors!NoCall
        BY <1>1, <1>3, <2>2 DEF Editors!NoCall
    <2> HIDE DEF n, answer
    <2>4. PartsOK(n) /\ HandOK(n) /\ Moving(n)
        BY <1>4, <2>1, <2>2, <2>3 DEF EditorOK, Steady, PartsOK, HandOK, Moving
    <2>5. SeenOK(n, seen[c])
        BY <1>3, <1>4, <2>1, <2>2 DEF EditorOK, Steady, SeenOK
    <2>6. NewestOK(n, server')
        BY <1>2, <1>4, <2>1, <2>2 DEF EditorOK, Steady, NewestOK, Follows
    <2>7. QED BY <2>4, <2>5, <2>6 DEF EditorOK, Steady
<1> HIDE DEF n
<1>6. /\ DOMAIN editor' = Device /\ editor'[c] = n
      /\ \A d \in Device \ {c} : editor'[d] = editor[d]
    BY <1>1 DEF EditorsInv, Editors!Becomes
<1>7. \A d \in Device : EditorOK(editor'[d], seen'[d], server') /\ AskOK(ask'[d], server')
    BY <1>1, <1>2, <1>5, <1>6, RowMoves DEF EditorsInv
<1>8. QED BY <1>1, <1>2, <1>6, <1>7 DEF EditorsInv, Follows, Editors!SendFreezesWhatWasShown

(* The row alone moves: a late save is handled, or the send ended.         *)
LEMMA RowStep ==
    ASSUME EditorsInv, Follows(server', server), UNCHANGED <<editor, ask, typed, seen, frozen>>
    PROVE  EditorsInv'
<1>1. \A d \in Device : EditorOK(editor'[d], seen'[d], server') /\ AskOK(ask'[d], server')
    BY RowMoves DEF EditorsInv
<1>2. QED BY <1>1 DEF EditorsInv, Follows, Editors!SendFreezesWhatWasShown

LEMMA OpenEditorStep ==
    ASSUME EditorsInv, NEW c \in Device, Editors!OpenEditor(c)
    PROVE  EditorsInv'
<1> DEFINE e == [Editors!Closed EXCEPT !.state = "saved", !.base = server.revision,
                                       !.view = server.text]
<1>1. Editors!Becomes(c, e) /\ Editors!Sees(c, server.revision) /\ UNCHANGED <<server, ask, typed, frozen>>
    BY DEF Editors!OpenEditor
<1>2. /\ DOMAIN seen' = Device /\ seen'[c] = seen[c] \cup {server.revision}
      /\ \A d \in Device \ {c} : seen'[d] = seen[d]
    BY <1>1 DEF EditorsInv, Editors!Sees
<1>3. /\ e.call = Editors!NoCall /\ e.choice = Editors!NoChoice /\ e.state = "saved"
      /\ e.base = server.revision /\ e.pending = 0 /\ e.view = server.text /\ DOMAIN e = EditorParts
    BY DEF Editors!Closed, EditorParts
<1> HIDE DEF e
<1>4. PartsOK(e) /\ HandOK(e) /\ Moving(e)
    BY <1>3 DEF Editors!NoCall, Editors!NoChoice, PartsOK, HandOK, Moving
<1>5. SeenOK(e, seen'[c]) /\ NewestOK(e, server)
    BY <1>2, <1>3 DEF EditorsInv, Editors!NoCall, Editors!NoChoice, SeenOK, NewestOK
<1>6. EditorOK(e, seen'[c], server)
    BY <1>4, <1>5 DEF EditorOK, Steady
<1>7. QED BY <1>1, <1>2, <1>6, EditorTurns DEF EditorsInv

LEMMA TypeStep ==
    ASSUME EditorsInv, NEW c \in Device, Editors!Type(c)
    PROVE  EditorsInv'
<1> DEFINE n == Editors!Push(editor[c], typed')
<1>1. /\ typed' \in Nat /\ typed' # 0 /\ editor[c].state # "closed" /\ Editors!Becomes(c, n)
      /\ UNCHANGED <<server, ask, seen, frozen>>
    BY DEF EditorsInv, Editors!Type, Editors!Open, Editors!history
<1>2. EditorOK(n, seen[c], server)
    BY <1>1, PushOK DEF EditorsInv
<1> HIDE DEF n
<1>3. QED BY <1>1, <1>2, EditorTurns DEF EditorsInv

(* A flush begins from an editor that is steady.                           *)
LEMMA FlushTurns ==
    ASSUME EditorsInv, NEW c \in Device, NEW e, Steady(e, seen[c], server), e.state # "closed",
           Editors!Becomes(c, Editors!Flush(e)), UNCHANGED <<server, ask, seen, typed, frozen>>
    PROVE  EditorsInv'
<1> DEFINE n == Editors!Flush(e)
<1>1. EditorOK(n, seen[c], server)
    BY FlushOK
<1> HIDE DEF n
<1>2. QED BY <1>1, EditorTurns DEF EditorsInv, n

LEMMA TimerFiresStep ==
    ASSUME EditorsInv, NEW c \in Device, Editors!TimerFires(c)
    PROVE  EditorsInv'
<1> DEFINE e == [editor[c] EXCEPT !.timer = FALSE]
<1>1. /\ editor[c].state # "closed" /\ Editors!Becomes(c, Editors!Flush(e))
      /\ UNCHANGED <<server, ask, seen, typed, frozen>>
    BY DEF Editors!TimerFires, Editors!Open, Editors!history
<1>2. Steady(editor[c], seen[c], server)
    BY DEF EditorsInv, EditorOK
<1>3. Steady(e, seen[c], server) /\ e.state = editor[c].state
    BY <1>2, SignalsFree DEF Steady, PartsOK, EditorParts
<1> HIDE DEF e
<1>4. QED BY <1>1, <1>3, FlushTurns

LEMMA SaveNowStep ==
    ASSUME EditorsInv, NEW c \in Device, Editors!SaveNow(c)
    PROVE  EditorsInv'
<1>1. /\ editor[c].state # "closed" /\ Editors!Becomes(c, Editors!Flush(editor[c]))
      /\ UNCHANGED <<server, ask, seen, typed, frozen>>
    BY DEF Editors!SaveNow, Editors!history
<1>2. QED BY <1>1, FlushTurns DEF EditorsInv, EditorOK

LEMMA RetryStep ==
    ASSUME EditorsInv, NEW c \in Device, Editors!Retry(c)
    PROVE  EditorsInv'
<1> DEFINE e == editor[c]
           n == [e EXCEPT !.state = "unsaved"]
<1>1. /\ e.state \in {"offline", "error"} /\ Editors!Becomes(c, Editors!Flush(n))
      /\ UNCHANGED <<server, ask, seen, typed, frozen>>
    BY DEF Editors!Retry, Editors!history
<1>2. Steady(e, seen[c], server)
    BY DEF EditorsInv, EditorOK
<1>3. /\ DOMAIN n = EditorParts /\ n.state = "unsaved" /\ n.base = e.base /\ n.pending = e.pending
      /\ n.call = e.call /\ n.choice = e.choice /\ n.view = e.view
    BY <1>2 DEF Steady, PartsOK, EditorParts
<1> HIDE DEF n
<1>4. Steady(n, seen[c], server)
    BY <1>1, <1>2, <1>3 DEF Steady, PartsOK, HandOK, SeenOK, NewestOK
<1>5. QED BY <1>1, <1>3, <1>4, FlushTurns

LEMMA KeepLocalCopyStep ==
    ASSUME EditorsInv, NEW c \in Device, Editors!KeepLocalCopy(c)
    PROVE  EditorsInv'
<1> DEFINE e == editor[c]
           n == [e EXCEPT !.base = e.choice.revision, !.state = "unsaved"]
<1>1. /\ e.state = "conflict" /\ e.choice # Editors!NoChoice
      /\ Editors!Becomes(c, Editors!Flush(n)) /\ UNCHANGED <<server, ask, seen, typed, frozen>>
    BY DEF Editors!KeepLocalCopy, Editors!history
<1>2. Steady(e, seen[c], server)
    BY DEF EditorsInv, EditorOK
<1>3. /\ DOMAIN n = EditorParts /\ n.state = "unsaved" /\ n.base = e.choice.revision
      /\ n.pending = e.pending /\ n.call = e.call /\ n.choice = e.choice /\ n.view = e.view
    BY <1>2 DEF Steady, PartsOK, EditorParts
<1> HIDE DEF n
<1>4. Steady(n, seen[c], server)
    BY <1>1, <1>2, <1>3 DEF Steady, PartsOK, HandOK, SeenOK, NewestOK
<1>5. QED BY <1>1, <1>3, <1>4, FlushTurns

LEMMA ClickSendStep ==
    ASSUME EditorsInv, NEW c \in Device, Editors!ClickSend(c)
    PROVE  EditorsInv'
<1> DEFINE e == editor[c]
           n == [e EXCEPT !.sending = TRUE]
<1>1. /\ e.state # "closed" /\ Editors!Becomes(c, IF e.pending = 0 THEN n ELSE Editors!Flush(n))
      /\ UNCHANGED <<server, ask, seen, typed, frozen>>
    BY DEF Editors!ClickSend, Editors!history
<1>2. Steady(e, seen[c], server)
    BY DEF EditorsInv, EditorOK
<1>3. Steady(n, seen[c], server) /\ n.state = e.state /\ n.pending = e.pending
    BY <1>2, SignalsFree DEF Steady, PartsOK, EditorParts
<1> HIDE DEF n
<1>4. CASE e.pending = 0
    <2>1. EditorOK(n, seen[c], server)
        BY <1>3, <1>4 DEF EditorOK, Moving
    <2>2. QED BY <1>1, <1>4, <2>1, EditorTurns DEF EditorsInv
<1>5. CASE e.pending # 0
    BY <1>1, <1>3, <1>5, FlushTurns
<1>6. QED BY <1>4, <1>5

LEMMA AskSendStep ==
    ASSUME EditorsInv, NEW c \in Device, Editors!AskSend(c)
    PROVE  EditorsInv'
<1> DEFINE e == editor[c]
           n == [e EXCEPT !.sending = FALSE]
<1>1. /\ e.sending /\ e.call = Editors!NoCall /\ Editors!Becomes(c, n)
      /\ ask' = IF Editors!SendsNow(e)
                THEN [ask EXCEPT ![c] = [at |-> "sent", base |-> e.base, view |-> e.view]]
                ELSE ask
      /\ UNCHANGED <<server, seen, typed, frozen>>
    BY DEF Editors!AskSend, Editors!history
<1>2. EditorOK(e, seen[c], server)
    BY DEF EditorsInv
<1>3. /\ Steady(n, seen[c], server) /\ n.state = e.state /\ n.pending = e.pending
      /\ n.timer = e.timer /\ n.call = e.call
    BY <1>2, SignalsFree DEF EditorOK, Steady, PartsOK, EditorParts
<1>4. EditorOK(n, seen[c], server)
    BY <1>2, <1>3 DEF EditorOK, Moving
<1> HIDE DEF n
<1>5. /\ DOMAIN editor' = Device /\ editor'[c] = n
      /\ \A d \in Device \ {c} : editor'[d] = editor[d]
    BY <1>1 DEF EditorsInv, Editors!Becomes
<1>6. DOMAIN ask' = Device /\ \A d \in Device : AskOK(ask'[d], server)
    <2>1. CASE Editors!SendsNow(e)
        <3> DEFINE q == [at |-> "sent", base |-> e.base, view |-> e.view]
        <3>1. AskOK(q, server)
            BY <1>2, <2>1 DEF EditorOK, Steady, NewestOK, AskOK, Editors!SendsNow
        <3> HIDE DEF q
        <3>2. ask' = [ask EXCEPT ![c] = q]
            BY <1>1, <2>1 DEF q
        <3>3. QED BY <3>1, <3>2 DEF EditorsInv
    <2>2. CASE ~Editors!SendsNow(e)
        BY <1>1, <2>2 DEF EditorsInv
    <2>3. QED BY <2>1, <2>2
<1>7. QED BY <1>1, <1>4, <1>5, <1>6 DEF EditorsInv, Editors!SendFreezesWhatWasShown

LEMMA SettleSaveStep ==
    ASSUME EditorsInv, NEW c \in Device, Editors!SettleSave(c)
    PROVE  EditorsInv'
<1> DEFINE e == editor[c]
<1>1. e.state # "closed" /\ UNCHANGED <<server, ask, typed, frozen>>
    BY DEF Editors!SettleSave, Editors!Open
<1>2. EditorOK(e, seen[c], server) /\ Steady(e, seen[c], server)
    BY DEF EditorsInv, EditorOK
<1>3. CASE /\ e.call.at = "saved" /\ Editors!Becomes(c, Editors!Saved(e, e.call.base))
           /\ Editors!Sees(c, e.call.base)
    <2> DEFINE n == Editors!Saved(e, e.call.base)
    <2>1. EditorOK(n, seen[c] \cup {e.call.base}, server)
        BY <1>1, <1>2, <1>3, SavedOK
    <2>2. Editors!Becomes(c, n)
        BY <1>3
    <2> HIDE DEF n
    <2>3. /\ DOMAIN seen' = Device /\ seen'[c] = seen[c] \cup {e.call.base}
          /\ \A d \in Device \ {c} : seen'[d] = seen[d]
        BY <1>3 DEF EditorsInv, Editors!Sees
    <2>4. QED BY <1>1, <2>1, <2>2, <2>3, EditorTurns DEF EditorsInv
<1>4. CASE e.call.at = "stale" /\ Editors!Becomes(c, Editors!Conflict(e)) /\ UNCHANGED seen
    <2> DEFINE m == [e EXCEPT !.choice = Editors!NoChoice]
               n == Editors!Unsaved(m, "conflict")
    <2>1. e.call # Editors!NoCall /\ e.pending # 0
        BY <1>2, <1>4 DEF Steady, HandOK, Editors!NoCall
    <2>2. /\ DOMAIN m = EditorParts /\ m.state = e.state /\ m.base = e.base /\ m.call = e.call
          /\ m.pending = e.pending /\ m.choice = Editors!NoChoice /\ m.view = e.view
        BY <1>2 DEF Steady, PartsOK, EditorParts
    <2>3. Editors!Becomes(c, n)
        BY <1>4 DEF Editors!Conflict
    <2> HIDE DEF m
    <2>4. PartsOK(m) /\ HandOK(m) /\ SeenOK(m, seen[c])
        BY <1>2, <2>2 DEF Steady, PartsOK, HandOK, SeenOK, Editors!NoChoice
    <2>5. NewestOK(m, server)
        BY <1>2, <2>2 DEF Steady, NewestOK, Editors!NoChoice
    <2>6. EditorOK(n, seen[c], server)
        BY <1>1, <2>1, <2>2, <2>4, <2>5, UnsavedOK DEF Steady
    <2> HIDE DEF n
    <2>7. QED BY <1>1, <1>4, <2>3, <2>6, EditorTurns DEF EditorsInv
<1>5. CASE e.call.at = "refused" /\ Editors!Becomes(c, Editors!Unsaved(e, "error")) /\ UNCHANGED seen
    <2> DEFINE n == Editors!Unsaved(e, "error")
    <2>1. e.pending # 0
        BY <1>2, <1>5 DEF Steady, HandOK, Editors!NoCall
    <2>2. EditorOK(n, seen[c], server) /\ Editors!Becomes(c, n)
        BY <1>1, <1>2, <1>5, <2>1, UnsavedOK
    <2> HIDE DEF n
    <2>3. QED BY <1>1, <1>5, <2>2, EditorTurns DEF EditorsInv
<1>6. QED BY <1>3, <1>4, <1>5 DEF Editors!SettleSave

LEMMA LoseSaveStep ==
    ASSUME EditorsInv, NEW c \in Device, Editors!LoseSave(c)
    PROVE  EditorsInv'
<1> DEFINE e == editor[c]
           n == Editors!Unsaved(e, "offline")
<1>1. /\ e.state # "closed" /\ e.call # Editors!NoCall /\ Editors!Becomes(c, n)
      /\ UNCHANGED <<server, ask, typed, seen, frozen>>
    BY DEF Editors!LoseSave, Editors!Open
<1>2. Steady(e, seen[c], server) /\ e.pending # 0
    BY <1>1 DEF EditorsInv, EditorOK, Steady, HandOK
<1>3. EditorOK(n, seen[c], server)
    BY <1>1, <1>2, UnsavedOK
<1> HIDE DEF n
<1>4. QED BY <1>1, <1>3, EditorTurns DEF EditorsInv

(* The choice of a conflict, as it was read or as the editor has it.       *)
LEMMA ChoiceTurns ==
    ASSUME EditorsInv, NEW c \in Device, editor[c].state = "conflict", NEW choice,
           DOMAIN choice = {"revision", "readable", "text"},
           Editors!Becomes(c, [editor[c] EXCEPT !.choice = choice]),
           DOMAIN seen' = Device, \A d \in Device \ {c} : seen'[d] = seen[d],
           seen[c] \subseteq seen'[c], choice.revision \in seen'[c],
           choice.revision \in Nat, choice.revision <= server.revision,
           choice.readable => choice.text = server.text,
           UNCHANGED <<server, ask, typed, frozen>>
    PROVE  EditorsInv'
<1> DEFINE e == editor[c]
           n == [e EXCEPT !.choice = choice]
<1>1. EditorOK(e, seen[c], server)
    BY DEF EditorsInv
<1>2. /\ DOMAIN n = EditorParts /\ n.state = e.state /\ n.base = e.base /\ n.call = e.call
      /\ n.pending = e.pending /\ n.choice = choice /\ n.view = e.view /\ n.timer = e.timer
    BY <1>1 DEF EditorOK, Steady, PartsOK, EditorParts
<1>3. Editors!Becomes(c, n)
    OBVIOUS
<1> HIDE DEF n
<1>4. PartsOK(n) /\ HandOK(n) /\ Moving(n)
    BY <1>1, <1>2 DEF EditorOK, Steady, PartsOK, HandOK, Moving
<1>5. SeenOK(n, seen'[c])
    BY <1>1, <1>2 DEF EditorOK, Steady, SeenOK
<1>6. NewestOK(n, server)
    BY <1>1, <1>2 DEF EditorOK, Steady, NewestOK
<1>7. EditorOK(n, seen'[c], server)
    BY <1>4, <1>5, <1>6 DEF EditorOK, Steady
<1>8. QED BY <1>3, <1>7, EditorTurns DEF EditorsInv

LEMMA ShowConflictStep ==
    ASSUME EditorsInv, NEW c \in Device, Editors!ShowConflict(c)
    PROVE  EditorsInv'
<1> DEFINE choice == [revision |-> server.revision, readable |-> TRUE, text |-> server.text]
<1>1. /\ editor[c].state = "conflict"
      /\ Editors!Becomes(c, [editor[c] EXCEPT !.choice = choice])
      /\ Editors!Sees(c, server.revision) /\ UNCHANGED <<server, ask, typed, frozen>>
    BY DEF Editors!ShowConflict
<1>2. /\ DOMAIN seen' = Device /\ seen'[c] = seen[c] \cup {server.revision}
      /\ \A d \in Device \ {c} : seen'[d] = seen[d]
    BY <1>1 DEF EditorsInv, Editors!Sees
<1>3. /\ DOMAIN choice = {"revision", "readable", "text"}
      /\ choice.revision = server.revision /\ choice.text = server.text
    OBVIOUS
<1>4. server.revision \in Nat
    BY DEF EditorsInv
<1> HIDE DEF choice
<1>5. QED BY <1>1, <1>2, <1>3, <1>4, ChoiceTurns

LEMMA ShowOwnRevisionStep ==
    ASSUME EditorsInv, NEW c \in Device, Editors!ShowOwnRevision(c)
    PROVE  EditorsInv'
<1> DEFINE e == editor[c]
           choice == [e.choice EXCEPT !.revision = e.base]
<1>1. /\ e.state = "conflict" /\ e.choice = Editors!NoChoice
      /\ Editors!Becomes(c, [e EXCEPT !.choice = choice])
      /\ UNCHANGED <<server, ask, typed, seen, frozen>>
    BY DEF Editors!ShowOwnRevision, Editors!history, EditorsInv, EditorOK, Steady, PartsOK, EditorParts
<1>2. EditorOK(e, seen[c], server)
    BY DEF EditorsInv
<1>3. /\ DOMAIN choice = {"revision", "readable", "text"}
      /\ choice.revision = e.base /\ ~choice.readable
    BY <1>1 DEF Editors!NoChoice
<1>4. e.base \in seen[c] /\ e.base \in Nat /\ e.base <= server.revision
    BY <1>1, <1>2 DEF EditorOK, Steady, SeenOK, NewestOK
<1> HIDE DEF choice
<1>5. QED BY <1>1, <1>3, <1>4, ChoiceTurns DEF EditorsInv

LEMMA AcceptServerCopyStep ==
    ASSUME EditorsInv, NEW c \in Device, Editors!AcceptServerCopy(c)
    PROVE  EditorsInv'
<1> DEFINE e == editor[c]
           n == [e EXCEPT !.base = e.choice.revision, !.pending = 0, !.view = e.choice.text,
                          !.state = "saved"]
<1>1. /\ e.state = "conflict" /\ e.choice.readable /\ Editors!Becomes(c, n)
      /\ UNCHANGED <<server, ask, typed, seen, frozen>>
    BY DEF Editors!AcceptServerCopy, Editors!history
<1>2. Steady(e, seen[c], server)
    BY DEF EditorsInv, EditorOK
<1>3. /\ DOMAIN n = EditorParts /\ n.state = "saved" /\ n.base = e.choice.revision /\ n.pending = 0
      /\ n.call = e.call /\ n.choice = e.choice /\ n.view = e.choice.text
    BY <1>2 DEF Steady, PartsOK, EditorParts
<1>4. e.call = Editors!NoCall /\ e.choice # Editors!NoChoice
    BY <1>1, <1>2 DEF Steady, HandOK, Editors!NoChoice
<1> HIDE DEF n
<1>5. PartsOK(n) /\ HandOK(n) /\ Moving(n)
    BY <1>2, <1>3, <1>4 DEF Steady, PartsOK, HandOK, Moving
<1>6. SeenOK(n, seen[c]) /\ NewestOK(n, server)
    BY <1>1, <1>2, <1>3, <1>4 DEF Steady, SeenOK, NewestOK
<1>7. EditorOK(n, seen[c], server)
    BY <1>5, <1>6 DEF EditorOK, Steady
<1>8. QED BY <1>1, <1>7, EditorTurns DEF EditorsInv

LEMMA CloseEditorStep ==
    ASSUME EditorsInv, NEW c \in Device, Editors!CloseEditor(c)
    PROVE  EditorsInv'
<1>1. Editors!Becomes(c, Editors!Closed) /\ UNCHANGED <<server, ask, typed, seen, frozen>>
    BY DEF Editors!CloseEditor
<1>2. EditorOK(Editors!Closed, seen[c], server)
    BY ClosedOK DEF EditorsInv
<1>3. QED BY <1>1, <1>2, EditorTurns DEF EditorsInv

(* The freeze compares the revision that was asked for.                    *)
LEMMA HandleAskStep ==
    ASSUME EditorsInv, NEW c \in Device, Editors!HandleAsk(c)
    PROVE  EditorsInv'
<1>1. /\ ask[c].at = "sent" /\ ask' = [ask EXCEPT ![c] = Editors!NoAsk]
      /\ UNCHANGED <<editor, typed, seen>>
    BY DEF Editors!HandleAsk
<1>2. AskOK(ask[c], server)
    BY DEF EditorsInv
<1>3. Follows(server', server)
    BY DEF Editors!HandleAsk, EditorsInv, Follows
<1>4. \A s \in frozen' : s.text = s.view
    <2>1. CASE ask[c].base = server.revision /\ ~server.locked
        <3>1. frozen' = frozen \cup {[text |-> server.text, view |-> ask[c].view]}
            BY <2>1 DEF Editors!HandleAsk
        <3>2. ask[c].view = server.text
            BY <1>1, <1>2, <2>1 DEF AskOK
        <3>3. QED BY <3>1, <3>2 DEF EditorsInv, Editors!SendFreezesWhatWasShown
    <2>2. CASE ~(ask[c].base = server.revision /\ ~server.locked)
        BY <2>2 DEF Editors!HandleAsk, EditorsInv, Editors!SendFreezesWhatWasShown
    <2>3. QED BY <2>1, <2>2
<1>5. DOMAIN ask' = Device /\ \A d \in Device : AskOK(ask'[d], server)
    BY <1>1 DEF EditorsInv, AskOK, Editors!NoAsk
<1>6. \A d \in Device : EditorOK(editor'[d], seen'[d], server') /\ AskOK(ask'[d], server')
    BY <1>1, <1>3, <1>5, RowMoves DEF EditorsInv
<1>7. QED BY <1>1, <1>3, <1>4, <1>5, <1>6 DEF EditorsInv, Follows, Editors!SendFreezesWhatWasShown

LEMMA EditorsStep == EditorsInv /\ [Editors!Next]_editorsVars => EditorsInv'
<1> SUFFICES ASSUME EditorsInv, [Editors!Next]_editorsVars PROVE EditorsInv'
    OBVIOUS
<1>1. CASE UNCHANGED editorsVars
    BY <1>1 DEF editorsVars, EditorsInv, Editors!SendFreezesWhatWasShown
<1>2. ASSUME NEW c \in Device, Editors!EditorStep(c) PROVE EditorsInv'
    BY <1>2, OpenEditorStep, TypeStep, TimerFiresStep, SaveNowStep, RetryStep, HandleSaveStep,
       SettleSaveStep, LoseSaveStep, ShowConflictStep, ShowOwnRevisionStep, AcceptServerCopyStep,
       KeepLocalCopyStep, CloseEditorStep, ClickSendStep, AskSendStep, HandleAskStep
    DEF Editors!EditorStep
<1>3. ASSUME NEW l \in late, Editors!HandleLate(l) PROVE EditorsInv'
    BY <1>3, UpdateFollows, RowStep DEF Editors!HandleLate
<1>4. ASSUME Editors!Unlock PROVE EditorsInv'
    <2>1. Follows(server', server)
        BY <1>4 DEF Editors!Unlock, EditorsInv, Follows
    <2>2. QED BY <1>4, <2>1, RowStep DEF Editors!Unlock, Editors!history
<1>5. QED BY <1>1, <1>2, <1>3, <1>4 DEF Editors!Next

LEMMA EditorsSafe ==
    EditorsInv => /\ Editors!PendingHasASave /\ Editors!SendFreezesWhatWasShown
                  /\ Editors!ReplacesOnlyWhatItSaw
<1> SUFFICES ASSUME EditorsInv
             PROVE  Editors!PendingHasASave /\ Editors!ReplacesOnlyWhatItSaw
    BY DEF EditorsInv
<1>1. Editors!PendingHasASave
    BY DEF EditorsInv, EditorOK, Moving, Editors!PendingHasASave
<1>2. ASSUME NEW c \in Device, Editors!HandleSave(c), server' # server
      PROVE  server.revision \in seen[c]
    <2>1. editor[c].call.at = "sent" /\ Editors!Update(editor[c].call)
        BY <1>2 DEF Editors!HandleSave
    <2>2. Editors!UpdateAnswer(editor[c].call) = "saved"
        BY <1>2, <2>1 DEF Editors!Update
    <2>3. editor[c].call.base = server.revision
        BY <2>2 DEF Editors!UpdateAnswer
    <2>4. QED BY <2>1, <2>3 DEF EditorsInv, EditorOK, Steady, SeenOK
<1>3. QED BY <1>1, <1>2 DEF Editors!ReplacesOnlyWhatItSaw

-----------------------------------------------------------------------------
(* The editors keep the edits in their hands, whatever calls are lost,     *)
(* late or stale and however many devices edit: a pending edit is on its   *)
(* way or held for the person, a text is only replaced by a device that    *)
(* was shown it, and a send freezes what its editor showed                 *)
(* (DraftAutosaver, submitSend; updateDraft, freezeSnapshot).              *)
THEOREM EditorsStayTrue == ClientsSpec => EditorsKeepWork
<1> DEFINE Inv == DraftsInv /\ EditorsInv
<1>1. ClientsInit => Inv
    BY InitHolds, EditorsBegin DEF ClientsInit
<1>2. Inv /\ [ClientsNext]_clientsVars => Inv'
    BY StepHolds, DraftsAlone, EditorsStep, EditorsAlone
<1>3. Inv => LoadedIsCurrent /\ Editors!PendingHasASave /\ Editors!SendFreezesWhatWasShown
    BY EditorsSafe DEF DraftsInv
<1>4. Inv /\ [ClientsNext]_clientsVars => [Editors!ReplacesOnlyWhatItSaw]_editorsVars
    BY EditorsSafe
<1>5. QED BY <1>1, <1>2, <1>3, <1>4, PTL DEF ClientsSpec, EditorsKeepWork

-----------------------------------------------------------------------------
(* The offline queue.                                                      *)

(* The queue holds finitely many actions.                                  *)
QueueEnds == MaxItems \in Nat

ActionParts == {"state", "kind", "base", "stamp", "at", "tried", "acks"}

(* An edit that waits for its first call, and not from a review.           *)
Waits(a) == a.state = "pending" /\ a.kind = "save" /\ ~a.tried /\ a.acks = 0

(* Actions are queued one after the other and never put back, and an edit  *)
(* fails only after a call.                                                *)
QueueOK ==
    /\ DOMAIN queue = Offline!Item
    /\ \A i \in Offline!Item :
         DOMAIN queue[i] = ActionParts /\ queue[i].at \in Nat /\ queue[i].acks \in Nat
    /\ \A i, j \in Offline!Item : j < i /\ queue[i].state # "none"
         => queue[j].state # "none" /\ queue[j].at <= queue[i].at
    /\ \A i \in Offline!Item :
         queue[i].kind = "save" /\ queue[i].state = "failed" => queue[i].tried

(* An edit queued before a send stands before it in the pass.              *)
InOrder(todo, q) ==
    \A k \in DOMAIN todo : q[todo[k]].kind = "send" =>
        \A j \in Offline!Item : j < todo[k] /\ Waits(q[j]) =>
            \E m \in DOMAIN todo : m < k /\ todo[m] = j

TodoOK(todo, q) ==
    /\ todo \in Seq(Offline!Item)
    /\ \A k \in DOMAIN todo : q[todo[k]].state # "none"
    /\ InOrder(todo, q)

(* The pass works on a copy: the person may have dropped the action since. *)
(* A send is called when no edit queued before it waits.                   *)
WorkOK(p, q) ==
    p.at \in {"calling", "sent", "answered", "filed"} =>
        LET i == Head(p.todo)
        IN  /\ p.todo # <<>>
            /\ q[i].state # "dropped" => q[i].tried /\ q[i].kind = p.copy.kind
            /\ p.at \in {"calling", "sent"} /\ p.copy.kind = "send" =>
                 \A j \in Offline!Item : j < i => ~Waits(q[j])

(* What the port calls synced, the server has taken.                       *)
AnswerOK(p, taken) ==
    p.at = "answered" =>
        /\ p.answer \in {"synced", "retry", "signin", "review", "failed"}
        /\ p.answer = "synced" /\ p.copy.kind = "save" => Head(p.todo) \in taken

PassParts == {"at", "generation", "todo", "copy", "header", "answer", "revision"}

QueueInv ==
    /\ QueueOK /\ DOMAIN pass = PassParts
    /\ TodoOK(pass.todo, queue) /\ WorkOK(pass, queue) /\ AnswerOK(pass, held)
    /\ \A i \in watch : i \in Offline!Item /\ queue[i].state # "none"
    /\ ReplayKeepsEdits

LEMMA QueueBegin == QueueEnds /\ Offline!Init => QueueInv
<1> SUFFICES ASSUME QueueEnds, Offline!Init PROVE QueueInv
    OBVIOUS
<1>1. QueueOK
    BY DEF Offline!Init, Offline!Unqueued, QueueOK, ActionParts
<1>2. DOMAIN pass = PassParts /\ pass.todo = <<>> /\ pass.at = "idle"
    BY DEF Offline!Init, Offline!Idle, PassParts
<1>3. TodoOK(pass.todo, queue) /\ WorkOK(pass, queue) /\ AnswerOK(pass, held)
    BY <1>2 DEF TodoOK, InOrder, WorkOK, AnswerOK
<1>4. ReplayKeepsEdits
    BY DEF Offline!Init, Offline!Unqueued, ReplayKeepsEdits, Offline!EditsAreKept, Offline!SavesGoFirst
<1>5. QED BY <1>1, <1>2, <1>3, <1>4 DEF QueueInv, Offline!Init

-----------------------------------------------------------------------------
(* What one action becomes without being queued: nothing new waits.        *)

Moved(a, b) ==
    /\ DOMAIN b = ActionParts /\ b.at = a.at /\ b.acks \in Nat
    /\ a.state = "none" => b = a
    /\ a.state # "none" => b.state # "none"
    /\ b.kind = "save" /\ b.state = "failed" => b.tried
    /\ Waits(b) => Waits(a)
    /\ b.kind = "send" => a.kind = "send"

(* A dropped action stays dropped, another one keeps its kind and call.    *)
Carries(a, b) ==
    b.state # "dropped" => a.state # "dropped" /\ b.kind = a.kind /\ (a.tried => b.tried)

SyncedSave(a) == a.kind = "save" /\ a.state = "synced"

QueueMoves == DOMAIN queue' = Offline!Item /\ \A i \in Offline!Item : Moved(queue[i], queue'[i])

LEMMA StillMoves ==
    ASSUME QueueOK, NEW i \in Offline!Item
    PROVE  Moved(queue[i], queue[i]) /\ Carries(queue[i], queue[i])
BY DEF QueueOK, Moved, Carries

LEMMA QueueKept == QueueOK /\ QueueMoves => QueueOK'
<1> SUFFICES ASSUME QueueOK, QueueMoves PROVE QueueOK'
    OBVIOUS
<1>1. \A i \in Offline!Item :
        /\ DOMAIN queue'[i] = ActionParts /\ queue'[i].at = queue[i].at /\ queue'[i].at \in Nat
        /\ queue'[i].acks \in Nat
        /\ queue'[i].state = "none" <=> queue[i].state = "none"
        /\ queue'[i].kind = "save" /\ queue'[i].state = "failed" => queue'[i].tried
    BY DEF QueueOK, QueueMoves, Moved
<1>2. QED BY <1>1 DEF QueueOK, QueueMoves, Offline!Item

LEMMA TodoKept ==
    ASSUME QueueMoves, NEW todo, TodoOK(todo, queue)
    PROVE  TodoOK(todo, queue')
<1>1. \A k \in DOMAIN todo : todo[k] \in Offline!Item
    BY DEF TodoOK
<1>2. \A k \in DOMAIN todo : queue'[todo[k]].state # "none"
    BY <1>1 DEF TodoOK, QueueMoves, Moved
<1>3. InOrder(todo, queue')
    BY <1>1 DEF TodoOK, InOrder, QueueMoves, Moved
<1>4. QED BY <1>2, <1>3 DEF TodoOK

(* The pass goes on to the next action.                                    *)
LEMMA TodoShrinks ==
    ASSUME NEW todo, NEW q, TodoOK(todo, q), todo # <<>>, ~Waits(q[Head(todo)])
    PROVE  TodoOK(Tail(todo), q)
<1>1. /\ Tail(todo) \in Seq(Offline!Item) /\ Len(Tail(todo)) = Len(todo) - 1
      /\ Len(todo) \in Nat \ {0} /\ DOMAIN Tail(todo) = 1 .. Len(todo) - 1
      /\ DOMAIN todo = 1 .. Len(todo) /\ Head(todo) = todo[1]
      /\ \A k \in DOMAIN Tail(todo) : Tail(todo)[k] = todo[k + 1]
    BY DEF TodoOK
<1>2. \A k \in DOMAIN Tail(todo) : q[Tail(todo)[k]].state # "none"
    BY <1>1 DEF TodoOK
<1>3. InOrder(Tail(todo), q)
    <2>1. SUFFICES ASSUME NEW k \in DOMAIN Tail(todo), q[Tail(todo)[k]].kind = "send",
                          NEW j \in Offline!Item, j < Tail(todo)[k], Waits(q[j])
                   PROVE  \E m \in DOMAIN Tail(todo) : m < k /\ Tail(todo)[m] = j
        BY DEF InOrder
    <2>2. PICK m \in DOMAIN todo : m < k + 1 /\ todo[m] = j
        BY <1>1, <2>1 DEF TodoOK, InOrder
    <2>3. m # 1
        BY <1>1, <2>1, <2>2
    <2>4. m - 1 \in DOMAIN Tail(todo) /\ m - 1 < k /\ Tail(todo)[m - 1] = j
        BY <1>1, <2>1, <2>2, <2>3
    <2>5. QED BY <2>4
<1>4. QED BY <1>1, <1>2, <1>3 DEF TodoOK

(* A pass that is not at work on an action holds nothing to be kept.       *)
LEMMA Resting ==
    ASSUME NEW p, NEW q, NEW taken, p.at \notin {"calling", "sent", "answered", "filed"}
    PROVE  WorkOK(p, q) /\ AnswerOK(p, taken)
BY DEF WorkOK, AnswerOK

LEMMA WorkKept ==
    ASSUME QueueMoves, NEW p, TodoOK(p.todo, queue), WorkOK(p, queue),
           \A i \in Offline!Item : Carries(queue[i], queue'[i])
    PROVE  WorkOK(p, queue')
<1> SUFFICES ASSUME p.at \in {"calling", "sent", "answered", "filed"} PROVE WorkOK(p, queue')
    BY DEF WorkOK
<1>1. p.todo # <<>> /\ Head(p.todo) \in Offline!Item
    BY DEF WorkOK, TodoOK
<1>2. \A j \in Offline!Item : Waits(queue'[j]) => Waits(queue[j])
    BY DEF QueueMoves, Moved
<1>3. QED BY <1>1, <1>2 DEF WorkOK, Carries

(* The pass rests, or stays where it is.                                   *)
LEMMA QueueSteps ==
    ASSUME QueueInv, QueueMoves,
           \A i \in Offline!Item : SyncedSave(queue'[i]) => SyncedSave(queue[i]) \/ i \in held',
           held \subseteq held', Offline!SavesGoFirst',
           \A i \in watch' : i \in Offline!Item /\ queue'[i].state # "none",
           DOMAIN pass' = PassParts, TodoOK(pass'.todo, queue'), WorkOK(pass', queue'),
           AnswerOK(pass', held')
    PROVE  QueueInv'
<1>1. QueueOK'
    BY QueueKept DEF QueueInv
<1>2. ReplayKeepsEdits'
    BY DEF QueueInv, ReplayKeepsEdits, Offline!EditsAreKept, SyncedSave
<1>3. QED BY <1>1, <1>2 DEF QueueInv

(* The person, the observer or the server moves; the pass does not.        *)
LEMMA AsideSteps ==
    ASSUME QueueInv, QueueMoves, UNCHANGED <<pass, held, mailed>>,
           \A i \in Offline!Item : /\ Carries(queue[i], queue'[i])
                                   /\ SyncedSave(queue'[i]) => SyncedSave(queue[i]),
           \A i \in watch' : i \in Offline!Item /\ queue[i].state # "none"
    PROVE  QueueInv'
<1>1. TodoOK(pass'.todo, queue') /\ WorkOK(pass', queue') /\ AnswerOK(pass', held')
    BY TodoKept, WorkKept DEF QueueInv
<1>2. \A i \in watch' : i \in Offline!Item /\ queue'[i].state # "none"
    BY DEF QueueMoves, Moved
<1>3. Offline!SavesGoFirst'
    BY DEF QueueInv, ReplayKeepsEdits, Offline!SavesGoFirst
<1>4. QED BY <1>1, <1>2, <1>3, QueueSteps DEF QueueInv

-----------------------------------------------------------------------------
(* The person, the observer and the server.                                *)

(* A new action stands behind those in the queue and in the pass.          *)
LEMMA EnqueueStep ==
    ASSUME QueueInv, QueueEnds, NEW i \in Offline!Item, NEW kind, NEW base,
           Offline!Enqueue(i, kind, base), UNCHANGED <<pass, watch, held, mailed>>
    PROVE  QueueInv'
<1> DEFINE before == IF i = 1 THEN 0 ELSE queue[i - 1].at
<1>1. /\ queue[i].state = "none" /\ \A j \in 1 .. i - 1 : queue[j].state # "none"
      /\ \E at \in {before, before + 1} :
           queue' = [queue EXCEPT ![i] = [Offline!Unqueued EXCEPT !.state = "pending", !.kind = kind,
                                              !.base = base, !.stamp = meta, !.at = at]]
    BY DEF Offline!Enqueue, Offline!Entry
<1>2. PICK at \in {before, before + 1} :
         queue' = [queue EXCEPT ![i] = [Offline!Unqueued EXCEPT !.state = "pending", !.kind = kind,
                                            !.base = base, !.stamp = meta, !.at = at]]
    BY <1>1
<1>3. /\ DOMAIN queue' = Offline!Item /\ DOMAIN queue'[i] = ActionParts
      /\ queue'[i].state = "pending" /\ queue'[i].at = at /\ queue'[i].acks = 0
      /\ \A j \in Offline!Item \ {i} : queue'[j] = queue[j]
    BY <1>2 DEF QueueInv, QueueOK, Offline!Unqueued, ActionParts
<1>4. /\ before \in Nat /\ \A j \in Offline!Item : j < i => queue[j].at <= before
    <2>1. \A j \in Offline!Item : j < i => i # 1 /\ i - 1 \in Offline!Item /\ j <= i - 1
        BY DEF Offline!Item, QueueEnds
    <2>2. i # 1 => i - 1 \in Offline!Item
        BY DEF Offline!Item, QueueEnds
    <2>3. ASSUME NEW j \in Offline!Item, j < i PROVE queue[j].at <= queue[i - 1].at
        <3>1. queue[i - 1].state # "none"
            BY <1>1, <2>1, <2>3 DEF Offline!Item, QueueEnds
        <3>2. CASE j = i - 1
            BY <2>1, <2>3, <3>2 DEF QueueInv, QueueOK
        <3>3. CASE j # i - 1
            BY <2>1, <2>3, <3>1, <3>3 DEF QueueInv, QueueOK, Offline!Item
        <3>4. QED BY <3>2, <3>3
    <2>4. QED BY <2>1, <2>2, <2>3 DEF QueueInv, QueueOK
<1> HIDE DEF before
<1>5. at \in Nat /\ \A j \in Offline!Item : j < i => queue[j].at <= at
    BY <1>4 DEF QueueInv, QueueOK
<1>6. \A k \in Offline!Item : i < k => queue[k].state = "none"
    BY <1>1 DEF QueueInv, QueueOK
<1>7. QueueOK'
    <2>1. \A j \in Offline!Item : j < i => queue[j].state # "none"
        BY <1>1 DEF Offline!Item, QueueEnds
    <2>2. \A k, j \in Offline!Item : j < k /\ queue'[k].state # "none"
            => queue'[j].state # "none" /\ queue'[j].at <= queue'[k].at
        <3>1. SUFFICES ASSUME NEW k \in Offline!Item, NEW j \in Offline!Item, j < k,
                              queue'[k].state # "none"
                       PROVE  queue'[j].state # "none" /\ queue'[j].at <= queue'[k].at
            OBVIOUS
        <3>2. CASE k = i
            <4>1. j # i
                BY <3>1, <3>2 DEF Offline!Item
            <4>2. QED BY <1>3, <1>5, <2>1, <3>1, <3>2, <4>1
        <3>3. CASE k # i
            <4>1. j # i
                BY <1>3, <1>6, <3>1, <3>3
            <4>2. QED BY <1>3, <3>1, <3>3, <4>1 DEF QueueInv, QueueOK
        <3>4. QED BY <3>2, <3>3
    <2>3. \A j \in Offline!Item :
            /\ DOMAIN queue'[j] = ActionParts /\ queue'[j].at \in Nat /\ queue'[j].acks \in Nat
            /\ queue'[j].kind = "save" /\ queue'[j].state = "failed" => queue'[j].tried
        BY <1>3, <1>5 DEF QueueInv, QueueOK
    <2>4. QED BY <1>3, <2>2, <2>3 DEF QueueOK, Offline!Item
<1>8. ASSUME NEW k \in Offline!Item, queue[k].state # "none"
      PROVE  queue'[k] = queue[k] /\ \A j \in Offline!Item : j < k => queue'[j] = queue[j]
    BY <1>1, <1>3, <1>6, <1>8
<1>9. TodoOK(pass.todo, queue')
    <2>1. \A k \in DOMAIN pass.todo : pass.todo[k] \in Offline!Item /\ queue[pass.todo[k]].state # "none"
        BY DEF QueueInv, TodoOK
    <2>2. InOrder(pass.todo, queue')
        BY <1>8, <2>1 DEF QueueInv, TodoOK, InOrder
    <2>3. QED BY <1>8, <2>1, <2>2 DEF QueueInv, TodoOK
<1>10. WorkOK(pass, queue')
    <2>1. SUFFICES ASSUME pass.at \in {"calling", "sent", "answered", "filed"} PROVE WorkOK(pass, queue')
        BY DEF WorkOK
    <2>2. Head(pass.todo) \in Offline!Item /\ queue[Head(pass.todo)].state # "none"
        BY <2>1 DEF QueueInv, WorkOK, TodoOK
    <2>3. QED BY <1>8, <2>2 DEF QueueInv, WorkOK
<1>11. \A k \in watch' : k \in Offline!Item /\ queue'[k].state # "none"
    BY <1>8 DEF QueueInv
<1>12. ReplayKeepsEdits'
    BY <1>3 DEF QueueInv, ReplayKeepsEdits, Offline!EditsAreKept, Offline!SavesGoFirst
<1>13. QED BY <1>7, <1>9, <1>10, <1>11, <1>12 DEF QueueInv

(* One queued action changes.                                              *)
LEMMA OneMoves ==
    ASSUME QueueInv, NEW i \in Offline!Item, NEW a, queue' = [queue EXCEPT ![i] = a],
           Moved(queue[i], a), Carries(queue[i], a), ~SyncedSave(a),
           UNCHANGED <<pass, held, mailed>>, watch' \subseteq watch
    PROVE  QueueInv'
<1>1. \A j \in Offline!Item : queue'[j] = IF j = i THEN a ELSE queue[j]
    BY DEF QueueInv, QueueOK
<1>2. QueueMoves
    BY <1>1, StillMoves DEF QueueInv, QueueOK, QueueMoves
<1>3. \A j \in Offline!Item : /\ Carries(queue[j], queue'[j])
                              /\ SyncedSave(queue'[j]) => SyncedSave(queue[j])
    BY <1>1, StillMoves DEF QueueInv
<1>4. QED BY <1>2, <1>3, AsideSteps DEF QueueInv

LEMMA DropStep ==
    ASSUME QueueInv, NEW i \in Offline!Item, queue[i].state # "none", Offline!Drop(i)
    PROVE  QueueInv'
<1> DEFINE a == [Offline!Unqueued EXCEPT !.state = "dropped", !.at = queue[i].at]
<1>1. queue' = [queue EXCEPT ![i] = a] /\ UNCHANGED <<pass, watch, held, mailed>>
    BY DEF Offline!Drop, Offline!history
<1>2. /\ DOMAIN a = ActionParts /\ a.state = "dropped" /\ a.at = queue[i].at /\ a.acks = 0
      /\ a.kind = "mail"
    BY DEF Offline!Unqueued, ActionParts
<1> HIDE DEF a
<1>3. Moved(queue[i], a)
    BY <1>2 DEF Moved, Waits
<1>4. Carries(queue[i], a) /\ ~SyncedSave(a)
    BY <1>2 DEF Carries, SyncedSave
<1>5. QED BY <1>1, <1>3, <1>4, OneMoves

LEMMA RebaseStep ==
    ASSUME QueueInv, NEW i \in Offline!Item, NEW base, Offline!Rebase(i, base)
    PROVE  QueueInv'
<1> DEFINE b == queue[i]
           a == [b EXCEPT !.state = "pending", !.stamp = meta, !.base = base, !.acks = @ + 1]
<1>1. /\ b.state = "review" /\ DOMAIN b = ActionParts /\ b.at \in Nat /\ b.acks \in Nat
      /\ DOMAIN queue = Offline!Item
    BY DEF QueueInv, QueueOK, Offline!Rebase
<1>2. queue' = [queue EXCEPT ![i] = a] /\ UNCHANGED <<pass, watch, held, mailed>>
    BY <1>1 DEF Offline!Rebase, Offline!history, ActionParts
<1>3. /\ DOMAIN a = ActionParts /\ a.state = "pending" /\ a.at = b.at /\ a.acks = b.acks + 1
      /\ a.kind = b.kind /\ a.tried = b.tried
    BY <1>1 DEF ActionParts
<1> HIDE DEF a
<1>4. Moved(b, a)
    BY <1>1, <1>3 DEF Moved, Waits
<1>5. Carries(b, a) /\ ~SyncedSave(a)
    BY <1>1, <1>3 DEF Carries, SyncedSave
<1>6. QED BY <1>2, <1>4, <1>5, OneMoves

LEMMA RetryFailureStep ==
    ASSUME QueueInv, NEW i \in Offline!Item, Offline!RetryFailure(i)
    PROVE  QueueInv'
<1> DEFINE b == queue[i]
           a == [b EXCEPT !.state = "pending"]
<1>1. /\ b.state = "failed" /\ DOMAIN b = ActionParts /\ b.at \in Nat /\ b.acks \in Nat
      /\ b.kind = "save" => b.tried
    BY DEF QueueInv, QueueOK, Offline!RetryFailure
<1>2. queue' = [queue EXCEPT ![i] = a] /\ UNCHANGED <<pass, watch, held, mailed>>
    BY <1>1 DEF Offline!RetryFailure, Offline!history, ActionParts, QueueInv, QueueOK
<1>3. /\ DOMAIN a = ActionParts /\ a.state = "pending" /\ a.at = b.at /\ a.acks = b.acks
      /\ a.kind = b.kind /\ a.tried = b.tried
    BY <1>1 DEF ActionParts
<1> HIDE DEF a
<1>4. QED BY <1>1, <1>2, <1>3, OneMoves DEF Moved, Carries, Waits, SyncedSave

LEMMA MarkForReviewStep ==
    ASSUME QueueInv, NEW i \in Offline!Item, Offline!MarkForReview(i)
    PROVE  QueueInv'
<1> DEFINE b == queue[i]
           a == [b EXCEPT !.state = IF @ = "dropped" THEN @ ELSE "review"]
<1>1. /\ b.state # "none" /\ DOMAIN b = ActionParts /\ b.at \in Nat /\ b.acks \in Nat
    BY DEF QueueInv, QueueOK, Offline!MarkForReview
<1>2. queue' = [queue EXCEPT ![i] = a] /\ watch' \subseteq watch /\ UNCHANGED <<pass, held, mailed>>
    BY <1>1 DEF Offline!MarkForReview, Offline!history, ActionParts, QueueInv, QueueOK
<1>3. /\ DOMAIN a = ActionParts /\ a.state = IF b.state = "dropped" THEN "dropped" ELSE "review"
      /\ a.at = b.at /\ a.acks = b.acks /\ a.kind = b.kind /\ a.tried = b.tried
    BY <1>1 DEF ActionParts
<1> HIDE DEF a
<1>4. QED BY <1>1, <1>2, <1>3, OneMoves DEF Moved, Carries, Waits, SyncedSave

LEMMA PersonStep == QueueEnds /\ QueueInv /\ Offline!Person => QueueInv'
<1> SUFFICES ASSUME QueueEnds, QueueInv, NEW i \in Offline!Item,
                    \/ \E base \in 1 .. Len(hub.texts) : Offline!EnqueueWork(i, "save", base)
                    \/ Offline!EnqueueWork(i, "mail", 0)
                    \/ \E base \in 1 .. Len(hub.texts) : Offline!EnqueueSend(i, base)
                    \/ Offline!EnqueueUpload(i)
                    \/ \E base \in Offline!Revision : Offline!Rebase(i, base)
                    \/ Offline!DiscardReview(i) \/ Offline!DiscardFailure(i) \/ Offline!RetryFailure(i)
             PROVE  QueueInv'
    BY DEF Offline!Person
<1>1. ASSUME NEW kind, NEW base, Offline!EnqueueWork(i, kind, base) PROVE QueueInv'
    BY <1>1, EnqueueStep DEF Offline!EnqueueWork, Offline!history
<1>2. ASSUME NEW base, Offline!EnqueueSend(i, base) PROVE QueueInv'
    BY <1>2, EnqueueStep DEF Offline!EnqueueSend, Offline!history
<1>3. ASSUME Offline!EnqueueUpload(i) PROVE QueueInv'
    BY <1>3, EnqueueStep DEF Offline!EnqueueUpload, Offline!history
<1>4. ASSUME Offline!DiscardReview(i) \/ Offline!DiscardFailure(i) PROVE QueueInv'
    BY <1>4, DropStep DEF Offline!DiscardReview, Offline!DiscardFailure
<1>5. QED BY <1>1, <1>2, <1>3, <1>4, RebaseStep, RetryFailureStep

(* The queue is left as it is.                                             *)
LEMMA OutsideStep ==
    ASSUME QueueInv, UNCHANGED <<queue, pass, held, mailed>>,
           \A i \in watch' : i \in Offline!Item /\ queue[i].state # "none"
    PROVE  QueueInv'
<1>1. QueueMoves
    BY StillMoves DEF QueueInv, QueueOK, QueueMoves
<1>2. QED BY <1>1, StillMoves, AsideSteps DEF QueueInv

LEMMA ObserveStep == QueueInv /\ Offline!Observe => QueueInv'
<1> SUFFICES ASSUME QueueInv, Offline!Observe PROVE QueueInv'
    OBVIOUS
<1>1. \A i \in watch' : i \in Offline!Item /\ queue[i].state # "none"
    BY DEF Offline!Observe, Offline!Pending
<1>2. QED BY <1>1, OutsideStep DEF Offline!Observe, Offline!history

LEMMA ServerStep ==
    ASSUME QueueInv, Offline!AttachInEditor \/ Offline!OtherDeviceEdits \/ Offline!Restore
    PROVE  QueueInv'
<1>1. UNCHANGED <<queue, pass, watch, held, mailed>>
    BY DEF Offline!AttachInEditor, Offline!OtherDeviceEdits, Offline!Restore, Offline!history
<1>2. QED BY <1>1, OutsideStep DEF QueueInv

-----------------------------------------------------------------------------
(* The replay pass.                                                        *)

LEMMA CountsAlike == ASSUME NEW S PROVE Offline!Cardinality(S) = Cardinality(S)
BY DEF Offline!Cardinality, Cardinality

(* A pass lists every action it found, in the order of the replay.         *)
LEMMA OrderLists ==
    ASSUME QueueEnds, NEW items \in SUBSET Offline!Item, NEW todo \in Offline!ReplayOrders(items)
    PROVE  /\ todo \in Seq(Offline!Item)
           /\ \A k \in DOMAIN todo : todo[k] \in items
           /\ \A i \in items : \E k \in DOMAIN todo : todo[k] = i
           /\ \A j, k \in DOMAIN todo : Offline!Before(todo[j], todo[k]) => j < k
<1> DEFINE n == Cardinality(items)
<1>1. IsFiniteSet(items) /\ n \in Nat
    <2>1. IsFiniteSet(Offline!Item)
        BY FS_Interval DEF Offline!Item, QueueEnds
    <2>2. QED BY <2>1, FS_Subset, FS_CardinalityType
<1>2. /\ todo \in [1 .. n -> items] /\ \A i, j \in 1 .. n : i # j => todo[i] # todo[j]
      /\ \A j, k \in DOMAIN todo : Offline!Before(todo[j], todo[k]) => j < k
    BY CountsAlike DEF Offline!ReplayOrders, Offline!SetToSeqs
<1>3. Cardinality(1 .. n) = n
    BY <1>1, FS_Interval
<1> HIDE DEF n
<1>4. todo \in Injection(1 .. n, items)
    BY <1>2, Fun_IsInj
<1>5. todo \in Surjection(1 .. n, items)
    BY <1>1, <1>3, <1>4, FS_Injection DEF n
<1>6. \A i \in items : \E k \in 1 .. n : todo[k] = i
    BY <1>5 DEF Surjection
<1>7. todo \in Seq(Offline!Item)
    <2>1. todo \in [1 .. n -> Offline!Item]
        BY <1>2
    <2>2. QED BY <1>1, <2>1, SeqDef
<1>8. QED BY <1>2, <1>6, <1>7

LEMMA ReconcileStep == QueueEnds /\ QueueInv /\ Offline!Reconcile => QueueInv'
<1> SUFFICES ASSUME QueueEnds, QueueInv, Offline!Reconcile PROVE QueueInv'
    OBVIOUS
<1> DEFINE items == Offline!Pending \cup Offline!Orphans
<1>1. PICK todo \in Offline!ReplayOrders(items) :
         pass' = [pass EXCEPT !.at = "running", !.todo = todo]
    BY DEF Offline!Reconcile
<1>2. items \in SUBSET Offline!Item /\ \A i \in items : queue[i].state # "none"
    BY DEF Offline!Pending, Offline!Orphans
<1>3. /\ todo \in Seq(Offline!Item)
      /\ \A k \in DOMAIN todo : todo[k] \in items
      /\ \A i \in items : \E k \in DOMAIN todo : todo[k] = i
      /\ \A j, k \in DOMAIN todo : Offline!Before(todo[j], todo[k]) => j < k
    BY <1>1, <1>2, OrderLists
<1>4. /\ DOMAIN queue' = Offline!Item
      /\ \A i \in Offline!Item :
           queue'[i] = IF i \in Offline!Orphans THEN [queue[i] EXCEPT !.state = "pending"] ELSE queue[i]
      /\ UNCHANGED <<watch, held, mailed>>
    BY DEF Offline!Reconcile, Offline!history
<1>5. \A i \in Offline!Item : Moved(queue[i], queue'[i]) /\ ~(SyncedSave(queue'[i]) /\ ~SyncedSave(queue[i]))
    <2>1. SUFFICES ASSUME NEW i \in Offline!Orphans
                   PROVE  Moved(queue[i], queue'[i]) /\ ~SyncedSave(queue'[i])
        BY <1>4, StillMoves DEF QueueInv, Offline!Orphans
    <2>2. /\ i \in Offline!Item /\ queue[i].kind = "upload" /\ queue[i].state = "synced"
          /\ DOMAIN queue[i] = ActionParts /\ queue[i].acks \in Nat
        BY DEF Offline!Orphans, QueueInv, QueueOK
    <2>3. /\ DOMAIN queue'[i] = ActionParts /\ queue'[i].kind = "upload" /\ queue'[i].at = queue[i].at
          /\ queue'[i].state = "pending" /\ queue'[i].acks = queue[i].acks
        BY <1>4, <2>2 DEF ActionParts
    <2>4. QED BY <2>2, <2>3 DEF Moved, Waits, SyncedSave
<1>6. QueueMoves
    BY <1>4, <1>5 DEF QueueMoves
<1>7. InOrder(todo, queue)
    <2>1. SUFFICES ASSUME NEW k \in DOMAIN todo, queue[todo[k]].kind = "send",
                          NEW j \in Offline!Item, j < todo[k], Waits(queue[j])
                   PROVE  \E m \in DOMAIN todo : m < k /\ todo[m] = j
        BY DEF InOrder
    <2>2. todo[k] \in Offline!Item /\ queue[todo[k]].state # "none"
        BY <1>2, <1>3
    <2>3. queue[j].at <= queue[todo[k]].at /\ queue[j].at \in Nat /\ queue[todo[k]].at \in Nat
        BY <2>1, <2>2 DEF QueueInv, QueueOK
    <2>4. Offline!Before(j, todo[k])
        BY <2>1, <2>3 DEF Offline!Before, Offline!Rank, Waits
    <2>5. j \in items
        BY <2>1 DEF Waits, Offline!Pending
    <2>6. PICK m \in DOMAIN todo : todo[m] = j
        BY <1>3, <2>5
    <2>7. QED BY <1>3, <2>4, <2>6
<1> HIDE DEF items
<1>8. TodoOK(todo, queue')
    <2>1. TodoOK(todo, queue)
        BY <1>2, <1>3, <1>7 DEF TodoOK
    <2>2. QED BY <1>6, <2>1, TodoKept
<1>9. DOMAIN pass' = PassParts /\ pass'.todo = todo /\ pass'.at = "running"
    BY <1>1 DEF QueueInv, PassParts
<1>10. \A i \in watch' : i \in Offline!Item /\ queue'[i].state # "none"
    BY <1>4, <1>6 DEF QueueInv, QueueMoves, Moved
<1>11. QED BY <1>4, <1>5, <1>6, <1>8, <1>9, <1>10, Resting, QueueSteps
           DEF QueueInv, ReplayKeepsEdits, Offline!SavesGoFirst

(* The pass rests, after the actions it is done with.                      *)
LEMMA PassRests ==
    ASSUME QueueInv, UNCHANGED <<queue, held, mailed>>, watch' \subseteq watch,
           DOMAIN pass' = PassParts, pass'.at \notin {"calling", "sent", "answered", "filed"},
           TodoOK(pass'.todo, queue)
    PROVE  QueueInv'
<1>1. QueueMoves
    BY StillMoves DEF QueueInv, QueueOK, QueueMoves
<1>2. WorkOK(pass', queue') /\ AnswerOK(pass', held')
    BY Resting
<1>3. TodoOK(pass'.todo, queue')
    OBVIOUS
<1>4. QED BY <1>1, <1>2, <1>3, QueueSteps DEF QueueInv, ReplayKeepsEdits, Offline!SavesGoFirst

LEMMA IdleRests ==
    /\ DOMAIN Offline!Idle = PassParts /\ Offline!Idle.at = "idle"
    /\ \A q : TodoOK(Offline!Idle.todo, q)
<1>1. DOMAIN Offline!Idle = PassParts /\ Offline!Idle.at = "idle" /\ Offline!Idle.todo = <<>>
    BY DEF Offline!Idle, PassParts
<1>2. QED BY <1>1 DEF TodoOK, InOrder

(* NextItem rests before the next action.                                  *)
LEMMA NextRests ==
    ASSUME Offline!NextItem, NEW q, TodoOK(pass.todo, q), pass.todo # <<>>,
           ~Waits(q[Head(pass.todo)])
    PROVE  /\ DOMAIN pass' = PassParts /\ pass'.at = "running"
           /\ TodoOK(pass'.todo, q)
<1>1. DOMAIN pass' = PassParts /\ pass'.at = "running" /\ pass'.todo = Tail(pass.todo)
    BY DEF Offline!NextItem, Offline!Idle, PassParts
<1>2. QED BY <1>1, TodoShrinks

LEMMA TakeItemStep == QueueInv /\ Offline!TakeItem => QueueInv'
<1> SUFFICES ASSUME QueueInv, Offline!TakeItem PROVE QueueInv'
    OBVIOUS
<1> DEFINE i == Head(pass.todo)
<1>1. /\ pass.todo # <<>> /\ UNCHANGED <<watch, held, mailed>>
      /\ IF queue[i].state = "pending"
         THEN /\ pass' = [pass EXCEPT !.at = "calling", !.copy = queue[i]]
              /\ queue' = [queue EXCEPT ![i].tried = TRUE]
         ELSE Offline!NextItem /\ UNCHANGED queue
    BY DEF Offline!TakeItem, Offline!Current, Offline!history
<1>2. i \in Offline!Item /\ 1 \in DOMAIN pass.todo /\ i = pass.todo[1]
    BY <1>1 DEF QueueInv, TodoOK
<1> HIDE DEF i
<1>3. CASE queue[i].state # "pending"
    <2>1. ~Waits(queue[i]) /\ Offline!NextItem /\ UNCHANGED queue
        BY <1>1, <1>3 DEF Waits
    <2>2. DOMAIN pass' = PassParts /\ pass'.at = "running" /\ TodoOK(pass'.todo, queue)
        BY <1>1, <2>1, NextRests DEF QueueInv, i
    <2>3. QED BY <1>1, <2>1, <2>2, PassRests
<1>4. CASE queue[i].state = "pending"
    <2> DEFINE a == [queue[i] EXCEPT !.tried = TRUE]
    <2>1. DOMAIN queue = Offline!Item /\ DOMAIN queue[i] = ActionParts /\ queue[i].acks \in Nat
        BY <1>2 DEF QueueInv, QueueOK
    <2>2. /\ DOMAIN a = ActionParts /\ a.tried = TRUE /\ a.state = "pending" /\ a.acks = queue[i].acks
          /\ a.at = queue[i].at /\ a.kind = queue[i].kind
        BY <1>4, <2>1 DEF ActionParts
    <2>3. queue' = [queue EXCEPT ![i] = a]
        BY <1>1, <1>4, <2>1 DEF ActionParts
    <2> HIDE DEF a
    <2>4. \A j \in Offline!Item : queue'[j] = IF j = i THEN a ELSE queue[j]
        BY <2>1, <2>3
    <2>5. Moved(queue[i], a) /\ ~SyncedSave(a)
        <3>1. ~Waits(a) /\ ~SyncedSave(a)
            BY <2>2 DEF Waits, SyncedSave
        <3>2. QED BY <1>4, <2>1, <2>2, <3>1 DEF Moved
    <2>6. QueueMoves
        BY <2>1, <2>3, <2>4, <2>5, StillMoves DEF QueueInv, QueueMoves
    <2>7. /\ DOMAIN pass' = PassParts /\ pass'.at = "calling" /\ pass'.copy = queue[i]
          /\ pass'.todo = pass.todo
        BY <1>1, <1>4 DEF QueueInv, PassParts
    <2>8. TodoOK(pass'.todo, queue')
        BY <2>6, <2>7, TodoKept DEF QueueInv
    <2>9. WorkOK(pass', queue')
        <3>1. queue'[i].tried /\ queue'[i].kind = pass'.copy.kind
            BY <1>2, <2>2, <2>4, <2>7
        <3>2. ASSUME queue[i].kind = "send", NEW j \in Offline!Item, j < i PROVE ~Waits(queue'[j])
            <4>1. ~Waits(queue[j])
                BY <1>2, <3>2 DEF QueueInv, TodoOK, InOrder
            <4>2. QED BY <2>6, <4>1 DEF QueueMoves, Moved
        <3>3. QED BY <1>1, <2>7, <3>1, <3>2 DEF WorkOK, i
    <2>10. AnswerOK(pass', held')
        BY <2>7 DEF AnswerOK
    <2>11. \A j \in watch' : j \in Offline!Item /\ queue'[j].state # "none"
        BY <1>1, <2>6 DEF QueueInv, QueueMoves, Moved
    <2>12. Offline!SavesGoFirst'
        BY <1>1 DEF QueueInv, ReplayKeepsEdits, Offline!SavesGoFirst
    <2>13. \A j \in Offline!Item : SyncedSave(queue'[j]) => SyncedSave(queue[j])
        BY <2>4, <2>5
    <2>14. QED BY <1>1, <2>6, <2>7, <2>8, <2>9, <2>10, <2>11, <2>12, <2>13, QueueSteps
<1>5. QED BY <1>3, <1>4

LEMMA StopForRestoreStep == QueueInv /\ Offline!StopForRestore => QueueInv'
<1> SUFFICES ASSUME QueueInv, Offline!StopForRestore PROVE QueueInv'
    OBVIOUS
<1> DEFINE i == Head(pass.todo)
           a == [queue[i] EXCEPT !.state = "review"]
<1>1. /\ pass.todo # <<>> /\ UNCHANGED <<watch, held, mailed>> /\ pass' = Offline!Idle
      /\ queue' = [queue EXCEPT ![i].state = "review"]
    BY DEF Offline!StopForRestore, Offline!Current, Offline!EndPass, Offline!history
<1>2. i \in Offline!Item /\ queue[i].state # "none"
    BY <1>1 DEF QueueInv, TodoOK
<1> HIDE DEF i
<1>3. DOMAIN queue = Offline!Item /\ DOMAIN queue[i] = ActionParts /\ queue[i].acks \in Nat
    BY <1>2 DEF QueueInv, QueueOK
<1>4. /\ DOMAIN a = ActionParts /\ a.state = "review" /\ a.acks = queue[i].acks
      /\ a.at = queue[i].at /\ a.kind = queue[i].kind
    BY <1>3 DEF ActionParts
<1>5. queue' = [queue EXCEPT ![i] = a]
    BY <1>1, <1>3 DEF ActionParts
<1> HIDE DEF a
<1>6. \A j \in Offline!Item : queue'[j] = IF j = i THEN a ELSE queue[j]
    BY <1>3, <1>5
<1>7. Moved(queue[i], a) /\ ~SyncedSave(a)
    BY <1>2, <1>3, <1>4 DEF Moved, Waits, SyncedSave
<1>8. QueueMoves
    BY <1>3, <1>5, <1>6, <1>7, StillMoves DEF QueueInv, QueueMoves
<1>9. DOMAIN pass' = PassParts /\ TodoOK(pass'.todo, queue') /\ WorkOK(pass', queue') /\ AnswerOK(pass', held')
    BY <1>1, IdleRests, Resting
<1>10. \A j \in watch' : j \in Offline!Item /\ queue'[j].state # "none"
    BY <1>1, <1>8 DEF QueueInv, QueueMoves, Moved
<1>11. Offline!SavesGoFirst'
    BY <1>1 DEF QueueInv, ReplayKeepsEdits, Offline!SavesGoFirst
<1>12. \A j \in Offline!Item : SyncedSave(queue'[j]) => SyncedSave(queue[j])
    BY <1>6, <1>7
<1>13. QED BY <1>1, <1>8, <1>9, <1>10, <1>11, <1>12, QueueSteps

LEMMA RestStep ==
    QueueInv /\ (Offline!StartPass \/ Offline!FinishPass \/ Offline!ClosePage) => QueueInv'
<1> SUFFICES ASSUME QueueInv, Offline!StartPass \/ Offline!FinishPass \/ Offline!ClosePage
             PROVE  QueueInv'
    OBVIOUS
<1>1. CASE Offline!StartPass
    <2>1. /\ DOMAIN pass' = PassParts /\ pass'.at = "started" /\ pass'.todo = pass.todo
          /\ UNCHANGED <<queue, watch, held, mailed>>
        BY <1>1 DEF Offline!StartPass, Offline!history, QueueInv, PassParts
    <2>2. QED BY <2>1, PassRests DEF QueueInv
<1>2. CASE Offline!FinishPass \/ Offline!ClosePage
    <2>1. pass' = Offline!Idle /\ watch' \subseteq watch /\ UNCHANGED <<queue, held, mailed>>
        BY <1>2 DEF Offline!FinishPass, Offline!ClosePage, Offline!EndPass, Offline!history
    <2>2. QED BY <2>1, IdleRests, PassRests
<1>3. QED BY <1>1, <1>2

(* The pass stays with its action; the server may have taken more.         *)
LEMMA PassTurns ==
    ASSUME QueueInv, UNCHANGED <<queue, watch>>, held \subseteq held', Offline!SavesGoFirst',
           DOMAIN pass' = PassParts, pass'.todo = pass.todo, pass'.copy = pass.copy,
           pass.at \in {"calling", "sent"}, pass'.at \in {"calling", "sent", "answered"},
           AnswerOK(pass', held')
    PROVE  QueueInv'
<1>1. QueueMoves
    BY StillMoves DEF QueueInv, QueueOK, QueueMoves
<1>2. TodoOK(pass'.todo, queue')
    BY DEF QueueInv
<1>3. WorkOK(pass', queue')
    BY DEF QueueInv, WorkOK
<1>4. QED BY <1>1, <1>2, <1>3, QueueSteps DEF QueueInv

LEMMA AnsweredTurns ==
    ASSUME QueueInv, NEW answer, NEW revision, Offline!Answered(answer, revision),
           UNCHANGED <<queue, watch>>, held \subseteq held', Offline!SavesGoFirst',
           pass.at \in {"calling", "sent"},
           answer \in {"synced", "retry", "signin", "review", "failed"},
           answer = "synced" /\ pass.copy.kind = "save" => Head(pass.todo) \in held'
    PROVE  QueueInv'
<1>1. /\ DOMAIN pass' = PassParts /\ pass'.todo = pass.todo /\ pass'.copy = pass.copy
      /\ pass'.at = "answered" /\ pass'.answer = answer
    BY DEF Offline!Answered, QueueInv, PassParts
<1>2. AnswerOK(pass', held')
    BY <1>1 DEF AnswerOK
<1>3. QED BY <1>1, <1>2, PassTurns

LEMMA CallStep ==
    ASSUME QueueInv,
           Offline!AnswerLocally \/ Offline!AttachFirst \/ Offline!ReplayRequest \/ Offline!Refuse
    PROVE  QueueInv'
<1>1. /\ UNCHANGED <<queue, watch, held, mailed>> /\ held \subseteq held'
      /\ Offline!SavesGoFirst'
    BY DEF Offline!AnswerLocally, Offline!AttachFirst, Offline!ReplayRequest, Offline!Refuse,
           Offline!history, QueueInv, ReplayKeepsEdits, Offline!SavesGoFirst
<1>2. CASE Offline!AnswerLocally
    BY <1>1, <1>2, AnsweredTurns DEF Offline!AnswerLocally
<1>3. CASE Offline!AttachFirst
    <2>1. CASE UNCHANGED pass
        BY <1>1, <2>1, OutsideStep DEF QueueInv
    <2>2. CASE Offline!Answered("retry", 0) \/ Offline!Answered("review", 0)
        BY <1>1, <1>3, <2>2, AnsweredTurns DEF Offline!AttachFirst
    <2>3. QED BY <1>3, <2>1, <2>2 DEF Offline!AttachFirst
<1>4. CASE Offline!ReplayRequest
    <2>1. /\ pass.at = "calling" /\ DOMAIN pass' = PassParts /\ pass'.todo = pass.todo
          /\ pass'.copy = pass.copy /\ pass'.at = "sent"
        BY <1>4 DEF Offline!ReplayRequest, QueueInv, PassParts
    <2>2. QED BY <1>1, <2>1, PassTurns DEF AnswerOK
<1>5. CASE Offline!Refuse
    BY <1>1, <1>5, AnsweredTurns DEF Offline!Refuse
<1>6. QED BY <1>2, <1>3, <1>4, <1>5

(* The server takes a request: no edit waits before a send it accepts.     *)
LEMMA Accepted ==
    ASSUME QueueInv, pass.at = "sent", Offline!Accept(Head(pass.todo), pass.copy)
    PROVE  /\ held \subseteq held' /\ Offline!SavesGoFirst'
           /\ pass.copy.kind = "save" /\ Offline!SaveAnswer(pass.copy) = "synced"
                => Head(pass.todo) \in held'
<1> DEFINE i == Head(pass.todo)
           a == pass.copy
<1>1. /\ held \subseteq held'
      /\ a.kind = "save" /\ Offline!SaveAnswer(a) = "synced" => i \in held'
    BY DEF Offline!Accept
<1>2. \/ mailed' = mailed
      \/ a.kind = "send" /\ \E m : m.untried = Offline!Untried(i) /\ mailed' = mailed \cup {m}
    <2> DEFINE m == [item |-> i, stamp |-> a.stamp, generation |-> hub.generation,
                     untried |-> Offline!Untried(i)]
    <2>1. mailed' = mailed \/ (a.kind = "send" /\ mailed' = mailed \cup {m})
        BY DEF Offline!Accept
    <2>2. m.untried = Offline!Untried(i)
        OBVIOUS
    <2> HIDE DEF m
    <2>3. QED BY <2>1, <2>2
<1>3. a.kind = "send" => Offline!Untried(i) = {}
    <2>1. a.kind = "send" => \A j \in Offline!Item : j < i => ~Waits(queue[j])
        BY DEF QueueInv, WorkOK
    <2>2. QED BY <2>1 DEF Offline!Untried, Offline!Pending, Waits
<1>4. Offline!SavesGoFirst'
    BY <1>2, <1>3 DEF QueueInv, ReplayKeepsEdits, Offline!SavesGoFirst
<1>5. QED BY <1>1, <1>4

LEMMA HandleStep == QueueInv /\ Offline!Handle => QueueInv'
<1> SUFFICES ASSUME QueueInv, Offline!Handle PROVE QueueInv'
    OBVIOUS
<1>1. pass.at = "sent" /\ UNCHANGED <<queue, watch>>
    BY DEF Offline!Handle
<1>2. CASE pass.header = hub.generation
    <2> DEFINE answer == Offline!Reply(Offline!Current, pass.copy)
    <2>1. Offline!Accept(Head(pass.todo), pass.copy) /\ Offline!Answered(answer, Len(hub'.texts))
        BY <1>2 DEF Offline!Handle, Offline!Current
    <2>2. /\ answer \in {"synced", "retry", "signin", "review", "failed"}
          /\ pass.copy.kind = "save" => answer = Offline!SaveAnswer(pass.copy)
        BY DEF Offline!Reply, Offline!SaveAnswer, Offline!SendAnswer
    <2> HIDE DEF answer
    <2>3. QED BY <1>1, <2>1, <2>2, Accepted, AnsweredTurns
<1>3. CASE pass.header # hub.generation
    <2>1. Offline!Answered("review", 0) /\ UNCHANGED <<held, mailed>>
        BY <1>3 DEF Offline!Handle
    <2>2. Offline!SavesGoFirst'
        BY <2>1 DEF QueueInv, ReplayKeepsEdits, Offline!SavesGoFirst
    <2>3. QED BY <1>1, <2>1, <2>2, AnsweredTurns
<1>4. QED BY <1>2, <1>3

LEMMA LoseCallStep == QueueInv /\ Offline!LoseCall => QueueInv'
<1> SUFFICES ASSUME QueueInv, Offline!LoseCall PROVE QueueInv'
    OBVIOUS
<1> DEFINE answer == Offline!LostAnswer(pass.copy.kind)
<1>1. /\ pass.at = "sent" /\ UNCHANGED <<queue, watch>> /\ Offline!Answered(answer, 0)
      /\ \/ UNCHANGED <<held, mailed>>
         \/ Offline!Accept(Head(pass.todo), pass.copy)
    BY DEF Offline!LoseCall, Offline!Current
<1>2. answer \in {"review", "retry"}
    BY DEF Offline!LostAnswer
<1> HIDE DEF answer
<1>3. held \subseteq held' /\ Offline!SavesGoFirst'
    BY <1>1, Accepted DEF QueueInv, ReplayKeepsEdits, Offline!SavesGoFirst
<1>4. QED BY <1>1, <1>2, <1>3, AnsweredTurns

-----------------------------------------------------------------------------
(* Settling an answer.                                                     *)

LEMMA SettleMoves ==
    ASSUME QueueInv, Offline!Settle
    PROVE  /\ QueueMoves
           /\ \A j \in Offline!Item :
                /\ Carries(queue[j], queue'[j])
                /\ SyncedSave(queue'[j]) => SyncedSave(queue[j]) \/ j \in held
<1> DEFINE i == Head(pass.todo)
           answer == pass.answer
<1>1. /\ pass.at = "answered" /\ DOMAIN queue' = Offline!Item
      /\ i \in Offline!Item /\ queue[i].state # "none"
      /\ answer \in {"synced", "retry", "signin", "review", "failed"}
      /\ queue[i].state # "dropped" => queue[i].tried /\ queue[i].kind = pass.copy.kind
      /\ answer = "synced" /\ pass.copy.kind = "save" => i \in held
    BY DEF Offline!Settle, QueueInv, WorkOK, TodoOK, AnswerOK
<1>2. ASSUME NEW j \in Offline!Item, j # i
      PROVE  /\ Moved(queue[j], queue'[j]) /\ Carries(queue[j], queue'[j])
             /\ SyncedSave(queue'[j]) => SyncedSave(queue[j])
    <2>1. queue'[j] = queue[j] \/ queue'[j] = Offline!Chained(j, pass.revision)
        BY <1>2 DEF Offline!Settle, Offline!Current
    <2>2. CASE queue'[j] = queue[j]
        BY <2>2, StillMoves DEF QueueInv
    <2>3. CASE queue'[j] # queue[j]
        <3>1. queue[j].state = "pending" /\ queue'[j] = [queue[j] EXCEPT !.base = pass.revision]
            BY <2>1, <2>3 DEF Offline!Chained
        <3>2. DOMAIN queue[j] = ActionParts /\ queue[j].acks \in Nat
            BY DEF QueueInv, QueueOK
        <3>3. /\ DOMAIN queue'[j] = ActionParts /\ queue'[j].at = queue[j].at
              /\ queue'[j].state = "pending" /\ queue'[j].kind = queue[j].kind
              /\ queue'[j].tried = queue[j].tried /\ queue'[j].acks = queue[j].acks
            BY <3>1, <3>2 DEF ActionParts
        <3>4. QED BY <3>1, <3>2, <3>3 DEF Moved, Carries, Waits, SyncedSave
    <2>4. QED BY <2>2, <2>3
<1>3. /\ Moved(queue[i], queue'[i]) /\ Carries(queue[i], queue'[i])
      /\ SyncedSave(queue'[i]) => SyncedSave(queue[i]) \/ i \in held
    <2>1. CASE answer \in {"retry", "signin"}
        <3>1. queue'[i] = queue[i]
            BY <1>1, <2>1 DEF Offline!Settle, Offline!Current
        <3>2. QED BY <1>1, <3>1, StillMoves DEF QueueInv
    <2>2. CASE answer \notin {"retry", "signin"}
        <3>1. queue'[i] = [queue[i] EXCEPT !.state = IF @ = "dropped" THEN @ ELSE answer]
            BY <1>1, <2>2 DEF Offline!Settle, Offline!Current, Offline!State
        <3>2. DOMAIN queue[i] = ActionParts /\ queue[i].acks \in Nat
            BY <1>1 DEF QueueInv, QueueOK
        <3>3. /\ DOMAIN queue'[i] = ActionParts /\ queue'[i].at = queue[i].at
              /\ queue'[i].state = IF queue[i].state = "dropped" THEN "dropped" ELSE answer
              /\ queue'[i].kind = queue[i].kind /\ queue'[i].tried = queue[i].tried
              /\ queue'[i].acks = queue[i].acks
            BY <3>1, <3>2 DEF ActionParts
        <3> HIDE DEF i, answer
        <3>4. Moved(queue[i], queue'[i])
            BY <1>1, <2>2, <3>2, <3>3 DEF Moved, Waits
        <3>5. Carries(queue[i], queue'[i])
            BY <3>3 DEF Carries
        <3>6. SyncedSave(queue'[i]) => i \in held
            BY <1>1, <3>3 DEF SyncedSave
        <3>7. QED BY <3>4, <3>5, <3>6
    <2>3. QED BY <2>1, <2>2
<1> HIDE DEF i, answer
<1>4. QED BY <1>1, <1>2, <1>3 DEF QueueMoves

LEMMA SettleStep == QueueInv /\ Offline!Settle => QueueInv'
<1> SUFFICES ASSUME QueueInv, Offline!Settle PROVE QueueInv'
    OBVIOUS
<1>1. /\ QueueMoves /\ pass.at = "answered" /\ UNCHANGED <<watch, held, mailed>>
      /\ \A j \in Offline!Item : /\ Carries(queue[j], queue'[j])
                                 /\ SyncedSave(queue'[j]) => SyncedSave(queue[j]) \/ j \in held'
    BY SettleMoves DEF Offline!Settle, Offline!history
<1>2. TodoOK(pass.todo, queue') /\ WorkOK(pass, queue') /\ pass.todo # <<>>
    BY <1>1, TodoKept, WorkKept DEF QueueInv, WorkOK
<1>3. ~Waits(queue'[Head(pass.todo)])
    BY <1>1, <1>2 DEF WorkOK, Waits
<1>4. /\ DOMAIN pass' = PassParts /\ TodoOK(pass'.todo, queue') /\ WorkOK(pass', queue')
      /\ AnswerOK(pass', held')
    <2>1. CASE pass' = [pass EXCEPT !.at = "filed"]
        <3>1. /\ DOMAIN pass' = PassParts /\ pass'.at = "filed" /\ pass'.todo = pass.todo
              /\ pass'.copy = pass.copy
            BY <2>1 DEF QueueInv, PassParts
        <3>2. QED BY <1>1, <1>2, <3>1 DEF WorkOK, AnswerOK
    <2>2. CASE pass' = Offline!Idle
        BY <2>2, IdleRests, Resting
    <2>3. CASE Offline!NextItem
        BY <1>2, <1>3, <2>3, NextRests, Resting
    <2>4. QED BY <2>1, <2>2, <2>3 DEF Offline!Settle, Offline!EndPass
<1>5. \A j \in watch' : j \in Offline!Item /\ queue'[j].state # "none"
    BY <1>1 DEF QueueInv, QueueMoves, Moved
<1>6. Offline!SavesGoFirst'
    BY <1>1 DEF QueueInv, ReplayKeepsEdits, Offline!SavesGoFirst
<1>7. QED BY <1>1, <1>4, <1>5, <1>6, QueueSteps

LEMMA FileUploadStep == QueueInv /\ Offline!FileUpload => QueueInv'
<1> SUFFICES ASSUME QueueInv, Offline!FileUpload PROVE QueueInv'
    OBVIOUS
<1>1. pass.at = "filed" /\ Offline!NextItem /\ UNCHANGED <<queue, watch, held, mailed>>
    BY DEF Offline!FileUpload, Offline!history
<1>2. pass.todo # <<>> /\ ~Waits(queue[Head(pass.todo)])
    BY <1>1 DEF QueueInv, WorkOK, Waits
<1>3. QED BY <1>1, <1>2, NextRests, PassRests DEF QueueInv

LEMMA QueueStep == QueueEnds /\ QueueInv /\ [Offline!Next]_offlineVars => QueueInv'
<1> SUFFICES ASSUME QueueEnds, QueueInv, [Offline!Next]_offlineVars PROVE QueueInv'
    OBVIOUS
<1>1. CASE UNCHANGED offlineVars
    BY <1>1, OutsideStep DEF offlineVars, QueueInv
<1>2. ASSUME Offline!Replay PROVE QueueInv'
    BY <1>2, RestStep, ReconcileStep, StopForRestoreStep, TakeItemStep, CallStep, HandleStep,
       LoseCallStep, SettleStep, FileUploadStep DEF Offline!Replay
<1>3. ASSUME NEW i \in Offline!Item, Offline!MarkForReview(i) PROVE QueueInv'
    BY <1>3, MarkForReviewStep
<1>4. QED BY <1>1, <1>2, <1>3, PersonStep, ServerStep, ObserveStep, RestStep DEF Offline!Next

(* An edit made offline is called synced only when the server has taken    *)
(* it, and no send overtakes an edit queued before it that still waits for *)
(* its first call, whatever calls are refused or lost, pages closed,       *)
(* actions reviewed and servers restored (pendingActions, runPass,         *)
(* resolveReview).                                                         *)
THEOREM ReplayStaysInOrder == QueueEnds => (ClientsSpec => []ReplayKeepsEdits)
<1> SUFFICES ASSUME QueueEnds PROVE ClientsSpec => []ReplayKeepsEdits
    OBVIOUS
<1>1. ClientsInit => QueueInv
    BY QueueBegin DEF ClientsInit
<1>2. QueueInv /\ [ClientsNext]_clientsVars => QueueInv'
    BY QueueStep, OfflineAlone
<1>3. QueueInv => ReplayKeepsEdits
    BY DEF QueueInv
<1>4. QED BY <1>1, <1>2, <1>3, PTL DEF ClientsSpec
=============================================================================
