--------------------------- MODULE ActionsProofs ---------------------------
(***************************************************************************)
(* What the management actions keep, for any number of actions, messages,  *)
(* folders and concurrent passes: a receipt is final, a completed action   *)
(* left no target open, no write lands in another UID space, and a         *)
(* confirmed flag was held; and, while the passes over an account do not   *)
(* overlap, a MOVE is sent at most once and a refused one did not happen;  *)
(* at last the types of what is recorded.                                  *)
(*                                                                         *)
(* The argument: the status of an action is recomputed in the transaction  *)
(* of every receipt; a pass that selected a folder in its second UID space *)
(* found the hub to agree, so the sync has invalidated every local         *)
(* occurrence of the folder and the pass claims none of them; what a pass  *)
(* read of a flag in the first UID space was noted when it read it; and a  *)
(* pass that is alone holds every MOVE an earlier one left in execution.   *)
(***************************************************************************)
EXTENDS Actions, WellFoundedInduction, TLAPS

(* Actions and messages are numbered, and every message has a folder.      *)
Numbered == Message \subseteq Nat /\ FolderOf \in [Message -> Folder]

-----------------------------------------------------------------------------
(* The strengthening.                                                      *)

RowsShape ==
    /\ DOMAIN action = Action /\ \A a \in Action : DOMAIN action[a] = {"status", "kind"}
    /\ DOMAIN item = Action
    /\ \A a \in Action : /\ DOMAIN item[a] = Message
                         /\ \A m \in Message : DOMAIN item[a][m] = {"status", "reason", "revision", "modseq"}
    /\ DOMAIN local = Message
    /\ \A m \in Message :
          DOMAIN local[m] = {"flag", "revision", "modseq", "expunged", "invalidated"}

(* An action that was not submitted has no items.                          *)
NoneAbsent ==
    \A a \in Action : action[a].status = "none" =>
        \A m \in Message : item[a][m].status = "absent"

(* The sync invalidates what a folder held in its first UID space.         *)
ResetInvalidates ==
    \A m \in Message : validity[FolderOf[m]] = 2 => local[m].invalidated

RowsInv == RowsShape /\ NoneAbsent /\ CompleteMeansDisposed /\ ResetInvalidates

FoldersOK == validity \in [Folder -> {1, 2}] /\ mailbox \in [Folder -> {0, 1, 2}]

RunFields == {"pc", "list", "todo", "was", "folder", "remote", "selected", "out"}
Writing == {"claim", "apply", "readback", "receipt"}

(* A pass selected the folder in its first UID space, or in the second one *)
(* when the hub knew of it; then it claims nothing.                        *)
RunOK(q) ==
    /\ DOMAIN q = RunFields
    /\ q.todo \subseteq Message
    /\ q.out.status \notin Pending
    /\ q.pc \in {"item", "settle"} =>
          \/ q.selected = 1
          \/ q.selected = 2 /\ q.folder \in Folder /\ validity[q.folder] = 2
    /\ q.pc \in Writing => q.selected = 1

RunsOK == DOMAIN run = Run /\ \A w \in Run : RunOK(run[w])

IInv == RowsInv /\ FoldersOK /\ RunsOK /\ NoWriteAcrossGenerations

-----------------------------------------------------------------------------
(* The least number of a set is one of its members.                        *)
LEMMA LeastIsMember ==
    ASSUME NEW S \in SUBSET Nat, S # {}
    PROVE  Least(S) \in S
<1>1. \E x \in S : \A y \in S : ~ (<<y, x>> \in OpToRel(<, Nat))
    BY NatLessThanWellFounded, WFMin
<1>2. PICK x \in S : \A y \in S : ~ (y < x)
    BY <1>1 DEF OpToRel
<1>3. \A y \in S : x <= y
    BY <1>2
<1>4. QED BY <1>3 DEF Least

LEMMA IdleOK == RunOK(Idle)
BY DEF RunOK, Idle, RunFields, Nothing, Answer, Pending, Writing

LEMMA InitInv == Numbered /\ Init => IInv
<1> SUFFICES ASSUME Numbered, Init PROVE IInv
    OBVIOUS
<1>1. RowsShape
    BY DEF Init, RowsShape, NoItem
<1>2. NoneAbsent /\ CompleteMeansDisposed
    BY DEF Init, NoneAbsent, CompleteMeansDisposed, NoItem
<1>3. ResetInvalidates
    BY DEF Init, ResetInvalidates, Numbered
<1>4. RunsOK
    BY IdleOK DEF Init, RunsOK
<1>5. FoldersOK /\ NoWriteAcrossGenerations
    BY DEF Init, FoldersOK, NoWriteAcrossGenerations
<1>6. QED BY <1>1, <1>2, <1>3, <1>4, <1>5 DEF IInv, RowsInv

-----------------------------------------------------------------------------
(* The rows.                                                               *)

LEMMA FinalizedOK ==
    ASSUME NEW a, NEW items
    PROVE  /\ Finalized(a, items) # "none" \/ action[a].status = "none"
           /\ (\E m \in Message : items[m].status \in Pending) =>
                  Finalized(a, items) \in {action[a].status, "executing"}
           /\ ~(\E m \in Message : items[m].status \in Pending) =>
                  Finalized(a, items) = "complete"
BY DEF Finalized

(* The status of one action is recomputed while its items take the step.   *)
LEMMA StatusOK ==
    ASSUME RowsInv, NEW a, UNCHANGED validity,
           action' = [action EXCEPT ![a].status = Finalized(a, item'[a])],
           DOMAIN item' = Action,
           \A b \in Action : /\ DOMAIN item'[b] = Message
                             /\ \A m \in Message : DOMAIN item'[b][m] = DOMAIN item[b][m],
           \A b \in Action : b # a => item'[b] = item[b],
           a \in Action => \A m \in Message :
               \/ item'[a][m] = item[a][m]
               \/ item[a][m].status # "absent" /\ item'[a][m].status \notin Pending
    PROVE  /\ \A b \in Action : DOMAIN action'[b] = DOMAIN action[b]
           /\ DOMAIN action' = Action
           /\ NoneAbsent' /\ CompleteMeansDisposed'
<1>1. /\ DOMAIN action' = Action
      /\ \A b \in Action : DOMAIN action'[b] = DOMAIN action[b]
      /\ \A b \in Action : b # a => action'[b] = action[b]
      /\ a \in Action => action'[a].status = Finalized(a, item'[a])
    BY DEF RowsInv, RowsShape
<1>2. NoneAbsent'
    <2>1. SUFFICES ASSUME NEW b \in Action, action'[b].status = "none", NEW m \in Message
                   PROVE  item'[b][m].status = "absent"
        BY DEF NoneAbsent
    <2>2. action[b].status = "none"
        BY <1>1, <2>1, FinalizedOK
    <2>3. item[b][m].status = "absent"
        BY <2>2 DEF RowsInv, NoneAbsent
    <2>4. QED BY <2>3
<1>3. CompleteMeansDisposed'
    <2>1. SUFFICES ASSUME NEW b \in Action, action'[b].status # "none"
                   PROVE  action'[b].status = "complete"
                              <=> \A m \in Message : item'[b][m].status \notin Pending
        BY DEF CompleteMeansDisposed
    <2>2. CASE b # a
        BY <1>1, <2>1, <2>2 DEF RowsInv, CompleteMeansDisposed
    <2>3. CASE b = a /\ \A m \in Message : item'[a][m].status \notin Pending
        BY <1>1, <2>1, <2>3, FinalizedOK
    <2>4. CASE b = a /\ \E m \in Message : item'[a][m].status \in Pending
        <3>1. PICK m \in Message : item[a][m].status \in Pending
            BY <2>4
        <3>2. action[a].status # "none"
            BY <2>4, <3>1 DEF RowsInv, NoneAbsent, Pending
        <3>3. action[a].status # "complete"
            BY <2>4, <3>1, <3>2 DEF RowsInv, CompleteMeansDisposed
        <3>4. action'[a].status \in {action[a].status, "executing"}
            BY <1>1, <2>4, FinalizedOK
        <3>5. QED BY <2>4, <3>3, <3>4
    <2>5. QED BY <2>2, <2>3, <2>4
<1>4. QED BY <1>1, <1>2, <1>3

(* A disposition: the receipt, the observation and the action's status.    *)
LEMMA CommitInv ==
    ASSUME RowsInv, NEW a, NEW m, NEW out, out.status \notin Pending, NEW hold,
           CommitDisposition(a, m, out, hold), UNCHANGED validity
    PROVE  RowsInv' /\ ReceiptIsFinal
<1>1. CASE ~Eligible(item[a][m], hold)
    BY <1>1 DEF CommitDisposition, RowsInv, RowsShape, NoneAbsent, CompleteMeansDisposed,
                ResetInvalidates, ReceiptIsFinal, rows
<1>2. CASE Eligible(item[a][m], hold)
    <2>1. /\ item' = [item EXCEPT ![a][m].status = out.status, ![a][m].reason = out.reason]
          /\ local' = [local EXCEPT ![m] = Observed(local[m], out)]
          /\ action' = [action EXCEPT ![a].status = Finalized(a, item'[a])]
        BY <1>2 DEF CommitDisposition, Completion
    <2>2. /\ DOMAIN item' = Action
          /\ \A b \in Action : b # a => item'[b] = item[b]
          /\ \A b \in Action : DOMAIN item'[b] = Message
          /\ a \in Action => \A n \in Message : n # m => item'[a][n] = item[a][n]
        BY <2>1 DEF RowsInv, RowsShape
    <2>3. a \in Action /\ m \in Message =>
              /\ DOMAIN item'[a][m] = DOMAIN item[a][m]
              /\ item'[a][m].status = out.status
        BY <2>1 DEF RowsInv, RowsShape
    <2>4. item[a][m].status # "absent"
        BY <1>2 DEF Eligible, Pending
    <2>5. /\ \A b \in Action : DOMAIN action'[b] = DOMAIN action[b]
          /\ DOMAIN action' = Action /\ NoneAbsent' /\ CompleteMeansDisposed'
        <3>1. \A b \in Action : /\ DOMAIN item'[b] = Message
                                /\ \A n \in Message : DOMAIN item'[b][n] = DOMAIN item[b][n]
            BY <2>2, <2>3
        <3>2. a \in Action => \A n \in Message :
                  \/ item'[a][n] = item[a][n]
                  \/ item[a][n].status # "absent" /\ item'[a][n].status \notin Pending
            BY <2>2, <2>3, <2>4
        <3>3. QED BY <2>1, <2>2, <3>1, <3>2, StatusOK
    <2>6. /\ DOMAIN local' = Message /\ \A n \in Message : n # m => local'[n] = local[n]
          /\ m \in Message => /\ DOMAIN local'[m] = DOMAIN local[m]
                              /\ local'[m].invalidated = local[m].invalidated
        <3>1. m \in Message => /\ DOMAIN Observed(local[m], out) = DOMAIN local[m]
                               /\ Observed(local[m], out).invalidated = local[m].invalidated
            BY DEF Observed, RowsInv, RowsShape
        <3>2. QED BY <2>1, <3>1 DEF RowsInv, RowsShape
    <2>7. RowsShape'
        BY <2>2, <2>3, <2>5, <2>6 DEF RowsInv, RowsShape
    <2>8. ResetInvalidates'
        BY <2>6 DEF RowsInv, ResetInvalidates
    <2>9. ReceiptIsFinal
        <3>1. ~(item[a][m].status \in Disposed /\ item[a][m].reason # "interrupted")
            BY <1>2 DEF Eligible, Pending, Disposed
        <3>2. QED BY <2>2, <3>1 DEF ReceiptIsFinal
    <2>10. QED BY <2>5, <2>7, <2>8, <2>9 DEF RowsInv
<1>3. QED BY <1>1, <1>2

(* The rows under the steps that write no receipt.                         *)
LEMMA SubmitInv ==
    ASSUME RowsInv, NEW a \in Action, NEW kind, NEW targets \in SUBSET Message,
           Submit(a, kind, targets)
    PROVE  RowsInv' /\ ReceiptIsFinal
<1> DEFINE new == [status |-> "queued", kind |-> kind]
           target(m) == [status |-> "queued", reason |-> "none",
                         revision |-> local[m].revision, modseq |-> local[m].modseq]
           items == [m \in Message |-> IF m \in targets THEN target(m) ELSE NoItem]
<1>1. /\ action' = [action EXCEPT ![a] = new] /\ item' = [item EXCEPT ![a] = items]
      /\ targets # {} /\ action[a].status = "none" /\ UNCHANGED <<local, validity>>
    BY DEF Submit, env
<1>2. DOMAIN new = {"status", "kind"} /\ new.status = "queued"
    OBVIOUS
<1>3. /\ DOMAIN items = Message
      /\ \A m \in Message : DOMAIN items[m] = {"status", "reason", "revision", "modseq"}
      /\ \A m \in targets : items[m].status = "queued"
    BY DEF NoItem
<1> HIDE DEF new, items
<1>4. RowsShape'
    BY <1>1, <1>2, <1>3 DEF RowsInv, RowsShape
<1>5. NoneAbsent' /\ CompleteMeansDisposed'
    BY <1>1, <1>2, <1>3
       DEF RowsInv, RowsShape, NoneAbsent, CompleteMeansDisposed, Pending
<1>6. ResetInvalidates'
    BY <1>1 DEF RowsInv, ResetInvalidates
<1>7. ReceiptIsFinal
    BY <1>1 DEF RowsInv, RowsShape, NoneAbsent, ReceiptIsFinal, Disposed
<1>8. QED BY <1>4, <1>5, <1>6, <1>7 DEF RowsInv

LEMMA FinishInv ==
    ASSUME RowsInv, NEW w, Finish(w)
    PROVE  RowsInv' /\ ReceiptIsFinal
<1> DEFINE a == Current(w)
<1>1. /\ action' = [action EXCEPT ![a].status = Finalized(a, item'[a])]
      /\ UNCHANGED <<item, local, validity>>
    BY DEF Finish, env
<1>2. /\ \A b \in Action : DOMAIN action'[b] = DOMAIN action[b]
      /\ DOMAIN action' = Action /\ NoneAbsent' /\ CompleteMeansDisposed'
    BY <1>1, StatusOK DEF RowsInv, RowsShape
<1>3. RowsShape' /\ ResetInvalidates' /\ ReceiptIsFinal
    BY <1>1, <1>2 DEF RowsInv, RowsShape, ResetInvalidates, ReceiptIsFinal
<1>4. QED BY <1>2, <1>3 DEF RowsInv

LEMMA ClaimRows ==
    ASSUME RowsInv, NEW w, ClaimItem(w)
    PROVE  RowsInv' /\ ReceiptIsFinal
<1> DEFINE a == Current(w)
           m == Target(w)
<1>1. /\ UNCHANGED <<action, local, validity>>
      /\ \/ item' = item
         \/ /\ item[a][m].status = "queued"
            /\ item' = [item EXCEPT ![a][m].status = "executing"]
    BY DEF ClaimItem, env
<1> HIDE DEF a, m
<1>2. CASE item' = item
    BY <1>1, <1>2 DEF RowsInv, RowsShape, NoneAbsent, CompleteMeansDisposed,
                      ResetInvalidates, ReceiptIsFinal
<1>3. CASE /\ item[a][m].status = "queued"
           /\ item' = [item EXCEPT ![a][m].status = "executing"]
    <2>1. /\ DOMAIN item' = Action
          /\ \A b \in Action : DOMAIN item'[b] = Message
          /\ \A b \in Action, n \in Message : b # a \/ n # m => item'[b][n] = item[b][n]
          /\ a \in Action /\ m \in Message =>
                DOMAIN item'[a][m] = DOMAIN item[a][m] /\ item'[a][m].status = "executing"
        BY <1>3 DEF RowsInv, RowsShape
    <2>2. RowsShape'
        BY <1>1, <2>1 DEF RowsInv, RowsShape
    <2>3. NoneAbsent'
        BY <1>1, <1>3, <2>1 DEF RowsInv, NoneAbsent
    <2>4. \A b \in Action, n \in Message :
              item'[b][n].status \in Pending <=> item[b][n].status \in Pending
        BY <1>3, <2>1 DEF Pending
    <2>5. CompleteMeansDisposed'
        BY <1>1, <2>4 DEF RowsInv, CompleteMeansDisposed
    <2>6. ResetInvalidates' /\ ReceiptIsFinal
        BY <1>1, <1>3, <2>1 DEF RowsInv, ResetInvalidates, ReceiptIsFinal, Disposed
    <2>7. QED BY <2>2, <2>3, <2>5, <2>6 DEF RowsInv
<1>4. QED BY <1>1, <1>2, <1>3

LEMMA RestoredOK ==
    ASSUME NEW i, DOMAIN i = {"status", "reason", "revision", "modseq"}
    PROVE  /\ DOMAIN RestoredItem(i) = DOMAIN i
           /\ RestoredItem(i).status \notin Pending
           /\ i.status \notin Pending => RestoredItem(i) = i
<1>1. CASE i.status = "queued"
    <2>1. RestoredItem(i) = [i EXCEPT !.status = "conflicted", !.reason = "restored"]
        BY <1>1 DEF RestoredItem
    <2>2. QED BY <1>1, <2>1 DEF Pending
<1>2. CASE i.status = "executing"
    <2>1. RestoredItem(i) = [i EXCEPT !.status = "unknown", !.reason = "restored"]
        BY <1>2 DEF RestoredItem
    <2>2. QED BY <1>2, <2>1 DEF Pending
<1>3. CASE i.status \notin Pending
    BY <1>3 DEF RestoredItem, Pending
<1>4. QED BY <1>1, <1>2, <1>3 DEF Pending

LEMMA RestoredRows ==
    ASSUME RowsInv, NEW a \in Action, DispositionRestored(a)
    PROVE  RowsInv' /\ ReceiptIsFinal
<1> DEFINE items == [m \in Message |-> RestoredItem(item[a][m])]
<1>1. /\ action' = [action EXCEPT ![a].status = "complete"]
      /\ item' = [item EXCEPT ![a] = items] /\ UNCHANGED <<local, validity>>
    BY DEF DispositionRestored, env
<1>2. \A m \in Message :
          /\ DOMAIN items[m] = DOMAIN item[a][m]
          /\ items[m].status \notin Pending
          /\ item[a][m].status \notin Pending => items[m] = item[a][m]
    <2>1. SUFFICES ASSUME NEW m \in Message
                   PROVE  /\ DOMAIN items[m] = DOMAIN item[a][m]
                          /\ items[m].status \notin Pending
                          /\ item[a][m].status \notin Pending => items[m] = item[a][m]
        OBVIOUS
    <2>2. items[m] = RestoredItem(item[a][m])
        OBVIOUS
    <2>3. DOMAIN item[a][m] = {"status", "reason", "revision", "modseq"}
        BY DEF RowsInv, RowsShape
    <2> HIDE DEF items
    <2>4. QED BY <2>2, <2>3, RestoredOK
<1>3. DOMAIN items = Message
    OBVIOUS
<1> HIDE DEF items
<1>4. RowsShape'
    BY <1>1, <1>2, <1>3 DEF RowsInv, RowsShape
<1>5. /\ \A b \in Action : b # a => action'[b] = action[b] /\ item'[b] = item[b]
      /\ action'[a].status = "complete" /\ item'[a] = items
    BY <1>1 DEF RowsInv, RowsShape
<1>6. NoneAbsent' /\ CompleteMeansDisposed'
    BY <1>2, <1>5 DEF RowsInv, NoneAbsent, CompleteMeansDisposed
<1>7. ResetInvalidates'
    BY <1>1 DEF RowsInv, ResetInvalidates
<1>8. ReceiptIsFinal
    BY <1>2, <1>5 DEF ReceiptIsFinal, Pending, Disposed
<1>9. QED BY <1>4, <1>6, <1>7, <1>8 DEF RowsInv

(* The sync: what it finds of a message, and a folder numbered anew.       *)
LEMMA SyncMessageRows ==
    ASSUME RowsInv, NEW m \in Message, SyncMessage(m)
    PROVE  RowsInv' /\ ReceiptIsFinal
<1>1. /\ UNCHANGED <<action, item, validity>>
      /\ DOMAIN local' = Message /\ \A n \in Message : n # m => local'[n] = local[n]
      /\ DOMAIN local'[m] = DOMAIN local[m] /\ local'[m].invalidated = local[m].invalidated
    <2>1. \/ local' = [local EXCEPT ![m] = [local[m] EXCEPT !.expunged = TRUE]]
          \/ \E n : local' = [local EXCEPT ![m] =
                          [local[m] EXCEPT !.flag = server[m].flag, !.revision = n]]
        BY DEF SyncMessage
    <2>2. UNCHANGED <<action, item, validity>>
        BY DEF SyncMessage, env
    <2>3. DOMAIN local = Message
          /\ DOMAIN local[m] = {"flag", "revision", "modseq", "expunged", "invalidated"}
        BY DEF RowsInv, RowsShape
    <2>4. CASE local' = [local EXCEPT ![m] = [local[m] EXCEPT !.expunged = TRUE]]
        BY <2>2, <2>3, <2>4
    <2>5. ASSUME NEW n, local' = [local EXCEPT ![m] =
                            [local[m] EXCEPT !.flag = server[m].flag, !.revision = n]]
          PROVE  /\ UNCHANGED <<action, item, validity>>
                 /\ DOMAIN local' = Message
                 /\ \A k \in Message : k # m => local'[k] = local[k]
                 /\ DOMAIN local'[m] = DOMAIN local[m]
                 /\ local'[m].invalidated = local[m].invalidated
        BY <2>2, <2>3, <2>5
    <2>6. QED BY <2>1, <2>4, <2>5
<1>2. QED BY <1>1 DEF RowsInv, RowsShape, NoneAbsent, CompleteMeansDisposed,
                      ResetInvalidates, ReceiptIsFinal

LEMMA SyncResetsRows ==
    ASSUME Numbered, RowsInv, FoldersOK, NEW f \in Folder, SyncResets(f)
    PROVE  RowsInv' /\ ReceiptIsFinal
<1>1. /\ UNCHANGED <<action, item>> /\ validity' = [validity EXCEPT ![f] = 2]
      /\ local' = [m \in Message |->
                     IF FolderOf[m] = f THEN [local[m] EXCEPT !.invalidated = TRUE]
                     ELSE local[m]]
    BY DEF SyncResets
<1>2. \A m \in Message : /\ DOMAIN local'[m] = DOMAIN local[m]
                         /\ FolderOf[m] = f => local'[m].invalidated
                         /\ FolderOf[m] # f => local'[m] = local[m]
    BY <1>1 DEF RowsInv, RowsShape
<1>3. RowsShape'
    BY <1>1, <1>2 DEF RowsInv, RowsShape
<1>4. ResetInvalidates'
    <2>1. SUFFICES ASSUME NEW m \in Message, validity'[FolderOf[m]] = 2
                   PROVE  local'[m].invalidated
        BY DEF ResetInvalidates
    <2>2. CASE FolderOf[m] = f
        BY <1>2, <2>2
    <2>3. CASE FolderOf[m] # f
        BY <1>1, <1>2, <2>1, <2>3 DEF RowsInv, ResetInvalidates, FoldersOK, Numbered
    <2>4. QED BY <2>2, <2>3
<1>5. QED BY <1>1, <1>3, <1>4
             DEF RowsInv, NoneAbsent, CompleteMeansDisposed, ReceiptIsFinal

-----------------------------------------------------------------------------
(* The passes.                                                             *)

(* The other passes, and this one where it now stands.                     *)
Passes(w) ==
    /\ DOMAIN run' = Run /\ \A v \in Run : v # w => run'[v] = run[v]
    /\ RunOK(run'[w])

LEMMA WritingPassInv ==
    ASSUME IInv, NEW w \in Run, RowsInv', UNCHANGED <<validity, mailbox>>,
           NoWriteAcrossGenerations', Passes(w)
    PROVE  IInv'
<1>1. RunsOK'
    <2>1. SUFFICES ASSUME NEW v \in Run PROVE RunOK(run[v])'
        BY DEF Passes, RunsOK
    <2>2. RunOK(run'[v])
        BY DEF Passes, IInv, RunsOK
    <2>3. QED BY <2>2 DEF RunOK
<1>2. QED BY <1>1 DEF IInv, FoldersOK

LEMMA PassInv ==
    ASSUME IInv, NEW w \in Run, RowsInv', UNCHANGED <<validity, mailbox>>,
           strayed' = strayed, Passes(w)
    PROVE  IInv'
BY WritingPassInv DEF IInv, NoWriteAcrossGenerations

LEMMA IdlePass ==
    ASSUME RunsOK, NEW w \in Run, run' = [run EXCEPT ![w] = Idle]
    PROVE  Passes(w)
BY IdleOK DEF RunsOK, Passes

LEMMA LeavesPass ==
    ASSUME RunsOK, NEW w \in Run, Leaves(w)
    PROVE  Passes(w)
<1> DEFINE list == run[w].list \ {Current(w)}
           q == [Idle EXCEPT !.pc = "next", !.list = list]
<1>1. run' = [run EXCEPT ![w] = q]
    BY DEF Leaves
<1> HIDE DEF list
<1>2. RunOK(q)
    BY DEF RunOK, Idle, RunFields, Nothing, Answer, Pending, Writing
<1> HIDE DEF q
<1>3. QED BY <1>1, <1>2 DEF RunsOK, Passes

(* A step that keeps the selection and goes where it allows.               *)
LEMMA StepsPass ==
    ASSUME RunsOK, NEW w \in Run, NEW pc, NEW todo, todo \subseteq Message, NEW out,
           out.status \notin Pending,
           run' = [run EXCEPT ![w].pc = pc, ![w].out = out, ![w].todo = todo],
           pc \in Writing => run[w].selected = 1,
           pc \in {"item", "settle"} => run[w].pc \in {"item", "settle"} \/ run[w].selected = 1
    PROVE  Passes(w)
<1>1. RunOK(run[w]) /\ DOMAIN run = Run
    BY DEF RunsOK
<1>2. /\ DOMAIN run' = Run /\ \A v \in Run : v # w => run'[v] = run[v]
      /\ DOMAIN run'[w] = RunFields
      /\ run'[w].pc = pc /\ run'[w].out = out /\ run'[w].todo = todo
      /\ run'[w].selected = run[w].selected /\ run'[w].folder = run[w].folder
    BY <1>1 DEF RunOK, RunFields
<1>3. RunOK(run'[w])
    BY <1>1, <1>2 DEF RunOK
<1>4. QED BY <1>2, <1>3 DEF Passes

LEMMA AnswersPass ==
    ASSUME RunsOK, NEW w \in Run, run[w].pc \in Writing, NEW pc \in Writing, NEW out,
           out.status \notin Pending, Answers(w, pc, out)
    PROVE  Passes(w)
<1>1. RunOK(run[w]) /\ DOMAIN run = Run /\ run[w].selected = 1
    BY DEF RunsOK, RunOK
<1>2. /\ DOMAIN run' = Run /\ \A v \in Run : v # w => run'[v] = run[v]
      /\ DOMAIN run'[w] = RunFields
      /\ run'[w].pc = pc /\ run'[w].out = out /\ run'[w].todo = run[w].todo
      /\ run'[w].selected = 1
    BY <1>1 DEF Answers, RunOK, RunFields
<1>3. RunOK(run'[w])
    BY <1>1, <1>2 DEF RunOK
<1>4. QED BY <1>2, <1>3 DEF Passes

LEMMA AdvancePass ==
    ASSUME RunsOK, NEW w \in Run, NEW pc,
           \/ pc = "conflict"
           \/ pc = "item" /\ run[w].pc \in Writing \cup {"settle"},
           Advance(w, pc)
    PROVE  Passes(w)
<1> DEFINE todo == run[w].todo \ {Target(w)}
<1>1. run' = [run EXCEPT ![w].pc = pc, ![w].out = Nothing, ![w].todo = todo]
    BY DEF Advance
<1>2. todo \subseteq Message /\ RunOK(run[w])
    BY DEF RunsOK, RunOK
<1>3. Nothing.status \notin Pending
    BY DEF Nothing, Answer, Pending
<1> HIDE DEF todo
<1>4. pc \notin Writing
    BY DEF Writing
<1>5. pc \in {"item", "settle"} => run[w].pc \in {"item", "settle"} \/ run[w].selected = 1
    BY <1>2 DEF RunOK
<1>6. QED BY <1>1, <1>2, <1>3, <1>4, <1>5, StepsPass

-----------------------------------------------------------------------------
(* One lemma for each group of actions.                                    *)

LEMMA RowsKept ==
    ASSUME IInv, UNCHANGED rows, UNCHANGED validity
    PROVE  RowsInv' /\ ReceiptIsFinal
BY DEF IInv, RowsInv, RowsShape, NoneAbsent, CompleteMeansDisposed, ResetInvalidates,
       ReceiptIsFinal, rows

(* The steps that only move the pass on.                                   *)
LEMMA WalkInv ==
    ASSUME IInv, NEW w \in Run,
           \/ StartPass(w) \/ ExecuteNext(w) \/ ReloadPending(w) \/ GroupDone(w) \/ Crash(w)
    PROVE  IInv' /\ ReceiptIsFinal
<1>1. RowsInv' /\ ReceiptIsFinal
    <2>1. UNCHANGED rows /\ UNCHANGED validity
        BY DEF StartPass, ExecuteNext, ReloadPending, GroupDone, Crash, env
    <2>2. QED BY <2>1, RowsKept
<1>2. UNCHANGED <<validity, mailbox, strayed>>
    BY DEF StartPass, ExecuteNext, ReloadPending, GroupDone, Crash, env, ghosts
<1>3. RunsOK /\ RunOK(run[w]) /\ DOMAIN run = Run
    BY DEF IInv, RunsOK
<1>4. CASE StartPass(w)
    <2> DEFINE list == {a \in Due : Cardinality({b \in Due : b < a}) < Limit}
    <2>1. run' = [run EXCEPT ![w].pc = "next", ![w].list = list]
        BY <1>4 DEF StartPass
    <2> HIDE DEF list
    <2>2. Passes(w)
        BY <1>3, <2>1 DEF Passes, RunOK, RunFields, Writing
    <2>3. QED BY <1>1, <1>2, <2>2, PassInv
<1>5. CASE ExecuteNext(w)
    <2> DEFINE todo == Holdable(Current(w))
    <2>1. todo \subseteq Message
        BY DEF Holdable, Interrupted
    <2>2. \/ run' = [run EXCEPT ![w] = Idle] \/ Leaves(w)
          \/ run' = [run EXCEPT ![w].pc = "holding", ![w].todo = todo]
        BY <1>5 DEF ExecuteNext
    <2> HIDE DEF todo
    <2>3. ASSUME run' = [run EXCEPT ![w].pc = "holding", ![w].todo = todo]
          PROVE  Passes(w)
        BY <1>3, <2>1, <2>3 DEF Passes, RunOK, RunFields, Writing
    <2>4. Passes(w)
        BY <1>3, <2>2, <2>3, IdlePass, LeavesPass
    <2>5. QED BY <1>1, <1>2, <2>4, PassInv
<1>6. CASE ReloadPending(w)
    <2> DEFINE todo == {m \in Message : item[Current(w)][m].status \in Pending}
               was == {m \in Message : item[Current(w)][m].status = "executing"}
    <2>1. todo \subseteq Message
        OBVIOUS
    <2>2. run' = [run EXCEPT ![w].pc = "folder", ![w].todo = todo, ![w].was = was]
        BY <1>6 DEF ReloadPending
    <2> HIDE DEF todo, was
    <2>3. Passes(w)
        BY <1>3, <2>1, <2>2 DEF Passes, RunOK, RunFields, Writing
    <2>4. QED BY <1>1, <1>2, <2>3, PassInv
<1>7. CASE GroupDone(w)
    <2> DEFINE remote == Idle.remote
    <2>1. run' = [run EXCEPT ![w].pc = "folder", ![w].folder = NoFolder,
                             ![w].selected = 0, ![w].remote = remote]
        BY <1>7 DEF GroupDone
    <2> HIDE DEF remote
    <2>2. Passes(w)
        BY <1>3, <2>1 DEF Passes, RunOK, RunFields, Writing
    <2>3. QED BY <1>1, <1>2, <2>2, PassInv
<1>8. CASE Crash(w)
    <2>1. Passes(w)
        BY <1>3, <1>8, IdlePass DEF Crash
    <2>2. QED BY <1>1, <1>2, <2>1, PassInv
<1>9. QED BY <1>4, <1>5, <1>6, <1>7, <1>8

(* A folder in its second UID space is worked on only when the hub knows.  *)
LEMMA SelectInv ==
    ASSUME Numbered, IInv, NEW w \in Run, SelectFolder(w)
    PROVE  IInv' /\ ReceiptIsFinal
<1> DEFINE f == FolderOf[Least(run[w].todo)]
           remote == [m \in Message |->
                        IF m \in run[w].todo /\ FolderOf[m] = f THEN Seen(m) ELSE Unseen]
           pc == IF mailbox[f] = validity[f] THEN "item" ELSE "conflict"
<1>1. UNCHANGED rows /\ UNCHANGED <<validity, mailbox, strayed>> /\ run[w].todo # {}
    BY DEF SelectFolder, env, ghosts
<1>2. RowsInv' /\ ReceiptIsFinal
    BY <1>1, RowsKept
<1>3. RunsOK /\ RunOK(run[w]) /\ DOMAIN run = Run
    BY DEF IInv, RunsOK
<1>4. f \in Folder
    <2>1. run[w].todo \in SUBSET Nat
        BY <1>3 DEF RunOK, Numbered
    <2>2. Least(run[w].todo) \in Message
        BY <1>1, <1>3, <2>1, LeastIsMember DEF RunOK
    <2>3. QED BY <2>2 DEF Numbered
<1>5. /\ mailbox[f] \in {0, 1, 2} /\ validity[f] \in {1, 2}
    BY <1>4 DEF IInv, FoldersOK
<1>6. CASE run' = [run EXCEPT ![w] = Idle]
    BY <1>1, <1>2, <1>3, <1>6, IdlePass, PassInv
<1>7. CASE /\ mailbox[f] # 0
           /\ run' = [run EXCEPT ![w].pc = pc, ![w].folder = f,
                                 ![w].selected = mailbox[f], ![w].remote = remote]
    <2>1. /\ pc \in {"item", "conflict"}
          /\ pc = "item" => mailbox[f] = 1 \/ (mailbox[f] = 2 /\ validity[f] = 2)
        BY <1>5, <1>7
    <2> HIDE DEF pc, remote, f
    <2>2. Passes(w)
        BY <1>3, <1>4, <1>7, <2>1 DEF Passes, RunOK, RunFields, Writing
    <2>3. QED BY <1>1, <1>2, <2>2, PassInv
<1>8. QED BY <1>6, <1>7 DEF SelectFolder, Throws

LEMMA AnswerStatus ==
    ASSUME NEW status, NEW reason, NEW observed, NEW expunge
    PROVE  Answer(status, reason, observed, expunge).status = status
BY DEF Answer

(* What the refreshed state says: an invalidated occurrence is a conflict. *)
LEMMA VerdictOK ==
    ASSUME NEW a, NEW m, NEW remote
    PROVE  /\ Verdict(a, m, remote).status \notin Pending
           /\ local[m].invalidated => Verdict(a, m, remote) # Nothing
<1>1. Conflict("none", Unseen).status = "conflicted" /\ Nothing.status = "none"
    BY AnswerStatus DEF Conflict, Nothing
<1>2. Answer("confirmed", "none", remote, FALSE).status = "confirmed"
    BY AnswerStatus
<1>3. /\ Verdict(a, m, remote) \in
             {Conflict("none", Unseen), Answer("confirmed", "none", remote, FALSE), Nothing}
      /\ local[m].invalidated => Verdict(a, m, remote) = Conflict("none", Unseen)
    BY DEF Verdict
<1>4. QED BY <1>1, <1>2, <1>3 DEF Pending

LEMMA InspectInv ==
    ASSUME Numbered, IInv, NEW w \in Run, Inspect(w)
    PROVE  IInv' /\ ReceiptIsFinal
<1> DEFINE m == Target(w)
           out == Verdict(Current(w), m, run[w].remote[m])
           pc == IF ~Revalidated(w) THEN "conflict"
                 ELSE IF out = Nothing THEN "claim" ELSE "settle"
           answer == IF Revalidated(w) THEN out ELSE Nothing
           selected == mailbox[run[w].folder]
<1>1. /\ UNCHANGED rows /\ UNCHANGED <<validity, mailbox, strayed>>
      /\ run[w].pc = "item" /\ Group(w) # {}
    BY DEF Inspect, env, ghosts, At
<1>2. RowsInv' /\ ReceiptIsFinal
    BY <1>1, RowsKept
<1>3. RunsOK /\ RunOK(run[w]) /\ DOMAIN run = Run
    BY DEF IInv, RunsOK
<1>4. m \in Message /\ FolderOf[m] = run[w].folder
    <2>1. Group(w) \in SUBSET Nat
        BY <1>3 DEF Group, RunOK, Numbered
    <2>2. m \in Group(w)
        BY <1>1, <2>1, LeastIsMember DEF Target
    <2>3. QED BY <1>3, <2>2 DEF Group, RunOK
<1>5. answer.status \notin Pending
    BY VerdictOK, AnswerStatus DEF Nothing, Pending
<1>6. CASE Throws(w)
    BY <1>1, <1>2, <1>3, <1>6, IdlePass, PassInv DEF Throws
<1>7. CASE run' = [run EXCEPT ![w].selected = selected, ![w].pc = pc, ![w].out = answer]
    <2>1. pc \in {"conflict", "claim", "settle"}
        OBVIOUS
    <2>2. pc \in {"claim", "settle"} => selected = run[w].selected
        BY DEF Revalidated
    <2>3. pc = "claim" => ~local[m].invalidated
        BY VerdictOK
    <2>4. pc = "claim" => selected = 1
        <3>1. SUFFICES ASSUME pc = "claim", run[w].selected # 1 PROVE FALSE
            BY <2>2
        <3>2. validity[FolderOf[m]] = 2
            BY <1>1, <1>3, <1>4, <3>1 DEF RunOK
        <3>3. QED BY <1>4, <2>3, <3>1, <3>2 DEF IInv, RowsInv, ResetInvalidates
    <2> HIDE DEF pc, answer, selected
    <2>5. /\ DOMAIN run' = Run /\ \A v \in Run : v # w => run'[v] = run[v]
          /\ DOMAIN run'[w] = RunFields
          /\ run'[w].pc = pc /\ run'[w].out = answer /\ run'[w].selected = selected
          /\ run'[w].todo = run[w].todo /\ run'[w].folder = run[w].folder
        BY <1>3, <1>7 DEF RunOK, RunFields
    <2>6. RunOK(run'[w])
        BY <1>1, <1>3, <1>5, <2>1, <2>2, <2>4, <2>5 DEF RunOK, Writing
    <2>7. QED BY <1>1, <1>2, <2>5, <2>6, PassInv DEF Passes
<1>8. QED BY <1>6, <1>7 DEF Inspect

(* The steps that write a receipt.                                         *)
LEMMA ReceiptInv ==
    ASSUME IInv, NEW w \in Run,
           HoldInterrupted(w) \/ ConflictRest(w) \/ Settle(w) \/ Receipt(w)
    PROVE  IInv' /\ ReceiptIsFinal
<1>1. UNCHANGED <<validity, mailbox, strayed>>
    BY DEF HoldInterrupted, ConflictRest, Settle, Receipt, env, ghosts
<1>2. RunsOK /\ RunOK(run[w]) /\ DOMAIN run = Run /\ RowsInv
    BY DEF IInv, RunsOK
<1>3. /\ Answer("unknown", "interrupted", Unseen, FALSE).status \notin Pending
      /\ Conflict("none", Unseen).status \notin Pending
    BY DEF Answer, Conflict, Pending
<1>4. CASE HoldInterrupted(w)
    <2> DEFINE todo == run[w].todo \ {Least(run[w].todo)}
    <2>1. /\ CommitDisposition(Current(w), Least(run[w].todo),
                               Answer("unknown", "interrupted", Unseen, FALSE), FALSE)
          /\ run' = [run EXCEPT ![w].todo = todo] /\ run[w].pc = "holding"
        BY <1>4 DEF HoldInterrupted, At
    <2>2. RowsInv' /\ ReceiptIsFinal
        BY <1>1, <1>2, <1>3, <2>1, CommitInv
    <2>3. todo \subseteq Message
        BY <1>2 DEF RunOK
    <2> HIDE DEF todo
    <2>4. Passes(w)
        BY <1>2, <2>1, <2>3 DEF Passes, RunOK, RunFields, Writing
    <2>5. QED BY <1>1, <2>2, <2>4, PassInv
<1>5. CASE ConflictRest(w)
    <2>1. RowsInv' /\ ReceiptIsFinal
        BY <1>1, <1>2, <1>3, <1>5, CommitInv DEF ConflictRest
    <2>2. Passes(w)
        BY <1>2, <1>5, AdvancePass DEF ConflictRest
    <2>3. QED BY <1>1, <2>1, <2>2, PassInv
<1>6. CASE Settle(w)
    <2>1. RowsInv' /\ ReceiptIsFinal
        BY <1>1, <1>2, <1>6, CommitInv DEF Settle, RunOK
    <2>2. Passes(w)
        BY <1>2, <1>6, AdvancePass DEF Settle, At
    <2>3. QED BY <1>1, <2>1, <2>2, PassInv
<1>7. CASE Receipt(w)
    <2>1. RowsInv' /\ ReceiptIsFinal
        BY <1>1, <1>2, <1>7, CommitInv DEF Receipt, RunOK
    <2>2. Passes(w)
        BY <1>2, <1>7, AdvancePass DEF Receipt, At, Writing
    <2>3. QED BY <1>1, <2>1, <2>2, PassInv
<1>8. QED BY <1>4, <1>5, <1>6, <1>7

LEMMA ClaimInv ==
    ASSUME IInv, NEW w \in Run, ClaimItem(w) \/ Finish(w)
    PROVE  IInv' /\ ReceiptIsFinal
<1>1. UNCHANGED <<validity, mailbox, strayed>>
    BY DEF ClaimItem, Finish, env, ghosts
<1>2. RunsOK /\ RunOK(run[w]) /\ DOMAIN run = Run /\ RowsInv
    BY DEF IInv, RunsOK
<1>3. RowsInv' /\ ReceiptIsFinal
    BY <1>2, ClaimRows, FinishInv
<1>4. Passes(w)
    <2>1. CASE Finish(w)
        BY <1>2, <2>1, LeavesPass DEF Finish
    <2>2. CASE ClaimItem(w)
        <3>1. run[w].pc = "claim"
            BY <2>2 DEF ClaimItem, At
        <3>2. \/ Advance(w, "item") \/ Leaves(w) \/ run' = [run EXCEPT ![w].pc = "apply"]
            BY <2>2 DEF ClaimItem
        <3>3. CASE Advance(w, "item")
            BY <1>2, <3>1, <3>3, AdvancePass DEF Writing
        <3>4. CASE Leaves(w)
            BY <1>2, <3>4, LeavesPass
        <3>5. CASE run' = [run EXCEPT ![w].pc = "apply"]
            BY <1>2, <3>1, <3>5 DEF Passes, RunOK, RunFields, Writing
        <3>6. QED BY <3>2, <3>3, <3>4, <3>5
    <2>3. QED BY <2>1, <2>2
<1>5. QED BY <1>1, <1>3, <1>4, PassInv

(* The commands: a pass that writes selected the first UID space.          *)
LEMMA OutcomesOK ==
    ASSUME NEW w, NEW back
    PROVE  /\ Failed.status \notin Pending /\ Lost.status \notin Pending
           /\ ReadbackOutcome(w, back).status \notin Pending
           /\ \A out \in MoveAnswers(w) : out.status \notin Pending
<1>1. Failed.status = "failed" /\ Lost.status = "unknown"
    BY AnswerStatus DEF Failed, Lost
<1>2. \A reason, observed, expunge :
          /\ Answer("confirmed", reason, observed, expunge).status = "confirmed"
          /\ Conflict(reason, observed).status = "conflicted"
    BY AnswerStatus DEF Conflict
<1>3. ReadbackOutcome(w, back).status \notin Pending
    <2>1. \/ ReadbackOutcome(w, back) \in {Lost, Failed}
          \/ ReadbackOutcome(w, back) = Conflict("none", run[w].remote[Target(w)])
          \/ ReadbackOutcome(w, back) = Conflict("condstore_rejected", back)
          \/ ReadbackOutcome(w, back) = Answer("confirmed", "none", back, FALSE)
        <3>1. CASE ~back.present
            BY <3>1 DEF ReadbackOutcome
        <3>2. CASE back.present /\ back.flag = Desired(Kind(w))
            BY <3>2 DEF ReadbackOutcome
        <3>3. CASE back.present /\ back.flag # Desired(Kind(w))
            BY <3>3 DEF ReadbackOutcome
        <3>4. QED BY <3>1, <3>2, <3>3
    <2>2. QED BY <1>1, <1>2, <2>1 DEF Pending
<1>4. \A out \in MoveAnswers(w) : out.status \notin Pending
    BY <1>1, <1>2 DEF MoveAnswers, Pending
<1>5. QED BY <1>1, <1>3, <1>4 DEF Pending

LEMMA CommandInv ==
    ASSUME IInv, NEW w \in Run,
           Unavailable(w) \/ ApplyMove(w) \/ WriteFlag(w) \/ Readback(w)
    PROVE  IInv' /\ ReceiptIsFinal
<1>1. UNCHANGED rows /\ UNCHANGED <<validity, mailbox>>
    BY DEF Unavailable, ApplyMove, WriteFlag, Readback, env
<1>2. RowsInv' /\ ReceiptIsFinal
    BY <1>1, RowsKept
<1>3. RunsOK /\ RunOK(run[w])
    BY DEF IInv, RunsOK
<1>4. run[w].pc \in Writing /\ run[w].selected = 1
    BY <1>3 DEF Unavailable, ApplyMove, WriteFlag, Readback, At, Writing, RunOK
<1>5. NoWriteAcrossGenerations'
    <2>1. ~strayed
        BY DEF IInv, NoWriteAcrossGenerations
    <2>2. CASE Unavailable(w) \/ Readback(w)
        BY <2>1, <2>2 DEF Unavailable, Readback, ghosts, NoWriteAcrossGenerations
    <2>3. CASE ApplyMove(w) \/ WriteFlag(w)
        <3>1. strayed' = (strayed \/ (Reaches(w) /\ run[w].selected # 1))
            BY <2>3 DEF ApplyMove, WriteFlag
        <3>2. QED BY <1>4, <2>1, <3>1 DEF NoWriteAcrossGenerations
    <2>4. QED BY <2>2, <2>3
<1>6. \E pc \in Writing : \E out : out.status \notin Pending /\ Answers(w, pc, out)
    <2>1. CASE Unavailable(w)
        BY <2>1, OutcomesOK DEF Unavailable, Writing
    <2>2. CASE ApplyMove(w)
        <3>1. Answer("confirmed", "none", run[w].remote[Target(w)], TRUE).status \notin Pending
            BY DEF Answer, Pending
        <3>2. \E out : out.status \notin Pending /\ Answers(w, "receipt", out)
            BY <2>2, <3>1, OutcomesOK DEF ApplyMove
        <3>3. QED BY <3>2 DEF Writing
    <2>3. CASE WriteFlag(w)
        <3>1. \/ Answers(w, "receipt", Lost)
              \/ \E result \in {"accepted", "rejected"} : Write(w, result)
            BY <2>3 DEF WriteFlag
        <3>2. \A result \in {"accepted", "rejected"} :
                  Answer(result, "none", Unseen, FALSE).status \notin Pending
            BY DEF Answer, Pending
        <3>3. QED BY <3>1, <3>2, OutcomesOK DEF Write, Writing
    <2>4. CASE Readback(w)
        BY <2>4, OutcomesOK DEF Readback, Writing
    <2>5. QED BY <2>1, <2>2, <2>3, <2>4
<1>7. Passes(w)
    BY <1>3, <1>4, <1>6, AnswersPass
<1>8. QED BY <1>1, <1>2, <1>5, <1>7, WritingPassInv

(* The mailbox, the sync and the operator.                                 *)
LEMMA RunsStay ==
    ASSUME IInv, UNCHANGED run, UNCHANGED strayed, RowsInv', FoldersOK',
           \A f \in Folder : validity[f] = 2 => validity'[f] = 2
    PROVE  IInv'
BY DEF IInv, RunsOK, RunOK, NoWriteAcrossGenerations

LEMMA ServerInv ==
    ASSUME Numbered, IInv, ServerStep
    PROVE  IInv' /\ ReceiptIsFinal
<1>1. ASSUME NEW m \in Message, ClientFlags(m) \/ ClientRemoves(m)
      PROVE  IInv' /\ ReceiptIsFinal
    <2>1. UNCHANGED rows /\ UNCHANGED <<run, strayed, validity, mailbox>>
        BY <1>1 DEF ClientFlags, ClientRemoves, env, ghosts
    <2>2. RowsInv' /\ ReceiptIsFinal
        BY <2>1, RowsKept
    <2>3. QED BY <2>1, <2>2, RunsStay DEF IInv, FoldersOK
<1>2. ASSUME NEW m \in Message, SyncMessage(m)
      PROVE  IInv' /\ ReceiptIsFinal
    <2>1. UNCHANGED <<run, strayed, validity, mailbox>>
        BY <1>2 DEF SyncMessage, env, ghosts
    <2>2. RowsInv' /\ ReceiptIsFinal
        BY <1>2, SyncMessageRows DEF IInv
    <2>3. QED BY <2>1, <2>2, RunsStay DEF IInv, FoldersOK
<1>3. ASSUME NEW f \in Folder, ServerResets(f) \/ FolderVanishes(f)
      PROVE  IInv' /\ ReceiptIsFinal
    <2>1. /\ UNCHANGED rows /\ UNCHANGED <<run, strayed, validity>>
          /\ \E n \in {0, 2} : mailbox' = [mailbox EXCEPT ![f] = n]
        BY <1>3 DEF ServerResets, FolderVanishes, ghosts
    <2>2. RowsInv' /\ ReceiptIsFinal
        BY <2>1, RowsKept
    <2>3. FoldersOK'
        BY <2>1 DEF IInv, FoldersOK
    <2>4. QED BY <2>1, <2>2, <2>3, RunsStay
<1>4. ASSUME NEW f \in Folder, SyncResets(f)
      PROVE  IInv' /\ ReceiptIsFinal
    <2>1. /\ UNCHANGED <<run, strayed, mailbox>> /\ validity' = [validity EXCEPT ![f] = 2]
        BY <1>4 DEF SyncResets, ghosts
    <2>2. RowsInv' /\ ReceiptIsFinal
        BY <1>4, SyncResetsRows DEF IInv
    <2>3. FoldersOK' /\ \A g \in Folder : validity[g] = 2 => validity'[g] = 2
        BY <2>1 DEF IInv, FoldersOK
    <2>4. QED BY <2>1, <2>2, <2>3, RunsStay
<1>5. QED BY <1>1, <1>2, <1>3, <1>4 DEF ServerStep

LEMMA OperatorInv ==
    ASSUME IInv,
           \/ BeginRecovery \/ \E a \in Action : DispositionRestored(a)
           \/ \E a \in Action, kind \in Kinds, targets \in SUBSET Message :
                   Submit(a, kind, targets)
    PROVE  IInv' /\ ReceiptIsFinal
<1>1. UNCHANGED <<run, strayed, validity, mailbox>>
    BY DEF BeginRecovery, DispositionRestored, Submit, env, ghosts
<1>2. RowsInv' /\ ReceiptIsFinal
    <2>1. CASE BeginRecovery
        BY <1>1, <2>1, RowsKept DEF BeginRecovery
    <2>2. QED BY <2>1, RestoredRows, SubmitInv DEF IInv
<1>3. QED BY <1>1, <1>2, RunsStay DEF IInv, FoldersOK

-----------------------------------------------------------------------------
(* The invariant and what follows.                                         *)

LEMMA StepInv == Numbered /\ IInv /\ [Next]_vars => IInv' /\ [ReceiptIsFinal]_vars
<1> SUFFICES ASSUME Numbered, IInv, [Next]_vars PROVE IInv' /\ [ReceiptIsFinal]_vars
    OBVIOUS
<1>1. CASE UNCHANGED vars
    BY <1>1 DEF IInv, RowsInv, RowsShape, NoneAbsent, CompleteMeansDisposed,
       ResetInvalidates, FoldersOK, RunsOK, RunOK, NoWriteAcrossGenerations,
       vars, rows, env, ghosts
<1>2. ASSUME NEW w \in Run, StartPass(w) \/ PassStep(w) \/ Crash(w)
      PROVE  IInv' /\ ReceiptIsFinal
    BY <1>2, WalkInv, SelectInv, InspectInv, ReceiptInv, ClaimInv, CommandInv DEF PassStep
<1>3. QED BY <1>1, <1>2, ServerInv, OperatorInv DEF Next

(* No write lands in a UID space other than the one its target was frozen  *)
(* in: executeFolderGroup selects again before every item, and a reset the *)
(* hub knows of has invalidated the local occurrences.                     *)
THEOREM WritesStayInGeneration == Numbered => (Spec => []NoWriteAcrossGenerations)
<1> SUFFICES ASSUME Numbered PROVE Spec => []NoWriteAcrossGenerations
    OBVIOUS
<1>1. Init => IInv
    BY InitInv
<1>2. IInv /\ [Next]_vars => IInv'
    BY StepInv
<1>3. IInv => NoWriteAcrossGenerations
    BY DEF IInv
<1>4. QED BY <1>1, <1>2, <1>3, PTL DEF Spec

(* An action is complete exactly when each of its items has a disposition: *)
(* finalizeActionStatus runs in the transaction of every receipt.          *)
THEOREM CompleteIsDisposed == Numbered => (Spec => []CompleteMeansDisposed)
<1> SUFFICES ASSUME Numbered PROVE Spec => []CompleteMeansDisposed
    OBVIOUS
<1>1. Init => IInv
    BY InitInv
<1>2. IInv /\ [Next]_vars => IInv'
    BY StepInv
<1>3. IInv => CompleteMeansDisposed
    BY DEF IInv, RowsInv
<1>4. QED BY <1>1, <1>2, <1>3, PTL DEF Spec

(* A receipt never changes, whatever a slower pass or the operator records *)
(* later, except that a claim's own answer replaces the hold of an         *)
(* interrupted move (commitDisposition's eligible states).                 *)
THEOREM ReceiptsAreFinal == Numbered => (Spec => [][ReceiptIsFinal]_vars)
<1> SUFFICES ASSUME Numbered PROVE Spec => [][ReceiptIsFinal]_vars
    OBVIOUS
<1>1. Init => IInv
    BY InitInv
<1>2. IInv /\ [Next]_vars => IInv' /\ [ReceiptIsFinal]_vars
    BY StepInv
<1>3. QED BY <1>1, <1>2, PTL DEF Spec

-----------------------------------------------------------------------------
(* The target a pass is working on.                                        *)

(* Actions are numbered from 1; 0 in moved says that no MOVE took effect.  *)
Counted == Numbered /\ Action \subseteq Nat \ {0}

(* The current action of a pass, and the targets of its folder group.      *)
Cur(q) == Least(q.list)
GroupOf(q) == {m \in q.todo : FolderOf[m] = q.folder}
TargetOf(q) == Least(GroupOf(q))

(* A pass between two actions, and one that works on a target.             *)
Acting == {"settle"} \cup Writing
Resting == {"idle", "next"}

(* The submitted actions of a pass, and a target while it works on one.    *)
PlaceOK(q) ==
    /\ q.list \subseteq {a \in Action : action[a].status # "none"}
    /\ q.pc \notin Resting => q.list # {}
    /\ q.pc \in Acting => GroupOf(q) # {}

(* The rows of the mailbox, and what is noted beside them.                 *)
OutsideShape ==
    /\ DOMAIN server = Message
    /\ \A m \in Message : DOMAIN server[m] = {"present", "flag", "modseq"}
    /\ DOMAIN held = Action /\ DOMAIN moved = Message
    /\ DOMAIN issued = Action /\ \A a \in Action : DOMAIN issued[a] = Message

PlaceInv == OutsideShape /\ \A w \in Run : PlaceOK(run[w])

(* The wanted flag as the server has it now is noted; and what a pass read *)
(* or wrote of its target, and will report, was noted.                     *)
HeldNow ==
    \A a \in Action : action[a].status # "none" =>
        \A m \in Message : server[m].flag = Desired(action[a].kind) => m \in held[a]

HeldOK(q) ==
    LET a == Cur(q)
        m == TargetOf(q) IN
    ~IsMove(a) =>
        /\ q.pc \in {"item"} \cup Acting /\ q.selected = 1 =>
              \A n \in GroupOf(q) :
                  q.remote[n].present /\ q.remote[n].flag = Desired(action[a].kind)
                      => n \in held[a]
        /\ q.pc \in {"settle", "receipt"} /\ q.out.status = "confirmed" => m \in held[a]
        /\ q.pc = "readback" /\ q.out.status = "accepted" =>
              \/ m \in held[a]
              \/ Condstore /\ item[a][m].modseq # 0
              \/ ~server[m].present

HeldInv == HeldNow /\ ConfirmedFlagWasHeld /\ \A w \in Run : HeldOK(run[w])

-----------------------------------------------------------------------------
(* What every step keeps of a submitted action and of the mailbox.         *)
Keeps ==
    /\ \A a \in Action : action[a].status # "none" =>
          /\ action'[a].status # "none" /\ action'[a].kind = action[a].kind
          /\ held[a] \subseteq held'[a]
          /\ \A m \in Message : item'[a][m].modseq = item[a][m].modseq
    /\ \A m \in Message : server'[m].present => server[m].present

LEMMA CurIsSubmitted ==
    ASSUME Counted, NEW q, PlaceOK(q), q.pc \notin Resting
    PROVE  Cur(q) \in Action /\ action[Cur(q)].status # "none"
<1>1. q.list \in SUBSET Nat /\ q.list # {}
    BY DEF Counted, PlaceOK
<1>2. Cur(q) \in q.list
    BY <1>1, LeastIsMember DEF Cur
<1>3. QED BY <1>2 DEF PlaceOK

LEMMA TargetIsIn ==
    ASSUME Counted, NEW q, q.todo \subseteq Message, GroupOf(q) # {}
    PROVE  /\ TargetOf(q) \in GroupOf(q) /\ TargetOf(q) \in q.todo /\ TargetOf(q) \in Message
           /\ FolderOf[TargetOf(q)] = q.folder
<1>1. GroupOf(q) \in SUBSET Nat
    BY DEF Counted, Numbered, GroupOf
<1>2. TargetOf(q) \in GroupOf(q)
    BY <1>1, LeastIsMember DEF TargetOf
<1>3. QED BY <1>2 DEF GroupOf

(* A disposition writes one receipt, and only where one is still open.     *)
Receives(a, m, out) ==
    /\ UNCHANGED <<held, server>>
    /\ \A b \in Action : /\ action[b].status # "none" => action'[b].status # "none"
                         /\ action'[b].kind = action[b].kind
    /\ \A b \in Action, n \in Message :
          /\ item'[b][n].modseq = item[b][n].modseq
          /\ b # a \/ n # m => item'[b][n] = item[b][n]
    /\ a \in Action /\ m \in Message =>
          /\ item'[a][m].status \in {item[a][m].status, out.status}
          /\ item[a][m].status \in Pending => item'[a][m].status = out.status

LEMMA Receiving ==
    ASSUME RowsInv, NEW a, NEW m, NEW out, NEW hold,
           CommitDisposition(a, m, out, hold), UNCHANGED <<held, server>>
    PROVE  Receives(a, m, out)
<1>1. CASE ~Eligible(item[a][m], hold)
    BY <1>1 DEF CommitDisposition, Receives, Eligible, rows
<1>2. CASE Eligible(item[a][m], hold)
    <2>1. /\ item' = [item EXCEPT ![a][m].status = out.status, ![a][m].reason = out.reason]
          /\ action' = [action EXCEPT ![a].status = Finalized(a, item'[a])]
        BY <1>2 DEF CommitDisposition, Completion
    <2>2. /\ \A b \in Action, n \in Message : b # a \/ n # m => item'[b][n] = item[b][n]
          /\ a \in Action /\ m \in Message =>
                item'[a][m].status = out.status /\ item'[a][m].modseq = item[a][m].modseq
        BY <2>1 DEF RowsInv, RowsShape
    <2>3. \A b \in Action : /\ action'[b].kind = action[b].kind
                            /\ action[b].status # "none" => action'[b].status # "none"
        <3>1. SUFFICES ASSUME NEW b \in Action
                       PROVE  /\ action'[b].kind = action[b].kind
                              /\ action[b].status # "none" => action'[b].status # "none"
            OBVIOUS
        <3>2. b # a => action'[b] = action[b]
            BY <2>1 DEF RowsInv, RowsShape
        <3>3. b = a => /\ action'[b].kind = action[b].kind
                       /\ action'[b].status = Finalized(a, item'[a])
            BY <2>1 DEF RowsInv, RowsShape
        <3>4. QED BY <3>2, <3>3, FinalizedOK
    <2>4. QED BY <2>2, <2>3 DEF Receives
<1>3. QED BY <1>1, <1>2

LEMMA ReceivingKeeps ==
    ASSUME NEW a, NEW m, NEW out, Receives(a, m, out)
    PROVE  Keeps
BY DEF Receives, Keeps

(* The frame of a step, with the noted flags brought up to date.           *)
Frames == Keeps /\ OutsideShape' /\ (HeldNow => HeldNow')

(* A step that only moves a pass.                                          *)
Quiet == UNCHANGED <<action, item, server, held, issued, moved>>

LEMMA QuietFrames == OutsideShape /\ Quiet => Frames
BY DEF Quiet, Frames, Keeps, OutsideShape, HeldNow

LEMMA NotedFrames ==
    ASSUME OutsideShape, UNCHANGED <<action, item, issued, moved>>, NoteFlags,
           DOMAIN server' = Message,
           \A m \in Message : /\ DOMAIN server'[m] = {"present", "flag", "modseq"}
                              /\ server'[m].present => server[m].present
    PROVE  Frames
<1>1. \A a \in Action : action[a].status # "none" =>
          held'[a] = held[a] \cup
              {m \in Message : server'[m].flag = Desired(action[a].kind)}
    BY DEF NoteFlags
<1>2. DOMAIN held' = Action
    BY DEF NoteFlags
<1>3. Keeps
    BY <1>1 DEF Keeps
<1>4. OutsideShape'
    BY <1>2 DEF OutsideShape
<1>5. HeldNow'
    BY <1>1 DEF HeldNow, Desired
<1>6. QED BY <1>3, <1>4, <1>5 DEF Frames

(* A message is taken out of the mailbox.                                  *)
LEMMA RemovedFrames ==
    ASSUME OutsideShape, UNCHANGED <<action, item, held>>, NEW m \in Message,
           server' = [server EXCEPT ![m].present = FALSE],
           DOMAIN moved' = Message, DOMAIN issued' = Action,
           \A a \in Action : DOMAIN issued'[a] = Message
    PROVE  Frames
<1>1. /\ DOMAIN server' = Message
      /\ \A n \in Message : /\ DOMAIN server'[n] = {"present", "flag", "modseq"}
                            /\ server'[n].present => server[n].present
                            /\ server'[n].flag = server[n].flag
    BY DEF OutsideShape
<1>2. QED BY <1>1 DEF Frames, Keeps, OutsideShape, HeldNow

LEMMA ReceivingFrames ==
    ASSUME OutsideShape, RowsInv, UNCHANGED <<held, server, issued, moved>>,
           NEW a, action[a].status # "none", NEW m, NEW out, NEW hold,
           CommitDisposition(a, m, out, hold)
    PROVE  Frames /\ Receives(a, m, out)
<1>1. Receives(a, m, out) /\ Keeps
    BY Receiving, ReceivingKeeps
<1>2. OutsideShape'
    BY DEF OutsideShape
<1>3. HeldNow => HeldNow'
    <2>1. CASE ~Eligible(item[a][m], hold)
        BY <2>1 DEF CommitDisposition, HeldNow, rows
    <2>2. CASE Eligible(item[a][m], hold)
        <3>1. action' = [action EXCEPT ![a].status = Finalized(a, item'[a])]
            BY <2>2 DEF CommitDisposition, Completion
        <3>2. SUFFICES ASSUME HeldNow, NEW b \in Action, action'[b].status # "none"
                       PROVE  \A n \in Message : server[n].flag = Desired(action[b].kind)
                                                     => n \in held[b]
            BY <1>1 DEF HeldNow, Receives
        <3>3. b # a => action'[b] = action[b]
            BY <3>1 DEF RowsInv, RowsShape
        <3>4. QED BY <3>2, <3>3 DEF HeldNow
    <2>3. QED BY <2>1, <2>2
<1>4. QED BY <1>1, <1>2, <1>3 DEF Frames

-----------------------------------------------------------------------------
(* The passes, one shape of step after the other.                          *)
PassOK(q) == PlaceOK(q) /\ HeldOK(q)

LEMMA OtherPass ==
    ASSUME Counted, NEW v \in Run, run'[v] = run[v], RunOK(run[v]), PassOK(run[v]), Keeps
    PROVE  PassOK(run[v])'
<1>1. PlaceOK(run[v])'
    BY DEF PassOK, PlaceOK, Keeps, GroupOf
<1>2. CASE run[v].pc \in Resting
    BY <1>1, <1>2 DEF PassOK, HeldOK, Resting, Acting, Writing
<1>3. CASE run[v].pc \notin Resting
    <2>1. Cur(run[v]) \in Action /\ action[Cur(run[v])].status # "none"
        BY <1>3, CurIsSubmitted DEF PassOK
    <2>2. GroupOf(run[v]) # {} => TargetOf(run[v]) \in Message
        BY TargetIsIn DEF RunOK
    <2>3. run[v].pc \in Acting => GroupOf(run[v]) # {}
        BY DEF PassOK, PlaceOK
    <2>4. HeldOK(run[v])'
        <3>1. Cur(run[v])' = Cur(run[v]) /\ TargetOf(run[v])' = TargetOf(run[v])
              /\ GroupOf(run[v])' = GroupOf(run[v])
            BY DEF Cur, TargetOf, GroupOf
        <3> HIDE DEF PlaceOK
        <3>2. IsMove(Cur(run[v]))' = IsMove(Cur(run[v]))
            BY <2>1, <3>1 DEF Keeps, IsMove
        <3>3. QED BY <2>1, <2>2, <2>3, <3>1, <3>2
                     DEF PassOK, HeldOK, Keeps, IsMove, Acting, Writing
    <2>5. QED BY <1>1, <2>4 DEF PassOK
<1>4. QED BY <1>2, <1>3

LEMMA RestingPass ==
    ASSUME NEW w \in Run, run'[w].pc \in Resting,
           run'[w].list \subseteq {a \in Action : action'[a].status # "none"}
    PROVE  PassOK(run[w])'
BY DEF PassOK, PlaceOK, HeldOK, Resting, Acting, Writing

(* A pass that works on no target yet.                                     *)
LEMMA LoadingPass ==
    ASSUME NEW w \in Run, PassOK(run[w]), Keeps, run[w].list # {},
           run'[w].pc \in {"holding", "folder", "conflict"}, run'[w].list = run[w].list
    PROVE  PassOK(run[w])'
BY DEF PassOK, PlaceOK, HeldOK, Resting, Acting, Writing, Keeps

(* A pass that goes on with its group: the rest of the group was read, and *)
(* an outcome to report of a flag is one that was noted.                   *)
Reported(w) ==
    LET a == Cur(run[w])
        m == TargetOf(run[w]) IN
    ~IsMove(a) =>
        /\ run'[w].pc \in {"settle", "receipt"} /\ run'[w].out.status = "confirmed"
              => m \in held'[a]
        /\ run'[w].pc = "readback" /\ run'[w].out.status = "accepted" =>
              \/ m \in held'[a]
              \/ Condstore /\ item[a][m].modseq # 0
              \/ ~server[m].present

LEMMA OnwardPass ==
    ASSUME Counted, NEW w \in Run, PassOK(run[w]), RunOK(run[w]), Keeps,
           run[w].pc \in {"item"} \cup Acting, run'[w].pc \in {"item"} \cup Acting,
           run'[w].list = run[w].list, run'[w].folder = run[w].folder,
           run'[w].remote = run[w].remote, run'[w].selected = run[w].selected,
           run'[w].todo \subseteq run[w].todo,
           run'[w].pc # "item" => run'[w].todo = run[w].todo /\ GroupOf(run[w]) # {},
           Reported(w)
    PROVE  PassOK(run[w])'
<1>1. Cur(run[w]) \in Action /\ action[Cur(run[w])].status # "none"
    BY CurIsSubmitted DEF PassOK, Resting, Acting, Writing
<1>2. Cur(run[w])' = Cur(run[w]) /\ GroupOf(run[w])' \subseteq GroupOf(run[w])
    BY DEF Cur, GroupOf
<1>3. run'[w].pc # "item" =>
          /\ TargetOf(run[w])' = TargetOf(run[w]) /\ GroupOf(run[w])' = GroupOf(run[w])
          /\ TargetOf(run[w]) \in Message
    BY TargetIsIn DEF TargetOf, GroupOf, RunOK
<1>4. run[w].list # {}
    BY DEF PassOK, PlaceOK, Resting, Acting, Writing
<1>5. PlaceOK(run[w])'
    BY <1>3, <1>4 DEF PassOK, PlaceOK, Keeps, Resting, Acting, Writing
<1>6. IsMove(Cur(run[w]))' = IsMove(Cur(run[w]))
    BY <1>1, <1>2 DEF Keeps, IsMove
<1>7. HeldOK(run[w])'
    <2>1. SUFFICES ASSUME ~IsMove(Cur(run[w]))'
                   PROVE  HeldOK(run[w])'
        BY DEF HeldOK
    <2>2. ~IsMove(Cur(run[w]))
        BY <1>6, <2>1
    <2>3. (run[w].selected = 1 =>
              \A n \in GroupOf(run[w]) :
                  run[w].remote[n].present
                  /\ run[w].remote[n].flag = Desired(action[Cur(run[w])].kind)
                      => n \in held[Cur(run[w])])
        BY <2>2 DEF PassOK, HeldOK
    <2>4. (run'[w].selected = 1 =>
              \A n \in GroupOf(run[w])' :
                  run'[w].remote[n].present
                  /\ run'[w].remote[n].flag = Desired(action'[Cur(run[w])].kind)
                      => n \in held'[Cur(run[w])])
        BY <1>1, <1>2, <2>3 DEF Keeps
    <2>5. \A m \in Message : /\ item'[Cur(run[w])][m].modseq = item[Cur(run[w])][m].modseq
                             /\ server'[m].present => server[m].present
        BY <1>1 DEF Keeps
    <2>6. QED BY <1>2, <1>3, <2>2, <2>4, <2>5 DEF HeldOK, Reported, Acting, Writing
<1>8. QED BY <1>5, <1>7 DEF PassOK

LEMMA Names ==
    ASSUME NEW w
    PROVE  /\ Current(w) = Cur(run[w]) /\ Group(w) = GroupOf(run[w])
           /\ Target(w) = TargetOf(run[w])
BY DEF Current, Cur, Group, GroupOf, Target, TargetOf

-----------------------------------------------------------------------------
(* The invariant of one step, put together.                                *)
FlagInv == PlaceInv /\ HeldInv

LEMMA PassFlags ==
    ASSUME Counted, IInv, FlagInv, NEW w \in Run, Frames,
           \A v \in Run : v # w => run'[v] = run[v],
           PassOK(run[w])', ConfirmedFlagWasHeld'
    PROVE  FlagInv' /\ Keeps
<1>1. \A v \in Run : PassOK(run[v])'
    <2>1. SUFFICES ASSUME NEW v \in Run, v # w PROVE PassOK(run[v])'
        OBVIOUS
    <2>2. PassOK(run[v]) /\ RunOK(run[v])
        BY DEF FlagInv, PlaceInv, HeldInv, PassOK, IInv, RunsOK
    <2>3. QED BY <2>1, <2>2, OtherPass DEF Frames
<1>2. QED BY <1>1 DEF FlagInv, PlaceInv, HeldInv, PassOK, Frames

LEMMA StillFlags ==
    ASSUME Counted, IInv, FlagInv, Frames, UNCHANGED run, ConfirmedFlagWasHeld'
    PROVE  FlagInv' /\ Keeps
<1>1. \A v \in Run : PassOK(run[v])'
    <2>1. SUFFICES ASSUME NEW v \in Run PROVE PassOK(run[v])'
        OBVIOUS
    <2>2. PassOK(run[v]) /\ RunOK(run[v])
        BY DEF FlagInv, PlaceInv, HeldInv, PassOK, IInv, RunsOK
    <2>3. QED BY <2>2, OtherPass DEF Frames
<1>2. QED BY <1>1 DEF FlagInv, PlaceInv, HeldInv, PassOK, Frames

(* No new confirmation.                                                    *)
LEMMA NoneConfirmed ==
    ASSUME RowsInv, ConfirmedFlagWasHeld, Keeps,
           \A a \in Action, m \in Message :
               item'[a][m].status = "confirmed" => item[a][m].status = "confirmed"
    PROVE  ConfirmedFlagWasHeld'
BY DEF RowsInv, NoneAbsent, ConfirmedFlagWasHeld, Keeps, IsMove

LEMMA ReceivedConfirmed ==
    ASSUME ConfirmedFlagWasHeld, NEW a, NEW m, NEW out, Receives(a, m, out),
           a \in Action /\ m \in Message /\ ~IsMove(a) /\ out.status = "confirmed"
               => m \in held[a]
    PROVE  ConfirmedFlagWasHeld'
BY DEF ConfirmedFlagWasHeld, Receives, IsMove

(* What a pass holds of its current action and target.                     *)
LEMMA PassFacts ==
    ASSUME Counted, IInv, FlagInv, NEW w \in Run
    PROVE  /\ PassOK(run[w]) /\ RunOK(run[w]) /\ DOMAIN run = Run
           /\ DOMAIN run[w] = RunFields /\ RowsInv /\ OutsideShape
           /\ ConfirmedFlagWasHeld /\ HeldNow
           /\ run[w].pc \notin Resting =>
                 /\ Cur(run[w]) \in Action /\ action[Cur(run[w])].status # "none"
                 /\ run[w].list # {}
           /\ GroupOf(run[w]) # {} =>
                 /\ TargetOf(run[w]) \in GroupOf(run[w]) /\ TargetOf(run[w]) \in Message
                 /\ FolderOf[TargetOf(run[w])] = run[w].folder
           /\ run[w].pc \in Acting => GroupOf(run[w]) # {}
<1>1. PassOK(run[w]) /\ RunOK(run[w])
    BY DEF FlagInv, PlaceInv, HeldInv, PassOK, IInv, RunsOK
<1>2. run[w].pc \notin Resting =>
          Cur(run[w]) \in Action /\ action[Cur(run[w])].status # "none" /\ run[w].list # {}
    BY <1>1, CurIsSubmitted DEF PassOK, PlaceOK
<1>3. GroupOf(run[w]) # {} =>
          /\ TargetOf(run[w]) \in GroupOf(run[w]) /\ TargetOf(run[w]) \in Message
          /\ FolderOf[TargetOf(run[w])] = run[w].folder
    BY <1>1, TargetIsIn DEF RunOK
<1>4. QED BY <1>1, <1>2, <1>3 DEF FlagInv, PlaceInv, HeldInv, PassOK, PlaceOK,
                                  RunOK, IInv, RunsOK

(* The steps between two actions, and those that load one.                 *)
LEMMA RestFlags ==
    ASSUME Counted, IInv, FlagInv, NEW w \in Run, Frames,
           \/ run' = [run EXCEPT ![w] = Idle]
           \/ Leaves(w)
           \/ run' = [run EXCEPT ![w].pc = "next",
                        ![w].list = {a \in Due : Cardinality({b \in Due : b < a}) < Limit}],
           ConfirmedFlagWasHeld'
    PROVE  FlagInv' /\ Keeps
<1>1. PassOK(run[w]) /\ DOMAIN run = Run /\ DOMAIN run[w] = RunFields
    BY PassFacts
<1>2. /\ \A v \in Run : v # w => run'[v] = run[v]
      /\ run'[w].pc \in Resting /\ run'[w].list \subseteq run[w].list \cup Due
    <2>1. CASE run' = [run EXCEPT ![w] = Idle]
        BY <1>1, <2>1 DEF Idle, Resting
    <2>2. CASE Leaves(w)
        <3> DEFINE list == run[w].list \ {Current(w)}
                   q == [Idle EXCEPT !.pc = "next", !.list = list]
        <3>1. run' = [run EXCEPT ![w] = q]
            BY <2>2 DEF Leaves
        <3>2. list \subseteq run[w].list
            OBVIOUS
        <3> HIDE DEF list
        <3>3. q.pc = "next" /\ q.list = list
            BY DEF Idle
        <3> HIDE DEF q
        <3>4. QED BY <1>1, <3>1, <3>2, <3>3 DEF Resting
    <2>3. ASSUME run' = [run EXCEPT ![w].pc = "next",
                        ![w].list = {a \in Due : Cardinality({b \in Due : b < a}) < Limit}]
          PROVE  /\ \A v \in Run : v # w => run'[v] = run[v]
                 /\ run'[w].pc \in Resting /\ run'[w].list \subseteq run[w].list \cup Due
        <3> DEFINE list == {a \in Due : Cardinality({b \in Due : b < a}) < Limit}
        <3>1. list \subseteq Due
            OBVIOUS
        <3>2. run' = [run EXCEPT ![w].pc = "next", ![w].list = list]
            BY <2>3
        <3> HIDE DEF list
        <3>3. QED BY <1>1, <3>1, <3>2 DEF Resting, RunFields
    <2>4. QED BY <2>1, <2>2, <2>3
<1>3. run[w].list \cup Due \subseteq {a \in Action : action'[a].status # "none"}
    BY <1>1 DEF PassOK, PlaceOK, Due, Pending, Frames, Keeps
<1>4. PassOK(run[w])'
    BY <1>2, <1>3, RestingPass
<1>5. QED BY <1>2, <1>4, PassFlags

LEMMA LoadFlags ==
    ASSUME Counted, IInv, FlagInv, NEW w \in Run, Frames, run[w].list # {},
           run'[w].pc \in {"holding", "folder", "conflict"}, run'[w].list = run[w].list,
           \A v \in Run : v # w => run'[v] = run[v],
           ConfirmedFlagWasHeld'
    PROVE  FlagInv' /\ Keeps
<1>1. PassOK(run[w])
    BY PassFacts
<1>2. PassOK(run[w])'
    BY <1>1, LoadingPass DEF Frames
<1>3. QED BY <1>2, PassFlags

-----------------------------------------------------------------------------
(* The actions of a pass.                                                  *)
LEMMA QuietKeeps ==
    ASSUME IInv, FlagInv, Quiet
    PROVE  Frames /\ ConfirmedFlagWasHeld'
<1>1. OutsideShape /\ RowsInv /\ ConfirmedFlagWasHeld
    BY DEF FlagInv, PlaceInv, HeldInv, IInv
<1>2. Frames
    BY <1>1, QuietFrames
<1>3. QED BY <1>1, <1>2, NoneConfirmed DEF Frames, Quiet

LEMMA WalkFlags ==
    ASSUME Counted, IInv, FlagInv, NEW w \in Run,
           \/ StartPass(w) \/ ExecuteNext(w) \/ ReloadPending(w) \/ GroupDone(w) \/ Crash(w)
    PROVE  FlagInv' /\ Keeps
<1>1. Frames /\ ConfirmedFlagWasHeld'
    <2>1. Quiet
        BY DEF StartPass, ExecuteNext, ReloadPending, GroupDone, Crash, Quiet, rows, ghosts
    <2>2. QED BY <2>1, QuietKeeps
<1>2. DOMAIN run = Run /\ DOMAIN run[w] = RunFields
    BY PassFacts
<1>3. CASE StartPass(w) \/ Crash(w)
    BY <1>1, <1>3, RestFlags DEF StartPass, Crash
<1>4. CASE ExecuteNext(w)
    <2> DEFINE todo == Holdable(Current(w))
    <2>1. \/ run' = [run EXCEPT ![w] = Idle] \/ Leaves(w)
          \/ /\ run[w].list # {}
             /\ run' = [run EXCEPT ![w].pc = "holding", ![w].todo = todo]
        BY <1>4 DEF ExecuteNext
    <2> HIDE DEF todo
    <2>2. CASE /\ run[w].list # {}
               /\ run' = [run EXCEPT ![w].pc = "holding", ![w].todo = todo]
        <3>1. /\ run'[w].pc = "holding" /\ run'[w].list = run[w].list
              /\ \A v \in Run : v # w => run'[v] = run[v]
            BY <1>2, <2>2 DEF RunFields
        <3>2. QED BY <1>1, <2>2, <3>1, LoadFlags
    <2>3. QED BY <1>1, <2>1, <2>2, RestFlags
<1>5. CASE ReloadPending(w) \/ GroupDone(w)
    <2>1. run[w].pc \notin Resting
        BY <1>5 DEF ReloadPending, GroupDone, At, Resting
    <2>2. run[w].list # {}
        BY <2>1, PassFacts
    <2>3. /\ run'[w].pc = "folder" /\ run'[w].list = run[w].list
          /\ \A v \in Run : v # w => run'[v] = run[v]
        <3>1. CASE ReloadPending(w)
            <4> DEFINE todo == {m \in Message : item[Current(w)][m].status \in Pending}
                       was == {m \in Message : item[Current(w)][m].status = "executing"}
            <4>1. run' = [run EXCEPT ![w].pc = "folder", ![w].todo = todo, ![w].was = was]
                BY <3>1 DEF ReloadPending
            <4> HIDE DEF todo, was
            <4>2. QED BY <1>2, <4>1 DEF RunFields
        <3>2. CASE GroupDone(w)
            <4> DEFINE remote == Idle.remote
            <4>1. run' = [run EXCEPT ![w].pc = "folder", ![w].folder = NoFolder,
                                     ![w].selected = 0, ![w].remote = remote]
                BY <3>2 DEF GroupDone
            <4> HIDE DEF remote
            <4>2. QED BY <1>2, <4>1 DEF RunFields
        <3>3. QED BY <1>5, <3>1, <3>2
    <2>4. QED BY <1>1, <2>2, <2>3, LoadFlags
<1>6. QED BY <1>3, <1>4, <1>5

LEMMA FinishFlags ==
    ASSUME Counted, IInv, FlagInv, NEW w \in Run, Finish(w)
    PROVE  FlagInv' /\ Keeps
<1> DEFINE a == Current(w)
<1>1. /\ a \in Action /\ action[a].status # "none" /\ RowsInv /\ OutsideShape
      /\ ConfirmedFlagWasHeld
    BY PassFacts, Names DEF Finish, At, Resting
<1>2. /\ action' = [action EXCEPT ![a].status = Finalized(a, item[a])]
      /\ UNCHANGED <<item, server, held, issued, moved>> /\ Leaves(w)
    BY DEF Finish, ghosts
<1>3. \A b \in Action : /\ action'[b].kind = action[b].kind
                        /\ action[b].status # "none" <=> action'[b].status # "none"
    BY <1>1, <1>2, FinalizedOK DEF RowsInv, RowsShape
<1>4. Frames
    BY <1>1, <1>2, <1>3 DEF Frames, Keeps, OutsideShape, HeldNow
<1>5. ConfirmedFlagWasHeld'
    BY <1>1, <1>2, <1>4, NoneConfirmed DEF Frames
<1>6. QED BY <1>2, <1>4, <1>5, RestFlags

(* A folder group is read where the wanted flag of every message is noted. *)
LEMMA SelectFlags ==
    ASSUME Counted, IInv, FlagInv, NEW w \in Run, SelectFolder(w)
    PROVE  FlagInv' /\ Keeps
<1> DEFINE f == FolderOf[Least(run[w].todo)]
           remote == [m \in Message |->
                        IF m \in run[w].todo /\ FolderOf[m] = f THEN Seen(m) ELSE Unseen]
           pc == IF mailbox[f] = validity[f] THEN "item" ELSE "conflict"
<1>1. Frames /\ ConfirmedFlagWasHeld'
    <2>1. Quiet
        BY DEF SelectFolder, Quiet, rows, ghosts
    <2>2. QED BY <2>1, QuietKeeps
<1>2. /\ DOMAIN run = Run /\ DOMAIN run[w] = RunFields /\ run[w].pc = "folder"
      /\ PassOK(run[w]) /\ HeldNow /\ RunOK(run[w])
    BY PassFacts DEF SelectFolder, At
<1>3. /\ Cur(run[w]) \in Action /\ action[Cur(run[w])].status # "none" /\ run[w].list # {}
    BY <1>2, PassFacts DEF Resting
<1>4. CASE run' = [run EXCEPT ![w] = Idle]
    BY <1>1, <1>4, RestFlags
<1>5. CASE run' = [run EXCEPT ![w].pc = pc, ![w].folder = f,
                              ![w].selected = mailbox[f], ![w].remote = remote]
    <2>1. pc \in {"item", "conflict"}
        OBVIOUS
    <2>2. ASSUME NEW m \in Message, FolderOf[m] = f, mailbox[f] = 1
          PROVE  remote[m].present => remote[m].flag = server[m].flag
        BY <2>2 DEF Seen, Unseen
    <2> HIDE DEF pc, remote, f
    <2>3. /\ \A v \in Run : v # w => run'[v] = run[v]
          /\ run'[w].pc = pc /\ run'[w].list = run[w].list /\ run'[w].todo = run[w].todo
          /\ run'[w].folder = f /\ run'[w].selected = mailbox[f] /\ run'[w].remote = remote
        BY <1>2, <1>5 DEF RunFields
    <2>4. CASE pc = "conflict"
        BY <1>1, <1>3, <2>3, <2>4, LoadFlags
    <2>5. CASE pc = "item"
        <3>1. PlaceOK(run[w])'
            BY <1>1, <1>2, <1>3, <2>3, <2>5
               DEF PassOK, PlaceOK, Frames, Keeps, Acting, Writing
        <3>2. run'[w].selected = 1 =>
                  \A n \in GroupOf(run'[w]) :
                      run'[w].remote[n].present
                      /\ run'[w].remote[n].flag = Desired(action[Cur(run[w])].kind)
                          => n \in held[Cur(run[w])]
            BY <1>2, <1>3, <2>2, <2>3 DEF GroupOf, HeldNow, RunOK
        <3>3. action'[Cur(run[w])].kind = action[Cur(run[w])].kind /\ held' = held
            BY DEF SelectFolder, rows, ghosts
        <3>4. Cur(run[w])' = Cur(run[w]) /\ GroupOf(run[w])' = GroupOf(run'[w])
            BY <2>3 DEF Cur, GroupOf
        <3>5. HeldOK(run[w])'
            BY <2>3, <2>5, <3>2, <3>3, <3>4 DEF HeldOK
        <3>6. QED BY <1>1, <2>3, <3>1, <3>5, PassFlags DEF PassOK
    <2>6. QED BY <2>1, <2>4, <2>5
<1>6. QED BY <1>4, <1>5 DEF SelectFolder, Throws

(* The receipts written before a target is worked on.                      *)
LEMMA HoldFlags ==
    ASSUME Counted, IInv, FlagInv, NEW w \in Run, HoldInterrupted(w) \/ ConflictRest(w)
    PROVE  FlagInv' /\ Keeps
<1> DEFINE held0 == Answer("unknown", "interrupted", Unseen, FALSE)
<1>1. held0.status # "confirmed" /\ Conflict("none", Unseen).status # "confirmed"
    BY DEF Answer, Conflict
<1>2. /\ UNCHANGED <<held, server, issued, moved>>
      /\ run[w].pc \in {"holding", "conflict"}
    BY DEF HoldInterrupted, ConflictRest, ghosts, At
<1>3. /\ DOMAIN run = Run /\ DOMAIN run[w] = RunFields /\ run[w].list # {}
      /\ RowsInv /\ OutsideShape /\ ConfirmedFlagWasHeld
      /\ Current(w) \in Action /\ action[Current(w)].status # "none"
    BY <1>2, PassFacts, Names DEF Resting
<1> HIDE DEF held0
<1>4. \E m, out : out.status # "confirmed" /\ CommitDisposition(Current(w), m, out, FALSE)
    BY <1>1 DEF HoldInterrupted, ConflictRest, held0
<1>5. Frames /\ ConfirmedFlagWasHeld'
    BY <1>2, <1>3, <1>4, ReceivingFrames, ReceivedConfirmed
<1>6. /\ run'[w].pc \in {"holding", "conflict"} /\ run'[w].list = run[w].list
      /\ \A v \in Run : v # w => run'[v] = run[v]
    <2>1. CASE HoldInterrupted(w)
        <3> DEFINE todo == run[w].todo \ {Least(run[w].todo)}
        <3>1. run' = [run EXCEPT ![w].todo = todo]
            BY <2>1 DEF HoldInterrupted
        <3> HIDE DEF todo
        <3>2. QED BY <1>2, <1>3, <3>1 DEF RunFields
    <2>2. CASE ConflictRest(w)
        <3> DEFINE todo == run[w].todo \ {Target(w)}
        <3>1. run' = [run EXCEPT ![w].pc = "conflict", ![w].out = Nothing, ![w].todo = todo]
            BY <2>2 DEF ConflictRest, Advance
        <3> HIDE DEF todo
        <3>2. QED BY <1>3, <3>1 DEF RunFields
    <2>3. QED BY <2>1, <2>2
<1>7. QED BY <1>3, <1>5, <1>6, LoadFlags

(* A target left behind: the pass goes on to the next of the group.        *)
LEMMA AdvanceFlags ==
    ASSUME Counted, IInv, FlagInv, NEW w \in Run, run[w].pc \in Acting,
           Advance(w, "item"), Frames, ConfirmedFlagWasHeld'
    PROVE  FlagInv' /\ Keeps
<1> DEFINE todo == run[w].todo \ {Target(w)}
<1>1. /\ DOMAIN run = Run /\ DOMAIN run[w] = RunFields /\ PassOK(run[w]) /\ RunOK(run[w])
    BY PassFacts
<1>2. run' = [run EXCEPT ![w].pc = "item", ![w].out = Nothing, ![w].todo = todo]
    BY DEF Advance
<1>3. todo \subseteq run[w].todo
    OBVIOUS
<1> HIDE DEF todo
<1>4. /\ \A v \in Run : v # w => run'[v] = run[v]
      /\ run'[w].pc = "item" /\ run'[w].list = run[w].list /\ run'[w].todo = todo
      /\ run'[w].folder = run[w].folder /\ run'[w].remote = run[w].remote
      /\ run'[w].selected = run[w].selected
    BY <1>1, <1>2 DEF RunFields
<1>5. Reported(w)
    BY <1>4 DEF Reported
<1>6. PassOK(run[w])'
    BY <1>1, <1>3, <1>4, <1>5, OnwardPass DEF Frames
<1>7. QED BY <1>4, <1>6, PassFlags

LEMMA ReceiptFlags ==
    ASSUME Counted, IInv, FlagInv, NEW w \in Run, Settle(w) \/ Receipt(w)
    PROVE  FlagInv' /\ Keeps
<1>1. /\ UNCHANGED <<held, server, issued, moved>>
      /\ run[w].pc \in {"settle", "receipt"} /\ Advance(w, "item")
      /\ \E hold : CommitDisposition(Current(w), Target(w), run[w].out, hold)
    BY DEF Settle, Receipt, ghosts, At
<1>2. /\ RowsInv /\ OutsideShape /\ ConfirmedFlagWasHeld /\ PassOK(run[w])
      /\ action[Current(w)].status # "none" /\ run[w].pc \in Acting
    BY <1>1, PassFacts, Names DEF Resting, Acting, Writing
<1>3. ~IsMove(Current(w)) /\ run[w].out.status = "confirmed" => Target(w) \in held[Current(w)]
    BY <1>1, <1>2, Names DEF PassOK, HeldOK
<1>4. Frames /\ ConfirmedFlagWasHeld'
    BY <1>1, <1>2, <1>3, ReceivingFrames, ReceivedConfirmed
<1>5. QED BY <1>1, <1>2, <1>4, AdvanceFlags

LEMMA ClaimFlags ==
    ASSUME Counted, IInv, FlagInv, NEW w \in Run, ClaimItem(w)
    PROVE  FlagInv' /\ Keeps
<1> DEFINE a == Current(w)
           m == Target(w)
<1>1. /\ UNCHANGED <<action, server, held, issued, moved>> /\ run[w].pc = "claim"
      /\ \/ item' = item
         \/ item' = [item EXCEPT ![a][m].status = "executing"]
    BY DEF ClaimItem, ghosts, At
<1>2. /\ DOMAIN run = Run /\ DOMAIN run[w] = RunFields /\ PassOK(run[w]) /\ RunOK(run[w])
      /\ RowsInv /\ OutsideShape /\ ConfirmedFlagWasHeld /\ GroupOf(run[w]) # {}
    BY <1>1, PassFacts DEF Acting, Writing
<1> HIDE DEF a, m
<1>3. \A b \in Action, n \in Message :
          /\ item'[b][n].modseq = item[b][n].modseq
          /\ item'[b][n].status = "confirmed" => item[b][n].status = "confirmed"
    <2>1. CASE item' = item
        BY <2>1
    <2>2. CASE item' = [item EXCEPT ![a][m].status = "executing"]
        <3>1. \A b \in Action, n \in Message : b # a \/ n # m => item'[b][n] = item[b][n]
            BY <1>2, <2>2 DEF RowsInv, RowsShape
        <3>2. a \in Action /\ m \in Message =>
                  item'[a][m].status = "executing" /\ item'[a][m].modseq = item[a][m].modseq
            BY <1>2, <2>2 DEF RowsInv, RowsShape
        <3>3. QED BY <3>1, <3>2
    <2>3. QED BY <1>1, <2>1, <2>2
<1>4. Frames
    BY <1>1, <1>2, <1>3 DEF Frames, Keeps, OutsideShape, HeldNow
<1>5. ConfirmedFlagWasHeld'
    BY <1>2, <1>3, <1>4, NoneConfirmed DEF Frames
<1>6. \/ Advance(w, "item") \/ Leaves(w) \/ run' = [run EXCEPT ![w].pc = "apply"]
    BY DEF ClaimItem
<1>7. CASE run' = [run EXCEPT ![w].pc = "apply"]
    <2>1. /\ \A v \in Run : v # w => run'[v] = run[v]
          /\ run'[w].pc = "apply" /\ run'[w].list = run[w].list
          /\ run'[w].todo = run[w].todo /\ run'[w].folder = run[w].folder
          /\ run'[w].remote = run[w].remote /\ run'[w].selected = run[w].selected
        BY <1>2, <1>7 DEF RunFields
    <2>2. Reported(w)
        BY <2>1 DEF Reported
    <2>3. PassOK(run[w])'
        BY <1>1, <1>2, <1>4, <2>1, <2>2, OnwardPass DEF Frames, Acting, Writing
    <2>4. QED BY <1>4, <1>5, <2>1, <2>3, PassFlags
<1>8. QED BY <1>1, <1>4, <1>5, <1>6, <1>7, AdvanceFlags, RestFlags DEF Acting, Writing

(* A flag found on the server as wanted was noted; in a folder numbered    *)
(* anew the hub has invalidated the target, and reports a conflict.        *)
LEMMA InspectFlags ==
    ASSUME Counted, IInv, FlagInv, NEW w \in Run, Inspect(w)
    PROVE  FlagInv' /\ Keeps
<1> DEFINE a == Current(w)
           m == Target(w)
           out == Verdict(a, m, run[w].remote[m])
           pc == IF ~Revalidated(w) THEN "conflict"
                 ELSE IF out = Nothing THEN "claim" ELSE "settle"
           answer == IF Revalidated(w) THEN out ELSE Nothing
           selected == mailbox[run[w].folder]
<1>1. Frames /\ ConfirmedFlagWasHeld'
    <2>1. Quiet
        BY DEF Inspect, Quiet, rows, ghosts
    <2>2. QED BY <2>1, QuietKeeps
<1>2. run[w].pc = "item" /\ GroupOf(run[w]) # {}
    BY Names DEF Inspect, At
<1>3. /\ DOMAIN run = Run /\ DOMAIN run[w] = RunFields /\ PassOK(run[w]) /\ RunOK(run[w])
      /\ RowsInv /\ run[w].list # {}
      /\ m \in GroupOf(run[w]) /\ m \in Message /\ FolderOf[m] = run[w].folder
      /\ a = Cur(run[w]) /\ m = TargetOf(run[w])
    BY <1>2, PassFacts, Names DEF Resting
<1>4. CASE Throws(w)
    BY <1>1, <1>4, RestFlags DEF Throws
<1>5. CASE run' = [run EXCEPT ![w].selected = selected, ![w].pc = pc, ![w].out = answer]
    <2>1. /\ pc \in {"conflict", "claim", "settle"}
          /\ pc # "conflict" => selected = run[w].selected /\ answer = out
        BY DEF Revalidated
    <2>2. ~IsMove(a) /\ out.status = "confirmed" => m \in held[a]
        <3>1. SUFFICES ASSUME ~IsMove(a), out.status = "confirmed" PROVE m \in held[a]
            OBVIOUS
        <3>2. /\ run[w].remote[m].present /\ ~local[m].invalidated
              /\ run[w].remote[m].flag = Desired(action[a].kind)
            <4>1. Conflict("none", Unseen).status = "conflicted" /\ Nothing.status = "none"
                BY AnswerStatus DEF Conflict, Nothing
            <4>2. out # Conflict("none", Unseen) /\ out # Nothing
                BY <3>1, <4>1
            <4>3. QED BY <4>2 DEF Verdict
        <3>3. run[w].selected = 1
            <4>1. SUFFICES ASSUME run[w].selected # 1 PROVE FALSE
                OBVIOUS
            <4>2. validity[FolderOf[m]] = 2
                BY <1>2, <1>3, <4>1 DEF RunOK
            <4>3. QED BY <1>3, <3>2, <4>2 DEF RowsInv, ResetInvalidates
        <3>4. QED BY <1>2, <1>3, <3>1, <3>2, <3>3 DEF PassOK, HeldOK
    <2> HIDE DEF pc, answer, selected, out, a, m
    <2>3. /\ \A v \in Run : v # w => run'[v] = run[v]
          /\ run'[w].pc = pc /\ run'[w].out = answer /\ run'[w].selected = selected
          /\ run'[w].list = run[w].list /\ run'[w].todo = run[w].todo
          /\ run'[w].folder = run[w].folder /\ run'[w].remote = run[w].remote
        BY <1>3, <1>5 DEF RunFields
    <2>4. CASE pc = "conflict"
        BY <1>1, <1>3, <2>3, <2>4, LoadFlags
    <2>5. CASE pc # "conflict"
        <3>1. Reported(w)
            <4>1. held' = held
                BY DEF Inspect, ghosts
            <4>2. QED BY <1>3, <2>1, <2>2, <2>3, <2>5, <4>1 DEF Reported
        <3>2. PassOK(run[w])'
            BY <1>1, <1>2, <1>3, <2>1, <2>3, <2>5, <3>1, OnwardPass
               DEF Frames, Acting, Writing
        <3>3. QED BY <1>1, <2>3, <3>2, PassFlags
    <2>6. QED BY <2>4, <2>5
<1>6. QED BY <1>4, <1>5 DEF Inspect

-----------------------------------------------------------------------------
(* The commands.                                                           *)
LEMMA AnswerFields ==
    ASSUME NEW w \in Run, DOMAIN run = Run, DOMAIN run[w] = RunFields, NEW pc, NEW out,
           Answers(w, pc, out)
    PROVE  /\ \A v \in Run : v # w => run'[v] = run[v]
           /\ run'[w].pc = pc /\ run'[w].out = out /\ run'[w].list = run[w].list
           /\ run'[w].todo = run[w].todo /\ run'[w].folder = run[w].folder
           /\ run'[w].remote = run[w].remote /\ run'[w].selected = run[w].selected
BY DEF Answers, RunFields

LEMMA AnswerFlags ==
    ASSUME Counted, IInv, FlagInv, NEW w \in Run, Frames, ConfirmedFlagWasHeld',
           run[w].pc \in Writing, NEW pc \in {"readback", "receipt"}, NEW out,
           Answers(w, pc, out),
           ~IsMove(Cur(run[w])) =>
              LET a == Cur(run[w])
                  m == TargetOf(run[w])
              IN  /\ pc = "receipt" /\ out.status = "confirmed" => m \in held'[a]
                  /\ pc = "readback" /\ out.status = "accepted" =>
                        \/ m \in held'[a]
                        \/ Condstore /\ item[a][m].modseq # 0
                        \/ ~server[m].present
    PROVE  FlagInv' /\ Keeps
<1>1. /\ DOMAIN run = Run /\ DOMAIN run[w] = RunFields /\ PassOK(run[w]) /\ RunOK(run[w])
      /\ GroupOf(run[w]) # {}
    BY PassFacts DEF Acting, Writing
<1>2. /\ \A v \in Run : v # w => run'[v] = run[v]
      /\ run'[w].pc = pc /\ run'[w].out = out /\ run'[w].list = run[w].list
      /\ run'[w].todo = run[w].todo /\ run'[w].folder = run[w].folder
      /\ run'[w].remote = run[w].remote /\ run'[w].selected = run[w].selected
    BY <1>1, AnswerFields
<1>3. Reported(w)
    BY <1>2 DEF Reported
<1>4. PassOK(run[w])'
    BY <1>1, <1>2, <1>3, OnwardPass DEF Frames, Acting, Writing
<1>5. QED BY <1>2, <1>4, PassFlags

LEMMA UnavailableFlags ==
    ASSUME Counted, IInv, FlagInv, NEW w \in Run, Unavailable(w)
    PROVE  FlagInv' /\ Keeps
<1>1. Quiet
    BY DEF Unavailable, Quiet, rows, ghosts
<1>2. Frames /\ ConfirmedFlagWasHeld'
    BY <1>1, QuietKeeps
<1>3. Failed.status = "failed"
    BY AnswerStatus DEF Failed
<1>4. Answers(w, "receipt", Failed) /\ run[w].pc \in Writing
    BY DEF Unavailable, At, Writing
<1>5. QED BY <1>2, <1>3, <1>4, AnswerFlags

LEMMA ApplyMoveFlags ==
    ASSUME Counted, IInv, FlagInv, NEW w \in Run, ApplyMove(w)
    PROVE  FlagInv' /\ Keeps
<1> DEFINE a == Current(w)
           m == Target(w)
<1>1. /\ UNCHANGED <<action, item, held>> /\ run[w].pc \in Writing
      /\ issued' = [issued EXCEPT ![a][m] = @ + 1]
      /\ \/ /\ server' = [server EXCEPT ![m].present = FALSE]
            /\ moved' = [moved EXCEPT ![m] = a]
         \/ UNCHANGED <<server, moved>>
      /\ \E out : Answers(w, "receipt", out)
    BY DEF ApplyMove, rows, At, Writing
<1>2. /\ OutsideShape /\ RowsInv /\ ConfirmedFlagWasHeld /\ HeldNow /\ m \in Message
      /\ a = Cur(run[w])
    BY <1>1, PassFacts, Names DEF Acting
<1>3. IsMove(Cur(run[w]))
    BY Names DEF ApplyMove, Kind, IsMove
<1> HIDE DEF a, m
<1>4. /\ DOMAIN moved' = Message /\ DOMAIN issued' = Action
      /\ \A b \in Action : DOMAIN issued'[b] = Message
    BY <1>1, <1>2 DEF OutsideShape
<1>5. Frames
    <2>1. CASE server' = [server EXCEPT ![m].present = FALSE]
        BY <1>1, <1>2, <1>4, <2>1, RemovedFrames
    <2>2. CASE UNCHANGED server
        BY <1>1, <1>2, <1>4, <2>2 DEF Frames, Keeps, OutsideShape, HeldNow
    <2>3. QED BY <1>1, <2>1, <2>2
<1>6. ConfirmedFlagWasHeld'
    BY <1>1, <1>2, <1>5, NoneConfirmed DEF Frames
<1>7. QED BY <1>1, <1>3, <1>5, <1>6, AnswerFlags

(* A write that was accepted set the flag, was conditional, or found the   *)
(* message gone: what it set was noted.                                    *)
LEMMA WriteFlagFlags ==
    ASSUME Counted, IInv, FlagInv, NEW w \in Run, WriteFlag(w)
    PROVE  FlagInv' /\ Keeps
<1> DEFINE a == Current(w)
           m == Target(w)
           value == Desired(Kind(w))
           modseq == IF server[m].flag = value THEN server[m].modseq
                     ELSE server[m].modseq + 1
           set == [server EXCEPT ![m].flag = value, ![m].modseq = modseq]
<1>1. /\ UNCHANGED <<action, item, issued, moved, mailbox>> /\ run[w].pc \in Writing
      /\ NoteFlags
    BY DEF WriteFlag, rows, env, At, Writing
<1>2. /\ OutsideShape /\ RowsInv /\ ConfirmedFlagWasHeld /\ HeldNow /\ m \in Message
      /\ a = Cur(run[w]) /\ m = TargetOf(run[w]) /\ FolderOf[m] = run[w].folder
      /\ a \in Action /\ action[a].status # "none" /\ run[w].selected = 1
    BY <1>1, PassFacts, Names DEF Acting, Writing, Resting, RunOK
<1>3. \/ /\ server' = set
         /\ Write(w, "accepted") \/ Answers(w, "receipt", Lost)
      \/ /\ UNCHANGED server
         /\ \/ Write(w, "rejected")
            \/ Answers(w, "receipt", Lost)
            \/ Reaches(w) /\ ~(Hits(w) /\ Unchanged(w)) /\ Write(w, "accepted")
    BY DEF WriteFlag
<1>4. value = Desired(action[a].kind)
    BY DEF Kind
<1> HIDE DEF a, m, value, modseq
<1>5. server' = set => server'[m].flag = value
    BY <1>2 DEF OutsideShape
<1>6. Frames
    <2>1. /\ DOMAIN server' = Message
          /\ \A n \in Message : /\ DOMAIN server'[n] = {"present", "flag", "modseq"}
                                /\ server'[n].present => server[n].present
        <3>1. server' = set \/ server' = server
            BY <1>3
        <3>2. CASE server' = set
            BY <1>2, <3>2 DEF OutsideShape
        <3>3. QED BY <1>2, <3>1, <3>2 DEF OutsideShape
    <2>2. QED BY <1>1, <1>2, <2>1, NotedFrames
<1>7. ConfirmedFlagWasHeld'
    BY <1>1, <1>2, <1>6, NoneConfirmed DEF Frames
<1>8. Lost.status = "unknown" /\ \A r : Answer(r, "none", Unseen, FALSE).status = r
    BY AnswerStatus DEF Lost
<1>9. CASE Answers(w, "receipt", Lost)
    BY <1>1, <1>6, <1>7, <1>8, <1>9, AnswerFlags
<1>10. CASE Write(w, "rejected")
    BY <1>1, <1>6, <1>7, <1>8, <1>10, AnswerFlags DEF Write
<1>11. CASE Write(w, "accepted")
    <2>1. \/ m \in held'[a]
          \/ Condstore /\ item[a][m].modseq # 0
          \/ ~server[m].present
        <3>1. CASE server' = set
            <4>1. m \in held'[a]
                <5>1. held'[a] = held[a] \cup
                          {n \in Message : server'[n].flag = Desired(action[a].kind)}
                    BY <1>1, <1>2 DEF NoteFlags
                <5>2. server'[m].flag = Desired(action[a].kind)
                    BY <1>4, <1>5, <3>1
                <5>3. QED BY <1>2, <5>1, <5>2
            <4>2. QED BY <4>1
        <3>2. CASE Reaches(w) /\ ~(Hits(w) /\ Unchanged(w))
            <4>1. mailbox[FolderOf[m]] = 1
                BY <1>2, <3>2 DEF Reaches
            <4>2. Hits(w) <=> server[m].present
                BY <3>2, <4>1 DEF Hits, Seen, m
            <4>3. Unchanged(w) \/ (Condstore /\ item[a][m].modseq # 0)
                BY DEF Unchanged, Conditional, a, m
            <4>4. QED BY <3>2, <4>2, <4>3
        <3>3. CASE \/ Write(w, "rejected") \/ Answers(w, "receipt", Lost)
            <4> DEFINE accepted == Answer("accepted", "none", Unseen, FALSE)
                       rejected == Answer("rejected", "none", Unseen, FALSE)
            <4>1. DOMAIN run = Run /\ DOMAIN run[w] = RunFields
                BY PassFacts
            <4>2. accepted.status = "accepted" /\ rejected.status = "rejected"
                BY <1>8
            <4>3. /\ Answers(w, "readback", accepted)
                  /\ \/ Answers(w, "readback", rejected)
                     \/ Answers(w, "receipt", Lost)
                BY <1>11, <3>3 DEF Write
            <4> HIDE DEF accepted, rejected
            <4>4. run'[w].out = accepted
                BY <4>1, <4>3, AnswerFields
            <4>5. run'[w].out = rejected \/ run'[w].out = Lost
                BY <4>1, <4>3, AnswerFields
            <4>6. QED BY <1>8, <4>2, <4>4, <4>5
        <3>4. QED BY <1>3, <3>1, <3>2, <3>3
    <2>2. QED BY <1>1, <1>2, <1>6, <1>7, <1>8, <1>11, <2>1, AnswerFlags DEF Write
<1>12. QED BY <1>3, <1>9, <1>10, <1>11

(* The readback confirms the flag it finds, or an unconditional write that *)
(* set it.                                                                 *)
LEMMA ReadbackFlags ==
    ASSUME Counted, IInv, FlagInv, NEW w \in Run, Readback(w)
    PROVE  FlagInv' /\ Keeps
<1> DEFINE a == Current(w)
           m == Target(w)
           back == Seen(m)
<1>1. Quiet /\ run[w].pc = "readback" /\ run[w].pc \in Writing
    BY DEF Readback, Quiet, rows, ghosts, At, Writing
<1>2. Frames /\ ConfirmedFlagWasHeld'
    BY <1>1, QuietKeeps
<1>3. /\ HeldNow /\ PassOK(run[w]) /\ m \in Message
      /\ a = Cur(run[w]) /\ m = TargetOf(run[w]) /\ FolderOf[m] = run[w].folder
      /\ a \in Action /\ action[a].status # "none" /\ run[w].selected = 1
    BY <1>1, PassFacts, Names DEF Acting, Writing, Resting, RunOK
<1>4. /\ Lost.status = "unknown" /\ Failed.status = "failed"
      /\ \A r, o : Conflict(r, o).status = "conflicted"
    BY AnswerStatus DEF Lost, Failed, Conflict
<1>5. CASE Answers(w, "receipt", Lost)
    BY <1>1, <1>2, <1>4, <1>5, AnswerFlags
<1>6. CASE Reaches(w) /\ Answers(w, "receipt", ReadbackOutcome(w, back))
    <2>1. back = server[m]
        BY <1>3, <1>6 DEF Reaches, Seen
    <2>2. ASSUME ~IsMove(a), ReadbackOutcome(w, back).status = "confirmed"
          PROVE  m \in held[a]
        <3>1. back.present
            BY <1>4, <2>2 DEF ReadbackOutcome
        <3>2. CASE back.flag = Desired(Kind(w))
            BY <1>3, <2>1, <3>2 DEF HeldNow, Kind
        <3>3. CASE back.flag # Desired(Kind(w))
            <4>1. ~Conditional(w) /\ run[w].out.status = "accepted"
                BY <1>4, <2>2, <3>1, <3>3 DEF ReadbackOutcome
            <4>2. ~(Condstore /\ item[a][m].modseq # 0)
                BY <4>1 DEF Conditional
            <4>3. QED BY <1>1, <1>3, <2>1, <2>2, <3>1, <4>1, <4>2 DEF PassOK, HeldOK
        <3>4. QED BY <3>2, <3>3
    <2>3. held' = held
        BY <1>1 DEF Quiet
    <2> DEFINE out == ReadbackOutcome(w, back)
    <2>4. ~IsMove(a) /\ out.status = "confirmed" => m \in held'[a]
        BY <2>2, <2>3
    <2> HIDE DEF out, a, m, back
    <2>5. Answers(w, "receipt", out)
        BY <1>6 DEF out
    <2>6. QED BY <1>1, <1>2, <1>3, <2>4, <2>5, AnswerFlags
<1>7. QED BY <1>5, <1>6 DEF Readback

-----------------------------------------------------------------------------
(* The mailbox and the operator.                                           *)
LEMMA SubmitFlags ==
    ASSUME Counted, IInv, FlagInv, NEW a \in Action, NEW kind,
           NEW targets \in SUBSET Message, Submit(a, kind, targets)
    PROVE  FlagInv' /\ Keeps
<1> DEFINE new == [status |-> "queued", kind |-> kind]
           target(m) == [status |-> "queued", reason |-> "none",
                         revision |-> local[m].revision, modseq |-> local[m].modseq]
           items == [m \in Message |-> IF m \in targets THEN target(m) ELSE NoItem]
<1>1. /\ action' = [action EXCEPT ![a] = new] /\ item' = [item EXCEPT ![a] = items]
      /\ action[a].status = "none" /\ UNCHANGED <<run, server, issued, moved>> /\ NoteFlags
    BY DEF Submit
<1>2. new.status = "queued" /\ \A m \in Message : items[m].status # "confirmed"
    BY DEF NoItem
<1>3. RowsInv /\ OutsideShape /\ ConfirmedFlagWasHeld
    BY DEF FlagInv, PlaceInv, HeldInv, IInv
<1> HIDE DEF new, items
<1>4. /\ action'[a] = new /\ item'[a] = items
      /\ \A b \in Action : b # a => action'[b] = action[b] /\ item'[b] = item[b]
    BY <1>1, <1>3 DEF RowsInv, RowsShape
<1>5. /\ DOMAIN held' = Action
      /\ \A b \in Action : action'[b].status # "none" =>
            held'[b] = held[b] \cup
                {m \in Message : server'[m].flag = Desired(action'[b].kind)}
    BY <1>1 DEF NoteFlags
<1>6. Keeps
    BY <1>1, <1>4, <1>5 DEF Keeps
<1>7. OutsideShape'
    BY <1>1, <1>3, <1>5 DEF OutsideShape
<1>8. HeldNow'
    BY <1>5 DEF HeldNow, Desired
<1>9. ConfirmedFlagWasHeld'
    BY <1>2, <1>3, <1>4, <1>6, NoneConfirmed
<1>10. QED BY <1>1, <1>6, <1>7, <1>8, <1>9, StillFlags DEF Frames

LEMMA RestoredFields ==
    ASSUME NEW i, DOMAIN i = {"status", "reason", "revision", "modseq"}
    PROVE  /\ RestoredItem(i).modseq = i.modseq
           /\ RestoredItem(i).status \in {i.status, "conflicted", "unknown"}
<1>1. CASE i.status = "queued"
    <2>1. RestoredItem(i) = [i EXCEPT !.status = "conflicted", !.reason = "restored"]
        BY <1>1 DEF RestoredItem
    <2>2. QED BY <2>1
<1>2. CASE i.status = "executing"
    <2>1. RestoredItem(i) = [i EXCEPT !.status = "unknown", !.reason = "restored"]
        BY <1>2 DEF RestoredItem
    <2>2. QED BY <2>1
<1>3. CASE i.status \notin {"queued", "executing"}
    BY <1>3 DEF RestoredItem
<1>4. QED BY <1>1, <1>2, <1>3

LEMMA RestoredFlags ==
    ASSUME Counted, IInv, FlagInv, NEW a \in Action, DispositionRestored(a)
    PROVE  FlagInv' /\ Keeps
<1> DEFINE items == [m \in Message |-> RestoredItem(item[a][m])]
<1>1. /\ action' = [action EXCEPT ![a].status = "complete"]
      /\ item' = [item EXCEPT ![a] = items] /\ action[a].status # "none"
      /\ UNCHANGED <<run, server, held, issued, moved>>
    BY DEF DispositionRestored, ghosts, Pending
<1>2. RowsInv /\ OutsideShape /\ ConfirmedFlagWasHeld
    BY DEF FlagInv, PlaceInv, HeldInv, IInv
<1>3. \A m \in Message :
          /\ items[m].modseq = item[a][m].modseq
          /\ items[m].status = "confirmed" => item[a][m].status = "confirmed"
    <2>1. SUFFICES ASSUME NEW m \in Message
                   PROVE  /\ RestoredItem(item[a][m]).modseq = item[a][m].modseq
                          /\ RestoredItem(item[a][m]).status = "confirmed"
                                 => item[a][m].status = "confirmed"
        OBVIOUS
    <2>2. DOMAIN item[a][m] = {"status", "reason", "revision", "modseq"}
        BY <1>2 DEF RowsInv, RowsShape
    <2>3. QED BY <2>2, RestoredFields
<1> HIDE DEF items
<1>4. /\ action'[a].status = "complete" /\ action'[a].kind = action[a].kind
      /\ item'[a] = items
      /\ \A b \in Action : b # a => action'[b] = action[b] /\ item'[b] = item[b]
    BY <1>1, <1>2 DEF RowsInv, RowsShape
<1>5. Keeps
    BY <1>1, <1>3, <1>4 DEF Keeps
<1>6. OutsideShape' /\ (HeldNow => HeldNow')
    BY <1>1, <1>2, <1>4 DEF OutsideShape, HeldNow
<1>7. ConfirmedFlagWasHeld'
    BY <1>2, <1>3, <1>4, <1>5, NoneConfirmed
<1>8. QED BY <1>1, <1>5, <1>6, <1>7, StillFlags DEF Frames

LEMMA ServerFlags ==
    ASSUME Counted, IInv, FlagInv, ServerStep \/ BeginRecovery
    PROVE  FlagInv' /\ Keeps
<1>1. RowsInv /\ OutsideShape /\ ConfirmedFlagWasHeld /\ UNCHANGED run
    BY DEF FlagInv, PlaceInv, HeldInv, IInv, ServerStep, BeginRecovery, ClientFlags,
           ClientRemoves, SyncMessage, ServerResets, FolderVanishes, SyncResets
<1>2. CASE Quiet
    BY <1>1, <1>2, QuietKeeps, StillFlags
<1>3. ASSUME NEW m \in Message, ClientFlags(m)
      PROVE  FlagInv' /\ Keeps
    <2>1. /\ UNCHANGED <<action, item, issued, moved>> /\ NoteFlags
          /\ \E f, n : server' = [server EXCEPT ![m].flag = f, ![m].modseq = n]
        BY <1>3 DEF ClientFlags, rows
    <2>2. /\ DOMAIN server' = Message
          /\ \A n \in Message : /\ DOMAIN server'[n] = {"present", "flag", "modseq"}
                                /\ server'[n].present => server[n].present
        BY <1>1, <2>1 DEF OutsideShape
    <2>3. Frames
        BY <1>1, <2>1, <2>2, NotedFrames
    <2>4. QED BY <1>1, <2>1, <2>3, NoneConfirmed, StillFlags DEF Frames
<1>4. ASSUME NEW m \in Message, ClientRemoves(m)
      PROVE  FlagInv' /\ Keeps
    <2>1. /\ UNCHANGED <<action, item, held, issued, moved>>
          /\ server' = [server EXCEPT ![m].present = FALSE]
        BY <1>4 DEF ClientRemoves, rows, ghosts
    <2>2. Frames
        BY <1>1, <2>1, RemovedFrames DEF OutsideShape
    <2>3. QED BY <1>1, <2>1, <2>2, NoneConfirmed, StillFlags DEF Frames
<1>5. \/ Quiet \/ \E m \in Message : ClientFlags(m) \/ ClientRemoves(m)
    BY DEF ServerStep, BeginRecovery, SyncMessage, ServerResets, FolderVanishes,
           SyncResets, Quiet, rows, ghosts
<1>6. QED BY <1>2, <1>3, <1>4, <1>5

LEMMA FlagsBegin == Counted /\ Init => FlagInv
<1> SUFFICES ASSUME Counted, Init PROVE FlagInv
    OBVIOUS
<1>1. OutsideShape
    BY DEF Init, OutsideShape
<1>2. \A w \in Run : PlaceOK(run[w]) /\ HeldOK(run[w])
    BY DEF Init, Idle, PlaceOK, HeldOK, Resting, Acting, Writing
<1>3. HeldNow /\ ConfirmedFlagWasHeld
    BY DEF Init, HeldNow, ConfirmedFlagWasHeld, NoItem
<1>4. QED BY <1>1, <1>2, <1>3 DEF FlagInv, PlaceInv, HeldInv

LEMMA FlagsStep == Counted /\ IInv /\ FlagInv /\ [Next]_vars => FlagInv'
<1> SUFFICES ASSUME Counted, IInv, FlagInv, [Next]_vars PROVE FlagInv'
    OBVIOUS
<1>1. CASE UNCHANGED vars
    <2>1. Quiet /\ UNCHANGED run
        BY <1>1 DEF vars, rows, ghosts, Quiet
    <2>2. QED BY <2>1, QuietKeeps, StillFlags
<1>2. ASSUME NEW w \in Run, StartPass(w) \/ PassStep(w) \/ Crash(w)
      PROVE  FlagInv'
    BY <1>2, WalkFlags, FinishFlags, SelectFlags, HoldFlags, ReceiptFlags, ClaimFlags,
       InspectFlags, UnavailableFlags, ApplyMoveFlags, WriteFlagFlags, ReadbackFlags
       DEF PassStep
<1>3. QED BY <1>1, <1>2, SubmitFlags, RestoredFlags, ServerFlags DEF Next

(* A confirmed flag action tells the truth, for any number of overlapping  *)
(* passes: the server held the wanted value at some moment after the       *)
(* request (the readback of applyFlags, the no-op of executeFolderGroup).  *)
THEOREM ConfirmedFlagsWereHeld == Counted => (Spec => []ConfirmedFlagWasHeld)
<1> SUFFICES ASSUME Counted PROVE Spec => []ConfirmedFlagWasHeld
    OBVIOUS
<1>1. Init => IInv /\ FlagInv
    BY InitInv, FlagsBegin DEF Counted
<1>2. IInv /\ FlagInv /\ [Next]_vars => IInv' /\ FlagInv'
    BY StepInv, FlagsStep DEF Counted
<1>3. FlagInv => ConfirmedFlagWasHeld
    BY DEF FlagInv, HeldInv
<1>4. QED BY <1>1, <1>2, <1>3, PTL DEF Spec

-----------------------------------------------------------------------------
(* Moves, while the passes over an account do not overlap.                 *)
(* What is known of an item whose MOVE was sent, or took the message.      *)
MoveNow ==
    \A a \in Action, m \in Message :
        /\ issued[a][m] \in {0, 1}
        /\ issued[a][m] # 0 => /\ action[a].status # "none" /\ IsMove(a)
                               /\ item[a][m].status \notin {"queued", "absent"}
        /\ moved[m] = a => /\ issued[a][m] # 0
                           /\ item[a][m].status \in {"executing", "confirmed", "unknown"}

(* A pass that has loaded its items and has not sent its command.          *)
Loaded == {"folder", "item", "conflict", "settle", "claim", "apply"}

(* A pass holds what an earlier one left in execution, so what it loads    *)
(* was never sent; and its answer to a MOVE that happened is no refusal.   *)
MoveOK(q) ==
    LET a == Cur(q)
        m == TargetOf(q) IN
    q.pc \notin Resting /\ IsMove(a) =>
        /\ q.pc = "holding" => \A n \in Message : item[a][n].status = "executing" => n \in q.todo
        /\ q.pc \in Loaded => q.was = {} /\ \A n \in q.todo : issued[a][n] = 0
        /\ q.pc = "apply" => item[a][m].status \in {"executing", "unknown"}
        /\ q.pc # "readback"
        /\ q.pc = "receipt" => /\ q.was = {}
                               /\ \A n \in q.todo \ {m} : issued[a][n] = 0
                               /\ q.out.status \in Disposed
                               /\ moved[m] = a => q.out.status \in {"confirmed", "unknown"}

MoveInv == MoveNow /\ \A w \in Run : MoveOK(run[w])

(* The items of MOVEs that were sent take no step but a true receipt.      *)
LEMMA NowKept ==
    ASSUME MoveNow, Keeps, UNCHANGED <<issued, moved>>,
           \A a \in Action, m \in Message : issued[a][m] # 0 =>
               \/ item'[a][m].status = item[a][m].status
               \/ /\ item'[a][m].status \in Disposed
                  /\ moved[m] = a => item'[a][m].status \in {"confirmed", "unknown"}
    PROVE  MoveNow'
<1>1. SUFFICES ASSUME NEW a \in Action, NEW m \in Message
               PROVE  /\ issued'[a][m] \in {0, 1}
                      /\ issued'[a][m] # 0 =>
                            /\ action'[a].status # "none" /\ action'[a].kind = "move"
                            /\ item'[a][m].status \notin {"queued", "absent"}
                      /\ moved'[m] = a =>
                            /\ issued'[a][m] # 0
                            /\ item'[a][m].status \in {"executing", "confirmed", "unknown"}
    BY DEF MoveNow, IsMove
<1>2. /\ issued[a][m] \in {0, 1}
      /\ issued[a][m] # 0 => /\ action[a].status # "none" /\ action[a].kind = "move"
                             /\ item[a][m].status \notin {"queued", "absent"}
      /\ moved[m] = a => /\ issued[a][m] # 0
                         /\ item[a][m].status \in {"executing", "confirmed", "unknown"}
    BY DEF MoveNow, IsMove
<1>3. QED BY <1>2 DEF Keeps, Disposed

LEMMA RestingMove ==
    ASSUME NEW w \in Run, run'[w].pc \in Resting
    PROVE  MoveOK(run[w])'
BY DEF MoveOK

(* A pass that goes on with less to do, and sends nothing.                 *)
LEMMA LoadedMove ==
    ASSUME Counted, NEW w \in Run, PassOK(run[w]), MoveOK(run[w]), Keeps, issued' = issued,
           run[w].pc \in Loaded, run'[w].pc \in Loaded \ {"apply"},
           run'[w].list = run[w].list, run'[w].was = run[w].was,
           run'[w].todo \subseteq run[w].todo
    PROVE  MoveOK(run[w])'
<1>1. run[w].pc \notin Resting
    BY DEF Loaded, Resting
<1>2. Cur(run[w]) \in Action /\ action[Cur(run[w])].status # "none"
    BY <1>1, CurIsSubmitted DEF PassOK
<1>3. Cur(run[w])' = Cur(run[w]) /\ IsMove(Cur(run[w]))' = IsMove(Cur(run[w]))
    BY <1>2 DEF Cur, IsMove, Keeps
<1>4. QED BY <1>1, <1>3 DEF MoveOK, Loaded

LEMMA OnlyPass ==
    ASSUME OnePass, NEW w \in Run, MoveNow', MoveOK(run[w])'
    PROVE  MoveInv'
BY DEF OnePass, MoveInv

(* Steps outside the pass: an item in execution may be held, a queued one  *)
(* may end as a conflict.                                                  *)
LEMMA StillMoves ==
    ASSUME Counted, IInv, FlagInv, MoveInv, Keeps, UNCHANGED <<run, issued, moved>>,
           \A a \in Action, m \in Message : action[a].status # "none" =>
               \/ item'[a][m].status = item[a][m].status
               \/ item[a][m].status = "queued" /\ item'[a][m].status = "conflicted"
               \/ item[a][m].status = "executing" /\ item'[a][m].status = "unknown"
    PROVE  MoveInv'
<1>1. MoveNow'
    <2>1. MoveNow
        BY DEF MoveInv
    <2>2. \A a \in Action, m \in Message : issued[a][m] # 0 =>
               \/ item'[a][m].status = item[a][m].status
               \/ /\ item'[a][m].status \in Disposed
                  /\ moved[m] = a => item'[a][m].status \in {"confirmed", "unknown"}
        BY <2>1 DEF MoveNow, Disposed
    <2>3. QED BY <2>1, <2>2, NowKept
<1>2. ASSUME NEW w \in Run
      PROVE  MoveOK(run[w])'
    <2>1. CASE run[w].pc \in Resting
        BY <2>1, RestingMove
    <2>2. CASE run[w].pc \notin Resting
        <3>1. /\ Cur(run[w]) \in Action /\ action[Cur(run[w])].status # "none"
              /\ MoveOK(run[w])
            BY <2>2, PassFacts DEF MoveInv
        <3>2. run[w].pc \in Acting => TargetOf(run[w]) \in Message
            BY PassFacts
        <3>3. /\ Cur(run[w])' = Cur(run[w]) /\ TargetOf(run[w])' = TargetOf(run[w])
              /\ IsMove(Cur(run[w]))' = IsMove(Cur(run[w]))
            BY <3>1 DEF Cur, TargetOf, GroupOf, IsMove, Keeps
        <3>4. QED BY <2>2, <3>1, <3>2, <3>3 DEF MoveOK, Acting, Writing
    <2>3. QED BY <2>1, <2>2
<1>3. QED BY <1>1, <1>2 DEF MoveInv

-----------------------------------------------------------------------------
(* The actions of the pass, and its MOVEs.                                 *)

LEMMA SamePassMoves ==
    ASSUME Counted, OnePass, IInv, FlagInv, MoveInv, NEW w \in Run, Quiet, MoveOK(run[w])'
    PROVE  MoveInv'
<1>1. Keeps
    BY QuietKeeps DEF Frames
<1>2. MoveNow'
    BY <1>1, NowKept DEF MoveInv, Quiet
<1>3. QED BY <1>2, OnlyPass

LEMMA RestedPc ==
    ASSUME NEW w \in Run, DOMAIN run = Run, run' = [run EXCEPT ![w] = Idle] \/ Leaves(w)
    PROVE  run'[w].pc \in Resting
<1> DEFINE list == run[w].list \ {Current(w)}
           q == [Idle EXCEPT !.pc = "next", !.list = list]
<1>1. run' = [run EXCEPT ![w] = Idle] \/ run' = [run EXCEPT ![w] = q]
    BY DEF Leaves
<1> HIDE DEF list
<1>2. q.pc = "next" /\ Idle.pc = "idle"
    BY DEF Idle
<1> HIDE DEF q
<1>3. QED BY <1>1, <1>2 DEF Resting

LEMMA WalkMoves ==
    ASSUME Counted, OnePass, IInv, FlagInv, MoveInv, NEW w \in Run,
           \/ StartPass(w) \/ ExecuteNext(w) \/ ReloadPending(w) \/ GroupDone(w) \/ Crash(w)
    PROVE  MoveInv'
<1>1. Quiet
    BY DEF StartPass, ExecuteNext, ReloadPending, GroupDone, Crash, Quiet, rows, ghosts
<1>2. /\ DOMAIN run = Run /\ DOMAIN run[w] = RunFields /\ PassOK(run[w])
      /\ MoveOK(run[w]) /\ MoveNow /\ Keeps
    BY <1>1, PassFacts, QuietKeeps DEF MoveInv, Frames
<1>3. CASE StartPass(w)
    <2> DEFINE list == {a \in Due : Cardinality({b \in Due : b < a}) < Limit}
    <2>1. run' = [run EXCEPT ![w].pc = "next", ![w].list = list]
        BY <1>3 DEF StartPass
    <2> HIDE DEF list
    <2>2. run'[w].pc \in Resting
        BY <1>2, <2>1 DEF RunFields, Resting
    <2>3. QED BY <1>1, <2>2, RestingMove, SamePassMoves
<1>4. CASE run' = [run EXCEPT ![w] = Idle] \/ Leaves(w)
    <2>1. run'[w].pc \in Resting
        BY <1>2, <1>4, RestedPc
    <2>2. QED BY <1>1, <2>1, RestingMove, SamePassMoves
<1>5. CASE ExecuteNext(w)
    <2> DEFINE todo == Holdable(Current(w))
    <2>1. \/ run' = [run EXCEPT ![w] = Idle] \/ Leaves(w)
          \/ /\ run[w].list # {}
             /\ run' = [run EXCEPT ![w].pc = "holding", ![w].todo = todo]
        BY <1>5 DEF ExecuteNext
    <2>2. IsMove(Current(w)) => todo = {m \in Message : item[Current(w)][m].status = "executing"}
        BY DEF Holdable, Interrupted, IsMove
    <2> HIDE DEF todo
    <2>3. CASE /\ run[w].list # {}
               /\ run' = [run EXCEPT ![w].pc = "holding", ![w].todo = todo]
        <3>1. run'[w].pc = "holding" /\ run'[w].list = run[w].list /\ run'[w].todo = todo
            BY <1>2, <2>3 DEF RunFields
        <3>2. Cur(run[w])' = Current(w) /\ IsMove(Cur(run[w]))' = IsMove(Current(w))
              /\ item' = item
            BY <1>1, <3>1 DEF Cur, Current, IsMove, Quiet
        <3>3. MoveOK(run[w])'
            BY <2>2, <3>1, <3>2 DEF MoveOK, Loaded
        <3>4. QED BY <1>1, <3>3, SamePassMoves
    <2>4. QED BY <1>4, <2>1, <2>3
<1>6. CASE ReloadPending(w)
    <2> DEFINE a == Current(w)
               todo == {m \in Message : item[a][m].status \in Pending}
               was == {m \in Message : item[a][m].status = "executing"}
    <2>1. /\ run' = [run EXCEPT ![w].pc = "folder", ![w].todo = todo, ![w].was = was]
          /\ run[w].pc = "holding" /\ run[w].todo = {}
        BY <1>6 DEF ReloadPending, At
    <2>2. a \in Action /\ a = Cur(run[w])
        BY <2>1, PassFacts, Names DEF Resting
    <2>3. IsMove(a) => \A n \in Message : item[a][n].status # "executing"
        BY <1>2, <2>1, <2>2 DEF MoveOK, Resting
    <2>4. IsMove(a) => was = {} /\ \A n \in todo : issued[a][n] = 0
        BY <1>2, <2>2, <2>3 DEF MoveNow, Pending
    <2> HIDE DEF todo, was, a
    <2>5. /\ run'[w].pc = "folder" /\ run'[w].list = run[w].list
          /\ run'[w].todo = todo /\ run'[w].was = was
        BY <1>2, <2>1 DEF RunFields
    <2>6. Cur(run[w])' = a /\ IsMove(Cur(run[w]))' = IsMove(a) /\ issued' = issued
        BY <1>1, <2>2, <2>5 DEF Cur, IsMove, Quiet
    <2>7. MoveOK(run[w])'
        BY <2>4, <2>5, <2>6 DEF MoveOK, Loaded
    <2>8. QED BY <1>1, <2>7, SamePassMoves
<1>7. CASE GroupDone(w)
    <2> DEFINE remote == Idle.remote
    <2>1. /\ run' = [run EXCEPT ![w].pc = "folder", ![w].folder = NoFolder,
                                ![w].selected = 0, ![w].remote = remote]
          /\ run[w].pc \in Loaded
        BY <1>7 DEF GroupDone, Loaded
    <2> HIDE DEF remote
    <2>2. /\ run'[w].pc = "folder" /\ run'[w].list = run[w].list
          /\ run'[w].todo = run[w].todo /\ run'[w].was = run[w].was
        BY <1>2, <2>1 DEF RunFields
    <2>3. MoveOK(run[w])'
        BY <1>1, <1>2, <2>1, <2>2, LoadedMove DEF Quiet, Loaded
    <2>4. QED BY <1>1, <2>3, SamePassMoves
<1>8. QED BY <1>3, <1>4, <1>5, <1>6, <1>7 DEF Crash

LEMMA FinishMoves ==
    ASSUME Counted, OnePass, IInv, FlagInv, MoveInv, NEW w \in Run, Finish(w)
    PROVE  MoveInv'
<1>1. Keeps
    BY FinishFlags
<1>2. UNCHANGED <<item, issued, moved>> /\ Leaves(w)
    BY DEF Finish, ghosts
<1>3. MoveNow'
    BY <1>1, <1>2, NowKept DEF MoveInv
<1>4. run'[w].pc \in Resting
    BY <1>2, PassFacts, RestedPc
<1>5. QED BY <1>3, <1>4, RestingMove, OnlyPass

LEMMA SelectMoves ==
    ASSUME Counted, OnePass, IInv, FlagInv, MoveInv, NEW w \in Run,
           SelectFolder(w) \/ Inspect(w)
    PROVE  MoveInv'
<1>1. Quiet
    BY DEF SelectFolder, Inspect, Quiet, rows, ghosts
<1>2. /\ DOMAIN run = Run /\ DOMAIN run[w] = RunFields /\ PassOK(run[w])
      /\ MoveOK(run[w]) /\ Keeps /\ run[w].pc \in Loaded
    BY <1>1, PassFacts, QuietKeeps DEF MoveInv, Frames, SelectFolder, Inspect, At, Loaded
<1>3. \/ run' = [run EXCEPT ![w] = Idle]
      \/ /\ run'[w].pc \in Loaded \ {"apply"} /\ run'[w].list = run[w].list
         /\ run'[w].todo = run[w].todo /\ run'[w].was = run[w].was
    <2>1. CASE SelectFolder(w)
        <3> DEFINE f == FolderOf[Least(run[w].todo)]
                   remote == [m \in Message |->
                                IF m \in run[w].todo /\ FolderOf[m] = f
                                THEN Seen(m) ELSE Unseen]
                   pc == IF mailbox[f] = validity[f] THEN "item" ELSE "conflict"
        <3>1. \/ run' = [run EXCEPT ![w] = Idle]
              \/ run' = [run EXCEPT ![w].pc = pc, ![w].folder = f,
                                    ![w].selected = mailbox[f], ![w].remote = remote]
            BY <2>1 DEF SelectFolder, Throws
        <3>2. pc \in Loaded \ {"apply"}
            BY DEF Loaded
        <3> HIDE DEF pc, remote, f
        <3>3. QED BY <1>2, <3>1, <3>2 DEF RunFields
    <2>2. CASE Inspect(w)
        <3> DEFINE out == Verdict(Current(w), Target(w), run[w].remote[Target(w)])
                   pc == IF ~Revalidated(w) THEN "conflict"
                         ELSE IF out = Nothing THEN "claim" ELSE "settle"
                   answer == IF Revalidated(w) THEN out ELSE Nothing
                   selected == mailbox[run[w].folder]
        <3>1. \/ run' = [run EXCEPT ![w] = Idle]
              \/ run' = [run EXCEPT ![w].selected = selected, ![w].pc = pc, ![w].out = answer]
            BY <2>2 DEF Inspect, Throws
        <3>2. pc \in Loaded \ {"apply"}
            BY DEF Loaded
        <3> HIDE DEF pc, answer, selected
        <3>3. QED BY <1>2, <3>1, <3>2 DEF RunFields
    <2>3. QED BY <2>1, <2>2
<1>4. MoveOK(run[w])'
    <2>1. CASE run' = [run EXCEPT ![w] = Idle]
        BY <1>2, <2>1, RestedPc, RestingMove
    <2>2. QED BY <1>1, <1>2, <1>3, <2>1, LoadedMove DEF Quiet
<1>5. QED BY <1>1, <1>4, SamePassMoves

(* Every interrupted MOVE that the pass loaded ends up held.               *)
LEMMA HoldMoves ==
    ASSUME Counted, OnePass, IInv, FlagInv, MoveInv, NEW w \in Run, HoldInterrupted(w)
    PROVE  MoveInv'
<1> DEFINE a == Current(w)
           m == Least(run[w].todo)
           out == Answer("unknown", "interrupted", Unseen, FALSE)
           todo == run[w].todo \ {m}
<1>1. /\ UNCHANGED <<held, server, issued, moved>> /\ run[w].pc = "holding"
      /\ CommitDisposition(a, m, out, FALSE) /\ run[w].todo # {}
      /\ run' = [run EXCEPT ![w].todo = todo]
    BY DEF HoldInterrupted, ghosts, At
<1>2. /\ DOMAIN run = Run /\ DOMAIN run[w] = RunFields /\ MoveOK(run[w]) /\ MoveNow
      /\ RowsInv /\ RunOK(run[w]) /\ a \in Action /\ a = Cur(run[w])
      /\ action[a].status # "none"
    BY <1>1, PassFacts, Names DEF MoveInv, Resting
<1>3. m \in run[w].todo /\ m \in Message
    <2>1. run[w].todo \in SUBSET Nat
        BY <1>2 DEF RunOK, Counted, Numbered
    <2>2. QED BY <1>1, <1>2, <2>1, LeastIsMember DEF RunOK
<1>4. out.status = "unknown"
    BY AnswerStatus
<1>5. todo = run[w].todo \ {m}
    OBVIOUS
<1> HIDE DEF a, m, out, todo
<1>6. Keeps /\ Receives(a, m, out)
    BY <1>1, <1>2, HoldFlags, Receiving
<1>7. MoveNow'
    <2>1. \A b \in Action, n \in Message : issued[b][n] # 0 =>
               \/ item'[b][n].status = item[b][n].status
               \/ /\ item'[b][n].status \in Disposed
                  /\ moved[n] = b => item'[b][n].status \in {"confirmed", "unknown"}
        BY <1>2, <1>3, <1>4, <1>6 DEF Receives, Disposed
    <2>2. QED BY <1>1, <1>2, <1>6, <2>1, NowKept
<1>8. /\ run'[w].pc = "holding" /\ run'[w].list = run[w].list /\ run'[w].todo = todo
    BY <1>1, <1>2 DEF RunFields
<1>9. Cur(run[w])' = a /\ IsMove(Cur(run[w]))' = IsMove(a)
    BY <1>2, <1>6, <1>8 DEF Cur, IsMove, Keeps
<1>10. ASSUME IsMove(a), NEW n \in Message, item'[a][n].status = "executing"
       PROVE  n \in todo
    <2>1. n # m
        BY <1>2, <1>3, <1>4, <1>6, <1>10 DEF Receives, Pending
    <2>2. item[a][n].status = "executing"
        BY <1>2, <1>6, <1>10, <2>1 DEF Receives
    <2>3. QED BY <1>1, <1>2, <1>5, <1>10, <2>1, <2>2 DEF MoveOK, Resting
<1>11. MoveOK(run[w])'
    BY <1>8, <1>9, <1>10 DEF MoveOK, Loaded
<1>12. QED BY <1>7, <1>11, OnlyPass

LEMMA AdvanceFields ==
    ASSUME NEW w \in Run, DOMAIN run = Run, DOMAIN run[w] = RunFields, NEW pc,
           Advance(w, pc)
    PROVE  /\ run'[w].pc = pc /\ run'[w].list = run[w].list /\ run'[w].was = run[w].was
           /\ run'[w].todo = run[w].todo \ {Target(w)}
<1> DEFINE todo == run[w].todo \ {Target(w)}
<1>1. run' = [run EXCEPT ![w].pc = pc, ![w].out = Nothing, ![w].todo = todo]
    BY DEF Advance
<1> HIDE DEF todo
<1>2. /\ run'[w].pc = pc /\ run'[w].list = run[w].list /\ run'[w].was = run[w].was
      /\ run'[w].todo = todo
    BY <1>1 DEF RunFields
<1>3. QED BY <1>2 DEF todo

(* The MOVE of a target that is settled without a command was not sent.    *)
LEMMA SettleMoves ==
    ASSUME Counted, OnePass, IInv, FlagInv, MoveInv, NEW w \in Run,
           ConflictRest(w) \/ Settle(w)
    PROVE  MoveInv'
<1> DEFINE a == Current(w)
           m == Target(w)
<1>1. /\ UNCHANGED <<held, server, issued, moved>> /\ run[w].pc \in {"conflict", "settle"}
      /\ \E out : CommitDisposition(a, m, out, FALSE)
      /\ Advance(w, "conflict") \/ Advance(w, "item")
    BY DEF ConflictRest, Settle, ghosts, At
<1>2. GroupOf(run[w]) # {}
    <2>1. CASE ConflictRest(w)
        BY <2>1, Names DEF ConflictRest
    <2>2. CASE Settle(w)
        BY <2>2, PassFacts DEF Settle, At, Acting
    <2>3. QED BY <2>1, <2>2
<1>3. /\ DOMAIN run = Run /\ DOMAIN run[w] = RunFields /\ MoveOK(run[w]) /\ MoveNow
      /\ RowsInv /\ PassOK(run[w]) /\ a \in Action /\ a = Cur(run[w]) /\ m \in run[w].todo
      /\ m \in Message
    BY <1>1, <1>2, PassFacts, Names DEF MoveInv, Resting, GroupOf
<1>4. Keeps
    BY HoldFlags, ReceiptFlags
<1> HIDE DEF a, m
<1>5. \E out : Receives(a, m, out)
    BY <1>1, <1>3, Receiving
<1>6. issued[a][m] = 0
    BY <1>1, <1>3 DEF MoveOK, MoveNow, Loaded, Resting
<1>7. MoveNow'
    <2>1. \A b \in Action, n \in Message : issued[b][n] # 0 => item'[b][n] = item[b][n]
        BY <1>5, <1>6 DEF Receives
    <2>2. QED BY <1>1, <1>3, <1>4, <2>1, NowKept
<1>8. MoveOK(run[w])'
    <2>1. /\ run'[w].pc \in Loaded \ {"apply"} /\ run'[w].list = run[w].list
          /\ run'[w].was = run[w].was /\ run'[w].todo \subseteq run[w].todo
        BY <1>1, <1>3, AdvanceFields DEF Loaded
    <2>2. run[w].pc \in Loaded
        BY <1>1 DEF Loaded
    <2>3. QED BY <1>1, <1>3, <1>4, <2>1, <2>2, LoadedMove
<1>9. QED BY <1>7, <1>8, OnlyPass

(* A MOVE is sent for an item that this pass took out of the queue.        *)
LEMMA ClaimMoves ==
    ASSUME Counted, OnePass, IInv, FlagInv, MoveInv, NEW w \in Run, ClaimItem(w)
    PROVE  MoveInv'
<1> DEFINE a == Current(w)
           m == Target(w)
<1>1. /\ UNCHANGED <<action, issued, moved>> /\ run[w].pc = "claim"
      /\ \/ item' = item
         \/ /\ item[a][m].status = "queued"
            /\ item' = [item EXCEPT ![a][m].status = "executing"]
    BY DEF ClaimItem, ghosts, At
<1>2. /\ DOMAIN run = Run /\ DOMAIN run[w] = RunFields /\ MoveOK(run[w]) /\ MoveNow
      /\ RowsInv /\ PassOK(run[w]) /\ a \in Action /\ a = Cur(run[w])
      /\ m = TargetOf(run[w]) /\ m \in Message
    BY <1>1, PassFacts, Names DEF MoveInv, Resting, Acting, Writing
<1>3. Keeps
    BY ClaimFlags
<1>4. \/ Advance(w, "item") \/ Leaves(w)
      \/ /\ run' = [run EXCEPT ![w].pc = "apply"]
         /\ \/ m \in run[w].was
            \/ item' = [item EXCEPT ![a][m].status = "executing"]
    BY DEF ClaimItem
<1> HIDE DEF a, m
<1>5. MoveNow'
    <2>1. \A b \in Action, n \in Message : issued[b][n] # 0 => item'[b][n] = item[b][n]
        <3>1. item' = item \/ issued[a][m] = 0
            BY <1>1, <1>2 DEF MoveNow
        <3>2. \A b \in Action, n \in Message : b # a \/ n # m => item'[b][n] = item[b][n]
            BY <1>1, <1>2 DEF RowsInv, RowsShape
        <3>3. QED BY <3>1, <3>2
    <2>2. QED BY <1>1, <1>2, <1>3, <2>1, NowKept
<1>6. MoveOK(run[w])'
    <2>1. CASE Leaves(w)
        BY <1>2, <2>1, RestedPc, RestingMove
    <2>2. CASE Advance(w, "item")
        <3>1. /\ run'[w].pc \in Loaded \ {"apply"} /\ run'[w].list = run[w].list
              /\ run'[w].was = run[w].was /\ run'[w].todo \subseteq run[w].todo
            BY <1>2, <2>2, AdvanceFields DEF Loaded
        <3>2. run[w].pc \in Loaded
            BY <1>1 DEF Loaded
        <3>3. QED BY <1>1, <1>2, <1>3, <3>1, <3>2, LoadedMove
    <2>3. CASE /\ run' = [run EXCEPT ![w].pc = "apply"]
               /\ \/ m \in run[w].was
                  \/ item' = [item EXCEPT ![a][m].status = "executing"]
        <3>1. /\ run'[w].pc = "apply" /\ run'[w].list = run[w].list
              /\ run'[w].todo = run[w].todo /\ run'[w].was = run[w].was
              /\ run'[w].folder = run[w].folder
            BY <1>2, <2>3 DEF RunFields
        <3>2. /\ Cur(run[w])' = a /\ TargetOf(run[w])' = m
              /\ IsMove(Cur(run[w]))' = IsMove(a)
            BY <1>1, <1>2, <3>1 DEF Cur, TargetOf, GroupOf, IsMove
        <3>3. IsMove(a) => run[w].was = {} /\ \A n \in run[w].todo : issued[a][n] = 0
            BY <1>1, <1>2 DEF MoveOK, Loaded, Resting
        <3>4. IsMove(a) => item'[a][m].status = "executing"
            BY <1>2, <2>3, <3>3 DEF RowsInv, RowsShape
        <3>5. QED BY <1>1, <3>1, <3>2, <3>3, <3>4 DEF MoveOK
    <2>4. QED BY <1>4, <2>1, <2>2, <2>3
<1>7. QED BY <1>5, <1>6, OnlyPass

(* A command that sends no MOVE.                                           *)
LEMMA AnswerMoves ==
    ASSUME Counted, OnePass, IInv, FlagInv, MoveInv, NEW w \in Run,
           UNCHANGED <<action, item, issued, moved>>, Keeps,
           run[w].pc \in {"apply", "readback"}, NEW pc \in {"readback", "receipt"}, NEW out,
           Answers(w, pc, out),
           IsMove(Cur(run[w])) => pc = "receipt" /\ out.status = "failed"
    PROVE  MoveInv'
<1>1. /\ DOMAIN run = Run /\ DOMAIN run[w] = RunFields /\ MoveOK(run[w]) /\ MoveNow
      /\ Cur(run[w]) \in Action /\ TargetOf(run[w]) \in Message
      /\ TargetOf(run[w]) \in run[w].todo
    BY PassFacts DEF MoveInv, Resting, Acting, Writing, GroupOf
<1>2. /\ run'[w].pc = pc /\ run'[w].out = out /\ run'[w].list = run[w].list
      /\ run'[w].todo = run[w].todo /\ run'[w].was = run[w].was
      /\ run'[w].folder = run[w].folder
    BY <1>1 DEF Answers, RunFields
<1>3. /\ Cur(run[w])' = Cur(run[w]) /\ TargetOf(run[w])' = TargetOf(run[w])
      /\ IsMove(Cur(run[w]))' = IsMove(Cur(run[w]))
    BY <1>2 DEF Cur, TargetOf, GroupOf, IsMove
<1>4. IsMove(Cur(run[w])) =>
          run[w].was = {} /\ \A n \in run[w].todo : issued[Cur(run[w])][n] = 0
    BY <1>1 DEF MoveOK, Loaded, Resting
<1>5. IsMove(Cur(run[w])) => moved[TargetOf(run[w])] # Cur(run[w])
    BY <1>1, <1>4 DEF MoveNow
<1>6. MoveOK(run[w])'
    BY <1>2, <1>3, <1>4, <1>5 DEF MoveOK, Loaded, Disposed
<1>7. MoveNow'
    BY <1>1, NowKept
<1>8. QED BY <1>6, <1>7, OnlyPass

LEMMA CommandMoves ==
    ASSUME Counted, OnePass, IInv, FlagInv, MoveInv, NEW w \in Run,
           Unavailable(w) \/ WriteFlag(w) \/ Readback(w)
    PROVE  MoveInv'
<1>1. Keeps /\ UNCHANGED <<action, item, issued, moved>>
    BY UnavailableFlags, WriteFlagFlags, ReadbackFlags
       DEF Unavailable, WriteFlag, Readback, rows, ghosts
<1>2. run[w].pc \in {"apply", "readback"}
    BY DEF Unavailable, WriteFlag, Readback, At
<1>3. CASE Unavailable(w)
    <2>1. Failed.status = "failed"
        BY AnswerStatus DEF Failed
    <2>2. Answers(w, "receipt", Failed)
        BY <1>3 DEF Unavailable
    <2>3. QED BY <1>1, <1>2, <2>1, <2>2, AnswerMoves
<1>4. CASE WriteFlag(w)
    <2>1. ~IsMove(Cur(run[w]))
        BY <1>4, Names DEF WriteFlag, Kind, IsMove
    <2>2. \E pc \in {"readback", "receipt"} : \E out : Answers(w, pc, out)
        BY <1>4 DEF WriteFlag, Write
    <2>3. QED BY <1>1, <1>2, <2>1, <2>2, AnswerMoves
<1>5. CASE Readback(w)
    <2>1. ~IsMove(Cur(run[w]))
        BY <1>5 DEF MoveInv, MoveOK, Readback, At, Resting
    <2>2. \E out : Answers(w, "receipt", out)
        BY <1>5 DEF Readback
    <2>3. QED BY <1>1, <1>2, <2>1, <2>2, AnswerMoves
<1>6. QED BY <1>3, <1>4, <1>5

(* The MOVE is the first of its item; when it takes the message, the       *)
(* answer is OK or lost.                                                   *)
LEMMA ApplyMoveMoves ==
    ASSUME Counted, OnePass, IInv, FlagInv, MoveInv, NEW w \in Run, ApplyMove(w)
    PROVE  MoveInv'
<1> DEFINE a == Current(w)
           m == Target(w)
<1>1. /\ UNCHANGED <<action, item>> /\ run[w].pc = "apply" /\ action[a].kind = "move"
      /\ issued' = [issued EXCEPT ![a][m] = issued[a][m] + 1]
      /\ \E out : Answers(w, "receipt", out) /\ out.status \in Disposed
            /\ \/ /\ moved' = [moved EXCEPT ![m] = a]
                  /\ out.status \in {"confirmed", "unknown"}
               \/ UNCHANGED moved
    <2>1. /\ Lost.status = "unknown" /\ Failed.status = "failed"
          /\ \A o, e : Answer("confirmed", "none", o, e).status = "confirmed"
        BY AnswerStatus DEF Lost, Failed
    <2>2. \A out \in MoveAnswers(w) : out.status \in Disposed
        BY <2>1 DEF MoveAnswers, Disposed
    <2>3. /\ UNCHANGED <<action, item>> /\ run[w].pc = "apply" /\ action[a].kind = "move"
          /\ issued' = [issued EXCEPT ![a][m] = issued[a][m] + 1]
        BY DEF ApplyMove, rows, At, Kind
    <2>4. \/ /\ moved' = [moved EXCEPT ![m] = a]
             /\ \E out \in {Answer("confirmed", "none", run[w].remote[m], TRUE), Lost} :
                    Answers(w, "receipt", out)
          \/ UNCHANGED moved /\ \E out \in MoveAnswers(w) : Answers(w, "receipt", out)
        BY DEF ApplyMove
    <2> HIDE DEF a, m
    <2>5. CASE /\ moved' = [moved EXCEPT ![m] = a]
               /\ \E out \in {Answer("confirmed", "none", run[w].remote[m], TRUE), Lost} :
                      Answers(w, "receipt", out)
        BY <2>1, <2>3, <2>5 DEF Disposed
    <2>6. CASE UNCHANGED moved /\ \E out \in MoveAnswers(w) : Answers(w, "receipt", out)
        BY <2>2, <2>3, <2>6
    <2>7. QED BY <2>4, <2>5, <2>6
<1>2. /\ DOMAIN run = Run /\ DOMAIN run[w] = RunFields /\ MoveOK(run[w]) /\ MoveNow
      /\ a \in Action /\ m \in Message /\ m \in run[w].todo /\ OutsideShape
      /\ a = Cur(run[w]) /\ m = TargetOf(run[w]) /\ action[a].status # "none"
    BY <1>1, PassFacts, Names DEF MoveInv, Resting, Acting, Writing, GroupOf
<1> HIDE DEF a, m
<1>3. /\ run[w].was = {} /\ \A n \in run[w].todo : issued[a][n] = 0
      /\ item[a][m].status \in {"executing", "unknown"}
    BY <1>1, <1>2 DEF MoveOK, Loaded, Resting, IsMove
<1>4. /\ issued'[a][m] = 1
      /\ \A b \in Action, n \in Message : b # a \/ n # m => issued'[b][n] = issued[b][n]
    BY <1>1, <1>2, <1>3 DEF OutsideShape
<1>5. PICK out : /\ Answers(w, "receipt", out) /\ out.status \in Disposed
                 /\ \/ /\ moved' = [moved EXCEPT ![m] = a]
                       /\ out.status \in {"confirmed", "unknown"}
                    \/ UNCHANGED moved
    BY <1>1
<1>6. /\ \A n \in Message : n # m => moved'[n] = moved[n]
      /\ moved'[m] = a => out.status \in {"confirmed", "unknown"}
      /\ moved'[m] \in {moved[m], a}
    <2>1. moved[m] # a
        BY <1>2, <1>3 DEF MoveNow
    <2>2. QED BY <1>2, <1>5, <2>1 DEF OutsideShape
<1>7. MoveNow'
    <2>1. SUFFICES ASSUME NEW b \in Action, NEW n \in Message
                   PROVE  /\ issued'[b][n] \in {0, 1}
                          /\ issued'[b][n] # 0 =>
                                /\ action[b].status # "none" /\ action[b].kind = "move"
                                /\ item[b][n].status \notin {"queued", "absent"}
                          /\ moved'[n] = b =>
                                /\ issued'[b][n] # 0
                                /\ item[b][n].status \in {"executing", "confirmed", "unknown"}
        BY <1>1 DEF MoveNow, IsMove
    <2>2. CASE b = a /\ n = m
        BY <1>1, <1>2, <1>3, <1>4, <2>2
    <2>3. CASE b # a \/ n # m
        <3>1. moved'[n] = b => moved[n] = b
            BY <1>6, <2>3
        <3>2. issued'[b][n] = issued[b][n]
            BY <1>4, <2>3
        <3>3. QED BY <1>2, <3>1, <3>2 DEF MoveNow, IsMove
    <2>4. QED BY <2>2, <2>3
<1>8. /\ run'[w].pc = "receipt" /\ run'[w].out = out /\ run'[w].list = run[w].list
      /\ run'[w].todo = run[w].todo /\ run'[w].was = run[w].was
      /\ run'[w].folder = run[w].folder
    BY <1>2, <1>5 DEF Answers, RunFields
<1>9. Cur(run[w])' = a /\ TargetOf(run[w])' = m
    BY <1>2, <1>8 DEF Cur, TargetOf, GroupOf
<1>10. \A n \in run[w].todo \ {m} : issued'[a][n] = 0
    <2>1. run[w].todo \subseteq Message
        BY PassFacts DEF RunOK
    <2>2. QED BY <1>2, <1>3, <1>4, <2>1
<1>11. MoveOK(run[w])'
    BY <1>3, <1>5, <1>6, <1>8, <1>9, <1>10 DEF MoveOK, Loaded
<1>12. QED BY <1>7, <1>11, OnlyPass

(* The receipt of a MOVE that took the message is no refusal.              *)
LEMMA ReceiptMoves ==
    ASSUME Counted, OnePass, IInv, FlagInv, MoveInv, NEW w \in Run, Receipt(w)
    PROVE  MoveInv'
<1> DEFINE a == Current(w)
           m == Target(w)
<1>1. /\ UNCHANGED <<held, server, issued, moved>> /\ run[w].pc = "receipt"
      /\ CommitDisposition(a, m, run[w].out, TRUE) /\ Advance(w, "item")
    BY DEF Receipt, ghosts, At
<1>2. /\ DOMAIN run = Run /\ DOMAIN run[w] = RunFields /\ MoveOK(run[w]) /\ MoveNow
      /\ RowsInv /\ a \in Action /\ m \in Message
      /\ a = Cur(run[w]) /\ m = TargetOf(run[w]) /\ action[a].status # "none"
    BY <1>1, PassFacts, Names DEF MoveInv, Resting, Acting, Writing
<1>3. Keeps
    BY ReceiptFlags
<1>4. /\ run'[w].pc = "item" /\ run'[w].list = run[w].list /\ run'[w].was = run[w].was
      /\ run'[w].todo = run[w].todo \ {m}
    BY <1>1, <1>2, AdvanceFields
<1> HIDE DEF a, m
<1>5. Receives(a, m, run[w].out)
    BY <1>1, <1>2, Receiving
<1>6. IsMove(a) => /\ run[w].was = {}
                   /\ \A n \in run[w].todo \ {m} : issued[a][n] = 0
                   /\ run[w].out.status \in Disposed
                   /\ moved[m] = a => run[w].out.status \in {"confirmed", "unknown"}
    BY <1>1, <1>2 DEF MoveOK, Resting
<1>7. MoveNow'
    <2>1. ASSUME NEW b \in Action, NEW n \in Message, issued[b][n] # 0
          PROVE  \/ item'[b][n].status = item[b][n].status
                 \/ /\ item'[b][n].status \in Disposed
                    /\ moved[n] = b => item'[b][n].status \in {"confirmed", "unknown"}
        <3>1. CASE b = a /\ n = m
            <4>1. IsMove(a)
                BY <1>2, <2>1, <3>1 DEF MoveNow
            <4>2. QED BY <1>2, <1>5, <1>6, <3>1, <4>1 DEF Receives
        <3>2. CASE b # a \/ n # m
            BY <1>5, <3>2 DEF Receives
        <3>3. QED BY <3>1, <3>2
    <2>2. QED BY <1>1, <1>2, <1>3, <2>1, NowKept
<1>8. Cur(run[w])' = a /\ IsMove(Cur(run[w]))' = IsMove(a)
    BY <1>2, <1>3, <1>4 DEF Cur, IsMove, Keeps
<1>9. MoveOK(run[w])'
    BY <1>1, <1>4, <1>6, <1>8 DEF MoveOK
<1>10. QED BY <1>7, <1>9, OnlyPass

LEMMA RestoredStatus ==
    ASSUME NEW i, DOMAIN i = {"status", "reason", "revision", "modseq"}
    PROVE  \/ RestoredItem(i).status = i.status
           \/ i.status = "queued" /\ RestoredItem(i).status = "conflicted"
           \/ i.status = "executing" /\ RestoredItem(i).status = "unknown"
<1>1. CASE i.status = "queued"
    <2>1. RestoredItem(i) = [i EXCEPT !.status = "conflicted", !.reason = "restored"]
        BY <1>1 DEF RestoredItem
    <2>2. QED BY <1>1, <2>1
<1>2. CASE i.status = "executing"
    <2>1. RestoredItem(i) = [i EXCEPT !.status = "unknown", !.reason = "restored"]
        BY <1>2 DEF RestoredItem
    <2>2. QED BY <1>2, <2>1
<1>3. CASE i.status \notin {"queued", "executing"}
    BY <1>3 DEF RestoredItem
<1>4. QED BY <1>1, <1>2, <1>3

LEMMA OutsideMoves ==
    ASSUME Counted, IInv, FlagInv, MoveInv,
           \/ ServerStep \/ BeginRecovery \/ \E a \in Action : DispositionRestored(a)
           \/ \E a \in Action, kind \in Kinds, targets \in SUBSET Message :
                   Submit(a, kind, targets)
    PROVE  MoveInv'
<1>1. Keeps
    BY ServerFlags, RestoredFlags, SubmitFlags
<1>2. UNCHANGED <<run, issued, moved>>
    BY DEF ServerStep, BeginRecovery, ClientFlags, ClientRemoves, SyncMessage, ServerResets,
           FolderVanishes, SyncResets, DispositionRestored, Submit, ghosts
<1>3. RowsInv
    BY DEF IInv
<1>4. CASE ServerStep \/ BeginRecovery
    <2>1. item' = item
        BY <1>4 DEF ServerStep, BeginRecovery, ClientFlags, ClientRemoves, SyncMessage,
                    ServerResets, FolderVanishes, SyncResets, rows
    <2>2. QED BY <1>1, <1>2, <2>1, StillMoves
<1>5. ASSUME NEW a \in Action, DispositionRestored(a)
      PROVE  MoveInv'
    <2> DEFINE items == [m \in Message |-> RestoredItem(item[a][m])]
    <2>1. item' = [item EXCEPT ![a] = items]
        BY <1>5 DEF DispositionRestored
    <2>2. \A m \in Message :
              \/ items[m].status = item[a][m].status
              \/ item[a][m].status = "queued" /\ items[m].status = "conflicted"
              \/ item[a][m].status = "executing" /\ items[m].status = "unknown"
        <3>1. SUFFICES ASSUME NEW m \in Message
                       PROVE  \/ RestoredItem(item[a][m]).status = item[a][m].status
                              \/ /\ item[a][m].status = "queued"
                                 /\ RestoredItem(item[a][m]).status = "conflicted"
                              \/ /\ item[a][m].status = "executing"
                                 /\ RestoredItem(item[a][m]).status = "unknown"
            OBVIOUS
        <3>2. DOMAIN item[a][m] = {"status", "reason", "revision", "modseq"}
            BY <1>3 DEF RowsInv, RowsShape
        <3>3. QED BY <3>2, RestoredStatus
    <2> HIDE DEF items
    <2>3. \A b \in Action, m \in Message :
              \/ item'[b][m].status = item[b][m].status
              \/ item[b][m].status = "queued" /\ item'[b][m].status = "conflicted"
              \/ item[b][m].status = "executing" /\ item'[b][m].status = "unknown"
        BY <1>3, <2>1, <2>2 DEF RowsInv, RowsShape
    <2>4. QED BY <1>1, <1>2, <2>3, StillMoves
<1>6. ASSUME NEW a \in Action, NEW kind, NEW targets \in SUBSET Message,
             Submit(a, kind, targets)
      PROVE  MoveInv'
    <2>1. action[a].status = "none" /\ \A b \in Action : b # a => item'[b] = item[b]
        BY <1>3, <1>6 DEF Submit, RowsInv, RowsShape
    <2>2. QED BY <1>1, <1>2, <2>1, StillMoves
<1>7. QED BY <1>4, <1>5, <1>6

LEMMA MovesBegin == Counted /\ Init => MoveInv
<1> SUFFICES ASSUME Counted, Init PROVE MoveInv
    OBVIOUS
<1>1. MoveNow
    BY DEF Init, MoveNow, Counted
<1>2. \A w \in Run : MoveOK(run[w])
    BY DEF Init, Idle, MoveOK, Resting
<1>3. QED BY <1>1, <1>2 DEF MoveInv

LEMMA MovesStep ==
    Counted /\ OnePass /\ IInv /\ FlagInv /\ MoveInv /\ [Next]_vars => MoveInv'
<1> SUFFICES ASSUME Counted, OnePass, IInv, FlagInv, MoveInv, [Next]_vars PROVE MoveInv'
    OBVIOUS
<1>1. CASE UNCHANGED vars
    <2>1. Quiet /\ UNCHANGED run
        BY <1>1 DEF vars, rows, ghosts, Quiet
    <2>2. Keeps
        BY <2>1, QuietKeeps DEF Frames
    <2>3. QED BY <2>1, <2>2, StillMoves DEF Quiet
<1>2. ASSUME NEW w \in Run, StartPass(w) \/ PassStep(w) \/ Crash(w)
      PROVE  MoveInv'
    BY <1>2, WalkMoves, FinishMoves, SelectMoves, HoldMoves, SettleMoves, ClaimMoves,
       CommandMoves, ApplyMoveMoves, ReceiptMoves DEF PassStep
<1>3. QED BY <1>1, <1>2, OutsideMoves DEF Next

(* What follows for the MOVEs of an account whose passes do not overlap.   *)
LEMMA MovesHold == Counted /\ OnePass => (Spec => []MoveNow)
<1> SUFFICES ASSUME Counted, OnePass PROVE Spec => []MoveNow
    OBVIOUS
<1> DEFINE Inv == IInv /\ FlagInv /\ MoveInv
<1>1. Init => Inv
    BY InitInv, FlagsBegin, MovesBegin DEF Counted
<1>2. Inv /\ [Next]_vars => Inv'
    BY StepInv, FlagsStep, MovesStep DEF Counted
<1>3. Inv => MoveNow
    BY DEF MoveInv
<1>4. QED BY <1>1, <1>2, <1>3, PTL DEF Spec

(* While passes do not overlap, a MOVE is sent at most once for an item,   *)
(* through crashes, lost answers and later passes: execute holds what it   *)
(* finds interrupted, and markExecuting claims only what is queued.        *)
THEOREM MovesAreIssuedOnce == Counted /\ OnePass => (Spec => []MoveIssuedOnce)
<1> SUFFICES ASSUME Counted, OnePass PROVE Spec => []MoveIssuedOnce
    OBVIOUS
<1>1. MoveNow => MoveIssuedOnce
    BY DEF MoveNow, MoveIssuedOnce
<1>2. QED BY <1>1, MovesHold, PTL

(* While passes do not overlap, a receipt that says a move failed or       *)
(* conflicted is true: it did not take the message (applyMove, and the     *)
(* conflicts of executeFolderGroup).                                       *)
THEOREM RefusedMovesDidNotHappen == Counted /\ OnePass => (Spec => []RefusedMoveDidNotHappen)
<1> SUFFICES ASSUME Counted, OnePass PROVE Spec => []RefusedMoveDidNotHappen
    OBVIOUS
<1>1. MoveNow => RefusedMoveDidNotHappen
    BY DEF MoveNow, RefusedMoveDidNotHappen
<1>2. QED BY <1>1, MovesHold, PTL

(* No command takes effect in another UID space, for any number of passes, *)
(* and a MOVE is sent at most once for a target, while passes do not       *)
(* overlap (executeFolderGroup, execute).                                  *)
THEOREM ActionsWriteSafely == Counted => (Spec => []WritesAreSafe)
<1> SUFFICES ASSUME Counted PROVE Spec => []WritesAreSafe
    OBVIOUS
<1>1. Numbered
    BY DEF Counted
<1>2. Spec => []NoWriteAcrossGenerations
    BY <1>1, WritesStayInGeneration
<1>3. CASE OnePass
    <2>1. Spec => []MoveIssuedOnce
        BY <1>3, MovesAreIssuedOnce
    <2>2. NoWriteAcrossGenerations /\ MoveIssuedOnce => WritesAreSafe
        BY DEF WritesAreSafe
    <2>3. QED BY <1>2, <2>1, <2>2, PTL
<1>4. CASE ~OnePass
    <2>1. NoWriteAcrossGenerations => WritesAreSafe
        BY <1>4 DEF WritesAreSafe
    <2>2. QED BY <1>2, <2>1, PTL
<1>5. QED BY <1>3, <1>4

(* The receipts tell the truth: of completion and of confirmed flags for   *)
(* any number of passes, of refused moves while passes do not overlap      *)
(* (finalizeActionStatus, applyFlags, applyMove).                          *)
THEOREM ActionsReportTruly == Counted => (Spec => []ReportsAreTrue)
<1> SUFFICES ASSUME Counted PROVE Spec => []ReportsAreTrue
    OBVIOUS
<1>1. Numbered
    BY DEF Counted
<1>2. Spec => [](CompleteMeansDisposed /\ ConfirmedFlagWasHeld)
    <2>1. Spec => []CompleteMeansDisposed
        BY <1>1, CompleteIsDisposed
    <2>2. Spec => []ConfirmedFlagWasHeld
        BY ConfirmedFlagsWereHeld
    <2>3. QED BY <2>1, <2>2, PTL
<1>3. CASE OnePass
    <2>1. Spec => []RefusedMoveDidNotHappen
        BY <1>3, RefusedMovesDidNotHappen
    <2>2. CompleteMeansDisposed /\ ConfirmedFlagWasHeld /\ RefusedMoveDidNotHappen
            => ReportsAreTrue
        BY DEF ReportsAreTrue
    <2>3. QED BY <1>2, <2>1, <2>2, PTL
<1>4. CASE ~OnePass
    <2>1. CompleteMeansDisposed /\ ConfirmedFlagWasHeld => ReportsAreTrue
        BY <1>4 DEF ReportsAreTrue
    <2>2. QED BY <1>2, <2>1, PTL
<1>5. QED BY <1>3, <1>4

-----------------------------------------------------------------------------
(* Types.  Only a disposition becomes a receipt: what a pass is about to   *)
(* record is one, whatever the mailbox answered.                           *)

Sized == Counted /\ MaxChanges \in Nat /\ MaxCrashes \in Nat

RowsTyped ==
    /\ action \in [Action -> [status : {"none", "complete"} \cup Pending,
                              kind : Kinds \cup {"none"}]]
    /\ item \in [Action -> [Message -> Item]]
    /\ local \in [Message -> Occurrence]

WorldTyped ==
    /\ validity \in [Folder -> {1, 2}] /\ ready \in BOOLEAN
    /\ server \in [Message -> Remote] /\ mailbox \in [Folder -> {0, 1, 2}]
    /\ passesLost \in 0 .. MaxCrashes /\ changes \in 0 .. MaxChanges

NotesTyped ==
    /\ issued \in [Action -> [Message -> Nat]] /\ moved \in [Message -> Action \cup {0}]
    /\ strayed \in BOOLEAN /\ held \in [Action -> SUBSET Message]

Records(q) == q.pc \in {"settle", "receipt"} => q.out.status \in Disposed
RunsTyped == run \in [Run -> RunState] /\ \A w \in Run : Records(run[w])

TypesInv == RowsTyped /\ WorldTyped /\ NotesTyped /\ RunsTyped

LEMMA TypesBegin == Sized /\ Init => TypesInv
<1> SUFFICES ASSUME Sized, Init PROVE TypesInv
    OBVIOUS
<1>1. NoItem \in Item /\ Unseen \in Remote /\ Nothing \in Outcome
    BY DEF NoItem, Item, Reason, Unseen, Remote, Nothing, Answer, Outcome
<1>2. RowsTyped
    BY <1>1 DEF Init, RowsTyped, Occurrence
<1>3. WorldTyped
    BY DEF Init, WorldTyped, Sized, Remote
<1>4. NotesTyped
    BY DEF Init, NotesTyped
<1>5. Idle \in RunState /\ Records(Idle)
    BY <1>1 DEF Idle, RunState, Records, Pc
<1>6. RunsTyped
    BY <1>5 DEF Init, RunsTyped
<1>7. QED BY <1>2, <1>3, <1>4, <1>6 DEF TypesInv

-----------------------------------------------------------------------------
(* The rows.                                                               *)

LEMMA FinalizedTyped ==
    ASSUME RowsTyped, NEW a \in Action, NEW items
    PROVE  [action EXCEPT ![a].status = Finalized(a, items)]
               \in [Action -> [status : {"none", "complete"} \cup Pending,
                               kind : Kinds \cup {"none"}]]
<1>1. PICK s : s = Finalized(a, items)
    OBVIOUS
<1>2. s \in {"none", "complete"} \cup Pending
    BY <1>1 DEF RowsTyped, Finalized, Pending
<1>3. [action EXCEPT ![a].status = s]
          \in [Action -> [status : {"none", "complete"} \cup Pending, kind : Kinds \cup {"none"}]]
    BY <1>2 DEF RowsTyped
<1>4. QED BY <1>1, <1>3

LEMMA ObservedTyped ==
    ASSUME NEW o \in Occurrence, NEW out \in Outcome
    PROVE  Observed(o, out) \in Occurrence
<1>1. out.observed.flag \in BOOLEAN /\ out.observed.modseq \in Nat /\ out.expunge \in BOOLEAN
    BY DEF Outcome, Remote
<1> DEFINE revision == IF o.flag = out.observed.flag THEN o.revision ELSE o.revision + 1
           modseq == IF Condstore THEN out.observed.modseq ELSE o.modseq
<1>2. revision \in Nat /\ modseq \in Nat
    BY <1>1 DEF Occurrence
<1>3. \/ Observed(o, out) = o
      \/ Observed(o, out) = [o EXCEPT !.flag = out.observed.flag, !.revision = revision,
                                      !.modseq = modseq, !.expunged = out.expunge]
    BY DEF Observed
<1> HIDE DEF revision, modseq
<1>4. QED BY <1>1, <1>2, <1>3 DEF Occurrence

LEMMA CommitTyped ==
    ASSUME RowsTyped, NEW a \in Action, NEW m \in Message, NEW out \in Outcome,
           out.status \in Disposed, NEW hold, CommitDisposition(a, m, out, hold)
    PROVE  RowsTyped'
<1>1. CASE UNCHANGED rows
    BY <1>1 DEF rows, RowsTyped
<1>2. CASE ~UNCHANGED rows
    <2>1. /\ item' = [item EXCEPT ![a][m].status = out.status, ![a][m].reason = out.reason]
          /\ local' = [local EXCEPT ![m] = Observed(local[m], out)]
          /\ action' = [action EXCEPT ![a].status = Finalized(a, item'[a])]
        BY <1>2 DEF CommitDisposition, Completion
    <2>2. PICK i : i = [item[a][m] EXCEPT !.status = out.status, !.reason = out.reason]
        OBVIOUS
    <2>3. i \in Item
        <3>1. item[a][m] \in Item /\ out.reason \in Reason
            BY DEF RowsTyped, Outcome
        <3>2. QED BY <2>2, <3>1 DEF Item
    <2>4. item' = [item EXCEPT ![a] = [item[a] EXCEPT ![m] = i]]
        BY <2>1, <2>2 DEF RowsTyped
    <2>5. item' \in [Action -> [Message -> Item]]
        BY <2>3, <2>4 DEF RowsTyped
    <2>6. local' \in [Message -> Occurrence]
        BY <2>1, ObservedTyped DEF RowsTyped
    <2>7. QED BY <2>1, <2>5, <2>6, FinalizedTyped DEF RowsTyped
<1>3. QED BY <1>1, <1>2

LEMMA RestoredTyped ==
    ASSUME NEW i \in Item
    PROVE  RestoredItem(i) \in Item
BY DEF RestoredItem, Item, Reason, Disposed, Pending

-----------------------------------------------------------------------------
(* One pass.                                                               *)

LEMMA PassTyped ==
    ASSUME RunsTyped, NEW w \in Run, NEW q \in RunState, Records(q), run' = [run EXCEPT ![w] = q]
    PROVE  RunsTyped'
<1>1. run' \in [Run -> RunState] /\ run'[w] = q /\ \A v \in Run \ {w} : run'[v] = run[v]
    BY DEF RunsTyped
<1>2. QED BY <1>1 DEF RunsTyped, Records

LEMMA IdleTyped ==
    /\ Idle \in RunState /\ Records(Idle) /\ Unseen \in Remote /\ Nothing \in Outcome
    /\ Failed \in Outcome /\ Lost \in Outcome /\ Failed.status \in Disposed
    /\ Lost.status \in Disposed
<1>1. Unseen \in Remote /\ Nothing \in Outcome /\ Failed \in Outcome /\ Lost \in Outcome
    BY DEF Unseen, Remote, Nothing, Failed, Lost, Answer, Outcome, Disposed, Reason
<1>2. Idle \in RunState /\ Records(Idle)
    BY <1>1 DEF Idle, RunState, Records, Pc
<1>3. QED BY <1>1, <1>2 DEF Failed, Lost, Answer, Disposed

LEMMA LeavesTyped ==
    ASSUME RunsTyped, NEW w \in Run, Leaves(w)
    PROVE  RunsTyped'
<1> DEFINE list == run[w].list \ {Current(w)}
<1>1. list \in SUBSET Action
    BY DEF RunsTyped, RunState
<1> HIDE DEF list
<1>2. PICK q : q = [Idle EXCEPT !.pc = "next", !.list = list]
    OBVIOUS
<1>3. q \in RunState /\ Records(q)
    BY <1>1, <1>2, IdleTyped DEF RunState, Records, Pc
<1>4. run' = [run EXCEPT ![w] = q]
    BY <1>2 DEF Leaves, list
<1>5. QED BY <1>3, <1>4, PassTyped

LEMMA AdvanceTyped ==
    ASSUME RunsTyped, NEW w \in Run, NEW pc \in {"item", "conflict"}, Advance(w, pc)
    PROVE  RunsTyped'
<1> DEFINE todo == run[w].todo \ {Target(w)}
<1>1. todo \in SUBSET Message
    BY DEF RunsTyped, RunState
<1> HIDE DEF todo
<1>2. PICK q : q = [run[w] EXCEPT !.pc = pc, !.out = Nothing, !.todo = todo]
    OBVIOUS
<1>3. q \in RunState /\ Records(q)
    BY <1>1, <1>2, IdleTyped DEF RunsTyped, RunState, Records, Pc
<1>4. run' = [run EXCEPT ![w] = q]
    BY <1>2 DEF Advance, todo, RunsTyped
<1>5. QED BY <1>3, <1>4, PassTyped

LEMMA AnswersTyped ==
    ASSUME RunsTyped, NEW w \in Run, NEW pc \in Pc, NEW out \in Outcome, Answers(w, pc, out),
           pc \in {"settle", "receipt"} => out.status \in Disposed
    PROVE  RunsTyped'
<1>1. PICK q : q = [run[w] EXCEPT !.pc = pc, !.out = out]
    OBVIOUS
<1>2. q \in RunState /\ Records(q)
    BY <1>1 DEF RunsTyped, RunState, Records
<1>3. run' = [run EXCEPT ![w] = q]
    BY <1>1 DEF Answers, RunsTyped
<1>4. QED BY <1>2, <1>3, PassTyped

LEMMA Working ==
    ASSUME Sized, IInv, FlagInv, RunsTyped, NEW w \in Run
    PROVE  /\ run[w] \in RunState /\ Records(run[w])
           /\ run[w].pc \notin Resting => Current(w) \in Action
           /\ run[w].pc \in Acting => Group(w) # {}
           /\ Group(w) # {} => /\ Target(w) \in Message /\ run[w].folder \in Folder
                               /\ FolderOf[Target(w)] = run[w].folder
<1>1. run[w] \in RunState /\ Records(run[w])
    BY DEF RunsTyped
<1>2. QED BY <1>1, PassFacts, Names DEF Sized, Counted, Numbered

LEMMA SeenTyped == ASSUME WorldTyped, NEW m \in Message PROVE Seen(m) \in Remote
BY DEF WorldTyped, Seen, Stranger, Remote

(* The steps of a pass between its records and its commands.               *)
LEMMA WalkTyped ==
    ASSUME Sized, IInv, FlagInv, RunsTyped, NEW w \in Run,
           StartPass(w) \/ ExecuteNext(w) \/ ReloadPending(w) \/ GroupDone(w) \/ Crash(w)
    PROVE  RunsTyped'
<1>1. run[w] \in RunState
    BY Working
<1>2. CASE StartPass(w)
    <2> DEFINE list == {a \in Due : Cardinality({b \in Due : b < a}) < Limit}
    <2>1. list \in SUBSET Action
        BY DEF Due
    <2> HIDE DEF list
    <2>2. PICK q : q = [run[w] EXCEPT !.pc = "next", !.list = list]
        OBVIOUS
    <2>3. q \in RunState /\ Records(q)
        BY <1>1, <2>1, <2>2 DEF RunState, Records, Pc
    <2>4. run' = [run EXCEPT ![w] = q]
        BY <1>2, <2>2 DEF StartPass, RunsTyped, list
    <2>5. QED BY <2>3, <2>4, PassTyped
<1>3. CASE ExecuteNext(w)
    <2>1. CASE run' = [run EXCEPT ![w] = Idle]
        BY <2>1, IdleTyped, PassTyped
    <2>2. CASE Leaves(w)
        BY <2>2, LeavesTyped
    <2>3. CASE run' = [run EXCEPT ![w].pc = "holding", ![w].todo = Holdable(Current(w))]
        <3>1. PICK todo : todo = Holdable(Current(w))
            OBVIOUS
        <3>2. todo \in SUBSET Message
            BY <3>1 DEF Holdable, Interrupted
        <3>3. PICK q : q = [run[w] EXCEPT !.pc = "holding", !.todo = todo]
            OBVIOUS
        <3>4. q \in RunState /\ Records(q)
            BY <1>1, <3>2, <3>3 DEF RunState, Records, Pc
        <3>5. run' = [run EXCEPT ![w] = q]
            BY <2>3, <3>1, <3>3 DEF RunsTyped
        <3>6. QED BY <3>4, <3>5, PassTyped
    <2>4. QED BY <1>3, <2>1, <2>2, <2>3 DEF ExecuteNext
<1>4. CASE ReloadPending(w)
    <2> DEFINE items == item[Current(w)]
               todo == {m \in Message : items[m].status \in Pending}
               was == {m \in Message : items[m].status = "executing"}
    <2>1. todo \in SUBSET Message /\ was \in SUBSET Message
        OBVIOUS
    <2>2. run' = [run EXCEPT ![w].pc = "folder", ![w].todo = todo, ![w].was = was]
        BY <1>4 DEF ReloadPending
    <2> HIDE DEF todo, was
    <2>3. PICK q : q = [run[w] EXCEPT !.pc = "folder", !.todo = todo, !.was = was]
        OBVIOUS
    <2>4. q \in RunState /\ Records(q)
        BY <1>1, <2>1, <2>3 DEF RunState, Records, Pc
    <2>5. run' = [run EXCEPT ![w] = q]
        BY <2>2, <2>3 DEF RunsTyped
    <2>6. QED BY <2>4, <2>5, PassTyped
<1>5. CASE GroupDone(w)
    <2>1. Idle.remote \in [Message -> Remote]
        BY IdleTyped DEF Idle
    <2>2. PICK q : q = [run[w] EXCEPT !.pc = "folder", !.folder = NoFolder, !.selected = 0,
                                      !.remote = Idle.remote]
        OBVIOUS
    <2>3. q \in RunState /\ Records(q)
        BY <1>1, <2>1, <2>2 DEF RunState, Records, Pc
    <2>4. run' = [run EXCEPT ![w] = q]
        BY <1>5, <2>2 DEF GroupDone, RunsTyped
    <2>5. QED BY <2>3, <2>4, PassTyped
<1>6. CASE Crash(w)
    BY <1>6, IdleTyped, PassTyped DEF Crash
<1>7. QED BY <1>2, <1>3, <1>4, <1>5, <1>6

LEMMA SelectTyped ==
    ASSUME Sized, IInv, FlagInv, RunsTyped, WorldTyped, NEW w \in Run, SelectFolder(w)
    PROVE  RunsTyped'
<1> DEFINE f == FolderOf[Least(run[w].todo)]
           remote == [m \in Message |-> IF m \in run[w].todo /\ FolderOf[m] = f
                                        THEN Seen(m) ELSE Unseen]
<1>1. run[w] \in RunState
    BY Working
<1>2. f \in Folder
    <2>1. run[w].todo \subseteq Message /\ run[w].todo # {}
        BY <1>1 DEF RunState, SelectFolder
    <2>2. QED BY <2>1, LeastIsMember DEF Sized, Counted, Numbered
<1>3. remote \in [Message -> Remote]
    BY SeenTyped, IdleTyped
<1>4. \/ Throws(w)
      \/ run' = [run EXCEPT ![w].pc = IF mailbox[f] = validity[f] THEN "item" ELSE "conflict",
                            ![w].folder = f, ![w].selected = mailbox[f], ![w].remote = remote]
    BY DEF SelectFolder
<1> HIDE DEF f, remote
<1>5. CASE Throws(w)
    BY <1>5, IdleTyped, PassTyped DEF Throws
<1>6. CASE ~Throws(w)
    <2>1. PICK pc \in {"item", "conflict"} :
            run' = [run EXCEPT ![w].pc = pc, ![w].folder = f, ![w].selected = mailbox[f],
                               ![w].remote = remote]
        BY <1>4, <1>6
    <2>2. PICK q : q = [run[w] EXCEPT !.pc = pc, !.folder = f, !.selected = mailbox[f],
                                      !.remote = remote]
        OBVIOUS
    <2>3. q \in RunState /\ Records(q)
        <3>1. mailbox[f] \in Nat
            BY <1>2 DEF WorldTyped
        <3>2. QED BY <1>1, <1>2, <1>3, <2>2, <3>1 DEF RunState, Records, Pc
    <2>4. run' = [run EXCEPT ![w] = q]
        BY <2>1, <2>2 DEF RunsTyped
    <2>5. QED BY <2>3, <2>4, PassTyped
<1>7. QED BY <1>5, <1>6

LEMMA VerdictTyped ==
    ASSUME NEW a, NEW m, NEW remote \in Remote
    PROVE  LET out == Verdict(a, m, remote)
           IN  out \in Outcome /\ (out = Nothing \/ out.status \in Disposed)
<1>1. \A seen \in Remote : /\ Conflict("none", seen) \in Outcome
                           /\ Conflict("none", seen).status \in Disposed
    BY DEF Conflict, Answer, Outcome, Disposed, Reason
<1>2. /\ Answer("confirmed", "none", remote, FALSE) \in Outcome
      /\ Answer("confirmed", "none", remote, FALSE).status \in Disposed
    BY DEF Answer, Outcome, Disposed, Reason
<1>3. Verdict(a, m, remote) \in {Conflict("none", Unseen), Nothing,
                                 Answer("confirmed", "none", remote, FALSE)}
    BY DEF Verdict
<1>4. QED BY <1>1, <1>2, <1>3, IdleTyped

LEMMA InspectTyped ==
    ASSUME Sized, IInv, FlagInv, RunsTyped, WorldTyped, NEW w \in Run, Inspect(w)
    PROVE  RunsTyped'
<1> DEFINE verdict == Verdict(Current(w), Target(w), run[w].remote[Target(w)])
           out == IF Revalidated(w) THEN verdict ELSE Nothing
           pc == IF ~Revalidated(w) THEN "conflict"
                 ELSE IF verdict = Nothing THEN "claim" ELSE "settle"
           selected == mailbox[run[w].folder]
<1>1. run[w] \in RunState /\ Target(w) \in Message /\ run[w].folder \in Folder
    BY Working DEF Inspect
<1>2. selected \in Nat
    BY <1>1 DEF WorldTyped
<1>3. run[w].remote[Target(w)] \in Remote
    BY <1>1 DEF RunState
<1>4. verdict \in Outcome /\ (verdict = Nothing \/ verdict.status \in Disposed)
    BY <1>3, VerdictTyped
<1>5. \/ Throws(w)
      \/ run' = [run EXCEPT ![w].selected = selected, ![w].pc = pc, ![w].out = out]
    BY DEF Inspect
<1>6. out \in Outcome /\ pc \in Pc /\ (pc \in {"settle", "receipt"} => out.status \in Disposed)
    <2> HIDE DEF verdict
    <2>1. QED BY <1>4, IdleTyped DEF Pc
<1> HIDE DEF out, pc, selected
<1>7. CASE Throws(w)
    BY <1>7, IdleTyped, PassTyped DEF Throws
<1>8. CASE ~Throws(w)
    <2>1. PICK q : q = [run[w] EXCEPT !.selected = selected, !.pc = pc, !.out = out]
        OBVIOUS
    <2>2. q \in RunState /\ Records(q)
        BY <1>1, <1>2, <1>6, <2>1 DEF RunState, Records
    <2>3. run' = [run EXCEPT ![w] = q]
        BY <1>5, <1>8, <2>1 DEF RunsTyped
    <2>4. QED BY <2>2, <2>3, PassTyped
<1>9. QED BY <1>7, <1>8

(* The steps that record something.                                        *)
LEMMA RecordsTyped ==
    ASSUME Sized, IInv, FlagInv, RowsTyped, RunsTyped, NEW w \in Run,
           ConflictRest(w) \/ Settle(w) \/ Receipt(w)
    PROVE  RowsTyped' /\ RunsTyped'
<1>1. /\ run[w] \in RunState /\ Current(w) \in Action /\ Target(w) \in Message
      /\ run[w].pc \in {"settle", "receipt"} => run[w].out.status \in Disposed
    BY Working DEF ConflictRest, Settle, Receipt, At, Resting, Acting, Writing, Records
<1>2. Conflict("none", Unseen) \in Outcome /\ Conflict("none", Unseen).status \in Disposed
    BY IdleTyped DEF Conflict, Answer, Outcome, Disposed, Reason
<1>3. \E out \in Outcome, hold \in BOOLEAN :
          out.status \in Disposed /\ CommitDisposition(Current(w), Target(w), out, hold)
    BY <1>1, <1>2 DEF ConflictRest, Settle, Receipt, At, RunState
<1>4. RowsTyped'
    BY <1>1, <1>3, CommitTyped
<1>5. Advance(w, "item") \/ Advance(w, "conflict")
    BY DEF ConflictRest, Settle, Receipt
<1>6. QED BY <1>4, <1>5, AdvanceTyped

LEMMA HoldTyped ==
    ASSUME Sized, IInv, FlagInv, RowsTyped, RunsTyped, NEW w \in Run, HoldInterrupted(w)
    PROVE  RowsTyped' /\ RunsTyped'
<1> DEFINE m == Least(run[w].todo)
           out == Answer("unknown", "interrupted", Unseen, FALSE)
           todo == run[w].todo \ {m}
<1>1. run[w] \in RunState /\ Current(w) \in Action
    BY Working DEF HoldInterrupted, At, Resting
<1>2. run[w].todo \subseteq Message /\ run[w].todo # {}
    BY <1>1 DEF RunState, HoldInterrupted
<1>3. m \in Message
    BY <1>2, LeastIsMember DEF Sized, Counted, Numbered
<1>4. out \in Outcome /\ out.status \in Disposed
    BY IdleTyped DEF Answer, Outcome, Disposed, Reason
<1>5. CommitDisposition(Current(w), m, out, FALSE) /\ run' = [run EXCEPT ![w].todo = todo]
    BY DEF HoldInterrupted
<1> HIDE DEF m, out
<1>6. RowsTyped'
    BY <1>1, <1>3, <1>4, <1>5, CommitTyped
<1>7. todo \in SUBSET Message
    BY <1>2
<1> HIDE DEF todo
<1>8. PICK q : q = [run[w] EXCEPT !.todo = todo]
    OBVIOUS
<1>9. q \in RunState /\ Records(q)
    BY <1>1, <1>7, <1>8, Working DEF RunState, Records
<1>10. run' = [run EXCEPT ![w] = q]
    BY <1>5, <1>8 DEF RunsTyped
<1>11. QED BY <1>6, <1>9, <1>10, PassTyped

LEMMA FinishTyped ==
    ASSUME Sized, IInv, FlagInv, RowsTyped, RunsTyped, NEW w \in Run, Finish(w)
    PROVE  RowsTyped' /\ RunsTyped'
<1>1. Current(w) \in Action
    BY Working DEF Finish, At, Resting
<1>2. /\ action' = [action EXCEPT ![Current(w)].status = Finalized(Current(w), item[Current(w)])]
      /\ UNCHANGED <<item, local>> /\ Leaves(w)
    BY DEF Finish
<1>3. RowsTyped'
    BY <1>1, <1>2, FinalizedTyped DEF RowsTyped
<1>4. QED BY <1>2, <1>3, LeavesTyped

LEMMA ClaimTyped ==
    ASSUME Sized, IInv, FlagInv, RowsTyped, RunsTyped, NEW w \in Run, ClaimItem(w)
    PROVE  RowsTyped' /\ RunsTyped'
<1> DEFINE a == Current(w)
           m == Target(w)
<1>1. run[w] \in RunState /\ a \in Action /\ m \in Message
    BY Working DEF ClaimItem, At, Resting, Acting, Writing
<1>2. /\ UNCHANGED <<action, local>>
      /\ item' = item \/ item' = [item EXCEPT ![a][m].status = "executing"]
      /\ Advance(w, "item") \/ Leaves(w) \/ run' = [run EXCEPT ![w].pc = "apply"]
    BY DEF ClaimItem
<1> HIDE DEF a, m
<1>3. item' \in [Action -> [Message -> Item]]
    <2>1. PICK i : i = [item[a][m] EXCEPT !.status = "executing"]
        OBVIOUS
    <2>2. i \in Item
        <3>1. item[a][m] \in Item
            BY <1>1 DEF RowsTyped
        <3>2. "executing" \in {"absent"} \cup Pending \cup Disposed
            BY DEF Pending
        <3>3. QED BY <2>1, <3>1, <3>2 DEF Item
    <2>3. item' = item \/ item' = [item EXCEPT ![a] = [item[a] EXCEPT ![m] = i]]
        BY <1>1, <1>2, <2>1 DEF RowsTyped
    <2>4. PICK items : items = [item[a] EXCEPT ![m] = i]
        OBVIOUS
    <2>5. items \in [Message -> Item]
        BY <1>1, <2>2, <2>4 DEF RowsTyped
    <2>6. item' = item \/ item' = [item EXCEPT ![a] = items]
        BY <2>3, <2>4
    <2>7. QED BY <1>1, <2>5, <2>6 DEF RowsTyped
<1>4. RowsTyped'
    BY <1>2, <1>3 DEF RowsTyped
<1>5. CASE run' = [run EXCEPT ![w].pc = "apply"]
    <2>1. PICK q : q = [run[w] EXCEPT !.pc = "apply"]
        OBVIOUS
    <2>2. q \in RunState /\ Records(q)
        BY <1>1, <2>1 DEF RunState, Records, Pc
    <2>3. run' = [run EXCEPT ![w] = q]
        BY <1>5, <2>1 DEF RunsTyped
    <2>4. QED BY <1>4, <2>2, <2>3, PassTyped
<1>6. QED BY <1>2, <1>4, <1>5, AdvanceTyped, LeavesTyped

-----------------------------------------------------------------------------
(* The commands.                                                           *)

LEMMA NotesKept ==
    ASSUME NotesTyped, NoteFlags, UNCHANGED <<issued, moved>>, strayed' \in BOOLEAN
    PROVE  NotesTyped'
<1>1. held' \in [Action -> SUBSET Message]
    BY DEF NoteFlags, NotesTyped
<1>2. QED BY <1>1 DEF NotesTyped

LEMMA ApplyMoveTyped ==
    ASSUME Sized, IInv, FlagInv, TypesInv, NEW w \in Run, ApplyMove(w)
    PROVE  TypesInv'
<1> DEFINE a == Current(w)
           m == Target(w)
           done == Answer("confirmed", "none", run[w].remote[m], TRUE)
<1>1. run[w] \in RunState /\ a \in Action /\ m \in Message
    BY Working DEF TypesInv, ApplyMove, At, Resting, Acting, Writing
<1>2. done \in Outcome /\ done.status \in Disposed
    <2>1. run[w].remote[m] \in Remote
        BY <1>1 DEF RunState
    <2>2. QED BY <2>1 DEF Answer, Outcome, Disposed, Reason
<1>3. \E out \in {done, Lost, Failed} : Answers(w, "receipt", out)
    BY DEF ApplyMove, MoveAnswers
<1>4. RunsTyped'
    BY <1>2, <1>3, IdleTyped, AnswersTyped DEF TypesInv, Pc
<1>5. /\ issued' = [issued EXCEPT ![a][m] = issued[a][m] + 1] /\ UNCHANGED <<rows, env, held>>
      /\ strayed' = (strayed \/ (Reaches(w) /\ run[w].selected # 1))
      /\ server' = server \/ server' = [server EXCEPT ![m].present = FALSE]
      /\ moved' = moved \/ moved' = [moved EXCEPT ![m] = a]
    BY DEF ApplyMove
<1> HIDE DEF a, m
<1>6. issued' \in [Action -> [Message -> Nat]]
    <2>1. PICK n : n = issued[a][m] + 1
        OBVIOUS
    <2>2. n \in Nat /\ issued[a] \in [Message -> Nat]
        BY <1>1, <2>1 DEF TypesInv, NotesTyped
    <2>3. issued' = [issued EXCEPT ![a] = [issued[a] EXCEPT ![m] = n]]
        BY <1>5, <2>1 DEF TypesInv, NotesTyped
    <2>4. QED BY <2>2, <2>3 DEF TypesInv, NotesTyped
<1>7. moved' \in [Message -> Action \cup {0}] /\ strayed' \in BOOLEAN
    BY <1>1, <1>5 DEF TypesInv, NotesTyped, Reaches
<1>8. server' \in [Message -> Remote]
    BY <1>5 DEF TypesInv, WorldTyped, Remote
<1>9. QED BY <1>4, <1>5, <1>6, <1>7, <1>8
          DEF TypesInv, RowsTyped, WorldTyped, NotesTyped, rows, env

LEMMA WriteFlagTyped ==
    ASSUME Sized, IInv, FlagInv, TypesInv, NEW w \in Run, WriteFlag(w)
    PROVE  TypesInv'
<1> DEFINE m == Target(w)
           value == Desired(Kind(w))
           seq == IF server[m].flag = value THEN server[m].modseq ELSE server[m].modseq + 1
           written == [server[m] EXCEPT !.flag = value, !.modseq = seq]
<1>1. run[w] \in RunState /\ m \in Message /\ server[m] \in Remote
    BY Working DEF TypesInv, WorldTyped, WriteFlag, At, Resting, Acting, Writing
<1>2. value \in BOOLEAN /\ seq \in Nat
    BY <1>1 DEF Desired, Remote
<1>3. \A result \in {"accepted", "rejected"} : Answer(result, "none", Unseen, FALSE) \in Outcome
    BY IdleTyped DEF Answer, Outcome, Reason
<1>4. \/ \E result \in {"accepted", "rejected"} :
            Answers(w, "readback", Answer(result, "none", Unseen, FALSE))
      \/ Answers(w, "receipt", Lost)
    BY DEF WriteFlag, Write
<1>5. RunsTyped'
    BY <1>3, <1>4, IdleTyped, AnswersTyped DEF TypesInv, Pc
<1>6. /\ strayed' = (strayed \/ (Reaches(w) /\ run[w].selected # 1))
      /\ server' = server \/ server' = [server EXCEPT ![m].flag = value, ![m].modseq = seq]
      /\ UNCHANGED <<rows, env, issued, moved>> /\ NoteFlags
    BY DEF WriteFlag
<1> HIDE DEF m, value, seq
<1>7. server' \in [Message -> Remote]
    <2>1. written \in Remote
        BY <1>1, <1>2 DEF Remote
    <2>2. server' = server \/ server' = [server EXCEPT ![m] = written]
        BY <1>1, <1>6 DEF TypesInv, WorldTyped
    <2> HIDE DEF written
    <2>3. QED BY <2>1, <2>2 DEF TypesInv, WorldTyped
<1>8. NotesTyped'
    <2>1. strayed' \in BOOLEAN
        BY <1>6 DEF TypesInv, NotesTyped, Reaches
    <2>2. QED BY <1>6, <2>1, NotesKept DEF TypesInv
<1>9. QED BY <1>5, <1>6, <1>7, <1>8 DEF TypesInv, RowsTyped, WorldTyped, rows, env

LEMMA ReadbackTyped ==
    ASSUME Sized, IInv, FlagInv, TypesInv, NEW w \in Run, Readback(w)
    PROVE  RunsTyped'
<1>1. run[w] \in RunState /\ Target(w) \in Message
    BY Working DEF TypesInv, Readback, At, Resting, Acting, Writing
<1>2. Seen(Target(w)) \in Remote /\ run[w].remote[Target(w)] \in Remote
    BY <1>1, SeenTyped DEF TypesInv, RunState
<1>3. ASSUME NEW back \in Remote
      PROVE  LET out == ReadbackOutcome(w, back)
             IN  out \in Outcome /\ out.status \in Disposed
    <2>1. \A seen \in Remote, reason \in Reason :
             LET out == Conflict(reason, seen) IN out \in Outcome /\ out.status \in Disposed
        BY DEF Conflict, Answer, Outcome, Disposed
    <2>2. LET out == Answer("confirmed", "none", back, FALSE)
          IN  out \in Outcome /\ out.status \in Disposed
        BY DEF Answer, Outcome, Disposed, Reason
    <2>3. {"none", "condstore_rejected"} \subseteq Reason
        BY DEF Reason
    <2>4. back.present \in BOOLEAN
        BY DEF Remote
    <2>5. ReadbackOutcome(w, back) \in
             {Lost, Failed, Conflict("none", run[w].remote[Target(w)]),
              Conflict("condstore_rejected", back), Answer("confirmed", "none", back, FALSE)}
        BY <2>4 DEF ReadbackOutcome
    <2>6. QED BY <1>2, <2>1, <2>2, <2>3, <2>5, IdleTyped
<1>4. \E out \in Outcome : out.status \in Disposed /\ Answers(w, "receipt", out)
    BY <1>2, <1>3, IdleTyped DEF Readback
<1>5. QED BY <1>4, AnswersTyped DEF TypesInv, Pc

-----------------------------------------------------------------------------
(* The mailbox, the sync, the owner and the operator.                      *)

LEMMA SubmitTyped ==
    ASSUME TypesInv, NEW a \in Action, NEW kind \in Kinds, NEW targets \in SUBSET Message,
           Submit(a, kind, targets)
    PROVE  TypesInv'
<1> DEFINE new == [status |-> "queued", kind |-> kind]
           target(m) == [status |-> "queued", reason |-> "none",
                         revision |-> local[m].revision, modseq |-> local[m].modseq]
           items == [m \in Message |-> IF m \in targets THEN target(m) ELSE NoItem]
<1>1. new \in [status : {"none", "complete"} \cup Pending, kind : Kinds \cup {"none"}]
    BY DEF Pending
<1>2. items \in [Message -> Item]
    <2>1. \A m \in Message : local[m].revision \in Nat /\ local[m].modseq \in Nat
        BY DEF TypesInv, RowsTyped, Occurrence
    <2>2. NoItem \in Item
        BY DEF NoItem, Item, Reason
    <2>3. \A m \in Message : target(m) \in Item
        BY <2>1 DEF Item, Pending, Reason
    <2>4. QED BY <2>2, <2>3
<1>3. /\ action' = [action EXCEPT ![a] = new] /\ item' = [item EXCEPT ![a] = items]
      /\ UNCHANGED <<local, run, server, env, issued, moved, strayed>> /\ NoteFlags
    BY DEF Submit
<1> HIDE DEF new, items
<1>4. RowsTyped'
    BY <1>1, <1>2, <1>3 DEF TypesInv, RowsTyped
<1>5. strayed' \in BOOLEAN
    BY <1>3 DEF TypesInv, NotesTyped
<1>6. NotesTyped'
    BY <1>3, <1>5, NotesKept DEF TypesInv
<1>7. QED BY <1>3, <1>4, <1>6 DEF TypesInv, WorldTyped, RunsTyped, env

LEMMA ServerTyped ==
    ASSUME Sized, TypesInv, ServerStep
    PROVE  TypesInv'
<1>1. ASSUME NEW m \in Message, ClientFlags(m) PROVE TypesInv'
    <2>1. PICK r : r = [server[m] EXCEPT !.flag = ~server[m].flag, !.modseq = server[m].modseq + 1]
        OBVIOUS
    <2>2. r \in Remote
        <3>1. server[m] \in Remote /\ server[m].modseq + 1 \in Nat
            BY DEF TypesInv, WorldTyped, Remote
        <3>2. (~server[m].flag) \in BOOLEAN
            BY Zenon
        <3>3. PICK flag \in BOOLEAN : flag = ~server[m].flag
            BY <3>2, Zenon
        <3>4. r = [server[m] EXCEPT !.flag = flag, !.modseq = server[m].modseq + 1]
            BY <2>1, <3>3, Zenon
        <3>5. QED BY <3>1, <3>4 DEF Remote
    <2>3. server' = [server EXCEPT ![m] = r]
        BY <1>1, <2>1 DEF ClientFlags, TypesInv, WorldTyped
    <2>4. changes' \in 0 .. MaxChanges
        BY <1>1 DEF ClientFlags, TypesInv, WorldTyped, Sized
    <2>5. NotesTyped'
        <3>1. UNCHANGED <<issued, moved, strayed>> /\ NoteFlags
            BY <1>1 DEF ClientFlags
        <3>2. strayed' \in BOOLEAN
            BY <3>1 DEF TypesInv, NotesTyped
        <3>3. QED BY <3>1, <3>2, NotesKept DEF TypesInv
    <2>6. UNCHANGED <<rows, run, validity, ready, mailbox, passesLost>>
        BY <1>1 DEF ClientFlags
    <2>7. QED BY <2>2, <2>3, <2>4, <2>5, <2>6
              DEF TypesInv, RowsTyped, WorldTyped, RunsTyped, rows
<1>2. ASSUME NEW m \in Message, ClientRemoves(m) PROVE TypesInv'
    <2>1. server' = [server EXCEPT ![m].present = FALSE] /\ UNCHANGED <<rows, run, env, ghosts>>
        BY <1>2 DEF ClientRemoves
    <2>2. server' \in [Message -> Remote]
        BY <2>1 DEF TypesInv, WorldTyped, Remote
    <2>3. QED BY <2>1, <2>2
              DEF TypesInv, RowsTyped, WorldTyped, NotesTyped, RunsTyped, rows, env, ghosts
<1>3. ASSUME NEW m \in Message, SyncMessage(m) PROVE TypesInv'
    <2>1. PICK o : o = IF ~server[m].present THEN [local[m] EXCEPT !.expunged = TRUE]
                       ELSE [local[m] EXCEPT !.flag = server[m].flag, !.revision = Revised(m)]
        OBVIOUS
    <2>2. local' = [local EXCEPT ![m] = o]
        <3>1. local[m] \in Occurrence
            BY DEF TypesInv, RowsTyped
        <3>2. CASE ~server[m].present
            BY <1>3, <2>1, <3>1, <3>2 DEF SyncMessage, TypesInv, RowsTyped
        <3>3. CASE server[m].present
            <4>1. local' = [local EXCEPT ![m] = [local[m] EXCEPT !.flag = server[m].flag,
                                                 !.revision = Revised(m)]]
                BY <1>3, <3>1, <3>3 DEF SyncMessage, TypesInv, RowsTyped, Occurrence
            <4>2. QED BY <2>1, <3>3, <4>1
        <3>4. QED BY <3>2, <3>3
    <2>3. local[m] \in Occurrence /\ server[m] \in Remote
        BY DEF TypesInv, RowsTyped, WorldTyped
    <2>4. Revised(m) \in Nat /\ server[m].flag \in BOOLEAN
        BY <2>3 DEF Occurrence, Remote, Revised
    <2>5. o \in Occurrence
        BY <2>1, <2>3, <2>4 DEF Occurrence
    <2>6. local' \in [Message -> Occurrence]
        BY <2>2, <2>5 DEF TypesInv, RowsTyped
    <2>7. UNCHANGED <<action, item, run, server, env, ghosts>>
        BY <1>3 DEF SyncMessage
    <2>8. QED BY <2>6, <2>7
              DEF TypesInv, RowsTyped, WorldTyped, NotesTyped, RunsTyped, env, ghosts
<1>4. ASSUME NEW f \in Folder, ServerResets(f) \/ FolderVanishes(f) PROVE TypesInv'
    <2>1. mailbox' \in [Folder -> {0, 1, 2}]
        BY <1>4 DEF ServerResets, FolderVanishes, TypesInv, WorldTyped
    <2>2. UNCHANGED <<rows, run, server, validity, ready, passesLost, changes, ghosts>>
        BY <1>4 DEF ServerResets, FolderVanishes
    <2>3. QED BY <2>1, <2>2
              DEF TypesInv, RowsTyped, WorldTyped, NotesTyped, RunsTyped, rows, ghosts
<1>5. ASSUME NEW f \in Folder, SyncResets(f) PROVE TypesInv'
    <2>1. \A m \in Message : [local[m] EXCEPT !.invalidated = TRUE] \in Occurrence
        BY DEF TypesInv, RowsTyped, Occurrence
    <2>2. local' \in [Message -> Occurrence] /\ validity' \in [Folder -> {1, 2}]
        BY <1>5, <2>1 DEF SyncResets, TypesInv, RowsTyped, WorldTyped
    <2>3. UNCHANGED <<action, item, ready, run, server, mailbox, passesLost, changes, ghosts>>
        BY <1>5 DEF SyncResets
    <2>4. QED BY <2>2, <2>3
              DEF TypesInv, RowsTyped, WorldTyped, NotesTyped, RunsTyped, ghosts
<1>6. QED BY <1>1, <1>2, <1>3, <1>4, <1>5 DEF ServerStep

LEMMA OperatorTyped ==
    ASSUME TypesInv, BeginRecovery \/ \E a \in Action : DispositionRestored(a)
    PROVE  TypesInv'
<1>1. CASE BeginRecovery
    BY <1>1 DEF BeginRecovery, TypesInv, RowsTyped, WorldTyped, NotesTyped, RunsTyped, rows, ghosts
<1>2. ASSUME NEW a \in Action, DispositionRestored(a) PROVE TypesInv'
    <2>1. PICK items : items = [m \in Message |-> RestoredItem(item[a][m])]
        OBVIOUS
    <2>2. items \in [Message -> Item]
        <3>1. \A m \in Message : item[a][m] \in Item
            BY DEF TypesInv, RowsTyped
        <3>2. QED BY <2>1, <3>1, RestoredTyped
    <2>3. /\ action' = [action EXCEPT ![a].status = "complete"]
          /\ item' = [item EXCEPT ![a] = items] /\ UNCHANGED <<local, run, server, env, ghosts>>
        BY <1>2, <2>1 DEF DispositionRestored
    <2>4. RowsTyped'
        BY <2>2, <2>3 DEF TypesInv, RowsTyped
    <2>5. QED BY <2>3, <2>4 DEF TypesInv, WorldTyped, NotesTyped, RunsTyped, env, ghosts
<1>3. QED BY <1>1, <1>2

LEMMA TypesStep == Sized /\ IInv /\ FlagInv /\ TypesInv /\ [Next]_vars => TypesInv'
<1> SUFFICES ASSUME Sized, IInv, FlagInv, TypesInv, [Next]_vars PROVE TypesInv'
    OBVIOUS
<1>1. CASE UNCHANGED vars
    BY <1>1 DEF vars, rows, env, ghosts, TypesInv, RowsTyped, WorldTyped, NotesTyped, RunsTyped
<1>2. ASSUME NEW w \in Run,
             \/ StartPass(w) \/ ExecuteNext(w) \/ ReloadPending(w) \/ GroupDone(w)
             \/ SelectFolder(w) \/ Inspect(w) \/ Readback(w) \/ Unavailable(w)
      PROVE  TypesInv'
    <2>1. ASSUME Unavailable(w) PROVE RunsTyped'
        <3>1. Answers(w, "receipt", Failed) /\ "receipt" \in Pc
            BY <2>1 DEF Unavailable, Pc
        <3>2. QED BY <3>1, IdleTyped, AnswersTyped DEF TypesInv
    <2>2. RunsTyped'
        BY <1>2, <2>1, WalkTyped, SelectTyped, InspectTyped, ReadbackTyped DEF TypesInv
    <2>3. UNCHANGED <<rows, server, env, ghosts>>
        BY <1>2 DEF StartPass, ExecuteNext, ReloadPending, GroupDone, SelectFolder, Inspect,
                    Readback, Unavailable
    <2>4. QED BY <2>2, <2>3 DEF TypesInv, RowsTyped, WorldTyped, NotesTyped, rows, env, ghosts
<1>3. ASSUME NEW w \in Run,
             \/ ConflictRest(w) \/ Settle(w) \/ Receipt(w) \/ HoldInterrupted(w)
             \/ Finish(w) \/ ClaimItem(w)
      PROVE  TypesInv'
    <2>1. RowsTyped' /\ RunsTyped'
        BY <1>3, RecordsTyped, HoldTyped, FinishTyped, ClaimTyped DEF TypesInv
    <2>2. UNCHANGED <<server, env, ghosts>>
        BY <1>3 DEF ConflictRest, Settle, Receipt, HoldInterrupted, Finish, ClaimItem
    <2>3. QED BY <2>1, <2>2 DEF TypesInv, WorldTyped, NotesTyped, env, ghosts
<1>4. ASSUME NEW w \in Run, Crash(w) PROVE TypesInv'
    <2>1. RunsTyped'
        BY <1>4, WalkTyped DEF TypesInv
    <2>2. passesLost' \in 0 .. MaxCrashes
        BY <1>4 DEF Crash, TypesInv, WorldTyped, Sized
    <2>3. UNCHANGED <<rows, validity, ready, server, mailbox, changes, ghosts>>
        BY <1>4 DEF Crash
    <2>4. QED BY <2>1, <2>2, <2>3
              DEF TypesInv, RowsTyped, WorldTyped, NotesTyped, rows, ghosts
<1>5. QED BY <1>1, <1>2, <1>3, <1>4, ApplyMoveTyped, WriteFlagTyped, SubmitTyped, ServerTyped,
             OperatorTyped DEF Next, PassStep

(* Every reachable state of the actions has its type: a pass works on an   *)
(* action and a target that are there, and records a disposition whatever  *)
(* the mailbox answered (executeFolderGroup, TwoWayActionExecutor).        *)
THEOREM ActionsTyped == Sized => (Spec => []TypeOK)
<1> SUFFICES ASSUME Sized PROVE Spec => []TypeOK
    OBVIOUS
<1> DEFINE Inv == IInv /\ FlagInv /\ TypesInv
<1>1. Init => Inv
    BY InitInv, FlagsBegin, TypesBegin DEF Sized, Counted
<1>2. Inv /\ [Next]_vars => Inv'
    BY StepInv, FlagsStep, TypesStep DEF Sized, Counted
<1>3. Inv => TypeOK
    BY DEF TypesInv, RowsTyped, WorldTyped, NotesTyped, RunsTyped, TypeOK
<1>4. QED BY <1>1, <1>2, <1>3, PTL DEF Spec

=============================================================================
