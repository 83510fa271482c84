--------------------------- MODULE OfflineReplay ---------------------------
(***************************************************************************)
(* The offline queue of one device (packages/offline), its replay port and *)
(* the person's review (web/src/offline), against the server's handlers *)
(* (Drafts) for one draft and one file of it.  A pass, an observation of   *)
(* the recovery generation and the person interleave at every await; the   *)
(* page may be closed at each of them.                                     *)
(***************************************************************************)
EXTENDS Naturals, Sequences, FiniteSets, SequencesExt

CONSTANTS
    MaxItems,       \* bound: actions put into the queue
    MaxTrouble,     \* bound: calls refused or lost, retries, page closes,
                    \* edits by another device and restores, together
    MaxAcks         \* bound: rebases the person acknowledges, per action

VARIABLES
    hub,        \* the draft's texts by revision, its lock, snapshots and link
    meta,       \* the generation the device observed, 0 for none yet
    queue,      \* the queued actions
    file,       \* the local upload record
    pass,       \* the replay pass
    watch,      \* observeGeneration in progress
    budget,     \* the trouble left
    held,       \* history: edits the server has accepted
    mailed      \* history: the snapshots accepted

history == <<held, mailed>>
vars == <<hub, meta, queue, file, pass, watch, budget, history>>

Item == 1 .. MaxItems
Kind == {"upload", "save", "mail", "send"}      \* mail: a flag or a move
Foreign == MaxItems + 1                         \* another device's edit
Generation == 1 .. MaxTrouble + 1
Revision == 0 .. MaxItems * (MaxAcks + 1) + MaxTrouble + 1     \* 0: none

Action ==
    [state : {"none", "pending", "review", "failed", "synced", "dropped"}, kind : Kind,
     base : Revision, stamp : Generation \cup {0}, at : 0 .. MaxItems,
     tried : BOOLEAN, acks : 0 .. MaxAcks]

(* answer.revision: the revision a save produced.                          *)
Answers == {"none", "synced", "retry", "signin", "review", "failed"}
Pass ==
    [at : {"idle", "started", "running", "calling", "sent", "answered", "filed"},
     generation : Generation \cup {0}, todo : Seq(Item), copy : Action,
     header : Generation \cup {0}, answer : Answers, revision : Revision]

Unqueued == [state |-> "none", kind |-> "mail", base |-> 0, stamp |-> 0, at |-> 0,
             tried |-> FALSE, acks |-> 0]
Idle == [at |-> "idle", generation |-> 0, todo |-> <<>>, copy |-> Unqueued,
         header |-> 0, answer |-> "none", revision |-> 0]

TypeOK ==
    /\ hub \in [generation : Generation, texts : Seq(0 .. Foreign), linked : BOOLEAN,
                   keys : SUBSET (Item \X (0 .. MaxAcks))]
    /\ meta \in Generation \cup {0}
    /\ queue \in [Item -> Action]
    /\ file \in {"none", "waiting", "acknowledged", "attached"}
    /\ pass \in Pass
    /\ watch \in SUBSET Item /\ budget \in 0 .. MaxTrouble
    /\ held \subseteq 0 .. Foreign
    /\ mailed \subseteq [item : Item, stamp : Generation, generation : Generation,
                         untried : SUBSET Item]

Init ==
    /\ hub = [generation |-> 1, texts |-> <<0>>, linked |-> FALSE, keys |-> {}]
    /\ meta = 0 /\ queue = [i \in Item |-> Unqueued] /\ file = "none"
    /\ pass = Idle /\ watch = {}
    /\ budget = MaxTrouble
    /\ held = {} /\ mailed = {}

-----------------------------------------------------------------------------
(* The person at the device.                                               *)

Pending == {i \in Item : queue[i].state = "pending"}
Entry == {i \in Item : queue[i].state = "none" /\ \A j \in 1 .. i - 1 : queue[j].state # "none"}

(* enqueue: frozen under the generation the device knows.  Two actions may *)
(* carry one timestamp.                                                    *)
Enqueue(i, kind, base) ==
    LET before == IF i = 1 THEN 0 ELSE queue[i - 1].at IN
    /\ i \in Entry /\ meta # 0
    /\ \E at \in {before, before + 1} :
         queue' = [queue EXCEPT ![i] = [Unqueued EXCEPT !.state = "pending", !.kind = kind,
                                            !.base = base, !.stamp = meta, !.at = at]]

(* An edit or a mail action made offline; the edit's number is its item's. *)
EnqueueWork(i, kind, base) ==
    /\ Enqueue(i, kind, base)
    /\ UNCHANGED <<hub, meta, file, pass, watch, budget, history>>

(* The bytes and their action in one write.                                *)
EnqueueUpload(i) ==
    /\ file = "none"
    /\ Enqueue(i, "upload", 0)
    /\ file' = "waiting"
    /\ UNCHANGED <<hub, meta, pass, watch, budget, history>>

(* A send waits until every file of its draft is linked.                   *)
EnqueueSend(i, base) ==
    /\ file \in {"none", "attached"}
    /\ Enqueue(i, "send", base)
    /\ UNCHANGED <<hub, meta, file, pass, watch, budget, history>>

(* attachAcknowledgedUploads, when the editor opens the draft.             *)
AttachInEditor ==
    /\ file = "acknowledged"
    /\ hub' = [hub EXCEPT !.linked = TRUE]
    /\ file' = "attached"
    /\ UNCHANGED <<meta, queue, pass, watch, budget, history>>

(* Dropping an upload drops its bytes.                                     *)
Drop(i) ==
    /\ queue' = [queue EXCEPT ![i] = [Unqueued EXCEPT !.state = "dropped", !.at = queue[i].at]]
    /\ file' = IF queue[i].kind = "upload" THEN "none" ELSE file
    /\ UNCHANGED <<hub, meta, pass, watch, budget, history>>

DiscardReview(i) == queue[i].state = "review" /\ Drop(i)
DiscardFailure(i) == queue[i].state = "failed" /\ Drop(i)

(* resolveReview with a rebase: a send takes a new key, after the warning, *)
(* and the newest revision this device's saves earned; a save takes the    *)
(* revision of the copy it was compared with.                              *)
Rebase(i, base) ==
    LET a == queue[i] IN
    /\ a.state = "review" /\ meta # 0 /\ a.acks < MaxAcks
    /\ CASE a.kind = "save" -> base \in 1 .. Len(hub.texts)
         [] a.kind = "send" -> base \in a.base .. Len(hub.texts) \cup {a.base}
         [] OTHER           -> base = a.base
    /\ queue' = [queue EXCEPT ![i].state = "pending", ![i].stamp = meta, ![i].base = base,
                              ![i].acks = @ + 1]
    /\ UNCHANGED <<hub, meta, file, pass, watch, budget, history>>

RetryFailure(i) ==
    /\ queue[i].state = "failed" /\ budget > 0
    /\ queue' = [queue EXCEPT ![i].state = "pending"]
    /\ budget' = budget - 1
    /\ UNCHANGED <<hub, meta, file, pass, watch, history>>

-----------------------------------------------------------------------------
(* observeGeneration: the generation is stored, then every pending action  *)
(* of another one goes to review, one write at a time and unconditionally. *)
Observe ==
    /\ watch = {} /\ meta # hub.generation
    /\ meta' = hub.generation
    /\ watch' = IF meta = 0 THEN {}
                ELSE {i \in Pending : queue[i].stamp # hub.generation}
    /\ UNCHANGED <<hub, queue, file, pass, budget, history>>

MarkForReview(i) ==
    /\ i \in watch
    /\ queue' = [queue EXCEPT ![i].state = IF @ = "dropped" THEN @ ELSE "review"]
    /\ watch' = watch \ {i}
    /\ UNCHANGED <<hub, meta, file, pass, budget, history>>

-----------------------------------------------------------------------------
(* One replay pass.                                                        *)

Rank(kind) == CASE kind = "upload" -> 0 [] kind = "save" -> 1
                [] kind = "mail" -> 2 [] kind = "send" -> 3

KindBlind(i, j) == queue[i].at < queue[j].at     \* a slip: ties fall by chance

Before(i, j) ==
    \/ queue[i].at < queue[j].at
    \/ queue[i].at = queue[j].at /\ Rank(queue[i].kind) < Rank(queue[j].kind)

(* pendingActions; what Before leaves open is in no order.                 *)
ReplayOrders(items) ==
    {s \in SetToSeqs(items) : \A j, k \in DOMAIN s : Before(s[j], s[k]) => j < k}

StartPass ==
    /\ pass.at = "idle" /\ meta # 0 /\ Pending # {}
    /\ pass' = [pass EXCEPT !.at = "started", !.generation = meta]
    /\ UNCHANGED <<hub, meta, queue, file, watch, budget, history>>

(* reconcileOrphanedUploads gives a waiting file without an action a new   *)
(* one; the model reuses the file's own.                                   *)
Orphans ==
    {i \in Item : /\ file = "waiting" /\ queue[i].kind = "upload"
                  /\ queue[i].state = "synced"}

Reconcile ==
    /\ pass.at = "started"
    /\ queue' = [i \in Item |-> IF i \in Orphans THEN [queue[i] EXCEPT !.state = "pending"]
                                ELSE queue[i]]
    /\ \E todo \in ReplayOrders(Pending \cup Orphans) :
         pass' = [pass EXCEPT !.at = "running", !.todo = todo]
    /\ UNCHANGED <<hub, meta, file, watch, budget, history>>

Current == Head(pass.todo)
EndPass == pass' = Idle
NextItem == pass' = [Idle EXCEPT !.at = "running", !.generation = pass.generation,
                                 !.todo = Tail(pass.todo)]

(* An action of another generation stops the pass.                         *)
StopForRestore ==
    /\ pass.at = "running" /\ pass.todo # <<>>
    /\ queue[Current].stamp # pass.generation
    /\ queue' = [queue EXCEPT ![Current].state = "review"]
    /\ EndPass
    /\ UNCHANGED <<hub, meta, file, watch, budget, history>>

TakeItem ==
    /\ pass.at = "running" /\ pass.todo # <<>>
    /\ queue[Current].stamp = pass.generation
    /\ IF queue[Current].state = "pending"
       THEN /\ pass' = [pass EXCEPT !.at = "calling", !.copy = queue[Current]]
            /\ queue' = [queue EXCEPT ![Current].tried = TRUE]
       ELSE NextItem /\ UNCHANGED queue
    /\ UNCHANGED <<hub, meta, file, watch, budget, history>>

FinishPass ==
    /\ pass.at = "running" /\ pass.todo = <<>>
    /\ EndPass
    /\ UNCHANGED <<hub, meta, queue, file, watch, budget, history>>

-----------------------------------------------------------------------------
(* The port.  Each request carries the generation the device knows now.    *)

Answered(answer, revision) ==
    pass' = [pass EXCEPT !.at = "answered", !.answer = answer, !.revision = revision]

(* A file the server holds already, or one no longer on the device.        *)
AnswerLocally ==
    /\ pass.at = "calling" /\ pass.copy.kind = "upload" /\ file # "waiting"
    /\ Answered(IF file = "none" THEN "failed" ELSE "synced", 0)
    /\ UNCHANGED <<hub, meta, queue, file, watch, budget, history>>

(* queueSend links an acknowledged file before the send, or stops.         *)
AttachFirst ==
    /\ pass.at = "calling" /\ pass.copy.kind = "send"
    /\ \/ /\ file = "waiting"
          /\ Answered("retry", 0)
          /\ UNCHANGED <<hub, file>>
       \/ /\ file = "acknowledged"
          /\ IF meta = hub.generation
             THEN /\ hub' = [hub EXCEPT !.linked = TRUE]
                  /\ file' = "attached"
                  /\ UNCHANGED pass
             ELSE /\ Answered("review", 0)
                  /\ UNCHANGED <<hub, file>>
    /\ UNCHANGED <<meta, queue, watch, budget, history>>

ReplayRequest ==
    /\ pass.at = "calling"
    /\ pass.copy.kind = "upload" => file = "waiting"
    /\ pass.copy.kind = "send" => file \in {"none", "attached"}
    /\ pass' = [pass EXCEPT !.at = "sent", !.header = meta]
    /\ UNCHANGED <<hub, meta, queue, file, watch, budget, history>>

(* The server's handlers.  A key answers for the request it froze; another *)
(* base under the same key is a definitive conflict.                       *)
Locked == hub.keys # {}

SaveAnswer(a) ==
    CASE Locked                               -> "failed"
      [] ~Locked /\ a.base # Len(hub.texts) -> "review"
      [] OTHER                                -> "synced"

SendAnswer(i, a) ==
    CASE <<i, a.acks>> \in hub.keys                   -> "synced"
      [] <<i, a.acks>> \notin hub.keys /\ Locked      -> "failed"
      [] ~Locked /\ a.base # Len(hub.texts)           -> "review"
      [] OTHER                                           -> "synced"

(* The earlier edits that still wait for their first call, but not from a  *)
(* review: one rebased while a pass runs waits for the next pass.          *)
Untried(i) ==
    {j \in Pending : /\ j < i /\ queue[j].kind = "save"
                     /\ ~queue[j].tried /\ queue[j].acks = 0}

Accept(i, a) ==
    LET send == a.kind = "send" /\ <<i, a.acks>> \notin hub.keys
        ok   == CASE a.kind = "save" -> SaveAnswer(a) = "synced"
                  [] a.kind = "send" -> send /\ SendAnswer(i, a) = "synced"
                  [] OTHER -> FALSE
    IN  /\ hub' = CASE ok /\ a.kind = "save" -> [hub EXCEPT !.texts = Append(@, i)]
                       [] ok /\ send -> [hub EXCEPT !.keys = @ \cup {<<i, a.acks>>}]
                       [] OTHER -> hub
        /\ held' = IF ok /\ a.kind = "save" THEN held \cup {i} ELSE held
        /\ mailed' = IF ok /\ send
                     THEN mailed \cup {[item |-> i, stamp |-> a.stamp,
                                        generation |-> hub.generation,
                                        untried |-> Untried(i)]}
                     ELSE mailed

Reply(i, a) ==
    CASE a.kind = "save" -> SaveAnswer(a)
      [] a.kind = "send" -> SendAnswer(i, a)
      [] OTHER -> "synced"

Handle ==
    /\ pass.at = "sent"
    /\ IF pass.header = hub.generation
       THEN Accept(Current, pass.copy) /\ Answered(Reply(Current, pass.copy), Len(hub'.texts))
       ELSE Answered("review", 0) /\ UNCHANGED <<hub, held, mailed>>
    /\ UNCHANGED <<meta, queue, file, watch, budget>>

(* The server's trouble, an ended session or a refusal.                 *)
Refuse ==
    /\ pass.at = "sent" /\ budget > 0
    /\ \E answer \in {"retry", "signin", "failed"} : Answered(answer, 0)
    /\ budget' = budget - 1
    /\ UNCHANGED <<hub, meta, queue, file, watch, history>>

(* The request or its answer is lost: a send is uncertain, the rest tries  *)
(* again.                                                                  *)
ReasonAsState(kind) ==      \* a slip: the reason is stored as the state
    IF kind = "send" THEN "uncertain_send" ELSE "retry"

LostAnswer(kind) == IF kind = "send" THEN "review" ELSE "retry"

LoseCall ==
    /\ pass.at = "sent" /\ budget > 0
    /\ \/ UNCHANGED <<hub, held, mailed>>
       \/ pass.header = hub.generation /\ Accept(Current, pass.copy)
    /\ Answered(LostAnswer(pass.copy.kind), 0)
    /\ budget' = budget - 1
    /\ UNCHANGED <<meta, queue, file, watch>>

-----------------------------------------------------------------------------
(* Settling.  A save that synced chains the waiting work of its draft to   *)
(* the revision it produced.                                               *)
Chained(i, revision) ==
    IF /\ queue[i].state = "pending" /\ queue[i].kind \in {"save", "send"}
       /\ queue[i].base < revision
    THEN [queue[i] EXCEPT !.base = revision] ELSE queue[i]

Forgets(answer) == IF answer = "review" THEN "synced" ELSE answer   \* a slip
State(answer) == IF answer \in {"retry", "signin"} THEN "pending" ELSE answer

Settle ==
    LET answer == pass.answer
        chains == answer = "synced" /\ pass.copy.kind = "save"
    IN  /\ pass.at = "answered"
        /\ queue' = [i \in Item |->
              CASE i = Current /\ answer \in {"retry", "signin"} -> queue[i]
                [] i = Current /\ answer \notin {"retry", "signin"} ->
                     [queue[i] EXCEPT !.state = IF @ = "dropped" THEN @ ELSE State(answer)]
                [] OTHER -> IF chains THEN Chained(i, pass.revision) ELSE queue[i]]
        /\ CASE answer = "synced" /\ pass.copy.kind = "upload" ->
                  pass' = [pass EXCEPT !.at = "filed"]
             [] answer = "signin" -> EndPass
             [] OTHER -> NextItem
        /\ UNCHANGED <<hub, meta, file, watch, budget, history>>

(* markUploadAcknowledged, after the action is settled.                    *)
FileUpload ==
    /\ pass.at = "filed"
    /\ file' = IF file = "waiting" THEN "acknowledged" ELSE file
    /\ NextItem
    /\ UNCHANGED <<hub, meta, queue, watch, budget, history>>

-----------------------------------------------------------------------------
ClosePage ==
    /\ budget > 0 /\ (pass # Idle \/ watch # {})
    /\ pass' = Idle /\ watch' = {}
    /\ budget' = budget - 1
    /\ UNCHANGED <<hub, meta, queue, file, history>>

OtherDeviceEdits ==
    /\ budget > 0 /\ ~Locked
    /\ hub' = [hub EXCEPT !.texts = Append(@, Foreign)]
    /\ budget' = budget - 1
    /\ UNCHANGED <<meta, queue, file, pass, watch, history>>

(* The server comes back from a backup under a new generation.             *)
Restore ==
    /\ budget > 0
    /\ \E n \in 1 .. Len(hub.texts), keys \in {{}, hub.keys} :
         hub' = [hub EXCEPT !.generation = @ + 1, !.texts = SubSeq(@, 1, n), !.keys = keys]
    /\ budget' = budget - 1
    /\ UNCHANGED <<meta, queue, file, pass, watch, history>>

Person ==
    \E i \in Item :
        \/ \E base \in 1 .. Len(hub.texts) : EnqueueWork(i, "save", base)
        \/ EnqueueWork(i, "mail", 0)
        \/ \E base \in 1 .. Len(hub.texts) : EnqueueSend(i, base)
        \/ EnqueueUpload(i)
        \/ \E base \in Revision : Rebase(i, base)
        \/ DiscardReview(i) \/ DiscardFailure(i) \/ RetryFailure(i)

Replay ==
    \/ StartPass \/ Reconcile \/ StopForRestore \/ TakeItem \/ FinishPass
    \/ AnswerLocally \/ AttachFirst \/ ReplayRequest \/ Handle \/ Refuse \/ LoseCall
    \/ Settle \/ FileUpload

Next ==
    \/ Person \/ AttachInEditor \/ Replay
    \/ Observe \/ \E i \in Item : MarkForReview(i)
    \/ ClosePage \/ OtherDeviceEdits \/ Restore

Spec == Init /\ [][Next]_vars

-----------------------------------------------------------------------------
(* An edit made offline is never lost: it waits in the queue, in review or *)
(* with its failure, until the server accepted it or the person dropped    *)
(* it, whatever calls are lost, pages closed and servers restored.         *)
EditsAreKept ==
    \A i \in Item :
        queue[i].kind = "save" /\ queue[i].state = "synced" => i \in held

(* A draft's save reaches the server before its send (replayRank,          *)
(* pendingActions): no mail is accepted while an edit queued before it     *)
(* still waits for its first call.                                         *)
SavesGoFirst == \A m \in mailed : m.untried = {}

(* port.ts:23: every request carries the generation the queue stamped when *)
(* the action was created, so a server restored since never takes it.      *)
(* Not kept: README, section 9.                                            *)
OnlyCurrentWorkReplays == \A m \in mailed : m.stamp = m.generation

(* sync.ts:194: replay goes oldest first, so an older edit of the device   *)
(* never replaces a newer one, unless the person rebased it.               *)
OldestFirst ==
    \A j, k \in DOMAIN hub.texts :
        /\ j < k /\ hub.texts[j] \in Item /\ hub.texts[k] \in Item
        /\ hub.texts[k] < hub.texts[j]
        => queue[hub.texts[k]].acks > 0
=============================================================================
