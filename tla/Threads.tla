------------------------------- MODULE Threads -------------------------------
(***************************************************************************)
(* Threading of one account (packages/sync/src/threads.ts) with the marks  *)
(* its writers leave (packages/ingestion/src/thread-jobs.ts).  A marked    *)
(* row is a job: a pass decides its parent from its own references and the *)
(* rows that hold the identifier, then moves it and its descendants to the *)
(* thread of the chain's root.  Two passes and the imports overlap.        *)
(***************************************************************************)
EXTENDS Naturals, FiniteSets

CONSTANTS Pass,        \* reconciliation passes that may overlap
          MessageRow,  \* every message row the account can have
          Header,      \* [MessageRow -> [id, ref]] as its header block parses
          Full,        \* [MessageRow -> [id, ref]] as its body's parse corrects it
          Bytes,       \* [MessageRow -> content]: copies of one message agree
          Windows      \* the header windows that arrive

VARIABLES messages,    \* the stored rows, by name
          mergedAway,  \* rows a byte-identical duplicate has replaced
          threads,     \* stored thread rows
          threadPass   \* the row each pass has locked, and its decision

vars == <<messages, mergedAway, threads, threadPass>>

None == "none"
Conflicted == "conflicted"
Idle == [row |-> None, link |-> None, parent |-> None]
Thread == 1..(2 * Cardinality(MessageRow))  \* bound on thread rows at once

Init ==
  /\ messages = [r \in {} |-> None] /\ mergedAway = {}
  /\ threads = {}
  /\ threadPass = [p \in Pass |-> Idle]

-----------------------------------------------------------------------------
(* Marks.  A writer that touches a row another transaction has locked      *)
(* waits for it, so what it marks cannot be locked.                        *)

References(rows, ids) == {r \in DOMAIN rows : rows[r].ref \in ids}
MarkThreadJobsDirty(rows, own, ids) == own \cup References(rows, ids)

Locked == {threadPass[p].row : p \in Pass}
Changed(rows) == {r \in DOMAIN messages : r \notin DOMAIN rows \/ rows[r] # messages[r]}

Commit(rows, own, ids) ==
  LET jobs == MarkThreadJobsDirty(rows, own, ids) \cap DOMAIN rows
  IN  /\ (jobs \cup Changed(rows)) \cap Locked = {}
      /\ messages' = [r \in DOMAIN rows |-> [rows[r] EXCEPT !.dirty = @ \/ r \in jobs]]

\* A header window: its rows arrive as jobs of their own.
Import(window) ==
  LET fresh == [r \in DOMAIN messages \cup window |->
                  IF r \in window
                  THEN [id |-> Header[r].id, ref |-> Header[r].ref, parent |-> None,
                        link |-> "pending", thread |-> 0, dirty |-> TRUE, stored |-> FALSE]
                  ELSE messages[r]]
  IN  /\ window \cap (DOMAIN messages \cup mergedAway) = {}
      /\ Commit(fresh, {}, {Header[r].id : r \in window})
      /\ UNCHANGED <<mergedAway, threads, threadPass>>

\* The body of a row is parsed: its identifiers are corrected ...
ApplyIngested(r) ==
  /\ Commit([messages EXCEPT ![r].id = Full[r].id, ![r].ref = Full[r].ref,
                             ![r].stored = TRUE],
            {r}, {messages[r].id, Full[r].id})
  /\ UNCHANGED mergedAway

\* ... or the row merges into the one that already holds these bytes.
MergeDuplicate(r, survivor) ==
  LET moved == [x \in DOMAIN messages \ {r} |->
                  IF messages[x].parent # r THEN messages[x]
                  ELSE IF x = survivor
                  THEN [messages[x] EXCEPT !.parent = None, !.link = "pending"]
                  ELSE [messages[x] EXCEPT !.parent = survivor]]
  IN  /\ Commit(moved, {survivor}, {messages[r].id, Full[r].id})
      /\ mergedAway' = mergedAway \cup {r}

Ingest(r) ==
  /\ r \in DOMAIN messages /\ ~messages[r].stored
  /\ LET same == {x \in DOMAIN messages : messages[x].stored /\ Bytes[x] = Bytes[r]}
     IN  IF same = {} THEN ApplyIngested(r)
         ELSE \E survivor \in same : MergeDuplicate(r, survivor)
  /\ UNCHANGED <<threads, threadPass>>

-----------------------------------------------------------------------------
(* Links.                                                                  *)

\* The rows a walk over the parents reaches: the least set that holds the
\* start and is left by no parent.
UpwardClosed(rows, S) == \A x \in S : rows[x].parent \in S \cup {None}
Chain(rows, start) ==
  {x \in DOMAIN rows : \A S \in SUBSET DOMAIN rows :
                         start \in S /\ UpwardClosed(rows, S) => x \in S}
ChainReaches(rows, start, target) == target \in Chain(rows, start)

\* A chain that meets itself has the last row of the walk for its root.
LastReached(rows, start) ==
  CHOOSE x \in Chain(rows, start) :
    LET entry == rows[x].parent
    IN  /\ ChainReaches(rows, entry, x)
        /\ entry = start \/ \E y \in Chain(rows, start) \ {x} : rows[y].parent = entry
ChainRoot(rows, start) ==
  LET top == {x \in Chain(rows, start) : rows[x].parent = None}
  IN  IF top = {} THEN LastReached(rows, start) ELSE CHOOSE x \in top : TRUE
Subtree(rows, r) == {x \in DOMAIN rows : ChainReaches(rows, x, r)}

Holders(rows, id) == {x \in DOMAIN rows : rows[x].id = id}
Decision(link, parent) == [link |-> link, parent |-> parent]
DecideLink(rows, r) ==
  LET ref == rows[r].ref
      holders == Holders(rows, ref)
  IN  CASE ref = None -> Decision("root", None)
        [] ref # None /\ (ref = Conflicted \/ ref = rows[r].id) -> Decision("ambiguous", None)
        [] ref \notin {None, Conflicted, rows[r].id} /\ holders = {} -> Decision("pending", None)
        [] ref \notin {None, Conflicted, rows[r].id} /\ Cardinality(holders) > 1 ->
             Decision("ambiguous", None)
        [] OTHER ->
             LET h == CHOOSE x \in holders : TRUE
             IN  IF ChainReaches(rows, h, r) THEN Decision("ambiguous", None)
                 ELSE Decision("linked", h)

\* One decision at a time per account; the row stays locked until it commits.
NoAdvisoryLock(r) == r \notin Locked
AdvisoryLock(r) == Locked = {None}

Decide(p, r) ==
  /\ threadPass[p] = Idle /\ r \in DOMAIN messages /\ messages[r].dirty
  /\ AdvisoryLock(r) /\ threads # Thread
  /\ LET d == DecideLink(messages, r)
     IN  threadPass' = [threadPass EXCEPT ![p] = [row |-> r, link |-> d.link, parent |-> d.parent]]
  /\ UNCHANGED <<messages, mergedAway, threads>>

-----------------------------------------------------------------------------
(* Membership.                                                             *)

\* A row that lost its parent does not keep the thread it had from it.
NeverDetached(old, r, parent, root) == FALSE
Detached(old, r, parent, root) == root = r /\ old.parent # None /\ parent = None

Resolve(p) ==
  LET r == threadPass[p].row
      linked == [messages EXCEPT ![r].parent = threadPass[p].parent, ![r].link = threadPass[p].link]
      root == ChainRoot(linked, r)
      fresh == Detached(messages[r], r, threadPass[p].parent, root) \/ linked[root].thread = 0
      t == IF fresh THEN CHOOSE n \in Thread : n \notin threads ELSE linked[root].thread
      rooted == IF fresh THEN [linked EXCEPT ![root].thread = t] ELSE linked
      moved == Subtree(linked, r)
  IN  /\ messages' = [x \in DOMAIN messages |->
                    [rooted[x] EXCEPT !.thread = IF x \in moved THEN t ELSE rooted[x].thread,
                                      !.dirty = messages[x].dirty /\ x # r]]
      /\ threads' = threads \cup {t}

\* The parent may have been merged away meanwhile: its key refuses the link.
Finish(p) ==
  /\ threadPass[p] # Idle
  /\ threadPass' = [threadPass EXCEPT ![p] = Idle]
  /\ IF threadPass[p].parent \in DOMAIN messages \cup {None} THEN Resolve(p)
     ELSE UNCHANGED <<messages, threads>>
  /\ UNCHANGED <<mergedAway>>

\* Drafts and snapshots, which also keep a thread row, are left out.
PruneDetachedThreads ==
  /\ threads' = {messages[r].thread : r \in DOMAIN messages} \ {0}
  /\ threads' # threads
  /\ UNCHANGED <<messages, mergedAway, threadPass>>

Next ==
  \/ \E window \in Windows : Import(window)
  \/ \E r \in MessageRow : Ingest(r) \/ \E p \in Pass : Decide(p, r)
  \/ \E p \in Pass : Finish(p)
  \/ PruneDetachedThreads
Spec == Init /\ [][Next]_vars

-----------------------------------------------------------------------------
TypeOK ==
  /\ DOMAIN messages \subseteq MessageRow \ mergedAway
  /\ threads \subseteq Thread
  /\ \A r \in DOMAIN messages :
       /\ messages[r].link \in {"root", "pending", "linked", "ambiguous"}
       /\ messages[r].thread \in threads \cup {0}

Settled(r) == ~messages[r].dirty /\ r \notin Locked

(* A parent cycle: the parent of each of its rows is one of them.          *)
Cycle(rows, S) == S # {} /\ \A r \in S : rows[r].parent \in S

(* Whatever passes, imports and merges overlap, every parent cycle has a   *)
(* row that is still to be decided, which will break it, and no link is    *)
(* left that the headers do not support: a settled row is linked to the    *)
(* only holder of the identifier it names, and is pending only while       *)
(* nobody holds it (decideLink, markThreadJobsDirty, the account's lock).  *)
LinksAreSound ==
  /\ \A S \in SUBSET DOMAIN messages : Cycle(messages, S) => \E r \in S : messages[r].dirty
  /\ \A r \in DOMAIN messages : Settled(r) =>
       /\ messages[r].link = "linked" => Holders(messages, messages[r].ref) = {messages[r].parent}
       /\ messages[r].link = "pending" => Holders(messages, messages[r].ref) = {}
       /\ messages[r].link = "root" <=> messages[r].ref = None
       /\ messages[r].link = "linked" <=> messages[r].parent # None

(* When no job is left, a conversation is one thread and a thread is one   *)
(* conversation: linked rows share their root's thread and two roots never *)
(* share one (reconcileRow, propagateThread, the fresh thread of a         *)
(* detached row).                                                          *)
ThreadsFollowLinks ==
  (\A r \in DOMAIN messages : Settled(r)) =>
    \A r, s \in DOMAIN messages :
      messages[r].thread = messages[s].thread <=> ChainRoot(messages, r) = ChainRoot(messages, s)

(* The comment of chainRoot: "no validated link can ever form a cycle".    *)
(* Not kept: README, section 9.                                            *)
LinksFormNoCycle == \A S \in SUBSET DOMAIN messages : ~Cycle(messages, S)
=============================================================================
