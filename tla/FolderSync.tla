----------------------------- MODULE FolderSync -----------------------------
(***************************************************************************)
(* One IMAP folder and the sync cycles that mirror it (packages/sync):     *)
(* BackfillService.runBatch, SteadyStateService.pollFolder (arrivals, then *)
(* expunges, then flags), ReconciliationService.inventoryFolder and        *)
(* resetFolderGeneration, as SyncRunner.synchronizeFolder calls them.      *)
(*                                                                         *)
(* Cycles overlap.  A step is one transaction, one read of the database,   *)
(* or one exchange with the server; a SELECT and the SEARCH that follows   *)
(* it are one exchange, since what arrives in between lies above the bound *)
(* of the search.  UIDVALIDITY 0 is a folder never contacted, and 0 stands *)
(* for every other null of the row.                                        *)
(***************************************************************************)
EXTENDS Naturals, FiniteSets

CONSTANTS
    Cycle,          \* sync cycles that can be under way at once
    WindowSize,     \* UIDs in one backfill window
    ArrivalBatch,   \* messages in one arrival batch
    RepairLimit,    \* repairs in one inventory
    FirstContact,   \* whether the hub is yet to contact the folder
    MaxUid,         \* bound: UIDs the server assigns in one UID space
    MaxValidity,    \* bound: UID spaces of the folder
    MaxFlags,       \* bound: flag changes by other clients
    MaxCrashes      \* bound: cycles lost to a crash or a dead session

VARIABLES
    box,        \* the folder on the server
    folder,     \* the folders row
    occ,        \* the message_occurrences rows, by UIDVALIDITY and UID
    cycle,      \* what each cycle is doing
    flips, cycleCrashes

vars == <<box, folder, occ, cycle, flips, cycleCrashes>>

Uid == 1 .. MaxUid
Validity == 1 .. MaxValidity

Box == [validity : Validity, next : 1 .. MaxUid + 1,
        present : SUBSET Uid, flagged : SUBSET Uid]

Folder == [validity : Validity \cup {0}, upper : 0 .. MaxUid,
           before : 0 .. MaxUid + 1, complete : BOOLEAN, arrival : 0 .. MaxUid]

(* from is not stored: it is the UID space the header was fetched in.      *)
Occurrence == [status : {"none", "active", "expunged", "invalidated"},
               flagged : BOOLEAN, from : Validity \cup {0}]

NoOccurrence == [status |-> "none", flagged |-> FALSE, from |-> 0]

Task == {"none", "backfill", "arrivals", "expunges", "flags", "inventory"}

Pc == {"idle", "select", "initialize", "fetch", "snapshot", "compare",
       "recheck", "commit", "reset"}

Memory ==
    [pc : Pc, task : Task,
     row : Folder,              \* the row it loaded
     gen : Validity \cup {0},   \* the UIDVALIDITY it works under
     bound : 0 .. MaxUid,       \* UIDNEXT - 1; of a window, its lowest UID
     want : SUBSET Uid,         \* UIDs a search returned and still to do
     got : SUBSET Uid,          \* what it fetched, with flags and UID space
     flagged : SUBSET Uid,
     from : Validity \cup {0},
     absent : SUBSET Uid,       \* occurrences it found no message for
     observed : Validity \cup {0}]

NewFolder == [validity |-> 0, upper |-> 0, before |-> 0,
              complete |-> FALSE, arrival |-> 0]

Idle == [pc |-> "idle", task |-> "none", row |-> NewFolder, gen |-> 0,
         bound |-> 0, want |-> {}, got |-> {}, flagged |-> {}, from |-> 0,
         absent |-> {}, observed |-> 0]

TypeOK ==
    /\ box \in Box /\ folder \in Folder
    /\ occ \in [Validity -> [Uid -> Occurrence]]
    /\ cycle \in [Cycle -> Memory]
    /\ flips \in 0 .. MaxFlags /\ cycleCrashes \in 0 .. MaxCrashes

(* The folder may hold mail already.  Without FirstContact it is as a      *)
(* reset leaves it: a recorded UIDVALIDITY and no checkpoint.              *)
Init ==
    /\ \E n \in 0 .. MaxUid :
        box = [validity |-> 1, next |-> n + 1, present |-> 1 .. n, flagged |-> {}]
    /\ folder = [NewFolder EXCEPT !.validity = IF FirstContact THEN 0 ELSE 1]
    /\ occ = [v \in Validity |-> [u \in Uid |-> NoOccurrence]]
    /\ cycle = [c \in Cycle |-> Idle]
    /\ flips = 0 /\ cycleCrashes = 0

Smaller(a, b) == IF a < b THEN a ELSE b
Larger(a, b) == IF a < b THEN b ELSE a
Lowest(S, n) == {u \in S : Cardinality({k \in S : k < u}) < n}
Highest(S, n) == {u \in S : Cardinality({k \in S : k > u}) < n}
Greatest(S) == CHOOSE u \in S : \A k \in S : k <= u

At(c, pc) == cycle[c].pc = pc
Goes(c, pc) == cycle' = [cycle EXCEPT ![c].pc = pc]
Ends(c) == cycle' = [cycle EXCEPT ![c] = Idle]

-----------------------------------------------------------------------------
(* The stages of a cycle.  The runner's own look at the row only spares a  *)
(* call whose guards come to the same; polls and inventories are started   *)
(* when their interval has passed.                                         *)

Begin(c, task) ==
    /\ At(c, "idle")
    /\ task = "backfill" => ~folder.complete
    /\ task = "arrivals" => folder.validity # 0
    /\ task = "inventory" => folder.complete
    /\ cycle' = [cycle EXCEPT ![c] =
                    [Idle EXCEPT !.pc = "select", !.task = task, !.row = folder]]
    /\ UNCHANGED <<box, folder, occ, flips, cycleCrashes>>

Uninitialized(row) == row.validity = 0 \/ row.before = 0

IgnoresChange(c, recorded, observed) == Ends(c)     \* a slip: nobody resets

(* A UIDVALIDITY other than the recorded one: applyReset follows.          *)
Changed(c, recorded, observed) ==
    cycle' = [cycle EXCEPT ![c] =
                [Idle EXCEPT !.pc = "reset", !.gen = recorded, !.observed = observed]]

NextUid == box.next         \* a slip: UIDNEXT is taken for a UID

NewestUid == box.next - 1

Low(row) == Larger(1, row.before - WindowSize)

(* The next window below the boundary that the row records.                *)
SearchWindow(c, row) ==
    cycle' = [cycle EXCEPT
                ![c].pc = "fetch", ![c].row = NewFolder, ![c].gen = row.validity,
                ![c].bound = Low(row),
                ![c].want = box.present \cap (Low(row) .. row.before - 1)]

SearchArrivals(c) ==
    LET row == cycle[c].row
        bound == NewestUid IN
    cycle' = [cycle EXCEPT
                ![c].gen = row.validity, ![c].bound = bound, ![c].row = NewFolder,
                ![c].pc = IF bound <= row.arrival THEN "snapshot" ELSE "fetch",
                ![c].want = IF bound <= row.arrival THEN {}
                            ELSE box.present \cap (row.arrival + 1 .. bound)]

SearchAll(c) ==
    cycle' = [cycle EXCEPT
                ![c].pc = "compare", ![c].gen = cycle[c].row.validity,
                ![c].bound = NewestUid, ![c].want = box.present]

Select(c) ==
    LET row == cycle[c].row
        task == cycle[c].task IN
    /\ At(c, "select")
    /\ IF row.validity \notin {0, box.validity}
       THEN Changed(c, row.validity, box.validity)
       ELSE IF task = "backfill" /\ Uninitialized(row)
       THEN cycle' = [cycle EXCEPT ![c].pc = "initialize", ![c].gen = box.validity,
                                   ![c].bound = NewestUid]
       ELSE IF Uninitialized(row) THEN Ends(c)
       ELSE CASE task = "backfill" -> SearchWindow(c, row)
              [] task = "arrivals" -> SearchArrivals(c)
              [] task = "inventory" -> SearchAll(c)
    /\ UNCHANGED <<box, folder, occ, flips, cycleCrashes>>

(* initializeCheckpoints: the first to lock the row sets both checkpoints, *)
(* another keeps them and goes on with its window.                         *)
Initialize(c) ==
    LET gen == cycle[c].gen
        bound == cycle[c].bound IN
    /\ At(c, "initialize")
    /\ IF folder.validity \notin {0, gen}
       THEN Changed(c, gen, folder.validity) /\ UNCHANGED folder
       ELSE IF ~Uninitialized(folder)
       THEN /\ IF folder.complete THEN Ends(c) ELSE SearchWindow(c, folder)
            /\ UNCHANGED folder
       ELSE /\ folder' = [validity |-> gen, upper |-> bound, before |-> bound + 1,
                          complete |-> bound = 0, arrival |-> bound]
            /\ Ends(c)
    /\ UNCHANGED <<box, occ, flips, cycleCrashes>>

-----------------------------------------------------------------------------
(* Fetching and committing.                                                *)

Window(c) ==
    CASE cycle[c].task = "arrivals" -> Lowest(cycle[c].want, ArrivalBatch)
      [] cycle[c].task = "inventory" -> Highest(cycle[c].want, RepairLimit)
      [] OTHER -> cycle[c].want

Fetch(c) ==
    /\ At(c, "fetch")
    /\ cycle' = [cycle EXCEPT
                    ![c].pc = "recheck",
                    ![c].got = Window(c) \cap box.present,
                    ![c].flagged = Window(c) \cap box.flagged,
                    ![c].from = box.validity]
    /\ UNCHANGED <<box, folder, occ, flips, cycleCrashes>>

NoRecheck(c) == TRUE        \* a slip: what was fetched is not discarded

SameValidity(c) == box.validity = cycle[c].gen

(* revalidate, after the fetch and before the commit.                      *)
Recheck(c) ==
    /\ At(c, "recheck")
    /\ IF SameValidity(c) THEN Goes(c, "commit")
       ELSE Changed(c, cycle[c].gen, box.validity)
    /\ UNCHANGED <<box, folder, occ, flips, cycleCrashes>>

(* importHeaderRecord: a UID that has a row keeps it.                      *)
Imported(rows, m) ==
    [u \in Uid |-> IF u \in m.got /\ rows[u].status = "none"
                   THEN [status |-> "active", flagged |-> u \in m.flagged,
                         from |-> m.from]
                   ELSE rows[u]]

Expunged(rows, S) ==
    [u \in Uid |-> IF u \in S /\ rows[u].status = "active"
                   THEN [rows[u] EXCEPT !.status = "expunged"] ELSE rows[u]]

Flagged(rows, m) ==
    [u \in Uid |-> IF u \in m.got /\ rows[u].status = "active"
                   THEN [rows[u] EXCEPT !.flagged = u \in m.flagged] ELSE rows[u]]

Committed(rows, m) ==
    CASE m.task \in {"backfill", "arrivals"} -> Imported(rows, m)
      [] m.task = "inventory" -> Expunged(Imported(rows, m), m.absent)
      [] m.task = "expunges" -> Expunged(rows, m.absent)
      [] m.task = "flags" -> Flagged(rows, m)

(* The boundary moves below the scanned window, the arrival checkpoint up  *)
(* to what the batch covered; the last batch covers the bound.             *)
CoveredUpTo(m, window) ==
    IF window = m.want THEN m.bound ELSE Greatest(window)

LatestCheckpoint(row, m, window) ==     \* a slip: the last commit wins
    CASE m.task = "backfill" ->
            [row EXCEPT !.before = m.bound, !.complete = m.bound <= 1]
      [] m.task = "arrivals" -> [row EXCEPT !.arrival = CoveredUpTo(m, window)]
      [] OTHER -> row

Checkpoint(row, m, window) ==
    CASE m.task = "backfill" ->
            LET before == Smaller(row.before, m.bound)
            IN  [row EXCEPT !.before = before, !.complete = @ \/ before <= 1]
      [] m.task = "arrivals" ->
            [row EXCEPT !.arrival = Larger(@, CoveredUpTo(m, window))]
      [] OTHER -> row

ToFlags(c) ==
    cycle' = [cycle EXCEPT ![c] = [Idle EXCEPT !.pc = "compare", !.task = "flags",
                                               !.gen = cycle[c].gen]]

(* What a stage does after its commit: a poll goes from batch to batch, to *)
(* the expunges, to the flags.                                             *)
Continues(c, window) ==
    LET rest == cycle[c].want \ window IN
    CASE cycle[c].task = "arrivals" ->
            cycle' = [cycle EXCEPT ![c].pc = IF rest = {} THEN "snapshot" ELSE "fetch",
                                   ![c].want = rest, ![c].got = {},
                                   ![c].flagged = {}, ![c].from = 0]
      [] cycle[c].task = "expunges" -> ToFlags(c)
      [] OTHER -> Ends(c)

UncheckedCommit(c) == TRUE      \* a slip: the locked row is not compared

StillCurrent(c) == folder.validity = cycle[c].gen

Commit(c) ==
    LET m == cycle[c]
        window == Window(c) IN
    /\ At(c, "commit")
    /\ IF StillCurrent(c)
       THEN /\ occ' = [occ EXCEPT ![m.gen] = Committed(@, m)]
            /\ folder' = Checkpoint(folder, m, window)
            /\ Continues(c, window)
       ELSE /\ Changed(c, m.gen, IF m.task \in {"backfill", "arrivals"}
                                 THEN folder.validity ELSE m.gen)
            /\ UNCHANGED <<occ, folder>>
    /\ UNCHANGED <<box, flips, cycleCrashes>>

-----------------------------------------------------------------------------
(* Expunges, flags and the inventory.                                      *)

(* markExpunges: the bound and the set of UIDs.                            *)
Snapshot(c) ==
    /\ At(c, "snapshot")
    /\ cycle' = [cycle EXCEPT ![c].pc = "compare", ![c].task = "expunges",
                              ![c].bound = NewestUid, ![c].want = box.present]
    /\ UNCHANGED <<box, folder, occ, flips, cycleCrashes>>

WithoutBound(m) ==          \* a slip: arrivals after the snapshot are judged
    {u \in Uid : occ[m.gen][u].status = "active" /\ u \notin m.want}

Absent(m) ==
    {u \in Uid : /\ u <= m.bound /\ u \notin m.want
                 /\ occ[m.gen][u].status = "active"}

CompareExpunges(c) ==
    LET absent == Absent(cycle[c]) IN
    /\ At(c, "compare") /\ cycle[c].task = "expunges"
    /\ IF absent = {} THEN ToFlags(c)
       ELSE cycle' = [cycle EXCEPT ![c].pc = "recheck", ![c].absent = absent,
                                   ![c].want = {}, ![c].bound = 0]
    /\ UNCHANGED <<box, folder, occ, flips, cycleCrashes>>

(* refreshFlags, one page: only a changed observation is written.          *)
CompareFlags(c) ==
    LET rows == occ[cycle[c].gen]
        changed == {u \in box.present : /\ rows[u].status = "active"
                                        /\ rows[u].flagged # (u \in box.flagged)} IN
    /\ At(c, "compare") /\ cycle[c].task = "flags"
    /\ IF changed = {} THEN Ends(c)
       ELSE cycle' = [cycle EXCEPT ![c].pc = "recheck", ![c].got = changed,
                                   ![c].flagged = changed \cap box.flagged]
    /\ UNCHANGED <<box, folder, occ, flips, cycleCrashes>>

(* coveredRange: what both scans should have reached.                      *)
CoveredRange(row) ==
    {u \in Uid : \/ row.upper < u /\ u <= row.arrival
                 \/ row.complete /\ u <= Larger(row.upper, row.arrival)}

CompareInventory(c) ==
    LET m == cycle[c]
        missed == {u \in m.want \cap CoveredRange(m.row) :
                        occ[m.gen][u].status = "none"} IN
    /\ At(c, "compare") /\ m.task = "inventory"
    /\ cycle' = [cycle EXCEPT ![c].pc = IF missed = {} THEN "recheck" ELSE "fetch",
                              ![c].absent = Absent(m), ![c].want = missed,
                              ![c].row = NewFolder, ![c].bound = 0]
    /\ UNCHANGED <<box, folder, occ, flips, cycleCrashes>>

Invalidated(rows) ==
    [u \in Uid |-> IF rows[u].status # "none"
                   THEN [rows[u] EXCEPT !.status = "invalidated"] ELSE rows[u]]

(* resetFolderGeneration, guarded by the recorded UIDVALIDITY.             *)
ResetApplies(recorded, observed) ==
    folder.validity \notin {0, observed} /\ folder.validity = recorded

Reset(c) ==
    LET observed == cycle[c].observed IN
    /\ At(c, "reset")
    /\ IF ResetApplies(cycle[c].gen, observed)
       THEN /\ folder' = [NewFolder EXCEPT !.validity = observed]
            /\ occ' = [occ EXCEPT ![folder.validity] = Invalidated(@)]
       ELSE UNCHANGED <<folder, occ>>
    /\ Ends(c)
    /\ UNCHANGED <<box, flips, cycleCrashes>>

-----------------------------------------------------------------------------
(* The mailbox, and crashes.                                               *)

Deliver ==
    /\ box.next <= MaxUid
    /\ box' = [box EXCEPT !.next = @ + 1, !.present = @ \cup {box.next}]
    /\ UNCHANGED <<folder, occ, cycle, flips, cycleCrashes>>

Expunge(u) ==
    /\ u \in box.present
    /\ box' = [box EXCEPT !.present = @ \ {u}, !.flagged = @ \ {u}]
    /\ UNCHANGED <<folder, occ, cycle, flips, cycleCrashes>>

Flag(u) ==
    /\ u \in box.present /\ flips < MaxFlags
    /\ flips' = flips + 1
    /\ box' = [box EXCEPT !.flagged =
                IF u \in @ THEN @ \ {u} ELSE @ \cup {u}]
    /\ UNCHANGED <<folder, occ, cycle, cycleCrashes>>

(* A new UID space: UIDVALIDITY grows, the messages are numbered anew.     *)
Renumber ==
    /\ box.validity < MaxValidity
    /\ LET n == Cardinality(box.present) IN
       box' = [validity |-> box.validity + 1, next |-> n + 1,
               present |-> 1 .. n, flagged |-> {}]
    /\ UNCHANGED <<folder, occ, cycle, flips, cycleCrashes>>

Crash(c) ==
    /\ ~At(c, "idle") /\ cycleCrashes < MaxCrashes
    /\ cycleCrashes' = cycleCrashes + 1
    /\ Ends(c)
    /\ UNCHANGED <<box, folder, occ, flips>>

-----------------------------------------------------------------------------
CycleStep(c) ==
    \/ Select(c) \/ Initialize(c) \/ Fetch(c) \/ Recheck(c) \/ Commit(c)
    \/ Snapshot(c) \/ CompareExpunges(c) \/ CompareFlags(c)
    \/ CompareInventory(c) \/ Reset(c)

ServerStep == Deliver \/ Renumber \/ \E u \in Uid : Expunge(u) \/ Flag(u)

Next ==
    \/ \E c \in Cycle :
        \/ \E task \in {"backfill", "arrivals", "inventory"} : Begin(c, task)
        \/ CycleStep(c)
        \/ Crash(c)
    \/ ServerStep

Spec == Init /\ [][Next]_vars

(* A cycle in a live process goes on; backfill and poll come back in every *)
(* round of cycles.                                                        *)
Fairness ==
    /\ \A c \in Cycle : WF_vars(CycleStep(c))
    /\ SF_vars(\E c \in Cycle : Begin(c, "backfill"))
    /\ SF_vars(\E c \in Cycle : Begin(c, "arrivals"))

FairSpec == Spec /\ Fairness

-----------------------------------------------------------------------------
(* Properties.                                                             *)

(* The UIDs that the checkpoints say were scanned, in either direction.    *)
Scanned ==
    {u \in Uid : /\ folder.before # 0
                 /\ \/ folder.before <= u /\ u <= folder.upper
                    \/ folder.upper < u /\ u <= folder.arrival}

(* Mail below a checkpoint is never looked for again, so it must be there: *)
(* each message of the folder that was scanned is listed, whatever cycles  *)
(* overlapped, and no message that is there is marked expunged.            *)
ScannedMailIsListed ==
    folder.validity = box.validity =>
        \A u \in box.present \cap Scanned :
            occ[folder.validity][u].status = "active"

(* A row holds the message its UID names: nothing fetched in one UID space *)
(* is committed under another (the recheck before each commit).            *)
RowsAreTrue ==
    \A v \in Validity, u \in Uid :
        occ[v][u].status # "none" => occ[v][u].from = v

(* Only the current UID space has active rows: a window in flight when the *)
(* folder was reset leaves nothing behind (the locked comparison).         *)
OnlyCurrentIsActive ==
    \A v \in Validity, u \in Uid :
        occ[v][u].status = "active" => v = folder.validity

(* The mirror of the folder: what the checkpoints claim is listed, rows    *)
(* are true to their UID space, and only the current one has active rows.  *)
MirrorIsTrue == ScannedMailIsListed /\ RowsAreTrue /\ OnlyCurrentIsActive

(* "two overlapping cycles cannot rewind each other" (reconcile.ts:119):   *)
(* the folder never returns to a UID space it has left.                    *)
NeverRewound == [][folder'.validity >= folder.validity]_vars

(* A slow cycle never takes a checkpoint back: the boundary only falls,    *)
(* the arrival checkpoint only rises, a complete backfill stays complete,  *)
(* and a folder that was contacted never returns to an older UID space.    *)
CheckpointsAdvance ==
    /\ folder'.validity >= folder.validity
    /\ folder'.validity = folder.validity /\ folder.before # 0 =>
        /\ folder'.before # 0 /\ folder'.before <= folder.before
        /\ folder'.arrival >= folder.arrival
        /\ folder.complete => folder'.complete

Mirrored ==
    /\ folder.validity = box.validity
    /\ \A u \in Uid :
        LET row == occ[box.validity][u] IN
        /\ row.status = "active" <=> u \in box.present
        /\ u \in box.present => (row.flagged <=> u \in box.flagged)

(* When the mailbox comes to rest, the hub comes to list what it holds.    *)
EventuallyMirrored == <>[]Mirrored
=============================================================================
