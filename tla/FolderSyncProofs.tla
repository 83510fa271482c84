-------------------------- MODULE FolderSyncProofs --------------------------
(***************************************************************************)
(* What the sync cycles commit, for any number of cycles, messages and UID *)
(* spaces: rows are true to the UID space they are listed under, only the  *)
(* current one has active rows, and what the checkpoints claim as scanned  *)
(* is listed.                                                              *)
(*                                                                         *)
(* The first argument (IInv): UIDVALIDITY only grows, so a window whose    *)
(* recheck finds the value the cycle works under was fetched under that    *)
(* value; and a commit writes rows only under the value of the locked      *)
(* folder row, which a reset leaves with no active row behind.             *)
(*                                                                         *)
(* The second (MirrorInv), for a folder that was contacted before: a       *)
(* window in flight has every message between the stored checkpoint and    *)
(* the one it will write, because the stored row only moves towards it     *)
(* and new messages come above every bound; and what a search did not      *)
(* return below its bound is gone for good.                                *)
(*                                                                         *)
(* Then come the types (TypeOK), for any folder: checkpoints and bounds    *)
(* are UIDs that the server can have assigned; and last the mailbox as a   *)
(* whole (Mailbox), with the theorems about the actions beside it.         *)
(***************************************************************************)
EXTENDS Mailbox, FiniteSetTheorems, WellFoundedInduction, TLAPS

-----------------------------------------------------------------------------
(* The strengthening.                                                      *)

Importing == {"backfill", "arrivals", "inventory"}
Working == Importing \cup {"expunges", "flags"}
MemoryFields == {"pc", "task", "row", "gen", "bound", "want", "got", "flagged", "from",
                 "absent", "observed"}

(* What a cycle remembers: UID spaces that exist, and a window that it     *)
(* fetched under the one it works in, once the recheck is passed.          *)
MemoryOK(m) ==
    /\ DOMAIN m = MemoryFields
    /\ m.gen \in 0 .. box.validity /\ m.observed \in 0 .. box.validity
    /\ m.row.validity \in 0 .. box.validity
    /\ m.pc \notin {"idle", "reset"} => m.task \in Working
    /\ m.pc = "select" => m.task \in Importing
    /\ m.task \in Importing /\ m.got # {} =>
        /\ m.pc \notin {"select", "compare"}
        /\ m.pc = "recheck" => m.from \in m.gen .. box.validity
        /\ m.pc = "commit" => m.from = m.gen

CyclesOK == DOMAIN cycle = Cycle /\ \A c \in Cycle : MemoryOK(cycle[c])

MailboxOK ==
    /\ DOMAIN box = {"validity", "next", "present", "flagged"}
    /\ DOMAIN folder = {"validity", "upper", "before", "complete", "arrival"}
    /\ box.validity \in Nat /\ folder.validity \in 0 .. box.validity

RowFields == {"status", "flagged", "from"}
RowsOK ==
    /\ DOMAIN occ = Validity
    /\ \A v \in Validity, u \in Uid : DOMAIN occ[v][u] = RowFields

IInv == MailboxOK /\ CyclesOK /\ RowsOK /\ RowsAreTrue /\ OnlyCurrentIsActive

-----------------------------------------------------------------------------
(* What the actions are made of.                                           *)

LEMMA IdleOK == ASSUME MailboxOK PROVE MemoryOK(Idle)
BY DEF MailboxOK, MemoryOK, Idle, MemoryFields, NewFolder

LEMMA InitInv == Init => IInv
<1> SUFFICES ASSUME Init PROVE IInv
    OBVIOUS
<1>1. MailboxOK
    BY DEF Init, MailboxOK, NewFolder
<1>2. CyclesOK
    BY <1>1, IdleOK DEF Init, CyclesOK
<1>3. RowsOK
    BY DEF Init, RowsOK, RowFields, NoOccurrence
<1>4. RowsAreTrue /\ OnlyCurrentIsActive
    BY DEF Init, RowsAreTrue, OnlyCurrentIsActive, NoOccurrence
<1>5. QED BY <1>1, <1>2, <1>3, <1>4 DEF IInv

(* A step of one cycle that leaves mailbox, row and occurrences alone.     *)
LEMMA Remembers ==
    ASSUME IInv, NEW c \in Cycle, UNCHANGED <<box, folder, occ>>,
           DOMAIN cycle' = Cycle, \A d \in Cycle : d # c => cycle'[d] = cycle[d],
           MemoryOK(cycle'[c])
    PROVE  IInv'
<1>1. CyclesOK'
    <2>1. SUFFICES ASSUME NEW d \in Cycle PROVE MemoryOK(cycle[d])'
        BY DEF CyclesOK
    <2>2. MemoryOK(cycle'[d])
        BY DEF IInv, CyclesOK
    <2>3. QED BY <2>2 DEF MemoryOK
<1>2. QED BY <1>1 DEF IInv, MailboxOK, RowsOK, RowsAreTrue, OnlyCurrentIsActive

LEMMA EndsOK ==
    ASSUME IInv, NEW c \in Cycle, Ends(c)
    PROVE  /\ DOMAIN cycle' = Cycle /\ \A d \in Cycle : d # c => cycle'[d] = cycle[d]
           /\ MemoryOK(cycle'[c])
BY IdleOK DEF IInv, CyclesOK, Ends

LEMMA ChangedOK ==
    ASSUME IInv, NEW c \in Cycle, NEW recorded \in 0 .. box.validity,
           NEW observed \in 0 .. box.validity, Changed(c, recorded, observed)
    PROVE  /\ DOMAIN cycle' = Cycle /\ \A d \in Cycle : d # c => cycle'[d] = cycle[d]
           /\ MemoryOK(cycle'[c])
<1> DEFINE m == [Idle EXCEPT !.pc = "reset", !.gen = recorded, !.observed = observed]
<1>1. MemoryOK(m)
    BY DEF IInv, MailboxOK, MemoryOK, Idle, MemoryFields, NewFolder
<1>2. cycle' = [cycle EXCEPT ![c] = m]
    BY DEF Changed
<1> HIDE DEF m
<1>3. QED BY <1>1, <1>2 DEF IInv, CyclesOK

LEMMA SearchWindowOK ==
    ASSUME IInv, NEW c \in Cycle, NEW row, row.validity \in 0 .. box.validity,
           cycle[c].pc \notin {"idle", "reset"}, SearchWindow(c, row)
    PROVE  /\ DOMAIN cycle' = Cycle /\ \A d \in Cycle : d # c => cycle'[d] = cycle[d]
           /\ MemoryOK(cycle'[c])
<1> DEFINE low == Low(row)
           want == box.present \cap (Low(row) .. row.before - 1)
<1>1. cycle' = [cycle EXCEPT ![c].pc = "fetch", ![c].row = NewFolder,
                             ![c].gen = row.validity, ![c].bound = low, ![c].want = want]
    BY DEF SearchWindow
<1> HIDE DEF low, want
<1>2. /\ DOMAIN cycle' = Cycle /\ \A d \in Cycle : d # c => cycle'[d] = cycle[d]
      /\ DOMAIN cycle'[c] = DOMAIN cycle[c]
    BY <1>1 DEF IInv, CyclesOK
<1>3. /\ cycle'[c].pc = "fetch" /\ cycle'[c].row = NewFolder
      /\ cycle'[c].gen = row.validity /\ cycle'[c].observed = cycle[c].observed
      /\ cycle'[c].task = cycle[c].task
    BY <1>1 DEF IInv, CyclesOK, MemoryOK, MemoryFields
<1>4. MemoryOK(cycle[c]) /\ NewFolder.validity = 0 /\ box.validity \in Nat
    BY DEF IInv, CyclesOK, NewFolder, MailboxOK
<1>5. MemoryOK(cycle'[c])
    BY <1>2, <1>3, <1>4 DEF MemoryOK
<1>6. QED BY <1>2, <1>5

-----------------------------------------------------------------------------
(* One lemma for each stage of a cycle.                                    *)

LEMMA BeginInv ==
    ASSUME IInv, NEW c \in Cycle, NEW task \in Importing, Begin(c, task)
    PROVE  IInv'
<1> DEFINE m == [Idle EXCEPT !.pc = "select", !.task = task, !.row = folder]
<1>1. MemoryOK(m)
    BY DEF IInv, MailboxOK, MemoryOK, Idle, MemoryFields, Working
<1>2. cycle' = [cycle EXCEPT ![c] = m] /\ UNCHANGED <<box, folder, occ>>
    BY DEF Begin
<1> HIDE DEF m
<1>3. QED BY <1>1, <1>2, Remembers DEF IInv, CyclesOK

LEMMA GoesOK ==
    ASSUME IInv, NEW c \in Cycle, NEW pc,
           cycle[c].pc = "recheck", pc = "commit", cycle[c].gen = box.validity, Goes(c, pc)
    PROVE  /\ DOMAIN cycle' = Cycle /\ \A d \in Cycle : d # c => cycle'[d] = cycle[d]
           /\ MemoryOK(cycle'[c])
<1>1. MemoryOK(cycle[c]) /\ box.validity \in Nat
    BY DEF IInv, CyclesOK, MailboxOK
<1>2. /\ DOMAIN cycle' = Cycle /\ \A d \in Cycle : d # c => cycle'[d] = cycle[d]
      /\ cycle'[c] = [cycle[c] EXCEPT !.pc = pc]
    BY DEF Goes, IInv, CyclesOK
<1>3. QED BY <1>1, <1>2 DEF MemoryOK, MemoryFields

LEMMA SelectInv ==
    ASSUME IInv, NEW c \in Cycle, Select(c)
    PROVE  IInv'
<1> DEFINE row == cycle[c].row
           task == cycle[c].task
<1>1. /\ MemoryOK(cycle[c]) /\ row.validity \in 0 .. box.validity
      /\ box.validity \in Nat /\ DOMAIN cycle = Cycle /\ cycle[c].pc = "select"
      /\ task \in {"backfill", "arrivals", "inventory"} /\ UNCHANGED <<box, folder, occ>>
    BY DEF IInv, CyclesOK, MailboxOK, MemoryOK, Select, At, Importing
<1>2. CASE Changed(c, row.validity, box.validity)
    BY <1>1, <1>2, ChangedOK, Remembers
<1>3. CASE cycle' = [cycle EXCEPT ![c].pc = "initialize", ![c].gen = box.validity,
                                  ![c].bound = NewestUid]
    <2>1. /\ DOMAIN cycle' = Cycle /\ \A d \in Cycle : d # c => cycle'[d] = cycle[d]
          /\ DOMAIN cycle'[c] = DOMAIN cycle[c]
          /\ cycle'[c].pc = "initialize" /\ cycle'[c].gen = box.validity
          /\ cycle'[c].row = cycle[c].row /\ cycle'[c].observed = cycle[c].observed
          /\ cycle'[c].task = cycle[c].task
        BY <1>1, <1>3 DEF MemoryOK, MemoryFields
    <2>2. MemoryOK(cycle'[c])
        BY <1>1, <2>1 DEF MemoryOK
    <2>3. QED BY <1>1, <2>1, <2>2, Remembers
<1>4. CASE Ends(c)
    BY <1>1, <1>4, EndsOK, Remembers
<1>5. CASE SearchWindow(c, row)
    BY <1>1, <1>5, SearchWindowOK, Remembers
<1>6. CASE SearchArrivals(c)
    <2> DEFINE pc == IF NewestUid <= row.arrival THEN "snapshot" ELSE "fetch"
               want == IF NewestUid <= row.arrival THEN {}
                       ELSE box.present \cap (row.arrival + 1 .. NewestUid)
    <2>1. pc \in {"snapshot", "fetch"}
        OBVIOUS
    <2>2. cycle' = [cycle EXCEPT ![c].gen = row.validity, ![c].bound = NewestUid,
                                 ![c].row = NewFolder, ![c].pc = pc, ![c].want = want]
        BY <1>6 DEF SearchArrivals
    <2> HIDE DEF pc, want
    <2>3. /\ DOMAIN cycle' = Cycle /\ \A d \in Cycle : d # c => cycle'[d] = cycle[d]
          /\ DOMAIN cycle'[c] = DOMAIN cycle[c]
          /\ cycle'[c].pc = pc /\ cycle'[c].gen = row.validity
          /\ cycle'[c].row = NewFolder /\ cycle'[c].observed = cycle[c].observed
          /\ cycle'[c].task = cycle[c].task
        BY <1>1, <2>2 DEF MemoryOK, MemoryFields
    <2>4. MemoryOK(cycle'[c])
        BY <1>1, <2>1, <2>3 DEF MemoryOK, NewFolder
    <2>5. QED BY <1>1, <2>3, <2>4, Remembers
<1>7. CASE SearchAll(c)
    <2>1. /\ DOMAIN cycle' = Cycle /\ \A d \in Cycle : d # c => cycle'[d] = cycle[d]
          /\ DOMAIN cycle'[c] = DOMAIN cycle[c]
          /\ cycle'[c].pc = "compare" /\ cycle'[c].gen = row.validity
          /\ cycle'[c].row = row /\ cycle'[c].observed = cycle[c].observed
          /\ cycle'[c].task = task /\ cycle'[c].got = cycle[c].got
        BY <1>1, <1>7 DEF SearchAll, MemoryOK, MemoryFields
    <2>2. MemoryOK(cycle'[c])
        BY <1>1, <2>1 DEF MemoryOK
    <2>3. QED BY <1>1, <2>1, <2>2, Remembers
<1>8. \/ Changed(c, row.validity, box.validity)
      \/ cycle' = [cycle EXCEPT ![c].pc = "initialize", ![c].gen = box.validity,
                                ![c].bound = NewestUid]
      \/ Ends(c) \/ SearchWindow(c, row) \/ SearchArrivals(c) \/ SearchAll(c)
    <2>1. CASE row.validity \notin {0, box.validity}
        BY <2>1 DEF Select
    <2>2. CASE row.validity \in {0, box.validity} /\ task = "backfill" /\ Uninitialized(row)
        BY <2>2 DEF Select
    <2>3. CASE /\ row.validity \in {0, box.validity}
               /\ ~(task = "backfill" /\ Uninitialized(row))
        <3>1. \/ Uninitialized(row) /\ Ends(c)
              \/ ~Uninitialized(row) /\ CASE task = "backfill" -> SearchWindow(c, row)
                                         [] task = "arrivals" -> SearchArrivals(c)
                                         [] task = "inventory" -> SearchAll(c)
            BY <2>3 DEF Select
        <3>2. QED BY <1>1, <3>1
    <2>4. QED BY <2>1, <2>2, <2>3
<1>9. QED BY <1>2, <1>3, <1>4, <1>5, <1>6, <1>7, <1>8

LEMMA InitializeInv ==
    ASSUME IInv, NEW c \in Cycle, Initialize(c)
    PROVE  IInv'
<1> DEFINE gen == cycle[c].gen
           bound == cycle[c].bound
<1>1. /\ MemoryOK(cycle[c]) /\ gen \in 0 .. box.validity
      /\ box.validity \in Nat /\ folder.validity \in 0 .. box.validity
      /\ cycle[c].pc = "initialize" /\ UNCHANGED <<box, occ>>
    BY DEF IInv, CyclesOK, MailboxOK, MemoryOK, Initialize, At
<1>2. CASE Changed(c, gen, folder.validity) /\ UNCHANGED folder
    BY <1>1, <1>2, ChangedOK, Remembers
<1>3. CASE Ends(c) /\ UNCHANGED folder
    BY <1>1, <1>3, EndsOK, Remembers
<1>4. CASE SearchWindow(c, folder) /\ UNCHANGED folder
    BY <1>1, <1>4, SearchWindowOK, Remembers
<1>5. CASE /\ folder.validity \in {0, gen} /\ Ends(c)
           /\ folder' = [validity |-> gen, upper |-> bound, before |-> bound + 1,
                         complete |-> bound = 0, arrival |-> bound]
    <2>1. folder'.validity = gen /\ MailboxOK'
        BY <1>1, <1>5 DEF IInv, MailboxOK
    <2>2. CyclesOK'
        BY <1>1, <1>5, EndsOK DEF IInv, CyclesOK, MemoryOK
    <2>3. OnlyCurrentIsActive'
        BY <1>1, <1>5, <2>1 DEF IInv, OnlyCurrentIsActive, Validity
    <2>4. QED BY <1>1, <2>1, <2>2, <2>3 DEF IInv, RowsOK, RowsAreTrue
<1>6. QED BY <1>2, <1>3, <1>4, <1>5 DEF Initialize

LEMMA FetchInv ==
    ASSUME IInv, NEW c \in Cycle, Fetch(c)
    PROVE  IInv'
<1> DEFINE got == Window(c) \cap box.present
           flagged == Window(c) \cap box.flagged
<1>1. /\ cycle' = [cycle EXCEPT ![c].pc = "recheck", ![c].got = got,
                                ![c].flagged = flagged, ![c].from = box.validity]
      /\ UNCHANGED <<box, folder, occ>>
    BY DEF Fetch
<1> HIDE DEF got, flagged
<1>2. /\ MemoryOK(cycle[c]) /\ box.validity \in Nat /\ DOMAIN cycle = Cycle
      /\ cycle[c].pc = "fetch"
    BY DEF IInv, CyclesOK, MailboxOK, Fetch, At
<1>3. /\ DOMAIN cycle' = Cycle /\ \A d \in Cycle : d # c => cycle'[d] = cycle[d]
      /\ DOMAIN cycle'[c] = DOMAIN cycle[c]
      /\ cycle'[c].pc = "recheck" /\ cycle'[c].from = box.validity
      /\ cycle'[c].gen = cycle[c].gen /\ cycle'[c].observed = cycle[c].observed
      /\ cycle'[c].row = cycle[c].row /\ cycle'[c].task = cycle[c].task
    BY <1>1, <1>2 DEF MemoryOK, MemoryFields
<1>4. MemoryOK(cycle'[c])
    BY <1>2, <1>3 DEF MemoryOK
<1>5. QED BY <1>1, <1>3, <1>4, Remembers

LEMMA RecheckInv ==
    ASSUME IInv, NEW c \in Cycle, Recheck(c)
    PROVE  IInv'
<1>1. /\ MemoryOK(cycle[c]) /\ box.validity \in Nat /\ cycle[c].gen \in 0 .. box.validity
      /\ UNCHANGED <<box, folder, occ>>
    BY DEF IInv, CyclesOK, MailboxOK, MemoryOK, Recheck
<1>2. CASE Changed(c, cycle[c].gen, box.validity)
    BY <1>1, <1>2, ChangedOK, Remembers
<1>3. CASE box.validity = cycle[c].gen /\ Goes(c, "commit")
    BY <1>1, <1>3, GoesOK, Remembers DEF Recheck, At
<1>4. QED BY <1>2, <1>3 DEF Recheck, SameValidity

LEMMA SnapshotInv ==
    ASSUME IInv, NEW c \in Cycle, Snapshot(c)
    PROVE  IInv'
<1> DEFINE bound == NewestUid
           want == box.present
<1>1. /\ cycle' = [cycle EXCEPT ![c].pc = "compare", ![c].task = "expunges",
                                ![c].bound = bound, ![c].want = want]
      /\ UNCHANGED <<box, folder, occ>>
    BY DEF Snapshot
<1> HIDE DEF bound, want
<1>2. MemoryOK(cycle[c]) /\ DOMAIN cycle = Cycle
    BY DEF IInv, CyclesOK
<1>3. /\ DOMAIN cycle' = Cycle /\ \A d \in Cycle : d # c => cycle'[d] = cycle[d]
      /\ DOMAIN cycle'[c] = DOMAIN cycle[c]
      /\ cycle'[c].pc = "compare" /\ cycle'[c].task = "expunges"
      /\ cycle'[c].gen = cycle[c].gen /\ cycle'[c].observed = cycle[c].observed
      /\ cycle'[c].row = cycle[c].row
    BY <1>1, <1>2 DEF MemoryOK, MemoryFields
<1>4. MemoryOK(cycle'[c])
    BY <1>2, <1>3 DEF MemoryOK, Importing, Working
<1>5. QED BY <1>1, <1>3, <1>4, Remembers

LEMMA ToFlagsOK ==
    ASSUME IInv, NEW c \in Cycle, ToFlags(c)
    PROVE  /\ DOMAIN cycle' = Cycle /\ \A d \in Cycle : d # c => cycle'[d] = cycle[d]
           /\ MemoryOK(cycle'[c])
<1> DEFINE m == [Idle EXCEPT !.pc = "compare", !.task = "flags", !.gen = cycle[c].gen]
<1>1. MemoryOK(cycle[c]) /\ box.validity \in Nat
    BY DEF IInv, CyclesOK, MailboxOK
<1>2. MemoryOK(m)
    BY <1>1 DEF MemoryOK, Idle, MemoryFields, NewFolder, Importing, Working
<1>3. cycle' = [cycle EXCEPT ![c] = m]
    BY DEF ToFlags
<1> HIDE DEF m
<1>4. QED BY <1>2, <1>3 DEF IInv, CyclesOK

LEMMA CompareExpungesInv ==
    ASSUME IInv, NEW c \in Cycle, CompareExpunges(c)
    PROVE  IInv'
<1> DEFINE absent == Absent(cycle[c])
<1>1. /\ UNCHANGED <<box, folder, occ>> /\ cycle[c].task = "expunges"
      /\ \/ ToFlags(c)
         \/ cycle' = [cycle EXCEPT ![c].pc = "recheck", ![c].absent = absent,
                                   ![c].want = {}, ![c].bound = 0]
    BY DEF CompareExpunges
<1> HIDE DEF absent
<1>2. CASE ToFlags(c)
    BY <1>1, <1>2, ToFlagsOK, Remembers
<1>3. CASE cycle' = [cycle EXCEPT ![c].pc = "recheck", ![c].absent = absent,
                                  ![c].want = {}, ![c].bound = 0]
    <2>1. MemoryOK(cycle[c]) /\ DOMAIN cycle = Cycle
        BY DEF IInv, CyclesOK
    <2>2. /\ DOMAIN cycle' = Cycle /\ \A d \in Cycle : d # c => cycle'[d] = cycle[d]
          /\ DOMAIN cycle'[c] = DOMAIN cycle[c]
          /\ cycle'[c].pc = "recheck" /\ cycle'[c].task = "expunges"
          /\ cycle'[c].gen = cycle[c].gen /\ cycle'[c].observed = cycle[c].observed
          /\ cycle'[c].row = cycle[c].row
        BY <1>1, <1>3, <2>1 DEF MemoryOK, MemoryFields
    <2>3. MemoryOK(cycle'[c])
        BY <2>1, <2>2 DEF MemoryOK, Importing, Working
    <2>4. QED BY <1>1, <2>2, <2>3, Remembers
<1>4. QED BY <1>1, <1>2, <1>3

LEMMA CompareFlagsInv ==
    ASSUME IInv, NEW c \in Cycle, CompareFlags(c)
    PROVE  IInv'
<1> DEFINE rows == occ[cycle[c].gen]
           changed == {u \in box.present : /\ rows[u].status = "active"
                                           /\ rows[u].flagged # (u \in box.flagged)}
           flagged == changed \cap box.flagged
<1>1. /\ UNCHANGED <<box, folder, occ>> /\ cycle[c].task = "flags"
      /\ \/ Ends(c)
         \/ cycle' = [cycle EXCEPT ![c].pc = "recheck", ![c].got = changed,
                                   ![c].flagged = flagged]
    BY DEF CompareFlags
<1> HIDE DEF rows, changed, flagged
<1>2. CASE Ends(c)
    BY <1>1, <1>2, EndsOK, Remembers
<1>3. CASE cycle' = [cycle EXCEPT ![c].pc = "recheck", ![c].got = changed,
                                  ![c].flagged = flagged]
    <2>1. MemoryOK(cycle[c]) /\ DOMAIN cycle = Cycle
        BY DEF IInv, CyclesOK
    <2>2. /\ DOMAIN cycle' = Cycle /\ \A d \in Cycle : d # c => cycle'[d] = cycle[d]
          /\ DOMAIN cycle'[c] = DOMAIN cycle[c]
          /\ cycle'[c].pc = "recheck" /\ cycle'[c].task = "flags"
          /\ cycle'[c].gen = cycle[c].gen /\ cycle'[c].observed = cycle[c].observed
          /\ cycle'[c].row = cycle[c].row
        BY <1>1, <1>3, <2>1 DEF MemoryOK, MemoryFields
    <2>3. MemoryOK(cycle'[c])
        BY <2>1, <2>2 DEF MemoryOK, Importing, Working
    <2>4. QED BY <1>1, <2>2, <2>3, Remembers
<1>4. QED BY <1>1, <1>2, <1>3

LEMMA CompareInventoryInv ==
    ASSUME IInv, NEW c \in Cycle, CompareInventory(c)
    PROVE  IInv'
<1> DEFINE missed == {u \in cycle[c].want \cap CoveredRange(cycle[c].row) :
                          occ[cycle[c].gen][u].status = "none"}
           pc == IF missed = {} THEN "recheck" ELSE "fetch"
           absent == Absent(cycle[c])
<1>1. /\ cycle' = [cycle EXCEPT ![c].pc = pc, ![c].absent = absent, ![c].want = missed,
                                ![c].row = NewFolder, ![c].bound = 0]
      /\ UNCHANGED <<box, folder, occ>> /\ pc \in {"recheck", "fetch"}
      /\ cycle[c].pc = "compare" /\ cycle[c].task = "inventory"
    BY DEF CompareInventory, At
<1> HIDE DEF missed, pc, absent
<1>2. MemoryOK(cycle[c]) /\ DOMAIN cycle = Cycle /\ box.validity \in Nat
    BY DEF IInv, CyclesOK, MailboxOK
<1>3. cycle[c].got = {}
    BY <1>1, <1>2 DEF MemoryOK, Importing
<1>4. /\ DOMAIN cycle' = Cycle /\ \A d \in Cycle : d # c => cycle'[d] = cycle[d]
      /\ DOMAIN cycle'[c] = DOMAIN cycle[c]
      /\ cycle'[c].pc = pc /\ cycle'[c].got = {} /\ cycle'[c].row = NewFolder
      /\ cycle'[c].task = cycle[c].task
      /\ cycle'[c].gen = cycle[c].gen /\ cycle'[c].observed = cycle[c].observed
    BY <1>1, <1>2, <1>3 DEF MemoryOK, MemoryFields
<1>5. MemoryOK(cycle'[c])
    BY <1>1, <1>2, <1>4 DEF MemoryOK, NewFolder
<1>6. QED BY <1>1, <1>4, <1>5, Remembers

(* A committed window leaves true rows under the UID space of the cycle.   *)
RowOK(r, v) == DOMAIN r = RowFields /\ (r.status # "none" => r.from = v)

LEMMA RowsAreOK ==
    RowsOK /\ RowsAreTrue <=>
        DOMAIN occ = Validity /\ \A v \in Validity, u \in Uid : RowOK(occ[v][u], v)
BY DEF RowsOK, RowsAreTrue, RowOK

LEMMA CommittedOK ==
    ASSUME NEW rows, NEW v, NEW m, \A u \in Uid : RowOK(rows[u], v),
           m.task \in Working, m.task \in Importing /\ m.got # {} => m.from = v
    PROVE  \A u \in Uid : RowOK(Committed(rows, m)[u], v)
<1>1. \A u \in Uid : m.task \in Importing => RowOK(Imported(rows, m)[u], v)
    BY DEF Imported, RowOK, RowFields
<1>2. ASSUME NEW old, \A u \in Uid : RowOK(old[u], v), NEW S
      PROVE  \A u \in Uid : RowOK(Expunged(old, S)[u], v)
    BY <1>2 DEF Expunged, RowOK, RowFields
<1>3. \A u \in Uid : RowOK(Flagged(rows, m)[u], v)
    BY DEF Flagged, RowOK, RowFields
<1>4. CASE m.task \in {"backfill", "arrivals"}
    <2>1. Committed(rows, m) = Imported(rows, m)
        BY <1>4 DEF Committed
    <2>2. QED BY <1>1, <1>4, <2>1 DEF Importing
<1>5. CASE m.task = "inventory"
    <2>1. Committed(rows, m) = Expunged(Imported(rows, m), m.absent)
        BY <1>5 DEF Committed
    <2>2. \A u \in Uid : RowOK(Imported(rows, m)[u], v)
        BY <1>1, <1>5 DEF Importing
    <2>3. QED BY <1>2, <2>1, <2>2
<1>6. CASE m.task = "expunges"
    <2>1. Committed(rows, m) = Expunged(rows, m.absent)
        BY <1>6 DEF Committed
    <2>2. QED BY <1>2, <2>1
<1>7. CASE m.task = "flags"
    <2>1. Committed(rows, m) = Flagged(rows, m)
        BY <1>7 DEF Committed
    <2>2. QED BY <1>3, <2>1
<1>8. QED BY <1>4, <1>5, <1>6, <1>7 DEF Working, Importing

(* A checkpoint keeps the UID space of the row.                            *)
LEMMA CheckpointOK ==
    ASSUME MailboxOK, NEW m, m.task \in Working, NEW window
    PROVE  /\ DOMAIN Checkpoint(folder, m, window) = DOMAIN folder
           /\ Checkpoint(folder, m, window).validity = folder.validity
<1> DEFINE before == Smaller(folder.before, m.bound)
           arrival == Larger(folder.arrival, CoveredUpTo(m, window))
<1>1. CASE m.task = "backfill"
    <2>1. Checkpoint(folder, m, window) =
              [folder EXCEPT !.before = before, !.complete = @ \/ before <= 1]
        BY <1>1 DEF Checkpoint
    <2> HIDE DEF before
    <2>2. QED BY <2>1 DEF MailboxOK
<1>2. CASE m.task = "arrivals"
    <2>1. Checkpoint(folder, m, window) = [folder EXCEPT !.arrival = arrival]
        BY <1>2 DEF Checkpoint
    <2> HIDE DEF arrival
    <2>2. QED BY <2>1 DEF MailboxOK
<1>3. CASE m.task \in {"inventory", "expunges", "flags"}
    BY <1>3 DEF Checkpoint
<1>4. QED BY <1>1, <1>2, <1>3 DEF Working, Importing

LEMMA ContinuesOK ==
    ASSUME IInv, NEW c \in Cycle, NEW window, cycle[c].pc = "commit", Continues(c, window)
    PROVE  /\ DOMAIN cycle' = Cycle /\ \A d \in Cycle : d # c => cycle'[d] = cycle[d]
           /\ MemoryOK(cycle'[c])
<1>1. /\ MemoryOK(cycle[c]) /\ DOMAIN cycle = Cycle /\ cycle[c].task \in Working
      /\ box.validity \in Nat
    BY DEF IInv, CyclesOK, MemoryOK, MailboxOK
<1>2. CASE cycle[c].task = "arrivals"
    <2> DEFINE rest == cycle[c].want \ window
               pc == IF rest = {} THEN "snapshot" ELSE "fetch"
    <2>1. pc \in {"snapshot", "fetch"}
        OBVIOUS
    <2>2. cycle' = [cycle EXCEPT ![c].pc = pc, ![c].want = rest, ![c].got = {},
                                 ![c].flagged = {}, ![c].from = 0]
        BY <1>2 DEF Continues
    <2> HIDE DEF rest, pc
    <2>3. /\ DOMAIN cycle' = Cycle /\ \A d \in Cycle : d # c => cycle'[d] = cycle[d]
          /\ DOMAIN cycle'[c] = DOMAIN cycle[c]
          /\ cycle'[c].pc = pc /\ cycle'[c].task = cycle[c].task /\ cycle'[c].got = {}
          /\ cycle'[c].gen = cycle[c].gen /\ cycle'[c].observed = cycle[c].observed
          /\ cycle'[c].row = cycle[c].row
        BY <1>1, <2>2 DEF MemoryOK, MemoryFields
    <2>4. MemoryOK(cycle'[c])
        BY <1>1, <2>1, <2>3 DEF MemoryOK
    <2>5. QED BY <2>3, <2>4
<1>3. CASE cycle[c].task = "expunges"
    BY <1>3, ToFlagsOK DEF Continues
<1>4. CASE cycle[c].task \in {"backfill", "inventory", "flags"}
    BY <1>4, EndsOK DEF Continues
<1>5. QED BY <1>1, <1>2, <1>3, <1>4 DEF Working, Importing

LEMMA CommitInv ==
    ASSUME IInv, NEW c \in Cycle, Commit(c)
    PROVE  IInv'
<1> DEFINE m == cycle[c]
           window == Window(c)
<1>1. /\ MemoryOK(m) /\ m.pc = "commit" /\ m.task \in Working /\ box' = box
      /\ m.gen \in 0 .. box.validity
      /\ m.task \in Importing /\ m.got # {} => m.from = m.gen
    BY DEF IInv, CyclesOK, MemoryOK, Commit, At
<1>2. CASE ~StillCurrent(c)
    <2> DEFINE observed == IF m.task \in {"backfill", "arrivals"} THEN folder.validity
                           ELSE m.gen
    <2>1. Changed(c, m.gen, observed) /\ UNCHANGED <<box, occ, folder>>
        BY <1>2 DEF Commit
    <2>2. observed \in 0 .. box.validity
        BY <1>1 DEF IInv, MailboxOK
    <2> HIDE DEF observed
    <2>3. QED BY <1>1, <2>1, <2>2, ChangedOK, Remembers
<1>3. CASE StillCurrent(c)
    <2> DEFINE new == Committed(occ[m.gen], m)
    <2>1. /\ folder.validity = m.gen /\ occ' = [occ EXCEPT ![m.gen] = new]
          /\ folder' = Checkpoint(folder, m, window) /\ Continues(c, window)
        BY <1>3 DEF Commit, StillCurrent
    <2>2. /\ DOMAIN occ = Validity
          /\ \A v \in Validity, u \in Uid : RowOK(occ[v][u], v)
        BY RowsAreOK DEF IInv
    <2>3. m.gen \in Validity => \A u \in Uid : RowOK(new[u], m.gen)
        BY <1>1, <2>2, CommittedOK
    <2> HIDE DEF new
    <2>4. /\ DOMAIN occ' = Validity /\ \A v \in Validity : v # m.gen => occ'[v] = occ[v]
          /\ m.gen \in Validity => occ'[m.gen] = new
        BY <2>1, <2>2
    <2>5. \A v \in Validity, u \in Uid : RowOK(occ'[v][u], v)
        BY <2>2, <2>3, <2>4
    <2>6. RowsOK' /\ RowsAreTrue'
        BY <2>4, <2>5 DEF RowsOK, RowsAreTrue, RowOK
    <2>7. folder'.validity = folder.validity /\ DOMAIN folder' = DOMAIN folder
        BY <1>1, <2>1, CheckpointOK DEF IInv
    <2>8. MailboxOK'
        BY <1>1, <2>7 DEF IInv, MailboxOK
    <2>9. OnlyCurrentIsActive'
        BY <2>1, <2>4, <2>7 DEF IInv, OnlyCurrentIsActive
    <2>10. CyclesOK'
        BY <1>1, <2>1, ContinuesOK DEF IInv, CyclesOK, MemoryOK
    <2>11. QED BY <2>6, <2>8, <2>9, <2>10 DEF IInv
<1>4. QED BY <1>2, <1>3

LEMMA ResetInv ==
    ASSUME IInv, NEW c \in Cycle, Reset(c)
    PROVE  IInv'
<1>1. Ends(c) /\ box' = box
    BY DEF Reset
<1>2. CASE ~ResetApplies(cycle[c].gen, cycle[c].observed)
    BY <1>1, <1>2, EndsOK, Remembers DEF Reset
<1>3. CASE ResetApplies(cycle[c].gen, cycle[c].observed)
    <2> DEFINE old == folder.validity
               new == Invalidated(occ[old])
    <2>1. /\ folder' = [NewFolder EXCEPT !.validity = cycle[c].observed]
          /\ occ' = [occ EXCEPT ![old] = new]
        BY <1>3 DEF Reset
    <2>2. /\ DOMAIN occ = Validity
          /\ \A v \in Validity, u \in Uid : RowOK(occ[v][u], v)
        BY RowsAreOK DEF IInv
    <2>3. old \in Validity => \A u \in Uid : RowOK(new[u], old) /\ new[u].status # "active"
        BY <2>2 DEF Invalidated, RowOK, RowFields
    <2> HIDE DEF new
    <2>4. /\ DOMAIN occ' = Validity /\ \A v \in Validity : v # old => occ'[v] = occ[v]
          /\ old \in Validity => occ'[old] = new
        BY <2>1, <2>2
    <2>5. \A v \in Validity, u \in Uid : RowOK(occ'[v][u], v)
        BY <2>2, <2>3, <2>4
    <2>6. RowsOK' /\ RowsAreTrue'
        BY <2>4, <2>5 DEF RowsOK, RowsAreTrue, RowOK
    <2>7. \A v \in Validity, u \in Uid : occ'[v][u].status # "active"
        BY <2>3, <2>4 DEF IInv, OnlyCurrentIsActive
    <2>8. OnlyCurrentIsActive'
        BY <2>7 DEF OnlyCurrentIsActive
    <2>9. MailboxOK'
        BY <1>1, <2>1 DEF IInv, MailboxOK, CyclesOK, MemoryOK, NewFolder
    <2>10. CyclesOK'
        BY <1>1, EndsOK DEF IInv, CyclesOK, MemoryOK
    <2>11. QED BY <2>6, <2>8, <2>9, <2>10 DEF IInv
<1>4. QED BY <1>2, <1>3

(* The server: UIDVALIDITY grows when the messages are numbered anew.      *)
LEMMA ServerInv ==
    ASSUME IInv, ServerStep
    PROVE  IInv'
<1>1. /\ UNCHANGED <<folder, occ, cycle>>
      /\ DOMAIN box' = {"validity", "next", "present", "flagged"}
      /\ box'.validity \in {box.validity, box.validity + 1}
    <2>1. CASE Deliver
        BY <2>1 DEF Deliver, IInv, MailboxOK
    <2>2. CASE Renumber
        BY <2>2 DEF Renumber, IInv, MailboxOK
    <2>3. ASSUME NEW u \in Uid, Expunge(u)
          PROVE  /\ UNCHANGED <<folder, occ, cycle>>
                 /\ DOMAIN box' = {"validity", "next", "present", "flagged"}
                 /\ box'.validity \in {box.validity, box.validity + 1}
        BY <2>3 DEF Expunge, IInv, MailboxOK
    <2>4. ASSUME NEW u \in Uid, Flag(u)
          PROVE  /\ UNCHANGED <<folder, occ, cycle>>
                 /\ DOMAIN box' = {"validity", "next", "present", "flagged"}
                 /\ box'.validity \in {box.validity, box.validity + 1}
        BY <2>4 DEF Flag, IInv, MailboxOK
    <2>5. QED BY <2>1, <2>2, <2>3, <2>4 DEF ServerStep
<1>2. box.validity \in Nat /\ folder.validity \in 0 .. box.validity
    BY DEF IInv, MailboxOK
<1>3. MailboxOK'
    BY <1>1, <1>2 DEF IInv, MailboxOK
<1>4. CyclesOK'
    <2>1. SUFFICES ASSUME NEW c \in Cycle PROVE MemoryOK(cycle[c])'
        BY <1>1 DEF IInv, CyclesOK
    <2>2. MemoryOK(cycle[c])
        BY DEF IInv, CyclesOK
    <2>3. QED BY <1>1, <1>2, <2>2 DEF MemoryOK
<1>5. QED BY <1>1, <1>3, <1>4 DEF IInv, RowsOK, RowsAreTrue, OnlyCurrentIsActive

-----------------------------------------------------------------------------
(* The invariant and what follows.                                         *)

LEMMA StepInv == IInv /\ [Next]_vars => IInv'
<1> SUFFICES ASSUME IInv, [Next]_vars PROVE IInv'
    OBVIOUS
<1>1. CASE UNCHANGED vars
    BY <1>1 DEF IInv, MailboxOK, CyclesOK, MemoryOK, RowsOK, RowsAreTrue,
                OnlyCurrentIsActive, vars
<1>2. ASSUME NEW c \in Cycle, NEW task \in Importing, Begin(c, task) PROVE IInv'
    BY <1>2, BeginInv
<1>3. ASSUME NEW c \in Cycle, CycleStep(c) PROVE IInv'
    BY <1>3, SelectInv, InitializeInv, FetchInv, RecheckInv, CommitInv, SnapshotInv,
       CompareExpungesInv, CompareFlagsInv, CompareInventoryInv, ResetInv DEF CycleStep
<1>4. ASSUME NEW c \in Cycle, Crash(c) PROVE IInv'
    BY <1>4, EndsOK, Remembers DEF Crash
<1>5. CASE ServerStep
    BY <1>5, ServerInv
<1>6. QED BY <1>1, <1>2, <1>3, <1>4, <1>5 DEF Next, Importing

(* A row holds the message its UID names: nothing fetched in one UID space *)
(* is committed under another, whatever cycles overlap with a new          *)
(* numbering of the folder (revalidate of backfill.ts and steady.ts).      *)
THEOREM RowsStayTrue == Spec => []RowsAreTrue
<1>1. IInv => RowsAreTrue
    BY DEF IInv
<1>2. QED BY InitInv, StepInv, <1>1, PTL DEF Spec

(* Only the UID space that the folder row records has active rows: a       *)
(* window in flight across a reset leaves nothing behind                   *)
(* (resetFolderGeneration, and the locked comparison of every commit).     *)
THEOREM OldSpacesAreInactive == Spec => []OnlyCurrentIsActive
<1>1. IInv => OnlyCurrentIsActive
    BY DEF IInv
<1>2. QED BY InitInv, StepInv, <1>1, PTL DEF Spec

-----------------------------------------------------------------------------
(* The mirror.  From here on the folder was contacted before: nothing is   *)
(* proved of a first contact, after which two cycles can take the folder   *)
(* back to a UID space it has left.                                        *)

MirrorAssumption ==
    /\ ~FirstContact
    /\ MaxUid \in Nat /\ MaxValidity \in Nat \ {0}
    /\ WindowSize \in Nat /\ ArrivalBatch \in Nat \ {0}

Scanning == {"backfill", "arrivals"}
Fetching == {"fetch", "recheck", "commit"}

WindowOf(m) ==
    CASE m.task = "arrivals" -> Lowest(m.want, ArrivalBatch)
      [] m.task = "inventory" -> Highest(m.want, RepairLimit)
      [] OTHER -> m.want

BoxTyped(b) ==
    /\ b.validity \in Nat /\ b.next \in Nat
    /\ b.present \subseteq Uid /\ \A u \in b.present : u < b.next

RowTyped(f) ==
    /\ f.validity \in Nat /\ f.upper \in Nat /\ f.before \in Nat /\ f.arrival \in Nat
    /\ f.complete \in BOOLEAN

MemoryTyped(m) == RowTyped(m.row) /\ m.bound \in Nat /\ m.want \subseteq Uid

(* The row a cycle loaded is not ahead of the stored one, f.               *)
RowIsOlder(m, f) ==
    m.row.validity = f.validity /\ m.row.before # 0 =>
        f.before # 0 /\ f.before <= m.row.before /\ m.row.arrival <= f.arrival

(* A window between its search and its commit has every message that the   *)
(* commit will claim as scanned, and after the fetch has fetched it.       *)
WindowIsFull(m, f, b) ==
    /\ f.before # 0 /\ \A u \in m.want : u < b.next
    /\ m.task = "backfill" =>
        \A u \in b.present : m.bound <= u /\ u < f.before => u \in m.want
    /\ m.task = "arrivals" =>
        /\ m.bound < b.next /\ \A u \in m.want : u <= m.bound
        /\ \A u \in b.present : f.arrival < u /\ u <= m.bound => u \in m.want
    /\ m.pc # "fetch" => \A u \in b.present : u \in WindowOf(m) => u \in m.got

(* What a cycle knows of the mailbox b, if it works in its UID space.      *)
Knowledge(m, f, b) ==
    /\ m.pc = "initialize" => m.bound < b.next
    /\ m.pc = "compare" /\ m.task \in {"expunges", "inventory"} =>
        m.bound < b.next /\ \A u \in b.present : u <= m.bound => u \in m.want
    /\ \A u \in m.absent : u \in Uid => u \notin b.present /\ u < b.next
    /\ m.pc \in Fetching /\ m.task \in Scanning => WindowIsFull(m, f, b)

Knows(m, f, b) ==
    /\ MemoryTyped(m)
    /\ m.gen <= f.validity /\ m.row.validity <= f.validity
    /\ m.pc = "initialize" => m.task = "backfill"
    /\ m.pc = "snapshot" => m.task = "arrivals"
    /\ m.pc = "reset" => m.gen <= m.observed
    /\ m.pc = "select" => m.row.validity # 0 /\ RowIsOlder(m, f)
    /\ m.pc \in Fetching /\ m.task = "backfill" => m.bound # 0
    /\ m.pc = "select" \/ m.task \in Scanning => m.absent = {}
    /\ m.gen = b.validity => Knowledge(m, f, b)

(* Checkpoints stay within the mailbox, and an expunged row is of a        *)
(* message that is gone.                                                   *)
FolderOK ==
    /\ BoxTyped(box) /\ RowTyped(folder) /\ box.next # 0
    /\ folder.validity \in 1 .. box.validity /\ box.validity <= MaxValidity
    /\ folder.validity = box.validity =>
        /\ folder.upper < box.next /\ folder.arrival < box.next /\ folder.before <= box.next
        /\ \A u \in Uid : occ[folder.validity][u].status = "expunged" =>
                u \notin box.present /\ u < box.next

(* Nothing is listed yet of a later UID space, nothing invalidated of the  *)
(* current one.                                                            *)
SpacesOK ==
    /\ \A v \in Validity, u \in Uid : v > folder.validity => occ[v][u].status = "none"
    /\ \A u \in Uid : occ[folder.validity][u].status \in {"none", "active", "expunged"}

MirrorInv ==
    /\ IInv /\ FolderOK /\ SpacesOK /\ ScannedMailIsListed
    /\ \A c \in Cycle : Knows(cycle[c], folder, box)

(* How the row and the mailbox change.                                     *)
RowAdvances(f, g) ==
    /\ g.validity >= f.validity
    /\ g.validity = f.validity /\ f.before # 0 =>
        /\ g.before # 0 /\ g.before <= f.before
        /\ g.arrival >= f.arrival
        /\ f.complete => g.complete

BoxAdvances(b, d) ==
    /\ d.validity >= b.validity
    /\ d.validity = b.validity =>
        d.next >= b.next /\ \A u \in d.present : u \in b.present \/ u >= b.next

-----------------------------------------------------------------------------
(* Windows.                                                                *)

LEMMA WindowIsWanted == \A m : m.task \in Scanning => WindowOf(m) \subseteq m.want
BY DEF WindowOf, Scanning, Lowest

LEMMA WindowOfCycle == \A c : Window(c) = WindowOf(cycle[c])
BY DEF Window, WindowOf

LEMMA HasLeast ==
    ASSUME NEW S \in SUBSET Nat, S # {}
    PROVE  \E u \in S : \A k \in S : u <= k
<1>1. PICK u \in S : \A k \in S : ~(<<k, u>> \in OpToRel(<, Nat))
    BY NatLessThanWellFounded, WFMin
<1>2. \A k \in S : ~(k < u)
    BY <1>1 DEF OpToRel
<1>3. QED BY <1>2

LEMMA HasGreatest ==
    ASSUME MaxUid \in Nat, NEW S \in SUBSET Uid, S # {}
    PROVE  Greatest(S) \in S /\ \A k \in S : k <= Greatest(S)
<1> DEFINE B == {b \in Nat : \A k \in S : k <= b}
<1>1. B \in SUBSET Nat /\ B # {}
    <2>1. MaxUid \in B
        BY DEF Uid
    <2>2. QED BY <2>1
<1>2. PICK b \in B : \A d \in B : b <= d
    BY <1>1, HasLeast
<1>3. b \in S
    <2>1. SUFFICES ASSUME b \notin S PROVE FALSE
        OBVIOUS
    <2>2. PICK k \in S : TRUE
        OBVIOUS
    <2>3. b \in Nat /\ (\A u \in S : u <= b /\ u \in Nat) /\ k \in 1 .. b
        BY DEF Uid
    <2>4. \A u \in S : u <= b - 1
        BY <2>1, <2>3
    <2>5. b - 1 \in B
        BY <2>3, <2>4
    <2>6. QED BY <1>2, <2>3, <2>5
<1>4. \A k \in S : k <= b
    OBVIOUS
<1>5. QED BY <1>3, <1>4 DEF Greatest

(* A batch that is not all of the UIDs wanted has those up to its last.    *)
LEMMA LowestCovers ==
    ASSUME MaxUid \in Nat, ArrivalBatch \in Nat \ {0},
           NEW S \in SUBSET Uid, Lowest(S, ArrivalBatch) # S
    PROVE  /\ Greatest(Lowest(S, ArrivalBatch)) \in S
           /\ \A u \in Lowest(S, ArrivalBatch) : u <= Greatest(Lowest(S, ArrivalBatch))
           /\ \A u \in S : u <= Greatest(Lowest(S, ArrivalBatch)) =>
                    u \in Lowest(S, ArrivalBatch)
<1> DEFINE n == ArrivalBatch
           W == Lowest(S, n)
           Below(u) == {k \in S : k < u}
<1>1. /\ MaxUid \in Nat /\ n \in Nat \ {0} /\ W \in SUBSET S
      /\ S \in SUBSET Nat /\ \A k \in S : k \in Nat
    BY DEF Lowest, Uid
<1> HIDE DEF W
<1>2. IsFiniteSet(S)
    <2>1. IsFiniteSet(1 .. MaxUid)
        BY <1>1, FS_Interval
    <2>2. QED BY <2>1, FS_Subset DEF Uid
<1>3. W # {}
    <2>1. S # {}
        BY <1>1 DEF W
    <2>2. PICK u \in S : \A k \in S : u <= k
        BY <1>1, <2>1, HasLeast
    <2>3. Below(u) = {}
        <3>1. \A k \in S : ~(k < u)
            BY <1>1, <2>2
        <3>2. QED BY <3>1
    <2>4. Cardinality(Below(u)) = 0
        BY <2>3, FS_EmptySet
    <2>5. u \in W
        BY <1>1, <2>4 DEF Lowest, W
    <2>6. QED BY <2>5
<1>4. Greatest(W) \in W /\ \A k \in W : k <= Greatest(W)
    BY <1>1, <1>3, HasGreatest
<1>5. ASSUME NEW g \in W, NEW u \in S, u <= g PROVE u \in W
    <2>1. Below(u) \subseteq Below(g) /\ Below(g) \subseteq S
        <3>1. u \in Nat /\ g \in Nat
            BY <1>1
        <3>2. \A k \in S : k < u => k < g
            BY <1>1, <1>5, <3>1
        <3>3. QED BY <3>2
    <2>2. IsFiniteSet(Below(g)) /\ IsFiniteSet(Below(u))
        BY <1>2, <2>1, FS_Subset
    <2>3. /\ Cardinality(Below(u)) <= Cardinality(Below(g))
          /\ Cardinality(Below(u)) \in Nat /\ Cardinality(Below(g)) \in Nat
        BY <2>1, <2>2, FS_Subset, FS_CardinalityType
    <2>4. Cardinality(Below(g)) < n
        BY DEF Lowest, W
    <2> HIDE DEF Below
    <2>5. Cardinality(Below(u)) < n
        BY <1>1, <2>3, <2>4
    <2>6. QED BY <2>5 DEF Below, Lowest, W
<1>6. QED BY <1>1, <1>4, <1>5 DEF W

-----------------------------------------------------------------------------
(* What a cycle knows stays true while the row advances and the mailbox    *)
(* changes.                                                                *)

LEMMA WindowStaysFull ==
    ASSUME NEW m, NEW f, NEW g, NEW b, NEW d, RowTyped(f), RowTyped(g), BoxTyped(b), BoxTyped(d),
           MemoryTyped(m), m.task \in Scanning, WindowIsFull(m, f, b),
           RowAdvances(f, g), g.validity = f.validity,
           BoxAdvances(b, d), d.validity = b.validity, f.before <= b.next
    PROVE  WindowIsFull(m, g, d)
<1>1. /\ f.before # 0 /\ g.before # 0 /\ g.before <= f.before /\ f.arrival <= g.arrival
      /\ \A u \in d.present : u \in b.present \/ u >= b.next
      /\ b.next <= d.next /\ b.next \in Nat /\ d.next \in Nat
    BY DEF WindowIsFull, RowAdvances, BoxAdvances, BoxTyped
<1>2. /\ \A u \in Uid : u \in Nat
      /\ m.want \subseteq Uid /\ d.present \subseteq Uid /\ b.present \subseteq Uid
      /\ m.bound \in Nat /\ f.before \in Nat /\ g.before \in Nat
      /\ f.arrival \in Nat /\ g.arrival \in Nat
    BY DEF MemoryTyped, BoxTyped, Uid, RowTyped
<1>3. \A u \in m.want : u < b.next /\ u < d.next
    BY <1>1, <1>2 DEF WindowIsFull
<1>4. CASE m.task = "backfill"
    <2>1. ASSUME NEW u \in d.present, m.bound <= u, u < g.before PROVE u \in m.want
        <3>1. u < f.before /\ u < b.next
            BY <1>1, <1>2, <2>1
        <3>2. u \in b.present
            BY <1>1, <1>2, <3>1
        <3>3. QED BY <1>4, <2>1, <3>1, <3>2 DEF WindowIsFull
    <2>2. \A u \in d.present : m.bound <= u /\ u < g.before => u \in m.want
        BY <2>1
    <2>3. m.pc # "fetch" => \A u \in d.present : u \in WindowOf(m) => u \in m.got
        <3>1. \A u \in d.present : u \in WindowOf(m) => u \in b.present
            BY <1>1, <1>2, <1>3, WindowIsWanted
        <3>2. QED BY <3>1 DEF WindowIsFull
    <2>4. QED BY <1>1, <1>3, <1>4, <2>2, <2>3 DEF WindowIsFull
<1>5. CASE m.task = "arrivals"
    <2>1. m.bound < d.next /\ \A u \in m.want : u <= m.bound
        BY <1>1, <1>2, <1>5 DEF WindowIsFull
    <2>2. ASSUME NEW u \in d.present, g.arrival < u, u <= m.bound PROVE u \in m.want
        <3>1. u < b.next /\ f.arrival < u
            BY <1>1, <1>2, <1>5, <2>2 DEF WindowIsFull
        <3>2. u \in b.present
            BY <1>1, <1>2, <3>1
        <3>3. QED BY <1>5, <2>2, <3>1, <3>2 DEF WindowIsFull
    <2>3. \A u \in d.present : g.arrival < u /\ u <= m.bound => u \in m.want
        BY <2>2
    <2>4. m.pc # "fetch" => \A u \in d.present : u \in WindowOf(m) => u \in m.got
        <3>1. \A u \in d.present : u \in WindowOf(m) => u \in b.present
            BY <1>1, <1>2, <1>3, WindowIsWanted
        <3>2. QED BY <3>1 DEF WindowIsFull
    <2>5. QED BY <1>1, <1>3, <1>5, <2>1, <2>3, <2>4 DEF WindowIsFull
<1>6. QED BY <1>4, <1>5 DEF Scanning

LEMMA StillKnows ==
    ASSUME NEW m, NEW f, NEW g, NEW b, NEW d, RowTyped(f), RowTyped(g), BoxTyped(b), BoxTyped(d),
           m.gen \in Nat, Knows(m, f, b), RowAdvances(f, g), BoxAdvances(b, d),
           f.validity <= b.validity, g.validity <= d.validity,
           f.validity = b.validity => f.before <= b.next
    PROVE  Knows(m, g, d)
<1>1. /\ f.validity \in Nat /\ g.validity \in Nat /\ b.validity \in Nat /\ d.validity \in Nat
      /\ f.validity <= g.validity /\ b.validity <= d.validity
      /\ m.row.validity \in Nat /\ MemoryTyped(m)
      /\ m.gen <= f.validity /\ m.row.validity <= f.validity
    BY DEF RowTyped, BoxTyped, RowAdvances, BoxAdvances, Knows, MemoryTyped
<1>2. m.pc = "select" => RowIsOlder(m, g)
    BY <1>1 DEF RowIsOlder, Knows, RowAdvances, RowTyped, MemoryTyped
<1>3. ASSUME m.gen = d.validity PROVE Knowledge(m, g, d)
    <2>1. /\ m.gen = f.validity /\ m.gen = g.validity /\ m.gen = b.validity
          /\ f.before <= b.next /\ Knowledge(m, f, b)
        BY <1>1, <1>3 DEF Knows
    <2>2. /\ b.next <= d.next /\ \A u \in d.present : u \in b.present \/ u >= b.next
          /\ b.next \in Nat /\ d.next \in Nat /\ \A u \in Uid : u \in Nat
          /\ d.present \subseteq Uid /\ m.bound \in Nat
        BY <1>1, <1>3, <2>1 DEF BoxAdvances, BoxTyped, MemoryTyped, Uid
    <2>3. m.pc = "initialize" => m.bound < d.next
        BY <2>1, <2>2 DEF Knowledge
    <2>4. m.pc = "compare" /\ m.task \in {"expunges", "inventory"} =>
            m.bound < d.next /\ \A u \in d.present : u <= m.bound => u \in m.want
        BY <2>1, <2>2 DEF Knowledge
    <2>5. \A u \in m.absent : u \in Uid => u \notin d.present /\ u < d.next
        BY <2>1, <2>2 DEF Knowledge
    <2>6. m.pc \in Fetching /\ m.task \in Scanning => WindowIsFull(m, g, d)
        BY <1>1, <1>3, <2>1, WindowStaysFull DEF Knowledge
    <2>7. QED BY <2>3, <2>4, <2>5, <2>6 DEF Knowledge
<1>4. QED BY <1>1, <1>2, <1>3 DEF Knows

(* A step of cycle c: the others still know what they knew.                *)
LEMMA OthersKnow ==
    ASSUME MirrorInv, IInv', NEW c \in Cycle, \A d \in Cycle : d # c => cycle'[d] = cycle[d],
           FolderOK', RowAdvances(folder, folder'), UNCHANGED box,
           Knows(cycle'[c], folder', box)
    PROVE  \A d \in Cycle : Knows(cycle'[d], folder', box')
<1>1. SUFFICES ASSUME NEW d \in Cycle, d # c PROVE Knows(cycle[d], folder', box)
    OBVIOUS
<1>2. Knows(cycle[d], folder, box) /\ cycle[d].gen \in Nat
    BY DEF MirrorInv, IInv, CyclesOK, MemoryOK, MailboxOK
<1>3. BoxAdvances(box, box) /\ BoxTyped(box) /\ RowTyped(folder) /\ RowTyped(folder')
    BY DEF MirrorInv, FolderOK, BoxAdvances, BoxTyped
<1>4. folder.validity <= box.validity /\ folder'.validity <= box.validity
    BY DEF MirrorInv, FolderOK
<1>5. folder.validity = box.validity => folder.before <= box.next
    BY DEF MirrorInv, FolderOK
<1>6. QED BY <1>2, <1>3, <1>4, <1>5, StillKnows

(* A step of cycle c that leaves mailbox, row and occurrences alone.       *)
LEMMA Learns ==
    ASSUME MirrorInv, IInv', NEW c \in Cycle, UNCHANGED <<box, folder, occ>>,
           \A d \in Cycle : d # c => cycle'[d] = cycle[d],
           Knows(cycle'[c], folder, box)
    PROVE  MirrorInv'
<1>1. FolderOK' /\ SpacesOK' /\ ScannedMailIsListed'
    BY DEF MirrorInv, FolderOK, SpacesOK, ScannedMailIsListed, Scanned
<1>2. RowAdvances(folder, folder')
    BY DEF RowAdvances, MirrorInv, FolderOK, RowTyped
<1>3. \A d \in Cycle : Knows(cycle'[d], folder', box')
    BY <1>1, <1>2, OthersKnow
<1>4. QED BY <1>1, <1>3 DEF MirrorInv

-----------------------------------------------------------------------------
(* One lemma for each stage, again.                                        *)

LEMMA KnowsCycle ==
    ASSUME MirrorInv, NEW c \in Cycle
    PROVE  /\ Knows(cycle[c], folder, box) /\ MemoryOK(cycle[c]) /\ DOMAIN cycle = Cycle
           /\ DOMAIN cycle[c] = MemoryFields /\ MemoryTyped(cycle[c])
           /\ BoxTyped(box) /\ RowTyped(folder) /\ cycle[c].gen \in Nat
           /\ folder.validity \in 1 .. box.validity
BY DEF MirrorInv, IInv, CyclesOK, MemoryOK, Knows, FolderOK, MailboxOK

LEMMA IdleKnows ==
    ASSUME NEW f, RowTyped(f), NEW b, BoxTyped(b)
    PROVE  Knows(Idle, f, b)
<1>1. MemoryTyped(Idle)
    BY DEF MemoryTyped, Idle, NewFolder, RowTyped
<1>2. Idle.pc = "idle" /\ Idle.gen = 0 /\ Idle.row.validity = 0 /\ Idle.absent = {}
    BY DEF Idle, NewFolder
<1>3. Knowledge(Idle, f, b)
    BY <1>2 DEF Knowledge, Fetching
<1>4. QED BY <1>1, <1>2, <1>3 DEF Knows, Fetching, RowTyped

LEMMA EndsKnows ==
    ASSUME MirrorInv, NEW c \in Cycle, Ends(c)
    PROVE  /\ \A d \in Cycle : d # c => cycle'[d] = cycle[d]
           /\ cycle'[c] = Idle /\ Knows(cycle'[c], folder, box)
BY KnowsCycle, IdleKnows DEF Ends

LEMMA EndsMirror ==
    ASSUME MirrorInv, IInv', NEW c \in Cycle, Ends(c), UNCHANGED <<box, folder, occ>>
    PROVE  MirrorInv'
BY EndsKnows, Learns

LEMMA ChangedMirror ==
    ASSUME MirrorInv, IInv', NEW c \in Cycle, NEW recorded \in Nat, NEW observed \in Nat,
           recorded <= folder.validity, recorded <= observed,
           Changed(c, recorded, observed), UNCHANGED <<box, folder, occ>>
    PROVE  MirrorInv'
<1> DEFINE m == [Idle EXCEPT !.pc = "reset", !.gen = recorded, !.observed = observed]
<1>1. /\ m.pc = "reset" /\ m.gen = recorded /\ m.observed = observed /\ m.absent = {}
      /\ m.row = NewFolder /\ m.want = {} /\ m.bound = 0
    BY DEF Idle
<1>2. cycle' = [cycle EXCEPT ![c] = m]
    BY DEF Changed
<1> HIDE DEF m
<1>3. RowTyped(NewFolder) /\ NewFolder.validity = 0 /\ folder.validity \in Nat
    BY KnowsCycle DEF NewFolder, RowTyped
<1>4. Knows(m, folder, box)
    BY <1>1, <1>3 DEF Knows, MemoryTyped, Knowledge, Fetching
<1>5. cycle'[c] = m /\ \A d \in Cycle : d # c => cycle'[d] = cycle[d]
    BY <1>2, KnowsCycle
<1>6. QED BY <1>4, <1>5, Learns

LEMMA BeginMirror ==
    ASSUME MirrorInv, IInv', NEW c \in Cycle, NEW task \in Importing, Begin(c, task)
    PROVE  MirrorInv'
<1> DEFINE m == [Idle EXCEPT !.pc = "select", !.task = task, !.row = folder]
<1>1. /\ m.pc = "select" /\ m.gen = 0 /\ m.absent = {} /\ m.row = folder
      /\ m.want = {} /\ m.bound = 0
    BY DEF Idle
<1>2. cycle' = [cycle EXCEPT ![c] = m] /\ UNCHANGED <<box, folder, occ>>
    BY DEF Begin
<1> HIDE DEF m
<1>3. RowTyped(folder) /\ folder.validity \in Nat \ {0}
    BY KnowsCycle
<1>4. Knows(m, folder, box)
    BY <1>1, <1>3 DEF Knows, MemoryTyped, Knowledge, Fetching, RowIsOlder, RowTyped
<1>5. cycle'[c] = m /\ \A d \in Cycle : d # c => cycle'[d] = cycle[d]
    BY <1>2, KnowsCycle
<1>6. QED BY <1>2, <1>4, <1>5, Learns

(* A window below a boundary that is not below the stored one.             *)
LEMMA SearchWindowMirror ==
    ASSUME MirrorAssumption, MirrorInv, IInv', NEW c \in Cycle, NEW row, RowTyped(row),
           cycle[c].pc \in {"select", "initialize"}, cycle[c].task = "backfill",
           row.validity = folder.validity, row.before # 0,
           folder.before # 0, folder.before <= row.before,
           SearchWindow(c, row), UNCHANGED <<box, folder, occ>>
    PROVE  MirrorInv'
<1> DEFINE low == Low(row)
           want == box.present \cap (Low(row) .. row.before - 1)
<1>1. cycle' = [cycle EXCEPT ![c].pc = "fetch", ![c].row = NewFolder,
                             ![c].gen = row.validity, ![c].bound = low, ![c].want = want]
    BY DEF SearchWindow
<1>2. /\ DOMAIN cycle[c] = MemoryFields /\ DOMAIN cycle = Cycle /\ BoxTyped(box)
      /\ RowTyped(folder)
    BY KnowsCycle
<1>3. low \in Nat \ {0}
    BY DEF Low, Larger, RowTyped, MirrorAssumption
<1>4. /\ \A u \in box.present : low <= u /\ u < folder.before => u \in want
      /\ want \subseteq box.present
    <2>1. \A u \in box.present : u \in Nat
        BY <1>2 DEF BoxTyped, Uid
    <2>2. folder.before \in Nat /\ row.before \in Nat
        BY <1>2 DEF RowTyped
    <2> HIDE DEF low
    <2>3. \A u \in box.present : low <= u /\ u < folder.before => u \in low .. row.before - 1
        BY <1>3, <2>1, <2>2
    <2>4. QED BY <2>3 DEF low
<1> HIDE DEF low, want
<1>5. /\ \A d \in Cycle : d # c => cycle'[d] = cycle[d]
      /\ cycle'[c].pc = "fetch" /\ cycle'[c].row = NewFolder /\ cycle'[c].gen = row.validity
      /\ cycle'[c].bound = low /\ cycle'[c].want = want /\ cycle'[c].task = "backfill"
      /\ cycle'[c].absent = cycle[c].absent
    BY <1>1, <1>2 DEF MemoryFields
<1>6. cycle[c].absent = {} /\ row.validity \in Nat /\ row.validity <= folder.validity
    BY KnowsCycle DEF Knows, Scanning, RowTyped
<1>7. MemoryTyped(cycle'[c])
    <2>1. want \subseteq Uid
        BY <1>2, <1>4 DEF BoxTyped
    <2>2. RowTyped(NewFolder)
        BY DEF RowTyped, NewFolder
    <2>3. QED BY <1>3, <1>5, <2>1, <2>2 DEF MemoryTyped
<1>8. WindowIsFull(cycle'[c], folder, box)
    BY <1>2, <1>4, <1>5 DEF WindowIsFull, BoxTyped
<1>9. Knowledge(cycle'[c], folder, box)
    BY <1>5, <1>6, <1>8 DEF Knowledge
<1>10. NewFolder.validity = 0
    BY DEF NewFolder
<1>11. Knows(cycle'[c], folder, box)
    BY <1>3, <1>5, <1>6, <1>7, <1>9, <1>10 DEF Knows
<1>12. QED BY <1>5, <1>11, Learns

LEMMA SearchArrivalsMirror ==
    ASSUME MirrorAssumption, MirrorInv, IInv', NEW c \in Cycle,
           cycle[c].pc = "select", cycle[c].task = "arrivals",
           cycle[c].row.before # 0, cycle[c].row.validity = box.validity,
           SearchArrivals(c), UNCHANGED <<box, folder, occ>>
    PROVE  MirrorInv'
<1> DEFINE row == cycle[c].row
           bound == NewestUid
           pc == IF NewestUid <= row.arrival THEN "snapshot" ELSE "fetch"
           want == IF NewestUid <= row.arrival THEN {}
                   ELSE box.present \cap (row.arrival + 1 .. NewestUid)
<1>1. cycle' = [cycle EXCEPT ![c].gen = row.validity, ![c].bound = bound,
                             ![c].row = NewFolder, ![c].pc = pc, ![c].want = want]
    BY DEF SearchArrivals
<1>2. /\ DOMAIN cycle[c] = MemoryFields /\ DOMAIN cycle = Cycle /\ BoxTyped(box)
      /\ RowTyped(folder) /\ RowTyped(row) /\ folder.validity \in 1 .. box.validity
      /\ row.validity <= folder.validity /\ RowIsOlder(cycle[c], folder)
      /\ cycle[c].absent = {}
    BY KnowsCycle DEF MemoryTyped, Knows
<1>3. row.validity = folder.validity
    BY <1>2 DEF RowTyped, BoxTyped
<1>4. folder.before # 0 /\ row.arrival <= folder.arrival
    BY <1>2, <1>3 DEF RowIsOlder
<1>5. /\ bound \in Nat /\ bound < box.next
      /\ want \subseteq box.present /\ pc \in {"snapshot", "fetch"}
    <2>1. box.next \in Nat \ {0}
        BY <1>2 DEF MirrorInv, FolderOK, BoxTyped
    <2>2. QED BY <2>1 DEF NewestUid
<1>6. /\ \A u \in want : u <= bound
      /\ pc = "fetch" => \A u \in box.present : folder.arrival < u /\ u <= bound => u \in want
    <2>1. \A u \in box.present : u \in Nat
        BY <1>2 DEF BoxTyped, Uid
    <2>2. folder.arrival \in Nat /\ row.arrival \in Nat
        BY <1>2 DEF RowTyped
    <2> HIDE DEF bound
    <2>3. \A u \in box.present : folder.arrival < u /\ u <= bound => u \in row.arrival + 1 .. bound
        BY <1>4, <1>5, <2>1, <2>2
    <2>4. QED BY <1>5, <2>1, <2>2, <2>3 DEF bound
<1> HIDE DEF bound, want, pc
<1>7. /\ \A d \in Cycle : d # c => cycle'[d] = cycle[d]
      /\ cycle'[c].pc = pc /\ cycle'[c].row = NewFolder /\ cycle'[c].gen = row.validity
      /\ cycle'[c].bound = bound /\ cycle'[c].want = want /\ cycle'[c].task = "arrivals"
      /\ cycle'[c].absent = {}
    BY <1>1, <1>2 DEF MemoryFields
<1>8. MemoryTyped(cycle'[c])
    BY <1>2, <1>5, <1>7 DEF MemoryTyped, RowTyped, NewFolder, BoxTyped
<1>9. pc = "fetch" => WindowIsFull(cycle'[c], folder, box)
    BY <1>2, <1>4, <1>5, <1>6, <1>7 DEF WindowIsFull, BoxTyped
<1>10. Knowledge(cycle'[c], folder, box)
    BY <1>5, <1>7, <1>9 DEF Knowledge, Fetching
<1>11. Knows(cycle'[c], folder, box)
    BY <1>2, <1>3, <1>5, <1>7, <1>8, <1>10 DEF Knows, NewFolder, RowTyped
<1>12. QED BY <1>7, <1>11, Learns

LEMMA SearchAllMirror ==
    ASSUME MirrorAssumption, MirrorInv, IInv', NEW c \in Cycle,
           cycle[c].pc = "select", cycle[c].task = "inventory",
           cycle[c].row.validity = box.validity,
           SearchAll(c), UNCHANGED <<box, folder, occ>>
    PROVE  MirrorInv'
<1> DEFINE bound == NewestUid
<1>1. cycle' = [cycle EXCEPT ![c].pc = "compare", ![c].gen = cycle[c].row.validity,
                             ![c].bound = bound, ![c].want = box.present]
    BY DEF SearchAll
<1>2. /\ DOMAIN cycle[c] = MemoryFields /\ DOMAIN cycle = Cycle /\ BoxTyped(box)
      /\ RowTyped(folder) /\ RowTyped(cycle[c].row) /\ folder.validity \in 1 .. box.validity
      /\ cycle[c].row.validity <= folder.validity /\ cycle[c].absent = {}
    BY KnowsCycle DEF MemoryTyped, Knows
<1>3. bound \in Nat /\ bound < box.next
    <2>1. box.next \in Nat \ {0}
        BY <1>2 DEF MirrorInv, FolderOK, BoxTyped
    <2>2. QED BY <2>1 DEF NewestUid
<1> HIDE DEF bound
<1>4. /\ \A d \in Cycle : d # c => cycle'[d] = cycle[d]
      /\ cycle'[c].pc = "compare" /\ cycle'[c].row = cycle[c].row
      /\ cycle'[c].gen = cycle[c].row.validity
      /\ cycle'[c].bound = bound /\ cycle'[c].want = box.present
      /\ cycle'[c].task = "inventory" /\ cycle'[c].absent = {}
    BY <1>1, <1>2 DEF MemoryFields
<1>5. MemoryTyped(cycle'[c])
    BY <1>2, <1>3, <1>4 DEF MemoryTyped, BoxTyped
<1>6. Knowledge(cycle'[c], folder, box)
    BY <1>3, <1>4 DEF Knowledge, Fetching
<1>7. Knows(cycle'[c], folder, box)
    BY <1>2, <1>4, <1>5, <1>6 DEF Knows, Fetching
<1>8. QED BY <1>4, <1>7, Learns

LEMMA SelectMirror ==
    ASSUME MirrorAssumption, MirrorInv, IInv', NEW c \in Cycle, Select(c)
    PROVE  MirrorInv'
<1> DEFINE row == cycle[c].row
           task == cycle[c].task
<1>1. /\ cycle[c].pc = "select" /\ task \in {"backfill", "arrivals", "inventory"}
      /\ UNCHANGED <<box, folder, occ>>
      /\ RowTyped(row) /\ RowTyped(folder) /\ BoxTyped(box)
      /\ row.validity \in Nat \ {0} /\ row.validity <= folder.validity
      /\ folder.validity \in 1 .. box.validity /\ RowIsOlder(cycle[c], folder)
    BY KnowsCycle DEF Select, At, MemoryOK, Importing, Knows, MemoryTyped, RowTyped
<1>2. CASE row.validity # box.validity
    <2>1. Changed(c, row.validity, box.validity)
        BY <1>1, <1>2 DEF Select
    <2>2. /\ row.validity \in Nat /\ box.validity \in Nat /\ row.validity <= folder.validity
          /\ row.validity <= box.validity
        BY <1>1 DEF BoxTyped, RowTyped
    <2>3. QED BY <1>1, <2>1, <2>2, ChangedMirror
<1>3. CASE row.validity = box.validity /\ Uninitialized(row)
    <2>1. CASE task # "backfill"
        <3>1. Ends(c)
            BY <1>1, <1>3, <2>1 DEF Select
        <3>2. QED BY <1>1, <3>1, EndsMirror
    <2>2. CASE task = "backfill"
        <3> DEFINE bound == NewestUid
        <3>1. cycle' = [cycle EXCEPT ![c].pc = "initialize", ![c].gen = box.validity,
                                     ![c].bound = bound]
            BY <1>1, <1>3, <2>2 DEF Select
        <3>2. bound \in Nat /\ bound < box.next
            <4>1. box.next \in Nat \ {0}
                BY <1>1 DEF MirrorInv, FolderOK, BoxTyped
            <4>2. QED BY <4>1 DEF NewestUid
        <3> HIDE DEF bound
        <3>3. /\ DOMAIN cycle[c] = MemoryFields /\ DOMAIN cycle = Cycle
              /\ MemoryTyped(cycle[c]) /\ cycle[c].absent = {}
            BY <1>1, KnowsCycle DEF Knows
        <3>4. /\ \A d \in Cycle : d # c => cycle'[d] = cycle[d]
              /\ cycle'[c].pc = "initialize" /\ cycle'[c].row = row
              /\ cycle'[c].gen = box.validity /\ cycle'[c].bound = bound
              /\ cycle'[c].want = cycle[c].want /\ cycle'[c].absent = {}
              /\ cycle'[c].task = task
            BY <3>1, <3>3 DEF MemoryFields
        <3>5. MemoryTyped(cycle'[c])
            BY <3>2, <3>3, <3>4 DEF MemoryTyped
        <3>6. Knowledge(cycle'[c], folder, box)
            BY <3>2, <3>4 DEF Knowledge, Fetching
        <3>7. Knows(cycle'[c], folder, box)
            BY <1>1, <1>3, <2>2, <3>4, <3>5, <3>6 DEF Knows, Fetching
        <3>8. QED BY <1>1, <3>4, <3>7, Learns
    <2>3. QED BY <2>1, <2>2
<1>4. CASE row.validity = box.validity /\ ~Uninitialized(row)
    <2>1. row.validity = folder.validity /\ row.before # 0
        BY <1>1, <1>4 DEF Uninitialized, RowTyped, BoxTyped
    <2>2. folder.before # 0 /\ folder.before <= row.before
        BY <1>1, <2>1 DEF RowIsOlder
    <2>3. /\ task = "backfill" => SearchWindow(c, row)
          /\ task = "arrivals" => SearchArrivals(c)
          /\ task = "inventory" => SearchAll(c)
        BY <1>1, <1>4 DEF Select
    <2>4. CASE task = "backfill"
        <3>1. SearchWindow(c, row)
            BY <2>3, <2>4
        <3>2. QED BY <1>1, <2>1, <2>2, <2>4, <3>1, SearchWindowMirror
    <2>5. CASE task = "arrivals"
        <3>1. SearchArrivals(c)
            BY <2>3, <2>5
        <3>2. QED BY <1>1, <1>4, <2>1, <2>5, <3>1, SearchArrivalsMirror
    <2>6. CASE task = "inventory"
        <3>1. SearchAll(c)
            BY <2>3, <2>6
        <3>2. QED BY <1>1, <1>4, <2>6, <3>1, SearchAllMirror
    <2>7. QED BY <1>1, <2>4, <2>5, <2>6
<1>5. QED BY <1>2, <1>3, <1>4

(* The first initialization claims nothing as scanned; before it no cycle  *)
(* has a window under way.                                                 *)
LEMMA InitializeMirror ==
    ASSUME MirrorAssumption, MirrorInv, IInv', NEW c \in Cycle, Initialize(c)
    PROVE  MirrorInv'
<1> DEFINE gen == cycle[c].gen
           bound == cycle[c].bound
<1>1. /\ cycle[c].pc = "initialize" /\ UNCHANGED <<box, occ>>
      /\ RowTyped(folder) /\ BoxTyped(box) /\ gen \in Nat /\ gen <= folder.validity
      /\ folder.validity \in 1 .. box.validity /\ bound \in Nat
      /\ gen = box.validity => bound < box.next
    BY KnowsCycle DEF Initialize, At, Knows, Knowledge, MemoryTyped
<1>2. CASE folder.validity # gen
    <2>1. Changed(c, gen, folder.validity) /\ UNCHANGED folder
        BY <1>1, <1>2 DEF Initialize
    <2>2. QED BY <1>1, <2>1, ChangedMirror
<1>3. CASE folder.validity = gen /\ ~Uninitialized(folder)
    <2>1. /\ UNCHANGED folder
          /\ IF folder.complete THEN Ends(c) ELSE SearchWindow(c, folder)
        BY <1>3 DEF Initialize
    <2>2. CASE folder.complete
        BY <1>1, <2>1, <2>2, EndsMirror
    <2>3. CASE ~folder.complete
        <3>1. cycle[c].task = "backfill" /\ folder.before # 0
            BY <1>1, <1>3, KnowsCycle DEF Knows, Uninitialized
        <3>2. folder.before <= folder.before
            BY <1>1 DEF RowTyped
        <3>3. QED BY <1>1, <1>3, <2>1, <2>3, <3>1, <3>2, SearchWindowMirror
    <2>4. QED BY <2>2, <2>3
<1>4. CASE folder.validity = gen /\ Uninitialized(folder)
    <2>1. /\ folder' = [validity |-> gen, upper |-> bound, before |-> bound + 1,
                        complete |-> bound = 0, arrival |-> bound]
          /\ Ends(c)
        BY <1>4 DEF Initialize
    <2>2. folder.before = 0
        BY <1>1, <1>4 DEF Uninitialized
    <2>3. RowTyped(folder') /\ folder'.validity = folder.validity
        BY <1>1, <1>4, <2>1 DEF RowTyped
    <2>4. FolderOK'
        BY <1>1, <1>4, <2>1, <2>3 DEF MirrorInv, FolderOK, BoxTyped, RowTyped
    <2>5. SpacesOK'
        BY <1>1, <2>3 DEF MirrorInv, SpacesOK
    <2>6. ScannedMailIsListed'
        <3>1. Scanned' = {}
            BY <1>1, <2>1 DEF Scanned, Uid
        <3>2. QED BY <3>1 DEF ScannedMailIsListed
    <2>7. RowAdvances(folder, folder')
        BY <1>1, <2>2, <2>3 DEF RowAdvances, RowTyped
    <2>8. \A d \in Cycle : Knows(cycle'[d], folder', box')
        BY <1>1, <2>1, <2>3, <2>4, <2>7, EndsKnows, IdleKnows, OthersKnow
    <2>9. QED BY <2>4, <2>5, <2>6, <2>8 DEF MirrorInv
<1>5. QED BY <1>2, <1>3, <1>4

LEMMA FetchMirror ==
    ASSUME MirrorInv, IInv', NEW c \in Cycle, Fetch(c)
    PROVE  MirrorInv'
<1> DEFINE got == Window(c) \cap box.present
           flagged == Window(c) \cap box.flagged
<1>1. /\ cycle' = [cycle EXCEPT ![c].pc = "recheck", ![c].got = got,
                                ![c].flagged = flagged, ![c].from = box.validity]
      /\ UNCHANGED <<box, folder, occ>> /\ cycle[c].pc = "fetch"
    BY DEF Fetch, At
<1>2. \A u \in box.present : u \in WindowOf(cycle[c]) => u \in got
    BY WindowOfCycle
<1> HIDE DEF got, flagged
<1>3. /\ Knows(cycle[c], folder, box) /\ DOMAIN cycle = Cycle
      /\ DOMAIN cycle[c] = MemoryFields
    BY KnowsCycle
<1>4. /\ \A d \in Cycle : d # c => cycle'[d] = cycle[d]
      /\ cycle'[c].pc = "recheck" /\ cycle'[c].got = got
      /\ cycle'[c].task = cycle[c].task /\ cycle'[c].row = cycle[c].row
      /\ cycle'[c].gen = cycle[c].gen /\ cycle'[c].bound = cycle[c].bound
      /\ cycle'[c].want = cycle[c].want /\ cycle'[c].absent = cycle[c].absent
    BY <1>1, <1>3 DEF MemoryFields
<1>5. WindowOf(cycle'[c]) = WindowOf(cycle[c])
    BY <1>4 DEF WindowOf
<1>6. WindowIsFull(cycle[c], folder, box) => WindowIsFull(cycle'[c], folder, box)
    BY <1>2, <1>4, <1>5 DEF WindowIsFull
<1>7. Knowledge(cycle[c], folder, box) => Knowledge(cycle'[c], folder, box)
    BY <1>1, <1>4, <1>6 DEF Knowledge, Fetching
<1>8. MemoryTyped(cycle'[c])
    BY <1>3, <1>4 DEF MemoryTyped, Knows
<1>9. Knows(cycle'[c], folder, box)
    BY <1>1, <1>3, <1>4, <1>7, <1>8 DEF Knows, Fetching
<1>10. QED BY <1>1, <1>4, <1>9, Learns

LEMMA RecheckMirror ==
    ASSUME MirrorInv, IInv', NEW c \in Cycle, Recheck(c)
    PROVE  MirrorInv'
<1>1. /\ UNCHANGED <<box, folder, occ>> /\ cycle[c].pc = "recheck"
      /\ Knows(cycle[c], folder, box) /\ DOMAIN cycle = Cycle
      /\ DOMAIN cycle[c] = MemoryFields /\ cycle[c].gen \in Nat /\ box.validity \in Nat
      /\ cycle[c].gen <= folder.validity /\ cycle[c].gen <= box.validity
    BY KnowsCycle DEF Recheck, At, Knows, BoxTyped, MemoryOK
<1>2. CASE SameValidity(c)
    <2>1. cycle' = [cycle EXCEPT ![c].pc = "commit"]
        BY <1>2 DEF Recheck, Goes
    <2>2. /\ \A d \in Cycle : d # c => cycle'[d] = cycle[d]
          /\ cycle'[c].pc = "commit" /\ cycle'[c].got = cycle[c].got
          /\ cycle'[c].task = cycle[c].task /\ cycle'[c].row = cycle[c].row
          /\ cycle'[c].gen = cycle[c].gen /\ cycle'[c].bound = cycle[c].bound
          /\ cycle'[c].want = cycle[c].want /\ cycle'[c].absent = cycle[c].absent
        BY <1>1, <2>1 DEF MemoryFields
    <2>3. WindowOf(cycle'[c]) = WindowOf(cycle[c])
        BY <2>2 DEF WindowOf
    <2>4. WindowIsFull(cycle[c], folder, box) => WindowIsFull(cycle'[c], folder, box)
        BY <1>1, <2>2, <2>3 DEF WindowIsFull
    <2>5. Knowledge(cycle[c], folder, box) => Knowledge(cycle'[c], folder, box)
        BY <1>1, <2>2, <2>4 DEF Knowledge, Fetching
    <2>6. MemoryTyped(cycle'[c])
        BY <1>1, <2>2 DEF MemoryTyped, Knows
    <2>7. Knows(cycle'[c], folder, box)
        BY <1>1, <2>2, <2>5, <2>6 DEF Knows, Fetching
    <2>8. QED BY <1>1, <2>2, <2>7, Learns
<1>3. CASE ~SameValidity(c)
    <2>1. Changed(c, cycle[c].gen, box.validity)
        BY <1>3 DEF Recheck
    <2>2. QED BY <1>1, <2>1, ChangedMirror
<1>4. QED BY <1>2, <1>3

LEMMA SnapshotMirror ==
    ASSUME MirrorInv, IInv', NEW c \in Cycle, Snapshot(c)
    PROVE  MirrorInv'
<1> DEFINE bound == NewestUid
<1>1. /\ cycle' = [cycle EXCEPT ![c].pc = "compare", ![c].task = "expunges",
                                ![c].bound = bound, ![c].want = box.present]
      /\ UNCHANGED <<box, folder, occ>>
    BY DEF Snapshot
<1>2. /\ cycle[c].pc = "snapshot" /\ cycle[c].task = "arrivals"
      /\ Knows(cycle[c], folder, box) /\ DOMAIN cycle = Cycle
      /\ DOMAIN cycle[c] = MemoryFields /\ BoxTyped(box)
    BY KnowsCycle DEF Snapshot, At, Knows
<1>3. bound \in Nat /\ bound < box.next
    <2>1. box.next \in Nat \ {0}
        BY <1>2 DEF MirrorInv, FolderOK, BoxTyped
    <2>2. QED BY <2>1 DEF NewestUid
<1> HIDE DEF bound
<1>4. /\ \A d \in Cycle : d # c => cycle'[d] = cycle[d]
      /\ cycle'[c].pc = "compare" /\ cycle'[c].task = "expunges"
      /\ cycle'[c].row = cycle[c].row /\ cycle'[c].gen = cycle[c].gen
      /\ cycle'[c].bound = bound /\ cycle'[c].want = box.present
      /\ cycle'[c].absent = cycle[c].absent
    BY <1>1, <1>2 DEF MemoryFields
<1>5. MemoryTyped(cycle'[c])
    BY <1>2, <1>3, <1>4 DEF MemoryTyped, BoxTyped, Knows
<1>6. cycle[c].absent = {}
    BY <1>2 DEF Knows, Scanning
<1>7. Knowledge(cycle'[c], folder, box)
    BY <1>3, <1>4, <1>6 DEF Knowledge, Fetching
<1>8. Knows(cycle'[c], folder, box)
    BY <1>2, <1>4, <1>5, <1>7 DEF Knows, Fetching, Scanning
<1>9. QED BY <1>1, <1>4, <1>8, Learns

LEMMA ToFlagsKnows ==
    ASSUME MirrorInv, NEW c \in Cycle, ToFlags(c)
    PROVE  /\ \A d \in Cycle : d # c => cycle'[d] = cycle[d]
           /\ cycle'[c] = [Idle EXCEPT !.pc = "compare", !.task = "flags", !.gen = cycle[c].gen]
           /\ Knows(cycle'[c], folder, box)
<1> DEFINE m == [Idle EXCEPT !.pc = "compare", !.task = "flags", !.gen = cycle[c].gen]
<1>1. /\ m.pc = "compare" /\ m.task = "flags" /\ m.gen = cycle[c].gen /\ m.absent = {}
      /\ m.row = NewFolder /\ m.want = {} /\ m.bound = 0
    BY DEF Idle
<1>2. cycle' = [cycle EXCEPT ![c] = m]
    BY DEF ToFlags
<1> HIDE DEF m
<1>3. /\ RowTyped(NewFolder) /\ NewFolder.validity = 0 /\ folder.validity \in Nat
      /\ cycle[c].gen <= folder.validity
    BY KnowsCycle DEF NewFolder, RowTyped, Knows
<1>4. Knows(m, folder, box)
    BY <1>1, <1>3 DEF Knows, MemoryTyped, Knowledge, Fetching
<1>5. cycle'[c] = m /\ \A d \in Cycle : d # c => cycle'[d] = cycle[d]
    BY <1>2, KnowsCycle
<1>6. QED BY <1>4, <1>5 DEF m

(* What is found absent is gone: the search had every message up to the    *)
(* bound.                                                                  *)
LEMMA AbsentIsGone ==
    ASSUME MirrorInv, NEW c \in Cycle, cycle[c].pc = "compare",
           cycle[c].task \in {"expunges", "inventory"}, cycle[c].gen = box.validity
    PROVE  \A u \in Absent(cycle[c]) : u \notin box.present /\ u < box.next
<1>1. /\ Knowledge(cycle[c], folder, box) /\ BoxTyped(box) /\ cycle[c].bound \in Nat
    BY KnowsCycle DEF Knows, MemoryTyped
<1>2. /\ cycle[c].bound < box.next
      /\ \A u \in box.present : u <= cycle[c].bound => u \in cycle[c].want
    BY <1>1 DEF Knowledge
<1>3. \A u \in Absent(cycle[c]) :
        u \in Nat /\ u <= cycle[c].bound /\ u \notin cycle[c].want
    BY DEF Absent, Uid
<1>4. QED BY <1>1, <1>2, <1>3 DEF BoxTyped

LEMMA CompareExpungesMirror ==
    ASSUME MirrorInv, IInv', NEW c \in Cycle, CompareExpunges(c)
    PROVE  MirrorInv'
<1> DEFINE absent == Absent(cycle[c])
<1>1. /\ UNCHANGED <<box, folder, occ>>
      /\ cycle[c].pc = "compare" /\ cycle[c].task = "expunges"
      /\ \/ ToFlags(c)
         \/ cycle' = [cycle EXCEPT ![c].pc = "recheck", ![c].absent = absent,
                                   ![c].want = {}, ![c].bound = 0]
    BY DEF CompareExpunges, At
<1>2. cycle[c].gen = box.validity => \A u \in absent : u \notin box.present /\ u < box.next
    BY <1>1, AbsentIsGone
<1> HIDE DEF absent
<1>3. CASE ToFlags(c)
    BY <1>1, <1>3, ToFlagsKnows, Learns
<1>4. CASE cycle' = [cycle EXCEPT ![c].pc = "recheck", ![c].absent = absent,
                                  ![c].want = {}, ![c].bound = 0]
    <2>1. /\ Knows(cycle[c], folder, box) /\ DOMAIN cycle = Cycle
          /\ DOMAIN cycle[c] = MemoryFields
        BY KnowsCycle
    <2>2. /\ \A d \in Cycle : d # c => cycle'[d] = cycle[d]
          /\ cycle'[c].pc = "recheck" /\ cycle'[c].task = "expunges"
          /\ cycle'[c].row = cycle[c].row /\ cycle'[c].gen = cycle[c].gen
          /\ cycle'[c].bound = 0 /\ cycle'[c].want = {} /\ cycle'[c].absent = absent
        BY <1>1, <1>4, <2>1 DEF MemoryFields
    <2>3. MemoryTyped(cycle'[c])
        BY <2>1, <2>2 DEF MemoryTyped, Knows
    <2>4. cycle[c].gen = box.validity => Knowledge(cycle'[c], folder, box)
        BY <1>2, <2>2 DEF Knowledge, Scanning
    <2>5. Knows(cycle'[c], folder, box)
        BY <2>1, <2>2, <2>3, <2>4 DEF Knows, Scanning
    <2>6. QED BY <1>1, <2>2, <2>5, Learns
<1>5. QED BY <1>1, <1>3, <1>4

LEMMA CompareFlagsMirror ==
    ASSUME MirrorInv, IInv', NEW c \in Cycle, CompareFlags(c)
    PROVE  MirrorInv'
<1> DEFINE rows == occ[cycle[c].gen]
           changed == {u \in box.present : /\ rows[u].status = "active"
                                           /\ rows[u].flagged # (u \in box.flagged)}
           flagged == changed \cap box.flagged
<1>1. /\ UNCHANGED <<box, folder, occ>>
      /\ cycle[c].pc = "compare" /\ cycle[c].task = "flags"
      /\ \/ Ends(c)
         \/ cycle' = [cycle EXCEPT ![c].pc = "recheck", ![c].got = changed,
                                   ![c].flagged = flagged]
    BY DEF CompareFlags, At
<1> HIDE DEF rows, changed, flagged
<1>2. CASE Ends(c)
    BY <1>1, <1>2, EndsMirror
<1>3. CASE cycle' = [cycle EXCEPT ![c].pc = "recheck", ![c].got = changed,
                                  ![c].flagged = flagged]
    <2>1. /\ Knows(cycle[c], folder, box) /\ DOMAIN cycle = Cycle
          /\ DOMAIN cycle[c] = MemoryFields
        BY KnowsCycle
    <2>2. /\ \A d \in Cycle : d # c => cycle'[d] = cycle[d]
          /\ cycle'[c].pc = "recheck" /\ cycle'[c].task = "flags"
          /\ cycle'[c].row = cycle[c].row /\ cycle'[c].gen = cycle[c].gen
          /\ cycle'[c].bound = cycle[c].bound /\ cycle'[c].want = cycle[c].want
          /\ cycle'[c].absent = cycle[c].absent
        BY <1>1, <1>3, <2>1 DEF MemoryFields
    <2>3. MemoryTyped(cycle'[c])
        BY <2>1, <2>2 DEF MemoryTyped, Knows
    <2>4. cycle[c].gen = box.validity => Knowledge(cycle'[c], folder, box)
        BY <2>1, <2>2 DEF Knowledge, Scanning, Knows
    <2>5. Knows(cycle'[c], folder, box)
        BY <2>1, <2>2, <2>3, <2>4 DEF Knows, Scanning
    <2>6. QED BY <1>1, <2>2, <2>5, Learns
<1>4. QED BY <1>1, <1>2, <1>3

LEMMA CompareInventoryMirror ==
    ASSUME MirrorInv, IInv', NEW c \in Cycle, CompareInventory(c)
    PROVE  MirrorInv'
<1> DEFINE missed == {u \in cycle[c].want \cap CoveredRange(cycle[c].row) :
                          occ[cycle[c].gen][u].status = "none"}
           pc == IF missed = {} THEN "recheck" ELSE "fetch"
           absent == Absent(cycle[c])
<1>1. /\ cycle' = [cycle EXCEPT ![c].pc = pc, ![c].absent = absent, ![c].want = missed,
                                ![c].row = NewFolder, ![c].bound = 0]
      /\ UNCHANGED <<box, folder, occ>> /\ pc \in {"recheck", "fetch"}
      /\ cycle[c].pc = "compare" /\ cycle[c].task = "inventory"
      /\ missed \subseteq cycle[c].want
    BY DEF CompareInventory, At
<1>2. cycle[c].gen = box.validity => \A u \in absent : u \notin box.present /\ u < box.next
    BY <1>1, AbsentIsGone
<1> HIDE DEF missed, pc, absent
<1>3. /\ Knows(cycle[c], folder, box) /\ DOMAIN cycle = Cycle
      /\ DOMAIN cycle[c] = MemoryFields /\ folder.validity \in Nat
    BY KnowsCycle
<1>4. /\ \A d \in Cycle : d # c => cycle'[d] = cycle[d]
      /\ cycle'[c].pc = pc /\ cycle'[c].task = "inventory"
      /\ cycle'[c].row = NewFolder /\ cycle'[c].gen = cycle[c].gen
      /\ cycle'[c].bound = 0 /\ cycle'[c].want = missed /\ cycle'[c].absent = absent
    BY <1>1, <1>3 DEF MemoryFields
<1>5. MemoryTyped(cycle'[c]) /\ NewFolder.validity = 0
    <2>1. RowTyped(NewFolder) /\ NewFolder.validity = 0
        BY DEF NewFolder, RowTyped
    <2>2. missed \subseteq Uid
        BY <1>1, <1>3 DEF MemoryTyped, Knows
    <2>3. QED BY <1>4, <2>1, <2>2 DEF MemoryTyped
<1>6. cycle[c].gen = box.validity => Knowledge(cycle'[c], folder, box)
    BY <1>1, <1>2, <1>4 DEF Knowledge, Scanning
<1>7. Knows(cycle'[c], folder, box)
    BY <1>1, <1>3, <1>4, <1>5, <1>6 DEF Knows, Scanning
<1>8. QED BY <1>1, <1>4, <1>7, Learns

-----------------------------------------------------------------------------
(* The commit.                                                             *)

LEMMA CommittedRows ==
    ASSUME NEW rows, NEW m, m.task \in Working, NEW u \in Uid, DOMAIN rows[u] = RowFields,
           rows[u].status \in {"none", "active", "expunged"}
    PROVE  LET new == Committed(rows, m)[u].status IN
           /\ new \in {"none", "active", "expunged"}
           /\ new = "expunged" => rows[u].status = "expunged" \/ u \in m.absent
           /\ rows[u].status = "active" /\ u \notin m.absent => new = "active"
           /\ m.task \in Scanning /\ u \in m.got /\ rows[u].status # "expunged" =>
                new = "active"
<1> DEFINE r == rows[u]
<1>1. /\ DOMAIN Imported(rows, m)[u] = RowFields
      /\ Imported(rows, m)[u].status = IF u \in m.got /\ r.status = "none" THEN "active"
                                       ELSE r.status
    BY DEF Imported, RowFields
<1>2. ASSUME NEW old, DOMAIN old[u] = RowFields
      PROVE  Expunged(old, m.absent)[u].status =
                IF u \in m.absent /\ old[u].status = "active" THEN "expunged"
                ELSE old[u].status
    BY <1>2 DEF Expunged, RowFields
<1>3. Flagged(rows, m)[u].status = r.status
    BY DEF Flagged, RowFields
<1>4. CASE m.task \in Scanning
    <2>1. Committed(rows, m) = Imported(rows, m)
        BY <1>4 DEF Committed, Scanning
    <2>2. QED BY <1>1, <1>4, <2>1
<1>5. CASE m.task = "inventory"
    <2>1. Committed(rows, m) = Expunged(Imported(rows, m), m.absent)
        BY <1>5 DEF Committed
    <2>2. QED BY <1>1, <1>2, <1>5, <2>1 DEF Scanning
<1>6. CASE m.task = "expunges"
    <2>1. Committed(rows, m) = Expunged(rows, m.absent)
        BY <1>6 DEF Committed
    <2>2. QED BY <1>2, <1>6, <2>1 DEF Scanning
<1>7. CASE m.task = "flags"
    <2>1. Committed(rows, m) = Flagged(rows, m)
        BY <1>7 DEF Committed
    <2>2. QED BY <1>3, <1>7, <2>1 DEF Scanning
<1>8. QED BY <1>4, <1>5, <1>6, <1>7 DEF Working, Importing, Scanning

(* The row f claims that u was scanned.                                    *)
Claims(f, u) ==
    /\ f.before # 0
    /\ \/ f.before <= u /\ u <= f.upper
       \/ f.upper < u /\ u <= f.arrival

LEMMA ScannedIsClaimed == Scanned = {u \in Uid : Claims(folder, u)}
BY DEF Scanned, Claims

(* A checkpoint moves over what the window fetched, and no further.        *)
LEMMA CheckpointCovers ==
    ASSUME MirrorAssumption, MirrorInv, NEW c \in Cycle, cycle[c].pc = "commit",
           folder.validity = cycle[c].gen
    PROVE  LET g == Checkpoint(folder, cycle[c], Window(c)) IN
           /\ RowTyped(g) /\ g.validity = folder.validity /\ g.upper = folder.upper
           /\ RowAdvances(folder, g)
           /\ folder.validity = box.validity =>
                /\ g.arrival < box.next /\ g.before <= box.next
                /\ \A u \in box.present : Claims(g, u) =>
                        \/ Claims(folder, u)
                        \/ cycle[c].task \in Scanning /\ u \in cycle[c].got
           /\ cycle[c].task = "arrivals" =>
                \A u \in Window(c) : u <= cycle[c].bound => u <= g.arrival
<1> DEFINE m == cycle[c]
           window == Window(c)
           g == Checkpoint(folder, m, window)
<1>1. /\ Knows(m, folder, box) /\ MemoryTyped(m) /\ RowTyped(folder) /\ BoxTyped(box)
      /\ m.task \in Working /\ m.pc \in Fetching
      /\ DOMAIN folder = {"validity", "upper", "before", "complete", "arrival"}
      /\ \A u \in Uid : u \in Nat
    BY KnowsCycle DEF MemoryOK, Fetching, MirrorInv, IInv, MailboxOK, Uid
<1>2. folder.validity = box.validity =>
        /\ folder.arrival < box.next /\ folder.before <= box.next
        /\ m.task \in Scanning => WindowIsFull(m, folder, box)
    BY <1>1 DEF MirrorInv, FolderOK, Knows, Knowledge
<1>3. CASE m.task = "backfill"
    <2> DEFINE before == Smaller(folder.before, m.bound)
    <2>1. g = [folder EXCEPT !.before = before, !.complete = @ \/ before <= 1]
        BY <1>3 DEF Checkpoint
    <2>2. /\ before \in Nat /\ before <= folder.before
          /\ folder.before # 0 => before # 0
          /\ before = folder.before \/ before = m.bound
        BY <1>1, <1>3 DEF Smaller, RowTyped, MemoryTyped, Knows
    <2> HIDE DEF before
    <2>3. /\ g.validity = folder.validity /\ g.upper = folder.upper
          /\ g.arrival = folder.arrival /\ g.before = before
          /\ g.complete = (folder.complete \/ before <= 1)
        BY <1>1, <2>1
    <2> HIDE DEF g
    <2>4. RowTyped(g) /\ RowAdvances(folder, g)
        BY <1>1, <2>2, <2>3 DEF RowTyped, RowAdvances
    <2>5. folder.validity = box.validity =>
            /\ g.arrival < box.next /\ g.before <= box.next
            /\ \A u \in box.present : Claims(g, u) => Claims(folder, u) \/ u \in m.got
        <3>1. SUFFICES ASSUME folder.validity = box.validity
              PROVE  /\ g.arrival < box.next /\ g.before <= box.next
                     /\ \A u \in box.present :
                            Claims(g, u) => Claims(folder, u) \/ u \in m.got
            OBVIOUS
        <3>2. WindowIsFull(m, folder, box)
            BY <1>2, <1>3, <3>1 DEF Scanning
        <3>3. g.arrival < box.next /\ g.before <= box.next
            BY <1>1, <1>2, <2>2, <2>3, <3>1 DEF RowTyped, BoxTyped
        <3>4. ASSUME NEW u \in box.present, Claims(g, u), ~Claims(folder, u)
              PROVE  u \in m.got
            <4>1. u \in Nat /\ before # folder.before /\ m.bound <= u /\ u < folder.before
                <5>1. u \in Nat
                    BY <1>1 DEF BoxTyped
                <5>2. folder.before # 0
                    BY <3>2 DEF WindowIsFull
                <5>3. QED BY <1>1, <2>2, <2>3, <3>4, <5>1, <5>2 DEF Claims, RowTyped
            <4>2. u \in m.want
                BY <1>3, <3>2, <4>1 DEF WindowIsFull
            <4>3. WindowOf(m) = m.want
                BY <1>3 DEF WindowOf
            <4>4. QED BY <3>2, <4>2, <4>3 DEF WindowIsFull
        <3>5. QED BY <3>3, <3>4
    <2>6. QED BY <1>3, <2>3, <2>4, <2>5 DEF g, Scanning
<1>4. CASE m.task = "arrivals"
    <2> DEFINE arrival == Larger(folder.arrival, CoveredUpTo(m, window))
    <2>1. g = [folder EXCEPT !.arrival = arrival]
        BY <1>4 DEF Checkpoint
    <2>2. window = Lowest(m.want, ArrivalBatch) /\ m.want \in SUBSET Uid /\ window = WindowOf(m)
        BY <1>1, <1>4, WindowOfCycle DEF Window, MemoryTyped
    <2>3. CoveredUpTo(m, window) \in Nat
        <3>1. CASE window = m.want
            BY <1>1, <3>1 DEF CoveredUpTo, MemoryTyped
        <3>2. CASE window # m.want
            BY <1>1, <2>2, <3>2, LowestCovers DEF MirrorAssumption, CoveredUpTo, MemoryTyped
        <3>3. QED BY <3>1, <3>2
    <2>4. /\ arrival \in Nat /\ folder.arrival <= arrival /\ CoveredUpTo(m, window) <= arrival
          /\ arrival = folder.arrival \/ arrival = CoveredUpTo(m, window)
        BY <1>1, <2>3 DEF Larger, RowTyped
    <2> HIDE DEF arrival
    <2>5. /\ g.validity = folder.validity /\ g.upper = folder.upper
          /\ g.arrival = arrival /\ g.before = folder.before /\ g.complete = folder.complete
        BY <1>1, <2>1
    <2> HIDE DEF g, window
    <2>6. RowTyped(g) /\ RowAdvances(folder, g)
        BY <1>1, <2>4, <2>5 DEF RowTyped, RowAdvances
    <2>7. \A u \in window : u <= m.bound => u <= g.arrival
        <3>1. CASE window = m.want
            BY <1>1, <2>2, <2>3, <2>4, <2>5, <3>1 DEF CoveredUpTo, MemoryTyped
        <3>2. CASE window # m.want
            <4>1. \A u \in window : u \in Nat /\ u <= CoveredUpTo(m, window)
                BY <1>1, <2>2, <3>2, LowestCovers
                   DEF MirrorAssumption, CoveredUpTo, MemoryTyped, Lowest
            <4>2. QED BY <2>3, <2>4, <2>5, <4>1
        <3>3. QED BY <3>1, <3>2
    <2>8. folder.validity = box.validity =>
            /\ g.arrival < box.next /\ g.before <= box.next
            /\ \A u \in box.present : Claims(g, u) => Claims(folder, u) \/ u \in m.got
        <3>1. SUFFICES ASSUME folder.validity = box.validity
              PROVE  /\ g.arrival < box.next /\ g.before <= box.next
                     /\ \A u \in box.present :
                            Claims(g, u) => Claims(folder, u) \/ u \in m.got
            OBVIOUS
        <3>2. WindowIsFull(m, folder, box)
            BY <1>2, <1>4, <3>1 DEF Scanning
        <3>3. /\ m.bound < box.next /\ \A u \in m.want : u <= m.bound /\ u < box.next
              /\ \A u \in box.present : folder.arrival < u /\ u <= m.bound => u \in m.want
            BY <1>4, <3>2 DEF WindowIsFull
        <3>4. CoveredUpTo(m, window) < box.next /\ CoveredUpTo(m, window) <= m.bound
            <4>1. CASE window = m.want
                BY <3>3, <4>1, <1>1 DEF CoveredUpTo, MemoryTyped
            <4>2. CASE window # m.want
                BY <2>2, <3>3, <4>2, LowestCovers DEF MirrorAssumption, CoveredUpTo
            <4>3. QED BY <4>1, <4>2
        <3>5. g.arrival < box.next /\ g.before <= box.next
            BY <1>2, <2>4, <2>5, <3>1, <3>4
        <3>6. ASSUME NEW u \in box.present, Claims(g, u), ~Claims(folder, u)
              PROVE  u \in m.got
            <4>1. u \in Nat
                BY <1>1 DEF BoxTyped
            <4>2. /\ arrival = CoveredUpTo(m, window)
                  /\ folder.arrival < u /\ u <= CoveredUpTo(m, window)
                BY <1>1, <2>3, <2>4, <2>5, <3>6, <4>1 DEF Claims, RowTyped
            <4>3. u \in m.want
                BY <1>1, <2>3, <3>3, <3>4, <4>1, <4>2 DEF MemoryTyped
            <4>4. u \in window
                <5>1. CASE window = m.want
                    BY <4>3, <5>1
                <5>2. CASE window # m.want
                    BY <2>2, <4>2, <4>3, <5>2, LowestCovers DEF MirrorAssumption, CoveredUpTo
                <5>3. QED BY <5>1, <5>2
            <4>5. QED BY <1>1, <2>2, <3>2, <4>4 DEF WindowIsFull, MirrorInv
        <3>7. QED BY <3>5, <3>6
    <2>9. QED BY <1>4, <2>5, <2>6, <2>7, <2>8 DEF g, window, Scanning
<1>5. CASE m.task \in {"inventory", "expunges", "flags"}
    <2>1. g = folder
        BY <1>5 DEF Checkpoint
    <2> HIDE DEF g
    <2>2. RowAdvances(folder, folder)
        BY <1>1 DEF RowAdvances, RowTyped
    <2>3. QED BY <1>1, <1>2, <1>5, <2>1, <2>2 DEF g
<1>6. QED BY <1>1, <1>3, <1>4, <1>5 DEF Working, Importing

LEMMA ContinuesKnows ==
    ASSUME MirrorAssumption, MirrorInv, NEW c \in Cycle, cycle[c].pc = "commit",
           folder.validity = cycle[c].gen, UNCHANGED box,
           folder' = Checkpoint(folder, cycle[c], Window(c)), Continues(c, Window(c))
    PROVE  /\ \A d \in Cycle : d # c => cycle'[d] = cycle[d]
           /\ Knows(cycle'[c], folder', box)
<1> DEFINE m == cycle[c]
<1>1. /\ Knows(m, folder, box) /\ MemoryOK(m) /\ DOMAIN cycle = Cycle
      /\ DOMAIN m = MemoryFields /\ m.task \in Working
      /\ RowTyped(folder) /\ BoxTyped(box) /\ m.gen \in Nat
      /\ folder.validity <= box.validity
    BY KnowsCycle DEF MemoryOK
<1>2. /\ RowTyped(folder') /\ folder'.validity = folder.validity /\ RowAdvances(folder, folder')
      /\ m.task = "arrivals" => \A u \in Window(c) : u <= m.bound => u <= folder'.arrival
    BY CheckpointCovers
<1>3. BoxAdvances(box, box) /\ (folder.validity = box.validity => folder.before <= box.next)
    BY <1>1 DEF BoxAdvances, BoxTyped, MirrorInv, FolderOK
<1>4. ASSUME NEW k, k.gen \in Nat, Knows(k, folder, box) PROVE Knows(k, folder', box)
    BY <1>1, <1>2, <1>3, <1>4, StillKnows
<1>5. CASE m.task = "arrivals"
    <2> DEFINE rest == m.want \ Window(c)
               pc == IF rest = {} THEN "snapshot" ELSE "fetch"
    <2>1. pc \in {"snapshot", "fetch"} /\ rest \subseteq m.want
        OBVIOUS
    <2>2. cycle' = [cycle EXCEPT ![c].pc = pc, ![c].want = rest, ![c].got = {},
                                 ![c].flagged = {}, ![c].from = 0]
        BY <1>5 DEF Continues
    <2>3. \A u \in m.want : u \in rest \/ u \in Window(c)
        OBVIOUS
    <2> HIDE DEF rest, pc
    <2>4. /\ \A d \in Cycle : d # c => cycle'[d] = cycle[d]
          /\ cycle'[c].pc = pc /\ cycle'[c].task = "arrivals"
          /\ cycle'[c].row = m.row /\ cycle'[c].gen = m.gen /\ cycle'[c].bound = m.bound
          /\ cycle'[c].want = rest /\ cycle'[c].absent = m.absent
        BY <1>1, <1>5, <2>2 DEF MemoryFields
    <2>5. MemoryTyped(cycle'[c])
        BY <1>1, <2>1, <2>4 DEF MemoryTyped, Knows
    <2>6. m.absent = {} /\ (m.gen = box.validity => WindowIsFull(m, folder, box))
        BY <1>1, <1>5 DEF Knows, Knowledge, Fetching, Scanning
    <2>7. ASSUME m.gen = box.validity, pc = "fetch"
          PROVE  WindowIsFull(cycle'[c], folder', box)
        <3>1. /\ folder.before # 0 /\ m.bound < box.next
              /\ \A u \in m.want : u < box.next /\ u <= m.bound
              /\ \A u \in box.present : folder.arrival < u /\ u <= m.bound => u \in m.want
            BY <1>5, <2>6, <2>7 DEF WindowIsFull
        <3>2. folder'.before # 0 /\ folder.arrival <= folder'.arrival
            BY <1>2, <3>1 DEF RowAdvances
        <3>3. ASSUME NEW u \in box.present, folder'.arrival < u, u <= m.bound
              PROVE  u \in rest
            <4>1. u \in Nat /\ folder.arrival \in Nat /\ folder'.arrival \in Nat
                BY <1>1, <1>2 DEF BoxTyped, Uid, RowTyped
            <4>2. u \in m.want
                BY <3>1, <3>2, <3>3, <4>1
            <4>3. u \notin Window(c)
                BY <1>2, <1>5, <3>3, <4>1
            <4>4. QED BY <2>3, <4>2, <4>3
        <3>4. QED BY <2>1, <2>4, <2>7, <3>1, <3>2, <3>3 DEF WindowIsFull
    <2>8. m.gen = box.validity => Knowledge(cycle'[c], folder', box)
        BY <2>1, <2>4, <2>6, <2>7 DEF Knowledge, Fetching
    <2>9. m.gen <= folder'.validity /\ m.row.validity <= folder'.validity
        BY <1>1, <1>2 DEF Knows
    <2>10. Knows(cycle'[c], folder', box)
        BY <2>1, <2>4, <2>5, <2>6, <2>8, <2>9 DEF Knows
    <2>11. QED BY <2>4, <2>10
<1>6. CASE m.task = "expunges"
    <2>1. ToFlags(c)
        BY <1>6 DEF Continues
    <2>2. /\ \A d \in Cycle : d # c => cycle'[d] = cycle[d]
          /\ cycle'[c] = [Idle EXCEPT !.pc = "compare", !.task = "flags", !.gen = m.gen]
          /\ Knows(cycle'[c], folder, box)
        BY <2>1, ToFlagsKnows
    <2>3. cycle'[c].gen = m.gen
        BY <2>2 DEF Idle
    <2>4. QED BY <1>1, <1>4, <2>2, <2>3
<1>7. CASE m.task \in {"backfill", "inventory", "flags"}
    <2>1. Ends(c)
        BY <1>7 DEF Continues
    <2>2. /\ \A d \in Cycle : d # c => cycle'[d] = cycle[d]
          /\ cycle'[c] = Idle /\ Knows(cycle'[c], folder, box)
        BY <2>1, EndsKnows
    <2>3. cycle'[c].gen \in Nat
        BY <2>2 DEF Idle
    <2>4. QED BY <1>4, <2>2, <2>3
<1>8. QED BY <1>1, <1>5, <1>6, <1>7 DEF Working, Importing

LEMMA CommitMirror ==
    ASSUME MirrorAssumption, MirrorInv, IInv', NEW c \in Cycle, Commit(c)
    PROVE  MirrorInv'
<1> DEFINE m == cycle[c]
           v0 == folder.validity
<1>1. /\ Knows(m, folder, box) /\ m.pc = "commit" /\ m.task \in Working /\ box' = box
      /\ RowTyped(folder) /\ BoxTyped(box) /\ m.gen \in Nat /\ m.gen <= folder.validity
      /\ v0 \in 1 .. box.validity
    BY KnowsCycle DEF MemoryOK, Commit, At, Knows
<1>2. CASE ~StillCurrent(c)
    <2> DEFINE observed == IF m.task \in {"backfill", "arrivals"} THEN folder.validity
                           ELSE m.gen
    <2>1. Changed(c, m.gen, observed) /\ UNCHANGED <<box, occ, folder>>
        BY <1>2 DEF Commit
    <2>2. observed \in Nat /\ m.gen <= observed
        BY <1>1
    <2> HIDE DEF observed
    <2>3. QED BY <1>1, <2>1, <2>2, ChangedMirror
<1>3. CASE StillCurrent(c)
    <2> DEFINE new == Committed(occ[v0], m)
    <2>1. /\ v0 = m.gen /\ occ' = [occ EXCEPT ![v0] = new]
          /\ folder' = Checkpoint(folder, m, Window(c)) /\ Continues(c, Window(c))
        BY <1>3 DEF Commit, StillCurrent
    <2>2. /\ RowTyped(folder') /\ folder'.validity = v0 /\ RowAdvances(folder, folder')
          /\ folder'.upper = folder.upper
          /\ v0 = box.validity =>
                /\ folder'.arrival < box.next /\ folder'.before <= box.next
                /\ \A u \in box.present : Claims(folder', u) =>
                        \/ Claims(folder, u)
                        \/ m.task \in Scanning /\ u \in m.got
        BY <1>1, <2>1, CheckpointCovers
    <2>3. /\ v0 \in Validity /\ DOMAIN occ = Validity
          /\ \A u \in Uid : DOMAIN occ[v0][u] = RowFields
          /\ \A u \in Uid : occ[v0][u].status \in {"none", "active", "expunged"}
        <3>1. v0 \in Validity
            BY <1>1 DEF MirrorInv, FolderOK, Validity, MirrorAssumption, BoxTyped
        <3>2. QED BY <3>1 DEF MirrorInv, SpacesOK, IInv, RowsOK
    <2>4. \A u \in Uid :
            /\ new[u].status \in {"none", "active", "expunged"}
            /\ new[u].status = "expunged" =>
                    occ[v0][u].status = "expunged" \/ u \in m.absent
            /\ occ[v0][u].status = "active" /\ u \notin m.absent => new[u].status = "active"
            /\ m.task \in Scanning /\ u \in m.got /\ occ[v0][u].status # "expunged" =>
                    new[u].status = "active"
        BY <1>1, <2>3, CommittedRows
    <2> HIDE DEF new
    <2>5. occ'[v0] = new /\ \A v \in Validity : v # v0 => occ'[v] = occ[v]
        BY <2>1, <2>3
    <2>6. v0 = box.validity => \A u \in m.absent : u \in Uid => u \notin box.present /\ u < box.next
        BY <1>1, <2>1 DEF Knows, Knowledge
    <2>7. FolderOK'
        <3>1. v0 = box.validity => \A u \in Uid :
                new[u].status = "expunged" => u \notin box.present /\ u < box.next
            BY <2>4, <2>6 DEF MirrorInv, FolderOK
        <3>2. v0 = box.validity => folder'.upper < box.next
            BY <2>2 DEF MirrorInv, FolderOK
        <3>3. /\ BoxTyped(box) /\ box.next # 0 /\ v0 \in 1 .. box.validity
              /\ box.validity <= MaxValidity
            BY DEF MirrorInv, FolderOK
        <3>4. BoxTyped(box')
            BY <1>1
        <3>5. QED BY <1>1, <2>2, <2>5, <3>1, <3>2, <3>3, <3>4 DEF FolderOK
    <2>8. SpacesOK'
        <3>1. \A u \in Uid : occ'[folder'.validity][u].status \in {"none", "active", "expunged"}
            BY <2>2, <2>4, <2>5
        <3>2. ASSUME NEW v \in Validity, NEW u \in Uid, v > folder'.validity
              PROVE  occ'[v][u].status = "none"
            BY <1>1, <2>2, <2>5, <3>2 DEF MirrorInv, SpacesOK, Validity, RowTyped
        <3>3. QED BY <3>1, <3>2 DEF SpacesOK
    <2>9. ScannedMailIsListed'
        <3>1. SUFFICES ASSUME v0 = box.validity, NEW u \in box.present, u \in Uid,
                              Claims(folder', u)
                       PROVE  new[u].status = "active"
            BY <1>1, <2>2, <2>5 DEF ScannedMailIsListed, Scanned, Claims
        <3>2. u \notin m.absent /\ occ[v0][u].status # "expunged"
            BY <2>6, <3>1 DEF MirrorInv, FolderOK
        <3>3. CASE Claims(folder, u)
            <4>1. occ[v0][u].status = "active"
                BY <3>1, <3>3 DEF MirrorInv, ScannedMailIsListed, Scanned, Claims
            <4>2. QED BY <2>4, <3>1, <3>2, <4>1
        <3>4. CASE m.task \in Scanning /\ u \in m.got
            BY <2>4, <3>1, <3>2, <3>4
        <3>5. QED BY <2>2, <3>1, <3>3, <3>4
    <2>10. \A d \in Cycle : Knows(cycle'[d], folder', box')
        BY <1>1, <2>1, <2>2, <2>7, ContinuesKnows, OthersKnow
    <2>11. QED BY <2>7, <2>8, <2>9, <2>10 DEF MirrorInv
<1>4. QED BY <1>2, <1>3

LEMMA ResetMirror ==
    ASSUME MirrorAssumption, MirrorInv, IInv', NEW c \in Cycle, Reset(c)
    PROVE  MirrorInv'
<1> DEFINE old == folder.validity
           observed == cycle[c].observed
<1>1. /\ Ends(c) /\ box' = box /\ Knows(cycle[c], folder, box) /\ cycle[c].pc = "reset"
      /\ observed \in 0 .. box.validity /\ cycle[c].gen \in Nat
      /\ RowTyped(folder) /\ BoxTyped(box) /\ old \in 1 .. box.validity
    BY KnowsCycle DEF Reset, At, MemoryOK
<1>2. CASE ~ResetApplies(cycle[c].gen, observed)
    BY <1>1, <1>2, EndsMirror DEF Reset
<1>3. CASE ResetApplies(cycle[c].gen, observed)
    <2>1. /\ folder' = [NewFolder EXCEPT !.validity = observed]
          /\ occ' = [occ EXCEPT ![old] = Invalidated(@)]
        BY <1>3 DEF Reset
    <2>2. old < observed /\ observed \in Nat /\ box.validity \in Nat
        BY <1>1, <1>3 DEF ResetApplies, Knows, BoxTyped
    <2>3. /\ folder'.validity = observed /\ folder'.before = 0 /\ folder'.upper = 0
          /\ folder'.arrival = 0 /\ folder'.complete = FALSE /\ RowTyped(folder')
        BY <2>1, <2>2 DEF NewFolder, RowTyped
    <2>4. \A v \in Validity, u \in Uid : v >= observed => occ'[v][u].status = "none"
        <3>1. ASSUME NEW v \in Validity, NEW u \in Uid, v >= observed
              PROVE  occ'[v][u].status = "none"
            <4>1. v # old /\ v > old
                BY <1>1, <2>2, <3>1 DEF Validity
            <4>2. occ'[v] = occ[v]
                BY <2>1, <4>1 DEF MirrorInv, IInv, RowsOK
            <4>3. QED BY <4>1, <4>2 DEF MirrorInv, SpacesOK
        <3>2. QED BY <3>1
    <2>5. observed \in Validity
        BY <1>1, <2>2 DEF MirrorInv, FolderOK, Validity, MirrorAssumption, BoxTyped
    <2>6. SpacesOK'
        BY <2>2, <2>3, <2>4, <2>5 DEF SpacesOK, Validity
    <2>7. ScannedMailIsListed'
        BY <2>3 DEF ScannedMailIsListed, Scanned
    <2>8. FolderOK'
        <3>1. \A u \in Uid : occ'[observed][u].status = "none"
            BY <2>2, <2>4, <2>5
        <3>2. box.next \in Nat \ {0} /\ box.validity <= MaxValidity
            BY <1>1 DEF MirrorInv, FolderOK, BoxTyped
        <3>3. BoxTyped(box') /\ observed \in 1 .. box.validity
            BY <1>1, <2>2
        <3>4. QED BY <1>1, <2>3, <3>1, <3>2, <3>3 DEF FolderOK
    <2>9. RowAdvances(folder, folder')
        BY <1>1, <2>2, <2>3 DEF RowAdvances, RowTyped
    <2>10. \A d \in Cycle : Knows(cycle'[d], folder', box')
        BY <1>1, <2>3, <2>8, <2>9, EndsKnows, IdleKnows, OthersKnow
    <2>11. QED BY <2>6, <2>7, <2>8, <2>10 DEF MirrorInv
<1>4. QED BY <1>2, <1>3

(* The server: new UIDs are above every checkpoint, and a new numbering    *)
(* leaves no cycle working in the mailbox's UID space.                     *)
LEMMA ServerMirror ==
    ASSUME MirrorAssumption, MirrorInv, IInv', ServerStep
    PROVE  MirrorInv'
<1>1. /\ BoxTyped(box) /\ RowTyped(folder) /\ box.next \in Nat \ {0}
      /\ folder.validity \in 1 .. box.validity /\ box.validity \in Nat
      /\ box.validity <= MaxValidity
      /\ DOMAIN box = {"validity", "next", "present", "flagged"}
      /\ MaxUid \in Nat /\ MaxValidity \in Nat
    BY DEF MirrorInv, FolderOK, BoxTyped, IInv, MailboxOK, MirrorAssumption
<1>2. /\ UNCHANGED <<folder, occ, cycle>> /\ BoxTyped(box') /\ box'.next # 0
      /\ BoxAdvances(box, box') /\ box'.validity <= MaxValidity
    <2>1. CASE Deliver
        <3>1. /\ box'.validity = box.validity /\ box'.next = box.next + 1
              /\ box'.present = box.present \cup {box.next} /\ box.next <= MaxUid
              /\ UNCHANGED <<folder, occ, cycle>>
            BY <1>1, <2>1 DEF Deliver
        <3>2. \A u \in box.present : u \in Nat /\ u < box.next
            BY <1>1 DEF BoxTyped, Uid
        <3>3. BoxTyped(box')
            BY <1>1, <3>1, <3>2 DEF BoxTyped, Uid
        <3>4. QED BY <1>1, <3>1, <3>3 DEF BoxAdvances
    <2>2. CASE Renumber
        <3> DEFINE n == Cardinality(box.present)
        <3>1. /\ box'.validity = box.validity + 1 /\ box'.next = n + 1
              /\ box'.present = 1 .. n /\ box.validity < MaxValidity
              /\ UNCHANGED <<folder, occ, cycle>>
            BY <2>2 DEF Renumber
        <3>2. n \in Nat /\ n <= MaxUid
            <4>1. IsFiniteSet(Uid) /\ Cardinality(Uid) = MaxUid
                <5>1. 1 \in Int /\ MaxUid \in Int /\ (1 > MaxUid => MaxUid = 0)
                    BY <1>1
                <5>2. /\ IsFiniteSet(1 .. MaxUid)
                      /\ Cardinality(1 .. MaxUid) = IF 1 > MaxUid THEN 0 ELSE MaxUid - 1 + 1
                    BY <5>1, FS_Interval
                <5>3. QED BY <1>1, <5>1, <5>2 DEF Uid
            <4>2. box.present \in SUBSET Uid
                BY <1>1 DEF BoxTyped
            <4>3. QED BY <4>1, <4>2, FS_Subset, FS_CardinalityType
        <3> HIDE DEF n
        <3>3. BoxTyped(box')
            BY <1>1, <3>1, <3>2 DEF BoxTyped, Uid
        <3>4. QED BY <1>1, <3>1, <3>2, <3>3 DEF BoxAdvances
    <2>3. ASSUME NEW u \in Uid, Expunge(u) \/ Flag(u)
          PROVE  /\ box'.validity = box.validity /\ box'.next = box.next
                 /\ box'.present \subseteq box.present
                 /\ UNCHANGED <<folder, occ, cycle>>
        BY <1>1, <2>3 DEF Expunge, Flag
    <2>4. CASE \E u \in Uid : Expunge(u) \/ Flag(u)
        BY <1>1, <2>3, <2>4 DEF BoxTyped, BoxAdvances
    <2>5. QED BY <2>1, <2>2, <2>4 DEF ServerStep
<1>3. /\ box.validity <= box'.validity /\ box'.validity \in Nat /\ box'.next \in Nat
      /\ box'.validity = box.validity =>
            box.next <= box'.next /\ \A u \in box'.present : u \in box.present \/ u >= box.next
    BY <1>2 DEF BoxAdvances, BoxTyped
<1>4. FolderOK'
    <2>1. ASSUME folder.validity = box'.validity
          PROVE  /\ folder.upper < box'.next /\ folder.arrival < box'.next
                 /\ folder.before <= box'.next
                 /\ \A u \in Uid : occ[folder.validity][u].status = "expunged" =>
                        u \notin box'.present /\ u < box'.next
        <3>1. folder.validity = box.validity /\ box'.validity = box.validity
            BY <1>1, <1>3, <2>1
        <3>2. /\ folder.upper < box.next /\ folder.arrival < box.next
              /\ folder.before <= box.next
              /\ \A u \in Uid : occ[folder.validity][u].status = "expunged" =>
                     u \notin box.present /\ u < box.next
            BY <3>1 DEF MirrorInv, FolderOK
        <3>3. \A u \in Uid : u \in Nat
            BY DEF Uid
        <3>4. QED BY <1>1, <1>3, <3>1, <3>2, <3>3 DEF RowTyped
    <2>2. folder.validity \in 1 .. box'.validity
        BY <1>1, <1>3
    <2>3. QED BY <1>1, <1>2, <2>1, <2>2 DEF FolderOK
<1>5. SpacesOK'
    BY <1>2 DEF MirrorInv, SpacesOK
<1>6. ScannedMailIsListed'
    <2>1. SUFFICES ASSUME folder.validity = box'.validity, NEW u \in box'.present, u \in Scanned
                   PROVE  occ[folder.validity][u].status = "active"
        BY <1>2 DEF ScannedMailIsListed, Scanned
    <2>2. folder.validity = box.validity /\ box'.validity = box.validity
        BY <1>1, <1>3, <2>1
    <2>3. folder.upper < box.next /\ folder.arrival < box.next
        BY <2>2 DEF MirrorInv, FolderOK
    <2>4. u \in Nat /\ u < box.next
        BY <1>1, <2>1, <2>3 DEF Scanned, Uid, RowTyped
    <2>5. u \in box.present
        BY <1>1, <1>3, <2>1, <2>2, <2>4
    <2>6. QED BY <2>1, <2>2, <2>5 DEF MirrorInv, ScannedMailIsListed
<1>7. \A d \in Cycle : Knows(cycle'[d], folder', box')
    <2>1. SUFFICES ASSUME NEW d \in Cycle PROVE Knows(cycle[d], folder, box')
        BY <1>2
    <2>2. Knows(cycle[d], folder, box) /\ cycle[d].gen \in Nat
        BY KnowsCycle
    <2>3. RowAdvances(folder, folder)
        BY <1>1 DEF RowAdvances, RowTyped
    <2>4. folder.validity <= box.validity /\ folder.validity <= box'.validity
        BY <1>1, <1>3
    <2>5. folder.validity = box.validity => folder.before <= box.next
        BY DEF MirrorInv, FolderOK
    <2>6. QED BY <1>1, <1>2, <2>2, <2>3, <2>4, <2>5, StillKnows
<1>8. QED BY <1>4, <1>5, <1>6, <1>7 DEF MirrorInv

-----------------------------------------------------------------------------
(* The invariant of the mirror, and what follows.                          *)

LEMMA MirrorInit == ASSUME MirrorAssumption PROVE Init => MirrorInv
<1> SUFFICES ASSUME Init PROVE MirrorInv
    OBVIOUS
<1>1. PICK n \in 0 .. MaxUid :
        box = [validity |-> 1, next |-> n + 1, present |-> 1 .. n, flagged |-> {}]
    BY DEF Init
<1>2. BoxTyped(box) /\ box.validity = 1 /\ box.next \in Nat \ {0}
    BY <1>1 DEF BoxTyped, Uid, MirrorAssumption
<1>3. folder = [NewFolder EXCEPT !.validity = 1]
    BY DEF Init, MirrorAssumption
<1>4. /\ folder.validity = 1 /\ folder.before = 0 /\ folder.upper = 0 /\ folder.arrival = 0
      /\ RowTyped(folder)
    BY <1>3 DEF NewFolder, RowTyped
<1>5. \A v \in Validity, u \in Uid : occ[v][u].status = "none"
    BY DEF Init, NoOccurrence
<1>6. 1 \in Validity
    BY DEF MirrorAssumption, Validity
<1>7. FolderOK
    BY <1>2, <1>4, <1>5, <1>6 DEF FolderOK, MirrorAssumption
<1>8. SpacesOK
    BY <1>4, <1>5, <1>6 DEF SpacesOK
<1>9. ScannedMailIsListed
    BY <1>4 DEF ScannedMailIsListed, Scanned
<1>10. \A c \in Cycle : Knows(cycle[c], folder, box)
    BY <1>2, <1>4, IdleKnows DEF Init
<1>11. QED BY <1>7, <1>8, <1>9, <1>10, InitInv DEF MirrorInv

LEMMA MirrorStep == ASSUME MirrorAssumption PROVE MirrorInv /\ [Next]_vars => MirrorInv'
<1> SUFFICES ASSUME MirrorInv, [Next]_vars PROVE MirrorInv'
    OBVIOUS
<1>1. IInv'
    BY StepInv DEF MirrorInv
<1>2. CASE UNCHANGED vars
    BY <1>1, <1>2 DEF vars, MirrorInv, FolderOK, SpacesOK, ScannedMailIsListed, Scanned
<1>3. ASSUME NEW c \in Cycle, NEW task \in Importing, Begin(c, task) PROVE MirrorInv'
    BY <1>1, <1>3, BeginMirror
<1>4. ASSUME NEW c \in Cycle, CycleStep(c) PROVE MirrorInv'
    BY <1>1, <1>4, SelectMirror, InitializeMirror, FetchMirror, RecheckMirror, CommitMirror,
       SnapshotMirror, CompareExpungesMirror, CompareFlagsMirror, CompareInventoryMirror,
       ResetMirror DEF CycleStep
<1>5. ASSUME NEW c \in Cycle, Crash(c) PROVE MirrorInv'
    BY <1>1, <1>5, EndsMirror DEF Crash
<1>6. CASE ServerStep
    BY <1>1, <1>6, ServerMirror
<1>7. QED BY <1>2, <1>3, <1>4, <1>5, <1>6 DEF Next, Importing

(* The row only advances: at an initialization it had no checkpoint, at a  *)
(* commit the locked row is compared, at a reset the UID space is newer.   *)
LEMMA StepAdvances ==
    ASSUME MirrorAssumption, MirrorInv, Next PROVE CheckpointsAdvance
<1>1. RowTyped(folder) /\ folder.validity \in Nat /\ folder.before \in Nat /\ folder.arrival \in Nat
    BY DEF MirrorInv, FolderOK, RowTyped
<1>2. CASE UNCHANGED folder
    BY <1>1, <1>2 DEF CheckpointsAdvance
<1>3. ASSUME NEW c \in Cycle, Initialize(c), folder' # folder PROVE CheckpointsAdvance
    <2>1. /\ folder.validity \in {0, cycle[c].gen} /\ Uninitialized(folder)
          /\ folder'.validity = cycle[c].gen
        BY <1>3 DEF Initialize
    <2>2. folder.validity # 0
        BY DEF MirrorInv, FolderOK
    <2>3. QED BY <1>1, <2>1, <2>2 DEF CheckpointsAdvance, Uninitialized
<1>4. ASSUME NEW c \in Cycle, Commit(c), folder' # folder PROVE CheckpointsAdvance
    <2>1. /\ cycle[c].pc = "commit" /\ folder.validity = cycle[c].gen
          /\ folder' = Checkpoint(folder, cycle[c], Window(c))
        BY <1>4 DEF Commit, At, StillCurrent
    <2>2. RowAdvances(folder, folder')
        BY <2>1, CheckpointCovers
    <2>3. QED BY <2>2 DEF RowAdvances, CheckpointsAdvance
<1>5. ASSUME NEW c \in Cycle, Reset(c), folder' # folder PROVE CheckpointsAdvance
    <2>1. /\ cycle[c].pc = "reset" /\ ResetApplies(cycle[c].gen, cycle[c].observed)
          /\ folder' = [NewFolder EXCEPT !.validity = cycle[c].observed]
        BY <1>5 DEF Reset, At
    <2>2. /\ folder.validity = cycle[c].gen /\ cycle[c].observed # folder.validity
          /\ cycle[c].gen <= cycle[c].observed /\ cycle[c].observed \in Nat
        BY <2>1, KnowsCycle DEF ResetApplies, Knows, MemoryOK, BoxTyped
    <2>3. folder'.validity = cycle[c].observed
        BY <2>1 DEF NewFolder
    <2>4. QED BY <1>1, <2>2, <2>3 DEF CheckpointsAdvance
<1>6. \/ UNCHANGED folder
      \/ \E c \in Cycle : Initialize(c) \/ Commit(c) \/ Reset(c)
    BY DEF Next, Begin, CycleStep, Select, Fetch, Recheck, Snapshot, CompareExpunges,
           CompareFlags, CompareInventory, Crash, ServerStep, Deliver, Renumber, Expunge, Flag
<1>7. QED BY <1>2, <1>3, <1>4, <1>5, <1>6

(* Mail below a checkpoint is listed, rows are true to their UID space and *)
(* only the current one has active rows, however many cycles overlap and   *)
(* wherever one of them is lost, for a folder that was contacted before.   *)
THEOREM MirrorStaysTrue == ASSUME MirrorAssumption PROVE Spec => []MirrorIsTrue
<1>1. MirrorInv => MirrorIsTrue
    BY DEF MirrorInv, IInv, MirrorIsTrue
<1>2. QED BY MirrorInit, MirrorStep, <1>1, PTL DEF Spec

(* A slow cycle takes no checkpoint back: under one UIDVALIDITY the        *)
(* boundary only falls, the arrival checkpoint only rises and a complete   *)
(* backfill stays complete, and no reset returns the folder to a UID space *)
(* it has left (Math.min in backfill.ts, Math.max in steady.ts).           *)
THEOREM CheckpointsOnlyAdvance ==
    ASSUME MirrorAssumption PROVE Spec => [][CheckpointsAdvance]_vars
<1>1. MirrorInv /\ [Next]_vars => [CheckpointsAdvance]_vars
    BY StepAdvances
<1>2. QED BY MirrorInit, MirrorStep, <1>1, PTL DEF Spec

-----------------------------------------------------------------------------
(* The types, also of a folder not contacted before.  A window is a part   *)
(* of the UID space, so its bound and its last UID are UIDs.               *)

TypingAssumption ==
    /\ MaxUid \in Nat \ {0} /\ MaxValidity \in Nat \ {0}
    /\ WindowSize \in Nat \ {0} /\ ArrivalBatch \in Nat \ {0}
    /\ MaxFlags \in Nat /\ MaxCrashes \in Nat

LEMMA IdleTyped == ASSUME TypingAssumption PROVE Idle \in Memory /\ NewFolder \in Folder
BY DEF TypingAssumption, Idle, NewFolder, Memory, Folder, Pc, Task

LEMMA TypeInit == ASSUME TypingAssumption PROVE Init => TypeOK
<1> SUFFICES ASSUME Init PROVE TypeOK
    OBVIOUS
<1>1. PICK n \in 0 .. MaxUid :
        box = [validity |-> 1, next |-> n + 1, present |-> 1 .. n, flagged |-> {}]
    BY DEF Init
<1>2. 1 \in Validity /\ 1 .. n \subseteq Uid /\ n + 1 \in 1 .. MaxUid + 1
    BY <1>1 DEF TypingAssumption, Validity, Uid
<1>3. box \in Box
    BY <1>1, <1>2 DEF Box
<1>4. folder \in Folder
    BY <1>2, IdleTyped DEF Init, Folder
<1>5. NoOccurrence \in Occurrence
    BY DEF NoOccurrence, Occurrence
<1>6. occ \in [Validity -> [Uid -> Occurrence]] /\ cycle \in [Cycle -> Memory]
    BY <1>5, IdleTyped DEF Init
<1>7. flips \in 0 .. MaxFlags /\ cycleCrashes \in 0 .. MaxCrashes
    BY DEF Init, TypingAssumption
<1>8. QED BY <1>3, <1>4, <1>6, <1>7 DEF TypeOK

(* A step of one cycle gives it another memory.                            *)
LEMMA GivesMemory ==
    ASSUME TypeOK, NEW c \in Cycle, NEW m \in Memory, cycle' = [cycle EXCEPT ![c] = m],
           UNCHANGED box, UNCHANGED flips, cycleCrashes' \in 0 .. MaxCrashes,
           folder' \in Folder, occ' \in [Validity -> [Uid -> Occurrence]]
    PROVE  TypeOK'
<1>1. cycle' \in [Cycle -> Memory]
    BY DEF TypeOK
<1>2. QED BY <1>1 DEF TypeOK

LEMMA EndsTyped ==
    ASSUME TypingAssumption, TypeOK, NEW c \in Cycle, Ends(c), UNCHANGED box, UNCHANGED flips,
           cycleCrashes' \in 0 .. MaxCrashes, folder' \in Folder,
           occ' \in [Validity -> [Uid -> Occurrence]]
    PROVE  TypeOK'
BY IdleTyped, GivesMemory DEF Ends

LEMMA ChangedTyped ==
    ASSUME TypingAssumption, TypeOK, NEW c \in Cycle, NEW recorded \in Validity \cup {0},
           NEW observed \in Validity \cup {0}, Changed(c, recorded, observed),
           UNCHANGED <<box, folder, occ, flips, cycleCrashes>>
    PROVE  TypeOK'
<1>1. PICK m : m = [Idle EXCEPT !.pc = "reset", !.gen = recorded, !.observed = observed]
    OBVIOUS
<1>2. m \in Memory
    BY <1>1, IdleTyped DEF Memory, Pc
<1>3. QED BY <1>1, <1>2, GivesMemory DEF Changed, TypeOK

LEMMA RemembersTyped ==
    ASSUME TypeOK, NEW c \in Cycle, NEW m \in Memory, cycle' = [cycle EXCEPT ![c] = m],
           UNCHANGED <<box, folder, occ, flips, cycleCrashes>>
    PROVE  TypeOK'
BY GivesMemory DEF TypeOK

LEMMA BeginTyped ==
    ASSUME TypingAssumption, TypeOK, NEW c \in Cycle, NEW task \in Importing, Begin(c, task)
    PROVE  TypeOK'
<1>1. PICK m : m = [Idle EXCEPT !.pc = "select", !.task = task, !.row = folder]
    OBVIOUS
<1>2. m \in Memory
    BY <1>1, IdleTyped DEF TypeOK, Memory, Pc, Task, Importing
<1>3. QED BY <1>1, <1>2, RemembersTyped DEF Begin

LEMMA SearchWindowTyped ==
    ASSUME TypingAssumption, TypeOK, NEW c \in Cycle, NEW row \in Folder, row.before # 0,
           SearchWindow(c, row), UNCHANGED <<box, folder, occ, flips, cycleCrashes>>
    PROVE  TypeOK'
<1>1. Low(row) \in 0 .. MaxUid
    BY DEF TypingAssumption, Folder, Low, Larger
<1>2. PICK low, want : low = Low(row) /\ want = box.present \cap (Low(row) .. row.before - 1)
    OBVIOUS
<1>3. PICK m : m = [cycle[c] EXCEPT !.pc = "fetch", !.row = NewFolder, !.gen = row.validity,
                                    !.bound = low, !.want = want]
    OBVIOUS
<1>4. m \in Memory
    <2>1. want \subseteq Uid /\ row.validity \in Validity \cup {0} /\ cycle[c] \in Memory
        BY <1>2 DEF TypeOK, Box, Folder
    <2>2. QED BY <1>1, <1>2, <1>3, <2>1, IdleTyped DEF Memory, Pc
<1>5. cycle' = [cycle EXCEPT ![c] = m]
    BY <1>2, <1>3 DEF SearchWindow, TypeOK
<1>6. QED BY <1>4, <1>5, RemembersTyped

LEMMA SelectTyped ==
    ASSUME TypingAssumption, IInv, TypeOK, NEW c \in Cycle, Select(c)
    PROVE  TypeOK'
<1> DEFINE row == cycle[c].row
           task == cycle[c].task
<1>0. cycle[c] \in Memory /\ row \in Folder /\ task \in Importing /\ box \in Box
    BY DEF Select, At, TypeOK, Memory, IInv, CyclesOK, MemoryOK
<1>1. /\ row.validity \in Validity \cup {0} /\ box.validity \in Validity
      /\ NewestUid \in 0 .. MaxUid /\ box.present \subseteq Uid
    BY <1>0 DEF Folder, Box, NewestUid, TypingAssumption
<1>2. CASE Changed(c, row.validity, box.validity)
    BY <1>1, <1>2, ChangedTyped DEF Select
<1>3. CASE cycle' = [cycle EXCEPT ![c].pc = "initialize", ![c].gen = box.validity,
                                  ![c].bound = NewestUid]
    <2>1. PICK m : m = [cycle[c] EXCEPT !.pc = "initialize", !.gen = box.validity,
                                        !.bound = NewestUid]
        OBVIOUS
    <2>2. m \in Memory
        BY <1>0, <1>1, <2>1 DEF Memory, Pc
    <2>3. cycle' = [cycle EXCEPT ![c] = m]
        BY <1>3, <2>1 DEF TypeOK
    <2>4. QED BY <2>2, <2>3, RemembersTyped DEF Select
<1>4. CASE Ends(c)
    BY <1>4, EndsTyped DEF Select, TypeOK
<1>5. CASE ~Uninitialized(row) /\ SearchWindow(c, row)
    BY <1>0, <1>5, SearchWindowTyped DEF Select, Uninitialized
<1>6. CASE SearchArrivals(c)
    <2>1. PICK m : m = [cycle[c] EXCEPT
                !.gen = row.validity, !.bound = NewestUid, !.row = NewFolder,
                !.pc = IF NewestUid <= row.arrival THEN "snapshot" ELSE "fetch",
                !.want = IF NewestUid <= row.arrival THEN {}
                         ELSE box.present \cap (row.arrival + 1 .. NewestUid)]
        OBVIOUS
    <2>2. m \in Memory
        BY <1>0, <1>1, <2>1, IdleTyped DEF Memory, Pc
    <2>3. cycle' = [cycle EXCEPT ![c] = m]
        BY <1>6, <2>1 DEF SearchArrivals, TypeOK
    <2>4. QED BY <2>2, <2>3, RemembersTyped DEF Select
<1>7. CASE SearchAll(c)
    <2>1. PICK m : m = [cycle[c] EXCEPT !.pc = "compare", !.gen = row.validity,
                                        !.bound = NewestUid, !.want = box.present]
        OBVIOUS
    <2>2. m \in Memory
        BY <1>0, <1>1, <2>1 DEF Memory, Pc
    <2>3. cycle' = [cycle EXCEPT ![c] = m]
        BY <1>7, <2>1 DEF SearchAll, TypeOK
    <2>4. QED BY <2>2, <2>3, RemembersTyped DEF Select
<1>8. QED BY <1>0, <1>2, <1>3, <1>4, <1>5, <1>6, <1>7 DEF Select, Importing

LEMMA InitializeTyped ==
    ASSUME TypingAssumption, TypeOK, NEW c \in Cycle, Initialize(c)
    PROVE  TypeOK'
<1>1. /\ cycle[c].gen \in Validity \cup {0} /\ cycle[c].bound \in 0 .. MaxUid
      /\ folder \in Folder /\ folder.validity \in Validity \cup {0}
    BY DEF TypeOK, Memory, Folder
<1>2. CASE Changed(c, cycle[c].gen, folder.validity) /\ UNCHANGED folder
    BY <1>1, <1>2, ChangedTyped DEF Initialize
<1>3. CASE ~Uninitialized(folder) /\ SearchWindow(c, folder) /\ UNCHANGED folder
    BY <1>1, <1>3, SearchWindowTyped DEF Initialize, Uninitialized
<1>4. CASE Ends(c) /\ folder' \in Folder
    BY <1>4, EndsTyped DEF Initialize, TypeOK
<1>5. [validity |-> cycle[c].gen, upper |-> cycle[c].bound, before |-> cycle[c].bound + 1,
       complete |-> cycle[c].bound = 0, arrival |-> cycle[c].bound] \in Folder
    BY <1>1 DEF Folder, TypingAssumption
<1>6. QED BY <1>1, <1>2, <1>3, <1>4, <1>5 DEF Initialize

LEMMA ReadsTyped ==
    ASSUME TypingAssumption, TypeOK, NEW c \in Cycle, Fetch(c) \/ Recheck(c) \/ Snapshot(c)
    PROVE  TypeOK'
<1>0. /\ cycle[c] \in Memory /\ box.validity \in Validity /\ NewestUid \in 0 .. MaxUid
      /\ box.present \subseteq Uid /\ box.flagged \subseteq Uid
      /\ cycle[c].gen \in Validity \cup {0}
    BY DEF TypeOK, Box, Memory, NewestUid, TypingAssumption
<1>1. CASE Fetch(c)
    <2>1. PICK window : window = Window(c)
        OBVIOUS
    <2>2. PICK m : m = [cycle[c] EXCEPT !.pc = "recheck", !.got = window \cap box.present,
                                        !.flagged = window \cap box.flagged,
                                        !.from = box.validity]
        OBVIOUS
    <2>3. m \in Memory
        BY <1>0, <2>2 DEF Memory, Pc
    <2>4. cycle' = [cycle EXCEPT ![c] = m]
        BY <1>1, <2>1, <2>2 DEF Fetch, TypeOK
    <2>5. QED BY <1>1, <2>3, <2>4, RemembersTyped DEF Fetch
<1>2. CASE Recheck(c) /\ Goes(c, "commit")
    <2>1. PICK m : m = [cycle[c] EXCEPT !.pc = "commit"]
        OBVIOUS
    <2>2. m \in Memory
        BY <1>0, <2>1 DEF Memory, Pc
    <2>3. cycle' = [cycle EXCEPT ![c] = m]
        BY <1>2, <2>1 DEF Goes, TypeOK
    <2>4. QED BY <1>2, <2>2, <2>3, RemembersTyped DEF Recheck
<1>3. CASE Recheck(c) /\ Changed(c, cycle[c].gen, box.validity)
    BY <1>0, <1>3, ChangedTyped DEF Recheck
<1>4. CASE Snapshot(c)
    <2>1. PICK m : m = [cycle[c] EXCEPT !.pc = "compare", !.task = "expunges",
                                        !.bound = NewestUid, !.want = box.present]
        OBVIOUS
    <2>2. m \in Memory
        BY <1>0, <2>1 DEF Memory, Pc, Task
    <2>3. cycle' = [cycle EXCEPT ![c] = m]
        BY <1>4, <2>1 DEF Snapshot, TypeOK
    <2>4. QED BY <1>4, <2>2, <2>3, RemembersTyped DEF Snapshot
<1>5. QED BY <1>1, <1>2, <1>3, <1>4 DEF Recheck

LEMMA ToFlagsTyped ==
    ASSUME TypingAssumption, TypeOK, NEW c \in Cycle, ToFlags(c),
           UNCHANGED <<box, flips, cycleCrashes>>, folder' \in Folder,
           occ' \in [Validity -> [Uid -> Occurrence]]
    PROVE  TypeOK'
<1>1. PICK m : m = [Idle EXCEPT !.pc = "compare", !.task = "flags", !.gen = cycle[c].gen]
    OBVIOUS
<1>2. m \in Memory
    BY <1>1, IdleTyped DEF TypeOK, Memory, Pc, Task
<1>3. cycle' = [cycle EXCEPT ![c] = m] /\ cycleCrashes' \in 0 .. MaxCrashes
    BY <1>1 DEF ToFlags, TypeOK
<1>4. QED BY <1>2, <1>3, GivesMemory

LEMMA ComparesTyped ==
    ASSUME TypingAssumption, TypeOK, NEW c \in Cycle,
           CompareExpunges(c) \/ CompareFlags(c) \/ CompareInventory(c)
    PROVE  TypeOK'
<1>0. /\ cycle[c] \in Memory /\ box.present \subseteq Uid /\ box.flagged \subseteq Uid
      /\ folder \in Folder /\ occ \in [Validity -> [Uid -> Occurrence]]
      /\ cycleCrashes \in 0 .. MaxCrashes /\ cycle[c].want \subseteq Uid
    BY DEF TypeOK, Box, Memory
<1>1. PICK absent : absent = Absent(cycle[c]) /\ absent \subseteq Uid
    BY DEF Absent
<1>2. CASE CompareExpunges(c) /\ ToFlags(c)
    BY <1>0, <1>2, ToFlagsTyped DEF CompareExpunges
<1>3. CASE CompareExpunges(c) /\ ~ToFlags(c)
    <2>1. PICK m : m = [cycle[c] EXCEPT !.pc = "recheck", !.absent = absent, !.want = {},
                                        !.bound = 0]
        OBVIOUS
    <2>2. m \in Memory
        <3>1. absent \in SUBSET Uid /\ {} \in SUBSET Uid /\ 0 \in 0 .. MaxUid
            BY <1>1 DEF TypingAssumption
        <3>2. QED BY <1>0, <2>1, <3>1 DEF Memory, Pc
    <2>3. cycle' = [cycle EXCEPT ![c] = m]
        BY <1>1, <1>3, <2>1 DEF CompareExpunges, TypeOK
    <2>4. QED BY <1>3, <2>2, <2>3, RemembersTyped DEF CompareExpunges
<1>4. CASE CompareFlags(c) /\ Ends(c)
    BY <1>0, <1>4, EndsTyped DEF CompareFlags
<1>5. CASE CompareFlags(c) /\ ~Ends(c)
    <2>1. PICK changed : /\ changed \subseteq box.present
                         /\ cycle' = [cycle EXCEPT ![c].pc = "recheck", ![c].got = changed,
                                                   ![c].flagged = changed \cap box.flagged]
        BY <1>5 DEF CompareFlags
    <2>2. PICK m : m = [cycle[c] EXCEPT !.pc = "recheck", !.got = changed,
                                        !.flagged = changed \cap box.flagged]
        OBVIOUS
    <2>3. m \in Memory
        BY <1>0, <2>1, <2>2 DEF Memory, Pc
    <2>4. cycle' = [cycle EXCEPT ![c] = m]
        BY <2>1, <2>2 DEF TypeOK
    <2>5. QED BY <1>5, <2>3, <2>4, RemembersTyped DEF CompareFlags
<1>6. CASE CompareInventory(c)
    <2>1. PICK missed : /\ missed \subseteq cycle[c].want
                        /\ cycle' = [cycle EXCEPT
                              ![c].pc = IF missed = {} THEN "recheck" ELSE "fetch",
                              ![c].absent = absent, ![c].want = missed,
                              ![c].row = NewFolder, ![c].bound = 0]
        BY <1>1, <1>6 DEF CompareInventory
    <2>2. PICK m : m = [cycle[c] EXCEPT !.pc = IF missed = {} THEN "recheck" ELSE "fetch",
                                        !.absent = absent, !.want = missed,
                                        !.row = NewFolder, !.bound = 0]
        OBVIOUS
    <2>3. m \in Memory
        <3>1. missed \in SUBSET Uid /\ absent \in SUBSET Uid
            BY <1>0, <1>1, <2>1
        <3>2. NewFolder \in Folder /\ 0 \in 0 .. MaxUid
            BY IdleTyped DEF TypingAssumption
        <3>3. QED BY <1>0, <2>2, <3>1, <3>2 DEF Memory, Pc
    <2>4. cycle' = [cycle EXCEPT ![c] = m]
        BY <2>1, <2>2 DEF TypeOK
    <2>5. QED BY <1>6, <2>3, <2>4, RemembersTyped DEF CompareInventory
<1>7. QED BY <1>2, <1>3, <1>4, <1>5, <1>6

(* What an arrival batch covers ends at its last UID or at its bound.      *)
LEMMA CoversUids ==
    ASSUME TypingAssumption, NEW m \in Memory, m.task = "arrivals"
    PROVE  CoveredUpTo(m, Lowest(m.want, ArrivalBatch)) \in 0 .. MaxUid
<1> DEFINE window == Lowest(m.want, ArrivalBatch)
<1>1. m.bound \in 0 .. MaxUid /\ m.want \in SUBSET Uid
    BY DEF Memory
<1>2. CASE window # m.want
    <2>1. Greatest(window) \in m.want
        BY <1>1, <1>2, LowestCovers DEF TypingAssumption
    <2>2. QED BY <1>1, <1>2, <2>1 DEF CoveredUpTo, Uid, TypingAssumption
<1>3. QED BY <1>1, <1>2 DEF CoveredUpTo

LEMMA CommitTyped ==
    ASSUME TypingAssumption, IInv, TypeOK, NEW c \in Cycle, Commit(c)
    PROVE  TypeOK'
<1> DEFINE m == cycle[c]
           window == Window(c)
<1>0. /\ m \in Memory /\ folder \in Folder /\ occ \in [Validity -> [Uid -> Occurrence]]
      /\ m.task \in Working /\ cycleCrashes \in 0 .. MaxCrashes
      /\ UNCHANGED <<box, flips, cycleCrashes>>
    BY DEF Commit, At, TypeOK, IInv, CyclesOK, MemoryOK
<1>1. ASSUME NEW rows \in [Uid -> Occurrence] PROVE Committed(rows, m) \in [Uid -> Occurrence]
    <2>1. m.from \in Validity \cup {0}
        BY <1>0 DEF Memory
    <2>2. Imported(rows, m) \in [Uid -> Occurrence]
        BY <1>1, <2>1 DEF Imported, Occurrence
    <2>3. ASSUME NEW some \in [Uid -> Occurrence], NEW S
          PROVE  Expunged(some, S) \in [Uid -> Occurrence]
        BY <2>3 DEF Expunged, Occurrence
    <2>4. ASSUME NEW row \in Occurrence, NEW flagged \in BOOLEAN
          PROVE  [row EXCEPT !.flagged = flagged] \in Occurrence
        BY <2>4 DEF Occurrence
    <2>5. \A u \in Uid : (u \in m.flagged) \in BOOLEAN
        OBVIOUS
    <2>6. Flagged(rows, m) \in [Uid -> Occurrence]
        BY <1>1, <2>4, <2>5 DEF Flagged
    <2>7. QED BY <1>0, <2>2, <2>3, <2>6 DEF Committed, Working, Importing
<1>2. Checkpoint(folder, m, window) \in Folder
    <2>1. CASE m.task = "backfill"
        <3>1. PICK before, complete :
                    /\ before = Smaller(folder.before, m.bound)
                    /\ complete = (folder.complete \/ before <= 1)
            OBVIOUS
        <3>2. before \in 0 .. MaxUid + 1 /\ complete \in BOOLEAN
            BY <1>0, <3>1 DEF Smaller, Folder, Memory, TypingAssumption
        <3>3. Checkpoint(folder, m, window)
                = [folder EXCEPT !.before = before, !.complete = complete]
            BY <2>1, <3>1 DEF Checkpoint
        <3>4. QED BY <1>0, <3>2, <3>3 DEF Folder
    <2>2. CASE m.task = "arrivals"
        <3>1. PICK covered : covered = CoveredUpTo(m, window)
            OBVIOUS
        <3>2. covered \in 0 .. MaxUid
            BY <1>0, <2>2, <3>1, CoversUids DEF Window
        <3>3. Checkpoint(folder, m, window)
                = [folder EXCEPT !.arrival = Larger(folder.arrival, covered)]
            BY <2>2, <3>1 DEF Checkpoint
        <3>4. QED BY <1>0, <3>2, <3>3 DEF Larger, Folder, TypingAssumption
    <2>3. CASE m.task \notin {"backfill", "arrivals"}
        BY <1>0, <2>3 DEF Checkpoint
    <2>4. QED BY <2>1, <2>2, <2>3
<1>3. CASE /\ occ' = [occ EXCEPT ![m.gen] = Committed(@, m)]
           /\ folder' = Checkpoint(folder, m, window)
           /\ Continues(c, window)
    <2>1. occ' \in [Validity -> [Uid -> Occurrence]] /\ folder' \in Folder
        BY <1>0, <1>1, <1>2, <1>3
    <2>2. CASE Ends(c)
        BY <1>0, <2>1, <2>2, EndsTyped
    <2>3. CASE ToFlags(c)
        BY <1>0, <2>1, <2>3, ToFlagsTyped
    <2>4. CASE m.task = "arrivals"
        <3>1. PICK rest : rest = m.want \ window
            OBVIOUS
        <3>2. PICK n : n = [m EXCEPT !.pc = IF rest = {} THEN "snapshot" ELSE "fetch",
                                     !.want = rest, !.got = {}, !.flagged = {}, !.from = 0]
            OBVIOUS
        <3>3. n \in Memory
            BY <1>0, <3>1, <3>2 DEF Memory, Pc
        <3>4. cycle' = [cycle EXCEPT ![c] = n]
            BY <1>3, <2>4, <3>1, <3>2 DEF Continues, TypeOK
        <3>5. QED BY <1>0, <2>1, <3>3, <3>4, GivesMemory
    <2>5. QED BY <1>3, <2>2, <2>3, <2>4 DEF Continues
<1>4. CASE /\ \E observed \in Validity \cup {0} : Changed(c, m.gen, observed)
           /\ UNCHANGED <<occ, folder>>
    BY <1>0, <1>4, ChangedTyped DEF Memory
<1>5. m.gen \in Validity \cup {0} /\ folder.validity \in Validity \cup {0}
    BY <1>0 DEF Memory, Folder
<1>6. QED BY <1>3, <1>4, <1>5 DEF Commit

LEMMA ResetTyped ==
    ASSUME TypingAssumption, TypeOK, NEW c \in Cycle, Reset(c)
    PROVE  TypeOK'
<1>0. /\ cycle[c].observed \in Validity \cup {0} /\ folder \in Folder
      /\ occ \in [Validity -> [Uid -> Occurrence]] /\ cycleCrashes \in 0 .. MaxCrashes
    BY DEF TypeOK, Memory
<1>1. ASSUME NEW rows \in [Uid -> Occurrence] PROVE Invalidated(rows) \in [Uid -> Occurrence]
    BY <1>1 DEF Invalidated, Occurrence
<1>2. [NewFolder EXCEPT !.validity = cycle[c].observed] \in Folder
    BY <1>0, IdleTyped DEF Folder
<1>3. [occ EXCEPT ![folder.validity] = Invalidated(occ[folder.validity])]
        \in [Validity -> [Uid -> Occurrence]]
    <2>1. CASE folder.validity \in Validity
        BY <1>0, <1>1, <2>1
    <2>2. CASE folder.validity \notin Validity
        BY <1>0, <2>2
    <2>3. QED BY <2>1, <2>2
<1>4. folder' \in Folder /\ occ' \in [Validity -> [Uid -> Occurrence]]
    BY <1>0, <1>2, <1>3 DEF Reset
<1>5. QED BY <1>0, <1>4, EndsTyped DEF Reset

LEMMA ServerTyped == ASSUME TypingAssumption, TypeOK, ServerStep PROVE TypeOK'
<1>0. /\ box \in Box /\ box.next \in 1 .. MaxUid + 1 /\ box.validity \in Validity
      /\ box.present \in SUBSET Uid
    BY DEF TypeOK, Box
<1>1. CASE Deliver
    <2>1. box.next \in Uid /\ box.next + 1 \in 1 .. MaxUid + 1
        BY <1>0, <1>1 DEF Deliver, Uid, TypingAssumption
    <2>2. box' \in Box
        BY <1>0, <1>1, <2>1 DEF Deliver, Box
    <2>3. QED BY <1>1, <2>2 DEF Deliver, TypeOK
<1>2. ASSUME NEW u \in Uid, Expunge(u) PROVE TypeOK'
    <2>1. box' \in Box
        BY <1>0, <1>2 DEF Expunge, Box
    <2>2. QED BY <1>2, <2>1 DEF Expunge, TypeOK
<1>3. ASSUME NEW u \in Uid, Flag(u) PROVE TypeOK'
    <2>1. box' \in Box
        BY <1>0, <1>3 DEF Flag, Box
    <2>2. flips' \in 0 .. MaxFlags
        BY <1>3 DEF Flag, TypeOK, TypingAssumption
    <2>3. QED BY <1>3, <2>1, <2>2 DEF Flag, TypeOK
<1>4. CASE Renumber
    <2>1. PICK n : n = Cardinality(box.present)
        OBVIOUS
    <2>2. n \in 0 .. MaxUid
        <3>1. IsFiniteSet(Uid) /\ Cardinality(Uid) = MaxUid
            BY FS_Interval DEF Uid, TypingAssumption
        <3>2. n \in Nat /\ n <= MaxUid
            BY <1>0, <2>1, <3>1, FS_Subset, FS_CardinalityType
        <3>3. QED BY <3>2 DEF TypingAssumption
    <2>3. 1 .. n \subseteq Uid /\ n + 1 \in 1 .. MaxUid + 1 /\ box.validity + 1 \in Validity
        BY <1>0, <1>4, <2>2 DEF Renumber, Uid, Validity, TypingAssumption
    <2>4. box' \in Box
        BY <1>4, <2>1, <2>3 DEF Renumber, Box
    <2>5. QED BY <1>4, <2>4 DEF Renumber, TypeOK
<1>5. QED BY <1>1, <1>2, <1>3, <1>4 DEF ServerStep

LEMMA TypeStep == ASSUME TypingAssumption PROVE IInv /\ TypeOK /\ [Next]_vars => TypeOK'
<1> SUFFICES ASSUME IInv, TypeOK, [Next]_vars PROVE TypeOK'
    OBVIOUS
<1>1. CASE UNCHANGED vars
    BY <1>1 DEF vars, TypeOK
<1>2. ASSUME NEW c \in Cycle, NEW task \in Importing, Begin(c, task) PROVE TypeOK'
    BY <1>2, BeginTyped
<1>3. ASSUME NEW c \in Cycle, CycleStep(c) PROVE TypeOK'
    BY <1>3, SelectTyped, InitializeTyped, ReadsTyped, CommitTyped, ComparesTyped, ResetTyped
       DEF CycleStep
<1>4. ASSUME NEW c \in Cycle, Crash(c) PROVE TypeOK'
    <2>1. cycleCrashes' \in 0 .. MaxCrashes
        BY <1>4 DEF Crash, TypeOK, TypingAssumption
    <2>2. QED BY <1>4, <2>1, EndsTyped DEF Crash, TypeOK
<1>5. QED BY <1>1, <1>2, <1>3, <1>4, ServerTyped DEF Next, Importing

(* Checkpoints, bounds and windows stay within the UIDs the server can     *)
(* have assigned, whatever cycles overlap, and for a first contact too.    *)
THEOREM FolderTyped == ASSUME TypingAssumption PROVE Spec => []TypeOK
<1>1. QED BY InitInv, StepInv, TypeInit, TypeStep, PTL DEF Spec

-----------------------------------------------------------------------------
(* The mailbox from both sides.  Under one scenario the whole behaves as   *)
(* one component does in one setting, and a scenario never changes.        *)

(* What the theorems of Actions ask of its constants, for each setting.    *)
SettingAssumption == Moves!Sized /\ Overlap!Sized /\ Flags!Sized

LEMMA MovesAlone ==
    /\ MailboxSpec /\ scenario = "moves" => Moves!Spec /\ [](scenario = "moves")
    /\ MailboxSpec /\ ~(scenario = "moves") => []~(scenario = "moves")
<1>1. MailboxInit /\ scenario = "moves" => Moves!Init
    BY DEF MailboxInit
<1>2. scenario = "moves" /\ [MailboxNext]_allVars
        => [Moves!Next]_(Moves!vars) /\ (scenario = "moves")'
    BY DEF MailboxNext, ActionsMoves, FolderMoves, allVars, actionsVars,
           Moves!vars, Moves!rows, Moves!env, Moves!ghosts
<1>3. ~(scenario = "moves") /\ [MailboxNext]_allVars => ~(scenario = "moves")'
    BY DEF MailboxNext, allVars
<1>4. QED BY <1>1, <1>2, <1>3, PTL DEF MailboxSpec, Moves!Spec

LEMMA OverlapAlone ==
    /\ MailboxSpec /\ scenario = "overlap" => Overlap!Spec /\ [](scenario = "overlap")
    /\ MailboxSpec /\ ~(scenario = "overlap") => []~(scenario = "overlap")
<1>1. MailboxInit /\ scenario = "overlap" => Overlap!Init
    BY DEF MailboxInit
<1>2. scenario = "overlap" /\ [MailboxNext]_allVars
        => [Overlap!Next]_(Overlap!vars) /\ (scenario = "overlap")'
    BY DEF MailboxNext, ActionsMoves, FolderMoves, allVars, actionsVars,
           Overlap!vars, Overlap!rows, Overlap!env, Overlap!ghosts
<1>3. ~(scenario = "overlap") /\ [MailboxNext]_allVars => ~(scenario = "overlap")'
    BY DEF MailboxNext, allVars
<1>4. QED BY <1>1, <1>2, <1>3, PTL DEF MailboxSpec, Overlap!Spec

LEMMA FlagsAlone ==
    /\ MailboxSpec /\ scenario = "flags" => Flags!Spec /\ [](scenario = "flags")
    /\ MailboxSpec /\ ~(scenario = "flags") => []~(scenario = "flags")
<1>1. MailboxInit /\ scenario = "flags" => Flags!Init
    BY DEF MailboxInit
<1>2. scenario = "flags" /\ [MailboxNext]_allVars
        => [Flags!Next]_(Flags!vars) /\ (scenario = "flags")'
    BY DEF MailboxNext, ActionsMoves, FolderMoves, allVars, actionsVars,
           Flags!vars, Flags!rows, Flags!env, Flags!ghosts
<1>3. ~(scenario = "flags") /\ [MailboxNext]_allVars => ~(scenario = "flags")'
    BY DEF MailboxNext, allVars
<1>4. QED BY <1>1, <1>2, <1>3, PTL DEF MailboxSpec, Flags!Spec

(* Whatever the actions do, the folder is that of FolderSync.              *)
LEMMA FolderAlone == MailboxSpec => Spec
<1>1. MailboxInit => Init
    BY DEF MailboxInit
<1>2. [MailboxNext]_allVars => [Next]_vars
    BY DEF MailboxNext, FolderMoves, allVars, folderVars, vars
<1>3. QED BY <1>1, <1>2, PTL DEF MailboxSpec, Spec

(* No write lands in another UID space, for any settings of the actions,   *)
(* and a MOVE is sent at most once for a target while passes do not        *)
(* overlap (executeFolderGroup).                                           *)
THEOREM MailboxWritesSafely == SettingAssumption => (MailboxSpec => []WritesAreSafe)
<1> SUFFICES ASSUME SettingAssumption PROVE MailboxSpec => []WritesAreSafe
    OBVIOUS
<1>1. Moves!Spec => []Moves!WritesAreSafe
    BY Moves!ActionsWriteSafely DEF SettingAssumption, Moves!Sized
<1>2. Overlap!Spec => []Overlap!WritesAreSafe
    BY Overlap!ActionsWriteSafely DEF SettingAssumption, Overlap!Sized
<1>3. Flags!Spec => []Flags!WritesAreSafe
    BY Flags!ActionsWriteSafely DEF SettingAssumption, Flags!Sized
<1>4. QED BY <1>1, <1>2, <1>3, MovesAlone, OverlapAlone, FlagsAlone, PTL DEF WritesAreSafe

(* Completed actions left no target open, confirmed flags were held, and   *)
(* while passes do not overlap a refused move did not happen               *)
(* (commitDisposition, applyFlags, applyMove).                             *)
THEOREM MailboxReportsTruly == SettingAssumption => (MailboxSpec => []ReportsAreTrue)
<1> SUFFICES ASSUME SettingAssumption PROVE MailboxSpec => []ReportsAreTrue
    OBVIOUS
<1>1. Moves!Spec => []Moves!ReportsAreTrue
    BY Moves!ActionsReportTruly DEF SettingAssumption, Moves!Sized
<1>2. Overlap!Spec => []Overlap!ReportsAreTrue
    BY Overlap!ActionsReportTruly DEF SettingAssumption, Overlap!Sized
<1>3. Flags!Spec => []Flags!ReportsAreTrue
    BY Flags!ActionsReportTruly DEF SettingAssumption, Flags!Sized
<1>4. QED BY <1>1, <1>2, <1>3, MovesAlone, OverlapAlone, FlagsAlone, PTL DEF ReportsAreTrue

(* The rows, the passes, the server and the cycles keep their types        *)
(* (executeFolderGroup, commitDisposition, backfill.ts, steady.ts).        *)
THEOREM MailboxTyped ==
    SettingAssumption /\ TypingAssumption => (MailboxSpec => []PartsTypeOK)
<1> SUFFICES ASSUME SettingAssumption, TypingAssumption PROVE MailboxSpec => []PartsTypeOK
    OBVIOUS
<1>1. Moves!Spec => []Moves!TypeOK
    BY Moves!ActionsTyped DEF SettingAssumption
<1>2. Overlap!Spec => []Overlap!TypeOK
    BY Overlap!ActionsTyped DEF SettingAssumption
<1>3. Flags!Spec => []Flags!TypeOK
    BY Flags!ActionsTyped DEF SettingAssumption
<1>4. Spec => []TypeOK
    BY FolderTyped
<1>5. QED
    BY <1>1, <1>2, <1>3, <1>4, MovesAlone, OverlapAlone, FlagsAlone, FolderAlone, PTL
       DEF PartsTypeOK

(* A slow cycle takes no checkpoint back, and no later pass changes a      *)
(* receipt (Math.min in backfill.ts, Math.max in steady.ts,                *)
(* commitDisposition).                                                     *)
THEOREM ProgressStaysKept ==
    SettingAssumption /\ MirrorAssumption => (MailboxSpec => ProgressIsKept)
<1> SUFFICES ASSUME SettingAssumption, MirrorAssumption PROVE MailboxSpec => ProgressIsKept
    OBVIOUS
<1>1. Moves!Spec => [][Moves!ReceiptIsFinal]_(Moves!vars)
    BY Moves!ReceiptsAreFinal DEF SettingAssumption, Moves!Sized, Moves!Counted
<1>2. Overlap!Spec => [][Overlap!ReceiptIsFinal]_(Overlap!vars)
    BY Overlap!ReceiptsAreFinal DEF SettingAssumption, Overlap!Sized, Overlap!Counted
<1>3. Flags!Spec => [][Flags!ReceiptIsFinal]_(Flags!vars)
    BY Flags!ReceiptsAreFinal DEF SettingAssumption, Flags!Sized, Flags!Counted
<1>4. Spec => [][CheckpointsAdvance]_vars
    BY CheckpointsOnlyAdvance
<1>5. UNCHANGED Moves!vars => Moves!ReceiptIsFinal
    BY DEF Moves!vars, Moves!rows, Moves!ReceiptIsFinal
<1>6. UNCHANGED Overlap!vars => Overlap!ReceiptIsFinal
    BY DEF Overlap!vars, Overlap!rows, Overlap!ReceiptIsFinal
<1>7. UNCHANGED Flags!vars => Flags!ReceiptIsFinal
    BY DEF Flags!vars, Flags!rows, Flags!ReceiptIsFinal
<1>8. scenario = "folder" /\ [MailboxNext]_allVars /\ UNCHANGED vars => UNCHANGED allVars
    BY DEF MailboxNext, ActionsMoves, FolderMoves, allVars, folderVars, vars
<1>9. QED
    BY <1>1, <1>2, <1>3, <1>4, <1>5, <1>6, <1>7, <1>8,
       MovesAlone, OverlapAlone, FlagsAlone, FolderAlone, PTL DEF ProgressIsKept, MailboxSpec

=============================================================================
