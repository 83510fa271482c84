------------------------- MODULE FetchedMailProofs -------------------------
(***************************************************************************)
(* What becomes of fetched mail, for any number of messages, fetches and   *)
(* devices, any contents, any power failures, restores and bundles, and    *)
(* any values of the guardrails: the originals stay intact, the spending   *)
(* bounded, and saved work as its author last saw it.                      *)
(*                                                                         *)
(* A step of the whole is a step of one component or leaves its variables  *)
(* as they are, so the invariant of a component holds of the whole.        *)
(***************************************************************************)
EXTENDS FetchedMail, FiniteSetTheorems, WellFoundedInduction, NaturalsInduction, TLAPS

LEMMA StorageAlone == [FetchedNext]_fetchedVars => [Storage!Next]_originalsVars
BY DEF FetchedNext, StorageMoves, SweepMoves, SavedMoves, ThreadingMoves, fetchedVars

LEMMA SweepAlone == [FetchedNext]_fetchedVars => [Sweeping!Next]_classificationVars
BY DEF FetchedNext, StorageMoves, SweepMoves, SavedMoves, ThreadingMoves, fetchedVars

LEMMA SavedAlone == [FetchedNext]_fetchedVars => [Saved!Next]_homeWorkVars
BY DEF FetchedNext, StorageMoves, SweepMoves, SavedMoves, ThreadingMoves, fetchedVars

LEMMA ThreadingAlone == [FetchedNext]_fetchedVars => [Threading!Next]_threadsVars
BY DEF FetchedNext, StorageMoves, SweepMoves, SavedMoves, ThreadingMoves, fetchedVars

-----------------------------------------------------------------------------
(* The breaker.  What the sweep assesses is the widest burst of failures   *)
(* that are not yet older than the cooldown; a burst that lies inside the  *)
(* cooldown as a whole is one of those it compares.                        *)

(* The instance counts as the library does.                                *)
LEMMA CountsAlike == ASSUME NEW S PROVE Sweeping!Cardinality(S) = Cardinality(S)
BY DEF Sweeping!Cardinality, Cardinality

(* A set of naturals below a bound has a greatest member.                  *)
LEMMA HasGreatest ==
    ASSUME NEW b \in Nat, NEW S \in SUBSET (0 .. b), S # {}
    PROVE  \E n \in S : \A k \in S : k <= n
<1> DEFINE Far == {b - n : n \in S}
<1>1. Far \subseteq Nat /\ Far # {}
    <2>1. \A n \in S : n \in Nat /\ b - n \in Nat
        OBVIOUS
    <2>2. QED BY <2>1
<1>2. PICK f \in Far : \A g \in Far : ~(<<g, f>> \in OpToRel(<, Nat))
    BY <1>1, NatLessThanWellFounded, WFMin
<1>3. PICK n \in S : f = b - n
    OBVIOUS
<1>4. \A k \in S : ~(b - k < b - n)
    BY <1>1, <1>2, <1>3 DEF OpToRel
<1>5. QED BY <1>3, <1>4

(* A set of failures has an oldest one.                                    *)
LEMMA HasOldest ==
    ASSUME failures \in Seq(Nat), NEW some \in SUBSET DOMAIN failures, some # {}
    PROVE  \E f \in some : \A i \in some : failures[f] <= failures[i]
<1> DEFINE Instants == {failures[i] : i \in some}
<1>1. Instants \subseteq Nat /\ Instants # {}
    OBVIOUS
<1>2. PICK t \in Instants : \A u \in Instants : ~(<<u, t>> \in OpToRel(<, Nat))
    BY <1>1, NatLessThanWellFounded, WFMin
<1>3. PICK f \in some : t = failures[f]
    OBVIOUS
<1>4. \A i \in some : ~(failures[i] < failures[f])
    BY <1>1, <1>2, <1>3 DEF OpToRel
<1>5. \A i \in some : failures[i] \in Nat
    OBVIOUS
<1>6. QED BY <1>3, <1>4, <1>5

Burst(some, first) ==
    {i \in some : failures[i] >= failures[first] /\ failures[i] - failures[first] <= Window}

LEMMA WidestIsGreatest ==
    ASSUME failures \in Seq(Nat), NEW some \in SUBSET DOMAIN failures
    PROVE  /\ Sweeping!WidestBurst(some) \in Nat
           /\ \A first \in some :
                Cardinality(Burst(some, first)) <= Sweeping!WidestBurst(some)
<1> DEFINE Sizes == {Cardinality(Burst(some, first)) : first \in some}
           b == Cardinality(some)
<1>1. IsFiniteSet(some) /\ b \in Nat
    <2>1. DOMAIN failures = 1 .. Len(failures) /\ Len(failures) \in Nat
        OBVIOUS
    <2>2. IsFiniteSet(DOMAIN failures)
        BY <2>1, FS_Interval
    <2>3. QED BY <2>2, FS_Subset, FS_CardinalityType
<1>2. Sizes \subseteq 0 .. b
    <2>1. SUFFICES ASSUME NEW first \in some
                   PROVE  Cardinality(Burst(some, first)) \in 0 .. b
        OBVIOUS
    <2>2. Burst(some, first) \in SUBSET some
        BY DEF Burst
    <2>3. QED BY <1>1, <2>2, FS_Subset, FS_CardinalityType
<1>3. Sweeping!WidestBurst(some) =
        IF some = {} THEN 0 ELSE CHOOSE n \in Sizes : \A k \in Sizes : k <= n
    <2> DEFINE Counts == {Sweeping!Cardinality({i \in some :
                            /\ failures[i] >= failures[first]
                            /\ failures[i] - failures[first] <= Window}) : first \in some}
    <2>1. Counts = Sizes
        BY CountsAlike DEF Burst
    <2>2. Sweeping!WidestBurst(some) =
            IF some = {} THEN 0 ELSE CHOOSE n \in Counts : \A k \in Counts : k <= n
        BY DEF Sweeping!WidestBurst
    <2>3. QED BY <2>1, <2>2
<1>4. CASE some = {}
    BY <1>3, <1>4
<1>5. CASE some # {}
    <2>1. \E n \in Sizes : \A k \in Sizes : k <= n
        BY <1>1, <1>2, <1>5, HasGreatest
    <2> DEFINE w == CHOOSE n \in Sizes : \A k \in Sizes : k <= n
    <2>2. w \in Sizes /\ \A k \in Sizes : k <= w
        BY <2>1
    <2>3. Sweeping!WidestBurst(some) = w
        BY <1>3, <1>5
    <2>4. \A first \in some : Cardinality(Burst(some, first)) \in Sizes
        OBVIOUS
    <2> HIDE DEF Sizes, w, b
    <2>5. w \in Nat
        BY <1>1, <1>2, <2>2
    <2>6. \A first \in some : Cardinality(Burst(some, first)) <= w
        BY <2>2, <2>4
    <2>7. QED BY <2>3, <2>5, <2>6
<1>6. QED BY <1>4, <1>5

NoBurstCools ==
    \A some \in Sweeping!Bursts : \E i \in some : ~(failures[i] > clock - Cooldown)

LEMMA ClosedBreaker ==
    ASSUME failures \in Seq(Nat), clock \in Nat, ~Sweeping!BreakerOpen
    PROVE  NoBurstCools
<1> USE FetchedAssumption
<1>1. SUFFICES ASSUME NEW some \in Sweeping!Bursts, \A i \in some : failures[i] > clock - Cooldown
               PROVE  Sweeping!BreakerOpen
    BY DEF NoBurstCools
<1> DEFINE Recent == Sweeping!RecentFailures
<1>2. Recent \in SUBSET DOMAIN failures /\ some \in SUBSET DOMAIN failures /\ some \subseteq Recent
    BY <1>1 DEF Sweeping!RecentFailures, Sweeping!Bursts
<1>3. Cardinality(some) = Threshold
    BY CountsAlike DEF Sweeping!Bursts
<1>4. Sweeping!WidestBurst(Recent) \in Nat
    BY <1>2, WidestIsGreatest
<1>5. CASE some = {}
    BY <1>3, <1>4, <1>5, FS_EmptySet DEF Sweeping!BreakerOpen
<1>6. CASE some # {}
    <2>1. PICK f \in some : \A i \in some : failures[f] <= failures[i]
        BY <1>2, <1>6, HasOldest
    <2>2. some \subseteq Burst(Recent, f)
        <3>1. SUFFICES ASSUME NEW i \in some PROVE i \in Burst(Recent, f)
            OBVIOUS
        <3>2. failures[i] \in Nat /\ failures[f] \in Nat
            BY <1>2
        <3>3. failures[i] - failures[f] <= Window
            BY DEF Sweeping!Bursts
        <3>4. QED BY <1>2, <2>1, <3>2, <3>3 DEF Burst
    <2>3. IsFiniteSet(Burst(Recent, f))
        <3>1. DOMAIN failures = 1 .. Len(failures) /\ Len(failures) \in Nat
            OBVIOUS
        <3>2. IsFiniteSet(DOMAIN failures)
            BY <3>1, FS_Interval
        <3>3. Burst(Recent, f) \in SUBSET DOMAIN failures
            BY <1>2 DEF Burst
        <3>4. QED BY <3>2, <3>3, FS_Subset
    <2>4. Cardinality(some) <= Cardinality(Burst(Recent, f))
        BY <2>2, <2>3, FS_Subset
    <2>5. Cardinality(Burst(Recent, f)) <= Sweeping!WidestBurst(Recent)
        BY <1>2, <2>1, WidestIsGreatest
    <2>6. Cardinality(Burst(Recent, f)) \in Nat
        BY <2>3, FS_CardinalityType
    <2>7. QED BY <1>3, <1>4, <2>4, <2>5, <2>6 DEF Sweeping!BreakerOpen
<1>7. QED BY <1>5, <1>6

-----------------------------------------------------------------------------
(* The sweep.                                                              *)

Cycling == {"rows", "write", "asked"}

SweepInv ==
    /\ failures \in Seq(Nat) /\ clock \in Nat /\ decided \in Seq(Message)
    /\ DOMAIN cycle = {"at", "batch", "calls", "m", "source", "class"}
    /\ cycle.at \in {"idle", "assess"} \cup Cycling
    /\ cycle.at \in Cycling => cycle.calls = Len(decided) /\ NoBurstCools
    /\ cycle.at = "asked" => cycle.m \in Message /\ cycle.calls < Cap
    /\ Len(decided) <= Cap
    /\ "oldest" \notin early

LEMMA SweepBegins == Sweeping!Init => SweepInv
BY FetchedAssumption DEF Sweeping!Init, Sweeping!Idle, Sweeping!None, SweepInv, Cycling

(* A step that leaves the failures and the decisions, lets the clock go on *)
(* and begins no call keeps the invariant.                                 *)
LEMMA SweepRests ==
    ASSUME SweepInv,
           UNCHANGED <<failures, decided, early>>,
           clock' \in Nat, clock' >= clock,
           \/ cycle' = cycle
           \/ /\ DOMAIN cycle' = DOMAIN cycle
              /\ cycle'.at \in {"idle", "assess", "rows", "write"}
              /\ cycle'.at \in Cycling => cycle.at \in Cycling /\ cycle'.calls = cycle.calls
    PROVE  SweepInv'
<1>1. NoBurstCools => NoBurstCools'
    <2>1. Sweeping!Bursts' = Sweeping!Bursts
        BY DEF Sweeping!Bursts
    <2>2. SUFFICES ASSUME NoBurstCools, NEW some \in Sweeping!Bursts
                   PROVE  \E i \in some : ~(failures[i] > clock' - Cooldown)
        BY <2>1 DEF NoBurstCools
    <2>3. PICK i \in some : ~(failures[i] > clock - Cooldown)
        BY <2>2 DEF NoBurstCools
    <2>4. failures[i] \in Nat
        BY DEF Sweeping!Bursts, SweepInv
    <2>5. QED BY <2>3, <2>4, FetchedAssumption DEF SweepInv
<1>2. QED BY <1>1 DEF SweepInv, Cycling

(* The cycle goes on with its next row, or ends.                           *)
LEMMA ContinuesSound ==
    ASSUME NEW c, DOMAIN c = {"at", "batch", "calls", "m", "source", "class"}
    PROVE  /\ DOMAIN Sweeping!Continues(c) = DOMAIN c
           /\ Sweeping!Continues(c).at \in {"idle", "rows"}
           /\ Sweeping!Continues(c).at = "rows" => Sweeping!Continues(c).calls = c.calls
BY DEF Sweeping!Continues, Sweeping!Idle

LEMMA AssessSound == SweepInv /\ Sweeping!Assess => SweepInv'
<1> SUFFICES ASSUME SweepInv, Sweeping!Assess PROVE SweepInv'
    OBVIOUS
<1>1. UNCHANGED <<failures, decided, early, clock>>
    BY DEF Sweeping!Assess
<1>2. CASE cycle' = Sweeping!Idle
    BY <1>1, <1>2, SweepRests DEF Sweeping!Idle, SweepInv, Cycling
<1>3. CASE cycle' # Sweeping!Idle
    <2>1. /\ ~Sweeping!BreakerOpen
          /\ Sweeping!CountMonthCalls < Cap
          /\ \E batch : cycle' = [cycle EXCEPT !.at = "rows", !.batch = batch,
                                              !.calls = Sweeping!CountMonthCalls]
        BY <1>3 DEF Sweeping!Assess
    <2>2. NoBurstCools
        BY <2>1, ClosedBreaker DEF SweepInv
    <2>3. NoBurstCools'
        BY <1>1, <2>2 DEF NoBurstCools, Sweeping!Bursts
    <2>4. DOMAIN cycle' = DOMAIN cycle /\ cycle'.at = "rows" /\ cycle'.calls = Len(decided)
        BY <2>1 DEF SweepInv, Sweeping!CountMonthCalls
    <2>5. QED BY <1>1, <2>3, <2>4 DEF SweepInv, Cycling
<1>4. QED BY <1>2, <1>3

LEMMA ClassifyRowSound ==
    ASSUME SweepInv, NEW m \in Message, Sweeping!ClassifyRow(m)
    PROVE  SweepInv'
<1>1. cycle.at = "rows" /\ UNCHANGED <<failures, decided, clock>>
    BY DEF Sweeping!ClassifyRow, Sweeping!mail
<1>2. CASE cycle.calls < Cap /\ Sweeping!Level(m) = "jev"
    <2>1. /\ cycle' = [cycle EXCEPT !.at = "asked", !.batch = @ \ {m}, !.m = m]
          /\ early' = early \cup Sweeping!Hasty
        BY <1>1, <1>2, FetchedAssumption DEF Sweeping!ClassifyRow, SweepInv
    <2>2. "oldest" \notin Sweeping!Hasty
        BY <1>1 DEF Sweeping!Hasty, Sweeping!Cooling, SweepInv, NoBurstCools, Cycling
    <2>3. NoBurstCools'
        BY <1>1 DEF NoBurstCools, Sweeping!Bursts, SweepInv, Cycling
    <2>4. QED BY <1>1, <1>2, <2>1, <2>2, <2>3 DEF SweepInv, Cycling
<1>3. CASE ~(cycle.calls < Cap /\ Sweeping!Level(m) = "jev")
    <2>1. CASE cycle' = Sweeping!Idle /\ early' = early
        BY <1>1, <2>1, SweepRests DEF SweepInv, Sweeping!Idle, Cycling
    <2>2. CASE ~(cycle' = Sweeping!Idle /\ early' = early)
        <3>1. PICK c \in Class :
                /\ cycle' = [cycle EXCEPT !.at = "write", !.batch = @ \ {m}, !.m = m,
                                          !.source = Sweeping!Level(m),
                                          !.class = CASE Sweeping!Level(m) = "manual" -> Sweeping!None
                                              [] Sweeping!Level(m) = "override" -> override[SenderOf[m]]
                                              [] OTHER -> c]
                /\ early' = early
            BY <1>1, <1>3, <2>2 DEF Sweeping!ClassifyRow
        <3>2. DOMAIN cycle' = DOMAIN cycle /\ cycle'.at = "write" /\ cycle'.calls = cycle.calls
            BY <3>1 DEF SweepInv
        <3>3. QED BY <1>1, <3>1, <3>2, SweepRests DEF SweepInv, Cycling
    <2>3. QED BY <2>1, <2>2
<1>4. QED BY <1>2, <1>3

LEMMA JevAnswersSound == SweepInv /\ Sweeping!JevAnswers => SweepInv'
<1> SUFFICES ASSUME SweepInv, Sweeping!JevAnswers PROVE SweepInv'
    OBVIOUS
<1>1. /\ cycle.at = "asked"
      /\ decided' = Append(decided, cycle.m)
      /\ cycle' = Sweeping!Continues([cycle EXCEPT !.calls = Sweeping!Counted(@)])
      /\ UNCHANGED <<failures, clock, early>>
    BY DEF Sweeping!JevAnswers
<1>2. PICK c : c = [cycle EXCEPT !.calls = Sweeping!Counted(@)]
    OBVIOUS
<1>3. DOMAIN c = DOMAIN cycle /\ c.calls = cycle.calls + 1
    BY <1>2 DEF Sweeping!Counted, SweepInv
<1>4. /\ DOMAIN cycle' = DOMAIN cycle /\ cycle'.at \in {"idle", "rows"}
      /\ cycle'.at = "rows" => cycle'.calls = cycle.calls + 1
    BY <1>1, <1>2, <1>3, ContinuesSound DEF SweepInv
<1>5. decided' \in Seq(Message) /\ Len(decided') = Len(decided) + 1 /\ Len(decided) \in Nat
    BY <1>1 DEF SweepInv
<1>6. NoBurstCools'
    BY <1>1 DEF NoBurstCools, Sweeping!Bursts, SweepInv, Cycling
<1>7. cycle.calls = Len(decided) /\ cycle.calls < Cap
    BY <1>1 DEF SweepInv, Cycling
<1>8. QED BY <1>1, <1>4, <1>5, <1>6, <1>7, FetchedAssumption DEF SweepInv, Cycling

LEMMA SweepStep == SweepInv /\ [Sweeping!Next]_classificationVars => SweepInv'
<1> SUFFICES ASSUME SweepInv, [Sweeping!Next]_classificationVars PROVE SweepInv'
    OBVIOUS
<1> DEFINE Same == UNCHANGED <<failures, decided, early, clock>>
<1>1. CASE UNCHANGED classificationVars
    BY <1>1, SweepRests DEF classificationVars, SweepInv
<1>2. CASE Sweeping!BeginCycle
    <2>1. Same /\ DOMAIN cycle' = DOMAIN cycle /\ (cycle' = cycle \/ cycle'.at = "assess")
        BY <1>2 DEF Sweeping!BeginCycle, SweepInv
    <2>2. QED BY <2>1, SweepRests DEF SweepInv, Cycling
<1>3. CASE Sweeping!Assess
    BY <1>3, AssessSound
<1>4. CASE Sweeping!ApplyAnswer
    <2>1. Same /\ cycle.at = "write" /\ cycle' = Sweeping!Continues(cycle)
        BY <1>4 DEF Sweeping!ApplyAnswer
    <2>2. /\ DOMAIN cycle' = DOMAIN cycle /\ cycle'.at \in {"idle", "rows"}
          /\ cycle'.at = "rows" => cycle'.calls = cycle.calls
        BY <2>1, ContinuesSound DEF SweepInv
    <2>3. QED BY <2>1, <2>2, SweepRests DEF SweepInv, Cycling
<1>5. CASE Sweeping!JevAnswers
    BY <1>5, JevAnswersSound
<1>6. CASE Sweeping!JevFails
    <2>1. /\ UNCHANGED <<decided, early, clock>> /\ failures' = Append(failures, clock)
          /\ cycle' = Sweeping!Idle
        BY <1>6 DEF Sweeping!JevFails, Sweeping!mail
    <2>2. QED BY <2>1 DEF SweepInv, Sweeping!Idle, Cycling
<1>7. CASE Sweeping!WorkerStops
    <2>1. Same /\ cycle' = Sweeping!Idle
        BY <1>7 DEF Sweeping!WorkerStops, Sweeping!mail
    <2>2. QED BY <2>1, SweepRests DEF SweepInv, Sweeping!Idle, Cycling
<1>8. CASE \E m \in Message : Sweeping!ClassifyRow(m)
    BY <1>8, ClassifyRowSound
<1>9. CASE Sweeping!Owner
    <2>1. Same /\ cycle' = cycle
        BY <1>9 DEF Sweeping!Owner, Sweeping!CorrectMessage, Sweeping!CorrectSender,
                    Sweeping!Place, Sweeping!Ingest, Sweeping!Toggle
    <2>2. QED BY <2>1, SweepRests DEF SweepInv
<1>10. CASE Sweeping!Evaluation
    <2>1. Same /\ cycle' = cycle
        BY <1>10 DEF Sweeping!Evaluation, Sweeping!EvaluateClassification,
                     Sweeping!RecordClassificationGate, Sweeping!mail
    <2>2. QED BY <2>1, SweepRests DEF SweepInv
<1>11. CASE Sweeping!Tick
    <2>1. UNCHANGED <<failures, decided, early, cycle>> /\ clock' = clock + 1
        BY <1>11 DEF Sweeping!Tick, Sweeping!mail
    <2>2. QED BY <2>1, SweepRests DEF SweepInv
<1>12. QED BY <1>1, <1>2, <1>3, <1>4, <1>5, <1>6, <1>7, <1>8, <1>9, <1>10, <1>11
             DEF Sweeping!Next, Sweeping!Sweep

(* However cycles, crashes, corrections and settings interleave, no call   *)
(* is made while a burst lies inside the cooldown, and the calls stay      *)
(* within the ceiling (assessCircuit, widestBurstSize, runCycle).          *)
THEOREM SpendingStaysBounded == FetchedSpec => []SpendingIsBounded
<1>1. FetchedInit => SweepInv
    BY SweepBegins DEF FetchedInit
<1>2. SweepInv /\ [FetchedNext]_fetchedVars => SweepInv'
    BY SweepStep, SweepAlone
<1>3. SweepInv => SpendingIsBounded
    BY DEF SweepInv, SpendingIsBounded, Sweeping!BreakerHolds, Sweeping!SpendsWithinCap,
           Sweeping!CountMonthCalls
<1>4. QED BY <1>1, <1>2, <1>3, PTL DEF FetchedSpec

-----------------------------------------------------------------------------
(* The originals.  A fetch holds its bytes in the object of its row from   *)
(* the moment it staged them, and on disk from the directory sync; a row   *)
(* that was fetched keeps its digest, so a snapshot of the rows stays      *)
(* covered while the objects are copied; and the collection takes only     *)
(* objects that are old, which those of a running fetch are not.           *)

None == Storage!None
Fetched(row) == row.state = "fetched"
Staged == {"visible", "synced", "checked", "parsed", "looked"}
FetchShape ==
    [at : {"idle", "listed", "selected"} \cup Staged, msg : Message \cup {Storage!SomeMessage},
     staged : Bytes \cup {None}, into : Message \cup {None}, tried : BOOLEAN]

(* Rows and occurrences that agree: of the live database and of a bundle.  *)
RowOK(rows, held, n) ==
    /\ rows[held[n]].state # "merged"
    /\ rows[n].state # "merged" => held[n] = n
    /\ held[n] # n => Fetched(rows[held[n]])
    /\ Fetched(rows[held[n]]) => rows[held[n]].digest = First[n]
    /\ ~Fetched(rows[n]) => rows[n].digest = None /\ rows[n].body = None /\ rows[n].cached = None
    /\ rows[n].body \in {None, rows[n].digest} /\ rows[n].cached \in {None, rows[n].digest}

RowsSound(rows, held) ==
    /\ rows \in [Message -> Storage!Mail] /\ held \in [Message -> Message]
    /\ \A n \in Message : RowOK(rows, held, n)
    /\ \A m, d \in Message :
         Fetched(rows[m]) /\ Fetched(rows[d]) /\ rows[m].digest = rows[d].digest => m = d

Holds(object, digest) == object.seen = digest /\ object.disk = digest

Intact ==
    \A m \in Message \ raced : Storage!Held(m) => Holds(file[m], mail[m].digest)

FetchOK(f) ==
    /\ f \in FetchShape
    /\ f.at # "idle" => f.msg \in Message
    /\ f.at \in Staged <=> f.staged # None
    /\ f.at \in Staged /\ (mailbox = 1 \/ f.at \in {"checked", "parsed", "looked"}) =>
         f.staged = First[f.msg]
    /\ f.at \in Staged /\ f.msg \notin raced => file[f.msg].seen = f.staged /\ ~file[f.msg].old
    /\ f.at \in Staged \ {"visible"} /\ f.msg \notin raced => file[f.msg].disk = f.staged
    /\ f.at = "looked" => mail[f.msg].state # "merged"
    /\ f.at = "looked" /\ f.into # None =>
         f.into # f.msg /\ Storage!Held(f.into) /\ mail[f.into].digest = f.staged

FetchersOK ==
    /\ DOMAIN fetcher = Fetcher /\ \A p \in Fetcher : FetchOK(fetcher[p])
    /\ \A p, q \in Fetcher :
         Storage!At(p, "looked") /\ Storage!At(q, "looked") /\ fetcher[p].msg = fetcher[q].msg
            => p = q

CollectionOK ==
    /\ sweep \in [at : {"idle", "started", "listing"}, refs : SUBSET Message,
                  todo : SUBSET Message, key : Message \cup {None}]
    /\ sweep.key # None => sweep.at = "listing" /\ sweep.key \notin sweep.refs
    /\ sweep.at = "listing" =>
         \A k \in Message \ (raced \cup sweep.refs) : Storage!Held(k) => ~file[k].old

RebuildOK ==
    /\ DOMAIN rebuild = {"at", "kind", "msg", "from"}
    /\ rebuild.at = "read" =>
         rebuild.msg \in Message /\ Storage!Held(rebuild.msg) /\ mail[rebuild.msg].digest = rebuild.from

Copied(files) == files \in [Message -> Storage!Object] /\ \A m \in Message : files[m].disk = files[m].seen

BackupOK ==
    backupRun.at = "copying" =>
        /\ DOMAIN backupRun = {"at", "todo", "rows", "files"}
        /\ RowsSound(backupRun.rows.mail, backupRun.rows.holder)
        /\ Copied(backupRun.files)
        /\ \A m \in Message \ raced :
             Fetched(backupRun.rows.mail[m]) =>
                 /\ Storage!Held(m) /\ mail[m].digest = backupRun.rows.mail[m].digest
                 /\ m \notin backupRun.todo =>
                      backupRun.files[m].seen = backupRun.rows.mail[m].digest

KeptOK ==
    kept # Storage!NoBundle =>
        /\ RowsSound(kept.rows.mail, kept.rows.holder)
        /\ Copied(kept.files)
        /\ \A m \in Message \ raced :
             Fetched(kept.rows.mail[m]) => kept.files[m].seen = kept.rows.mail[m].digest

StorageInv ==
    /\ RowsSound(mail, holder)
    /\ file \in [Message -> Storage!Object] /\ Intact
    /\ FetchersOK /\ CollectionOK /\ RebuildOK /\ BackupOK /\ KeptOK

LEMMA NoneIsNoByte == None \notin Bytes /\ None \notin Message
BY FetchedAssumption DEF None

(* A fetched row has the digest its UID had when it was listed.            *)
LEMMA FetchedDigest ==
    ASSUME NEW rows, NEW held, RowsSound(rows, held), NEW m \in Message, Fetched(rows[m])
    PROVE  held[m] = m /\ rows[m].digest = First[m] /\ rows[m].digest \in Bytes
BY FetchedAssumption DEF RowsSound, RowOK, Fetched

LEMMA IdleOK == ASSUME NEW m \in Message \cup {Storage!SomeMessage} PROVE FetchOK(Storage!Idle(m))
BY NoneIsNoByte DEF FetchOK, FetchShape, Storage!Idle, Staged, None

LEMMA StorageBegins == Storage!Init => StorageInv
<1> SUFFICES ASSUME Storage!Init PROVE StorageInv
    OBVIOUS
<1> USE NoneIsNoByte
<1>1. RowsSound(mail, holder) /\ \A m \in Message : ~Storage!Held(m)
    BY DEF Storage!Init, RowsSound, RowOK, Fetched, Storage!Provisional, Storage!Mail, None,
           Storage!Held
<1>2. file \in [Message -> Storage!Object] /\ Intact
    BY <1>1 DEF Storage!Init, Storage!Absent, Storage!Object, Intact
<1>3. FetchersOK
    <2>1. PICK idle : idle = Storage!Idle(Storage!SomeMessage)
        OBVIOUS
    <2>2. FetchOK(idle) /\ idle.at = "idle"
        BY <2>1, IdleOK DEF Storage!Idle
    <2>3. fetcher = [p \in Fetcher |-> idle]
        BY <2>1 DEF Storage!Init
    <2>4. DOMAIN fetcher = Fetcher /\ \A p \in Fetcher : fetcher[p] = idle
        BY <2>3
    <2>5. QED BY <2>2, <2>4 DEF FetchersOK, Storage!At
<1>4. CollectionOK /\ RebuildOK /\ BackupOK /\ KeptOK
    BY <1>1 DEF Storage!Init, Storage!Rest, Storage!Asleep, Storage!NoBundle, CollectionOK,
                RebuildOK, BackupOK, KeptOK, None
<1>5. QED BY <1>1, <1>2, <1>3, <1>4 DEF StorageInv

(* A step of one fetch that changes nothing else.                          *)
LEMMA FetchMoves ==
    ASSUME StorageInv, NEW p \in Fetcher, NEW f, FetchOK(f),
           fetcher' = [fetcher EXCEPT ![p] = f],
           f.at = "looked" =>
               \A q \in Fetcher \ {p} : ~(Storage!At(q, "looked") /\ fetcher[q].msg = f.msg),
           UNCHANGED <<mail, holder, file, rebuild, sweep, backupRun, kept, mailbox, raced>>
    PROVE  StorageInv'
<1>1. FetchersOK'
    <2>1. ASSUME NEW g, FetchOK(g) PROVE FetchOK(g)'
        BY <2>1 DEF FetchOK, Storage!Held
    <2>2. /\ DOMAIN fetcher' = Fetcher
          /\ \A q \in Fetcher : fetcher'[q] = IF q = p THEN f ELSE fetcher[q]
        BY DEF StorageInv, FetchersOK
    <2>3. \A q \in Fetcher : FetchOK(fetcher'[q])
        BY <2>2 DEF StorageInv, FetchersOK
    <2>4. ASSUME NEW q \in Fetcher PROVE FetchOK(fetcher[q])'
        BY <2>1, <2>3
    <2>5. QED BY <2>2, <2>4 DEF StorageInv, FetchersOK, FetchOK, Storage!At
<1>2. (RowsSound(mail, holder) /\ file \in [Message -> Storage!Object] /\ Intact)'
    BY DEF StorageInv, Intact, Storage!Held
<1>3. (CollectionOK /\ RebuildOK /\ BackupOK /\ KeptOK)'
    BY DEF StorageInv, CollectionOK, RebuildOK, BackupOK, KeptOK, Storage!Held
<1>4. QED BY <1>1, <1>2, <1>3 DEF StorageInv

(* A step that changes rows keeps what was fetched, gives a row its body   *)
(* only when the object holds it, and merges no row another fetch has      *)
(* locked; the fetch that took it, if any, is over.                        *)
LEMMA RowsMove ==
    ASSUME StorageInv, RowsSound(mail', holder'),
           \A m \in Message : Storage!Held(m) => Storage!Held(m)' /\ mail'[m].digest = mail[m].digest,
           \A m \in Message \ raced : Storage!Held(m)' /\ ~Storage!Held(m) =>
               Holds(file[m], mail'[m].digest) /\ ~file[m].old,
           \/ fetcher' = fetcher
           \/ \E p \in Fetcher : fetcher' = [fetcher EXCEPT ![p] = Storage!Idle(@.msg)],
           \A m \in Message : mail'[m].state = "merged" /\ mail[m].state # "merged" =>
               \A q \in Fetcher : ~(fetcher'[q].at = "looked" /\ fetcher'[q].msg = m),
           rebuild' \in {rebuild, Storage!Asleep},
           UNCHANGED <<file, sweep, backupRun, kept, mailbox, raced>>
    PROVE  StorageInv'
<1>1. FetchersOK'
    <2>1. /\ DOMAIN fetcher' = Fetcher
          /\ \A q \in Fetcher : FetchOK(fetcher'[q])
          /\ \A q \in Fetcher : fetcher'[q].at = "looked" => fetcher'[q] = fetcher[q]
        <3>1. CASE fetcher' = fetcher
            BY <3>1 DEF StorageInv, FetchersOK
        <3>2. CASE \E p \in Fetcher : fetcher' = [fetcher EXCEPT ![p] = Storage!Idle(@.msg)]
            <4>1. PICK p \in Fetcher : fetcher' = [fetcher EXCEPT ![p] = Storage!Idle(@.msg)]
                BY <3>2
            <4>2. PICK idle : idle = Storage!Idle(fetcher[p].msg)
                OBVIOUS
            <4>3. fetcher[p].msg \in Message \cup {Storage!SomeMessage}
                BY DEF StorageInv, FetchersOK, FetchOK, FetchShape
            <4>4. FetchOK(idle) /\ idle.at = "idle"
                BY <4>2, <4>3, IdleOK DEF Storage!Idle
            <4>5. fetcher' = [fetcher EXCEPT ![p] = idle]
                BY <4>1, <4>2
            <4>6. QED BY <4>4, <4>5 DEF StorageInv, FetchersOK
        <3>3. QED BY <3>1, <3>2
    <2>2. ASSUME NEW g, FetchOK(g),
                 g.at = "looked" => mail'[g.msg].state # "merged" \/ mail[g.msg].state = "merged"
          PROVE  FetchOK(g)'
        BY <2>2 DEF FetchOK, FetchShape, Storage!Held, None
    <2>3. ASSUME NEW q \in Fetcher PROVE FetchOK(fetcher[q])'
        BY <2>1, <2>2 DEF FetchOK
    <2>4. QED BY <2>1, <2>3 DEF StorageInv, FetchersOK, FetchOK, Storage!At
<1>2. (file \in [Message -> Storage!Object] /\ Intact)'
    BY DEF StorageInv, Intact, Storage!Held
<1>3. CollectionOK' /\ RebuildOK'
    BY DEF StorageInv, CollectionOK, RebuildOK, Storage!Held, Storage!Asleep
<1>4. BackupOK' /\ KeptOK'
    BY DEF StorageInv, BackupOK, KeptOK, Storage!Held
<1>5. QED BY <1>1, <1>2, <1>3, <1>4 DEF StorageInv

(* What a fetch that is not the one that moves keeps.                      *)
LEMMA OneFetchMoves ==
    ASSUME FetchersOK, NEW p \in Fetcher, NEW f, fetcher' = [fetcher EXCEPT ![p] = f]
    PROVE  DOMAIN fetcher' = Fetcher /\ \A q \in Fetcher : fetcher'[q] = IF q = p THEN f ELSE fetcher[q]
BY DEF FetchersOK

LEMMA FetchTyped ==
    ASSUME StorageInv, NEW p \in Fetcher
    PROVE  /\ DOMAIN fetcher = Fetcher /\ FetchOK(fetcher[p])
           /\ DOMAIN fetcher[p] = {"at", "msg", "staged", "into", "tried"}
BY DEF StorageInv, FetchersOK, FetchOK, FetchShape

(* A fetch stops: nothing else changes.                                    *)
LEMMA Stopping ==
    ASSUME StorageInv, NEW p \in Fetcher, Storage!Stops(p),
           UNCHANGED <<mail, holder, file, rebuild, sweep, backupRun, kept, mailbox, raced>>
    PROVE  StorageInv'
<1>1. PICK f : f = Storage!Idle(fetcher[p].msg)
    OBVIOUS
<1>2. FetchOK(f) /\ f.at = "idle"
    BY <1>1, FetchTyped, IdleOK DEF FetchOK, FetchShape, Storage!Idle
<1>3. fetcher' = [fetcher EXCEPT ![p] = f]
    BY <1>1 DEF Storage!Stops
<1>4. QED BY <1>2, <1>3, FetchMoves

(* A fetch goes on to a step that promises no more than it has.            *)
LEMMA GoingOn ==
    ASSUME StorageInv, NEW p \in Fetcher, NEW step, Storage!Goes(p, step),
           step \in {"selected", "checked", "parsed"},
           step = "selected" => Storage!At(p, "listed"),
           step # "selected" => fetcher[p].at \in Staged \ {"visible"},
           step = "checked" => mailbox = 1,
           step = "parsed" => Storage!At(p, "checked"),
           UNCHANGED <<mail, holder, file, rebuild, sweep, backupRun, kept, mailbox, raced>>
    PROVE  StorageInv'
<1>1. PICK f : f = [fetcher[p] EXCEPT !.at = step]
    OBVIOUS
<1>2. fetcher' = [fetcher EXCEPT ![p] = f]
    BY <1>1 DEF Storage!Goes
<1>3. FetchOK(f) /\ f.at # "looked"
    BY <1>1, FetchTyped DEF FetchOK, FetchShape, Staged, Storage!At
<1>4. QED BY <1>2, <1>3, FetchMoves

LEMMA PendingSound ==
    ASSUME StorageInv, NEW p \in Fetcher, NEW m \in Message, Storage!Pending(p, m)
    PROVE  StorageInv'
<1>1. PICK f : f = [Storage!Idle(m) EXCEPT !.at = "listed"]
    OBVIOUS
<1>2. /\ fetcher' = [fetcher EXCEPT ![p] = f]
      /\ UNCHANGED <<mail, holder, file, rebuild, sweep, backupRun, kept, mailbox, raced>>
    BY <1>1 DEF Storage!Pending, Storage!Elsewhere
<1>3. FetchOK(f) /\ f.at # "looked"
    BY <1>1, NoneIsNoByte DEF FetchOK, FetchShape, Staged, Storage!Idle, None
<1>4. QED BY <1>2, <1>3, FetchMoves

LEMMA SelectSound ==
    ASSUME StorageInv, NEW p \in Fetcher, Storage!Select(p) \/ Storage!GiveUp(p) \/ Storage!Revalidate(p)
    PROVE  StorageInv'
<1>1. UNCHANGED <<mail, holder, file, rebuild, sweep, backupRun, kept, mailbox, raced>>
    BY DEF Storage!Select, Storage!GiveUp, Storage!Revalidate, Storage!Elsewhere
<1>2. CASE Storage!Stops(p)
    BY <1>1, <1>2, Stopping
<1>3. CASE ~Storage!Stops(p)
    <2>1. \/ Storage!At(p, "listed") /\ Storage!Goes(p, "selected")
          \/ Storage!At(p, "synced") /\ Storage!Goes(p, "checked") /\ mailbox = 1
        BY <1>3 DEF Storage!Select, Storage!GiveUp, Storage!Revalidate, Storage!StillSame,
                    Storage!SameGeneration
    <2>2. QED BY <1>1, <2>1, GoingOn DEF Staged, Storage!At
<1>4. QED BY <1>2, <1>3

LEMMA StageSound ==
    ASSUME StorageInv, NEW p \in Fetcher, Storage!Stage(p)
    PROVE  StorageInv'
<1> DEFINE m == fetcher[p].msg
<1>1. PICK b : b = Storage!OnServer(m)
    OBVIOUS
<1>2. PICK f : f = [fetcher[p] EXCEPT !.at = "visible", !.staged = b]
    OBVIOUS
<1>3. /\ fetcher[p].at = "selected"
      /\ fetcher' = [fetcher EXCEPT ![p] = f]
      /\ file' = [file EXCEPT ![m].seen = b, ![m].old = FALSE]
      /\ raced' = IF Storage!Overwrites(p, m) THEN raced \cup {m} ELSE raced
      /\ UNCHANGED <<mail, holder, rebuild, sweep, backupRun, kept, mailbox>>
    BY <1>1, <1>2 DEF Storage!Stage, Storage!Elsewhere, Storage!At
<1>4. m \in Message /\ FetchOK(fetcher[p])
    BY <1>3, FetchTyped DEF FetchOK
<1>5. b \in Bytes /\ (mailbox = 1 => b = First[m]) /\ b # None
    BY <1>1, <1>4, FetchedAssumption, NoneIsNoByte DEF Storage!OnServer
<1>6. /\ file \in [Message -> Storage!Object] /\ file' \in [Message -> Storage!Object]
      /\ \A k \in Message : k # m => file'[k] = file[k]
      /\ file'[m].seen = b /\ file'[m].disk = file[m].disk /\ ~file'[m].old
    BY <1>3, <1>4, <1>5 DEF StorageInv, Storage!Object
<1>7. raced \subseteq raced' /\ \A k \in Message : k # m /\ k \notin raced => k \notin raced'
    BY <1>3
<1>8. m \notin raced' =>
        /\ Storage!Held(m) => mail[m].digest = b
        /\ \A q \in Fetcher \ {p} : fetcher[q].msg = m => fetcher[q].staged \in {None, b}
    BY <1>1, <1>3 DEF Storage!Overwrites, None
<1>9. Intact'
    <2>1. SUFFICES ASSUME NEW k \in Message \ raced', Storage!Held(k)
                   PROVE  Holds(file'[k], mail[k].digest)
        BY <1>3 DEF Intact, Storage!Held
    <2>2. Holds(file[k], mail[k].digest)
        BY <1>7, <2>1 DEF StorageInv, Intact
    <2>3. QED BY <1>6, <1>8, <2>1, <2>2 DEF Holds
<1>10. FetchersOK'
    <2>1. /\ DOMAIN fetcher' = Fetcher
          /\ \A q \in Fetcher : fetcher'[q] = IF q = p THEN f ELSE fetcher[q]
        BY <1>3, OneFetchMoves DEF StorageInv
    <2>2. FetchOK(f)'
        BY <1>2, <1>3, <1>4, <1>5, <1>6, FetchTyped DEF FetchOK, FetchShape, Staged
    <2>3. ASSUME NEW q \in Fetcher \ {p}, NEW g, g = fetcher[q] PROVE FetchOK(g)'
        <3>1. FetchOK(g)
            BY <2>3, FetchTyped
        <3>2. g.msg = m /\ m \notin raced' => g.staged \in {None, b}
            BY <1>8, <2>3
        <3>3. QED BY <1>3, <1>5, <1>6, <1>7, <3>1, <3>2 DEF FetchOK, FetchShape, Staged, Storage!Held
    <2>4. ASSUME NEW q \in Fetcher PROVE FetchOK(fetcher[q])'
        <3>1. PICK g : g = fetcher'[q]
            OBVIOUS
        <3>2. FetchOK(g)'
            BY <2>1, <2>2, <2>3, <3>1
        <3>3. QED BY <3>1, <3>2 DEF FetchOK
    <2>5. f.at = "visible"
        BY <1>2, FetchTyped
    <2>6. QED BY <2>1, <2>4, <2>5 DEF StorageInv, FetchersOK, FetchOK, Storage!At
<1>11. CollectionOK'
    BY <1>3, <1>6, <1>7 DEF StorageInv, CollectionOK, Storage!Held
<1>12. (RowsSound(mail, holder) /\ RebuildOK /\ BackupOK /\ KeptOK)'
    BY <1>3, <1>7 DEF StorageInv, RebuildOK, BackupOK, KeptOK, Storage!Held
<1>13. QED BY <1>6, <1>9, <1>10, <1>11, <1>12 DEF StorageInv

LEMMA SyncSound ==
    ASSUME StorageInv, NEW p \in Fetcher, Storage!SyncDirectory(p)
    PROVE  StorageInv'
<1> DEFINE m == fetcher[p].msg
<1>1. PICK f : f = [fetcher[p] EXCEPT !.at = "synced"]
    OBVIOUS
<1>2. /\ fetcher[p].at = "visible"
      /\ fetcher' = [fetcher EXCEPT ![p] = f]
      /\ file' = [file EXCEPT ![m].disk = file[m].seen]
      /\ UNCHANGED <<mail, holder, rebuild, sweep, backupRun, kept, mailbox, raced>>
    BY <1>1 DEF Storage!SyncDirectory, Storage!Goes, Storage!Synced, Storage!Elsewhere, Storage!At
<1>3. m \in Message /\ FetchOK(fetcher[p])
    BY <1>2, FetchTyped DEF FetchOK
<1>4. /\ file \in [Message -> Storage!Object] /\ file' \in [Message -> Storage!Object]
      /\ \A k \in Message : k # m => file'[k] = file[k]
      /\ file'[m].disk = file[m].seen /\ file'[m].seen = file[m].seen /\ file'[m].old = file[m].old
    BY <1>2, <1>3 DEF StorageInv, Storage!Object
<1>5. Intact'
    BY <1>2, <1>4 DEF StorageInv, Intact, Holds, Storage!Held
<1>6. FetchersOK'
    <2>1. /\ DOMAIN fetcher' = Fetcher
          /\ \A q \in Fetcher : fetcher'[q] = IF q = p THEN f ELSE fetcher[q]
        BY <1>2, OneFetchMoves DEF StorageInv
    <2>2. FetchOK(f)'
        BY <1>1, <1>2, <1>3, <1>4, FetchTyped DEF FetchOK, FetchShape, Staged
    <2>3. ASSUME NEW g, FetchOK(g) PROVE FetchOK(g)'
        BY <1>2, <1>4, <2>3 DEF FetchOK, FetchShape, Staged, Storage!Held
    <2>4. ASSUME NEW q \in Fetcher PROVE FetchOK(fetcher[q])'
        <3>1. PICK g : g = fetcher'[q]
            OBVIOUS
        <3>2. FetchOK(g)'
            BY <2>1, <2>2, <2>3, <3>1, FetchTyped
        <3>3. QED BY <3>1, <3>2 DEF FetchOK
    <2>5. f.at = "synced"
        BY <1>1, FetchTyped
    <2>6. QED BY <2>1, <2>4, <2>5 DEF StorageInv, FetchersOK, FetchOK, Storage!At
<1>7. CollectionOK'
    BY <1>2, <1>4 DEF StorageInv, CollectionOK, Storage!Held
<1>8. (RowsSound(mail, holder) /\ RebuildOK /\ BackupOK /\ KeptOK)'
    BY <1>2 DEF StorageInv, RebuildOK, BackupOK, KeptOK, Storage!Held
<1>9. QED BY <1>4, <1>5, <1>6, <1>7, <1>8 DEF StorageInv

LEMMA LookForTwinSound ==
    ASSUME StorageInv, NEW p \in Fetcher, Storage!LookForTwin(p)
    PROVE  StorageInv'
<1> DEFINE m == fetcher[p].msg
<1>1. UNCHANGED <<mail, holder, file, rebuild, sweep, backupRun, kept, mailbox, raced>>
    BY DEF Storage!LookForTwin, Storage!Elsewhere
<1>2. CASE Storage!Stops(p)
    BY <1>1, <1>2, Stopping
<1>3. CASE ~Storage!Stops(p)
    <2> DEFINE twins == Storage!Twins(m, fetcher[p].staged)
    <2>1. /\ fetcher[p].at = "parsed" /\ mail[m].state # "merged"
          /\ \A q \in Fetcher : fetcher[q].msg = m => ~Storage!At(q, "looked")
          /\ \E d \in IF twins = {} THEN {None} ELSE twins :
                fetcher' = [fetcher EXCEPT ![p].at = "looked", ![p].into = d]
        BY <1>3 DEF Storage!LookForTwin, Storage!At, None
    <2>2. PICK d \in IF twins = {} THEN {None} ELSE twins :
                fetcher' = [fetcher EXCEPT ![p].at = "looked", ![p].into = d]
        BY <2>1
    <2>3. d = None \/ (d \in Message \ {m} /\ Storage!Held(d) /\ mail[d].digest = fetcher[p].staged)
        BY DEF Storage!Twins
    <2>4. PICK f : f = [fetcher[p] EXCEPT !.at = "looked", !.into = d]
        OBVIOUS
    <2>5. fetcher' = [fetcher EXCEPT ![p] = f]
        BY <2>2, <2>4
    <2>6. FetchOK(f) /\ f.msg = m
        BY <2>1, <2>3, <2>4, FetchTyped DEF FetchOK, FetchShape, Staged
    <2>7. QED BY <1>1, <2>1, <2>5, <2>6, FetchMoves
<1>4. QED BY <1>2, <1>3

LEMMA UniqueViolationSound ==
    ASSUME StorageInv, NEW p \in Fetcher, Storage!UniqueViolation(p)
    PROVE  StorageInv'
<1>1. UNCHANGED <<mail, holder, file, rebuild, sweep, backupRun, kept, mailbox, raced>>
    BY DEF Storage!UniqueViolation, Storage!Elsewhere
<1>2. CASE Storage!Stops(p)
    BY <1>1, <1>2, Stopping
<1>3. CASE ~Storage!Stops(p)
    <2>1. fetcher[p].at = "looked" /\ fetcher' = [fetcher EXCEPT ![p].at = "parsed", ![p].tried = TRUE]
        BY <1>3 DEF Storage!UniqueViolation, Storage!At
    <2>2. PICK f : f = [fetcher[p] EXCEPT !.at = "parsed", !.tried = TRUE]
        OBVIOUS
    <2>3. fetcher' = [fetcher EXCEPT ![p] = f]
        BY <2>1, <2>2
    <2>4. FetchOK(f) /\ f.at # "looked"
        BY <2>1, <2>2, FetchTyped DEF FetchOK, FetchShape, Staged
    <2>5. QED BY <1>1, <2>3, <2>4, FetchMoves
<1>4. QED BY <1>2, <1>3

(* A row leaves the jobs without its body: too large, or unparsable.       *)
LEMMA JobEnds ==
    ASSUME StorageInv, NEW p \in Fetcher, Storage!Stops(p), NEW m \in Message, NEW s,
           s \in {"skipped", "failed"}, mail[m].state = "pending",
           mail' = [mail EXCEPT ![m].state = s],
           UNCHANGED <<holder, file, rebuild, sweep, backupRun, kept, mailbox, raced>>
    PROVE  StorageInv'
<1>1. /\ mail' \in [Message -> Storage!Mail]
      /\ \A n \in Message : n # m => mail'[n] = mail[n]
      /\ mail'[m].state = s /\ mail'[m].digest = mail[m].digest
      /\ mail'[m].body = mail[m].body /\ mail'[m].cached = mail[m].cached
    BY DEF StorageInv, RowsSound, Storage!Mail
<1>2. RowsSound(mail', holder')
    BY <1>1 DEF StorageInv, RowsSound, RowOK, Fetched
<1>3. \A n \in Message : (Storage!Held(n)' <=> Storage!Held(n)) /\ mail'[n].digest = mail[n].digest
    BY <1>1 DEF Storage!Held
<1>4. \A n \in Message : mail'[n].state = "merged" => mail[n].state = "merged"
    BY <1>1
<1>5. \E q \in Fetcher : fetcher' = [fetcher EXCEPT ![q] = Storage!Idle(@.msg)]
    BY DEF Storage!Stops
<1>6. QED BY <1>2, <1>3, <1>4, <1>5, RowsMove

LEMMA SkipOversizedSound ==
    ASSUME StorageInv, NEW p \in Fetcher, Storage!SkipOversized(p)
    PROVE  StorageInv'
<1>1. /\ Storage!Stops(p) /\ fetcher[p].at = "selected"
      /\ UNCHANGED <<holder, file, rebuild, sweep, backupRun, kept, mailbox, raced>>
      /\ mail' = IF mail[fetcher[p].msg].state = "pending"
                 THEN [mail EXCEPT ![fetcher[p].msg].state = "skipped"] ELSE mail
    BY DEF Storage!SkipOversized, Storage!Elsewhere, Storage!At
<1>2. fetcher[p].msg \in Message
    BY <1>1, FetchTyped DEF FetchOK
<1>3. CASE mail' = mail
    BY <1>1, <1>3, Stopping
<1>4. CASE mail' # mail
    BY <1>1, <1>2, <1>4, JobEnds
<1>5. QED BY <1>3, <1>4

LEMMA ApplyStagedSound ==
    ASSUME StorageInv, NEW p \in Fetcher, Storage!ApplyStaged(p)
    PROVE  StorageInv'
<1> DEFINE m == fetcher[p].msg
           good == file[m].seen = fetcher[p].staged
           parses == fetcher[p].staged \notin Unparsable
<1>1. /\ fetcher[p].at = "checked"
      /\ IF good /\ parses THEN Storage!Goes(p, "parsed") ELSE Storage!Stops(p)
      /\ mail' = IF good /\ ~parses /\ mail[m].state = "pending"
                 THEN [mail EXCEPT ![m].state = "failed"] ELSE mail
      /\ UNCHANGED <<holder, file, rebuild, sweep, backupRun, kept, mailbox, raced>>
    BY DEF Storage!ApplyStaged, Storage!Elsewhere, Storage!At
<1>2. m \in Message
    BY <1>1, FetchTyped DEF FetchOK
<1>3. CASE good /\ parses
    BY <1>1, <1>3, GoingOn DEF Staged, Storage!At
<1>4. CASE ~(good /\ parses) /\ mail' = mail
    BY <1>1, <1>4, Stopping
<1>5. CASE ~(good /\ parses) /\ mail' # mail
    BY <1>1, <1>2, <1>5, JobEnds
<1>6. QED BY <1>3, <1>4, <1>5

LEMMA ApplyIngestedSound ==
    ASSUME StorageInv, NEW p \in Fetcher, Storage!ApplyIngested(p)
    PROVE  StorageInv'
<1> DEFINE m == fetcher[p].msg
           b == fetcher[p].staged
<1>1. /\ fetcher[p].at = "looked" /\ Storage!Twins(m, b) = {} /\ Storage!Stops(p)
      /\ mail' = [mail EXCEPT ![m].state = "fetched", ![m].digest = b, ![m].body = b]
      /\ UNCHANGED <<holder, file, rebuild, sweep, backupRun, kept, mailbox, raced>>
    BY DEF Storage!ApplyIngested, Storage!Elsewhere, Storage!At
<1>2. /\ m \in Message /\ b \in Bytes /\ b = First[m] /\ mail[m].state # "merged"
      /\ m \notin raced => Holds(file[m], b) /\ ~file[m].old
    BY <1>1, FetchTyped, NoneIsNoByte DEF FetchOK, FetchShape, Staged, Holds
<1>3. holder[m] = m /\ (Storage!Held(m) => mail[m].digest = b)
    BY <1>2 DEF StorageInv, RowsSound, RowOK, Fetched, Storage!Held
<1>4. /\ mail' \in [Message -> Storage!Mail]
      /\ \A n \in Message : n # m => mail'[n] = mail[n]
      /\ mail'[m].state = "fetched" /\ mail'[m].digest = b
      /\ mail'[m].body = b /\ mail'[m].cached = mail[m].cached
    BY <1>1, <1>2 DEF StorageInv, RowsSound, Storage!Mail
<1>5. RowsSound(mail', holder')
    <2>1. ASSUME NEW n \in Message PROVE RowOK(mail', holder', n)
        <3>1. RowOK(mail, holder, n) /\ RowOK(mail, holder, m) /\ holder[n] \in Message
            BY <1>2 DEF StorageInv, RowsSound
        <3>2. n # m => holder[n] # m \/ Storage!Held(m)
            BY <1>2, <3>1 DEF RowOK, Fetched, Storage!Held
        <3>3. CASE n = m
            BY <1>1, <1>2, <1>3, <1>4, <3>1, <3>3 DEF RowOK, Fetched, Storage!Held, None
        <3>4. CASE n # m /\ holder[n] # m
            BY <1>1, <1>2, <1>4, <3>1, <3>4 DEF RowOK
        <3>5. CASE n # m /\ holder[n] = m
            BY <1>1, <1>2, <1>3, <1>4, <3>1, <3>2, <3>5 DEF RowOK, Fetched, Storage!Held
        <3>6. QED BY <3>3, <3>4, <3>5
    <2>2. \A d \in Message : d # m /\ Fetched(mail[d]) => mail[d].digest # b
        <3>1. SUFFICES ASSUME NEW d \in Message, d # m, Fetched(mail[d]), mail[d].digest = b
                       PROVE  FALSE
            OBVIOUS
        <3>2. Storage!Twins(m, b) = {e \in Message \ {m} : Storage!Held(e) /\ mail[e].digest = b}
            BY DEF Storage!Twins
        <3>3. d \in {e \in Message \ {m} : Storage!Held(e) /\ mail[e].digest = b}
            BY <3>1 DEF Storage!Held, Fetched
        <3>4. QED BY <1>1, <3>2, <3>3
    <2>3. ASSUME NEW x \in Message, NEW y \in Message, Fetched(mail'[x]), Fetched(mail'[y]),
                 mail'[x].digest = mail'[y].digest
          PROVE  x = y
        <3>1. \A n \in Message : n # m /\ Fetched(mail'[n]) =>
                  Fetched(mail[n]) /\ mail'[n].digest = mail[n].digest /\ mail'[n].digest # b
            BY <1>4, <2>2
        <3>2. QED BY <1>4, <2>3, <3>1 DEF StorageInv, RowsSound
    <2>4. holder' \in [Message -> Message]
        BY <1>1 DEF StorageInv, RowsSound
    <2>5. QED BY <1>4, <2>1, <2>3, <2>4 DEF RowsSound
<1>6. \A n \in Message : Storage!Held(n) => Storage!Held(n)' /\ mail'[n].digest = mail[n].digest
    BY <1>3, <1>4 DEF Storage!Held
<1>7. \A n \in Message \ raced : Storage!Held(n)' /\ ~Storage!Held(n) =>
          Holds(file[n], mail'[n].digest) /\ ~file[n].old
    BY <1>2, <1>4 DEF Storage!Held
<1>8. \A n \in Message : mail'[n].state = "merged" => mail[n].state = "merged"
    BY <1>4
<1>9. \E q \in Fetcher : fetcher' = [fetcher EXCEPT ![q] = Storage!Idle(@.msg)]
    BY <1>1 DEF Storage!Stops
<1>10. QED BY <1>1, <1>5, <1>6, <1>7, <1>8, <1>9, RowsMove

LEMMA MergeDuplicateSound ==
    ASSUME StorageInv, NEW p \in Fetcher, Storage!MergeDuplicate(p)
    PROVE  StorageInv'
<1> DEFINE m == fetcher[p].msg
           d == fetcher[p].into
<1>1. /\ fetcher[p].at = "looked" /\ d # None /\ Storage!Stops(p)
      /\ holder' = Storage!Moved(m, d)
      /\ mail' = [mail EXCEPT ![m] = [Storage!Provisional EXCEPT !.state = "merged"]]
      /\ UNCHANGED <<file, rebuild, sweep, backupRun, kept, mailbox, raced>>
    BY DEF Storage!MergeDuplicate, Storage!Elsewhere, Storage!At, None
<1>2. /\ m \in Message /\ d \in Message /\ d # m /\ mail[m].state # "merged"
      /\ Storage!Held(d) /\ mail[d].digest = First[m]
    BY <1>1, FetchTyped DEF FetchOK, FetchShape, Staged
<1>3. ~Storage!Held(m)
    BY <1>2, FetchedDigest DEF StorageInv, RowsSound, Storage!Held, Fetched
<1>4. \A n \in Message : n # m => holder[n] # m
    BY <1>3 DEF StorageInv, RowsSound, RowOK, Fetched, Storage!Held
<1>5. /\ mail' \in [Message -> Storage!Mail] /\ holder' \in [Message -> Message]
      /\ \A n \in Message : n # m => mail'[n] = mail[n] /\ holder'[n] = holder[n]
      /\ mail'[m].state = "merged" /\ mail'[m].digest = None
      /\ mail'[m].body = None /\ mail'[m].cached = None
      /\ holder[m] = m /\ holder'[m] = d
    BY <1>1, <1>2, <1>4 DEF StorageInv, RowsSound, RowOK, Storage!Mail, Storage!Provisional, Storage!Moved, None
<1>6. RowsSound(mail', holder')
    <2>1. ASSUME NEW n \in Message PROVE RowOK(mail', holder', n)
        <3>1. RowOK(mail, holder, n) /\ holder[n] \in Message
            BY DEF StorageInv, RowsSound
        <3>2. QED BY <1>2, <1>3, <1>4, <1>5, <3>1 DEF RowOK, Fetched, Storage!Held
    <2>2. QED BY <1>5, <2>1 DEF StorageInv, RowsSound, Fetched
<1>7. \A n \in Message : Storage!Held(n) => Storage!Held(n)' /\ mail'[n].digest = mail[n].digest
    BY <1>3, <1>5 DEF Storage!Held
<1>8. \A n \in Message : Storage!Held(n)' => Storage!Held(n)
    BY <1>5 DEF Storage!Held
<1>9. \A q \in Fetcher : ~(fetcher'[q].at = "looked" /\ fetcher'[q].msg = m)
    <2>1. PICK f : f = Storage!Idle(fetcher[p].msg)
        OBVIOUS
    <2>2. fetcher' = [fetcher EXCEPT ![p] = f] /\ f.at = "idle"
        BY <1>1, <2>1 DEF Storage!Stops, Storage!Idle
    <2>3. QED BY <1>1, <2>2, OneFetchMoves DEF StorageInv, FetchersOK, Storage!At
<1>10. \A n \in Message : n # m /\ mail'[n].state = "merged" => mail[n].state = "merged"
    BY <1>5
<1>11. \E q \in Fetcher : fetcher' = [fetcher EXCEPT ![q] = Storage!Idle(@.msg)]
    BY <1>1 DEF Storage!Stops
<1>12. QED BY <1>1, <1>6, <1>7, <1>8, <1>9, <1>10, <1>11, RowsMove

LEMMA FetchSound == ASSUME StorageInv, NEW p \in Fetcher, Storage!FetchBody(p) PROVE StorageInv'
BY PendingSound, SelectSound, StageSound, SyncSound, SkipOversizedSound, ApplyStagedSound,
   LookForTwinSound, MergeDuplicateSound, ApplyIngestedSound, UniqueViolationSound
   DEF Storage!FetchBody

-----------------------------------------------------------------------------
(* Copies rebuilt from an original.                                        *)

LEMMA ReadSound ==
    ASSUME StorageInv, NEW kind, NEW m \in Message, Storage!ReadOriginal(kind, m)
    PROVE  StorageInv'
<1>1. /\ Storage!Held(m) /\ file[m].seen = mail[m].digest
      /\ rebuild' = [at |-> "read", kind |-> kind, msg |-> m, from |-> file[m].seen]
      /\ UNCHANGED <<mail, holder, file, fetcher, sweep, backupRun, kept, mailbox, raced>>
    BY DEF Storage!ReadOriginal, Storage!Verified, Storage!Aside
<1>2. RebuildOK'
    BY <1>1 DEF RebuildOK, Storage!Held
<1>3. (RowsSound(mail, holder) /\ file \in [Message -> Storage!Object] /\ Intact)'
    BY <1>1 DEF StorageInv, Intact, Storage!Held
<1>4. (FetchersOK /\ CollectionOK /\ BackupOK /\ KeptOK)'
    BY <1>1 DEF StorageInv, FetchersOK, FetchOK, CollectionOK, BackupOK, KeptOK, Storage!Held, Storage!At
<1>5. QED BY <1>2, <1>3, <1>4 DEF StorageInv

LEMMA RebuildSound ==
    ASSUME StorageInv, Storage!RefreshSanitizedBody \/ Storage!RegenerateAttachment
    PROVE  StorageInv'
<1> DEFINE m == rebuild.msg
           b == rebuild.from
<1>1. /\ rebuild.at = "read" /\ rebuild' = Storage!Asleep
      /\ UNCHANGED <<holder, file, fetcher, sweep, backupRun, kept, mailbox, raced>>
    BY DEF Storage!RefreshSanitizedBody, Storage!RegenerateAttachment, Storage!Aside
<1>2. m \in Message /\ Storage!Held(m) /\ mail[m].digest = b
    BY <1>1 DEF StorageInv, RebuildOK
<1>3. mail' \in {[mail EXCEPT ![m].body = b], [mail EXCEPT ![m].cached = b]}
    BY <1>2 DEF Storage!RefreshSanitizedBody, Storage!RegenerateAttachment
<1>4. b \in Bytes
    BY <1>2, FetchedDigest DEF StorageInv, Storage!Held, Fetched
<1>5. /\ mail' \in [Message -> Storage!Mail]
      /\ \A n \in Message : n # m => mail'[n] = mail[n]
      /\ mail'[m].state = mail[m].state /\ mail'[m].digest = b
      /\ mail'[m].body \in {b, mail[m].body} /\ mail'[m].cached \in {b, mail[m].cached}
    BY <1>2, <1>3, <1>4 DEF StorageInv, RowsSound, Storage!Mail
<1>6. RowsSound(mail', holder')
    <2>1. ASSUME NEW n \in Message PROVE RowOK(mail', holder', n)
        <3>1. RowOK(mail, holder, n) /\ holder[n] \in Message
            BY DEF StorageInv, RowsSound
        <3>2. QED BY <1>1, <1>2, <1>5, <3>1 DEF RowOK, Fetched, Storage!Held
    <2>2. QED BY <1>1, <1>2, <1>5, <2>1 DEF StorageInv, RowsSound, Fetched
<1>7. \A n \in Message : (Storage!Held(n)' <=> Storage!Held(n)) /\ mail'[n].digest = mail[n].digest
    BY <1>2, <1>5 DEF Storage!Held
<1>8. \A n \in Message : mail'[n].state = "merged" => mail[n].state = "merged"
    BY <1>5
<1>9. QED BY <1>1, <1>6, <1>7, <1>8, RowsMove

-----------------------------------------------------------------------------
(* The collection.                                                         *)

(* A step of the pass that removes nothing.                                *)
LEMMA PassMoves ==
    ASSUME StorageInv, CollectionOK',
           UNCHANGED <<mail, holder, file, fetcher, rebuild, backupRun, kept, mailbox, raced>>
    PROVE  StorageInv'
<1>1. (RowsSound(mail, holder) /\ file \in [Message -> Storage!Object] /\ Intact)'
    BY DEF StorageInv, Intact, Storage!Held
<1>2. (FetchersOK /\ RebuildOK /\ BackupOK /\ KeptOK)'
    BY DEF StorageInv, FetchersOK, FetchOK, RebuildOK, BackupOK, KeptOK, Storage!Held, Storage!At
<1>3. QED BY <1>1, <1>2 DEF StorageInv

LEMMA PassSound ==
    ASSUME StorageInv,
           \/ Storage!StartCollection \/ Storage!ReferencedKeys \/ Storage!EndCollection
           \/ \E k \in Message : Storage!ExamineKey(k)
    PROVE  StorageInv'
<1>1. UNCHANGED <<mail, holder, file, fetcher, rebuild, backupRun, kept, mailbox, raced>>
    BY DEF Storage!StartCollection, Storage!ReferencedKeys, Storage!EndCollection,
           Storage!ExamineKey, Storage!Apart
<1>2. CollectionOK
    BY DEF StorageInv
<1>3. CASE Storage!StartCollection \/ Storage!EndCollection
    <2>1. sweep' \in {[sweep EXCEPT !.at = "started"], Storage!Rest} /\ (sweep.at = "idle" \/ sweep' = Storage!Rest)
        BY <1>3 DEF Storage!StartCollection, Storage!EndCollection
    <2>2. CollectionOK'
        BY <1>2, <2>1, NoneIsNoByte DEF CollectionOK, Storage!Rest, None
    <2>3. QED BY <1>1, <2>2, PassMoves
<1>4. CASE Storage!ReferencedKeys
    <2>1. /\ sweep.at = "started"
          /\ sweep' = [sweep EXCEPT !.at = "listing", !.refs = {m \in Message : Storage!Held(m)},
                                    !.todo = Message]
        BY <1>4 DEF Storage!ReferencedKeys
    <2>2. CollectionOK'
        BY <1>1, <1>2, <2>1 DEF CollectionOK, Storage!Held
    <2>3. QED BY <1>1, <2>2, PassMoves
<1>5. CASE \E k \in Message : Storage!ExamineKey(k)
    <2>1. PICK k \in Message : Storage!ExamineKey(k)
        BY <1>5
    <2>2. /\ sweep.at = "listing"
          /\ sweep' = [sweep EXCEPT !.todo = @ \ {k},
                            !.key = IF k \notin sweep.refs /\ Storage!PastGrace(k) THEN k ELSE None]
        BY <2>1 DEF Storage!ExamineKey, None
    <2>3. CollectionOK'
        BY <1>1, <1>2, <2>2 DEF CollectionOK, Storage!Held
    <2>4. QED BY <1>1, <2>3, PassMoves
<1>6. QED BY <1>3, <1>4, <1>5

(* The object of a fetched row, or of one being fetched, goes only in the  *)
(* race that RemoveObject names.                                           *)
LEMMA RemoveSound ==
    ASSUME StorageInv, NEW k \in Message, Storage!RemoveObject(k)
    PROVE  StorageInv'
<1>1. /\ sweep.key = k /\ file' = [file EXCEPT ![k] = Storage!Absent]
      /\ sweep' = [sweep EXCEPT !.key = None]
      /\ raced' = IF file[k].seen # None /\ ~file[k].old THEN raced \cup {k} ELSE raced
      /\ UNCHANGED <<mail, holder, fetcher, rebuild, backupRun, kept, mailbox>>
    BY DEF Storage!RemoveObject, Storage!Apart, None
<1>2. sweep.at = "listing" /\ k \notin sweep.refs /\ k # None
    BY <1>1, NoneIsNoByte DEF StorageInv, CollectionOK
<1>3. raced \subseteq raced' /\ \A n \in Message : n # k /\ n \notin raced => n \notin raced'
    BY <1>1
<1>4. /\ file' \in [Message -> Storage!Object]
      /\ \A n \in Message : n # k => file'[n] = file[n]
      /\ ~file'[k].old
    BY <1>1 DEF StorageInv, Storage!Object, Storage!Absent
<1>5. Storage!Held(k) => k \in raced'
    <2>1. SUFFICES ASSUME Storage!Held(k), k \notin raced PROVE k \in raced'
        BY <1>3
    <2>2. ~file[k].old
        BY <1>2, <2>1 DEF StorageInv, CollectionOK
    <2>3. file[k].seen = mail[k].digest /\ mail[k].digest \in Bytes
        BY <2>1, FetchedDigest DEF StorageInv, Intact, Holds, Storage!Held, Fetched
    <2>4. QED BY <1>1, <2>2, <2>3, NoneIsNoByte
<1>6. \A p \in Fetcher : fetcher[p].at \in Staged /\ fetcher[p].msg = k => k \in raced'
    <2>1. SUFFICES ASSUME NEW p \in Fetcher, fetcher[p].at \in Staged, fetcher[p].msg = k, k \notin raced
                   PROVE  k \in raced'
        BY <1>3
    <2>2. file[k].seen # None /\ ~file[k].old
        BY <2>1, FetchTyped DEF FetchOK
    <2>3. QED BY <1>1, <2>2
<1>7. Intact'
    BY <1>1, <1>3, <1>4, <1>5 DEF StorageInv, Intact, Storage!Held
<1>8. FetchersOK'
    <2>1. ASSUME NEW p \in Fetcher PROVE FetchOK(fetcher[p])'
        <3>1. PICK g : g = fetcher[p]
            OBVIOUS
        <3>2. FetchOK(g) /\ (g.at \in Staged /\ g.msg = k => k \in raced')
            BY <1>6, <3>1, FetchTyped
        <3>3. FetchOK(g)'
            BY <1>1, <1>3, <1>4, <3>2 DEF FetchOK, FetchShape, Staged, Storage!Held
        <3>4. QED BY <1>1, <3>1, <3>3 DEF FetchOK
    <2>2. QED BY <1>1, <2>1 DEF StorageInv, FetchersOK, FetchOK, Storage!At
<1>9. CollectionOK'
    BY <1>1, <1>3, <1>4 DEF StorageInv, CollectionOK, Storage!Held
<1>10. (RowsSound(mail, holder) /\ RebuildOK /\ BackupOK /\ KeptOK)'
    BY <1>1, <1>3 DEF StorageInv, RebuildOK, BackupOK, KeptOK, Storage!Held
<1>11. QED BY <1>4, <1>7, <1>8, <1>9, <1>10 DEF StorageInv

-----------------------------------------------------------------------------
(* Backup and restore.                                                     *)

(* A step of the nightly run.                                              *)
LEMMA BundleMoves ==
    ASSUME StorageInv, BackupOK', KeptOK',
           UNCHANGED <<mail, holder, file, fetcher, rebuild, sweep, mailbox, raced>>
    PROVE  StorageInv'
<1>1. (RowsSound(mail, holder) /\ file \in [Message -> Storage!Object] /\ Intact)'
    BY DEF StorageInv, Intact, Storage!Held
<1>2. (FetchersOK /\ CollectionOK /\ RebuildOK)'
    BY DEF StorageInv, FetchersOK, FetchOK, CollectionOK, RebuildOK, Storage!Held, Storage!At
<1>3. QED BY <1>1, <1>2 DEF StorageInv

LEMMA ClaimSound ==
    ASSUME StorageInv, Storage!ClaimMarker \/ Storage!FailBackup
    PROVE  StorageInv'
<1>1. /\ backupRun'.at # "copying" /\ kept' = kept
      /\ UNCHANGED <<mail, holder, file, fetcher, rebuild, sweep, mailbox, raced>>
    BY DEF Storage!ClaimMarker, Storage!FailBackup, Storage!Live, Storage!NoBundle
<1>2. BackupOK' /\ KeptOK'
    BY <1>1 DEF StorageInv, BackupOK, KeptOK, Storage!NoBundle
<1>3. QED BY <1>1, <1>2, BundleMoves

LEMMA DumpSound == ASSUME StorageInv, Storage!DumpRows PROVE StorageInv'
<1>1. /\ backupRun' = [at |-> "copying", todo |-> Message,
                       rows |-> [mail |-> mail, holder |-> holder],
                       files |-> [m \in Message |-> Storage!Absent]]
      /\ UNCHANGED <<mail, holder, file, fetcher, rebuild, sweep, mailbox, raced, kept>>
    BY DEF Storage!DumpRows, Storage!Live, Storage!Snapshot
<1>2. Copied(backupRun'.files)
    BY <1>1 DEF Copied, Storage!Absent, Storage!Object
<1>3. BackupOK'
    BY <1>1, <1>2 DEF StorageInv, BackupOK, Fetched, Storage!Held
<1>4. KeptOK'
    BY <1>1 DEF StorageInv, KeptOK, Storage!NoBundle
<1>5. QED BY <1>1, <1>3, <1>4, BundleMoves

LEMMA CopySound ==
    ASSUME StorageInv, NEW k \in Message, Storage!CopyObject(k)
    PROVE  StorageInv'
<1> DEFINE o == [file[k] EXCEPT !.disk = file[k].seen]
<1>1. /\ backupRun.at = "copying" /\ k \in backupRun.todo
      /\ backupRun' = [backupRun EXCEPT !.todo = @ \ {k}, !.files[k] = o]
      /\ UNCHANGED <<mail, holder, file, fetcher, rebuild, sweep, mailbox, raced, kept>>
    BY DEF Storage!CopyObject, Storage!Live
<1>2. o \in Storage!Object /\ o.disk = o.seen /\ o.seen = file[k].seen
    BY DEF StorageInv, Storage!Object
<1>3. /\ DOMAIN backupRun = {"at", "todo", "rows", "files"} /\ Copied(backupRun.files)
      /\ RowsSound(backupRun.rows.mail, backupRun.rows.holder)
    BY <1>1 DEF StorageInv, BackupOK
<1> HIDE DEF o
<1>4. /\ DOMAIN backupRun' = {"at", "todo", "rows", "files"}
      /\ backupRun'.at = "copying" /\ backupRun'.rows = backupRun.rows
      /\ backupRun'.todo = backupRun.todo \ {k}
      /\ backupRun'.files = [backupRun.files EXCEPT ![k] = o]
    BY <1>1, <1>3
<1>5. /\ Copied(backupRun'.files) /\ backupRun'.files[k] = o
      /\ \A m \in Message : m # k => backupRun'.files[m] = backupRun.files[m]
    BY <1>2, <1>3, <1>4 DEF Copied
<1>6. BackupOK'
    <2>1. ASSUME NEW m \in Message \ raced, Fetched(backupRun.rows.mail[m])
          PROVE  /\ Storage!Held(m) /\ mail[m].digest = backupRun.rows.mail[m].digest
                 /\ m \notin backupRun'.todo =>
                      backupRun'.files[m].seen = backupRun.rows.mail[m].digest
        <3>1. Storage!Held(m) /\ mail[m].digest = backupRun.rows.mail[m].digest
            BY <1>1, <2>1 DEF StorageInv, BackupOK
        <3>2. file[m].seen = mail[m].digest
            BY <3>1 DEF StorageInv, Intact, Holds
        <3>3. CASE m = k
            BY <1>2, <1>5, <3>1, <3>2, <3>3
        <3>4. CASE m # k
            BY <1>1, <1>4, <1>5, <2>1, <3>1, <3>4 DEF StorageInv, BackupOK
        <3>5. QED BY <3>3, <3>4
    <2>2. QED BY <1>1, <1>3, <1>4, <1>5, <2>1 DEF BackupOK, Storage!Held
<1>7. KeptOK'
    BY <1>1 DEF StorageInv, KeptOK, Storage!NoBundle
<1>8. QED BY <1>1, <1>6, <1>7, BundleMoves

(* A bundle is complete when its last object was copied.                   *)
LEMMA FinishSound == ASSUME StorageInv, Storage!FinishBackup PROVE StorageInv'
<1>1. /\ backupRun.at = "copying" /\ backupRun.todo = {}
      /\ kept' = [at |-> "complete", rows |-> backupRun.rows, files |-> backupRun.files]
      /\ backupRun' = Storage!NoBundle
      /\ UNCHANGED <<mail, holder, file, fetcher, rebuild, sweep, mailbox, raced>>
    BY DEF Storage!FinishBackup, Storage!Live, Storage!RowsDumped
<1>2. BackupOK'
    BY <1>1 DEF BackupOK, Storage!NoBundle
<1>3. KeptOK'
    BY <1>1 DEF StorageInv, BackupOK, KeptOK
<1>4. QED BY <1>1, <1>2, <1>3, BundleMoves

(* The processes are gone: nothing is fetched, collected or rebuilt.       *)
LEMMA AllStopped ==
    ASSUME fetcher' = [p \in Fetcher |-> Storage!Idle(Storage!SomeMessage)],
           rebuild' = Storage!Asleep, sweep' = Storage!Rest
    PROVE  (FetchersOK /\ CollectionOK /\ RebuildOK)'
<1>1. PICK idle : idle = Storage!Idle(Storage!SomeMessage)
    OBVIOUS
<1>2. idle \in FetchShape /\ idle.at = "idle" /\ idle.staged = None
    BY <1>1, IdleOK DEF FetchOK, Storage!Idle, None
<1>3. DOMAIN fetcher' = Fetcher /\ \A p \in Fetcher : fetcher'[p] = idle
    BY <1>1
<1>4. FetchOK(idle)'
    BY <1>2 DEF FetchOK, Staged
<1>5. ASSUME NEW p \in Fetcher PROVE FetchOK(fetcher[p])'
    BY <1>3, <1>4 DEF FetchOK
<1>6. FetchersOK'
    BY <1>2, <1>3, <1>5 DEF FetchersOK, Storage!At
<1>7. CollectionOK' /\ RebuildOK'
    BY NoneIsNoByte DEF CollectionOK, RebuildOK, Storage!Rest, Storage!Asleep, None
<1>8. QED BY <1>6, <1>7

LEMMA RestoreSound == ASSUME StorageInv, Storage!Restore PROVE StorageInv'
<1>1. /\ kept # Storage!NoBundle /\ backupRun.at = "idle"
      /\ mail' = [m \in Message |-> [kept.rows.mail[m] EXCEPT !.cached = None]]
      /\ holder' = kept.rows.holder
      /\ file' = [k \in Message |-> IF kept.files[k].seen # None THEN kept.files[k] ELSE file[k]]
      /\ fetcher' = [p \in Fetcher |-> Storage!Idle(Storage!SomeMessage)]
      /\ rebuild' = Storage!Asleep /\ sweep' = Storage!Rest
      /\ UNCHANGED <<backupRun, kept, mailbox, raced>>
    BY DEF Storage!Restore, Storage!RestoredFile, None
<1>2. /\ RowsSound(kept.rows.mail, kept.rows.holder) /\ Copied(kept.files)
      /\ \A m \in Message \ raced :
            Fetched(kept.rows.mail[m]) => kept.files[m].seen = kept.rows.mail[m].digest
    BY <1>1 DEF StorageInv, KeptOK
<1>3. \A m \in Message :
          /\ mail'[m] \in Storage!Mail
          /\ mail'[m].state = kept.rows.mail[m].state /\ mail'[m].digest = kept.rows.mail[m].digest
          /\ mail'[m].body = kept.rows.mail[m].body /\ mail'[m].cached = None
    BY <1>1, <1>2 DEF RowsSound, Storage!Mail, None
<1>4. mail' \in [Message -> Storage!Mail] /\ holder' \in [Message -> Message]
    BY <1>1, <1>2, <1>3 DEF RowsSound
<1>5. RowsSound(mail', holder')
    <2>1. ASSUME NEW n \in Message PROVE RowOK(mail', holder', n)
        <3>1. RowOK(kept.rows.mail, kept.rows.holder, n) /\ holder'[n] \in Message
            BY <1>2, <1>4 DEF RowsSound
        <3>2. QED BY <1>1, <1>3, <3>1 DEF RowOK, Fetched
    <2>2. QED BY <1>2, <1>3, <1>4, <2>1 DEF RowsSound, Fetched
<1>6. file' \in [Message -> Storage!Object]
    BY <1>1, <1>2 DEF StorageInv, Copied
<1>7. Intact'
    <2>1. ASSUME NEW m \in Message \ raced, Storage!Held(m)' PROVE Holds(file'[m], mail'[m].digest)
        <3>1. Fetched(kept.rows.mail[m])
            BY <1>3, <2>1 DEF Fetched, Storage!Held
        <3>2. kept.files[m].seen = mail'[m].digest /\ kept.files[m].seen # None
            BY <1>2, <1>3, <3>1, FetchedDigest, NoneIsNoByte
        <3>3. file'[m] = kept.files[m] /\ kept.files[m].disk = kept.files[m].seen
            BY <1>1, <1>2, <3>2 DEF Copied
        <3>4. QED BY <3>2, <3>3 DEF Holds
    <2>2. QED BY <1>1, <2>1 DEF Intact
<1>8. BackupOK' /\ KeptOK'
    BY <1>1 DEF StorageInv, BackupOK, KeptOK, Storage!NoBundle
<1>9. QED BY <1>1, <1>5, <1>6, <1>7, <1>8, AllStopped DEF StorageInv

LEMMA BackupSound == ASSUME StorageInv, Storage!Backup PROVE StorageInv'
BY ClaimSound, DumpSound, CopySound, FinishSound, RestoreSound DEF Storage!Backup

-----------------------------------------------------------------------------
(* The surroundings.                                                       *)

(* What a row refers to was synced before the row was committed.           *)
LEMMA PowerSound == ASSUME StorageInv, Storage!PowerFailure PROVE StorageInv'
<1>1. /\ file' = [k \in Message |-> [file[k] EXCEPT !.seen = file[k].disk]]
      /\ fetcher' = [p \in Fetcher |-> Storage!Idle(Storage!SomeMessage)]
      /\ rebuild' = Storage!Asleep /\ sweep' = Storage!Rest
      /\ UNCHANGED <<mail, holder, kept, mailbox, raced>>
      /\ backupRun'.at = "idle"
    BY DEF Storage!PowerFailure, Storage!NoBundle
<1>2. file' \in [Message -> Storage!Object] /\ \A k \in Message : Holds(file'[k], file[k].disk)
    BY <1>1 DEF StorageInv, Storage!Object, Holds
<1>3. Intact'
    BY <1>1, <1>2 DEF StorageInv, Intact, Holds, Storage!Held
<1>4. RowsSound(mail', holder') /\ BackupOK' /\ KeptOK'
    BY <1>1 DEF StorageInv, BackupOK, KeptOK, Storage!NoBundle
<1>5. QED BY <1>1, <1>2, <1>3, <1>4, AllStopped DEF StorageInv

LEMMA AgeSound == ASSUME StorageInv, NEW k \in Message, Storage!Age(k) PROVE StorageInv'
<1>1. /\ sweep.at = "idle" /\ \A p \in Fetcher : fetcher[p].at # "idle" => fetcher[p].msg # k
      /\ file' = [file EXCEPT ![k].old = TRUE]
      /\ UNCHANGED <<mail, holder, fetcher, rebuild, sweep, backupRun, kept, mailbox, raced>>
    BY DEF Storage!Age, Storage!At
<1>2. /\ file' \in [Message -> Storage!Object]
      /\ \A n \in Message : n # k => file'[n] = file[n]
      /\ file'[k].seen = file[k].seen /\ file'[k].disk = file[k].disk
    BY <1>1 DEF StorageInv, Storage!Object
<1>3. Intact'
    BY <1>1, <1>2 DEF StorageInv, Intact, Holds, Storage!Held
<1>4. FetchersOK'
    <2>1. ASSUME NEW p \in Fetcher PROVE FetchOK(fetcher[p])'
        <3>1. PICK g : g = fetcher[p]
            OBVIOUS
        <3>2. FetchOK(g) /\ (g.at # "idle" => g.msg # k /\ g.msg \in Message)
            BY <1>1, <3>1, FetchTyped DEF FetchOK
        <3>3. FetchOK(g)'
            BY <1>1, <1>2, <3>2 DEF FetchOK, Staged, Storage!Held
        <3>4. QED BY <1>1, <3>1, <3>3 DEF FetchOK
    <2>2. QED BY <1>1, <2>1 DEF StorageInv, FetchersOK, Storage!At
<1>5. CollectionOK'
    BY <1>1 DEF StorageInv, CollectionOK
<1>6. (RowsSound(mail, holder) /\ RebuildOK /\ BackupOK /\ KeptOK)'
    BY <1>1 DEF StorageInv, RebuildOK, BackupOK, KeptOK, Storage!Held
<1>7. QED BY <1>2, <1>3, <1>4, <1>5, <1>6 DEF StorageInv

LEMMA RenumberSound == ASSUME StorageInv, Storage!Renumber PROVE StorageInv'
<1>1. /\ mailbox = 1 /\ mailbox' = 2
      /\ UNCHANGED <<mail, holder, file, fetcher, rebuild, sweep, backupRun, kept, raced>>
    BY DEF Storage!Renumber
<1>2. FetchersOK'
    <2>1. ASSUME NEW p \in Fetcher PROVE FetchOK(fetcher[p])'
        <3>1. PICK g : g = fetcher[p]
            OBVIOUS
        <3>2. FetchOK(g)'
            BY <1>1, <3>1, FetchTyped DEF FetchOK, Staged, Storage!Held
        <3>3. QED BY <1>1, <3>1, <3>2 DEF FetchOK
    <2>2. QED BY <1>1, <2>1 DEF StorageInv, FetchersOK, Storage!At
<1>3. (RowsSound(mail, holder) /\ file \in [Message -> Storage!Object] /\ Intact)'
    BY <1>1 DEF StorageInv, Intact, Storage!Held
<1>4. (CollectionOK /\ RebuildOK /\ BackupOK /\ KeptOK)'
    BY <1>1 DEF StorageInv, CollectionOK, RebuildOK, BackupOK, KeptOK, Storage!Held
<1>5. QED BY <1>2, <1>3, <1>4 DEF StorageInv

LEMMA StorageRests == ASSUME StorageInv, UNCHANGED originalsVars PROVE StorageInv'
<1>1. /\ UNCHANGED <<mail, holder, file, fetcher, rebuild, backupRun, kept, mailbox, raced>>
      /\ sweep' = sweep
    BY DEF originalsVars
<1>2. CollectionOK'
    BY <1>1 DEF StorageInv, CollectionOK, Storage!Held
<1>3. QED BY <1>1, <1>2, PassMoves

LEMMA StorageStep == ASSUME StorageInv, [Storage!Next]_originalsVars PROVE StorageInv'
<1>1. CASE UNCHANGED originalsVars
    BY <1>1, StorageRests
<1>2. CASE \E p \in Fetcher : Storage!FetchBody(p)
    BY <1>2, FetchSound
<1>3. CASE Storage!Rebuild
    BY <1>3, ReadSound, RebuildSound DEF Storage!Rebuild
<1>4. CASE Storage!Collect
    BY <1>4, PassSound, RemoveSound DEF Storage!Collect
<1>5. CASE Storage!Backup
    BY <1>5, BackupSound
<1>6. CASE Storage!PowerFailure \/ Storage!Renumber \/ \E k \in Message : Storage!Age(k)
    BY <1>6, PowerSound, RenumberSound, AgeSound
<1>7. QED BY <1>1, <1>2, <1>3, <1>4, <1>5, <1>6 DEF Storage!Next

LEMMA StorageSafe == StorageInv => OriginalsAreIntact
<1> SUFFICES ASSUME StorageInv PROVE OriginalsAreIntact
    OBVIOUS
<1>1. Storage!OriginalsAreIntact
    BY DEF StorageInv, Intact, Holds, Storage!OriginalsAreIntact
<1>2. Storage!RightOriginal
    <2>1. ASSUME NEW n \in Message
          PROVE  /\ mail[holder[n]].state # "merged"
                 /\ Storage!Held(holder[n]) => mail[holder[n]].digest = First[n]
        BY DEF StorageInv, RowsSound, RowOK, Fetched, Storage!Held
    <2>2. ASSUME NEW m \in Message
          PROVE  /\ mail[m].body \in {None, mail[m].digest}
                 /\ mail[m].cached \in {None, mail[m].digest}
        BY DEF StorageInv, RowsSound, RowOK
    <2>3. ASSUME NEW m \in Message, Storage!Held(m) PROVE Storage!Twins(m, mail[m].digest) = {}
        BY <2>3 DEF StorageInv, RowsSound, Fetched, Storage!Held, Storage!Twins
    <2>4. QED BY <2>1, <2>2, <2>3 DEF Storage!RightOriginal, None
<1>3. Storage!BundleIsComplete
    BY DEF StorageInv, KeptOK, Fetched, Storage!BundleIsComplete
<1>4. QED BY <1>1, <1>2, <1>3 DEF OriginalsAreIntact

(* However fetches, readers, passes, backups, restores and power failures  *)
(* interleave, a fetched row outside the two named races has its original, *)
(* the right one and no other's, and a bundle has those of its rows        *)
(* (writeObject, commitParsed, mergeDuplicate, gc.ts, backup.sh).          *)
THEOREM OriginalsStayIntact == FetchedSpec => []OriginalsAreIntact
<1>1. FetchedInit => StorageInv
    BY StorageBegins DEF FetchedInit
<1>2. StorageInv /\ [FetchedNext]_fetchedVars => StorageInv'
    BY StorageStep, StorageAlone
<1>3. QED BY <1>1, <1>2, StorageSafe, PTL DEF FetchedSpec

-----------------------------------------------------------------------------
(* What the owner saves.  Revisions repeat after a restore, so a revision  *)
(* names a row's content only together with the generation it was read in. *)

WorkRow ==
    [status : {"absent", "open", "done", "cancelled"}, kind : Kind \cup {Saved!None},
     anchor : Message \cup {Saved!None}, rev : Nat, version : Nat]

Standing(row) == row.status \in {"open", "done"}

OneOpen(rows) ==
    \A w, x \in SavedWork :
        rows[w].status = "open" /\ rows[x].status = "open"
            /\ rows[w].kind = rows[x].kind /\ rows[w].anchor = rows[x].anchor => w = x

(* A row that was seen is still there or cancelled, and unchanged at its   *)
(* revision.                                                               *)
Since(seen, row) ==
    Standing(seen) =>
        /\ row.status # "absent"
        /\ Standing(row) =>
             /\ seen.rev <= row.rev
             /\ seen.rev = row.rev => seen.version = row.version /\ seen.status = row.status

ScreenOK(s) ==
    /\ DOMAIN s = {"gen", "readAt", "rows"}
    /\ s.readAt \in Nat /\ s.readAt <= generation
    /\ s.rows \in [SavedWork -> WorkRow]
    /\ \A w \in SavedWork : Standing(s.rows[w]) => s.rows[w].rev # 0
    /\ s.readAt = generation => \A w \in SavedWork : Since(s.rows[w], work[w])

(* A change names what its device had seen; one that was admitted is of    *)
(* the present generation, and its row is at the revision it names only    *)
(* while it is as it was checked.                                          *)
NamesOK(c) ==
    /\ c.w \in SavedWork /\ c.rev \in Nat \ {0} /\ c.readAt \in Nat /\ c.readAt <= generation
    /\ c.readAt = generation =>
         /\ work[c.w].status # "absent"
         /\ Standing(work[c.w]) =>
              c.rev <= work[c.w].rev /\ (c.rev = work[c.w].rev => c.saw = work[c.w].version)

AdmittedOK(c) ==
    /\ work[c.w].status # "absent"
    /\ Standing(work[c.w]) =>
         c.rev <= work[c.w].rev /\ (c.rev = work[c.w].rev => Saved!Suits(c.what, work[c.w]))

ChangeOK(c) ==
    /\ "at" \in DOMAIN c /\ c.at \in {"idle", "asked", "admitted"}
    /\ c.at # "idle" /\ c.what \in Saved!WorkChanges => NamesOK(c)
    /\ c.at # "idle" /\ c.what = "save" => c.m \in Message /\ c.kind \in Kind
    /\ c.at = "admitted" => c.gen = generation
    /\ c.at = "admitted" /\ c.what \in Saved!WorkChanges => AdmittedOK(c)

RowsOK(rows) ==
    /\ rows \in [SavedWork -> WorkRow] /\ OneOpen(rows)
    /\ \A w \in SavedWork : /\ Standing(rows[w]) <=> rows[w].rev # 0
                            /\ rows[w].status = "absent" => rows[w] = Saved!Absent

SavedInv ==
    /\ generation \in Nat /\ version \in Nat /\ ~blind
    /\ RowsOK(work) /\ RowsOK(bundle)
    /\ DOMAIN screen = Device /\ \A d \in Device : ScreenOK(screen[d])
    /\ DOMAIN change = Device /\ \A d \in Device : ChangeOK(change[d])

LEMMA SavedBegins == Saved!Init => SavedInv
<1> SUFFICES ASSUME Saved!Init PROVE SavedInv
    OBVIOUS
<1> DEFINE s == [gen |-> 1, readAt |-> 1, rows |-> work]
<1>1. /\ generation = 1 /\ version = 0 /\ ~blind /\ bundle = work
      /\ work = [w \in SavedWork |-> Saved!Absent]
      /\ screen = [d \in Device |-> s] /\ change = [d \in Device |-> Saved!Idle]
    BY DEF Saved!Init
<1>2. Saved!Absent \in WorkRow /\ Saved!Absent.rev = 0 /\ Saved!Absent.status = "absent"
    BY DEF Saved!Absent, WorkRow
<1>3. work \in [SavedWork -> WorkRow] /\ \A w \in SavedWork : work[w] = Saved!Absent
    BY <1>1, <1>2
<1>4. RowsOK(work) /\ RowsOK(bundle)
    BY <1>1, <1>2, <1>3 DEF RowsOK, OneOpen, Standing
<1>5. ScreenOK(s)
    BY <1>1, <1>2, <1>3 DEF ScreenOK, Since, Standing
<1> HIDE DEF s
<1>6. DOMAIN screen = Device /\ \A d \in Device : ScreenOK(screen[d])
    BY <1>1, <1>5
<1>7. ChangeOK(Saved!Idle)
    BY DEF ChangeOK, Saved!Idle
<1>8. DOMAIN change = Device /\ \A d \in Device : ChangeOK(change[d])
    BY <1>1, <1>7
<1>9. QED BY <1>1, <1>4, <1>6, <1>8 DEF SavedInv

(* What one write, or a merge, does to a row.                              *)
Evolves(old, new) ==
    old.status # "absent" =>
        /\ new.status # "absent"
        /\ Standing(new) =>
             /\ Standing(old)
             /\ \/ old.rev < new.rev
                \/ /\ old.rev = new.rev /\ new.version = old.version
                   /\ new.status = old.status /\ new.kind = old.kind

WorkEvolves ==
    /\ generation' = generation /\ RowsOK(work')
    /\ \A w \in SavedWork : Evolves(work[w], work'[w])

LEMMA ScreenKept ==
    ASSUME RowsOK(work), WorkEvolves, NEW s, ScreenOK(s)
    PROVE  ScreenOK(s)'
<1>1. ASSUME s.readAt = generation, NEW w \in SavedWork PROVE Since(s.rows[w], work'[w])
    <2>1. Since(s.rows[w], work[w]) /\ Evolves(work[w], work'[w])
        BY <1>1 DEF ScreenOK, WorkEvolves
    <2>2. s.rows[w].rev \in Nat /\ work[w].rev \in Nat /\ work'[w].rev \in Nat
        BY DEF ScreenOK, RowsOK, WorkEvolves, WorkRow
    <2>3. QED BY <2>1, <2>2 DEF Since, Evolves
<1>2. QED BY <1>1 DEF ScreenOK, WorkEvolves

LEMMA ChangeKept ==
    ASSUME RowsOK(work), WorkEvolves, NEW c, ChangeOK(c)
    PROVE  ChangeOK(c)'
<1>1. SUFFICES ASSUME c.at # "idle", c.what \in Saved!WorkChanges
               PROVE  NamesOK(c)' /\ (c.at = "admitted" => AdmittedOK(c)')
    BY DEF ChangeOK, WorkEvolves
<1>2. NamesOK(c) /\ Evolves(work[c.w], work'[c.w]) /\ c.w \in SavedWork /\ c.rev \in Nat
    BY <1>1 DEF ChangeOK, NamesOK, WorkEvolves
<1>3. work[c.w].rev \in Nat /\ work'[c.w].rev \in Nat
    BY <1>2 DEF RowsOK, WorkEvolves, WorkRow
<1>4. NamesOK(c)'
    BY <1>2, <1>3 DEF NamesOK, Evolves, WorkEvolves
<1>5. c.at = "admitted" => AdmittedOK(c)'
    BY <1>1, <1>2, <1>3 DEF ChangeOK, AdmittedOK, Evolves, Standing, Saved!Suits
<1>6. QED BY <1>4, <1>5

(* A step of one device, or of none.                                       *)
LEMMA DeviceMoves ==
    ASSUME SavedInv, WorkEvolves, NEW d \in Device, NEW s, NEW c, ScreenOK(s)', ChangeOK(c)',
           DOMAIN screen' = Device, DOMAIN change' = Device,
           \A e \in Device : screen'[e] = IF e = d THEN s ELSE screen[e],
           \A e \in Device : change'[e] = IF e = d THEN c ELSE change[e],
           bundle' \in {bundle, work}, version' \in Nat, ~blind'
    PROVE  SavedInv'
<1>1. ASSUME NEW e \in Device PROVE ScreenOK(screen[e])'
    <2>1. PICK t : t = screen'[e]
        OBVIOUS
    <2>2. CASE e = d
        BY <2>1, <2>2 DEF ScreenOK
    <2>3. CASE e # d
        <3>1. t = screen[e] /\ ScreenOK(t)
            BY <2>1, <2>3 DEF SavedInv
        <3>2. ScreenOK(t)'
            BY <3>1, ScreenKept DEF SavedInv
        <3>3. QED BY <2>1, <3>2 DEF ScreenOK
    <2>4. QED BY <2>2, <2>3
<1>2. ASSUME NEW e \in Device PROVE ChangeOK(change[e])'
    <2>1. PICK t : t = change'[e]
        OBVIOUS
    <2>2. CASE e = d
        BY <2>1, <2>2 DEF ChangeOK, NamesOK, AdmittedOK
    <2>3. CASE e # d
        <3>1. t = change[e] /\ ChangeOK(t)
            BY <2>1, <2>3 DEF SavedInv
        <3>2. ChangeOK(t)'
            BY <3>1, ChangeKept DEF SavedInv
        <3>3. QED BY <2>1, <3>2 DEF ChangeOK, NamesOK, AdmittedOK
    <2>4. QED BY <2>2, <2>3
<1>3. QED BY <1>1, <1>2 DEF SavedInv, WorkEvolves, RowsOK, OneOpen

LEMMA RowsStay == ASSUME SavedInv, work' = work, generation' = generation PROVE WorkEvolves
BY DEF SavedInv, WorkEvolves, Evolves, RowsOK, OneOpen

(* A step of one device that writes no row of saved work.                  *)
LEMMA NothingSaved ==
    ASSUME SavedInv, NEW d \in Device, NEW s, NEW c, ScreenOK(s), ChangeOK(c),
           screen' = [screen EXCEPT ![d] = s] \/ (s = screen[d] /\ screen' = screen),
           change' = [change EXCEPT ![d] = c] \/ (c = change[d] /\ change' = change),
           UNCHANGED <<generation, work, bundle, version, blind>>
    PROVE  SavedInv'
<1>1. WorkEvolves
    BY RowsStay
<1>2. ScreenOK(s)' /\ ChangeOK(c)'
    BY <1>1, ScreenKept, ChangeKept DEF SavedInv
<1>3. /\ DOMAIN screen' = Device /\ \A e \in Device : screen'[e] = IF e = d THEN s ELSE screen[e]
      /\ DOMAIN change' = Device /\ \A e \in Device : change'[e] = IF e = d THEN c ELSE change[e]
    BY DEF SavedInv
<1>4. bundle' \in {bundle, work} /\ version' \in Nat /\ ~blind'
    BY DEF SavedInv
<1>5. QED BY <1>1, <1>2, <1>3, <1>4, DeviceMoves

LEMMA DeviceOK == ASSUME SavedInv, NEW d \in Device PROVE ScreenOK(screen[d]) /\ ChangeOK(change[d])
BY DEF SavedInv

LEMMA ReadsSound ==
    ASSUME SavedInv, NEW d \in Device, Saved!Read(d) \/ Saved!RefreshSession(d)
    PROVE  SavedInv'
<1>1. /\ screen' = [screen EXCEPT ![d] = screen'[d]]
      /\ screen'[d] \in {[screen[d] EXCEPT !.rows = work, !.readAt = generation],
                         [screen[d] EXCEPT !.gen = generation]}
      /\ UNCHANGED <<generation, work, bundle, change, version, blind>>
    BY DEF Saved!Read, Saved!RefreshSession, SavedInv
<1>2. PICK s : s = screen'[d]
    OBVIOUS
<1>3. ScreenOK(s)
    <2>1. CASE s = [screen[d] EXCEPT !.rows = work, !.readAt = generation]
        <3>1. /\ DOMAIN s = {"gen", "readAt", "rows"}
              /\ s.rows = work /\ s.readAt = generation
            BY <2>1, DeviceOK DEF ScreenOK
        <3>2. RowsOK(work) /\ generation \in Nat
            BY DEF SavedInv
        <3>3. \A w \in SavedWork : Since(work[w], work[w])
            BY <3>2 DEF RowsOK, Since, Standing, WorkRow
        <3>4. QED BY <3>1, <3>2, <3>3 DEF ScreenOK, RowsOK
    <2>2. CASE s = [screen[d] EXCEPT !.gen = generation]
        BY <2>2, DeviceOK DEF ScreenOK
    <2>3. QED BY <1>1, <1>2, <2>1, <2>2
<1>4. QED BY <1>1, <1>2, <1>3, DeviceOK, NothingSaved

LEMMA AsksSound ==
    ASSUME SavedInv, NEW d \in Device,
           \/ \E what \in Saved!WorkChanges, w \in SavedWork : Saved!AskWork(d, what, w)
           \/ \E m \in Message, kind \in Kind : Saved!AskSave(d, m, kind)
           \/ \E what \in Choices, x \in Target \cup Message : Saved!AskChoice(d, what, x)
    PROVE  SavedInv'
<1>1. PICK request : Saved!Asks(d, request) /\ ChangeOK(request)
    <2>1. CASE \E what \in Saved!WorkChanges, w \in SavedWork : Saved!AskWork(d, what, w)
        <3>1. PICK what \in Saved!WorkChanges, w \in SavedWork : Saved!AskWork(d, what, w)
            BY <2>1
        <3>2. PICK r : r = [at |-> "asked", gen |-> screen[d].gen, what |-> what, w |-> w,
                            rev |-> screen[d].rows[w].rev, saw |-> screen[d].rows[w].version,
                            readAt |-> screen[d].readAt]
            OBVIOUS
        <3>3. Saved!Asks(d, r) /\ Saved!Suits(what, screen[d].rows[w])
            BY <3>1, <3>2 DEF Saved!AskWork
        <3>4. Standing(screen[d].rows[w]) /\ screen[d].rows[w] \in WorkRow
            BY <3>3, DeviceOK DEF ScreenOK, Saved!Suits, Standing
        <3>5. NamesOK(r)
            BY <3>2, <3>4, DeviceOK DEF NamesOK, ScreenOK, Since, WorkRow
        <3>6. QED BY <3>2, <3>3, <3>5 DEF ChangeOK, Saved!WorkChanges
    <2>2. CASE \E m \in Message, kind \in Kind : Saved!AskSave(d, m, kind)
        BY <2>2 DEF Saved!AskSave, ChangeOK, Saved!WorkChanges
    <2>3. CASE \E what \in Choices, x \in Target \cup Message : Saved!AskChoice(d, what, x)
        BY <2>3 DEF Saved!AskChoice, ChangeOK, Saved!WorkChanges
    <2>4. QED BY <2>1, <2>2, <2>3
<1>2. /\ change' = [change EXCEPT ![d] = request]
      /\ UNCHANGED <<generation, work, bundle, screen, version, blind>>
    BY <1>1 DEF Saved!Asks
<1>3. QED BY <1>1, <1>2, DeviceOK, NothingSaved

(* A request that ends.                                                    *)
LEMMA EndsSound ==
    ASSUME SavedInv, NEW d \in Device, Saved!Ends(d),
           UNCHANGED <<generation, work, bundle, screen, version, blind>>
    PROVE  SavedInv'
<1>1. PICK c : c = Saved!Idle
    OBVIOUS
<1>2. change' = [change EXCEPT ![d] = c] /\ ChangeOK(c)
    BY <1>1 DEF Saved!Ends, Saved!Idle, ChangeOK
<1>3. QED BY <1>2, DeviceOK, NothingSaved

LEMMA AdmitSound ==
    ASSUME SavedInv, NEW d \in Device, Saved!Admit(d)
    PROVE  SavedInv'
<1>1. PICK c : c = [change[d] EXCEPT !.at = "admitted"]
    OBVIOUS
<1>2. /\ change' = [change EXCEPT ![d].at = "admitted"] /\ change[d].at = "asked"
      /\ change[d].gen = generation
      /\ change[d].what \in Saved!WorkChanges =>
           /\ Saved!Suits(change[d].what, work[change[d].w])
           /\ work[change[d].w].rev = change[d].rev
      /\ UNCHANGED <<generation, work, bundle, screen, version, blind>>
    BY DEF Saved!Admit, Saved!GateMutation, Saved!RequireCurrentRevision
<1>3. change' = [change EXCEPT ![d] = c]
    BY <1>1, <1>2
<1>4. /\ "at" \in DOMAIN change[d] /\ c.at = "admitted" /\ DOMAIN c = DOMAIN change[d]
      /\ \A part \in DOMAIN c : part # "at" => c[part] = change[d][part]
    BY <1>1, DeviceOK DEF ChangeOK
<1>5. ChangeOK(c)
    BY <1>1, <1>2, <1>4, DeviceOK
       DEF ChangeOK, NamesOK, AdmittedOK, Saved!Suits, Standing, SavedInv, RowsOK, WorkRow
<1>6. QED BY <1>2, <1>3, <1>5, DeviceOK, NothingSaved

(* A statement writes one row, and its answer shows the device the row.    *)
LEMMA WriteSound ==
    ASSUME SavedInv, NEW d \in Device, NEW w \in SavedWork, NEW row \in WorkRow,
           Saved!Writes(d, w, row), row.status # "absent", Standing(row) <=> row.rev # 0,
           row.status = "open" =>
               \A x \in SavedWork : work[x].status = "open" /\ work[x].kind = row.kind
                                       /\ work[x].anchor = row.anchor => x = w,
           work[w].status # "absent" /\ Standing(row) =>
               Standing(work[w]) /\ work[w].rev < row.rev,
           UNCHANGED <<generation, bundle>>, ~blind'
    PROVE  SavedInv'
<1>1. PICK r : r = [row EXCEPT !.version = version + 1]
    OBVIOUS
<1>2. /\ work' = [work EXCEPT ![w] = r] /\ version' = version + 1
      /\ screen' = [screen EXCEPT ![d].rows[w] = work'[w]]
      /\ change' = [change EXCEPT ![d] = Saved!Idle]
    BY <1>1 DEF Saved!Writes, Saved!Ends
<1>3. /\ r \in WorkRow /\ r.status = row.status /\ r.kind = row.kind /\ r.anchor = row.anchor
      /\ r.rev = row.rev /\ version' \in Nat
    BY <1>1, <1>2 DEF WorkRow, SavedInv
<1>4. /\ work \in [SavedWork -> WorkRow] /\ work' \in [SavedWork -> WorkRow] /\ work'[w] = r
      /\ \A x \in SavedWork : x # w => work'[x] = work[x]
    BY <1>2, <1>3 DEF SavedInv, RowsOK
<1>5. WorkEvolves
    <2>1. OneOpen(work')
        BY <1>3, <1>4 DEF OneOpen, SavedInv, RowsOK
    <2>2. \A x \in SavedWork : /\ Standing(work'[x]) <=> work'[x].rev # 0
                               /\ work'[x].status = "absent" => work'[x] = Saved!Absent
        BY <1>3, <1>4 DEF SavedInv, RowsOK, Standing
    <2>3. \A x \in SavedWork : Evolves(work[x], work'[x])
        BY <1>3, <1>4 DEF Evolves, Standing
    <2>4. QED BY <1>4, <2>1, <2>2, <2>3 DEF WorkEvolves, RowsOK
<1>6. PICK s : s = [screen[d] EXCEPT !.rows[w] = r]
    OBVIOUS
<1>7. ScreenOK(s)'
    <2>1. PICK seen : seen = screen[d]
        OBVIOUS
    <2>2. ScreenOK(seen) /\ ScreenOK(seen)'
        BY <1>5, <2>1, DeviceOK, ScreenKept DEF SavedInv
    <2>3. /\ DOMAIN s = {"gen", "readAt", "rows"} /\ s.readAt = seen.readAt
          /\ s.rows = [seen.rows EXCEPT ![w] = r]
        BY <1>6, <2>1, <2>2 DEF ScreenOK
    <2>4. /\ s.rows \in [SavedWork -> WorkRow] /\ s.rows[w] = r
          /\ \A x \in SavedWork : x # w => s.rows[x] = seen.rows[x]
        BY <1>3, <2>2, <2>3 DEF ScreenOK
    <2>5. Since(r, r) /\ (Standing(r) => r.rev # 0)
        BY <1>3 DEF Since, Standing, WorkRow
    <2>6. QED BY <1>4, <2>2, <2>3, <2>4, <2>5 DEF ScreenOK
<1>8. PICK c : c = Saved!Idle
    OBVIOUS
<1>9. ChangeOK(c)'
    BY <1>8 DEF ChangeOK, Saved!Idle
<1>10. /\ DOMAIN screen' = Device /\ \A e \in Device : screen'[e] = IF e = d THEN s ELSE screen[e]
       /\ DOMAIN change' = Device /\ \A e \in Device : change'[e] = IF e = d THEN c ELSE change[e]
    <2>1. screen' = [screen EXCEPT ![d] = s]
        BY <1>2, <1>4, <1>6
    <2>2. change' = [change EXCEPT ![d] = c]
        BY <1>2, <1>8
    <2>3. QED BY <2>1, <2>2 DEF SavedInv
<1>11. bundle' \in {bundle, work} /\ ~blind'
    OBVIOUS
<1>12. QED BY <1>3, <1>5, <1>7, <1>9, <1>10, <1>11, DeviceMoves

LEMMA CreateSound ==
    ASSUME SavedInv, NEW d \in Device, Saved!CreateWork(d)
    PROVE  SavedInv'
<1> DEFINE c == change[d]
<1>1. c.at = "admitted" /\ c.what = "save" /\ UNCHANGED <<generation, bundle, blind>>
    BY DEF Saved!CreateWork
<1>2. c.m \in Message /\ c.kind \in Kind
    BY <1>1, DeviceOK DEF ChangeOK
<1>3. CASE Saved!Ends(d) /\ UNCHANGED <<work, screen, version>>
    BY <1>1, <1>3, EndsSound
<1>4. CASE /\ Saved!HoldsOpen(c.kind, c.m) = {}
           /\ \E w \in SavedWork :
                /\ work[w] = Saved!Absent
                /\ Saved!Writes(d, w, [status |-> "open", kind |-> c.kind, anchor |-> c.m,
                                       rev |-> 1, version |-> 0])
    <2>1. PICK w \in SavedWork :
                /\ work[w] = Saved!Absent
                /\ Saved!Writes(d, w, [status |-> "open", kind |-> c.kind, anchor |-> c.m,
                                       rev |-> 1, version |-> 0])
        BY <1>4
    <2>2. PICK row : row = [status |-> "open", kind |-> c.kind, anchor |-> c.m,
                            rev |-> 1, version |-> 0]
        OBVIOUS
    <2>3. row \in WorkRow /\ row.status = "open" /\ row.rev = 1 /\ Standing(row)
        BY <1>2, <2>2 DEF WorkRow, Standing
    <2>4. \A x \in SavedWork : ~(work[x].status = "open" /\ work[x].kind = row.kind
                                    /\ work[x].anchor = row.anchor)
        BY <1>4, <2>2 DEF Saved!HoldsOpen
    <2>5. work[w].status = "absent" /\ Saved!Writes(d, w, row)
        BY <2>1, <2>2 DEF Saved!Absent
    <2>6. ~blind'
        BY <1>1 DEF SavedInv
    <2>7. QED BY <1>1, <2>3, <2>4, <2>5, <2>6, WriteSound
<1>5. QED BY <1>3, <1>4 DEF Saved!CreateWork

(* The update names the revision, and the gate has kept the generation, so *)
(* what is written is what its author saw, in the status that was checked. *)
LEMMA WhatWasChecked ==
    ASSUME SavedInv, NEW d \in Device, Saved!ChangeWork(d)
    PROVE  /\ change[d].w \in SavedWork /\ Standing(work[change[d].w])
           /\ Saved!Suits(change[d].what, work[change[d].w])
           /\ change[d].readAt = change[d].gen => change[d].saw = work[change[d].w].version
<1> DEFINE c == change[d]
<1>1. /\ c.at = "admitted" /\ c.what \in Saved!WorkChanges
      /\ work[c.w].status # "absent" /\ work[c.w].rev = c.rev
    BY DEF Saved!ChangeWork, Saved!StillAt
<1>2. NamesOK(c) /\ AdmittedOK(c) /\ c.gen = generation
    BY <1>1, DeviceOK DEF ChangeOK
<1>3. c.w \in SavedWork /\ c.rev # 0 /\ Standing(work[c.w])
    BY <1>1, <1>2 DEF NamesOK, SavedInv, RowsOK
<1>4. QED BY <1>1, <1>2, <1>3 DEF NamesOK, AdmittedOK

LEMMA ChangeSound ==
    ASSUME SavedInv, NEW d \in Device, Saved!ChangeWork(d)
    PROVE  SavedInv'
<1> DEFINE c == change[d]
           row == work[c.w]
           next == [row EXCEPT !.rev = @ + 1]
<1>1. c.w \in SavedWork /\ Standing(row) /\ Saved!Suits(c.what, row)
    BY WhatWasChecked
<1>2. row \in WorkRow /\ row.status # "absent"
    BY <1>1 DEF SavedInv, RowsOK, Standing
<1>3. ~blind' /\ UNCHANGED <<generation, bundle>>
    BY WhatWasChecked DEF Saved!ChangeWork, SavedInv
<1>4. /\ next \in WorkRow /\ next.rev = row.rev + 1 /\ next.rev # 0 /\ row.rev < next.rev
      /\ next.status = row.status /\ next.kind = row.kind /\ next.anchor = row.anchor
    BY <1>2 DEF WorkRow
<1>5. CASE c.what = "reschedule" /\ Saved!Writes(d, c.w, next)
    <2>1. \A x \in SavedWork : next.status = "open" /\ work[x].status = "open"
                                  /\ work[x].kind = next.kind /\ work[x].anchor = next.anchor
                               => x = c.w
        BY <1>1, <1>4 DEF SavedInv, RowsOK, OneOpen
    <2>2. QED BY <1>1, <1>2, <1>3, <1>4, <1>5, <2>1, WriteSound DEF Standing
<1>6. CASE c.what = "complete" /\ Saved!Writes(d, c.w, [next EXCEPT !.status = "done"])
    <2>1. PICK new : new = [next EXCEPT !.status = "done"]
        OBVIOUS
    <2>2. /\ new \in WorkRow /\ new.status = "done" /\ new.rev = next.rev
          /\ Saved!Writes(d, c.w, new)
        BY <1>4, <1>6, <2>1 DEF WorkRow
    <2>3. QED BY <1>1, <1>2, <1>3, <1>4, <2>2, WriteSound DEF Standing
<1>7. CASE /\ c.what = "reopen" /\ Saved!FreeSlot(c.w)
           /\ Saved!Writes(d, c.w, [next EXCEPT !.status = "open"])
    <2>1. PICK new : new = [next EXCEPT !.status = "open"]
        OBVIOUS
    <2>2. /\ new \in WorkRow /\ new.status = "open" /\ new.rev = next.rev
          /\ new.kind = row.kind /\ new.anchor = row.anchor /\ Saved!Writes(d, c.w, new)
        BY <1>4, <1>7, <2>1 DEF WorkRow
    <2>3. \A x \in SavedWork : ~(work[x].status = "open" /\ work[x].kind = row.kind
                                    /\ work[x].anchor = row.anchor)
        BY <1>7 DEF Saved!FreeSlot, Saved!HoldsOpen
    <2>4. QED BY <1>1, <1>2, <1>3, <1>4, <2>2, <2>3, WriteSound DEF Standing
<1>8. CASE c.what = "cancel" /\ Saved!Writes(d, c.w, [Saved!Absent EXCEPT !.status = "cancelled"])
    <2>1. PICK new : new = [Saved!Absent EXCEPT !.status = "cancelled"]
        OBVIOUS
    <2>2. /\ new \in WorkRow /\ new.status = "cancelled" /\ new.rev = 0
          /\ Saved!Writes(d, c.w, new)
        BY <1>8, <2>1 DEF WorkRow, Saved!Absent
    <2>3. QED BY <1>1, <1>2, <1>3, <2>2, WriteSound DEF Standing
<1>9. QED BY <1>5, <1>6, <1>7, <1>8 DEF Saved!ChangeWork

(* The steps no device takes part in.                                      *)
LEMMA OthersMove ==
    ASSUME SavedInv, WorkEvolves, UNCHANGED <<screen, change, version, blind>>,
           bundle' \in {bundle, work}
    PROVE  SavedInv'
<1>1. ASSUME NEW e \in Device PROVE ScreenOK(screen[e])' /\ ChangeOK(change[e])'
    <2>1. PICK s, c : s = screen[e] /\ c = change[e]
        OBVIOUS
    <2>2. ScreenOK(s) /\ ChangeOK(c)
        BY <2>1, DeviceOK
    <2>3. ScreenOK(s)' /\ ChangeOK(c)'
        BY <2>2, ScreenKept, ChangeKept DEF SavedInv
    <2>4. s = screen'[e] /\ c = change'[e]
        BY <2>1
    <2>5. QED BY <2>3, <2>4 DEF ScreenOK, ChangeOK, NamesOK, AdmittedOK
<1>2. QED BY <1>1 DEF SavedInv, WorkEvolves, RowsOK, OneOpen

(* A merged message hands its work over, except where the survivor already *)
(* has an open record of the kind.                                         *)
LEMMA MergeSound ==
    ASSUME SavedInv, NEW removed \in Message, NEW survivor \in Message,
           Saved!MergeDuplicate(removed, survivor)
    PROVE  SavedInv' /\ \A w \in SavedWork : work'[w].status = work[w].status
<1> DEFINE Handed(w) == work[w].anchor = removed /\ Saved!Moves(w, survivor)
<1>1. /\ work' = [w \in SavedWork |-> IF Handed(w) THEN [work[w] EXCEPT !.anchor = survivor]
                                      ELSE work[w]]
      /\ UNCHANGED <<generation, bundle, screen, change, version, blind>>
    BY DEF Saved!MergeDuplicate
<1>2. \A w \in SavedWork : work[w] \in WorkRow
    BY DEF SavedInv, RowsOK
<1>3. ASSUME NEW w \in SavedWork
      PROVE  /\ work'[w] \in WorkRow /\ work'[w].status = work[w].status
             /\ work'[w].kind = work[w].kind /\ work'[w].rev = work[w].rev
             /\ work'[w].version = work[w].version
             /\ work'[w].anchor = IF Handed(w) THEN survivor ELSE work[w].anchor
    BY <1>1, <1>2 DEF WorkRow
<1>4. OneOpen(work')
    <2>1. SUFFICES ASSUME NEW w \in SavedWork, NEW x \in SavedWork,
                          work[w].status = "open", work[x].status = "open",
                          work[w].kind = work[x].kind, work'[w].anchor = work'[x].anchor
                   PROVE  w = x
        BY <1>3 DEF OneOpen
    <2>2. CASE Handed(w) <=> Handed(x)
        BY <1>3, <2>1, <2>2 DEF SavedInv, RowsOK, OneOpen
    <2>3. CASE Handed(w) /\ ~Handed(x)
        BY <1>3, <2>1, <2>3 DEF Saved!Moves, Saved!HoldsOpen
    <2>4. CASE Handed(x) /\ ~Handed(w)
        BY <1>3, <2>1, <2>4 DEF Saved!Moves, Saved!HoldsOpen
    <2>5. QED BY <2>2, <2>3, <2>4
<1>5. ASSUME NEW w \in SavedWork, work'[w].status = "absent" PROVE work'[w] = Saved!Absent
    <2>1. work[w] = Saved!Absent
        BY <1>3, <1>5 DEF SavedInv, RowsOK
    <2>2. work[w].anchor # removed
        BY <2>1, FetchedAssumption DEF Saved!Absent, Saved!None, Storage!None
    <2>3. QED BY <1>1, <2>1, <2>2
<1>6. RowsOK(work')
    <2>1. work' \in [SavedWork -> WorkRow]
        BY <1>1, <1>3
    <2>2. QED BY <1>3, <1>4, <1>5, <2>1 DEF RowsOK, SavedInv, Standing
<1>7. WorkEvolves
    BY <1>1, <1>3, <1>6 DEF WorkEvolves, Evolves, Standing
<1>8. QED BY <1>1, <1>3, <1>7, OthersMove

(* A restore brings older rows under a generation nobody has read in.      *)
LEMMA RowsReturn == SavedInv /\ Saved!Restore => SavedInv'
<1> SUFFICES ASSUME SavedInv, Saved!Restore PROVE SavedInv'
    OBVIOUS
<1>1. /\ generation' = generation + 1 /\ work' = bundle
      /\ change' = [d \in Device |-> IF change[d].at = "admitted" THEN Saved!Idle ELSE change[d]]
      /\ UNCHANGED <<bundle, screen, version, blind>>
    BY DEF Saved!Restore
<1>2. generation \in Nat /\ generation' \in Nat
    BY <1>1 DEF SavedInv
<1>3. ASSUME NEW d \in Device PROVE ScreenOK(screen[d])'
    <2>1. PICK s : s = screen[d]
        OBVIOUS
    <2>2. ScreenOK(s)
        BY <2>1, DeviceOK
    <2>3. ScreenOK(s)'
        BY <1>1, <1>2, <2>2 DEF ScreenOK
    <2>4. QED BY <1>1, <2>1, <2>3 DEF ScreenOK
<1>4. ASSUME NEW d \in Device PROVE ChangeOK(change[d])'
    <2>1. PICK c : c = change'[d]
        OBVIOUS
    <2>2. CASE c = Saved!Idle
        <3>1. ChangeOK(c)'
            BY <2>2 DEF ChangeOK, Saved!Idle
        <3>2. QED BY <2>1, <3>1 DEF ChangeOK, NamesOK, AdmittedOK
    <2>3. CASE c = change[d] /\ c.at # "admitted"
        <3>1. ChangeOK(c)
            BY <2>3, DeviceOK
        <3>2. ChangeOK(c)'
            BY <1>1, <1>2, <2>3, <3>1 DEF ChangeOK, NamesOK
        <3>3. QED BY <2>1, <3>2 DEF ChangeOK, NamesOK, AdmittedOK
    <2>4. QED BY <1>1, <2>1, <2>2, <2>3
<1>5. RowsOK(work') /\ RowsOK(bundle')
    BY <1>1 DEF SavedInv
<1>6. DOMAIN screen' = Device /\ DOMAIN change' = Device /\ version' \in Nat /\ ~blind'
    BY <1>1 DEF SavedInv
<1>7. QED BY <1>2, <1>3, <1>4, <1>5, <1>6 DEF SavedInv

LEMMA RouteSound ==
    ASSUME SavedInv, NEW d \in Device, Saved!Route(d)
    PROVE  SavedInv'
<1>1. CASE Saved!GiveUp(d)
    BY <1>1, EndsSound DEF Saved!GiveUp
<1>2. CASE Saved!ChangeChoice(d)
    BY <1>2, EndsSound DEF Saved!ChangeChoice
<1>3. QED BY <1>1, <1>2, AdmitSound, CreateSound, ChangeSound DEF Saved!Route

LEMMA SavedStep == SavedInv /\ [Saved!Next]_homeWorkVars => SavedInv'
<1> SUFFICES ASSUME SavedInv, [Saved!Next]_homeWorkVars PROVE SavedInv'
    OBVIOUS
<1>1. ASSUME NEW d \in Device, Saved!Owner(d) PROVE SavedInv'
    BY <1>1, ReadsSound, AsksSound DEF Saved!Owner
<1>2. CASE Saved!Backup
    <2>1. work' = work /\ generation' = generation /\ bundle' = work
          /\ UNCHANGED <<screen, change, version, blind>>
        BY <1>2 DEF Saved!Backup
    <2>2. QED BY <2>1, RowsStay, OthersMove
<1>3. CASE UNCHANGED homeWorkVars
    <2>1. UNCHANGED <<generation, work, bundle, screen, change, version, blind>>
        BY <1>3 DEF homeWorkVars
    <2>2. QED BY <2>1, RowsStay, OthersMove
<1>4. QED BY <1>1, <1>2, <1>3, RouteSound, MergeSound, RowsReturn DEF Saved!Next

LEMMA SavedSafe == SavedInv => Saved!ChangesWhatWasSeen /\ Saved!OneOpenRecord
BY DEF SavedInv, RowsOK, OneOpen, Saved!ChangesWhatWasSeen, Saved!OneOpenRecord

(* Every route but a restore: a completed row is only ever opened again.   *)
LEMMA CompletedKept ==
    SavedInv /\ [Saved!Next]_homeWorkVars => [Saved!KeepsCompleted]_homeWorkVars
<1> SUFFICES ASSUME SavedInv, [Saved!Next]_homeWorkVars, NEW w \in SavedWork,
                    work[w].status = "done", generation' = generation
             PROVE  \/ work'[w].status = "done"
                    \/ work'[w].status = "open" /\ work'[w].rev = work[w].rev + 1
    BY DEF Saved!KeepsCompleted
<1>1. CASE work' = work
    BY <1>1
<1>2. ASSUME NEW d \in Device, Saved!CreateWork(d), work' # work PROVE work'[w] = work[w]
    <2>1. PICK x \in SavedWork : /\ work[x] = Saved!Absent
                                 /\ \E row : work' = [work EXCEPT ![x] = row]
        BY <1>2 DEF Saved!CreateWork, Saved!Writes
    <2>2. x # w
        BY <2>1 DEF Saved!Absent
    <2>3. QED BY <2>1, <2>2
<1>3. ASSUME NEW d \in Device, Saved!ChangeWork(d)
      PROVE  \/ work'[w] = work[w]
             \/ work'[w].status = "open" /\ work'[w].rev = work[w].rev + 1
    <2> DEFINE c == change[d]
    <2>1. c.w \in SavedWork /\ Saved!Suits(c.what, work[c.w])
        BY <1>3, WhatWasChecked
    <2>2. CASE c.w = w
        <3>1. c.what = "reopen"
            BY <2>1, <2>2 DEF Saved!Suits
        <3>2. PICK row : row = [work[w] EXCEPT !.rev = @ + 1]
            OBVIOUS
        <3>3. work' = [work EXCEPT ![w] =
                           [[row EXCEPT !.status = "open"] EXCEPT !.version = version + 1]]
            BY <1>3, <2>2, <3>1, <3>2 DEF Saved!ChangeWork, Saved!Writes
        <3>4. work \in [SavedWork -> WorkRow]
            BY DEF SavedInv, RowsOK
        <3>5. work[w] \in WorkRow
            BY <3>4
        <3>6. row \in WorkRow /\ row.rev = work[w].rev + 1
            BY <3>2, <3>5 DEF WorkRow
        <3>7. PICK new : new = [[row EXCEPT !.status = "open"] EXCEPT !.version = version + 1]
            OBVIOUS
        <3>8. new.status = "open" /\ new.rev = row.rev
            BY <3>6, <3>7 DEF WorkRow
        <3>9. work'[w] = new
            BY <3>3, <3>4, <3>7
        <3>10. QED BY <3>6, <3>8, <3>9
    <2>3. CASE c.w # w
        <3>1. \E row : work' = [work EXCEPT ![c.w] = row]
            BY <1>3 DEF Saved!ChangeWork, Saved!Writes
        <3>2. QED BY <2>3, <3>1
    <2>4. QED BY <2>2, <2>3
<1>4. ASSUME NEW d \in Device, Saved!Owner(d) PROVE work' = work
    BY <1>4 DEF Saved!Owner, Saved!Read, Saved!RefreshSession, Saved!AskWork, Saved!AskSave,
                Saved!AskChoice, Saved!Asks
<1>5. ASSUME NEW d \in Device, Saved!Admit(d) \/ Saved!GiveUp(d) \/ Saved!ChangeChoice(d)
      PROVE  work' = work
    BY <1>5 DEF Saved!Admit, Saved!GiveUp, Saved!ChangeChoice
<1>6. CASE Saved!Backup \/ UNCHANGED homeWorkVars
    BY <1>6 DEF Saved!Backup, homeWorkVars
<1>7. ~Saved!Restore
    BY DEF Saved!Restore, SavedInv
<1>8. QED BY <1>1, <1>2, <1>3, <1>4, <1>5, <1>6, <1>7, MergeSound DEF Saved!Next, Saved!Route

(* A change reaches saved work only as its author saw it, no message has   *)
(* two open records of a kind, and completed work is never deleted by a    *)
(* cancellation checked while it was open (requireCurrentRevision,         *)
(* gateMutation, home_work_open_uidx, cancelWork).                         *)
THEOREM WorkStaysKept ==
    FetchedSpec => /\ [](Saved!ChangesWhatWasSeen /\ Saved!OneOpenRecord)
                   /\ [][Saved!KeepsCompleted]_homeWorkVars
<1>1. FetchedInit => SavedInv
    BY SavedBegins DEF FetchedInit
<1>2. QED BY <1>1, SavedAlone, SavedStep, SavedSafe, CompletedKept, PTL DEF FetchedSpec

-----------------------------------------------------------------------------
(* Links.  A writer marks every row that names an identifier it adds or    *)
(* takes away, and waits for the row a pass has locked, so the decision of *)
(* that pass stays supported until it is written.                          *)

RowsAssumed ==
  /\ IsFiniteSet(MessageRow) /\ Threading!None \notin MessageRow
  /\ Windows \subseteq SUBSET MessageRow

LEMMA RowsHold == RowsAssumed
BY FetchedAssumption DEF RowsAssumed

(* The instance counts as the library does.                                *)
LEMMA RowsCountAlike == ASSUME NEW S PROVE Threading!Cardinality(S) = Cardinality(S)
BY DEF Threading!Cardinality, Cardinality

(* What the tables hold: rows with the columns of messages, whose parents  *)
(* are stored, and passes whose row is stored and still marked, with a     *)
(* decision that can be written.                                           *)
RowFields == {"id", "ref", "parent", "link", "thread", "dirty", "stored"}
LinkKinds == {"root", "pending", "linked", "ambiguous"}

IsRow(m) ==
  /\ m = [f \in RowFields |-> m[f]]
  /\ m.link \in LinkKinds /\ m.dirty \in BOOLEAN /\ m.stored \in BOOLEAN
RowsShaped ==
  /\ messages = [r \in DOMAIN messages |-> messages[r]]
  /\ DOMAIN messages \subseteq MessageRow \ mergedAway
  /\ \A r \in DOMAIN messages :
       IsRow(messages[r]) /\ messages[r].parent \in DOMAIN messages \cup {Threading!None}

(* A link the headers support: the parent is the only holder of the        *)
(* identifier the row names.                                               *)
LinkSupported(rows, r, link, parent) ==
  /\ link = "linked" => Threading!Holders(rows, rows[r].ref) = {parent}
  /\ link = "pending" => Threading!Holders(rows, rows[r].ref) = {}
  /\ link = "root" <=> rows[r].ref = Threading!None
  /\ link = "linked" <=> parent # Threading!None

Deciding(p) == threadPass[p] # Threading!Idle
ParentWith(r, parent, x) == IF x = r THEN parent ELSE messages[x].parent
(* A parent cycle as it would be with the row linked to the parent.        *)
Ring(r, parent, S) == S # {} /\ \A x \in S : ParentWith(r, parent, x) \in S

PassShape ==
  /\ threadPass = [p \in Pass |-> threadPass[p]]
  /\ \A p \in Pass : Deciding(p) =>
       /\ threadPass[p].row \in DOMAIN messages
       /\ messages[threadPass[p].row].dirty
       /\ threadPass[p].parent \in DOMAIN messages \cup {Threading!None}
       /\ threadPass[p].link \in LinkKinds
OneDecides == \A p, q \in Pass : Deciding(p) /\ Deciding(q) => p = q
(* A pass in flight: its decision is still supported, and every cycle its  *)
(* link would close keeps a mark on another row.                           *)
DecisionSound(p) ==
  /\ LinkSupported(messages, threadPass[p].row, threadPass[p].link, threadPass[p].parent)
  /\ \A S \in SUBSET DOMAIN messages :
       Ring(threadPass[p].row, threadPass[p].parent, S)
         => \E x \in S \ {threadPass[p].row} : messages[x].dirty
DecisionsHold == \A p \in Pass : Deciding(p) => DecisionSound(p)
LinksHold == \A r \in DOMAIN messages : ~messages[r].dirty =>
  LinkSupported(messages, r, messages[r].link, messages[r].parent)
CyclesAreMarked ==
  \A S \in SUBSET DOMAIN messages : Threading!Cycle(messages, S) => \E x \in S : messages[x].dirty
(* The inductive invariant of the links.                                   *)
LinkInv == RowsShaped /\ PassShape /\ OneDecides /\ DecisionsHold /\ LinksHold /\ CyclesAreMarked

(* Writers leave alone what is clean after them or locked: its row, and    *)
(* who holds the identifier it names.                                      *)
RowKept(x) ==
  /\ x \in DOMAIN messages /\ x \in DOMAIN messages'
  /\ messages'[x].id = messages[x].id
  /\ messages'[x].ref = messages[x].ref
  /\ messages'[x].link = messages[x].link
  /\ messages'[x].parent = messages[x].parent
  /\ messages'[x].thread = messages[x].thread
  /\ messages'[x].dirty = messages[x].dirty
  /\ messages'[x].stored = messages[x].stored
  /\ Threading!Holders(messages', messages[x].ref) = Threading!Holders(messages, messages[x].ref)
CleanOrLocked(x) == ~messages'[x].dirty \/ x \in Threading!Locked
LeavesTheRest ==
  /\ \A x \in DOMAIN messages' : CleanOrLocked(x) => RowKept(x)
  /\ \A x \in DOMAIN messages : x \in Threading!Locked => x \in DOMAIN messages'
  /\ UNCHANGED threadPass

(* The chain of a row is the least set that holds it and that no parent    *)
(* leaves.                                                                 *)
LEMMA ChainIsClosed ==
  ASSUME NEW rows, NEW start \in DOMAIN rows,
         \A x \in DOMAIN rows : rows[x].parent \in DOMAIN rows \cup {Threading!None}
  PROVE  /\ start \in Threading!Chain(rows, start)
         /\ Threading!Chain(rows, start) \subseteq DOMAIN rows
         /\ Threading!UpwardClosed(rows, Threading!Chain(rows, start))
BY DEF Threading!Chain, Threading!UpwardClosed

LEMMA ChainIsLeast ==
  ASSUME NEW rows, NEW start, NEW S \in SUBSET DOMAIN rows,
         start \in S, Threading!UpwardClosed(rows, S)
  PROVE  Threading!Chain(rows, start) \subseteq S
BY DEF Threading!Chain

(* What a commit writes, and that it touches no locked row.                *)
LEMMA CommitWrites ==
  ASSUME NEW rows, NEW own, NEW ids, Threading!Commit(rows, own, ids)
  PROVE  /\ messages' = [x \in DOMAIN rows |-> messages'[x]]
         /\ DOMAIN messages' = DOMAIN rows
         /\ \A x \in DOMAIN rows :
              messages'[x] = [rows[x] EXCEPT !.dirty = @ \/ (x \in own \/ rows[x].ref \in ids)]
         /\ \A x \in Threading!Locked : x \in DOMAIN messages =>
              /\ x \in DOMAIN rows /\ rows[x] = messages[x]
              /\ x \notin own /\ rows[x].ref \notin ids
<1> DEFINE jobs == Threading!MarkThreadJobsDirty(rows, own, ids) \cap DOMAIN rows
<1>1. messages' = [x \in DOMAIN rows |-> [rows[x] EXCEPT !.dirty = @ \/ x \in jobs]]
  BY DEF Threading!Commit
<1>2. \A x \in DOMAIN rows : x \in jobs <=> (x \in own \/ rows[x].ref \in ids)
  BY DEF Threading!MarkThreadJobsDirty, Threading!References
<1>3. (jobs \cup Threading!Changed(rows)) \cap Threading!Locked = {}
  BY DEF Threading!Commit
<1>4. \A x \in Threading!Locked : x \in DOMAIN messages =>
              /\ x \in DOMAIN rows /\ rows[x] = messages[x]
              /\ x \notin own /\ rows[x].ref \notin ids
  BY <1>2, <1>3 DEF Threading!Changed
<1> HIDE DEF jobs
<1>5. \A x \in DOMAIN rows :
              messages'[x] = [rows[x] EXCEPT !.dirty = @ \/ (x \in own \/ rows[x].ref \in ids)]
  BY <1>1, <1>2
<1> QED BY <1>1, <1>4, <1>5

(* A commit leaves the rest alone when every row whose identifier changes  *)
(* is named among the marked identifiers.                                  *)
CommitWritten(rows, own, ids) ==
  /\ messages' = [x \in DOMAIN rows |-> messages'[x]]
  /\ \A x \in DOMAIN rows :
        /\ IsRow(messages'[x])
        /\ messages'[x].id = rows[x].id /\ messages'[x].ref = rows[x].ref
        /\ messages'[x].link = rows[x].link /\ messages'[x].parent = rows[x].parent
        /\ messages'[x].thread = rows[x].thread /\ messages'[x].stored = rows[x].stored
        /\ messages'[x].dirty = (rows[x].dirty \/ (x \in own \/ rows[x].ref \in ids))

LEMMA CommitLeaves ==
  ASSUME RowsAssumed, RowsShaped, PassShape, NEW rows, Threading!None \notin DOMAIN rows, NEW own, NEW ids, Threading!Commit(rows, own, ids),
         UNCHANGED threadPass,
         \A x \in DOMAIN rows : IsRow(rows[x]),
         \A x \in DOMAIN messages :
           x \notin DOMAIN rows \/ rows[x].id # messages[x].id => messages[x].id \in ids,
         \A x \in DOMAIN rows :
           x \notin DOMAIN messages \/ rows[x].id # messages[x].id => rows[x].id \in ids,
         \A x \in DOMAIN rows :
           ~rows[x].dirty /\ x \notin own /\ rows[x].ref \notin ids
             => x \in DOMAIN messages /\ rows[x] = messages[x]
  PROVE  LeavesTheRest /\ CommitWritten(rows, own, ids)
<1>1. /\ DOMAIN messages' = DOMAIN rows
      /\ messages' = [x \in DOMAIN rows |-> messages'[x]]
      /\ \A x \in DOMAIN rows :
           messages'[x] = [rows[x] EXCEPT !.dirty = @ \/ (x \in own \/ rows[x].ref \in ids)]
      /\ \A x \in Threading!Locked : x \in DOMAIN messages =>
              /\ x \in DOMAIN rows /\ rows[x] = messages[x]
              /\ x \notin own /\ rows[x].ref \notin ids
  BY CommitWrites
<1>2. \A x \in DOMAIN rows :
        /\ messages'[x].id = rows[x].id /\ messages'[x].ref = rows[x].ref
        /\ messages'[x].link = rows[x].link /\ messages'[x].parent = rows[x].parent
        /\ messages'[x].thread = rows[x].thread /\ messages'[x].stored = rows[x].stored
        /\ messages'[x].dirty = (rows[x].dirty \/ (x \in own \/ rows[x].ref \in ids))
        /\ messages'[x] = [f \in RowFields |-> messages'[x][f]]
  <2> SUFFICES ASSUME NEW x \in DOMAIN rows
      PROVE /\ messages'[x].id = rows[x].id /\ messages'[x].ref = rows[x].ref
        /\ messages'[x].link = rows[x].link /\ messages'[x].parent = rows[x].parent
        /\ messages'[x].thread = rows[x].thread /\ messages'[x].stored = rows[x].stored
        /\ messages'[x].dirty = (rows[x].dirty \/ (x \in own \/ rows[x].ref \in ids))
        /\ messages'[x] = [f \in RowFields |-> messages'[x][f]]
    OBVIOUS
  <2> DEFINE mark == rows[x].dirty \/ (x \in own \/ rows[x].ref \in ids)
  <2>1. messages'[x] = [rows[x] EXCEPT !.dirty = mark]
    BY <1>1
  <2>2. rows[x] = [f \in RowFields |-> rows[x][f]]
    BY DEF IsRow
  <2> HIDE DEF mark
  <2>3. messages'[x] = [f \in RowFields |-> IF f = "dirty" THEN mark ELSE rows[x][f]]
    BY <2>1, <2>2 DEF RowFields
  <2>4. \A f \in RowFields : messages'[x][f] = IF f = "dirty" THEN mark ELSE rows[x][f]
    BY <2>3
  <2>5. messages'[x].dirty = mark
    BY <2>4 DEF RowFields
  <2>6. messages'[x] = [f \in RowFields |-> messages'[x][f]]
    BY <2>3
  <2> QED BY <2>4, <2>5, <2>6 DEF RowFields, mark
<1>3. \A x \in DOMAIN rows : IsRow(messages'[x])
  <2> SUFFICES ASSUME NEW x \in DOMAIN rows PROVE IsRow(messages'[x])
    OBVIOUS
  <2>1. rows[x].dirty \in BOOLEAN
    BY DEF IsRow
  <2>2. messages'[x].dirty \in BOOLEAN
    BY <1>2, <2>1
  <2> QED BY <1>2, <2>2 DEF IsRow
<1>4. ASSUME NEW x \in DOMAIN messages', CleanOrLocked(x)
      PROVE  x \in DOMAIN messages /\ rows[x] = messages[x] /\ x \notin own /\ rows[x].ref \notin ids
  <2>1. CASE ~messages'[x].dirty
    BY <1>1, <1>2, <2>1 DEF IsRow
  <2>2. CASE x \in Threading!Locked
    <3>1. PICK p \in Pass : x = threadPass[p].row
      BY <2>2 DEF Threading!Locked
    <3>2. Deciding(p)
      BY <1>1, <3>1, <1>4 DEF Deciding, Threading!Idle
    <3>3. x \in DOMAIN messages
      BY <3>1, <3>2 DEF PassShape
    <3> QED BY <1>1, <2>2, <3>3
  <2> QED BY <1>4, <2>1, <2>2 DEF CleanOrLocked
<1>5. ASSUME NEW x \in DOMAIN messages', CleanOrLocked(x)
      PROVE  RowKept(x)
  <2>1. x \in DOMAIN messages /\ rows[x] = messages[x] /\ x \notin own /\ rows[x].ref \notin ids
    BY <1>4, <1>5
  <2>2. Threading!Holders(messages', messages[x].ref) = Threading!Holders(messages, messages[x].ref)
    BY <1>1, <1>2, <2>1 DEF Threading!Holders
  <2>3. messages'[x].dirty = messages[x].dirty
    BY <1>1, <1>2, <2>1 DEF RowsShaped, IsRow
  <2> QED BY <1>1, <1>2, <2>1, <2>2, <2>3 DEF RowKept
<1>6. \A x \in DOMAIN messages : x \in Threading!Locked => x \in DOMAIN messages'
  BY <1>1
<1>7. LeavesTheRest
  BY <1>5, <1>6 DEF LeavesTheRest
<1> QED BY <1>1, <1>2, <1>3, <1>7 DEF CommitWritten

(* A row that is still there keeps what no ingestion of its own changes.   *)
StaysSame(x) ==
  /\ x \in DOMAIN messages'
  /\ messages'[x].id = messages[x].id /\ messages'[x].ref = messages[x].ref
  /\ messages'[x].thread = messages[x].thread /\ messages'[x].stored = messages[x].stored
  /\ messages[x].dirty => messages'[x].dirty

LEMMA ImportLeaves ==
  ASSUME RowsAssumed, RowsShaped, PassShape, NEW window \in Windows, Threading!Import(window)
  PROVE  /\ LeavesTheRest /\ RowsShaped' /\ UNCHANGED threads
         /\ DOMAIN messages' = DOMAIN messages \cup window /\ window \cap DOMAIN messages = {}
         /\ \A x \in DOMAIN messages : StaysSame(x) /\ messages'[x].parent = messages[x].parent
         /\ \A x \in window : /\ messages'[x].id = HeaderParse[x].id /\ messages'[x].ref = HeaderParse[x].ref
                             /\ messages'[x].parent = Threading!None /\ messages'[x].thread = 0
                             /\ ~messages'[x].stored
<1> DEFINE Arriving(r) == [id |-> HeaderParse[r].id, ref |-> HeaderParse[r].ref, parent |-> Threading!None,
                        link |-> "pending", thread |-> 0, dirty |-> TRUE, stored |-> FALSE]
           fresh == [r \in DOMAIN messages \cup window |->
                  IF r \in window THEN Arriving(r) ELSE messages[r]]
           ids == {HeaderParse[r].id : r \in window}
<1>1. /\ window \cap (DOMAIN messages \cup mergedAway) = {} /\ mergedAway' = mergedAway
      /\ Threading!Commit(fresh, {}, ids) /\ UNCHANGED <<threads, threadPass>>
  BY DEF Threading!Import
<1>2. \A x \in window :
        /\ IsRow(Arriving(x)) /\ Arriving(x).dirty = TRUE /\ Arriving(x).id = HeaderParse[x].id
        /\ Arriving(x).parent = Threading!None /\ Arriving(x).id \in ids /\ Arriving(x).ref = HeaderParse[x].ref
        /\ Arriving(x).thread = 0 /\ ~Arriving(x).stored
  BY DEF IsRow, RowFields, LinkKinds
<1> HIDE DEF Arriving
<1>3. DOMAIN fresh = DOMAIN messages \cup window
  OBVIOUS
<1>4. \A x \in DOMAIN messages : fresh[x] = messages[x]
  BY <1>1
<1>5. \A x \in window : fresh[x] = Arriving(x)
  OBVIOUS
<1> HIDE DEF fresh, ids
<1>6. \A x \in DOMAIN fresh : IsRow(fresh[x]) /\ fresh[x].parent \in DOMAIN fresh \cup {Threading!None}
  BY <1>2, <1>3, <1>4, <1>5 DEF RowsShaped
<1>7. \A x \in DOMAIN fresh : x \notin DOMAIN messages => fresh[x].id \in ids /\ fresh[x].dirty
  BY <1>2, <1>3, <1>5
<1>8. LeavesTheRest /\ CommitWritten(fresh, {}, ids)
  <2>1. Threading!None \notin DOMAIN fresh
    BY <1>3 DEF RowsAssumed, RowsShaped
  <2> QED BY <1>1, <1>3, <1>4, <1>6, <1>7, <2>1, CommitLeaves
<1>9. messages' = [x \in DOMAIN messages' |-> messages'[x]] /\ DOMAIN messages' = DOMAIN fresh
  BY <1>8 DEF CommitWritten
<1>11. DOMAIN fresh \subseteq MessageRow \ mergedAway'
  BY <1>1, <1>3 DEF RowsShaped, RowsAssumed
<1>12. RowsShaped'
  BY <1>6, <1>8, <1>9, <1>11 DEF RowsShaped, CommitWritten
<1>13. \A x \in DOMAIN messages : StaysSame(x) /\ messages'[x].parent = messages[x].parent
  BY <1>3, <1>4, <1>8, <1>9 DEF CommitWritten, StaysSame
<1>14. \A x \in window : /\ messages'[x].id = HeaderParse[x].id /\ messages'[x].ref = HeaderParse[x].ref
                        /\ messages'[x].parent = Threading!None /\ messages'[x].thread = 0
                        /\ ~messages'[x].stored
  BY <1>2, <1>3, <1>5, <1>8 DEF CommitWritten
<1>15. DOMAIN messages' = DOMAIN messages \cup window /\ window \cap DOMAIN messages = {}
  BY <1>1, <1>3, <1>9
<1>16. UNCHANGED threads /\ LeavesTheRest
  BY <1>1, <1>8
<1> QED BY <1>12, <1>13, <1>14, <1>15, <1>16

LEMMA ApplyLeaves ==
  ASSUME RowsAssumed, RowsShaped, PassShape, NEW r \in DOMAIN messages, Threading!ApplyIngested(r), UNCHANGED threadPass
  PROVE  /\ LeavesTheRest /\ RowsShaped' /\ DOMAIN messages' = DOMAIN messages
         /\ \A x \in DOMAIN messages : x # r => StaysSame(x)
         /\ \A x \in DOMAIN messages :
              /\ messages'[x].parent = messages[x].parent /\ messages'[x].thread = messages[x].thread
              /\ messages[x].dirty => messages'[x].dirty
         /\ messages'[r].id = FullParse[r].id /\ messages'[r].ref = FullParse[r].ref /\ messages'[r].stored = TRUE
<1> DEFINE applied == [messages EXCEPT ![r].id = FullParse[r].id, ![r].ref = FullParse[r].ref,
                             ![r].stored = TRUE]
           Applied(m) == [f \in RowFields |-> IF f = "id" THEN FullParse[r].id ELSE
                              IF f = "ref" THEN FullParse[r].ref ELSE IF f = "stored" THEN TRUE ELSE m[f]]
           ids == {messages[r].id, FullParse[r].id}
<1>1. Threading!Commit(applied, {r}, ids) /\ mergedAway' = mergedAway
  BY DEF Threading!ApplyIngested
<1>2. /\ DOMAIN applied = DOMAIN messages
      /\ \A x \in DOMAIN messages : x # r => applied[x] = messages[x]
      /\ applied[r] = Applied(messages[r])
  BY DEF RowsShaped, IsRow, RowFields
<1>3. /\ IsRow(Applied(messages[r])) /\ Applied(messages[r]).parent = messages[r].parent
      /\ Applied(messages[r]).id = FullParse[r].id /\ Applied(messages[r]).ref = FullParse[r].ref
      /\ Applied(messages[r]).stored = TRUE /\ Applied(messages[r]).thread = messages[r].thread
      /\ Applied(messages[r]).dirty = messages[r].dirty
  BY DEF RowsShaped, IsRow, RowFields
<1> HIDE DEF applied, Applied
<1>4. \A x \in DOMAIN applied : IsRow(applied[x]) /\ applied[x].parent \in DOMAIN applied \cup {Threading!None}
  BY <1>2, <1>3 DEF RowsShaped
<1>5. Threading!None \notin DOMAIN applied
  BY <1>2 DEF RowsAssumed, RowsShaped
<1>6. LeavesTheRest /\ CommitWritten(applied, {r}, ids)
  BY <1>1, <1>2, <1>3, <1>4, <1>5, CommitLeaves
<1>7. RowsShaped' /\ DOMAIN messages' = DOMAIN messages
  BY <1>1, <1>2, <1>4, <1>6 DEF RowsShaped, CommitWritten
<1>8. \A x \in DOMAIN messages : x # r => StaysSame(x)
  BY <1>2, <1>6, <1>7 DEF StaysSame, CommitWritten
<1>9. \A x \in DOMAIN messages :
        /\ messages'[x].parent = applied[x].parent /\ messages'[x].thread = applied[x].thread
        /\ applied[x].dirty => messages'[x].dirty
  BY <1>2, <1>6 DEF CommitWritten
<1>10. \A x \in DOMAIN messages :
        /\ applied[x].parent = messages[x].parent /\ applied[x].thread = messages[x].thread
        /\ applied[x].dirty = messages[x].dirty
  BY <1>2, <1>3
<1>11. messages'[r].id = FullParse[r].id /\ messages'[r].ref = FullParse[r].ref /\ messages'[r].stored = TRUE
  BY <1>2, <1>3, <1>6 DEF CommitWritten
<1> QED BY <1>6, <1>7, <1>8, <1>9, <1>10, <1>11

(* A clean child of the merged row cannot be: it names the identifier the  *)
(* merge marks.                                                            *)
LEMMA MergeLeaves ==
  ASSUME RowsAssumed, RowsShaped, PassShape, LinksHold, NEW r \in DOMAIN messages,
         NEW survivor \in DOMAIN messages, survivor # r,
         Threading!MergeDuplicate(r, survivor), UNCHANGED threadPass
  PROVE  /\ LeavesTheRest /\ RowsShaped' /\ DOMAIN messages' = DOMAIN messages \ {r}
         /\ messages'[survivor].dirty
         /\ \A x \in DOMAIN messages \ {r} :
              /\ StaysSame(x)
              /\ messages'[x].parent = IF messages[x].parent # r THEN messages[x].parent
                                       ELSE IF x = survivor THEN Threading!None ELSE survivor
<1> DEFINE Moved(x) == IF messages[x].parent # r THEN messages[x]
                  ELSE IF x = survivor
                  THEN [messages[x] EXCEPT !.parent = Threading!None, !.link = "pending"]
                  ELSE [messages[x] EXCEPT !.parent = survivor]
           moved == [x \in DOMAIN messages \ {r} |-> Moved(x)]
           ids == {messages[r].id, FullParse[r].id}
<1>1. Threading!Commit(moved, {survivor}, ids) /\ mergedAway' = mergedAway \cup {r}
  BY DEF Threading!MergeDuplicate
<1>2. \A x \in DOMAIN messages :
        /\ IsRow(Moved(x)) /\ Moved(x).parent \in (DOMAIN messages \ {r}) \cup {Threading!None}
        /\ Moved(x).id = messages[x].id /\ Moved(x).ref = messages[x].ref
        /\ Moved(x).dirty = messages[x].dirty
        /\ Moved(x).thread = messages[x].thread /\ Moved(x).stored = messages[x].stored
        /\ Moved(x).parent = IF messages[x].parent # r THEN messages[x].parent
                             ELSE IF x = survivor THEN Threading!None ELSE survivor
        /\ messages[x].parent # r => Moved(x) = messages[x]
  <2> SUFFICES ASSUME NEW x \in DOMAIN messages
      PROVE  /\ IsRow(Moved(x)) /\ Moved(x).parent \in (DOMAIN messages \ {r}) \cup {Threading!None}
             /\ Moved(x).id = messages[x].id /\ Moved(x).ref = messages[x].ref
             /\ Moved(x).dirty = messages[x].dirty
             /\ Moved(x).thread = messages[x].thread /\ Moved(x).stored = messages[x].stored
             /\ Moved(x).parent = IF messages[x].parent # r THEN messages[x].parent
                                  ELSE IF x = survivor THEN Threading!None ELSE survivor
             /\ messages[x].parent # r => Moved(x) = messages[x]
    OBVIOUS
  <2>1. IsRow(messages[x]) /\ messages[x].parent \in DOMAIN messages \cup {Threading!None}
    BY DEF RowsShaped
  <2> QED BY <2>1 DEF IsRow, RowFields, LinkKinds
<1> HIDE DEF Moved
<1>3. DOMAIN moved = DOMAIN messages \ {r} /\ \A x \in DOMAIN moved : moved[x] = Moved(x)
  OBVIOUS
<1> HIDE DEF moved
<1>4. \A x \in DOMAIN moved : IsRow(moved[x]) /\ moved[x].parent \in DOMAIN moved \cup {Threading!None}
  BY <1>2, <1>3
<1>5. Threading!None \notin DOMAIN moved
  BY <1>3 DEF RowsAssumed, RowsShaped
<1>6. ASSUME NEW x \in DOMAIN moved, ~moved[x].dirty, moved[x].ref \notin ids
      PROVE  moved[x] = messages[x]
  <2>1. CASE messages[x].parent # r
    BY <1>2, <1>3, <1>6, <2>1
  <2>2. CASE messages[x].parent = r
    <3>1. x \in DOMAIN messages /\ ~messages[x].dirty /\ messages[x].ref \notin ids
      BY <1>2, <1>3, <1>6
    <3>2. r # Threading!None
      BY DEF RowsAssumed, RowsShaped
    <3>3. r \in Threading!Holders(messages, messages[x].ref)
      BY <2>2, <3>1, <3>2 DEF LinksHold, LinkSupported
    <3> QED BY <3>1, <3>3 DEF Threading!Holders
  <2> QED BY <2>1, <2>2
<1>7. LeavesTheRest /\ CommitWritten(moved, {survivor}, ids)
  BY <1>1, <1>2, <1>3, <1>4, <1>5, <1>6, CommitLeaves
<1>8. RowsShaped' /\ DOMAIN messages' = DOMAIN messages \ {r}
  BY <1>1, <1>3, <1>4, <1>7 DEF RowsShaped, CommitWritten
<1>9. messages'[survivor].dirty
  BY <1>3, <1>7 DEF CommitWritten
<1> QED BY <1>2, <1>3, <1>7, <1>8, <1>9 DEF StaysSame, CommitWritten

(* So no writer breaks the invariant: a cycle of clean rows, a clean row   *)
(* and a pass in flight are as they were before.                           *)
LEMMA WritersKeepLinks ==
  ASSUME RowsAssumed, LinkInv, LeavesTheRest, RowsShaped'
  PROVE  LinkInv'
<1>1. \A p \in Pass : Deciding(p) => threadPass[p].row \in Threading!Locked
  BY DEF Threading!Locked
<1>2. \A p \in Pass : Deciding(p) => RowKept(threadPass[p].row)
  BY <1>1 DEF LinkInv, PassShape, LeavesTheRest, CleanOrLocked
<1>3. \A x, link, parent :
        RowKept(x) /\ LinkSupported(messages, x, link, parent) => LinkSupported(messages', x, link, parent)
  BY DEF RowKept, LinkSupported
<1>4. ASSUME NEW p \in Pass, Deciding(p)
      PROVE  threadPass[p].parent \in DOMAIN messages' \cup {Threading!None}
  <2>1. CASE threadPass[p].parent # Threading!None
    <3>1. LinkSupported(messages', threadPass[p].row, threadPass[p].link, threadPass[p].parent)
      BY <1>2, <1>3, <1>4 DEF LinkInv, DecisionsHold, DecisionSound
    <3> QED BY <2>1, <3>1 DEF LinkSupported, Threading!Holders
  <2> QED BY <2>1
<1>5. PassShape'
  <2>1. threadPass' = threadPass
    BY DEF LeavesTheRest
  <2> QED BY <1>2, <1>4, <2>1 DEF LinkInv, PassShape, Deciding, RowKept, Threading!Idle
<1>6. OneDecides'
  BY DEF LeavesTheRest, LinkInv, OneDecides, Deciding, Threading!Idle
<1>7. LinksHold'
  <2> SUFFICES ASSUME NEW x \in DOMAIN messages', ~messages'[x].dirty
      PROVE  LinkSupported(messages', x, messages'[x].link, messages'[x].parent)
    BY DEF LinksHold, LinkSupported
  <2>1. RowKept(x)
    BY DEF LeavesTheRest, CleanOrLocked
  <2> QED BY <1>3, <2>1 DEF LinkInv, LinksHold, RowKept
<1>8. CyclesAreMarked'
  <2> SUFFICES ASSUME NEW S \in SUBSET DOMAIN messages', Threading!Cycle(messages', S),
                      \A x \in S : ~messages'[x].dirty
      PROVE  FALSE
    BY DEF CyclesAreMarked
  <2>1. \A x \in S : RowKept(x)
    BY DEF LeavesTheRest, CleanOrLocked
  <2>2. S \in SUBSET DOMAIN messages /\ Threading!Cycle(messages, S) /\ \A x \in S : ~messages[x].dirty
    BY <2>1 DEF RowKept, Threading!Cycle
  <2> QED BY <2>2 DEF LinkInv, CyclesAreMarked
<1>9. ASSUME NEW p \in Pass, Deciding(p)
      PROVE  DecisionSound(p)'
  <2>1. threadPass' = threadPass
    BY DEF LeavesTheRest
  <2>2. LinkSupported(messages', threadPass[p].row, threadPass[p].link, threadPass[p].parent)
    BY <1>2, <1>3, <1>9 DEF LinkInv, DecisionsHold, DecisionSound
  <2> DEFINE r == threadPass[p].row
             h == threadPass[p].parent
  <2>3. ASSUME NEW S \in SUBSET DOMAIN messages', Ring(r, h, S)',
               \A x \in S \ {r} : ~messages'[x].dirty
        PROVE  FALSE
    <3>1. \A x \in S : RowKept(x)
      BY <1>2, <1>9, <2>3 DEF LeavesTheRest, CleanOrLocked
    <3>2. \A x \in S : ParentWith(r, h, x)' = ParentWith(r, h, x)
      BY <2>1, <3>1 DEF ParentWith, RowKept
    <3>3. Ring(r, h, S)
      BY <2>1, <2>3, <3>2 DEF Ring
    <3>4. \A x \in S \ {r} : ~messages[x].dirty
      BY <2>3, <3>1 DEF RowKept
    <3>5. S \in SUBSET DOMAIN messages
      BY <3>1 DEF RowKept
    <3> QED BY <1>9, <3>3, <3>4, <3>5 DEF LinkInv, DecisionsHold, DecisionSound
  <2> QED BY <2>1, <2>2, <2>3 DEF DecisionSound
<1>10. DecisionsHold'
  BY <1>9 DEF DecisionsHold, LeavesTheRest, Deciding, Threading!Idle
<1> QED BY <1>5, <1>6, <1>7, <1>8, <1>10 DEF LinkInv

(* What a pass decides from the rows it reads.                             *)
LEMMA DecisionIsSound ==
  ASSUME RowsAssumed, RowsShaped, CyclesAreMarked, NEW r \in DOMAIN messages,
         NEW link, NEW parent, Threading!DecideLink(messages, r) = Threading!Decision(link, parent)
  PROVE  /\ link \in LinkKinds /\ parent \in DOMAIN messages \cup {Threading!None}
         /\ LinkSupported(messages, r, link, parent)
         /\ parent # Threading!None => ~Threading!ChainReaches(messages, parent, r)
<1> DEFINE ref == messages[r].ref
           holders == Threading!Holders(messages, ref)
           d == Threading!DecideLink(messages, r)
<1>1. d.link = link /\ d.parent = parent
  BY DEF Threading!Decision
<1> HIDE DEF d
<1>2. Threading!None \notin DOMAIN messages /\ holders \subseteq DOMAIN messages
  BY DEF RowsAssumed, RowsShaped, Threading!Holders
<1>3. CASE ref = Threading!None
  <2>1. d = Threading!Decision("root", Threading!None)
    BY <1>3 DEF d, Threading!DecideLink
  <2> QED BY <1>1, <1>3, <2>1 DEF Threading!Decision, LinkKinds, LinkSupported
<1>4. CASE ref # Threading!None /\ (ref = Threading!Conflicted \/ ref = messages[r].id)
  <2>1. d = Threading!Decision("ambiguous", Threading!None)
    BY <1>4 DEF d, Threading!DecideLink
  <2> QED BY <1>1, <1>4, <2>1 DEF Threading!Decision, LinkKinds, LinkSupported
<1>5. CASE ref \notin {Threading!None, Threading!Conflicted, messages[r].id} /\ holders = {}
  <2>1. d = Threading!Decision("pending", Threading!None)
    BY <1>5, RowsCountAlike, FS_EmptySet DEF d, Threading!DecideLink
  <2> QED BY <1>1, <1>5, <2>1 DEF Threading!Decision, LinkKinds, LinkSupported
<1>6. CASE ref \notin {Threading!None, Threading!Conflicted, messages[r].id} /\ holders # {}
        /\ Cardinality(holders) > 1
  <2>1. d = Threading!Decision("ambiguous", Threading!None)
    BY <1>6, RowsCountAlike DEF d, Threading!DecideLink
  <2> QED BY <1>1, <1>6, <2>1 DEF Threading!Decision, LinkKinds, LinkSupported
<1>7. CASE ref \notin {Threading!None, Threading!Conflicted, messages[r].id} /\ holders # {}
        /\ ~(Cardinality(holders) > 1)
  <2> DEFINE h == CHOOSE x \in holders : TRUE
  <2>1. h \in holders
    BY <1>7
  <2> HIDE DEF h
  <2>2. d = IF Threading!ChainReaches(messages, h, r) THEN Threading!Decision("ambiguous", Threading!None)
            ELSE Threading!Decision("linked", h)
    BY <1>7, RowsCountAlike DEF d, Threading!DecideLink, h
  <2>3. CASE Threading!ChainReaches(messages, h, r)
    BY <1>1, <1>7, <2>2, <2>3 DEF Threading!Decision, LinkKinds, LinkSupported
  <2>4. CASE ~Threading!ChainReaches(messages, h, r)
    <3>1. link = "linked" /\ parent = h
      BY <1>1, <2>2, <2>4 DEF Threading!Decision
    <3>2. holders = {h}
      <4>1. IsFiniteSet(holders) /\ Cardinality(holders) \in Nat
        BY <1>2, FS_Subset, FS_CardinalityType DEF RowsAssumed, RowsShaped
      <4>2. holders = {h} \/ Cardinality(holders) > 1
        <5> SUFFICES ASSUME NEW g \in holders, g # h
            PROVE  Cardinality(holders) > 1
          BY <2>1
        <5>1. Cardinality({h}) = 1 /\ IsFiniteSet({h})
          BY FS_Singleton
        <5>2. Cardinality({h}) < Cardinality(holders)
          BY <2>1, <4>1, <5>1, FS_Subset
        <5> QED BY <4>1, <5>1, <5>2
      <4> QED BY <1>7, <4>2
    <3> QED BY <1>2, <1>7, <2>1, <2>4, <3>1, <3>2 DEF LinkSupported, LinkKinds
  <2> QED BY <2>3, <2>4
<1> QED BY <1>3, <1>4, <1>5, <1>6, <1>7

(* A decided link closes no cycle of clean rows: the chain of the parent   *)
(* does not reach the row, so what the cycle shares with that chain is a   *)
(* cycle of its own.                                                       *)
LEMMA DecideKeepsLinks ==
  ASSUME RowsAssumed, LinkInv, NEW p \in Pass, NEW r \in DOMAIN messages, Threading!Decide(p, r)
  PROVE  LinkInv'
<1> DEFINE d == Threading!DecideLink(messages, r)
           link == d.link
           h == d.parent
<1>1. /\ threadPass' = [threadPass EXCEPT ![p] = [row |-> r, link |-> link, parent |-> h]]
      /\ UNCHANGED <<messages, mergedAway>> /\ messages[r].dirty /\ Threading!Locked = {Threading!None}
  BY DEF Threading!Decide, Threading!AdvisoryLock
<1>2. d = Threading!Decision(link, h)
  BY DEF Threading!DecideLink, Threading!Decision
<1> HIDE DEF d
<1>3. /\ link \in LinkKinds /\ h \in DOMAIN messages \cup {Threading!None}
      /\ LinkSupported(messages, r, link, h)
      /\ h # Threading!None => ~Threading!ChainReaches(messages, h, r)
  BY <1>2, DecisionIsSound DEF LinkInv, d
<1> HIDE DEF link, h
<1>4. Threading!None \notin DOMAIN messages
  BY DEF LinkInv, RowsAssumed, RowsShaped
<1>5. \A q \in Pass : ~Deciding(q)
  BY <1>1, <1>4 DEF LinkInv, PassShape, Threading!Locked
<1>6. /\ threadPass'[p].row = r /\ threadPass'[p].link = link /\ threadPass'[p].parent = h
      /\ \A q \in Pass : q # p => threadPass'[q] = threadPass[q]
      /\ threadPass' = [q \in Pass |-> threadPass'[q]]
  BY <1>1 DEF LinkInv, PassShape
<1>7. \A q \in Pass : Deciding(q)' => q = p
  BY <1>5, <1>6 DEF Deciding, Threading!Idle
<1>8. PassShape'
  BY <1>1, <1>3, <1>6, <1>7 DEF PassShape
<1>9. ASSUME NEW S \in SUBSET DOMAIN messages, Ring(r, h, S), \A x \in S \ {r} : ~messages[x].dirty
      PROVE  FALSE
  <2>2. r \in S
    BY <1>9 DEF LinkInv, CyclesAreMarked, Ring, ParentWith, Threading!Cycle
  <2>3. h \in S /\ h # Threading!None
    BY <1>4, <2>2, <1>9 DEF Ring, ParentWith
  <2> DEFINE C == Threading!Chain(messages, h)
             T == S \cap C
  <2>4. h \in C /\ Threading!UpwardClosed(messages, C) /\ r \notin C
    BY <1>3, <2>3, ChainIsClosed DEF LinkInv, RowsShaped, Threading!ChainReaches
  <2> HIDE DEF C
  <2>5. Threading!Cycle(messages, T)
    <3>1. \A x \in T : messages[x].parent \in S
      BY <2>4, <1>9 DEF Ring, ParentWith
    <3>2. \A x \in T : messages[x].parent \in C
      BY <2>4, <3>1, <1>4 DEF Threading!UpwardClosed
    <3> QED BY <2>3, <2>4, <3>1, <3>2 DEF Threading!Cycle
  <2>6. \A x \in T : ~messages[x].dirty
    BY <2>4, <1>9
  <2> QED BY <2>5, <2>6 DEF LinkInv, CyclesAreMarked
<1>10. DecisionsHold'
  <2>1. DecisionSound(p)'
    BY <1>1, <1>3, <1>6, <1>9 DEF DecisionSound, Ring, ParentWith
  <2> QED BY <1>7, <2>1 DEF DecisionsHold
<1> QED BY <1>1, <1>7, <1>8, <1>10 DEF LinkInv, RowsShaped, OneDecides, LinksHold,
           CyclesAreMarked

(* What a pass writes when it finishes.                                    *)
DecidedRow(p) == threadPass[p].row
LinkedRows(p) == [messages EXCEPT ![DecidedRow(p)].parent = threadPass[p].parent,
                              ![DecidedRow(p)].link = threadPass[p].link]
DecidedRoot(p) == Threading!ChainRoot(LinkedRows(p), DecidedRow(p))
RootIsFresh(p) ==
  \/ Threading!Detached(messages[DecidedRow(p)], DecidedRow(p),
                        threadPass[p].parent, DecidedRoot(p))
  \/ LinkedRows(p)[DecidedRoot(p)].thread = 0
GivenThread(p) ==
  IF RootIsFresh(p) THEN CHOOSE n \in Threading!Thread : n \notin threads
  ELSE LinkedRows(p)[DecidedRoot(p)].thread
GetsGiven(p, x) ==
  x \in Threading!Subtree(LinkedRows(p), DecidedRow(p)) \/ (RootIsFresh(p) /\ x = DecidedRoot(p))

LEMMA LinkedWrites ==
  ASSUME RowsShaped, PassShape, NEW p \in Pass, Deciding(p)
  PROVE  /\ LinkedRows(p) = [x \in DOMAIN messages |-> LinkedRows(p)[x]]
         /\ \A x \in DOMAIN messages :
              /\ IsRow(LinkedRows(p)[x])
              /\ LinkedRows(p)[x].id = messages[x].id /\ LinkedRows(p)[x].ref = messages[x].ref
              /\ LinkedRows(p)[x].parent = ParentWith(DecidedRow(p), threadPass[p].parent, x)
              /\ LinkedRows(p)[x].link = IF x = DecidedRow(p) THEN threadPass[p].link ELSE messages[x].link
              /\ LinkedRows(p)[x].thread = messages[x].thread
              /\ LinkedRows(p)[x].dirty = messages[x].dirty /\ LinkedRows(p)[x].stored = messages[x].stored
<1> DEFINE r == DecidedRow(p)
           Relinked(m) == [f \in RowFields |-> IF f = "parent" THEN threadPass[p].parent ELSE
                                            IF f = "link" THEN threadPass[p].link ELSE m[f]]
<1>1. r \in DOMAIN messages /\ threadPass[p].link \in LinkKinds
  BY DEF PassShape, DecidedRow
<1>2. LinkedRows(p)[r] = Relinked(messages[r])
  BY <1>1 DEF RowsShaped, IsRow, RowFields, LinkedRows
<1>3. IsRow(Relinked(messages[r]))
  BY <1>1 DEF RowsShaped, IsRow, RowFields
<1>4. /\ Relinked(messages[r]).id = messages[r].id /\ Relinked(messages[r]).ref = messages[r].ref
      /\ Relinked(messages[r]).parent = threadPass[p].parent
      /\ Relinked(messages[r]).link = threadPass[p].link
      /\ Relinked(messages[r]).thread = messages[r].thread
      /\ Relinked(messages[r]).dirty = messages[r].dirty
      /\ Relinked(messages[r]).stored = messages[r].stored
  BY DEF RowFields
<1>5. \A x \in DOMAIN messages : x # r => LinkedRows(p)[x] = messages[x]
  BY <1>1 DEF LinkedRows
<1>6. LinkedRows(p) = [x \in DOMAIN messages |-> LinkedRows(p)[x]]
  BY DEF LinkedRows, RowsShaped
<1> HIDE DEF Relinked
<1> QED BY <1>2, <1>3, <1>4, <1>5, <1>6 DEF ParentWith, RowsShaped

LEMMA ResolveWrites ==
  ASSUME RowsShaped, PassShape, NEW p \in Pass, Deciding(p), Threading!Resolve(p)
  PROVE  /\ messages' = [x \in DOMAIN messages |-> messages'[x]]
         /\ \A x \in DOMAIN messages :
              /\ IsRow(messages'[x])
              /\ messages'[x].id = messages[x].id /\ messages'[x].ref = messages[x].ref
              /\ messages'[x].parent = ParentWith(DecidedRow(p), threadPass[p].parent, x)
              /\ messages'[x].link = IF x = DecidedRow(p) THEN threadPass[p].link ELSE messages[x].link
              /\ messages'[x].thread = IF GetsGiven(p, x) THEN GivenThread(p) ELSE messages[x].thread
              /\ messages'[x].dirty = (messages[x].dirty /\ x # DecidedRow(p))
              /\ messages'[x].stored = messages[x].stored
         /\ threads' = threads \cup {GivenThread(p)}
<1> DEFINE r == DecidedRow(p)
           rooted == IF RootIsFresh(p) THEN [LinkedRows(p) EXCEPT ![DecidedRoot(p)].thread = GivenThread(p)] ELSE LinkedRows(p)
           Moved(x) == [rooted[x] EXCEPT !.thread = IF x \in Threading!Subtree(LinkedRows(p), r) THEN GivenThread(p) ELSE rooted[x].thread,
                                         !.dirty = messages[x].dirty /\ x # r]
<1>1. messages' = [x \in DOMAIN messages |-> Moved(x)] /\ threads' = threads \cup {GivenThread(p)}
  BY DEF Threading!Resolve, DecidedRow, LinkedRows, DecidedRoot, RootIsFresh, GivenThread
<1> SUFFICES ASSUME NEW x \in DOMAIN messages
    PROVE     /\ IsRow(Moved(x))
              /\ Moved(x).id = messages[x].id /\ Moved(x).ref = messages[x].ref
              /\ Moved(x).parent = ParentWith(r, threadPass[p].parent, x)
              /\ Moved(x).link = IF x = r THEN threadPass[p].link ELSE messages[x].link
              /\ Moved(x).thread = IF GetsGiven(p, x) THEN GivenThread(p) ELSE messages[x].thread
              /\ Moved(x).dirty = (messages[x].dirty /\ x # r)
              /\ Moved(x).stored = messages[x].stored
  <2> HIDE DEF Moved
  <2> QED BY <1>1
<1>2. DOMAIN LinkedRows(p) = DOMAIN messages
  BY DEF LinkedRows
<1> DEFINE m == LinkedRows(p)[x]
           inSub == x \in Threading!Subtree(LinkedRows(p), r)
           given == GivenThread(p)
           still == messages[x].dirty /\ x # r
<1>3. /\ IsRow(m)
      /\ m.id = messages[x].id /\ m.ref = messages[x].ref
      /\ m.parent = ParentWith(r, threadPass[p].parent, x)
      /\ m.link = IF x = r THEN threadPass[p].link ELSE messages[x].link
      /\ m.thread = messages[x].thread
      /\ m.dirty = messages[x].dirty /\ m.stored = messages[x].stored
  BY LinkedWrites
<1>4. rooted[x] = IF RootIsFresh(p) /\ x = DecidedRoot(p) THEN [m EXCEPT !.thread = given] ELSE m
  BY <1>2, LinkedWrites
<1> DEFINE Now(k) == [f \in RowFields |-> IF f = "thread" THEN (IF GetsGiven(p, x) THEN given ELSE k.thread)
                        ELSE IF f = "dirty" THEN still ELSE k[f]]
<1> HIDE DEF m, inSub, rooted, given, still
<1>5. GetsGiven(p, x) <=> (inSub \/ (RootIsFresh(p) /\ x = DecidedRoot(p)))
  BY DEF GetsGiven, inSub
<1>6. Moved(x) = [rooted[x] EXCEPT !.thread = IF inSub THEN given ELSE rooted[x].thread,
                                              !.dirty = still]
  BY DEF inSub, given, still
<1>7. Moved(x) = Now(m)
  <2> HIDE DEF Moved
  <2>1. CASE RootIsFresh(p) /\ x = DecidedRoot(p)
    <3>1. rooted[x] = [f \in RowFields |-> IF f = "thread" THEN given ELSE m[f]]
      BY <1>3, <1>4, <2>1 DEF IsRow, RowFields
    <3>2. GetsGiven(p, x)
      BY <1>5, <2>1
    <3>3. rooted[x].thread = given
      BY <3>1 DEF RowFields
    <3>4. (IF inSub THEN given ELSE rooted[x].thread) = given
      BY <3>3
    <3>5. Moved(x) = [rooted[x] EXCEPT !.thread = given, !.dirty = still]
      BY <1>6, <3>4
    <3>6. Moved(x) = [f \in RowFields |-> IF f = "thread" THEN given ELSE
                                      IF f = "dirty" THEN still ELSE m[f]]
      BY <3>1, <3>5 DEF RowFields
    <3> QED BY <3>2, <3>6
  <2>2. CASE ~(RootIsFresh(p) /\ x = DecidedRoot(p))
    <3>1. rooted[x] = m
      BY <1>4, <2>2
    <3>2. GetsGiven(p, x) <=> inSub
      BY <2>2 DEF GetsGiven, inSub
    <3> DEFINE its == IF inSub THEN given ELSE m.thread
    <3>3. Moved(x) = [m EXCEPT !.thread = its, !.dirty = still]
      BY <1>6, <3>1
    <3>4. its = IF GetsGiven(p, x) THEN given ELSE m.thread
      BY <3>2
    <3> HIDE DEF its
    <3>5. Moved(x) = [f \in RowFields |-> IF f = "thread" THEN its ELSE
                                      IF f = "dirty" THEN still ELSE m[f]]
      BY <1>3, <3>3 DEF IsRow, RowFields
    <3> QED BY <3>4, <3>5
  <2> QED BY <2>1, <2>2
<1> HIDE DEF Moved
<1>8. Moved(x).dirty = still
  BY <1>7 DEF RowFields
<1>9. IsRow(Moved(x))
  <2>1. Moved(x) = [f \in RowFields |-> Moved(x)[f]]
    BY <1>7
  <2>2. Moved(x).link = m.link /\ Moved(x).stored = m.stored
    BY <1>7 DEF RowFields
  <2>3. still \in BOOLEAN
    BY Zenon DEF still
  <2> QED BY <1>3, <1>8, <2>1, <2>2, <2>3 DEF IsRow
<1> QED BY <1>3, <1>7, <1>8, <1>9 DEF RowFields, given, still

(* The row is clean after its pass, with a supported link, and the cycles  *)
(* it closed keep another mark.                                            *)
LEMMA FinishKeepsLinks ==
  ASSUME RowsAssumed, LinkInv, NEW p \in Pass, Threading!Finish(p)
  PROVE  LinkInv'
<1> DEFINE r == DecidedRow(p)
           h == threadPass[p].parent
<1>1. Deciding(p) /\ threadPass' = [threadPass EXCEPT ![p] = Threading!Idle] /\ mergedAway' = mergedAway
  BY DEF Threading!Finish, Deciding
<1>2. /\ r \in DOMAIN messages /\ h \in DOMAIN messages \cup {Threading!None}
  BY <1>1 DEF LinkInv, PassShape, DecidedRow
<1>3. Threading!Resolve(p)
  BY <1>2 DEF Threading!Finish
<1>4.    /\ messages' = [x \in DOMAIN messages |-> messages'[x]]
         /\ \A x \in DOMAIN messages :
              /\ IsRow(messages'[x])
              /\ messages'[x].id = messages[x].id /\ messages'[x].ref = messages[x].ref
              /\ messages'[x].parent = ParentWith(r, h, x)
              /\ messages'[x].link = IF x = r THEN threadPass[p].link ELSE messages[x].link
              /\ messages'[x].dirty = (messages[x].dirty /\ x # r)
  BY <1>1, <1>3, ResolveWrites DEF LinkInv
<1>5. DOMAIN messages' = DOMAIN messages
  BY <1>4
<1>6. \A x \in DOMAIN messages : Threading!Holders(messages', messages'[x].ref) = Threading!Holders(messages, messages[x].ref)
  BY <1>4, <1>5 DEF Threading!Holders
<1>7. \A q \in Pass : ~Deciding(q)'
  BY <1>1 DEF LinkInv, PassShape, OneDecides, Deciding
<1>8. LinksHold'
  <2> SUFFICES ASSUME NEW x \in DOMAIN messages, ~messages'[x].dirty
      PROVE  LinkSupported(messages', x, messages'[x].link, messages'[x].parent)
    BY <1>5 DEF LinksHold, LinkSupported
  <2>1. CASE x = r
    <3>1. LinkSupported(messages, r, threadPass[p].link, h)
      BY <1>1 DEF LinkInv, DecisionsHold, DecisionSound, DecidedRow
    <3> QED BY <1>4, <1>6, <2>1, <3>1 DEF LinkSupported, ParentWith
  <2>2. CASE x # r
    <3>1. LinkSupported(messages, x, messages[x].link, messages[x].parent)
      BY <1>4, <2>2 DEF LinkInv, LinksHold
    <3> QED BY <1>4, <1>6, <2>2, <3>1 DEF LinkSupported, ParentWith
  <2> QED BY <2>1, <2>2
<1>9. CyclesAreMarked'
  <2> SUFFICES ASSUME NEW S \in SUBSET DOMAIN messages, Threading!Cycle(messages', S)
      PROVE  \E x \in S : messages'[x].dirty
    BY <1>5 DEF CyclesAreMarked
  <2>1. Ring(r, h, S)
    BY <1>4 DEF Threading!Cycle, Ring
  <2>2. PICK x \in S \ {r} : messages[x].dirty
    BY <1>1, <2>1 DEF LinkInv, DecisionsHold, DecisionSound, DecidedRow
  <2> QED BY <1>4, <2>2
<1>10. RowsShaped'
  BY <1>1, <1>2, <1>4, <1>5 DEF LinkInv, RowsShaped, ParentWith
<1>11. PassShape'
  BY <1>1, <1>7 DEF LinkInv, PassShape
<1> QED BY <1>7, <1>8, <1>9, <1>10, <1>11 DEF LinkInv, OneDecides, DecisionsHold

LEMMA LinksBegin ==
  ASSUME RowsAssumed, Threading!Init
  PROVE  LinkInv
<1>1. DOMAIN messages = {} /\ \A p \in Pass : threadPass[p] = Threading!Idle
  BY DEF Threading!Init
<1>2. messages = [r \in DOMAIN messages |-> messages[r]]
  BY <1>1 DEF Threading!Init
<1> QED BY <1>1, <1>2 DEF Threading!Init, LinkInv, RowsShaped, PassShape, OneDecides,
           DecisionsHold, LinksHold,
                     CyclesAreMarked, Threading!Cycle, Deciding

LEMMA LinksStep ==
  ASSUME RowsAssumed, LinkInv, [Threading!Next]_threadsVars
  PROVE  LinkInv'
<1>1. ASSUME NEW window \in Windows, Threading!Import(window) PROVE LinkInv'
  BY <1>1, ImportLeaves, WritersKeepLinks DEF LinkInv
<1>2. ASSUME NEW r \in MessageRow, Threading!Ingest(r) PROVE LinkInv'
  <2> DEFINE same == {x \in DOMAIN messages : messages[x].stored /\ Content[x] = Content[r]}
  <2>1. r \in DOMAIN messages /\ ~messages[r].stored /\ UNCHANGED threadPass
    BY <1>2 DEF Threading!Ingest
  <2>2. CASE same = {}
    BY <1>2, <2>1, <2>2, ApplyLeaves, WritersKeepLinks DEF Threading!Ingest, LinkInv
  <2>3. CASE same # {}
    <3>1. PICK survivor \in same : Threading!MergeDuplicate(r, survivor)
      BY <1>2, <2>3 DEF Threading!Ingest
    <3>2. survivor \in DOMAIN messages /\ survivor # r
      BY <2>1
    <3> QED BY <2>1, <3>1, <3>2, MergeLeaves, WritersKeepLinks DEF LinkInv
  <2> QED BY <2>2, <2>3
<1>3. ASSUME NEW p \in Pass, NEW r \in MessageRow, Threading!Decide(p, r) PROVE LinkInv'
  BY <1>3, DecideKeepsLinks DEF Threading!Decide
<1>4. ASSUME NEW p \in Pass, Threading!Finish(p) PROVE LinkInv'
  BY <1>4, FinishKeepsLinks
<1>5. CASE Threading!PruneDetachedThreads \/ UNCHANGED threadsVars
  <2>1. UNCHANGED <<messages, mergedAway, threadPass>>
    BY <1>5 DEF Threading!PruneDetachedThreads, threadsVars
  <2> QED BY <2>1 DEF LinkInv, RowsShaped, PassShape, OneDecides, DecisionsHold,
             DecisionSound, LinksHold,
                     CyclesAreMarked, Deciding, Ring, ParentWith
<1> QED BY <1>1, <1>2, <1>3, <1>4, <1>5 DEF Threading!Next

LEMMA LinksAreSoundFollows ==
  ASSUME LinkInv
  PROVE  Threading!LinksAreSound
BY DEF LinkInv, Threading!LinksAreSound, CyclesAreMarked, LinksHold, LinkSupported,
   Threading!Settled

(* Whatever imports, merges and passes overlap, every parent cycle has a    *)
(* row that is still to be decided, and a settled link is the one the      *)
(* headers support (decideLink, markThreadJobsDirty, the account's lock).  *)
THEOREM LinksStaySound == FetchedSpec => []Threading!LinksAreSound
<1>1. FetchedInit => LinkInv
    BY RowsHold, LinksBegin DEF FetchedInit
<1>2. LinkInv /\ [FetchedNext]_fetchedVars => LinkInv'
    BY RowsHold, ThreadingAlone, LinksStep
<1>3. LinkInv => Threading!LinksAreSound
    BY LinksAreSoundFollows
<1>4. QED BY <1>1, <1>2, <1>3, PTL DEF FetchedSpec

-----------------------------------------------------------------------------
(* Conversations.  A mark is left wherever a thread does not follow its    *)
(* parent yet.                                                             *)

(* Chains of a table whose parents are stored.                             *)
WellLinked(rows) ==
  /\ Threading!None \notin DOMAIN rows
  /\ \A x \in DOMAIN rows : rows[x].parent \in DOMAIN rows \cup {Threading!None}

LEMMA ChainClosed ==
  ASSUME NEW rows, WellLinked(rows), NEW start \in DOMAIN rows
  PROVE  /\ start \in Threading!Chain(rows, start)
         /\ Threading!Chain(rows, start) \subseteq DOMAIN rows
         /\ Threading!UpwardClosed(rows, Threading!Chain(rows, start))
BY ChainIsClosed DEF WellLinked

LEMMA ChainOfMember ==
  ASSUME NEW rows, WellLinked(rows), NEW start \in DOMAIN rows, NEW x \in Threading!Chain(rows, start)
  PROVE  Threading!Chain(rows, x) \subseteq Threading!Chain(rows, start)
BY ChainClosed, ChainIsLeast

(* The chain of a row is the row and the chain of its parent. *)
LEMMA ChainSteps ==
  ASSUME NEW rows, WellLinked(rows), NEW x \in DOMAIN rows
  PROVE  /\ rows[x].parent = Threading!None => Threading!Chain(rows, x) = {x}
         /\ rows[x].parent # Threading!None => Threading!Chain(rows, x) = {x} \cup Threading!Chain(rows, rows[x].parent)
<1>1. x \in Threading!Chain(rows, x) /\ Threading!Chain(rows, x) \subseteq DOMAIN rows /\ Threading!UpwardClosed(rows, Threading!Chain(rows, x))
  BY ChainClosed
<1>2. ASSUME rows[x].parent = Threading!None PROVE Threading!Chain(rows, x) = {x}
  <2>1. Threading!UpwardClosed(rows, {x})
    BY <1>2 DEF Threading!UpwardClosed
  <2>2. Threading!Chain(rows, x) \subseteq {x}
    BY <2>1, ChainIsLeast
  <2> QED BY <1>1, <2>2
<1>3. ASSUME rows[x].parent # Threading!None PROVE Threading!Chain(rows, x) = {x} \cup Threading!Chain(rows, rows[x].parent)
  <2> DEFINE q == rows[x].parent
  <2>1. q \in DOMAIN rows /\ q \in Threading!Chain(rows, x)
    BY <1>1, <1>3 DEF Threading!UpwardClosed, WellLinked
  <2>2. q \in Threading!Chain(rows, q) /\ Threading!Chain(rows, q) \subseteq DOMAIN rows /\ Threading!UpwardClosed(rows, Threading!Chain(rows, q))
    BY <2>1, ChainClosed
  <2>3. Threading!UpwardClosed(rows, {x} \cup Threading!Chain(rows, q))
    BY <2>2 DEF Threading!UpwardClosed
  <2>4. Threading!Chain(rows, x) \subseteq {x} \cup Threading!Chain(rows, q)
    BY <2>2, <2>3, ChainIsLeast
  <2>5. Threading!Chain(rows, q) \subseteq Threading!Chain(rows, x)
    BY <2>1, ChainOfMember
  <2> QED BY <1>1, <2>4, <2>5
<1> QED BY <1>2, <1>3

(* Two tables that agree on the rows of a chain have that chain in common. *)
LEMMA ChainsAgree ==
  ASSUME NEW A, NEW B, WellLinked(A), NEW x \in DOMAIN A,
         \A y \in Threading!Chain(A, x) : y \in DOMAIN B /\ B[y].parent = A[y].parent
  PROVE  Threading!Chain(B, x) = Threading!Chain(A, x)
<1> DEFINE C == Threading!Chain(A, x)
<1>1. x \in C /\ C \subseteq DOMAIN A /\ Threading!UpwardClosed(A, C)
  BY ChainClosed
<1>2. C \subseteq DOMAIN B /\ Threading!UpwardClosed(B, C)
  BY <1>1 DEF Threading!UpwardClosed
<1>3. Threading!Chain(B, x) \subseteq C
  BY <1>1, <1>2, ChainIsLeast
<1>4. ASSUME NEW S \in SUBSET DOMAIN B, x \in S, Threading!UpwardClosed(B, S)
      PROVE  C \subseteq S
  <2>1. Threading!UpwardClosed(A, S \cap C)
    BY <1>1, <1>4 DEF Threading!UpwardClosed
  <2>2. S \cap C \in SUBSET DOMAIN A /\ x \in S \cap C
    BY <1>1, <1>4
  <2> HIDE DEF C
  <2>3. Threading!Chain(A, x) \subseteq S \cap C
    BY <2>1, <2>2, ChainIsLeast
  <2> QED BY <2>3 DEF C
<1> HIDE DEF C
<1>5. C \subseteq Threading!Chain(B, x)
  BY <1>2, <1>4 DEF Threading!Chain
<1> QED BY <1>3, <1>5 DEF C

(* A chain without an end meets itself, and its walk has a last row. *)
LEMMA LastReachedExists ==
  ASSUME NEW rows, WellLinked(rows), IsFiniteSet(DOMAIN rows), NEW start \in DOMAIN rows,
         \A x \in Threading!Chain(rows, start) : rows[x].parent # Threading!None
  PROVE  Threading!LastReached(rows, start) \in Threading!Chain(rows, start)
<1> DEFINE C == Threading!Chain(rows, start)
           Last(x) ==
             LET entry == rows[x].parent
             IN  /\ Threading!ChainReaches(rows, entry, x)
                 /\ entry = start \/ \E y \in C \ {x} : rows[y].parent = entry
           Closed == {S \in SUBSET C : S # {} /\ Threading!UpwardClosed(rows, S)}
<1>1. start \in C /\ C \subseteq DOMAIN rows /\ Threading!UpwardClosed(rows, C)
  BY ChainClosed
<1>2. PICK K \in Closed : \A S \in Closed : ~(S \subseteq K /\ S # K)
  <2>1. C \in Closed /\ IsFiniteSet(C)
    BY <1>1, FS_Subset
  <2>2. FiniteSubsetsOf(C) = SUBSET C
    BY <2>1, FS_FiniteSubsetsOfFinite
  <2> HIDE DEF C
  <2>3. Closed \subseteq FiniteSubsetsOf(C) /\ Closed # {}
    BY <2>1, <2>2
  <2>4. IsWellFoundedOn(StrictSubsetOrdering(C), FiniteSubsetsOf(C))
    BY FS_StrictSubsetOrderingWellFounded
  <2>5. PICK K \in Closed : \A S \in Closed : ~(<<S, K>> \in StrictSubsetOrdering(C))
    <3> HIDE DEF Closed
    <3> QED BY <2>3, <2>4, WFMin
  <2>6. \A S \in Closed : ~(S \subseteq K /\ S # K)
    BY <2>5 DEF StrictSubsetOrdering
  <2> QED BY <2>6
<1>3. K \subseteq C /\ K # {} /\ Threading!UpwardClosed(rows, K)
  OBVIOUS
<1>4. \A x \in K : rows[x].parent \in K
  BY <1>3 DEF Threading!UpwardClosed
<1>5. \A e \in K : \E x \in K : rows[x].parent = e
  <2> SUFFICES ASSUME NEW e \in K, \A x \in K : rows[x].parent # e
      PROVE  FALSE
    OBVIOUS
  <2>1. K \ {e} # {} /\ Threading!UpwardClosed(rows, K \ {e})
    BY <1>4 DEF Threading!UpwardClosed
  <2>2. K \ {e} \in Closed
    BY <1>3, <2>1
  <2> QED BY <1>2, <2>2
<1>6. \A e \in K : Threading!Chain(rows, e) = K
  <2> SUFFICES ASSUME NEW e \in K PROVE Threading!Chain(rows, e) = K
    OBVIOUS
  <2>1. K \in SUBSET DOMAIN rows
    BY <1>1, <1>3
  <2>2. Threading!Chain(rows, e) \subseteq K
    BY <1>3, <2>1, ChainIsLeast
  <2>3. e \in Threading!Chain(rows, e) /\ Threading!UpwardClosed(rows, Threading!Chain(rows, e))
    BY <2>1, ChainClosed
  <2>4. Threading!Chain(rows, e) \in Closed
    BY <1>3, <2>2, <2>3
  <2> QED BY <1>2, <2>2, <2>4
<1>7. PICK e \in K : e = start \/ \E y \in C \ K : rows[y].parent = e
  <2>1. CASE start \in K
    BY <2>1
  <2>2. CASE start \notin K
    <3>1. ~Threading!UpwardClosed(rows, C \ K)
      <4> SUFFICES ASSUME Threading!UpwardClosed(rows, C \ K) PROVE FALSE
        OBVIOUS
      <4>1. start \in C \ K /\ C \ K \in SUBSET DOMAIN rows
        BY <1>1, <2>2
      <4>2. C \subseteq C \ K
        BY <4>1, ChainIsLeast
      <4> QED BY <1>3, <4>2
    <3>2. PICK y \in C \ K : rows[y].parent \notin (C \ K) \cup {Threading!None}
      BY <3>1 DEF Threading!UpwardClosed
    <3>3. rows[y].parent \in K
      BY <1>1, <3>2 DEF Threading!UpwardClosed
    <3> QED BY <3>2, <3>3
  <2> QED BY <2>1, <2>2
<1>8. PICK x \in K : rows[x].parent = e
  BY <1>5
<1>9. x \in C /\ Last(x)
  <2>1. x \in Threading!Chain(rows, e)
    BY <1>6
  <2> QED BY <1>3, <1>7, <1>8, <2>1 DEF Threading!ChainReaches
<1>10. Threading!LastReached(rows, start) = CHOOSE z \in C : Last(z)
  BY DEF Threading!LastReached
<1> HIDE DEF C, Last
<1> QED BY <1>9, <1>10 DEF C


Marked(rows, r) == \E x \in Threading!Chain(rows, r) : rows[x].dirty
(* The parent is named by one of the two parses of the row, which is not   *)
(* the name of the row itself.                                             *)
NamesParent(x, y) ==
  \/ HeaderParse[x].ref = HeaderParse[y].id /\ HeaderParse[x].ref # HeaderParse[x].id
  \/ messages[x].stored /\ FullParse[x].ref = HeaderParse[y].id /\ FullParse[x].ref # FullParse[x].id

(* Threads: clean rows have one, a row has its parent's unless a mark is   *)
(* left above it, and two parentless rows never share one.                 *)
ThreadsTyped ==
  /\ threads \subseteq Threading!Thread
  /\ \A r \in DOMAIN messages : messages[r].thread \in threads \cup {0}
  /\ \A p \in Pass : Deciding(p) => threads # Threading!Thread
NamesParsed == \A r \in DOMAIN messages :
  /\ messages[r].id = IF messages[r].stored THEN FullParse[r].id ELSE HeaderParse[r].id
  /\ messages[r].ref = IF messages[r].stored THEN FullParse[r].ref ELSE HeaderParse[r].ref
ParentsNamed ==
  /\ \A r \in DOMAIN messages :
       messages[r].parent # Threading!None /\ ~messages[messages[r].parent].stored
         => NamesParent(r, messages[r].parent)
  /\ \A p \in Pass : Deciding(p) /\ threadPass[p].parent # Threading!None =>
       messages[threadPass[p].row].ref # messages[threadPass[p].row].id
CleanHaveThreads == \A r \in DOMAIN messages : ~messages[r].dirty => messages[r].thread # 0
ThreadsInherited == \A r \in DOMAIN messages : messages[r].parent # Threading!None =>
  messages[r].thread = messages[messages[r].parent].thread \/ Marked(messages, r)
RootsApart == \A r, s \in DOMAIN messages :
  r # s /\ messages[r].parent = Threading!None /\ messages[s].parent = Threading!None /\ messages[r].thread # 0
    => messages[r].thread # messages[s].thread
ThreadInv ==
  /\ LinkInv /\ ThreadsTyped /\ NamesParsed /\ ParentsNamed
  /\ CleanHaveThreads /\ ThreadsInherited /\ RootsApart

LEMMA RowsLinked ==
  ASSUME RowsAssumed, RowsShaped
  PROVE  WellLinked(messages) /\ IsFiniteSet(DOMAIN messages)
BY FS_Subset DEF RowsShaped, RowsAssumed, WellLinked

(* With no mark left, every chain has an end, its rows share one thread,   *)
(* and two ends have two.                                                  *)
LEMMA ThreadsFollow ==
  ASSUME RowsAssumed, ThreadInv
  PROVE  Threading!ThreadsFollowLinks
<1> SUFFICES ASSUME \A r \in DOMAIN messages : ~messages[r].dirty,
                    NEW r \in DOMAIN messages, NEW s \in DOMAIN messages
    PROVE  messages[r].thread = messages[s].thread <=> Threading!ChainRoot(messages, r) = Threading!ChainRoot(messages, s)
  BY DEF Threading!ThreadsFollowLinks, Threading!Settled
<1>1. WellLinked(messages)
  BY RowsLinked DEF ThreadInv, LinkInv
<1>2. ASSUME NEW x \in DOMAIN messages
      PROVE  /\ Threading!ChainRoot(messages, x) \in DOMAIN messages
             /\ messages[Threading!ChainRoot(messages, x)].parent = Threading!None
             /\ messages[Threading!ChainRoot(messages, x)].thread = messages[x].thread
  <2> DEFINE C == Threading!Chain(messages, x)
             top == {y \in C : messages[y].parent = Threading!None}
  <2>1. x \in C /\ C \subseteq DOMAIN messages /\ Threading!UpwardClosed(messages, C)
    BY <1>1, ChainClosed
  <2>2. top # {}
    <3> SUFFICES ASSUME \A y \in C : messages[y].parent # Threading!None PROVE FALSE
      OBVIOUS
    <3>1. Threading!Cycle(messages, C)
      BY <2>1 DEF Threading!UpwardClosed, Threading!Cycle
    <3> QED BY <2>1, <3>1 DEF ThreadInv, LinkInv, CyclesAreMarked
  <2>3. Threading!ChainRoot(messages, x) \in top
    BY <2>2 DEF Threading!ChainRoot
  <2> DEFINE E == {y \in C : messages[y].thread = messages[x].thread}
  <2>4. ASSUME NEW y \in E, messages[y].parent # Threading!None PROVE messages[y].parent \in E
    <3>1. messages[y].parent \in C
      BY <2>1, <2>4 DEF Threading!UpwardClosed
    <3>2. ~Marked(messages, y)
      BY <1>1, <2>1, ChainClosed DEF Marked
    <3>3. messages[y].thread = messages[messages[y].parent].thread
      BY <2>1, <2>4, <3>2 DEF ThreadInv, ThreadsInherited
    <3> QED BY <3>1, <3>3
  <2>5. Threading!UpwardClosed(messages, E)
    BY <2>4 DEF Threading!UpwardClosed
  <2>6. x \in E /\ E \in SUBSET DOMAIN messages
    BY <2>1
  <2> HIDE DEF E
  <2>7. C \subseteq E
    BY <2>5, <2>6, ChainIsLeast
  <2> QED BY <2>1, <2>3, <2>7 DEF E
<1> DEFINE a == Threading!ChainRoot(messages, r)
           b == Threading!ChainRoot(messages, s)
<1>3. /\ a \in DOMAIN messages /\ messages[a].parent = Threading!None /\ messages[a].thread = messages[r].thread
      /\ b \in DOMAIN messages /\ messages[b].parent = Threading!None /\ messages[b].thread = messages[s].thread
  BY <1>2
<1> HIDE DEF a, b
<1>4. messages[a].thread # 0
  BY <1>3 DEF ThreadInv, CleanHaveThreads
<1>5. messages[a].thread = messages[b].thread => a = b
  BY <1>3, <1>4 DEF ThreadInv, RootsApart
<1>6. messages[r].thread = messages[s].thread <=> a = b
  BY <1>3, <1>5
<1> QED BY <1>6 DEF a, b

(* What a writer leaves of the threads. *)
LEMMA WritersKeepThreads ==
  ASSUME RowsAssumed, ThreadInv, LinkInv', LeavesTheRest, UNCHANGED threads,
         \A x \in DOMAIN messages' : x \in DOMAIN messages =>
            messages'[x].thread = messages[x].thread,
         \A x \in DOMAIN messages' : x \notin DOMAIN messages => messages'[x].thread = 0,
         \A x \in DOMAIN messages' : x \in DOMAIN messages /\ messages'[x].parent = Threading!None
            => messages[x].parent = Threading!None
  PROVE  ThreadsTyped' /\ CleanHaveThreads' /\ RootsApart'
<1>1. ThreadsTyped'
  <2>1. \A p \in Pass : Deciding(p)' <=> Deciding(p)
    BY DEF LeavesTheRest, Deciding, Threading!Idle
  <2> QED BY <2>1 DEF ThreadInv, ThreadsTyped, Threading!Thread
<1>2. CleanHaveThreads'
  BY DEF CleanHaveThreads, ThreadInv, LeavesTheRest, CleanOrLocked, RowKept
<1>3. RootsApart'
  <2>1. 0 \notin threads
    BY DEF ThreadInv, ThreadsTyped, Threading!Thread
  <2> QED BY <2>1 DEF RootsApart, ThreadInv
<1> QED BY <1>1, <1>2, <1>3

(* A decided parent is never the row itself, whatever is written           *)
(* meanwhile.                                                              *)
LEMMA KeptNames ==
  ASSUME RowsAssumed, ThreadInv, LeavesTheRest, NEW p \in Pass, Deciding(p)'
  PROVE  threadPass'[p].parent # Threading!None =>
           messages'[threadPass'[p].row].ref # messages'[threadPass'[p].row].id
<1>1. threadPass' = threadPass
  BY DEF LeavesTheRest
<1>2. Deciding(p)
  BY <1>1 DEF Deciding, Threading!Idle
<1>3. threadPass[p].row \in DOMAIN messages /\ threadPass[p].row \in Threading!Locked
  BY <1>2 DEF ThreadInv, LinkInv, PassShape, Threading!Locked
<1>4. RowKept(threadPass[p].row)
  BY <1>3 DEF LeavesTheRest, CleanOrLocked
<1>5. threadPass[p].parent # Threading!None => messages[threadPass[p].row].ref # messages[threadPass[p].row].id
  BY <1>2 DEF ThreadInv, ParentsNamed
<1>6. /\ messages'[threadPass[p].row].ref = messages[threadPass[p].row].ref
      /\ messages'[threadPass[p].row].id = messages[threadPass[p].row].id
  BY <1>4 DEF RowKept
<1> QED BY <1>1, <1>5, <1>6

LEMMA ImportKeepsThreads ==
  ASSUME RowsAssumed, ThreadInv, NEW window \in Windows, Threading!Import(window)
  PROVE  ThreadInv'
<1>1.    /\ LeavesTheRest /\ RowsShaped' /\ UNCHANGED threads
         /\ DOMAIN messages' = DOMAIN messages \cup window /\ window \cap DOMAIN messages = {}
         /\ \A x \in DOMAIN messages : StaysSame(x) /\ messages'[x].parent = messages[x].parent
         /\ \A x \in window : /\ messages'[x].id = HeaderParse[x].id /\ messages'[x].ref = HeaderParse[x].ref
                             /\ messages'[x].parent = Threading!None /\ messages'[x].thread = 0
                             /\ ~messages'[x].stored
  BY ImportLeaves DEF ThreadInv, LinkInv
<1>2. LinkInv'
  BY <1>1, WritersKeepLinks DEF ThreadInv
<1>3. ThreadsTyped' /\ CleanHaveThreads' /\ RootsApart'
  BY <1>1, <1>2, WritersKeepThreads DEF StaysSame
<1>4. NamesParsed'
  BY <1>1 DEF ThreadInv, NamesParsed, StaysSame
<1>5. WellLinked(messages)
  BY RowsLinked DEF ThreadInv, LinkInv
<1>6. \A x \in DOMAIN messages : messages[x].parent # Threading!None => messages[x].parent \in DOMAIN messages
  BY <1>5 DEF WellLinked
<1>7. ParentsNamed'
  <2>1. ASSUME NEW x \in DOMAIN messages', messages'[x].parent # Threading!None, ~messages'[messages'[x].parent].stored
        PROVE  NamesParent(x, messages[x].parent)'
    BY <1>1, <1>6, <2>1 DEF ThreadInv, ParentsNamed, NamesParent, StaysSame
  <2>2. ASSUME NEW p \in Pass, Deciding(p)', threadPass'[p].parent # Threading!None
        PROVE  messages'[threadPass'[p].row].ref # messages'[threadPass'[p].row].id
    BY <1>1, <2>2, KeptNames
  <2> QED BY <2>1, <2>2 DEF ParentsNamed, NamesParent
<1>8. ThreadsInherited'
  <2> SUFFICES ASSUME NEW x \in DOMAIN messages', messages'[x].parent # Threading!None
      PROVE  messages'[x].thread = messages'[messages'[x].parent].thread \/ Marked(messages', x)
    BY DEF ThreadsInherited, Marked
  <2>1. x \in DOMAIN messages /\ messages[x].parent # Threading!None
    BY <1>1
  <2>2. Threading!Chain(messages', x) = Threading!Chain(messages, x)
    BY <1>1, <1>5, <2>1, ChainClosed, ChainsAgree
  <2>3. Marked(messages, x) => Marked(messages', x)
    BY <1>1, <1>5, <2>1, <2>2, ChainClosed DEF Marked, StaysSame
  <2> QED BY <1>1, <1>6, <2>1, <2>3 DEF ThreadInv, ThreadsInherited, StaysSame
<1> QED BY <1>2, <1>3, <1>4, <1>7, <1>8 DEF ThreadInv

LEMMA ApplyKeepsThreads ==
  ASSUME RowsAssumed, ThreadInv, NEW r \in DOMAIN messages, Threading!ApplyIngested(r), ~messages[r].stored,
         UNCHANGED <<threads, threadPass>>
  PROVE  ThreadInv'
<1>1.    /\ LeavesTheRest /\ RowsShaped' /\ DOMAIN messages' = DOMAIN messages
         /\ \A x \in DOMAIN messages : x # r => StaysSame(x)
         /\ \A x \in DOMAIN messages :
              /\ messages'[x].parent = messages[x].parent /\ messages'[x].thread = messages[x].thread
              /\ messages[x].dirty => messages'[x].dirty
         /\ messages'[r].id = FullParse[r].id /\ messages'[r].ref = FullParse[r].ref /\ messages'[r].stored = TRUE
  BY ApplyLeaves DEF ThreadInv, LinkInv
<1>2. LinkInv'
  BY <1>1, WritersKeepLinks DEF ThreadInv
<1>3. ThreadsTyped' /\ CleanHaveThreads' /\ RootsApart'
  BY <1>1, <1>2, WritersKeepThreads
<1>4. NamesParsed'
  BY <1>1 DEF ThreadInv, NamesParsed, StaysSame
<1>5. WellLinked(messages)
  BY RowsLinked DEF ThreadInv, LinkInv
<1>6. \A x \in DOMAIN messages : messages[x].parent # Threading!None => messages[x].parent \in DOMAIN messages
  BY <1>5 DEF WellLinked
<1>7. ParentsNamed'
  <2>1. ASSUME NEW x \in DOMAIN messages', messages'[x].parent # Threading!None, ~messages'[messages'[x].parent].stored
        PROVE  NamesParent(x, messages[x].parent)'
    <3>1. messages[x].stored => messages'[x].stored
      BY <1>1, <2>1 DEF StaysSame
    <3>2. messages'[x].parent = messages[x].parent /\ ~messages[messages[x].parent].stored
      BY <1>1, <1>6, <2>1 DEF StaysSame
    <3> QED BY <1>1, <2>1, <3>1, <3>2 DEF ThreadInv, ParentsNamed, NamesParent
  <2>2. ASSUME NEW p \in Pass, Deciding(p)', threadPass'[p].parent # Threading!None
        PROVE  messages'[threadPass'[p].row].ref # messages'[threadPass'[p].row].id
    BY <1>1, <2>2, KeptNames
  <2> QED BY <2>1, <2>2 DEF ParentsNamed, NamesParent
<1>8. ThreadsInherited'
  <2> SUFFICES ASSUME NEW x \in DOMAIN messages', messages'[x].parent # Threading!None
      PROVE  messages'[x].thread = messages'[messages'[x].parent].thread \/ Marked(messages', x)
    BY DEF ThreadsInherited, Marked
  <2>1. x \in DOMAIN messages /\ messages[x].parent # Threading!None
    BY <1>1
  <2>2. Threading!Chain(messages', x) = Threading!Chain(messages, x)
    BY <1>1, <1>5, <2>1, ChainClosed, ChainsAgree
  <2>3. Marked(messages, x) => Marked(messages', x)
    BY <1>1, <1>5, <2>1, <2>2, ChainClosed DEF Marked
  <2> QED BY <1>1, <1>6, <2>1, <2>3 DEF ThreadInv, ThreadsInherited
<1> QED BY <1>2, <1>3, <1>4, <1>7, <1>8 DEF ThreadInv

(* A survivor is never the child of its own copy, so a merge makes no row  *)
(* parentless; what hung below the copy now has the marked survivor above  *)
(* it.                                                                     *)
LEMMA MergeKeepsThreads ==
  ASSUME RowsAssumed, CopiesAgree, ParsesAgree, ThreadInv, NEW r \in DOMAIN messages, ~messages[r].stored,
         NEW survivor \in DOMAIN messages, messages[survivor].stored, Content[survivor] = Content[r],
         Threading!MergeDuplicate(r, survivor), UNCHANGED <<threads, threadPass>>
  PROVE  ThreadInv'
<1>0. survivor # r
  OBVIOUS
<1>1.    /\ LeavesTheRest /\ RowsShaped' /\ DOMAIN messages' = DOMAIN messages \ {r}
         /\ messages'[survivor].dirty
         /\ \A x \in DOMAIN messages \ {r} :
              /\ StaysSame(x)
              /\ messages'[x].parent = IF messages[x].parent # r THEN messages[x].parent
                                       ELSE IF x = survivor THEN Threading!None ELSE survivor
  BY <1>0, MergeLeaves DEF ThreadInv, LinkInv
<1>2. LinkInv'
  BY <1>1, WritersKeepLinks DEF ThreadInv
<1>3. messages[survivor].parent # r
  <2> SUFFICES ASSUME messages[survivor].parent = r PROVE FALSE
    OBVIOUS
  <2>1. r # Threading!None /\ r \in MessageRow /\ survivor \in MessageRow
    BY DEF RowsAssumed, ThreadInv, LinkInv, RowsShaped
  <2>2. NamesParent(survivor, r)
    BY <2>1 DEF ThreadInv, ParentsNamed
  <2>3. HeaderParse[survivor] = HeaderParse[r]
    BY <2>1 DEF CopiesAgree
  <2> QED BY <2>1, <2>2, <2>3 DEF NamesParent, ParsesAgree
<1>4. ThreadsTyped' /\ CleanHaveThreads' /\ RootsApart'
  BY <1>0, <1>1, <1>2, <1>3, WritersKeepThreads DEF StaysSame, RowsAssumed, ThreadInv,
     LinkInv, RowsShaped
<1>5. NamesParsed'
  BY <1>1 DEF ThreadInv, NamesParsed, StaysSame
<1>6. WellLinked(messages)
  BY RowsLinked DEF ThreadInv, LinkInv
<1>7. \A x \in DOMAIN messages : messages[x].parent # Threading!None => messages[x].parent \in DOMAIN messages
  BY <1>6 DEF WellLinked
<1>8. ParentsNamed'
  <2>1. ASSUME NEW x \in DOMAIN messages', messages'[x].parent # Threading!None, ~messages'[messages'[x].parent].stored
        PROVE  NamesParent(x, messages[x].parent)'
    <3>1. messages'[survivor].stored
      BY <1>0, <1>1 DEF StaysSame
    <3>2. messages[x].parent # r
      BY <1>0, <1>1, <2>1, <3>1
    <3>3. messages'[x].parent = messages[x].parent
      BY <1>1, <2>1, <3>2
    <3>4. messages[x].parent \in DOMAIN messages \ {r}
      BY <1>1, <1>7, <2>1, <3>2, <3>3
    <3> QED BY <1>1, <2>1, <3>3, <3>4 DEF ThreadInv, ParentsNamed, NamesParent, StaysSame
  <2>2. ASSUME NEW p \in Pass, Deciding(p)', threadPass'[p].parent # Threading!None
        PROVE  messages'[threadPass'[p].row].ref # messages'[threadPass'[p].row].id
    BY <1>1, <2>2, KeptNames
  <2> QED BY <2>1, <2>2 DEF ParentsNamed, NamesParent
<1>9. ThreadsInherited'
  <2> SUFFICES ASSUME NEW x \in DOMAIN messages', messages'[x].parent # Threading!None
      PROVE  messages'[x].thread = messages'[messages'[x].parent].thread \/ Marked(messages', x)
    BY DEF ThreadsInherited, Marked
  <2> DEFINE C == Threading!Chain(messages, x)
  <2>1. x \in DOMAIN messages \ {r}
    BY <1>1
  <2>2. x \in C /\ C \subseteq DOMAIN messages /\ Threading!UpwardClosed(messages, C)
    BY <1>6, <2>1, ChainClosed
  <2>3. CASE r \in C
    <3>1. ASSUME NEW S \in SUBSET DOMAIN messages', x \in S, Threading!UpwardClosed(messages', S), survivor \notin S
          PROVE  FALSE
      <4>1. ASSUME NEW z \in S \cap C PROVE messages[z].parent \in (S \cap C) \cup {Threading!None}
        <5>1. z \in DOMAIN messages \ {r} /\ z # survivor /\ messages'[z].parent \in S \cup {Threading!None}
          BY <1>1, <3>1, <4>1 DEF Threading!UpwardClosed
        <5>2. messages'[z].parent # survivor
          BY <3>1, <5>1, <1>6 DEF WellLinked
        <5>3. messages'[z].parent = messages[z].parent
          BY <1>1, <5>1, <5>2
        <5> QED BY <2>2, <5>1, <5>3 DEF Threading!UpwardClosed
      <4>2. Threading!UpwardClosed(messages, S \cap C)
        BY <4>1 DEF Threading!UpwardClosed
      <4>3. x \in S \cap C /\ S \cap C \in SUBSET DOMAIN messages
        BY <2>2, <3>1
      <4> HIDE DEF C
      <4>4. Threading!Chain(messages, x) \subseteq S \cap C
        BY <4>2, <4>3, ChainIsLeast
      <4> QED BY <1>1, <2>3, <3>1, <4>4 DEF C
    <3>2. survivor \in Threading!Chain(messages', x)
      BY <1>0, <1>1, <3>1 DEF Threading!Chain
    <3> QED BY <1>1, <3>2 DEF Marked
  <2>4. CASE r \notin C
    <3>1. \A z \in C : messages[z].parent # r
      BY <2>2, <2>4, <1>6 DEF Threading!UpwardClosed, WellLinked, ThreadInv, LinkInv,
         RowsShaped, RowsAssumed
    <3>2. \A z \in C : z \in DOMAIN messages' /\ messages'[z].parent = messages[z].parent
      BY <1>1, <2>2, <2>4, <3>1
    <3>3. Threading!Chain(messages', x) = C
      BY <1>6, <2>1, <3>2, ChainsAgree
    <3>4. Marked(messages, x) => Marked(messages', x)
      BY <1>1, <2>2, <2>4, <3>3 DEF Marked, StaysSame
    <3>5. messages[x].parent \in C
      BY <2>2, <3>2 DEF Threading!UpwardClosed
    <3>6. messages[x].parent \in DOMAIN messages \ {r}
      BY <2>2, <2>4, <3>5
    <3> QED BY <1>1, <2>1, <2>2, <3>2, <3>4, <3>6 DEF ThreadInv, ThreadsInherited, StaysSame
  <2> QED BY <2>3, <2>4
<1> QED BY <1>2, <1>4, <1>5, <1>8, <1>9 DEF ThreadInv

LEMMA DecideKeepsThreads ==
  ASSUME RowsAssumed, ThreadInv, NEW p \in Pass, NEW r \in DOMAIN messages, Threading!Decide(p, r)
  PROVE  ThreadInv'
<1> DEFINE d == Threading!DecideLink(messages, r)
<1>1. /\ threadPass' = [threadPass EXCEPT ![p] = [row |-> r, link |-> d.link, parent |-> d.parent]]
      /\ UNCHANGED <<messages, mergedAway, threads>> /\ threads # Threading!Thread /\ Threading!Locked = {Threading!None}
  BY DEF Threading!Decide, Threading!AdvisoryLock
<1>2. d.parent # Threading!None => messages[r].ref # messages[r].id
  <2> SUFFICES ASSUME messages[r].ref = messages[r].id PROVE d.parent = Threading!None
    OBVIOUS
  <2>1. CASE messages[r].ref = Threading!None
    BY <2>1 DEF Threading!DecideLink, Threading!Decision
  <2>2. CASE messages[r].ref # Threading!None
    <3>1. d = Threading!Decision("ambiguous", Threading!None)
      BY <2>2 DEF Threading!DecideLink
    <3> QED BY <3>1 DEF Threading!Decision
  <2> QED BY <2>1, <2>2
<1> HIDE DEF d
<1>3. LinkInv'
  BY DecideKeepsLinks DEF ThreadInv
<1>4. \A q \in Pass : q # p => threadPass'[q] = threadPass[q]
  BY <1>1 DEF ThreadInv, LinkInv, PassShape
<1>5. threadPass'[p].row = r /\ threadPass'[p].parent = d.parent
  BY <1>1 DEF ThreadInv, LinkInv, PassShape
<1>6. ThreadsTyped'
  BY <1>1 DEF ThreadInv, ThreadsTyped
<1>7. ParentsNamed'
  <2>1. ASSUME NEW q \in Pass, Deciding(q)', threadPass'[q].parent # Threading!None
        PROVE  messages[threadPass'[q].row].ref # messages[threadPass'[q].row].id
    <3>1. CASE q = p
      BY <1>2, <1>5, <2>1, <3>1
    <3>2. CASE q # p
      <4>1. threadPass'[q] = threadPass[q] /\ Deciding(q)
        BY <1>4, <2>1, <3>2 DEF Deciding, Threading!Idle
      <4> QED BY <2>1, <4>1 DEF ThreadInv, ParentsNamed
    <3> QED BY <3>1, <3>2
  <2> QED BY <1>1, <2>1 DEF ThreadInv, ParentsNamed, NamesParent
<1> QED BY <1>1, <1>3, <1>6, <1>7 DEF ThreadInv, NamesParsed, CleanHaveThreads,
           ThreadsInherited, RootsApart, Marked

(* The root of the deciding row, as the pass finds it. *)
Endless(p) ==
  \A x \in Threading!Chain(LinkedRows(p), DecidedRow(p)) : LinkedRows(p)[x].parent # Threading!None

LEMMA RootFound ==
  ASSUME RowsAssumed, ThreadInv, NEW p \in Pass, Deciding(p)
  PROVE  /\ WellLinked(LinkedRows(p)) /\ DOMAIN LinkedRows(p) = DOMAIN messages
         /\ DecidedRow(p) \in DOMAIN messages
         /\ DecidedRoot(p) \in Threading!Chain(LinkedRows(p), DecidedRow(p))
         /\ ~Endless(p) => LinkedRows(p)[DecidedRoot(p)].parent = Threading!None
<1>1. DecidedRow(p) \in DOMAIN messages /\ threadPass[p].parent \in DOMAIN messages \cup {Threading!None}
  BY DEF ThreadInv, LinkInv, PassShape, DecidedRow
<1>2. WellLinked(messages) /\ IsFiniteSet(DOMAIN messages)
  BY RowsLinked DEF ThreadInv, LinkInv
<1>3. WellLinked(LinkedRows(p)) /\ DOMAIN LinkedRows(p) = DOMAIN messages
  BY <1>1, <1>2, LinkedWrites DEF ThreadInv, LinkInv, WellLinked, ParentWith
<1> DEFINE top == {x \in Threading!Chain(LinkedRows(p), DecidedRow(p)) : LinkedRows(p)[x].parent = Threading!None}
<1>4. CASE top = {}
  <2>1. DecidedRoot(p) = Threading!LastReached(LinkedRows(p), DecidedRow(p))
    BY <1>4 DEF DecidedRoot, Threading!ChainRoot
  <2>2. \A x \in Threading!Chain(LinkedRows(p), DecidedRow(p)) : LinkedRows(p)[x].parent # Threading!None
    BY <1>4
  <2>3. DecidedRoot(p) \in Threading!Chain(LinkedRows(p), DecidedRow(p))
    BY <1>1, <1>2, <1>3, <2>1, <2>2, LastReachedExists
  <2> QED BY <1>1, <1>3, <2>2, <2>3 DEF Endless
<1>5. CASE top # {}
  <2>1. DecidedRoot(p) \in top
    BY <1>5 DEF DecidedRoot, Threading!ChainRoot
  <2> QED BY <1>1, <1>3, <2>1
<1> QED BY <1>4, <1>5

(* A part of an endless chain that no parent leaves keeps a mark of its own. *)
MarkedBesides(p, x) ==
  \E y \in Threading!Chain(LinkedRows(p), x) \ {DecidedRow(p)} : messages[y].dirty

LEMMA EndlessIsMarked ==
  ASSUME RowsAssumed, ThreadInv, NEW p \in Pass, Deciding(p), Endless(p), NEW x \in Threading!Chain(LinkedRows(p), DecidedRow(p))
  PROVE  MarkedBesides(p, x)
<1> DEFINE C == Threading!Chain(LinkedRows(p), x)
<1>1. WellLinked(LinkedRows(p)) /\ DOMAIN LinkedRows(p) = DOMAIN messages /\ DecidedRow(p) \in DOMAIN messages
  BY RootFound
<1>2. x \in DOMAIN messages /\ C \subseteq Threading!Chain(LinkedRows(p), DecidedRow(p))
  BY <1>1, ChainClosed, ChainOfMember
<1>3. x \in C /\ C \subseteq DOMAIN messages /\ Threading!UpwardClosed(LinkedRows(p), C)
  BY <1>1, <1>2, ChainClosed
<1>4. Ring(DecidedRow(p), threadPass[p].parent, C)
  BY <1>2, <1>3, LinkedWrites DEF Ring, Threading!UpwardClosed, Endless, ThreadInv, LinkInv
<1> QED BY <1>3, <1>4 DEF ThreadInv, LinkInv, DecisionsHold, DecisionSound, DecidedRow,
           MarkedBesides

(* A mark above a row of the chain is a mark above the row.                *)
LEMMA LeftAbove ==
  ASSUME RowsAssumed, ThreadInv, NEW p \in Pass, Deciding(p), NEW x \in DOMAIN messages,
         NEW y \in Threading!Chain(LinkedRows(p), x), MarkedBesides(p, y)
  PROVE  MarkedBesides(p, x)
<1>1. Threading!Chain(LinkedRows(p), y) \subseteq Threading!Chain(LinkedRows(p), x)
  BY RootFound, ChainOfMember
<1> QED BY <1>1 DEF MarkedBesides

(* A root other than the row itself that has no thread yet is marked. *)
LEMMA FreshIsMarked ==
  ASSUME RowsAssumed, ThreadInv, NEW p \in Pass, Deciding(p), RootIsFresh(p), DecidedRoot(p) # DecidedRow(p)
  PROVE  MarkedBesides(p, DecidedRoot(p))
<1>1.    /\ WellLinked(LinkedRows(p)) /\ DOMAIN LinkedRows(p) = DOMAIN messages
         /\ DecidedRow(p) \in DOMAIN messages
         /\ DecidedRoot(p) \in Threading!Chain(LinkedRows(p), DecidedRow(p))
         /\ ~Endless(p) => LinkedRows(p)[DecidedRoot(p)].parent = Threading!None
  BY RootFound
<1>2. DecidedRoot(p) \in DOMAIN messages
  BY <1>1, ChainClosed
<1>3. messages[DecidedRoot(p)].thread = 0
  BY <1>2, LinkedWrites DEF RootIsFresh, Threading!Detached, ThreadInv, LinkInv
<1>4. messages[DecidedRoot(p)].dirty
  BY <1>2, <1>3 DEF ThreadInv, CleanHaveThreads
<1>5. DecidedRoot(p) \in Threading!Chain(LinkedRows(p), DecidedRoot(p))
  BY <1>1, <1>2, ChainClosed
<1> QED BY <1>4, <1>5 DEF MarkedBesides

(* The chain of a row outside the subtree is the same before and after. *)
LEMMA OutsideSame ==
  ASSUME RowsAssumed, ThreadInv, NEW p \in Pass, Deciding(p), NEW x \in DOMAIN messages,
         DecidedRow(p) \notin Threading!Chain(LinkedRows(p), x)
  PROVE  /\ Threading!Chain(messages, x) = Threading!Chain(LinkedRows(p), x)
         /\ Marked(messages, x) => MarkedBesides(p, x)
         /\ \A y \in Threading!Chain(LinkedRows(p), x) : LinkedRows(p)[y].parent = messages[y].parent
<1> DEFINE C == Threading!Chain(LinkedRows(p), x)
<1>1. WellLinked(LinkedRows(p)) /\ DOMAIN LinkedRows(p) = DOMAIN messages
  BY RootFound
<1>2. x \in C /\ C \subseteq DOMAIN messages
  BY <1>1, ChainClosed
<1>3. \A y \in C : LinkedRows(p)[y].parent = messages[y].parent
  BY <1>2, LinkedWrites DEF ParentWith, ThreadInv, LinkInv
<1>4. Threading!Chain(messages, x) = C
  BY <1>1, <1>2, <1>3, ChainsAgree
<1> QED BY <1>3, <1>4 DEF MarkedBesides, Marked

(* Below the row all get the root's thread; the rows between the row and   *)
(* the root have it already or a mark of their own; a fresh thread is      *)
(* nobody else's.                                                          *)
LEMMA FinishKeepsThreads ==
  ASSUME RowsAssumed, ThreadInv, NEW p \in Pass, Threading!Finish(p)
  PROVE  ThreadInv'
<1> DEFINE r == DecidedRow(p)
           h == threadPass[p].parent
           L == LinkedRows(p)
           root == DecidedRoot(p)
           t == GivenThread(p)
<1>1. /\ Deciding(p) /\ threadPass' = [threadPass EXCEPT ![p] = Threading!Idle]
      /\ r \in DOMAIN messages /\ h \in DOMAIN messages \cup {Threading!None}
  BY DEF Threading!Finish, Deciding, ThreadInv, LinkInv, PassShape, DecidedRow
<1>2. Threading!Resolve(p)
  BY <1>1 DEF Threading!Finish
<1>3.    /\ messages' = [x \in DOMAIN messages |-> messages'[x]]
         /\ \A x \in DOMAIN messages :
              /\ messages'[x].id = messages[x].id /\ messages'[x].ref = messages[x].ref
              /\ messages'[x].parent = ParentWith(r, h, x)
              /\ messages'[x].thread = IF GetsGiven(p, x) THEN t ELSE messages[x].thread
              /\ messages'[x].dirty = (messages[x].dirty /\ x # r)
              /\ messages'[x].stored = messages[x].stored
         /\ threads' = threads \cup {t}
  BY <1>1, <1>2, ResolveWrites DEF ThreadInv, LinkInv
<1>4.    /\ WellLinked(L) /\ DOMAIN L = DOMAIN messages
         /\ root \in Threading!Chain(L, r)
         /\ ~Endless(p) => L[root].parent = Threading!None
  BY <1>1, RootFound
<1>5. root \in DOMAIN messages
  BY <1>1, <1>4, ChainClosed
<1>6. \A x \in DOMAIN messages : L[x].parent = ParentWith(r, h, x) /\ L[x].thread = messages[x].thread
  BY <1>1, LinkedWrites DEF ThreadInv, LinkInv
<1>7. DOMAIN messages' = DOMAIN messages
  BY <1>3
<1>8. \A q \in Pass : ~Deciding(q)'
  BY <1>1 DEF ThreadInv, LinkInv, PassShape, OneDecides, Deciding
<1>9. t \in Threading!Thread /\ t # 0 /\ (RootIsFresh(p) => t \notin threads) /\ (~RootIsFresh(p) => t = messages[root].thread)
  <2>1. CASE RootIsFresh(p)
    <3>1. \E n \in Threading!Thread : n \notin threads
      BY <1>1 DEF ThreadInv, ThreadsTyped
    <3> QED BY <2>1, <3>1 DEF GivenThread, Threading!Thread
  <2>2. CASE ~RootIsFresh(p)
    <3>1. t = messages[root].thread /\ messages[root].thread # 0
      BY <1>5, <1>6, <2>2 DEF GivenThread, RootIsFresh
    <3> QED BY <1>5, <2>2, <3>1 DEF ThreadInv, ThreadsTyped
  <2> QED BY <2>1, <2>2
<1>10. \A x \in DOMAIN messages : GetsGiven(p, x) <=> (r \in Threading!Chain(L, x) \/ (RootIsFresh(p) /\ x = root))
  BY <1>4 DEF GetsGiven, Threading!Subtree, Threading!ChainReaches
<1>11. \A x \in DOMAIN messages : Threading!Chain(messages', x) = Threading!Chain(L, x)
  <2> SUFFICES ASSUME NEW x \in DOMAIN messages PROVE Threading!Chain(messages', x) = Threading!Chain(L, x)
    OBVIOUS
  <2>1. \A y \in Threading!Chain(L, x) : y \in DOMAIN messages' /\ messages'[y].parent = L[y].parent
    BY <1>3, <1>4, <1>6, <1>7, ChainClosed
  <2> QED BY <1>4, <2>1, ChainsAgree
<1>12. ASSUME NEW x \in DOMAIN messages, MarkedBesides(p, x) PROVE Marked(messages', x)
  BY <1>3, <1>4, <1>11, <1>12, ChainClosed DEF MarkedBesides, Marked
<1>13. \A x \in DOMAIN messages : L[x].parent = Threading!None => Threading!Chain(L, x) = {x}
  BY <1>4, ChainSteps
<1>14. \A x \in DOMAIN messages : L[x].parent # Threading!None =>
         L[x].parent \in DOMAIN messages /\ Threading!Chain(L, x) = {x} \cup Threading!Chain(L, L[x].parent)
  BY <1>4, ChainSteps DEF WellLinked
<1>15. LinkInv'
  BY FinishKeepsLinks DEF ThreadInv
<1> HIDE DEF r, h, L, root, t
<1>16. ThreadsTyped'
  BY <1>3, <1>7, <1>8, <1>9 DEF ThreadInv, ThreadsTyped, Threading!Thread
<1>17. NamesParsed'
  BY <1>3, <1>7 DEF ThreadInv, NamesParsed
<1>18. CleanHaveThreads'
  <2> SUFFICES ASSUME NEW x \in DOMAIN messages, ~messages'[x].dirty, messages'[x].thread = 0 PROVE FALSE
    BY <1>7 DEF CleanHaveThreads
  <2>1. x = r => GetsGiven(p, x)
    BY <1>1, <1>4, <1>10, ChainClosed
  <2> QED BY <1>3, <1>9, <2>1 DEF ThreadInv, CleanHaveThreads
<1>19. RootsApart'
  <2> SUFFICES ASSUME NEW x \in DOMAIN messages, NEW y \in DOMAIN messages, x # y,
                      L[x].parent = Threading!None, L[y].parent = Threading!None, messages'[x].thread # 0,
                      messages'[x].thread = messages'[y].thread
      PROVE  FALSE
    BY <1>3, <1>6, <1>7 DEF RootsApart
  <2>1. ASSUME NEW z \in DOMAIN messages, L[z].parent = Threading!None
        PROVE  /\ GetsGiven(p, z) => z = root
               /\ z = root /\ RootIsFresh(p) => messages'[z].thread = t
               /\ ~(z = root /\ RootIsFresh(p)) => messages'[z].thread = messages[z].thread /\ messages[z].parent = Threading!None
    <3>1. r \in Threading!Chain(L, z) => z = r
      BY <1>13, <2>1
    <3>2. z = r => z = root
      <4> SUFFICES ASSUME z = r PROVE z = root
        OBVIOUS
      <4> QED BY <1>4, <1>13, <2>1
    <3>3. GetsGiven(p, z) => z = root
      BY <1>10, <2>1, <3>1, <3>2
    <3>4. z = root /\ RootIsFresh(p) => messages'[z].thread = t
      BY <1>3, <1>10, <2>1
    <3>5. ASSUME ~(z = root /\ RootIsFresh(p)) PROVE messages'[z].thread = messages[z].thread /\ messages[z].parent = Threading!None
      <4>1. messages'[z].thread = messages[z].thread
        BY <1>3, <1>9, <2>1, <3>3, <3>5
      <4>2. CASE z # r
        BY <1>6, <2>1, <4>1, <4>2 DEF ParentWith
      <4>3. CASE z = r
        <5>1. root = r /\ ~RootIsFresh(p)
          BY <3>2, <3>5, <4>3
        <5>2. h = Threading!None
          BY <1>6, <2>1, <4>3 DEF ParentWith
        <5> QED BY <4>1, <4>3, <5>1, <5>2 DEF RootIsFresh, Threading!Detached, r, h, root
      <4> QED BY <4>2, <4>3
    <3> QED BY <3>3, <3>4, <3>5
  <2>2. CASE x = root /\ RootIsFresh(p)
    <3>1. messages'[y].thread = messages[y].thread /\ messages'[x].thread = t
      BY <2>1, <2>2
    <3> QED BY <1>9, <2>2, <3>1 DEF ThreadInv, ThreadsTyped
  <2>3. CASE y = root /\ RootIsFresh(p)
    <3>1. messages'[x].thread = messages[x].thread /\ messages'[y].thread = t
      BY <2>1, <2>3
    <3> QED BY <1>9, <2>3, <3>1 DEF ThreadInv, ThreadsTyped
  <2>4. CASE ~(x = root /\ RootIsFresh(p)) /\ ~(y = root /\ RootIsFresh(p))
    <3>1. /\ messages'[x].thread = messages[x].thread /\ messages[x].parent = Threading!None
          /\ messages'[y].thread = messages[y].thread /\ messages[y].parent = Threading!None
      BY <2>1, <2>4
    <3> QED BY <3>1 DEF ThreadInv, RootsApart
  <2> QED BY <2>2, <2>3, <2>4
<1>20. ThreadsInherited'
  <2> SUFFICES ASSUME NEW x \in DOMAIN messages, L[x].parent # Threading!None, ~MarkedBesides(p, x)
      PROVE  messages'[x].thread = messages'[L[x].parent].thread
    BY <1>3, <1>6, <1>7, <1>12 DEF ThreadsInherited, Marked
  <2> DEFINE q == L[x].parent
  <2>1. q \in DOMAIN messages /\ Threading!Chain(L, x) = {x} \cup Threading!Chain(L, q) /\ x \in Threading!Chain(L, x)
        /\ q \in Threading!Chain(L, q) /\ Threading!Chain(L, x) \subseteq DOMAIN messages
    BY <1>4, <1>14, ChainClosed
  <2> HIDE DEF q
  <2>2. ASSUME RootIsFresh(p), root # r PROVE root \notin Threading!Chain(L, x)
    <3>1. MarkedBesides(p, root)
      BY <1>1, <2>2, FreshIsMarked DEF r, root
    <3> QED BY <1>1, <3>1, LeftAbove DEF L
  <2>3. CASE r \notin Threading!Chain(L, x)
    <3>1. ~GetsGiven(p, x) /\ ~GetsGiven(p, q)
      <4>1. r \notin Threading!Chain(L, q) /\ x # r
        BY <2>1, <2>3
      <4>2. ASSUME RootIsFresh(p) PROVE x # root /\ q # root
        BY <2>1, <2>2, <2>3, <4>2
      <4> QED BY <1>10, <2>1, <2>3, <4>1, <4>2
    <3>2. ~Marked(messages, x) /\ L[x].parent = messages[x].parent
      BY <1>1, <2>1, <2>3, OutsideSame DEF L, r
    <3>3. messages[x].thread = messages[q].thread
      BY <3>2 DEF ThreadInv, ThreadsInherited, q
    <3> QED BY <1>3, <2>1, <3>1, <3>3 DEF q
  <2>4. CASE r \in Threading!Chain(L, q)
    <3>1. GetsGiven(p, x) /\ GetsGiven(p, q)
      BY <1>10, <2>1, <2>4
    <3> QED BY <1>3, <2>1, <3>1 DEF q
  <2>5. CASE r \in Threading!Chain(L, x) /\ r \notin Threading!Chain(L, q)
    <3>1. x = r
      BY <2>1, <2>5
    <3>2. messages'[x].thread = t
      BY <1>3, <1>10, <2>5
    <3>3. ~Endless(p)
      <4> SUFFICES ASSUME Endless(p) PROVE FALSE
        OBVIOUS
      <4> QED BY <1>1, <2>1, <3>1, EndlessIsMarked DEF L, r
    <3>4. L[root].parent = Threading!None /\ root # r /\ root \in Threading!Chain(L, q)
      BY <1>4, <2>1, <3>1, <3>3
    <3>5. ~RootIsFresh(p)
      BY <1>4, <2>2, <3>1, <3>4
    <3>6. ~GetsGiven(p, q)
      BY <1>10, <2>1, <2>5, <3>5
    <3> DEFINE E == {z \in Threading!Chain(L, q) : messages[z].thread = messages[q].thread}
    <3>7. Threading!UpwardClosed(L, Threading!Chain(L, q))
      BY <1>4, <2>1, ChainClosed
    <3>8. ASSUME NEW z \in E, L[z].parent # Threading!None PROVE L[z].parent \in E
      <4>1. z \in DOMAIN messages /\ z \in Threading!Chain(L, x)
        BY <2>1
      <4>2. Threading!Chain(L, z) \subseteq Threading!Chain(L, q) /\ L[z].parent \in Threading!Chain(L, q)
        BY <1>4, <2>1, <3>7, <3>8, ChainOfMember DEF Threading!UpwardClosed
      <4>3. r \notin Threading!Chain(L, z) /\ ~MarkedBesides(p, z)
        BY <1>1, <2>5, <4>1, <4>2, LeftAbove DEF L
      <4>4. ~Marked(messages, z) /\ L[z].parent = messages[z].parent
        <5>1. z \in Threading!Chain(L, z)
          BY <1>4, <4>1, ChainClosed
        <5> QED BY <1>1, <4>1, <4>3, <5>1, OutsideSame DEF L, r
      <4>5. messages[z].thread = messages[L[z].parent].thread
        BY <3>8, <4>1, <4>4 DEF ThreadInv, ThreadsInherited
      <4> QED BY <4>2, <4>5
    <3>9. Threading!UpwardClosed(L, E)
      BY <3>8 DEF Threading!UpwardClosed
    <3>10. q \in E /\ E \in SUBSET DOMAIN L
      BY <1>4, <2>1
    <3> HIDE DEF E
    <3>11. root \in E
      BY <3>4, <3>9, <3>10, ChainIsLeast
    <3>12. messages[root].thread = messages[q].thread
      BY <3>11 DEF E
    <3> QED BY <1>3, <1>9, <2>1, <3>2, <3>5, <3>6, <3>12 DEF q
  <2> QED BY <2>3, <2>4, <2>5
<1>21. ParentsNamed'
  <2> SUFFICES ASSUME NEW x \in DOMAIN messages, messages'[x].parent # Threading!None,
                      ~messages'[messages'[x].parent].stored
      PROVE  NamesParent(x, messages'[x].parent)
    BY <1>3, <1>7, <1>8 DEF ParentsNamed, NamesParent
  <2>1. L[x].parent # Threading!None /\ L[x].parent = messages'[x].parent
    BY <1>3, <1>6
  <2>2. messages'[x].parent \in DOMAIN messages /\ ~messages[messages'[x].parent].stored
    BY <1>3, <1>14, <2>1
  <2>3. CASE x # r
    BY <1>3, <2>2, <2>3 DEF ThreadInv, ParentsNamed, ParentWith
  <2>4. CASE x = r
    <3>1. h # Threading!None /\ h = messages'[x].parent
      BY <1>3, <2>4 DEF ParentWith
    <3>2. Threading!Holders(messages, messages[r].ref) = {h}
      BY <1>1, <3>1 DEF ThreadInv, LinkInv, DecisionsHold, DecisionSound,
         LinkSupported, r, h, DecidedRow
    <3>3. messages[h].id = messages[r].ref
      BY <3>2 DEF Threading!Holders
    <3>4. messages[r].ref # messages[r].id
      BY <1>1, <3>1 DEF ThreadInv, ParentsNamed, r, h, DecidedRow
    <3> QED BY <1>1, <2>2, <2>4, <3>1, <3>3, <3>4 DEF ThreadInv, NamesParsed, NamesParent
  <2> QED BY <2>3, <2>4
<1> QED BY <1>15, <1>16, <1>17, <1>18, <1>19, <1>20, <1>21 DEF ThreadInv

LEMMA PruneKeepsThreads ==
  ASSUME RowsAssumed, ThreadInv, Threading!PruneDetachedThreads \/ UNCHANGED threadsVars
  PROVE  ThreadInv'
<1>1. UNCHANGED <<messages, mergedAway, threadPass>>
  BY DEF Threading!PruneDetachedThreads, threadsVars
<1>2. LinkInv'
  BY LinksStep DEF ThreadInv, Threading!Next, threadsVars
<1>3. ThreadsTyped'
  <2>1. threads' = threads \/ threads' = {messages[r].thread : r \in DOMAIN messages} \ {0}
    BY DEF Threading!PruneDetachedThreads, threadsVars
  <2>2. \A r \in DOMAIN messages : messages[r].thread \in threads \cup {0}
    BY DEF ThreadInv, ThreadsTyped
  <2>3. threads' \subseteq threads /\ \A r \in DOMAIN messages : messages[r].thread \in threads' \cup {0}
    BY <2>1, <2>2
  <2>4. threads \subseteq Threading!Thread /\ \A p \in Pass : Deciding(p) => threads # Threading!Thread
    BY DEF ThreadInv, ThreadsTyped
  <2>5. \A p \in Pass : Deciding(p) => threads' # Threading!Thread
    BY <2>3, <2>4
  <2> QED BY <1>1, <2>3, <2>4, <2>5 DEF ThreadsTyped, Deciding
<1> QED BY <1>1, <1>2, <1>3 DEF ThreadInv, NamesParsed, ParentsNamed, NamesParent,
           CleanHaveThreads, ThreadsInherited,
                        RootsApart, Marked, Deciding

LEMMA ThreadsStep ==
  ASSUME RowsAssumed, CopiesAgree, ParsesAgree, ThreadInv, [Threading!Next]_threadsVars
  PROVE  ThreadInv'
<1>1. ASSUME NEW window \in Windows, Threading!Import(window) PROVE ThreadInv'
  BY <1>1, ImportKeepsThreads
<1>2. ASSUME NEW r \in MessageRow, Threading!Ingest(r) PROVE ThreadInv'
  <2> DEFINE same == {x \in DOMAIN messages : messages[x].stored /\ Content[x] = Content[r]}
  <2>1. r \in DOMAIN messages /\ ~messages[r].stored /\ UNCHANGED <<threads, threadPass>>
    BY <1>2 DEF Threading!Ingest
  <2>2. CASE same = {}
    BY <1>2, <2>1, <2>2, ApplyKeepsThreads DEF Threading!Ingest
  <2>3. CASE same # {}
    <3>1. PICK survivor \in same : Threading!MergeDuplicate(r, survivor)
      BY <1>2, <2>3 DEF Threading!Ingest
    <3> QED BY <2>1, <3>1, MergeKeepsThreads
  <2> QED BY <2>2, <2>3
<1>3. ASSUME NEW p \in Pass, NEW r \in MessageRow, Threading!Decide(p, r) PROVE ThreadInv'
  BY <1>3, DecideKeepsThreads DEF Threading!Decide
<1>4. ASSUME NEW p \in Pass, Threading!Finish(p) PROVE ThreadInv'
  BY <1>4, FinishKeepsThreads
<1>5. CASE Threading!PruneDetachedThreads \/ UNCHANGED threadsVars
  BY <1>5, PruneKeepsThreads
<1> QED BY <1>1, <1>2, <1>3, <1>4, <1>5 DEF Threading!Next

LEMMA ThreadsBegin ==
  ASSUME RowsAssumed, Threading!Init
  PROVE  ThreadInv
<1>1. DOMAIN messages = {} /\ threads = {} /\ \A p \in Pass : threadPass[p] = Threading!Idle
  BY DEF Threading!Init
<1> QED BY <1>1, LinksBegin DEF ThreadInv, ThreadsTyped, NamesParsed, ParentsNamed,
           CleanHaveThreads,
             ThreadsInherited, RootsApart, Deciding

(* Where copies of one message parse alike, and no header block yields the *)
(* name its message refers to: with no job left, linked rows share one     *)
(* thread and unlinked rows never do, whatever was imported, merged and    *)
(* decided in whatever order (reconcileRow, propagateThread, mergeDuplicate). *)
THEOREM ConversationsHold == CopiesAgree /\ ParsesAgree => (FetchedSpec => []ThreadsFollowLinks)
<1> SUFFICES ASSUME CopiesAgree, ParsesAgree PROVE FetchedSpec => []ThreadsFollowLinks
    OBVIOUS
<1>1. FetchedInit => ThreadInv
    BY RowsHold, ThreadsBegin DEF FetchedInit
<1>2. ThreadInv /\ [FetchedNext]_fetchedVars => ThreadInv'
    BY RowsHold, ThreadingAlone, ThreadsStep
<1>3. ThreadInv => ThreadsFollowLinks
    BY RowsHold, LinksAreSoundFollows, ThreadsFollow DEF ThreadInv, ThreadsFollowLinks
<1>4. QED BY <1>1, <1>2, <1>3, PTL DEF FetchedSpec

=============================================================================
