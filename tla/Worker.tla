------------------------------- MODULE Worker -------------------------------
(***************************************************************************)
(* The worker process (apps/worker/src/main.ts and shutdown.ts): it waits  *)
(* for the recovery controls, starts the job queue, recovers what a crash  *)
(* left, registers its handlers, arms the schedules and then runs cycles   *)
(* until a signal stops it.  The sync job visits the accounts one by one   *)
(* (runAccountCycle, SyncRunner), and the health report reads what each    *)
(* cycle recorded (packages/observability/src/health.ts).  "send" stands   *)
(* for the three queues of the standard policy.                            *)
(***************************************************************************)
EXTENDS Naturals, FiniteSets, Sequences

CONSTANTS Accounts,        \* the accounts in the order a cycle visits them
          MaxGeneration, MaxWaiting, MaxStarts,   \* bounds
          NoGeneration

VARIABLES database,    \* the recovery state: generation and whether ready
          worker,      \* the process: step of its setup, signal, stop gate
          starts,      \* processes started so far
          schedule,    \* the generation each queue's schedule stamps on its jobs
          waiting,     \* the generations of the jobs that wait, per queue
          syncJob,       \* the sync job a handler runs
          status,      \* the newest sync.status event of each account
          backlog,     \* accounts with bodies still to fetch
          volumeFull

vars == <<database, worker, starts, schedule, waiting, syncJob, status, backlog, volumeFull>>

Queue == {"sync", "send"}
Account == {Accounts[i] : i \in DOMAIN Accounts}
Setup == <<"wait", "queue", "recover", "work sync", "work send",
           "arm sync", "arm send", "gate", "run">>
StepOf(name) == CHOOSE i \in DOMAIN Setup : Setup[i] = name

Off == [at |-> 0, signal |-> FALSE, stopping |-> FALSE, env |-> NoGeneration,
        generation |-> NoGeneration]
NoCycle == [at |-> "idle", generation |-> NoGeneration, next |-> 1, ran |-> <<>>]
Never == [errors |-> FALSE, fresh |-> FALSE, recorded |-> FALSE]

Init ==
  /\ database = [generation |-> 1, ready |-> TRUE]
  /\ worker = Off /\ starts = 0
  /\ schedule = [q \in Queue |-> NoGeneration]
  /\ waiting = [q \in Queue |-> <<>>]
  /\ syncJob = NoCycle
  /\ status = [a \in Account |-> Never]
  /\ backlog = Account /\ volumeFull = FALSE

At(name) == worker.at = StepOf(name)
Registered(q) == worker.at > StepOf(IF q = "sync" THEN "work sync" ELSE "work send")
QueueRuns == worker.at > StepOf("queue") /\ ~worker.stopping
Reached(name) == worker' = [worker EXCEPT !.at = StepOf(name)]
Ready == database.ready /\ database.generation = worker.env

Jobs == <<schedule, waiting, syncJob>>
Mailboxes == <<status, backlog, volumeFull>>

-----------------------------------------------------------------------------
(* Start and stop.                                                         *)

Start ==
  /\ worker = Off /\ starts < MaxStarts /\ starts' = starts + 1
  /\ worker' = [Off EXCEPT !.at = 1, !.env = database.generation]
  /\ UNCHANGED <<database, Jobs, Mailboxes>>

WaitForReady ==
  /\ At("wait") /\ Ready
  /\ worker' = [worker EXCEPT !.at = StepOf("queue"), !.generation = database.generation]
  /\ UNCHANGED <<database, starts, Jobs, Mailboxes>>

\* A signal ends the wait itself: no queue exists yet.
WaitAborted ==
  /\ At("wait") /\ worker.signal /\ worker' = Off
  /\ UNCHANGED <<database, starts, Jobs, Mailboxes>>

\* Without a credentials key the process ends as soon as the queue runs.
StartQueue(credentialsKey) ==
  /\ At("queue")
  /\ IF credentialsKey THEN Reached("recover") ELSE worker' = Off
  /\ UNCHANGED <<database, starts, Jobs, Mailboxes>>

Recover ==
  /\ At("recover") /\ Reached("work sync")
  /\ UNCHANGED <<database, starts, Jobs, Mailboxes>>

\* A sync queue of another policy is deleted with its jobs.
Work(q, recreated) ==
  /\ At(IF q = "sync" THEN "work sync" ELSE "work send")
  /\ Reached(IF q = "sync" THEN "work send" ELSE "arm sync")
  /\ recreated => q = "sync" /\ starts = 1
  /\ waiting' = IF recreated THEN [waiting EXCEPT ![q] = <<>>] ELSE waiting
  /\ UNCHANGED <<database, starts, schedule, syncJob, Mailboxes>>

\* A schedule of an earlier generation is replaced.
ArmedOnce(q) == schedule[q] # NoGeneration
Armed(q) == schedule[q] = worker.generation
ArmSchedule(q) ==
  /\ At(IF q = "sync" THEN "arm sync" ELSE "arm send")
  /\ Reached(IF q = "sync" THEN "arm send" ELSE "gate")
  /\ schedule' = IF Armed(q) THEN schedule ELSE [schedule EXCEPT ![q] = worker.generation]
  /\ UNCHANGED <<database, starts, waiting, syncJob, Mailboxes>>

\* A signal that came during setup is honoured when the gate is installed.
StopsLate(w) == FALSE
StopsNow(w) == w.signal
ArmStop ==
  /\ At("gate")
  /\ worker' = [worker EXCEPT !.at = StepOf("run"), !.stopping = StopsNow(worker)]
  /\ UNCHANGED <<database, starts, Jobs, Mailboxes>>

Signal ==
  /\ worker.at > 0 /\ ~worker.signal
  /\ worker' = [worker EXCEPT !.signal = TRUE, !.stopping = At("run")]
  /\ UNCHANGED <<database, starts, Jobs, Mailboxes>>

\* The queue stops once the cycle in flight ended, or when its grace is over.
StopWorker(graceOver) ==
  /\ worker.stopping /\ (graceOver \/ syncJob = NoCycle)
  /\ worker' = Off
  /\ waiting' = IF syncJob = NoCycle THEN waiting
                ELSE [waiting EXCEPT !["sync"] = <<syncJob.generation>>]
  /\ syncJob' = NoCycle
  /\ UNCHANGED <<database, starts, schedule, Mailboxes>>

\* The job of a killed process expires and waits again.
Crash ==
  /\ worker # Off /\ worker' = Off /\ syncJob' = NoCycle
  /\ waiting' = IF syncJob = NoCycle THEN waiting
                ELSE [waiting EXCEPT !["sync"] = <<syncJob.generation>>]
  /\ UNCHANGED <<database, starts, schedule, Mailboxes>>

-----------------------------------------------------------------------------
(* Jobs.  The sync queue admits one queued or active job.                  *)

Tick(q) ==
  /\ QueueRuns /\ schedule[q] # NoGeneration
  /\ IF q = "sync" THEN waiting[q] = <<>> /\ syncJob = NoCycle ELSE Len(waiting[q]) < MaxWaiting
  /\ waiting' = [waiting EXCEPT ![q] = Append(@, schedule[q])]
  /\ UNCHANGED <<database, worker, starts, schedule, syncJob, Mailboxes>>

Takes(q) ==
  /\ QueueRuns /\ Registered(q) /\ waiting[q] # <<>> /\ (q = "sync" => syncJob = NoCycle)
  /\ waiting' = [waiting EXCEPT ![q] = Tail(@)]

\* assessJob: a job of another generation never executes.
Execute(q) ==
  /\ Takes(q) /\ Ready /\ Head(waiting[q]) = database.generation
  /\ syncJob' = IF q = "sync" THEN [NoCycle EXCEPT !.at = "visiting", !.generation = Head(waiting[q])]
              ELSE syncJob
  /\ UNCHANGED <<database, worker, starts, schedule, Mailboxes>>

Discard(q) ==
  /\ Takes(q) /\ Ready /\ Head(waiting[q]) # database.generation
  /\ UNCHANGED <<database, worker, starts, schedule, syncJob, Mailboxes>>

\* A blocked job fails; the queue retries it while it has attempts left.
Blocked(q, again) ==
  /\ QueueRuns /\ Registered(q) /\ waiting[q] # <<>> /\ (q = "sync" => syncJob = NoCycle)
  /\ ~Ready
  /\ waiting' = [waiting EXCEPT ![q] = IF again THEN Append(Tail(@), Head(@)) ELSE Tail(@)]
  /\ UNCHANGED <<database, worker, starts, schedule, syncJob, Mailboxes>>

-----------------------------------------------------------------------------
(* One account's cycle: folders, bodies and threads each contain their     *)
(* failures and the summary counts them; what fails outside them, such as  *)
(* the connection, is one sync.failed event.                               *)

Visited == Accounts[syncJob.next]

\* With the volume full every body fails to be stored.
Outcomes(a) == {"failed", "errors"} \cup
               IF volumeFull /\ a \in backlog THEN {"full"} ELSE {"clean"}

RecordStatus(outcome) == [errors |-> outcome # "clean", fresh |-> TRUE, recorded |-> TRUE]

RunAccountCycle(outcome) ==
  /\ syncJob.at = "visiting" /\ syncJob.next <= Len(Accounts) /\ ~worker.signal
  /\ outcome \in Outcomes(Visited)
  /\ syncJob' = [syncJob EXCEPT !.next = @ + 1, !.ran = Append(@, outcome)]
  /\ status' = IF outcome = "failed" THEN status
               ELSE [status EXCEPT ![Visited] = RecordStatus(outcome)]
  /\ backlog' = IF outcome = "clean" THEN backlog \ {Visited} ELSE backlog
  /\ UNCHANGED <<database, worker, starts, schedule, waiting, volumeFull>>

\* The loop ends after the last account or at a signal.
EndCycle ==
  /\ syncJob.at = "visiting" /\ (syncJob.next > Len(Accounts) \/ worker.signal)
  /\ syncJob' = NoCycle
  /\ UNCHANGED <<database, worker, starts, schedule, waiting, Mailboxes>>

-----------------------------------------------------------------------------
(* The surroundings.                                                       *)

\* A restore brings back the queue with its old jobs and schedules; the
\* operator begins recovery under a new generation and completes it later.
Restore ==
  /\ worker = Off /\ database.generation < MaxGeneration
  /\ database' = [generation |-> database.generation + 1, ready |-> FALSE]
  /\ UNCHANGED <<worker, starts, Jobs, Mailboxes>>

CompleteRecovery ==
  /\ ~database.ready /\ database' = [database EXCEPT !.ready = TRUE]
  /\ UNCHANGED <<worker, starts, Jobs, Mailboxes>>

\* recovery begin can also run beside a live worker.
BeginRecovery ==
  /\ worker # Off /\ database.ready /\ database.generation < MaxGeneration
  /\ database' = [generation |-> database.generation + 1, ready |-> FALSE]
  /\ UNCHANGED <<worker, starts, Jobs, Mailboxes>>

Arrive(a) ==
  /\ a \notin backlog /\ backlog' = backlog \cup {a}
  /\ UNCHANGED <<database, worker, starts, Jobs, status, volumeFull>>

FillVolume ==
  /\ volumeFull' = ~volumeFull
  /\ UNCHANGED <<database, worker, starts, Jobs, status, backlog>>

\* More than SYNC_STALE_AFTER_SECONDS pass.
GrowStale(a) ==
  /\ status[a].fresh /\ status' = [status EXCEPT ![a].fresh = FALSE]
  /\ UNCHANGED <<database, worker, starts, Jobs, backlog, volumeFull>>

ProcessStep ==
  \/ Start \/ WaitForReady \/ WaitAborted \/ Recover \/ ArmStop \/ Signal \/ Crash
  \/ \E b \in BOOLEAN : StartQueue(b) \/ StopWorker(b)
  \/ \E q \in Queue : ArmSchedule(q) \/ \E b \in BOOLEAN : Work(q, b)

JobStep ==
  \/ \E q \in Queue : Tick(q) \/ Execute(q) \/ Discard(q)
  \/ \E q \in Queue, b \in BOOLEAN : Blocked(q, b)
  \/ \E outcome \in {"clean", "errors", "full", "failed"} : RunAccountCycle(outcome)
  \/ EndCycle

Elsewhere ==
  \/ Restore \/ CompleteRecovery \/ BeginRecovery \/ FillVolume
  \/ \E a \in Account : Arrive(a) \/ GrowStale(a)

Next == ProcessStep \/ JobStep \/ Elsewhere
Spec == Init /\ [][Next]_vars

-----------------------------------------------------------------------------
(* The health report of one account (syncStateOf).                         *)

AgeFirst(a) ==
  IF ~status[a].recorded THEN "unknown"
  ELSE IF ~status[a].fresh THEN "stale"
  ELSE IF status[a].errors THEN "degraded"
  ELSE IF a \in backlog THEN "syncing" ELSE "ok"

SyncStateOf(a) ==
  IF ~status[a].recorded THEN "unknown"
  ELSE IF status[a].errors THEN "degraded"
  ELSE IF ~status[a].fresh THEN "stale"
  ELSE IF a \in backlog THEN "syncing" ELSE "ok"

TypeOK ==
  /\ worker.at \in 0..Len(Setup) /\ starts \in 0..MaxStarts
  /\ worker.stopping => worker.signal /\ At("run")
  /\ syncJob.at \in {"idle", "visiting"} /\ syncJob.next \in 1..Len(Accounts) + 1
  /\ \A q \in Queue : Len(waiting[q]) <= MaxWaiting
  /\ backlog \subseteq Account

(* A worker that finished its setup stops for every signal it received,    *)
(* also for one that came while no stop gate existed (installWorkerSignals,*)
(* armStop).                                                               *)
SignalStops == At("run") /\ worker.signal => worker.stopping

(* While a worker runs under ready controls its schedules stamp jobs of    *)
(* the current generation, whatever schedules a restored queue held: no    *)
(* tick yields a job that is discarded as stale (armSchedule).             *)
TicksAreCurrent ==
  At("run") /\ Ready => \A q \in Queue : schedule[q] = database.generation

(* A failure an account's cycle contained stays in the health report until *)
(* a later cycle of that account records a clean status: neither time nor  *)
(* a cycle that could not open the mailbox hides it (syncStateOf).         *)
FailureShowsStep ==
  \A a \in Account :
    SyncStateOf(a) = "degraded" /\ SyncStateOf(a)' # "degraded" =>
      syncJob.next <= Len(Accounts) /\ Visited = a /\ syncJob'.ran = Append(syncJob.ran, "clean")

(* A full volume ends the visit of accounts: the comment "the sync cycle   *)
(* records the pause as an event" and the handler that returns from the    *)
(* account loop when a full volume interrupts a cycle (main).              *)
(* Not kept: README, section 9.                                            *)
FullVolumePauses == \A i \in DOMAIN syncJob.ran : syncJob.ran[i] = "full" => i = Len(syncJob.ran)
=============================================================================
