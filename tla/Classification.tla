--------------------------- MODULE Classification ---------------------------
(***************************************************************************)
(* The classification sweep of the worker                                  *)
(* (packages/classification/src/service.ts), the corrections of the owner  *)
(* (corrections.ts) that run beside it in the API, and the evaluation that *)
(* enables routing (evaluation.ts).  A correction the recovery gate        *)
(* refuses and a correction of a rule change no row modelled here.         *)
(***************************************************************************)
EXTENDS Integers, FiniteSets, Sequences

CONSTANTS Message, Sender,
          SenderOf,      \* [Message -> Sender]
          Ruled,         \* messages a deterministic rule answers
          Class,         \* message classes, "hidden" is one routing would bundle
          Labels,        \* messages the labeled set calls critical
          Backfill,      \* BOOLEAN: classify mail from before the session
          Cap,           \* calls the monthly ceiling pays for
          BatchLimit, Threshold, Window, Cooldown,
          MaxTime,       \* bound on the clock
          MaxChanges     \* bound on corrections, placements and settings

VARIABLES stored,        \* messages with a fetched body
          recent,        \* those ingested after the newest enabled marker
          enabled,       \* settings.classificationEnabled
          lastSession,       \* state of the newest class.session event
          answer,        \* class_hint and classSource of each message
          override,      \* senderOverrides
          placed,        \* messages with a confirmed move or archive
          decided,       \* rows of decisions, each by its message, oldest first
          failures,      \* instants of class.error events
          clock,
          cycle,         \* the classify job
          evaluated,     \* a measured verdict on its way to its record
          routing,       \* verdict of the newest class.gate event
          choice,        \* history: the owner's own answer per message
          early,         \* history: calls made while a burst was in the cooldown,
                         \* by its oldest and by its newest failure
          changes        \* history: corrections, placements and settings so far

mail == <<stored, recent, enabled, answer, override, placed>>
vars == <<mail, lastSession, decided, failures, clock, cycle, evaluated, routing, choice, early, changes>>

None == "none"
Unset == "unset"
Unanswered == [source |-> None, class |-> None]
Idle == [at |-> "idle", batch |-> {}, calls |-> 0, m |-> None, source |-> None, class |-> None]

Init ==
  /\ stored = {} /\ recent = {} /\ enabled = TRUE /\ lastSession = None
  /\ answer = [m \in Message |-> Unanswered]
  /\ override = [s \in Sender |-> Unset]
  /\ placed = {} /\ decided = <<>> /\ failures = <<>> /\ clock = 0
  /\ cycle = Idle /\ evaluated = None /\ routing = "shadow"
  /\ choice = [m \in Message |-> Unset] /\ early = {} /\ changes = 0

-----------------------------------------------------------------------------
(* The guardrails, read from durable records.                              *)

\* Failures stay readable for the cooldown, not just the burst window.
RecentInWindow == {i \in DOMAIN failures : failures[i] > clock - Window}
RecentFailures == {i \in DOMAIN failures : failures[i] > clock - Cooldown}

\* The most failures one window holds.
WidestBurst(some) ==
  LET burst(first) == {i \in some : failures[i] >= failures[first]
                                    /\ failures[i] - failures[first] <= Window}
      sizes == {Cardinality(burst(first)) : first \in some}
  IN  IF some = {} THEN 0 ELSE CHOOSE n \in sizes : \A k \in sizes : k <= n
BreakerOpen == WidestBurst(RecentFailures) >= Threshold

CountMonthCalls == Len(decided)

\* History: what a call made now would be too early for.
Bursts == {some \in SUBSET (DOMAIN failures) :
             /\ Cardinality(some) = Threshold
             /\ \A i, j \in some : failures[j] - failures[i] <= Window}
Cooling(i) == failures[i] > clock - Cooldown
Hasty == {which \in {"oldest", "newest"} : \E some \in Bursts :
            IF which = "oldest" THEN \A i \in some : Cooling(i) ELSE \E i \in some : Cooling(i)}

Candidates ==
  {m \in stored : /\ answer[m] = Unanswered /\ \A i \in DOMAIN decided : decided[i] # m
                  /\ Backfill \/ m \in recent}

-----------------------------------------------------------------------------
(* One cycle of the sweep.                                                 *)

\* The newest enabled marker is the boundary of the backfill gate.
RecordSessionState ==
  IF enabled
  THEN /\ lastSession' = "enabled"
       /\ recent' = IF lastSession = "enabled" THEN recent ELSE {}
  ELSE /\ lastSession' = IF lastSession = "enabled" THEN "disabled" ELSE lastSession
       /\ UNCHANGED recent

BeginCycle ==
  /\ cycle.at = "idle"
  /\ enabled \/ lastSession = "enabled"
  /\ RecordSessionState
  /\ cycle' = IF enabled THEN [cycle EXCEPT !.at = "assess"] ELSE cycle
  /\ UNCHANGED <<stored, enabled, answer, override, placed, decided, failures, clock, evaluated,
                 routing, choice, early, changes>>

\* An open breaker, a reached cap or an empty list ends the cycle; the batch
\* is at most BatchLimit messages.
Assess ==
  /\ cycle.at = "assess"
  /\ \/ /\ BreakerOpen \/ CountMonthCalls >= Cap \/ Candidates = {}
        /\ cycle' = Idle
     \/ /\ ~BreakerOpen /\ CountMonthCalls < Cap /\ Candidates # {}
        /\ \E batch \in SUBSET Candidates :
             /\ Cardinality(batch) = IF Cardinality(Candidates) < BatchLimit
                                     THEN Cardinality(Candidates) ELSE BatchLimit
             /\ cycle' = [cycle EXCEPT !.at = "rows", !.batch = batch,
                                       !.calls = CountMonthCalls]
  /\ UNCHANGED <<mail, lastSession, decided, failures, clock, evaluated, routing, choice, early, changes>>

\* The level that answers a message: the owner's placement, the sender's
\* override, a rule, or a call behind the cost cap.
Level(m) ==
  CASE m \in placed -> "manual"
    [] m \notin placed /\ override[SenderOf[m]] # Unset -> "override"
    [] m \notin placed /\ override[SenderOf[m]] = Unset /\ m \in Ruled -> "rule"
    [] OTHER -> "jev"

ClassifyRow(m) ==
  /\ cycle.at = "rows" /\ m \in cycle.batch
  /\ \/ /\ Level(m) # "jev"
        /\ \E c \in Class :
             /\ Level(m) # "rule" => c = CHOOSE x \in Class : TRUE
             /\ cycle' = [cycle EXCEPT !.at = "write", !.batch = @ \ {m}, !.m = m,
                                       !.source = Level(m),
                                       !.class = CASE Level(m) = "manual" -> None
                                                   [] Level(m) = "override" -> override[SenderOf[m]]
                                                   [] OTHER -> c]
        /\ UNCHANGED early
     \/ /\ Level(m) = "jev" /\ cycle.calls >= Cap
        /\ cycle' = Idle /\ UNCHANGED early
     \/ /\ Level(m) = "jev" /\ cycle.calls < Cap
        /\ cycle' = [cycle EXCEPT !.at = "asked", !.batch = @ \ {m}, !.m = m]
        /\ early' = early \cup Hasty
  /\ UNCHANGED <<mail, lastSession, decided, failures, clock, evaluated, routing, choice, changes>>

\* The cycle ends after its last row.
Continues(c) == IF c.batch = {} THEN Idle
                ELSE [c EXCEPT !.at = "rows", !.m = None, !.source = None, !.class = None]

\* The update names the row by its id alone.
ApplyAnswer ==
  /\ cycle.at = "write"
  /\ answer' = [answer EXCEPT ![cycle.m] =
       [source |-> cycle.source, class |-> IF cycle.class = None THEN @.class ELSE cycle.class]]
  /\ cycle' = Continues(cycle)
  /\ UNCHANGED <<stored, recent, enabled, override, placed, lastSession, decided, failures, clock,
                 evaluated, routing, choice, early, changes>>

AsAssessed(calls) == calls
Counted(calls) == calls + 1

JevAnswers ==
  /\ cycle.at = "asked"
  /\ \E c \in Class : answer' = [answer EXCEPT ![cycle.m] = [source |-> "jev", class |-> c]]
  /\ decided' = Append(decided, cycle.m)
  /\ cycle' = Continues([cycle EXCEPT !.calls = Counted(@)])
  /\ UNCHANGED <<stored, recent, enabled, override, placed, lastSession, failures, clock, evaluated,
                 routing, choice, early, changes>>

\* A timeout, a refused request or an invalid answer; the cycle stops.
JevFails ==
  /\ cycle.at = "asked"
  /\ failures' = Append(failures, clock)
  /\ cycle' = Idle
  /\ UNCHANGED <<mail, lastSession, decided, clock, evaluated, routing, choice, early, changes>>

\* The worker stops in the middle; the next job starts over.
WorkerStops ==
  /\ cycle # Idle
  /\ cycle' = Idle
  /\ UNCHANGED <<mail, lastSession, decided, failures, clock, evaluated, routing, choice, early, changes>>

-----------------------------------------------------------------------------
(* The owner.                                                              *)

Counts == changes < MaxChanges /\ changes' = changes + 1

CorrectMessage(m, c) ==
  /\ Counts /\ m \in stored
  /\ answer' = [answer EXCEPT ![m] = [source |-> "manual", class |-> c]]
  /\ choice' = [choice EXCEPT ![m] = c]
  /\ UNCHANGED <<stored, recent, enabled, override, placed, lastSession, decided, failures, clock,
                 cycle, evaluated, routing, early>>

\* The override, and the sender's mail except the owner's own answers.
CorrectSender(m, c) ==
  LET s == SenderOf[m]
  IN  /\ Counts /\ m \in stored
      /\ override' = [override EXCEPT ![s] = c]
      /\ answer' = [n \in Message |->
           IF n \in stored /\ SenderOf[n] = s /\ answer[n].source # "manual"
           THEN [source |-> "override", class |-> c] ELSE answer[n]]
      /\ UNCHANGED <<stored, recent, enabled, placed, lastSession, decided, failures, clock, cycle,
                     evaluated, routing, choice, early>>

Place(m) ==
  /\ Counts /\ m \in stored \ placed
  /\ placed' = placed \cup {m}
  /\ UNCHANGED <<stored, recent, enabled, answer, override, lastSession, decided, failures, clock,
                 cycle, evaluated, routing, choice, early>>

Toggle ==
  /\ Counts
  /\ enabled' = ~enabled
  /\ UNCHANGED <<stored, recent, answer, override, placed, lastSession, decided, failures, clock,
                 cycle, evaluated, routing, choice, early>>

Ingest(m) ==
  /\ m \notin stored
  /\ stored' = stored \cup {m} /\ recent' = recent \cup {m}
  /\ UNCHANGED <<enabled, answer, override, placed, lastSession, decided, failures, clock, cycle,
                 evaluated, routing, choice, early, changes>>

Tick ==
  /\ clock < MaxTime
  /\ clock' = clock + 1
  /\ UNCHANGED <<mail, lastSession, decided, failures, cycle, evaluated, routing, choice, early, changes>>

-----------------------------------------------------------------------------
(* The evaluation: every label names a stored message; a critical message  *)
(* that routing would hide fails the gate.                                 *)

EvaluateClassification ==
  /\ Labels # {} /\ Labels \subseteq stored /\ evaluated = None
  /\ evaluated' = IF \E m \in Labels : answer[m].class = "hidden" THEN "failed" ELSE "passed"
  /\ UNCHANGED <<mail, lastSession, decided, failures, clock, cycle, routing, choice, early, changes>>

RecordClassificationGate ==
  /\ evaluated # None
  /\ routing' = IF evaluated = "passed" THEN "enabled" ELSE "shadow"
  /\ evaluated' = None
  /\ UNCHANGED <<mail, lastSession, decided, failures, clock, cycle, choice, early, changes>>

-----------------------------------------------------------------------------
Sweep == \/ BeginCycle \/ Assess \/ ApplyAnswer \/ JevAnswers \/ JevFails \/ WorkerStops
         \/ \E m \in Message : ClassifyRow(m)
Owner == \/ \E m \in Message, c \in Class \cup {None} : CorrectMessage(m, c) \/ CorrectSender(m, c)
         \/ \E m \in Message : Place(m) \/ Ingest(m)
         \/ Toggle
Evaluation == EvaluateClassification \/ RecordClassificationGate

Next == Sweep \/ Owner \/ Evaluation \/ Tick
Spec == Init /\ [][Next]_vars

-----------------------------------------------------------------------------
TypeOK ==
  /\ recent \subseteq stored /\ stored \subseteq Message /\ placed \subseteq stored
  /\ lastSession \in {None, "enabled", "disabled"}
  /\ \A m \in Message : /\ answer[m].source \in {None, "manual", "override", "rule", "jev"}
                        /\ answer[m].class \in Class \cup {None}
  /\ decided \in Seq(Message)
  /\ cycle.at \in {"idle", "assess", "rows", "write", "asked"}
  /\ routing \in {"shadow", "enabled"} /\ evaluated \in {None, "passed", "failed"}

(* No call is made, and no money spent, while a burst of failures lies     *)
(* inside the cooldown, although every job reads the record anew and the   *)
(* burst itself is older than its window; and calls stay within the        *)
(* monthly ceiling although a cycle counts them once (assessCircuit,       *)
(* widestBurstSize, runCycle).                                             *)
BreakerHolds == "oldest" \notin early
SpendsWithinCap == CountMonthCalls <= Cap

(* The breaker resumes one cooldown after the newest failure of the burst  *)
(* that opened it (the description assessCircuit reports).                 *)
(* Not kept: README, section 9.                                            *)
ResumesAfterNewest == "newest" \notin early

(* The owner's own answer of a message is never replaced by the sweep      *)
(* (CorrectionService.correct, scope message).                             *)
(* Not kept: README, section 9.                                            *)
OwnerAnswerStays ==
  \A m \in Message : choice[m] # Unset => answer[m] = [source |-> "manual", class |-> choice[m]]
=============================================================================
