------------------------------- MODULE HomeWork -------------------------------
(***************************************************************************)
(* What the owner saves on Home: reply-later work and reminders, priority  *)
(* choices and dismissals (packages/home/src/service.ts), changed from     *)
(* several devices.  A device asks with the revision it last read and the  *)
(* recovery generation it holds; the service checks both against a row it  *)
(* reads, and writes in a later statement that names the revision again.   *)
(***************************************************************************)
EXTENDS Naturals, FiniteSets

CONSTANTS Device, Message, Kind, Target,
          Choices,      \* the choices asked for besides saved work
          Work,         \* identifiers of saved work, never used twice
          MaxVersion,   \* bound on writes to work rows
          MaxGen        \* bound on restores

VARIABLES generation,   \* the recovery generation the gate allows
          storedMail,   \* messages an anchor can name
          work,         \* homeWork
          dismissed,    \* homeDismissals
          prioritized,  \* homePriorities
          bundle,       \* the work rows of the last backup
          screen,       \* per device: generation held, rows shown, when read
          change,       \* per device: the change in flight
          version,      \* history: writes so far, the identity of a row's content
          blind         \* history: a change was applied to content its author had not seen

vars == <<generation, storedMail, work, dismissed, prioritized, bundle, screen, change,
          version, blind>>

None == "none"
Absent == [status |-> "absent", kind |-> None, anchor |-> None, rev |-> 0, version |-> 0]
Idle == [at |-> "idle"]

Init ==
  /\ generation = 1
  /\ storedMail = Message
  /\ work = [w \in Work |-> Absent]
  /\ dismissed = {} /\ prioritized = {}
  /\ bundle = work
  /\ screen = [d \in Device |-> [gen |-> 1, readAt |-> 1, rows |-> work]]
  /\ change = [d \in Device |-> Idle]
  /\ version = 0 /\ blind = FALSE

-----------------------------------------------------------------------------
(* The device.                                                             *)

\* The sections and the work list: every row, open or done.
Read(d) ==
  /\ screen' = [screen EXCEPT ![d].rows = work, ![d].readAt = generation]
  /\ UNCHANGED <<generation, storedMail, work, dismissed, prioritized, bundle, change,
                 version, blind>>

\* The session answer brings the generation; the rows shown stay.
RefreshSession(d) ==
  /\ screen[d].gen # generation
  /\ screen' = [screen EXCEPT ![d].gen = generation]
  /\ UNCHANGED <<generation, storedMail, work, dismissed, prioritized, bundle, change,
                 version, blind>>

Asks(d, request) ==
  /\ change[d] = Idle
  /\ change' = [change EXCEPT ![d] = request]
  /\ UNCHANGED <<generation, storedMail, work, dismissed, prioritized, bundle, screen,
                 version, blind>>

\* The controls of a row: each kind of change suits one status.
Suits(what, row) ==
  \/ what = "reschedule" /\ row.status = "open" /\ row.kind = "reminder"
  \/ what \in {"complete", "cancel"} /\ row.status = "open"
  \/ what = "reopen" /\ row.status = "done"

AskWork(d, what, w) ==
  LET row == screen[d].rows[w]
  IN  /\ Suits(what, row)
      /\ Asks(d, [at |-> "asked", gen |-> screen[d].gen, what |-> what, w |-> w, rev |-> row.rev,
                  saw |-> row.version, readAt |-> screen[d].readAt])

AskSave(d, m, kind) ==
  Asks(d, [at |-> "asked", gen |-> screen[d].gen, what |-> "save", m |-> m, kind |-> kind])

AskChoice(d, what, x) ==
  /\ \/ what \in {"prioritize", "unprioritize"} /\ x \in Target
     \/ what \in {"dismiss", "undismiss"} /\ x \in Message
  /\ Asks(d, [at |-> "asked", gen |-> screen[d].gen, what |-> what, x |-> x])

-----------------------------------------------------------------------------
(* The service: gate and read first, write later.                          *)

GateMutation(gen) == gen = generation
WorkChanges == {"reschedule", "complete", "reopen", "cancel"}
RequireCurrentRevision(w, rev) == work[w].rev = rev

Ends(d) == change' = [change EXCEPT ![d] = Idle]

\* The gate, then the row the request names, its status and its revision.
Admit(d) ==
  LET c == change[d]
  IN  /\ c.at = "asked"
      /\ GateMutation(c.gen)
      /\ c.what = "save" => c.m \in storedMail
      /\ c.what = "dismiss" => c.x \in storedMail
      /\ c.what \in WorkChanges => Suits(c.what, work[c.w]) /\ RequireCurrentRevision(c.w, c.rev)
      /\ change' = [change EXCEPT ![d].at = "admitted"]
      /\ UNCHANGED <<generation, storedMail, work, dismissed, prioritized, bundle, screen,
                     version, blind>>

\* A refused or lost request; the device reads again when it likes.
GiveUp(d) ==
  /\ change[d] # Idle /\ Ends(d)
  /\ UNCHANGED <<generation, storedMail, work, dismissed, prioritized, bundle, screen,
                 version, blind>>

\* The row a statement writes and the answer that carries it to the device.
Writes(d, w, row) ==
  /\ version < MaxVersion
  /\ version' = version + 1
  /\ work' = [work EXCEPT ![w] = [row EXCEPT !.version = version + 1]]
  /\ screen' = [screen EXCEPT ![d].rows[w] = work'[w]]
  /\ Ends(d)

HoldsOpen(kind, m) == {w \in Work : work[w].status = "open" /\ work[w].kind = kind
                                                            /\ work[w].anchor = m}

\* An identical open record answers unchanged.
CreateWork(d) ==
  LET c == change[d]
  IN  /\ c.at = "admitted" /\ c.what = "save"
      /\ \/ /\ HoldsOpen(c.kind, c.m) # {}
            /\ Ends(d) /\ UNCHANGED <<work, screen, version>>
         \/ /\ HoldsOpen(c.kind, c.m) = {}
            /\ \E w \in Work :
                 /\ work[w] = Absent
                 /\ Writes(d, w, [status |-> "open", kind |-> c.kind, anchor |-> c.m,
                                  rev |-> 1, version |-> 0])
      /\ UNCHANGED <<generation, storedMail, dismissed, prioritized, bundle, blind>>

AnyRow(w, rev) == work[w].status # "absent"
StillAt(w, rev) == work[w].status # "absent" /\ work[w].rev = rev
NoConflict(w) == TRUE
FreeSlot(w) == HoldsOpen(work[w].kind, work[w].anchor) = {}

\* One conditional statement per change; a cancelled row is deleted.
ChangeWork(d) ==
  LET c == change[d]
      row == work[c.w]
      next == [row EXCEPT !.rev = @ + 1]
  IN  /\ c.at = "admitted" /\ c.what \in WorkChanges
      /\ StillAt(c.w, c.rev)
      /\ \/ c.what = "reschedule" /\ Writes(d, c.w, next)
         \/ c.what = "complete" /\ Writes(d, c.w, [next EXCEPT !.status = "done"])
         \/ c.what = "reopen" /\ FreeSlot(c.w) /\ Writes(d, c.w, [next EXCEPT !.status = "open"])
         \/ c.what = "cancel" /\ Writes(d, c.w, [Absent EXCEPT !.status = "cancelled"])
      /\ blind' = (blind \/ (c.readAt = c.gen /\ c.saw # row.version))
      /\ UNCHANGED <<generation, storedMail, dismissed, prioritized, bundle>>

\* Priorities and dismissals are sets: an identical choice answers unchanged.
ChangeChoice(d) ==
  LET c == change[d]
  IN  /\ c.at = "admitted" /\ Ends(d)
      /\ \/ /\ c.what = "prioritize" /\ prioritized' = prioritized \cup {c.x}
            /\ UNCHANGED dismissed
         \/ /\ c.what = "unprioritize" /\ prioritized' = prioritized \ {c.x}
            /\ UNCHANGED dismissed
         \/ /\ c.what = "dismiss" /\ dismissed' = dismissed \cup {c.x}
            /\ UNCHANGED prioritized
         \/ /\ c.what = "undismiss" /\ dismissed' = dismissed \ {c.x}
            /\ UNCHANGED prioritized
      /\ UNCHANGED <<generation, storedMail, work, bundle, screen, version, blind>>

-----------------------------------------------------------------------------
(* Ingestion merges byte-identical mail, the operator backs up and         *)
(* restores.                                                               *)

Moves(w, survivor) ==
  work[w].status = "open" => HoldsOpen(work[w].kind, survivor) \ {w} = {}

MergeDuplicate(removed, survivor) ==
  /\ {removed, survivor} \subseteq storedMail /\ removed # survivor
  /\ storedMail' = storedMail \ {removed}
  /\ work' = [w \in Work |-> IF work[w].anchor = removed /\ Moves(w, survivor)
                             THEN [work[w] EXCEPT !.anchor = survivor] ELSE work[w]]
  /\ dismissed' = IF removed \in dismissed THEN (dismissed \ {removed}) \cup {survivor}
                  ELSE dismissed
  /\ UNCHANGED <<generation, prioritized, bundle, screen, change, version, blind>>

Backup ==
  /\ bundle # work
  /\ bundle' = work
  /\ UNCHANGED <<generation, storedMail, work, dismissed, prioritized, screen, change,
                 version, blind>>

\* The services are stopped and the rows return; requests on the way arrive later.
Restore ==
  /\ generation < MaxGen
  /\ generation' = generation + 1
  /\ work' = bundle
  /\ change' = [d \in Device |-> IF change[d].at = "admitted" THEN Idle ELSE change[d]]
  /\ UNCHANGED <<storedMail, dismissed, prioritized, bundle, screen, version, blind>>

-----------------------------------------------------------------------------
Owner(d) ==
  \/ Read(d) \/ RefreshSession(d)
  \/ \E what \in WorkChanges, w \in Work : AskWork(d, what, w)
  \/ \E m \in Message, kind \in Kind : AskSave(d, m, kind)
  \/ \E what \in Choices, x \in Target \cup Message : AskChoice(d, what, x)

Route(d) == Admit(d) \/ GiveUp(d) \/ CreateWork(d) \/ ChangeWork(d) \/ ChangeChoice(d)

Next ==
  \/ \E d \in Device : Owner(d) \/ Route(d)
  \/ \E removed, survivor \in Message : MergeDuplicate(removed, survivor)
  \/ Backup \/ Restore

Spec == Init /\ [][Next]_vars

-----------------------------------------------------------------------------
TypeOK ==
  /\ generation \in 1..MaxGen /\ storedMail \subseteq Message
  /\ \A w \in Work : /\ work[w].status \in {"absent", "open", "done", "cancelled"}
                     /\ work[w].status \in {"open", "done"} => work[w].anchor \in Message
                     /\ work[w].version \in 0..MaxVersion
  /\ dismissed \subseteq Message /\ prioritized \subseteq Target
  /\ \A d \in Device : change[d].at \in {"idle", "asked", "admitted"}

(* A change reaches the row only as its author saw it, whatever other      *)
(* devices did meanwhile and although a restore makes revisions repeat;    *)
(* rows kept on screen across a restore are outside the promise            *)
(* (requireCurrentRevision, the revision in each where, gateMutation).     *)
ChangesWhatWasSeen == ~blind

(* A message has at most one open record of each kind, through reopening   *)
(* and through merged messages (home_work_open_uidx, mergeDuplicate).      *)
OneOpenRecord ==
  \A w, x \in Work :
    /\ work[w].status = "open" /\ work[x].status = "open"
    /\ work[w].kind = work[x].kind /\ work[w].anchor = work[x].anchor
    => w = x

(* Completed work stays to be reviewed: a cancellation that was checked    *)
(* while the work was open does not delete it (cancelWork).                *)
KeepsCompleted ==
  \A w \in Work : work[w].status = "done" =>
    \/ work'[w].status = "done"
    \/ generation' # generation
    \/ work'[w].status = "open" /\ work'[w].rev = work[w].rev + 1
=============================================================================
