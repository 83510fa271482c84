------------------------------ MODULE MailList -------------------------------
(***************************************************************************)
(* The message list of the browser (useMessageList of                      *)
(* apps/web/src/mail/data.ts), the search it pages through                 *)
(* (packages/search/src/service.ts), and the mail actions that paint over  *)
(* it (apps/web/src/mail/actions.ts, app-shell.tsx).  Messages are numbers *)
(* in the order they arrive, so the list runs from high to low.  The       *)
(* inboxes of all accounts read as one snapshot.                           *)
(***************************************************************************)
EXTENDS Naturals, FiniteSets, Sequences

CONSTANTS Mail,         \* the messages, by numbers in order of arrival
          Old,          \* messages stored before the browser opens
          SentOnly,     \* messages that are in no inbox
          PageSize, RequestCap, OffsetCap,
          MaxCommands   \* bound on the commands of one visit

VARIABLES onServer,       \* messages the server holds
          inbox,        \* those in the inbox
          scope,         \* "folder", "unified" or "all"
          list,         \* what the list shows
          listReads,    \* reads on the way
          aside,        \* rows an action that was confirmed hides
          command,      \* the archive command of each message
          downloaded    \* rows this device keeps, with the folder they had

vars == <<onServer, inbox, scope, list, listReads, aside, command, downloaded>>

View == {"folder", "unified", "all"}
Least(a, b) == IF a < b THEN a ELSE b
Ids(s) == {s[i] : i \in DOMAIN s}

\* Messages, newest first.
Sorted(S) ==
  [i \in 1..Cardinality(S) |-> CHOOSE m \in S : Cardinality({n \in S : n > m}) = i - 1]

Blank == [phase |-> "loading", rows |-> <<>>, total |-> 0, pages |-> 1, window |-> 0,
          refreshing |-> FALSE, fromCache |-> FALSE, lost |-> FALSE]
Read(v, pages, append, offset, limit) ==
  [scope |-> v, append |-> append, offset |-> offset, limit |-> limit, live |-> TRUE,
   answered |-> FALSE, rows |-> <<>>, filed |-> {}, total |-> 0, lost |-> FALSE]

\* The unified inbox asks for its whole window again at every page.
WholeWindow(v) == v = "unified"
FirstRead(v, pages) == Read(v, pages, FALSE, 0, Least(pages * PageSize, RequestCap))

Init ==
  /\ onServer = Old /\ inbox = Old \ SentOnly
  /\ scope = "unified" /\ list = Blank
  /\ listReads = {FirstRead("unified", 1)}
  /\ aside = {} /\ downloaded = {}
  /\ command = [m \in Mail |-> "none"]

-----------------------------------------------------------------------------
(* The server's side.                                                      *)

Listing(v) == IF v = "all" THEN onServer ELSE inbox
Page(S, offset, limit) == SubSeq(Sorted(S), offset + 1, Least(offset + limit, Cardinality(S)))

Deliver(m) ==
  /\ m \in Mail \ onServer /\ \A n \in Mail \ onServer : m <= n
  /\ onServer' = onServer \cup {m} /\ inbox' = IF m \in SentOnly THEN inbox ELSE inbox \cup {m}
  /\ UNCHANGED <<scope, list, listReads, aside, command, downloaded>>

\* A message leaves the inbox: pages read before and after do not fit.
Leaves(m) ==
  /\ inbox' = inbox \ {m}
  /\ list' = [list EXCEPT !.lost = @ \/ m \in inbox]
  /\ listReads' = {[q EXCEPT !.lost = @ \/ (q.answered /\ m \in inbox)] : q \in listReads}

LeavesElsewhere(m) ==
  /\ m \in inbox /\ command[m] = "none" /\ Leaves(m)
  /\ UNCHANGED <<onServer, scope, aside, command, downloaded>>

\* A page starts above the rows it continues: more arrived than they are.
Overtaken(q) ==
  /\ q.append
  /\ Cardinality({m \in Listing(q.scope) : \A n \in Ids(list.rows) : m > n}) > q.offset

Search(q) ==
  /\ q \in listReads /\ ~q.answered
  /\ listReads' = (listReads \ {q}) \cup
       {[q EXCEPT !.answered = TRUE, !.total = Cardinality(Listing(q.scope)), !.lost = Overtaken(q),
                  !.rows = Page(Listing(q.scope), q.offset, q.limit),
                  !.filed = inbox \cap Ids(Page(Listing(q.scope), q.offset, q.limit))]}
  /\ UNCHANGED <<onServer, inbox, scope, list, aside, command, downloaded>>

-----------------------------------------------------------------------------
(* Reads of the list.  A new read aborts the one before it.                *)

StartRead(q) ==
  listReads' = {[r EXCEPT !.live = FALSE] : r \in {x \in listReads : x.live /\ x.answered}} \cup {q}

ChangeScope(v) ==
  /\ v # scope /\ scope' = v /\ list' = Blank
  /\ StartRead(FirstRead(v, 1))
  /\ UNCHANGED <<onServer, inbox, aside, command, downloaded>>

Reload ==
  /\ list' = IF list.rows = <<>> THEN [Blank EXCEPT !.pages = list.pages]
             ELSE [list EXCEPT !.refreshing = TRUE]
  /\ StartRead(FirstRead(scope, list.pages))
  /\ UNCHANGED <<onServer, inbox, scope, aside, command, downloaded>>

CanLoadMore ==
  /\ list.phase = "ready" /\ ~list.refreshing /\ Len(list.rows) < list.total
  /\ list.pages * PageSize < IF WholeWindow(scope) THEN RequestCap ELSE OffsetCap

LoadMore ==
  /\ CanLoadMore
  /\ list' = [list EXCEPT !.pages = @ + 1]
  /\ StartRead(IF WholeWindow(scope) THEN FirstRead(scope, list.pages + 1)
               ELSE Read(scope, list.pages + 1, TRUE, list.window, PageSize))
  /\ UNCHANGED <<onServer, inbox, scope, aside, command, downloaded>>

\* A page is in order, so what is new in it is.
Appended(rows, more) == rows \o Sorted(Ids(more) \ Ids(rows))
WindowAsked(rows) == list.pages * PageSize
WindowCovered(rows) == Len(rows)

\* A read aborted after its answer came leaves only its copy on the device.
Land(q) ==
  LET rows == IF q.append THEN Appended(list.rows, q.rows) ELSE q.rows
  IN  /\ q \in listReads /\ q.answered /\ listReads' = listReads \ {q}
      /\ downloaded' = {d \in downloaded : d.id \notin Ids(q.rows)} \cup
                       {[id |-> m, inbox |-> m \in q.filed] : m \in Ids(q.rows)}
      /\ IF q.live
         THEN /\ list' = [list EXCEPT !.phase = "ready", !.rows = rows, !.total = q.total,
                                      !.window = WindowCovered(rows), !.refreshing = FALSE,
                                      !.fromCache = FALSE, !.lost = q.lost \/ (q.append /\ list.lost)]
              /\ aside' = IF q.append THEN aside ELSE {}
         ELSE UNCHANGED <<list, aside>>
      /\ UNCHANGED <<onServer, inbox, scope, command>>

InScope(v) == {d.id : d \in {x \in downloaded : v = "all" \/ x.inbox}}

\* A first page the service did not answer falls back to downloaded rows.
Fail(q) ==
  /\ q \in listReads /\ q.live /\ listReads' = listReads \ {q}
  /\ IF list.pages = 1 /\ downloaded # {}
     THEN list' = [Blank EXCEPT !.phase = "ready", !.rows = Sorted(InScope(scope)),
                                !.total = Cardinality(InScope(scope)),
                                !.window = Cardinality(InScope(scope)), !.fromCache = TRUE]
     ELSE list' = [list EXCEPT !.phase = IF list.rows = <<>> THEN "error" ELSE "ready",
                               !.refreshing = FALSE]
  /\ UNCHANGED <<onServer, inbox, scope, aside, command, downloaded>>

-----------------------------------------------------------------------------
(* Archiving a row.                                                        *)

Shown == IF list.phase = "ready" THEN Ids(list.rows) \ aside ELSE {}
Commands == {m \in Mail : command[m] # "none"}
Sets(m, from, to) == command[m] \in from /\ command' = [command EXCEPT ![m] = to]

Archive(m, connected) ==
  /\ m \in Shown /\ Cardinality(Commands) < MaxCommands
  /\ Sets(m, {"none"}, IF connected THEN "sent" ELSE "queued")
  /\ UNCHANGED <<onServer, inbox, scope, list, listReads, aside, downloaded>>

ServerRuns(m) == Sets(m, {"sent"}, "ran") /\ Leaves(m) /\ UNCHANGED <<onServer, scope, aside, downloaded>>

\* The receipt paints the list only when every target is confirmed.
Answered(m, confirmed) ==
  /\ Sets(m, {"ran"}, "done")
  /\ aside' = IF confirmed THEN aside \cup {m} ELSE aside
  /\ UNCHANGED <<onServer, inbox, scope, list, listReads, downloaded>>

\* A request that times out or is cut off queues the action for replay.
NoAnswer(m) ==
  /\ Sets(m, {"sent", "ran"}, IF command[m] = "ran" THEN "queued again" ELSE "queued")
  /\ UNCHANGED <<onServer, inbox, scope, list, listReads, aside, downloaded>>

Replay(m) ==
  /\ Sets(m, {"queued", "queued again"}, "done")
  /\ Leaves(m) /\ UNCHANGED <<onServer, scope, aside, downloaded>>

Next ==
  \/ \E m \in Mail : Deliver(m) \/ LeavesElsewhere(m)
  \/ \E q \in listReads : Search(q) \/ Land(q) \/ Fail(q)
  \/ \E v \in View : ChangeScope(v)
  \/ Reload \/ LoadMore
  \/ \E m \in Mail : \E connected \in BOOLEAN : Archive(m, connected)
  \/ \E m \in Mail : ServerRuns(m) \/ NoAnswer(m) \/ Replay(m)
  \/ \E m \in Mail : \E confirmed \in BOOLEAN : Answered(m, confirmed)
Spec == Init /\ [][Next]_vars

-----------------------------------------------------------------------------
TypeOK ==
  /\ inbox \subseteq onServer /\ onServer \subseteq Mail /\ scope \in View
  /\ list.phase \in {"loading", "ready", "error"} /\ Ids(list.rows) \subseteq onServer
  /\ Cardinality({q \in listReads : q.live}) <= 1 /\ aside \subseteq onServer

(* Whatever reads overtake each other, the list shows messages of the view *)
(* it is for, each once.  While nothing has left the mailbox since its     *)
(* first page, and no more messages arrived than it shows, it is in order  *)
(* and skips none: a page after a capped refresh or an arrival continues   *)
(* where the rows end (useMessageList).                                    *)
ListSkipsNothing ==
  list.phase = "ready" /\ ~list.fromCache =>
    LET rows == list.rows
    IN  /\ \A i, j \in DOMAIN rows : i < j => rows[i] # rows[j]
        /\ scope # "all" => Ids(rows) \cap SentOnly = {}
        /\ ~list.lost =>
             /\ \A i, j \in DOMAIN rows : i < j => rows[i] > rows[j]
             /\ \A m \in Listing(scope), a, b \in Ids(rows) : a > m /\ m > b => m \in Ids(rows)

(* An action that waits on the device for replay has not run: the comment  *)
(* "the request never reached the service, so nothing executed"            *)
(* (runMailAction).                                                        *)
(* Not kept: README, section 9.                                            *)
QueuedHasNotRun == \A m \in Mail : command[m] # "queued again"
=============================================================================
