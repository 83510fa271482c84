---------------------------- MODULE HomeSections ----------------------------
(***************************************************************************)
(* What Home shows: the ranked sections of packages/home/src/service.ts,   *)
(* read one query at a time, the visit boundary of a device, and the       *)
(* screen that opens, pages and refreshes them (apps/web/src/home/data.ts) *)
(* or the evaluation that walks them (packages/home/src/evaluation.ts),    *)
(* while mail arrives, is classified, filed and dismissed.                 *)
(***************************************************************************)
EXTENDS Integers, FiniteSets, Sequences

CONSTANTS Mail,
          Traits,       \* per mail: its conversation, date and stored signals
          Present,      \* mail stored and classified before Home opens
          SectionPage, MaxPage, \* rows of a first answer, and of any
          MaxVisits,    \* bound on loads of the whole overview
          MaxChanges,   \* bound on changes by the owner and other devices
          MaxRefreshes, \* bound on refreshes
          Evaluates     \* BOOLEAN: the reader is the evaluation

(* Ids are distinct, as primary keys, and a page has at least one row.     *)
HomeAssumption ==
  /\ IsFiniteSet(Mail) /\ Present \in SUBSET Mail
  /\ \A m \in Mail : Traits[m].sent \in Int /\ Traits[m].id \in Int
  /\ \A m, n \in Mail : Traits[m].id = Traits[n].id => m = n
  /\ SectionPage \in Nat \ {0} /\ MaxPage \in Nat \ {0}

VARIABLES begun,        \* instant an import began, which it will store
          ingested,     \* ingestedAt of committed mail, 0 before
          answered,     \* mail whose classification is stored
          hidden,       \* homeDismissals
          filed,        \* mail that left the inbox
          planned,      \* mail with open reply-later work
          visit,        \* homeVisits: the boundary of this device, 0 before
          reading,      \* a full read on the server
          view,         \* the sections as the screen holds them
          more,         \* answered pages on their way, per section
          fresh,        \* an answered refresh on its way
          verdict,      \* what the evaluation concludes per mail
          steady,       \* history: entries that stayed in place since the last reading
          overlap,      \* history: sections paged across a refresh
          start,        \* history: the boundary the first visit left
          surfaced,     \* history: mail in a section some answer counted
          effort        \* history: visits, changes and refreshes so far

db == <<begun, ingested, answered, hidden, filed, planned>>
vars == <<db, visit, reading, view, more, fresh, verdict, steady, overlap, start, surfaced, effort>>

None == [none |-> TRUE]
Section == 0..4          \* due_now, needs_attention, reply_later, since_visit, saved
Closed == [phase |-> "closed", boundary |-> 0,
           rows |-> [s \in Section |-> <<>>], next |-> [s \in Section |-> None],
           loading |-> {}]

Init ==
  /\ begun = [m \in Mail |-> IF m \in Present THEN 1 ELSE 0]
  /\ ingested = begun
  /\ answered = Present
  /\ hidden = {} /\ filed = {} /\ planned = {}
  /\ visit = 0 /\ reading = None /\ view = Closed
  /\ more = [s \in Section |-> None] /\ fresh = None
  /\ verdict = [m \in Mail |-> "open"]
  /\ steady = [s \in Section |-> {}] /\ overlap = {} /\ start = 0 /\ surfaced = {}
  /\ effort = [visits |-> 0, changes |-> 0, refreshes |-> 0]

-----------------------------------------------------------------------------
(* Candidates, leaders and pages, as the one ranking query selects them.   *)

Stored == {m \in Mail : ingested[m] > 0}
Visible == (Stored \ hidden) \ filed
Conversation(m) == Traits[m].thread
Members(e) == {m \in Stored : Conversation(m) = e}

Signals(m) == IF m \in answered THEN Traits[m].signals ELSE {}
Protected(signals) == signals \cap {"priority_sender", "priority_thread", "security_alert",
                                    "sure_action"} # {}
OneTier(m) == 1
Tier(m) == IF Protected(Signals(m)) THEN 0 ELSE 1

Candidate(m, s, tier, sort) ==
  [entry |-> Conversation(m), mail |-> m, section |-> s, tier |-> tier, sort |-> sort,
   id |-> Traits[m].id]

\* Due reminders and reply-later work anchor on mail; a star is a trait here.
Candidates(b) ==
  {Candidate(m, 0, 0, Traits[m].id) : m \in {x \in Stored : "due" \in Traits[x].work}}
  \cup {Candidate(m, 1, Tier(m), 0 - Traits[m].sent) :
          m \in {x \in Visible : Signals(x) # {}}}
  \cup {Candidate(m, 2, 0, Traits[m].id) : m \in planned \cap Stored}
  \cup {Candidate(m, 3, 0, 0 - ingested[m]) : m \in {x \in Visible : b > 0 /\ ingested[x] > b}}
  \cup {Candidate(m, 4, 0, 0 - Traits[m].sent) :
          m \in {x \in Stored : "starred" \in Traits[x].work}}

RankedBefore(c, d) ==
  \/ c.tier < d.tier
  \/ c.tier = d.tier /\ c.sort < d.sort
  \/ c.tier = d.tier /\ c.sort = d.sort /\ c.id < d.id

LeadsOver(c, d) ==
  c.section < d.section \/ (c.section = d.section /\ RankedBefore(c, d))

Leaders(b) ==
  LET all == Candidates(b)
  IN  {c \in all : \A d \in all \ {c} : d.entry = c.entry => LeadsOver(c, d)}
InPlace(s, b) == {c \in Leaders(b) : c.section = s}

HomeRow(c) == [entry |-> c.entry, mail |-> c.mail, at |-> c, members |-> Members(c.entry)]
InOrder(rows) ==
  [i \in 1..Cardinality(rows) |->
     CHOOSE r \in rows : Cardinality({q \in rows : RankedBefore(q.at, r.at)}) = i - 1]
Ranked(s, b) == InOrder({HomeRow(c) : c \in InPlace(s, b)})

\* The cursor is the last row given; the next page holds what ranks after it.
AfterDate(last, c) ==
  last.tier < c.tier \/ (last.tier = c.tier /\ last.sort < c.sort)
CursorAfter(last, c) == RankedBefore(last, c)
FromCursor(s, b, after) == {c \in InPlace(s, b) : after = None \/ CursorAfter(after, c)}

Page(s, b, after, limit) ==
  LET rest == InOrder({HomeRow(c) : c \in FromCursor(s, b, after)})
  IN  IF Len(rest) > limit THEN [rows |-> SubSeq(rest, 1, limit), next |-> rest[limit].at]
      ELSE [rows |-> rest, next |-> None]

-----------------------------------------------------------------------------
(* History: an entry stays in place while its leader keeps its rank.       *)

Bound == IF reading # None THEN reading.boundary ELSE view.boundary
KeepsPlace == steady' = [s \in Section |-> steady[s] \cap InPlace(s, Bound)']

-----------------------------------------------------------------------------
(* The full read: the boundary, five queries, then the next boundary.      *)

OpenHome ==
  /\ view.phase = "closed" /\ effort.visits < MaxVisits
  /\ reading' = [boundary |-> visit, got |-> <<>>, saw |-> {}]
  /\ view' = [view EXCEPT !.phase = "loading"]
  /\ verdict' = [m \in Mail |-> "open"]
  /\ effort' = [effort EXCEPT !.visits = @ + 1]
  /\ UNCHANGED <<db, visit, more, fresh, steady, overlap, start, surfaced>>

ReadRankedSection ==
  LET s == Len(reading.got)
      b == reading.boundary
  IN  /\ reading # None /\ s < 5
      /\ reading' = [reading EXCEPT !.got = Append(@, Page(s, b, None, SectionPage)),
                                    !.saw = @ \cup {c.mail : c \in InPlace(s, b)}]
      /\ steady' = [steady EXCEPT ![s] = InPlace(s, b)]
      /\ UNCHANGED <<db, visit, view, more, fresh, verdict, overlap, start, surfaced, effort>>

\* The screen shows a failure or is left; what was on its way to it is dropped.
Closes ==
  /\ view' = Closed /\ more' = [s \in Section |-> None] /\ fresh' = None
  /\ UNCHANGED <<overlap, surfaced>>

\* A query fails: the boundary stays.
ReadFails ==
  /\ reading # None /\ reading' = None
  /\ Closes
  /\ UNCHANGED <<db, visit, verdict, steady, start, effort>>

NewestIngested == CHOOSE n \in {ingested[m] : m \in Mail} : \A m \in Mail : ingested[m] <= n
Greatest(a, b) == IF a > b THEN a ELSE b
Advanced == Greatest(visit, NewestIngested)

\* The boundary advances; the answer reaches the screen, or the connection is gone.
AdvanceVisitBoundary ==
  /\ reading # None /\ Len(reading.got) = 5
  /\ visit' = Advanced
  /\ start' = IF start = 0 THEN Advanced ELSE start
  /\ reading' = None
  /\ \/ /\ view' = [phase |-> "ready", boundary |-> reading.boundary,
                    rows |-> [s \in Section |-> reading.got[s + 1].rows],
                    next |-> [s \in Section |-> reading.got[s + 1].next],
                    loading |-> {}]
        /\ overlap' = {}
        /\ surfaced' = surfaced \cup reading.saw
        /\ UNCHANGED <<more, fresh>>
     \/ Closes
  /\ UNCHANGED <<db, verdict, steady, effort>>

-----------------------------------------------------------------------------
(* The screen after its first answer.                                      *)

LoadMore(s) ==
  /\ view.phase = "ready" /\ s \notin view.loading /\ more[s] = None
  /\ view.next[s] # None
  /\ more' = [more EXCEPT ![s] = Page(s, view.boundary, view.next[s], SectionPage)]
  /\ view' = [view EXCEPT !.loading = @ \cup {s}]
  /\ UNCHANGED <<db, visit, reading, fresh, verdict, steady, overlap, start, surfaced, effort>>

Entries(rows) == {rows[i].entry : i \in DOMAIN rows}

\* Earlier rows keep their place and gain the members of a repeated entry.
MergeItems(current, page) ==
  LET again(e) == UNION {page[i].members : i \in {j \in DOMAIN page : page[j].entry = e}}
  IN  [i \in DOMAIN current |-> [current[i] EXCEPT !.members = @ \cup again(current[i].entry)]]
      \o InOrder({r \in {page[i] : i \in DOMAIN page} : r.entry \notin Entries(current)})

MoreArrives(s) ==
  /\ more[s] # None
  /\ more' = [more EXCEPT ![s] = None]
  /\ view' = [view EXCEPT !.rows[s] = MergeItems(@, more[s].rows),
                          !.next[s] = more[s].next,
                          !.loading = @ \ {s}]
  /\ UNCHANGED <<db, visit, reading, fresh, verdict, steady, overlap, start, surfaced, effort>>

MoreFails(s) ==
  /\ more[s] # None
  /\ more' = [more EXCEPT ![s] = None]
  /\ view' = [view EXCEPT !.loading = @ \ {s}]
  /\ UNCHANGED <<db, visit, reading, fresh, verdict, steady, overlap, start, surfaced, effort>>

\* As many rows as are shown, in requests of at most MaxPage.
RefreshSize(shown) ==
  LET first == IF shown < SectionPage THEN SectionPage ELSE IF shown > MaxPage THEN MaxPage ELSE shown
      rounds == IF shown <= first THEN 0 ELSE (shown - first + MaxPage - 1) \div MaxPage
  IN  first + rounds * MaxPage

Refresh ==
  /\ view.phase = "ready" /\ fresh = None /\ effort.refreshes < MaxRefreshes /\ ~Evaluates
  /\ fresh' = [pages |->
       [s \in Section |-> Page(s, view.boundary, None, RefreshSize(Len(view.rows[s])))]]
  /\ steady' = [s \in Section |-> InPlace(s, view.boundary)]
  /\ surfaced' = surfaced \cup {c.mail : c \in Leaders(view.boundary)}
  /\ effort' = [effort EXCEPT !.refreshes = @ + 1]
  /\ UNCHANGED <<db, visit, reading, view, more, verdict, overlap, start>>

RefreshArrives ==
  /\ fresh # None /\ fresh' = None
  /\ view' = [view EXCEPT !.rows = [s \in Section |-> fresh.pages[s].rows],
                          !.next = [s \in Section |-> fresh.pages[s].next],
                          !.loading = {}]
  /\ overlap' = {s \in Section : more[s] # None}
  /\ UNCHANGED <<db, visit, reading, more, verdict, steady, start, surfaced, effort>>

RefreshFails ==
  /\ fresh # None /\ fresh' = None
  /\ steady' = [s \in Section |-> {}]
  /\ UNCHANGED <<db, visit, reading, view, more, verdict, overlap, start, surfaced, effort>>

\* A confirmed dismissal removes the entry from the screen at once.
Dismiss(s, i) ==
  LET row == view.rows[s][i]
  IN  /\ view.phase = "ready" /\ ~Evaluates /\ effort.changes < MaxChanges
      /\ hidden' = hidden \cup {row.mail}
      /\ view' = [view EXCEPT !.rows[s] = SubSeq(@, 1, i - 1) \o SubSeq(@, i + 1, Len(@))]
      /\ effort' = [effort EXCEPT !.changes = @ + 1]
      /\ UNCHANGED <<begun, ingested, answered, filed, planned, visit, reading, more, fresh,
                     verdict, overlap, start, surfaced>>
      /\ KeepsPlace

CloseHome ==
  /\ view.phase = "ready" /\ Closes
  /\ UNCHANGED <<db, visit, reading, verdict, steady, start, effort>>

-----------------------------------------------------------------------------
(* The evaluation: it walks the attention sections to their end, then      *)
(* reads the dismissals and the inbox rows, expunged ones included.        *)

WalkedFirstPage ==
  UNION {IF view.rows[s] = <<>> THEN {} ELSE view.rows[s][1].members : s \in 0..2}
Walked == UNION {UNION {view.rows[s][i].members : i \in DOMAIN view.rows[s]} : s \in 0..2}

Judge ==
  /\ Evaluates /\ view.phase = "ready" /\ \A s \in 0..2 : view.next[s] = None /\ more[s] = None
  /\ verdict = [m \in Mail |-> "open"]
  /\ verdict' = [m \in Mail |->
       IF m \notin Stored THEN "absent"
       ELSE IF m \notin answered THEN "unanswered"
       ELSE IF m \in Walked THEN "present"
       ELSE IF m \in hidden THEN "dismissed" ELSE "no_attention_signal"]
  /\ UNCHANGED <<db, visit, reading, view, more, fresh, steady, overlap, start, surfaced, effort>>

-----------------------------------------------------------------------------
(* The rest of the mail hub.                                               *)

Changes ==
  /\ UNCHANGED <<visit, reading, view, more, fresh, verdict, overlap, start, surfaced>>
  /\ KeepsPlace

\* A transaction stores the instant at which it began.
BeginImport(m) ==
  /\ begun[m] = 0
  /\ begun' = [begun EXCEPT ![m] = 1 + Cardinality({n \in Mail : begun[n] > 0})]
  /\ UNCHANGED <<ingested, answered, hidden, filed, planned, effort>>
  /\ Changes

CommitImport(m) ==
  /\ begun[m] > 0 /\ ingested[m] = 0
  /\ ingested' = [ingested EXCEPT ![m] = begun[m]]
  /\ UNCHANGED <<begun, answered, hidden, filed, planned, effort>>
  /\ Changes

Counts == effort.changes < MaxChanges /\ effort' = [effort EXCEPT !.changes = @ + 1]

Classify(m) ==
  /\ m \in Stored \ answered /\ Counts
  /\ answered' = answered \cup {m}
  /\ UNCHANGED <<begun, ingested, hidden, filed, planned>>
  /\ Changes

File(m) ==
  /\ m \in Visible /\ Counts
  /\ filed' = filed \cup {m}
  /\ UNCHANGED <<begun, ingested, answered, hidden, planned>>
  /\ Changes

PlanReply(m) ==
  /\ m \in Stored \ planned /\ Counts
  /\ planned' = planned \cup {m}
  /\ UNCHANGED <<begun, ingested, answered, hidden, filed>>
  /\ Changes

DismissElsewhere(m) ==
  /\ m \in Visible /\ Counts
  /\ hidden' = hidden \cup {m}
  /\ UNCHANGED <<begun, ingested, answered, filed, planned>>
  /\ Changes

Screen ==
  \/ OpenHome \/ Refresh \/ RefreshArrives \/ RefreshFails \/ CloseHome \/ Judge
  \/ \E s \in Section : \/ LoadMore(s) \/ MoreArrives(s) \/ MoreFails(s)
  \/ \E s \in {1, 3} : \E i \in DOMAIN view.rows[s] : Dismiss(s, i)

ReadHome == ReadRankedSection \/ ReadFails \/ AdvanceVisitBoundary

MailHub ==
  \E m \in Mail : \/ BeginImport(m) \/ CommitImport(m) \/ Classify(m) \/ File(m)
                  \/ PlanReply(m) \/ DismissElsewhere(m)

Next == Screen \/ ReadHome \/ MailHub

Spec == Init /\ [][Next]_vars

-----------------------------------------------------------------------------
TypeOK ==
  /\ \A m \in Mail : begun[m] \in 0..Cardinality(Mail) /\ ingested[m] \in {0, begun[m]}
  /\ answered \cup hidden \cup filed \cup planned \subseteq Stored
  /\ view.phase \in {"closed", "loading", "ready"} /\ view.loading \subseteq Section
  /\ \A s \in Section : Entries(view.rows[s]) \subseteq {Conversation(m) : m \in Mail}

(* Paging to the end of a section shows every conversation that stayed in  *)
(* its place since the section was last read, whatever else arrived, left  *)
(* or was dismissed between the pages; a page requested across a refresh   *)
(* is outside the promise (encodeCursor, mergeItems).                      *)
WalkMissesNothing ==
  view.phase = "ready" /\ reading = None /\ fresh = None =>
    \A s \in Section \ overlap : view.next[s] = None =>
      \A c \in steady[s] : c.entry \in Entries(view.rows[s])

(* The order of compareAttention, for one representative of each entry.    *)
AttentionTier(signals) ==
  IF signals \cap {"priority_sender", "priority_thread", "security_alert", "sure_action"} # {}
  THEN 0 ELSE 1
ComparesBefore(m, n) ==
  LET t == AttentionTier(Signals(m))
      u == AttentionTier(Signals(n))
  IN  \/ t < u
      \/ t = u /\ Traits[m].sent > Traits[n].sent
      \/ t = u /\ Traits[m].sent = Traits[n].sent /\ Traits[m].id < Traits[n].id

(* The pages a screen holds of Needs attention are in the order the pure   *)
(* ranking gives (ranking.ts), and no conversation is listed twice.        *)
AttentionFollowsRanking ==
  LET page == Ranked(1, Bound)
  IN  \A i, j \in DOMAIN page : i < j =>
        /\ page[i].entry # page[j].entry
        /\ ComparesBefore(page[i].mail, page[j].mail)

(* The evaluation reports missing only mail that no attention section held *)
(* throughout its walk (evaluateHome).                                     *)
MissIsReal ==
  \A m \in Mail : verdict[m] = "no_attention_signal" =>
    \A s \in 0..2 : \A c \in steady[s] : m # c.mail

(* What Home shows is whole, in order, and reported truly (encodeCursor,   *)
(* ranking.ts, evaluateHome).                                              *)
HomeShowsAll == WalkMissesNothing /\ AttentionFollowsRanking /\ MissIsReal

(* Mail that arrives after a first visit surfaces in the answer of a later *)
(* visit or in a refresh before the boundary passes it                     *)
(* (advanceVisitBoundary).                                                 *)
(* Not kept: README, section 9.                                            *)
ArrivalSurfaces ==
  view.phase = "ready" /\ reading = None =>
    \A m \in Visible : start < ingested[m] /\ ingested[m] <= visit => m \in surfaced
=============================================================================
