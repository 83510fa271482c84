---------------------------- MODULE MCServices ----------------------------
(***************************************************************************)
(* The recovery controls, and the components that share no variable with   *)
(* them or with one another, side by side.  The scenario says which part   *)
(* moves; the others rest in their initial state, so the state spaces add  *)
(* up instead of multiplying.  The components SideBySide holds take their  *)
(* constants from here; one that several scenarios move is instantiated    *)
(* with the small constants each question needs.                           *)
(***************************************************************************)
EXTENDS RecoveryControls, SideBySide, FetchedMail, TLC

CONSTANTS
    m1, m2, p, q, s1, r1, r2, r3, r4, d1, d2, w1, w2, t1, p1, p2

VARIABLES
    scenario,
    folder, locked, roleRequest, report, undone, moved

recoveryVars == <<deployment, used, running, db, backup, claims, effects,
                 captured>>
rolesVars == <<folder, locked, roleRequest, report, undone, moved>>

-----------------------------------------------------------------------------
(* Fetched originals.  Storage moves one fetch, the collection, a backup   *)
(* and a power failure or a restore.                                       *)
Same == [m \in {m1, m2} |-> "b"]

\* Two fetches of byte-identical messages.
Fetches == INSTANCE Originals WITH
    Message <- {m1, m2}, Fetcher <- {p, q}, Bytes <- {"b", "c"},
    First <- Same, Other <- "c", Unparsable <- {}, MaxBackups <- 0,
    MaxReads <- 0, MaxFaults <- 0

\* A reader beside the fetch that merges its message.
Reads == INSTANCE Originals WITH
    Message <- {m1, m2}, Fetcher <- {p}, Bytes <- {"b", "c"},
    First <- Same, Other <- "c", Unparsable <- {}, MaxBackups <- 0,
    MaxReads <- 1, MaxFaults <- 1

\* Mail the parser rejects.
Rejected == INSTANCE Originals WITH
    Message <- {m1, m2}, Fetcher <- {p}, Bytes <- {"b", "c"},
    First <- Same, Other <- "c", Unparsable <- {"b"}, MaxBackups <- 0,
    MaxReads <- 0, MaxFaults <- 1

-----------------------------------------------------------------------------
(* Saved work, priorities and dismissals.  Saved moves two records of one  *)
(* kind, and messages that merge.                                          *)
\* Two devices and a restore around one reminder.
Conflicts == INSTANCE HomeWork WITH
    Device <- {d1, d2}, Message <- {m1}, Kind <- {"reminder"},
    Target <- {}, Choices <- {}, Work <- {w1}, MaxVersion <- 3, MaxGen <- 2

\* Priorities and dismissals.
ChoicesMade == INSTANCE HomeWork WITH
    Device <- {d1}, Message <- {m1, m2}, Kind <- {}, Target <- {t1},
    Work <- {w1}, MaxVersion <- 0, MaxGen <- 1,
    Choices <- {"prioritize", "unprioritize", "dismiss", "undismiss"}

-----------------------------------------------------------------------------
(* The classification sweep.  Sweeping moves two calls against a ceiling   *)
(* of one, and a breaker that opens at two failures.                       *)
SentBy == [m \in {m1, m2} |-> s1]

\* Every level of precedence, corrections and the routing gate.
Swept == INSTANCE Classification WITH
    Message <- {m1, m2}, Sender <- {s1}, SenderOf <- SentBy, Ruled <- {m2},
    Class <- {"hidden"}, Labels <- {m1}, Backfill <- FALSE, Cap <- Cap,
    BatchLimit <- 2, Threshold <- 3, Window <- 1, Cooldown <- 3,
    MaxTime <- 0, MaxChanges <- 2

-----------------------------------------------------------------------------
(* The folder roles of an account.                                         *)
Hint(name, hinted) == [name |-> name, roles |-> hinted]
Spellings == [n \in {"INBOX", "Inbox", "Out"} |-> IF n = "Inbox" THEN "INBOX" ELSE n]

\* Two spellings of the inbox, and folders that hint at two roles.
Roles == INSTANCE FolderRoles WITH
    Process <- {p1, p2}, Name <- {"INBOX", "Inbox", "Out"},
    KeyOf <- Spellings, AllRoles <- <<"inbox", "sent">>,
    Runs <- {{Hint("INBOX", {"inbox"}), Hint("Out", {"sent"})}, {Hint("Inbox", {"inbox", "sent"})}}

-----------------------------------------------------------------------------
(* Threads of an account.  Threading moves a message stored twice, its     *)
(* reply, and a reply to the reply whose parent loses its reference.       *)
Names(id, ref) == [id |-> id, ref |-> ref]
Reply == [r \in {r1, r2, r3, r4} |->
            IF r \in {r1, r2} THEN Names("A", "none") ELSE IF r = r3 THEN Names("B", "A") ELSE Names("C", "B")]
Corrected == [Reply EXCEPT ![r3].ref = "none"]
Circle == [r \in {r1, r2, r3} |->
             IF r = r1 THEN Names("A", "B") ELSE IF r = r2 THEN Names("B", "A") ELSE Names("C", "A")]
Mutual == [r \in {r1, r2, r3} |-> IF r = r2 THEN Names("B", "A") ELSE Names("A", "B")]

Arriving == {{r1, r2}, {r3, r4}}

\* What the theorems about conversations suppose of the parses.
ASSUME ExamplesAgree == CopiesAgree /\ ParsesAgree

\* Two messages that name each other as parent.
Circling == INSTANCE Threads WITH
    MessageRow <- {r1, r2, r3}, Header <- Circle, Full <- Circle,
    Bytes <- Circle, Windows <- {{r1}, {r2}, {r3}}

\* Two copies of one message, and another that names it and is named by it.
Returning == INSTANCE Threads WITH
    MessageRow <- {r1, r2, r3}, Header <- Mutual, Full <- Mutual,
    Bytes <- Mutual, Windows <- {{r1}, {r2}, {r3}}

-----------------------------------------------------------------------------
(* The message list.  Reading moves reads and arrivals around requests of  *)
(* one message.  Messages above 4 reach the inbox, the others do not.      *)
\* Archiving from the list.
Archiving == INSTANCE MailList WITH
    Mail <- 5..6, Old <- 5..6, RequestCap <- 2, OffsetCap <- 2,
    MaxCommands <- 1

\* More messages arrive than the list shows.
Overtaking == INSTANCE MailList WITH Mail <- 1..4, Old <- 1..2

-----------------------------------------------------------------------------
ServicesInit ==
    /\ scenario \in {
        "recovery", "fetches", "reads", "storage", "rejected", "conflicts", "anchors", "choices", "sweep", "breaker", "roles", "circle", "returning",
        "copies", "reading", "archiving", "overtaking", "working", "submitting", "settings", "files"}
    /\ Init
    /\ \/ scenario \notin {"reads", "storage", "rejected"} /\ Fetches!Init
       \/ scenario = "reads" /\ Reads!Init
       \/ scenario = "storage" /\ Storage!Init
       \/ scenario = "rejected" /\ Rejected!Init
    /\ \/ scenario \notin {"anchors", "choices"} /\ Conflicts!Init
       \/ scenario = "anchors" /\ Saved!Init
       \/ scenario = "choices" /\ ChoicesMade!Init
    /\ \/ scenario \notin {"breaker"} /\ Swept!Init
       \/ scenario = "breaker" /\ Sweeping!Init
    /\ Roles!Init
    /\ \/ scenario \notin {"circle", "returning"} /\ Threading!Init
       \/ scenario = "circle" /\ Circling!Init
       \/ scenario = "returning" /\ Returning!Init
    /\ \/ scenario \notin {"archiving", "overtaking"} /\ Reading!Init
       \/ scenario = "archiving" /\ Archiving!Init
       \/ scenario = "overtaking" /\ Overtaking!Init
    /\ Working!Init /\ Smtp!Init /\ Settings!Init /\ AddedFiles!Init

RecoveryMoves == scenario = "recovery" /\ Next

OriginalsMoves ==
    \/ scenario = "fetches" /\ Fetches!Next
    \/ scenario = "reads" /\ Reads!Next
    \/ scenario = "storage" /\ Storage!Next
    \/ scenario = "rejected" /\ Rejected!Next

HomeWorkMoves ==
    \/ scenario = "conflicts" /\ Conflicts!Next
    \/ scenario = "anchors" /\ Saved!Next
    \/ scenario = "choices" /\ ChoicesMade!Next

ClassificationMoves ==
    \/ scenario = "sweep" /\ Swept!Next
    \/ scenario = "breaker" /\ Sweeping!Next

RolesMoves ==
    \/ scenario = "roles" /\ Roles!Next

ThreadsMoves ==
    \/ scenario = "circle" /\ Circling!Next
    \/ scenario = "returning" /\ Returning!Next
    \/ scenario = "copies" /\ Threading!Next

SideMoves ==
    \/ scenario = "working" /\ WorkerMoves
    \/ scenario = "submitting" /\ SmtpMoves
    \/ scenario = "settings" /\ SettingsMoves
    \/ scenario = "files" /\ FilesMoves
    \/ scenario = "reading" /\ ListMoves
    \/ /\ \/ scenario = "archiving" /\ Archiving!Next
          \/ scenario = "overtaking" /\ Overtaking!Next
       /\ UNCHANGED <<workerVars, smtpVars, settingsVars, filesVars>>

ServicesNext ==
    /\ UNCHANGED scenario
    /\ \/ RecoveryMoves
          /\ UNCHANGED <<originalsVars, homeWorkVars, classificationVars, rolesVars, threadsVars,
                         sideVars>>
       \/ OriginalsMoves
          /\ UNCHANGED <<recoveryVars, homeWorkVars, classificationVars, rolesVars, threadsVars,
                         sideVars>>
       \/ HomeWorkMoves
          /\ UNCHANGED <<recoveryVars, originalsVars, classificationVars, rolesVars, threadsVars,
                         sideVars>>
       \/ ClassificationMoves
          /\ UNCHANGED <<recoveryVars, originalsVars, homeWorkVars, rolesVars, threadsVars,
                         sideVars>>
       \/ RolesMoves
          /\ UNCHANGED <<recoveryVars, originalsVars, homeWorkVars, classificationVars,
                         threadsVars, sideVars>>
       \/ ThreadsMoves
          /\ UNCHANGED <<recoveryVars, originalsVars, homeWorkVars, classificationVars,
                         rolesVars, sideVars>>
       \/ SideMoves
          /\ UNCHANGED <<recoveryVars, originalsVars, homeWorkVars, classificationVars,
                         rolesVars, threadsVars>>

allVars == <<scenario, recoveryVars, originalsVars, homeWorkVars,
             classificationVars, rolesVars, threadsVars, sideVars>>

ServicesSpec == ServicesInit /\ [][ServicesNext]_allVars

-----------------------------------------------------------------------------
(* The state of every component keeps its type.                            *)
PartsTypeOK ==
    /\ scenario = "recovery" => TypeOK
    /\ scenario = "fetches" => Fetches!TypeOK
    /\ scenario = "reads" => Reads!TypeOK
    /\ scenario = "storage" => Storage!TypeOK
    /\ scenario = "rejected" => Rejected!TypeOK
    /\ scenario = "conflicts" => Conflicts!TypeOK
    /\ scenario = "anchors" => Saved!TypeOK
    /\ scenario = "choices" => ChoicesMade!TypeOK
    /\ scenario = "sweep" => Swept!TypeOK
    /\ scenario = "breaker" => Sweeping!TypeOK
    /\ scenario = "roles" => Roles!TypeOK
    /\ scenario = "circle" => Circling!TypeOK
    /\ scenario = "returning" => Returning!TypeOK
    /\ scenario = "copies" => Threading!TypeOK
    /\ scenario = "reading" => Reading!TypeOK
    /\ scenario = "archiving" => Archiving!TypeOK
    /\ scenario = "overtaking" => Overtaking!TypeOK
    /\ scenario = "working" => Working!TypeOK
    /\ scenario = "submitting" => Smtp!TypeOK
    /\ scenario = "settings" => Settings!TypeOK
    /\ scenario = "files" => AddedFiles!TypeOK

(* A change reaches a saved row only as its author saw it, one record of a *)
(* kind is open per message, and a late cancellation deletes no completed  *)
(* work (requireCurrentRevision, home_work_open_uidx, cancelWork).         *)
WorkIsKept ==
    /\ [](
        /\ scenario = "conflicts" =>
            /\ Conflicts!ChangesWhatWasSeen
            /\ Conflicts!OneOpenRecord
        /\ scenario = "anchors" =>
            /\ Saved!ChangesWhatWasSeen
            /\ Saved!OneOpenRecord)
    /\ [][scenario = "conflicts" => Conflicts!KeepsCompleted]_allVars

(* One mailbox, one row; one role, one folder; no import moves a role or   *)
(* reports one the row does not hold (importFolders).                      *)
RolesAreStable ==
    /\ [](scenario = "roles" => Roles!RolesAreStable)
    /\ [][scenario = "roles" => Roles!KeepsReports]_allVars

=============================================================================
