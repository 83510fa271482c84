---------------------------- MODULE ServicesProofs ----------------------------
(***************************************************************************)
(* What the services owe their users, for every value of the constants:    *)
(* the settings a screen shows, the verdict of a submission, the stop, the *)
(* schedules and the reports of the worker, the files of a draft, the      *)
(* message list; and what RecoveryControls promises of effects, of pending *)
(* work and of access.                                                     *)
(*                                                                         *)
(* Of the components of SideBySide each moves alone: a step of the whole   *)
(* is a step of the component or leaves its variables as they are, so the  *)
(* invariant of a component, which its own steps keep, holds of the whole. *)
(*                                                                         *)
(* Of recovery the argument is this: a row carries the generation its      *)
(* device captured, which was the deployed one.  A restore retires the     *)
(* deployed generation, and Configure never takes a used one, so what a    *)
(* backup brings back carries a generation that is never deployed again:   *)
(* neither the gate nor a worker accepts it.  While the generation is      *)
(* deployed, the row itself remembers that it was claimed.                 *)
(***************************************************************************)
EXTENDS RecoveryControls, SideBySide, FiniteSetTheorems, TLAPS

-----------------------------------------------------------------------------
(* A step of the whole, seen by one component.                             *)

LEMMA SettingsAlone ==
    [SideNext]_sideVars => [Settings!Next]_settingsVars
BY DEF SideNext, WorkerMoves, SmtpMoves, SettingsMoves, FilesMoves, ListMoves, sideVars

LEMMA SmtpAlone ==
    [SideNext]_sideVars => [Smtp!Next]_smtpVars
BY DEF SideNext, WorkerMoves, SmtpMoves, SettingsMoves, FilesMoves, ListMoves, sideVars

LEMMA FilesAlone ==
    [SideNext]_sideVars => [AddedFiles!Next]_filesVars
BY DEF SideNext, WorkerMoves, SmtpMoves, SettingsMoves, FilesMoves, ListMoves, sideVars

LEMMA WorkerAlone ==
    [SideNext]_sideVars => [Working!Next]_workerVars
BY DEF SideNext, WorkerMoves, SmtpMoves, SettingsMoves, FilesMoves, ListMoves, sideVars

LEMMA ListAlone ==
    [SideNext]_sideVars => [Reading!Next]_listVars
BY DEF SideNext, WorkerMoves, SmtpMoves, SettingsMoves, FilesMoves, ListMoves, sideVars

-----------------------------------------------------------------------------
(* The settings: a late answer never repaints an older value.  A patch     *)
(* that still owns a key, by its ticket, carries the value that was        *)
(* applied to the key last, and the server's answer to a patch holds the   *)
(* patch itself.                                                           *)

(* Every request has its three parts.                                      *)
PutParts == {"patch", "step", "answer"}
PutShapes == \A t \in DOMAIN puts : DOMAIN puts[t] = PutParts

(* The answer of a request the server is done with holds the patch.        *)
AnswersHoldThePatch ==
    \A t \in DOMAIN puts : puts[t].step = "done" =>
        \A k \in Settings!Key \cap DOMAIN puts[t].patch : puts[t].answer[k] = puts[t].patch[k]

(* The patch that owns a key is the one that was applied last.             *)
OwnersAreNewest ==
    \A t \in DOMAIN puts : \A k \in Settings!Key \cap DOMAIN puts[t].patch :
        keyTickets[k] = t => entered[k] \in {Settings!None, puts[t].patch[k]}

SettingsInv == PutShapes /\ AnswersHoldThePatch /\ OwnersAreNewest /\ Settings!NewestEditShows

LEMMA SettingsBegin == Settings!Init => SettingsInv
<1> SUFFICES ASSUME Settings!Init PROVE SettingsInv
    OBVIOUS
<1>1. DOMAIN puts = {}
    BY DEF Settings!Init
<1>2. \A k \in Settings!Key : entered[k] = Settings!None
    BY DEF Settings!Init
<1>3. QED
    BY <1>1, <1>2
    DEF SettingsInv, PutShapes, AnswersHoldThePatch, OwnersAreNewest, Settings!NewestEditShows

(* A step that leaves the screen and the tickets alone and changes only    *)
(* how far the server is with one request.                                 *)
LEMMA RequestMoves ==
    ASSUME SettingsInv, NEW t \in DOMAIN puts,
           DOMAIN puts' = DOMAIN puts, \A u \in DOMAIN puts : u # t => puts'[u] = puts[u],
           DOMAIN puts'[t] = PutParts, puts'[t].patch = puts[t].patch,
           puts'[t].step = "done" =>
               \A k \in Settings!Key \cap DOMAIN puts[t].patch : puts'[t].answer[k] = puts[t].patch[k],
           UNCHANGED <<shown, keyTickets, entered>>
    PROVE  SettingsInv'
<1>1. \A u \in DOMAIN puts : puts'[u].patch = puts[u].patch
    OBVIOUS
<1>2. PutShapes'
    BY DEF SettingsInv, PutShapes
<1>3. AnswersHoldThePatch'
    <2>1. SUFFICES ASSUME NEW u \in DOMAIN puts, puts'[u].step = "done",
                          NEW k \in Settings!Key \cap DOMAIN puts[u].patch
                   PROVE  puts'[u].answer[k] = puts[u].patch[k]
        BY <1>1 DEF AnswersHoldThePatch
    <2>2. CASE u = t
        BY <2>1, <2>2
    <2>3. CASE u # t
        BY <2>1, <2>3 DEF SettingsInv, AnswersHoldThePatch
    <2>4. QED BY <2>2, <2>3
<1>4. OwnersAreNewest'
    BY <1>1 DEF SettingsInv, OwnersAreNewest
<1>5. Settings!NewestEditShows'
    BY DEF SettingsInv, Settings!NewestEditShows
<1>6. QED BY <1>2, <1>3, <1>4, <1>5 DEF SettingsInv

LEMMA PatchSent ==
    ASSUME SettingsInv, NEW patch, Settings!Send(patch)
    PROVE  SettingsInv'
<1> DEFINE n == Settings!NextTicket
<1>1. /\ shown' = [k \in Settings!Key |-> IF k \in DOMAIN patch THEN patch[k] ELSE shown[k]]
      /\ entered' = [k \in Settings!Key |-> IF k \in DOMAIN patch THEN patch[k] ELSE entered[k]]
      /\ keyTickets' = [k \in Settings!Key |-> IF k \in DOMAIN patch THEN n ELSE keyTickets[k]]
    BY DEF Settings!Send, Settings!Over
<1>2. /\ DOMAIN puts' = DOMAIN puts \cup {n}
      /\ puts'[n] = [patch |-> patch, step |-> "sent", answer |-> Settings!Fresh]
      /\ \A t \in DOMAIN puts : t # n => puts'[t] = puts[t]
    BY DEF Settings!Send
<1> HIDE DEF n
<1>3. PutShapes'
    <2>1. DOMAIN puts'[n] = PutParts
        BY <1>2 DEF PutParts
    <2>2. QED BY <1>2, <2>1 DEF SettingsInv, PutShapes
<1>4. AnswersHoldThePatch'
    <2>1. puts'[n].step # "done"
        BY <1>2
    <2>2. QED BY <1>2, <2>1 DEF SettingsInv, AnswersHoldThePatch
<1>5. OwnersAreNewest'
    <2>1. SUFFICES ASSUME NEW t \in DOMAIN puts', NEW k \in Settings!Key \cap DOMAIN puts'[t].patch,
                          keyTickets'[k] = t
                   PROVE  entered'[k] \in {Settings!None, puts'[t].patch[k]}
        BY DEF OwnersAreNewest
    <2>2. CASE t = n
        BY <1>1, <1>2, <2>1, <2>2
    <2>3. CASE t # n
        BY <1>1, <1>2, <2>1, <2>3 DEF SettingsInv, OwnersAreNewest
    <2>4. QED BY <2>2, <2>3
<1>6. Settings!NewestEditShows'
    BY <1>1 DEF SettingsInv, Settings!NewestEditShows
<1>7. QED BY <1>3, <1>4, <1>5, <1>6 DEF SettingsInv

(* A request that settled is forgotten: the others stay as they were.      *)
LEMMA RequestForgotten ==
    ASSUME SettingsInv, NEW t \in DOMAIN puts, puts' = [u \in DOMAIN puts \ {t} |-> puts[u]],
           UNCHANGED <<keyTickets, entered>>, Settings!NewestEditShows'
    PROVE  SettingsInv'
<1>1. DOMAIN puts' = DOMAIN puts \ {t} /\ \A u \in DOMAIN puts' : puts'[u] = puts[u]
    OBVIOUS
<1>2. PutShapes'
    BY <1>1 DEF SettingsInv, PutShapes
<1>3. AnswersHoldThePatch' /\ OwnersAreNewest'
    BY <1>1 DEF SettingsInv, AnswersHoldThePatch, OwnersAreNewest
<1>4. QED BY <1>2, <1>3 DEF SettingsInv

LEMMA PatchAnswered ==
    ASSUME SettingsInv, NEW t \in DOMAIN puts, Settings!Answered(t)
    PROVE  SettingsInv'
<1>1. shown' = [k \in Settings!Key |-> IF k \in Settings!Owned(t) THEN puts[t].answer[k] ELSE shown[k]]
    BY DEF Settings!Answered, Settings!Over
<1>2. Settings!NewestEditShows'
    <2>1. SUFFICES ASSUME NEW k \in Settings!Key
                   PROVE  entered'[k] \in {Settings!None, shown'[k]}
        BY DEF Settings!NewestEditShows
    <2>2. entered' = entered
        BY DEF Settings!Answered
    <2>3. CASE k \in Settings!Owned(t)
        <3>1. k \in DOMAIN puts[t].patch /\ keyTickets[k] = t
            BY <2>3 DEF Settings!Owned, Settings!AllKeys
        <3>2. puts[t].answer[k] = puts[t].patch[k]
            BY <3>1 DEF SettingsInv, AnswersHoldThePatch, Settings!Answered
        <3>3. entered[k] \in {Settings!None, puts[t].patch[k]}
            BY <3>1 DEF SettingsInv, OwnersAreNewest
        <3>4. QED BY <1>1, <2>2, <2>3, <3>2, <3>3
    <2>4. CASE k \notin Settings!Owned(t)
        BY <1>1, <2>2, <2>4 DEF SettingsInv, Settings!NewestEditShows
    <2>5. QED BY <2>3, <2>4
<1>3. QED BY <1>2, RequestForgotten DEF Settings!Answered

LEMMA SettingsStep == SettingsInv /\ [Settings!Next]_settingsVars => SettingsInv'
<1> SUFFICES ASSUME SettingsInv, [Settings!Next]_settingsVars PROVE SettingsInv'
    OBVIOUS
<1>1. CASE UNCHANGED settingsVars
    BY <1>1
    DEF SettingsInv, PutShapes, AnswersHoldThePatch, OwnersAreNewest, Settings!NewestEditShows,
        settingsVars
<1>2. CASE Settings!ServerReadsSettings \/ Settings!SettingsFail \/ Settings!Reload \/ Settings!OpenStart
    <2>1. UNCHANGED <<shown, keyTickets, entered, puts>>
        BY <1>2
        DEF Settings!ServerReadsSettings, Settings!SettingsFail, Settings!Reload,
            Settings!OpenStart
    <2>2. QED BY <2>1 DEF SettingsInv, PutShapes, AnswersHoldThePatch, OwnersAreNewest,
        Settings!NewestEditShows
<1>3. CASE Settings!SettingsArrive
    <2>1. UNCHANGED <<keyTickets, puts>> /\ entered' = [k \in Settings!Key |-> Settings!None]
        BY <1>3 DEF Settings!SettingsArrive
    <2>2. \A k \in Settings!Key : entered'[k] = Settings!None
        BY <2>1
    <2>3. PutShapes' /\ AnswersHoldThePatch'
        BY <2>1 DEF SettingsInv, PutShapes, AnswersHoldThePatch
    <2>4. OwnersAreNewest' /\ Settings!NewestEditShows'
        BY <2>2 DEF OwnersAreNewest, Settings!NewestEditShows
    <2>5. QED BY <2>3, <2>4 DEF SettingsInv
<1>4. CASE Settings!Retry
    BY <1>4, PatchSent DEF Settings!Retry
<1>5. ASSUME NEW k \in Settings!Key, Settings!Edit(k) PROVE SettingsInv'
    <2>1. Settings!Send([x \in {k} |-> Settings!Flip(shown[k])])
        BY <1>5 DEF Settings!Edit
    <2>2. QED BY <2>1, PatchSent
<1>6. ASSUME NEW t \in DOMAIN puts, Settings!ReadCurrent(t) PROVE SettingsInv'
    <2>1. puts' = [puts EXCEPT ![t].step = "read", ![t].answer = table]
        BY <1>6 DEF Settings!ReadCurrent
    <2>2. UNCHANGED <<shown, keyTickets, entered>>
        BY <1>6 DEF Settings!ReadCurrent
    <2>3. DOMAIN puts'[t] = PutParts /\ puts'[t].patch = puts[t].patch /\ puts'[t].step = "read"
        BY <2>1 DEF SettingsInv, PutShapes, PutParts
    <2>4. DOMAIN puts' = DOMAIN puts /\ \A u \in DOMAIN puts : u # t => puts'[u] = puts[u]
        BY <2>1
    <2>5. QED BY <2>2, <2>3, <2>4, RequestMoves
<1>7. ASSUME NEW t \in DOMAIN puts, Settings!WriteChanged(t) PROVE SettingsInv'
    <2> DEFINE next == Settings!Over(puts[t].answer, puts[t].patch)
    <2>1. \A k \in Settings!Key \cap DOMAIN puts[t].patch : next[k] = puts[t].patch[k]
        BY DEF Settings!Over
    <2>2. /\ puts' = [puts EXCEPT ![t].step = "done", ![t].answer = next]
          /\ UNCHANGED <<shown, keyTickets, entered>>
        BY <1>7 DEF Settings!WriteChanged
    <2> HIDE DEF next
    <2>3. /\ DOMAIN puts'[t] = PutParts /\ puts'[t].patch = puts[t].patch
          /\ puts'[t].answer = next
        BY <2>2 DEF SettingsInv, PutShapes, PutParts
    <2>4. DOMAIN puts' = DOMAIN puts /\ \A u \in DOMAIN puts : u # t => puts'[u] = puts[u]
        BY <2>2
    <2>5. QED BY <2>1, <2>2, <2>3, <2>4, RequestMoves
<1>8. ASSUME NEW t \in DOMAIN puts, Settings!Fail(t) PROVE SettingsInv'
    <2>1. puts' = [puts EXCEPT ![t].step = "failed"]
        BY <1>8 DEF Settings!Fail
    <2>2. UNCHANGED <<shown, keyTickets, entered>>
        BY <1>8 DEF Settings!Fail
    <2>3. DOMAIN puts'[t] = PutParts /\ puts'[t].patch = puts[t].patch /\ puts'[t].step = "failed"
        BY <2>1 DEF SettingsInv, PutShapes, PutParts
    <2>4. DOMAIN puts' = DOMAIN puts /\ \A u \in DOMAIN puts : u # t => puts'[u] = puts[u]
        BY <2>1
    <2>5. QED BY <2>2, <2>3, <2>4, RequestMoves
<1>9. ASSUME NEW t \in DOMAIN puts, Settings!Answered(t) PROVE SettingsInv'
    BY <1>9, PatchAnswered
<1>10. ASSUME NEW t \in DOMAIN puts, Settings!NotAnswered(t) PROVE SettingsInv'
    <2>1. /\ puts' = [u \in DOMAIN puts \ {t} |-> puts[u]]
          /\ UNCHANGED <<shown, keyTickets, entered>>
        BY <1>10 DEF Settings!NotAnswered
    <2>2. Settings!NewestEditShows'
        BY <2>1 DEF SettingsInv, Settings!NewestEditShows
    <2>3. QED BY <2>1, <2>2, RequestForgotten
<1>11. QED BY <1>1, <1>2, <1>3, <1>4, <1>5, <1>6, <1>7, <1>8, <1>9, <1>10 DEF Settings!Next

(* What was applied last to a key is what the screen shows, whatever late  *)
(* answer to an older patch arrives (keyTickets of settings-context.tsx),  *)
(* for any number of edits, retries and requests under way.                *)
THEOREM NewestEditStays == SideSpec => []NewestEditShows
<1>1. SideInit => SettingsInv
    BY SettingsBegin DEF SideInit
<1>2. SettingsInv /\ [SideNext]_sideVars => SettingsInv'
    BY SettingsStep, SettingsAlone
<1>3. SettingsInv => NewestEditShows
    BY DEF SettingsInv, NewestEditShows
<1>4. QED BY <1>1, <1>2, <1>3, PTL DEF SideSpec

-----------------------------------------------------------------------------
(* A submission: a rejected message is not on the server, an accepted one  *)
(* is, and nothing that must be secret crosses the wire in the clear.      *)
(* Both sides of the conversation are related at every stage of it: what   *)
(* the client may still hear, and what the server stored meanwhile.        *)

(* The submissions and the conversation, by their shape.                   *)
Attempt == [from : BOOLEAN, accepted : SUBSET Recipient, rejected : SUBSET Recipient,
            message : BOOLEAN, held : BOOLEAN]
BeforeText == {"greeting", "ehlo", "starttls", "auth", "mail", "rcpt", "data"}
ErrorCodes == {"none", "EPROTOCOL", "ETIMEDOUT", "ESOCKET", "ECONNECTION"} \cup Smtp!DefinitiveCodes
Submitter == [at : BeforeText \cup {"idle", "final", "done"}, goal : {"submit", "test"},
              security : {"starttls", "implicit"}, secure : BOOLEAN, left : SUBSET Recipient,
              asked : Recipient \cup {Smtp!Nobody}, taken : SUBSET Recipient,
              code : ErrorCodes,
              verdict : {"none", "accepted", "rejected", "unknown", "verified"}, before : Nat]
Verbs == {"EHLO", "STARTTLS", "AUTH", "MAIL", "RCPT", "DATA", "text", "dot"}
ClientLine == [verb : Verbs, to : Recipient \cup {Smtp!Nobody}]
Wire == [up : Seq(ClientLine), down : Seq(BOOLEAN), closed : BOOLEAN]
TlsModes == {"starttls", "starttls-missing", "implicit"}
ConnectionDrops == {"none", "during data", "after data"}
ServerBehaviour == [mode : TlsModes, greeting : BOOLEAN, trusted : BOOLEAN, login : BOOLEAN,
              advertised : BOOLEAN, sender : BOOLEAN, refused : SUBSET Recipient,
              data : BOOLEAN, final : BOOLEAN, drop : ConnectionDrops]

TalkShapes ==
    /\ submissions \in Seq(Attempt)
    /\ client \in Submitter
    /\ wire \in Wire
    /\ script \in ServerBehaviour
    /\ \A i \in DOMAIN wire.up : wire.up[i].verb = "RCPT" => wire.up[i].to \in Recipient
    /\ \A i \in DOMAIN submissions : submissions[i].held => submissions[i].message

NoDot == \A i \in DOMAIN wire.up : wire.up[i].verb # "dot"
StoredCount == Cardinality(Smtp!Stored)
NothingStored == NoDot /\ StoredCount = client.before
LastOpen == submissions # <<>> /\ ~submissions[Len(submissions)].message
TakenHeld == client.taken \subseteq submissions[Len(submissions)].accepted \ script.refused

(* What the client may still hear at each stage.                           *)
VerbOf(stage) == CASE stage = "ehlo" -> "EHLO" [] stage = "starttls" -> "STARTTLS"
                   [] stage = "auth" -> "AUTH" [] stage = "mail" -> "MAIL"
                   [] stage = "rcpt" -> "RCPT" [] stage = "data" -> "DATA"
                   [] OTHER -> "none"

IdleStage == client.at = "idle" => wire.up = <<>>
EarlyStage ==
    client.at \in BeforeText =>
        /\ StoredCount = client.before
        /\ \A i \in DOMAIN wire.up : wire.up[i].verb = VerbOf(client.at)
SenderStage ==
    client.at = "mail" /\ wire.down # <<>> /\ Head(wire.down) => LastOpen
EnvelopeStage ==
    client.at \in {"rcpt", "data"} => LastOpen /\ TakenHeld
RecipientStage ==
    client.at = "rcpt" =>
        /\ \A i \in DOMAIN wire.up : i = 1 /\ wire.up[i].to = client.asked
        /\ wire.down # <<>> /\ Head(wire.down) =>
              client.asked \in submissions[Len(submissions)].accepted \ script.refused
Dotted == <<Smtp!Line("dot", Smtp!Nobody)>>
FinalStage ==
    client.at = "final" =>
        /\ TakenHeld
        /\ \/ /\ wire.up \in {<<Smtp!Line("text", Smtp!Nobody), Smtp!Line("dot", Smtp!Nobody)>>, Dotted}
              /\ wire.down = <<>> /\ LastOpen /\ StoredCount = client.before
           \/ /\ wire.up = <<>> /\ (wire.down # <<>> => Head(wire.down) = script.final)
              /\ StoredCount = client.before + IF script.final THEN 1 ELSE 0
TestStops ==
    client.goal = "test" => client.at \notin {"mail", "rcpt", "data", "final"}
DoneStage ==
    client.at = "done" =>
        /\ client.verdict = "rejected" \/ client.goal = "test" => NothingStored
        /\ client.verdict = "accepted" => wire.up = <<>> /\ StoredCount > client.before /\ TakenHeld

TalkStages == /\ IdleStage /\ EarlyStage /\ SenderStage /\ EnvelopeStage /\ RecipientStage
          /\ FinalStage /\ TestStops /\ DoneStage
TalkInv == TalkShapes /\ TalkStages

(* The instance counts as the library does.                                *)
LEMMA CountsAlike == ASSUME NEW S PROVE Smtp!Cardinality(S) = Cardinality(S)
BY DEF Smtp!Cardinality, Cardinality

LEMMA StoredIsFinite ==
    ASSUME TalkShapes
    PROVE  IsFiniteSet(Smtp!Stored) /\ StoredCount \in Nat
<1>1. DOMAIN submissions = 1 .. Len(submissions) /\ Len(submissions) \in Nat
    BY DEF TalkShapes
<1>2. Smtp!Stored \subseteq 1 .. Len(submissions)
    BY <1>1 DEF Smtp!Stored
<1>3. IsFiniteSet(1 .. Len(submissions))
    BY <1>1, FS_Interval
<1>4. QED BY <1>2, <1>3, FS_Subset, FS_CardinalityType DEF StoredCount

LEMMA ScriptsBehave == Smtp!Scripts \subseteq ServerBehaviour
<1>1. Smtp!Default \in ServerBehaviour
    BY DEF Smtp!Default, ServerBehaviour, TlsModes, ConnectionDrops
<1>2. ASSUME NEW s \in ServerBehaviour
      PROVE  /\ \A m \in TlsModes : [s EXCEPT !.mode = m] \in ServerBehaviour
             /\ \A R \in SUBSET Recipient : [s EXCEPT !.refused = R] \in ServerBehaviour
             /\ \A d \in ConnectionDrops : [s EXCEPT !.drop = d] \in ServerBehaviour
             /\ \A f \in {"greeting", "trusted", "login", "advertised", "sender", "data", "final"} :
                   [s EXCEPT ![f] = FALSE] \in ServerBehaviour
    BY DEF ServerBehaviour
<1> HIDE DEF Smtp!Default, ServerBehaviour
<1>3. \A m \in {"starttls-missing", "implicit"} : [Smtp!Default EXCEPT !.mode = m] \in ServerBehaviour
    BY <1>1, <1>2 DEF TlsModes
<1>4. \A R \in SUBSET Recipient : [Smtp!Default EXCEPT !.refused = R] \in ServerBehaviour
    BY <1>1, <1>2
<1>5. \A d \in {"during data", "after data"} : [Smtp!Default EXCEPT !.drop = d] \in ServerBehaviour
    BY <1>1, <1>2 DEF ConnectionDrops
<1>6. \A f \in {"greeting", "trusted", "login", "advertised", "sender", "data", "final"} :
          [Smtp!Default EXCEPT ![f] = FALSE] \in ServerBehaviour
    BY <1>1, <1>2
<1>7. QED BY <1>1, <1>3, <1>4, <1>5, <1>6 DEF Smtp!Scripts

LEMMA TalkBegin == Smtp!Init => TalkInv
<1> SUFFICES ASSUME Smtp!Init PROVE TalkInv
    OBVIOUS
<1>1. client \in Submitter
    BY DEF Smtp!Init, Submitter, Smtp!Idle, Smtp!Nobody, ErrorCodes
<1>2. wire \in Wire /\ wire.up = <<>>
    BY DEF Smtp!Init, Wire, Smtp!Quiet
<1>3. script \in ServerBehaviour
    BY DEF Smtp!Init, ServerBehaviour, Smtp!Default, TlsModes, ConnectionDrops
<1>4. submissions = <<>>
    BY DEF Smtp!Init
<1>5. TalkShapes
    BY <1>1, <1>2, <1>3, <1>4 DEF TalkShapes
<1>6. client.at = "idle" /\ client.goal = "submit"
    BY DEF Smtp!Init, Smtp!Idle
<1>7. TalkStages
    BY <1>2, <1>6
    DEF TalkStages, IdleStage, EarlyStage, SenderStage, EnvelopeStage, RecipientStage,
        FinalStage, TestStops, DoneStage, BeforeText
<1>8. QED BY <1>5, <1>7 DEF TalkInv

(* The attempt under way, a new one if the last is complete.               *)
LEMMA OpenAttempt ==
    ASSUME TalkShapes
    PROVE  /\ Smtp!Open \in Seq(Attempt) /\ Len(Smtp!Open) \in DOMAIN Smtp!Open
           /\ DOMAIN Smtp!Open = 1 .. Len(Smtp!Open) /\ Len(Smtp!Open) \in Nat
           /\ ~Smtp!Open[Len(Smtp!Open)].message /\ ~Smtp!Open[Len(Smtp!Open)].held
           /\ \A i \in DOMAIN Smtp!Open : Smtp!Open[i].held => Smtp!Open[i].message
           /\ {i \in DOMAIN Smtp!Open : Smtp!Open[i].held} = Smtp!Stored
           /\ LastOpen => Smtp!Open = submissions
<1> DEFINE open == Smtp!Open
<1>1. CASE submissions = <<>> \/ submissions[Len(submissions)].message
    <2>1. open = Append(submissions, Smtp!NewAttempt)
        BY <1>1 DEF Smtp!Open
    <2>2. Smtp!NewAttempt \in Attempt /\ ~Smtp!NewAttempt.message /\ ~Smtp!NewAttempt.held
        BY DEF Smtp!NewAttempt, Attempt
    <2>3. /\ Len(open) = Len(submissions) + 1
          /\ DOMAIN open = 1 .. Len(submissions) + 1
          /\ DOMAIN submissions = 1 .. Len(submissions)
          /\ \A i \in DOMAIN submissions : open[i] = submissions[i]
          /\ open[Len(submissions) + 1] = Smtp!NewAttempt
          /\ Len(submissions) \in Nat
          /\ open \in Seq(Attempt)
        BY <2>1, <2>2 DEF TalkShapes
    <2> HIDE DEF open
    <2>4. /\ open \in Seq(Attempt) /\ Len(open) \in DOMAIN open
          /\ DOMAIN open = 1 .. Len(open) /\ Len(open) \in Nat
          /\ ~open[Len(open)].message /\ ~open[Len(open)].held
        BY <2>2, <2>3
    <2>5. \A i \in DOMAIN open : open[i].held => open[i].message
        BY <2>2, <2>3 DEF TalkShapes
    <2>6. {i \in DOMAIN open : open[i].held} = Smtp!Stored
        BY <2>2, <2>3 DEF Smtp!Stored
    <2>7. LastOpen => FALSE
        BY <1>1 DEF LastOpen
    <2>8. QED BY <2>4, <2>5, <2>6, <2>7 DEF open
<1>2. CASE submissions # <<>> /\ ~submissions[Len(submissions)].message
    <2>1. open = submissions
        BY <1>2 DEF Smtp!Open
    <2>2. /\ Len(submissions) \in DOMAIN submissions /\ Len(submissions) \in Nat
          /\ DOMAIN submissions = 1 .. Len(submissions)
        BY <1>2 DEF TalkShapes
    <2>3. ~submissions[Len(submissions)].held
        BY <1>2, <2>2 DEF TalkShapes
    <2> HIDE DEF open
    <2>4. QED BY <1>2, <2>1, <2>2, <2>3 DEF TalkShapes, Smtp!Stored, open
<1>3. QED BY <1>1, <1>2

LEMMA AttemptGrows ==
    ASSUME TalkShapes, NEW field \in {"from", "accepted", "rejected"}, NEW value,
           value \in IF field = "from" THEN BOOLEAN ELSE SUBSET Recipient,
           submissions' = Smtp!Current(field, value)
    PROVE  /\ submissions' \in Seq(Attempt)
           /\ Smtp!Stored' = Smtp!Stored
           /\ \A i \in DOMAIN submissions' : submissions'[i].held => submissions'[i].message
           /\ LastOpen'
           /\ Len(submissions') = Len(Smtp!Open)
           /\ submissions'[Len(Smtp!Open)][field] = value
           /\ \A g \in {"from", "accepted", "rejected"} \ {field} :
                 submissions'[Len(Smtp!Open)][g] = Smtp!Open[Len(Smtp!Open)][g]
<1> DEFINE open == Smtp!Open
           n == Len(open)
<1>1. submissions' = [open EXCEPT ![n][field] = value]
    BY DEF Smtp!Current
<1>2. /\ open \in Seq(Attempt) /\ n \in DOMAIN open
      /\ DOMAIN open = 1 .. n /\ n \in Nat
      /\ ~open[n].message /\ ~open[n].held
      /\ \A i \in DOMAIN open : open[i].held => open[i].message
      /\ {i \in DOMAIN open : open[i].held} = Smtp!Stored
    BY OpenAttempt
<1> HIDE DEF open
<1>3. open[n] \in Attempt
    BY <1>2
<1>4. [open[n] EXCEPT ![field] = value] \in Attempt
    BY <1>3 DEF Attempt
<1>5. /\ DOMAIN submissions' = DOMAIN open
      /\ submissions'[n] = [open[n] EXCEPT ![field] = value]
      /\ \A i \in DOMAIN open : i # n => submissions'[i] = open[i]
    BY <1>1, <1>2
<1>6. submissions' \in Seq(Attempt) /\ Len(submissions') = n
    BY <1>1, <1>2, <1>4
<1>7. /\ submissions'[n].message = open[n].message
      /\ submissions'[n].held = open[n].held
      /\ submissions'[n][field] = value
      /\ \A g \in {"from", "accepted", "rejected"} \ {field} : submissions'[n][g] = open[n][g]
    BY <1>3, <1>5 DEF Attempt
<1>8. \A i \in DOMAIN open : /\ submissions'[i].held = open[i].held
                             /\ submissions'[i].message = open[i].message
    BY <1>5, <1>7
<1>9. Smtp!Stored' = Smtp!Stored
    BY <1>2, <1>5, <1>8 DEF Smtp!Stored
<1>10. \A i \in DOMAIN submissions' : submissions'[i].held => submissions'[i].message
    BY <1>2, <1>5, <1>8
<1>11. LastOpen'
    <2>1. n >= 1
        BY <1>2
    <2>2. submissions' # <<>>
        BY <1>6, <2>1
    <2>3. QED BY <1>2, <1>6, <1>7, <2>2 DEF LastOpen
<1>12. QED BY <1>6, <1>7, <1>9, <1>10, <1>11 DEF open

(* The message is recorded; the server holds it if it said so.             *)
MessageRecorded ==
    submissions' = [Smtp!Current("message", TRUE) EXCEPT ![Len(Smtp!Open)].held = script.final]

LEMMA AttemptEnds ==
    ASSUME TalkShapes, MessageRecorded
    PROVE  /\ submissions' \in Seq(Attempt)
           /\ \A i \in DOMAIN submissions' : submissions'[i].held => submissions'[i].message
           /\ Len(submissions') = Len(Smtp!Open)
           /\ submissions'[Len(Smtp!Open)].accepted = Smtp!Open[Len(Smtp!Open)].accepted
           /\ StoredCount' = StoredCount + IF script.final THEN 1 ELSE 0
<1> DEFINE open == Smtp!Open
           n == Len(open)
           last == [open[n] EXCEPT !.message = TRUE, !.held = script.final]
<1>1. /\ open \in Seq(Attempt) /\ n \in DOMAIN open
      /\ DOMAIN open = 1 .. n /\ n \in Nat
      /\ ~open[n].message /\ ~open[n].held
      /\ \A i \in DOMAIN open : open[i].held => open[i].message
      /\ {i \in DOMAIN open : open[i].held} = Smtp!Stored
    BY OpenAttempt
<1>2. submissions' = [[open EXCEPT ![n]["message"] = TRUE] EXCEPT ![n].held = script.final]
    BY DEF Smtp!Current, MessageRecorded
<1> HIDE DEF open
<1>3. open[n] \in Attempt
    BY <1>1
<1>4. /\ last \in Attempt /\ last.message /\ last.held = script.final
      /\ last.accepted = open[n].accepted
    BY <1>3 DEF Attempt, TalkShapes, ServerBehaviour
<1>5. /\ DOMAIN submissions' = DOMAIN open
      /\ submissions'[n] = last
      /\ \A i \in DOMAIN open : i # n => submissions'[i] = open[i]
    <2> DEFINE cur == [open EXCEPT ![n]["message"] = TRUE]
    <2>1. /\ DOMAIN cur = DOMAIN open /\ cur[n] = [open[n] EXCEPT !.message = TRUE]
          /\ \A i \in DOMAIN open : i # n => cur[i] = open[i]
        BY <1>1
    <2>2. submissions' = [cur EXCEPT ![n].held = script.final]
        BY <1>2
    <2> HIDE DEF cur
    <2>3. /\ DOMAIN submissions' = DOMAIN open
          /\ submissions'[n] = [cur[n] EXCEPT !.held = script.final]
          /\ \A i \in DOMAIN open : i # n => submissions'[i] = open[i]
        BY <1>1, <2>1, <2>2
    <2>4. [cur[n] EXCEPT !.held = script.final] = last
        BY <1>3, <2>1 DEF Attempt
    <2>5. QED BY <2>3, <2>4
<1> HIDE DEF last
<1>6. submissions' \in Seq(Attempt) /\ Len(submissions') = n
    <2> DEFINE cur == [open EXCEPT ![n]["message"] = TRUE]
    <2>1. [open[n] EXCEPT !["message"] = TRUE] \in Attempt
        BY <1>3 DEF Attempt
    <2>2. cur \in Seq(Attempt) /\ Len(cur) = n /\ n \in DOMAIN cur
        BY <1>1, <2>1
    <2>3. submissions' = [cur EXCEPT ![n].held = script.final]
        BY <1>2
    <2> HIDE DEF cur
    <2>4. cur[n] \in Attempt /\ script.final \in BOOLEAN
        BY <2>2 DEF TalkShapes, ServerBehaviour
    <2> DEFINE new == [cur[n] EXCEPT !.held = script.final]
    <2>5. new \in Attempt
        BY <2>4 DEF Attempt
    <2>6. submissions' = [cur EXCEPT ![n] = new]
        BY <2>2, <2>3
    <2> HIDE DEF new
    <2>7. submissions' \in Seq(Attempt)
        BY <2>2, <2>5, <2>6
    <2>8. DOMAIN submissions' = 1 .. n
        BY <2>2, <2>6
    <2>9. Len(submissions') = n
        BY <1>1, <2>7, <2>8
    <2>10. QED BY <2>7, <2>9
<1>7. \A i \in DOMAIN submissions' : submissions'[i].held => submissions'[i].message
    BY <1>1, <1>4, <1>5
<1>8. StoredCount' = StoredCount + IF script.final THEN 1 ELSE 0
    <2>1. IsFiniteSet(Smtp!Stored) /\ StoredCount \in Nat
        BY StoredIsFinite
    <2>2. n \notin Smtp!Stored
        BY <1>1
    <2>3. CASE script.final
        <3>1. Smtp!Stored' = Smtp!Stored \cup {n}
            BY <1>1, <1>4, <1>5, <2>3 DEF Smtp!Stored
        <3>2. QED BY <2>1, <2>2, <2>3, <3>1, FS_AddElement DEF StoredCount
    <2>4. CASE ~script.final
        <3>1. Smtp!Stored' = Smtp!Stored
            BY <1>1, <1>4, <1>5, <2>4 DEF Smtp!Stored
        <3>2. QED BY <2>1, <2>4, <3>1 DEF StoredCount
    <2>5. QED BY <2>3, <2>4
<1>9. QED BY <1>4, <1>5, <1>6, <1>7, <1>8 DEF open

-----------------------------------------------------------------------------
(* The steps of the client.                                                *)

Standing == UNCHANGED <<script, submissions>>

LEMMA WireSet ==
    ASSUME wire \in Wire, NEW up \in Seq(ClientLine), NEW down \in Seq(BOOLEAN),
           wire' = [wire EXCEPT !.down = down, !.up = up]
    PROVE  wire' \in Wire /\ wire'.up = up /\ wire'.down = down
BY DEF Wire

LEMMA HeardSet ==
    ASSUME wire \in Wire, NEW down \in Seq(BOOLEAN), wire' = [wire EXCEPT !.down = down]
    PROVE  wire' \in Wire /\ wire'.up = wire.up /\ wire'.down = down
BY DEF Wire

LEMMA HeadOfOne == ASSUME NEW x PROVE Head(<<x>>) = x
OBVIOUS

LEMMA NothingHeard == <<>> \in Seq(BOOLEAN)
OBVIOUS

LEMMA EarlyIsQuiet ==
    ASSUME TalkInv, client.at \in BeforeText
    PROVE  NothingStored
BY DEF TalkInv, TalkStages, EarlyStage, NothingStored, NoDot, VerbOf, BeforeText

LEMMA CountStands ==
    ASSUME Standing
    PROVE  Smtp!Stored' = Smtp!Stored /\ StoredCount' = StoredCount /\ (LastOpen' <=> LastOpen)
BY DEF Standing, Smtp!Stored, StoredCount, LastOpen

LEMMA EndsSound ==
    ASSUME TalkInv, Standing,
           NEW judged \in {"accepted", "rejected", "unknown", "verified"},
           NEW code \in ErrorCodes, NEW taken \in SUBSET Recipient,
           Smtp!Ends(judged, code, taken),
           judged = "rejected" \/ client.goal = "test" => NothingStored,
           judged = "accepted" => /\ wire.up = <<>> /\ StoredCount > client.before
                                   /\ taken \subseteq submissions[Len(submissions)].accepted
                                                      \ script.refused
    PROVE  TalkInv'
<1>1. /\ client' \in Submitter /\ client'.at = "done" /\ client'.verdict = judged
      /\ client'.taken = taken /\ client'.goal = client.goal /\ client'.before = client.before
    BY DEF Smtp!Ends, TalkInv, TalkShapes, Submitter
<1>2. wire' \in Wire /\ wire'.up = wire.up
    <2>1. wire' = [wire EXCEPT !.down = <<>>] /\ wire \in Wire
        BY DEF Smtp!Ends, TalkInv, TalkShapes
    <2>2. QED BY <2>1, NothingHeard, HeardSet
<1>3. TalkShapes'
    BY <1>1, <1>2 DEF TalkInv, TalkShapes, Standing
<1>4. DoneStage'
    BY <1>1, <1>2, CountStands DEF DoneStage, NothingStored, NoDot, TakenHeld, Standing
<1>5. TalkStages'
    BY <1>1, <1>4
    DEF TalkStages, IdleStage, EarlyStage, SenderStage, EnvelopeStage, RecipientStage,
        FinalStage, TestStops, BeforeText
<1>6. QED BY <1>3, <1>5 DEF TalkInv

LEMMA FailsSound ==
    ASSUME TalkInv, Standing, NEW code \in ErrorCodes, Smtp!Fails(code),
           client.at \notin {"idle", "done"}, Smtp!Definitive(code) => NothingStored
    PROVE  TalkInv'
<1>1. client.goal = "test" => NothingStored
    <2>1. client.at \in BeforeText \cup {"final"}
        BY DEF TalkInv, TalkShapes, Submitter
    <2>2. QED BY <2>1, EarlyIsQuiet DEF TalkInv, TalkStages, TestStops
<1>2. QED BY <1>1, EndsSound DEF Smtp!Fails

(* The client asks and waits, before it named anybody.                     *)
LEMMA AskSound ==
    ASSUME TalkInv, Standing, NEW stage \in {"ehlo", "starttls", "auth", "mail"},
           client.at \in BeforeText, client.goal = "test" => stage # "mail",
           client' \in Submitter, client'.at = stage, client'.goal = client.goal,
           client'.before = client.before,
           wire' = [wire EXCEPT !.down = <<>>, !.up = <<Smtp!Line(VerbOf(stage), Smtp!Nobody)>>]
    PROVE  TalkInv'
<1>1. VerbOf(stage) \in {"EHLO", "STARTTLS", "AUTH", "MAIL"}
    BY DEF VerbOf
<1> DEFINE line == Smtp!Line(VerbOf(stage), Smtp!Nobody)
<1>2. line \in ClientLine /\ line.verb = VerbOf(stage) /\ line.verb # "RCPT"
    BY <1>1 DEF Smtp!Line, ClientLine, Verbs
<1> HIDE DEF line
<1>3. wire' \in Wire /\ wire'.up = <<line>> /\ wire'.down = <<>>
    <2>1. wire' = [wire EXCEPT !.down = <<>>, !.up = <<line>>] /\ wire \in Wire
        BY DEF TalkInv, TalkShapes, line
    <2>2. <<line>> \in Seq(ClientLine)
        BY <1>2
    <2>3. QED BY <2>1, <2>2, NothingHeard, WireSet
<1>4. \A i \in DOMAIN wire'.up : wire'.up[i] = line
    BY <1>3
<1>5. TalkShapes'
    BY <1>2, <1>3, <1>4 DEF TalkInv, TalkShapes, Standing
<1>6. EarlyStage'
    BY <1>2, <1>4, EarlyIsQuiet, CountStands DEF EarlyStage, NothingStored
<1>7. TalkStages'
    BY <1>3, <1>6
    DEF TalkStages, IdleStage, SenderStage, EnvelopeStage, RecipientStage, FinalStage,
        TestStops, DoneStage
<1>8. QED BY <1>5, <1>7 DEF TalkInv

LEMMA SaysSound ==
    ASSUME TalkInv, Standing, NEW stage \in {"ehlo", "starttls", "auth", "mail"},
           client.at \in BeforeText, client.goal = "test" => stage # "mail",
           Smtp!Says(stage, <<Smtp!Line(VerbOf(stage), Smtp!Nobody)>>)
    PROVE  TalkInv'
<1>1. client' \in Submitter /\ client'.at = stage /\ client'.goal = client.goal
      /\ client'.before = client.before
    BY DEF Smtp!Says, TalkInv, TalkShapes, Submitter, BeforeText
<1>2. wire' = [wire EXCEPT !.down = <<>>, !.up = <<Smtp!Line(VerbOf(stage), Smtp!Nobody)>>]
    BY DEF Smtp!Says
<1>3. QED BY <1>1, <1>2, AskSound

(* The client asks for one more recipient, or for the data.                *)
LEMMA EnvelopeSound ==
    ASSUME TalkInv, Standing, NEW stage \in {"rcpt", "data"}, NEW to \in Recipient \cup {Smtp!Nobody},
           stage = "rcpt" => to \in Recipient,
           client.at \in BeforeText, client.goal # "test", LastOpen,
           client' \in Submitter, client'.at = stage, client'.goal = client.goal,
           client'.before = client.before,
           client'.taken \subseteq submissions[Len(submissions)].accepted \ script.refused,
           stage = "rcpt" => client'.asked = to,
           wire' = [wire EXCEPT !.down = <<>>, !.up = <<Smtp!Line(VerbOf(stage), to)>>]
    PROVE  TalkInv'
<1>1. VerbOf(stage) \in {"RCPT", "DATA"} /\ (VerbOf(stage) = "RCPT" => stage = "rcpt")
    BY DEF VerbOf
<1> DEFINE line == Smtp!Line(VerbOf(stage), to)
<1>2. line \in ClientLine /\ line.verb = VerbOf(stage) /\ line.to = to
    BY <1>1 DEF Smtp!Line, ClientLine, Verbs
<1> HIDE DEF line
<1>3. wire' \in Wire /\ wire'.up = <<line>> /\ wire'.down = <<>>
    <2>1. wire' = [wire EXCEPT !.down = <<>>, !.up = <<line>>] /\ wire \in Wire
        BY DEF TalkInv, TalkShapes, line
    <2>2. <<line>> \in Seq(ClientLine)
        BY <1>2
    <2>3. QED BY <2>1, <2>2, NothingHeard, WireSet
<1>4. \A i \in DOMAIN wire'.up : wire'.up[i] = line
    BY <1>3
<1>5. TalkShapes'
    BY <1>1, <1>2, <1>3, <1>4 DEF TalkInv, TalkShapes, Standing
<1>6. EarlyStage'
    BY <1>2, <1>4, EarlyIsQuiet, CountStands DEF EarlyStage, NothingStored
<1>7. EnvelopeStage'
    BY CountStands DEF EnvelopeStage, TakenHeld, Standing
<1>8. RecipientStage'
    <2>1. stage = "rcpt" => \A i \in DOMAIN wire'.up : i = 1 /\ wire'.up[i].to = client'.asked
        BY <1>2, <1>3, <1>4
    <2>2. wire'.down = <<>>
        BY <1>3
    <2>3. QED BY <2>1, <2>2 DEF RecipientStage
<1>9. TalkStages'
    BY <1>3, <1>6, <1>7, <1>8
    DEF TalkStages, IdleStage, SenderStage, FinalStage, TestStops, DoneStage
<1>10. QED BY <1>5, <1>9 DEF TalkInv

LEMMA ConnectSound ==
    ASSUME TalkInv, NEW s \in Smtp!Scripts, NEW goal \in {"submit", "test"},
           NEW security \in {"starttls", "implicit"}, Smtp!Connect(s, goal, security)
    PROVE  TalkInv'
<1>1. s \in ServerBehaviour
    BY ScriptsBehave
<1>2. submissions' = submissions /\ Smtp!Stored' = Smtp!Stored /\ StoredCount' = StoredCount
    BY DEF Smtp!Connect, Smtp!Stored, StoredCount
<1>3. StoredCount \in Nat
    BY StoredIsFinite DEF TalkInv
<1>4. client' = [Smtp!Idle EXCEPT !.at = "greeting", !.goal = goal, !.security = security,
                             !.left = Recipient, !.before = StoredCount]
    BY CountsAlike DEF Smtp!Connect, StoredCount
<1>6. client' \in Submitter /\ client'.at = "greeting" /\ client'.before = StoredCount
    <2>1. ASSUME NEW c \in Submitter, NEW n \in Nat
          PROVE  LET new == [c EXCEPT !.at = "greeting", !.goal = goal, !.security = security,
                                      !.left = Recipient, !.before = n]
                 IN  new \in Submitter /\ new.at = "greeting" /\ new.before = n
        <3> DEFINE one == [c EXCEPT !.at = "greeting", !.goal = goal]
        <3>1. one \in Submitter /\ one.at = "greeting"
            BY DEF Submitter, BeforeText
        <3> DEFINE two == [one EXCEPT !.security = security, !.left = Recipient, !.before = n]
        <3> HIDE DEF one
        <3>2. two \in Submitter /\ two.at = "greeting" /\ two.before = n
            BY <3>1 DEF Submitter
        <3>3. QED BY <3>2 DEF one
    <2>2. Smtp!Idle \in Submitter
        BY DEF Smtp!Idle, Submitter, Smtp!Nobody, ErrorCodes
    <2>3. QED BY <1>3, <1>4, <2>1, <2>2
<1>7. wire' \in Wire /\ wire'.up = <<>> /\ wire'.down = <<>>
    BY DEF Smtp!Connect, Smtp!Quiet, Wire
<1>8. TalkShapes'
    BY <1>1, <1>2, <1>6, <1>7 DEF TalkInv, TalkShapes, Smtp!Connect
<1>9. EarlyStage'
    BY <1>2, <1>6, <1>7 DEF EarlyStage
<1>10. TalkStages'
    BY <1>6, <1>9
    DEF TalkStages, IdleStage, SenderStage, EnvelopeStage, RecipientStage, FinalStage,
        TestStops, DoneStage
<1>11. QED BY <1>8, <1>10 DEF TalkInv

LEMMA ChannelSound ==
    ASSUME TalkInv, Smtp!Channel
    PROVE  TalkInv'
<1>1. client.at = "greeting" /\ Standing
    BY DEF Smtp!Channel, Standing
<1>2. client' \in Submitter /\ client'.at = "greeting" /\ client'.goal = client.goal
      /\ client'.before = client.before
    BY <1>1 DEF Smtp!Channel, TalkInv, TalkShapes, Submitter
<1>3. wire' \in Wire /\ wire'.up = wire.up
    <2>1. <<script.greeting>> \in Seq(BOOLEAN)
        BY DEF TalkInv, TalkShapes, ServerBehaviour
    <2>2. wire' = [wire EXCEPT !.down = <<script.greeting>>] /\ wire \in Wire
        BY DEF Smtp!Channel, TalkInv, TalkShapes
    <2>3. QED BY <2>1, <2>2, HeardSet
<1>4. TalkShapes'
    BY <1>1, <1>2, <1>3 DEF TalkInv, TalkShapes, Standing
<1>5. EarlyStage'
    BY <1>1, <1>2, <1>3, CountStands DEF TalkInv, TalkStages, EarlyStage, BeforeText
<1>6. TalkStages'
    BY <1>2, <1>5
    DEF TalkStages, IdleStage, SenderStage, EnvelopeStage, RecipientStage, FinalStage,
        TestStops, DoneStage
<1>7. QED BY <1>4, <1>6 DEF TalkInv

LEMMA CloseSound ==
    ASSUME TalkInv, Smtp!Close
    PROVE  TalkInv'
<1>1. client' \in Submitter /\ client'.at = "idle"
    BY DEF Smtp!Close, Smtp!Idle, Submitter, Smtp!Nobody, ErrorCodes
<1>2. wire' \in Wire /\ wire'.up = <<>>
    BY DEF Smtp!Close, Smtp!Quiet, Wire
<1>3. TalkShapes'
    BY <1>1, <1>2 DEF TalkInv, TalkShapes, Smtp!Close
<1>4. TalkStages'
    BY <1>1, <1>2
    DEF TalkStages, IdleStage, EarlyStage, SenderStage, EnvelopeStage, BeforeText,
        RecipientStage, FinalStage, TestStops, DoneStage
<1>5. QED BY <1>3, <1>4 DEF TalkInv

(* The answer to the text: it says what the server recorded.               *)
LEMMA AfterFinalSound ==
    ASSUME TalkInv, Smtp!AfterFinal
    PROVE  TalkInv'
<1>1. Standing /\ client.at = "final" /\ wire.down # <<>>
    BY DEF Smtp!AfterFinal, Smtp!Others, Smtp!Hears, Standing
<1>2. /\ TakenHeld /\ wire.up = <<>> /\ Smtp!Yes = script.final
      /\ StoredCount = client.before + IF script.final THEN 1 ELSE 0
    BY <1>1 DEF TalkInv, TalkStages, FinalStage, Smtp!Yes
<1>3. client.goal # "test" /\ client.before \in Nat /\ client.taken \in SUBSET Recipient
    BY <1>1 DEF TalkInv, TalkStages, TestStops, TalkShapes, Submitter
<1>4. CASE script.final
    <2>1. Smtp!Ends("accepted", "none", client.taken)
        BY <1>2, <1>4 DEF Smtp!AfterFinal
    <2>2. StoredCount > client.before
        BY <1>2, <1>3, <1>4
    <2>3. "none" \in ErrorCodes
        BY DEF ErrorCodes
    <2>4. QED BY <1>1, <1>2, <1>3, <2>1, <2>2, <2>3, EndsSound DEF TakenHeld
<1>5. CASE ~script.final
    <2>1. Smtp!Fails("EMESSAGE")
        BY <1>2, <1>5 DEF Smtp!AfterFinal
    <2>2. NothingStored
        BY <1>2, <1>3, <1>5 DEF NothingStored, NoDot
    <2>3. "EMESSAGE" \in ErrorCodes
        BY DEF ErrorCodes, Smtp!DefinitiveCodes
    <2>4. QED BY <1>1, <2>1, <2>2, <2>3, FailsSound
<1>6. QED BY <1>4, <1>5

(* The text is asked for: the attempt is open and holds who was taken.     *)
LEMMA TextSound ==
    ASSUME TalkInv, Standing, client.at = "data",
           Smtp!Says("final", <<Smtp!Line("text", Smtp!Nobody), Smtp!Line("dot", Smtp!Nobody)>>)
    PROVE  TalkInv'
<1> DEFINE lines == <<Smtp!Line("text", Smtp!Nobody), Smtp!Line("dot", Smtp!Nobody)>>
<1>1. /\ client' \in Submitter /\ client'.at = "final" /\ client'.goal = client.goal
      /\ client'.before = client.before /\ client'.taken = client.taken
    BY DEF Smtp!Says, TalkInv, TalkShapes, Submitter
<1>2. lines \in Seq(ClientLine)
    BY DEF Smtp!Line, ClientLine, Verbs
<1>3. \A i \in DOMAIN lines : lines[i].verb # "RCPT"
    BY DEF Smtp!Line
<1>4. wire' \in Wire /\ wire'.up = lines /\ wire'.down = <<>>
    <2>1. wire' = [wire EXCEPT !.down = <<>>, !.up = lines] /\ wire \in Wire
        BY DEF Smtp!Says, TalkInv, TalkShapes
    <2> HIDE DEF lines
    <2>2. QED BY <1>2, <2>1, NothingHeard, WireSet
<1>5. TalkShapes'
    BY <1>1, <1>3, <1>4 DEF TalkInv, TalkShapes, Standing
<1>6. FinalStage'
    <2>1. LastOpen /\ TakenHeld /\ StoredCount = client.before
        BY DEF TalkInv, TalkStages, EnvelopeStage, EarlyStage, BeforeText
    <2>2. QED BY <1>1, <1>4, <2>1, CountStands DEF FinalStage, TakenHeld, Standing
<1>7. client.goal # "test"
    BY DEF TalkInv, TalkStages, TestStops
<1>8. TalkStages'
    BY <1>1, <1>6, <1>7
    DEF TalkStages, IdleStage, EarlyStage, SenderStage, EnvelopeStage, BeforeText,
        RecipientStage, TestStops, DoneStage
<1>9. QED BY <1>5, <1>8 DEF TalkInv

LEMMA SenderSound ==
    ASSUME TalkInv, Smtp!AfterSender
    PROVE  TalkInv'
<1>1. Standing /\ client.at = "mail" /\ client.at \in BeforeText /\ wire.down # <<>>
    BY DEF Smtp!AfterSender, Smtp!Others, Smtp!Hears, Standing, BeforeText
<1>2. client.goal # "test"
    BY <1>1 DEF TalkInv, TalkStages, TestStops
<1>3. CASE Smtp!Yes
    <2>1. LastOpen
        BY <1>1, <1>3 DEF TalkInv, TalkStages, SenderStage, Smtp!Yes
    <2>2. PICK r \in client.left : Smtp!Asks(r, client.left, {})
        BY <1>3 DEF Smtp!AfterSender
    <2>3. r \in Recipient
        BY DEF TalkInv, TalkShapes, Submitter
    <2>4. /\ client' \in Submitter /\ client'.at = "rcpt" /\ client'.goal = client.goal
          /\ client'.before = client.before /\ client'.asked = r /\ client'.taken = {}
        BY <2>2, <2>3 DEF Smtp!Asks, TalkInv, TalkShapes, Submitter, BeforeText
    <2>5. VerbOf("rcpt") = "RCPT"
        BY DEF VerbOf
    <2>6. wire' = [wire EXCEPT !.down = <<>>, !.up = <<Smtp!Line(VerbOf("rcpt"), r)>>]
        BY <2>2, <2>5 DEF Smtp!Asks
    <2>7. QED BY <1>1, <1>2, <2>1, <2>3, <2>4, <2>6, EnvelopeSound
<1>4. CASE ~Smtp!Yes
    <2>1. Smtp!Fails("EENVELOPE") /\ "EENVELOPE" \in ErrorCodes
        BY <1>4 DEF Smtp!AfterSender, ErrorCodes, Smtp!DefinitiveCodes
    <2>2. QED BY <1>1, <2>1, EarlyIsQuiet, FailsSound
<1>5. QED BY <1>3, <1>4

LEMMA RecipientSound ==
    ASSUME TalkInv, Smtp!AfterRecipient
    PROVE  TalkInv'
<1> DEFINE taken == IF Smtp!Yes THEN client.taken \cup {client.asked} ELSE client.taken
           agreed == submissions[Len(submissions)].accepted
<1>1. Standing /\ client.at = "rcpt" /\ client.at \in BeforeText /\ wire.down # <<>>
    BY DEF Smtp!AfterRecipient, Smtp!Others, Smtp!Hears, Standing, BeforeText
<1>2. client.goal # "test" /\ LastOpen
    BY <1>1 DEF TalkInv, TalkStages, TestStops, EnvelopeStage
<1>3. taken \subseteq agreed \ script.refused
    BY <1>1 DEF TalkInv, TalkStages, EnvelopeStage, RecipientStage, TakenHeld, Smtp!Yes
<1>4. taken \subseteq Recipient
    <2>1. LastOpen /\ submissions \in Seq(Attempt)
        BY <1>2 DEF TalkInv, TalkShapes
    <2>2. submissions[Len(submissions)] \in Attempt
        BY <2>1 DEF LastOpen
    <2>3. agreed \subseteq Recipient
        BY <2>2 DEF Attempt
    <2> HIDE DEF taken, agreed
    <2>4. QED BY <1>3, <2>3
<1>5. \/ client.left # {} /\ \E r \in client.left : Smtp!Asks(r, client.left, taken)
      \/ taken = {} /\ Smtp!Fails("EENVELOPE")
      \/ /\ client' = [client EXCEPT !.taken = taken, !.at = "data"]
         /\ wire' = [wire EXCEPT !.down = <<>>, !.up = <<Smtp!Line("DATA", Smtp!Nobody)>>]
    BY DEF Smtp!AfterRecipient
<1> HIDE DEF taken, agreed
<1>6. CASE \E r \in client.left : Smtp!Asks(r, client.left, taken)
    <2>2. PICK r \in client.left : Smtp!Asks(r, client.left, taken)
        BY <1>6
    <2>3. r \in Recipient
        BY DEF TalkInv, TalkShapes, Submitter
    <2>4. /\ client' \in Submitter /\ client'.at = "rcpt" /\ client'.goal = client.goal
          /\ client'.before = client.before /\ client'.asked = r /\ client'.taken = taken
        BY <1>4, <2>2, <2>3 DEF Smtp!Asks, TalkInv, TalkShapes, Submitter, BeforeText
    <2>5. VerbOf("rcpt") = "RCPT"
        BY DEF VerbOf
    <2>6. wire' = [wire EXCEPT !.down = <<>>, !.up = <<Smtp!Line(VerbOf("rcpt"), r)>>]
        BY <2>2, <2>5 DEF Smtp!Asks
    <2>7. QED BY <1>1, <1>2, <1>3, <2>3, <2>4, <2>6, EnvelopeSound DEF agreed
<1>7. CASE Smtp!Fails("EENVELOPE")
    <2>1. "EENVELOPE" \in ErrorCodes
        BY DEF ErrorCodes, Smtp!DefinitiveCodes
    <2>2. QED BY <1>1, <1>7, <2>1, EarlyIsQuiet, FailsSound
<1>8. CASE /\ client' = [client EXCEPT !.taken = taken, !.at = "data"]
           /\ wire' = [wire EXCEPT !.down = <<>>, !.up = <<Smtp!Line("DATA", Smtp!Nobody)>>]
    <2>1. /\ client' \in Submitter /\ client'.at = "data" /\ client'.goal = client.goal
          /\ client'.before = client.before /\ client'.taken = taken
        BY <1>4, <1>8 DEF TalkInv, TalkShapes, Submitter, BeforeText
    <2>2. VerbOf("data") = "DATA"
        BY DEF VerbOf
    <2>3. wire' = [wire EXCEPT !.down = <<>>, !.up = <<Smtp!Line(VerbOf("data"), Smtp!Nobody)>>]
        BY <1>8, <2>2
    <2>4. QED BY <1>1, <1>2, <1>3, <2>1, <2>3, EnvelopeSound DEF agreed
<1>9. QED BY <1>5, <1>6, <1>7, <1>8

LEMMA ClientSound ==
    ASSUME TalkInv, Smtp!ClientStep
    PROVE  TalkInv'
<1>1. ASSUME NEW s \in Smtp!Scripts, NEW g \in {"submit", "test"}, NEW c \in {"starttls", "implicit"},
             Smtp!Connect(s, g, c)
      PROVE  TalkInv'
    BY <1>1, ConnectSound
<1>2. CASE Smtp!Channel \/ Smtp!Close
    BY <1>2, ChannelSound, CloseSound
<1>3. CASE Smtp!Greet
    <2>1. Standing /\ client.at = "greeting" /\ client.at \in BeforeText
        BY <1>3 DEF Smtp!Greet, Smtp!Others, Smtp!Hears, Standing, BeforeText
    <2>2. CASE Smtp!Says("ehlo", <<Smtp!Line("EHLO", Smtp!Nobody)>>)
        <3>1. VerbOf("ehlo") = "EHLO"
            BY DEF VerbOf
        <3>2. QED BY <2>1, <2>2, <3>1, SaysSound
    <2>3. CASE Smtp!Fails("EPROTOCOL")
        <3>1. "EPROTOCOL" \in ErrorCodes
            BY DEF ErrorCodes
        <3>2. QED BY <2>1, <2>3, <3>1, EarlyIsQuiet, FailsSound
    <2>4. QED BY <1>3, <2>2, <2>3 DEF Smtp!Greet
<1>4. CASE Smtp!AfterEhlo
    <2>1. Standing /\ client.at = "ehlo" /\ client.at \in BeforeText
        BY <1>4 DEF Smtp!AfterEhlo, Smtp!Others, Smtp!Hears, Standing, BeforeText
    <2>2. VerbOf("starttls") = "STARTTLS" /\ VerbOf("auth") = "AUTH"
        BY DEF VerbOf
    <2>3. Smtp!Says("starttls", <<Smtp!Line("STARTTLS", Smtp!Nobody)>>) \/ Smtp!Says("auth", <<Smtp!Line("AUTH", Smtp!Nobody)>>)
        BY <1>4 DEF Smtp!AfterEhlo
    <2>4. QED BY <2>1, <2>2, <2>3, SaysSound
<1>5. CASE Smtp!Upgrade
    <2>1. Standing /\ client.at = "starttls" /\ client.at \in BeforeText
        BY <1>5 DEF Smtp!Upgrade, Smtp!Hears, Standing, BeforeText
    <2>2. CASE Smtp!Fails("ETLS") \/ Smtp!Fails("ESOCKET")
        <3>1. "ETLS" \in ErrorCodes /\ "ESOCKET" \in ErrorCodes
            BY DEF ErrorCodes, Smtp!DefinitiveCodes
        <3>2. QED BY <2>1, <2>2, <3>1, EarlyIsQuiet, FailsSound
    <2>3. CASE /\ client' = [client EXCEPT !.secure = TRUE, !.at = "ehlo"]
               /\ wire' = [wire EXCEPT !.down = <<>>, !.up = <<Smtp!Line("EHLO", Smtp!Nobody)>>]
        <3>1. client' \in Submitter /\ client'.at = "ehlo" /\ client'.goal = client.goal
              /\ client'.before = client.before
            BY <2>3 DEF TalkInv, TalkShapes, Submitter, BeforeText
        <3>2. VerbOf("ehlo") = "EHLO"
            BY DEF VerbOf
        <3>3. wire' = [wire EXCEPT !.down = <<>>, !.up = <<Smtp!Line(VerbOf("ehlo"), Smtp!Nobody)>>]
            BY <2>3, <3>2
        <3>4. QED BY <2>1, <3>1, <3>3, AskSound
    <2>4. QED BY <1>5, <2>2, <2>3 DEF Smtp!Upgrade
<1>6. CASE Smtp!AfterAuth
    <2>1. Standing /\ client.at = "auth" /\ client.at \in BeforeText
        BY <1>6 DEF Smtp!AfterAuth, Smtp!Others, Smtp!Hears, Standing, BeforeText
    <2>2. NothingStored
        BY <2>1, EarlyIsQuiet
    <2>3. CASE Smtp!Fails("EAUTH")
        <3>1. "EAUTH" \in ErrorCodes
            BY DEF ErrorCodes, Smtp!DefinitiveCodes
        <3>2. QED BY <2>1, <2>2, <2>3, <3>1, FailsSound
    <2>4. CASE Smtp!Ends("verified", "none", {})
        <3>1. "none" \in ErrorCodes /\ {} \in SUBSET Recipient
            BY DEF ErrorCodes
        <3>2. QED BY <2>1, <2>2, <2>4, <3>1, EndsSound
    <2>5. CASE client.goal # "test" /\ Smtp!Says("mail", <<Smtp!Line("MAIL", Smtp!Nobody)>>)
        <3>1. VerbOf("mail") = "MAIL"
            BY DEF VerbOf
        <3>2. QED BY <2>1, <2>5, <3>1, SaysSound
    <2>6. QED BY <1>6, <2>3, <2>4, <2>5 DEF Smtp!AfterAuth
<1>7. CASE Smtp!AfterSender \/ Smtp!AfterRecipient \/ Smtp!AfterFinal
    BY <1>7, SenderSound, RecipientSound, AfterFinalSound
<1>8. CASE Smtp!AfterData
    <2>1. Standing /\ client.at = "data" /\ client.at \in BeforeText
        BY <1>8 DEF Smtp!AfterData, Smtp!Others, Smtp!Hears, Standing, BeforeText
    <2>2. CASE Smtp!Says("final", <<Smtp!Line("text", Smtp!Nobody), Smtp!Line("dot", Smtp!Nobody)>>)
        BY <2>1, <2>2, TextSound
    <2>3. CASE Smtp!Fails("EENVELOPE")
        <3>1. "EENVELOPE" \in ErrorCodes
            BY DEF ErrorCodes, Smtp!DefinitiveCodes
        <3>2. QED BY <2>1, <2>3, <3>1, EarlyIsQuiet, FailsSound
    <2>4. QED BY <1>8, <2>2, <2>3 DEF Smtp!AfterData
<1>9. ASSUME NEW code \in {"ETIMEDOUT", "ESOCKET", "ECONNECTION"}, Smtp!GiveUp(code)
      PROVE  TalkInv'
    <2>1. Standing /\ client.at \notin {"idle", "done"} /\ Smtp!Fails(code)
        BY <1>9 DEF Smtp!GiveUp, Smtp!Others, Standing
    <2>2. code \in ErrorCodes /\ ~Smtp!Definitive(code)
        BY DEF ErrorCodes, Smtp!Definitive, Smtp!DefinitiveCodes
    <2>3. QED BY <2>1, <2>2, FailsSound
<1>10. QED BY <1>1, <1>2, <1>3, <1>4, <1>5, <1>6, <1>7, <1>8, <1>9 DEF Smtp!ClientStep

-----------------------------------------------------------------------------
(* The steps of the server.                                                *)

LEMMA LineTaken ==
    ASSUME TalkShapes, NEW verb, Smtp!Receives(verb)
    PROVE  /\ Tail(wire.up) \in Seq(ClientLine)
           /\ \A i \in DOMAIN Tail(wire.up) :
                 i + 1 # 1 /\ i + 1 \in DOMAIN wire.up /\ Tail(wire.up)[i] = wire.up[i + 1]
           /\ 1 \in DOMAIN wire.up /\ wire.up[1].verb = verb /\ wire.up # <<>>
           /\ wire.up[1] \in ClientLine
<1>1. wire.up \in Seq(ClientLine) /\ wire.up # <<>> /\ wire.up[1].verb = verb
    BY DEF TalkShapes, Wire, Smtp!Receives
<1>2. 1 \in DOMAIN wire.up /\ wire.up[1] \in ClientLine
    BY <1>1
<1>3. Tail(wire.up) \in Seq(ClientLine)
    BY <1>1
<1>4. ASSUME NEW i \in DOMAIN Tail(wire.up)
      PROVE  i + 1 # 1 /\ i + 1 \in DOMAIN wire.up /\ Tail(wire.up)[i] = wire.up[i + 1]
    BY <1>1, <1>4
<1>5. QED BY <1>1, <1>2, <1>3, <1>4

LEMMA TextOrDot ==
    ASSUME wire.up \in {<<Smtp!Line("text", Smtp!Nobody), Smtp!Line("dot", Smtp!Nobody)>>, Dotted}
    PROVE  wire.up[1].verb \in {"text", "dot"}
<1> DEFINE text == Smtp!Line("text", Smtp!Nobody)
           dot == Smtp!Line("dot", Smtp!Nobody)
<1>1. text.verb = "text" /\ dot.verb = "dot"
    BY DEF Smtp!Line
<1>2. wire.up = <<text, dot>> \/ wire.up = <<dot>>
    BY DEF Dotted
<1> HIDE DEF text, dot
<1>3. wire.up[1] \in {text, dot}
    BY <1>2
<1>4. QED BY <1>1, <1>3

(* What the server does with a line it was sent, by where the client is.   *)
LEMMA ServerSound ==
    ASSUME TalkInv, NEW verb \in Verbs \ {"text", "dot"}, Smtp!Receives(verb),
           UNCHANGED <<script, client>>,
           wire' \in Wire, wire'.up = Tail(wire.up),
           submissions' \in Seq(Attempt), Smtp!Stored' = Smtp!Stored,
           \A i \in DOMAIN submissions' : submissions'[i].held => submissions'[i].message,
           verb = "MAIL" /\ wire'.down # <<>> /\ Head(wire'.down) => LastOpen',
           verb \notin {"MAIL", "RCPT"} => submissions' = submissions,
           verb = "RCPT" /\ LastOpen =>
               /\ LastOpen'
               /\ submissions[Len(submissions)].accepted
                      \subseteq submissions'[Len(submissions')].accepted
               /\ wire'.down # <<>> /\ Head(wire'.down) =>
                      wire.up[1].to \in submissions'[Len(submissions')].accepted \ script.refused
    PROVE  TalkInv'
<1>1. /\ wire.up # <<>> /\ wire.up[1].verb = verb /\ 1 \in DOMAIN wire.up
      /\ \A i \in DOMAIN wire'.up :
            i + 1 # 1 /\ i + 1 \in DOMAIN wire.up /\ wire'.up[i] = wire.up[i + 1]
    BY LineTaken DEF TalkInv
<1>2. TalkShapes'
    BY <1>1 DEF TalkInv, TalkShapes
<1>3. client.at \notin {"idle", "final"}
    <2>1. client.at # "idle"
        BY <1>1 DEF TalkInv, TalkStages, IdleStage
    <2>2. client.at # "final"
        <3>1. client.at = "final" => wire.up[1].verb \in {"text", "dot"}
            BY <1>1, TextOrDot DEF TalkInv, TalkStages, FinalStage
        <3>2. QED BY <1>1, <3>1
    <2>3. QED BY <2>1, <2>2
<1>4. client.at \in BeforeText => verb = VerbOf(client.at)
    BY <1>1 DEF TalkInv, TalkStages, EarlyStage
<1>5. /\ client.at = "mail" => verb = "MAIL"
      /\ client.at = "rcpt" => verb = "RCPT"
      /\ client.at = "data" => verb = "DATA"
    BY <1>4 DEF VerbOf, BeforeText
<1>6. StoredCount' = StoredCount
    BY DEF StoredCount
<1>7. EarlyStage'
    BY <1>1, <1>6 DEF TalkInv, TalkStages, EarlyStage
<1>8. SenderStage'
    BY <1>5 DEF SenderStage
<1>9. EnvelopeStage'
    <2>1. CASE client.at = "rcpt"
        BY <1>5, <2>1 DEF TalkInv, TalkStages, EnvelopeStage, TakenHeld
    <2>2. CASE client.at = "data"
        BY <1>5, <2>2 DEF TalkInv, TalkStages, EnvelopeStage, TakenHeld, LastOpen
    <2>3. QED BY <2>1, <2>2 DEF EnvelopeStage
<1>10. RecipientStage'
    <2>1. SUFFICES ASSUME client.at = "rcpt" PROVE RecipientStage'
        BY DEF RecipientStage
    <2>2. DOMAIN wire'.up = {}
        <3>1. \A i \in DOMAIN wire.up : i = 1
            BY <2>1 DEF TalkInv, TalkStages, RecipientStage
        <3>2. ASSUME NEW i \in DOMAIN wire'.up PROVE FALSE
            <4>1. i + 1 # 1 /\ i + 1 \in DOMAIN wire.up
                BY <1>1
            <4>2. i + 1 = 1
                BY <3>1, <4>1
            <4>3. QED BY <4>1, <4>2
        <3>3. QED BY <3>2
    <2>3. LastOpen /\ wire.up[1].to = client.asked
        BY <1>1, <2>1 DEF TalkInv, TalkStages, EnvelopeStage, RecipientStage
    <2>4. QED BY <1>5, <2>1, <2>2, <2>3 DEF RecipientStage
<1>11. DoneStage'
    BY <1>1, <1>6 DEF TalkInv, TalkStages, DoneStage, NothingStored, NoDot
<1>12. TalkStages'
    BY <1>3, <1>7, <1>8, <1>9, <1>10, <1>11
    DEF TalkInv, TalkStages, IdleStage, FinalStage, TestStops
<1>13. QED BY <1>2, <1>12 DEF TalkInv

LEMMA RcptSound ==
    ASSUME TalkInv, Smtp!RcptTo
    PROVE  TalkInv'
<1> DEFINE r == wire.up[1].to
           field == IF r \in script.refused THEN "rejected" ELSE "accepted"
           value == Smtp!Last(field) \cup {r}
           n == Len(Smtp!Open)
<1>1. Smtp!Receives("RCPT") /\ UNCHANGED <<script, client>>
    BY DEF Smtp!RcptTo, Smtp!Kept
<1>2. /\ 1 \in DOMAIN wire.up /\ wire.up[1].verb = "RCPT"
      /\ Tail(wire.up) \in Seq(ClientLine)
    BY <1>1, LineTaken DEF TalkInv
<1>3. r \in Recipient
    BY <1>2 DEF TalkInv, TalkShapes
<1>4. wire' = [wire EXCEPT !.up = Tail(@), !.down = <<r \notin script.refused>>]
    BY DEF Smtp!RcptTo, Smtp!Answers
<1>5. wire' \in Wire /\ wire'.up = Tail(wire.up) /\ wire'.down = <<r \notin script.refused>>
    <2>1. <<r \notin script.refused>> \in Seq(BOOLEAN)
        OBVIOUS
    <2>2. QED BY <1>2, <1>4, <2>1 DEF TalkInv, TalkShapes, Wire
<1>6. submissions' = Smtp!Current(field, value)
    BY DEF Smtp!RcptTo
<1>7. field \in {"accepted", "rejected"} /\ field \in {"from", "accepted", "rejected"}
    OBVIOUS
<1>8. value \in SUBSET Recipient /\ Smtp!Open[n] \in Attempt /\ Smtp!Last(field) = Smtp!Open[n][field]
    <2>1. Smtp!Open[n] \in Attempt
        BY OpenAttempt DEF TalkInv
    <2>2. Smtp!Last(field) = Smtp!Open[n][field]
        BY DEF Smtp!Last
    <2>3. Smtp!Open[n][field] \in SUBSET Recipient
        BY <1>7, <2>1 DEF Attempt
    <2> HIDE DEF r, field
    <2>4. QED BY <1>3, <2>1, <2>2, <2>3
<1>9. field = IF r \in script.refused THEN "rejected" ELSE "accepted"
    OBVIOUS
<1>10. value = Smtp!Last(field) \cup {r}
    OBVIOUS
<1> HIDE DEF r, field, value
<1>11. /\ submissions' \in Seq(Attempt) /\ Smtp!Stored' = Smtp!Stored /\ LastOpen'
       /\ \A i \in DOMAIN submissions' : submissions'[i].held => submissions'[i].message
       /\ Len(submissions') = n /\ submissions'[n][field] = value
       /\ \A g \in {"from", "accepted", "rejected"} \ {field} :
              submissions'[n][g] = Smtp!Open[n][g]
    <2>1. value \in IF field = "from" THEN BOOLEAN ELSE SUBSET Recipient
        BY <1>7, <1>8
    <2>2. QED BY <1>6, <1>7, <2>1, AttemptGrows DEF TalkInv
<1>12. LastOpen => Smtp!Open = submissions
    BY OpenAttempt DEF TalkInv
<1>13. Smtp!Open[n].accepted \subseteq submissions'[n].accepted
    <2>1. CASE field = "accepted"
        BY <1>8, <1>10, <1>11, <2>1
    <2>2. CASE field = "rejected"
        BY <1>11, <2>2
    <2>3. QED BY <1>7, <2>1, <2>2
<1>14. r \notin script.refused => r \in submissions'[n].accepted
    BY <1>9, <1>10, <1>11
<1>15. Head(wire'.down) => r \notin script.refused
    <2>1. Head(wire'.down) = (r \notin script.refused)
        BY <1>5, HeadOfOne, Zenon
    <2>2. QED BY <2>1
<1>16. LastOpen => /\ submissions[Len(submissions)].accepted
                          \subseteq submissions'[Len(submissions')].accepted
                   /\ wire'.down # <<>> /\ Head(wire'.down) =>
                          r \in submissions'[Len(submissions')].accepted \ script.refused
    BY <1>11, <1>12, <1>13, <1>14, <1>15
<1>17. "RCPT" \in Verbs \ {"text", "dot"}
    BY DEF Verbs
<1>18. QED BY <1>1, <1>5, <1>11, <1>16, <1>17, ServerSound DEF r

LEMMA MailSound ==
    ASSUME TalkInv, Smtp!MailFrom
    PROVE  TalkInv'
<1>1. Smtp!Receives("MAIL") /\ UNCHANGED <<script, client>>
    BY DEF Smtp!MailFrom, Smtp!Kept
<1>2. Tail(wire.up) \in Seq(ClientLine)
    BY <1>1, LineTaken DEF TalkInv
<1>3. wire' = [wire EXCEPT !.up = Tail(@), !.down = <<script.sender>>]
    BY DEF Smtp!MailFrom, Smtp!Answers
<1>4. wire' \in Wire /\ wire'.up = Tail(wire.up) /\ wire'.down = <<script.sender>>
    <2>1. <<script.sender>> \in Seq(BOOLEAN)
        BY DEF TalkInv, TalkShapes, ServerBehaviour
    <2>2. QED BY <1>2, <1>3, <2>1 DEF TalkInv, TalkShapes, Wire
<1>5. /\ submissions' \in Seq(Attempt) /\ Smtp!Stored' = Smtp!Stored
      /\ \A i \in DOMAIN submissions' : submissions'[i].held => submissions'[i].message
      /\ script.sender => LastOpen'
    <2>1. CASE script.sender
        <3>1. submissions' = Smtp!Current("from", TRUE)
            BY <2>1 DEF Smtp!MailFrom
        <3>2. "from" \in {"from", "accepted", "rejected"}
              /\ TRUE \in IF "from" = "from" THEN BOOLEAN ELSE SUBSET Recipient
            OBVIOUS
        <3>3. QED BY <3>1, <3>2, AttemptGrows DEF TalkInv
    <2>2. CASE ~script.sender
        <3>1. submissions' = submissions
            BY <2>2 DEF Smtp!MailFrom
        <3>2. QED BY <2>2, <3>1 DEF TalkInv, TalkShapes, Smtp!Stored
    <2>3. QED BY <2>1, <2>2
<1>6. Head(wire'.down) => LastOpen'
    <2>1. Head(wire'.down) = script.sender
        BY <1>4, HeadOfOne, Zenon
    <2>2. QED BY <1>5, <2>1
<1>7. "MAIL" \in Verbs \ {"text", "dot"}
    BY DEF Verbs
<1>8. QED BY <1>1, <1>4, <1>5, <1>6, <1>7, ServerSound

(* A line the server only answers.                                         *)
LEMMA AnswerSound ==
    ASSUME TalkInv, NEW verb \in {"EHLO", "STARTTLS", "AUTH", "DATA"}, NEW yes \in BOOLEAN,
           Smtp!Receives(verb), Smtp!Answers(yes), UNCHANGED <<script, client, submissions>>
    PROVE  TalkInv'
<1>1. Tail(wire.up) \in Seq(ClientLine)
    BY LineTaken DEF TalkInv
<1>2. wire' \in Wire /\ wire'.up = Tail(wire.up)
    <2>1. wire' = [wire EXCEPT !.up = Tail(@), !.down = <<yes>>]
        BY DEF Smtp!Answers
    <2>2. <<yes>> \in Seq(BOOLEAN)
        OBVIOUS
    <2>3. QED BY <1>1, <2>1, <2>2 DEF TalkInv, TalkShapes, Wire
<1>3. /\ submissions' \in Seq(Attempt) /\ Smtp!Stored' = Smtp!Stored
      /\ \A i \in DOMAIN submissions' : submissions'[i].held => submissions'[i].message
    BY DEF TalkInv, TalkShapes, Smtp!Stored
<1>4. verb \in Verbs \ {"text", "dot"}
    BY DEF Verbs
<1>5. QED BY <1>2, <1>3, <1>4, ServerSound

(* The lines of the message: the client waits for its answer or gave up.   *)
LEMMA TextWhere ==
    ASSUME TalkInv, NEW verb \in {"text", "dot"}, Smtp!Receives(verb)
    PROVE  /\ client.at \in {"final", "done"}
           /\ client.at = "final" =>
                 /\ TakenHeld /\ LastOpen /\ StoredCount = client.before
                 /\ verb = "text" => Tail(wire.up) = Dotted
                 /\ verb = "dot" => Tail(wire.up) = <<>>
           /\ client.at = "done" => client.verdict # "accepted"
<1>1. wire.up # <<>> /\ wire.up[1].verb = verb /\ 1 \in DOMAIN wire.up
    BY LineTaken DEF TalkInv
<1>2. client.at # "idle"
    BY <1>1 DEF TalkInv, TalkStages, IdleStage
<1>3. client.at \notin BeforeText
    <2>1. SUFFICES ASSUME client.at \in BeforeText PROVE FALSE
        OBVIOUS
    <2>2. VerbOf(client.at) = verb
        BY <1>1, <2>1 DEF TalkInv, TalkStages, EarlyStage
    <2>3. QED BY <2>1, <2>2 DEF VerbOf, BeforeText
<1>4. client.at \in {"final", "done"}
    BY <1>2, <1>3 DEF TalkInv, TalkShapes, Submitter
<1>5. ASSUME client.at = "final"
      PROVE  /\ TakenHeld /\ LastOpen /\ StoredCount = client.before
             /\ wire.up \in {<<Smtp!Line("text", Smtp!Nobody), Smtp!Line("dot", Smtp!Nobody)>>, Dotted}
    BY <1>1, <1>5 DEF TalkInv, TalkStages, FinalStage
<1>6. client.at = "done" => client.verdict # "accepted"
    BY <1>1 DEF TalkInv, TalkStages, DoneStage
<1> DEFINE text == Smtp!Line("text", Smtp!Nobody)
           dot == Smtp!Line("dot", Smtp!Nobody)
<1>7. text.verb = "text" /\ dot.verb = "dot"
    BY DEF Smtp!Line
<1>8. client.at = "final" => wire.up = <<text, dot>> \/ wire.up = <<dot>>
    BY <1>5 DEF Dotted
<1>9. Dotted = <<dot>>
    BY DEF Dotted
<1> HIDE DEF text, dot
<1>10. ASSUME client.at = "final"
       PROVE  /\ verb = "text" => Tail(wire.up) = Dotted
              /\ verb = "dot" => Tail(wire.up) = <<>>
    <2>1. CASE wire.up = <<text, dot>>
        <3>1. verb = "text"
            BY <1>1, <1>7, <2>1
        <3>2. Tail(wire.up) = <<dot>>
            BY <2>1
        <3>3. QED BY <1>9, <3>1, <3>2
    <2>2. CASE wire.up = <<dot>>
        <3>1. verb = "dot"
            BY <1>1, <1>7, <2>2
        <3>2. Tail(wire.up) = <<>>
            BY <2>2
        <3>3. QED BY <3>1, <3>2
    <2>3. QED BY <1>8, <1>10, <2>1, <2>2
<1>11. QED BY <1>4, <1>5, <1>6, <1>10

LEMMA TextTaken ==
    ASSUME TalkInv, Smtp!Text
    PROVE  TalkInv'
<1>1. Smtp!Receives("text") /\ Standing /\ client' = client
    BY DEF Smtp!Text, Smtp!Kept, Standing
<1>2. /\ Tail(wire.up) \in Seq(ClientLine)
      /\ \A i \in DOMAIN Tail(wire.up) :
            i + 1 # 1 /\ i + 1 \in DOMAIN wire.up /\ Tail(wire.up)[i] = wire.up[i + 1]
    BY <1>1, LineTaken DEF TalkInv
<1>3. /\ client.at \in {"final", "done"}
      /\ client.at = "final" => /\ TakenHeld /\ LastOpen /\ StoredCount = client.before
                                 /\ Tail(wire.up) = Dotted
      /\ client.at = "done" => client.verdict # "accepted"
    BY <1>1, TextWhere
<1>4. wire' = [wire EXCEPT !.up = Tail(@), !.closed = script.drop = "during data"]
    BY DEF Smtp!Text
<1>5. wire' \in Wire /\ wire'.up = Tail(wire.up) /\ wire'.down = wire.down
    BY <1>2, <1>4 DEF TalkInv, TalkShapes, Wire
<1>6. TalkShapes'
    BY <1>1, <1>2, <1>5 DEF TalkInv, TalkShapes, Standing
<1>7. FinalStage'
    <2>1. client.at = "final" => wire.down = <<>>
        <3>1. SUFFICES ASSUME client.at = "final" PROVE wire.down = <<>>
            OBVIOUS
        <3>2. wire.up # <<>>
            BY <1>1, LineTaken DEF TalkInv
        <3>3. QED BY <3>1, <3>2 DEF TalkInv, TalkStages, FinalStage
    <2>2. QED BY <1>1, <1>3, <1>5, <2>1, CountStands DEF FinalStage, TakenHeld, Standing
<1>8. DoneStage'
    BY <1>1, <1>2, <1>3, <1>5, CountStands
    DEF TalkInv, TalkStages, DoneStage, NothingStored, NoDot
<1>9. client'.at \notin BeforeText \cup {"idle"}
    BY <1>1, <1>3 DEF BeforeText
<1>10. TalkStages'
    BY <1>1, <1>7, <1>8, <1>9
    DEF TalkInv, TalkStages, IdleStage, EarlyStage, SenderStage, EnvelopeStage,
        RecipientStage, TestStops, BeforeText
<1>11. QED BY <1>6, <1>10 DEF TalkInv

LEMMA DotTaken ==
    ASSUME TalkInv, Smtp!Dot
    PROVE  TalkInv'
<1>1. Smtp!Receives("dot") /\ UNCHANGED <<script, client>> /\ MessageRecorded
    BY DEF Smtp!Dot, Smtp!Kept, MessageRecorded
<1>2. /\ Tail(wire.up) \in Seq(ClientLine)
      /\ \A i \in DOMAIN Tail(wire.up) :
            i + 1 # 1 /\ i + 1 \in DOMAIN wire.up /\ Tail(wire.up)[i] = wire.up[i + 1]
      /\ 1 \in DOMAIN wire.up /\ wire.up[1].verb = "dot"
    BY <1>1, LineTaken DEF TalkInv
<1>3. /\ client.at \in {"final", "done"}
      /\ client.at = "final" => /\ TakenHeld /\ LastOpen /\ StoredCount = client.before
                                 /\ Tail(wire.up) = <<>>
      /\ client.at = "done" => client.verdict # "accepted"
    BY <1>1, TextWhere
<1>4. \/ wire' = [wire EXCEPT !.up = Tail(@), !.closed = TRUE]
      \/ wire' = [wire EXCEPT !.up = Tail(@), !.down = <<script.final>>]
    BY DEF Smtp!Dot
<1>5. /\ wire' \in Wire /\ wire'.up = Tail(wire.up)
      /\ wire'.down = wire.down \/ wire'.down = <<script.final>>
    <2>1. <<script.final>> \in Seq(BOOLEAN)
        BY DEF TalkInv, TalkShapes, ServerBehaviour
    <2>2. CASE wire' = [wire EXCEPT !.up = Tail(@), !.closed = TRUE]
        BY <1>2, <2>2 DEF TalkInv, TalkShapes, Wire
    <2>3. CASE wire' = [wire EXCEPT !.up = Tail(@), !.down = <<script.final>>]
        BY <1>2, <2>1, <2>3 DEF TalkInv, TalkShapes, Wire
    <2>4. QED BY <1>4, <2>2, <2>3
<1>6. /\ submissions' \in Seq(Attempt)
      /\ \A i \in DOMAIN submissions' : submissions'[i].held => submissions'[i].message
      /\ Len(submissions') = Len(Smtp!Open)
      /\ submissions'[Len(Smtp!Open)].accepted = Smtp!Open[Len(Smtp!Open)].accepted
      /\ StoredCount' = StoredCount + IF script.final THEN 1 ELSE 0
    BY <1>1, AttemptEnds DEF TalkInv
<1>7. TalkShapes'
    BY <1>1, <1>2, <1>5, <1>6 DEF TalkInv, TalkShapes
<1>8. FinalStage'
    <2>1. SUFFICES ASSUME client.at = "final" PROVE FinalStage'
        BY <1>1 DEF FinalStage
    <2>2. wire.down = <<>>
        <3>1. wire.up # <<>>
            BY <1>1, LineTaken DEF TalkInv
        <3>2. QED BY <2>1, <3>1 DEF TalkInv, TalkStages, FinalStage
    <2>3. wire'.down # <<>> => Head(wire'.down) = script.final
        <3>1. CASE wire'.down = <<script.final>>
            BY <3>1, HeadOfOne, Zenon
        <3>2. CASE wire'.down = wire.down
            BY <2>2, <3>2
        <3>3. QED BY <1>5, <3>1, <3>2
    <2>4. Smtp!Open = submissions
        BY <1>3, <2>1, OpenAttempt DEF TalkInv
    <2>5. TakenHeld'
        BY <1>1, <1>3, <1>6, <2>1, <2>4 DEF TakenHeld
    <2>6. wire'.up = <<>> /\ StoredCount' = client'.before + IF script'.final THEN 1 ELSE 0
        BY <1>1, <1>3, <1>5, <1>6, <2>1
    <2>7. QED BY <1>1, <2>3, <2>5, <2>6 DEF FinalStage
<1>9. DoneStage'
    <2>1. ~NoDot
        BY <1>2 DEF NoDot
    <2>2. QED BY <1>1, <1>3, <2>1 DEF TalkInv, TalkStages, DoneStage, NothingStored
<1>10. client'.at \notin BeforeText \cup {"idle"}
    BY <1>1, <1>3 DEF BeforeText
<1>11. TalkStages'
    BY <1>1, <1>8, <1>9, <1>10
    DEF TalkInv, TalkStages, IdleStage, EarlyStage, SenderStage, EnvelopeStage,
        RecipientStage, TestStops, BeforeText
<1>12. QED BY <1>7, <1>11 DEF TalkInv

LEMMA TalkStep == TalkInv /\ [Smtp!Next]_smtpVars => TalkInv'
<1> SUFFICES ASSUME TalkInv, [Smtp!Next]_smtpVars PROVE TalkInv'
    OBVIOUS
<1>1. CASE UNCHANGED smtpVars
    BY <1>1
    DEF smtpVars, TalkInv, TalkShapes, TalkStages, IdleStage, EarlyStage, SenderStage,
        EnvelopeStage, RecipientStage, FinalStage, TestStops, DoneStage, NothingStored,
        NoDot, LastOpen, TakenHeld, StoredCount, Smtp!Stored
<1>2. CASE Smtp!ClientStep
    BY <1>2, ClientSound
<1>3. CASE Smtp!RcptTo \/ Smtp!MailFrom \/ Smtp!Text \/ Smtp!Dot
    BY <1>3, RcptSound, MailSound, TextTaken, DotTaken
<1>4. CASE Smtp!Ehlo
    BY <1>4, AnswerSound DEF Smtp!Ehlo, Smtp!Kept
<1>5. CASE Smtp!StartTls
    BY <1>5, AnswerSound DEF Smtp!StartTls, Smtp!Kept
<1>6. CASE Smtp!CheckAuth
    <2>1. (script.advertised /\ script.login) \in BOOLEAN
        OBVIOUS
    <2>2. QED BY <1>6, <2>1, AnswerSound DEF Smtp!CheckAuth, Smtp!Kept
<1>7. CASE Smtp!Data
    <2>1. script.data \in BOOLEAN
        BY DEF TalkInv, TalkShapes, ServerBehaviour
    <2>2. QED BY <1>7, <2>1, AnswerSound DEF Smtp!Data, Smtp!Kept
<1>8. QED BY <1>1, <1>2, <1>3, <1>4, <1>5, <1>6, <1>7 DEF Smtp!Next, Smtp!ServerStep

LEMMA TalkSafe == TalkInv => Smtp!VerdictIsSound
<1> SUFFICES ASSUME TalkInv, client.at = "done"
             PROVE  /\ client.verdict = "rejected" =>
                         ~Smtp!Arrived /\ ~\E i \in DOMAIN wire.up : wire.up[i].verb = "dot"
                    /\ client.verdict = "accepted" => Smtp!Arrived /\ TakenHeld
                    /\ client.goal = "test" => ~Smtp!Arrived
    BY DEF Smtp!VerdictIsSound, TakenHeld
<1>1. DoneStage /\ client.before \in Nat
    BY DEF TalkInv, TalkStages, TalkShapes, Submitter
<1>2. Smtp!Arrived <=> StoredCount > client.before
    BY CountsAlike DEF Smtp!Arrived, StoredCount
<1>3. StoredCount \in Nat
    BY StoredIsFinite DEF TalkInv
<1>4. QED BY <1>1, <1>2, <1>3 DEF DoneStage, NothingStored, NoDot

(* What went before the channel was encrypted.                             *)
AfterSignIn == {"auth", "mail", "rcpt", "data", "final"}
SecureInv ==
    /\ Smtp!NothingInTheClear
    /\ client.at \in AfterSignIn => client.secure
    /\ client.at \in {"ehlo", "starttls"} \/ (client.at = "greeting" /\ wire.down # <<>>) =>
          (client.security = "implicit" => client.secure)

LEMMA SaysSecure ==
    ASSUME TalkInv, SecureInv, NEW stage \in {"ehlo", "starttls", "auth", "mail", "final"},
           NEW lines, Smtp!Says(stage, lines),
           client.security = "implicit" => client.secure,
           \/ client.secure
           \/ stage = "ehlo" /\ lines = <<Smtp!Line("EHLO", Smtp!Nobody)>>
           \/ stage = "starttls" /\ lines = <<Smtp!Line("STARTTLS", Smtp!Nobody)>>
    PROVE  SecureInv'
<1>1. client' = [client EXCEPT !.at = stage] /\ client \in Submitter
    BY DEF Smtp!Says, TalkInv, TalkShapes
<1>2. client'.at = stage /\ client'.secure = client.secure /\ client'.security = client.security
    BY <1>1 DEF Submitter
<1>3. Smtp!NothingInTheClear'
    <2>1. CASE client.secure
        BY <2>1 DEF Smtp!Says, SecureInv, Smtp!NothingInTheClear
    <2>2. CASE ~client.secure
        <3>1. ASSUME NEW verb \in {"EHLO", "STARTTLS"}, lines = <<Smtp!Line(verb, Smtp!Nobody)>>
              PROVE  {lines[i].verb : i \in DOMAIN lines} \subseteq {"EHLO", "STARTTLS"}
            <4> DEFINE line == Smtp!Line(verb, Smtp!Nobody)
            <4>1. line.verb = verb
                BY DEF Smtp!Line
            <4>2. lines = <<line>>
                BY <3>1
            <4> HIDE DEF line
            <4>3. \A i \in DOMAIN lines : lines[i] = line
                BY <4>2
            <4>4. QED BY <4>1, <4>3
        <3>2. {lines[i].verb : i \in DOMAIN lines} \subseteq {"EHLO", "STARTTLS"}
            BY <2>2, <3>1
        <3>3. seenInPlain' = seenInPlain \cup {lines[i].verb : i \in DOMAIN lines}
            BY <2>2 DEF Smtp!Says
        <3>4. QED BY <3>2, <3>3 DEF SecureInv, Smtp!NothingInTheClear
    <2>3. QED BY <2>1, <2>2
<1>4. QED BY <1>2, <1>3 DEF SecureInv, AfterSignIn

(* A step that sends nothing in the clear and leaves the channel as it is. *)
LEMMA StaysSecure ==
    ASSUME SecureInv, UNCHANGED seenInPlain,
           client'.at \in AfterSignIn => client'.secure,
           client'.at \notin {"greeting", "ehlo", "starttls"}
    PROVE  SecureInv'
BY DEF SecureInv, Smtp!NothingInTheClear

LEMMA SecureStep == TalkInv /\ SecureInv /\ [Smtp!Next]_smtpVars => SecureInv'
<1> SUFFICES ASSUME TalkInv, SecureInv, [Smtp!Next]_smtpVars PROVE SecureInv'
    OBVIOUS
<1>1. CASE UNCHANGED smtpVars
    BY <1>1 DEF smtpVars, SecureInv, Smtp!NothingInTheClear
<1>2. client \in Submitter
    BY DEF TalkInv, TalkShapes
<1>3. ASSUME NEW s \in Smtp!Scripts, NEW g \in {"submit", "test"}, NEW c \in {"starttls", "implicit"},
             Smtp!Connect(s, g, c)
      PROVE  SecureInv'
    <2>1. wire'.down = <<>>
        BY <1>3 DEF Smtp!Connect, Smtp!Quiet
    <2>2. client'.at = "greeting"
        BY <1>3 DEF Smtp!Connect, Smtp!Idle
    <2>3. UNCHANGED seenInPlain
        BY <1>3 DEF Smtp!Connect
    <2>4. QED BY <2>1, <2>2, <2>3 DEF SecureInv, Smtp!NothingInTheClear, AfterSignIn
<1>4. CASE Smtp!Channel
    <2>1. client'.security = client.security /\ client'.at = "greeting"
          /\ client'.secure = (client.security = "implicit")
        BY <1>2, <1>4 DEF Smtp!Channel, Submitter
    <2>2. UNCHANGED seenInPlain
        BY <1>4 DEF Smtp!Channel
    <2>3. QED BY <2>1, <2>2 DEF SecureInv, Smtp!NothingInTheClear, AfterSignIn
<1>5. ASSUME NEW judged, NEW code, NEW taken, Smtp!Ends(judged, code, taken)
      PROVE  SecureInv'
    <2>1. client'.at = "done" /\ UNCHANGED seenInPlain
        BY <1>2, <1>5 DEF Smtp!Ends, Submitter
    <2>2. QED BY <2>1, StaysSecure DEF AfterSignIn
<1>6. ASSUME NEW code, Smtp!Fails(code)
      PROVE  SecureInv'
    BY <1>5, <1>6 DEF Smtp!Fails
<1>7. CASE Smtp!Close
    <2>1. client'.at = "idle" /\ UNCHANGED seenInPlain
        BY <1>7 DEF Smtp!Close, Smtp!Idle
    <2>2. QED BY <2>1, StaysSecure DEF AfterSignIn
<1>8. CASE Smtp!Greet
    <2>1. client.security = "implicit" => client.secure
        BY <1>8 DEF Smtp!Greet, Smtp!Hears, SecureInv
    <2>2. QED BY <1>6, <1>8, <2>1, SaysSecure DEF Smtp!Greet
<1>9. CASE Smtp!AfterEhlo
    <2>1. client.security = "implicit" => client.secure
        BY <1>9 DEF Smtp!AfterEhlo, Smtp!Hears, SecureInv
    <2>2. ~Smtp!Required => client.secure
        BY <1>2, <2>1 DEF Smtp!Required, Submitter
    <2>3. QED BY <1>9, <2>1, <2>2, SaysSecure DEF Smtp!AfterEhlo
<1>10. CASE Smtp!Upgrade
    <2>1. CASE /\ client' = [client EXCEPT !.secure = TRUE, !.at = "ehlo"]
               /\ UNCHANGED seenInPlain
        <3>1. client'.secure = TRUE
            BY <1>2, <2>1 DEF Submitter
        <3>2. QED BY <2>1, <3>1 DEF SecureInv, Smtp!NothingInTheClear
    <2>2. QED BY <1>6, <1>10, <2>1 DEF Smtp!Upgrade
<1>11. CASE Smtp!AfterAuth
    <2>1. client.secure
        BY <1>11 DEF Smtp!AfterAuth, Smtp!Hears, SecureInv, AfterSignIn
    <2>2. QED BY <1>5, <1>6, <1>11, <2>1, SaysSecure DEF Smtp!AfterAuth
<1>12. ASSUME NEW r, NEW left, NEW taken, Smtp!Asks(r, left, taken), client.secure
       PROVE  SecureInv'
    <2>1. client'.at = "rcpt" /\ client'.secure = client.secure /\ UNCHANGED seenInPlain
        BY <1>2, <1>12 DEF Smtp!Asks, Submitter
    <2>2. QED BY <1>12, <2>1, StaysSecure
<1>13. CASE Smtp!AfterSender
    <2>1. client.secure
        BY <1>13 DEF Smtp!AfterSender, Smtp!Hears, SecureInv, AfterSignIn
    <2>2. QED BY <1>6, <1>12, <1>13, <2>1 DEF Smtp!AfterSender
<1>14. CASE Smtp!AfterRecipient
    <2>1. client.secure
        BY <1>14 DEF Smtp!AfterRecipient, Smtp!Hears, SecureInv, AfterSignIn
    <2> DEFINE taken == IF Smtp!Yes THEN client.taken \cup {client.asked} ELSE client.taken
    <2>2. \/ \E r \in client.left : Smtp!Asks(r, client.left, taken)
          \/ Smtp!Fails("EENVELOPE")
          \/ client' = [client EXCEPT !.taken = taken, !.at = "data"] /\ UNCHANGED seenInPlain
        BY <1>14 DEF Smtp!AfterRecipient
    <2> HIDE DEF taken
    <2>3. CASE client' = [client EXCEPT !.taken = taken, !.at = "data"] /\ UNCHANGED seenInPlain
        <3>1. client'.at = "data" /\ client'.secure = client.secure
            BY <1>2, <2>3 DEF Submitter
        <3>2. QED BY <2>1, <2>3, <3>1, StaysSecure
    <2>4. QED BY <1>6, <1>12, <2>1, <2>2, <2>3
<1>15. CASE Smtp!AfterData
    <2>1. client.secure
        BY <1>15 DEF Smtp!AfterData, Smtp!Hears, SecureInv, AfterSignIn
    <2>2. QED BY <1>6, <1>15, <2>1, SaysSecure DEF Smtp!AfterData
<1>16. CASE Smtp!AfterFinal
    BY <1>5, <1>6, <1>16 DEF Smtp!AfterFinal
<1>17. ASSUME NEW code, Smtp!GiveUp(code)
       PROVE  SecureInv'
    BY <1>6, <1>17 DEF Smtp!GiveUp
<1>18. CASE Smtp!ServerStep
    <2>1. UNCHANGED <<client, seenInPlain>> /\ wire.up # <<>>
        BY <1>18
        DEF Smtp!ServerStep, Smtp!Ehlo, Smtp!StartTls, Smtp!CheckAuth, Smtp!MailFrom,
            Smtp!RcptTo, Smtp!Data, Smtp!Text, Smtp!Dot, Smtp!Kept, Smtp!Receives
    <2>2. client.at # "greeting"
        <3>1. PICK verb \in Verbs : Smtp!Receives(verb)
            BY <1>18
            DEF Smtp!ServerStep, Smtp!Ehlo, Smtp!StartTls, Smtp!CheckAuth, Smtp!MailFrom,
                Smtp!RcptTo, Smtp!Data, Smtp!Text, Smtp!Dot, Verbs
        <3>2. 1 \in DOMAIN wire.up /\ wire.up[1].verb = verb
            BY <3>1, LineTaken DEF TalkInv
        <3>3. "none" \notin Verbs
            BY DEF Verbs
        <3>4. VerbOf("greeting") = "none"
            BY DEF VerbOf
        <3>5. QED BY <3>1, <3>2, <3>3, <3>4 DEF TalkInv, TalkStages, EarlyStage, BeforeText
    <2>3. QED BY <2>1, <2>2 DEF SecureInv, Smtp!NothingInTheClear
<1>19. QED
    BY <1>1, <1>3, <1>4, <1>7, <1>8, <1>9, <1>10, <1>11, <1>13, <1>14, <1>15, <1>16, <1>17,
        <1>18
    DEF Smtp!Next, Smtp!ClientStep

LEMMA SecureBegin == Smtp!Init => SecureInv
<1> SUFFICES ASSUME Smtp!Init PROVE SecureInv
    OBVIOUS
<1>1. client.at = "idle" /\ seenInPlain = {}
    BY DEF Smtp!Init, Smtp!Idle
<1>2. QED BY <1>1 DEF SecureInv, Smtp!NothingInTheClear, AfterSignIn

(* The verdict of a submission is true of the server, wherever the         *)
(* connection ends, and no password or message crosses it in the clear     *)
(* (rejectedOrUnknown, requireTLS), for any number of recipients, attempts *)
(* and submissions.                                                        *)
THEOREM VerdictsStaySound == SideSpec => []VerdictIsSound
<1>1. SideInit => TalkInv /\ SecureInv
    BY TalkBegin, SecureBegin DEF SideInit
<1>2. TalkInv /\ [SideNext]_sideVars => TalkInv'
    BY TalkStep, SmtpAlone
<1>3. TalkInv /\ SecureInv /\ [SideNext]_sideVars => SecureInv'
    BY SecureStep, SmtpAlone
<1>4. TalkInv /\ SecureInv => VerdictIsSound
    BY TalkSafe DEF SecureInv, VerdictIsSound
<1>5. QED BY <1>1, <1>2, <1>3, <1>4, PTL DEF SideSpec

-----------------------------------------------------------------------------
(* The worker: how far its setup came says which schedules stamp the       *)
(* generation it was started under.                                        *)

(* The steps of the setup, by number.                                      *)
LEMMA SetupSteps ==
    /\ Working!StepOf("wait") = 1 /\ Working!StepOf("queue") = 2 /\ Working!StepOf("recover") = 3
    /\ Working!StepOf("work sync") = 4 /\ Working!StepOf("work send") = 5 /\ Working!StepOf("arm sync") = 6
    /\ Working!StepOf("arm send") = 7 /\ Working!StepOf("gate") = 8 /\ Working!StepOf("run") = 9
<1>1. DOMAIN Working!Setup = 1 .. 9
    BY DEF Working!Setup
<1>2. /\ Working!Setup[1] = "wait" /\ Working!Setup[2] = "queue" /\ Working!Setup[3] = "recover"
      /\ Working!Setup[4] = "work sync" /\ Working!Setup[5] = "work send" /\ Working!Setup[6] = "arm sync"
      /\ Working!Setup[7] = "arm send" /\ Working!Setup[8] = "gate" /\ Working!Setup[9] = "run"
    BY DEF Working!Setup
<1>3. \A n \in 1 .. 9 : n = 1 \/ n = 2 \/ n = 3 \/ n = 4 \/ n = 5 \/ n = 6 \/ n = 7 \/ n = 8 \/ n = 9
    OBVIOUS
<1>4. ASSUME NEW n \in 1 .. 9 PROVE Working!StepOf(Working!Setup[n]) = n
    <2>1. \A i \in 1 .. 9 : Working!Setup[i] = Working!Setup[n] => i = n
        BY <1>2, <1>3
    <2>2. QED BY <1>1, <2>1 DEF Working!StepOf
<1>5. /\ Working!StepOf(Working!Setup[1]) = 1 /\ Working!StepOf(Working!Setup[2]) = 2 /\ Working!StepOf(Working!Setup[3]) = 3
      /\ Working!StepOf(Working!Setup[4]) = 4 /\ Working!StepOf(Working!Setup[5]) = 5 /\ Working!StepOf(Working!Setup[6]) = 6
      /\ Working!StepOf(Working!Setup[7]) = 7 /\ Working!StepOf(Working!Setup[8]) = 8 /\ Working!StepOf(Working!Setup[9]) = 9
    BY <1>4
<1>6. QED BY <1>2, <1>5

HealthEntry == [errors : BOOLEAN, fresh : BOOLEAN, recorded : BOOLEAN]
Generations == Nat \cup {0}
WorkerProcess == [at : 0 .. 9, signal : BOOLEAN, stopping : BOOLEAN, env : Generations,
            generation : Generations]
CycleFields == {"at", "generation", "next", "ran"}

Counted ==
    /\ database.generation \in Nat /\ "generation" \in DOMAIN database
    /\ DOMAIN syncJob = CycleFields

LEMMA CountedStep == Counted /\ [Working!Next]_workerVars => Counted'
<1> SUFFICES ASSUME Counted, [Working!Next]_workerVars PROVE Counted'
    OBVIOUS
<1>1. database.generation' \in Nat /\ "generation" \in DOMAIN database'
    <2>1. CASE UNCHANGED database
        BY <2>1 DEF Counted
    <2>2. CASE Working!Restore \/ Working!BeginRecovery
        BY <2>2 DEF Working!Restore, Working!BeginRecovery, Counted
    <2>3. CASE Working!CompleteRecovery
        BY <2>3 DEF Working!CompleteRecovery, Counted
    <2>4. QED
        BY <2>1, <2>2, <2>3
        DEF Working!Next, Working!ProcessStep, Working!JobStep, Working!Elsewhere,
            workerVars, Working!Start, Working!WaitForReady, Working!WaitAborted,
            Working!Recover, Working!ArmStop, Working!Signal, Working!Crash,
            Working!StartQueue, Working!StopWorker, Working!ArmSchedule, Working!Work,
            Working!Tick, Working!Execute, Working!Discard, Working!Blocked,
            Working!RunAccountCycle, Working!EndCycle, Working!FillVolume, Working!Arrive,
            Working!GrowStale
<1>2. DOMAIN syncJob' = CycleFields
    <2>1. CASE UNCHANGED syncJob
        BY <2>1 DEF Counted
    <2>2. CASE Working!Crash \/ Working!EndCycle \/ \E b \in BOOLEAN : Working!StopWorker(b)
        BY <2>2
        DEF Working!Crash, Working!EndCycle, Working!StopWorker, Working!NoCycle, CycleFields
    <2>3. ASSUME NEW queue \in Working!Queue, Working!Execute(queue) PROVE DOMAIN syncJob' = CycleFields
        BY <2>3 DEF Working!Execute, Working!NoCycle, CycleFields, Counted
    <2>4. ASSUME NEW outcome, Working!RunAccountCycle(outcome) PROVE DOMAIN syncJob' = CycleFields
        BY <2>4 DEF Working!RunAccountCycle, Counted
    <2>5. QED
        BY <2>1, <2>2, <2>3, <2>4
        DEF Working!Next, Working!ProcessStep, Working!JobStep, Working!Elsewhere,
            workerVars, Working!Jobs, Working!Start, Working!WaitForReady,
            Working!WaitAborted, Working!Recover, Working!ArmStop, Working!Signal,
            Working!StartQueue, Working!ArmSchedule, Working!Work, Working!Tick,
            Working!Discard, Working!Blocked, Working!Restore, Working!CompleteRecovery,
            Working!BeginRecovery, Working!FillVolume, Working!Arrive, Working!GrowStale
<1>3. QED BY <1>1, <1>2 DEF Counted

(* A schedule that was armed stamps the generation of the worker, which is *)
(* the one its process was started under; a signal that came before the    *)
(* stop gate is honoured by it.                                            *)
WorkerInv ==
    /\ Counted
    /\ worker \in WorkerProcess
    /\ status \in [Working!Account -> HealthEntry]
    /\ DOMAIN schedule = Working!Queue
    /\ worker.at = 9 /\ worker.signal => worker.stopping
    /\ worker.at > 1 => worker.generation = worker.env
    /\ worker.at > 6 => schedule["sync"] = worker.generation
    /\ worker.at > 7 => schedule["send"] = worker.generation

LEMMA WorkerBegin == Working!Init => WorkerInv
BY
DEF Working!Init, WorkerInv, Counted, Working!Off, WorkerProcess, Generations, CycleFields,
    Working!NoCycle, Working!Never, HealthEntry

LEMMA WorkerStep == WorkerInv /\ [Working!Next]_workerVars => WorkerInv'
<1> SUFFICES ASSUME WorkerInv, [Working!Next]_workerVars PROVE WorkerInv'
    OBVIOUS
<1>0. Counted'
    BY CountedStep DEF WorkerInv
<1>1. CASE UNCHANGED workerVars
    BY <1>0, <1>1 DEF workerVars, WorkerInv
<1>2. CASE Working!WaitAborted \/ Working!Crash \/ (\E b \in BOOLEAN : Working!StopWorker(b)) \/ Working!StartQueue(FALSE)
    <2>1. worker' = Working!Off /\ UNCHANGED <<schedule, status>>
        BY <1>2
        DEF Working!WaitAborted, Working!Crash, Working!StopWorker, Working!StartQueue,
            Working!Jobs, Working!Mailboxes
    <2>2. QED BY <1>0, <2>1 DEF WorkerInv, Working!Off, WorkerProcess, Generations
<1>3. CASE Working!Start
    <2>1. /\ worker' = [Working!Off EXCEPT !.at = 1, !.env = database.generation]
          /\ UNCHANGED <<schedule, status>>
        BY <1>3 DEF Working!Start, Working!Jobs, Working!Mailboxes
    <2>2. worker' = [at |-> 1, signal |-> FALSE, stopping |-> FALSE, env |-> database.generation,
                     generation |-> 0]
        BY <2>1, Zenon DEF Working!Off
    <2>3. database.generation \in Generations /\ 0 \in Generations
        BY DEF WorkerInv, Counted, Generations
    <2>4. worker' \in WorkerProcess
        BY <2>2, <2>3 DEF WorkerProcess
    <2>5. worker'.at = 1 /\ worker'.signal = FALSE
        BY <2>2
    <2>6. QED BY <1>0, <2>1, <2>4, <2>5 DEF WorkerInv
<1>4. CASE Working!WaitForReady
    <2>1. /\ worker' = [worker EXCEPT !.at = 2, !.generation = database.generation]
          /\ database.generation = worker.env
          /\ UNCHANGED <<schedule, status>>
        BY <1>4, SetupSteps
        DEF Working!WaitForReady, Working!Jobs, Working!Mailboxes, Working!Ready
    <2>2. database.generation \in Generations
        BY DEF WorkerInv, Counted, Generations
    <2>3. /\ worker' \in WorkerProcess /\ worker'.at = 2
          /\ worker'.generation = worker.env /\ worker'.env = worker.env
        <3> DEFINE w == [worker EXCEPT !.at = 2]
        <3>1. w \in WorkerProcess /\ w.at = 2 /\ w.env = worker.env
            BY DEF WorkerInv, WorkerProcess
        <3>2. worker' = [w EXCEPT !.generation = database.generation]
            BY <2>1
        <3> HIDE DEF w
        <3>3. QED BY <2>1, <2>2, <3>1, <3>2 DEF WorkerProcess
    <2>4. QED BY <1>0, <2>1, <2>3 DEF WorkerInv
<1>5. CASE Working!StartQueue(TRUE) \/ Working!Recover \/ (\E queue \in Working!Queue, b \in BOOLEAN : Working!Work(queue, b))
    <2>1. UNCHANGED <<schedule, status>>
        BY <1>5
        DEF Working!StartQueue, Working!Recover, Working!Work, Working!Jobs, Working!Mailboxes
    <2>2. ASSUME NEW n \in 3 .. 6, worker.at \in 2 .. 5, worker' = [worker EXCEPT !.at = n]
          PROVE  WorkerInv'
        BY <1>0, <2>1, <2>2 DEF WorkerInv, WorkerProcess, Generations
    <2>3. CASE Working!StartQueue(TRUE)
        <3>1. worker.at = 2 /\ worker' = [worker EXCEPT !.at = 3]
            BY <2>3, SetupSteps DEF Working!StartQueue, Working!At, Working!Reached
        <3>2. QED BY <2>2, <3>1
    <2>4. CASE Working!Recover
        <3>1. worker.at = 3 /\ worker' = [worker EXCEPT !.at = 4]
            BY <2>4, SetupSteps DEF Working!Recover, Working!At, Working!Reached
        <3>2. QED BY <2>2, <3>1
    <2>5. ASSUME NEW b \in BOOLEAN, Working!Work("sync", b)
          PROVE  WorkerInv'
        <3>1. worker.at = 4 /\ worker' = [worker EXCEPT !.at = 5]
            BY <2>5, SetupSteps DEF Working!Work, Working!At, Working!Reached
        <3>2. QED BY <2>2, <3>1
    <2>6. ASSUME NEW b \in BOOLEAN, Working!Work("send", b)
          PROVE  WorkerInv'
        <3>1. worker.at = 5 /\ worker' = [worker EXCEPT !.at = 6]
            BY <2>6, SetupSteps DEF Working!Work, Working!At, Working!Reached
        <3>2. QED BY <2>2, <3>1
    <2>7. QED BY <1>5, <2>3, <2>4, <2>5, <2>6 DEF Working!Queue
<1>6. ASSUME NEW queue \in Working!Queue, Working!ArmSchedule(queue)
      PROVE  WorkerInv'
    <2>1. /\ schedule'[queue] = worker.generation /\ DOMAIN schedule' = Working!Queue
          /\ \A r \in Working!Queue \ {queue} : schedule'[r] = schedule[r]
        BY <1>6 DEF Working!ArmSchedule, Working!Armed, WorkerInv
    <2>2. UNCHANGED status
        BY <1>6 DEF Working!ArmSchedule, Working!Mailboxes
    <2>3. CASE queue = "sync"
        <3>1. worker' = [worker EXCEPT !.at = 7] /\ worker.at = 6
            BY <1>6, <2>3, SetupSteps DEF Working!ArmSchedule, Working!At, Working!Reached
        <3>2. QED BY <1>0, <2>1, <2>2, <2>3, <3>1 DEF WorkerInv, WorkerProcess, Generations
    <2>4. CASE queue = "send"
        <3>1. worker' = [worker EXCEPT !.at = 8] /\ worker.at = 7
            BY <1>6, <2>4, SetupSteps DEF Working!ArmSchedule, Working!At, Working!Reached
        <3>2. schedule'["sync"] = worker.generation
            BY <2>1, <2>4, <3>1 DEF WorkerInv, Working!Queue
        <3>3. QED BY <1>0, <2>1, <2>2, <2>4, <3>1, <3>2
            DEF WorkerInv, WorkerProcess, Generations
    <2>5. QED BY <2>3, <2>4 DEF Working!Queue
<1>7. CASE Working!ArmStop
    <2>1. /\ worker' = [worker EXCEPT !.at = 9, !.stopping = worker.signal] /\ worker.at = 8
          /\ UNCHANGED <<schedule, status>>
        BY <1>7, SetupSteps
        DEF Working!ArmStop, Working!At, Working!StopsNow, Working!Jobs, Working!Mailboxes
    <2>2. /\ worker' \in WorkerProcess /\ worker'.at = 9 /\ worker'.signal = worker.signal
          /\ worker'.stopping = worker.signal
          /\ worker'.generation = worker.generation /\ worker'.env = worker.env
        <3> DEFINE w == [worker EXCEPT !.at = 9]
        <3>1. /\ w \in WorkerProcess /\ w.at = 9 /\ w.signal = worker.signal
              /\ w.generation = worker.generation /\ w.env = worker.env
            BY DEF WorkerInv, WorkerProcess
        <3>2. worker' = [w EXCEPT !.stopping = worker.signal]
            BY <2>1
        <3>3. worker.signal \in BOOLEAN
            BY DEF WorkerInv, WorkerProcess
        <3> HIDE DEF w
        <3>4. QED BY <3>1, <3>2, <3>3 DEF WorkerProcess
    <2>3. QED BY <1>0, <2>1, <2>2 DEF WorkerInv
<1>8. CASE Working!Signal
    <2>1. /\ worker' = [worker EXCEPT !.signal = TRUE, !.stopping = (worker.at = 9)]
          /\ UNCHANGED <<schedule, status>>
        BY <1>8, SetupSteps DEF Working!Signal, Working!At, Working!Jobs, Working!Mailboxes
    <2>2. CASE worker.at = 9
        <3>1. worker' = [worker EXCEPT !.signal = TRUE, !.stopping = TRUE]
            BY <2>1, <2>2
        <3>2. QED BY <1>0, <2>1, <3>1 DEF WorkerInv, WorkerProcess, Generations
    <2>3. CASE worker.at # 9
        <3>1. worker' = [worker EXCEPT !.signal = TRUE, !.stopping = FALSE]
            BY <2>1, <2>3
        <3>2. QED BY <1>0, <2>1, <2>3, <3>1 DEF WorkerInv, WorkerProcess, Generations
    <2>4. QED BY <2>2, <2>3
<1>9. CASE \/ \E queue \in Working!Queue : Working!Tick(queue) \/ Working!Execute(queue) \/ Working!Discard(queue)
           \/ \E queue \in Working!Queue, b \in BOOLEAN : Working!Blocked(queue, b)
           \/ Working!EndCycle \/ Working!Restore \/ Working!CompleteRecovery \/ Working!BeginRecovery \/ Working!FillVolume
           \/ \E a \in Working!Account : Working!Arrive(a)
    <2>1. UNCHANGED <<worker, schedule, status>>
        BY <1>9
        DEF Working!Tick, Working!Execute, Working!Discard, Working!Blocked,
            Working!EndCycle, Working!Restore, Working!CompleteRecovery,
            Working!BeginRecovery, Working!FillVolume, Working!Arrive, Working!Jobs,
            Working!Mailboxes
    <2>2. QED BY <1>0, <2>1 DEF WorkerInv
<1>10. ASSUME NEW outcome, Working!RunAccountCycle(outcome)
       PROVE  WorkerInv'
    <2>1. UNCHANGED <<worker, schedule>>
        BY <1>10 DEF Working!RunAccountCycle
    <2>2. status' \in [Working!Account -> HealthEntry]
        BY <1>10 DEF Working!RunAccountCycle, WorkerInv, Working!RecordStatus, HealthEntry
    <2>3. QED BY <1>0, <2>1, <2>2 DEF WorkerInv
<1>11. ASSUME NEW a \in Working!Account, Working!GrowStale(a)
       PROVE  WorkerInv'
    <2>1. UNCHANGED <<worker, schedule>>
        BY <1>11 DEF Working!GrowStale, Working!Jobs
    <2>2. status' \in [Working!Account -> HealthEntry]
        BY <1>11 DEF Working!GrowStale, WorkerInv, HealthEntry
    <2>3. QED BY <1>0, <2>1, <2>2 DEF WorkerInv
<1>12. QED
    BY <1>1, <1>2, <1>3, <1>4, <1>5, <1>6, <1>7, <1>8, <1>9, <1>10, <1>11
    DEF Working!Next, Working!ProcessStep, Working!JobStep, Working!Elsewhere

LEMMA WorkerSafe == WorkerInv => Working!SignalStops /\ Working!TicksAreCurrent
<1> SUFFICES ASSUME WorkerInv, worker.at = 9
             PROVE  /\ worker.signal => worker.stopping
                    /\ Working!Ready => \A queue \in Working!Queue : schedule[queue] = database.generation
    BY SetupSteps DEF Working!SignalStops, Working!TicksAreCurrent, Working!At
<1>1. /\ worker.signal => worker.stopping
      /\ worker.generation = worker.env
      /\ schedule["sync"] = worker.generation /\ schedule["send"] = worker.generation
    BY DEF WorkerInv
<1>2. QED BY <1>1 DEF Working!Ready, Working!Queue

LEMMA FailureShows == WorkerInv /\ [Working!Next]_workerVars => Working!FailureShowsStep
<1> SUFFICES ASSUME WorkerInv, [Working!Next]_workerVars, NEW a \in Working!Account,
                    Working!SyncStateOf(a) = "degraded", Working!SyncStateOf(a)' # "degraded"
             PROVE  syncJob.next <= Len([i \in 1 .. AccountCount |-> i]) /\ Working!Visited = a
                    /\ syncJob'.ran = Append(syncJob.ran, "clean")
    BY DEF Working!FailureShowsStep
<1>1. status[a].recorded /\ status[a].errors /\ ~(status'[a].recorded /\ status'[a].errors)
    BY DEF Working!SyncStateOf
<1>2. status \in [Working!Account -> HealthEntry]
    BY DEF WorkerInv
<1>3. PICK outcome : Working!RunAccountCycle(outcome)
    <2>1. ASSUME UNCHANGED status PROVE FALSE
        BY <1>1, <2>1
    <2>2. ASSUME NEW b \in Working!Account, Working!GrowStale(b) PROVE FALSE
        <3>1. status' = [status EXCEPT ![b].fresh = FALSE]
            BY <2>2 DEF Working!GrowStale
        <3>2. status'[a].recorded = status[a].recorded /\ status'[a].errors = status[a].errors
            BY <1>2, <3>1 DEF HealthEntry
        <3>3. QED BY <1>1, <3>2
    <2>3. QED
        BY <2>1, <2>2
        DEF Working!Next, Working!ProcessStep, Working!JobStep, Working!Elsewhere,
            workerVars, Working!Jobs, Working!Mailboxes, Working!Start,
            Working!WaitForReady, Working!WaitAborted, Working!Recover, Working!ArmStop,
            Working!Signal, Working!Crash, Working!StartQueue, Working!StopWorker,
            Working!ArmSchedule, Working!Work, Working!Tick, Working!Execute,
            Working!Discard, Working!Blocked, Working!EndCycle, Working!Restore,
            Working!CompleteRecovery, Working!BeginRecovery, Working!FillVolume,
            Working!Arrive
<1>4. /\ status' = IF outcome = "failed" THEN status
                   ELSE [status EXCEPT ![Working!Visited] = Working!RecordStatus(outcome)]
      /\ syncJob.next <= Len([i \in 1 .. AccountCount |-> i])
      /\ syncJob' = [syncJob EXCEPT !.next = @ + 1, !.ran = Append(@, outcome)]
    BY <1>3 DEF Working!RunAccountCycle
<1>5. outcome # "failed" /\ Working!Visited = a
    BY <1>1, <1>2, <1>4
<1>6. status'[a] = Working!RecordStatus(outcome)
    BY <1>2, <1>4, <1>5
<1>7. outcome = "clean"
    <2>1. ASSUME outcome # "clean" PROVE Working!RecordStatus(outcome).errors /\ Working!RecordStatus(outcome).recorded
        BY <2>1 DEF Working!RecordStatus
    <2>2. QED BY <1>1, <1>6, <2>1
<1>8. QED BY <1>4, <1>5, <1>7 DEF WorkerInv, Counted, CycleFields

(* A worker stops for every signal, its schedules stamp the current        *)
(* generation whatever a restored queue held, and a contained failure is   *)
(* reported until a clean cycle of that account (armStop, armSchedule,     *)
(* syncStateOf), for any number of accounts, restores and restarts.        *)
THEOREM WorkerKeepsReports == SideSpec => WorkerReports
<1>1. SideInit => WorkerInv
    BY WorkerBegin DEF SideInit
<1>2. WorkerInv /\ [SideNext]_sideVars => WorkerInv'
    BY WorkerStep, WorkerAlone
<1>3. WorkerInv => Working!SignalStops /\ Working!TicksAreCurrent
    BY WorkerSafe
<1>4. WorkerInv /\ [SideNext]_sideVars => [Working!FailureShowsStep]_workerVars
    BY FailureShows, WorkerAlone
<1>5. QED BY <1>1, <1>2, <1>3, <1>4, PTL DEF SideSpec, WorkerReports

-----------------------------------------------------------------------------
(* The files of a draft.                                                   *)

(* The fields of an upload's record, of a relinking pass and of a task.    *)
RecordFields == {"id", "attached"}
PassFields == {"step", "now", "known", "todo", "changed"}
TaskFields == {"file", "step", "id"}

(* The linked copies of a file; and what a list of links that was read     *)
(* some time ago still says.                                               *)
Links(f) == {i \in linked : copies[i] = f}
CopyOf(f, id) == id \in DOMAIN copies /\ copies[id] = f
StillLinked(ids) == \A i \in ids : i \in DOMAIN copies /\ (i \in linked \/ copies[i] \in removed)

(* The shapes of the rows and of the device's state.                       *)
FilesOK ==
    /\ copies \in Seq(Files) /\ linked \subseteq DOMAIN copies
    /\ DOMAIN adding = TaskFields /\ adding.step \in {"idle", "upload", "stored", "attach", "linked"}
    /\ DOMAIN replaying = TaskFields /\ replaying.step \in {"idle", "upload", "stored"}
    /\ DOMAIN relinking = PassFields /\ queued \subseteq DOMAIN records
    /\ adding.step # "idle" => adding.file \in Files
    /\ \A f \in DOMAIN records : f \in Files /\ DOMAIN records[f] = RecordFields

(* The file being added has no record yet, and no copy but its own.        *)
AddingInv ==
    adding.step # "idle" =>
        /\ adding.file \notin DOMAIN records
        /\ adding.step \in {"upload", "stored"} => Links(adding.file) = {}
        /\ adding.step \in {"stored", "attach", "linked"} => CopyOf(adding.file, adding.id)
        /\ adding.step \in {"attach", "linked"} => Links(adding.file) \subseteq {adding.id}
        /\ adding.step = "linked" => adding.id \in linked

(* A record without an id has no linked copy and waits in the queue; one   *)
(* with an id names a copy of its file, the only one that can be linked.   *)
RecordsInv ==
    \A f \in DOMAIN records :
        /\ records[f].id = AddedFiles!Unsent => Links(f) = {} /\ records[f].attached = FALSE /\ f \in queued
        /\ records[f].id # AddedFiles!Unsent => CopyOf(f, records[f].id) /\ Links(f) \subseteq {records[f].id}
        /\ records[f].attached => records[f].id \in linked \/ f \in removed

(* The replay works on a record without an id.                             *)
ReplayInv ==
    replaying.step # "idle" =>
        /\ replaying.file \in DOMAIN records /\ records[replaying.file].id = AddedFiles!Unsent
        /\ replaying.step = "stored" => CopyOf(replaying.file, replaying.id)

(* The lists read from the server.                                         *)
ListsInv == StillLinked(refreshing.ids) /\ StillLinked(listed) /\ StillLinked(relinking.known)

(* A relinking pass takes up only files that were stored.                  *)
Settles(f) ==
    /\ \E i \in DOMAIN copies : copies[i] = f
    /\ adding.step # "idle" => adding.file # f
    /\ f \in DOMAIN records => records[f].id # AddedFiles!Unsent

PassInv ==
    /\ \A f \in relinking.todo : Settles(f)
    /\ relinking.step = "asked" =>
          /\ Settles(relinking.now)
          /\ relinking.now \in DOMAIN records =>
                records[relinking.now].id \in linked \/ relinking.now \in removed

(* A reported file has a record or a linked copy, unless it was removed.   *)
ReportedInv == \A f \in reported \ removed : f \in DOMAIN records \/ Links(f) # {}

FilesInv == /\ FilesOK /\ AddingInv /\ RecordsInv /\ ReplayInv /\ ListsInv /\ PassInv
            /\ ReportedInv /\ AddedFiles!LinkedOnce

LEMMA FilesBegin == AddedFiles!Init => FilesInv
BY 
DEF AddedFiles!Init, FilesInv, FilesOK, AddingInv, RecordsInv, ReplayInv, ListsInv, PassInv,
    ReportedInv, AddedFiles!LinkedOnce, StillLinked, AddedFiles!Idle, AddedFiles!Quiet,
    TaskFields, PassFields

(* A task and a pass, as they start.                                       *)
Starting(f) == [AddedFiles!Idle EXCEPT !.file = f, !.step = "upload"]

LEMMA TaskStarts ==
    ASSUME NEW f
    PROVE  /\ DOMAIN Starting(f) = TaskFields
           /\ Starting(f).file = f /\ Starting(f).step = "upload" /\ Starting(f).id = AddedFiles!Unsent
           /\ AddedFiles!Idle.step = "idle"
<1>1. DOMAIN AddedFiles!Idle = TaskFields /\ AddedFiles!Idle.id = AddedFiles!Unsent /\ AddedFiles!Idle.step = "idle"
    BY DEF AddedFiles!Idle, TaskFields
<1>2. QED BY <1>1 DEF Starting, TaskFields

LEMMA PassStarts ==
    ASSUME NEW known, AddedFiles!StartRelinking(known)
    PROVE  relinking' = [step |-> "next", now |-> AddedFiles!NoFile, known |-> known, changed |-> FALSE,
                         todo |-> {f \in DOMAIN records : records[f].id # AddedFiles!Unsent}]
BY DEF AddedFiles!StartRelinking, AddedFiles!Quiet

LEMMA FilesStep == FilesInv /\ [AddedFiles!Next]_filesVars => FilesInv'
<1> SUFFICES ASSUME FilesInv, [AddedFiles!Next]_filesVars PROVE FilesInv'
    OBVIOUS
<1>1. CASE UNCHANGED filesVars
    BY <1>1
    DEF filesVars, FilesInv, FilesOK, AddingInv, RecordsInv, ReplayInv, ListsInv, PassInv,
        ReportedInv, AddedFiles!LinkedOnce, Links, CopyOf, StillLinked, Settles
<1>2. ASSUME NEW f \in Files, AddedFiles!AddFile(f)
      PROVE  FilesInv'
    <2>0. adding' = IF online THEN Starting(f) ELSE adding
        BY <1>2 DEF AddedFiles!AddFile, Starting
    <2>1. AddedFiles!LinkedOnce'
        BY <1>2, <2>0
        DEF AddedFiles!AddFile, AddedFiles!queueUpload, AddedFiles!PutPendingUpload,
            AddedFiles!Rejected, AddedFiles!AskList, FilesInv, AddedFiles!LinkedOnce,
            AddedFiles!Unsent, AddedFiles!server, AddedFiles!screen
    <2>2. FilesOK'
        BY <1>2, <2>0, TaskStarts
        DEF AddedFiles!AddFile, AddedFiles!queueUpload, AddedFiles!PutPendingUpload,
            AddedFiles!Rejected, AddedFiles!AskList, FilesInv, FilesOK, AddedFiles!Unsent,
            TaskFields, PassFields, RecordFields, AddedFiles!server, AddedFiles!screen
    <2>3. AddingInv'
        <3>1. CASE online
            <4>1. adding' = Starting(f) /\ UNCHANGED <<records, copies, linked>>
                BY <1>2, <2>0, <3>1 DEF AddedFiles!AddFile, AddedFiles!server
            <4>2. f \notin DOMAIN records /\ Links(f)' = {}
                BY <1>2, <4>1 DEF AddedFiles!AddFile, Links, FilesInv, FilesOK
            <4>3. QED BY <4>1, <4>2, TaskStarts DEF AddingInv
        <3>2. CASE ~online
            <4>1. adding'.step = "idle"
                BY <1>2, <2>0, <3>2, TaskStarts DEF AddedFiles!AddFile
            <4>2. QED BY <4>1 DEF AddingInv
        <3>3. QED BY <3>1, <3>2
    <2>4. RecordsInv'
        BY <1>2, <2>0, TaskStarts
        DEF AddedFiles!AddFile, AddedFiles!queueUpload, AddedFiles!PutPendingUpload,
            AddedFiles!Rejected, AddedFiles!AskList, FilesInv, FilesOK, RecordsInv, Links,
            CopyOf, AddedFiles!Unsent, TaskFields, PassFields, RecordFields, AddedFiles!server,
            AddedFiles!screen
    <2>5. ReplayInv'
        BY <1>2, <2>0, TaskStarts
        DEF AddedFiles!AddFile, AddedFiles!queueUpload, AddedFiles!PutPendingUpload,
            AddedFiles!Rejected, AddedFiles!AskList, FilesInv, ReplayInv, CopyOf,
            AddedFiles!Unsent, AddedFiles!server, AddedFiles!screen
    <2>6. ListsInv'
        BY <1>2, <2>0, TaskStarts
        DEF AddedFiles!AddFile, AddedFiles!queueUpload, AddedFiles!PutPendingUpload,
            AddedFiles!Rejected, AddedFiles!AskList, FilesInv, ListsInv, StillLinked,
            AddedFiles!Unsent, AddedFiles!server, AddedFiles!screen
    <2>7. PassInv'
        BY <1>2, <2>0, TaskStarts
        DEF AddedFiles!AddFile, AddedFiles!queueUpload, AddedFiles!PutPendingUpload,
            AddedFiles!Rejected, AddedFiles!AskList, FilesInv, PassInv, Settles,
            AddedFiles!Unsent, AddedFiles!server, AddedFiles!screen
    <2>8. ReportedInv'
        BY <1>2, <2>0, TaskStarts
        DEF AddedFiles!AddFile, AddedFiles!queueUpload, AddedFiles!PutPendingUpload,
            AddedFiles!Rejected, AddedFiles!AskList, FilesInv, ReportedInv, Links,
            AddedFiles!Unsent, AddedFiles!server, AddedFiles!screen
    <2>9. QED BY <2>1, <2>2, <2>3, <2>4, <2>5, <2>6, <2>7, <2>8 DEF FilesInv
<1>3. CASE AddedFiles!UploadStored
    <2>1. FilesOK'
        BY <1>3
        DEF AddedFiles!UploadStored, AddedFiles!StoreUpload, FilesInv, FilesOK, TaskFields,
            PassFields, RecordFields, AddedFiles!device, AddedFiles!screen, AddedFiles!history
    <2>2. AddingInv'
        BY <1>3
        DEF AddedFiles!UploadStored, AddedFiles!StoreUpload, FilesInv, FilesOK, AddingInv,
            Links, CopyOf, TaskFields, PassFields, RecordFields, AddedFiles!device,
            AddedFiles!screen, AddedFiles!history
    <2>3. RecordsInv'
        BY <1>3
        DEF AddedFiles!UploadStored, AddedFiles!StoreUpload, FilesInv, FilesOK, RecordsInv,
            Links, CopyOf, AddedFiles!Unsent, TaskFields, PassFields, RecordFields,
            AddedFiles!device, AddedFiles!screen, AddedFiles!history
    <2>4. ReplayInv'
        BY <1>3
        DEF AddedFiles!UploadStored, AddedFiles!StoreUpload, FilesInv, ReplayInv, CopyOf,
            AddedFiles!Unsent, AddedFiles!device, AddedFiles!screen, AddedFiles!history
    <2>5. ListsInv'
        BY <1>3
        DEF AddedFiles!UploadStored, AddedFiles!StoreUpload, FilesInv, ListsInv, StillLinked,
            AddedFiles!device, AddedFiles!screen, AddedFiles!history
    <2>6. PassInv'
        BY <1>3
        DEF AddedFiles!UploadStored, AddedFiles!StoreUpload, FilesInv, PassInv, Settles,
            AddedFiles!Unsent, AddedFiles!device, AddedFiles!screen, AddedFiles!history
    <2>7. ReportedInv'
        BY <1>3
        DEF AddedFiles!UploadStored, AddedFiles!StoreUpload, FilesInv, FilesOK, ReportedInv,
            Links, TaskFields, PassFields, RecordFields, AddedFiles!device, AddedFiles!screen,
            AddedFiles!history
    <2>8. AddedFiles!LinkedOnce'
        BY <1>3
        DEF AddedFiles!UploadStored, AddedFiles!StoreUpload, FilesInv, FilesOK,
            AddedFiles!LinkedOnce, TaskFields, PassFields, RecordFields, AddedFiles!device,
            AddedFiles!screen, AddedFiles!history
    <2>9. QED BY <2>1, <2>2, <2>3, <2>4, <2>5, <2>6, <2>7, <2>8 DEF FilesInv
<1>4. CASE AddedFiles!UploadAnswered
    <2>1. RecordsInv' /\ ReplayInv' /\ ListsInv' /\ ReportedInv' /\ AddedFiles!LinkedOnce'
        BY <1>4
        DEF AddedFiles!UploadAnswered, FilesInv, RecordsInv, ReplayInv, ListsInv, ReportedInv,
            AddedFiles!LinkedOnce, Links, CopyOf, StillLinked, AddedFiles!Unsent,
            AddedFiles!server, AddedFiles!device, AddedFiles!screen, AddedFiles!history
    <2>2. FilesOK'
        BY <1>4
        DEF AddedFiles!UploadAnswered, FilesInv, FilesOK, TaskFields, PassFields, RecordFields,
            AddedFiles!server, AddedFiles!device, AddedFiles!screen, AddedFiles!history
    <2>3. AddingInv'
        BY <1>4
        DEF AddedFiles!UploadAnswered, FilesInv, AddingInv, Links, CopyOf, AddedFiles!server,
            AddedFiles!device, AddedFiles!screen, AddedFiles!history
    <2>4. PassInv'
        BY <1>4
        DEF AddedFiles!UploadAnswered, FilesInv, PassInv, Settles, AddedFiles!Unsent,
            AddedFiles!server, AddedFiles!device, AddedFiles!screen, AddedFiles!history
    <2>5. QED BY <2>1, <2>2, <2>3, <2>4 DEF FilesInv
<1>5. CASE AddedFiles!UploadLost
    <2>1. AddedFiles!LinkedOnce'
        BY <1>5
        DEF AddedFiles!UploadLost, AddedFiles!queueUpload, AddedFiles!PutPendingUpload,
            AddedFiles!Rejected, AddedFiles!AskList, FilesInv, AddedFiles!LinkedOnce,
            AddedFiles!Unsent, AddedFiles!server, AddedFiles!screen
    <2>2. FilesOK'
        BY <1>5
        DEF AddedFiles!UploadLost, AddedFiles!queueUpload, AddedFiles!PutPendingUpload,
            AddedFiles!Rejected, AddedFiles!AskList, FilesInv, FilesOK, AddedFiles!Unsent,
            TaskFields, PassFields, RecordFields, AddedFiles!Idle, AddedFiles!server,
            AddedFiles!screen
    <2>3. AddingInv'
        BY <1>5
        DEF AddedFiles!UploadLost, AddedFiles!queueUpload, AddedFiles!PutPendingUpload,
            AddedFiles!Rejected, AddedFiles!AskList, FilesInv, AddingInv, Links, CopyOf,
            AddedFiles!Unsent, AddedFiles!Idle, AddedFiles!server, AddedFiles!screen
    <2>4. RecordsInv'
        BY <1>5
        DEF AddedFiles!UploadLost, AddedFiles!queueUpload, AddedFiles!PutPendingUpload,
            AddedFiles!Rejected, AddedFiles!AskList, FilesInv, FilesOK, AddingInv, RecordsInv,
            Links, CopyOf, AddedFiles!Unsent, TaskFields, PassFields, RecordFields,
            AddedFiles!Idle, AddedFiles!server, AddedFiles!screen
    <2>5. ReplayInv'
        BY <1>5
        DEF AddedFiles!UploadLost, AddedFiles!queueUpload, AddedFiles!PutPendingUpload,
            AddedFiles!Rejected, AddedFiles!AskList, FilesInv, ReplayInv, CopyOf,
            AddedFiles!Unsent, AddedFiles!Idle, AddedFiles!server, AddedFiles!screen
    <2>6. ListsInv'
        BY <1>5
        DEF AddedFiles!UploadLost, AddedFiles!queueUpload, AddedFiles!PutPendingUpload,
            AddedFiles!Rejected, AddedFiles!AskList, FilesInv, ListsInv, StillLinked,
            AddedFiles!Unsent, AddedFiles!Idle, AddedFiles!server, AddedFiles!screen
    <2>7. PassInv'
        BY <1>5
        DEF AddedFiles!UploadLost, AddedFiles!queueUpload, AddedFiles!PutPendingUpload,
            AddedFiles!Rejected, AddedFiles!AskList, FilesInv, PassInv, Settles,
            AddedFiles!Unsent, AddedFiles!Idle, AddedFiles!server, AddedFiles!screen
    <2>8. ReportedInv'
        BY <1>5
        DEF AddedFiles!UploadLost, AddedFiles!queueUpload, AddedFiles!PutPendingUpload,
            AddedFiles!Rejected, AddedFiles!AskList, FilesInv, ReportedInv, Links,
            AddedFiles!Unsent, AddedFiles!Idle, AddedFiles!server, AddedFiles!screen
    <2>9. QED BY <2>1, <2>2, <2>3, <2>4, <2>5, <2>6, <2>7, <2>8 DEF FilesInv
<1>6. CASE AddedFiles!UploadRefused
    <2>1. RecordsInv' /\ ReplayInv' /\ ReportedInv' /\ AddedFiles!LinkedOnce'
        BY <1>6
        DEF AddedFiles!UploadRefused, AddedFiles!AskList, FilesInv, RecordsInv, ReplayInv,
            ReportedInv, AddedFiles!LinkedOnce, Links, CopyOf, AddedFiles!Unsent,
            AddedFiles!server, AddedFiles!device, AddedFiles!screen, AddedFiles!history
    <2>2. FilesOK'
        BY <1>6
        DEF AddedFiles!UploadRefused, AddedFiles!AskList, FilesInv, FilesOK, AddedFiles!Unsent,
            TaskFields, PassFields, RecordFields, AddedFiles!Idle, AddedFiles!server,
            AddedFiles!device, AddedFiles!screen, AddedFiles!history
    <2>3. AddingInv'
        BY <1>6
        DEF AddedFiles!UploadRefused, AddedFiles!AskList, FilesInv, AddingInv, Links, CopyOf,
            AddedFiles!Unsent, AddedFiles!Idle, AddedFiles!server, AddedFiles!device,
            AddedFiles!screen, AddedFiles!history
    <2>4. ListsInv'
        BY <1>6
        DEF AddedFiles!UploadRefused, AddedFiles!AskList, FilesInv, ListsInv, StillLinked,
            AddedFiles!Unsent, AddedFiles!Idle, AddedFiles!server, AddedFiles!device,
            AddedFiles!screen, AddedFiles!history
    <2>5. PassInv'
        BY <1>6
        DEF AddedFiles!UploadRefused, AddedFiles!AskList, FilesInv, PassInv, Settles,
            AddedFiles!Unsent, AddedFiles!Idle, AddedFiles!server, AddedFiles!device,
            AddedFiles!screen, AddedFiles!history
    <2>6. QED BY <2>1, <2>2, <2>3, <2>4, <2>5 DEF FilesInv
<1>7. CASE AddedFiles!UploadLinked
    <2>1. ReplayInv'
        BY <1>7
        DEF AddedFiles!UploadLinked, AddedFiles!Link, FilesInv, ReplayInv, CopyOf,
            AddedFiles!Unsent, AddedFiles!device, AddedFiles!screen, AddedFiles!history
    <2>2. FilesOK'
        BY <1>7
        DEF AddedFiles!UploadLinked, AddedFiles!Link, FilesInv, FilesOK, AddingInv, Links,
            CopyOf, TaskFields, PassFields, RecordFields, AddedFiles!device, AddedFiles!screen,
            AddedFiles!history
    <2>3. AddingInv'
        BY <1>7
        DEF AddedFiles!UploadLinked, AddedFiles!Link, FilesInv, AddingInv, Links, CopyOf,
            AddedFiles!device, AddedFiles!screen, AddedFiles!history
    <2>4. RecordsInv'
        BY <1>7
        DEF AddedFiles!UploadLinked, AddedFiles!Link, FilesInv, FilesOK, AddingInv, RecordsInv,
            Links, CopyOf, AddedFiles!Unsent, TaskFields, PassFields, RecordFields,
            AddedFiles!device, AddedFiles!screen, AddedFiles!history
    <2>5. ListsInv'
        BY <1>7
        DEF AddedFiles!UploadLinked, AddedFiles!Link, FilesInv, ListsInv, StillLinked,
            AddedFiles!device, AddedFiles!screen, AddedFiles!history
    <2>6. PassInv'
        BY <1>7
        DEF AddedFiles!UploadLinked, AddedFiles!Link, FilesInv, PassInv, Settles,
            AddedFiles!Unsent, AddedFiles!device, AddedFiles!screen, AddedFiles!history
    <2>7. ReportedInv'
        BY <1>7
        DEF AddedFiles!UploadLinked, AddedFiles!Link, FilesInv, ReportedInv, Links,
            AddedFiles!device, AddedFiles!screen, AddedFiles!history
    <2>8. AddedFiles!LinkedOnce'
        BY <1>7
        DEF AddedFiles!UploadLinked, AddedFiles!Link, FilesInv, FilesOK, AddingInv,
            AddedFiles!LinkedOnce, Links, CopyOf, TaskFields, PassFields, RecordFields,
            AddedFiles!device, AddedFiles!screen, AddedFiles!history
    <2>9. QED BY <2>1, <2>2, <2>3, <2>4, <2>5, <2>6, <2>7, <2>8 DEF FilesInv
<1>8. CASE AddedFiles!LinkAnswered
    <2>1. RecordsInv' /\ ReplayInv' /\ AddedFiles!LinkedOnce'
        BY <1>8
        DEF AddedFiles!LinkAnswered, AddedFiles!AskList, FilesInv, RecordsInv, ReplayInv,
            AddedFiles!LinkedOnce, Links, CopyOf, AddedFiles!Unsent, AddedFiles!server,
            AddedFiles!device, AddedFiles!screen
    <2>2. FilesOK'
        BY <1>8
        DEF AddedFiles!LinkAnswered, AddedFiles!AskList, FilesInv, FilesOK, AddedFiles!Unsent,
            TaskFields, PassFields, RecordFields, AddedFiles!Idle, AddedFiles!server,
            AddedFiles!device, AddedFiles!screen
    <2>3. AddingInv'
        BY <1>8
        DEF AddedFiles!LinkAnswered, AddedFiles!AskList, FilesInv, AddingInv, Links, CopyOf,
            AddedFiles!Unsent, AddedFiles!Idle, AddedFiles!server, AddedFiles!device,
            AddedFiles!screen
    <2>4. ListsInv'
        BY <1>8
        DEF AddedFiles!LinkAnswered, AddedFiles!AskList, FilesInv, ListsInv, StillLinked,
            AddedFiles!Unsent, AddedFiles!Idle, AddedFiles!server, AddedFiles!device,
            AddedFiles!screen
    <2>5. PassInv'
        BY <1>8
        DEF AddedFiles!LinkAnswered, AddedFiles!AskList, FilesInv, PassInv, Settles,
            AddedFiles!Unsent, AddedFiles!Idle, AddedFiles!server, AddedFiles!device,
            AddedFiles!screen
    <2>6. ReportedInv'
        BY <1>8
        DEF AddedFiles!LinkAnswered, AddedFiles!AskList, FilesInv, FilesOK, AddingInv,
            ReportedInv, Links, CopyOf, AddedFiles!Unsent, TaskFields, PassFields,
            RecordFields, AddedFiles!Idle, AddedFiles!server, AddedFiles!device,
            AddedFiles!screen
    <2>7. QED BY <2>1, <2>2, <2>3, <2>4, <2>5, <2>6 DEF FilesInv
<1>9. CASE AddedFiles!LinkFailed
    <2>1. AddedFiles!LinkedOnce'
        BY <1>9
        DEF AddedFiles!LinkFailed, AddedFiles!PutPendingUpload, AddedFiles!Rejected,
            AddedFiles!AskList, AddedFiles!Remembered, FilesInv, AddedFiles!LinkedOnce,
            AddedFiles!Unsent, AddedFiles!server, AddedFiles!screen
    <2>2. FilesOK'
        BY <1>9
        DEF AddedFiles!LinkFailed, AddedFiles!PutPendingUpload, AddedFiles!Rejected,
            AddedFiles!AskList, AddedFiles!Remembered, FilesInv, FilesOK, AddedFiles!Unsent,
            TaskFields, PassFields, RecordFields, AddedFiles!Idle, AddedFiles!server,
            AddedFiles!screen
    <2>3. AddingInv'
        BY <1>9
        DEF AddedFiles!LinkFailed, AddedFiles!PutPendingUpload, AddedFiles!Rejected,
            AddedFiles!AskList, AddedFiles!Remembered, FilesInv, AddingInv, Links, CopyOf,
            AddedFiles!Unsent, AddedFiles!Idle, AddedFiles!server, AddedFiles!screen
    <2>4. RecordsInv'
        BY <1>9
        DEF AddedFiles!LinkFailed, AddedFiles!PutPendingUpload, AddedFiles!Rejected,
            AddedFiles!AskList, AddedFiles!Remembered, FilesInv, FilesOK, AddingInv,
            RecordsInv, Links, CopyOf, AddedFiles!Unsent, TaskFields, PassFields, RecordFields,
            AddedFiles!Idle, AddedFiles!server, AddedFiles!screen
    <2>5. ReplayInv'
        BY <1>9
        DEF AddedFiles!LinkFailed, AddedFiles!PutPendingUpload, AddedFiles!Rejected,
            AddedFiles!AskList, AddedFiles!Remembered, FilesInv, FilesOK, AddingInv, ReplayInv,
            Links, CopyOf, AddedFiles!Unsent, TaskFields, PassFields, RecordFields,
            AddedFiles!Idle, AddedFiles!server, AddedFiles!screen
    <2>6. ListsInv'
        BY <1>9
        DEF AddedFiles!LinkFailed, AddedFiles!PutPendingUpload, AddedFiles!Rejected,
            AddedFiles!AskList, AddedFiles!Remembered, FilesInv, ListsInv, StillLinked,
            AddedFiles!Unsent, AddedFiles!Idle, AddedFiles!server, AddedFiles!screen
    <2>7. PassInv'
        BY <1>9
        DEF AddedFiles!LinkFailed, AddedFiles!PutPendingUpload, AddedFiles!Rejected,
            AddedFiles!AskList, AddedFiles!Remembered, FilesInv, PassInv, Settles,
            AddedFiles!Unsent, AddedFiles!Idle, AddedFiles!server, AddedFiles!screen
    <2>8. ReportedInv'
        BY <1>9
        DEF AddedFiles!LinkFailed, AddedFiles!PutPendingUpload, AddedFiles!Rejected,
            AddedFiles!AskList, AddedFiles!Remembered, FilesInv, ReportedInv, Links,
            AddedFiles!Unsent, AddedFiles!Idle, AddedFiles!server, AddedFiles!screen
    <2>9. QED BY <2>1, <2>2, <2>3, <2>4, <2>5, <2>6, <2>7, <2>8 DEF FilesInv
<1>10. ASSUME NEW f \in Files, AddedFiles!ReplayUpload(f)
      PROVE  FilesInv'
    <2>0. replaying' = Starting(f) \/ UNCHANGED replaying
        BY <1>10 DEF AddedFiles!ReplayUpload, Starting
    <2>1. AddingInv' /\ PassInv' /\ ReportedInv' /\ AddedFiles!LinkedOnce'
        BY <1>10, <2>0
        DEF AddedFiles!ReplayUpload, AddedFiles!AskList, FilesInv, AddingInv, PassInv,
            ReportedInv, AddedFiles!LinkedOnce, Links, CopyOf, Settles, AddedFiles!Unsent,
            AddedFiles!server, AddedFiles!screen, AddedFiles!history
    <2>2. FilesOK'
        BY <1>10, <2>0, TaskStarts
        DEF AddedFiles!ReplayUpload, AddedFiles!AskList, FilesInv, FilesOK, AddedFiles!Unsent,
            TaskFields, PassFields, RecordFields, AddedFiles!server, AddedFiles!screen,
            AddedFiles!history
    <2>3. RecordsInv'
        BY <1>10, <2>0, TaskStarts
        DEF AddedFiles!ReplayUpload, AddedFiles!AskList, FilesInv, RecordsInv, Links, CopyOf,
            AddedFiles!Unsent, AddedFiles!server, AddedFiles!screen, AddedFiles!history
    <2>4. ReplayInv'
        <3>1. UNCHANGED <<records, copies>>
            BY <1>10 DEF AddedFiles!ReplayUpload, AddedFiles!server
        <3>2. CASE records[f].id # AddedFiles!Unsent
            <4>1. replaying'.step = "idle"
                BY <1>10, <3>2, TaskStarts DEF AddedFiles!ReplayUpload
            <4>2. QED BY <4>1 DEF ReplayInv
        <3>3. CASE records[f].id = AddedFiles!Unsent
            <4>1. replaying' = Starting(f) /\ f \in queued
                BY <1>10, <3>3 DEF AddedFiles!ReplayUpload, Starting
            <4>2. f \in DOMAIN records
                BY <4>1 DEF FilesInv, FilesOK
            <4>3. QED BY <3>1, <3>3, <4>1, <4>2, TaskStarts DEF ReplayInv
        <3>4. QED BY <3>2, <3>3
    <2>5. ListsInv'
        BY <1>10, <2>0, TaskStarts
        DEF AddedFiles!ReplayUpload, AddedFiles!AskList, FilesInv, ListsInv, StillLinked,
            AddedFiles!Unsent, AddedFiles!server, AddedFiles!screen, AddedFiles!history
    <2>6. QED BY <2>1, <2>2, <2>3, <2>4, <2>5 DEF FilesInv
<1>11. CASE AddedFiles!ReplayStored
    <2>1. FilesOK'
        BY <1>11
        DEF AddedFiles!ReplayStored, AddedFiles!StoreUpload, FilesInv, FilesOK, ReplayInv,
            CopyOf, AddedFiles!Unsent, TaskFields, PassFields, RecordFields, AddedFiles!device,
            AddedFiles!screen, AddedFiles!history
    <2>2. AddingInv'
        BY <1>11
        DEF AddedFiles!ReplayStored, AddedFiles!StoreUpload, FilesInv, FilesOK, AddingInv,
            Links, CopyOf, TaskFields, PassFields, RecordFields, AddedFiles!device,
            AddedFiles!screen, AddedFiles!history
    <2>3. RecordsInv'
        BY <1>11
        DEF AddedFiles!ReplayStored, AddedFiles!StoreUpload, FilesInv, FilesOK, RecordsInv,
            Links, CopyOf, AddedFiles!Unsent, TaskFields, PassFields, RecordFields,
            AddedFiles!device, AddedFiles!screen, AddedFiles!history
    <2>4. ReplayInv'
        BY <1>11
        DEF AddedFiles!ReplayStored, AddedFiles!StoreUpload, FilesInv, ReplayInv, CopyOf,
            AddedFiles!Unsent, AddedFiles!device, AddedFiles!screen, AddedFiles!history
    <2>5. ListsInv'
        BY <1>11
        DEF AddedFiles!ReplayStored, AddedFiles!StoreUpload, FilesInv, ListsInv, StillLinked,
            AddedFiles!device, AddedFiles!screen, AddedFiles!history
    <2>6. PassInv'
        BY <1>11
        DEF AddedFiles!ReplayStored, AddedFiles!StoreUpload, FilesInv, PassInv, Settles,
            AddedFiles!Unsent, AddedFiles!device, AddedFiles!screen, AddedFiles!history
    <2>7. ReportedInv'
        BY <1>11
        DEF AddedFiles!ReplayStored, AddedFiles!StoreUpload, FilesInv, FilesOK, ReportedInv,
            Links, TaskFields, PassFields, RecordFields, AddedFiles!device, AddedFiles!screen,
            AddedFiles!history
    <2>8. AddedFiles!LinkedOnce'
        BY <1>11
        DEF AddedFiles!ReplayStored, AddedFiles!StoreUpload, FilesInv, FilesOK,
            AddedFiles!LinkedOnce, TaskFields, PassFields, RecordFields, AddedFiles!device,
            AddedFiles!screen, AddedFiles!history
    <2>9. QED BY <2>1, <2>2, <2>3, <2>4, <2>5, <2>6, <2>7, <2>8 DEF FilesInv
<1>12. CASE AddedFiles!ReplayAnswered
    <2>1. AddedFiles!LinkedOnce'
        BY <1>12
        DEF AddedFiles!ReplayAnswered, AddedFiles!AskList, FilesInv, AddedFiles!LinkedOnce,
            AddedFiles!Unsent, AddedFiles!server, AddedFiles!screen, AddedFiles!history
    <2>2. FilesOK'
        BY <1>12
        DEF AddedFiles!ReplayAnswered, AddedFiles!AskList, FilesInv, FilesOK,
            AddedFiles!Unsent, TaskFields, PassFields, RecordFields, AddedFiles!Idle,
            AddedFiles!server, AddedFiles!screen, AddedFiles!history
    <2>3. AddingInv'
        BY <1>12
        DEF AddedFiles!ReplayAnswered, AddedFiles!AskList, FilesInv, AddingInv, Links, CopyOf,
            AddedFiles!Unsent, AddedFiles!Idle, AddedFiles!server, AddedFiles!screen,
            AddedFiles!history
    <2>4. RecordsInv'
        BY <1>12
        DEF AddedFiles!ReplayAnswered, AddedFiles!AskList, FilesInv, FilesOK, RecordsInv,
            ReplayInv, Links, CopyOf, AddedFiles!Unsent, TaskFields, PassFields, RecordFields,
            AddedFiles!Idle, AddedFiles!server, AddedFiles!screen, AddedFiles!history
    <2>5. ReplayInv'
        BY <1>12
        DEF AddedFiles!ReplayAnswered, AddedFiles!AskList, FilesInv, ReplayInv, CopyOf,
            AddedFiles!Unsent, AddedFiles!Idle, AddedFiles!server, AddedFiles!screen,
            AddedFiles!history
    <2>6. ListsInv'
        BY <1>12
        DEF AddedFiles!ReplayAnswered, AddedFiles!AskList, FilesInv, ListsInv, StillLinked,
            AddedFiles!Unsent, AddedFiles!Idle, AddedFiles!server, AddedFiles!screen,
            AddedFiles!history
    <2>7. PassInv'
        BY <1>12
        DEF AddedFiles!ReplayAnswered, AddedFiles!AskList, FilesInv, FilesOK, ReplayInv,
            PassInv, CopyOf, Settles, AddedFiles!Unsent, TaskFields, PassFields, RecordFields,
            AddedFiles!Idle, AddedFiles!server, AddedFiles!screen, AddedFiles!history
    <2>8. ReportedInv'
        BY <1>12
        DEF AddedFiles!ReplayAnswered, AddedFiles!AskList, FilesInv, ReportedInv, Links,
            AddedFiles!Unsent, AddedFiles!Idle, AddedFiles!server, AddedFiles!screen,
            AddedFiles!history
    <2>9. QED BY <2>1, <2>2, <2>3, <2>4, <2>5, <2>6, <2>7, <2>8 DEF FilesInv
<1>13. CASE AddedFiles!ReplayLost
    <2>1. AddingInv' /\ RecordsInv' /\ PassInv' /\ ReportedInv' /\ AddedFiles!LinkedOnce'
        BY <1>13
        DEF AddedFiles!ReplayLost, AddedFiles!AskList, FilesInv, AddingInv, RecordsInv,
            PassInv, ReportedInv, AddedFiles!LinkedOnce, Links, CopyOf, Settles,
            AddedFiles!Unsent, AddedFiles!server, AddedFiles!device, AddedFiles!screen,
            AddedFiles!history
    <2>2. FilesOK'
        BY <1>13
        DEF AddedFiles!ReplayLost, AddedFiles!AskList, FilesInv, FilesOK, AddedFiles!Unsent,
            TaskFields, PassFields, RecordFields, AddedFiles!Idle, AddedFiles!server,
            AddedFiles!device, AddedFiles!screen, AddedFiles!history
    <2>3. ReplayInv'
        BY <1>13
        DEF AddedFiles!ReplayLost, AddedFiles!AskList, FilesInv, ReplayInv, CopyOf,
            AddedFiles!Unsent, AddedFiles!Idle, AddedFiles!server, AddedFiles!device,
            AddedFiles!screen, AddedFiles!history
    <2>4. ListsInv'
        BY <1>13
        DEF AddedFiles!ReplayLost, AddedFiles!AskList, FilesInv, ListsInv, StillLinked,
            AddedFiles!Unsent, AddedFiles!Idle, AddedFiles!server, AddedFiles!device,
            AddedFiles!screen, AddedFiles!history
    <2>5. QED BY <2>1, <2>2, <2>3, <2>4 DEF FilesInv
<1>14. ASSUME NEW f \in Files, AddedFiles!Prune(f)
      PROVE  FilesInv'
    <2>1. ListsInv' /\ AddedFiles!LinkedOnce'
        BY <1>14
        DEF AddedFiles!Prune, AddedFiles!Settled, FilesInv, ListsInv, AddedFiles!LinkedOnce,
            StillLinked, AddedFiles!server, AddedFiles!screen, AddedFiles!history
    <2>2. FilesOK'
        BY <1>14
        DEF AddedFiles!Prune, AddedFiles!Settled, FilesInv, FilesOK, TaskFields, PassFields,
            RecordFields, AddedFiles!server, AddedFiles!screen, AddedFiles!history
    <2>3. AddingInv'
        BY <1>14
        DEF AddedFiles!Prune, AddedFiles!Settled, FilesInv, AddingInv, Links, CopyOf,
            AddedFiles!server, AddedFiles!screen, AddedFiles!history
    <2>4. RecordsInv'
        BY <1>14
        DEF AddedFiles!Prune, AddedFiles!Settled, FilesInv, RecordsInv, Links, CopyOf,
            AddedFiles!Unsent, AddedFiles!server, AddedFiles!screen, AddedFiles!history
    <2>5. ReplayInv'
        BY <1>14
        DEF AddedFiles!Prune, AddedFiles!Settled, FilesInv, FilesOK, RecordsInv, ReplayInv,
            Links, CopyOf, AddedFiles!Unsent, TaskFields, PassFields, RecordFields,
            AddedFiles!server, AddedFiles!screen, AddedFiles!history
    <2>6. PassInv'
        BY <1>14
        DEF AddedFiles!Prune, AddedFiles!Settled, FilesInv, PassInv, Settles,
            AddedFiles!Unsent, AddedFiles!server, AddedFiles!screen, AddedFiles!history
    <2>7. ReportedInv'
        BY <1>14
        DEF AddedFiles!Prune, AddedFiles!Settled, FilesInv, FilesOK, RecordsInv, ReportedInv,
            Links, CopyOf, AddedFiles!Unsent, TaskFields, PassFields, RecordFields,
            AddedFiles!server, AddedFiles!screen, AddedFiles!history
    <2>8. QED BY <2>1, <2>2, <2>3, <2>4, <2>5, <2>6, <2>7 DEF FilesInv
<1>15. CASE AddedFiles!ReadList
    <2>1. FilesOK' /\ AddingInv' /\ RecordsInv' /\ ReplayInv' /\ PassInv' /\ ReportedInv' /\ AddedFiles!LinkedOnce'
        BY <1>15
        DEF AddedFiles!ReadList, FilesInv, FilesOK, AddingInv, RecordsInv, ReplayInv, PassInv,
            ReportedInv, AddedFiles!LinkedOnce, Links, CopyOf, Settles, AddedFiles!Unsent,
            TaskFields, PassFields, RecordFields, AddedFiles!server, AddedFiles!device,
            AddedFiles!screen, AddedFiles!history
    <2>2. ListsInv'
        BY <1>15
        DEF AddedFiles!ReadList, FilesInv, FilesOK, ListsInv, StillLinked, TaskFields,
            PassFields, RecordFields, AddedFiles!server, AddedFiles!device, AddedFiles!screen,
            AddedFiles!history
    <2>3. QED BY <2>1, <2>2 DEF FilesInv
<1>16. CASE AddedFiles!RefreshAttachments
    <2>1. AddingInv' /\ RecordsInv' /\ ReplayInv' /\ ReportedInv' /\ AddedFiles!LinkedOnce'
        BY <1>16
        DEF AddedFiles!RefreshAttachments, AddedFiles!ShowList, FilesInv, AddingInv,
            RecordsInv, ReplayInv, ReportedInv, AddedFiles!LinkedOnce, Links, CopyOf,
            AddedFiles!Unsent, AddedFiles!server, AddedFiles!device, AddedFiles!history
    <2>2. FilesOK'
        BY <1>16, PassStarts
        DEF AddedFiles!RefreshAttachments, AddedFiles!ShowList, FilesInv, FilesOK,
            AddedFiles!Unsent, TaskFields, PassFields, RecordFields, AddedFiles!server,
            AddedFiles!device, AddedFiles!history
    <2>3. ListsInv'
        BY <1>16, PassStarts
        DEF AddedFiles!RefreshAttachments, AddedFiles!ShowList, FilesInv, ListsInv,
            StillLinked, AddedFiles!Unsent, AddedFiles!server, AddedFiles!device,
            AddedFiles!history
    <2>4. PassInv'
        BY <1>16, PassStarts
        DEF AddedFiles!RefreshAttachments, AddedFiles!ShowList, FilesInv, FilesOK, AddingInv,
            RecordsInv, PassInv, Links, CopyOf, Settles, AddedFiles!Unsent, TaskFields,
            PassFields, RecordFields, AddedFiles!server, AddedFiles!device, AddedFiles!history
    <2>5. QED BY <2>1, <2>2, <2>3, <2>4 DEF FilesInv
<1>17. ASSUME NEW f \in Files, AddedFiles!AlreadyLinked(f)
      PROVE  FilesInv'
    <2>1. AddedFiles!LinkedOnce'
        BY <1>17
        DEF AddedFiles!AlreadyLinked, AddedFiles!Take, AddedFiles!Marked, FilesInv,
            AddedFiles!LinkedOnce, AddedFiles!server, AddedFiles!screen, AddedFiles!history
    <2>2. FilesOK'
        BY <1>17
        DEF AddedFiles!AlreadyLinked, AddedFiles!Take, AddedFiles!Marked, FilesInv, FilesOK,
            TaskFields, PassFields, RecordFields, AddedFiles!server, AddedFiles!screen,
            AddedFiles!history
    <2>3. AddingInv'
        BY <1>17
        DEF AddedFiles!AlreadyLinked, AddedFiles!Take, AddedFiles!Marked, FilesInv, AddingInv,
            Links, CopyOf, AddedFiles!server, AddedFiles!screen, AddedFiles!history
    <2>4. RecordsInv'
        BY <1>17
        DEF AddedFiles!AlreadyLinked, AddedFiles!Take, AddedFiles!Marked, FilesInv, FilesOK,
            RecordsInv, ListsInv, Links, CopyOf, StillLinked, AddedFiles!Unsent, TaskFields,
            PassFields, RecordFields, AddedFiles!server, AddedFiles!screen, AddedFiles!history
    <2>5. ReplayInv'
        BY <1>17
        DEF AddedFiles!AlreadyLinked, AddedFiles!Take, AddedFiles!Marked, FilesInv, ReplayInv,
            CopyOf, AddedFiles!Unsent, AddedFiles!server, AddedFiles!screen, AddedFiles!history
    <2>6. ListsInv'
        BY <1>17
        DEF AddedFiles!AlreadyLinked, AddedFiles!Take, AddedFiles!Marked, FilesInv, ListsInv,
            StillLinked, AddedFiles!server, AddedFiles!screen, AddedFiles!history
    <2>7. PassInv'
        BY <1>17
        DEF AddedFiles!AlreadyLinked, AddedFiles!Take, AddedFiles!Marked, FilesInv, PassInv,
            Settles, AddedFiles!Unsent, AddedFiles!server, AddedFiles!screen, AddedFiles!history
    <2>8. ReportedInv'
        BY <1>17
        DEF AddedFiles!AlreadyLinked, AddedFiles!Take, AddedFiles!Marked, FilesInv,
            ReportedInv, Links, AddedFiles!server, AddedFiles!screen, AddedFiles!history
    <2>9. QED BY <2>1, <2>2, <2>3, <2>4, <2>5, <2>6, <2>7, <2>8 DEF FilesInv
<1>18. ASSUME NEW f \in Files, AddedFiles!Relink(f)
      PROVE  FilesInv'
    <2>1. ReplayInv'
        BY <1>18
        DEF AddedFiles!Relink, AddedFiles!Link, FilesInv, ReplayInv, CopyOf, AddedFiles!Unsent,
            AddedFiles!device, AddedFiles!screen, AddedFiles!history
    <2>2. FilesOK'
        BY <1>18
        DEF AddedFiles!Relink, AddedFiles!Link, FilesInv, FilesOK, RecordsInv, PassInv, Links,
            CopyOf, Settles, AddedFiles!Unsent, TaskFields, PassFields, RecordFields,
            AddedFiles!device, AddedFiles!screen, AddedFiles!history
    <2>3. AddingInv'
        BY <1>18
        DEF AddedFiles!Relink, AddedFiles!Link, FilesInv, FilesOK, AddingInv, RecordsInv,
            PassInv, Links, CopyOf, Settles, AddedFiles!Unsent, TaskFields, PassFields,
            RecordFields, AddedFiles!device, AddedFiles!screen, AddedFiles!history
    <2>4. RecordsInv'
        BY <1>18
        DEF AddedFiles!Relink, AddedFiles!Link, FilesInv, FilesOK, RecordsInv, PassInv, Links,
            CopyOf, Settles, AddedFiles!Unsent, TaskFields, PassFields, RecordFields,
            AddedFiles!device, AddedFiles!screen, AddedFiles!history
    <2>5. ListsInv'
        BY <1>18
        DEF AddedFiles!Relink, AddedFiles!Link, FilesInv, ListsInv, StillLinked,
            AddedFiles!device, AddedFiles!screen, AddedFiles!history
    <2>6. PassInv'
        BY <1>18
        DEF AddedFiles!Relink, AddedFiles!Link, FilesInv, PassInv, Settles, AddedFiles!Unsent,
            AddedFiles!device, AddedFiles!screen, AddedFiles!history
    <2>7. ReportedInv'
        BY <1>18
        DEF AddedFiles!Relink, AddedFiles!Link, FilesInv, ReportedInv, Links,
            AddedFiles!device, AddedFiles!screen, AddedFiles!history
    <2>8. AddedFiles!LinkedOnce'
        BY <1>18
        DEF AddedFiles!Relink, AddedFiles!Link, FilesInv, FilesOK, RecordsInv, PassInv,
            AddedFiles!LinkedOnce, Links, CopyOf, Settles, AddedFiles!Unsent, TaskFields,
            PassFields, RecordFields, AddedFiles!device, AddedFiles!screen, AddedFiles!history
    <2>9. QED BY <2>1, <2>2, <2>3, <2>4, <2>5, <2>6, <2>7, <2>8 DEF FilesInv
<1>19. ASSUME NEW f \in Files, AddedFiles!NotLinked(f)
      PROVE  FilesInv'
    <2>1. AddingInv' /\ RecordsInv' /\ ReplayInv' /\ ReportedInv' /\ AddedFiles!LinkedOnce'
        BY <1>19
        DEF AddedFiles!NotLinked, AddedFiles!Take, FilesInv, AddingInv, RecordsInv, ReplayInv,
            ReportedInv, AddedFiles!LinkedOnce, Links, CopyOf, AddedFiles!Unsent,
            AddedFiles!server, AddedFiles!device, AddedFiles!screen, AddedFiles!history
    <2>2. FilesOK'
        BY <1>19
        DEF AddedFiles!NotLinked, AddedFiles!Take, FilesInv, FilesOK, TaskFields, PassFields,
            RecordFields, AddedFiles!server, AddedFiles!device, AddedFiles!screen,
            AddedFiles!history
    <2>3. ListsInv'
        BY <1>19
        DEF AddedFiles!NotLinked, AddedFiles!Take, FilesInv, ListsInv, StillLinked,
            AddedFiles!server, AddedFiles!device, AddedFiles!screen, AddedFiles!history
    <2>4. PassInv'
        BY <1>19
        DEF AddedFiles!NotLinked, AddedFiles!Take, FilesInv, PassInv, Settles,
            AddedFiles!Unsent, AddedFiles!server, AddedFiles!device, AddedFiles!screen,
            AddedFiles!history
    <2>5. QED BY <2>1, <2>2, <2>3, <2>4 DEF FilesInv
<1>20. CASE AddedFiles!RelinkAnswered
    <2>1. AddedFiles!LinkedOnce'
        BY <1>20
        DEF AddedFiles!RelinkAnswered, AddedFiles!Marked, FilesInv, AddedFiles!LinkedOnce,
            AddedFiles!server, AddedFiles!screen, AddedFiles!history
    <2>2. FilesOK'
        BY <1>20
        DEF AddedFiles!RelinkAnswered, AddedFiles!Marked, FilesInv, FilesOK, TaskFields,
            PassFields, RecordFields, AddedFiles!server, AddedFiles!screen, AddedFiles!history
    <2>3. AddingInv'
        BY <1>20
        DEF AddedFiles!RelinkAnswered, AddedFiles!Marked, FilesInv, AddingInv, Links, CopyOf,
            AddedFiles!server, AddedFiles!screen, AddedFiles!history
    <2>4. RecordsInv'
        BY <1>20
        DEF AddedFiles!RelinkAnswered, AddedFiles!Marked, FilesInv, FilesOK, RecordsInv,
            PassInv, Links, CopyOf, Settles, AddedFiles!Unsent, TaskFields, PassFields,
            RecordFields, AddedFiles!server, AddedFiles!screen, AddedFiles!history
    <2>5. ReplayInv'
        BY <1>20
        DEF AddedFiles!RelinkAnswered, AddedFiles!Marked, FilesInv, ReplayInv, CopyOf,
            AddedFiles!Unsent, AddedFiles!server, AddedFiles!screen, AddedFiles!history
    <2>6. ListsInv'
        BY <1>20
        DEF AddedFiles!RelinkAnswered, AddedFiles!Marked, FilesInv, ListsInv, StillLinked,
            AddedFiles!server, AddedFiles!screen, AddedFiles!history
    <2>7. PassInv'
        BY <1>20
        DEF AddedFiles!RelinkAnswered, AddedFiles!Marked, FilesInv, PassInv, Settles,
            AddedFiles!Unsent, AddedFiles!server, AddedFiles!screen, AddedFiles!history
    <2>8. ReportedInv'
        BY <1>20
        DEF AddedFiles!RelinkAnswered, AddedFiles!Marked, FilesInv, ReportedInv, Links,
            AddedFiles!server, AddedFiles!screen, AddedFiles!history
    <2>9. QED BY <2>1, <2>2, <2>3, <2>4, <2>5, <2>6, <2>7, <2>8 DEF FilesInv
<1>21. CASE AddedFiles!RelinkLost
    <2>1. AddingInv' /\ RecordsInv' /\ ReplayInv' /\ ReportedInv' /\ AddedFiles!LinkedOnce'
        BY <1>21
        DEF AddedFiles!RelinkLost, FilesInv, AddingInv, RecordsInv, ReplayInv, ReportedInv,
            AddedFiles!LinkedOnce, Links, CopyOf, AddedFiles!Unsent, AddedFiles!server,
            AddedFiles!device, AddedFiles!screen, AddedFiles!history
    <2>2. FilesOK'
        BY <1>21
        DEF AddedFiles!RelinkLost, FilesInv, FilesOK, TaskFields, PassFields, RecordFields,
            AddedFiles!server, AddedFiles!device, AddedFiles!screen, AddedFiles!history
    <2>3. ListsInv'
        BY <1>21
        DEF AddedFiles!RelinkLost, FilesInv, ListsInv, StillLinked, AddedFiles!server,
            AddedFiles!device, AddedFiles!screen, AddedFiles!history
    <2>4. PassInv'
        BY <1>21
        DEF AddedFiles!RelinkLost, FilesInv, PassInv, Settles, AddedFiles!Unsent,
            AddedFiles!server, AddedFiles!device, AddedFiles!screen, AddedFiles!history
    <2>5. QED BY <2>1, <2>2, <2>3, <2>4 DEF FilesInv
<1>22. CASE AddedFiles!RelinkDone
    <2>1. AddingInv' /\ RecordsInv' /\ ReplayInv' /\ ReportedInv' /\ AddedFiles!LinkedOnce'
        BY <1>22
        DEF AddedFiles!RelinkDone, AddedFiles!AskList, FilesInv, AddingInv, RecordsInv,
            ReplayInv, ReportedInv, AddedFiles!LinkedOnce, Links, CopyOf, AddedFiles!Unsent,
            AddedFiles!server, AddedFiles!device, AddedFiles!screen, AddedFiles!history
    <2>2. FilesOK'
        BY <1>22
        DEF AddedFiles!RelinkDone, AddedFiles!AskList, FilesInv, FilesOK, TaskFields,
            PassFields, RecordFields, AddedFiles!Quiet, AddedFiles!server, AddedFiles!device,
            AddedFiles!screen, AddedFiles!history
    <2>3. ListsInv'
        BY <1>22
        DEF AddedFiles!RelinkDone, AddedFiles!AskList, FilesInv, ListsInv, StillLinked,
            AddedFiles!Quiet, AddedFiles!server, AddedFiles!device, AddedFiles!screen,
            AddedFiles!history
    <2>4. PassInv'
        BY <1>22
        DEF AddedFiles!RelinkDone, AddedFiles!AskList, FilesInv, PassInv, Settles,
            AddedFiles!Unsent, AddedFiles!Quiet, AddedFiles!server, AddedFiles!device,
            AddedFiles!screen, AddedFiles!history
    <2>5. QED BY <2>1, <2>2, <2>3, <2>4 DEF FilesInv
<1>23. ASSUME NEW i \in DOMAIN copies, AddedFiles!RemoveAttachment(i)
      PROVE  FilesInv'
    <2>1. ReplayInv'
        BY <1>23
        DEF AddedFiles!RemoveAttachment, AddedFiles!AskList, FilesInv, ReplayInv, CopyOf,
            AddedFiles!Unsent, AddedFiles!device, AddedFiles!screen
    <2>2. FilesOK'
        BY <1>23
        DEF AddedFiles!RemoveAttachment, AddedFiles!AskList, FilesInv, FilesOK,
            AddedFiles!Unsent, TaskFields, PassFields, RecordFields, AddedFiles!Idle,
            AddedFiles!device, AddedFiles!screen
    <2>3. AddingInv'
        BY <1>23
        DEF AddedFiles!RemoveAttachment, AddedFiles!AskList, FilesInv, AddingInv, Links,
            CopyOf, AddedFiles!Unsent, AddedFiles!Idle, AddedFiles!device, AddedFiles!screen
    <2>4. RecordsInv'
        BY <1>23
        DEF AddedFiles!RemoveAttachment, AddedFiles!AskList, FilesInv, RecordsInv, Links,
            CopyOf, AddedFiles!Unsent, AddedFiles!Idle, AddedFiles!device, AddedFiles!screen
    <2>5. ListsInv'
        BY <1>23
        DEF AddedFiles!RemoveAttachment, AddedFiles!AskList, FilesInv, ListsInv, StillLinked,
            AddedFiles!Unsent, AddedFiles!Idle, AddedFiles!device, AddedFiles!screen
    <2>6. PassInv'
        BY <1>23
        DEF AddedFiles!RemoveAttachment, AddedFiles!AskList, FilesInv, FilesOK, RecordsInv,
            PassInv, Links, CopyOf, Settles, AddedFiles!Unsent, TaskFields, PassFields,
            RecordFields, AddedFiles!Idle, AddedFiles!device, AddedFiles!screen
    <2>7. ReportedInv'
        BY <1>23
        DEF AddedFiles!RemoveAttachment, AddedFiles!AskList, FilesInv, ReportedInv, Links,
            AddedFiles!Unsent, AddedFiles!Idle, AddedFiles!device, AddedFiles!screen
    <2>8. AddedFiles!LinkedOnce'
        BY <1>23
        DEF AddedFiles!RemoveAttachment, AddedFiles!AskList, FilesInv, AddedFiles!LinkedOnce,
            AddedFiles!Unsent, AddedFiles!Idle, AddedFiles!device, AddedFiles!screen
    <2>9. QED BY <2>1, <2>2, <2>3, <2>4, <2>5, <2>6, <2>7, <2>8 DEF FilesInv
<1>24. CASE AddedFiles!Send
    <2>1. FilesOK' /\ AddingInv' /\ RecordsInv' /\ ReplayInv' /\ ListsInv' /\ PassInv' /\ ReportedInv' /\ AddedFiles!LinkedOnce'
        BY <1>24
        DEF AddedFiles!Send, FilesInv, FilesOK, AddingInv, RecordsInv, ReplayInv, ListsInv,
            PassInv, ReportedInv, AddedFiles!LinkedOnce, Links, CopyOf, StillLinked, Settles,
            AddedFiles!Unsent, TaskFields, PassFields, RecordFields, AddedFiles!device,
            AddedFiles!screen, AddedFiles!history
    <2>2. QED BY <2>1 DEF FilesInv
<1>25. CASE AddedFiles!Connection
    <2>1. AddingInv' /\ RecordsInv' /\ ReplayInv' /\ ReportedInv' /\ AddedFiles!LinkedOnce'
        BY <1>25
        DEF AddedFiles!Connection, AddedFiles!AskList, FilesInv, AddingInv, RecordsInv,
            ReplayInv, ReportedInv, AddedFiles!LinkedOnce, Links, CopyOf, AddedFiles!Unsent,
            AddedFiles!server, AddedFiles!device, AddedFiles!screen, AddedFiles!history
    <2>2. FilesOK'
        BY <1>25, PassStarts
        DEF AddedFiles!Connection, AddedFiles!AskList, FilesInv, FilesOK, TaskFields,
            PassFields, RecordFields, AddedFiles!server, AddedFiles!device, AddedFiles!screen,
            AddedFiles!history
    <2>3. ListsInv'
        BY <1>25, PassStarts
        DEF AddedFiles!Connection, AddedFiles!AskList, FilesInv, ListsInv, StillLinked,
            AddedFiles!server, AddedFiles!device, AddedFiles!screen, AddedFiles!history
    <2>4. PassInv'
        BY <1>25, PassStarts
        DEF AddedFiles!Connection, AddedFiles!AskList, FilesInv, FilesOK, AddingInv,
            RecordsInv, PassInv, Links, CopyOf, Settles, AddedFiles!Unsent, TaskFields,
            PassFields, RecordFields, AddedFiles!server, AddedFiles!device, AddedFiles!screen,
            AddedFiles!history
    <2>5. QED BY <2>1, <2>2, <2>3, <2>4 DEF FilesInv
<1>26. CASE AddedFiles!ReloadPage
    <2>1. RecordsInv' /\ ReportedInv' /\ AddedFiles!LinkedOnce'
        BY <1>26
        DEF AddedFiles!ReloadPage, AddedFiles!AskList, FilesInv, RecordsInv, ReportedInv,
            AddedFiles!LinkedOnce, Links, CopyOf, AddedFiles!Unsent, AddedFiles!server,
            AddedFiles!device, AddedFiles!history
    <2>2. FilesOK'
        BY <1>26
        DEF AddedFiles!ReloadPage, AddedFiles!AskList, FilesInv, FilesOK, AddedFiles!Unsent,
            TaskFields, PassFields, RecordFields, AddedFiles!Idle, AddedFiles!Quiet,
            AddedFiles!server, AddedFiles!device, AddedFiles!history
    <2>3. AddingInv'
        BY <1>26
        DEF AddedFiles!ReloadPage, AddedFiles!AskList, FilesInv, AddingInv, Links, CopyOf,
            AddedFiles!Unsent, AddedFiles!Idle, AddedFiles!Quiet, AddedFiles!server,
            AddedFiles!device, AddedFiles!history
    <2>4. ReplayInv'
        BY <1>26
        DEF AddedFiles!ReloadPage, AddedFiles!AskList, FilesInv, ReplayInv, CopyOf,
            AddedFiles!Unsent, AddedFiles!Idle, AddedFiles!Quiet, AddedFiles!server,
            AddedFiles!device, AddedFiles!history
    <2>5. ListsInv'
        BY <1>26
        DEF AddedFiles!ReloadPage, AddedFiles!AskList, FilesInv, ListsInv, StillLinked,
            AddedFiles!Unsent, AddedFiles!Idle, AddedFiles!Quiet, AddedFiles!server,
            AddedFiles!device, AddedFiles!history
    <2>6. PassInv'
        BY <1>26
        DEF AddedFiles!ReloadPage, AddedFiles!AskList, FilesInv, PassInv, Settles,
            AddedFiles!Unsent, AddedFiles!Idle, AddedFiles!Quiet, AddedFiles!server,
            AddedFiles!device, AddedFiles!history
    <2>7. QED BY <2>1, <2>2, <2>3, <2>4, <2>5, <2>6 DEF FilesInv
<1>27. QED
    BY <1>1, <1>2, <1>3, <1>4, <1>5, <1>6, <1>7, <1>8, <1>9, <1>10, <1>11, <1>12, <1>13, <1>14,
        <1>15, <1>16, <1>17, <1>18, <1>19, <1>20, <1>21, <1>22, <1>23, <1>24, <1>25, <1>26
    DEF AddedFiles!Next

LEMMA FilesSafe == FilesInv => AddedFiles!FilesAreKept /\ AddedFiles!LinkedOnce
BY DEF FilesInv, AddedFiles!FilesAreKept, RecordsInv, ReportedInv, Links, CopyOf

(* A file the composer reported is never lost, and no retry links a second *)
(* copy of it (markUploadAcknowledged, rememberAcknowledgedUpload), for    *)
(* any number of files, copies, lost answers and reloads.                  *)
THEOREM FilesStayKept == SideSpec => []FilesAreKept
<1>1. SideInit => FilesInv
    BY FilesBegin DEF SideInit
<1>2. FilesInv /\ [SideNext]_sideVars => FilesInv'
    BY FilesStep, FilesAlone
<1>3. FilesInv => AddedFiles!FilesAreKept /\ AddedFiles!LinkedOnce
    BY FilesSafe
<1>4. QED BY <1>1, <1>2, <1>3, PTL DEF SideSpec, FilesAreKept

-----------------------------------------------------------------------------
(* The message list: no page leaves a gap.  A message is at the place of   *)
(* the messages above it; a page holds the messages of its places.  While  *)
(* nothing leaves, places only grow, by as much as arrives above: a page   *)
(* that starts where the rows end repeats some of them or follows the last *)
(* one, unless more arrive than there are rows.                            *)

(* The instance counts as the library does.                                *)
LEMMA MailCountsAlike == ASSUME NEW S PROVE Reading!Cardinality(S) = Cardinality(S)
BY DEF Reading!Cardinality, Cardinality

(* The place of a message in a listing: the messages above it.             *)
Above(S, m) == Reading!Cardinality({n \in S : n > m})
Descending(s) == \A i, j \in DOMAIN s : i < j => s[i] > s[j]

(* A place lies within the listing, and a lower message has a later place. *)
LEMMA AboveCounts ==
  ASSUME NEW S \in SUBSET Nat, IsFiniteSet(S), NEW m \in Nat
  PROVE  /\ Above(S, m) \in Nat
         /\ m \in S => Above(S, m) < Cardinality(S)
<1> DEFINE A == {n \in S : n > m}
<1>1. IsFiniteSet(A) /\ Cardinality(A) <= Cardinality(S) /\ (Cardinality(S) = Cardinality(A) => S = A)
  BY FS_Subset
<1>2. Cardinality(A) \in Nat /\ Cardinality(S) \in Nat
  BY <1>1, FS_CardinalityType
<1>3. m \in S => A # S
  OBVIOUS
<1> QED BY <1>1, <1>2, <1>3, MailCountsAlike DEF Above

LEMMA AboveFalls ==
  ASSUME NEW S \in SUBSET Nat, IsFiniteSet(S), NEW a \in S, NEW b \in Nat, b < a
  PROVE  Above(S, a) < Above(S, b)
<1> DEFINE A == {n \in S : n > a}
           B == {n \in S : n > b}
<1>1. IsFiniteSet(B)
  BY FS_Subset
<1>2. A \subseteq B /\ a \in B /\ a \notin A
  <2>1. a \in Nat /\ ~(a > a) /\ a > b
    OBVIOUS
  <2>2. \A n \in Nat : n > a => n > b
    BY <2>1
  <2> QED BY <2>1, <2>2
<1>3. Cardinality(A) <= Cardinality(B) /\ (Cardinality(B) = Cardinality(A) => B = A) /\ IsFiniteSet(A)
  BY <1>1, <1>2, FS_Subset
<1>4. Cardinality(A) \in Nat /\ Cardinality(B) \in Nat
  BY <1>1, <1>3, FS_CardinalityType
<1> QED BY <1>2, <1>3, <1>4, MailCountsAlike DEF Above

(* Every place of a listing is taken.                                      *)
LEMMA EveryRank ==
  ASSUME NEW S \in SUBSET Nat, IsFiniteSet(S), NEW i \in 1 .. Cardinality(S)
  PROVE  \E m \in S : Above(S, m) = i - 1
<1> DEFINE f == [m \in S |-> Above(S, m) + 1]
           T == 1 .. Cardinality(S)
<1>1. Cardinality(S) \in Nat
  BY FS_CardinalityType
<1>2. IsFiniteSet(T) /\ Cardinality(T) = Cardinality(S)
  BY <1>1, FS_Interval
<1>3. f \in [S -> T]
  <2> SUFFICES ASSUME NEW m \in S PROVE Above(S, m) + 1 \in T
    OBVIOUS
  <2> QED BY <1>1, AboveCounts
<1>4. ASSUME NEW a \in S, NEW b \in S, f[a] = f[b] PROVE a = b
  <2>1. Above(S, a) \in Nat /\ Above(S, b) \in Nat
    BY AboveCounts
  <2>2. Above(S, a) = Above(S, b)
    BY <1>4, <2>1
  <2>3. ~(a < b) /\ ~(b < a)
    BY <2>1, <2>2, AboveFalls
  <2> QED BY <2>3
<1>5. f \in Injection(S, T)
  BY <1>3, <1>4 DEF Injection, IsInjective
<1>6. f \in Surjection(S, T)
  BY <1>2, <1>5, FS_Injection
<1>7. PICK m \in S : f[m] = i
  BY <1>6 DEF Surjection
<1> QED BY <1>7, AboveCounts

(* A sorted listing has each message at its place, newest first.           *)
LEMMA SortedRanks ==
  ASSUME NEW S \in SUBSET Nat, IsFiniteSet(S)
  PROVE  /\ Reading!Sorted(S) \in Seq(S)
         /\ Len(Reading!Sorted(S)) = Cardinality(S) /\ Cardinality(S) \in Nat
         /\ \A i \in 1 .. Cardinality(S) :
              Reading!Sorted(S)[i] \in S /\ Above(S, Reading!Sorted(S)[i]) = i - 1
<1>1. Cardinality(S) \in Nat
  BY FS_CardinalityType
<1>2. ASSUME NEW i \in 1 .. Cardinality(S)
      PROVE  Reading!Sorted(S)[i] \in S /\ Above(S, Reading!Sorted(S)[i]) = i - 1
  <2>1. Reading!Sorted(S)[i] = CHOOSE m \in S : Above(S, m) = i - 1
    BY MailCountsAlike DEF Reading!Sorted, Above
  <2> QED BY <2>1, EveryRank
<1>3. Reading!Sorted(S) = [i \in 1 .. Cardinality(S) |-> Reading!Sorted(S)[i]]
  <2> DEFINE d == Reading!Cardinality(S)
  <2>1. d = Cardinality(S)
    BY MailCountsAlike
  <2> DEFINE at(i) == CHOOSE m \in S : Reading!Cardinality({n \in S : n > m}) = i - 1
  <2>2. Reading!Sorted(S) = [i \in 1 .. d |-> at(i)]
    BY DEF Reading!Sorted
  <2> HIDE DEF at, d
  <2>3. Reading!Sorted(S) = [i \in 1 .. d |-> Reading!Sorted(S)[i]]
    BY <2>2
  <2> QED BY <2>1, <2>3
<1>4. Reading!Sorted(S) \in [1 .. Cardinality(S) -> S]
  BY <1>2, <1>3
<1> HIDE DEF Reading!Sorted
<1>5. Reading!Sorted(S) \in Seq(S) /\ Len(Reading!Sorted(S)) = Cardinality(S)
  BY <1>1, <1>4
<1> QED BY <1>1, <1>2, <1>5

LEMMA SortedOrdered ==
  ASSUME NEW S \in SUBSET Nat, IsFiniteSet(S)
  PROVE  Descending(Reading!Sorted(S)) /\ Reading!Ids(Reading!Sorted(S)) = S
<1>1. /\ Reading!Sorted(S) \in Seq(S) /\ Cardinality(S) \in Nat
      /\ DOMAIN Reading!Sorted(S) = 1 .. Cardinality(S)
      /\ \A i \in 1 .. Cardinality(S) :
           Reading!Sorted(S)[i] \in S /\ Above(S, Reading!Sorted(S)[i]) = i - 1
  BY SortedRanks
<1>2. ASSUME NEW i \in 1 .. Cardinality(S), NEW j \in 1 .. Cardinality(S), i < j
      PROVE  Reading!Sorted(S)[i] > Reading!Sorted(S)[j]
  <2>1. /\ Reading!Sorted(S)[i] \in S /\ Reading!Sorted(S)[j] \in S
        /\ Reading!Sorted(S)[i] \in Nat /\ Reading!Sorted(S)[j] \in Nat
    BY <1>1
  <2>2. Above(S, Reading!Sorted(S)[i]) < Above(S, Reading!Sorted(S)[j])
    BY <1>1, <1>2
  <2>3. Reading!Sorted(S)[i] # Reading!Sorted(S)[j] /\ ~(Reading!Sorted(S)[i] < Reading!Sorted(S)[j])
    <3>1. Above(S, Reading!Sorted(S)[i]) \in Nat /\ Above(S, Reading!Sorted(S)[j]) \in Nat
      BY <2>1, AboveCounts
    <3>2. Reading!Sorted(S)[i] < Reading!Sorted(S)[j] =>
            Above(S, Reading!Sorted(S)[j]) < Above(S, Reading!Sorted(S)[i])
      BY <2>1, AboveFalls
    <3> QED BY <2>2, <3>1, <3>2
  <2> QED BY <2>1, <2>3
<1>3. ASSUME NEW m \in S PROVE \E i \in 1 .. Cardinality(S) : Reading!Sorted(S)[i] = m
  <2> DEFINE i == Above(S, m) + 1
  <2>0. m \in Nat
    OBVIOUS
  <2>6. Above(S, m) \in Nat /\ Above(S, m) < Cardinality(S)
    BY <2>0, AboveCounts
  <2>1. i \in 1 .. Cardinality(S) /\ i - 1 = Above(S, m)
    BY <1>1, <2>6
  <2> HIDE DEF i
  <2> DEFINE k == Reading!Sorted(S)[i]
  <2>2. k \in S /\ k \in Nat /\ Above(S, k) = Above(S, m)
    BY <1>1, <2>1
  <2> HIDE DEF k
  <2>3. k < m => Above(S, m) < Above(S, k)
    BY <2>2, AboveFalls
  <2>4. m < k => Above(S, k) < Above(S, m)
    BY <2>0, <2>2, AboveFalls
  <2>5. k = m
    BY <2>0, <2>2, <2>3, <2>4, <2>6
  <2> QED BY <2>1, <2>5 DEF k
<1> QED BY <1>1, <1>2, <1>3 DEF Descending, Reading!Ids

(* What a page holds.                                                      *)
LEMMA PageHolds ==
  ASSUME NEW S \in SUBSET Nat, IsFiniteSet(S), NEW offset \in Nat, NEW limit \in Nat
  PROVE  /\ Reading!Page(S, offset, limit) \in Seq(S)
         /\ Descending(Reading!Page(S, offset, limit))
         /\ Reading!Ids(Reading!Page(S, offset, limit)) =
              {m \in S : offset <= Above(S, m) /\ Above(S, m) < offset + limit}
<1> DEFINE P == Reading!Page(S, offset, limit)
           c == Cardinality(S)
           last == Reading!Least(offset + limit, c)
           s == Reading!Sorted(S)
<1>1. /\ s \in Seq(S) /\ Len(s) = c /\ c \in Nat /\ DOMAIN s = 1 .. c
      /\ \A i \in 1 .. c : s[i] \in S /\ Above(S, s[i]) = i - 1
  BY SortedRanks
<1>2. Descending(s) /\ Reading!Ids(s) = S
  BY SortedOrdered
<1> HIDE DEF s
<1>3. last \in Nat /\ last <= c /\ last <= offset + limit /\ (last = c \/ last = offset + limit)
  BY <1>1 DEF Reading!Least
<1> HIDE DEF last
<1>4. P = SubSeq(s, offset + 1, last)
  BY MailCountsAlike DEF Reading!Page, s, last
<1>5. P \in Seq(S) /\ \A i \in DOMAIN P : P[i] = s[offset + i] /\ offset + i \in 1 .. last /\ i \in Nat
  <2>1. CASE offset + 1 <= last
    <3>1. P = [i \in 1 .. (last - offset) |-> s[offset + i]]
      BY <1>1, <1>3, <1>4, <2>1
    <3>2. \A i \in 1 .. (last - offset) : offset + i \in 1 .. last /\ s[offset + i] \in S /\ i \in Nat
      BY <1>1, <1>3
    <3>3. P \in [1 .. (last - offset) -> S] /\ last - offset \in Nat
      BY <1>3, <2>1, <3>1, <3>2
    <3>4. P \in Seq(S)
      BY <3>3
    <3> QED BY <3>1, <3>2, <3>3, <3>4
  <2>2. CASE ~(offset + 1 <= last)
    BY <1>1, <1>3, <1>4, <2>2
  <2> QED BY <2>1, <2>2
<1>6. DOMAIN P = 1 .. (IF offset + 1 <= last THEN last - offset ELSE 0)
  BY <1>1, <1>3, <1>4
<1> HIDE DEF P
<1>7. ASSUME NEW i \in DOMAIN P, NEW j \in DOMAIN P, i < j PROVE P[i] > P[j]
  <2>1. P[i] = s[offset + i] /\ P[j] = s[offset + j] /\ offset + i < offset + j
    BY <1>5, <1>7
  <2>2. offset + i \in DOMAIN s /\ offset + j \in DOMAIN s
    BY <1>1, <1>3, <1>5
  <2> QED BY <1>2, <2>1, <2>2 DEF Descending
<1>8. ASSUME NEW m \in Reading!Ids(P)
      PROVE  m \in S /\ offset <= Above(S, m) /\ Above(S, m) < offset + limit
  <2>1. PICK i \in DOMAIN P : m = P[i]
    BY DEF Reading!Ids
  <2>2. m = s[offset + i] /\ offset + i \in 1 .. c /\ offset + i <= offset + limit /\ i \in Nat /\ i >= 1
    BY <1>1, <1>3, <1>5, <1>6, <2>1
  <2> QED BY <1>1, <2>2
<1>9. ASSUME NEW m \in S, offset <= Above(S, m), Above(S, m) < offset + limit
      PROVE  m \in Reading!Ids(P)
  <2>1. PICK k \in 1 .. c : m = s[k]
    BY <1>1, <1>2 DEF Reading!Ids
  <2>2. Above(S, m) = k - 1
    BY <1>1, <2>1
  <2>3. k - offset \in DOMAIN P
    BY <1>1, <1>3, <1>6, <1>9, <2>2
  <2>4. P[k - offset] = m
    BY <1>1, <1>5, <2>1, <2>3
  <2> QED BY <2>3, <2>4 DEF Reading!Ids
<1>10. Descending(P)
  BY <1>7 DEF Descending
<1> QED BY <1>5, <1>8, <1>9, <1>10 DEF P

-----------------------------------------------------------------------------
(* The fields of the list and of a read.                                   *)
ListFields == {"phase", "rows", "total", "pages", "window", "refreshing", "fromCache", "lost"}
ReadFields == {"scope", "append", "offset", "limit", "live", "answered", "rows", "filed", "total", "lost"}

Once(s) == \A i, j \in DOMAIN s : i < j => s[i] # s[j]
(* No message of the listing is missing between two of the rows.           *)
Unbroken(R, S) == \A m \in S, a, b \in R : a > m /\ m > b => m \in R
(* A page continues the rows: what is new on it is older than they are.    *)
Continues(P, R, S) ==
  /\ \A x \in P \ R, n \in R : x < n
  /\ \A m \in S, x \in P : (\A n \in R : m < n) /\ m > x => m \in P
  /\ R = {} => P = {}

ListShaped ==
  /\ list = [f \in ListFields |-> list[f]]
  /\ list.pages \in Nat /\ list.fromCache \in BOOLEAN /\ list.lost \in BOOLEAN
ReadShaped(q) ==
  /\ q = [f \in ReadFields |-> q[f]]
  /\ q.offset \in Nat /\ q.limit \in Nat
  /\ q.append \in BOOLEAN /\ q.live \in BOOLEAN /\ q.answered \in BOOLEAN /\ q.lost \in BOOLEAN

(* Mail arrives in the order of its numbers, sent mail stays out of the    *)
(* inbox, and copies on the device are of mail that arrived.               *)
ServerOK ==
  /\ onServer \subseteq AllMail /\ inbox \subseteq onServer /\ inbox \cap SentOnly = {}
  /\ \A m \in onServer, n \in AllMail \ onServer : m < n
  /\ \A d \in downloaded : d.id \in onServer
(* A page holds messages of its view, in order; without a skip when it was *)
(* read from the top.                                                      *)
AnswerOK(q) == q.answered =>
  /\ q.rows \in Seq(Nat) /\ Descending(q.rows) /\ Reading!Ids(q.rows) \subseteq onServer
  /\ q.scope # "all" => Reading!Ids(q.rows) \cap SentOnly = {}
  /\ ~q.lost => Reading!Ids(q.rows) \subseteq Reading!Listing(q.scope)
  /\ ~q.lost /\ ~q.append => Unbroken(Reading!Ids(q.rows), Reading!Listing(q.scope))
(* The live read is for the view shown, and a page to append continues the *)
(* rows it was asked for, as long as nothing left and it was not           *)
(* overtaken.                                                              *)
LiveOK(q) == q.live =>
  /\ q.scope = scope
  /\ q.append => q.offset = list.window /\ ~list.fromCache
  /\ q.append /\ q.answered /\ ~q.lost /\ ~list.lost =>
       Continues(Reading!Ids(q.rows), Reading!Ids(list.rows), Reading!Listing(scope))
ReadsOK == \A q \in listReads : ReadShaped(q) /\ AnswerOK(q) /\ LiveOK(q)
OneLive == \A p, q \in listReads : p.live /\ q.live => p = q
(* The list: a page is asked for where the rows end, and rows of one       *)
(* listing are in order and unbroken.                                      *)
ListOK ==
  /\ ListShaped
  /\ list.rows \in Seq(Nat)
  /\ list.fromCache => list.total = Len(list.rows)
  /\ ~list.fromCache =>
       /\ list.window = Len(list.rows) /\ Reading!Ids(list.rows) \subseteq onServer /\ Once(list.rows)
       /\ scope # "all" => Reading!Ids(list.rows) \cap SentOnly = {}
       /\ ~list.lost => /\ Reading!Ids(list.rows) \subseteq Reading!Listing(scope)
                        /\ Descending(list.rows) /\ Unbroken(Reading!Ids(list.rows), Reading!Listing(scope))
(* The inductive invariant of the list.                                    *)
MailInv == ServerOK /\ ReadsOK /\ OneLive /\ ListOK

(* What the server lists is finite.                                        *)
LEMMA ListedMail ==
  ASSUME ServerOK, NEW v
  PROVE  /\ Reading!Listing(v) \in SUBSET Nat /\ IsFiniteSet(Reading!Listing(v))
         /\ Reading!Listing(v) \subseteq onServer
<1>1. Reading!Listing(v) \subseteq onServer /\ onServer \subseteq AllMail
  BY DEF ServerOK, Reading!Listing
<1> QED BY <1>1, ArrivalOrder, FS_Subset

LEMMA BlankList ==
  /\ Reading!Blank = [f \in ListFields |-> Reading!Blank[f]]
  /\ Reading!Blank.pages = 1 /\ Reading!Blank.fromCache = FALSE
  /\ Reading!Blank.lost = FALSE /\ Reading!Blank.window = 0
  /\ Reading!Blank.rows = <<>> /\ Reading!Blank.rows \in Seq(Nat)
  /\ Reading!Ids(Reading!Blank.rows) = {} /\ Len(Reading!Blank.rows) = 0
BY DEF Reading!Blank, ListFields, Reading!Ids

LEMMA EmptyRowsOK ==
  ASSUME NEW S
  PROVE  Reading!Ids(<<>>) = {} /\ Once(<<>>) /\ Descending(<<>>) /\ Unbroken(Reading!Ids(<<>>), S)
BY DEF Reading!Ids, Once, Descending, Unbroken

(* Reads that start.                                                       *)
LEMMA NewRead ==
  ASSUME NEW v, NEW pages \in Nat, NEW append \in BOOLEAN, NEW offset \in Nat, NEW limit \in Nat
  PROVE  LET q == Reading!Read(v, pages, append, offset, limit)
         IN  /\ ReadShaped(q) /\ AnswerOK(q)
             /\ q.scope = v /\ q.append = append /\ q.offset = offset /\ ~q.answered
BY DEF Reading!Read, ReadShaped, AnswerOK, ReadFields

LEMMA NewFirstRead ==
  ASSUME NEW v, NEW pages \in Nat
  PROVE  LET q == Reading!FirstRead(v, pages)
         IN  /\ ReadShaped(q) /\ AnswerOK(q) /\ q.scope = v /\ ~q.append /\ ~q.answered
<1>1. pages * PageSize \in Nat
  BY ArrivalOrder
<1>2. Reading!Least(pages * PageSize, RequestCap) \in Nat
  BY <1>1, ArrivalOrder DEF Reading!Least
<1> DEFINE l == Reading!Least(pages * PageSize, RequestCap)
<1> HIDE DEF l
<1> DEFINE a == FALSE
<1>3. Reading!FirstRead(v, pages) = Reading!Read(v, pages, a, 0, l) /\ l \in Nat /\ a \in BOOLEAN /\ ~a /\ 0 \in Nat
  BY <1>2 DEF Reading!FirstRead, l
<1> HIDE DEF a
<1> DEFINE q == Reading!FirstRead(v, pages)
<1>4. ReadShaped(q) /\ AnswerOK(q) /\ q.scope = v /\ q.append = a /\ ~q.answered
  BY <1>3, NewRead
<1> QED BY <1>3, <1>4

(* A read that starts is the only live one.                                *)
LEMMA StartedRead ==
  ASSUME ReadsOK, NEW q, ReadShaped(q), AnswerOK(q), ~q.answered, Reading!StartRead(q),
         q.live => q.scope = scope' /\ (q.append => q.offset = list'.window /\ ~list'.fromCache),
         UNCHANGED <<onServer, inbox>>
  PROVE  ReadsOK' /\ OneLive'
<1>1. ASSUME NEW x \in listReads', x # q
      PROVE  ReadShaped(x) /\ AnswerOK(x) /\ ~x.live
  <2>1. PICK r \in listReads : x = [r EXCEPT !.live = FALSE]
    BY <1>1 DEF Reading!StartRead
  <2>2. ReadShaped(r) /\ AnswerOK(r)
    BY DEF ReadsOK
  <2>3. /\ x = [f \in ReadFields |-> x[f]]
        /\ x.live = FALSE /\ x.scope = r.scope /\ x.append = r.append /\ x.offset = r.offset
        /\ x.limit = r.limit /\ x.answered = r.answered /\ x.rows = r.rows /\ x.lost = r.lost
    BY <2>1, <2>2 DEF ReadShaped, ReadFields
  <2> QED BY <2>2, <2>3 DEF ReadShaped, AnswerOK
<1>2. \A x : AnswerOK(x) => AnswerOK(x)'
  BY DEF AnswerOK, Reading!Listing
<1>3. LiveOK(q)'
  BY DEF LiveOK
<1>4. \A x : ~x.live => LiveOK(x)'
  BY DEF LiveOK
<1>5. ReadsOK'
  BY <1>1, <1>2, <1>3, <1>4 DEF ReadsOK
<1>6. OneLive'
  BY <1>1 DEF OneLive
<1> QED BY <1>5, <1>6

-----------------------------------------------------------------------------
(* What opening the browser establishes.                                   *)
LEMMA MailBegins ==
  ASSUME Reading!Init PROVE MailInv
<1> USE DEF Reading!Init
<1>1. ServerOK
  BY ArrivalOrder DEF ServerOK
<1>2. ListOK
  <2>1. list = Reading!Blank
    OBVIOUS
  <2>2. Once(list.rows) /\ Descending(list.rows) /\ Unbroken(Reading!Ids(list.rows), Reading!Listing(scope))
    BY <2>1, BlankList, EmptyRowsOK
  <2>3. ListShaped
    <3>1. Reading!Blank.pages \in Nat /\ Reading!Blank.fromCache \in BOOLEAN /\ Reading!Blank.lost \in BOOLEAN
      BY DEF Reading!Blank
    <3> QED BY <2>1, <3>1, BlankList DEF ListShaped
  <2> QED BY <2>1, <2>2, <2>3, BlankList DEF ListOK
<1>3. listReads = {Reading!FirstRead("unified", 1)} /\ scope = "unified"
  OBVIOUS
<1>4. ReadsOK /\ OneLive
  BY <1>3, NewFirstRead DEF ReadsOK, OneLive, LiveOK
<1> QED BY <1>1, <1>2, <1>4 DEF MailInv

(* The newest message breaks no row of a listing it joins.                 *)
LEMMA NewestJoins ==
  ASSUME NEW S \in SUBSET Nat, NEW m \in Nat, NEW T, S \subseteq T, T \subseteq S \cup {m},
         NEW R \in SUBSET Nat, NEW P \in SUBSET Nat, \A n \in R \cup P : n < m
  PROVE  /\ Unbroken(R, S) => Unbroken(R, T)
         /\ Continues(P, R, S) => Continues(P, R, T)
<1>1. ASSUME Unbroken(R, S) PROVE Unbroken(R, T)
  BY <1>1 DEF Unbroken
<1>2. ASSUME Continues(P, R, S) PROVE Continues(P, R, T)
  <2>1. ASSUME NEW x \in T, NEW y \in P, \A n \in R : x < n, x > y
        PROVE  x \in P
    <3>1. CASE x \in S
      BY <1>2, <2>1, <3>1 DEF Continues
    <3>2. CASE x = m
      <4>1. R # {}
        BY <1>2, <2>1 DEF Continues
      <4>2. PICK n \in R : TRUE
        BY <4>1
      <4>3. n \in Nat /\ n < m /\ m < n
        BY <2>1, <3>2, <4>2
      <4> QED BY <4>3
    <3> QED BY <3>1, <3>2
  <2> QED BY <1>2, <2>1 DEF Continues
<1> QED BY <1>1, <1>2

(* A message arrives above all others.                                     *)
LEMMA DeliverKeeps ==
  ASSUME MailInv, NEW m \in AllMail, Reading!Deliver(m)
  PROVE  MailInv'
<1>1. /\ m \in Nat /\ \A n \in onServer : n < m /\ n \in Nat
      /\ onServer' = onServer \cup {m} /\ inbox \subseteq inbox' /\ inbox' \subseteq inbox \cup {m}
      /\ (m \in SentOnly => inbox' = inbox)
      /\ UNCHANGED <<scope, list, listReads, aside, command, downloaded>>
  BY ArrivalOrder DEF Reading!Deliver, MailInv, ServerOK
<1>2. ServerOK'
  <2>1. \A x \in onServer', n \in AllMail \ onServer' : x < n
    <3> SUFFICES ASSUME NEW x \in onServer', NEW n \in AllMail \ onServer' PROVE x < n
      OBVIOUS
    <3>1. m <= n /\ m # n /\ n \in Nat
      BY <1>1, ArrivalOrder DEF Reading!Deliver
    <3> QED BY <1>1, <3>1
  <2> QED BY <1>1, <2>1 DEF MailInv, ServerOK
<1>3. ASSUME NEW v
      PROVE  /\ Reading!Listing(v) \in SUBSET Nat /\ Reading!Listing(v) \subseteq onServer
             /\ Reading!Listing(v) \subseteq Reading!Listing(v)'
             /\ Reading!Listing(v)' \subseteq Reading!Listing(v) \cup {m}
  BY <1>1, ListedMail DEF MailInv, Reading!Listing
<1>4. ASSUME NEW v, NEW R \in SUBSET onServer, NEW P \in SUBSET onServer
      PROVE  /\ Unbroken(R, Reading!Listing(v)) => Unbroken(R, Reading!Listing(v)')
             /\ Continues(P, R, Reading!Listing(v)) => Continues(P, R, Reading!Listing(v)')
  <2>1. R \in SUBSET Nat /\ P \in SUBSET Nat /\ \A n \in R \cup P : n < m
    BY <1>1
  <2> QED BY <1>1, <1>3, <2>1, NewestJoins
<1>5. ASSUME NEW q \in listReads PROVE AnswerOK(q)' /\ LiveOK(q)'
  <2>1. ReadShaped(q) /\ AnswerOK(q) /\ LiveOK(q)
    BY DEF MailInv, ReadsOK
  <2>2. AnswerOK(q)'
    BY <1>1, <1>3, <1>4, <2>1 DEF AnswerOK
  <2>3. LiveOK(q)'
    BY <1>1, <1>4, <2>1 DEF LiveOK, AnswerOK, MailInv, ListOK
  <2> QED BY <2>2, <2>3
<1>6. ReadsOK' /\ OneLive'
  BY <1>1, <1>5 DEF MailInv, ReadsOK, OneLive
<1>7. ListOK'
  BY <1>1, <1>3, <1>4 DEF MailInv, ListOK, ListShaped
<1> QED BY <1>2, <1>6, <1>7 DEF MailInv

(* Where a message leaves, the pages read before are marked.               *)
LEMMA LeavesKeeps ==
  ASSUME MailInv, NEW m, Reading!Leaves(m), UNCHANGED <<onServer, scope, downloaded>>
  PROVE  MailInv'
<1> DEFINE b == list.lost \/ m \in inbox
<1>1. inbox' \subseteq inbox /\ (m \notin inbox => inbox' = inbox)
  BY DEF Reading!Leaves
<1>2. ServerOK'
  BY <1>1 DEF MailInv, ServerOK
<1>3. b \in BOOLEAN /\ (b <=> list.lost \/ m \in inbox)
  OBVIOUS
<1>4. list' = [list EXCEPT !.lost = b]
  BY DEF Reading!Leaves
<1> HIDE DEF b
<1>5. /\ list' = [f \in ListFields |-> list'[f]]
      /\ list'.lost = b /\ list'.rows = list.rows /\ list'.window = list.window
      /\ list'.total = list.total /\ list'.fromCache = list.fromCache /\ list'.pages = list.pages
  BY <1>4 DEF MailInv, ListOK, ListShaped, ListFields
<1>6. \A v : ~(m \in inbox) => Reading!Listing(v)' = Reading!Listing(v)
  BY <1>1 DEF Reading!Listing
<1>7. ListOK'
  BY <1>3, <1>5, <1>6 DEF MailInv, ListOK, ListShaped
<1> DEFINE Marked(q) == (q.lost \/ (q.answered /\ m \in inbox))
<1>11. /\ listReads' = {[q EXCEPT !.lost = Marked(q)] : q \in listReads}
       /\ \A q : Marked(q) \in BOOLEAN /\ (Marked(q) <=> (q.lost \/ (q.answered /\ m \in inbox)))
  BY DEF Reading!Leaves
<1> HIDE DEF Marked
<1>8. ASSUME NEW x \in listReads'
      PROVE  \E q \in listReads :
               /\ ReadShaped(x)
               /\ x.scope = q.scope /\ x.append = q.append /\ x.offset = q.offset
               /\ x.live = q.live /\ x.answered = q.answered /\ x.rows = q.rows
               /\ (x.lost <=> (q.lost \/ (q.answered /\ m \in inbox)))
               /\ x = [q EXCEPT !.lost = Marked(q)]
  <2>1. PICK q \in listReads : x = [q EXCEPT !.lost = Marked(q)]
    BY <1>11
  <2> DEFINE l == Marked(q)
  <2>2. x = [q EXCEPT !.lost = l] /\ l \in BOOLEAN /\ (l <=> (q.lost \/ (q.answered /\ m \in inbox)))
    BY <1>11, <2>1
  <2>3. ReadShaped(q)
    BY DEF MailInv, ReadsOK
  <2> HIDE DEF l
  <2>4. /\ x = [f \in ReadFields |-> x[f]] /\ x.lost = l
        /\ x.scope = q.scope /\ x.append = q.append /\ x.offset = q.offset /\ x.limit = q.limit
        /\ x.live = q.live /\ x.answered = q.answered /\ x.rows = q.rows
    BY <2>2, <2>3 DEF ReadShaped, ReadFields
  <2>5. ReadShaped(x)
    BY <2>2, <2>3, <2>4 DEF ReadShaped
  <2>6. x.lost <=> (q.lost \/ (q.answered /\ m \in inbox))
    BY <2>2, <2>4
  <2> QED BY <2>1, <2>4, <2>5, <2>6
<1>9. ReadsOK'
  <2> SUFFICES ASSUME NEW x \in listReads' PROVE ReadShaped(x) /\ AnswerOK(x)' /\ LiveOK(x)'
    BY DEF ReadsOK
  <2>1. PICK q \in listReads :
           /\ ReadShaped(x)
           /\ x.scope = q.scope /\ x.append = q.append /\ x.offset = q.offset
           /\ x.live = q.live /\ x.answered = q.answered /\ x.rows = q.rows
           /\ (x.lost <=> (q.lost \/ (q.answered /\ m \in inbox)))
    BY <1>8
  <2>2. ReadShaped(q) /\ AnswerOK(q) /\ LiveOK(q)
    BY DEF MailInv, ReadsOK
  <2>3. AnswerOK(x)'
    BY <1>6, <2>1, <2>2 DEF AnswerOK
  <2>4. LiveOK(x)'
    BY <1>3, <1>5, <1>6, <2>1, <2>2 DEF LiveOK
  <2> QED BY <2>1, <2>3, <2>4
<1>10. OneLive'
  <2> SUFFICES ASSUME NEW x \in listReads', NEW y \in listReads', x.live, y.live PROVE x = y
    BY DEF OneLive
  <2>1. PICK q \in listReads : x.live = q.live /\ x = [q EXCEPT !.lost = Marked(q)]
    BY <1>8
  <2>2. PICK r \in listReads : y.live = r.live /\ y = [r EXCEPT !.lost = Marked(r)]
    BY <1>8
  <2>3. q = r
    BY <2>1, <2>2 DEF MailInv, OneLive
  <2> QED BY <2>1, <2>2, <2>3
<1> QED BY <1>2, <1>7, <1>9, <1>10 DEF MailInv

-----------------------------------------------------------------------------
(* Rows shown once each are as many as their numbers.                      *)
LEMMA OnceCounts ==
  ASSUME NEW s \in Seq(Nat), Once(s)
  PROVE  IsFiniteSet(Reading!Ids(s)) /\ Cardinality(Reading!Ids(s)) = Len(s)
<1> DEFINE f == [i \in 1 .. Len(s) |-> s[i]]
<1>1. Len(s) \in Nat /\ DOMAIN s = 1 .. Len(s)
  OBVIOUS
<1>2. f \in [1 .. Len(s) -> Reading!Ids(s)]
  BY <1>1 DEF Reading!Ids
<1>3. ASSUME NEW i \in 1 .. Len(s), NEW j \in 1 .. Len(s), f[i] = f[j] PROVE i = j
  <2>1. i \in Nat /\ j \in Nat /\ s[i] = s[j]
    BY <1>3
  <2>2. ~(i < j) /\ ~(j < i)
    BY <1>1, <2>1 DEF Once
  <2> QED BY <2>1, <2>2
<1>4. f \in Bijection(1 .. Len(s), Reading!Ids(s))
  <2>1. f \in Injection(1 .. Len(s), Reading!Ids(s))
    BY <1>2, <1>3 DEF Injection, IsInjective
  <2>2. \A y \in Reading!Ids(s) : \E i \in 1 .. Len(s) : f[i] = y
    BY <1>1 DEF Reading!Ids
  <2> QED BY <1>2, <2>1, <2>2 DEF Bijection, Surjection
<1>5. IsFiniteSet(1 .. Len(s)) /\ Cardinality(1 .. Len(s)) = Len(s)
  BY <1>1, FS_Interval
<1>6. ExistsBijection(1 .. Len(s), Reading!Ids(s))
  BY <1>4 DEF ExistsBijection
<1> HIDE DEF f
<1> QED BY <1>5, <1>6, FS_Bijection

(* A page that is not overtaken continues the rows it was asked for.       *)
LEMMA PageContinues ==
  ASSUME NEW S \in SUBSET Nat, IsFiniteSet(S), NEW s \in Seq(Nat), NEW limit \in Nat,
         Reading!Ids(s) \subseteq S, Descending(s), Once(s), Unbroken(Reading!Ids(s), S),
         ~(Reading!Cardinality({m \in S : \A n \in Reading!Ids(s) : m > n}) > Len(s))
  PROVE  Continues(Reading!Ids(Reading!Page(S, Len(s), limit)), Reading!Ids(s), S)
<1> DEFINE R == Reading!Ids(s)
           P == Reading!Ids(Reading!Page(S, Len(s), limit))
           T == {m \in S : \A n \in R : m > n}
<1>1. Len(s) \in Nat /\ IsFiniteSet(R) /\ Cardinality(R) = Len(s)
  BY OnceCounts
<1>2. P = {m \in S : Len(s) <= Above(S, m) /\ Above(S, m) < Len(s) + limit}
  BY <1>1, PageHolds
<1>3. IsFiniteSet(T) /\ Cardinality(T) \in Nat /\ Cardinality(T) <= Len(s)
  <2>1. IsFiniteSet(T)
    BY FS_Subset
  <2>2. Cardinality(T) \in Nat
    BY <2>1, FS_CardinalityType
  <2>3. ~(Cardinality(T) > Len(s))
    BY MailCountsAlike
  <2> QED BY <1>1, <2>1, <2>2, <2>3
<1>4. ASSUME NEW m \in T PROVE Above(S, m) < Cardinality(T)
  <2> DEFINE A == {n \in S : n > m}
  <2>1. A \subseteq T /\ m \notin A
    <3>1. ASSUME NEW n \in A, NEW k \in R PROVE n > k
      <4>1. n \in Nat /\ m \in Nat /\ k \in Nat /\ n > m /\ m > k
        OBVIOUS
      <4> QED BY <4>1
    <3>2. m \notin A
      <4>1. m \in Nat /\ ~(m > m)
        OBVIOUS
      <4> QED BY <4>1
    <3>3. A \subseteq S
      OBVIOUS
    <3> QED BY <3>1, <3>2, <3>3
  <2>2. IsFiniteSet(A) /\ Cardinality(A) <= Cardinality(T) /\ (Cardinality(T) = Cardinality(A) => T = A)
    BY <1>3, <2>1, FS_Subset
  <2>3. Cardinality(A) \in Nat
    BY <2>2, FS_CardinalityType
  <2> QED BY <1>3, <2>1, <2>2, <2>3, MailCountsAlike DEF Above
<1> HIDE DEF R, P, T
<1>5. R \subseteq S /\ R \in SUBSET Nat /\ P \subseteq S
  BY <1>2 DEF R
<1>6. \A m \in S : m \in T <=> \A n \in R : m > n
  BY DEF T
<1>7. ASSUME NEW x \in P \ R, NEW n \in R PROVE x < n
  <2>1. x \in Nat /\ n \in Nat /\ x # n /\ x \in S
    BY <1>5
  <2>2. SUFFICES ASSUME x > n PROVE FALSE
    BY <2>1
  <2>3. \A a \in R : x > a
    <3> SUFFICES ASSUME NEW a \in R PROVE x > a
      OBVIOUS
    <3>1. a \in Nat /\ a # x
      BY <1>5
    <3>2. ~(a > x)
      BY <2>1, <2>2 DEF Unbroken, R
    <3> QED BY <2>1, <3>1, <3>2
  <2>4. Above(S, x) < Cardinality(T)
    BY <1>4, <1>6, <2>1, <2>3
  <2>5. Len(s) <= Above(S, x) /\ Above(S, x) \in Nat
    BY <1>2, <2>1, AboveCounts
  <2> QED BY <1>1, <1>3, <2>4, <2>5
<1>8. ASSUME NEW m \in S, NEW x \in P, \A n \in R : m < n, m > x PROVE m \in P
  <2>1. m \in Nat /\ x \in S /\ x \in Nat
    BY <1>5
  <2>2. Above(S, m) < Above(S, x) /\ Above(S, m) \in Nat /\ Above(S, x) \in Nat
    BY <1>8, <2>1, AboveFalls, AboveCounts
  <2>3. Len(s) <= Above(S, m)
    <3> DEFINE A == {n \in S : n > m}
    <3>1. R \subseteq A
      BY <1>5, <1>8
    <3>2. IsFiniteSet(A)
      BY FS_Subset
    <3>3. Cardinality(R) <= Cardinality(A)
      BY <3>1, <3>2, FS_Subset
    <3> QED BY <1>1, <3>3, MailCountsAlike DEF Above, R
  <2>4. Above(S, x) < Len(s) + limit
    BY <1>2
  <2>5. Above(S, m) < Len(s) + limit
    BY <1>1, <2>2, <2>4
  <2> QED BY <1>2, <2>3, <2>5
<1>9. R = {} => P = {}
  <2> SUFFICES ASSUME R = {}, NEW x \in P PROVE FALSE
    OBVIOUS
  <2>1. x \in S /\ x \in Nat /\ x \in T
    BY <1>5, <1>6
  <2>2. Above(S, x) < Cardinality(T) /\ Len(s) <= Above(S, x) /\ Above(S, x) \in Nat
    BY <1>2, <1>4, <2>1, AboveCounts
  <2> QED BY <1>1, <1>3, <2>2
<1>10. Continues(P, R, S)
  BY <1>7, <1>8, <1>9 DEF Continues
<1> QED BY <1>10 DEF P, R

(* What is shown once a page is appended.                                  *)
LEMMA AppendedRows ==
  ASSUME NEW s \in Seq(Nat), NEW t \in Seq(Nat), Once(s)
  PROVE  /\ Reading!Appended(s, t) \in Seq(Nat)
         /\ Reading!Ids(Reading!Appended(s, t)) = Reading!Ids(s) \cup Reading!Ids(t)
         /\ Once(Reading!Appended(s, t))
         /\ Descending(s) /\ (\A x \in Reading!Ids(t) \ Reading!Ids(s), n \in Reading!Ids(s) : x < n) =>
              Descending(Reading!Appended(s, t))
<1> DEFINE N == Reading!Ids(t) \ Reading!Ids(s)
           u == Reading!Sorted(N)
           z == Reading!Appended(s, t)
<1>1. IsFiniteSet(N) /\ N \in SUBSET Nat
  <2>1. IsFiniteSet(1 .. Len(t)) /\ DOMAIN t = 1 .. Len(t) /\ Len(t) \in Nat
    BY FS_Interval
  <2> DEFINE f == [i \in 1 .. Len(t) |-> t[i]]
  <2>2. f \in Surjection(1 .. Len(t), Reading!Ids(t))
    BY <2>1 DEF Surjection, Reading!Ids
  <2>3. IsFiniteSet(Reading!Ids(t))
    BY <2>1, <2>2, FS_Surjection
  <2>4. IsFiniteSet(N)
    BY <2>3, FS_Subset
  <2>5. Reading!Ids(t) \subseteq Nat
    BY DEF Reading!Ids
  <2> QED BY <2>4, <2>5
<1>2. u \in Seq(N) /\ Descending(u) /\ Reading!Ids(u) = N
  BY <1>1, SortedRanks, SortedOrdered
<1> HIDE DEF u
<1>3. z = s \o u /\ u \in Seq(Nat)
  <2>1. u \in Seq(Nat)
    BY <1>1, <1>2
  <2> QED BY <2>1 DEF Reading!Appended, u
<1>4. /\ z \in Seq(Nat) /\ Len(s) \in Nat /\ Len(u) \in Nat
      /\ DOMAIN s = 1 .. Len(s) /\ DOMAIN u = 1 .. Len(u) /\ DOMAIN z = 1 .. (Len(s) + Len(u))
      /\ \A i \in 1 .. Len(s) : z[i] = s[i]
      /\ \A i \in 1 .. Len(u) : z[Len(s) + i] = u[i]
  BY <1>3
<1>13. \A i \in DOMAIN z : z[i] \in Nat
  BY <1>4
<1> HIDE DEF z, N
<1>5. \A i \in DOMAIN z : (i \in DOMAIN s /\ z[i] = s[i]) \/
                          (i - Len(s) \in DOMAIN u /\ z[i] = u[i - Len(s)] /\ i > Len(s))
  <2> SUFFICES ASSUME NEW i \in DOMAIN z, i \notin DOMAIN s
               PROVE  i - Len(s) \in DOMAIN u /\ z[i] = u[i - Len(s)] /\ i > Len(s)
    BY <1>4
  <2>1. i - Len(s) \in 1 .. Len(u) /\ Len(s) + (i - Len(s)) = i /\ i > Len(s)
    BY <1>4
  <2> QED BY <1>4, <2>1
<1>6. Reading!Ids(z) = Reading!Ids(s) \cup N
  <2>1. ASSUME NEW x \in Reading!Ids(z) PROVE x \in Reading!Ids(s) \cup N
    BY <1>2, <1>5 DEF Reading!Ids
  <2>2. ASSUME NEW x \in Reading!Ids(s) PROVE x \in Reading!Ids(z)
    <3>1. PICK i \in DOMAIN s : x = s[i]
      BY DEF Reading!Ids
    <3>2. i \in DOMAIN z /\ z[i] = x
      BY <1>4, <3>1
    <3> QED BY <3>2 DEF Reading!Ids
  <2>3. ASSUME NEW x \in N PROVE x \in Reading!Ids(z)
    <3>1. PICK i \in DOMAIN u : x = u[i]
      BY <1>2 DEF Reading!Ids
    <3>2. Len(s) + i \in DOMAIN z /\ z[Len(s) + i] = x
      BY <1>4, <3>1
    <3> QED BY <3>2 DEF Reading!Ids
  <2> QED BY <2>1, <2>2, <2>3
<1>7. \A i \in DOMAIN u : u[i] \in N
  BY <1>2 DEF Reading!Ids
<1>8. \A i \in DOMAIN s : s[i] \in Reading!Ids(s) /\ s[i] \notin N
  BY DEF Reading!Ids, N
<1>9. ASSUME NEW i \in DOMAIN z, NEW j \in DOMAIN z, i < j
      PROVE  /\ z[i] # z[j]
             /\ Descending(s) /\ (\A x \in N, n \in Reading!Ids(s) : x < n) => z[i] > z[j]
  <2>1. i \in Nat /\ j \in Nat
    BY <1>4
  <2>2. CASE j \in DOMAIN s
    <3>1. i \in DOMAIN s /\ z[i] = s[i] /\ z[j] = s[j]
      BY <1>4, <1>9, <2>1, <2>2
    <3> QED BY <1>9, <2>2, <3>1 DEF Once, Descending
  <2>3. CASE j \notin DOMAIN s
    <3>1. j - Len(s) \in DOMAIN u /\ z[j] = u[j - Len(s)] /\ z[j] \in N
      BY <1>5, <1>7, <2>3
    <3>2. CASE i \in DOMAIN s
      <4>1. z[i] \in Nat /\ z[j] \in Nat
        BY <1>13
      <4>2. z[i] = s[i]
        BY <1>4, <3>2
      <4>3. z[i] \in Reading!Ids(s) /\ z[i] \notin N
        BY <1>8, <3>2, <4>2
      <4>4. z[i] # z[j]
        BY <3>1, <4>3
      <4>5. (\A x \in N, n \in Reading!Ids(s) : x < n) => z[j] < z[i]
        BY <3>1, <4>3
      <4> QED BY <4>1, <4>4, <4>5
    <3>3. CASE i \notin DOMAIN s
      <4>1. i - Len(s) \in DOMAIN u /\ z[i] = u[i - Len(s)]
        BY <1>5, <3>3
      <4>2. i - Len(s) < j - Len(s)
        BY <1>4, <1>9, <2>1
      <4>3. u[i - Len(s)] > u[j - Len(s)]
        BY <1>2, <3>1, <4>1, <4>2 DEF Descending
      <4>4. z[i] > z[j]
        BY <3>1, <4>1, <4>3
      <4>5. z[i] \in Nat /\ z[j] \in Nat
        BY <1>13
      <4> QED BY <4>4, <4>5
    <3> QED BY <3>2, <3>3
  <2> QED BY <2>2, <2>3
<1>10. Reading!Ids(z) = Reading!Ids(s) \cup Reading!Ids(t)
  BY <1>6 DEF N
<1>11. Once(z)
  BY <1>9 DEF Once
<1>12. Descending(s) /\ (\A x \in N, n \in Reading!Ids(s) : x < n) => Descending(z)
  BY <1>9 DEF Descending
<1> QED BY <1>4, <1>10, <1>11, <1>12 DEF z, N

(* Rows and the page that continues them are unbroken together.            *)
LEMMA TogetherUnbroken ==
  ASSUME NEW S \in SUBSET Nat, NEW R \in SUBSET S, NEW P \in SUBSET S,
         Unbroken(R, S), Continues(P, R, S)
  PROVE  Unbroken(R \cup P, S)
<1> SUFFICES ASSUME NEW m \in S, NEW a \in R \cup P, NEW b \in R \cup P, a > m, m > b, m \notin R
             PROVE  m \in P
  BY DEF Unbroken
<1>1. m \in Nat /\ a \in Nat /\ b \in Nat
  OBVIOUS
<1>2. ASSUME NEW n \in R PROVE m < n
  <2>1. n \in Nat /\ n # m
    OBVIOUS
  <2>2. ~(n < m)
    <3> SUFFICES ASSUME n < m PROVE FALSE
      OBVIOUS
    <3>1. a \notin R
      BY <1>1, <2>1 DEF Unbroken
    <3>2. a < n
      BY <3>1 DEF Continues
    <3> QED BY <1>1, <2>1, <3>2
  <2> QED BY <1>1, <2>1, <2>2
<1>3. b \notin R
  BY <1>1, <1>2
<1> QED BY <1>2, <1>3 DEF Continues

-----------------------------------------------------------------------------
(* A page is cut from the listing by the places of its messages, so it is  *)
(* unbroken; if no more messages arrived than the rows it continues, it    *)
(* starts no higher than they end.                                         *)
LEMMA SearchKeeps ==
  ASSUME MailInv, NEW q \in listReads, Reading!Search(q)
  PROVE  MailInv'
<1> DEFINE S == Reading!Listing(q.scope)
           over == Reading!Overtaken(q)
           page == Reading!Page(S, q.offset, q.limit)
           x == [q EXCEPT !.answered = TRUE, !.total = Reading!Cardinality(S), !.lost = over,
                          !.rows = page, !.filed = inbox \cap Reading!Ids(page)]
<1>1. /\ listReads' = (listReads \ {q}) \cup {x} /\ ~q.answered
      /\ UNCHANGED <<onServer, inbox, scope, list, aside, command, downloaded>>
  BY DEF Reading!Search
<1>2. ReadShaped(q) /\ LiveOK(q) /\ ServerOK /\ ListOK
  BY DEF MailInv, ReadsOK
<1>3. S \in SUBSET Nat /\ IsFiniteSet(S) /\ S \subseteq onServer
  BY <1>2, ListedMail
<1>4. over \in BOOLEAN
  BY <1>2 DEF Reading!Overtaken, ReadShaped
<1>5. /\ page \in Seq(Nat) /\ Descending(page) /\ Reading!Ids(page) \subseteq S
      /\ Reading!Ids(page) = {m \in S : q.offset <= Above(S, m) /\ Above(S, m) < q.offset + q.limit}
  <2>1. q.offset \in Nat /\ q.limit \in Nat
    BY <1>2 DEF ReadShaped
  <2>2. page \in Seq(S)
    BY <1>3, <2>1, PageHolds
  <2>3. page \in Seq(Nat)
    BY <1>3, <2>2
  <2>4. /\ Descending(page)
        /\ Reading!Ids(page) = {m \in S : q.offset <= Above(S, m) /\ Above(S, m) < q.offset + q.limit}
    BY <1>3, <2>1, PageHolds
  <2>5. {m \in S : q.offset <= Above(S, m) /\ Above(S, m) < q.offset + q.limit} \subseteq S
    OBVIOUS
  <2> QED BY <2>3, <2>4, <2>5
<1>6. Unbroken(Reading!Ids(page), S)
  <2> SUFFICES ASSUME NEW m \in S, NEW a \in Reading!Ids(page), NEW b \in Reading!Ids(page), a > m, m > b
               PROVE  m \in Reading!Ids(page)
    BY DEF Unbroken
  <2>1. a \in S /\ b \in S /\ a \in Nat /\ b \in Nat /\ m \in Nat
    BY <1>3, <1>5
  <2>2. Above(S, a) < Above(S, m) /\ Above(S, m) < Above(S, b)
    BY <1>3, <2>1, AboveFalls
  <2>3. Above(S, a) \in Nat /\ Above(S, m) \in Nat /\ Above(S, b) \in Nat
    BY <1>3, <2>1, AboveCounts
  <2>4. q.offset <= Above(S, a) /\ Above(S, b) < q.offset + q.limit
    BY <1>5
  <2>5. q.offset \in Nat /\ q.limit \in Nat
    BY <1>2 DEF ReadShaped
  <2>6. q.offset <= Above(S, m) /\ Above(S, m) < q.offset + q.limit
    BY <2>2, <2>3, <2>4, <2>5
  <2> QED BY <1>5, <2>6
<1>7. q.append /\ ~over /\ ~list.lost /\ q.live =>
        Continues(Reading!Ids(page), Reading!Ids(list.rows), Reading!Listing(scope))
  <2> SUFFICES ASSUME q.append, ~over, ~list.lost, q.live
               PROVE  Continues(Reading!Ids(page), Reading!Ids(list.rows), S)
    BY <1>2 DEF LiveOK
  <2>1. q.scope = scope /\ q.offset = Len(list.rows) /\ ~list.fromCache
    BY <1>2 DEF LiveOK, ListOK
  <2>2. /\ list.rows \in Seq(Nat) /\ Reading!Ids(list.rows) \subseteq S /\ Descending(list.rows)
        /\ Once(list.rows) /\ Unbroken(Reading!Ids(list.rows), S)
    BY <1>2, <2>1 DEF ListOK
  <2>3. ~(Reading!Cardinality({m \in S : \A n \in Reading!Ids(list.rows) : m > n}) > Len(list.rows))
    BY <2>1 DEF Reading!Overtaken
  <2>4. q.limit \in Nat
    BY <1>2 DEF ReadShaped
  <2> QED BY <1>3, <2>1, <2>2, <2>3, <2>4, PageContinues
<1> HIDE DEF over, page
<1>8. /\ x = [f \in ReadFields |-> x[f]]
      /\ x.answered = TRUE /\ x.lost = over /\ x.rows = page
      /\ x.scope = q.scope /\ x.append = q.append /\ x.offset = q.offset
      /\ x.limit = q.limit /\ x.live = q.live
  BY <1>2 DEF ReadShaped, ReadFields
<1> HIDE DEF x
<1>9. ReadShaped(x)
  BY <1>2, <1>4, <1>8 DEF ReadShaped
<1>10. AnswerOK(x)
  <2>1. x.scope # "all" => Reading!Ids(page) \cap SentOnly = {}
    BY <1>2, <1>5, <1>8 DEF Reading!Listing, ServerOK
  <2> QED BY <1>3, <1>5, <1>6, <1>8, <2>1 DEF AnswerOK
<1>11. LiveOK(x)
  BY <1>2, <1>7, <1>8 DEF LiveOK
<1>12. \A r : (AnswerOK(r) => AnswerOK(r)') /\ (LiveOK(r) => LiveOK(r)')
  BY <1>1 DEF AnswerOK, LiveOK, Reading!Listing
<1>13. ReadsOK'
  BY <1>1, <1>9, <1>10, <1>11, <1>12 DEF MailInv, ReadsOK
<1>14. OneLive'
  BY <1>1, <1>8 DEF MailInv, OneLive
<1>15. ServerOK' /\ ListOK'
  BY <1>1, <1>2 DEF ServerOK, ListOK, ListShaped, Reading!Listing
<1> QED BY <1>13, <1>14, <1>15 DEF MailInv

(* A list whose rows, window and marks stay as they are.                   *)
LEMMA SameRows ==
  ASSUME ListOK, ListShaped',
         list'.rows = list.rows, list'.total = list.total, list'.window = list.window,
         list'.fromCache = list.fromCache, list'.lost = list.lost,
         UNCHANGED <<onServer, inbox, scope>>
  PROVE  ListOK'
BY DEF ListOK, Reading!Listing

(* An empty list is in order.                                              *)
LEMMA FreshList ==
  ASSUME ListShaped', list'.rows = <<>>, list'.window = 0, ~list'.fromCache
  PROVE  ListOK'
<1>1. /\ Reading!Ids(list'.rows) = {} /\ Once(list'.rows) /\ Descending(list'.rows)
      /\ Unbroken(Reading!Ids(list'.rows), Reading!Listing(scope)')
  BY EmptyRowsOK
<1>2. list'.rows \in Seq(Nat) /\ Len(list'.rows) = 0
  OBVIOUS
<1> QED BY <1>1, <1>2 DEF ListOK

LEMMA ChangeScopeKeeps ==
  ASSUME MailInv, NEW v \in Reading!View, Reading!ChangeScope(v)
  PROVE  MailInv'
<1>1. /\ scope' = v /\ list' = Reading!Blank /\ Reading!StartRead(Reading!FirstRead(v, 1))
      /\ UNCHANGED <<onServer, inbox, aside, command, downloaded>>
  BY DEF Reading!ChangeScope
<1>2. ListShaped'
  <2>1. Reading!Blank.pages \in Nat /\ Reading!Blank.fromCache \in BOOLEAN /\ Reading!Blank.lost \in BOOLEAN
    BY DEF Reading!Blank
  <2> QED BY <1>1, <2>1, BlankList DEF ListShaped
<1>3. ListOK'
  BY <1>1, <1>2, BlankList, FreshList
<1>4. ReadsOK' /\ OneLive'
  <2> DEFINE q == Reading!FirstRead(v, 1)
  <2>1. ReadShaped(q) /\ AnswerOK(q) /\ q.scope = v /\ ~q.append /\ ~q.answered
    BY NewFirstRead
  <2> HIDE DEF q
  <2>2. Reading!StartRead(q) /\ ReadsOK
    BY <1>1 DEF q, MailInv
  <2> QED BY <1>1, <2>1, <2>2, StartedRead
<1>5. ServerOK'
  BY <1>1 DEF MailInv, ServerOK
<1> QED BY <1>3, <1>4, <1>5 DEF MailInv

LEMMA ReloadKeeps ==
  ASSUME MailInv, Reading!Reload
  PROVE  MailInv'
<1>1. /\ Reading!StartRead(Reading!FirstRead(scope, list.pages)) /\ scope' = scope
      /\ UNCHANGED <<onServer, inbox, scope, aside, command, downloaded>>
  BY DEF Reading!Reload
<1>2. ListOK /\ ListShaped
  BY DEF MailInv, ListOK
<1>3. ListOK'
  <2>1. CASE list.rows = <<>>
    <3> DEFINE k == list.pages
    <3>1. k \in Nat
      BY <1>2 DEF ListShaped
    <3>2. list' = [Reading!Blank EXCEPT !.pages = k]
      BY <2>1 DEF Reading!Reload
    <3> HIDE DEF k
    <3>3. /\ list' = [f \in ListFields |-> list'[f]]
          /\ list'.pages = k /\ list'.rows = Reading!Blank.rows /\ list'.window = Reading!Blank.window
          /\ list'.fromCache = Reading!Blank.fromCache /\ list'.lost = Reading!Blank.lost
      BY <3>2, BlankList DEF ListFields
    <3>4. Reading!Blank.fromCache \in BOOLEAN /\ Reading!Blank.lost \in BOOLEAN
      BY DEF Reading!Blank
    <3>5. ListShaped'
      BY <3>1, <3>3, <3>4 DEF ListShaped
    <3> QED BY <3>3, <3>5, BlankList, FreshList
  <2>2. CASE list.rows # <<>>
    <3>1. list' = [list EXCEPT !.refreshing = TRUE]
      BY <2>2 DEF Reading!Reload
    <3>2. /\ list' = [f \in ListFields |-> list'[f]]
          /\ list'.pages = list.pages /\ list'.rows = list.rows /\ list'.window = list.window
          /\ list'.total = list.total /\ list'.fromCache = list.fromCache /\ list'.lost = list.lost
      BY <1>2, <3>1 DEF ListShaped, ListFields
    <3>3. ListShaped'
      BY <1>2, <3>2 DEF ListShaped
    <3> QED BY <1>1, <1>2, <3>2, <3>3, SameRows
  <2> QED BY <2>1, <2>2
<1>4. ReadsOK' /\ OneLive'
  <2> DEFINE q == Reading!FirstRead(scope, list.pages)
  <2>1. ReadShaped(q) /\ AnswerOK(q) /\ q.scope = scope /\ ~q.append /\ ~q.answered
    BY <1>2, NewFirstRead DEF ListShaped
  <2>2. Reading!StartRead(q) /\ ReadsOK
    BY <1>1 DEF MailInv
  <2> HIDE DEF q
  <2> QED BY <1>1, <2>1, <2>2, StartedRead
<1>5. ServerOK'
  BY <1>1 DEF MailInv, ServerOK
<1> QED BY <1>3, <1>4, <1>5 DEF MailInv

LEMMA LoadMoreKeeps ==
  ASSUME MailInv, Reading!LoadMore
  PROVE  MailInv'
<1> DEFINE k == list.pages + 1
           q == IF Reading!WholeWindow(scope) THEN Reading!FirstRead(scope, k)
                ELSE Reading!Read(scope, k, TRUE, list.window, PageSize)
<1>1. /\ Reading!StartRead(q) /\ Len(list.rows) < list.total /\ list' = [list EXCEPT !.pages = k]
      /\ UNCHANGED <<onServer, inbox, scope, aside, command, downloaded>>
  BY DEF Reading!LoadMore, Reading!CanLoadMore
<1>2. ListOK /\ ListShaped /\ ReadsOK
  BY DEF MailInv, ListOK
<1>3. k \in Nat
  BY <1>2 DEF ListShaped
<1>4. ~list.fromCache
  <2>1. Len(list.rows) \in Nat
    BY <1>2 DEF ListOK
  <2> QED BY <1>1, <1>2, <2>1 DEF ListOK
<1>5. list.window \in Nat
  BY <1>2, <1>4 DEF ListOK
<1>6. /\ ReadShaped(q) /\ AnswerOK(q) /\ q.scope = scope /\ ~q.answered
      /\ q.append => q.offset = list.window
  <2>1. CASE Reading!WholeWindow(scope)
    BY <1>3, <2>1, NewFirstRead
  <2>2. CASE ~Reading!WholeWindow(scope)
    <3> DEFINE t == TRUE
    <3>1. t \in BOOLEAN /\ PageSize \in Nat /\ q = Reading!Read(scope, k, t, list.window, PageSize)
      BY <2>2, ArrivalOrder
    <3> HIDE DEF t, q, k
    <3>2. LET r == Reading!Read(scope, k, t, list.window, PageSize)
          IN  ReadShaped(r) /\ AnswerOK(r) /\ r.scope = scope /\ r.offset = list.window /\ ~r.answered
      BY <1>3, <1>5, <3>1, NewRead
    <3> QED BY <3>1, <3>2
  <2> QED BY <2>1, <2>2
<1> HIDE DEF q, k
<1>7. /\ list' = [f \in ListFields |-> list'[f]]
      /\ list'.pages = k /\ list'.rows = list.rows /\ list'.window = list.window
      /\ list'.total = list.total /\ list'.fromCache = list.fromCache /\ list'.lost = list.lost
  BY <1>1, <1>2 DEF ListShaped, ListFields
<1>8. ListShaped'
  BY <1>2, <1>3, <1>7 DEF ListShaped
<1>9. ListOK'
  BY <1>1, <1>2, <1>7, <1>8, SameRows
<1>10. ReadsOK' /\ OneLive'
  BY <1>1, <1>2, <1>4, <1>6, <1>7, StartedRead
<1>11. ServerOK'
  BY <1>1 DEF MailInv, ServerOK
<1> QED BY <1>9, <1>10, <1>11 DEF MailInv

-----------------------------------------------------------------------------
(* A read that goes leaves no live one beside what it painted.             *)
LEMMA LandedRead ==
  ASSUME ReadsOK, OneLive, NEW q \in listReads, listReads' = listReads \ {q},
         q.live \/ UNCHANGED list, UNCHANGED <<onServer, inbox, scope>>
  PROVE  ReadsOK' /\ OneLive'
<1>1. \A r : AnswerOK(r) => AnswerOK(r)'
  BY DEF AnswerOK, Reading!Listing
<1>2. ASSUME NEW r \in listReads' PROVE LiveOK(r)'
  <2>1. CASE q.live
    <3>1. ~r.live
      BY <2>1 DEF OneLive
    <3> QED BY <3>1 DEF LiveOK
  <2>2. CASE ~q.live
    <3>1. UNCHANGED list /\ LiveOK(r)
      BY <2>2 DEF ReadsOK
    <3> QED BY <3>1 DEF LiveOK, Reading!Listing
  <2> QED BY <2>1, <2>2
<1> QED BY <1>1, <1>2 DEF ReadsOK, OneLive

(* What an answer paints: a page in place of the rows, or below them.      *)
LEMMA LandKeeps ==
  ASSUME MailInv, NEW q \in listReads, Reading!Land(q)
  PROVE  MailInv'
<1> DEFINE rows == IF q.append THEN Reading!Appended(list.rows, q.rows) ELSE q.rows
           over == q.lost \/ (q.append /\ list.lost)
           no == FALSE
<1>1. /\ q.answered /\ listReads' = listReads \ {q}
      /\ downloaded' = {d \in downloaded : d.id \notin Reading!Ids(q.rows)} \cup
                       {[id |-> m, inbox |-> m \in q.filed] : m \in Reading!Ids(q.rows)}
      /\ q.live => list' = [list EXCEPT !.phase = "ready", !.rows = rows, !.total = q.total,
                                        !.window = Len(rows), !.refreshing = no,
                                        !.fromCache = no, !.lost = over]
      /\ ~q.live => UNCHANGED list
      /\ UNCHANGED <<onServer, inbox, scope, command>>
  BY DEF Reading!Land, Reading!WindowCovered
<1>2. /\ ReadShaped(q) /\ AnswerOK(q) /\ LiveOK(q) /\ ServerOK /\ ListOK /\ ListShaped
      /\ ReadsOK /\ OneLive
  BY DEF MailInv, ReadsOK, ListOK
<1>3. ReadsOK' /\ OneLive'
  BY <1>1, <1>2, LandedRead
<1>4. ServerOK'
  <2>1. \A d \in downloaded' : d.id \in onServer
    BY <1>1, <1>2 DEF ServerOK, AnswerOK
  <2> QED BY <1>1, <1>2, <2>1 DEF ServerOK
<1>5. CASE ~q.live
  <2>1. ListShaped' /\ list' = list
    BY <1>1, <1>2, <1>5 DEF ListShaped
  <2>2. ListOK'
    BY <1>1, <1>2, <2>1, SameRows
  <2> QED BY <1>3, <1>4, <2>2 DEF MailInv
<1>6. CASE q.live
  <2> DEFINE S == Reading!Listing(scope)
  <2>1. q.rows \in Seq(Nat) /\ Descending(q.rows) /\ Reading!Ids(q.rows) \subseteq onServer
    BY <1>1, <1>2 DEF AnswerOK
  <2>2. q.scope = scope /\ (scope # "all" => Reading!Ids(q.rows) \cap SentOnly = {})
    BY <1>1, <1>2, <1>6 DEF AnswerOK, LiveOK
  <2>3. S \in SUBSET Nat /\ \A n \in onServer : n \in Nat
    BY <1>2, ListedMail, ArrivalOrder DEF ServerOK
  <2>4. /\ rows \in Seq(Nat) /\ Reading!Ids(rows) \subseteq onServer /\ Once(rows)
        /\ scope # "all" => Reading!Ids(rows) \cap SentOnly = {}
        /\ ~over => Reading!Ids(rows) \subseteq S /\ Descending(rows) /\ Unbroken(Reading!Ids(rows), S)
    <3>1. CASE ~q.append
      <4>1. rows = q.rows
        BY <3>1
      <4>2. Once(q.rows)
        <5> SUFFICES ASSUME NEW i \in DOMAIN q.rows, NEW j \in DOMAIN q.rows, i < j
                     PROVE  q.rows[i] # q.rows[j]
          BY DEF Once
        <5>1. q.rows[i] \in Nat /\ q.rows[i] > q.rows[j]
          BY <2>1 DEF Descending
        <5> QED BY <5>1
      <4>3. ~q.lost => Reading!Ids(q.rows) \subseteq S /\ Unbroken(Reading!Ids(q.rows), S)
        BY <1>1, <1>2, <2>2, <3>1 DEF AnswerOK
      <4> QED BY <2>1, <2>2, <4>1, <4>2, <4>3
    <3>2. CASE q.append
      <4>1. rows = Reading!Appended(list.rows, q.rows) /\ ~list.fromCache
        BY <1>2, <1>6, <3>2 DEF LiveOK
      <4>2. /\ list.rows \in Seq(Nat) /\ Once(list.rows) /\ Reading!Ids(list.rows) \subseteq onServer
            /\ scope # "all" => Reading!Ids(list.rows) \cap SentOnly = {}
        BY <1>2, <4>1 DEF ListOK
      <4>3. /\ rows \in Seq(Nat) /\ Once(rows)
            /\ Reading!Ids(rows) = Reading!Ids(list.rows) \cup Reading!Ids(q.rows)
            /\ /\ Descending(list.rows)
               /\ \A x \in Reading!Ids(q.rows) \ Reading!Ids(list.rows),
                     n \in Reading!Ids(list.rows) : x < n
               => Descending(rows)
        BY <2>1, <4>1, <4>2, AppendedRows
      <4>4. ASSUME ~over
            PROVE  Reading!Ids(rows) \subseteq S /\ Descending(rows) /\ Unbroken(Reading!Ids(rows), S)
        <5>1. ~q.lost /\ ~list.lost
          BY <3>2, <4>4
        <5>2. Reading!Ids(q.rows) \subseteq S
          BY <1>1, <1>2, <2>2, <5>1 DEF AnswerOK
        <5>3. Reading!Ids(list.rows) \subseteq S /\ Descending(list.rows) /\ Unbroken(Reading!Ids(list.rows), S)
          BY <1>2, <4>1, <5>1 DEF ListOK
        <5>4. Continues(Reading!Ids(q.rows), Reading!Ids(list.rows), S)
          BY <1>1, <1>2, <1>6, <3>2, <5>1 DEF LiveOK
        <5>5. Descending(rows)
          BY <4>3, <5>3, <5>4 DEF Continues
        <5>6. Unbroken(Reading!Ids(list.rows) \cup Reading!Ids(q.rows), S)
          BY <2>3, <5>2, <5>3, <5>4, TogetherUnbroken
        <5> HIDE DEF rows, S
        <5> QED BY <4>3, <5>2, <5>3, <5>5, <5>6
      <4> HIDE DEF rows, over, S
      <4> QED BY <2>1, <2>2, <4>2, <4>3, <4>4
    <3> QED BY <3>1, <3>2
  <2>5. over \in BOOLEAN /\ no \in BOOLEAN /\ ~no
    BY <1>2 DEF ReadShaped, ListShaped
  <2> HIDE DEF rows, over, no
  <2>6. /\ list' = [f \in ListFields |-> list'[f]]
        /\ list'.pages = list.pages /\ list'.rows = rows /\ list'.window = Len(rows)
        /\ list'.fromCache = no /\ list'.lost = over
    BY <1>1, <1>2, <1>6 DEF ListShaped, ListFields
  <2>7. ListShaped'
    BY <1>2, <2>5, <2>6 DEF ListShaped
  <2>8. S' = S
    BY <1>1 DEF Reading!Listing
  <2>9. ListOK'
    BY <1>1, <2>4, <2>5, <2>6, <2>7, <2>8 DEF ListOK
  <2> QED BY <1>3, <1>4, <2>9 DEF MailInv
<1> QED BY <1>3, <1>4, <1>5, <1>6 DEF MailInv

LEMMA FailKeeps ==
  ASSUME MailInv, NEW q \in listReads, Reading!Fail(q)
  PROVE  MailInv'
<1>1. /\ q.live /\ listReads' = listReads \ {q}
      /\ UNCHANGED <<onServer, inbox, scope, aside, command, downloaded>>
  BY DEF Reading!Fail
<1>2. ServerOK /\ ListOK /\ ListShaped /\ ReadsOK /\ OneLive
  BY DEF MailInv, ListOK
<1>3. ReadsOK' /\ OneLive'
  BY <1>1, <1>2, LandedRead
<1>4. ServerOK'
  BY <1>1, <1>2 DEF ServerOK
<1>5. ListOK'
  <2>1. CASE list.pages = 1 /\ downloaded # {}
    <3> DEFINE S == Reading!InScope(scope)
               yes == TRUE
               rows == Reading!Sorted(S)
               n == Reading!Cardinality(S)
    <3>1. list' = [Reading!Blank EXCEPT !.phase = "ready", !.rows = rows, !.total = n, !.window = n,
                                !.fromCache = yes]
      BY <2>1 DEF Reading!Fail
    <3>2. S \in SUBSET Nat /\ IsFiniteSet(S)
      <4>1. S \subseteq AllMail
        BY <1>2 DEF Reading!InScope, ServerOK
      <4> QED BY <4>1, ArrivalOrder, FS_Subset
    <3>3. rows \in Seq(Nat) /\ Len(rows) = n
      <4>1. rows \in Seq(S) /\ Len(rows) = n
        BY <3>2, SortedRanks, MailCountsAlike
      <4> QED BY <3>2, <4>1
    <3>4. yes \in BOOLEAN /\ yes
      OBVIOUS
    <3> HIDE DEF S, yes, rows, n
    <3>5. /\ list' = [f \in ListFields |-> list'[f]]
          /\ list'.pages = Reading!Blank.pages /\ list'.rows = rows /\ list'.total = n
          /\ list'.fromCache = yes /\ list'.lost = Reading!Blank.lost
      BY <3>1, BlankList DEF ListFields
    <3>6. Reading!Blank.pages \in Nat /\ Reading!Blank.lost \in BOOLEAN
      BY DEF Reading!Blank
    <3>7. ListShaped'
      BY <3>4, <3>5, <3>6 DEF ListShaped
    <3> QED BY <3>3, <3>4, <3>5, <3>7 DEF ListOK
  <2>2. CASE ~(list.pages = 1 /\ downloaded # {})
    <3>1. list' = [list EXCEPT !.phase = IF list.rows = <<>> THEN "error" ELSE "ready",
                               !.refreshing = FALSE]
      BY <2>2 DEF Reading!Fail
    <3>2. /\ list' = [f \in ListFields |-> list'[f]]
          /\ list'.pages = list.pages /\ list'.rows = list.rows /\ list'.window = list.window
          /\ list'.total = list.total /\ list'.fromCache = list.fromCache /\ list'.lost = list.lost
      BY <1>2, <3>1 DEF ListShaped, ListFields
    <3>3. ListShaped'
      BY <1>2, <3>2 DEF ListShaped
    <3> QED BY <1>1, <1>2, <3>2, <3>3, SameRows
  <2> QED BY <2>1, <2>2
<1> QED BY <1>3, <1>4, <1>5 DEF MailInv

(* What leaves the list, its reads and the mailbox as they are.            *)
LEMMA RestKeeps ==
  ASSUME MailInv, UNCHANGED <<onServer, inbox, scope, list, listReads, downloaded>>
  PROVE  MailInv'
BY DEF MailInv, ServerOK, ReadsOK, OneLive, ListOK, ListShaped, AnswerOK, LiveOK,
   Reading!Listing

LEMMA MailStep ==
  ASSUME MailInv, [Reading!Next]_listVars
  PROVE  MailInv'
<1>1. CASE UNCHANGED listVars
  BY <1>1, RestKeeps DEF listVars
<1>2. ASSUME NEW m \in AllMail, Reading!Deliver(m) \/ Reading!LeavesElsewhere(m) PROVE MailInv'
  BY <1>2, DeliverKeeps, LeavesKeeps DEF Reading!LeavesElsewhere
<1>3. ASSUME NEW q \in listReads, Reading!Search(q) \/ Reading!Land(q) \/ Reading!Fail(q) PROVE MailInv'
  BY <1>3, SearchKeeps, LandKeeps, FailKeeps
<1>4. ASSUME NEW v \in Reading!View, Reading!ChangeScope(v) PROVE MailInv'
  BY <1>4, ChangeScopeKeeps
<1>5. CASE Reading!Reload
  BY <1>5, ReloadKeeps
<1>6. CASE Reading!LoadMore
  BY <1>6, LoadMoreKeeps
<1>7. ASSUME NEW m \in AllMail, NEW connected \in BOOLEAN, Reading!Archive(m, connected) PROVE MailInv'
  BY <1>7, RestKeeps DEF Reading!Archive
<1>8. ASSUME NEW m \in AllMail, Reading!ServerRuns(m) \/ Reading!NoAnswer(m) \/ Reading!Replay(m) PROVE MailInv'
  BY <1>8, RestKeeps, LeavesKeeps DEF Reading!ServerRuns, Reading!NoAnswer, Reading!Replay
<1>9. ASSUME NEW m \in AllMail, NEW confirmed \in BOOLEAN, Reading!Answered(m, confirmed) PROVE MailInv'
  BY <1>9, RestKeeps DEF Reading!Answered
<1> QED BY <1>1, <1>2, <1>3, <1>4, <1>5, <1>6, <1>7, <1>8, <1>9 DEF Reading!Next

LEMMA MailSkipsNothing ==
  ASSUME MailInv PROVE Reading!ListSkipsNothing
<1> SUFFICES ASSUME list.phase = "ready", ~list.fromCache
             PROVE  LET rows == list.rows
    IN  /\ \A i, j \in DOMAIN rows : i < j => rows[i] # rows[j]
        /\ scope # "all" => Reading!Ids(rows) \cap SentOnly = {}
        /\ ~list.lost =>
             /\ \A i, j \in DOMAIN rows : i < j => rows[i] > rows[j]
             /\ \A m \in Reading!Listing(scope), a, b \in Reading!Ids(rows) :
                  a > m /\ m > b => m \in Reading!Ids(rows)
  BY DEF Reading!ListSkipsNothing
<1> QED BY DEF MailInv, ListOK, Once, Descending, Unbroken

(* Whatever reads overtake each other, the list shows its view, each       *)
(* message once; in order and without a gap, while nothing left and no     *)
(* more arrived than it shows (useMessageList, PostgresSearch).            *)
THEOREM ListStaysUnbroken == SideSpec => []ListSkipsNothing
<1>1. SideInit => MailInv
    BY MailBegins DEF SideInit
<1>2. MailInv /\ [SideNext]_sideVars => MailInv'
    BY MailStep, ListAlone
<1>3. MailInv => ListSkipsNothing
    BY MailSkipsNothing DEF ListSkipsNothing
<1>4. QED BY <1>1, <1>2, <1>3, PTL DEF SideSpec

-----------------------------------------------------------------------------
(* Recovery.                                                               *)

RecoveryAssumption ==
    /\ NoGeneration \notin Generation
    /\ MaxEffects \in Nat \ {0}

-----------------------------------------------------------------------------
(* The strengthening.                                                      *)

Retired == used \cup {NoGeneration}

(* What holds of a database, the live one or the one of a bundle.          *)
RowsAreCaptured(d) ==
    /\ d.serviceState.generation \in Retired
    /\ d.serviceState = NoControls =>
            d.credentials = {} /\ d.grant = NoGrant /\ ~d.owner
    /\ \A k \in Key : d.operations[k] # NoOperation =>
            /\ captured[k] # NoGeneration
            /\ d.operations[k].generation = captured[k]

GenerationsAreUsed ==
    /\ deployment \in Retired
    /\ \A k \in Key : captured[k] \in Retired
    /\ RowsAreCaptured(db) /\ RowsAreCaptured(backup.data)

Begun(k) == db.operations[k].status \notin {"absent", "queued"}

(* An operation that is under way, or took effect, is not begun again.     *)
Underway(k) ==
    claims[k] # "idle" =>
        running /\ captured[k] # NoGeneration /\ captured[k] = deployment /\ Begun(k)

Spent(k) ==
    /\ effects[k] <= 1
    /\ claims[k] = "claimed" => effects[k] = 0
    /\ effects[k] > 0 =>
        captured[k] # NoGeneration /\ (captured[k] = deployment => Begun(k))

EffectsAreSpent == \A k \in Key : Underway(k) /\ Spent(k)

IInv ==
    /\ TypeOK /\ GenerationsAreUsed /\ EffectsAreSpent
    /\ PendingIsCurrent /\ AccessIsCurrent

-----------------------------------------------------------------------------
(* The control status.                                                     *)

LEMMA BundleTyped ==
    ASSUME NEW b \in BOOLEAN, NEW d \in Database
    PROVE  [bundle |-> b, data |-> d] \in [bundle : BOOLEAN, data : Database]
OBVIOUS

LEMMA StateMeans ==
    ASSUME RecoveryAssumption, TypeOK
    PROVE  /\ Status.state \in {"ready", "reconciling"} =>
                 /\ deployment \in Generation /\ db.serviceState # NoControls
                 /\ db.serviceState.generation = deployment
                 /\ Status.state = db.serviceState.mode
           /\ Status.generation = deployment
BY DEF RecoveryAssumption, TypeOK, Database, ServiceStateRow, NoControls, RecoveryMode,
       Status, ClassifyControlState

LEMMA OperationsTyped ==
    ASSUME TypeOK, NEW k \in Key
    PROVE  /\ db.operations[k] \in Operation \cup {NoOperation}
           /\ db.operations[k] = NoOperation <=> db.operations[k].status = "absent"
BY DEF TypeOK, Database, Operation, OperationStatus, NoOperation

LEMMA ExecutableIsCurrent ==
    ASSUME RecoveryAssumption, TypeOK, NEW k \in Key, MayExecute(k)
    PROVE  Status.state = "ready" /\ db.operations[k].generation = deployment
BY StateMeans DEF MayExecute, AssessJob

-----------------------------------------------------------------------------
(* Steps of the deployment: no row changes but by the restore.             *)

LEMMA ConfigureKeeps ==
    ASSUME RecoveryAssumption, IInv, NEW g \in Generation, Configure(g)
    PROVE  IInv'
<1> USE DEF RecoveryAssumption
<1>1. /\ deployment = NoGeneration /\ ~running /\ g \notin used
      /\ deployment' = g /\ used' = used \cup {g}
      /\ UNCHANGED <<running, db, backup, claims, effects, captured>>
    BY DEF Configure
<1>2. TypeOK'
    BY <1>1 DEF IInv, TypeOK
<1>3. GenerationsAreUsed'
    BY <1>1 DEF IInv, GenerationsAreUsed, RowsAreCaptured, Retired
<1>4. EffectsAreSpent'
    BY <1>1 DEF IInv, GenerationsAreUsed, Retired, EffectsAreSpent, Underway, Spent, Begun
<1>5. db.serviceState.generation # g
    BY <1>1 DEF IInv, GenerationsAreUsed, RowsAreCaptured, Retired
<1>6. Status'.state \in {"uninitialized", "generation_mismatch"}
    BY <1>1, <1>5 DEF Status, ClassifyControlState
<1>7. PendingIsCurrent' /\ AccessIsCurrent'
    BY <1>6 DEF PendingIsCurrent, AccessIsCurrent
<1>8. QED BY <1>2, <1>3, <1>4, <1>7 DEF IInv

LEMMA ProcessKeeps ==
    ASSUME RecoveryAssumption, IInv, Start \/ Stop \/ Backup
    PROVE  IInv'
<1>1. UNCHANGED <<deployment, used, db, effects, captured>>
    BY DEF Start, Stop, Backup
<1>2. /\ \/ UNCHANGED backup \/ backup' = [bundle |-> TRUE, data |-> db]
      /\ running' \in BOOLEAN
      /\ \/ claims' = Idle
         \/ UNCHANGED claims /\ (running => running')
    BY DEF Start, Stop, Backup, IInv, TypeOK
<1>3. TypeOK'
  <2>1. claims' \in [Key -> {"idle", "claimed", "effected"}]
    <3>1. CASE claims' = Idle
        BY <3>1 DEF Idle
    <3>2. CASE UNCHANGED claims
        BY <3>2 DEF IInv, TypeOK
    <3>3. QED BY <1>2, <3>1, <3>2
  <2>2. backup' \in [bundle : BOOLEAN, data : Database]
    <3>1. db \in Database /\ backup \in [bundle : BOOLEAN, data : Database]
        BY DEF IInv, TypeOK
    <3>2. [bundle |-> TRUE, data |-> db] \in [bundle : BOOLEAN, data : Database]
        BY <3>1, BundleTyped
    <3>3. CASE UNCHANGED backup
        BY <3>1, <3>3
    <3>4. CASE backup' = [bundle |-> TRUE, data |-> db]
        BY <3>2, <3>4
    <3>5. QED BY <1>2, <3>3, <3>4
  <2>3. QED BY <1>1, <1>2, <2>1, <2>2 DEF IInv, TypeOK
<1>4. GenerationsAreUsed'
    BY <1>1, <1>2 DEF IInv, GenerationsAreUsed, RowsAreCaptured, Retired
<1>5. EffectsAreSpent'
  <2>1. CASE claims' = Idle
        BY <1>1, <2>1 DEF IInv, EffectsAreSpent, Spent, Begun, Underway, Idle
  <2>2. CASE UNCHANGED claims /\ (running => running')
        BY <1>1, <2>2 DEF IInv, EffectsAreSpent, Underway, Spent, Begun
  <2>3. QED BY <1>2, <2>1, <2>2
<1>6. PendingIsCurrent' /\ AccessIsCurrent'
    BY <1>1 DEF IInv, PendingIsCurrent, AccessIsCurrent, NoUndispositioned, Status
<1>7. QED BY <1>3, <1>4, <1>5, <1>6 DEF IInv

LEMMA RestoreKeeps ==
    ASSUME RecoveryAssumption, IInv, Restore
    PROVE  IInv'
<1> USE DEF RecoveryAssumption
<1>1. /\ ~running /\ db' = backup.data /\ deployment' = NoGeneration
      /\ UNCHANGED <<used, running, backup, claims, effects, captured>>
    BY DEF Restore
<1>2. TypeOK'
    BY <1>1 DEF IInv, TypeOK
<1>3. GenerationsAreUsed'
    BY <1>1 DEF IInv, GenerationsAreUsed, RowsAreCaptured, Retired
<1>4. EffectsAreSpent'
    BY <1>1 DEF IInv, EffectsAreSpent, Underway, Spent, Begun
<1>5. Status'.state = "config_missing"
    BY <1>1 DEF Status, ClassifyControlState
<1>6. PendingIsCurrent' /\ AccessIsCurrent'
    BY <1>5 DEF PendingIsCurrent, AccessIsCurrent
<1>7. QED BY <1>2, <1>3, <1>4, <1>6 DEF IInv

-----------------------------------------------------------------------------
(* Steps on the database.                                                  *)

(* The operations are as they were: what remains is the row of the service *)
(* state, the credentials and the grant.                                   *)
LEMMA ControlsChanged ==
    ASSUME RecoveryAssumption, IInv, NEW d \in Database, SetDb(d),
           d.operations = db.operations, RowsAreCaptured(d),
           PendingIsCurrent', AccessIsCurrent'
    PROVE  IInv'
<1>1. db' = d /\ UNCHANGED <<deployment, used, running, backup, claims, effects, captured>>
    BY DEF SetDb
<1>2. TypeOK'
    BY <1>1 DEF IInv, TypeOK
<1>3. GenerationsAreUsed'
    BY <1>1 DEF IInv, GenerationsAreUsed, RowsAreCaptured, Retired
<1>4. EffectsAreSpent'
    BY <1>1 DEF IInv, EffectsAreSpent, Underway, Spent, Begun
<1>5. QED BY <1>2, <1>3, <1>4 DEF IInv

(* recovery init, begin and complete.                                      *)
LEMMA RecoveryCommandKeeps ==
    ASSUME RecoveryAssumption, IInv, Initialize \/ BeginRecovery \/ CompleteRecovery
    PROVE  IInv'
<1> USE DEF RecoveryAssumption
<1>1. db \in Database /\ deployment \in Generation /\ deployment \in used
    BY DEF IInv, TypeOK, GenerationsAreUsed, Retired, Initialize, BeginRecovery,
           CompleteRecovery
<1>2. CASE Initialize
  <2> DEFINE d == [db EXCEPT !.serviceState = ControlRow(deployment, "ready")]
  <2>1. SetDb(d) /\ db.serviceState = NoControls /\ DatabaseIsEmpty(db)
        BY <1>2 DEF Initialize
  <2>2. /\ d \in Database /\ d.operations = db.operations
        /\ d.credentials = db.credentials /\ d.grant = db.grant
        /\ d.serviceState = ControlRow(deployment, "ready")
        BY <1>1 DEF Database, ControlRow, ServiceStateRow, RecoveryMode
  <2>3. RowsAreCaptured(d)
        BY <1>1, <2>2 DEF IInv, GenerationsAreUsed, RowsAreCaptured, Retired, ControlRow, NoControls
  <2>4. db' = d /\ UNCHANGED deployment
        BY <2>1 DEF SetDb
  <2>5. PendingIsCurrent'
        BY <2>1, <2>2, <2>4 DEF PendingIsCurrent, NoUndispositioned, DatabaseIsEmpty,
                                NoOperation, PendingStatus
  <2>6. AccessIsCurrent'
        BY <2>1, <2>2, <2>4 DEF IInv, GenerationsAreUsed, RowsAreCaptured, AccessIsCurrent
  <2> HIDE DEF d
  <2>7. QED BY <2>1, <2>2, <2>3, <2>5, <2>6, ControlsChanged
<1>3. CASE BeginRecovery
  <2> DEFINE d == RevokeAllAuth([db EXCEPT !.serviceState = ControlRow(deployment, "reconciling")])
  <2>1. SetDb(d)
        BY <1>3 DEF BeginRecovery, Begin
  <2>2. /\ d \in Database /\ d.operations = db.operations
        /\ d.credentials = {} /\ d.grant = NoGrant
        /\ d.serviceState = ControlRow(deployment, "reconciling")
        BY <1>1 DEF Database, ControlRow, ServiceStateRow, RecoveryMode, RevokeAllAuth
  <2>3. RowsAreCaptured(d)
        BY <1>1, <2>2 DEF IInv, GenerationsAreUsed, RowsAreCaptured, Retired, ControlRow, NoControls
  <2>4. db' = d /\ UNCHANGED deployment
        BY <2>1 DEF SetDb
  <2>5. Status'.state = "reconciling"
        BY <1>1, <2>2, <2>4 DEF Status, ClassifyControlState, ControlRow, NoControls
  <2>6. PendingIsCurrent' /\ AccessIsCurrent'
        BY <2>2, <2>4, <2>5 DEF PendingIsCurrent, AccessIsCurrent
  <2> HIDE DEF d
  <2>7. QED BY <2>1, <2>2, <2>3, <2>6, ControlsChanged
<1>4. CASE CompleteRecovery
  <2> DEFINE d == [db EXCEPT !.serviceState.mode = "ready"]
  <2>1. /\ SetDb(d) /\ db.serviceState = ControlRow(deployment, "reconciling")
        /\ NoUndispositioned(db, deployment)
        BY <1>4 DEF CompleteRecovery, MayComplete
  <2>2. /\ d \in Database /\ d.operations = db.operations
        /\ d.credentials = db.credentials /\ d.grant = db.grant
        /\ d.serviceState = ControlRow(deployment, "ready")
        BY <1>1, <2>1 DEF Database, ControlRow, ServiceStateRow, RecoveryMode
  <2>3. RowsAreCaptured(d)
        BY <1>1, <2>2 DEF IInv, GenerationsAreUsed, RowsAreCaptured, Retired, ControlRow, NoControls
  <2>4. db' = d /\ UNCHANGED deployment
        BY <2>1 DEF SetDb
  <2>5. Status.state = "reconciling"
        BY <1>1, <2>1 DEF Status, ClassifyControlState, ControlRow, NoControls
  <2>6. PendingIsCurrent' /\ AccessIsCurrent'
        BY <2>1, <2>2, <2>4, <2>5 DEF IInv, PendingIsCurrent, NoUndispositioned,
                                      AccessIsCurrent
  <2> HIDE DEF d
  <2>7. QED BY <2>1, <2>2, <2>3, <2>6, ControlsChanged
<1>5. QED BY <1>2, <1>3, <1>4

(* auth bootstrap, auth recover and the enrollment.                        *)
LEMMA AccessCommandKeeps ==
    ASSUME RecoveryAssumption, IInv, IssueBootstrapGrant \/ IssueRecoveryGrant \/ Enroll
    PROVE  IInv'
<1> USE DEF RecoveryAssumption
<1>1. db \in Database
    BY DEF IInv, TypeOK
<1>2. deployment \in Generation
    BY StateMeans DEF IInv, TypeOK, IssueBootstrapGrant, IssueRecoveryGrant, Enroll
<1>3. db.serviceState # NoControls
    BY StateMeans DEF IInv, GenerationsAreUsed, RowsAreCaptured, IssueBootstrapGrant,
                      IssueRecoveryGrant, Enroll
<1>4. ASSUME NEW d \in Database, SetDb(d), d.operations = db.operations,
             d.serviceState = db.serviceState,
             d.credentials \subseteq db.credentials \cup {deployment},
             d.grant \in {NoGrant, db.grant} \/ d.grant.generation = deployment
      PROVE  IInv'
  <2>1. RowsAreCaptured(d)
        BY <1>3, <1>4 DEF IInv, GenerationsAreUsed, RowsAreCaptured
  <2>2. db' = d /\ UNCHANGED deployment
        BY <1>4 DEF SetDb
  <2>3. Status' = Status
        BY <1>4, <2>2 DEF Status, ClassifyControlState
  <2>4. PendingIsCurrent'
        BY <1>4, <2>2, <2>3 DEF IInv, PendingIsCurrent, NoUndispositioned
  <2>5. AccessIsCurrent'
        BY <1>4, <2>2, <2>3 DEF IInv, AccessIsCurrent
  <2>6. QED BY <1>4, <2>1, <2>4, <2>5, ControlsChanged
<1>5. CASE IssueBootstrapGrant
  <2> DEFINE d == [db EXCEPT !.grant = [purpose |-> "bootstrap", generation |-> deployment]]
  <2>1. SetDb(d)
        BY <1>5 DEF IssueBootstrapGrant
  <2>2. /\ d \in Database /\ d.operations = db.operations
        /\ d.serviceState = db.serviceState /\ d.credentials = db.credentials
        /\ d.grant.generation = deployment
        BY <1>1, <1>2 DEF Database, Grant
  <2> HIDE DEF d
  <2>3. QED BY <1>4, <2>1, <2>2
<1>6. CASE IssueRecoveryGrant
  <2> DEFINE d == [RevokeAllAuth(db) EXCEPT !.grant =
                      [purpose |-> "recovery", generation |-> deployment]]
  <2>1. SetDb(d)
        BY <1>6 DEF IssueRecoveryGrant
  <2>2. /\ d \in Database /\ d.operations = db.operations
        /\ d.serviceState = db.serviceState /\ d.credentials = {}
        /\ d.grant.generation = deployment
        BY <1>1, <1>2 DEF Database, Grant, RevokeAllAuth
  <2> HIDE DEF d
  <2>3. QED BY <1>4, <2>1, <2>2
<1>7. CASE Enroll
  <2> DEFINE d == [db EXCEPT !.grant = NoGrant, !.owner = TRUE,
                             !.credentials = @ \cup {deployment}]
  <2>1. SetDb(d)
        BY <1>7 DEF Enroll
  <2>2. /\ d \in Database /\ d.operations = db.operations
        /\ d.serviceState = db.serviceState
        /\ d.credentials = db.credentials \cup {deployment} /\ d.grant = NoGrant
        BY <1>1, <1>2 DEF Database
  <2> HIDE DEF d
  <2>3. QED BY <1>4, <2>1, <2>2
<1>8. QED BY <1>5, <1>6, <1>7

-----------------------------------------------------------------------------
(* Steps of one operation.                                                 *)

(* The status of an operation that exists changes, but not to queued, and  *)
(* to pending work only from pending work or in the deployed generation.   *)
(* A claim is dropped, or made of queued work in the deployed generation.  *)
LEMMA StatusChanged ==
    ASSUME RecoveryAssumption, IInv, NEW k \in Key,
           NEW becomes \in OperationStatus \ {"queued"},
           db.operations[k].status # "absent",
           db' = [db EXCEPT !.operations[k].status = becomes],
           becomes \in PendingStatus =>
               \/ db.operations[k].status \in PendingStatus
               \/ db.operations[k].generation = deployment,
           claims' \in [Key -> {"idle", "claimed", "effected"}],
           \A j \in Key : \/ claims'[j] \in {claims[j], "idle"}
                          \/ /\ j = k /\ running /\ db.operations[k].status = "queued"
                             /\ db.operations[k].generation = deployment,
           UNCHANGED <<deployment, used, running, backup, effects, captured>>
    PROVE  IInv'
<1>1. db \in Database /\ db.operations[k] \in Operation
    BY OperationsTyped DEF IInv, TypeOK, NoOperation
<1>2. /\ db'.serviceState = db.serviceState /\ db'.credentials = db.credentials
      /\ db'.grant = db.grant /\ db'.owner = db.owner
      /\ db'.operations[k] = [db.operations[k] EXCEPT !.status = becomes]
      /\ \A j \in Key \ {k} : db'.operations[j] = db.operations[j]
    BY <1>1 DEF Database
<1>3. /\ db'.operations[k].status = becomes /\ db'.operations[k] \in Operation
      /\ db'.operations[k].generation = db.operations[k].generation
    BY <1>1, <1>2 DEF Operation
<1>4. TypeOK'
  <2>1. db' \in Database
        BY <1>1, <1>3 DEF Database, Operation
  <2>2. QED BY <2>1 DEF IInv, TypeOK
<1>5. db.operations[k] # NoOperation
    BY DEF NoOperation
<1>6. GenerationsAreUsed'
  <2>1. RowsAreCaptured(db)'
    <3>1. ASSUME NEW j \in Key, db'.operations[j] # NoOperation
          PROVE  /\ captured[j] # NoGeneration
                 /\ db'.operations[j].generation = captured[j]
        BY <1>2, <1>3, <1>5, <3>1 DEF IInv, GenerationsAreUsed, RowsAreCaptured
    <3>2. QED BY <1>2, <3>1 DEF IInv, GenerationsAreUsed, RowsAreCaptured, Retired
  <2>2. QED BY <2>1 DEF IInv, GenerationsAreUsed, RowsAreCaptured, Retired
<1>7. Begun(k)' /\ \A j \in Key : Begun(j) => Begun(j)'
    BY <1>2, <1>3 DEF Begun, OperationStatus
<1>8. EffectsAreSpent'
  <2>1. ASSUME NEW j \in Key, claims'[j] \in {claims[j], "idle"}
        PROVE  (Underway(j) /\ Spent(j))'
        BY <1>7, <2>1 DEF IInv, EffectsAreSpent, Underway, Spent
  <2>2. ASSUME running, db.operations[k].status = "queued",
               db.operations[k].generation = deployment
        PROVE  (Underway(k) /\ Spent(k))'
    <3>1. captured[k] # NoGeneration /\ captured[k] = deployment
        BY <1>5, <2>2 DEF IInv, GenerationsAreUsed, RowsAreCaptured
    <3>2. ~ (effects[k] > 0) /\ effects[k] \in Nat
        BY <2>2, <3>1 DEF RecoveryAssumption, IInv, TypeOK, EffectsAreSpent, Spent, Begun
    <3>3. QED BY <1>7, <2>2, <3>1, <3>2 DEF Underway, Spent
  <2>3. QED BY <2>1, <2>2 DEF EffectsAreSpent
<1>9. Status' = Status
    BY <1>2 DEF Status, ClassifyControlState
<1>10. PendingIsCurrent'
  <2>1. SUFFICES ASSUME Status.state = "ready", NEW j \in Key,
                        db'.operations[j].status \in PendingStatus
                 PROVE  db'.operations[j].generation = deployment
        BY <1>9 DEF PendingIsCurrent, NoUndispositioned
  <2>2. CASE j = k
        BY <1>3, <2>1, <2>2 DEF IInv, PendingIsCurrent, NoUndispositioned
  <2>3. CASE j # k
        BY <1>2, <2>1, <2>3 DEF IInv, PendingIsCurrent, NoUndispositioned
  <2>4. QED BY <2>2, <2>3
<1>11. AccessIsCurrent'
    BY <1>2, <1>9 DEF IInv, AccessIsCurrent
<1>12. QED BY <1>4, <1>6, <1>8, <1>10, <1>11 DEF IInv

LEMMA HoldActionKeeps ==
    ASSUME RecoveryAssumption, IInv, NEW k \in ActionKey, HoldAction(k)
    PROVE  IInv'
<1>1. /\ db' = [db EXCEPT !.operations[k].status = "complete"]
      /\ UNCHANGED <<deployment, used, running, backup, claims, effects, captured>>
      /\ db.operations[k].status # "absent"
    BY DEF HoldAction, SetDb, RestoredPending
<1>2. k \in Key /\ claims' \in [Key -> {"idle", "claimed", "effected"}]
    BY <1>1 DEF Key, IInv, TypeOK
<1>3. "complete" \in OperationStatus \ {"queued"} /\ "complete" \notin PendingStatus
    BY DEF OperationStatus, PendingStatus
<1>4. QED BY <1>1, <1>2, <1>3, StatusChanged

(* The worker's steps on a row that it may execute.                        *)
LEMMA WorkKeeps ==
    ASSUME RecoveryAssumption, IInv, NEW k \in Key,
           \/ Claim(k) \/ HoldAbandoned(k) \/ ReconcileUnknown(k)
           \/ AppendCopy(k) \/ ConcludeCopy(k)
    PROVE  IInv'
<1>1. PICK becomes \in OperationStatus \ {"queued"}, c \in {"idle", "claimed", "effected"} :
        /\ SetOperation(k, becomes, c)
        /\ c = claims[k] \/ (running /\ OperationIs(k, "queued"))
    BY DEF Claim, HoldAbandoned, ReconcileUnknown, AppendCopy, ConcludeCopy,
           OperationStatus, IInv, TypeOK
<1>2. db.operations[k].status # "absent" /\ db.operations[k].generation = deployment
    BY ExecutableIsCurrent DEF Claim, HoldAbandoned, ReconcileUnknown, AppendCopy,
                               ConcludeCopy, OperationIs, IInv
<1>3. /\ db' = [db EXCEPT !.operations[k].status = becomes]
      /\ claims' = [claims EXCEPT ![k] = c]
      /\ UNCHANGED <<deployment, used, running, backup, effects, captured>>
    BY <1>1 DEF SetOperation
<1>4. claims' \in [Key -> {"idle", "claimed", "effected"}]
    BY <1>3 DEF IInv, TypeOK
<1>5. \A j \in Key : \/ claims'[j] \in {claims[j], "idle"}
                     \/ /\ j = k /\ running /\ db.operations[k].status = "queued"
                        /\ db.operations[k].generation = deployment
    BY <1>1, <1>2, <1>3 DEF IInv, TypeOK, OperationIs
<1>6. QED BY <1>2, <1>3, <1>4, <1>5, StatusChanged

(* The commit of a claim, also of one whose row was held meanwhile.        *)
LEMMA ConcludeKeeps ==
    ASSUME RecoveryAssumption, IInv, NEW k \in Key, NEW o \in Outcomes(k), Conclude(k, o)
    PROVE  IInv'
<1> DEFINE becomes == IF OperationIs(k, "executing") THEN o ELSE db.operations[k].status
<1>1. Begun(k)
    BY DEF Conclude, IInv, EffectsAreSpent, Underway
<1>2. db.operations[k] \in Operation
    BY <1>1, OperationsTyped DEF IInv, Begun, NoOperation
<1>3. becomes \in OperationStatus \ {"queued"}
    BY <1>1, <1>2 DEF Outcomes, OperationStatus, Operation, Begun
<1>4. /\ db' = [db EXCEPT !.operations[k].status = becomes]
      /\ claims' = [claims EXCEPT ![k] = "idle"]
      /\ UNCHANGED <<deployment, used, running, backup, effects, captured>>
    BY DEF Conclude, SetOperation
<1>5. becomes \in PendingStatus => db.operations[k].status \in PendingStatus
    BY DEF OperationIs, PendingStatus
<1>6. /\ claims' \in [Key -> {"idle", "claimed", "effected"}]
      /\ \A j \in Key : claims'[j] \in {claims[j], "idle"}
    BY <1>4 DEF IInv, TypeOK
<1>7. db.operations[k].status # "absent"
    BY <1>1 DEF Begun
<1> HIDE DEF becomes
<1>8. QED BY <1>3, <1>4, <1>5, <1>6, <1>7, StatusChanged

LEMMA EffectKeeps ==
    ASSUME RecoveryAssumption, IInv, NEW k \in Key, RemoteEffect(k)
    PROVE  IInv'
<1>1. /\ claims[k] = "claimed" /\ effects[k] < MaxEffects
      /\ effects' = [effects EXCEPT ![k] = @ + 1]
      /\ claims' = [claims EXCEPT ![k] = "effected"]
      /\ UNCHANGED <<deployment, used, running, db, backup, captured>>
    BY DEF RemoteEffect
<1>2. TypeOK'
    BY <1>1 DEF RecoveryAssumption, IInv, TypeOK
<1>3. GenerationsAreUsed'
    BY <1>1 DEF IInv, GenerationsAreUsed, RowsAreCaptured, Retired
<1>4. EffectsAreSpent'
    BY <1>1 DEF RecoveryAssumption, IInv, TypeOK, EffectsAreSpent, Underway, Spent, Begun
<1>5. PendingIsCurrent' /\ AccessIsCurrent'
    BY <1>1 DEF IInv, PendingIsCurrent, AccessIsCurrent, NoUndispositioned, Status
<1>6. QED BY <1>2, <1>3, <1>4, <1>5 DEF IInv

-----------------------------------------------------------------------------
(* The devices.                                                            *)

LEMMA CaptureKeeps ==
    ASSUME RecoveryAssumption, IInv, NEW k \in Key, Capture(k)
    PROVE  IInv'
<1>1. /\ captured[k] = NoGeneration
      /\ captured' = [captured EXCEPT ![k] = deployment]
      /\ UNCHANGED <<deployment, used, running, db, backup, claims, effects>>
    BY StateMeans DEF Capture, ClientGeneration, IInv
<1>2. TypeOK'
    BY <1>1 DEF IInv, TypeOK
<1>3. /\ db.operations[k] = NoOperation /\ backup.data.operations[k] = NoOperation
      /\ claims[k] = "idle" /\ ~ (effects[k] > 0)
    BY <1>1 DEF IInv, GenerationsAreUsed, RowsAreCaptured, EffectsAreSpent, Underway, Spent
<1>4. \A j \in Key \ {k} : captured'[j] = captured[j]
    BY <1>1 DEF IInv, TypeOK
<1>5. GenerationsAreUsed'
  <2>1. deployment' \in Retired' /\ \A j \in Key : captured'[j] \in Retired'
        BY <1>1, <1>4 DEF IInv, TypeOK, GenerationsAreUsed, Retired
  <2>2. RowsAreCaptured(db)'
        BY <1>1, <1>3, <1>4 DEF IInv, GenerationsAreUsed, RowsAreCaptured, Retired
  <2>3. RowsAreCaptured(backup.data)'
        BY <1>1, <1>3, <1>4 DEF IInv, GenerationsAreUsed, RowsAreCaptured, Retired
  <2>4. QED BY <2>1, <2>2, <2>3 DEF GenerationsAreUsed
<1>6. EffectsAreSpent'
  <2>1. (Underway(k) /\ Spent(k))'
        BY <1>1, <1>3 DEF IInv, EffectsAreSpent, Underway, Spent
  <2>2. \A j \in Key \ {k} : (Underway(j) /\ Spent(j))'
        BY <1>1, <1>4 DEF IInv, EffectsAreSpent, Underway, Spent, Begun
  <2>3. QED BY <2>1, <2>2 DEF EffectsAreSpent
<1>7. PendingIsCurrent' /\ AccessIsCurrent'
    BY <1>1 DEF IInv, PendingIsCurrent, AccessIsCurrent, NoUndispositioned, Status
<1>8. QED BY <1>2, <1>5, <1>6, <1>7 DEF IInv

LEMMA SubmitKeeps ==
    ASSUME RecoveryAssumption, IInv, NEW k \in Key, Submit(k)
    PROVE  IInv'
<1>1. /\ db.operations[k] = NoOperation /\ captured[k] # NoGeneration
      /\ Status.state = "ready" /\ captured[k] = deployment
      /\ db' = [db EXCEPT !.operations[k] =
                    [status |-> "queued", generation |-> deployment]]
      /\ UNCHANGED <<deployment, used, running, backup, claims, effects, captured>>
    BY StateMeans DEF Submit, SetDb, MayInsert, DecideMutationGate, GateDecision, IInv
<1>2. db \in Database /\ deployment \in Generation
    BY <1>1, StateMeans DEF IInv, TypeOK
<1>3. /\ db'.serviceState = db.serviceState /\ db'.credentials = db.credentials
      /\ db'.grant = db.grant /\ db'.owner = db.owner
      /\ db'.operations[k] = [status |-> "queued", generation |-> deployment]
      /\ \A j \in Key \ {k} : db'.operations[j] = db.operations[j]
    BY <1>1, <1>2 DEF Database
<1>4. TypeOK'
  <2>1. [status |-> "queued", generation |-> deployment] \in Operation
        BY <1>2 DEF Operation, OperationStatus
  <2>2. db' \in Database
        BY <1>1, <1>2, <2>1 DEF Database
  <2>3. QED BY <1>1, <2>2 DEF IInv, TypeOK
<1>5. GenerationsAreUsed'
  <2>1. RowsAreCaptured(db)'
        BY <1>1, <1>3 DEF IInv, GenerationsAreUsed, RowsAreCaptured, Retired
  <2>2. QED BY <1>1, <2>1 DEF IInv, GenerationsAreUsed, RowsAreCaptured, Retired
<1>6. EffectsAreSpent'
  <2>1. ~Begun(k)
        BY <1>1 DEF Begun, NoOperation
  <2>2. claims[k] = "idle" /\ ~ (effects[k] > 0)
        BY <1>1, <2>1 DEF IInv, EffectsAreSpent, Underway, Spent
  <2>3. (Underway(k) /\ Spent(k))'
        BY <1>1, <2>2 DEF IInv, EffectsAreSpent, Underway, Spent
  <2>4. \A j \in Key \ {k} : (Underway(j) /\ Spent(j))'
        BY <1>1, <1>3 DEF IInv, EffectsAreSpent, Underway, Spent, Begun
  <2>5. QED BY <2>3, <2>4 DEF EffectsAreSpent
<1>7. Status' = Status
    BY <1>1, <1>3 DEF Status, ClassifyControlState
<1>8. PendingIsCurrent'
    BY <1>1, <1>3, <1>7 DEF IInv, PendingIsCurrent, NoUndispositioned
<1>9. AccessIsCurrent'
    BY <1>1, <1>3, <1>7 DEF IInv, AccessIsCurrent
<1>10. QED BY <1>4, <1>5, <1>6, <1>8, <1>9 DEF IInv

-----------------------------------------------------------------------------
LEMMA InitHolds == RecoveryAssumption /\ Init => IInv
<1> SUFFICES ASSUME RecoveryAssumption, Init PROVE IInv
    OBVIOUS
<1>1. EmptyDatabase \in Database
    BY DEF EmptyDatabase, Database
<1>2. TypeOK
  <2>1. backup \in [bundle : BOOLEAN, data : Database]
        BY <1>1, BundleTyped DEF Init, NoBackup
  <2>2. claims \in [Key -> {"idle", "claimed", "effected"}]
        BY DEF Init, Idle
  <2>3. effects \in [Key -> 0 .. MaxEffects]
        BY DEF RecoveryAssumption, Init
  <2>4. /\ deployment \in Generation \cup {NoGeneration} /\ used \subseteq Generation
        /\ running \in BOOLEAN /\ db \in Database
        BY <1>1 DEF Init
  <2>5. captured \in [Key -> Generation \cup {NoGeneration}]
        BY DEF Init
  <2>6. QED BY <2>1, <2>2, <2>3, <2>4, <2>5 DEF TypeOK
<1>3. RowsAreCaptured(EmptyDatabase)
    BY DEF EmptyDatabase, RowsAreCaptured, Retired, NoControls
<1>4. GenerationsAreUsed
    BY <1>3 DEF Init, GenerationsAreUsed, NoBackup, Retired
<1>5. EffectsAreSpent
    BY DEF Init, EffectsAreSpent, Underway, Spent, Idle
<1>6. Status.state = "config_missing"
    BY DEF Init, Status, ClassifyControlState
<1>7. PendingIsCurrent /\ AccessIsCurrent
    BY <1>6 DEF PendingIsCurrent, AccessIsCurrent
<1>8. QED BY <1>2, <1>4, <1>5, <1>7 DEF IInv

LEMMA StepHolds == RecoveryAssumption /\ IInv /\ [Next]_vars => IInv'
<1> SUFFICES ASSUME RecoveryAssumption, IInv, [Next]_vars PROVE IInv'
    OBVIOUS
<1>1. CASE OperatorStep
    BY <1>1, ConfigureKeeps, ProcessKeeps, RestoreKeeps, RecoveryCommandKeeps,
       HoldActionKeeps, AccessCommandKeeps DEF OperatorStep
<1>2. ASSUME NEW k \in Key, OperationStep(k) PROVE IInv'
    BY <1>2, CaptureKeeps, SubmitKeeps, WorkKeeps, ConcludeKeeps, EffectKeeps
       DEF OperationStep
<1>3. CASE UNCHANGED vars
    BY <1>3 DEF vars, IInv, TypeOK, GenerationsAreUsed, RowsAreCaptured, Retired,
                EffectsAreSpent, Underway, Spent, Begun, PendingIsCurrent,
                AccessIsCurrent, NoUndispositioned, Status
<1>4. QED BY <1>1, <1>2, <1>3 DEF Next

LEMMA Inductive == ASSUME RecoveryAssumption PROVE Spec => []IInv
<1>1. Init => IInv
    BY InitHolds
<1>2. IInv /\ [Next]_vars => IInv'
    BY StepHolds
<1>3. QED BY <1>1, <1>2, PTL DEF Spec

(* The controls of a deployment keep their types through every restore.    *)
THEOREM RecoveryTyped == ASSUME RecoveryAssumption PROVE Spec => []TypeOK
<1>1. IInv => TypeOK
    BY DEF IInv
<1>2. QED BY <1>1, Inductive, PTL

(* No operation reaches the outside world twice, whatever backups are      *)
(* restored and whatever the devices submit again (decideMutationGate,     *)
(* assessJobGeneration).                                                   *)
THEOREM EffectsHappenOnce == ASSUME RecoveryAssumption PROVE Spec => []EffectAtMostOnce
<1>1. IInv => EffectAtMostOnce
    BY DEF IInv, EffectsAreSpent, Spent, EffectAtMostOnce
<1>2. QED BY <1>1, Inductive, PTL

(* A ready service has no restored work without a disposition              *)
(* (completeRecovery).                                                     *)
THEOREM NoRestoredWorkRuns == ASSUME RecoveryAssumption PROVE Spec => []PendingIsCurrent
<1>1. IInv => PendingIsCurrent
    BY DEF IInv
<1>2. QED BY <1>1, Inductive, PTL

(* No credential or grant of an earlier history gives access to a service  *)
(* whose row and deployment agree (beginRecovery).                         *)
THEOREM NoRestoredAccess == ASSUME RecoveryAssumption PROVE Spec => []AccessIsCurrent
<1>1. IInv => AccessIsCurrent
    BY DEF IInv
<1>2. QED BY <1>1, Inductive, PTL

(* The three together: what a restore brings back neither repeats an       *)
(* effect, nor is taken up by a worker, nor gives access.                  *)
THEOREM RestoresAreSafe == ASSUME RecoveryAssumption PROVE Spec => []RestoreIsSafe
<1>1. IInv => RestoreIsSafe
    BY DEF IInv, EffectsAreSpent, Spent, EffectAtMostOnce, RestoreIsSafe
<1>2. QED BY <1>1, Inductive, PTL

=============================================================================
