---------------------------- MODULE SettingsSync ----------------------------
(***************************************************************************)
(* The settings of the installation and one browser that edits them        *)
(* (settings-context.tsx, packages/settings/src/service.ts, SPEC F10).     *)
(*                                                                         *)
(* The screen shows every edit at once and puts it to the server as a      *)
(* patch; several patches can be on the way together, each is read,        *)
(* written and answered in its own time, and an answer can be lost.  Every *)
(* key remembers the ticket of the patch that wrote it last.  Patches that *)
(* failed wait for one explicit retry.                                     *)
(*                                                                         *)
(* Two keys stand for the eight: the theme, which the shell changes        *)
(* outside the settings screen too, and the startup choice, which the *)
(* browser keeps for its next start, both on or off here.  Validation of   *)
(* values, the painting of themes and the audit event are left out; a      *)
(* patch the recovery gate refuses is a patch that failed.                 *)
(***************************************************************************)
EXTENDS Naturals, FiniteSets, Sequences

CONSTANTS
    MaxTickets,    \* edits and retries together
    MaxReads,      \* new reads of the settings after the first
    LastStart      \* the startup choice an earlier visit left, or none

VARIABLES
    table,         \* the settings table
    shown,         \* the provider's settings: what every screen shows
    readPhase,     \* the state of the last read: loading, ready, error
    settingsRead,  \* the read on the way: none, sent, or what it read
    savePhase,     \* the footer: idle, saving, saved, error
    failedPatches, \* patches waiting for the retry, oldest first
    keyTickets,    \* the newest ticket of every key
    puts,          \* the patches on the way, by ticket
    startup,       \* the startup choice kept by the browser, or none
    opened,        \* what the gate decided: closed, home, inbox
    readsLeft,     \* reads that may still start
    entered,       \* history: what an edit or a retry applied last to each key
    lastEdit       \* history: what the owner entered last for each key

vars == <<table, shown, readPhase, settingsRead, savePhase, failedPatches,
          keyTickets, puts, startup, opened, readsLeft, entered, lastEdit>>

Key == {"theme", "home"}
Value == {"on", "off"}
Flip(v) == IF v = "on" THEN "off" ELSE "on"
Settings == [Key -> Value]
Patch == UNION {[K -> Value] : K \in SUBSET Key \ {{}}}
None == "none"
MaybeValue == Value \cup {None}

\* One request: the patch, how far the server is with it, and the settings
\* the server read for it and then answers with.
Put == [patch : Patch, step : {"sent", "read", "done", "failed"},
        answer : Settings]

Fresh == [theme |-> "off", home |-> "on"]
Over(settings, patch) ==
    [k \in Key |-> IF k \in DOMAIN patch THEN patch[k] ELSE settings[k]]

TypeOK ==
    /\ table \in Settings /\ shown \in Settings
    /\ readPhase \in {"loading", "ready", "error"}
    /\ settingsRead \in [step : {"none", "sent", "read"}, answer : Settings]
    /\ savePhase \in {"idle", "saving", "saved", "error"}
    /\ failedPatches \in Seq(Patch) /\ Len(failedPatches) <= MaxTickets
    /\ keyTickets \in [Key -> 0 .. MaxTickets]
    /\ DOMAIN puts \subseteq 1 .. MaxTickets
    /\ \A t \in DOMAIN puts : puts[t] \in Put
    /\ startup \in MaybeValue
    /\ opened \in {"closed", "home", "inbox"}
    /\ readsLeft \in 0 .. MaxReads
    /\ entered \in [Key -> MaybeValue] /\ lastEdit \in [Key -> MaybeValue]

\* The server's table, the provider as it mounts and the read it starts.
Init ==
    /\ table = Fresh
    /\ shown = Fresh
    /\ readPhase = "loading"
    /\ settingsRead = [step |-> "sent", answer |-> Fresh]
    /\ savePhase = "idle"
    /\ failedPatches = << >>
    /\ keyTickets = [k \in Key |-> 0]
    /\ puts = << >>
    /\ startup = LastStart
    /\ opened = "closed"
    /\ readsLeft = MaxReads
    /\ entered = [k \in Key |-> None]
    /\ lastEdit = [k \in Key |-> None]

-----------------------------------------------------------------------------
(* The server.                                                             *)

ServerReadsSettings ==
    /\ settingsRead.step = "sent"
    /\ settingsRead' = [step |-> "read", answer |-> table]
    /\ UNCHANGED <<table, shown, readPhase, savePhase, failedPatches, keyTickets,
                   puts, startup, opened, readsLeft, entered, lastEdit>>

\* The gate let the change through; the current settings are read outside
\* the transaction that writes.
ReadCurrent(t) ==
    /\ puts[t].step = "sent"
    /\ puts' = [puts EXCEPT ![t].step = "read", ![t].answer = table]
    /\ UNCHANGED <<table, shown, readPhase, settingsRead, savePhase, failedPatches,
                   keyTickets, startup, opened, readsLeft, entered, lastEdit>>

\* Only keys whose value differs from what was read are written; the answer
\* is what was read with the patch over it.
Changed(current, next) == {k \in Key : next[k] # current[k]}

WriteChanged(t) ==
    LET current == puts[t].answer
        next == Over(current, puts[t].patch)
    IN  /\ puts[t].step = "read"
        /\ table' = [k \in Key |-> IF k \in Changed(current, next)
                                     THEN next[k] ELSE table[k]]
        /\ puts' = [puts EXCEPT ![t].step = "done", ![t].answer = next]
        /\ UNCHANGED <<shown, readPhase, settingsRead, savePhase, failedPatches,
                       keyTickets, startup, opened, readsLeft, entered, lastEdit>>

\* The gate refuses, the database fails, or the answer is lost on its way
\* back: the browser hears of a failure, whatever was written.
Fail(t) ==
    /\ puts[t].step # "failed"
    /\ puts' = [puts EXCEPT ![t].step = "failed"]
    /\ UNCHANGED <<table, shown, readPhase, settingsRead, savePhase, failedPatches,
                   keyTickets, startup, opened, readsLeft, entered, lastEdit>>

-----------------------------------------------------------------------------
(* The provider.                                                           *)

\* A read that arrives replaces every shown value, edits under way included,
\* and leaves the startup choice for the next start.
SettingsArrive ==
    /\ settingsRead.step = "read"
    /\ shown' = settingsRead.answer
    /\ readPhase' = "ready"
    /\ startup' = settingsRead.answer["home"]
    /\ settingsRead' = [settingsRead EXCEPT !.step = "none"]
    /\ entered' = [k \in Key |-> None]
    /\ UNCHANGED <<table, savePhase, failedPatches, keyTickets, puts, opened,
                   readsLeft, lastEdit>>

SettingsFail ==
    /\ settingsRead.step # "none"
    /\ readPhase' = "error"
    /\ settingsRead' = [settingsRead EXCEPT !.step = "none"]
    /\ UNCHANGED <<table, shown, savePhase, failedPatches, keyTickets, puts,
                   startup, opened, readsLeft, entered, lastEdit>>

\* Both places offer a new read only where the last one failed; the phase
\* stays "error" until it is answered.  A read still on the way is abandoned.
Reload ==
    /\ readPhase = "error" /\ readsLeft > 0
    /\ settingsRead' = [settingsRead EXCEPT !.step = "sent"]
    /\ readsLeft' = readsLeft - 1
    /\ UNCHANGED <<table, shown, readPhase, savePhase, failedPatches, keyTickets,
                   puts, startup, opened, entered, lastEdit>>

\* Tickets are numbered through: the newest of all is the newest of some key.
NextTicket ==
    LET given == {keyTickets[k] : k \in Key}
    IN  1 + (CHOOSE n \in given : \A m \in given : m <= n)

\* What is asked of the server: the newest ticket for each key of the patch.
Send(patch) ==
    /\ NextTicket <= MaxTickets
    /\ shown' = Over(shown, patch)
    /\ keyTickets' = Over(keyTickets, [k \in DOMAIN patch |-> NextTicket])
    /\ puts' = [t \in DOMAIN puts \cup {NextTicket} |->
                  IF t = NextTicket
                  THEN [patch |-> patch, step |-> "sent", answer |-> Fresh]
                  ELSE puts[t]]
    /\ savePhase' = "saving"
    /\ entered' = Over(entered, patch)

\* The settings screen shows its controls once a read arrived; the shell has
\* the theme at any time.  A waiting patch that shares a key goes whole.
Edit(k) ==
    LET patch == [x \in {k} |-> Flip(shown[k])]
        Shares(queued) == DOMAIN queued \cap DOMAIN patch # {}
    IN  /\ opened # "closed"
        /\ readPhase = "ready" \/ k = "theme"
        /\ failedPatches' = SelectSeq(failedPatches, LAMBDA q : ~Shares(q))
        /\ Send(patch)
        /\ lastEdit' = [lastEdit EXCEPT ![k] = Flip(shown[k])]
        /\ UNCHANGED <<table, readPhase, settingsRead, startup, opened, readsLeft>>

\* Where the footer stands once one more request has settled.
Settle(others, failures) ==
    savePhase' = IF others # {} THEN "saving"
                 ELSE IF failures # << >> THEN "error" ELSE "saved"

\* Only the keys this patch still owns are adopted.
AllKeys(t) == DOMAIN puts[t].patch
Owned(t) == {k \in AllKeys(t) : keyTickets[k] = t}

Answered(t) ==
    /\ puts[t].step = "done"
    /\ shown' = Over(shown, [k \in Owned(t) |-> puts[t].answer[k]])
    /\ startup' = IF "home" \in Owned(t) THEN puts[t].answer["home"] ELSE startup
    /\ puts' = [u \in DOMAIN puts \ {t} |-> puts[u]]
    /\ Settle(DOMAIN puts \ {t}, failedPatches)
    /\ UNCHANGED <<table, readPhase, settingsRead, failedPatches, keyTickets,
                   opened, readsLeft, entered, lastEdit>>

NotAnswered(t) ==
    /\ puts[t].step = "failed"
    /\ failedPatches' = Append(failedPatches, puts[t].patch)
    /\ puts' = [u \in DOMAIN puts \ {t} |-> puts[u]]
    /\ Settle(DOMAIN puts \ {t}, failedPatches')
    /\ UNCHANGED <<table, shown, readPhase, settingsRead, keyTickets, startup,
                   opened, readsLeft, entered, lastEdit>>

\* All waiting patches as one; of two that name a key the later one counts.
Merged ==
    LET Names(k) == {i \in DOMAIN failedPatches : k \in DOMAIN failedPatches[i]}
    IN  [k \in {x \in Key : Names(x) # {}} |->
           failedPatches[CHOOSE i \in Names(k) : \A j \in Names(k) : j <= i][k]]

Retry ==
    /\ savePhase = "error" /\ failedPatches # << >>
    /\ Send(Merged)
    /\ failedPatches' = << >>
    /\ UNCHANGED <<table, readPhase, settingsRead, startup, opened, readsLeft, lastEdit>>

\* The start decides once: by the settings, by the kept choice after a failed
\* read, or by the owner who does not wait.
Opens(home) == opened' = IF home = "on" THEN "home" ELSE "inbox"

OpenStart ==
    /\ opened = "closed"
    /\ \/ readPhase = "ready" /\ Opens(shown["home"])
       \/ readPhase = "error" /\ startup # None /\ Opens(startup)
       \/ Opens("off")
    /\ UNCHANGED <<table, shown, readPhase, settingsRead, savePhase, failedPatches,
                   keyTickets, puts, startup, readsLeft, entered, lastEdit>>

Next ==
    \/ ServerReadsSettings \/ SettingsArrive \/ SettingsFail \/ Reload
    \/ Retry \/ OpenStart
    \/ \E k \in Key : Edit(k)
    \/ \E t \in DOMAIN puts :
          ReadCurrent(t) \/ WriteChanged(t) \/ Fail(t) \/ Answered(t) \/ NotAnswered(t)

Spec == Init /\ [][Next]_vars

-----------------------------------------------------------------------------
(* What the screen owes its owner.                                         *)

(***************************************************************************)
(* What was applied last to a key is what the screen shows, whatever late  *)
(* answer to an older patch arrives (keyTickets, settings-context.tsx:82), *)
(* until a read of the server replaces it.                                 *)
(***************************************************************************)
NewestEditShows ==
    \A k \in Key : entered[k] \in {None, shown[k]}

(***************************************************************************)
(* A retry sends the value the owner entered last for every key it names   *)
(* (settings-context.tsx:77 "a retry never sends a value the owner already *)
(* changed again").                                                        *)
(***************************************************************************)
(* Not kept: README, section 9.                                            *)
RetrySendsTheNewest ==
    [][Retry => \A k \in DOMAIN Merged : lastEdit[k] = Merged[k]]_vars
=============================================================================
