-------------------------------- MODULE Auth --------------------------------
(***************************************************************************)
(* Passkey authentication of the single owner: operator grants, WebAuthn   *)
(* ceremonies, sessions and passkey management (packages/auth/src), with   *)
(* the recovery commands that revoke all of it.  A request reads and       *)
(* verifies first and commits in a transaction of its own later, so every  *)
(* check can be stale when the transaction runs.                           *)
(***************************************************************************)
EXTENDS Naturals, FiniteSets

CONSTANTS Passkey, Ceremony, Grant, Session,
          Request,      \* completions in flight at once
          MaxCount,     \* bound on an authenticator's signature counter
          MaxEra,       \* bound on revoking everything
          Settled       \* BOOLEAN: start with an owner of every passkey, or fresh

VARIABLES control,      \* recovery control state: generation and mode
          ownerRow,     \* whether the owner row exists
          passkey,      \* ownerCredentials
          ceremony,     \* webauthnChallenges, one per ceremony
          grant,        \* enrollmentGrants
          session,      \* ownerSessions
          request,      \* completions between their reads and their transaction
          issuing,      \* a bootstrap between its owner check and its insert
          era,          \* history: how often everything was revoked
          accepted      \* history: <<passkey, counter>> of each accepted assertion

vars == <<control, ownerRow, passkey, ceremony, grant, session, request, issuing,
          era, accepted>>

None == "none"
Purpose == {"first_enrollment", "recovery_enrollment", "add_credential", "login", "reverify"}
Enrollment == {"first_enrollment", "recovery_enrollment"}

NewPasskey == [state |-> "absent", counter |-> 0, device |-> 0, era |-> 0]
NewCeremony == [state |-> "none", purpose |-> "login", gen |-> 1, by |-> None]
NewGrant == [state |-> "none", purpose |-> "bootstrap"]
NewSession == [state |-> "none", gen |-> 1, kind |-> "standard", recent |-> FALSE,
               key |-> None, era |-> 0]
NoRequest == [at |-> "idle"]

Init ==
  /\ control = [gen |-> 1, mode |-> "ready"]
  /\ ownerRow = Settled
  /\ passkey = [k \in Passkey |-> IF Settled THEN [NewPasskey EXCEPT !.state = "active"]
                                 ELSE NewPasskey]
  /\ ceremony = [c \in Ceremony |-> NewCeremony]
  /\ grant = [g \in Grant |-> NewGrant]
  /\ session = [s \in Session |->
       IF Settled /\ s = CHOOSE one \in Session : TRUE
       THEN [NewSession EXCEPT !.state = "open", !.recent = TRUE,
                               !.key = CHOOSE k \in Passkey : TRUE]
       ELSE NewSession]
  /\ request = [r \in Request |-> NoRequest]
  /\ issuing = FALSE /\ era = 0 /\ accepted = {}

-----------------------------------------------------------------------------
(* What every request reads.                                               *)

Agrees == control.mode \in {"ready", "reconciling"}
ModeAsKind == control.mode
SessionKind == IF control.mode = "reconciling" THEN "inspection" ELSE "standard"
ActiveKeys == {k \in Passkey : passkey[k].state = "active"}
LiveGrant(g) == grant[g].state = "live"
LiveChallenge(c) == ceremony[c].state = "live"

VerifySession(s) ==
  /\ session[s].state = "open" /\ Agrees /\ session[s].gen = control.gen
  /\ control.mode = "reconciling" => session[s].kind = "inspection"

\* A bootstrap grant serves while no owner exists, a recovery grant after.
EnrollmentPurpose(g) ==
  IF grant[g].purpose = "bootstrap" THEN "first_enrollment" ELSE "recovery_enrollment"
EnrollmentContext(g) ==
  LiveGrant(g) /\ Agrees /\ (grant[g].purpose = "bootstrap") = ~ownerRow

LoginContext == Agrees /\ ownerRow
RecentlyVerified(s) == session[s].recent

\* What a ceremony needs, at its start and again when it is completed.
Allowed(purpose, by) ==
  \/ purpose \in Enrollment /\ by \in Grant /\ EnrollmentContext(by)
                            /\ EnrollmentPurpose(by) = purpose
  \/ purpose = "login" /\ by = None /\ LoginContext
  \/ purpose = "reverify" /\ by \in Session /\ VerifySession(by)
  \/ purpose = "add_credential" /\ by \in Session /\ VerifySession(by) /\ RecentlyVerified(by)

-----------------------------------------------------------------------------
(* Ceremonies.                                                             *)

Rows == <<control, ownerRow, passkey, grant, session, issuing, era, accepted>>

\* The checks of a start; the challenge they allow is not stored yet.
StartCeremony(c, purpose, by) ==
  /\ ceremony[c].state = "none" /\ Allowed(purpose, by)
  /\ purpose = "login" => ActiveKeys # {}
  /\ ceremony' = [ceremony EXCEPT ![c] = [state |-> "starting", purpose |-> purpose,
                                          gen |-> control.gen, by |-> by]]
  /\ UNCHANGED <<request, Rows>>

\* A revocation may have come in between; it does not reach this row.
IssueChallenge(c) ==
  /\ ceremony[c].state = "starting"
  /\ ceremony' = [ceremony EXCEPT ![c].state = "live"]
  /\ UNCHANGED <<request, Rows>>

SameHistory(c) == ceremony[c].gen = control.gen

\* A new passkey, or the assertion of one: its device counts the signature.
\* WebAuthn accepts a count that advances past the one read here.
Check(r, c, k) ==
  LET asserts == ceremony[c].purpose \in {"login", "reverify"}
  IN  /\ request[r].at = "idle" /\ LiveChallenge(c)
      /\ Allowed(ceremony[c].purpose, ceremony[c].by) /\ SameHistory(c)
      /\ IF asserts
         THEN /\ passkey[k].state = "active"
              /\ \E count \in {passkey[k].device, passkey[k].device + 1} \cap 1..MaxCount :
                   /\ count > passkey[k].counter
                   /\ passkey' = [passkey EXCEPT ![k].device = count]
                   /\ request' = [request EXCEPT ![r] =
                        [at |-> "checked", c |-> c, key |-> k, count |-> count,
                         gen |-> control.gen, kind |-> SessionKind, era |-> era]]
         ELSE /\ request' = [request EXCEPT ![r] =
                   [at |-> "checked", c |-> c, key |-> k, count |-> 0,
                    gen |-> control.gen, kind |-> SessionKind, era |-> era]]
              /\ UNCHANGED passkey
  /\ UNCHANGED <<control, ownerRow, ceremony, grant, session, issuing, era, accepted>>

PurposeOf(r) == ceremony[request[r].c].purpose
Ready(r, purposes) == request[r].at = "checked" /\ PurposeOf(r) \in purposes

\* Conditional updates: a used or revoked row is never consumed again.
ConsumeChallenge(r) == LiveChallenge(request[r].c)
ConsumeGrant(r) == LiveGrant(ceremony[request[r].c].by)
Unregistered(k) == passkey[k].state = "absent"

\* The locked row: still active, and its counter still behind.
SkipsLock(r) == TRUE
RequireLiveCredential(r) ==
  LET k == request[r].key
  IN  passkey[k].state = "active" /\ request[r].count > passkey[k].counter

Opened(s, r) ==
  session' = [session EXCEPT ![s] = [state |-> "open", gen |-> request[r].gen,
    kind |-> request[r].kind, recent |-> TRUE, key |-> request[r].key,
    era |-> request[r].era]]
Used(c) == ceremony' = [ceremony EXCEPT ![c].state = "used"]
Registered(r) ==
  passkey' = [passkey EXCEPT ![request[r].key] =
    [NewPasskey EXCEPT !.state = "active", !.era = request[r].era]]
Answered(r) == request' = [request EXCEPT ![r] = NoRequest]
Counted(r) ==
  /\ passkey' = [passkey EXCEPT ![request[r].key].counter = request[r].count]
  /\ accepted' = accepted \cup {<<request[r].key, request[r].count>>}

CompleteEnrollment(r, s) ==
  LET c == request[r].c
  IN  /\ Ready(r, Enrollment) /\ session[s].state = "none"
      /\ ConsumeGrant(r) /\ Unregistered(request[r].key) /\ ConsumeChallenge(r)
      /\ grant' = [grant EXCEPT ![ceremony[c].by].state = "used"]
      /\ ownerRow' = TRUE
      /\ Registered(r) /\ Used(c) /\ Opened(s, r) /\ Answered(r)
      /\ UNCHANGED <<control, issuing, era, accepted>>

CompleteLogin(r, s) ==
  /\ Ready(r, {"login"}) /\ session[s].state = "none"
  /\ ConsumeChallenge(r) /\ RequireLiveCredential(r)
  /\ Used(request[r].c) /\ Counted(r) /\ Opened(s, r) /\ Answered(r)
  /\ UNCHANGED <<control, ownerRow, grant, issuing, era>>

CompleteReverification(r) ==
  /\ Ready(r, {"reverify"})
  /\ ConsumeChallenge(r) /\ RequireLiveCredential(r)
  /\ Used(request[r].c) /\ Counted(r) /\ Answered(r)
  /\ session' = [session EXCEPT ![ceremony[request[r].c].by].recent = TRUE]
  /\ UNCHANGED <<control, ownerRow, grant, issuing, era>>

CompleteAddition(r) ==
  /\ Ready(r, {"add_credential"})
  /\ ConsumeChallenge(r) /\ Unregistered(request[r].key)
  /\ Registered(r) /\ Used(request[r].c) /\ Answered(r)
  /\ UNCHANGED <<control, ownerRow, grant, session, issuing, era, accepted>>

\* The transaction refuses and nothing changed, or the request was given up.
Refuse(r) ==
  /\ request[r].at # "idle" /\ Answered(r)
  /\ UNCHANGED <<ceremony, Rows>>

-----------------------------------------------------------------------------
(* Sessions and passkeys.                                                  *)

RevokeSession(s) ==
  /\ VerifySession(s)
  /\ session' = [session EXCEPT ![s].state = "revoked"]
  /\ UNCHANGED <<control, ownerRow, passkey, ceremony, grant, request, issuing, era, accepted>>

\* Five minutes pass since the last verification.
VerificationAges(s) ==
  /\ session[s].recent
  /\ session' = [session EXCEPT ![s].recent = FALSE]
  /\ UNCHANGED <<control, ownerRow, passkey, ceremony, grant, request, issuing, era, accepted>>

AskRemoval(r, s, k) ==
  /\ request[r].at = "idle" /\ VerifySession(s) /\ RecentlyVerified(s)
  /\ request' = [request EXCEPT ![r] =
       [at |-> "removing", key |-> k, left |-> Cardinality(ActiveKeys)]]
  /\ UNCHANGED <<ceremony, Rows>>

\* Counted again under the owner's row lock.
CountedBefore(r) == request[r].left > 1
OthersRemain(r) == Cardinality(ActiveKeys) > 1

RemoveCredential(r) ==
  /\ request[r].at = "removing"
  /\ passkey[request[r].key].state = "active" /\ OthersRemain(r)
  /\ passkey' = [passkey EXCEPT ![request[r].key].state = "revoked"]
  /\ Answered(r)
  /\ UNCHANGED <<control, ownerRow, ceremony, grant, session, issuing, era, accepted>>

-----------------------------------------------------------------------------
(* The operator.                                                           *)

Withdrawn(purpose, g) ==
  IF LiveGrant(g) /\ grant[g].purpose = purpose
  THEN [grant[g] EXCEPT !.state = "revoked"] ELSE grant[g]

\* Under the lock of the purpose the owner is looked for once more.
BeginBootstrap ==
  /\ ~issuing /\ ~ownerRow /\ Agrees
  /\ issuing' = TRUE
  /\ UNCHANGED <<control, ownerRow, passkey, ceremony, grant, session, request, era, accepted>>

\* An enrollment may commit in between; the grant is issued all the same.
IssueBootstrapGrant(g) ==
  /\ issuing /\ grant[g].state = "none"
  /\ grant' = [h \in Grant |-> IF h = g THEN [state |-> "live", purpose |-> "bootstrap"]
                               ELSE Withdrawn("bootstrap", h)]
  /\ issuing' = FALSE
  /\ UNCHANGED <<control, ownerRow, passkey, ceremony, session, request, era, accepted>>

Revoked(row, live) == IF row.state \in live THEN [row EXCEPT !.state = "revoked"] ELSE row

KeepsChallenges == UNCHANGED ceremony
RevokesChallenges == ceremony' = [c \in Ceremony |-> Revoked(ceremony[c], {"live"})]

RevokeAllAuthState ==
  /\ passkey' = [k \in Passkey |-> Revoked(passkey[k], {"active"})]
  /\ session' = [s \in Session |-> Revoked(session[s], {"open"})]
  /\ RevokesChallenges
  /\ era' = era + 1

IssueRecoveryGrant(g) ==
  /\ ownerRow /\ grant[g].state = "none" /\ era < MaxEra
  /\ RevokeAllAuthState
  /\ grant' = [h \in Grant |-> IF h = g THEN [state |-> "live", purpose |-> "recovery"]
                               ELSE Revoked(grant[h], {"live"})]
  /\ UNCHANGED <<control, ownerRow, request, issuing, accepted>>

\* A new deployment generation; nothing is granted until recovery begins.
Restore ==
  /\ control.gen = 1 /\ era < MaxEra /\ control' = [gen |-> 2, mode |-> "behind"]
  /\ UNCHANGED <<ownerRow, passkey, ceremony, grant, session, request, issuing, era, accepted>>

BeginRecovery ==
  /\ control.mode = "behind" /\ control' = [control EXCEPT !.mode = "reconciling"]
  /\ RevokeAllAuthState
  /\ grant' = [h \in Grant |-> Revoked(grant[h], {"live"})]
  /\ UNCHANGED <<ownerRow, request, issuing, accepted>>

HasRegisteredOwner == ownerRow /\ ActiveKeys # {}

CompleteRecovery ==
  /\ control.mode = "reconciling" /\ HasRegisteredOwner
  /\ control' = [control EXCEPT !.mode = "ready"]
  /\ UNCHANGED <<ownerRow, passkey, ceremony, grant, session, request, issuing, era, accepted>>

-----------------------------------------------------------------------------
\* The requests a browser makes.
Browser ==
  \/ \E c \in Ceremony :
       \/ \E purpose \in Purpose, by \in Grant \cup Session \cup {None} :
            StartCeremony(c, purpose, by)
       \/ IssueChallenge(c)
       \/ \E r \in Request, k \in Passkey : Check(r, c, k)
  \/ \E r \in Request :
       \/ \E s \in Session : CompleteEnrollment(r, s) \/ CompleteLogin(r, s)
       \/ CompleteReverification(r) \/ CompleteAddition(r) \/ RemoveCredential(r) \/ Refuse(r)
       \/ \E s \in Session, k \in Passkey : AskRemoval(r, s, k)
  \/ \E s \in Session : RevokeSession(s) \/ VerificationAges(s)

Operator ==
  \/ BeginBootstrap \/ Restore \/ BeginRecovery \/ CompleteRecovery
  \/ \E g \in Grant : IssueBootstrapGrant(g) \/ IssueRecoveryGrant(g)

Next == Browser \/ Operator

Spec == Init /\ [][Next]_vars

-----------------------------------------------------------------------------
TypeOK ==
  /\ control.gen \in 1..2 /\ control.mode \in {"ready", "reconciling", "behind"}
  /\ \A k \in Passkey : /\ passkey[k].state \in {"absent", "active", "revoked"}
                        /\ passkey[k].counter \in 0..MaxCount
  /\ \A c \in Ceremony : /\ ceremony[c].state \in {"none", "starting", "live", "used", "revoked"}
                         /\ ceremony[c].purpose \in Purpose
  /\ \A g \in Grant : grant[g].state \in {"none", "live", "used", "revoked"}
  /\ \A s \in Session : /\ session[s].state \in {"none", "open", "revoked"}
                       /\ session[s].kind \in {"standard", "inspection"}
  /\ \A r \in Request : request[r].at \in {"idle", "checked", "removing"}

(* What was revoked together stays revoked: an open session was opened,    *)
(* and its passkey registered, on checks made after the last emergency or  *)
(* restore, whatever was in flight when everything was revoked             *)
(* (consumeChallenge, consumeGrant, requireLiveCredential).                *)
NothingOutlivesRevocation ==
  /\ \A s \in Session : session[s].state = "open" =>
       session[s].era = era /\ passkey[session[s].key].era = era
  /\ \A k \in ActiveKeys : passkey[k].era = era

(* Only revoking everything leaves the owner without a passkey: removals   *)
(* that run together never take the last two (lockOwner).                  *)
LeavesAPasskey == ActiveKeys # {} /\ ActiveKeys' = {} => era' # era

(* No assertion is accepted twice: an accepted signature count is never    *)
(* ahead of the stored counter, which therefore never regresses, and       *)
(* setup registers one passkey only (requireLiveCredential, consumeGrant). *)
AcceptedOnce ==
  /\ \A used \in accepted : used[2] <= passkey[used[1]].counter
  /\ Cardinality({g \in Grant : grant[g].purpose = "bootstrap" /\ grant[g].state = "used"}) <= 1
=============================================================================
