----------------------------- MODULE AuthProofs -----------------------------
(***************************************************************************)
(* What the revocation of everything ends, for any number of passkeys,     *)
(* ceremonies, grants, sessions and requests in flight, the passkey that   *)
(* removals leave, and the single acceptance of an assertion.              *)
(*                                                                         *)
(* The argument: a request commits only if its challenge is still live     *)
(* under the lock.  A revocation reaches every challenge that was live     *)
(* when a request checked it, so a request that can still commit made its  *)
(* checks after the last one.                                              *)
(***************************************************************************)
EXTENDS Auth, FiniteSetTheorems, TLAPS

(* The authenticators are finitely many, and there is one.                 *)
SomePasskeys == Passkey # {} /\ IsFiniteSet(Passkey)

-----------------------------------------------------------------------------
(* The strengthening.                                                      *)

PasskeyFields == {"state", "counter", "device", "era"}
CeremonyFields == {"state", "purpose", "gen", "by"}
SessionFields == {"state", "gen", "kind", "recent", "key", "era"}

PasskeysOK ==
    /\ DOMAIN passkey = Passkey /\ era \in Nat
    /\ \A k \in Passkey : DOMAIN passkey[k] = PasskeyFields
    /\ \A k \in Passkey : passkey[k].state = "active" => passkey[k].era = era

CeremoniesOK ==
    /\ DOMAIN ceremony = Ceremony
    /\ \A c \in Ceremony : DOMAIN ceremony[c] = CeremonyFields

SessionsOK ==
    /\ DOMAIN session = Session
    /\ \A s \in Session : DOMAIN session[s] = SessionFields
    /\ \A s \in Session : session[s].state = "open" =>
         session[s].era = era /\ session[s].key \in Passkey /\ passkey[session[s].key].era = era

(* A request that was checked made its checks after the last revocation,   *)
(* or its challenge is no longer live, and never will be.                  *)
RequestOK(q) ==
    /\ q.at = "checked" =>
        /\ q.c \in Ceremony /\ q.key \in Passkey
        /\ ceremony[q.c].state \notin {"none", "starting"}
        /\ ceremony[q.c].state = "live" => q.era = era
    /\ q.at = "removing" => q.key \in Passkey

RequestsOK == DOMAIN request = Request /\ \A r \in Request : RequestOK(request[r])

IInv == PasskeysOK /\ CeremoniesOK /\ SessionsOK /\ RequestsOK

LEMMA Implied == IInv => NothingOutlivesRevocation
BY DEF IInv, PasskeysOK, SessionsOK, NothingOutlivesRevocation, ActiveKeys

LEMMA InitInv == SomePasskeys /\ Init => IInv
<1> SUFFICES ASSUME SomePasskeys, Init PROVE IInv
    OBVIOUS
<1>1. (CHOOSE k \in Passkey : TRUE) \in Passkey
    BY DEF SomePasskeys
<1>2. PasskeysOK
    BY DEF Init, PasskeysOK, NewPasskey, PasskeyFields
<1>3. CeremoniesOK
    BY DEF Init, CeremoniesOK, NewCeremony, CeremonyFields
<1>4. SessionsOK
    <2> DEFINE first == CHOOSE one \in Session : TRUE
               key == CHOOSE k \in Passkey : TRUE
               old == [NewSession EXCEPT !.state = "open", !.recent = TRUE, !.key = key]
    <2>1. session = [s \in Session |-> IF Settled /\ s = first THEN old ELSE NewSession]
        BY DEF Init
    <2>2. DOMAIN old = SessionFields /\ old.era = 0 /\ old.key = key
        BY DEF NewSession, SessionFields
    <2>3. DOMAIN NewSession = SessionFields /\ NewSession.state = "none"
        BY DEF NewSession, SessionFields
    <2>4. era = 0 /\ key \in Passkey /\ \A k \in Passkey : passkey[k].era = 0
        BY <1>1 DEF Init, NewPasskey
    <2> HIDE DEF first, key, old
    <2>5. QED BY <2>1, <2>2, <2>3, <2>4 DEF SessionsOK
<1>5. RequestsOK
    BY DEF Init, RequestsOK, RequestOK, NoRequest
<1>6. QED BY <1>2, <1>3, <1>4, <1>5 DEF IInv

-----------------------------------------------------------------------------
(* What the actions are made of.                                           *)

(* Requests only see the ceremonies and the era: no challenge becomes live *)
(* again and the era stays.                                                *)
LEMMA RequestsStay ==
    ASSUME IInv, UNCHANGED <<request, era>>,
           \A c \in Ceremony : ceremony[c].state \notin {"none", "starting"} =>
               ceremony'[c].state \in {ceremony[c].state, "used", "revoked"}
    PROVE  RequestsOK'
BY DEF IInv, RequestsOK, RequestOK

(* A request that is answered leaves the others as they are.               *)
LEMMA AnsweredStay ==
    ASSUME IInv, NEW r \in Request, Answered(r), UNCHANGED era,
           \A c \in Ceremony : ceremony[c].state \notin {"none", "starting"} =>
               ceremony'[c].state \in {ceremony[c].state, "used", "revoked"}
    PROVE  RequestsOK'
BY DEF IInv, RequestsOK, RequestOK, Answered, NoRequest

LEMMA UsedOK ==
    ASSUME CeremoniesOK, NEW c, Used(c)
    PROVE  /\ CeremoniesOK'
           /\ \A d \in Ceremony : ceremony'[d].state \in {ceremony[d].state, "used"}
BY DEF CeremoniesOK, CeremonyFields, Used

(* The stored counter moves, the passkey stays what it was.                *)
LEMMA CountedOK ==
    ASSUME IInv, NEW r, Counted(r), UNCHANGED era
    PROVE  PasskeysOK' /\ \A k \in Passkey : /\ passkey'[k].era = passkey[k].era
                                             /\ passkey'[k].state = passkey[k].state
BY DEF IInv, PasskeysOK, PasskeyFields, Counted

LEMMA RegisteredOK ==
    ASSUME IInv, NEW r, request[r].key \in Passkey, request[r].era = era, Registered(r),
           UNCHANGED era
    PROVE  /\ PasskeysOK' /\ passkey'[request[r].key].era = era
           /\ \A k \in Passkey : passkey[k].era = era => passkey'[k].era = era
<1> DEFINE new == [NewPasskey EXCEPT !.state = "active", !.era = request[r].era]
           key == request[r].key
<1>1. DOMAIN new = PasskeyFields /\ new.era = era
    BY DEF NewPasskey, PasskeyFields
<1>2. passkey' = [passkey EXCEPT ![key] = new]
    BY DEF Registered
<1> HIDE DEF new
<1>3. QED BY <1>1, <1>2 DEF IInv, PasskeysOK

(* Sessions survive when no era of a passkey is lost.                      *)
LEMMA SessionsStay ==
    ASSUME IInv, UNCHANGED <<session, era>>,
           \A k \in Passkey : passkey[k].era = era => passkey'[k].era = era
    PROVE  SessionsOK'
BY DEF IInv, SessionsOK

LEMMA OpenedOK ==
    ASSUME IInv, UNCHANGED era, NEW s \in Session, NEW r, Opened(s, r),
           request[r].key \in Passkey, request[r].era = era,
           passkey'[request[r].key].era = era,
           \A k \in Passkey : passkey[k].era = era => passkey'[k].era = era
    PROVE  SessionsOK'
<1> DEFINE new == [state |-> "open", gen |-> request[r].gen, kind |-> request[r].kind,
                   recent |-> TRUE, key |-> request[r].key, era |-> request[r].era]
<1>1. /\ DOMAIN new = SessionFields /\ new.era = era /\ new.key = request[r].key
    BY DEF SessionFields
<1>2. session' = [session EXCEPT ![s] = new]
    BY DEF Opened
<1> HIDE DEF new
<1>3. QED BY <1>1, <1>2 DEF IInv, SessionsOK

(* Of a session only the state, to revoked, or the age of its last         *)
(* verification changes.                                                   *)
LEMMA SessionMoves ==
    ASSUME IInv, UNCHANGED era, NEW s, NEW b \in BOOLEAN,
           \/ session' = [session EXCEPT ![s].state = "revoked"]
           \/ session' = [session EXCEPT ![s].recent = b],
           \A k \in Passkey : passkey[k].era = era => passkey'[k].era = era
    PROVE  SessionsOK'
BY DEF IInv, SessionsOK, SessionFields

-----------------------------------------------------------------------------
(* One lemma for each action that could disturb the invariant.             *)

LEMMA StartInv ==
    ASSUME IInv, NEW c \in Ceremony, NEW purpose, NEW by, StartCeremony(c, purpose, by)
    PROVE  IInv'
<1> DEFINE new == [state |-> "starting", purpose |-> purpose, gen |-> control.gen, by |-> by]
<1>1. DOMAIN new = CeremonyFields
    BY DEF CeremonyFields
<1>2. /\ ceremony' = [ceremony EXCEPT ![c] = new] /\ ceremony[c].state = "none"
      /\ UNCHANGED <<passkey, session, era, request>>
    BY DEF StartCeremony, Rows
<1> HIDE DEF new
<1>3. CeremoniesOK'
    BY <1>1, <1>2 DEF IInv, CeremoniesOK
<1>4. \A d \in Ceremony : ceremony[d].state \notin {"none", "starting"} =>
          ceremony'[d].state = ceremony[d].state
    BY <1>2 DEF IInv, CeremoniesOK
<1>5. RequestsOK'
    BY <1>2, <1>4, RequestsStay
<1>6. QED BY <1>2, <1>3, <1>5 DEF IInv, PasskeysOK, SessionsOK

LEMMA IssueInv ==
    ASSUME IInv, NEW c \in Ceremony, IssueChallenge(c)
    PROVE  IInv'
<1>1. /\ ceremony' = [ceremony EXCEPT ![c].state = "live"] /\ ceremony[c].state = "starting"
      /\ UNCHANGED <<passkey, session, era, request>>
    BY DEF IssueChallenge, Rows
<1>2. CeremoniesOK'
    BY <1>1 DEF IInv, CeremoniesOK, CeremonyFields
<1>3. \A d \in Ceremony : ceremony[d].state \notin {"none", "starting"} =>
          ceremony'[d].state = ceremony[d].state
    BY <1>1 DEF IInv, CeremoniesOK
<1>4. RequestsOK'
    BY <1>1, <1>3, RequestsStay
<1>5. QED BY <1>1, <1>2, <1>4 DEF IInv, PasskeysOK, SessionsOK

(* The checks are made in the current era, with the challenge live.        *)
LEMMA CheckInv ==
    ASSUME IInv, NEW r \in Request, NEW c \in Ceremony, NEW k \in Passkey, Check(r, c, k)
    PROVE  IInv'
<1>1. PICK count :
          request' = [request EXCEPT ![r] =
              [at |-> "checked", c |-> c, key |-> k, count |-> count,
               gen |-> control.gen, kind |-> SessionKind, era |-> era]]
    BY DEF Check
<1> DEFINE q == [at |-> "checked", c |-> c, key |-> k, count |-> count,
                 gen |-> control.gen, kind |-> SessionKind, era |-> era]
<1>2. /\ ceremony[c].state = "live" /\ UNCHANGED <<ceremony, session, era>>
      /\ UNCHANGED passkey \/ \E n : passkey' = [passkey EXCEPT ![k].device = n]
    BY DEF Check, LiveChallenge
<1>3. RequestOK(q)
    BY <1>2 DEF RequestOK
<1>4. request' = [request EXCEPT ![r] = q]
    BY <1>1
<1> HIDE DEF q
<1>5. RequestsOK'
    <2>1. SUFFICES ASSUME NEW p \in Request PROVE RequestOK(request[p])'
        BY <1>4 DEF IInv, RequestsOK
    <2>2. RequestOK(request'[p])
        BY <1>3, <1>4 DEF IInv, RequestsOK
    <2>3. QED BY <1>2, <2>2 DEF RequestOK
<1>6. PasskeysOK' /\ \A p \in Passkey : passkey'[p].era = passkey[p].era
    BY <1>2 DEF IInv, PasskeysOK, PasskeyFields
<1>7. SessionsOK'
    BY <1>2, <1>6, SessionsStay
<1>8. QED BY <1>2, <1>5, <1>6, <1>7 DEF IInv, CeremoniesOK

(* What a request that may commit was checked in: the current era.         *)
LEMMA CommitsInEra ==
    ASSUME IInv, NEW r \in Request, request[r].at = "checked", ConsumeChallenge(r)
    PROVE  request[r].key \in Passkey /\ request[r].era = era /\ request[r].c \in Ceremony
BY DEF IInv, RequestsOK, RequestOK, ConsumeChallenge, LiveChallenge

LEMMA CompletionInv ==
    ASSUME IInv, NEW r \in Request, Used(request[r].c), Answered(r), UNCHANGED era,
           PasskeysOK', SessionsOK'
    PROVE  IInv'
<1>1. /\ CeremoniesOK'
      /\ \A d \in Ceremony : ceremony'[d].state \in {ceremony[d].state, "used"}
    BY UsedOK DEF IInv
<1>2. RequestsOK'
    BY <1>1, AnsweredStay
<1>3. QED BY <1>1, <1>2 DEF IInv

LEMMA EnrollmentInv ==
    ASSUME IInv, NEW r \in Request, NEW s \in Session, CompleteEnrollment(r, s)
    PROVE  IInv'
<1>1. /\ request[r].at = "checked" /\ ConsumeChallenge(r) /\ UNCHANGED era
      /\ Registered(r) /\ Used(request[r].c) /\ Opened(s, r) /\ Answered(r)
    BY DEF CompleteEnrollment, Ready
<1>2. request[r].key \in Passkey /\ request[r].era = era
    BY <1>1, CommitsInEra
<1>3. /\ PasskeysOK' /\ passkey'[request[r].key].era = era
      /\ \A k \in Passkey : passkey[k].era = era => passkey'[k].era = era
    BY <1>1, <1>2, RegisteredOK
<1>4. SessionsOK'
    BY <1>1, <1>2, <1>3, OpenedOK
<1>5. QED BY <1>1, <1>3, <1>4, CompletionInv

LEMMA LoginInv ==
    ASSUME IInv, NEW r \in Request, NEW s \in Session, CompleteLogin(r, s)
    PROVE  IInv'
<1>1. /\ request[r].at = "checked" /\ ConsumeChallenge(r) /\ UNCHANGED era
      /\ Counted(r) /\ Used(request[r].c) /\ Opened(s, r) /\ Answered(r)
      /\ passkey[request[r].key].state = "active"
    BY DEF CompleteLogin, Ready, RequireLiveCredential
<1>2. request[r].key \in Passkey /\ request[r].era = era
    BY <1>1, CommitsInEra
<1>3. passkey[request[r].key].era = era
    BY <1>1, <1>2 DEF IInv, PasskeysOK
<1>4. PasskeysOK' /\ \A k \in Passkey : passkey'[k].era = passkey[k].era
    BY <1>1, CountedOK
<1>5. SessionsOK'
    BY <1>1, <1>2, <1>3, <1>4, OpenedOK
<1>6. QED BY <1>1, <1>4, <1>5, CompletionInv

LEMMA ReverificationInv ==
    ASSUME IInv, NEW r \in Request, CompleteReverification(r)
    PROVE  IInv'
<1>1. /\ Counted(r) /\ Used(request[r].c) /\ Answered(r) /\ UNCHANGED era
      /\ session' = [session EXCEPT ![ceremony[request[r].c].by].recent = TRUE]
    BY DEF CompleteReverification
<1>2. PasskeysOK' /\ \A k \in Passkey : passkey'[k].era = passkey[k].era
    BY <1>1, CountedOK
<1>3. SessionsOK'
    BY <1>1, <1>2, SessionMoves
<1>4. QED BY <1>1, <1>2, <1>3, CompletionInv

LEMMA AdditionInv ==
    ASSUME IInv, NEW r \in Request, CompleteAddition(r)
    PROVE  IInv'
<1>1. /\ request[r].at = "checked" /\ ConsumeChallenge(r) /\ UNCHANGED <<session, era>>
      /\ Registered(r) /\ Used(request[r].c) /\ Answered(r)
    BY DEF CompleteAddition, Ready
<1>2. request[r].key \in Passkey /\ request[r].era = era
    BY <1>1, CommitsInEra
<1>3. /\ PasskeysOK'
      /\ \A k \in Passkey : passkey[k].era = era => passkey'[k].era = era
    BY <1>1, <1>2, RegisteredOK
<1>4. SessionsOK'
    BY <1>1, <1>3, SessionsStay
<1>5. QED BY <1>1, <1>3, <1>4, CompletionInv

LEMMA RemovalInv ==
    ASSUME IInv, NEW r \in Request, RemoveCredential(r)
    PROVE  IInv'
<1>1. /\ passkey' = [passkey EXCEPT ![request[r].key].state = "revoked"]
      /\ Answered(r) /\ UNCHANGED <<ceremony, session, era>>
    BY DEF RemoveCredential
<1>2. PasskeysOK' /\ \A k \in Passkey : passkey'[k].era = passkey[k].era
    BY <1>1 DEF IInv, PasskeysOK, PasskeyFields
<1>3. SessionsOK'
    BY <1>1, <1>2, SessionsStay
<1>4. RequestsOK'
    BY <1>1, AnsweredStay
<1>5. QED BY <1>1, <1>2, <1>3, <1>4 DEF IInv, CeremoniesOK

LEMMA AskInv ==
    ASSUME IInv, NEW r \in Request, NEW s, NEW k \in Passkey, AskRemoval(r, s, k)
    PROVE  IInv'
<1> DEFINE q == [at |-> "removing", key |-> k, left |-> Cardinality(ActiveKeys)]
<1>1. request' = [request EXCEPT ![r] = q] /\ UNCHANGED <<ceremony, passkey, session, era>>
    BY DEF AskRemoval, Rows
<1>2. RequestOK(q)
    BY DEF RequestOK
<1> HIDE DEF q
<1>3. RequestsOK'
    <2>1. SUFFICES ASSUME NEW p \in Request PROVE RequestOK(request[p])'
        BY <1>1 DEF IInv, RequestsOK
    <2>2. RequestOK(request'[p])
        BY <1>1, <1>2 DEF IInv, RequestsOK
    <2>3. QED BY <1>1, <2>2 DEF RequestOK
<1>4. QED BY <1>1, <1>3 DEF IInv, PasskeysOK, CeremoniesOK, SessionsOK

(* After a revocation of everything nothing is active, open or live.       *)
LEMMA RevokeAllInv ==
    ASSUME IInv, RevokeAllAuthState, UNCHANGED request
    PROVE  IInv'
<1>1. PasskeysOK'
    BY DEF IInv, PasskeysOK, PasskeyFields, RevokeAllAuthState, Revoked
<1>2. CeremoniesOK' /\ \A c \in Ceremony :
          /\ ceremony'[c].state # "live"
          /\ ceremony[c].state \notin {"none", "starting"} =>
                 ceremony'[c].state \notin {"none", "starting"}
    BY DEF IInv, CeremoniesOK, CeremonyFields, RevokeAllAuthState, RevokesChallenges, Revoked
<1>3. SessionsOK'
    BY DEF IInv, SessionsOK, SessionFields, RevokeAllAuthState, Revoked
<1>4. RequestsOK'
    BY <1>2 DEF IInv, RequestsOK, RequestOK
<1>5. QED BY <1>1, <1>2, <1>3, <1>4 DEF IInv

LEMMA StepInv == IInv /\ [Next]_vars => IInv'
<1> SUFFICES ASSUME IInv, [Next]_vars PROVE IInv'
    OBVIOUS
<1>1. CASE UNCHANGED <<passkey, ceremony, session, request, era>>
    BY <1>1 DEF IInv, PasskeysOK, CeremoniesOK, SessionsOK, RequestsOK, RequestOK
<1>2. CASE UNCHANGED vars
    BY <1>1, <1>2 DEF vars
<1>3. CASE Browser
    <2>1. ASSUME NEW c \in Ceremony, NEW purpose, NEW by, StartCeremony(c, purpose, by)
          PROVE  IInv'
        BY <2>1, StartInv
    <2>2. ASSUME NEW c \in Ceremony, IssueChallenge(c) PROVE IInv'
        BY <2>2, IssueInv
    <2>3. ASSUME NEW c \in Ceremony, NEW r \in Request, NEW k \in Passkey, Check(r, c, k)
          PROVE  IInv'
        BY <2>3, CheckInv
    <2>4. ASSUME NEW r \in Request, Refuse(r) PROVE IInv'
        <3>1. Answered(r) /\ UNCHANGED <<ceremony, passkey, session, era>>
            BY <2>4 DEF Refuse, Rows
        <3>2. RequestsOK'
            BY <3>1, AnsweredStay
        <3>3. QED BY <3>1, <3>2 DEF IInv, PasskeysOK, CeremoniesOK, SessionsOK
    <2>5. ASSUME NEW s \in Session, RevokeSession(s) \/ VerificationAges(s) PROVE IInv'
        <3>1. /\ UNCHANGED <<passkey, ceremony, request, era>>
              /\ \/ session' = [session EXCEPT ![s].state = "revoked"]
                 \/ session' = [session EXCEPT ![s].recent = FALSE]
            BY <2>5 DEF RevokeSession, VerificationAges
        <3>2. SessionsOK'
            BY <3>1, SessionMoves
        <3>3. QED BY <3>1, <3>2 DEF IInv, PasskeysOK, CeremoniesOK, RequestsOK, RequestOK
    <2>6. ASSUME NEW r \in Request,
                 \/ \E s \in Session : CompleteEnrollment(r, s) \/ CompleteLogin(r, s)
                 \/ CompleteReverification(r) \/ CompleteAddition(r) \/ RemoveCredential(r)
                 \/ \E s \in Session, k \in Passkey : AskRemoval(r, s, k)
          PROVE  IInv'
        BY <2>6, EnrollmentInv, LoginInv, ReverificationInv, AdditionInv, RemovalInv, AskInv
    <2>7. QED BY <1>3, <2>1, <2>2, <2>3, <2>4, <2>5, <2>6 DEF Browser
<1>4. CASE Operator
    <2>1. CASE BeginBootstrap \/ Restore \/ CompleteRecovery
        BY <1>1, <2>1 DEF BeginBootstrap, Restore, CompleteRecovery
    <2>2. CASE BeginRecovery
        BY <2>2, RevokeAllInv DEF BeginRecovery
    <2>3. ASSUME NEW g \in Grant, IssueBootstrapGrant(g) PROVE IInv'
        BY <1>1, <2>3 DEF IssueBootstrapGrant
    <2>4. ASSUME NEW g \in Grant, IssueRecoveryGrant(g) PROVE IInv'
        BY <2>4, RevokeAllInv DEF IssueRecoveryGrant
    <2>5. QED BY <1>4, <2>1, <2>2, <2>3, <2>4 DEF Operator
<1>5. QED BY <1>2, <1>3, <1>4 DEF Next

-----------------------------------------------------------------------------
(* Only revoking everything ends the last passkey.                         *)

LEMMA RemovalLeaves ==
    ASSUME SomePasskeys, IInv, NEW r \in Request, RemoveCredential(r)
    PROVE  ActiveKeys' # {}
<1> DEFINE k == request[r].key
<1>1. ActiveKeys' = ActiveKeys \ {k}
    BY DEF RemoveCredential, ActiveKeys, IInv, PasskeysOK, PasskeyFields
<1>2. IsFiniteSet(ActiveKeys)
    <2>1. ActiveKeys \in SUBSET Passkey
        BY DEF ActiveKeys
    <2>2. QED BY <2>1, FS_Subset DEF SomePasskeys
<1>3. Cardinality(ActiveKeys) \in Nat /\ Cardinality(ActiveKeys) > 1
    BY <1>2, FS_CardinalityType DEF RemoveCredential, OthersRemain
<1>4. ActiveKeys # {}
    BY <1>3, FS_EmptySet
<1>5. ActiveKeys # {k}
    <2>1. Cardinality({k}) = 1
        BY FS_Singleton
    <2>2. QED BY <1>3, <2>1
<1>6. QED BY <1>1, <1>4, <1>5

LEMMA LastPasskey == SomePasskeys /\ IInv /\ [Next]_vars => [LeavesAPasskey]_vars
<1> SUFFICES ASSUME SomePasskeys, IInv, Next PROVE LeavesAPasskey
    BY DEF vars
<1>1. CASE \A k \in Passkey : passkey[k].state = "active" => passkey'[k].state = "active"
    BY <1>1 DEF LeavesAPasskey, ActiveKeys
<1>2. CASE RevokeAllAuthState
    BY <1>2 DEF LeavesAPasskey, RevokeAllAuthState, IInv, PasskeysOK
<1>3. ASSUME NEW r \in Request, RemoveCredential(r) PROVE LeavesAPasskey
    BY <1>3, RemovalLeaves DEF LeavesAPasskey
<1>4. ASSUME NEW r \in Request, Counted(r) PROVE LeavesAPasskey
    BY <1>1, <1>4 DEF Counted, IInv, PasskeysOK, PasskeyFields
<1>5. ASSUME NEW r \in Request, Registered(r) PROVE LeavesAPasskey
    <2> DEFINE new == [NewPasskey EXCEPT !.state = "active", !.era = request[r].era]
    <2>1. new.state = "active"
        BY DEF NewPasskey
    <2>2. passkey' = [passkey EXCEPT ![request[r].key] = new]
        BY <1>5 DEF Registered
    <2> HIDE DEF new
    <2>3. QED BY <1>1, <2>1, <2>2 DEF IInv, PasskeysOK
<1>6. ASSUME NEW r \in Request, NEW c \in Ceremony, NEW k \in Passkey, Check(r, c, k)
      PROVE  LeavesAPasskey
    <2>1. UNCHANGED passkey \/ \E n : passkey' = [passkey EXCEPT ![k].device = n]
        BY <1>6 DEF Check
    <2>2. QED BY <1>1, <2>1 DEF IInv, PasskeysOK, PasskeyFields
<1>7. CASE UNCHANGED passkey
    BY <1>1, <1>7
<1>8. CASE Browser
    <2>1. ASSUME NEW c \in Ceremony, NEW purpose, NEW by,
                 StartCeremony(c, purpose, by) \/ IssueChallenge(c)
          PROVE  LeavesAPasskey
        BY <1>7, <2>1 DEF StartCeremony, IssueChallenge, Rows
    <2>2. ASSUME NEW r \in Request, NEW s \in Session,
                 CompleteEnrollment(r, s) \/ CompleteLogin(r, s)
          PROVE  LeavesAPasskey
        BY <1>4, <1>5, <2>2 DEF CompleteEnrollment, CompleteLogin
    <2>3. ASSUME NEW r \in Request,
                 \/ CompleteReverification(r) \/ CompleteAddition(r) \/ Refuse(r)
                 \/ \E s \in Session, k \in Passkey : AskRemoval(r, s, k)
          PROVE  LeavesAPasskey
        BY <1>4, <1>5, <1>7, <2>3
           DEF CompleteReverification, CompleteAddition, Refuse, AskRemoval, Rows
    <2>4. ASSUME NEW s \in Session, RevokeSession(s) \/ VerificationAges(s)
          PROVE  LeavesAPasskey
        BY <1>7, <2>4 DEF RevokeSession, VerificationAges
    <2>5. QED BY <1>3, <1>6, <1>8, <2>1, <2>2, <2>3, <2>4 DEF Browser
<1>9. CASE Operator
    BY <1>2, <1>7, <1>9 DEF Operator, BeginBootstrap, Restore, BeginRecovery,
       CompleteRecovery, IssueBootstrapGrant, IssueRecoveryGrant
<1>10. QED BY <1>8, <1>9 DEF Next

-----------------------------------------------------------------------------
(* Assertions and grants that are used once.                               *)

(* What was accepted of a passkey is behind its stored counter, and a      *)
(* passkey that was never registered had nothing accepted.                 *)
Behind(used) ==
    /\ used \in Passkey \X Nat /\ passkey[used[1]].state # "absent"
    /\ used[2] <= passkey[used[1]].counter

CountsOK ==
    /\ \A k \in Passkey : passkey[k].counter \in Nat
    /\ \A used \in accepted : Behind(used)
    /\ \A r \in Request : request[r].at = "checked" => request[r].count \in Nat

(* One bootstrap grant is live at a time, and one was used at most: the    *)
(* owner it made stands in the way of the next.                            *)
GrantFields == {"state", "purpose"}
Bootstrap(g, state) == grant[g].purpose = "bootstrap" /\ grant[g].state = state

GrantsOK ==
    /\ DOMAIN grant = Grant /\ \A g \in Grant : DOMAIN grant[g] = GrantFields
    /\ \A g, h \in Grant : Bootstrap(g, "live") /\ Bootstrap(h, "live") => g = h
    /\ \A g, h \in Grant : Bootstrap(g, "used") /\ Bootstrap(h, "used") => g = h
    /\ \A g \in Grant : Bootstrap(g, "used") => ownerRow
    /\ ~ownerRow => \A g \in Grant : grant[g].purpose = "bootstrap"

(* A request that may still enrol with a bootstrap grant found no owner,   *)
(* and there is none yet.                                                  *)
EnrollsOK(q) ==
    q.at = "checked" /\ ceremony[q.c].purpose \in Enrollment =>
        /\ ceremony[q.c].by \in Grant /\ grant[ceremony[q.c].by].state # "none"
        /\ Bootstrap(ceremony[q.c].by, "live") => ~ownerRow

OnceInv == CountsOK /\ GrantsOK /\ \A r \in Request : EnrollsOK(request[r])

LEMMA OnceBegin == Init => OnceInv
<1> SUFFICES ASSUME Init PROVE OnceInv
    OBVIOUS
<1>1. CountsOK
    BY DEF Init, CountsOK, NewPasskey, NoRequest
<1>2. GrantsOK
    BY DEF Init, GrantsOK, GrantFields, Bootstrap, NewGrant
<1>3. \A r \in Request : EnrollsOK(request[r])
    BY DEF Init, EnrollsOK, NoRequest
<1>4. QED BY <1>1, <1>2, <1>3 DEF OnceInv

(* No counter moves, no passkey becomes unregistered.                      *)
LEMMA CountsStay ==
    ASSUME CountsOK, UNCHANGED accepted,
           \A k \in Passkey : /\ passkey'[k].counter = passkey[k].counter
                              /\ passkey[k].state # "absent" => passkey'[k].state # "absent",
           \A r \in Request : \/ request'[r] = request[r]
                              \/ request'[r].at = "checked" => request'[r].count \in Nat
    PROVE  CountsOK'
BY DEF CountsOK, Behind

(* Requests that enrol see neither a grant renewed nor an owner made.      *)
LEMMA EnrollsStay ==
    ASSUME IInv, OnceInv,
           \A r \in Request : request'[r] = request[r] \/ request'[r].at # "checked",
           \A c \in Ceremony : ceremony[c].state \notin {"none", "starting"} =>
               ceremony'[c].purpose = ceremony[c].purpose /\ ceremony'[c].by = ceremony[c].by,
           \A g \in Grant : grant[g].state # "none" =>
               /\ grant'[g].state # "none"
               /\ Bootstrap(g, "live")' => Bootstrap(g, "live") /\ (~ownerRow => ~ownerRow')
    PROVE  \A r \in Request : EnrollsOK(request[r])'
<1> SUFFICES ASSUME NEW r \in Request, request'[r].at = "checked",
                    ceremony'[request'[r].c].purpose \in Enrollment
             PROVE  /\ ceremony'[request'[r].c].by \in Grant
                    /\ grant'[ceremony'[request'[r].c].by].state # "none"
                    /\ Bootstrap(ceremony[request[r].c].by, "live")' => ~ownerRow'
    BY DEF EnrollsOK
<1>1. request'[r] = request[r] /\ RequestOK(request[r])
    BY DEF IInv, RequestsOK
<1> DEFINE c == request[r].c
<1>2. c \in Ceremony /\ ceremony'[c].purpose = ceremony[c].purpose /\ ceremony'[c].by = ceremony[c].by
    BY <1>1 DEF RequestOK
<1> PICK g : g = ceremony[c].by
    OBVIOUS
<1>3. g \in Grant /\ grant[g].state # "none" /\ (Bootstrap(g, "live") => ~ownerRow)
    BY <1>1, <1>2 DEF OnceInv, EnrollsOK
<1>4. grant'[g].state # "none" /\ (Bootstrap(g, "live")' => Bootstrap(g, "live") /\ (~ownerRow => ~ownerRow'))
    BY <1>3
<1>5. QED BY <1>1, <1>2, <1>3, <1>4 DEF Bootstrap

(* A commit that leaves the grants alone.                                  *)
LEMMA OnceCommits ==
    ASSUME IInv, OnceInv, NEW r \in Request, Answered(r),
           UNCHANGED ceremony \/ Used(request[r].c), UNCHANGED <<grant, ownerRow>>, CountsOK'
    PROVE  OnceInv'
<1>1. \A p \in Request : request'[p] = request[p] \/ request'[p].at # "checked"
    BY DEF Answered, NoRequest, IInv, RequestsOK
<1>2. \A c \in Ceremony : ceremony'[c].purpose = ceremony[c].purpose /\ ceremony'[c].by = ceremony[c].by
    BY DEF Used, IInv, CeremoniesOK, CeremonyFields
<1>3. GrantsOK'
    BY DEF OnceInv, GrantsOK, Bootstrap
<1>4. \A p \in Request : EnrollsOK(request[p])'
    BY <1>1, <1>2, EnrollsStay DEF Bootstrap
<1>5. QED BY <1>3, <1>4 DEF OnceInv

(* An assertion is accepted only with a count past the stored one.         *)
LEMMA AcceptCounts ==
    ASSUME IInv, CountsOK, NEW r \in Request, request[r].at = "checked",
           RequireLiveCredential(r), Counted(r), Answered(r)
    PROVE  CountsOK'
<1> DEFINE key == request[r].key
           count == request[r].count
<1>1. key \in Passkey /\ count \in Nat
    BY DEF IInv, RequestsOK, RequestOK, CountsOK
<1>2. passkey[key].state = "active" /\ count > passkey[key].counter /\ passkey[key].counter \in Nat
    BY <1>1 DEF RequireLiveCredential, CountsOK
<1>3. /\ \A k \in Passkey : passkey'[k].state = passkey[k].state
      /\ \A k \in Passkey : k # key => passkey'[k].counter = passkey[k].counter
      /\ passkey'[key].counter = count
    BY <1>1 DEF Counted, IInv, PasskeysOK, PasskeyFields
<1>4. \A k \in Passkey : passkey'[k].counter \in Nat
    BY <1>1, <1>3 DEF CountsOK
<1>5. ASSUME NEW used \in accepted' PROVE Behind(used)'
    <2>1. CASE used \in accepted
        <3>1. /\ used \in Passkey \X Nat /\ passkey[used[1]].state # "absent"
              /\ used[2] <= passkey[used[1]].counter
            BY <2>1 DEF CountsOK, Behind
        <3>2. used[1] \in Passkey /\ used[2] \in Nat
            BY <3>1
        <3>3. used[2] <= passkey'[used[1]].counter
            BY <1>1, <1>2, <1>3, <3>1, <3>2 DEF CountsOK
        <3>4. QED BY <1>3, <3>1, <3>2, <3>3 DEF Behind
    <2>2. CASE used = <<key, count>>
        BY <1>1, <1>2, <1>3, <2>2 DEF Behind
    <2>3. QED BY <1>5, <2>1, <2>2 DEF Counted
<1>6. \A p \in Request : request'[p].at = "checked" => request'[p].count \in Nat
    BY DEF Answered, NoRequest, IInv, RequestsOK, CountsOK
<1>7. QED BY <1>4, <1>5, <1>6 DEF CountsOK

(* A new passkey counts from zero, and had nothing accepted before.        *)
LEMMA RegisterCounts ==
    ASSUME IInv, CountsOK, NEW r \in Request, Registered(r), Unregistered(request[r].key),
           Answered(r), request[r].key \in Passkey, UNCHANGED accepted
    PROVE  CountsOK'
<1> DEFINE new == [NewPasskey EXCEPT !.state = "active", !.era = request[r].era]
           key == request[r].key
<1>1. new.state = "active" /\ new.counter = 0
    BY DEF NewPasskey
<1>2. passkey' = [passkey EXCEPT ![key] = new] /\ passkey[key].state = "absent"
    BY DEF Registered, Unregistered
<1> HIDE DEF new
<1>3. passkey'[key] = new /\ \A k \in Passkey : k # key => passkey'[k] = passkey[k]
    BY <1>2 DEF IInv, PasskeysOK
<1>4. \A k \in Passkey : passkey'[k].counter \in Nat
    BY <1>1, <1>3 DEF CountsOK
<1>5. \A used \in accepted' : Behind(used)'
    BY <1>1, <1>2, <1>3 DEF CountsOK, Behind
<1>6. \A p \in Request : request'[p].at = "checked" => request'[p].count \in Nat
    BY DEF Answered, NoRequest, IInv, RequestsOK, CountsOK
<1>7. QED BY <1>4, <1>5, <1>6 DEF CountsOK

(* The grant an enrolment uses is the only one that could have made an     *)
(* owner.                                                                  *)
LEMMA EnrollsOnce ==
    ASSUME IInv, OnceInv, NEW r \in Request, NEW s \in Session, CompleteEnrollment(r, s)
    PROVE  OnceInv'
<1> DEFINE c == request[r].c
<1> PICK g : g = ceremony[c].by
    OBVIOUS
<1>1. /\ request[r].at = "checked" /\ ceremony[c].purpose \in Enrollment /\ ConsumeChallenge(r)
      /\ grant[g].state = "live" /\ Unregistered(request[r].key)
      /\ grant' = [grant EXCEPT ![g].state = "used"] /\ ownerRow'
      /\ Registered(r) /\ Used(c) /\ Answered(r) /\ UNCHANGED accepted
    BY DEF CompleteEnrollment, Ready, PurposeOf, ConsumeGrant, LiveGrant
<1>2. CountsOK'
    BY <1>1, CommitsInEra, RegisterCounts DEF OnceInv
<1>3. g \in Grant /\ (Bootstrap(g, "live") => ~ownerRow)
    BY <1>1 DEF OnceInv, EnrollsOK
<1>4. /\ DOMAIN grant' = Grant
      /\ \A h \in Grant : /\ DOMAIN grant'[h] = GrantFields
                          /\ grant'[h].purpose = grant[h].purpose
                          /\ h # g => grant'[h].state = grant[h].state
      /\ grant'[g].state = "used"
    BY <1>1, <1>3 DEF OnceInv, GrantsOK, GrantFields
<1>5. ASSUME NEW h \in Grant, Bootstrap(h, "used"), Bootstrap(g, "live") PROVE FALSE
    BY <1>3, <1>5 DEF OnceInv, GrantsOK
<1>6. GrantsOK'
    <2>1. \A h, i \in Grant : Bootstrap(h, "live")' /\ Bootstrap(i, "live")' => h = i
        BY <1>4 DEF Bootstrap, OnceInv, GrantsOK
    <2>2. \A h \in Grant : h # g /\ Bootstrap(h, "used")' => Bootstrap(h, "used")
        BY <1>4 DEF Bootstrap
    <2>3. Bootstrap(g, "used")' => Bootstrap(g, "live")
        BY <1>1, <1>3, <1>4 DEF Bootstrap
    <2>4. \A h, i \in Grant : Bootstrap(h, "used")' /\ Bootstrap(i, "used")' => h = i
        BY <1>5, <2>2, <2>3 DEF OnceInv, GrantsOK
    <2>5. QED BY <1>1, <1>4, <2>1, <2>4 DEF GrantsOK
<1>7. \A p \in Request : request'[p] = request[p] \/ request'[p].at # "checked"
    BY <1>1 DEF Answered, NoRequest, IInv, RequestsOK
<1>8. \A d \in Ceremony : ceremony'[d].purpose = ceremony[d].purpose /\ ceremony'[d].by = ceremony[d].by
    BY <1>1 DEF Used, IInv, CeremoniesOK, CeremonyFields
<1>9. ASSUME NEW h \in Grant, grant[h].state # "none"
      PROVE  /\ grant'[h].state # "none"
             /\ Bootstrap(h, "live")' => Bootstrap(h, "live") /\ (~ownerRow => ~ownerRow')
    <2>1. grant'[h].state # "none"
        BY <1>4, <1>9
    <2>2. ASSUME Bootstrap(h, "live")' PROVE Bootstrap(h, "live") /\ h # g
        BY <1>4, <2>2 DEF Bootstrap
    <2>3. ASSUME Bootstrap(h, "live"), h # g PROVE ~ ~ownerRow
        <3>1. SUFFICES ASSUME ~ownerRow PROVE FALSE
            OBVIOUS
        <3>2. Bootstrap(g, "live")
            BY <1>1, <1>3, <3>1 DEF OnceInv, GrantsOK, Bootstrap
        <3>3. QED BY <1>3, <2>3, <3>2 DEF OnceInv, GrantsOK
    <2>4. QED BY <2>1, <2>2, <2>3
<1>10. \A p \in Request : EnrollsOK(request[p])'
    BY <1>7, <1>8, <1>9, EnrollsStay
<1>11. QED BY <1>2, <1>6, <1>10 DEF OnceInv

LEMMA ChecksOnce ==
    ASSUME IInv, OnceInv, NEW r \in Request, NEW c \in Ceremony, NEW k \in Passkey, Check(r, c, k)
    PROVE  OnceInv'
<1>1. PICK count \in Nat :
          request' = [request EXCEPT ![r] =
              [at |-> "checked", c |-> c, key |-> k, count |-> count,
               gen |-> control.gen, kind |-> SessionKind, era |-> era]]
    <2>1. CASE ceremony[c].purpose \in {"login", "reverify"}
        <3>1. PICK count \in 1 .. MaxCount :
                 /\ count > passkey[k].counter
                 /\ request' = [request EXCEPT ![r] =
                      [at |-> "checked", c |-> c, key |-> k, count |-> count,
                       gen |-> control.gen, kind |-> SessionKind, era |-> era]]
            BY <2>1 DEF Check
        <3>2. count \in Nat
            BY <3>1
        <3>3. QED BY <3>1, <3>2
    <2>2. CASE ceremony[c].purpose \notin {"login", "reverify"}
        BY <2>2 DEF Check
    <2>3. QED BY <2>1, <2>2
<1> DEFINE q == [at |-> "checked", c |-> c, key |-> k, count |-> count,
                 gen |-> control.gen, kind |-> SessionKind, era |-> era]
<1>2. /\ UNCHANGED <<ceremony, grant, ownerRow, accepted>>
      /\ UNCHANGED passkey \/ \E n : passkey' = [passkey EXCEPT ![k].device = n]
      /\ Allowed(ceremony[c].purpose, ceremony[c].by)
    BY DEF Check
<1>3. q.at = "checked" /\ q.c = c /\ q.count = count
    OBVIOUS
<1>4. request' = [request EXCEPT ![r] = q]
    BY <1>1
<1> HIDE DEF q
<1>5. request'[r] = q /\ \A p \in Request : p # r => request'[p] = request[p]
    BY <1>4 DEF IInv, RequestsOK
<1>6. CountsOK'
    <2>1. \A i \in Passkey : /\ passkey'[i].counter = passkey[i].counter
                             /\ passkey'[i].state = passkey[i].state
        BY <1>2 DEF IInv, PasskeysOK, PasskeyFields
    <2>2. QED BY <1>2, <1>3, <1>5, <2>1, CountsStay DEF OnceInv
<1>7. GrantsOK'
    BY <1>2 DEF OnceInv, GrantsOK, Bootstrap
<1>8. EnrollsOK(q)
    <2>1. SUFFICES ASSUME ceremony[c].purpose \in Enrollment
                   PROVE  /\ ceremony[c].by \in Grant /\ grant[ceremony[c].by].state # "none"
                          /\ Bootstrap(ceremony[c].by, "live") => ~ownerRow
        BY <1>3 DEF EnrollsOK
    <2>2. ceremony[c].by \in Grant /\ EnrollmentContext(ceremony[c].by)
        BY <1>2, <2>1 DEF Allowed, Enrollment
    <2>3. QED BY <2>2 DEF EnrollmentContext, LiveGrant, Bootstrap
<1>9. \A p \in Request : EnrollsOK(request[p])'
    BY <1>2, <1>5, <1>8 DEF OnceInv, EnrollsOK, Bootstrap
<1>10. QED BY <1>6, <1>7, <1>9 DEF OnceInv

(* The operator's commands: no grant is renewed, and only a bootstrap      *)
(* grant that takes the place of every other one is issued without owner.  *)
LEMMA GrantsMove ==
    ASSUME IInv, OnceInv, UNCHANGED <<request, ownerRow, accepted>>, GrantsOK',
           \A k \in Passkey : /\ passkey'[k].counter = passkey[k].counter
                              /\ passkey[k].state # "absent" => passkey'[k].state # "absent",
           \A c \in Ceremony : ceremony[c].state \notin {"none", "starting"} =>
               ceremony'[c].purpose = ceremony[c].purpose /\ ceremony'[c].by = ceremony[c].by,
           \A g \in Grant : grant[g].state # "none" =>
               /\ grant'[g].state # "none"
               /\ Bootstrap(g, "live")' => Bootstrap(g, "live")
    PROVE  OnceInv'
<1>1. CountsOK'
    BY CountsStay DEF OnceInv
<1>2. \A r \in Request : EnrollsOK(request[r])'
    BY EnrollsStay
<1>3. QED BY <1>1, <1>2 DEF OnceInv

LEMMA BootstrapOnce ==
    ASSUME IInv, OnceInv, NEW g \in Grant, IssueBootstrapGrant(g)
    PROVE  OnceInv'
<1> DEFINE new == [state |-> "live", purpose |-> "bootstrap"]
<1>1. new.state = "live" /\ new.purpose = "bootstrap" /\ DOMAIN new = GrantFields
    BY DEF GrantFields
<1>2. /\ grant[g].state = "none" /\ UNCHANGED <<request, ownerRow, accepted, passkey, ceremony>>
      /\ grant' = [h \in Grant |-> IF h = g THEN new ELSE Withdrawn("bootstrap", h)]
    BY DEF IssueBootstrapGrant
<1> HIDE DEF new
<1>3. \A h \in Grant : h # g =>
          /\ DOMAIN grant'[h] = GrantFields /\ grant'[h].purpose = grant[h].purpose
          /\ grant'[h].state = IF Bootstrap(h, "live") THEN "revoked" ELSE grant[h].state
    BY <1>2 DEF Withdrawn, LiveGrant, Bootstrap, OnceInv, GrantsOK, GrantFields
<1>4. grant'[g] = new /\ DOMAIN grant' = Grant
    BY <1>2
<1>5. GrantsOK'
    <2>1. \A h \in Grant : ~(Bootstrap(h, "live")' /\ h # g)
        BY <1>3 DEF Bootstrap
    <2>2. \A h \in Grant : Bootstrap(h, "used")' => Bootstrap(h, "used")
        BY <1>1, <1>3, <1>4 DEF Bootstrap
    <2>3. \A h \in Grant : DOMAIN grant'[h] = GrantFields
        BY <1>1, <1>3, <1>4
    <2>4. ~ownerRow' => \A h \in Grant : grant'[h].purpose = "bootstrap"
        BY <1>1, <1>2, <1>3, <1>4 DEF OnceInv, GrantsOK
    <2>5. QED BY <1>2, <1>4, <2>1, <2>2, <2>3, <2>4 DEF OnceInv, GrantsOK
<1>6. \A h \in Grant : grant[h].state # "none" =>
          /\ grant'[h].state # "none"
          /\ Bootstrap(h, "live")' => Bootstrap(h, "live")
    BY <1>2, <1>3 DEF Bootstrap
<1>7. QED BY <1>2, <1>5, <1>6, GrantsMove

LEMMA RevokesOnce ==
    ASSUME IInv, OnceInv, RevokeAllAuthState, UNCHANGED <<request, ownerRow, accepted>>,
           DOMAIN grant' = Grant,
           \A h \in Grant :
               \/ grant'[h] = Revoked(grant[h], {"live"})
               \/ ownerRow /\ grant[h].state = "none" /\ grant'[h] = [state |-> "live", purpose |-> "recovery"]
    PROVE  OnceInv'
<1>1. \A k \in Passkey : /\ passkey'[k].counter = passkey[k].counter
                         /\ passkey[k].state # "absent" => passkey'[k].state # "absent"
    BY DEF RevokeAllAuthState, Revoked, IInv, PasskeysOK, PasskeyFields
<1>2. \A c \in Ceremony : ceremony'[c].purpose = ceremony[c].purpose /\ ceremony'[c].by = ceremony[c].by
    BY DEF RevokeAllAuthState, RevokesChallenges, Revoked, IInv, CeremoniesOK, CeremonyFields
<1>3. ASSUME NEW h \in Grant
      PROVE  /\ DOMAIN grant'[h] = GrantFields
             /\ \/ /\ grant'[h].purpose = grant[h].purpose /\ grant'[h].state # "live"
                   /\ grant'[h].state # "used" \/ grant[h].state = "used"
                   /\ grant[h].state # "none" => grant'[h].state # "none"
                \/ ownerRow /\ grant[h].state = "none" /\ grant'[h].purpose = "recovery"
    BY DEF Revoked, OnceInv, GrantsOK, GrantFields
<1>4. GrantsOK'
    BY <1>3 DEF OnceInv, GrantsOK, Bootstrap
<1>5. \A h \in Grant : grant[h].state # "none" =>
          /\ grant'[h].state # "none"
          /\ Bootstrap(h, "live")' => Bootstrap(h, "live")
    BY <1>3 DEF Bootstrap
<1>6. QED BY <1>1, <1>2, <1>4, <1>5, GrantsMove

LEMMA StartsOnce ==
    ASSUME IInv, OnceInv, NEW c \in Ceremony, NEW purpose, NEW by,
           StartCeremony(c, purpose, by) \/ IssueChallenge(c)
    PROVE  OnceInv'
<1>1. /\ UNCHANGED <<request, passkey, grant, ownerRow, accepted>>
      /\ \/ ceremony[c].state = "none" /\ \E new : ceremony' = [ceremony EXCEPT ![c] = new]
         \/ ceremony' = [ceremony EXCEPT ![c].state = "live"]
    BY DEF StartCeremony, IssueChallenge, Rows
<1>2. \A d \in Ceremony : ceremony[d].state \notin {"none", "starting"} =>
          ceremony'[d].purpose = ceremony[d].purpose /\ ceremony'[d].by = ceremony[d].by
    BY <1>1 DEF IInv, CeremoniesOK, CeremonyFields
<1>3. GrantsOK'
    BY <1>1 DEF OnceInv, GrantsOK, Bootstrap
<1>4. QED BY <1>1, <1>2, <1>3, GrantsMove DEF Bootstrap

LEMMA OnceStep == IInv /\ OnceInv /\ [Next]_vars => OnceInv'
<1> SUFFICES ASSUME IInv, OnceInv, [Next]_vars PROVE OnceInv'
    OBVIOUS
<1>1. CASE UNCHANGED <<passkey, ceremony, grant, request, ownerRow, accepted>>
    BY <1>1 DEF OnceInv, CountsOK, Behind, GrantsOK, EnrollsOK, Bootstrap
<1>2. CASE UNCHANGED vars
    BY <1>1, <1>2 DEF vars
<1>3. CASE Browser
    <2>1. ASSUME NEW c \in Ceremony, NEW purpose, NEW by,
                 StartCeremony(c, purpose, by) \/ IssueChallenge(c)
          PROVE  OnceInv'
        BY <2>1, StartsOnce
    <2>2. ASSUME NEW c \in Ceremony, NEW r \in Request, NEW k \in Passkey, Check(r, c, k)
          PROVE  OnceInv'
        BY <2>2, ChecksOnce
    <2>3. ASSUME NEW r \in Request, NEW s \in Session, CompleteEnrollment(r, s) PROVE OnceInv'
        BY <2>3, EnrollsOnce
    <2>4. ASSUME NEW r \in Request,
                 CompleteReverification(r) \/ \E s \in Session : CompleteLogin(r, s)
          PROVE  OnceInv'
        <3>1. /\ request[r].at = "checked" /\ RequireLiveCredential(r) /\ Counted(r)
              /\ Answered(r) /\ Used(request[r].c) /\ UNCHANGED <<grant, ownerRow>>
            BY <2>4 DEF CompleteReverification, CompleteLogin, Ready
        <3>2. CountsOK'
            BY <3>1, AcceptCounts DEF OnceInv
        <3>3. QED BY <3>1, <3>2, OnceCommits
    <2>5. ASSUME NEW r \in Request, CompleteAddition(r) PROVE OnceInv'
        <3>1. /\ request[r].at = "checked" /\ ConsumeChallenge(r) /\ Unregistered(request[r].key)
              /\ Registered(r) /\ Answered(r) /\ Used(request[r].c)
              /\ UNCHANGED <<grant, ownerRow, accepted>>
            BY <2>5 DEF CompleteAddition, Ready
        <3>2. CountsOK'
            BY <3>1, CommitsInEra, RegisterCounts DEF OnceInv
        <3>3. QED BY <3>1, <3>2, OnceCommits
    <2>6. ASSUME NEW r \in Request, RemoveCredential(r) \/ Refuse(r) PROVE OnceInv'
        <3>1. /\ Answered(r) /\ UNCHANGED <<ceremony, grant, ownerRow, accepted>>
              /\ \/ UNCHANGED passkey
                 \/ passkey' = [passkey EXCEPT ![request[r].key].state = "revoked"]
            BY <2>6 DEF RemoveCredential, Refuse, Rows
        <3>2. \A k \in Passkey : /\ passkey'[k].counter = passkey[k].counter
                                 /\ passkey[k].state # "absent" => passkey'[k].state # "absent"
            BY <3>1 DEF IInv, PasskeysOK, PasskeyFields
        <3>3. \A p \in Request : request'[p] = request[p] \/ request'[p].at # "checked"
            BY <3>1 DEF Answered, NoRequest, IInv, RequestsOK
        <3>4. CountsOK'
            BY <3>1, <3>2, <3>3, CountsStay DEF OnceInv
        <3>5. QED BY <3>1, <3>4, OnceCommits
    <2>7. ASSUME NEW r \in Request, NEW s, NEW k, AskRemoval(r, s, k) PROVE OnceInv'
        <3>1. /\ \E left : request' = [request EXCEPT ![r] =
                    [at |-> "removing", key |-> k, left |-> left]]
              /\ UNCHANGED <<ceremony, grant, ownerRow, accepted, passkey>>
            BY <2>7 DEF AskRemoval, Rows
        <3>2. \A p \in Request : request'[p] = request[p] \/ request'[p].at # "checked"
            BY <3>1 DEF IInv, RequestsOK
        <3>3. CountsOK' /\ GrantsOK'
            BY <3>1, <3>2 DEF OnceInv, CountsOK, Behind, GrantsOK, Bootstrap
        <3>4. \A p \in Request : EnrollsOK(request[p])'
            BY <3>1, <3>2, EnrollsStay DEF Bootstrap
        <3>5. QED BY <3>3, <3>4 DEF OnceInv
    <2>8. ASSUME NEW s \in Session, RevokeSession(s) \/ VerificationAges(s) PROVE OnceInv'
        BY <1>1, <2>8 DEF RevokeSession, VerificationAges
    <2>9. QED BY <1>3, <2>1, <2>2, <2>3, <2>4, <2>5, <2>6, <2>7, <2>8 DEF Browser
<1>4. CASE Operator
    <2>1. CASE BeginBootstrap \/ Restore \/ CompleteRecovery
        BY <1>1, <2>1 DEF BeginBootstrap, Restore, CompleteRecovery
    <2>2. CASE BeginRecovery
        BY <2>2, RevokesOnce DEF BeginRecovery
    <2>3. ASSUME NEW g \in Grant, IssueBootstrapGrant(g) PROVE OnceInv'
        BY <2>3, BootstrapOnce
    <2>4. ASSUME NEW g \in Grant, IssueRecoveryGrant(g) PROVE OnceInv'
        BY <2>4, RevokesOnce DEF IssueRecoveryGrant
    <2>5. QED BY <1>4, <2>1, <2>2, <2>3, <2>4 DEF Operator
<1>5. QED BY <1>2, <1>3, <1>4 DEF Next

LEMMA OnceImplied == OnceInv => AcceptedOnce
<1> SUFFICES ASSUME OnceInv PROVE AcceptedOnce
    OBVIOUS
<1> DEFINE Uses == {g \in Grant : grant[g].purpose = "bootstrap" /\ grant[g].state = "used"}
<1>1. \A used \in accepted : used[2] <= passkey[used[1]].counter
    BY DEF OnceInv, CountsOK, Behind
<1>2. \A g, h \in Uses : g = h
    BY DEF OnceInv, GrantsOK, Bootstrap
<1>3. Cardinality(Uses) <= 1
    <2> HIDE DEF Uses
    <2>1. CASE Uses = {}
        BY <2>1, FS_EmptySet
    <2>2. ASSUME NEW g \in Uses PROVE Cardinality(Uses) <= 1
        <3>1. Uses = {g}
            BY <1>2
        <3>2. Cardinality({g}) = 1
            BY FS_Singleton
        <3>3. QED BY <3>1, <3>2
    <2>3. QED BY <2>1, <2>2
<1>4. QED BY <1>1, <1>3 DEF AcceptedOnce

-----------------------------------------------------------------------------
(* What was revoked together stays revoked, whatever was in flight when    *)
(* everything was revoked (consumeChallenge, consumeGrant,                 *)
(* requireLiveCredential): every open session and every active passkey     *)
(* rests on checks made since.                                             *)
THEOREM RevocationIsFinal == SomePasskeys => (Spec => []NothingOutlivesRevocation)
<1> SUFFICES ASSUME SomePasskeys PROVE Spec => []NothingOutlivesRevocation
    OBVIOUS
<1>1. Init => IInv
    BY InitInv
<1>2. QED BY <1>1, StepInv, Implied, PTL DEF Spec

(* Removals that run together never take the last passkeys: each counts    *)
(* again under the owner's row lock (lockOwner).                           *)
THEOREM APasskeyIsLeft == SomePasskeys => (Spec => [][LeavesAPasskey]_vars)
<1> SUFFICES ASSUME SomePasskeys PROVE Spec => [][LeavesAPasskey]_vars
    OBVIOUS
<1>1. Init => IInv
    BY InitInv
<1>2. IInv /\ [Next]_vars => [LeavesAPasskey]_vars
    BY LastPasskey
<1>3. QED BY <1>1, <1>2, StepInv, PTL DEF Spec

(* No assertion is accepted twice, whatever requests and devices share a   *)
(* passkey, and setup registers one passkey only, although a bootstrap     *)
(* looks for the owner before it issues its grant (requireLiveCredential,  *)
(* consumeGrant).                                                          *)
THEOREM AssertionsCountOnce == SomePasskeys => (Spec => []AcceptedOnce)
<1> SUFFICES ASSUME SomePasskeys PROVE Spec => []AcceptedOnce
    OBVIOUS
<1>1. Init => IInv /\ OnceInv
    BY InitInv, OnceBegin
<1>2. IInv /\ OnceInv /\ [Next]_vars => IInv' /\ OnceInv'
    BY StepInv, OnceStep
<1>3. QED BY <1>1, <1>2, OnceImplied, PTL DEF Spec

-----------------------------------------------------------------------------
(* Types.                                                                  *)

CountsEnd == MaxCount \in Nat

(* A request carries what it commits.                                      *)
CarriesOK(q) ==
    /\ q.at \in {"idle", "checked", "removing"}
    /\ q.at = "checked" => q.kind \in {"standard", "inspection"} /\ q.count \in 0 .. MaxCount

ControlOK == control.gen \in 1 .. 2 /\ control.mode \in {"ready", "reconciling", "behind"}
PasskeyOK(k) == k.state \in {"absent", "active", "revoked"} /\ k.counter \in 0 .. MaxCount
CeremonyOK(c) == c.state \in {"none", "starting", "live", "used", "revoked"} /\ c.purpose \in Purpose
GrantOK(g) == g.state \in {"none", "live", "used", "revoked"}
SessionOK(s) == s.state \in {"none", "open", "revoked"} /\ s.kind \in {"standard", "inspection"}

TypeInv ==
    /\ DOMAIN control = {"gen", "mode"} /\ ControlOK
    /\ \A k \in Passkey : PasskeyOK(passkey[k])
    /\ \A c \in Ceremony : CeremonyOK(ceremony[c])
    /\ \A g \in Grant : GrantOK(grant[g])
    /\ \A s \in Session : SessionOK(session[s])
    /\ \A r \in Request : CarriesOK(request[r])

LEMMA TypeImplied == TypeInv => TypeOK
BY DEF TypeInv, TypeOK, ControlOK, PasskeyOK, CeremonyOK, GrantOK, SessionOK, CarriesOK

LEMMA TypeBegin == CountsEnd /\ Init => TypeInv
<1> SUFFICES ASSUME CountsEnd, Init PROVE TypeInv
    OBVIOUS
<1>1. DOMAIN control = {"gen", "mode"} /\ ControlOK
    <2>1. control = [gen |-> 1, mode |-> "ready"]
        BY DEF Init
    <2>2. QED BY <2>1 DEF ControlOK
<1>2. \A k \in Passkey : PasskeyOK(passkey[k])
    <2>1. \A k \in Passkey : passkey[k].state \in {"absent", "active"} /\ passkey[k].counter = 0
        BY DEF Init, NewPasskey
    <2>2. QED BY <2>1 DEF PasskeyOK, CountsEnd
<1>3. \A c \in Ceremony : CeremonyOK(ceremony[c])
    BY DEF Init, CeremonyOK, NewCeremony, Purpose
<1>4. \A g \in Grant : GrantOK(grant[g])
    BY DEF Init, GrantOK, NewGrant
<1>5. \A s \in Session : SessionOK(session[s])
    BY DEF Init, SessionOK, NewSession
<1>6. \A r \in Request : CarriesOK(request[r])
    BY DEF Init, CarriesOK, NoRequest
<1>7. QED BY <1>1, <1>2, <1>3, <1>4, <1>5, <1>6 DEF TypeInv

(* The rows a step changes keep their type.                                *)
LEMMA RowsTyped ==
    ASSUME TypeInv, UNCHANGED control \/ (DOMAIN control = {"gen", "mode"} /\ ControlOK)',
           \A k \in Passkey : passkey'[k] = passkey[k] \/ PasskeyOK(passkey'[k]),
           \A c \in Ceremony : ceremony'[c] = ceremony[c] \/ CeremonyOK(ceremony'[c]),
           \A g \in Grant : grant'[g] = grant[g] \/ GrantOK(grant'[g]),
           \A s \in Session : session'[s] = session[s] \/ SessionOK(session'[s]),
           \A r \in Request : request'[r] = request[r] \/ CarriesOK(request'[r])
    PROVE  TypeInv'
BY DEF TypeInv, ControlOK

LEMMA AnswersTyped ==
    ASSUME IInv, NEW r \in Request, Answered(r)
    PROVE  \A p \in Request : request'[p] = request[p] \/ CarriesOK(request'[p])
BY DEF Answered, NoRequest, CarriesOK, IInv, RequestsOK

LEMMA UsesTyped ==
    ASSUME IInv, TypeInv, NEW c, Used(c)
    PROVE  \A d \in Ceremony : CeremonyOK(ceremony'[d])
BY DEF Used, TypeInv, CeremonyOK, IInv, CeremoniesOK, CeremonyFields

LEMMA OpensTyped ==
    ASSUME IInv, TypeInv, NEW r \in Request, request[r].at = "checked", NEW s \in Session, Opened(s, r)
    PROVE  \A t \in Session : session'[t] = session[t] \/ SessionOK(session'[t])
<1> DEFINE new == [state |-> "open", gen |-> request[r].gen, kind |-> request[r].kind,
                   recent |-> TRUE, key |-> request[r].key, era |-> request[r].era]
<1>1. new.state = "open" /\ new.kind = request[r].kind
    OBVIOUS
<1>2. session' = [session EXCEPT ![s] = new]
    BY DEF Opened
<1> HIDE DEF new
<1>3. SessionOK(new)
    BY <1>1 DEF SessionOK, TypeInv, CarriesOK
<1>4. QED BY <1>2, <1>3 DEF IInv, SessionsOK

LEMMA CountsTyped ==
    ASSUME IInv, TypeInv, NEW r \in Request, request[r].at = "checked", Counted(r)
    PROVE  \A k \in Passkey : PasskeyOK(passkey'[k])
<1>1. request[r].count \in 0 .. MaxCount
    BY DEF TypeInv, CarriesOK
<1>2. QED BY <1>1 DEF Counted, TypeInv, PasskeyOK, IInv, PasskeysOK, PasskeyFields

LEMMA RegistersTyped ==
    ASSUME CountsEnd, IInv, TypeInv, NEW r \in Request, Registered(r)
    PROVE  \A k \in Passkey : passkey'[k] = passkey[k] \/ PasskeyOK(passkey'[k])
<1> DEFINE new == [NewPasskey EXCEPT !.state = "active", !.era = request[r].era]
<1>1. PasskeyOK(new)
    BY DEF NewPasskey, PasskeyOK, CountsEnd
<1>2. passkey' = [passkey EXCEPT ![request[r].key] = new]
    BY DEF Registered
<1> HIDE DEF new
<1>3. QED BY <1>1, <1>2 DEF IInv, PasskeysOK

LEMMA CheckTyped ==
    ASSUME CountsEnd, IInv, TypeInv, NEW r \in Request, NEW c \in Ceremony, NEW k \in Passkey,
           Check(r, c, k)
    PROVE  TypeInv'
<1>1. PICK count \in 0 .. MaxCount :
          request' = [request EXCEPT ![r] =
              [at |-> "checked", c |-> c, key |-> k, count |-> count,
               gen |-> control.gen, kind |-> SessionKind, era |-> era]]
    <2>1. CASE ceremony[c].purpose \in {"login", "reverify"}
        <3>1. PICK count \in 1 .. MaxCount :
                 request' = [request EXCEPT ![r] =
                      [at |-> "checked", c |-> c, key |-> k, count |-> count,
                       gen |-> control.gen, kind |-> SessionKind, era |-> era]]
            BY <2>1 DEF Check
        <3>2. count \in 0 .. MaxCount
            BY <3>1 DEF CountsEnd
        <3>3. QED BY <3>1, <3>2
    <2>2. CASE ceremony[c].purpose \notin {"login", "reverify"}
        <3>1. 0 \in 0 .. MaxCount
            BY DEF CountsEnd
        <3>2. QED BY <2>2, <3>1 DEF Check
    <2>3. QED BY <2>1, <2>2
<1> DEFINE q == [at |-> "checked", c |-> c, key |-> k, count |-> count,
                 gen |-> control.gen, kind |-> SessionKind, era |-> era]
<1>2. CarriesOK(q)
    BY DEF CarriesOK, SessionKind
<1>3. request' = [request EXCEPT ![r] = q]
    BY <1>1
<1> HIDE DEF q
<1>4. \A p \in Request : request'[p] = request[p] \/ CarriesOK(request'[p])
    BY <1>2, <1>3 DEF IInv, RequestsOK
<1>5. /\ UNCHANGED <<ceremony, grant, session, control>>
      /\ UNCHANGED passkey \/ \E n : passkey' = [passkey EXCEPT ![k].device = n]
    BY DEF Check
<1>6. \A p \in Passkey : PasskeyOK(passkey'[p])
    BY <1>5 DEF TypeInv, PasskeyOK, IInv, PasskeysOK, PasskeyFields
<1>7. QED BY <1>4, <1>5, <1>6, RowsTyped

LEMMA RevokesTyped ==
    ASSUME IInv, OnceInv, TypeInv, RevokeAllAuthState, UNCHANGED request,
           UNCHANGED control \/ (DOMAIN control = {"gen", "mode"} /\ ControlOK)',
           \A h \in Grant :
               \/ grant'[h] = Revoked(grant[h], {"live"})
               \/ grant'[h] = [state |-> "live", purpose |-> "recovery"]
    PROVE  TypeInv'
<1>1. \A k \in Passkey : PasskeyOK(passkey'[k])
    BY DEF RevokeAllAuthState, Revoked, TypeInv, PasskeyOK, IInv, PasskeysOK, PasskeyFields
<1>2. \A c \in Ceremony : CeremonyOK(ceremony'[c])
    BY DEF RevokeAllAuthState, RevokesChallenges, Revoked, TypeInv, CeremonyOK, IInv, CeremoniesOK,
           CeremonyFields
<1>3. \A s \in Session : SessionOK(session'[s])
    BY DEF RevokeAllAuthState, Revoked, TypeInv, SessionOK, IInv, SessionsOK, SessionFields
<1>4. \A g \in Grant : GrantOK(grant'[g])
    <2>1. ASSUME NEW g \in Grant PROVE GrantOK(Revoked(grant[g], {"live"}))
        BY DEF Revoked, TypeInv, GrantOK, OnceInv, GrantsOK, GrantFields
    <2>2. GrantOK([state |-> "live", purpose |-> "recovery"])
        BY DEF GrantOK
    <2>3. QED BY <2>1, <2>2
<1>5. QED BY <1>1, <1>2, <1>3, <1>4, RowsTyped

LEMMA TypeStep == CountsEnd /\ IInv /\ OnceInv /\ TypeInv /\ [Next]_vars => TypeInv'
<1> SUFFICES ASSUME CountsEnd, IInv, OnceInv, TypeInv, [Next]_vars PROVE TypeInv'
    OBVIOUS
<1>1. CASE UNCHANGED <<control, passkey, ceremony, grant, session, request>>
    BY <1>1, RowsTyped
<1>2. CASE UNCHANGED vars
    BY <1>1, <1>2 DEF vars
<1>3. CASE Browser
    <2>1. ASSUME NEW c \in Ceremony, NEW purpose \in Purpose, NEW by,
                 StartCeremony(c, purpose, by)
          PROVE  TypeInv'
        <3> DEFINE new == [state |-> "starting", purpose |-> purpose, gen |-> control.gen, by |-> by]
        <3>1. CeremonyOK(new)
            BY DEF CeremonyOK
        <3>2. /\ ceremony' = [ceremony EXCEPT ![c] = new]
              /\ UNCHANGED <<control, passkey, grant, session, request>>
            BY <2>1 DEF StartCeremony, Rows
        <3> HIDE DEF new
        <3>3. \A d \in Ceremony : ceremony'[d] = ceremony[d] \/ CeremonyOK(ceremony'[d])
            BY <3>1, <3>2 DEF IInv, CeremoniesOK
        <3>4. QED BY <3>2, <3>3, RowsTyped
    <2>2. ASSUME NEW c \in Ceremony, IssueChallenge(c) PROVE TypeInv'
        <3>1. /\ ceremony' = [ceremony EXCEPT ![c].state = "live"]
              /\ UNCHANGED <<control, passkey, grant, session, request>>
            BY <2>2 DEF IssueChallenge, Rows
        <3>2. \A d \in Ceremony : CeremonyOK(ceremony'[d])
            BY <3>1 DEF TypeInv, CeremonyOK, IInv, CeremoniesOK, CeremonyFields
        <3>3. QED BY <3>1, <3>2, RowsTyped
    <2>3. ASSUME NEW c \in Ceremony, NEW r \in Request, NEW k \in Passkey, Check(r, c, k)
          PROVE  TypeInv'
        BY <2>3, CheckTyped
    <2>4. ASSUME NEW r \in Request, NEW s \in Session, CompleteEnrollment(r, s) PROVE TypeInv'
        <3>1. /\ request[r].at = "checked" /\ Registered(r) /\ Used(request[r].c) /\ Opened(s, r)
              /\ Answered(r) /\ UNCHANGED control
              /\ \E g : grant' = [grant EXCEPT ![g].state = "used"]
            BY <2>4 DEF CompleteEnrollment, Ready
        <3>2. \A g \in Grant : GrantOK(grant'[g])
            BY <3>1 DEF TypeInv, GrantOK, OnceInv, GrantsOK, GrantFields
        <3>3. QED BY <3>1, <3>2, RegistersTyped, UsesTyped, OpensTyped, AnswersTyped, RowsTyped
    <2>5. ASSUME NEW r \in Request, NEW s \in Session, CompleteLogin(r, s) PROVE TypeInv'
        <3>1. /\ request[r].at = "checked" /\ Counted(r) /\ Used(request[r].c) /\ Opened(s, r)
              /\ Answered(r) /\ UNCHANGED <<control, grant>>
            BY <2>5 DEF CompleteLogin, Ready
        <3>2. QED BY <3>1, CountsTyped, UsesTyped, OpensTyped, AnswersTyped, RowsTyped
    <2>6. ASSUME NEW r \in Request, CompleteReverification(r) PROVE TypeInv'
        <3>1. /\ request[r].at = "checked" /\ Counted(r) /\ Used(request[r].c)
              /\ Answered(r) /\ UNCHANGED <<control, grant>>
              /\ \E s : session' = [session EXCEPT ![s].recent = TRUE]
            BY <2>6 DEF CompleteReverification, Ready
        <3>2. \A s \in Session : SessionOK(session'[s])
            BY <3>1 DEF TypeInv, SessionOK, IInv, SessionsOK, SessionFields
        <3>3. QED BY <3>1, <3>2, CountsTyped, UsesTyped, AnswersTyped, RowsTyped
    <2>7. ASSUME NEW r \in Request, CompleteAddition(r) PROVE TypeInv'
        <3>1. /\ Registered(r) /\ Used(request[r].c) /\ Answered(r)
              /\ UNCHANGED <<control, grant, session>>
            BY <2>7 DEF CompleteAddition
        <3>2. QED BY <3>1, RegistersTyped, UsesTyped, AnswersTyped, RowsTyped
    <2>8. ASSUME NEW r \in Request, RemoveCredential(r) \/ Refuse(r) PROVE TypeInv'
        <3>1. /\ Answered(r) /\ UNCHANGED <<control, ceremony, grant, session>>
              /\ \/ UNCHANGED passkey
                 \/ passkey' = [passkey EXCEPT ![request[r].key].state = "revoked"]
            BY <2>8 DEF RemoveCredential, Refuse, Rows
        <3>2. \A k \in Passkey : PasskeyOK(passkey'[k])
            BY <3>1 DEF TypeInv, PasskeyOK, IInv, PasskeysOK, PasskeyFields
        <3>3. QED BY <3>1, <3>2, AnswersTyped, RowsTyped
    <2>9. ASSUME NEW r \in Request, NEW s, NEW k, AskRemoval(r, s, k) PROVE TypeInv'
        <3>1. /\ \E left : request' = [request EXCEPT ![r] =
                    [at |-> "removing", key |-> k, left |-> left]]
              /\ UNCHANGED <<control, ceremony, grant, session, passkey>>
            BY <2>9 DEF AskRemoval, Rows
        <3>2. \A p \in Request : request'[p] = request[p] \/ CarriesOK(request'[p])
            BY <3>1 DEF CarriesOK, IInv, RequestsOK
        <3>3. QED BY <3>1, <3>2, RowsTyped
    <2>10. ASSUME NEW s \in Session, RevokeSession(s) \/ VerificationAges(s) PROVE TypeInv'
        <3>1. /\ UNCHANGED <<control, passkey, ceremony, grant, request>>
              /\ \/ session' = [session EXCEPT ![s].state = "revoked"]
                 \/ session' = [session EXCEPT ![s].recent = FALSE]
            BY <2>10 DEF RevokeSession, VerificationAges
        <3>2. \A t \in Session : SessionOK(session'[t])
            BY <3>1 DEF TypeInv, SessionOK, IInv, SessionsOK, SessionFields
        <3>3. QED BY <3>1, <3>2, RowsTyped
    <2>11. QED BY <1>3, <2>1, <2>2, <2>3, <2>4, <2>5, <2>6, <2>7, <2>8, <2>9, <2>10 DEF Browser
<1>4. CASE Operator
    <2>1. CASE BeginBootstrap
        BY <1>1, <2>1 DEF BeginBootstrap
    <2>2. CASE Restore \/ CompleteRecovery
        <3>1. /\ UNCHANGED <<passkey, ceremony, grant, session, request>>
              /\ (DOMAIN control = {"gen", "mode"} /\ ControlOK)'
            BY <2>2 DEF Restore, CompleteRecovery, TypeInv, ControlOK
        <3>2. QED BY <3>1, RowsTyped
    <2>3. CASE BeginRecovery
        <3>1. (DOMAIN control = {"gen", "mode"} /\ ControlOK)'
            BY <2>3 DEF BeginRecovery, TypeInv, ControlOK
        <3>2. QED BY <2>3, <3>1, RevokesTyped DEF BeginRecovery
    <2>4. ASSUME NEW g \in Grant, IssueBootstrapGrant(g) PROVE TypeInv'
        <3>1. UNCHANGED <<control, passkey, ceremony, session, request>>
            BY <2>4 DEF IssueBootstrapGrant
        <3>2. \A h \in Grant : GrantOK(grant'[h])
            BY <2>4 DEF IssueBootstrapGrant, Withdrawn, TypeInv, GrantOK, OnceInv, GrantsOK, GrantFields
        <3>3. QED BY <3>1, <3>2, RowsTyped
    <2>5. ASSUME NEW g \in Grant, IssueRecoveryGrant(g) PROVE TypeInv'
        BY <2>5, RevokesTyped DEF IssueRecoveryGrant
    <2>6. QED BY <1>4, <2>1, <2>2, <2>3, <2>4, <2>5 DEF Operator
<1>5. QED BY <1>2, <1>3, <1>4 DEF Next

(* Owner, passkeys, ceremonies, grants and sessions keep their types: no   *)
(* stale request commits a row outside of them, and no counter passes the  *)
(* bound of the authenticators.                                            *)
THEOREM AuthTyped == SomePasskeys /\ CountsEnd => (Spec => []TypeOK)
<1> SUFFICES ASSUME SomePasskeys, CountsEnd PROVE Spec => []TypeOK
    OBVIOUS
<1>1. Init => IInv /\ OnceInv /\ TypeInv
    BY InitInv, OnceBegin, TypeBegin
<1>2. IInv /\ OnceInv /\ TypeInv /\ [Next]_vars => IInv' /\ OnceInv' /\ TypeInv'
    BY StepInv, OnceStep, TypeStep
<1>3. QED BY <1>1, <1>2, TypeImplied, PTL DEF Spec
=============================================================================
