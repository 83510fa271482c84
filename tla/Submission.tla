----------------------------- MODULE Submission -----------------------------
(***************************************************************************)
(* One SMTP submission (packages/transport/src/submit.ts) and the          *)
(* connection test that stops before the envelope (smtp.ts), against the   *)
(* scripted server of the harness (packages/harness/src/smtp-server.ts).   *)
(* The order of the client's commands and its error codes are those of the *)
(* mail library the transport configures; the transport decides what each  *)
(* code means.  Either side may lose the connection at any point, and what *)
(* the client sent before may still arrive.                                *)
(***************************************************************************)
EXTENDS Naturals, FiniteSets, Sequences

CONSTANTS Recipient, MaxAttempts

VARIABLES script,       \* how the server behaves in this conversation
          client,       \* the submitter: its stage, its channel, its verdict
          wire,         \* commands and answers on the way
          server,       \* the session on the server
          submissions,  \* attempts the server recorded, complete or not
          attempts,     \* conversations so far
          seenInPlain   \* what crossed the wire before encryption

vars == <<script, client, wire, server, submissions, attempts, seenInPlain>>

Default == [mode |-> "starttls", greeting |-> TRUE, trusted |-> TRUE, login |-> TRUE,
            advertised |-> TRUE, sender |-> TRUE, refused |-> {}, data |-> TRUE,
            final |-> TRUE, drop |-> "none"]

Nobody == 0

\* Each script bends one stage of the conversation.
Scripts ==
  {Default} \cup {[Default EXCEPT !.mode = m] : m \in {"starttls-missing", "implicit"}}
  \cup {[Default EXCEPT !.refused = R] : R \in SUBSET Recipient}
  \cup {[Default EXCEPT !.drop = d] : d \in {"during data", "after data"}}
  \cup {[Default EXCEPT ![f] = FALSE] :
          f \in {"greeting", "trusted", "login", "advertised", "sender", "data", "final"}}

Idle == [at |-> "idle", goal |-> "submit", security |-> "starttls", secure |-> FALSE,
         left |-> {}, asked |-> Nobody, taken |-> {}, code |-> "none", verdict |-> "none", before |-> 0]
Quiet == [up |-> <<>>, down |-> <<>>, closed |-> FALSE]
NewSession == [secure |-> FALSE, data |-> FALSE, begun |-> FALSE]

Init ==
  /\ script = Default /\ client = Idle /\ wire = Quiet /\ server = NewSession
  /\ submissions = <<>> /\ attempts = 0 /\ seenInPlain = {}

Stored == {i \in DOMAIN submissions : submissions[i].held}
Line(verb, to) == [verb |-> verb, to |-> to]

-----------------------------------------------------------------------------
(* The client.                                                             *)

Connect(s, goal, security) ==
  /\ client.at = "idle" /\ attempts < MaxAttempts /\ attempts' = attempts + 1
  /\ script' = s /\ server' = [NewSession EXCEPT !.secure = s.mode = "implicit"]
  /\ client' = [Idle EXCEPT !.at = "greeting", !.goal = goal, !.security = security,
                            !.left = Recipient, !.before = Cardinality(Stored)]
  /\ wire' = Quiet
  /\ UNCHANGED <<submissions, seenInPlain>>

\* Certificates are always verified before anything is sent on a channel.
Handshake == script.trusted

\* Implicit TLS on either side needs it on the other.
Channel ==
  /\ client.at = "greeting" /\ ~server.begun
  /\ (client.security = "implicit") = (script.mode = "implicit")
  /\ client.security = "implicit" => Handshake
  /\ server' = [server EXCEPT !.begun = TRUE]
  /\ client' = [client EXCEPT !.secure = client.security = "implicit"]
  /\ wire' = [wire EXCEPT !.down = <<script.greeting>>]
  /\ UNCHANGED <<script, submissions, attempts, seenInPlain>>

\* STARTTLS is required: nothing else follows in the clear.
WhenOffered == client.security = "starttls" /\ ~client.secure /\ script.mode = "starttls"
Required == client.security = "starttls" /\ ~client.secure

Says(stage, lines) ==
  /\ client' = [client EXCEPT !.at = stage]
  /\ wire' = [wire EXCEPT !.down = <<>>, !.up = lines]
  /\ seenInPlain' = IF client.secure THEN seenInPlain
                    ELSE seenInPlain \cup {lines[i].verb : i \in DOMAIN lines}

\* The codes that state a refusal; what else ended may have been accepted.
DefinitiveCodes == {"EAUTH", "ETLS", "EENVELOPE", "EMESSAGE"}
DefinitiveOrCut(code) == code \in DefinitiveCodes \cup {"ESOCKET"}
Definitive(code) == code \in DefinitiveCodes

Ends(verdict, code, taken) ==
  /\ client' = [client EXCEPT !.at = "done", !.verdict = verdict, !.code = code, !.taken = taken]
  /\ wire' = [wire EXCEPT !.down = <<>>]
  /\ UNCHANGED seenInPlain

Fails(code) == Ends(IF Definitive(code) THEN "rejected" ELSE "unknown", code, {})

Hears(stage) == client.at = stage /\ wire.down # <<>>
Yes == Head(wire.down)
Others == UNCHANGED <<script, server, submissions, attempts>>

Greet ==
  /\ Hears("greeting") /\ Others
  /\ IF Yes THEN Says("ehlo", <<Line("EHLO", Nobody)>>) ELSE Fails("EPROTOCOL")

AfterEhlo ==
  /\ Hears("ehlo") /\ Others
  /\ IF Required THEN Says("starttls", <<Line("STARTTLS", Nobody)>>)
     ELSE Says("auth", <<Line("AUTH", Nobody)>>)

Upgrade ==
  /\ Hears("starttls") /\ UNCHANGED <<script, submissions, attempts>>
  /\ IF ~Yes THEN Fails("ETLS") /\ UNCHANGED server
     ELSE IF ~Handshake THEN Fails("ESOCKET") /\ UNCHANGED server
     ELSE /\ client' = [client EXCEPT !.secure = TRUE, !.at = "ehlo"]
          /\ wire' = [wire EXCEPT !.down = <<>>, !.up = <<Line("EHLO", Nobody)>>]
          /\ server' = [server EXCEPT !.secure = TRUE] /\ UNCHANGED seenInPlain

\* The connection test quits here.
AfterAuth ==
  /\ Hears("auth") /\ Others
  /\ IF ~Yes THEN Fails("EAUTH")
     ELSE IF client.goal = "test" THEN Ends("verified", "none", {})
     ELSE Says("mail", <<Line("MAIL", Nobody)>>)

Asks(r, left, taken) ==
  /\ client' = [client EXCEPT !.at = "rcpt", !.asked = r, !.left = left \ {r}, !.taken = taken]
  /\ wire' = [wire EXCEPT !.down = <<>>, !.up = <<Line("RCPT", r)>>]
  /\ UNCHANGED seenInPlain

AfterSender ==
  /\ Hears("mail") /\ Others
  /\ IF Yes THEN \E r \in client.left : Asks(r, client.left, {}) ELSE Fails("EENVELOPE")

\* Recipients one by one; the message flows when one of them was taken.
AfterRecipient ==
  LET taken == IF Yes THEN client.taken \cup {client.asked} ELSE client.taken
  IN  /\ Hears("rcpt") /\ Others
      /\ IF client.left # {} THEN \E r \in client.left : Asks(r, client.left, taken)
         ELSE IF taken = {} THEN Fails("EENVELOPE")
         ELSE /\ client' = [client EXCEPT !.taken = taken, !.at = "data"]
              /\ wire' = [wire EXCEPT !.down = <<>>, !.up = <<Line("DATA", Nobody)>>]
              /\ UNCHANGED seenInPlain

AfterData ==
  /\ Hears("data") /\ Others
  /\ IF Yes THEN Says("final", <<Line("text", Nobody), Line("dot", Nobody)>>)
     ELSE Fails("EENVELOPE")

AfterFinal ==
  /\ Hears("final") /\ Others
  /\ IF Yes THEN Ends("accepted", "none", client.taken) ELSE Fails("EMESSAGE")

\* A timeout or a lost connection; what was sent may still arrive.
GiveUp(code) ==
  /\ client.at \notin {"idle", "done"} /\ Others /\ Fails(code)

\* The transport is closed and the caller reads the report.
Close ==
  /\ client.at = "done" /\ client' = Idle /\ wire' = Quiet
  /\ UNCHANGED <<script, server, submissions, attempts, seenInPlain>>

-----------------------------------------------------------------------------
(* The server.                                                             *)

NewAttempt == [from |-> FALSE, accepted |-> {}, rejected |-> {}, message |-> FALSE, held |-> FALSE]
Open == IF submissions = <<>> \/ submissions[Len(submissions)].message
        THEN Append(submissions, NewAttempt) ELSE submissions
Current(field, value) == [Open EXCEPT ![Len(Open)][field] = value]
Last(field) == Open[Len(Open)][field]

Receives(verb) == wire.up # <<>> /\ ~wire.closed /\ wire.up[1].verb = verb
Answers(yes) == wire' = [wire EXCEPT !.up = Tail(@), !.down = <<yes>>]
Kept == UNCHANGED <<script, client, attempts, seenInPlain>>

Ehlo == Receives("EHLO") /\ Answers(TRUE) /\ Kept /\ UNCHANGED <<server, submissions>>

StartTls ==
  /\ Receives("STARTTLS") /\ Answers(script.mode = "starttls" /\ ~server.secure)
  /\ Kept /\ UNCHANGED <<server, submissions>>

CheckAuth ==
  /\ Receives("AUTH") /\ Answers(script.advertised /\ script.login)
  /\ Kept /\ UNCHANGED <<server, submissions>>

MailFrom ==
  /\ Receives("MAIL") /\ Answers(script.sender) /\ Kept /\ UNCHANGED server
  /\ submissions' = IF script.sender THEN Current("from", TRUE) ELSE submissions

RcptTo ==
  LET r == wire.up[1].to
      field == IF r \in script.refused THEN "rejected" ELSE "accepted"
  IN  /\ Receives("RCPT") /\ Answers(r \notin script.refused) /\ Kept /\ UNCHANGED server
      /\ submissions' = Current(field, Last(field) \cup {r})

Data ==
  /\ Receives("DATA") /\ Answers(script.data) /\ Kept /\ UNCHANGED submissions
  /\ server' = [server EXCEPT !.data = script.data]

Text ==
  /\ Receives("text") /\ server.data /\ Kept /\ UNCHANGED <<server, submissions>>
  /\ wire' = [wire EXCEPT !.up = Tail(@), !.closed = script.drop = "during data"]

\* The message is recorded whole, refused or not; the answer may be lost.
Dot ==
  /\ Receives("dot") /\ server.data /\ Kept
  /\ server' = [server EXCEPT !.data = FALSE]
  /\ submissions' = [Current("message", TRUE) EXCEPT ![Len(Open)].held = script.final]
  /\ wire' = IF script.drop = "after data" THEN [wire EXCEPT !.up = Tail(@), !.closed = TRUE]
             ELSE [wire EXCEPT !.up = Tail(@), !.down = <<script.final>>]

ClientStep ==
  \/ \E s \in Scripts, g \in {"submit", "test"}, c \in {"starttls", "implicit"} : Connect(s, g, c)
  \/ Channel \/ Greet \/ AfterEhlo \/ Upgrade \/ AfterAuth \/ AfterSender \/ AfterRecipient
  \/ AfterData \/ AfterFinal \/ Close
  \/ \E code \in {"ETIMEDOUT", "ESOCKET", "ECONNECTION"} : GiveUp(code)

ServerStep == Ehlo \/ StartTls \/ CheckAuth \/ MailFrom \/ RcptTo \/ Data \/ Text \/ Dot

Next == ClientStep \/ ServerStep
Spec == Init /\ [][Next]_vars

-----------------------------------------------------------------------------
TypeOK ==
  /\ client.verdict \in {"none", "accepted", "rejected", "unknown", "verified"}
  /\ client.taken \subseteq Recipient /\ attempts \in 0..MaxAttempts
  /\ \A i \in DOMAIN submissions : submissions[i].accepted \subseteq Recipient
  /\ \A i \in 1..Len(submissions) - 1 : submissions[i].message

Arrived == Cardinality(Stored) > client.before

(* The report never says "rejected" of a message the server holds or will  *)
(* hold, and never "accepted" of one it does not, nor names a recipient as *)
(* accepted whom the server refused; a connection test submits nothing     *)
(* (rejectedOrUnknown, acceptedReport, testSmtpConnection).                *)
VerdictIsSound ==
  client.at = "done" =>
    /\ client.verdict = "rejected" =>
         ~Arrived /\ ~\E i \in DOMAIN wire.up : wire.up[i].verb = "dot"
    /\ client.verdict = "accepted" =>
         Arrived /\ client.taken \subseteq submissions[Len(submissions)].accepted \ script.refused
    /\ client.goal = "test" => ~Arrived

(* Credentials and mail never cross the wire before the verified upgrade,  *)
(* whatever the server offers (requireTLS, forceAuth, verifiedTlsOptions). *)
NothingInTheClear == seenInPlain \subseteq {"EHLO", "STARTTLS"}
=============================================================================
