---------------------------- MODULE SendPromise ----------------------------
(***************************************************************************)
(* What the owner is promised about a send (SPEC.md, feature F7): the      *)
(* relay takes the message at most once; an answer, once definitive, is    *)
(* true and final; an outcome that nobody knows is said to be unknown and  *)
(* can only turn into sent; and the draft can be edited again exactly when *)
(* the answer is definitive.  Nothing is said of workers, leases, crashes  *)
(* or the order of the database transactions.                              *)
(***************************************************************************)
EXTENDS Naturals

CONSTANT Send

VARIABLES
    answer,     \* what the owner sees
    deliveries, \* how often the relay took the message
    editable    \* the draft is free

vars == <<answer, deliveries, editable>>

Answer == {"open", "sent", "failed", "unknown"}

TypeOK ==
    /\ answer \in [Send -> Answer]
    /\ deliveries \in [Send -> {0, 1}]
    /\ editable \in [Send -> BOOLEAN]

Init ==
    /\ answer = [s \in Send |-> "open"]
    /\ deliveries = [s \in Send |-> 0]
    /\ editable = [s \in Send |-> FALSE]

(* The relay takes the message; nobody knows yet, and if the attempt was   *)
(* slow its outcome may already be called unknown.                         *)
Deliver(s) ==
    /\ answer[s] \in {"open", "unknown"} /\ deliveries[s] = 0
    /\ deliveries' = [deliveries EXCEPT ![s] = 1]
    /\ UNCHANGED <<answer, editable>>

Conclude(s, a) ==
    /\ answer' = [answer EXCEPT ![s] = a]
    /\ editable' = [editable EXCEPT ![s] = TRUE]
    /\ UNCHANGED deliveries

(* A definitive answer, given while the attempt runs or, for an unknown    *)
(* outcome, found later.                                                   *)
AnswerSent(s) ==
    /\ answer[s] \in {"open", "unknown"} /\ deliveries[s] = 1
    /\ Conclude(s, "sent")

AnswerFailed(s) ==
    /\ answer[s] = "open" /\ deliveries[s] = 0
    /\ Conclude(s, "failed")

LoseTrack(s) ==
    /\ answer[s] = "open"
    /\ answer' = [answer EXCEPT ![s] = "unknown"]
    /\ UNCHANGED <<deliveries, editable>>

Next ==
    \E s \in Send :
        Deliver(s) \/ AnswerSent(s) \/ AnswerFailed(s) \/ LoseTrack(s)

Spec == Init /\ [][Next]_vars
=============================================================================
