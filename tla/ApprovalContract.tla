--------------------------- MODULE ApprovalContract ---------------------------
(***************************************************************************)
(* What ActRealm promises about the requests it is asked to decide,        *)
(* whatever happens between the widget and the provider: the provider is   *)
(* told approve or deny only if the user took exactly that decision and    *)
(* did not take it back; a request has one decision at a time; and a       *)
(* decision that reached the provider can no longer be withdrawn.          *)
(* Anything that goes wrong hands the request back to the provider's own   *)
(* interface.  ApprovalLoop implements this specification.                 *)
(***************************************************************************)
EXTENDS Naturals, FiniteSets

CONSTANTS Requests, Decisions

VARIABLES
    proposed,  \* the decisions of the user that stand for each request
    verdict    \* what the provider was told

contractVars == <<proposed, verdict>>

Verdicts == Decisions \cup {"waiting", "answer", "native"}

ContractTypeOK ==
    /\ proposed \in [Requests -> SUBSET Decisions]
    /\ verdict \in [Requests -> Verdicts]

ContractInit ==
    /\ proposed = [r \in Requests |-> {}]
    /\ verdict = [r \in Requests |-> "waiting"]

\* The user decides; the first decision wins.
Propose(r, d) ==
    /\ proposed[r] = {}
    /\ proposed' = [proposed EXCEPT ![r] = {d}]
    /\ UNCHANGED verdict

\* Decisions are taken back, by undo or because their request ended.
Withdraw(R) ==
    /\ \A r \in R : verdict[r] \notin proposed[r]
    /\ proposed' = [r \in Requests |-> IF r \in R THEN {} ELSE proposed[r]]
    /\ UNCHANGED verdict

\* The provider is told a decision that stands.
Deliver(r, d) ==
    /\ verdict[r] = "waiting"
    /\ d \in proposed[r]
    /\ verdict' = [verdict EXCEPT ![r] = d]
    /\ UNCHANGED proposed

\* A question is answered.
AnswerQuestion(r) ==
    /\ verdict[r] = "waiting"
    /\ verdict' = [verdict EXCEPT ![r] = "answer"]
    /\ UNCHANGED proposed

\* Requests fall back to the provider's own interface; always allowed.
HandBack(R) ==
    /\ \A r \in R : verdict[r] = "waiting"
    /\ verdict' = [r \in Requests |-> IF r \in R THEN "native" ELSE verdict[r]]
    /\ UNCHANGED proposed

ContractNext ==
    \/ \E r \in Requests, d \in Decisions : Propose(r, d) \/ Deliver(r, d)
    \/ \E R \in SUBSET Requests : Withdraw(R) \/ HandBack(R)
    \/ \E r \in Requests : AnswerQuestion(r)

ContractSpec == ContractInit /\ [][ContractNext]_contractVars

-----------------------------------------------------------------------------
\* The promise read off a state: a request has one standing decision at most,
\* and the provider was told a decision only if it still stands.
DecisionStands ==
    \A r \in Requests :
      /\ \A d, e \in proposed[r] : d = e
      /\ verdict[r] \in Decisions => verdict[r] \in proposed[r]
=============================================================================
