----------------------- MODULE ApprovalContractProofs -----------------------
(***************************************************************************)
(* The promise of ApprovalContract as a property of its reachable states.  *)
(* ApprovalLoop implements the contract, so that its decisions keep it.    *)
(***************************************************************************)
EXTENDS ApprovalContract, TLAPS

\* A provider that was told approve or deny was told the one decision of the
\* user that stands: no step of the contract withdraws what was delivered or
\* delivers what does not stand.  The other things a provider may hear are no
\* decisions.
THEOREM ContractDecisionStands ==
    ASSUME Decisions \cap {"waiting", "answer", "native"} = {}
    PROVE  ContractSpec => [](ContractTypeOK /\ DecisionStands)
<1>0. "waiting" \notin Decisions /\ "answer" \notin Decisions /\ "native" \notin Decisions
  OBVIOUS
<1>1. ASSUME ContractInit
      PROVE  ContractTypeOK /\ DecisionStands
  <2>1. \A r \in Requests : verdict[r] = "waiting" /\ proposed[r] = {}
    BY <1>1 DEF ContractInit
  <2>2. ContractTypeOK
    BY <1>1 DEF ContractInit, ContractTypeOK, Verdicts
  <2>3. DecisionStands
    BY <1>0, <2>1 DEF DecisionStands
  <2> QED BY <2>2, <2>3
<1>2. ASSUME ContractTypeOK, DecisionStands, [ContractNext]_contractVars
      PROVE  ContractTypeOK' /\ DecisionStands'
  <2> USE <1>2
  <2>1. ASSUME NEW r \in Requests, NEW d \in Decisions, Propose(r, d)
        PROVE  ContractTypeOK' /\ DecisionStands'
    <3>1. ContractTypeOK'
      BY <2>1 DEF Propose, ContractTypeOK
    <3>2. verdict[r] \notin Decisions
      BY <2>1 DEF Propose, DecisionStands
    <3>3. DecisionStands'
      BY <2>1, <3>2 DEF Propose, ContractTypeOK, DecisionStands
    <3> QED BY <3>1, <3>3
  <2>2. ASSUME NEW R \in SUBSET Requests, Withdraw(R)
        PROVE  ContractTypeOK' /\ DecisionStands'
    <3>1. ContractTypeOK'
      BY <2>2 DEF Withdraw, ContractTypeOK
    <3>2. \A r \in R : verdict[r] \notin Decisions
      BY <2>2 DEF Withdraw, DecisionStands
    <3>3. DecisionStands'
      BY <2>2, <3>2 DEF Withdraw, ContractTypeOK, DecisionStands
    <3> QED BY <3>1, <3>3
  <2>3. ASSUME NEW r \in Requests, NEW d \in Decisions, Deliver(r, d)
        PROVE  ContractTypeOK' /\ DecisionStands'
    <3>1. ContractTypeOK'
      BY <2>3 DEF Deliver, ContractTypeOK, Verdicts
    <3>2. DecisionStands'
      BY <2>3 DEF Deliver, ContractTypeOK, DecisionStands
    <3> QED BY <3>1, <3>2
  <2>4. ASSUME NEW r \in Requests, AnswerQuestion(r)
        PROVE  ContractTypeOK' /\ DecisionStands'
    <3>1. ContractTypeOK'
      BY <2>4 DEF AnswerQuestion, ContractTypeOK, Verdicts
    <3>2. DecisionStands'
      BY <1>0, <2>4 DEF AnswerQuestion, ContractTypeOK, DecisionStands
    <3> QED BY <3>1, <3>2
  <2>5. ASSUME NEW R \in SUBSET Requests, HandBack(R)
        PROVE  ContractTypeOK' /\ DecisionStands'
    <3>1. ContractTypeOK'
      BY <2>5 DEF HandBack, ContractTypeOK, Verdicts
    <3>2. DecisionStands'
      BY <1>0, <2>5 DEF HandBack, ContractTypeOK, DecisionStands
    <3> QED BY <3>1, <3>2
  <2>6. CASE UNCHANGED contractVars
    BY <2>6 DEF contractVars, ContractTypeOK, DecisionStands
  <2> QED BY <2>1, <2>2, <2>3, <2>4, <2>5, <2>6 DEF ContractNext
<1> QED BY <1>1, <1>2, PTL DEF ContractSpec
=============================================================================
