---------------------------- MODULE AgentDecision ----------------------------
(***************************************************************************)
(* The next action of the agent: the deterministic rules, the set of       *)
(* actions an LLM may choose from, and the policy every action passes.     *)
(* All are functions of the run's state s, a record with at least          *)
(*   status, execution ("none", "ok", "failed"), explored, validation      *)
(*   ("none" or a conclusion), eligible (the failure may be healed),       *)
(*   recoveries, plan (a contract of FlowSelection) and suite.             *)
(* The planner's confidence is left out: it changes a decision only when   *)
(* nothing is executable, and then approval is required anyway.            *)
(***************************************************************************)
EXTENDS Naturals, FiniteSets, Sequences

CONSTANT MaxRecoveries
ASSUME RecoveriesAssumption == MaxRecoveries \in Nat \ {0}

Terminal == {"COMPLETED", "FAILED", "BLOCKED", "NEEDS_REVIEW",
             "WAITING_FOR_APPROVAL"}
Actions == {"RUN_EXISTING_TEST", "EXPLORE", "CAPTURE_EVIDENCE", "VERIFY",
            "RECOVER_LOCATOR", "WAIT_FOR_REVIEW", "STOP"}

\* Statuses that leave no choice.
Forced == [OBSERVING  |-> "CAPTURE_EVIDENCE",
           VERIFYING  |-> "VERIFY",
           RECOVERING |-> "RECOVER_LOCATOR"]

CanRun(s)     == s.suite.cmds # {} /\ s.execution = "none"
CanExplore(s) == s.plan.explore /\ ~s.explored
CanRecover(s) == /\ s.execution = "failed"
                 /\ s.eligible
                 /\ s.recoveries < MaxRecoveries

Deterministic(s) ==
  IF s.status \in DOMAIN Forced THEN Forced[s.status]
  ELSE IF s.status \in Terminal \cup {"PLANNING"} THEN "STOP"
  ELSE IF s.plan.strategy = "BLOCK" THEN "STOP"
  ELSE IF CanRun(s) THEN "RUN_EXISTING_TEST"
  ELSE IF s.plan.needsApproval THEN "WAIT_FOR_REVIEW"
  ELSE IF ~s.plan.allowed
  THEN IF ~s.plan.generate /\ s.plan.explore /\ s.plan.strategy = "EXPLORE"
       THEN "EXPLORE" ELSE "WAIT_FOR_REVIEW"
  ELSE IF CanRecover(s) THEN "RECOVER_LOCATOR"
  ELSE IF s.execution = "failed" THEN "WAIT_FOR_REVIEW"
  ELSE IF s.execution = "ok" /\ s.validation = "none" THEN "VERIFY"
  ELSE IF s.validation \in {"PASS", "FAIL"} THEN "STOP"
  ELSE IF s.validation = "none" /\ CanExplore(s) THEN "EXPLORE"
  ELSE "WAIT_FOR_REVIEW"

ByPolicy(s) == /\ Deterministic(s) = "WAIT_FOR_REVIEW"
               /\ s.plan.needsApproval \/ ~s.plan.allowed

Ambiguous(s) ==
  \/ s.plan.ambiguous
  \/ s.plan.strategy = "ASK_USER"
  \/ Len(s.plan.candidates) >= 2 /\ ~s.plan.allowed /\ s.plan.explore
  \/ s.validation = "NEEDS_REVIEW"
  \/ CanRecover(s)
  \/ Deterministic(s) = "WAIT_FOR_REVIEW" /\ CanExplore(s)

Plausible(s) ==
  {"WAIT_FOR_REVIEW"}
    \cup (IF CanRun(s) THEN {"RUN_EXISTING_TEST"} ELSE {})
    \cup (IF CanExplore(s) THEN {"EXPLORE"} ELSE {})
    \cup (IF s.execution # "none" THEN {"VERIFY"} ELSE {})
    \cup (IF s.eligible THEN {"RECOVER_LOCATOR"} ELSE {})

Offered(s) ==
     (IF CanRun(s) THEN {"RUN_EXISTING_TEST"} ELSE {})
  \cup (IF CanExplore(s) THEN {"EXPLORE"} ELSE {})
  \cup (IF s.execution = "ok" /\ s.validation = "none" THEN {"VERIFY"} ELSE {})
  \cup (IF CanRecover(s) THEN {"RECOVER_LOCATOR"} ELSE {})
  \cup (IF s.execution = "failed" THEN {"WAIT_FOR_REVIEW", "STOP"} ELSE {})
  \cup (IF s.validation = "NEEDS_REVIEW" THEN {"VERIFY", "WAIT_FOR_REVIEW"}
        ELSE {})

Allowed(s) ==
  IF s.status \in DOMAIN Forced THEN {Forced[s.status]}
  ELSE (IF Offered(s) = {} THEN {Deterministic(s)} ELSE Offered(s))
         \cup (IF Ambiguous(s) THEN Plausible(s) ELSE {})

Consults(s, llm) ==
  /\ llm # "off"
  /\ s.status \notin Terminal \cup {"PLANNING"}
  /\ \/ Ambiguous(s)
     \/ /\ Cardinality(Allowed(s)) >= 2
        /\ Deterministic(s) # "STOP"
        /\ ~ByPolicy(s)

-----------------------------------------------------------------------------
\* What the LLM can answer: an action, in words that are clean or name a
\* forbidden thing, sure enough or not, resting on evidence or none.
Proposals == [action : Actions, clean : BOOLEAN, sure : BOOLEAN,
              refs : {"none", "known", "invented"}]

\* No answer, or one that cannot be read.
NoProposal == [action |-> "none"]

\* What the proposal is held against.
Context(s) == [allowed   |-> Allowed(s),
               ambiguous |-> Ambiguous(s) \/ Cardinality(Allowed(s)) >= 2]

\* validate_proposal
Accepts(context, p, llm) ==
  /\ p.clean
  /\ p.action \in context.allowed
  /\ llm = "auto" => p.sure
  /\ p.refs # "invented"
  /\ p.refs = "none" /\ p.action \in {"VERIFY", "RECOVER_LOCATOR"} =>
       ~context.ambiguous

\* _resolve_final: a proposal decides only in auto mode and only if it was
\* accepted; a rejected one turns into a pause, in either mode.
Resolve(context, rules, p, llm) ==
  IF p = NoProposal THEN rules
  ELSE IF ~Accepts(context, p, llm) THEN "WAIT_FOR_REVIEW"
  ELSE IF llm = "auto" THEN p.action
  ELSE rules

\* decide, whatever the LLM answers.
Decide(s, llm) ==
  IF ~Consults(s, llm) THEN {Deterministic(s)}
  ELSE LET context == Context(s)
           rules   == Deterministic(s)
       IN  {Resolve(context, rules, p, llm) : p \in Proposals \cup {NoProposal}}

\* PolicyValidator.validate; flagged: the goal, which is part of every action's
\* payload, or the action's reason holds a forbidden pattern, a URL for instance.
Permitted(action, s, flagged) ==
  /\ flagged => action \in {"RUN_EXISTING_TEST", "EXPLORE"}
  /\ action = "RUN_EXISTING_TEST" =>
       \/ s.suite.cmds # {}
       \/ /\ s.plan.allowed
          /\ \/ s.suite.flows # <<>>
             \/ s.plan.strategy \in {"EXPLORE", "GENERATE", "ASK_USER"}
  /\ action = "RECOVER_LOCATOR" =>
       s.recoveries < MaxRecoveries /\ s.plan.allowed
  /\ action = "EXPLORE" => s.plan.explore
=============================================================================
