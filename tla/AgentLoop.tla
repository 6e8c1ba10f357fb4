------------------------------ MODULE AgentLoop ------------------------------
(***************************************************************************)
(* The life of one agent run: ControlledAgentLoop.run plans it, iterates   *)
(* over decisions and finalizes it; while it waits for approval,           *)
(* AgentResumeService.resume may take it up again, any number of times.    *)
(* The execution gate changes under it: people approve and reject flows.   *)
(* One invocation at a time; concurrent resumes and crashes are not here.  *)
(***************************************************************************)
EXTENDS FlowSelection, AgentDecision

CONSTANTS MaxIterations,  \* QA_AGENT_MAX_ITERATIONS
          Llm,            \* LLM use of the deployment: "off", "advise", "auto"
          Racing          \* may the gate change during an invocation?

ASSUME LoopAssumption == /\ MaxIterations \in Nat \ {0}
                         /\ Llm \in {"off", "advise", "auto"}
                         /\ Racing \in BOOLEAN

VARIABLES gate,     \* gate[f]: ExecutionGate.evaluate(f).executable
          pc,       \* where the invocation is
          req,      \* the request
          s,        \* AgentRunState, as the snapshot keeps it
          resumed,  \* is the invocation a resume?
          cleared,  \* flows executable at some time since the invocation began
          starts    \* how often Playwright was started

vars == <<gate, pc, req, s, resumed, cleared, starts>>

Requests == [goal : {"plain", "destructive"}, flagged : BOOLEAN,
             skip : BOOLEAN, quiet : BOOLEAN]

NoIntent == [mode |-> "none", ids |-> <<>>]
NoPlan  == [strategy |-> "none"]
NoSuite == [flows |-> <<>>, blocked |-> FALSE, cmds |-> {}]
Fresh   == [status |-> "PLANNING", iteration |-> 0, intent |-> NoIntent,
            plan |-> NoPlan, suite |-> NoSuite, flow |-> {},
            selected |-> <<>>,
            generated |-> {}, execution |-> "none", explored |-> FALSE,
            validation |-> "none", eligible |-> FALSE, recoveries |-> 0,
            final |-> "none", kind |-> "none"]

Conclusions == {"PASS", "FAIL", "NEEDS_REVIEW", "BLOCKED",
                "WAITING_FOR_APPROVAL"}
Labels == {"idle", "plan", "select", "loop", "final", "apply", "done"}

\* Every variable stays in its domain; a run out of planning has a contract,
\* and the flow it is about is at most one.
TypeOK ==
  /\ gate \in [Flows -> BOOLEAN]
  /\ pc \in Labels \cup Actions
  /\ req \in Requests
  /\ s.status \in Terminal \cup {"PLANNING", "READY"}
  /\ s.iteration \in 0 .. MaxIterations
  /\ s.suite.cmds \subseteq Flows \cup {Suite}
  /\ pc \in Actions \cup {"loop", "final", "apply", "done"} =>
       s.plan.strategy \in Strategies
  /\ s.flow \in SUBSET Flows /\ Cardinality(s.flow) <= 1
  /\ s.execution \in {"none", "ok", "failed"}
  /\ s.validation \in {"none", "PASS", "FAIL", "NEEDS_REVIEW"}
  /\ s.final \in Conclusions \cup {"none"}
  /\ s.kind \in {"none", "generation", "execution_gate", "healing",
                 "after_validation"}
  /\ cleared \subseteq Flows
  /\ starts \in Nat

Init == /\ gate \in [Flows -> BOOLEAN]
        /\ pc = "idle"
        /\ req \in Requests
        /\ s = Fresh
        /\ resumed = FALSE
        /\ cleared = {} /\ starts = 0

-----------------------------------------------------------------------------
\* A state with the status and the conclusion an invocation ends with.
Ended(t, status, final) == [t EXCEPT !.status = status, !.final = final]
Pause(t, kind) ==
  [Ended(t, "WAITING_FOR_APPROVAL", "WAITING_FOR_APPROVAL")
     EXCEPT !.kind = IF @ = "none" \/ kind = "generation" THEN kind ELSE @]
Review(t) == Ended(t, "NEEDS_REVIEW", "NEEDS_REVIEW")

\* Bug: an execution that was verified counts as completed.
StatusOfVerified(conclusion) ==
  IF conclusion = "NEEDS_REVIEW" THEN "NEEDS_REVIEW" ELSE "COMPLETED"

StatusOf(conclusion) == CASE conclusion = "PASS" -> "COMPLETED"
                          [] conclusion = "FAIL" -> "FAILED"
                          [] OTHER -> "NEEDS_REVIEW"

\* Validator.validate of an execution that is ok: approved Ground Truth that
\* matches concludes PASS or FAIL; without, there is nothing to pass.
Verdicts(t) ==
  {"PASS", "FAIL"}
    \cup (IF ~req.skip /\ t.suite.blocked /\ t.suite.flows = <<>>
          THEN {} ELSE {"NEEDS_REVIEW"})

Verified(t) ==
  {[Ended(t, StatusOf(c), c) EXCEPT !.execution = "ok", !.validation = c]
     : c \in Verdicts(t)}

Continue(t, label) == /\ s' = t
                      /\ pc' = label
Keep == UNCHANGED <<gate, req, resumed, cleared, starts>>

-----------------------------------------------------------------------------
\* Environment: an SME decides on a flow, or its artifact changes.  (Before
\* the run begins Init has every gate, and a run that is over reads none.)
ToggleGate(f) ==
  /\ IF pc = "done" THEN s.status = "WAITING_FOR_APPROVAL"
     ELSE Racing /\ pc # "idle"
  /\ gate' = [gate EXCEPT ![f] = ~@]
  /\ cleared' = cleared \cup Executable(gate')
  /\ UNCHANGED <<pc, req, s, resumed, starts>>

\* _phase_plan, up to the call of the planner.
Classify == /\ pc = "idle"
            /\ \E i \in Classified(gate) : Continue([s EXCEPT !.intent = i], "plan")
            /\ cleared' = Executable(gate)
            /\ UNCHANGED <<gate, req, resumed, starts>>

\* QaPlanner.plan
Plan == /\ pc = "plan"
        /\ \E p \in Plans(gate, req.goal, s.intent) :
             Continue([s EXCEPT !.plan = p, !.intent = NoIntent], "select")
        /\ Keep

\* How _phase_plan goes on once it has a suite.
NeedsPause(p) == \/ p.needsApproval
                 \/ ~p.allowed /\ p.strategy \in {"ASK_USER", "GENERATE"}
\* Bug: the planner's strategy is not looked at.
ProceedsAlways(t) == ~req.skip /\ t.suite.cmds # {}

Proceeds(t) ==
  /\ ~req.skip
  /\ IF NeedsPause(t.plan)
     THEN t.suite.cmds # {} /\ t.plan.strategy = "REUSE_EXISTING"
     ELSE t.plan.allowed \/ t.suite.cmds # {}

\* AgentExecutor.generate: the flow a draft is generated for.
GeneratedFor(p) == IF p.candidates = <<>> THEN {ProductFlow}
                   ELSE Primary(p.selected) \cup Primary(p.candidates)

\* t: the run with its suite selected; the contract it was selected for is s.plan.
PhasePlan(t) ==
  CASE t.plan.strategy = "BLOCK" -> {Ended(t, "BLOCKED", "BLOCKED")}
    [] t.plan.strategy # "BLOCK" /\ t.plan.generate ->
         {Pause([t EXCEPT !.generated = {f}], "generation")
            : f \in GeneratedFor(s.plan)}
    [] OTHER -> IF Proceeds(t) THEN {[t EXCEPT !.status = "READY"]}
                ELSE IF req.skip /\ ~NeedsPause(t.plan) THEN Verified(t)
                ELSE {Pause(t, "execution_gate")}

\* SuiteSelector.select and the rest of _phase_plan.  (The ids and the selection
\* of the contract are not read again.)
SelectSuite ==
  /\ pc = "select"
  /\ \E related \in Related(gate, s.plan.mode) :
       LET suite == Select(gate, s.plan.mode, s.plan.ids, related)
           flows == IF s.plan.selected # <<>> THEN s.plan.selected
                    ELSE suite.flows
       IN  \E t \in PhasePlan([s EXCEPT !.plan.ids = <<>>,
                                        !.plan.selected = <<>>,
                                        !.suite = suite,
                                        !.selected = flows,
                                        !.flow = Primary(flows)]) :
             Continue(t, IF t.status \in Terminal THEN "final" ELSE "loop")
  /\ Keep

-----------------------------------------------------------------------------
\* Bug: the iteration is counted only when a test runs.
IteratedOnRun(action) ==
  [s EXCEPT !.iteration = IF action = "RUN_EXISTING_TEST" THEN @ + 1 ELSE @]

Iterated(action) == [s EXCEPT !.iteration = @ + 1]

\* Bug: the iterations are not bounded.
DecisionsUnbounded == Actions \cap Decide(s, Llm)

Decisions == IF s.iteration < MaxIterations THEN Actions \cap Decide(s, Llm)
             ELSE {}

\* The next iteration, up to the engine's decision.  (max_steps cannot be
\* reached: only a last iteration counts steps.)
Takes(action) == Continue(Iterated(action), action) /\ Keep

Choose == pc = "loop" /\ \E action \in Decisions : Takes(action)

\* The policy refuses: the conclusion of an earlier pause, if any, stays.  The
\* action's reason may be the LLM's words or why they were rejected, and hold a
\* forbidden pattern as well.
Refuse == /\ pc \in Actions
          /\ \E said \in {FALSE, Consults(s, Llm)} :
               ~Permitted(pc, s, req.flagged \/ said)
          /\ Continue([s EXCEPT !.status = "BLOCKED"], "final")
          /\ Keep

Performs(action) == pc = action /\ Permitted(action, s, req.flagged)

\* _status_from_result; only a resume that ended in review comes to STOP.
Stopped(t) ==
  [t EXCEPT !.status = CASE t.final = "PASS" -> "COMPLETED"
                         [] t.final = "FAIL" -> "FAILED"
                         [] t.final \in Terminal -> t.final
                         [] OTHER -> IF @ \in Terminal THEN @ ELSE "NEEDS_REVIEW"]

Stop == /\ Performs("STOP")
        /\ Continue(Stopped(s), "final")
        /\ Keep

WaitForReview ==
  /\ Performs("WAIT_FOR_REVIEW")
  /\ Continue(Ended(s, "WAITING_FOR_APPROVAL", "WAITING_FOR_APPROVAL"), "final")
  /\ Keep

\* AgentExecutor.explore does nothing for a request that skips discovery.
Explores(t) == t.plan.explore /\ ~req.quiet

\* A second exploration is no supported action.
Explore ==
  /\ Performs("EXPLORE")
  /\ IF s.explored
     THEN Continue([s EXCEPT !.status = "NEEDS_REVIEW"], "final")
     ELSE Continue([s EXCEPT !.status = "READY", !.explored = Explores(s)], "loop")
  /\ Keep

\* AgentExecutor, healing: a retry that worked waits for approval.
Healed(t) == LET u == [t EXCEPT !.recoveries = @ + 1]
             IN  {Pause([u EXCEPT !.kind = "healing"], "healing"), Review(u)}

\* Bug: the engine is asked with the status the run has, and may answer that
\* the locator be repaired.
RecoveredByRules(t) ==
  UNION {IF a = "RECOVER_LOCATOR" THEN Healed(t)
         ELSE {[t EXCEPT !.status = "NEEDS_REVIEW"]} : a \in Decide(t, Llm)}

\* _recover without an entry asks the engine again, which sees OBSERVING.
Recovered(t) ==
  UNION {IF a = "RECOVER_LOCATOR" THEN Healed(t)
         ELSE {[t EXCEPT !.status = "NEEDS_REVIEW"]}
           : a \in Decide([t EXCEPT !.status = "OBSERVING"], Llm)}

\* Bug: a failed test is simply tried again, the failure forgotten.
FailedRetried(t) == {t}

Failed(t) ==
  UNION {LET u == [t EXCEPT !.execution = "failed", !.eligible = e]
         IN  IF CanRecover(u) THEN Recovered(u) ELSE {Review(u)}
           : e \in BOOLEAN}

\* run_existing_test, then _observe_verify.
RunTest ==
  /\ Performs("RUN_EXISTING_TEST")
  /\ \E t \in Verified(s) \cup (IF req.skip THEN {} ELSE Failed(s)) :
       Continue([t EXCEPT !.flow = IF s.suite.flows = <<>> THEN @
                                   ELSE Primary(s.suite.flows)],
                IF t.status \in Terminal THEN "final" ELSE "loop")
  /\ starts' = IF req.skip THEN starts ELSE starts + 1
  /\ UNCHANGED <<gate, req, resumed, cleared>>

\* The loop is left although nothing is decided.
LeaveLoop == /\ pc = "loop"
             /\ Continue([s EXCEPT !.status = IF @ \in Terminal THEN @
                                              ELSE "NEEDS_REVIEW"], "final")
             /\ Keep

\* The iterations are used up.
GiveUp == s.iteration >= MaxIterations /\ LeaveLoop

\* The time is used up, perhaps early.
Deadline == s.iteration < MaxIterations /\ LeaveLoop

Concluded(t) ==
  CASE t.status = "COMPLETED" -> "PASS" [] t.status = "FAILED" -> "FAIL"
    [] OTHER -> t.status

\* _finalize writes the snapshot, then explores if the plan asked for it; what
\* it found reaches the snapshot only when a resume saves it once more.
Finalize ==
  /\ pc = "final"
  /\ Continue(
       [s EXCEPT
          !.final = IF @ = "none" THEN Concluded(s) ELSE @,
          !.kind = IF s.status = "NEEDS_REVIEW" THEN "after_validation"
                   ELSE IF s.status = "WAITING_FOR_APPROVAL" /\ @ = "none"
                   THEN "execution_gate" ELSE @,
          !.explored = @ \/ (resumed /\ Explores(s))], "done")
  /\ Keep

-----------------------------------------------------------------------------
\* The flow a resume is validated for.
Resumes(t) == IF t.kind = "generation" THEN t.generated
              ELSE IF t.flow # {} THEN t.flow ELSE Primary(t.plan.candidates)

\* Bug: the gate is not asked again.
ApprovedOnce(t, changed) == ~changed

\* _validate_resume; changed: the fingerprint of an artifact differs.
Approved(t, changed) ==
  IF Resumes(t) = {} THEN t.suite.cmds # {}
  ELSE ~changed /\ \A f \in Resumes(t) : gate[f]

Resume ==
  /\ pc = "done"
  /\ s.status = "WAITING_FOR_APPROVAL"
  /\ \E changed \in BOOLEAN :
       IF Approved(s, changed) THEN Continue(s, "apply")
       ELSE Continue(Review(s), "final")
  /\ resumed' = TRUE
  /\ cleared' = Executable(gate)
  /\ UNCHANGED <<gate, req, starts>>

\* _resume_execution_gate: the gate is read once more, and if it lets
\* anything pass the suite becomes the first flow it lets pass.
Reopened(t) ==
  LET allowed == Gated(gate, t.plan.candidates)
      u == [t EXCEPT !.status = "READY",
                     !.plan.allowed = allowed # <<>> \/ t.suite.cmds # {},
                     !.selected = allowed,
                     !.flow = IF t.selected = <<>>
                              THEN Primary(t.plan.candidates) ELSE @]
  IN  IF allowed = <<>> THEN u
      ELSE [u EXCEPT !.plan.needsApproval = FALSE,
                     !.suite.flows = <<Head(allowed)>>,
                     !.suite.cmds = {Head(allowed)}]

\* _resume_generation: the same for the generated flow, which may by now be
\* blocked.
Regenerated(t) ==
  IF \A f \in t.generated : gate[f]
  THEN LET f == CHOOSE f \in t.generated : TRUE
       IN  [t EXCEPT !.status = "READY", !.flow = {f}, !.selected = <<f>>,
                     !.suite.flows = <<f>>, !.suite.cmds = {f}]
  ELSE Review(t)

\* (Healing never pauses a run of this loop; its resume is in AgentResume.)
Reapplied(t) == IF t.kind = "generation" THEN Regenerated(t) ELSE Reopened(t)

\* build_flow_command knows the polarities positive and negative only.
Rebuilds(t) == IF t.kind = "generation" THEN \A f \in t.generated : gate[f]
               ELSE Gated(gate, t.plan.candidates) # <<>>
Raises(t) == Rebuilds(t) /\ t.plan.polarity = "parameterized"

ApplyResume == /\ pc = "apply"
               /\ ~Raises(s)
               /\ Continue(Reapplied(s), "loop")
               /\ Keep

\* The error leaves resume: nothing is saved, the run is waiting as before.
ResumeError == /\ pc = "apply"
               /\ Raises(s)
               /\ Continue(s, "done")
               /\ Keep

-----------------------------------------------------------------------------
Working == \/ Choose \/ Refuse \/ Stop \/ WaitForReview \/ Explore
           \/ RunTest \/ GiveUp \/ Finalize \/ ApplyResume \/ ResumeError

Next == \/ Classify \/ Plan \/ SelectSuite \/ Working
        \/ Deadline \/ Resume \/ \E f \in Flows : ToggleGate(f)

\* An invocation is sequential code that keeps going; people need not, and the
\* deadline, minutes away, is not relied on.  (The planning phase is a straight
\* line, so fairness is asked of the rest only.)
Spec == Init /\ [][Next]_vars /\ WF_vars(Working)
-----------------------------------------------------------------------------
\* Playwright is started, on flows seen executable.
Gating == s.suite.cmds \subseteq cleared \cup {Suite}
Starting == starts' # starts

\* The request is for one flow.
OneFlow == s.plan.mode \in {"adhoc_existing", "adhoc_parameterized"}

\* In the modes that run one flow, the first invocation starts Playwright on a
\* flow only if that was executable at some time since the invocation began,
\* whoever changes the gate meanwhile (suite_selector.py clears the commands).
SingleFlowGated == [][Starting /\ ~resumed /\ OneFlow => Gating]_vars

\* While nobody changes the gate during an invocation the same holds in every
\* mode but incident_multi_flow.
GatedUnlessIncident ==
  [][Starting /\ s.plan.mode # "incident_multi_flow" => Gating]_vars

\* However often a run pauses and is resumed, Playwright is started once.
RunsOnce == starts <= 1

\* Before anybody resumed the run, Playwright starts only under the planner's
\* REUSE_EXISTING: no LLM decision turns another strategy into an execution.
RunsUnderReuse == starts > 0 => resumed \/ s.plan.strategy = "REUSE_EXISTING"

\* The conclusion a first invocation reports is the one its status stands for,
\* however the loop was left (the mapping in _finalize).
ConclusionAgrees == pc = "done" /\ ~resumed => s.final = Concluded(s)

\* A run is one of module AgentRun: settled once and for all, executed at most
\* once, and settled by its execution.  (A repair by healing would wait for an
\* approval after it; _recover never comes to one.)
Life == IF pc = "done" THEN s.status ELSE "working"
Run == INSTANCE AgentRun WITH life <- Life, skip <- req.skip
ImplementsAgentRun == Run!Spec

\* Every invocation that has entered its loop comes to its end: the loop is
\* bounded by its iterations, not only by the clock, even when an LLM asks over
\* and over for an exploration that the request forbids.
InvocationsEnd == pc \in Actions \cup {"loop", "final", "apply"} ~> pc = "done"

=============================================================================
