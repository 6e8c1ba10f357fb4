--------------------------- MODULE AgentLoopProofs ---------------------------
(***************************************************************************)
(* AgentLoop for any flows, bounds, LLM use and gate: whatever the LLM     *)
(* answers and however often the run pauses and is resumed, Playwright is  *)
(* started at most once, by a first invocation only under the planner's    *)
(* strategy REUSE_EXISTING, and the conclusion that one reports is that of *)
(* the status it ends with.  The variables keep their domains, and what    *)
(* Playwright is started on passed the execution gate: in a run for one    *)
(* flow however the gate changes, in the other modes (but one) while it    *)
(* does not.  Seen from outside every run is one of module AgentRun.       *)
(***************************************************************************)
EXTENDS AgentLoop, NaturalsInduction, SequenceTheorems, FiniteSetTheorems, TLAPS

\* The state has an execution, and what was started is remembered in it; a
\* test that is about to be run was not run before.
Remembers == /\ "execution" \in DOMAIN s
             /\ starts \in {0, 1}
             /\ starts = 1 => s.execution # "none"
             /\ pc = "RUN_EXISTING_TEST" => s.execution = "none"

\* u is t after operations none of which forgets an execution.
Keeps(t, u) == /\ "execution" \in DOMAIN u
               /\ t.execution # "none" => u.execution # "none"

-----------------------------------------------------------------------------
\* The rules, and whatever they offer to the LLM, contain the test only while
\* nothing was executed.
LEMMA RunIsOffered ==
  ASSUME NEW t, "RUN_EXISTING_TEST" \in Decide(t, Llm)
  PROVE  t.execution = "none"
<1>1. Deterministic(t) = "RUN_EXISTING_TEST" => CanRun(t)
  <2>1. t.status \in DOMAIN Forced => Forced[t.status] # "RUN_EXISTING_TEST"
    BY DEF Forced
  <2>2. QED
    BY <2>1 DEF Deterministic
<1>2. "RUN_EXISTING_TEST" \in Offered(t) => CanRun(t)
  BY DEF Offered
<1>3. "RUN_EXISTING_TEST" \in Plausible(t) => CanRun(t)
  BY DEF Plausible
<1>4. "RUN_EXISTING_TEST" \in Allowed(t) => CanRun(t)
  <2>1. t.status \in DOMAIN Forced => Forced[t.status] # "RUN_EXISTING_TEST"
    BY DEF Forced
  <2>2. QED
    BY <2>1, <1>1, <1>2, <1>3 DEF Allowed
<1>5. ASSUME NEW p, Resolve(Context(t), Deterministic(t), p, Llm) = "RUN_EXISTING_TEST"
      PROVE  CanRun(t)
  <2>1. Deterministic(t) = "RUN_EXISTING_TEST" \/ p.action \in Context(t).allowed
    BY <1>5 DEF Resolve, Accepts
  <2>2. CASE p.action \in Context(t).allowed /\ p.action = "RUN_EXISTING_TEST"
    BY <2>2, <1>4 DEF Context
  <2>3. QED
    BY <1>1, <1>5, <2>1, <2>2 DEF Resolve
<1>6. CanRun(t)
  BY <1>1, <1>5 DEF Decide
<1>7. QED
  BY <1>6 DEF CanRun

LEMMA EndedKeeps ==
  ASSUME NEW t, "execution" \in DOMAIN t, NEW status, NEW final
  PROVE  Keeps(t, Ended(t, status, final))
BY DEF Keeps, Ended

LEMMA PauseKeeps ==
  ASSUME NEW t, "execution" \in DOMAIN t, NEW kind
  PROVE  Keeps(t, Pause(t, kind))
BY DEF Keeps, Ended, Pause

\* A verified state has an execution.
LEMMA VerifiedHasRun ==
  ASSUME NEW t, "execution" \in DOMAIN t, NEW u \in Verified(t)
  PROVE  "execution" \in DOMAIN u /\ u.execution = "ok"
BY DEF Verified, Ended

\* So has a failed one, healed or not.
LEMMA FailedHasRun ==
  ASSUME NEW t, "execution" \in DOMAIN t, NEW u \in Failed(t)
  PROVE  "execution" \in DOMAIN u /\ u.execution = "failed"
<1>1. PICK e \in BOOLEAN :
        LET v == [t EXCEPT !.execution = "failed", !.eligible = e]
        IN  u \in IF CanRecover(v) THEN Recovered(v) ELSE {Review(v)}
  BY DEF Failed
<1> DEFINE v == [t EXCEPT !.execution = "failed", !.eligible = e]
<1>2. "execution" \in DOMAIN v /\ v.execution = "failed"
  OBVIOUS
<1>3. CASE u = Review(v)
  BY <1>2, <1>3 DEF Review, Ended
<1>4. CASE u \in Recovered(v)
  <2>1. u \in Healed(v) \/ u = [v EXCEPT !.status = "NEEDS_REVIEW"]
    BY <1>4 DEF Recovered
  <2>2. CASE u = [v EXCEPT !.status = "NEEDS_REVIEW"]
    BY <1>2, <2>2
  <2>3. CASE u \in Healed(v)
    BY <1>2, <2>3 DEF Healed, Pause, Review, Ended
  <2>4. QED
    BY <2>1, <2>2, <2>3
<1>5. QED
  BY <1>1, <1>3, <1>4

LEMMA PhasePlanKeeps ==
  ASSUME NEW t, "execution" \in DOMAIN t, NEW u \in PhasePlan(t)
  PROVE  Keeps(t, u)
<1>1. \/ u = Ended(t, "BLOCKED", "BLOCKED")
      \/ \E f : u = Pause([t EXCEPT !.generated = f], "generation")
      \/ u = [t EXCEPT !.status = "READY"]
      \/ u \in Verified(t)
      \/ u = Pause(t, "execution_gate")
  BY DEF PhasePlan
<1>2. CASE u = Ended(t, "BLOCKED", "BLOCKED")
  BY <1>2, EndedKeeps
<1>3. CASE \E f : u = Pause([t EXCEPT !.generated = f], "generation")
  BY <1>3 DEF Keeps, Pause, Ended
<1>4. CASE u = [t EXCEPT !.status = "READY"]
  BY <1>4 DEF Keeps
<1>5. CASE u \in Verified(t)
  BY <1>5, VerifiedHasRun DEF Keeps
<1>6. CASE u = Pause(t, "execution_gate")
  BY <1>6, PauseKeeps
<1>7. QED
  BY <1>1, <1>2, <1>3, <1>4, <1>5, <1>6

\* A resume re-applies plan and suite, and leaves the execution alone.
LEMMA ReappliedKeeps ==
  ASSUME NEW t, "execution" \in DOMAIN t
  PROVE  Keeps(t, Reapplied(t))
<1>1. Keeps(t, Regenerated(t))
  BY DEF Regenerated, Review, Ended, Keeps
<1>2. Keeps(t, Reopened(t))
  BY DEF Reopened, Keeps
<1>3. QED
  BY <1>1, <1>2 DEF Reapplied

-----------------------------------------------------------------------------
LEMMA InitRemembers == Init => Remembers
BY DEF Init, Fresh, Remembers

\* A step that does not start Playwright and keeps the execution.
LEMMA QuietStep ==
  ASSUME Remembers, Keeps(s, s'), starts' = starts, pc' # "RUN_EXISTING_TEST"
  PROVE  Remembers'
BY DEF Remembers, Keeps

LEMMA StepRemembers == Remembers /\ [Next]_vars => Remembers'
<1> SUFFICES ASSUME Remembers, [Next]_vars PROVE Remembers'
  OBVIOUS
<1>a. "execution" \in DOMAIN s
  BY DEF Remembers
<1>1. CASE Classify
  <2>1. Keeps(s, s') /\ starts' = starts /\ pc' # "RUN_EXISTING_TEST"
    BY <1>1, <1>a DEF Classify, Continue, Keeps
  <2>2. QED
    BY <2>1, QuietStep
<1>2. CASE Plan
  <2>1. Keeps(s, s') /\ starts' = starts /\ pc' # "RUN_EXISTING_TEST"
    BY <1>2, <1>a DEF Plan, Continue, Keep, Keeps
  <2>2. QED
    BY <2>1, QuietStep
<1>3. CASE SelectSuite
  <2>1. PICK related \in Related(gate, s.plan.mode) :
          LET suite == Select(gate, s.plan.mode, s.plan.ids, related)
              flows == IF s.plan.selected # <<>> THEN s.plan.selected
                       ELSE suite.flows
          IN  s' \in PhasePlan([s EXCEPT !.plan.ids = <<>>,
                                         !.plan.selected = <<>>,
                                         !.suite = suite,
                                         !.selected = flows,
                                         !.flow = Primary(flows)])
    BY <1>3 DEF SelectSuite, Continue
  <2> DEFINE suite  == Select(gate, s.plan.mode, s.plan.ids, related)
             flows  == IF s.plan.selected # <<>> THEN s.plan.selected
                       ELSE suite.flows
             before == [s EXCEPT !.plan.ids = <<>>, !.plan.selected = <<>>,
                                 !.suite = suite, !.selected = flows,
                                 !.flow = Primary(flows)]
  <2>2. "execution" \in DOMAIN before /\ before.execution = s.execution
    BY <1>a
  <2>3. Keeps(before, s')
    <3>1. s' \in PhasePlan(before)
      BY <2>1
    <3> HIDE DEF before
    <3>2. QED
      BY <3>1, <2>2, PhasePlanKeeps
  <2>4. Keeps(s, s')
    BY <2>2, <2>3 DEF Keeps
  <2>5. starts' = starts /\ pc' # "RUN_EXISTING_TEST"
    BY <1>3 DEF SelectSuite, Continue, Keep
  <2>6. QED
    BY <2>4, <2>5, QuietStep
<1>4. CASE Working
  <2>1. ASSUME NEW a \in Decisions, pc = "loop", Takes(a) PROVE Remembers'
    <3>1. a = "RUN_EXISTING_TEST" => s.execution = "none"
      BY <2>1, RunIsOffered DEF Decisions
    <3>2. QED
      BY <2>1, <3>1, <1>a
         DEF Decisions, Takes, Iterated, Continue, Keep, Remembers
  <2>2. CASE Refuse
    BY <2>2, <1>a, QuietStep DEF Refuse, Continue, Keep, Keeps
  <2>3. CASE Stop
    BY <2>3, <1>a, QuietStep DEF Stop, Stopped, Continue, Keep, Keeps
  <2>4. CASE WaitForReview
    BY <2>4, <1>a, QuietStep DEF WaitForReview, Ended, Continue, Keep, Keeps
  <2>5. CASE Explore
    BY <2>5, <1>a, QuietStep DEF Explore, Continue, Keep, Keeps
  <2>6. CASE RunTest
    <3>1. starts = 0
      BY <2>6 DEF RunTest, Performs, Remembers
    <3>2. starts' \in {0, 1}
      BY <2>6, <3>1 DEF RunTest
    <3>3. PICK t \in Verified(s) \cup Failed(s) :
            \E flow : s' = [t EXCEPT !.flow = flow]
      BY <2>6 DEF RunTest, Continue
    <3>4. "execution" \in DOMAIN t /\ t.execution \in {"ok", "failed"}
      BY <3>3, <1>a, VerifiedHasRun, FailedHasRun
    <3>5. "execution" \in DOMAIN s' /\ s'.execution # "none"
      BY <3>3, <3>4
    <3>6. pc' # "RUN_EXISTING_TEST"
      BY <2>6 DEF RunTest, Continue
    <3>7. QED
      BY <3>2, <3>5, <3>6 DEF Remembers
  <2>7. CASE GiveUp
    BY <2>7, <1>a, QuietStep DEF GiveUp, LeaveLoop, Continue, Keep, Keeps
  <2>8. CASE Finalize
    BY <2>8, <1>a, QuietStep DEF Finalize, Continue, Keep, Keeps
  <2>9. CASE ApplyResume
    BY <2>9, <1>a, ReappliedKeeps, QuietStep DEF ApplyResume, Continue, Keep
  <2>10. CASE ResumeError
    BY <2>10, <1>a, QuietStep DEF ResumeError, Continue, Keep, Keeps
  <2>11. QED
    BY <1>4, <2>1, <2>2, <2>3, <2>4, <2>5, <2>6, <2>7, <2>8, <2>9, <2>10
       DEF Working, Choose
<1>5. CASE Deadline
  BY <1>5, <1>a, QuietStep DEF Deadline, LeaveLoop, Continue, Keep, Keeps
<1>6. CASE Resume
  BY <1>6, <1>a, QuietStep DEF Resume, Review, Ended, Continue, Keeps
<1>7. ASSUME NEW f \in Flows, ToggleGate(f) PROVE Remembers'
  BY <1>7 DEF ToggleGate, Remembers
<1>8. CASE UNCHANGED vars
  BY <1>8 DEF vars, Remembers
<1>9. QED
  BY <1>1, <1>2, <1>3, <1>4, <1>5, <1>6, <1>7, <1>8 DEF Next

\* However often a run pauses and is resumed, and whatever an LLM answers,
\* Playwright is started once (agent_decision_engine.py asks for an execution
\* that is missing, and no step of the loop or of a resume takes one away).
THEOREM StartedOnce == Spec => []RunsOnce
<1>1. Remembers => RunsOnce
  BY DEF Remembers, RunsOnce
<1>2. QED
  BY <1>1, InitRemembers, StepRemembers, PTL DEF Spec

-----------------------------------------------------------------------------
\* A contract reuses a test, is blocked, or asks for approval.
Sound(p) == /\ {"strategy", "needsApproval", "allowed"} \subseteq DOMAIN p
            /\ p.strategy \in {"REUSE_EXISTING", "BLOCK"} \/ p.needsApproval

HasPlan(t) == {"plan", "status"} \subseteq DOMAIN t
Reuses(t)  == t.plan.strategy = "REUSE_EXISTING"

\* The loop of a first invocation is entered, and Playwright is started, only
\* under REUSE_EXISTING; the strategy stays, and planning is not entered again.
UnderReuse ==
  /\ HasPlan(s)
  /\ pc = "select" => Sound(s.plan)
  /\ pc = "apply" => resumed
  /\ ~resumed /\ pc \in Actions \cup {"loop"} => Reuses(s)
  /\ ~resumed /\ starts # 0 => Reuses(s) /\ pc \notin {"idle", "plan", "select"}

\* u is t with the same plan.
SamePlan(t, u) == HasPlan(u) /\ u.plan = t.plan

LEMMA PlansAreSound ==
  ASSUME NEW goal, NEW intent, NEW p \in Plans(gate, goal, intent)
  PROVE  Sound(p)
<1>1. \/ p = Mismatch(intent)
      \/ \E c : p = Discovery(intent, c)
      \/ \E to, t, c : p = Refined(gate, goal, to, t, c)
  <2>1. PICK r \in Resolutions(gate, intent) :
          p \in Resolved(gate, goal, intent, r)
    BY DEF Plans
  <2>2. QED
    BY <2>1 DEF Resolved
<1>2. CASE p = Mismatch(intent)
  BY <1>2 DEF Mismatch, Contract, Sound
<1>3. CASE \E c : p = Discovery(intent, c)
  BY <1>3 DEF Discovery, Contract, Sound
<1>4. ASSUME NEW to, NEW t, NEW c, p = Refined(gate, goal, to, t, c)
      PROVE  Sound(p)
  <2> DEFINE selected == Gated(gate, c)
             strategy == Strategy(goal, to.mode, t, c, selected)
  <2>1. strategy \in {"BLOCK", "ASK_USER", "REUSE_EXISTING", "EXPLORE"}
    BY DEF Strategy
  <2>2. /\ {"strategy", "needsApproval", "allowed"} \subseteq DOMAIN p
        /\ p.strategy = strategy
        /\ strategy \in {"EXPLORE", "ASK_USER"} => p.needsApproval
    BY <1>4 DEF Refined, Contract, Approval
  <2>3. QED
    BY <2>1, <2>2 DEF Sound
<1>5. QED
  BY <1>1, <1>2, <1>3, <1>4

\* What the verification and the recovery conclude leaves the plan alone.
LEMMA VerifiedSamePlan ==
  ASSUME NEW t, HasPlan(t), NEW u \in Verified(t)
  PROVE  SamePlan(t, u) /\ u.status \in Terminal
<1>1. PICK c \in Verdicts(t) :
        u = [Ended(t, StatusOf(c), c) EXCEPT !.execution = "ok",
                                            !.validation = c]
  BY DEF Verified
<1>2. StatusOf(c) \in Terminal
  BY DEF StatusOf, Terminal
<1>3. QED
  BY <1>1, <1>2 DEF Ended, SamePlan, HasPlan

LEMMA FailedSamePlan ==
  ASSUME NEW t, HasPlan(t), NEW u \in Failed(t)
  PROVE  SamePlan(t, u)
<1>1. PICK e \in BOOLEAN :
        LET v == [t EXCEPT !.execution = "failed", !.eligible = e]
        IN  u \in IF CanRecover(v) THEN Recovered(v) ELSE {Review(v)}
  BY DEF Failed
<1> DEFINE v == [t EXCEPT !.execution = "failed", !.eligible = e]
<1>2. SamePlan(t, v)
  BY DEF SamePlan, HasPlan
<1>3. CASE u = Review(v)
  BY <1>2, <1>3 DEF Review, Ended, SamePlan, HasPlan
<1>4. CASE u \in Recovered(v)
  <2>1. u \in Healed(v) \/ u = [v EXCEPT !.status = "NEEDS_REVIEW"]
    BY <1>4 DEF Recovered
  <2>2. QED
    BY <1>2, <2>1 DEF Healed, Pause, Review, Ended, SamePlan, HasPlan
<1>5. QED
  BY <1>1, <1>3, <1>4

\* The planning phase hands over to the loop only what reuses a test.
LEMMA PhasePlanReuses ==
  ASSUME NEW t, HasPlan(t), Sound(t.plan), NEW u \in PhasePlan(t)
  PROVE  SamePlan(t, u) /\ (u.status \in Terminal \/ Reuses(u))
<1>1. \/ u = Ended(t, "BLOCKED", "BLOCKED")
      \/ \E f : u = Pause([t EXCEPT !.generated = f], "generation")
      \/ /\ u = [t EXCEPT !.status = "READY"]
         /\ t.plan.strategy # "BLOCK"
         /\ Proceeds(t)
      \/ u \in Verified(t)
      \/ u = Pause(t, "execution_gate")
  BY DEF PhasePlan
<1>2. CASE u = Ended(t, "BLOCKED", "BLOCKED")
  BY <1>2 DEF Ended, SamePlan, HasPlan, Terminal
<1>3. CASE \E f : u = Pause([t EXCEPT !.generated = f], "generation")
  BY <1>3 DEF Pause, Ended, SamePlan, HasPlan, Terminal
<1>4. CASE /\ u = [t EXCEPT !.status = "READY"]
           /\ t.plan.strategy # "BLOCK"
           /\ Proceeds(t)
  <2>1. t.plan.strategy = "REUSE_EXISTING"
    BY <1>4 DEF Proceeds, NeedsPause, Sound
  <2>2. QED
    BY <1>4, <2>1 DEF SamePlan, HasPlan, Reuses
<1>5. CASE u \in Verified(t)
  BY <1>5, VerifiedSamePlan
<1>6. CASE u = Pause(t, "execution_gate")
  BY <1>6 DEF Pause, Ended, SamePlan, HasPlan, Terminal
<1>7. QED
  BY <1>1, <1>2, <1>3, <1>4, <1>5, <1>6

LEMMA InitUnderReuse == Init => UnderReuse
BY DEF Init, Fresh, UnderReuse, HasPlan, Actions

\* A step from the loop on that starts nothing and does not enter planning or
\* a resume.
LEMMA LoopStep ==
  ASSUME UnderReuse, SamePlan(s, s'), starts' = starts, resumed' = resumed,
         pc' \notin {"idle", "plan", "select", "apply"},
         pc' \in Actions \cup {"loop"} =>
           resumed \/ pc \in Actions \cup {"loop"}
  PROVE  UnderReuse'
BY DEF UnderReuse, SamePlan, Reuses

LEMMA StepUnderReuse == UnderReuse /\ [Next]_vars => UnderReuse'
<1> SUFFICES ASSUME UnderReuse, [Next]_vars PROVE UnderReuse'
  OBVIOUS
<1>a. HasPlan(s)
  BY DEF UnderReuse
<1>1. CASE Classify
  <2>1. starts = 0 \/ resumed
    BY <1>1 DEF Classify, UnderReuse
  <2>2. HasPlan(s') /\ pc' = "plan" /\ starts' = starts /\ resumed' = resumed
    BY <1>1, <1>a DEF Classify, Continue, HasPlan
  <2>3. QED
    BY <2>1, <2>2 DEF UnderReuse, Actions
<1>2. CASE Plan
  <2>1. starts = 0 \/ resumed
    BY <1>2 DEF Plan, UnderReuse
  <2>2. pc' = "select" /\ starts' = starts /\ resumed' = resumed
    BY <1>2 DEF Plan, Continue, Keep
  <2>3. PICK p \in Plans(gate, req.goal, s.intent) :
          s' = [s EXCEPT !.plan = p, !.intent = NoIntent]
    BY <1>2 DEF Plan, Continue
  <2>4. HasPlan(s') /\ s'.plan = p
    BY <2>3, <1>a DEF HasPlan
  <2>5. Sound(p)
    BY PlansAreSound
  <2>6. QED
    BY <2>1, <2>2, <2>4, <2>5 DEF UnderReuse, Actions
<1>3. CASE SelectSuite
  <2>1. PICK related \in Related(gate, s.plan.mode) :
          LET suite == Select(gate, s.plan.mode, s.plan.ids, related)
              flows == IF s.plan.selected # <<>> THEN s.plan.selected
                       ELSE suite.flows
          IN  /\ s' \in PhasePlan([s EXCEPT !.plan.ids = <<>>,
                                            !.plan.selected = <<>>,
                                            !.suite = suite,
                                            !.selected = flows,
                                            !.flow = Primary(flows)])
              /\ pc' = IF s'.status \in Terminal THEN "final" ELSE "loop"
    BY <1>3 DEF SelectSuite, Continue
  <2> DEFINE suite  == Select(gate, s.plan.mode, s.plan.ids, related)
             flows  == IF s.plan.selected # <<>> THEN s.plan.selected
                       ELSE suite.flows
             before == [s EXCEPT !.plan.ids = <<>>, !.plan.selected = <<>>,
                                 !.suite = suite, !.selected = flows,
                                 !.flow = Primary(flows)]
  <2>2. Sound(s.plan) /\ (starts = 0 \/ resumed)
    BY <1>3 DEF SelectSuite, UnderReuse
  <2>3. /\ HasPlan(before)
        /\ before.plan = [s.plan EXCEPT !.ids = <<>>, !.selected = <<>>]
    BY <1>a DEF HasPlan
  <2>4. Sound(before.plan)
    BY <2>2, <2>3 DEF Sound
  <2>5. /\ s' \in PhasePlan(before)
        /\ pc' = IF s'.status \in Terminal THEN "final" ELSE "loop"
    BY <2>1
  <2>6. HasPlan(s') /\ (s'.status \in Terminal \/ Reuses(s'))
    <3> HIDE DEF before
    <3>1. QED
      BY <2>3, <2>4, <2>5, PhasePlanReuses DEF SamePlan
  <2>7. starts' = starts /\ resumed' = resumed
    BY <1>3 DEF SelectSuite, Keep
  <2>8. QED
    BY <2>2, <2>5, <2>6, <2>7 DEF UnderReuse, Actions
<1>4. CASE Working
  <2>1. ASSUME NEW a \in Decisions, pc = "loop", Takes(a) PROVE UnderReuse'
    BY <2>1, <1>a, LoopStep
       DEF Decisions, Takes, Iterated, Continue, Keep, SamePlan, HasPlan, Actions
  <2>2. CASE Refuse
    BY <2>2, <1>a, LoopStep
       DEF Refuse, Continue, Keep, SamePlan, HasPlan, Actions
  <2>3. CASE Stop
    BY <2>3, <1>a, LoopStep
       DEF Stop, Stopped, Continue, Keep, SamePlan, HasPlan, Actions
  <2>4. CASE WaitForReview
    BY <2>4, <1>a, LoopStep
       DEF WaitForReview, Ended, Continue, Keep, SamePlan, HasPlan, Actions
  <2>5. CASE Explore
    BY <2>5, <1>a, LoopStep
       DEF Explore, Performs, Continue, Keep, SamePlan, HasPlan, Actions
  <2>6. CASE RunTest
    <3>1. PICK t \in Verified(s) \cup Failed(s) :
            \E flow : s' = [t EXCEPT !.flow = flow]
      BY <2>6 DEF RunTest, Continue
    <3>2. SamePlan(s, t)
      BY <3>1, <1>a, VerifiedSamePlan, FailedSamePlan
    <3>3. SamePlan(s, s')
      BY <3>1, <3>2 DEF SamePlan, HasPlan
    <3>4. /\ pc \in Actions
          /\ pc' \in {"final", "loop"}
          /\ resumed' = resumed
      BY <2>6 DEF RunTest, Performs, Continue, Actions
    <3>5. ~resumed => Reuses(s)
      BY <3>4 DEF UnderReuse
    <3>6. QED
      BY <3>3, <3>4, <3>5 DEF UnderReuse, SamePlan, Reuses, Actions
  <2>7. CASE GiveUp
    BY <2>7, <1>a, LoopStep
       DEF GiveUp, LeaveLoop, Continue, Keep, SamePlan, HasPlan, Actions
  <2>8. CASE Finalize
    BY <2>8, <1>a, LoopStep
       DEF Finalize, Continue, Keep, SamePlan, HasPlan, Actions
  <2>9. CASE ApplyResume
    <3>1. resumed /\ resumed' /\ pc' = "loop" /\ s' = Reapplied(s)
      BY <2>9 DEF ApplyResume, Continue, Keep, UnderReuse
    <3>2. HasPlan(Regenerated(s)) /\ HasPlan(Reopened(s))
      BY <1>a DEF Regenerated, Reopened, Review, Ended, HasPlan
    <3>3. HasPlan(s')
      BY <3>1, <3>2 DEF Reapplied
    <3>4. QED
      BY <3>1, <3>3 DEF UnderReuse
  <2>10. CASE ResumeError
    BY <2>10, <1>a, LoopStep
       DEF ResumeError, Continue, Keep, SamePlan, HasPlan, Actions
  <2>11. QED
    BY <1>4, <2>1, <2>2, <2>3, <2>4, <2>5, <2>6, <2>7, <2>8, <2>9, <2>10
       DEF Working, Choose
<1>5. CASE Deadline
  BY <1>5, <1>a, LoopStep
     DEF Deadline, LeaveLoop, Continue, Keep, SamePlan, HasPlan, Actions
<1>6. CASE Resume
  BY <1>6, <1>a
     DEF Resume, Review, Ended, Continue, UnderReuse, HasPlan, Actions
<1>7. ASSUME NEW f \in Flows, ToggleGate(f) PROVE UnderReuse'
  BY <1>7 DEF ToggleGate, UnderReuse
<1>8. CASE UNCHANGED vars
  BY <1>8 DEF vars, UnderReuse
<1>9. QED
  BY <1>1, <1>2, <1>3, <1>4, <1>5, <1>6, <1>7, <1>8 DEF Next

\* Until somebody resumes the run, Playwright starts only under the planner's
\* REUSE_EXISTING (_phase_plan lets nothing else into the loop): no answer of
\* an LLM turns another strategy into an execution.
THEOREM StartedUnderReuse == Spec => []RunsUnderReuse
<1>1. Remembers /\ UnderReuse => RunsUnderReuse
  BY DEF Remembers, UnderReuse, Reuses, RunsUnderReuse
<1>2. QED
  BY <1>1, InitRemembers, StepRemembers, InitUnderReuse, StepUnderReuse, PTL
     DEF Spec

-----------------------------------------------------------------------------
\* A conclusion is that of the status, or is still to be drawn from it.
HasEnd(t) == {"final", "status"} \subseteq DOMAIN t
Agrees(t) == HasEnd(t) /\ (t.final = "none" \/ t.final = Concluded(t))

\* A first invocation draws a conclusion only where it leaves the loop, or does
\* not enter it.
Agreeing ==
  /\ HasEnd(s)
  /\ ~resumed => /\ pc # "apply"
                 /\ pc \notin {"final", "done"} => s.final = "none"
                 /\ pc = "final" => Agrees(s)
                 /\ pc = "done" => s.final = Concluded(s)

LEMMA PauseAgrees ==
  ASSUME NEW t, HasEnd(t), NEW kind
  PROVE  Agrees(Pause(t, kind)) /\ Pause(t, kind).status \in Terminal
BY DEF HasEnd, Agrees, Pause, Ended, Concluded, Terminal

LEMMA ReviewAgrees ==
  ASSUME NEW t, HasEnd(t)
  PROVE  Agrees(Review(t)) /\ Review(t).status \in Terminal
BY DEF HasEnd, Agrees, Review, Ended, Concluded, Terminal

LEMMA VerifiedAgrees ==
  ASSUME NEW t, HasEnd(t), NEW u \in Verified(t)
  PROVE  Agrees(u) /\ u.status \in Terminal
<1>1. PICK c \in Verdicts(t) :
        u = [Ended(t, StatusOf(c), c) EXCEPT !.execution = "ok", !.validation = c]
  BY DEF Verified
<1>2. c \in {"PASS", "FAIL", "NEEDS_REVIEW"}
  BY DEF Verdicts
<1>3. HasEnd(u) /\ u.status = StatusOf(c) /\ u.final = c
  BY <1>1 DEF Ended, HasEnd
<1>4. QED
  BY <1>2, <1>3 DEF StatusOf, Agrees, Concluded, Terminal

LEMMA FailedAgrees ==
  ASSUME NEW t, HasEnd(t), t.final = "none", NEW u \in Failed(t)
  PROVE  Agrees(u) /\ u.status \in Terminal
<1>1. PICK e \in BOOLEAN :
        LET v == [t EXCEPT !.execution = "failed", !.eligible = e]
        IN  u \in IF CanRecover(v) THEN Recovered(v) ELSE {Review(v)}
  BY DEF Failed
<1> DEFINE v == [t EXCEPT !.execution = "failed", !.eligible = e]
<1>2. HasEnd(v) /\ v.final = "none"
  BY DEF HasEnd
<1> HIDE DEF v
<1>3. CASE u = Review(v)
  BY <1>2, <1>3, ReviewAgrees
<1>4. CASE u \in Recovered(v)
  <2>1. u \in Healed(v) \/ u = [v EXCEPT !.status = "NEEDS_REVIEW"]
    BY <1>4 DEF Recovered
  <2>2. CASE u = [v EXCEPT !.status = "NEEDS_REVIEW"]
    BY <1>2, <2>2 DEF HasEnd, Agrees, Terminal
  <2>3. CASE u \in Healed(v)
    <3> DEFINE w == [v EXCEPT !.recoveries = @ + 1]
               x == [w EXCEPT !.kind = "healing"]
    <3>1. HasEnd(w) /\ HasEnd(x) /\ (u = Pause(x, "healing") \/ u = Review(w))
      BY <1>2, <2>3 DEF Healed, HasEnd
    <3> HIDE DEF w, x
    <3>2. QED
      BY <3>1, PauseAgrees, ReviewAgrees
  <2>4. QED
    BY <2>1, <2>2, <2>3
<1>5. QED
  BY <1>1, <1>3, <1>4 DEF v

LEMMA PhasePlanAgrees ==
  ASSUME NEW t, HasEnd(t), t.final = "none", NEW u \in PhasePlan(t)
  PROVE  Agrees(u) /\ (u.status \in Terminal \/ u.final = "none")
<1>1. \/ u = Ended(t, "BLOCKED", "BLOCKED")
      \/ \E f : u = Pause([t EXCEPT !.generated = f], "generation")
      \/ u = [t EXCEPT !.status = "READY"]
      \/ u \in Verified(t)
      \/ u = Pause(t, "execution_gate")
  BY DEF PhasePlan
<1>2. CASE u = Ended(t, "BLOCKED", "BLOCKED")
  BY <1>2 DEF Ended, HasEnd, Agrees, Concluded, Terminal
<1>3. ASSUME NEW f, u = Pause([t EXCEPT !.generated = f], "generation")
      PROVE  Agrees(u) /\ u.status \in Terminal
  <2> DEFINE v == [t EXCEPT !.generated = f]
  <2>1. HasEnd(v) /\ u = Pause(v, "generation")
    BY <1>3 DEF HasEnd
  <2> HIDE DEF v
  <2>2. QED
    BY <2>1, PauseAgrees
<1>4. CASE u = [t EXCEPT !.status = "READY"]
  BY <1>4 DEF HasEnd, Agrees
<1>5. CASE u \in Verified(t)
  BY <1>5, VerifiedAgrees
<1>6. CASE u = Pause(t, "execution_gate")
  BY <1>6, PauseAgrees
<1>7. QED
  BY <1>1, <1>2, <1>3, <1>4, <1>5, <1>6

\* Whatever was concluded before, as in a resumed invocation.
LEMMA PhasePlanHasEnd ==
  ASSUME NEW t, HasEnd(t), NEW u \in PhasePlan(t)
  PROVE  HasEnd(u)
BY DEF PhasePlan, Verified, Pause, Ended, HasEnd

LEMMA FailedHasEnd ==
  ASSUME NEW t, HasEnd(t), NEW u \in Failed(t)
  PROVE  HasEnd(u)
<1>1. PICK e \in BOOLEAN :
        LET v == [t EXCEPT !.execution = "failed", !.eligible = e]
        IN  u \in IF CanRecover(v) THEN Recovered(v) ELSE {Review(v)}
  BY DEF Failed
<1> DEFINE v == [t EXCEPT !.execution = "failed", !.eligible = e]
<1>2. HasEnd(v)
  BY DEF HasEnd
<1> HIDE DEF v
<1>3. CASE u = Review(v)
  BY <1>2, <1>3, ReviewAgrees DEF Agrees
<1>4. CASE u \in Recovered(v)
  <2>1. u \in Healed(v) \/ u = [v EXCEPT !.status = "NEEDS_REVIEW"]
    BY <1>4 DEF Recovered
  <2>2. CASE u = [v EXCEPT !.status = "NEEDS_REVIEW"]
    BY <1>2, <2>2 DEF HasEnd
  <2>3. CASE u \in Healed(v)
    BY <1>2, <2>3 DEF Healed, Review, Pause, Ended, HasEnd
  <2>4. QED
    BY <2>1, <2>2, <2>3
<1>5. QED
  BY <1>1, <1>3, <1>4 DEF v

LEMMA InitAgreeing == Init => Agreeing
BY DEF Init, Fresh, Agreeing, HasEnd

\* A step inside the loop that concludes nothing, and one that leaves it.
LEMMA LoopAgrees ==
  ASSUME Agreeing, HasEnd(s'), s'.final = s.final, resumed' = resumed,
         pc \notin {"final", "done"}, pc' \notin {"done", "apply"}
  PROVE  Agreeing'
BY DEF Agreeing, Agrees

LEMMA LeavingAgrees ==
  ASSUME Agreeing, HasEnd(s'), resumed' = resumed, pc' = "final", ~resumed => Agrees(s')
  PROVE  Agreeing'
BY DEF Agreeing, Agrees, Concluded

LEMMA StepAgreeing == Agreeing /\ [Next]_vars => Agreeing'
<1> SUFFICES ASSUME Agreeing, [Next]_vars PROVE Agreeing'
  OBVIOUS
<1>a. HasEnd(s)
  BY DEF Agreeing
<1>1. CASE Classify
  BY <1>1, <1>a, LoopAgrees DEF Classify, Continue, HasEnd
<1>2. CASE Plan
  BY <1>2, <1>a, LoopAgrees DEF Plan, Continue, Keep, HasEnd
<1>3. CASE SelectSuite
  <2>1. PICK related \in Related(gate, s.plan.mode) :
          LET suite == Select(gate, s.plan.mode, s.plan.ids, related)
              flows == IF s.plan.selected # <<>> THEN s.plan.selected
                       ELSE suite.flows
          IN  /\ s' \in PhasePlan([s EXCEPT !.plan.ids = <<>>,
                                            !.plan.selected = <<>>,
                                            !.suite = suite,
                                            !.selected = flows,
                                            !.flow = Primary(flows)])
              /\ pc' = IF s'.status \in Terminal THEN "final" ELSE "loop"
    BY <1>3 DEF SelectSuite, Continue
  <2> DEFINE suite  == Select(gate, s.plan.mode, s.plan.ids, related)
             flows  == IF s.plan.selected # <<>> THEN s.plan.selected
                       ELSE suite.flows
             before == [s EXCEPT !.plan.ids = <<>>, !.plan.selected = <<>>,
                                 !.suite = suite, !.selected = flows,
                                 !.flow = Primary(flows)]
  <2>2. HasEnd(before) /\ before.final = s.final
    BY <1>a DEF HasEnd
  <2>3. /\ s' \in PhasePlan(before)
        /\ pc' = IF s'.status \in Terminal THEN "final" ELSE "loop"
    BY <2>1
  <2>4. pc = "select" /\ resumed' = resumed
    BY <1>3 DEF SelectSuite, Keep
  <2> HIDE DEF before
  <2>5. HasEnd(s')
    BY <2>2, <2>3, PhasePlanHasEnd
  <2>6. ~resumed => Agrees(s') /\ (s'.status \in Terminal \/ s'.final = "none")
    BY <2>2, <2>3, <2>4, PhasePlanAgrees DEF Agreeing
  <2>7. QED
    BY <2>3, <2>4, <2>5, <2>6 DEF Agreeing, Agrees, Concluded
<1>4. CASE Working
  <2>1. ASSUME NEW a \in Decisions, pc = "loop", Takes(a) PROVE Agreeing'
    BY <2>1, <1>a, LoopAgrees
       DEF Decisions, Takes, Iterated, Continue, Keep, HasEnd, Actions
  <2>2. CASE Refuse
    BY <2>2, <1>a, LoopAgrees DEF Refuse, Continue, Keep, HasEnd, Actions
  <2>3. CASE Stop
    BY <2>3, <1>a, LoopAgrees DEF Stop, Performs, Stopped, Continue, Keep, HasEnd
  <2>4. CASE WaitForReview
    BY <2>4, <1>a, LeavingAgrees
       DEF WaitForReview, Ended, Continue, Keep, HasEnd, Agrees, Concluded
  <2>5. CASE Explore
    BY <2>5, <1>a, LoopAgrees DEF Explore, Performs, Continue, Keep, HasEnd
  <2>6. CASE RunTest
    <3>1. PICK t \in Verified(s) \cup Failed(s) :
            /\ \E flow : s' = [t EXCEPT !.flow = flow]
            /\ pc' = IF t.status \in Terminal THEN "final" ELSE "loop"
      BY <2>6 DEF RunTest, Continue
    <3>2. pc = "RUN_EXISTING_TEST" /\ resumed' = resumed
      BY <2>6 DEF RunTest, Performs
    <3>3. HasEnd(t)
      BY <3>1, <1>a, VerifiedAgrees, FailedHasEnd DEF Agrees
    <3>4. ~resumed => Agrees(t) /\ t.status \in Terminal
      BY <3>1, <3>2, <1>a, VerifiedAgrees, FailedAgrees DEF Agreeing
    <3>5. HasEnd(s') /\ s'.final = t.final /\ s'.status = t.status
      BY <3>1, <3>3 DEF HasEnd
    <3>6. ~resumed => pc' = "final" /\ Agrees(s')
      BY <3>1, <3>4, <3>5 DEF Agrees, Concluded
    <3>7. QED
      BY <3>2, <3>5, <3>6 DEF Agreeing
  <2>7. CASE GiveUp
    BY <2>7, <1>a, LoopAgrees DEF GiveUp, LeaveLoop, Continue, Keep, HasEnd
  <2>8. CASE Finalize
    <3>1. /\ pc = "final" /\ pc' = "done" /\ resumed' = resumed
          /\ HasEnd(s') /\ s'.status = s.status
          /\ s'.final = IF s.final = "none" THEN Concluded(s) ELSE s.final
      BY <2>8, <1>a DEF Finalize, Continue, Keep, HasEnd
    <3>2. Concluded(s') = Concluded(s)
      BY <3>1 DEF Concluded
    <3>3. QED
      BY <3>1, <3>2 DEF Agreeing, Agrees
  <2>9. CASE ApplyResume
    <3>1. resumed /\ resumed' /\ s' = Reapplied(s)
      BY <2>9 DEF ApplyResume, Continue, Keep, Agreeing
    <3>2. HasEnd(Regenerated(s)) /\ HasEnd(Reopened(s))
      BY <1>a DEF Regenerated, Reopened, Review, Ended, HasEnd
    <3>3. QED
      BY <3>1, <3>2 DEF Agreeing, Reapplied
  <2>10. CASE ResumeError
    BY <2>10 DEF ResumeError, Continue, Keep, Agreeing
  <2>11. QED
    BY <1>4, <2>1, <2>2, <2>3, <2>4, <2>5, <2>6, <2>7, <2>8, <2>9, <2>10
       DEF Working, Choose
<1>5. CASE Deadline
  BY <1>5, <1>a, LoopAgrees DEF Deadline, LeaveLoop, Continue, Keep, HasEnd
<1>6. CASE Resume
  BY <1>6, <1>a DEF Resume, Review, Ended, Continue, Agreeing, HasEnd
<1>7. ASSUME NEW f \in Flows, ToggleGate(f) PROVE Agreeing'
  BY <1>7 DEF ToggleGate, Agreeing, Agrees
<1>8. CASE UNCHANGED vars
  BY <1>8 DEF vars, Agreeing, Agrees
<1>9. QED
  BY <1>1, <1>2, <1>3, <1>4, <1>5, <1>6, <1>7, <1>8 DEF Next

\* However its loop is left, a first invocation reports the conclusion its
\* status stands for (_finalize maps what no step concluded before).
THEOREM ConclusionsFollow == Spec => []ConclusionAgrees
<1>1. Agreeing => ConclusionAgrees
  BY DEF Agreeing, ConclusionAgrees
<1>2. QED
  BY <1>1, InitAgreeing, StepAgreeing, PTL DEF Spec

-----------------------------------------------------------------------------
(* Lists of flows: what is kept of them.                                   *)

\* A set of numbers that is not empty has a smallest.
LEMMA SmallestExists ==
  ASSUME NEW S, S \subseteq Nat, S # {}
  PROVE  \E x \in S : \A y \in S : x <= y
<1> DEFINE R == OpToRel(<, Nat)
<1>1. IsWellFoundedOn(R, Nat)
  BY NatLessThanWellFounded
<1>2. PICK d \in S : \A e \in S : ~(<<e, d>> \in R)
  <2> HIDE DEF R
  <2>1. QED
    BY <1>1, WFMin
<1>3. ASSUME NEW e \in S PROVE d <= e
  <2>1. e \in Nat /\ d \in Nat
    OBVIOUS
  <2>2. ~(e < d)
    BY <1>2, <2>1 DEF OpToRel
  <2>3. QED
    BY <2>1, <2>2
<1>4. QED
  BY <1>3

\* g filters the first k elements of ids, as the function inside of Kept does.
Step(ids, S, g, n) ==
  IF ids[n] \in S THEN Append(g[n - 1], ids[n]) ELSE g[n - 1]
Filters(ids, S, k, g) ==
  g = [n \in 0 .. k |-> IF n = 0 THEN <<>> ELSE Step(ids, S, g, n)]

LEMMA FilterExists ==
  ASSUME NEW ids, NEW S, NEW len \in Nat
  PROVE  \E g : Filters(ids, S, len, g)
<1> DEFINE Bad == {k \in Nat : ~\E g : Filters(ids, S, k, g)}
<1>1. SUFFICES ASSUME Bad # {} PROVE FALSE
  OBVIOUS
<1>2. PICK k \in Bad : \A j \in Bad : k <= j
  <2>1. Bad \subseteq Nat
    OBVIOUS
  <2> HIDE DEF Bad
  <2>2. QED
    BY <1>1, <2>1, SmallestExists
<1>3. CASE k = 0
  <2>1. Filters(ids, S, 0, [n \in 0 .. 0 |-> <<>>])
    BY DEF Filters
  <2>2. QED
    BY <1>3, <2>1
<1>4. CASE k # 0
  <2>1. k - 1 \in Nat /\ k - 1 \notin Bad
    BY <1>2, <1>4
  <2>2. PICK g : Filters(ids, S, k - 1, g)
    BY <2>1
  <2> DEFINE h == [n \in 0 .. k |-> IF n # k THEN g[n] ELSE Step(ids, S, g, k)]
  <2>3. \A n \in 0 .. k : n # k => n \in 0 .. (k - 1)
    BY <1>2
  <2>4. \A n \in 0 .. k : n # 0 => n - 1 \in 0 .. k /\ n - 1 # k
    BY <1>2
  <2>5. \A n \in 0 .. (k - 1) :
          g[n] = IF n = 0 THEN <<>> ELSE Step(ids, S, g, n)
    BY <2>2 DEF Filters
  <2>6. \A n \in 0 .. k : n # 0 => h[n - 1] = g[n - 1]
    BY <2>4
  <2>7. ASSUME NEW n \in 0 .. k
        PROVE  h[n] = IF n = 0 THEN <<>> ELSE Step(ids, S, h, n)
    <3>1. CASE n = k
      BY <3>1, <2>6, <1>4 DEF Step
    <3>2. CASE n # k
      BY <3>2, <2>3, <2>5, <2>6 DEF Step
    <3>3. QED
      BY <3>1, <3>2
  <2>8. Filters(ids, S, k, h)
    BY <2>7 DEF Filters
  <2>9. QED
    BY <2>8
<1>5. QED
  BY <1>3, <1>4

LEMMA KeptIsFiltered ==
  ASSUME NEW T, NEW ids \in Seq(T), NEW S
  PROVE  \E g : Filters(ids, S, Len(ids), g) /\ Kept(ids, S) = g[Len(ids)]
<1> DEFINE kept == CHOOSE g : Filters(ids, S, Len(ids), g)
<1>1. Filters(ids, S, Len(ids), kept)
  BY FilterExists
<1>2. Kept(ids, S) = kept[Len(ids)]
  BY DEF Kept, Filters, Step
<1>3. QED
  BY <1>1, <1>2

\* What is kept are elements of the list that are in S, and nothing is kept
\* only if none of them is.
LEMMA KeptFacts ==
  ASSUME NEW T, NEW ids \in Seq(T), NEW S
  PROVE  /\ Kept(ids, S) \in Seq(T)
         /\ ToSet(Kept(ids, S)) \subseteq ToSet(ids) \cap S
         /\ Kept(ids, S) = <<>> => ToSet(ids) \cap S = {}
<1> DEFINE len == Len(ids)
           E == ToSet(ids) \cap S
<1>1. PICK g : Filters(ids, S, len, g) /\ Kept(ids, S) = g[len]
  BY KeptIsFiltered
<1>2. len \in Nat /\ \A n \in 1 .. len : ids[n] \in T /\ ids[n] \in ToSet(ids)
  BY DEF ToSet
<1>3. \A n \in 0 .. len : g[n] = IF n = 0 THEN <<>> ELSE Step(ids, S, g, n)
  BY <1>1 DEF Filters
<1> DEFINE Good(n) == /\ g[n] \in Seq(T \cap E)
                      /\ g[n] = <<>> => \A i \in 1 .. n : ids[i] \notin S
           Bad == {n \in 0 .. len : ~Good(n)}
<1>4. Bad = {}
  <2>1. SUFFICES ASSUME Bad # {} PROVE FALSE
    OBVIOUS
  <2>2. PICK k \in Bad : \A j \in Bad : k <= j
    <3>1. Bad \subseteq Nat
      BY <1>2
    <3> HIDE DEF Bad
    <3>2. QED
      BY <2>1, <3>1, SmallestExists
  <2>3. k \in 0 .. len /\ ~Good(k)
    OBVIOUS
  <2>4. CASE k = 0
    <3>1. g[0] = <<>>
      BY <1>2, <1>3
    <3>2. QED
      BY <2>3, <2>4, <3>1
  <2>5. CASE k # 0
    <3>1. k - 1 \in 0 .. len /\ k \in 1 .. len /\ ~(k <= k - 1)
      BY <1>2, <2>3, <2>5
    <3>2. Good(k - 1)
      BY <2>2, <3>1
    <3>3. g[k] = Step(ids, S, g, k)
      BY <1>3, <2>3, <2>5
    <3>4. \A i \in 1 .. k : i # k => i \in 1 .. (k - 1)
      BY <1>2, <2>3
    <3>5. CASE ids[k] \in S
      <4>1. ids[k] \in T \cap E
        BY <1>2, <3>1, <3>5
      <4>2. g[k] = Append(g[k - 1], ids[k])
        BY <3>3, <3>5 DEF Step
      <4>3. g[k] \in Seq(T \cap E) /\ g[k] # <<>>
        <5>1. g[k - 1] \in Seq(T \cap E)
          BY <3>2
        <5> HIDE DEF E, Good, Bad
        <5>2. /\ Append(g[k - 1], ids[k]) \in Seq(T \cap E)
              /\ Append(g[k - 1], ids[k]) # <<>>
          BY ONLY <5>1, <4>1, AppendProperties
        <5>3. QED
          BY <5>2, <4>2
      <4>4. QED
        BY <2>3, <4>3
    <3>6. CASE ids[k] \notin S
      <4>1. g[k] = g[k - 1]
        BY <3>3, <3>6 DEF Step
      <4>2. QED
        BY <2>3, <3>2, <3>4, <3>6, <4>1
    <3>7. QED
      BY <3>5, <3>6
  <2>6. QED
    BY <2>4, <2>5
<1>5. Good(len)
  BY <1>2, <1>4
<1>6. Kept(ids, S) \in Seq(T \cap E)
  BY <1>1, <1>5
<1>7. Kept(ids, S) \in Seq(T) /\ ToSet(Kept(ids, S)) \subseteq E
  <2> HIDE DEF E
  <2>1. QED
    BY <1>6 DEF ToSet
<1>8. Kept(ids, S) = <<>> => E = {}
  BY <1>1, <1>5 DEF ToSet
<1>9. QED
  BY <1>7, <1>8

\* The first element of a list, and what the gate leaves of it.
LEMMA HeadFacts ==
  ASSUME NEW ids \in Seq(Flows), ids # <<>>
  PROVE  Head(ids) \in Flows /\ Head(ids) \in ToSet(ids)
BY DEF ToSet

LEMMA PrimaryFacts ==
  ASSUME NEW ids \in Seq(Flows)
  PROVE  /\ Primary(ids) \subseteq ToSet(ids)
         /\ Primary(ids) = {} \/ \E f \in Flows : Primary(ids) = {f}
         /\ ids # <<>> => Primary(ids) # {}
BY HeadFacts DEF Primary

LEMMA GatedFacts ==
  ASSUME NEW ids \in Seq(Flows)
  PROVE  /\ Gated(gate, ids) \in Seq(Flows)
         /\ ToSet(Gated(gate, ids)) \subseteq ToSet(ids) \cap Executable(gate)
         /\ Gated(gate, ids) = <<>> => ToSet(ids) \cap Executable(gate) = {}
BY KeptFacts DEF Gated

LEMMA MergeIsList ==
  ASSUME NEW a \in Seq(Flows), NEW b \in Seq(Flows)
  PROVE  Merge(a, b) \in Seq(Flows)
<1>1. Kept(b, Flows \ ToSet(a)) \in Seq(Flows)
  BY KeptFacts
<1>2. QED
  BY <1>1, ConcatProperties DEF Merge

\* The lists over a set of flows, and the set as a list.
LEMMA ListsAreLists ==
  ASSUME NEW S \in SUBSET Flows, NEW ids \in Lists(S)
  PROVE  ids \in Seq(Flows) /\ ToSet(ids) \subseteq S
<1>1. PICK T \in SUBSET S : ids \in SetToSeqs(T)
  BY DEF Lists, SetToAllKPermutations
<1>2. ids \in [1 .. Cardinality(T) -> T]
  BY <1>1 DEF SetToSeqs
<1>3. Cardinality(T) \in Nat
  BY FlowsAssumption, FS_Subset, FS_CardinalityType
<1>4. QED
  BY <1>2, <1>3 DEF ToSet

LEMMA AllFlowsAreListed == SetToSeq(Flows) \in Seq(Flows)
<1>1. Cardinality(Flows) \in Nat
  BY FlowsAssumption, FS_CardinalityType
<1>2. \E f \in [1 .. Cardinality(Flows) -> Flows] : IsInjective(f)
  <2>1. PICK f \in Bijection(1 .. Cardinality(Flows), Flows) : TRUE
    BY FlowsAssumption, FS_CardinalityType DEF ExistsBijection
  <2>2. f \in [1 .. Cardinality(Flows) -> Flows] /\ IsInjective(f)
    BY <2>1 DEF Bijection, Injection, IsInjective
  <2>3. QED
    BY <2>2
<1>3. SetToSeq(Flows) \in [1 .. Cardinality(Flows) -> Flows]
  BY <1>2 DEF SetToSeq
<1>4. QED
  BY <1>1, <1>3

-----------------------------------------------------------------------------
(* The domains of the variables.                                           *)

FlowLists == Seq(Flows)
AtMostOne == {{}} \cup {{f} : f \in Flows}
Intents   == [mode : Modes, ids : FlowLists]
Contracts ==
  [mode : Modes, ids : FlowLists, strategy : Strategies,
   candidates : FlowLists, selected : FlowLists, explore : BOOLEAN,
   generate : BOOLEAN, needsApproval : BOOLEAN, allowed : BOOLEAN,
   ambiguous : BOOLEAN, polarity : Polarities]
Suites    == [flows : FlowLists, blocked : BOOLEAN,
              cmds : SUBSET (Flows \cup {Suite})]
Statuses  == Terminal \cup {"PLANNING", "READY"}
Kinds     == {"none", "generation", "execution_gate", "healing",
              "after_validation"}
RunStates ==
  [status : Statuses, iteration : 0 .. MaxIterations,
   intent : Intents \cup {NoIntent}, plan : Contracts \cup {NoPlan},
   suite : Suites, flow : AtMostOne, selected : FlowLists,
   generated : AtMostOne, execution : {"none", "ok", "failed"},
   explored : BOOLEAN, validation : {"none", "PASS", "FAIL", "NEEDS_REVIEW"},
   eligible : BOOLEAN, recoveries : Nat, final : Conclusions \cup {"none"},
   kind : Kinds]

Typed ==
  /\ gate \in [Flows -> BOOLEAN]
  /\ pc \in Labels \cup Actions
  /\ req \in Requests
  /\ s \in RunStates
  /\ resumed \in BOOLEAN
  /\ cleared \subseteq Flows
  /\ starts \in Nat

\* What a state has at each stage: the classifier's intent, the contract, the
\* status an invocation ends with, the flow a draft was generated for.
Staged ==
  /\ pc = "plan" => s.intent \in Intents
  /\ pc \notin {"idle", "plan"} => s.plan \in Contracts
  /\ pc \in {"final", "done", "apply"} => s.status \in Terminal
  /\ s.kind = "generation" => s.generated # {}

TypeInv == Typed /\ Staged

-----------------------------------------------------------------------------
(* What the planning phase computes.                                       *)

LEMMA ExecutableAreFlows == Executable(gate) \subseteq Flows
BY DEF Executable

LEMMA OneFlowIsList ==
  ASSUME NEW f \in Flows
  PROVE  <<f>> \in Seq(Flows) /\ ToSet(<<f>>) = {f}
BY DEF ToSet

LEMMA IntentIsTyped ==
  ASSUME NEW mode \in Modes, NEW ids \in Seq(Flows)
  PROVE  Intent(mode, ids) \in Intents
BY DEF Intent, Intents, FlowLists

LEMMA IntentsAreTyped ==
  ASSUME NEW i \in Classified(gate)
  PROVE  i \in Intents
<1>1. \A mode \in Modes : Sharpened(mode) \in Modes
  BY DEF Sharpened, Modes
<1>2. PICK j \in FromLlm(gate) \cup FromWords(gate) :
        \E k \in Named(gate, j) : i \in Routed(k)
  BY DEF Classified
<1>3. \A ids \in Lists(Executable(gate)) : ids \in FlowLists
  BY ExecutableAreFlows, ListsAreLists DEF FlowLists
<1>4. j \in Intents
  <2>1. CASE j \in FromLlm(gate)
    BY <2>1, <1>3 DEF FromLlm, Intents
  <2>2. CASE j \in FromWords(gate)
    <3> DEFINE single == {"negative_suite", "adhoc_existing", "adhoc_parameterized"}
    <3>1. single \subseteq Modes
      BY DEF Modes
    <3>2. \/ j \in [mode : Modes, ids : Lists(Executable(gate))]
          \/ \E mode \in single, f \in Flows : j = Intent(mode, <<f>>)
      BY <2>2, SMTT(30) DEF FromWords
    <3>3. CASE j \in [mode : Modes, ids : Lists(Executable(gate))]
      BY <3>3, <1>3 DEF Intents
    <3>4. ASSUME NEW mode \in single, NEW f \in Flows, j = Intent(mode, <<f>>)
          PROVE  j \in Intents
      <4>1. mode \in Modes
        BY <3>1
      <4> HIDE DEF single
      <4>2. QED
        BY <3>4, <4>1, IntentIsTyped, OneFlowIsList
    <3>5. QED
      BY <3>2, <3>3, <3>4
  <2>3. QED
    BY <1>2, <2>1, <2>2
<1>a. PICK k \in Named(gate, j) : i \in Routed(k)
  BY <1>2
<1>5. k \in Intents
  <2>1. j.mode \in Modes /\ Sharpened(j.mode) \in Modes
    BY <1>1, <1>4 DEF Intents
  <2>2. k = j \/ \E mode \in Modes, f \in Flows : k = Intent(mode, <<f>>)
    BY <2>1, ExecutableAreFlows DEF Named
  <2>3. ASSUME NEW mode \in Modes, NEW f \in Flows, k = Intent(mode, <<f>>)
        PROVE  k \in Intents
    BY <2>3, IntentIsTyped, OneFlowIsList
  <2>4. QED
    BY <2>2, <2>3, <1>4
<1>6. UNION {PrimaryFor(kind) : kind \in ProductKinds} \subseteq Flows
  BY FlowsAssumption DEF PrimaryFor, ProductKinds
<1>7. QED
  <2>1. i = k \/ \E f \in Flows : i = Intent(Sharpened(k.mode), <<f>>)
    BY <1>6, <1>a DEF Routed
  <2>2. Sharpened(k.mode) \in Modes
    BY <1>1, <1>5 DEF Intents
  <2>3. QED
    BY <2>1, <2>2, <1>5, IntentIsTyped, OneFlowIsList

\* The resolver's flow is one of the knowledge base, if any.
LEMMA ResolutionFacts ==
  ASSUME NEW intent \in Intents, NEW r \in Resolutions(gate, intent)
  PROVE  /\ r.primary \in Flows \cup {NoFlow}
         /\ r.primary = NoFlow =>
              r.decision = "DISCOVERY_REQUIRED" \/ intent.mode \in Aggregate
         /\ r.decision = "FLOW_MISMATCH" \/ r.decision = "DISCOVERY_REQUIRED" =>
              intent.mode \notin Aggregate
<1>1. CASE intent.mode \in Aggregate
  BY <1>1 DEF Resolutions
<1>2. CASE intent.mode \notin Aggregate
  <2>a. PICK pick \in Picked(gate) :
          r \in {[decision |-> d, primary |-> pick.primary] :
                   d \in Decided(gate, pick)}
    BY <1>2 DEF Resolutions
  <2>1. PICK d \in Decided(gate, pick) :
          r = [decision |-> d, primary |-> pick.primary]
    BY <2>a
  <2>2. UNION {PrimaryFor(k) : k \in ProductKinds} \subseteq Flows
    BY FlowsAssumption DEF PrimaryFor, ProductKinds
  <2>3. \/ pick.primary \in Flows
        \/ pick.primary = NoFlow /\ pick.mismatch = FALSE
    BY <2>1, <2>2, ExecutableAreFlows DEF Picked
  <2>4. pick.primary = NoFlow => d = "DISCOVERY_REQUIRED"
    BY <2>1, <2>3, FlowsAssumption, ExecutableAreFlows DEF Decided, Trusted
  <2>5. QED
    BY <1>2, <2>1, <2>3, <2>4
<1>3. QED
  BY <1>1, <1>2

\* An intent with its flows replaced by the resolver's.
Led(intent, primary) ==
  [intent EXCEPT !.ids = IF primary = NoFlow THEN @ ELSE <<primary>>]

LEMMA LedIsTyped ==
  ASSUME NEW intent \in Intents, NEW primary \in Flows \cup {NoFlow}
  PROVE  /\ Led(intent, primary) \in Intents
         /\ Led(intent, primary).mode = intent.mode
         /\ primary # NoFlow \/ intent.ids # <<>> => Led(intent, primary).ids # <<>>
BY OneFlowIsList DEF Led, Intents, FlowLists

LEMMA PlanIsOneOf ==
  ASSUME NEW goal, NEW intent \in Intents, NEW p \in Plans(gate, goal, intent)
  PROVE  \/ p = Mismatch(intent)
         \/ \E c \in Lists(Flows) : p = Discovery(intent, c)
         \/ \E primary \in Flows \cup {NoFlow}, t \in Traits :
              \E c \in Candidates(Led(intent, primary)) :
                 /\ p = Refined(gate, goal, Led(intent, primary), t, c)
                 /\ \/ primary # NoFlow \/ intent.ids # <<>>
                    \/ intent.mode \in Aggregate
<1>1. PICK r \in Resolutions(gate, intent) : p \in Resolved(gate, goal, intent, r)
  BY DEF Plans
<1>2. CASE r.decision = "FLOW_MISMATCH"
  BY <1>1, <1>2 DEF Resolved
<1>3. CASE r.decision = "DISCOVERY_REQUIRED" /\ intent.ids = <<>>
  BY <1>1, <1>3 DEF Resolved
<1>4. CASE r.decision # "FLOW_MISMATCH"
           /\ ~(r.decision = "DISCOVERY_REQUIRED" /\ intent.ids = <<>>)
  <2>1. PICK t \in Traits, c \in Candidates(Led(intent, r.primary)) :
          p = Refined(gate, goal, Led(intent, r.primary), t, c)
    BY <1>1, <1>4 DEF Resolved, Led
  <2>2. /\ r.primary \in Flows \cup {NoFlow}
        /\ \/ r.primary # NoFlow \/ intent.ids # <<>>
           \/ intent.mode \in Aggregate
    BY <1>4, ResolutionFacts
  <2>3. QED
    BY <2>1, <2>2
<1>5. QED
  BY <1>2, <1>3, <1>4

LEMMA StrategyIsTyped ==
  ASSUME NEW goal, NEW mode, NEW t, NEW c, NEW selected
  PROVE  Strategy(goal, mode, t, c, selected) \in
           {"BLOCK", "ASK_USER", "REUSE_EXISTING", "EXPLORE"}
BY DEF Strategy

\* What the gate selects is all executable; where it selects nothing, no
\* candidate is.
AllOrNone(ids) == \/ ToSet(ids) \subseteq Executable(gate)
                  \/ ToSet(ids) \cap Executable(gate) = {}

\* A contract that the suite can be selected for.
Reusable(p) ==
  /\ p.candidates # <<>>
  /\ p.ids # <<>>
  /\ ToSet(p.ids) \subseteq ToSet(p.candidates)
  /\ ToSet(p.selected) \subseteq ToSet(p.candidates)
  /\ p.mode \in Aggregate => ToSet(p.candidates) = Flows

Selects(p) == /\ AllOrNone(p.ids)
              /\ p.strategy = "BLOCK" \/ p.generate \/ Reusable(p)

LEMMA RefinedFacts ==
  ASSUME NEW goal, NEW to \in Intents, NEW t \in Traits,
         NEW c \in Candidates(to), to.ids # <<>> \/ to.mode \in Aggregate
  PROVE  /\ Refined(gate, goal, to, t, c) \in Contracts
         /\ Selects(Refined(gate, goal, to, t, c))
<1> DEFINE p        == Refined(gate, goal, to, t, c)
           selected == Gated(gate, c)
           ids      == IF selected # <<>> THEN selected ELSE c
           strategy == Strategy(goal, to.mode, t, c, selected)
           approval == Approval(gate, goal, strategy, t, c)
<1>1. /\ c \in Seq(Flows)
      /\ ToSet(to.ids) \subseteq ToSet(c)
      /\ to.mode \in Aggregate => ToSet(c) = Flows
  BY ListsAreLists DEF Candidates
<1>2. to.mode \in Modes /\ to.ids \in Seq(Flows)
  BY DEF Intents, FlowLists
<1>3. c # <<>>
  <2>0. ToSet(<<>>) = {}
    BY DEF ToSet
  <2>1. CASE to.ids # <<>>
    BY <1>1, <1>2, <2>0, <2>1, HeadFacts
  <2>2. CASE to.mode \in Aggregate
    BY <1>1, <2>0, <2>2, FlowsAssumption
  <2>3. QED
    BY <2>1, <2>2
<1>4. /\ selected \in Seq(Flows)
      /\ ToSet(selected) \subseteq ToSet(c) \cap Executable(gate)
      /\ selected = <<>> => ToSet(c) \cap Executable(gate) = {}
  BY <1>1, GatedFacts
<1>5. ids \in Seq(Flows) /\ ids # <<>> /\ ToSet(ids) \subseteq ToSet(c)
  BY <1>1, <1>3, <1>4
<1>6. strategy \in Strategies
  BY StrategyIsTyped DEF Strategies
<1>7. approval \in BOOLEAN
  BY DEF Approval
<1>8. t.generate \in BOOLEAN /\ t.ambiguous \in BOOLEAN /\ t.polarity \in Polarities
  BY DEF Traits
<1>9. p = [mode |-> to.mode, ids |-> ids, strategy |-> strategy,
           candidates |-> c, selected |-> selected,
           explore |-> strategy = "EXPLORE",
           generate |-> strategy = "EXPLORE" /\ t.generate,
           needsApproval |-> approval,
           allowed |-> strategy = "REUSE_EXISTING" /\ selected # <<>>,
           ambiguous |-> t.ambiguous,
           polarity |-> t.polarity]
  BY DEF Refined, Contract
<1> HIDE DEF selected, ids, strategy, approval, p
<1>10. p \in Contracts
  BY <1>1, <1>2, <1>4, <1>5, <1>6, <1>7, <1>8, <1>9 DEF Contracts, FlowLists
<1>11. /\ p.ids = ids /\ p.candidates = c /\ p.selected = selected
       /\ p.mode = to.mode
  BY <1>9
<1>12. AllOrNone(ids)
  BY <1>4 DEF AllOrNone, ids
<1>13. Reusable(p)
  BY <1>1, <1>3, <1>4, <1>5, <1>11 DEF Reusable
<1>14. QED
  BY <1>10, <1>11, <1>12, <1>13 DEF Selects, p

LEMMA PlanFacts ==
  ASSUME NEW goal, NEW intent \in Intents, NEW p \in Plans(gate, goal, intent)
  PROVE  p \in Contracts /\ Selects(p)
<1>1. <<>> \in Seq(Flows) /\ ToSet(<<>>) = {}
  BY DEF ToSet
<1>2. CASE p = Mismatch(intent)
  <2>1. p \in Contracts
    BY <1>1, <1>2 DEF Mismatch, Contract, Contracts, Intents, FlowLists,
                      Strategies, Polarities
  <2>2. p.ids = <<>> /\ p.strategy = "BLOCK"
    BY <1>2 DEF Mismatch, Contract
  <2>3. QED
    BY <1>1, <2>1, <2>2 DEF Selects, AllOrNone
<1>3. ASSUME NEW c \in Lists(Flows), p = Discovery(intent, c)
      PROVE  p \in Contracts /\ Selects(p)
  <2>1. c \in Seq(Flows)
    BY ListsAreLists
  <2>2. (IF intent.mode = "adhoc_existing" THEN "discover" ELSE intent.mode) \in Modes
    BY DEF Intents, Modes
  <2>3. p \in Contracts
    BY <1>1, <1>3, <2>1, <2>2 DEF Discovery, Contract, Contracts, FlowLists,
                                  Strategies, Polarities
  <2>4. p.ids = <<>> /\ p.generate
    BY <1>3 DEF Discovery, Contract
  <2>5. QED
    BY <1>1, <2>3, <2>4 DEF Selects, AllOrNone
<1>4. ASSUME NEW primary \in Flows \cup {NoFlow}, NEW t \in Traits,
             NEW c \in Candidates(Led(intent, primary)),
             p = Refined(gate, goal, Led(intent, primary), t, c),
             \/ primary # NoFlow \/ intent.ids # <<>>
             \/ intent.mode \in Aggregate
      PROVE  p \in Contracts /\ Selects(p)
  BY <1>4, LedIsTyped, RefinedFacts
<1>5. QED
  BY <1>2, <1>3, <1>4, PlanIsOneOf

-----------------------------------------------------------------------------
(* The suite.                                                              *)

LEMMA OneIsAllOrNone ==
  ASSUME NEW f \in Flows
  PROVE  AllOrNone(<<f>>)
BY OneFlowIsList DEF AllOrNone

LEMMA RelatedFacts ==
  ASSUME NEW mode, NEW related \in Related(gate, mode)
  PROVE  related \in Seq(Flows) /\ AllOrNone(related)
<1>1. related \in Lists(Executable(gate)) \/ \E f \in Flows : related = <<f>>
  BY DEF Related
<1>2. CASE related \in Lists(Executable(gate))
  BY <1>2, ExecutableAreFlows, ListsAreLists DEF AllOrNone
<1>3. CASE \E f \in Flows : related = <<f>>
  BY <1>3, OneFlowIsList, OneIsAllOrNone
<1>4. QED
  BY <1>1, <1>2, <1>3

\* But for an incident, the flows that are wanted are one flow, those of the
\* plan or the related ones, so all or none of them executable with those of
\* the plan.
LEMMA WantedFacts ==
  ASSUME NEW mode \in Modes, NEW ids \in Seq(Flows),
         NEW related \in Related(gate, mode)
  PROVE  /\ Wanted(mode, ids, related) \in Seq(Flows)
         /\ mode \in {"adhoc_existing", "adhoc_parameterized"} =>
              AllOrNone(Wanted(mode, ids, related))
         /\ mode \notin Aggregate \cup {"incident_multi_flow"} =>
              /\ AllOrNone(ids) => AllOrNone(Wanted(mode, ids, related))
              /\ ids # <<>> => ToSet(Wanted(mode, ids, related)) \subseteq ToSet(ids)
<1> DEFINE wanted == Wanted(mode, ids, related)
<1>1. related \in Seq(Flows) /\ AllOrNone(related)
  BY RelatedFacts
<1>2. <<>> \in Seq(Flows) /\ ToSet(<<>>) = {} /\ AllOrNone(<<>>)
  BY DEF ToSet, AllOrNone
<1>3. \A l \in Seq(Flows) :
        l # <<>> => /\ <<Head(l)>> \in Seq(Flows)
                    /\ AllOrNone(<<Head(l)>>)
                    /\ ToSet(<<Head(l)>>) \subseteq ToSet(l)
  BY HeadFacts, OneFlowIsList, OneIsAllOrNone
<1>4. CASE mode \in Aggregate
  <2>1. wanted = SetToSeq(Flows)
    BY <1>4 DEF Wanted, Aggregate
  <2>2. mode \notin {"adhoc_existing", "adhoc_parameterized"}
    BY <1>4 DEF Aggregate
  <2>3. QED
    BY <1>4, <2>1, <2>2, AllFlowsAreListed
<1>5. CASE mode = "incident_multi_flow"
  <2>1. wanted = Merge(ids, related)
    BY <1>5 DEF Wanted, Aggregate
  <2>2. QED
    BY <1>1, <1>5, <2>1, MergeIsList
<1>6. CASE mode = "adhoc_parameterized"
  <2>1. wanted = IF ids = <<>> THEN <<ProductFlow>> ELSE <<Head(ids)>>
    BY <1>6 DEF Wanted, Aggregate
  <2>2. QED
    BY <1>3, <2>1, FlowsAssumption, OneFlowIsList, OneIsAllOrNone
<1>7. CASE mode = "adhoc_existing"
  <2> DEFINE found == IF ids = <<>> THEN related ELSE ids
  <2>1. wanted = IF found = <<>> THEN <<>> ELSE <<Head(found)>>
    BY <1>7 DEF Wanted, Aggregate
  <2>2. found \in Seq(Flows) /\ (ids # <<>> => found = ids)
    BY <1>1
  <2> HIDE DEF found
  <2>3. QED
    BY <1>2, <1>3, <2>1, <2>2
<1>8. CASE mode \notin Aggregate \cup {"incident_multi_flow",
                                       "adhoc_parameterized", "adhoc_existing"}
  <2>1. wanted = IF ids = <<>> THEN related ELSE ids
    BY <1>8 DEF Wanted
  <2>2. QED
    BY <1>1, <1>8, <2>1
<1>9. QED
  BY <1>4, <1>5, <1>6, <1>7, <1>8

\* The suite's commands, too; and they are cleared if none of the wanted flows
\* is executable.
LEMMA CommandFacts ==
  ASSUME NEW mode \in Modes, NEW ids \in Seq(Flows), NEW related,
         Wanted(mode, ids, related) \in Seq(Flows)
  PROVE  LET wanted == Wanted(mode, ids, related)
             suite  == Select(gate, mode, ids, related)
         IN  /\ suite \in Suites
             /\ suite.flows = Gated(gate, wanted)
             /\ AllOrNone(wanted) \/ mode \in Aggregate =>
                  suite.cmds \subseteq Executable(gate) \cup {Suite}
<1> DEFINE wanted == Wanted(mode, ids, related)
           flows  == Gated(gate, wanted)
           suite  == Select(gate, mode, ids, related)
           none   == wanted # <<>> /\ flows = <<>> /\ mode \notin Aggregate
           cmds   == IF none THEN {} ELSE Commands(mode, wanted)
<1>1. suite = [flows |-> flows, blocked |-> flows # wanted, cmds |-> cmds]
  BY DEF Select
<1>2. /\ flows \in Seq(Flows)
      /\ ToSet(flows) \subseteq ToSet(wanted) \cap Executable(gate)
      /\ flows = <<>> => ToSet(wanted) \cap Executable(gate) = {}
  BY GatedFacts
<1>3. /\ ToSet(wanted) \subseteq Flows
      /\ Primary(wanted) \subseteq ToSet(wanted)
      /\ wanted = <<>> => ToSet(wanted) = {}
  BY PrimaryFacts DEF ToSet
<1>4. /\ Commands(mode, wanted) \subseteq ToSet(wanted) \cup {Suite}
      /\ mode \in Aggregate => Commands(mode, wanted) = {Suite}
  <2>1. CASE mode \in Aggregate
    BY <2>1 DEF Commands, Aggregate
  <2>2. CASE mode \notin Aggregate
    <3>1. Commands(mode, wanted) \in {{Suite}, ToSet(wanted), Primary(wanted)}
      BY <2>2 DEF Commands, Aggregate
    <3>2. QED
      BY <1>3, <2>2, <3>1
  <2>3. QED
    BY <2>1, <2>2
<1>5. cmds \subseteq ToSet(wanted) \cup {Suite}
  BY <1>4
<1>6. ASSUME AllOrNone(wanted) \/ mode \in Aggregate
      PROVE  cmds \subseteq Executable(gate) \cup {Suite}
  <2>1. CASE mode \in Aggregate
    BY <1>4, <2>1
  <2>2. CASE mode \notin Aggregate /\ ToSet(wanted) \subseteq Executable(gate)
    BY <1>5, <2>2
  <2>3. CASE mode \notin Aggregate /\ ToSet(wanted) \cap Executable(gate) = {}
    <3>1. CASE wanted = <<>>
      BY <1>3, <1>5, <3>1
    <3>2. CASE wanted # <<>>
      <4>1. flows = <<>>
        BY <1>2, <2>3, PrimaryFacts
      <4>2. QED
        BY <2>3, <3>2, <4>1
    <3>3. QED
      BY <3>1, <3>2
  <2>4. QED
    BY <1>6, <2>1, <2>2, <2>3 DEF AllOrNone
<1> HIDE DEF flows, cmds, wanted, suite
<1>7. suite \in Suites /\ suite.flows = flows /\ suite.cmds = cmds
  BY <1>1, <1>2, <1>3, <1>5 DEF Suites, FlowLists
<1>8. QED
  BY <1>6, <1>7 DEF flows, wanted, suite

-----------------------------------------------------------------------------
(* The state's domain is kept.                                             *)

\* A state of a planned run; one that waits with a draft has its flow.
Fine(t) == /\ t \in RunStates
           /\ t.plan \in Contracts
           /\ t.kind = "generation" => t.generated # {}

LEMMA EndedIsFine ==
  ASSUME NEW t, Fine(t), NEW status \in Statuses,
         NEW final \in Conclusions \cup {"none"}
  PROVE  LET u == Ended(t, status, final)
         IN  Fine(u) /\ u.status = status /\ u.kind = t.kind
<1>1. Ended(t, status, final) \in RunStates
  BY DEF Ended, RunStates, Fine
<1>2. QED
  BY <1>1 DEF Ended, RunStates, Fine

LEMMA ReviewIsFine ==
  ASSUME NEW t, Fine(t)
  PROVE  Fine(Review(t)) /\ Review(t).status \in Terminal
BY EndedIsFine DEF Review, Statuses, Terminal, Conclusions

LEMMA KindIsFine ==
  ASSUME NEW t, Fine(t), NEW kind \in Kinds,
         kind = "generation" => t.generated # {}
  PROVE  Fine([t EXCEPT !.kind = kind])
<1>1. [t EXCEPT !.kind = kind] \in RunStates
  BY DEF RunStates, Fine
<1>2. QED
  BY <1>1 DEF RunStates, Fine

LEMMA PauseIsFine ==
  ASSUME NEW t, Fine(t), NEW kind \in Kinds,
         kind = "generation" => t.generated # {}
  PROVE  Fine(Pause(t, kind)) /\ Pause(t, kind).status \in Terminal
<1> DEFINE u    == Ended(t, "WAITING_FOR_APPROVAL", "WAITING_FOR_APPROVAL")
           next == IF u.kind = "none" \/ kind = "generation" THEN kind ELSE u.kind
<1>1. Fine(u) /\ u.status = "WAITING_FOR_APPROVAL" /\ u.generated = t.generated
  <2>1. Fine(u) /\ u.status = "WAITING_FOR_APPROVAL"
    BY EndedIsFine DEF Statuses, Terminal, Conclusions
  <2>2. u.generated = t.generated
    BY DEF Ended, Fine, RunStates
  <2>3. QED
    BY <2>1, <2>2
<1>2. Pause(t, kind) = [u EXCEPT !.kind = next]
  BY <1>1 DEF Pause, Fine, RunStates
<1> HIDE DEF u
<1>3. next \in Kinds /\ (next = "generation" => u.generated # {})
  BY <1>1 DEF Fine, RunStates
<1> HIDE DEF next
<1>4. Fine(Pause(t, kind))
  BY <1>1, <1>2, <1>3, KindIsFine
<1>5. Pause(t, kind).status = "WAITING_FOR_APPROVAL"
  BY <1>1, <1>2
<1>6. QED
  BY <1>4, <1>5 DEF Terminal

LEMMA StatusIsFine ==
  ASSUME NEW t, Fine(t), NEW status \in Statuses
  PROVE  LET u == [t EXCEPT !.status = status]
         IN  Fine(u) /\ u.status = status
<1>1. [t EXCEPT !.status = status] \in RunStates
  BY DEF RunStates, Fine
<1>2. QED
  BY <1>1 DEF RunStates, Fine

LEMMA FlowIsFine ==
  ASSUME NEW t, Fine(t), NEW flow \in AtMostOne
  PROVE  Fine([t EXCEPT !.flow = flow])
<1>1. [t EXCEPT !.flow = flow] \in RunStates
  BY DEF RunStates, Fine
<1>2. QED
  BY <1>1 DEF RunStates, Fine

LEMMA VerifiedIsFine ==
  ASSUME NEW t, Fine(t), NEW u \in Verified(t)
  PROVE  Fine(u) /\ u.status \in Terminal
<1>1. PICK c \in Verdicts(t) :
        u = [Ended(t, StatusOf(c), c) EXCEPT !.execution = "ok", !.validation = c]
  BY DEF Verified
<1> DEFINE v == Ended(t, StatusOf(c), c)
<1>2. c \in {"PASS", "FAIL", "NEEDS_REVIEW"}
  BY DEF Verdicts
<1>3. StatusOf(c) \in Terminal
  BY DEF StatusOf, Terminal
<1>4. Fine(v) /\ v.status \in Terminal
  <2>1. StatusOf(c) \in Statuses /\ c \in Conclusions \cup {"none"}
    BY <1>2, <1>3 DEF Statuses, Conclusions
  <2>2. QED
    BY <1>3, <2>1, EndedIsFine
<1> HIDE DEF v
<1>5. u = [v EXCEPT !.execution = "ok", !.validation = c]
  BY <1>1 DEF v
<1>6. u \in RunStates
  BY <1>2, <1>4, <1>5 DEF RunStates, Fine
<1>7. QED
  BY <1>4, <1>5, <1>6 DEF RunStates, Fine

LEMMA FailedIsFine ==
  ASSUME NEW t, Fine(t), NEW u \in Failed(t)
  PROVE  Fine(u) /\ u.status \in Terminal
<1>1. PICK e \in BOOLEAN :
        LET v == [t EXCEPT !.execution = "failed", !.eligible = e]
        IN  u \in IF CanRecover(v) THEN Recovered(v) ELSE {Review(v)}
  BY DEF Failed
<1> DEFINE v == [t EXCEPT !.execution = "failed", !.eligible = e]
<1>2. Fine(v)
  <2>1. v \in RunStates
    BY DEF RunStates, Fine
  <2>2. QED
    BY <2>1 DEF RunStates, Fine
<1>3. u = Review(v) \/ u \in Recovered(v)
  BY <1>1
<1> HIDE DEF v
<1>4. CASE u = Review(v)
  BY <1>2, <1>4, ReviewIsFine
<1>5. CASE u \in Recovered(v)
  <2>1. u \in Healed(v) \/ u = [v EXCEPT !.status = "NEEDS_REVIEW"]
    BY <1>5 DEF Recovered
  <2>2. CASE u = [v EXCEPT !.status = "NEEDS_REVIEW"]
    BY <1>2, <2>2, StatusIsFine DEF Statuses, Terminal
  <2>3. CASE u \in Healed(v)
    <3> DEFINE w == [v EXCEPT !.recoveries = @ + 1]
               x == [w EXCEPT !.kind = "healing"]
    <3>1. Fine(w)
      <4>1. w \in RunStates
        BY <1>2 DEF RunStates, Fine
      <4>2. QED
        BY <1>2, <4>1 DEF RunStates, Fine
    <3>2. u = Pause(x, "healing") \/ u = Review(w)
      BY <2>3 DEF Healed
    <3> HIDE DEF w
    <3>3. Fine(x)
      BY <3>1, KindIsFine DEF Kinds
    <3> HIDE DEF x
    <3>4. QED
      BY <3>1, <3>2, <3>3, PauseIsFine, ReviewIsFine DEF Kinds
  <2>4. QED
    BY <2>1, <2>2, <2>3
<1>6. QED
  BY <1>3, <1>4, <1>5

LEMMA DraftsHaveAFlow ==
  ASSUME NEW p \in Contracts, NEW f \in GeneratedFor(p)
  PROVE  f \in Flows
<1>1. p.candidates \in Seq(Flows) /\ p.selected \in Seq(Flows)
  BY DEF Contracts, FlowLists
<1>2. Primary(p.selected) \subseteq Flows /\ Primary(p.candidates) \subseteq Flows
  BY <1>1, PrimaryFacts
<1>3. QED
  BY <1>2, FlowsAssumption DEF GeneratedFor

LEMMA PhasePlanIsFine ==
  ASSUME Fine(s), NEW t, Fine(t), NEW u \in PhasePlan(t)
  PROVE  Fine(u)
<1>1. \/ u = Ended(t, "BLOCKED", "BLOCKED")
      \/ \E f \in GeneratedFor(s.plan) :
           u = Pause([t EXCEPT !.generated = {f}], "generation")
      \/ u = [t EXCEPT !.status = "READY"]
      \/ u \in Verified(t)
      \/ u = Pause(t, "execution_gate")
  BY DEF PhasePlan
<1>2. CASE u = Ended(t, "BLOCKED", "BLOCKED")
  BY <1>2, EndedIsFine DEF Statuses, Terminal, Conclusions
<1>3. ASSUME NEW f \in GeneratedFor(s.plan),
             u = Pause([t EXCEPT !.generated = {f}], "generation")
      PROVE  Fine(u)
  <2> DEFINE v == [t EXCEPT !.generated = {f}]
  <2>1. f \in Flows
    BY DraftsHaveAFlow DEF Fine
  <2>2. v \in RunStates /\ v.generated = {f}
    BY <2>1 DEF RunStates, Fine, AtMostOne
  <2>3. Fine(v)
    BY <2>2 DEF RunStates, Fine
  <2> HIDE DEF v
  <2>4. Fine(Pause(v, "generation"))
    BY <2>2, <2>3, PauseIsFine DEF Kinds
  <2>5. QED
    BY <1>3, <2>4 DEF v
<1>4. CASE u = [t EXCEPT !.status = "READY"]
  BY <1>4, StatusIsFine DEF Statuses
<1>5. CASE u \in Verified(t)
  BY <1>5, VerifiedIsFine
<1>6. CASE u = Pause(t, "execution_gate")
  BY <1>6, PauseIsFine DEF Kinds
<1>7. QED
  BY <1>1, <1>2, <1>3, <1>4, <1>5, <1>6

\* A resume opens the run for an executable flow, or leaves its commands.
LEMMA ReopenedIsFine ==
  ASSUME NEW t, Fine(t)
  PROVE  Fine(Reopened(t))
<1> DEFINE allowed == Gated(gate, t.plan.candidates)
           plan    == [t.plan EXCEPT !.allowed = allowed # <<>> \/ t.suite.cmds # {}]
           flow    == IF t.selected = <<>> THEN Primary(t.plan.candidates) ELSE t.flow
           u       == [t EXCEPT !.status = "READY", !.plan = plan,
                                !.selected = allowed, !.flow = flow]
           plan2   == [u.plan EXCEPT !.needsApproval = FALSE]
           suite2  == [u.suite EXCEPT !.flows = <<Head(allowed)>>,
                                      !.cmds = {Head(allowed)}]
<1>1. t \in RunStates /\ t.plan \in Contracts /\ t.plan.candidates \in Seq(Flows)
  BY DEF Fine, Contracts, FlowLists
<1>2. allowed \in Seq(Flows)
  BY <1>1, GatedFacts
<1>3. plan \in Contracts
  BY <1>1 DEF Contracts
<1>4. flow \in AtMostOne
  <2>1. Primary(t.plan.candidates) \in AtMostOne
    BY <1>1, PrimaryFacts DEF AtMostOne
  <2>2. QED
    BY <1>1, <2>1 DEF RunStates
<1>5. /\ allowed = <<>> => Reopened(t) = u
      /\ allowed # <<>> =>
           Reopened(t) = [u EXCEPT !.plan = plan2, !.suite = suite2]
  <2> DEFINE v == [t EXCEPT !.status = "READY",
                            !.plan.allowed = allowed # <<>> \/ t.suite.cmds # {},
                            !.selected = allowed, !.flow = flow]
  <2>1. v = u
    BY <1>1 DEF RunStates
  <2>2. Reopened(t) = IF allowed = <<>> THEN v
                      ELSE [v EXCEPT !.plan.needsApproval = FALSE,
                                     !.suite.flows = <<Head(allowed)>>,
                                     !.suite.cmds = {Head(allowed)}]
    BY DEF Reopened
  <2>3. {"plan", "suite"} \subseteq DOMAIN u
    BY <1>1 DEF RunStates
  <2> HIDE DEF u, v, allowed
  <2>4. QED
    BY <2>1, <2>2, <2>3
<1> HIDE DEF allowed, plan, flow
<1>6. /\ u \in RunStates /\ u.plan = plan /\ u.suite = t.suite
      /\ u.kind = t.kind /\ u.generated = t.generated
  BY <1>1, <1>2, <1>3, <1>4 DEF RunStates, FlowLists, Statuses
<1> HIDE DEF u
<1>7. Fine(u)
  BY <1>3, <1>6 DEF Fine
<1>8. CASE allowed # <<>>
  <2>1. Head(allowed) \in Flows /\ <<Head(allowed)>> \in Seq(Flows)
    BY <1>2, <1>8, HeadFacts, OneFlowIsList
  <2>2. plan2 \in Contracts
    BY <1>3, <1>6 DEF Contracts
  <2>3. suite2 \in Suites
    BY <1>6, <2>1 DEF RunStates, Suites, FlowLists
  <2> HIDE DEF plan2, suite2
  <2> DEFINE w == [u EXCEPT !.plan = plan2, !.suite = suite2]
  <2>4. w \in RunStates
    BY <1>6, <2>2, <2>3 DEF RunStates
  <2>5. w.plan = plan2 /\ w.kind = u.kind /\ w.generated = u.generated
    BY <1>6 DEF RunStates
  <2>6. Fine(w)
    BY <1>7, <2>2, <2>4, <2>5 DEF Fine
  <2>7. QED
    BY <1>5, <1>8, <2>6
<1>9. QED
  BY <1>5, <1>7, <1>8

LEMMA RegeneratedIsFine ==
  ASSUME NEW t, Fine(t), t.kind = "generation"
  PROVE  Fine(Regenerated(t))
<1>1. CASE \A f \in t.generated : gate[f]
  <2> DEFINE f      == CHOOSE f \in t.generated : TRUE
             suite2 == [t.suite EXCEPT !.flows = <<f>>, !.cmds = {f}]
             u      == [t EXCEPT !.status = "READY", !.flow = {f},
                                 !.selected = <<f>>, !.suite = suite2]
  <2>1. f \in Flows
    BY DEF Fine, RunStates, AtMostOne
  <2>2. Regenerated(t) = u
    BY <1>1 DEF Regenerated, Fine, RunStates, Suites
  <2> HIDE DEF f
  <2>3. suite2 \in Suites
    BY <2>1, OneFlowIsList DEF Fine, RunStates, Suites, FlowLists
  <2> HIDE DEF suite2
  <2>4. u \in RunStates
    BY <2>1, <2>3, OneFlowIsList DEF Fine, RunStates, FlowLists, AtMostOne, Statuses
  <2>5. u.plan = t.plan /\ u.kind = t.kind /\ u.generated = t.generated
    BY DEF Fine, RunStates
  <2> HIDE DEF u
  <2>6. QED
    BY <2>2, <2>4, <2>5 DEF Fine
<1>2. CASE ~\A f \in t.generated : gate[f]
  BY <1>2, ReviewIsFine DEF Regenerated
<1>3. QED
  BY <1>1, <1>2

LEMMA ReappliedIsFine ==
  ASSUME NEW t, Fine(t)
  PROVE  Fine(Reapplied(t))
BY ReopenedIsFine, RegeneratedIsFine DEF Reapplied

LEMMA SelectedIsFine ==
  ASSUME NEW t, Fine(t), NEW suite \in Suites, NEW flows \in Seq(Flows)
  PROVE  Fine([t EXCEPT !.plan.ids = <<>>, !.plan.selected = <<>>,
                        !.suite = suite, !.selected = flows,
                        !.flow = Primary(flows)])
<1> DEFINE plan == [t.plan EXCEPT !.ids = <<>>, !.selected = <<>>]
           flow == Primary(flows)
           u    == [t EXCEPT !.plan = plan, !.suite = suite,
                             !.selected = flows, !.flow = flow]
<1>1. plan \in Contracts
  <2>1. <<>> \in FlowLists
    BY DEF FlowLists
  <2>2. QED
    BY <2>1 DEF Fine, Contracts
<1>2. flow \in AtMostOne
  BY PrimaryFacts DEF AtMostOne
<1>3. [t EXCEPT !.plan.ids = <<>>, !.plan.selected = <<>>,
                !.suite = suite, !.selected = flows,
                !.flow = Primary(flows)] = u
  BY DEF Fine, RunStates, Contracts
<1> HIDE DEF plan, flow
<1>4. u \in RunStates
  BY <1>1, <1>2 DEF Fine, RunStates, FlowLists
<1>5. u.plan = plan /\ u.kind = t.kind /\ u.generated = t.generated
  BY DEF Fine, RunStates
<1> HIDE DEF u
<1>6. Fine(u)
  BY <1>1, <1>4, <1>5 DEF Fine
<1>7. QED
  BY <1>3, <1>6

-----------------------------------------------------------------------------
LEMMA InitTypeInv == Init => TypeInv
<1> SUFFICES ASSUME Init PROVE TypeInv
  OBVIOUS
<1>1. NoSuite \in Suites
  BY DEF NoSuite, Suites, FlowLists
<1>2. Fresh \in RunStates
  BY <1>1, LoopAssumption DEF Fresh, RunStates, NoIntent, NoPlan, FlowLists,
     AtMostOne, Statuses, Kinds
<1>3. s \in RunStates /\ s.kind = "none"
  BY <1>2 DEF Init, Fresh
<1>4. QED
  BY <1>3 DEF Init, TypeInv, Typed, Staged, Labels

\* A step of the planned run.
LEMMA StepTyped ==
  ASSUME TypeInv, Fine(s'), UNCHANGED <<gate, req>>,
         pc' \in Actions \cup {"loop", "final", "done", "apply"},
         pc' \in {"final", "done", "apply"} => s'.status \in Terminal,
         resumed' \in BOOLEAN, cleared' \subseteq Flows, starts' \in Nat
  PROVE  TypeInv'
<1>1. pc' \in Labels \cup Actions /\ pc' # "plan"
  BY DEF Labels, Actions
<1>2. QED
  BY <1>1 DEF TypeInv, Typed, Staged, Fine

LEMMA KeepTyped ==
  ASSUME TypeInv, Fine(s'), Keep,
         pc' \in Actions \cup {"loop", "final", "done", "apply"},
         pc' \in {"final", "done", "apply"} => s'.status \in Terminal
  PROVE  TypeInv'
BY StepTyped DEF Keep, TypeInv, Typed

LEMMA StateIsFine ==
  ASSUME TypeInv, pc \notin {"idle", "plan"}
  PROVE  Fine(s)
BY DEF TypeInv, Typed, Staged, Fine

LEMMA ClassifyTyped == TypeInv /\ Classify => TypeInv'
<1> SUFFICES ASSUME TypeInv, Classify PROVE TypeInv'
  OBVIOUS
<1>1. PICK i \in Classified(gate) : s' = [s EXCEPT !.intent = i]
  BY DEF Classify, Continue
<1>2. i \in Intents
  BY IntentsAreTyped
<1>3. s \in RunStates /\ (s.kind = "generation" => s.generated # {})
  BY DEF TypeInv, Typed, Staged
<1>4. s' \in RunStates
  BY <1>1, <1>2, <1>3 DEF RunStates
<1>5. /\ s'.intent = i /\ s'.kind = s.kind /\ s'.generated = s.generated
  BY <1>1, <1>3 DEF RunStates
<1>6. pc' = "plan" /\ cleared' \subseteq Flows /\ UNCHANGED <<gate, req, resumed, starts>>
  BY ExecutableAreFlows DEF Classify, Continue
<1>7. QED
  BY <1>2, <1>3, <1>4, <1>5, <1>6 DEF TypeInv, Typed, Staged, Labels

LEMMA PlanTyped == TypeInv /\ Plan => TypeInv'
<1> SUFFICES ASSUME TypeInv, Plan PROVE TypeInv'
  OBVIOUS
<1>1. PICK p \in Plans(gate, req.goal, s.intent) :
        s' = [s EXCEPT !.plan = p, !.intent = NoIntent]
  BY DEF Plan, Continue
<1>2. p \in Contracts
  BY PlanFacts DEF TypeInv, Staged, Plan
<1>3. s \in RunStates /\ (s.kind = "generation" => s.generated # {})
  BY DEF TypeInv, Typed, Staged
<1>4. s' \in RunStates
  BY <1>1, <1>2, <1>3 DEF RunStates
<1>5. /\ s'.plan = p /\ s'.kind = s.kind /\ s'.generated = s.generated
  BY <1>1, <1>3 DEF RunStates
<1>6. pc' = "select" /\ UNCHANGED <<gate, req, resumed, cleared, starts>>
  BY DEF Plan, Continue, Keep
<1>7. QED
  BY <1>2, <1>3, <1>4, <1>5, <1>6 DEF TypeInv, Typed, Staged, Labels

\* The flows and the suite that _phase_plan works with.
Chosen(related) ==
  LET suite == Select(gate, s.plan.mode, s.plan.ids, related)
      flows == IF s.plan.selected # <<>> THEN s.plan.selected ELSE suite.flows
  IN  [s EXCEPT !.plan.ids = <<>>, !.plan.selected = <<>>,
                !.suite = suite, !.selected = flows,
                !.flow = Primary(flows)]

LEMMA SelectSuiteChoice ==
  ASSUME SelectSuite
  PROVE  \E related \in Related(gate, s.plan.mode) :
           /\ s' \in PhasePlan(Chosen(related))
           /\ pc' = IF s'.status \in Terminal THEN "final" ELSE "loop"
           /\ Keep /\ pc = "select"
BY DEF SelectSuite, Continue, Chosen

LEMMA ChosenFacts ==
  ASSUME Fine(s), NEW related \in Related(gate, s.plan.mode)
  PROVE  LET t     == Chosen(related)
             suite == Select(gate, s.plan.mode, s.plan.ids, related)
             flows == IF s.plan.selected # <<>> THEN s.plan.selected
                      ELSE suite.flows
         IN  /\ Fine(t)
             /\ suite \in Suites /\ flows \in Seq(Flows)
             /\ t.suite = suite /\ t.flow = Primary(flows)
             /\ t.kind = s.kind /\ t.execution = s.execution
             /\ \A field \in DOMAIN s.plan \ {"ids", "selected"} :
                  t.plan[field] = s.plan[field]
<1> DEFINE suite == Select(gate, s.plan.mode, s.plan.ids, related)
           flows == IF s.plan.selected # <<>> THEN s.plan.selected
                    ELSE suite.flows
           t     == [s EXCEPT !.plan.ids = <<>>, !.plan.selected = <<>>,
                              !.suite = suite, !.selected = flows,
                              !.flow = Primary(flows)]
<1>1. s.plan.mode \in Modes /\ s.plan.ids \in Seq(Flows) /\ s.plan.selected \in Seq(Flows)
  BY DEF Fine, Contracts, FlowLists
<1>2. Wanted(s.plan.mode, s.plan.ids, related) \in Seq(Flows)
  BY <1>1, WantedFacts
<1>3. related \in Seq(Flows)
  BY RelatedFacts
<1>4. suite \in Suites
  BY <1>1, <1>2, CommandFacts
<1>5. flows \in Seq(Flows)
  BY <1>1, <1>4 DEF Suites, FlowLists
<1>6. Chosen(related) = t
  BY DEF Chosen
<1> HIDE DEF suite, flows
<1>7. Fine(t)
  BY <1>4, <1>5, SelectedIsFine
<1>8. /\ t.suite = suite /\ t.flow = Primary(flows)
      /\ t.kind = s.kind /\ t.execution = s.execution
  BY DEF Fine, RunStates
<1>9. \A field \in DOMAIN s.plan \ {"ids", "selected"} :
        t.plan[field] = s.plan[field]
  BY DEF Fine, RunStates
<1> HIDE DEF t
<1>10. QED
  BY <1>4, <1>5, <1>6, <1>7, <1>8, <1>9 DEF suite, flows

LEMMA SelectSuiteTyped == TypeInv /\ SelectSuite => TypeInv'
<1> SUFFICES ASSUME TypeInv, SelectSuite PROVE TypeInv'
  OBVIOUS
<1>1. PICK related \in Related(gate, s.plan.mode) :
        /\ s' \in PhasePlan(Chosen(related))
        /\ pc' = IF s'.status \in Terminal THEN "final" ELSE "loop"
        /\ Keep /\ pc = "select"
  BY SelectSuiteChoice
<1>2. Fine(s)
  BY <1>1, StateIsFine
<1>3. Fine(Chosen(related))
  BY <1>2, ChosenFacts
<1>4. Fine(s')
  BY <1>1, <1>2, <1>3, PhasePlanIsFine
<1>5. QED
  BY <1>1, <1>4, KeepTyped

LEMMA RunTestTyped == TypeInv /\ RunTest => TypeInv'
<1> SUFFICES ASSUME TypeInv, RunTest PROVE TypeInv'
  OBVIOUS
<1>1. Fine(s)
  BY StateIsFine DEF RunTest, Performs
<1>2. PICK t \in Verified(s) \cup Failed(s) :
        /\ s' = [t EXCEPT !.flow = IF s.suite.flows = <<>> THEN t.flow
                                   ELSE Primary(s.suite.flows)]
        /\ pc' = IF t.status \in Terminal THEN "final" ELSE "loop"
  <2>1. PICK t \in Verified(s) \cup (IF req.skip THEN {} ELSE Failed(s)) :
          /\ s' = [t EXCEPT !.flow = IF s.suite.flows = <<>> THEN @
                                     ELSE Primary(s.suite.flows)]
          /\ pc' = IF t.status \in Terminal THEN "final" ELSE "loop"
    BY DEF RunTest, Continue
  <2>2. QED
    BY <2>1
<1>3. Fine(t) /\ t.status \in Terminal
  BY <1>1, <1>2, VerifiedIsFine, FailedIsFine
<1> DEFINE flow == IF s.suite.flows = <<>> THEN t.flow ELSE Primary(s.suite.flows)
<1>4. flow \in AtMostOne
  <2>1. s.suite.flows \in Seq(Flows)
    BY <1>1 DEF Fine, RunStates, Suites, FlowLists
  <2>2. Primary(s.suite.flows) \in AtMostOne
    BY <2>1, PrimaryFacts DEF AtMostOne
  <2>3. QED
    BY <1>3, <2>2 DEF Fine, RunStates
<1>5. s' = [t EXCEPT !.flow = flow]
  BY <1>2
<1> HIDE DEF flow
<1>6. Fine(s') /\ s'.status = t.status
  <2>1. s'.status = t.status
    BY <1>3, <1>5 DEF Fine, RunStates
  <2>2. QED
    BY <1>3, <1>4, <1>5, <2>1, FlowIsFine
<1>7. UNCHANGED <<gate, req, resumed, cleared>> /\ starts' \in Nat
  BY DEF RunTest, TypeInv, Typed
<1>8. QED
  BY <1>2, <1>3, <1>6, <1>7, StepTyped DEF TypeInv, Typed

LEMMA FinalizeTyped == TypeInv /\ Finalize => TypeInv'
<1> SUFFICES ASSUME TypeInv, Finalize PROVE TypeInv'
  OBVIOUS
<1> DEFINE final    == IF s.final = "none" THEN Concluded(s) ELSE s.final
           kind     == IF s.status = "NEEDS_REVIEW" THEN "after_validation"
                       ELSE IF s.status = "WAITING_FOR_APPROVAL" /\ s.kind = "none"
                       THEN "execution_gate" ELSE s.kind
           explored == s.explored \/ (resumed /\ Explores(s))
<1>1. Fine(s) /\ s.status \in Terminal
  BY StateIsFine DEF Finalize, TypeInv, Staged
<1>2. final \in Conclusions \cup {"none"}
  BY <1>1 DEF Fine, RunStates, Conclusions, Concluded, Terminal
<1>3. kind \in Kinds /\ (kind = "generation" => s.kind = "generation")
  BY <1>1 DEF Fine, RunStates, Kinds
<1>4. explored \in BOOLEAN
  BY <1>1 DEF Fine, RunStates
<1>5. s' = [s EXCEPT !.final = final, !.kind = kind, !.explored = explored]
  BY <1>1 DEF Finalize, Continue, Fine, RunStates
<1>6. pc' = "done" /\ Keep
  BY DEF Finalize, Continue
<1> HIDE DEF final, kind, explored
<1>7. s' \in RunStates
  BY <1>1, <1>2, <1>3, <1>4, <1>5 DEF Fine, RunStates
<1>8. /\ s'.kind = kind /\ s'.plan = s.plan /\ s'.status = s.status
      /\ s'.generated = s.generated
  BY <1>1, <1>5 DEF Fine, RunStates
<1>9. Fine(s')
  BY <1>1, <1>3, <1>7, <1>8 DEF Fine
<1>10. QED
  BY <1>1, <1>6, <1>8, <1>9, KeepTyped

LEMMA WorkingTyped == TypeInv /\ Working => TypeInv'
<1> SUFFICES ASSUME TypeInv, Working PROVE TypeInv'
  OBVIOUS
<1>a. pc \notin {"idle", "plan"} => Fine(s)
  BY StateIsFine
<1>b. /\ {"BLOCKED", "NEEDS_REVIEW"} \subseteq Terminal
      /\ Terminal \cup {"READY"} \subseteq Statuses
      /\ Terminal \subseteq Conclusions \cup {"COMPLETED", "FAILED"}
  BY DEF Terminal, Statuses, Conclusions
<1>1. ASSUME NEW a \in Decisions, pc = "loop", Takes(a) PROVE TypeInv'
  <2>1. Fine(s) /\ s.iteration < MaxIterations /\ s' = [s EXCEPT !.iteration = @ + 1]
    BY <1>1, <1>a DEF Decisions, Takes, Iterated, Continue
  <2>2. s.iteration + 1 \in 0 .. MaxIterations
    BY <2>1, LoopAssumption DEF Fine, RunStates
  <2>3. s' \in RunStates
    BY <2>1, <2>2 DEF Fine, RunStates
  <2>4. s'.plan = s.plan /\ s'.kind = s.kind /\ s'.generated = s.generated
    BY <2>1 DEF Fine, RunStates
  <2>5. Fine(s')
    BY <2>1, <2>3, <2>4 DEF Fine
  <2>6. pc' = a /\ Keep /\ a \in Actions /\ a \notin {"final", "done", "apply"}
    BY <1>1 DEF Decisions, Takes, Continue, Actions
  <2>7. QED
    BY <2>5, <2>6, KeepTyped
<1>2. CASE Refuse
  <2>1. Fine(s) /\ s' = [s EXCEPT !.status = "BLOCKED"] /\ pc' = "final" /\ Keep
    BY <1>2, <1>a DEF Refuse, Continue, Actions
  <2>2. QED
    BY <2>1, <1>b, StatusIsFine, KeepTyped
<1>3. CASE Stop
  <2>1. Fine(s) /\ s' = Stopped(s) /\ pc' = "final" /\ Keep
    BY <1>3, <1>a DEF Stop, Performs, Continue
  <2>2. PICK status \in Terminal : Stopped(s) = [s EXCEPT !.status = status]
    <3> DEFINE status == CASE s.final = "PASS" -> "COMPLETED"
                           [] s.final = "FAIL" -> "FAILED"
                           [] s.final \in Terminal -> s.final
                           [] OTHER -> IF s.status \in Terminal THEN s.status
                                       ELSE "NEEDS_REVIEW"
    <3>1. Stopped(s) = [s EXCEPT !.status = status]
      BY <2>1 DEF Stopped, Fine, RunStates
    <3>2. status \in Terminal
      BY DEF Terminal
    <3> HIDE DEF status
    <3>3. QED
      BY <3>1, <3>2
  <2>3. QED
    BY <2>1, <2>2, <1>b, StatusIsFine, KeepTyped
<1>4. CASE WaitForReview
  <2>1. /\ Fine(s) /\ pc' = "final" /\ Keep
        /\ s' = Ended(s, "WAITING_FOR_APPROVAL", "WAITING_FOR_APPROVAL")
    BY <1>4, <1>a DEF WaitForReview, Performs, Continue
  <2>2. QED
    BY <2>1, EndedIsFine, KeepTyped DEF Statuses, Terminal, Conclusions
<1>5. CASE Explore
  <2>1. Fine(s) /\ Keep
    BY <1>5, <1>a DEF Explore, Performs
  <2>2. CASE s.explored
    <3>1. s' = [s EXCEPT !.status = "NEEDS_REVIEW"] /\ pc' = "final"
      BY <1>5, <2>2 DEF Explore, Continue
    <3>2. QED
      BY <2>1, <3>1, <1>b, StatusIsFine, KeepTyped
  <2>3. CASE ~s.explored
    <3>1. s' = [s EXCEPT !.status = "READY", !.explored = Explores(s)] /\ pc' = "loop"
      BY <1>5, <2>3 DEF Explore, Continue
    <3>2. Explores(s) \in BOOLEAN
      BY DEF Explores
    <3>3. s' \in RunStates
      BY <2>1, <3>1, <3>2 DEF Fine, RunStates, Statuses
    <3>4. s'.plan = s.plan /\ s'.kind = s.kind /\ s'.generated = s.generated
      BY <2>1, <3>1 DEF Fine, RunStates
    <3>5. Fine(s')
      BY <2>1, <3>3, <3>4 DEF Fine
    <3>6. QED
      BY <2>1, <3>1, <3>5, KeepTyped
  <2>4. QED
    BY <2>2, <2>3
<1>6. CASE RunTest
  BY <1>6, RunTestTyped
<1>7. CASE GiveUp
  <2>1. /\ Fine(s) /\ pc' = "final" /\ Keep
        /\ \E status \in Terminal : s' = [s EXCEPT !.status = status]
    BY <1>7, <1>a, <1>b DEF GiveUp, LeaveLoop, Continue
  <2>2. QED
    BY <2>1, <1>b, StatusIsFine, KeepTyped
<1>8. CASE Finalize
  BY <1>8, FinalizeTyped
<1>9. CASE ApplyResume
  <2>1. Fine(s) /\ s' = Reapplied(s) /\ pc' = "loop" /\ Keep
    BY <1>9, <1>a DEF ApplyResume, Continue
  <2>2. QED
    BY <2>1, ReappliedIsFine, KeepTyped
<1>10. CASE ResumeError
  <2>1. Fine(s) /\ s' = s /\ pc' = "done" /\ Keep /\ s.status \in Terminal
    BY <1>10, <1>a DEF ResumeError, Continue, TypeInv, Staged
  <2>2. QED
    BY <2>1, KeepTyped
<1>11. QED
  BY <1>1, <1>2, <1>3, <1>4, <1>5, <1>6, <1>7, <1>8, <1>9, <1>10
     DEF Working, Choose

LEMMA StepTypeInv == TypeInv /\ [Next]_vars => TypeInv'
<1> SUFFICES ASSUME TypeInv, [Next]_vars PROVE TypeInv'
  OBVIOUS
<1>1. CASE Classify
  BY <1>1, ClassifyTyped
<1>2. CASE Plan
  BY <1>2, PlanTyped
<1>3. CASE SelectSuite
  BY <1>3, SelectSuiteTyped
<1>4. CASE Working
  BY <1>4, WorkingTyped
<1>5. CASE Deadline
  <2>1. /\ Fine(s) /\ pc' = "final" /\ Keep
        /\ \E status \in Terminal : s' = [s EXCEPT !.status = status]
    BY <1>5, StateIsFine DEF Deadline, LeaveLoop, Continue, Terminal
  <2>2. QED
    BY <2>1, StatusIsFine, KeepTyped DEF Statuses
<1>6. CASE Resume
  <2>1. /\ Fine(s) /\ s.status \in Terminal
        /\ UNCHANGED <<gate, req, starts>> /\ resumed' = TRUE
        /\ cleared' \subseteq Flows
        /\ \/ s' = s /\ pc' = "apply"
           \/ s' = Review(s) /\ pc' = "final"
    BY <1>6, StateIsFine, ExecutableAreFlows
       DEF Resume, Continue, TypeInv, Staged
  <2>2. Fine(s') /\ s'.status \in Terminal
    BY <2>1, ReviewIsFine
  <2>3. QED
    BY <2>1, <2>2, StepTyped DEF TypeInv, Typed
<1>7. ASSUME NEW f \in Flows, ToggleGate(f) PROVE TypeInv'
  <2>1. gate' \in [Flows -> BOOLEAN] /\ cleared' \subseteq Flows
    BY <1>7 DEF ToggleGate, TypeInv, Typed, Executable
  <2>2. QED
    BY <1>7, <2>1 DEF ToggleGate, TypeInv, Typed, Staged
<1>8. CASE UNCHANGED vars
  BY <1>8 DEF vars, TypeInv, Typed, Staged
<1>9. QED
  BY <1>1, <1>2, <1>3, <1>4, <1>5, <1>6, <1>7, <1>8 DEF Next

\* Every variable stays in its domain: through planning, loop and any number
\* of resumes an iteration is never one too many, a contract has a strategy,
\* and the run is about one flow at most (AgentRunState and QaPlannerContract).
THEOREM TypeCorrect == Spec => []TypeOK
<1>1. TypeInv => TypeOK
  <2> SUFFICES ASSUME TypeInv PROVE TypeOK
    OBVIOUS
  <2>1. s \in RunStates
    BY DEF TypeInv, Typed
  <2>2. s.flow \in SUBSET Flows /\ Cardinality(s.flow) <= 1
    <3>1. s.flow = {} \/ \E f \in Flows : s.flow = {f}
      BY <2>1 DEF RunStates, AtMostOne
    <3>2. Cardinality({}) = 0 /\ \A f \in Flows : Cardinality({f}) = 1
      BY FS_EmptySet, FS_Singleton
    <3>3. QED
      BY <3>1, <3>2
  <2>3. pc \in Actions \cup {"loop", "final", "apply", "done"} =>
          s.plan.strategy \in Strategies
    BY DEF TypeInv, Staged, Contracts, Actions
  <2>4. s.suite.cmds \subseteq Flows \cup {Suite}
    BY <2>1 DEF RunStates, Suites
  <2>5. QED
    BY <2>1, <2>2, <2>3, <2>4
       DEF TypeInv, Typed, TypeOK, RunStates, Statuses, Kinds
<1>2. QED
  BY <1>1, InitTypeInv, StepTypeInv, PTL DEF Spec

-----------------------------------------------------------------------------
(* What Playwright is started on, whoever changes the gate.                *)

\* What is executable now was seen so since the invocation began.
Seen == pc # "idle" => Executable(gate) \subseteq cleared

\* A first invocation for one flow reaches the loop with commands that were.
FirstGated == ~resumed /\ pc \in Actions \cup {"loop"} /\ OneFlow => Gating

GateInv == TypeInv /\ Seen /\ FirstGated /\ (pc = "apply" => resumed)

\* A step that leaves plan, suite, gate and what was seen alone.
SameRun(t, u) == u.plan.mode = t.plan.mode /\ u.suite.cmds = t.suite.cmds

\* What is decided in the loop and after it leaves the suite alone.
LEMMA EndedSameRun ==
  ASSUME NEW t, Fine(t), NEW status, NEW final
  PROVE  SameRun(t, Ended(t, status, final))
BY DEF SameRun, Ended, Fine, RunStates

LEMMA PauseSameRun ==
  ASSUME NEW t, Fine(t), NEW kind
  PROVE  SameRun(t, Pause(t, kind))
BY DEF SameRun, Pause, Ended, Fine, RunStates

LEMMA VerifiedSameRun ==
  ASSUME NEW t, Fine(t), NEW u \in Verified(t)
  PROVE  SameRun(t, u) /\ u.execution # "none"
BY DEF SameRun, Verified, Ended, Fine, RunStates

LEMMA PhasePlanSameRun ==
  ASSUME NEW t, Fine(t), NEW u \in PhasePlan(t)
  PROVE  SameRun(t, u)
<1>1. \/ u = Ended(t, "BLOCKED", "BLOCKED")
      \/ \E f : u = Pause([t EXCEPT !.generated = {f}], "generation")
      \/ u = [t EXCEPT !.status = "READY"]
      \/ u \in Verified(t)
      \/ u = Pause(t, "execution_gate")
  BY DEF PhasePlan
<1>2. CASE u = Ended(t, "BLOCKED", "BLOCKED")
  BY <1>2, EndedSameRun
<1>3. CASE \E f : u = Pause([t EXCEPT !.generated = {f}], "generation")
  BY <1>3 DEF Pause, Ended, SameRun, Fine, RunStates
<1>4. CASE u = [t EXCEPT !.status = "READY"]
  BY <1>4 DEF SameRun, Fine, RunStates
<1>5. CASE u \in Verified(t)
  BY <1>5, VerifiedSameRun
<1>6. CASE u = Pause(t, "execution_gate")
  BY <1>6, PauseSameRun
<1>7. QED
  BY <1>1, <1>2, <1>3, <1>4, <1>5, <1>6

LEMMA InitGateInv == Init => GateInv
BY InitTypeInv DEF Init, GateInv, Seen, FirstGated, Actions

\* A step in or from the loop that keeps the run; or one that is not of a
\* first invocation any more.
LEMMA GatedStep ==
  ASSUME GateInv, TypeInv', UNCHANGED <<gate, cleared, resumed>>, pc # "idle",
         pc' = "apply" => resumed,
         \/ resumed
         \/ pc' \notin Actions \cup {"loop"}
         \/ pc \in Actions \cup {"loop"} /\ SameRun(s, s')
  PROVE  GateInv'
BY DEF GateInv, Seen, FirstGated, SameRun, OneFlow, Gating, Executable

LEMMA StepGateInv == GateInv /\ [Next]_vars => GateInv'
<1> SUFFICES ASSUME GateInv, [Next]_vars PROVE GateInv'
  OBVIOUS
<1>a. TypeInv /\ TypeInv'
  BY StepTypeInv DEF GateInv
<1>b. pc \notin {"idle", "plan"} => Fine(s)
  BY <1>a, StateIsFine
<1>1. CASE Classify
  BY <1>1, <1>a DEF Classify, Continue, GateInv, Seen, FirstGated, Actions, Executable
<1>2. CASE Plan
  BY <1>2, <1>a, GatedStep DEF Plan, Continue, Keep, Actions
<1>3. CASE SelectSuite
  <2>1. PICK related \in Related(gate, s.plan.mode) :
          /\ s' \in PhasePlan(Chosen(related))
          /\ pc' = IF s'.status \in Terminal THEN "final" ELSE "loop"
          /\ Keep /\ pc = "select"
    BY <1>3, SelectSuiteChoice
  <2> DEFINE wanted == Wanted(s.plan.mode, s.plan.ids, related)
             suite  == Select(gate, s.plan.mode, s.plan.ids, related)
  <2>2. /\ Fine(s) /\ Fine(Chosen(related))
        /\ Chosen(related).suite = suite
        /\ Chosen(related).plan.mode = s.plan.mode
    BY <2>1, <1>b, ChosenFacts DEF Fine, Contracts
  <2>3. s'.suite.cmds = suite.cmds /\ s'.plan.mode = s.plan.mode
    BY <2>1, <2>2, PhasePlanSameRun DEF SameRun
  <2>4. ASSUME OneFlow' PROVE suite.cmds \subseteq Executable(gate) \cup {Suite}
    <3>1. s.plan.mode \in Modes /\ s.plan.ids \in Seq(Flows)
      BY <2>2 DEF Fine, Contracts, FlowLists
    <3>2. wanted \in Seq(Flows) /\ AllOrNone(wanted)
      BY <2>3, <2>4, <3>1, WantedFacts DEF OneFlow
    <3>3. QED
      BY <3>1, <3>2, CommandFacts
  <2>5. Executable(gate) \subseteq cleared
    BY <2>1 DEF GateInv, Seen
  <2>6. OneFlow' => Gating'
    BY <2>1, <2>3, <2>4, <2>5 DEF Gating, Keep
  <2>7. QED
    BY <1>a, <2>1, <2>5, <2>6 DEF GateInv, Seen, FirstGated, Keep, Executable
<1>4. CASE Working
  <2>1. ASSUME NEW a \in Decisions, pc = "loop", Takes(a) PROVE GateInv'
    <3>1. SameRun(s, s')
      BY <2>1, <1>b
         DEF Decisions, Takes, Iterated, Continue, SameRun, Fine, RunStates
    <3>2. pc = "loop" /\ pc' = a /\ a # "apply" /\ Keep
      BY <2>1 DEF Decisions, Takes, Continue, Actions
    <3>3. QED
      BY <1>a, <3>1, <3>2, GatedStep DEF Keep
  <2>2. CASE Refuse \/ Stop \/ WaitForReview \/ GiveUp \/ Finalize
    <3>1. pc # "idle" /\ pc' \in {"final", "done"} /\ Keep
      BY <2>2 DEF Refuse, Stop, WaitForReview, GiveUp, LeaveLoop, Finalize,
                  Performs, Continue, Actions
    <3>2. QED
      BY <1>a, <3>1, GatedStep DEF Keep, Actions
  <2>3. CASE Explore
    <3>1. pc = "EXPLORE" /\ pc' \in {"final", "loop"} /\ Keep
      BY <2>3 DEF Explore, Performs, Continue
    <3>2. SameRun(s, s')
      BY <2>3, <3>1, <1>b DEF Explore, Continue, SameRun, Fine, RunStates
    <3>3. QED
      BY <1>a, <3>1, <3>2, GatedStep DEF Keep, Actions
  <2>4. CASE RunTest
    <3>1. PICK t \in Verified(s) \cup Failed(s) :
            pc' = IF t.status \in Terminal THEN "final" ELSE "loop"
      BY <2>4 DEF RunTest, Continue
    <3>2. pc = "RUN_EXISTING_TEST" /\ UNCHANGED <<gate, resumed, cleared>>
      BY <2>4 DEF RunTest, Performs
    <3>3. pc' = "final"
      BY <3>1, <3>2, <1>b, VerifiedIsFine, FailedIsFine
    <3>4. QED
      BY <1>a, <3>2, <3>3, GatedStep DEF Actions
  <2>5. CASE ApplyResume \/ ResumeError
    <3>1. pc = "apply" /\ pc' \in {"loop", "done"} /\ Keep
      BY <2>5 DEF ApplyResume, ResumeError, Continue
    <3>2. QED
      BY <1>a, <3>1, GatedStep DEF Keep, GateInv
  <2>6. QED
    BY <1>4, <2>1, <2>2, <2>3, <2>4, <2>5 DEF Working, Choose
<1>5. CASE Deadline
  BY <1>5, <1>a, GatedStep DEF Deadline, LeaveLoop, Continue, Keep, Actions
<1>6. CASE Resume
  BY <1>6, <1>a DEF Resume, Continue, GateInv, Seen, FirstGated, Executable
<1>7. ASSUME NEW f \in Flows, ToggleGate(f) PROVE GateInv'
  BY <1>7, <1>a DEF ToggleGate, GateInv, Seen, FirstGated, OneFlow, Gating
<1>8. CASE UNCHANGED vars
  BY <1>8, <1>a DEF vars, GateInv, Seen, FirstGated, OneFlow, Gating, Executable
<1>9. QED
  BY <1>1, <1>2, <1>3, <1>4, <1>5, <1>6, <1>7, <1>8 DEF Next

\* In the modes that run one flow, a first invocation starts Playwright only on
\* a flow that was executable at some time since the invocation began, however
\* the gate changes meanwhile: the selector, not the planner that read the gate
\* before it, clears the commands (suite_selector.py).
THEOREM SingleFlowsAreGated == Spec => SingleFlowGated
<1>1. GateInv /\ [Next]_vars => [Starting /\ ~resumed /\ OneFlow => Gating]_vars
  <2> SUFFICES ASSUME GateInv, [Next]_vars, Starting, ~resumed, OneFlow
               PROVE  Gating
    OBVIOUS
  <2>1. pc = "RUN_EXISTING_TEST"
    BY DEF Starting, Next, Working, Classify, Plan, SelectSuite, Choose,
       Takes, Refuse, Stop, WaitForReview, Explore, RunTest, Performs, GiveUp,
       LeaveLoop, Finalize, ApplyResume, ResumeError, Deadline, Resume,
       ToggleGate, Keep, vars
  <2>2. QED
    BY <2>1 DEF GateInv, FirstGated, Actions
<1>2. QED
  BY <1>1, InitGateInv, StepGateInv, PTL DEF Spec, SingleFlowGated

-----------------------------------------------------------------------------
(* What Playwright is started on while nobody changes the gate.            *)

Untested == s.execution = "none" /\ s.plan.mode # "incident_multi_flow"

\* The invocation may still start Playwright, or be resumed to.
Live == \/ pc \in Actions \cup {"loop", "apply"}
        \/ pc \in {"final", "done"} /\ s.status = "WAITING_FOR_APPROVAL"

Calm       == pc \notin {"idle", "done"} => cleared = Executable(gate)
Selectable == pc = "select" => Selects(s.plan)

\* Without a draft, a run that can be resumed is about one of its candidates:
\* so the flow it was approved for is one that the gate is asked for again.
Homed == Live /\ Untested /\ s.kind # "generation" =>
           /\ s.plan.candidates # <<>>
           /\ s.flow \subseteq ToSet(s.plan.candidates)

Entered   == pc = "apply" => \A f \in Resumes(s) : gate[f]
LoopGated == pc \in Actions \cup {"loop"} /\ Untested => Gating

CalmInv == /\ TypeInv
           /\ Calm
           /\ Selectable
           /\ Homed
           /\ Entered
           /\ LoopGated

\* u is t with another status, iteration, conclusion or exploration.
Same(t, u) ==
  /\ u.plan = t.plan /\ u.suite = t.suite /\ u.flow = t.flow
  /\ u.kind = t.kind /\ u.execution = t.execution

LEMMA InitCalmInv == Init => CalmInv
BY InitTypeInv DEF Init, CalmInv, Calm, Selectable, Homed, Live, Entered,
   LoopGated, Actions

LEMMA SameStep ==
  ASSUME CalmInv, TypeInv', Same(s, s'), UNCHANGED <<gate, cleared>>,
         pc \in Actions \cup {"loop"}, pc' \in Actions \cup {"loop", "final"}
  PROVE  CalmInv'
<1>1. cleared = Executable(gate)
  BY DEF CalmInv, Calm, Actions
<1>2. Untested' = Untested /\ Gating' = Gating
  BY DEF Same, Untested, Gating
<1>3. Homed'
  BY <1>2 DEF CalmInv, Homed, Live, Same
<1>4. LoopGated'
  BY <1>2 DEF CalmInv, LoopGated
<1>5. pc' \notin {"apply", "select"}
  BY DEF Actions
<1>6. QED
  BY <1>1, <1>3, <1>4, <1>5 DEF CalmInv, Calm, Selectable, Entered, Executable

\* A step of an invocation whose run is tested, or over for good.
LEMMA QuietlyTyped ==
  ASSUME CalmInv, TypeInv', UNCHANGED <<gate, cleared>>,
         pc \notin {"idle", "done"}, pc' \in {"plan", "final", "done"},
         \/ ~Untested'
         \/ pc' \in {"final", "done"} => s'.status # "WAITING_FOR_APPROVAL"
  PROVE  CalmInv'
<1>1. pc' \notin Actions \cup {"loop", "apply", "select"}
  BY DEF Actions
<1>2. QED
  BY <1>1 DEF CalmInv, Calm, Selectable, Homed, Live, Entered, LoopGated, Executable

LEMMA ClassifyCalm == CalmInv /\ Classify => CalmInv'
<1> SUFFICES ASSUME CalmInv, Classify PROVE CalmInv'
  OBVIOUS
<1>1. TypeInv'
  BY StepTypeInv DEF CalmInv, Next
<1>2. pc' = "plan" /\ cleared' = Executable(gate) /\ gate' = gate
  BY DEF Classify, Continue
<1>3. pc' \notin Actions \cup {"loop", "apply", "select", "final", "done"}
  BY <1>2 DEF Actions
<1>4. QED
  BY <1>1, <1>2, <1>3
     DEF CalmInv, Calm, Selectable, Homed, Live, Entered, LoopGated, Executable

LEMMA PlanCalm == CalmInv /\ Plan => CalmInv'
<1> SUFFICES ASSUME CalmInv, Plan PROVE CalmInv'
  OBVIOUS
<1>1. TypeInv' /\ s \in RunStates /\ s.intent \in Intents
  BY StepTypeInv DEF CalmInv, Next, TypeInv, Typed, Staged, Plan
<1>2. PICK p \in Plans(gate, req.goal, s.intent) :
        s' = [s EXCEPT !.plan = p, !.intent = NoIntent]
  BY DEF Plan, Continue
<1>3. Selects(p) /\ s'.plan = p
  BY <1>1, <1>2, PlanFacts DEF RunStates
<1>4. pc = "plan" /\ pc' = "select" /\ UNCHANGED <<gate, cleared>>
  BY DEF Plan, Continue, Keep
<1>5. Selectable'
  BY <1>3, <1>4 DEF Selectable, Selects, AllOrNone, Executable, Reusable
<1>6. pc' \notin Actions \cup {"loop", "apply", "final", "done"}
  BY <1>4 DEF Actions
<1>7. QED
  BY <1>1, <1>4, <1>5, <1>6
     DEF CalmInv, Calm, Homed, Live, Entered, LoopGated, Executable

\* How the planning phase leaves a run that is not over, tested or drafted.
LEMMA PhasePlanCases ==
  ASSUME NEW t, Fine(t), NEW u \in PhasePlan(t)
  PROVE  /\ u.plan = t.plan /\ u.suite = t.suite /\ u.flow = t.flow
         /\ \/ u.status = "BLOCKED"
            \/ u.execution # "none"
            \/ u.kind = "generation"
            \/ t.plan.strategy # "BLOCK" /\ ~t.plan.generate
<1>1. \/ u = Ended(t, "BLOCKED", "BLOCKED")
      \/ \E f : u = Pause([t EXCEPT !.generated = {f}], "generation")
      \/ /\ t.plan.strategy # "BLOCK" /\ ~t.plan.generate
         /\ \/ u = [t EXCEPT !.status = "READY"]
            \/ u \in Verified(t)
            \/ u = Pause(t, "execution_gate")
  BY DEF PhasePlan
<1>2. CASE u = Ended(t, "BLOCKED", "BLOCKED")
  BY <1>2 DEF Ended, Fine, RunStates
<1>3. CASE \E f : u = Pause([t EXCEPT !.generated = {f}], "generation")
  BY <1>3 DEF Pause, Ended, Fine, RunStates
<1>4. CASE /\ t.plan.strategy # "BLOCK" /\ ~t.plan.generate
           /\ u = [t EXCEPT !.status = "READY"]
  BY <1>4 DEF Fine, RunStates
<1>5. CASE u \in Verified(t)
  BY <1>5 DEF Verified, Ended, Fine, RunStates
<1>6. CASE /\ t.plan.strategy # "BLOCK" /\ ~t.plan.generate
           /\ u = Pause(t, "execution_gate")
  BY <1>6 DEF Pause, Ended, Fine, RunStates
<1>7. QED
  BY <1>1, <1>2, <1>3, <1>4, <1>5, <1>6

LEMMA SelectSuiteCalm == CalmInv /\ SelectSuite => CalmInv'
<1> SUFFICES ASSUME CalmInv, SelectSuite PROVE CalmInv'
  OBVIOUS
<1>1. PICK related \in Related(gate, s.plan.mode) :
        /\ s' \in PhasePlan(Chosen(related))
        /\ pc' = IF s'.status \in Terminal THEN "final" ELSE "loop"
        /\ Keep /\ pc = "select"
  BY SelectSuiteChoice
<1> DEFINE wanted == Wanted(s.plan.mode, s.plan.ids, related)
           suite  == Select(gate, s.plan.mode, s.plan.ids, related)
           flows  == IF s.plan.selected # <<>> THEN s.plan.selected
                     ELSE suite.flows
           t      == Chosen(related)
<1>2. TypeInv' /\ Fine(s) /\ Selects(s.plan) /\ cleared = Executable(gate)
  BY <1>1, StepTypeInv, StateIsFine DEF CalmInv, Selectable, Calm, Next
<1>3. /\ s.plan.mode \in Modes /\ s.plan.ids \in Seq(Flows)
      /\ s.plan.selected \in Seq(Flows)
  BY <1>2 DEF Fine, Contracts, FlowLists
<1>4. /\ wanted \in Seq(Flows)
      /\ suite.flows = Gated(gate, wanted)
      /\ AllOrNone(wanted) \/ s.plan.mode \in Aggregate =>
           suite.cmds \subseteq Executable(gate) \cup {Suite}
  BY <1>3, WantedFacts, CommandFacts
<1>5. /\ Fine(t) /\ t.suite = suite /\ flows \in Seq(Flows)
      /\ t.flow = Primary(flows)
      /\ t.plan.candidates = s.plan.candidates /\ t.plan.mode = s.plan.mode
      /\ t.plan.strategy = s.plan.strategy /\ t.plan.generate = s.plan.generate
  <2>1. {"candidates", "mode", "strategy", "generate"}
          \subseteq DOMAIN s.plan \ {"ids", "selected"}
    BY <1>2 DEF Fine, Contracts
  <2>2. QED
    BY <1>2, <2>1, ChosenFacts
<1> HIDE DEF t, suite, flows, wanted
<1>6. /\ s'.plan = t.plan /\ s'.suite = t.suite /\ s'.flow = t.flow
      /\ \/ s'.status = "BLOCKED"
         \/ s'.execution # "none"
         \/ s'.kind = "generation"
         \/ t.plan.strategy # "BLOCK" /\ ~t.plan.generate
  BY <1>1, <1>5, PhasePlanCases DEF t
<1>7. Homed'
  <2> SUFFICES ASSUME Live', Untested', s'.kind # "generation"
               PROVE  /\ s'.plan.candidates # <<>>
                      /\ s'.flow \subseteq ToSet(s'.plan.candidates)
    BY DEF Homed
  <2>1. s'.status # "BLOCKED"
    BY <1>1 DEF Live, Terminal, Actions
  <2>2. Reusable(s.plan)
    BY <1>2, <1>5, <1>6, <2>1 DEF Selects, Untested
  <2>3. ToSet(flows) \subseteq ToSet(s.plan.candidates)
    <3>1. CASE s.plan.selected # <<>>
      BY <2>2, <3>1 DEF Reusable, flows
    <3>2. CASE s.plan.selected = <<>> /\ s.plan.mode \in Aggregate
      BY <1>5, <2>2, <3>2 DEF Reusable, ToSet
    <3>3. CASE s.plan.selected = <<>> /\ s.plan.mode \notin Aggregate
      <4>1. s.plan.mode # "incident_multi_flow" /\ s.plan.ids # <<>>
        BY <1>5, <1>6, <2>2 DEF Untested, Reusable
      <4>2. ToSet(wanted) \subseteq ToSet(s.plan.ids)
        BY <1>3, <3>3, <4>1, WantedFacts DEF wanted
      <4>3. ToSet(suite.flows) \subseteq ToSet(wanted)
        BY <1>4, GatedFacts
      <4>4. QED
        BY <2>2, <3>3, <4>2, <4>3 DEF Reusable, flows
    <3>4. QED
      BY <3>1, <3>2, <3>3
  <2>4. QED
    BY <1>5, <1>6, <2>2, <2>3, PrimaryFacts DEF Reusable
<1>8. LoopGated'
  <2> SUFFICES ASSUME Untested'
               PROVE  s'.suite.cmds \subseteq cleared' \cup {Suite}
    BY DEF LoopGated, Gating
  <2>1. s.plan.mode # "incident_multi_flow"
    BY <1>5, <1>6 DEF Untested
  <2>2. AllOrNone(wanted) \/ s.plan.mode \in Aggregate
    BY <1>2, <1>3, <2>1, WantedFacts DEF Selects, wanted
  <2>3. QED
    BY <1>1, <1>2, <1>4, <1>5, <1>6, <2>2 DEF Keep
<1>9. pc' \notin {"apply", "select"} /\ UNCHANGED <<gate, cleared>>
  BY <1>1 DEF Keep
<1>10. QED
  BY <1>2, <1>7, <1>8, <1>9 DEF CalmInv, Calm, Selectable, Entered, Executable

-----------------------------------------------------------------------------
LEMMA ReopenedFacts ==
  ASSUME NEW t, Fine(t)
  PROVE  LET allowed == Gated(gate, t.plan.candidates)
             u       == Reopened(t)
         IN  /\ u.plan.candidates = t.plan.candidates
             /\ u.plan.mode = t.plan.mode
             /\ u.kind = t.kind /\ u.execution = t.execution
             /\ u.flow = IF t.selected = <<>> THEN Primary(t.plan.candidates)
                         ELSE t.flow
             /\ allowed # <<>> => u.suite.cmds = {Head(allowed)}
<1> DEFINE allowed == Gated(gate, t.plan.candidates)
<1>1. t \in RunStates /\ t.plan \in Contracts /\ t.suite \in Suites
  BY DEF Fine, RunStates
<1> HIDE DEF allowed
<1>2. CASE allowed = <<>>
  BY <1>1, <1>2 DEF Reopened, RunStates, Contracts, allowed
<1>3. CASE allowed # <<>>
  BY <1>1, <1>3 DEF Reopened, RunStates, Contracts, Suites, allowed
<1>4. QED
  BY <1>2, <1>3 DEF allowed

LEMMA ApplyCalm == CalmInv /\ ApplyResume => CalmInv'
<1> SUFFICES ASSUME CalmInv, ApplyResume PROVE CalmInv'
  OBVIOUS
<1>1. /\ TypeInv' /\ Fine(s) /\ cleared = Executable(gate)
      /\ \A f \in Resumes(s) : gate[f]
      /\ s' = Reapplied(s) /\ pc = "apply" /\ pc' = "loop"
      /\ UNCHANGED <<gate, cleared>>
  <2>1. pc = "apply" /\ pc' = "loop" /\ s' = Reapplied(s) /\ Keep
    BY DEF ApplyResume, Continue
  <2>2. TypeInv'
    BY StepTypeInv DEF CalmInv, Next, Working
  <2>3. QED
    BY <2>1, <2>2, StateIsFine DEF CalmInv, Calm, Entered, Keep
<1>2. CASE s.kind = "generation"
  <2>1. s.generated \in AtMostOne /\ s.generated # {}
    BY <1>1, <1>2 DEF Fine, RunStates
  <2>2. \A f \in s.generated : gate[f]
    BY <1>1, <1>2 DEF Resumes
  <2>3. PICK f \in Flows : s.generated = {f}
    BY <2>1 DEF AtMostOne
  <2>4. f = CHOOSE g \in s.generated : TRUE
    BY <2>3
  <2> DEFINE suite2 == [s.suite EXCEPT !.flows = <<f>>, !.cmds = {f}]
  <2>5. s' = [s EXCEPT !.status = "READY", !.flow = {f}, !.selected = <<f>>,
                       !.suite = suite2]
    BY <1>1, <1>2, <2>2, <2>4 DEF Reapplied, Regenerated, Fine, RunStates, Suites
  <2>10. suite2.cmds = {f}
    BY <1>1 DEF Fine, RunStates, Suites
  <2> HIDE DEF suite2
  <2>6. s'.suite.cmds = {f} /\ s'.kind = "generation"
    BY <1>1, <1>2, <2>5, <2>10 DEF Fine, RunStates
  <2>7. f \in Executable(gate)
    BY <2>2, <2>3 DEF Executable
  <2>8. Homed' /\ LoopGated'
    BY <1>1, <2>6, <2>7 DEF Homed, LoopGated, Gating
  <2>9. QED
    BY <1>1, <2>8 DEF CalmInv, Calm, Selectable, Entered, Executable
<1>3. CASE s.kind # "generation"
  <2> DEFINE allowed == Gated(gate, s.plan.candidates)
  <2>1. s.plan.candidates \in Seq(Flows)
    BY <1>1 DEF Fine, Contracts, FlowLists
  <2>2. /\ s'.plan.candidates = s.plan.candidates
        /\ s'.plan.mode = s.plan.mode
        /\ s'.kind = s.kind /\ s'.execution = s.execution
        /\ s'.flow = IF s.selected = <<>> THEN Primary(s.plan.candidates)
                     ELSE s.flow
        /\ allowed # <<>> => s'.suite.cmds = {Head(allowed)}
    BY <1>1, <1>3, ReopenedFacts DEF Reapplied
  <2>3. ASSUME Untested'
        PROVE  /\ s.plan.candidates # <<>>
               /\ s.flow \subseteq ToSet(s.plan.candidates)
    BY <1>1, <1>3, <2>2, <2>3 DEF CalmInv, Homed, Live, Untested
  <2>4. Homed'
    BY <1>3, <2>1, <2>2, <2>3, PrimaryFacts DEF Homed
  <2>5. ASSUME Untested' PROVE s'.suite.cmds \subseteq Executable(gate)
    <3>1. s.flow \subseteq Flows
      BY <1>1 DEF Fine, RunStates, AtMostOne
    <3>2. PICK f \in Resumes(s) : f \in ToSet(s.plan.candidates) /\ f \in Flows
      BY <1>3, <2>1, <2>3, <2>5, <3>1, HeadFacts DEF Resumes, Primary
    <3>3. f \in Executable(gate)
      BY <1>1, <3>2 DEF Executable
    <3>4. allowed # <<>> /\ allowed \in Seq(Flows) /\ ToSet(allowed) \subseteq Executable(gate)
      BY <2>1, <3>2, <3>3, GatedFacts
    <3>5. QED
      BY <2>2, <3>4, HeadFacts
  <2>6. LoopGated'
    BY <1>1, <2>5 DEF LoopGated, Gating
  <2>7. QED
    BY <1>1, <2>4, <2>6 DEF CalmInv, Calm, Selectable, Entered, Executable
<1>4. QED
  BY <1>2, <1>3

LEMMA WorkingCalm == CalmInv /\ Working => CalmInv'
<1> SUFFICES ASSUME CalmInv, Working PROVE CalmInv'
  OBVIOUS
<1>a. TypeInv'
  BY StepTypeInv DEF CalmInv, Next
<1>b. pc \notin {"idle", "plan"} => Fine(s)
  BY StateIsFine DEF CalmInv
<1>1. ASSUME NEW a \in Decisions, pc = "loop", Takes(a) PROVE CalmInv'
  <2>1. Same(s, s')
    BY <1>1, <1>b DEF Decisions, Takes, Iterated, Continue, Same, Fine, RunStates
  <2>2. QED
    BY <1>1, <1>a, <2>1, SameStep DEF Decisions, Takes, Continue, Keep
<1>2. CASE Refuse
  <2>1. Same(s, s')
    BY <1>2, <1>b DEF Refuse, Continue, Same, Fine, RunStates, Actions
  <2>2. QED
    BY <1>2, <1>a, <2>1, SameStep DEF Refuse, Continue, Keep
<1>3. CASE Stop
  <2>1. Same(s, s')
    BY <1>3, <1>b DEF Stop, Performs, Stopped, Continue, Same, Fine, RunStates
  <2>2. QED
    BY <1>3, <1>a, <2>1, SameStep DEF Stop, Performs, Continue, Keep, Actions
<1>4. CASE WaitForReview
  <2>1. Same(s, s')
    BY <1>4, <1>b DEF WaitForReview, Performs, Ended, Continue, Same, Fine, RunStates
  <2>2. QED
    BY <1>4, <1>a, <2>1, SameStep DEF WaitForReview, Performs, Continue, Keep, Actions
<1>5. CASE Explore
  <2>1. Same(s, s')
    BY <1>5, <1>b DEF Explore, Performs, Continue, Same, Fine, RunStates
  <2>2. QED
    BY <1>5, <1>a, <2>1, SameStep DEF Explore, Performs, Continue, Keep, Actions
<1>6. CASE RunTest
  <2>1. PICK t \in Verified(s) \cup Failed(s) :
          /\ \E flow : s' = [t EXCEPT !.flow = flow]
          /\ pc' = IF t.status \in Terminal THEN "final" ELSE "loop"
    BY <1>6 DEF RunTest, Continue
  <2>2. pc = "RUN_EXISTING_TEST" /\ UNCHANGED <<gate, cleared>>
    BY <1>6 DEF RunTest, Performs
  <2>3. Fine(s) /\ "execution" \in DOMAIN s
    BY <1>b, <2>2 DEF Fine, RunStates
  <2>4. t.execution # "none" /\ "execution" \in DOMAIN t /\ t.status \in Terminal
    BY <2>1, <2>3, VerifiedHasRun, FailedHasRun, VerifiedIsFine, FailedIsFine
  <2>5. ~Untested' /\ pc' = "final"
    BY <2>1, <2>4 DEF Untested
  <2>6. QED
    BY <1>a, <2>2, <2>5, QuietlyTyped
<1>7. CASE GiveUp
  <2>1. Same(s, s')
    BY <1>7, <1>b DEF GiveUp, LeaveLoop, Continue, Same, Fine, RunStates
  <2>2. QED
    BY <1>7, <1>a, <2>1, SameStep DEF GiveUp, LeaveLoop, Continue, Keep
<1>8. CASE Finalize
  <2>1. Fine(s) /\ pc = "final" /\ pc' = "done" /\ UNCHANGED <<gate, cleared>>
    BY <1>8, <1>b DEF Finalize, Continue, Keep
  <2>2. /\ s'.plan = s.plan /\ s'.flow = s.flow /\ s'.execution = s.execution
        /\ s'.status = s.status
        /\ s.status = "WAITING_FOR_APPROVAL" /\ s.kind = "generation" =>
             s'.kind = "generation"
    BY <1>8, <2>1 DEF Finalize, Continue, Fine, RunStates
  <2>3. Homed'
    BY <2>1, <2>2 DEF CalmInv, Homed, Live, Untested, Actions
  <2>4. pc' \notin Actions
    BY <2>1 DEF Actions
  <2>5. QED
    BY <1>a, <2>1, <2>3, <2>4 DEF CalmInv, Calm, Selectable, Entered, LoopGated
<1>9. CASE ApplyResume
  BY <1>9, ApplyCalm
<1>10. CASE ResumeError
  <2>1. s' = s /\ pc = "apply" /\ pc' = "done"
    BY <1>10 DEF ResumeError, Continue
  <2>2. Homed'
    BY <2>1 DEF CalmInv, Homed, Live, Untested
  <2>3. pc' \notin Actions
    BY <2>1 DEF Actions
  <2>4. QED
    BY <1>a, <2>1, <2>2, <2>3 DEF CalmInv, Calm, Selectable, Entered, LoopGated
<1>11. QED
  BY <1>1, <1>2, <1>3, <1>4, <1>5, <1>6, <1>7, <1>8, <1>9, <1>10
     DEF Working, Choose

LEMMA StepCalmInv ==
  ASSUME ~Racing
  PROVE  CalmInv /\ [Next]_vars => CalmInv'
<1> SUFFICES ASSUME CalmInv, [Next]_vars PROVE CalmInv'
  OBVIOUS
<1>a. TypeInv'
  BY StepTypeInv DEF CalmInv
<1>1. CASE Classify
  BY <1>1, ClassifyCalm
<1>2. CASE Plan
  BY <1>2, PlanCalm
<1>3. CASE SelectSuite
  BY <1>3, SelectSuiteCalm
<1>4. CASE Working
  BY <1>4, WorkingCalm
<1>5. CASE Deadline
  <2>1. Fine(s)
    BY <1>5, StateIsFine DEF CalmInv, Deadline, LeaveLoop
  <2>2. Same(s, s')
    BY <1>5, <2>1 DEF Deadline, LeaveLoop, Continue, Same, Fine, RunStates
  <2>3. QED
    BY <1>5, <1>a, <2>2, SameStep DEF Deadline, LeaveLoop, Continue, Keep
<1>6. CASE Resume
  <2>1. /\ pc = "done" /\ s.status = "WAITING_FOR_APPROVAL"
        /\ cleared' = Executable(gate) /\ gate' = gate
    BY <1>6 DEF Resume
  <2>2. PICK changed \in BOOLEAN :
          IF Approved(s, changed) THEN s' = s /\ pc' = "apply"
          ELSE s' = Review(s) /\ pc' = "final"
    BY <1>6 DEF Resume, Continue
  <2>3. CASE s' = s /\ pc' = "apply" /\ Approved(s, changed)
    <3>1. \A f \in Resumes(s) : gate[f]
      BY <2>3 DEF Approved
    <3>2. Homed'
      BY <2>1, <2>3 DEF CalmInv, Homed, Live, Untested
    <3>3. Entered'
      BY <2>1, <2>3, <3>1 DEF Entered, Resumes
    <3>4. QED
      BY <1>a, <2>1, <2>3, <3>2, <3>3
         DEF CalmInv, Calm, Selectable, LoopGated, Executable, Actions
  <2>4. CASE s' = Review(s) /\ pc' = "final"
    <3>1. Fine(s)
      BY <2>1, StateIsFine DEF CalmInv
    <3>2. s'.status = "NEEDS_REVIEW"
      BY <2>4, <3>1 DEF Review, Ended, Fine, RunStates
    <3>3. QED
      BY <1>a, <2>1, <2>4, <3>2
         DEF CalmInv, Calm, Selectable, Homed, Live, Entered, LoopGated,
             Executable, Actions
  <2>5. QED
    BY <2>2, <2>3, <2>4
<1>7. ASSUME NEW f \in Flows, ToggleGate(f) PROVE CalmInv'
  <2>1. pc = "done" /\ pc' = "done" /\ s' = s
    BY <1>7 DEF ToggleGate
  <2>2. Homed'
    BY <2>1 DEF CalmInv, Homed, Live, Untested, Actions
  <2>3. QED
    BY <1>a, <2>1, <2>2 DEF CalmInv, Calm, Selectable, Entered, LoopGated, Actions
<1>8. CASE UNCHANGED vars
  BY <1>8, <1>a DEF vars, CalmInv, Calm, Selectable, Homed, Live, Untested,
     Entered, Resumes, LoopGated, Gating, Executable, Selects, AllOrNone, Reusable
<1>9. QED
  BY <1>1, <1>2, <1>3, <1>4, <1>5, <1>6, <1>7, <1>8 DEF Next

\* While nobody changes the gate during an invocation, every start is on flows
\* that the gate lets pass, of a first or a resumed invocation and in every
\* mode but incident_multi_flow: a resume asks the gate about a flow, and
\* _resume_execution_gate finds at least that one among the candidates.
THEOREM CalmRunsAreGated == ~Racing => (Spec => GatedUnlessIncident)
<1> SUFFICES ASSUME ~Racing PROVE Spec => GatedUnlessIncident
  OBVIOUS
<1>1. Remembers /\ CalmInv /\ [Next]_vars =>
        [Starting /\ s.plan.mode # "incident_multi_flow" => Gating]_vars
  <2> SUFFICES ASSUME Remembers, CalmInv, [Next]_vars, Starting,
                      s.plan.mode # "incident_multi_flow"
               PROVE  Gating
    OBVIOUS
  <2>1. pc = "RUN_EXISTING_TEST"
    BY DEF Starting, Next, Working, Classify, Plan, SelectSuite, Choose,
       Takes, Refuse, Stop, WaitForReview, Explore, RunTest, Performs, GiveUp,
       LeaveLoop, Finalize, ApplyResume, ResumeError, Deadline, Resume,
       ToggleGate, Keep, vars
  <2>2. s.execution = "none"
    BY <2>1 DEF Remembers
  <2>3. QED
    BY <2>1, <2>2 DEF CalmInv, LoopGated, Untested, Actions
<1>2. QED
  BY <1>1, InitRemembers, StepRemembers, InitCalmInv, StepCalmInv, PTL
     DEF Spec, GatedUnlessIncident
-----------------------------------------------------------------------------
\* The LLM never adds to what the rules offer: in auto mode it picks among the
\* allowed actions, in any other it can at most have the run wait for a review,
\* by an answer that is refused (agent_decision_engine.py _resolve_final).
THEOREM LlmStaysWithinRules ==
  ASSUME NEW t, NEW llm
  PROVE  Decide(t, llm) \subseteq {Deterministic(t), "WAIT_FOR_REVIEW"}
                                    \cup (IF llm = "auto" THEN Allowed(t) ELSE {})
<1>1. ASSUME NEW p
      PROVE  \/ Resolve(Context(t), Deterministic(t), p, llm)
                  \in {Deterministic(t), "WAIT_FOR_REVIEW"}
             \/ /\ llm = "auto"
                /\ Resolve(Context(t), Deterministic(t), p, llm) \in Allowed(t)
  BY DEF Resolve, Accepts, Context
<1> QED
  BY <1>1 DEF Decide

-----------------------------------------------------------------------------
(* A run is one of module AgentRun.                                        *)

\* Without an execution nothing is completed or failed, and nothing is said to
\* have passed or failed; with one the run does not wait.
Honest(t) == IF t.execution = "none"
             THEN t.status \notin Run!Decided /\ t.final \notin {"PASS", "FAIL"}
             ELSE t.status \in Run!Decided \cup {"NEEDS_REVIEW"}

\* What was executed, or verified for a request that skips the execution, has
\* left the loop for good.
LifeInv == /\ TypeInv /\ Remembers
           /\ Honest(s)
           /\ s.execution # "none" => pc \in {"final", "done"} /\ (starts = 1 \/ req.skip)
           /\ req.skip => starts = 0
           /\ pc = "apply" => s.status = "WAITING_FOR_APPROVAL"

\* The engine asked with OBSERVING never answers with a recovery.
LEMMA ObservingRecoversNothing ==
  ASSUME NEW t, t.status = "OBSERVING"
  PROVE  "RECOVER_LOCATOR" \notin Decide(t, Llm)
<1>1. t.status \in DOMAIN Forced /\ Forced[t.status] = "CAPTURE_EVIDENCE"
  BY DEF Forced
<1>2. Deterministic(t) = "CAPTURE_EVIDENCE"
  BY <1>1 DEF Deterministic
<1>3. Allowed(t) = {"CAPTURE_EVIDENCE"}
  BY <1>1 DEF Allowed
<1>4. ASSUME NEW p PROVE Resolve(Context(t), Deterministic(t), p, Llm) # "RECOVER_LOCATOR"
  <2>1. Context(t).allowed = {"CAPTURE_EVIDENCE"}
    BY <1>3 DEF Context
  <2> QED
    BY <2>1, <1>2 DEF Resolve, Accepts
<1> QED
  BY <1>2, <1>4 DEF Decide

\* A failed test ends in a review, whatever the LLM would do about it.
LEMMA FailedIsReviewed ==
  ASSUME NEW t \in RunStates, NEW u \in Failed(t)
  PROVE  u.execution = "failed" /\ u.status = "NEEDS_REVIEW"
<1>1. PICK e \in BOOLEAN :
        LET v == [t EXCEPT !.execution = "failed", !.eligible = e]
        IN  u \in IF CanRecover(v) THEN Recovered(v) ELSE {Review(v)}
  BY DEF Failed
<1> DEFINE v == [t EXCEPT !.execution = "failed", !.eligible = e]
<1>2. {"execution", "status", "final"} \subseteq DOMAIN v /\ v.execution = "failed"
  BY DEF RunStates
<1> HIDE DEF v
<1>3. CASE u = Review(v)
  BY <1>2, <1>3 DEF Review, Ended
<1>4. CASE u \in Recovered(v)
  <2> DEFINE w == [v EXCEPT !.status = "OBSERVING"]
  <2>1. w.status = "OBSERVING"
    BY <1>2
  <2>2. "RECOVER_LOCATOR" \notin Decide(w, Llm)
    BY <2>1, ObservingRecoversNothing
  <2>3. u = [v EXCEPT !.status = "NEEDS_REVIEW"]
    BY <1>4, <2>2 DEF Recovered
  <2> QED
    BY <1>2, <2>3
<1> QED
  BY <1>1, <1>3, <1>4 DEF v

LEMMA VerifiedIsDecided ==
  ASSUME NEW t \in RunStates, NEW u \in Verified(t)
  PROVE  u.execution = "ok" /\ u.status \in Run!Decided \cup {"NEEDS_REVIEW"}
<1>1. PICK c \in Verdicts(t) :
        u = [Ended(t, StatusOf(c), c) EXCEPT !.execution = "ok", !.validation = c]
  BY DEF Verified
<1>2. u.execution = "ok" /\ u.status = StatusOf(c)
  BY <1>1 DEF Ended, RunStates
<1> QED
  BY <1>2 DEF StatusOf, Run!Decided

LEMMA InitLifeInv == Init => LifeInv
<1> SUFFICES ASSUME Init PROVE LifeInv
  OBVIOUS
<1>1. TypeInv /\ Remembers
  BY InitTypeInv, InitRemembers
<1> QED
  BY <1>1 DEF Init, Fresh, LifeInv, Honest, Run!Decided

\* A step before anything is executed.
LEMMA UnexecutedStep ==
  ASSUME LifeInv, TypeInv', Remembers', req' = req, starts' = starts,
         s.execution = "none", s'.execution = "none",
         s'.status \notin Run!Decided, s'.final \notin {"PASS", "FAIL"},
         pc' = "apply" => s'.status = "WAITING_FOR_APPROVAL"
  PROVE  LifeInv'
BY DEF LifeInv, Honest

LEMMA StepLifeInv == LifeInv /\ [Next]_vars => LifeInv'
<1> SUFFICES ASSUME LifeInv, [Next]_vars PROVE LifeInv'
  OBVIOUS
<1>a. TypeInv' /\ Remembers'
  BY StepTypeInv, StepRemembers DEF LifeInv
<1>b. s \in RunStates
  BY DEF LifeInv, TypeInv, Typed
<1>c. pc \notin {"final", "done"} =>
        /\ s.execution = "none" /\ starts = 0
        /\ s.status \notin Run!Decided /\ s.final \notin {"PASS", "FAIL"}
  BY DEF LifeInv, Remembers, Honest
<1> DEFINE Unexecuted == /\ req' = req /\ starts' = starts
                         /\ s.execution = "none" /\ s'.execution = "none"
                         /\ s'.status \notin Run!Decided
                         /\ s'.final \notin {"PASS", "FAIL"}
                         /\ pc' = "apply" => s'.status = "WAITING_FOR_APPROVAL"
<1>d. Unexecuted => LifeInv'
  BY <1>a, UnexecutedStep
<1> USE DEF Continue, Keep
<1>1. CASE Classify
  <2>1. Unexecuted
    BY <1>1, <1>b, <1>c DEF Classify, RunStates
  <2> QED
    BY <1>d, <2>1
<1>2. CASE Plan
  <2>1. Unexecuted
    BY <1>2, <1>b, <1>c DEF Plan, RunStates
  <2> QED
    BY <1>d, <2>1
<1>3. CASE SelectSuite
  <2>1. PICK related \in Related(gate, s.plan.mode) :
          LET suite == Select(gate, s.plan.mode, s.plan.ids, related)
              flows == IF s.plan.selected # <<>> THEN s.plan.selected
                       ELSE suite.flows
          IN  /\ s' \in PhasePlan([s EXCEPT !.plan.ids = <<>>,
                                            !.plan.selected = <<>>,
                                            !.suite = suite,
                                            !.selected = flows,
                                            !.flow = Primary(flows)])
              /\ pc' = IF s'.status \in Terminal THEN "final" ELSE "loop"
    BY <1>3 DEF SelectSuite
  <2> DEFINE suite  == Select(gate, s.plan.mode, s.plan.ids, related)
             flows  == IF s.plan.selected # <<>> THEN s.plan.selected
                       ELSE suite.flows
             before == [s EXCEPT !.plan.ids = <<>>, !.plan.selected = <<>>,
                                 !.suite = suite, !.selected = flows,
                                 !.flow = Primary(flows)]
  <2>2. /\ {"execution", "status", "final", "kind", "generated"} \subseteq DOMAIN before
        /\ before.execution = "none"
        /\ before.status = s.status /\ before.final = s.final
    BY <1>3, <1>b, <1>c DEF SelectSuite, RunStates
  <2>3. /\ s' \in PhasePlan(before)
        /\ pc' = IF s'.status \in Terminal THEN "final" ELSE "loop"
    BY <2>1
  <2>4. pc = "select" /\ req' = req /\ starts' = starts
    BY <1>3 DEF SelectSuite
  <2> HIDE DEF before
  <2>5. \/ s' = Ended(before, "BLOCKED", "BLOCKED")
        \/ \E f : s' = Pause([before EXCEPT !.generated = f], "generation")
        \/ s' = [before EXCEPT !.status = "READY"]
        \/ req.skip /\ s' \in Verified(before)
        \/ s' = Pause(before, "execution_gate")
    BY <2>3 DEF PhasePlan
  <2>6. CASE \/ s' = Ended(before, "BLOCKED", "BLOCKED")
             \/ \E f : s' = Pause([before EXCEPT !.generated = f], "generation")
             \/ s' = [before EXCEPT !.status = "READY"]
             \/ s' = Pause(before, "execution_gate")
    <3>1. s'.execution = "none"
      BY <2>6, <2>2 DEF Ended, Pause
    <3>2. s'.status \in {"BLOCKED", "WAITING_FOR_APPROVAL", "READY"}
      BY <2>6, <2>2 DEF Ended, Pause
    <3>3. s'.final \in {"BLOCKED", "WAITING_FOR_APPROVAL", s.final}
      BY <2>6, <2>2 DEF Ended, Pause
    <3>4. pc' # "apply"
      BY <2>3
    <3>5. Unexecuted
      BY <3>1, <3>2, <3>3, <3>4, <2>4, <1>c DEF Run!Decided
    <3> QED
      BY <3>5, <1>d
  <2>7. CASE req.skip /\ s' \in Verified(before)
    <3>1. PICK c \in Verdicts(before) :
            s' = [Ended(before, StatusOf(c), c) EXCEPT !.execution = "ok", !.validation = c]
      BY <2>7 DEF Verified
    <3>2. s'.execution = "ok" /\ s'.status = StatusOf(c)
      BY <3>1, <2>2 DEF Ended
    <3>3. s'.status \in Run!Decided \cup {"NEEDS_REVIEW"}
      BY <3>2 DEF StatusOf, Run!Decided
    <3>4. pc' = "final"
      BY <2>3, <3>3 DEF Run!Decided, Terminal
    <3>5. starts' = 0
      BY <2>4, <2>7 DEF LifeInv
    <3> QED
      BY <1>a, <2>4, <2>7, <3>2, <3>3, <3>4, <3>5 DEF LifeInv, Honest
  <2> QED
    BY <2>5, <2>6, <2>7
<1>4. CASE Working
  <2>1. ASSUME NEW a \in Decisions, pc = "loop", Takes(a) PROVE Unexecuted
    BY <2>1, <1>b, <1>c DEF Decisions, Takes, Iterated, RunStates, Actions
  <2>2. CASE Refuse
    <3>1. Unexecuted
      BY <2>2, <1>b, <1>c DEF Refuse, RunStates, Actions, Run!Decided
    <3> QED
      BY <3>1, <1>d
  <2>3. CASE Stop
    <3>1. pc = "STOP" /\ pc' = "final" /\ s' = Stopped(s) /\ req' = req /\ starts' = starts
      BY <2>3 DEF Stop, Performs
    <3>2. s'.execution = s.execution /\ s'.final = s.final
      BY <3>1, <1>b DEF Stopped, RunStates
    <3>3. s'.status \notin Run!Decided
      <4>1. s'.status = CASE s.final = "PASS" -> "COMPLETED"
                          [] s.final = "FAIL" -> "FAILED"
                          [] s.final \in Terminal -> s.final
                          [] OTHER -> IF s.status \in Terminal THEN s.status
                                      ELSE "NEEDS_REVIEW"
        BY <3>1, <1>b DEF Stopped, RunStates
      <4>2. s.final \notin {"PASS", "FAIL"} /\ s.status \notin Run!Decided
        BY <3>1, <1>c
      <4>3. s.final \notin Run!Decided
        BY <1>b DEF RunStates, Conclusions, Run!Decided
      <4> QED
        BY <4>1, <4>2, <4>3 DEF Run!Decided
    <3>4. Unexecuted
      BY <3>1, <3>2, <3>3, <1>c
    <3> QED
      BY <3>4, <1>d
  <2>4. CASE WaitForReview
    <3>1. Unexecuted
      BY <2>4, <1>b, <1>c DEF WaitForReview, Performs, Ended, RunStates, Run!Decided
    <3> QED
      BY <3>1, <1>d
  <2>5. CASE Explore
    <3>1. pc = "EXPLORE" /\ req' = req /\ starts' = starts /\ pc' # "apply"
      BY <2>5 DEF Explore, Performs
    <3>2. /\ s'.execution = s.execution /\ s'.final = s.final
          /\ s'.status \in {"NEEDS_REVIEW", "READY"}
      BY <2>5, <1>b DEF Explore, RunStates
    <3>3. Unexecuted
      BY <3>1, <3>2, <1>c DEF Run!Decided
    <3> QED
      BY <3>3, <1>d
  <2>6. CASE RunTest
    <3>1. PICK t \in Verified(s) \cup (IF req.skip THEN {} ELSE Failed(s)) :
            /\ \E flow : s' = [t EXCEPT !.flow = flow]
            /\ pc' = IF t.status \in Terminal THEN "final" ELSE "loop"
      BY <2>6 DEF RunTest
    <3>2. pc = "RUN_EXISTING_TEST" /\ req' = req
      BY <2>6 DEF RunTest, Performs
    <3>3. /\ t.execution \in {"ok", "failed"}
          /\ t.status \in Run!Decided \cup {"NEEDS_REVIEW"}
      BY <3>1, <1>b, VerifiedIsDecided, FailedIsReviewed
    <3>4. {"execution", "status"} \subseteq DOMAIN t
      <4>1. {"execution", "status"} \subseteq DOMAIN s
        BY <1>b DEF RunStates
      <4>2. HasEnd(s)
        BY <1>b DEF RunStates, HasEnd
      <4> QED
        BY <4>1, <4>2, <3>1, VerifiedHasRun, VerifiedAgrees, FailedHasRun, FailedHasEnd
           DEF Agrees, HasEnd
    <3>5. s'.execution = t.execution /\ s'.status = t.status
      BY <3>1, <3>4
    <3>6. pc' = "final"
      BY <3>1, <3>3 DEF Run!Decided, Terminal
    <3>7. IF req.skip THEN starts' = 0 ELSE starts' = 1
      BY <2>6, <3>2, <1>c DEF RunTest, LifeInv
    <3> QED
      BY <1>a, <3>2, <3>3, <3>5, <3>6, <3>7 DEF LifeInv, Honest
  <2>7. CASE GiveUp
    <3>1. Unexecuted
      BY <2>7, <1>b, <1>c DEF GiveUp, LeaveLoop, RunStates, Run!Decided, Terminal
    <3> QED
      BY <3>1, <1>d
  <2>8. CASE Finalize
    <3>1. /\ pc = "final" /\ pc' = "done" /\ req' = req /\ starts' = starts
          /\ s'.execution = s.execution /\ s'.status = s.status
          /\ s'.final = IF s.final = "none" THEN Concluded(s) ELSE s.final
      BY <2>8, <1>b DEF Finalize, RunStates
    <3>2. Honest(s')
      <4>1. Honest(s)
        BY DEF LifeInv
      <4>2. s.status \notin Run!Decided => Concluded(s) = s.status
        BY DEF Concluded, Run!Decided
      <4>3. s.status \notin {"PASS", "FAIL"}
        BY <1>b DEF RunStates, Statuses, Terminal
      <4> QED
        BY <4>1, <4>2, <4>3, <3>1 DEF Honest
    <3> QED
      BY <1>a, <3>1, <3>2 DEF LifeInv
  <2>9. CASE ApplyResume
    <3>1. pc = "apply" /\ pc' = "loop" /\ s' = Reapplied(s) /\ req' = req /\ starts' = starts
      BY <2>9 DEF ApplyResume
    <3>2. /\ Regenerated(s).execution = s.execution
          /\ Regenerated(s).status \in {"READY", "NEEDS_REVIEW"}
          /\ Regenerated(s).final \in {s.final, "NEEDS_REVIEW"}
      BY <1>b DEF Regenerated, Review, Ended, RunStates
    <3>3. /\ Reopened(s).execution = s.execution
          /\ Reopened(s).status = "READY"
          /\ Reopened(s).final = s.final
      BY <1>b DEF Reopened, RunStates
    <3>4. Unexecuted
      BY <3>1, <3>2, <3>3, <1>c DEF Reapplied, Run!Decided
    <3> QED
      BY <3>4, <1>d
  <2>10. CASE ResumeError
    <3>1. Unexecuted
      BY <2>10, <1>c DEF ResumeError
    <3> QED
      BY <3>1, <1>d
  <2> QED
    BY <1>4, <1>d, <2>1, <2>2, <2>3, <2>4, <2>5, <2>6, <2>7, <2>8, <2>9, <2>10
       DEF Working, Choose
<1>5. CASE Deadline
  <2>1. Unexecuted
    BY <1>5, <1>b, <1>c DEF Deadline, LeaveLoop, RunStates, Run!Decided, Terminal
  <2> QED
    BY <1>d, <2>1
<1>6. CASE Resume
  <2>1. Unexecuted
    BY <1>6, <1>b DEF Resume, RunStates, Run!Decided, LifeInv, Honest, Review, Ended
  <2> QED
    BY <1>d, <2>1
<1>7. ASSUME NEW f \in Flows, ToggleGate(f) PROVE LifeInv'
  BY <1>7, <1>a DEF ToggleGate, LifeInv, Honest
<1>8. CASE UNCHANGED vars
  BY <1>8, <1>a DEF vars, LifeInv, Honest
<1> QED
  BY <1>1, <1>2, <1>3, <1>4, <1>5, <1>6, <1>7, <1>8 DEF Next

\* Steps within an invocation that start nothing are not seen.
LEMMA UnseenStep ==
  ASSUME pc # "done", pc' # "done", starts' = starts, req' = req
  PROVE  UNCHANGED <<Life, starts, req.skip>>
BY DEF Life

\* A step of the loop is a step of the run it is promised to be, or none.
LEMMA StepRuns == LifeInv /\ [Next]_vars => [Run!Next]_<<Life, starts, req.skip>>
<1> SUFFICES ASSUME LifeInv, [Next]_vars PROVE [Run!Next]_<<Life, starts, req.skip>>
  OBVIOUS
<1> DEFINE Unseen == UNCHANGED <<Life, starts, req.skip>>
<1>a. s \in RunStates /\ (pc \in {"final", "done", "apply"} => s.status \in Terminal)
  BY DEF LifeInv, TypeInv, Typed, Staged
<1> USE DEF Continue, Keep
<1>1. CASE Classify
  BY <1>1, UnseenStep DEF Classify
<1>2. CASE Plan
  BY <1>2, UnseenStep DEF Plan
<1>3. CASE SelectSuite
  <2>1. pc = "select" /\ pc' \in {"final", "loop"} /\ starts' = starts /\ req' = req
    BY <1>3 DEF SelectSuite
  <2> QED
    BY <2>1, UnseenStep
<1>4. CASE Working
  <2>1. ASSUME NEW a \in Decisions, pc = "loop", Takes(a) PROVE Unseen
    BY <2>1, UnseenStep DEF Decisions, Takes, Actions
  <2>2. CASE Refuse
    BY <2>2, UnseenStep DEF Refuse, Actions
  <2>3. CASE Stop
    BY <2>3, UnseenStep DEF Stop, Performs
  <2>4. CASE WaitForReview
    BY <2>4, UnseenStep DEF WaitForReview, Performs
  <2>5. CASE Explore
    BY <2>5, UnseenStep DEF Explore, Performs
  <2>6. CASE RunTest
    <3>1. pc = "RUN_EXISTING_TEST" /\ pc' \in {"final", "loop"} /\ req' = req
      BY <2>6 DEF RunTest, Performs
    <3>2. Life = "working" /\ Life' = "working"
      BY <3>1 DEF Life
    <3>3. CASE req.skip
      <4>1. starts' = starts
        BY <2>6, <3>3 DEF RunTest
      <4> QED
        BY <3>1, <3>2, <4>1
    <3>4. CASE ~req.skip
      <4>1. starts = 0 /\ starts' = 1
        BY <2>6, <3>1, <3>4 DEF RunTest, LifeInv, Remembers
      <4>2. Run!Start
        BY <3>1, <3>2, <3>4, <4>1 DEF Run!Start
      <4> QED
        BY <4>2 DEF Run!Next
    <3> QED
      BY <3>3, <3>4
  <2>7. CASE GiveUp
    BY <2>7, UnseenStep DEF GiveUp, LeaveLoop
  <2>8. CASE Finalize
    <3>1. /\ pc = "final" /\ pc' = "done" /\ req' = req /\ starts' = starts
          /\ s'.status = s.status /\ s.status \in Terminal
      BY <2>8, <1>a DEF Finalize, RunStates
    <3>2. Life = "working" /\ Life' = s.status
      BY <3>1 DEF Life
    <3>3. CASE s.status = "WAITING_FOR_APPROVAL"
      <4>1. starts = 0
        BY <3>3 DEF LifeInv, Honest, Remembers, Run!Decided
      <4>2. Run!Wait
        BY <3>1, <3>2, <3>3, <4>1 DEF Run!Wait, Run!Waiting
      <4> QED
        BY <4>2 DEF Run!Next
    <3>4. CASE s.status # "WAITING_FOR_APPROVAL"
      <4>1. s.status \in Run!Decided => starts = 1 \/ req.skip
        BY DEF LifeInv, Honest
      <4>2. s.status \in Run!Decided \cup Run!Open
        BY <3>1, <3>4 DEF Terminal, Run!Decided, Run!Open
      <4>3. Life' \in Run!Open \cup (IF starts = 1 \/ req.skip THEN Run!Decided ELSE {})
        BY <3>2, <4>1, <4>2
      <4>4. Run!Settle
        BY <3>1, <3>2, <4>3 DEF Run!Settle
      <4> QED
        BY <4>4 DEF Run!Next
    <3> QED
      BY <3>3, <3>4
  <2>9. CASE ApplyResume
    BY <2>9, UnseenStep DEF ApplyResume
  <2>10. CASE ResumeError
    <3>1. pc = "apply" /\ pc' = "done" /\ s' = s /\ req' = req /\ starts' = starts
      BY <2>10 DEF ResumeError
    <3>2. s.status = "WAITING_FOR_APPROVAL" /\ starts = 0
      BY <3>1 DEF LifeInv, Remembers
    <3>3. Run!Wait
      BY <3>1, <3>2 DEF Run!Wait, Run!Waiting, Life
    <3> QED
      BY <3>3 DEF Run!Next
  <2> QED
    BY <1>4, <2>1, <2>2, <2>3, <2>4, <2>5, <2>6, <2>7, <2>8, <2>9, <2>10
       DEF Working, Choose
<1>5. CASE Deadline
  BY <1>5, UnseenStep DEF Deadline, LeaveLoop
<1>6. CASE Resume
  <2>1. /\ pc = "done" /\ s.status = "WAITING_FOR_APPROVAL"
        /\ pc' \in {"apply", "final"} /\ req' = req /\ starts' = starts
    BY <1>6 DEF Resume
  <2>2. Run!TakeUp
    BY <2>1 DEF Run!TakeUp, Run!Waiting, Life
  <2> QED
    BY <2>2 DEF Run!Next
<1>7. ASSUME NEW f \in Flows, ToggleGate(f) PROVE Unseen
  BY <1>7 DEF ToggleGate, Life
<1>8. CASE UNCHANGED vars
  BY <1>8 DEF vars, Life
<1> QED
  BY <1>1, <1>2, <1>3, <1>4, <1>5, <1>6, <1>7, <1>8 DEF Next

\* A run is settled once and for all, executed at most once, and settled by its
\* execution, whatever the gate, the LLM and the people who resume it do
\* (controlled_agent_loop.py run, _finalize; agent_resume.py resume).
THEOREM LoopRefinesRun == Spec => ImplementsAgentRun
<1>1. Init => Run!Init
  BY DEF Init, Run!Init, Life, Requests
<1> QED
  BY <1>1, InitLifeInv, StepLifeInv, StepRuns, PTL
     DEF Spec, Run!Spec, ImplementsAgentRun
=============================================================================
