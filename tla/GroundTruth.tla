------------------------------ MODULE GroundTruth ------------------------------
(***************************************************************************)
(* How a run gets a verdict.  Playwright leaves a report in one file for   *)
(* all runs; the validator compares what it finds there with the approved  *)
(* Ground Truth that matches the goal, and without one the run needs a     *)
(* review.  A reviewer may then approve a pending Ground Truth in the      *)
(* console, which has the stored run validated again, or with a script,    *)
(* which touches only the file.  The console does so inside mutateState:   *)
(* on a copy of state.json, under a lock file that a killed console leaves *)
(* behind and that nobody waits for longer than 30 seconds.                *)
(***************************************************************************)
EXTENDS Naturals, TLC

CONSTANTS Runs,
          Handlers, \* POST ground-truth/approve requests the console works on
          Asked,    \* bound: the goals that are asked for
          MaxEdits  \* bound: edits of Ground Truth files outside the console

VARIABLES truth,    \* truth[t]: the status in the file of Ground Truth t
          audit,    \* the Ground Truths with a line in approval-audit.jsonl
          report,   \* reports/results.json of the automation project
          run,      \* the runs, in state.json once they are stored
          rq,       \* rq[h]: the request handler h works on
          lockFile, \* is the lock file of state.json there?
          viewed,   \* runs of which a GET holds the agent's result to store it
          edits,
          ever,     \* Ground Truths that somebody has approved
          crossed,  \* runs whose report another run replaced before it was read
          unlocked  \* has anybody gone without the lock at the requests inside?

lock  == <<lockFile, unlocked>>
vars  == <<truth, audit, report, run, rq, lock, viewed, edits, ever, crossed>>

-----------------------------------------------------------------------------
\* The Ground Truth files, reduced to what the matching can tell: flow_id, the
\* subject and tags that may occur in a goal, and the expectations.
Truths == {"home", "product", "login"}
Flow(t)  == IF t = "login" THEN "none" ELSE t
Words(t) == CASE t = "home"    -> {"item search", "product search"}
              [] t = "product" -> {"product search", "item search", "search sku"}
              [] t = "login"   -> {"login"}
Expects(t) == IF t = "login" THEN {"ok", "tests"} ELSE {"ok", "tests", "trace"}
BoundTest(t) == t = "home"      \* test_case_id names a test

\* Goals and what the classifier and the selector made of them: the first flow
\* of the intent and the primary flow of the suite.  A sanity run has neither.
Goal(says, kind, first, primary) ==
  [says |-> says, kind |-> kind, first |-> first, primary |-> primary]
Goals == [item   |-> Goal({"item search"}, "search", "home", "product"),
          sku    |-> Goal({"login", "search sku"}, "search", "product", "product"),
          view   |-> Goal({"product search"}, "view", "product", "product"),
          sanity |-> Goal({"product search"}, "search", "none", "none")]

ASSUME GroundTruthAssumption == Asked \subseteq DOMAIN Goals /\ MaxEdits \in Nat

\* What Playwright did: whether any test passed, and the flows that the titles
\* of the tests name.  A skipped execution is ok and leaves no report; a suite
\* without a command or an executable flow runs the sanity tests ("astray").
NoReport == [any |-> FALSE, ids |-> {}]
Report(ids) == [any |-> TRUE, ids |-> ids]
Reports == {NoReport, Report({}), Report({"product"}), Report({"home"}),
            Report({"home", "product"})}
Outcome(facts, played, reports) == [facts : {facts}, played : {played}, tests : reports]
Outcomes == Outcome({"ok", "trace"}, TRUE, Reports)
              \cup Outcome({"ok", "trace", "astray"}, TRUE, {Report({})})
              \cup Outcome({"ok"}, FALSE, {NoReport})
              \cup Outcome({}, TRUE, {Report({"home"})})

-----------------------------------------------------------------------------
\* The validator.

\* goal_matches_gt, with the flows of the tests that were executed.
GoalMatches(g, t, ids) ==
  /\ Flow(t) \in {"none", g.primary} \cup ids \/ g.primary = "none"
  /\ ids # {} /\ Flow(t) # "none" => Flow(t) \in ids
  /\ \/ BoundTest(t) /\ Flow(t) \in ids
     \/ /\ ~(g.kind = "view" /\ Flow(t) = "product")
        /\ \/ Words(t) \cap g.says # {}
           \/ g.kind = "search" /\ Flow(t) = "product"

\* Bug: drafts are loaded like approved files.
ApprovedOrDraft == Truths

\* _load_approved_gt, on every validation.
Approved == {t \in Truths : truth[t] = "approved"}

Facts(own, seen) == own.facts \cup (IF seen.any THEN {"tests"} ELSE {})

\* review: isGroundTruthReviewReason and executionSucceededForGtReview hold.
Verdict(shown, review, by) == [shown |-> shown, review |-> review, by |-> by]

Judged(rec, v) ==
  [rec EXCEPT !.shown = v.shown, !.review = v.review, !.by = v.by]

\* _validate_phase_b: the executed tests all belong to the flow of the Ground
\* Truth, if it names one, and the expectations hold.
PhaseB(t, facts, ids) ==
  IF /\ Flow(t) # "none" => ids \subseteq {Flow(t)}
     /\ Expects(t) \subseteq facts
  THEN Verdict("PASS", FALSE, t) ELSE Verdict("FAIL", FALSE, t)

\* _validate_phase_a: an execution that is ok needs a review.
ToReview == Verdict("NEEDS_REVIEW", TRUE, "none")
PhaseA(own) == IF "astray" \in own.facts THEN Verdict("FAIL", FALSE, "none") ELSE ToReview

\* Validator.validate: any approved Ground Truth that matches may come first.
Validations(g, own, seen, ids) ==
  LET matching == {t \in Approved : GoalMatches(g, t, ids)}
  IN  IF matching = {} THEN {PhaseA(own)}
      ELSE {PhaseB(t, Facts(own, seen), ids) : t \in matching}

-----------------------------------------------------------------------------
Idle == [pc |-> "idle"]
Locked == {"check", "write", "audit", "revalidate"}
Inside == {h \in Handlers : rq[h].pc \in Locked}

\* The repository comes with one approved Ground Truth; a console that was
\* killed may have left its lock file.
Init == /\ truth = [t \in Truths |-> IF t = "login" THEN "approved"
                                     ELSE "pending_sme_approval"]
        /\ audit = {}
        /\ report = NoReport
        /\ run = [r \in Runs |-> [pc |-> "new", shown |-> "none"]]
        /\ rq = [h \in Handlers |-> Idle]
        /\ lockFile \in BOOLEAN /\ unlocked = FALSE
        /\ viewed = {} /\ edits = 0 /\ ever = {"login"} /\ crossed = {}

Moved(h, rec) == rq' = [rq EXCEPT ![h] = rec]
Goes(h, label) == Moved(h, [rq[h] EXCEPT !.pc = label])

\* Bug: writeFile without the "wx" flag.
EntersShared(h) == lockFile' = TRUE /\ UNCHANGED unlocked

\* withFileLock: the lock file is created, or the 30 s have passed.
Enters(h) == \/ ~lockFile /\ lockFile' = TRUE /\ UNCHANGED unlocked
             \/ unlocked' = TRUE /\ UNCHANGED lockFile

\* Its `finally`: unlink, whoever's file it is, or a failure that is ignored.
Leaves(h) == /\ Moved(h, Idle)
             /\ lockFile' \in {FALSE, lockFile}
             /\ unlocked' = (unlocked /\ Inside # {h})

\* A mutateState that is over at once, with the lock or, after 30 s, without.
Briefly == /\ lockFile' \in BOOLEAN
           /\ unlocked' = ((unlocked \/ lockFile) /\ Inside # {})

\* run_existing_test: Playwright ends and leaves its report.
Plays(r) ==
  /\ run[r].pc = "new"
  /\ \E g \in Asked, own \in Outcomes :
       /\ run' = [run EXCEPT ![r] =
                    [pc |-> "played", goal |-> Goals[g], own |-> own, seen |-> NoReport,
                     signed |-> "none", shown |-> "none", review |-> FALSE, by |-> "none"]]
       /\ IF own.played
          THEN /\ report' = own.tests
               /\ crossed' = crossed \cup {q \in Runs : run[q].pc = "played" /\ run[q].own.played}
          ELSE UNCHANGED <<report, crossed>>
  /\ UNCHANGED <<truth, audit, rq, lock, viewed, edits, ever>>

\* _run_command reads the report file, and _observe_verify has an execution
\* that is ok validated.  The console stores the result; a GET that found the
\* run still running may hold the same result (bound: the last such GET).
Verifies(r) ==
  /\ run[r].pc = "played"
  /\ LET own  == run[r].own
         seen == IF own.played THEN report ELSE NoReport
     IN  \E v \in IF "ok" \in own.facts THEN Validations(run[r].goal, own, seen, seen.ids)
                  ELSE {Verdict("NEEDS_REVIEW", FALSE, "none")} :
           run' = [run EXCEPT ![r] =
                         [Judged(run[r], v) EXCEPT !.pc = "stored", !.seen = seen]]
  /\ viewed' \in {viewed, {r}}
  /\ Briefly
  /\ UNCHANGED <<truth, audit, report, rq, edits, ever, crossed>>

\* What the agent's result says of a stored run: who has signed for it found it
\* in need of a review.
AgentVerdict(rec) == IF rec.signed = "none" THEN Verdict(rec.shown, rec.review, rec.by)
                     ELSE ToReview

\* persistRunSnapshot puts the hydrated run in the place of what is stored.
Persists(r) ==
  /\ r \in viewed /\ viewed' = viewed \ {r}
  /\ run' = [run EXCEPT ![r] =
                [Judged(run[r], AgentVerdict(run[r])) EXCEPT !.signed = "none"]]
  /\ Briefly
  /\ UNCHANGED <<truth, audit, report, rq, edits, ever, crossed>>

-----------------------------------------------------------------------------
\* The reviewer in the console.

\* findPendingGroundTruthForRun: what the diagnostics name, or the console's own
\* matching, by words and by the first flow of the intent.
PendingFor(rec) ==
  IF rec.by # "none" /\ rec.by \notin Approved THEN {rec.by}
  ELSE {t \in Truths \ Approved : /\ rec.goal.first \in {"none", Flow(t)}
                                  /\ Words(t) \cap rec.goal.says # {}}

\* evaluateGroundTruthApprovalEligibility.
Eligible(rec, t) == /\ rec.pc = "stored"
                    /\ rec.shown = "NEEDS_REVIEW" /\ rec.review
                    /\ t \in PendingFor(rec)

Request(label, r, t, draft) == [pc |-> label, run |-> r, truth |-> t, draft |-> draft]

\* POST asks once on what it reads without the lock ...
Asks(h, r, t) ==
  /\ rq[h] = Idle /\ Eligible(run[r], t)
  /\ Moved(h, Request("ask", r, t, <<>>))
  /\ UNCHANGED <<truth, audit, report, run, lock, viewed, edits, ever, crossed>>

\* ... mutateState reads the runs that are stored ...
Reads(h) ==
  /\ rq[h].pc = "ask" /\ Enters(h)
  /\ LET stored == {r \in Runs : run[r].pc = "stored"}
     IN  Moved(h, Request("check", rq[h].run, rq[h].truth, [r \in stored |-> run[r]]))
  /\ UNCHANGED <<truth, audit, report, run, viewed, edits, ever, crossed>>

Draft(h) == rq[h].draft[rq[h].run]

\* ... and approveGroundTruthAndRevalidateRun asks again on that copy.
AsksAgain(h) ==
  /\ rq[h].pc = "check" /\ Eligible(Draft(h), rq[h].truth)
  /\ Goes(h, "write")
  /\ UNCHANGED <<truth, audit, report, run, lock, viewed, edits, ever, crossed>>

\* approveGroundTruthFile reads the file, refuses an approved one (Throws), and
\* writes it, over what others wrote since it was read.
Writes(h) ==
  /\ rq[h].pc = "write"
  /\ truth' = [truth EXCEPT ![rq[h].truth] = "approved"]
  /\ ever' = ever \cup {rq[h].truth}
  /\ Goes(h, "audit")
  /\ UNCHANGED <<audit, report, run, lock, viewed, edits, crossed>>

Audits(h) ==
  /\ rq[h].pc = "audit"
  /\ audit' = audit \cup {rq[h].truth}
  /\ Goes(h, "revalidate")
  /\ UNCHANGED <<truth, report, run, lock, viewed, edits, ever, crossed>>

\* revalidate_local_snapshot: the stored snapshot does not hold the state, and
\* with it not the executed tests.
Revalidations(rec) == Validations(rec.goal, rec.own, rec.seen, {})

\* applyRevalidationToRun: ground_truth.gt_id is what was signed, not what matched.
Applied(rec, v, t) == [Judged(rec, v) EXCEPT !.signed = t]

\* spawnRevalidation takes its time; then the copy, with all its runs, is what
\* is stored.
Revalidates(h) ==
  /\ rq[h].pc = "revalidate" /\ Leaves(h)
  /\ \E v \in Revalidations(Draft(h)) :
       run' = [r \in Runs |->
                 IF r = rq[h].run THEN Applied(Draft(h), v, rq[h].truth)
                 ELSE IF r \in DOMAIN rq[h].draft THEN rq[h].draft[r] ELSE run[r]]
  /\ UNCHANGED <<truth, audit, report, viewed, edits, ever, crossed>>

\* A check, a file or the process of the revalidation fails: nothing is stored,
\* and what was written before stays.
Throws(h) ==
  /\ rq[h].pc \in Locked /\ Leaves(h)
  /\ UNCHANGED <<truth, audit, report, run, viewed, edits, ever, crossed>>

\* The console is killed; its lock file stays.
ConsoleDies ==
  /\ \E h \in Handlers : rq[h] # Idle
  /\ rq' = [h \in Handlers |-> Idle] /\ viewed' = {} /\ unlocked' = FALSE
  /\ UNCHANGED <<truth, audit, report, run, lockFile, edits, ever, crossed>>

-----------------------------------------------------------------------------
\* approve-ground-truth.py writes the file whatever its status and whoever
\* else is at it; no run is validated again and nothing is put on record.
Script(t) ==
  /\ edits < MaxEdits /\ edits' = edits + 1
  /\ truth' = [truth EXCEPT ![t] = "approved"] /\ ever' = ever \cup {t}
  /\ UNCHANGED <<audit, report, run, rq, lock, viewed, crossed>>

\* Somebody takes a Ground Truth back to edit it.
Withdraw(t) ==
  /\ edits < MaxEdits /\ edits' = edits + 1
  /\ truth[t] = "approved" /\ truth' = [truth EXCEPT ![t] = "pending_sme_approval"]
  /\ UNCHANGED <<audit, report, run, rq, lock, viewed, ever, crossed>>

Handle(h) == \/ \E r \in Runs, t \in Truths : Asks(h, r, t)
             \/ Reads(h) \/ AsksAgain(h) \/ Writes(h) \/ Audits(h) \/ Revalidates(h)
             \/ Throws(h)

Next == \/ \E r \in Runs : Plays(r) \/ Verifies(r) \/ Persists(r)
        \/ \E h \in Handlers : Handle(h)
        \/ \E t \in Truths : Script(t) \/ Withdraw(t)
        \/ ConsoleDies

Spec == Init /\ [][Next]_vars

\* Runs, and handlers, can be told apart by name only.
Symmetry == Permutations(Runs) \cup Permutations(Handlers)

-----------------------------------------------------------------------------
\* What a PASS rests on: a Ground Truth somebody approved, whose expectations
\* hold of the run's own execution and of the report the run READ, and whose
\* flow is the one that report names - or, if the run was validated again, a
\* sign-off that is on record.  The report is the run's own, unless another run's
\* Playwright ended between its own and its reading (crossed).
Earned(rec, r) ==
  /\ rec.by \in ever
  /\ Expects(rec.by) \subseteq Facts(rec.own, rec.seen)
  /\ r \notin crossed => rec.seen = rec.own.tests
  /\ IF rec.signed # "none" THEN rec.signed \in audit
     ELSE Flow(rec.by) # "none" => rec.seen.ids \subseteq {Flow(rec.by)}

\* "Business outcome requires SME Ground Truth approval for PASS"
\* (validator.py:207): a run is PASS only by a Ground Truth somebody approved,
\* and by the report it read.  That this is another run's report, and the PASS
\* another run's, the code does not prevent (playwright_runner.py:497) and this
\* does not say.
PassIsEarned == \A r \in Runs : run[r].shown = "PASS" => Earned(run[r], r)

\* A run that Ground Truth has judged is not judged again, although two
\* reviewers may have found it in need of a review before - as long as nobody
\* has gone without the lock, after 30 s, at the requests that are inside
\* mutateState, and no GET is still to store the result it got while the run
\* was running.
JudgedStays ==
  [][\A r \in Runs \ viewed :
       run[r].shown \in {"PASS", "FAIL"} /\ ~unlocked => run'[r] = run[r]]_run
=============================================================================
