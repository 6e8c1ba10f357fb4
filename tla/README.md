# Verification of the QA testing agent

The repository is an agent that turns a QA goal in natural language into Playwright runs of an existing
application: a Python orchestrator (`src/services/qa-orchestrator`) that plans, executes, verifies and waits for
human approval, and a Next.js console (`src/apps/console`) that starts runs, shows them and lets people approve.
This directory holds TLA+ models of it, TLC configurations and TLAPS proofs.
Paths below are relative to `src/`; `Q/` stands for `services/qa-orchestrator/qa_orchestrator/`.

## 1. Inventory

| component | state it keeps | operations | correct when | module |
|---|---|---|---|---|
| atomic files, file locks `Q/fs_atomic.py`, `Q/agent_state_store.py` | `state.json` of a run, `.lock`, `.tmp.<pid>` | lock, save, mutate, load | one writer at a time, no lost update, readers see whole documents, locks come back unless a kill or a failing file operation leaves them | FileLock |
| console store `apps/console/lib/fs-atomic.ts`, `store.ts` | `state.json` (runs, history, settings), lock file | mutateState, readState, writeState | as above | ConsoleStore |
| classifier, resolver `Q/intent_classifier.py`, `flow_resolver.py` | none | classify, resolve | only known flows; untrusted primaries go to discovery | FlowSelection |
| planner `Q/qa_planner.py`, `planner_policy.py` | none | plan | executes only what the gate lets pass; blocks what policy blocks | FlowSelection |
| suite selector `Q/suite_selector.py`, `suite_commands.py` | none | select | commands for executable flows only | FlowSelection |
| decision engine, policy `Q/agent_decision_engine.py`, `agent_policy.py` | LLM proposal cache | decide, validate | an LLM never widens what the rules allow | AgentDecision |
| agent loop `Q/controlled_agent_loop.py`, `agent_executor.py` | AgentRunState | run, iterate, observe, recover, finalize | executes once, ends, reports what happened | AgentLoop |
| resume `Q/agent_resume.py` | snapshot, resume token | resume (gate, generation, healing) | re-validated, idempotent per token, settled runs stay settled | AgentLoop (what a resume does), AgentResume (requests) |
| validation `Q/validator.py`, `gt_eval.py`, `run_revalidation.py`, `apps/console/lib/ground-truth-approve.ts` | Ground Truth files, audit, the runs | validate, approve, revalidate | PASS only by an approved Ground Truth and the report that was read; one verdict | AgentLoop (outcomes), GroundTruth |
| execution gate, approvals `Q/execution_gate.py`, `bootstrap_approval.py`, `apps/console/lib/approval-store.ts` | status in a flow's YAML, approval log, index | evaluate, approve, reject, bootstrap | a rejection stays and one decision counts, while the lock is kept; both gates agree | Approvals; a predicate in FlowSelection, AgentLoop |
| Playwright runner `Q/playwright_runner.py` | the run it works for (one object for all), reports/results.json | set_run_context, run_selection | evidence goes to the run that produced it | LiveRun (context), GroundTruth (report) |
| healing `Q/healing_*.py` | proposals, overlays | attempt, approve, apply | only what an SME approved becomes an overlay | Healing, AgentResume |
| test generation `Q/generation_*.py`, `action_model.py`, `playwright_codegen.py` | drafts, journals | generate, check, save | what is offered was checked; what is sound is offered | TestGeneration |
| console runs `apps/console/app/api/runs/**`, `lib/active-run-lock.ts`, `agent-runner.ts` | the list of runs | POST, finishRun, reconcile, hydrate, resume | executed once; shows what an agent concluded; lock released | ConsoleRuns |
| warm server `scripts/local_agent_server.py`, `Q/warm_run_registry.py` | jobs in memory, results on disk, os.environ | accept, get, finish, restart | a run id starts at most once | ConsoleRuns, LiveRun |
| live browser `Q/live_browser_*.py`, `apps/automation/src/core/live-*.ts`, keeper | session.json, close.signal, event file, Chrome | launch, attach, emit, leave open, close | lines are delivered, a requested close happens | LiveRun |
| retrieval, exploration in the browser, reports, UI, suites, benchmarks | | | | not modelled |

How they interact: the console POSTs a goal, stores a run in its `state.json` under the lock and calls the warm
server; a thread there runs the agent loop, which calls classifier, planner and selector (each asks the execution
gate, at different times), then iterates over engine, policy and executor, and saves a snapshot at the end. If the
run waits for approval, an operator calls the console's resume route, which calls the warm server, which calls
`AgentResumeService.resume` on the snapshot. People change the gate at any time by editing or approving flows.

Hard to test: several threads, processes and servers share files; locks outlive killed processes; one lock expires;
the gate changes between its three readers; an LLM may answer anything; a run pauses and resumes any number of
times over stale state. `PROJECT.json` lists each hazard at its line with the properties that cover it, or why none does.

## 2. Plan

Done: AtomicStore, FileLock, ConsoleStore, FlowSelection and AgentDecision (pure), AgentLoop that composes the two,
AgentRun that says what a run looks like from outside, ConsoleRuns, Healing (pure) and AgentResume that uses it,
LiveRun, Approvals, TestGeneration, GroundTruth, all checked; proofs of the safety properties of all of them, and of the
refinements: both stores implement AtomicStore, the loop and the resumes implement AgentRun (section 6). What remains:
the operations of ConsoleRuns and AgentResume on their documents are single steps, and it is not checked that they
may be, by a refinement in which such a step is taken by AtomicStore.

## 3. Modules

**AtomicStore**: what callers of both stores are promised. A request ("mutate" or "save") is applied in one step or
dropped. `doc` is the set of changes the document contains.

**FileLock** translates `fs_atomic.py` and `agent_state_store.py`. A thread is at a label `pc[t]`; `lock` is the
creator of the lock file; `tmp[p]` is the temporary file named after process `p`, so threads of a process share it;
`Torn` marks a file that somebody is writing. `Acquire` is `os.open(O_CREAT|O_EXCL)`, `Busy` and `Timeout` the
polling loop, `Load` the read of `mutate_json_file`, `OpenTmp`/`WriteTmp`/`Replace` the write, `Fail` any exception,
`Release` the `finally`, whose `unlink` may fail and be passed over. `CreateRaises` is an exception between the creation
of the lock file and the `try`. `Crash` kills a process at any point; `left` remembers, for `LockReturned`, that a
failing file operation left the lock file there. Its data are the names of the threads whose changes
a document contains, which is what a lost update is about.

**ConsoleStore** translates `fs-atomic.ts` and `store.ts`. It differs: `Expire` enters the body without the lock,
`Release` removes anybody's lock file, `readState` takes no lock and writes a default (`WriteDefault`,
`ViewDefault`). `LongWaits` says whether a live holder may keep others waiting 30 s; `Crashes`, `FileErrors` (`CreateFails`, an
`unlink` that fails) and `FirstBoot` switch the environment. Without `LongWaits` a task still expires behind a lock file whose
holder is gone.

**AgentRun**: what the rest relies on about one run. It is worked on ("working"), waits, or has settled with a status; a
settled run is not taken up again, Playwright is started at most once over all invocations, and a run that was executed
does not wait any more. `AgentLoop!Life` maps a state to it: an invocation that is not done is work. The last clause
is true of this code only because healing, whose success would pause an executed run, is never attempted (section 4).

**FlowSelection** (pure): the *sets* of intents, resolutions, candidate lists and planning results that are possible
for a gate, and `Select`, the selector as a function. The wording of the goal, search results and the LLM's proposal
decide between members of a set, and each step of the code is one operator. `Classified` takes the LLM's answer
(`FromLlm`) or the keywords' (`FromWords`), prefers a flow the goal names if that is executable (`Named`) and otherwise
sends product questions to their flow, executable or not (`Routed`). `Resolutions` picks a primary flow (`Picked`) and
executes only if it can be trusted (`Decided`). `Plans` combines the early answers (`Mismatch`, `Discovery`) with
`Refined`: candidates, gate, coverage (`Sufficient`), policy (`Blocked`, `Risky`), `Strategy`, `Approval`, and the
`Contract` they make.

**AgentDecision** (pure): `Deterministic` is `_choose_action`, `Allowed` the actions offered to the LLM. The LLM answers
nothing or one of the `Proposals`; `Accepts` is the validation against the `Context`, `Resolve` what becomes of an
accepted or rejected one, `Decide` the set of final actions. `Permitted` is the policy.

**AgentLoop** extends both. `s` is AgentRunState (with plan and suite); `pc` says where the invocation is: "plan" and
"select" between the three reads of the gate, "loop" at the head of the iteration, the name of an action between the
engine's decision and the policy, "final" before `_finalize`, "apply" between validation and re-application of a
resume, "done". `ToggleGate` is everything people do to a flow. Two variables are there for the properties: `cleared`
(flows executable at some time of this invocation) and `starts` (Playwright starts).

**ConsoleRuns** translates the console's side of a run and the warm server's registry. `store[r]` is the run in
`state.json`; `w[r]` is the POST handler and then `finishRun`, whose label says before which write or call it is and
whose `copy` is the run object it will write over whatever is stored; `job`, `thr`, `out`, `disk` are the registry's
entry, thread, payload and result file, published in that order; `spawned[r]` is the process the console starts when
a server that answers does not know the run. `Reconciled` is `reconcileActiveRuns` with the probes answered or
not, `Says` what the result route of the server answers and `StateOf` what its state route does, `PostTaken` the answer to
the POST, which for a run the registry knows may be its result. `op[o]` is the resume route with its check before two awaits, `view` a page that hydrates a run and writes its copy
back. `earned[r]` (for the properties) collects what agents concluded. Not a step: the catch of `finishRun` around
`executeRun`, which never throws, and the resume route's branch for idempotent answers, which no answer reaches. A run
that failed while its conclusion is still WAITING_FOR_APPROVAL stays resumable, as in the code. A server restart in
the middle of a run makes the next poll answer 404, and then the console spawns a second execution: `StartsOnce` is
a promise of one life of the server.

**Healing** (pure) translates kinds of failure, policy, attempts and proposals, and the overlay store of Python and
of the Playwright side. **AgentResume** extends it: `rq[q]` is a request between load, validation, work and the three
writes (journal, snapshot, token); people decide on artifact and proposal meanwhile; another run's proposal may take
the same id; the server dies. Pauses for healing are in it although the shipped loop never comes to one (section 4):
tests and the resume code have them.

**LiveRun** translates the processes around a live browser: invocations sharing `environ` (the mode lives in
`os.environ`) and the runner's `context`; workers that launch or attach, take event numbers from the file, and close or
leave the browser; keepers; the close route. `odd` and `contested` record when a property's premise is broken.

**Approvals** translates both gates, the console's transition, the bootstrap script and what people do to file and
index. `rq[h]` is a request in its `withFileLock`: `Enters` creates the lock file or goes on without it, `Check` reads
the status, `Write` writes a text to `temp[f]`, which all requests of the console share, `Rename` installs what is there,
`Stamp`, `ReadLog` and `Append` put the decision on record, `Throws` leaves at any of these, and `Leaves` is the `finally`.
`ConsoleDies` leaves the lock files. `unlocked` holds the flows at which a busy request has no lock, and `crossed` those an
SME decided on while the script, or somebody without the lock, was at them; both are read by properties only.
**ApprovalsMC** gives the entries a flow has in the index. **TestGeneration** translates the way from a request to actions, to a text, which
is the record of what the checks can tell of it, to a file, which a compiler checks with all others, to a journal.
**GroundTruth** translates matching and validation, the shared report file, the console's approval with
revalidation on a copy of the state (`Reads` to `Revalidates`, with `Enters` and `Leaves` as above), a GET that stores the
agent's result over a run it found running (`viewed`, `Persists`), and the script.

**AgentLoopProofs**, **ConsoleRunsProofs**, **AgentResumeProofs**, **LiveRunProofs**, **ApprovalsProofs**,
**TestGenerationProofs**, **GroundTruthProofs**: theorems about the module in their name; **StoreProofs**: about FileLock
and, by an instance of it, ConsoleStore. Each begins with the inductive invariant, in named parts, and has one lemma
per action or group of actions.

Operators commented "Bug:" or "A slip" are not part of a model; each replaces one definition to show that a property notices.

## 4. Runs

| run | instance | shows |
|---|---|---|
| file_lock | 3 threads, 2 processes | exclusion, no lost update, refinement of AtomicStore although threads share a temporary file, bounded waiting, lock returned unless a kill or a file operation that fails leaves it |
| console_store_quiet | 3 tasks, no kill, no long wait | mutateState implements AtomicStore while nothing goes wrong |
| console_store_crash | 3 tasks, kills, file operations that fail, no file at first | every call ends; a stale lock goes |
| agent_racing | 2 flows, 2 iterations, LLM auto, gate changes at any time | at most one start; no start by the LLM alone; one-flow requests gated; status and conclusion agree; implements AgentRun |
| agent_calm | 2 flows, 2 iterations, LLM auto, gate changes between invocations | all modes but incident_multi_flow gated, first and resumed; invocations end |
| console_runs | 1 run, 1 operator, 2 tries, 2 faults (failed writes, kills of console and server) | the server starts a run once in its life; a bridged run is not executed again; no conclusion is made up; the lock on commands is released |
| agent_resume | 2 handlers, 3 requests, 2 tokens, 2 locators, 2 edits, 1 death | one at a time, an answered token is not worked on again, a repetition gets the same answer, a settled run stays; always, overlays are what an SME approved |
| live_run | 2 invocations, 2 runs, 1 event per worker and its LEAVE line, 1 fault | executions use their own run's files unless another one ran; the stream drops no line of a worker; a requested close closes |
| approvals | 1 flow with 4 kinds of entry, 2 decisions at a time, the script once, 1 edit, 3 s, kills | what was rejected does not run and one decision counts, but for the interleavings the properties name; both gates agree |
| generation | 2 agents, 2 generations, 3 flows, 1 death or timeout, every kind of request | an offered spec compiles and is checked; a sound one is offered |
| ground_truth | 2 runs, 2 goals, 2 reviewers, the 3 Ground Truths, 1 withdrawal or use of the script, kills; symmetric runs and reviewers | PASS is earned by the report that was read; a judged run is not judged again while the lock is kept and no GET holds an older result |

Bounds. Three threads in two processes are the least with both a shared and a separate temporary file and a third
party that interferes. Two flows are the least where a request can be partly blocked and where the primary differs
from the rest. Two iterations allow an exploration followed by a decision, and a resume with one iteration left; the
third recovery bound is `MaxRecoveries = 2`, the code's default. The gate is any Boolean function and toggles
without bound while it can matter; resumes are unbounded. In console_runs two faults are the least that use up both
tries of `finishRun` and reach its fallback, or kill the console and the server in one history; the code has five tries
and the others repeat these. One run suffices for its properties, which speak of each run alone; that another run may be
submitted beside one declared orphaned is `HasActiveRun` and not in the bounds. In agent_resume three requests are
the least with two at the same time and a repetition after them, two tokens tell a repetition from a new request.
In live_run two invocations are the least that compete for the runner; one event besides the one a worker leaves
with is enough for the server's counter to fall behind and to overtake. One kill is enough wherever the state after it
is an ordinary one. A generation of two agents needs one file in common and one that is not; the three flows are one
with page objects bound to it, one that only shares the prefix of such a flow, and one without authentication. Two
runs are the least that share a report; two reviewers the least that both find a run eligible. Of the goals, "item"
is worded like two Ground Truths while classifier and selector name different flows, and "sku" like one with a flow and
one without; "view" and "sanity" are left to the proofs, which are for any goals. A flow that is not on the index's list comes of `EditIndex`. With two workers the
largest runs are generation (9.9 million distinct states), agent_resume (8.9 million), approvals (7.1 million),
agent_racing (4.3 million) and ground_truth (3.1 million), each in less than three minutes.

What the properties do not say. Some have a premise that is the hazard itself where the code does go wrong, and they
show only that nothing else goes wrong; `PROJECT.json` says so at each hazard. `ImplementsAtomicStore` of the
console is about its quiet run; `AppliedOnce`, `ReplayAgrees`, `StartsBounded` and `SettledStays` about requests one at a
time; `OwnContext` about executions that are not `contested`; `RejectedStays` about flows not `crossed`, `DecidedOnce` about
flows not `unlocked`; `GatesAgree` about an index the server has loaded; `PendingIsChecked` about drafts not `crossed` and
`SoundIsOffered` about `clean` compilations; `JudgedStays` about runs not `viewed`, under the lock.

CHECK_DEADLOCK FALSE stands in every run whose instance is finite in what may happen: a finished run, or a spent bound
on requests, has no further step.

One run is expected to fail; `findings` quotes the text it stands against:

| run | what happens |
|---|---|
| agent_resume_once | a second request with the same token, sent while the first is at work, is worked on as well and starts Playwright again: the token is checked under the snapshot's lock, but saved at the end |

Seen while modelling, in the models as the code has it, and without a run of its own:

- A process of the orchestrator killed in the critical section leaves its lock file, and nothing removes it
  (`Q/fs_atomic.py:31`). A task of the console writes without the lock after 30 s (`lib/fs-atomic.ts:62`), although
  `docs/P10_2_RUNTIME_RELIABILITY_REPORT.md:40` speaks of a locked append to the approval log by console and script: the
  two use lock files of different names, and either may write over a record of the other.
- A lock file also stays when its creator's `os.write` or `os.close`, or the `unlink`, fails (`Q/fs_atomic.py:33`,
  `:47`): nothing removes the orchestrator's, and every later caller times out.
- Behind an artifact's lock file that a killed console left, or a request that takes longer than 30 s, two requests both go
  on without the lock, both find the file pending, and both decisions are taken (`lib/fs-atomic.ts:62`,
  `lib/approval-store.ts:329`). The file may then be approved though the latest record is a rejection, and as
  both use one temporary file (`lib/approval-store.ts:82`), one may even install the other's text. `DecidedOnce` and `RejectedStays` leave
  out just these flows.
- The bootstrap script approves a file that an SME rejects after the script has looked at it
  (`Q/bootstrap_approval.py:79`), which `RejectedStays` leaves out as well.
- An approval older than the 500 latest records counts as stale (`lib/approval-store.ts:102`).
- A run may PASS by another run's report: all runs leave theirs in one file, and a run that ends in between replaces it
  before it is read (`Q/playwright_runner.py:497`). `PassIsEarned` is about the report that was read.
- A judgement by Ground Truth can be lost or made twice: two reviewers behind a left lock file both go on without it, and
  so does one behind a revalidation that takes longer than 30 s (it has no timeout,
  `lib/ground-truth-approve.ts:134`); the later store then brings back all runs as it had read them. A GET that found the
  run running writes the agent's own verdict over it (`lib/run-get.ts:22`).
- The policy searches the reason of an action too (`Q/agent_policy.py:47`), which may hold the LLM's words or those
  about its rejected proposal: an action that should wait for approval is then blocked.
- The server's event numbers come from a counter under a thread lock (`Q/live_browser_events.py:66`), the workers' from the
  file, so two lines may have one number, although the same report (line 27) calls the numbering file-locked.
- incident_multi_flow runs a blocked flow beside an executable one (`Q/suite_selector.py:132`).
- Healing is never attempted: the engine is asked with status OBSERVING (`Q/controlled_agent_loop.py:272`). Were it
  asked with the status the run has, `ImplementsAgentRun` would fail: a healed run waits after its execution.
- A validated resume of a parameterized plan raises (`Q/agent_resume.py:264`), and the run waits as before. A resume
  may run a command an earlier resume built, for a flow revoked since (`Q/agent_resume.py:253`). The path of a
  generated spec is relative to another directory than the server's, so its fingerprint is never compared (`:226`).
- A destructive goal that the resolver sends to discovery is explored, not blocked (`Q/qa_planner.py:94`).
- The two gates differ about flows that the knowledge base does not describe or the catalog does not list, although
  `lib/approval-store.ts:159` says that one mirrors the other; `GatesAgree` is about the rest.
- A console killed between the YAML file and the log leaves an artifact that is APPROVED, stale for both gates, and
  cannot be approved again (`lib/approval-store.ts:340`).
- A failed check of a generated spec's wording stops nothing: the report looks for codes these checks do not use.
- Revalidation reads the agent's state from the stored snapshot (`Q/run_revalidation.py:65`), which never holds it
  (`Q/orchestrator.py:134`), so it forgets the executed tests and may PASS a run by a Ground Truth whose flow was not
  executed, which `Q/validator.py:264` rules out for a first validation. `PassIsEarned` therefore asks for
  the flow only of runs validated once.
- A Ground Truth without a flow, such as the login one, judges every goal with its word in it. One without the
  expectation `execution_ok` would pass a failed execution if such were verified.
- A Ground Truth stays approved when the revalidation it was approved for fails, and the run, for which nothing is
  pending any more, needs review for ever (`lib/ground-truth-approve.ts:250`).

## 5. Fairness

FileLock: weak fairness of each thread's steps. A running thread continues and its deadline comes
(`time.time() < deadline`); nobody is forced to call, crash or restart. No fairness *between* waiters is assumed:
`WaitEnds` holds because of the timeout. ConsoleStore: strong fairness per task, because the event loop serves every
task and a waiting task has a deadline. AgentLoop: weak fairness of the loop as a whole, which is sequential code;
not of the deadline, so that `InvocationsEnd` rests on the iteration bound, nor of anything people do. The planning
phase is a straight line of two steps and is left out of the fairness. ConsoleRuns: weak fairness of each handler and
each agent, whose waits all have timeouts, of time, and of somebody listing the runs now and then: reconciliation only
happens in a request (`GET` or `POST /api/runs`), and without one the lock would not be released. Operators need not
resume, and nobody needs to restart a server. LiveRun: weak fairness of workers and keepers, processes the operating
system schedules; not of the server's threads, of requests, nor of a Chrome that does not answer.

## 6. Proofs

Every theorem is for all values of the constants: any set of threads, flows, runs, agents, handlers, tokens or
locators, and any bound. The only assumptions are those the modules state in ASSUME, which TLC evaluates in the runs: bounds
are numbers, sentinels such as `NoFlow` or the token "none" are not members of the sets they are told apart from,
`WAITING_FOR_APPROVAL` is among the results. The histories that premises speak of (`crossed`, `contested`, `odd`,
`together`) are part of the statements, and the runs reach states with and without them.

| module | theorem | states |
|---|---|---|
| StoreProofs, FileLock | `Typing`, `LockIsExclusive`, `UpdatesAreKept`, `TmpIsOwn`, `LockRefinesStore` | `[]TypeOK`, `[]MutualExclusion`, `[]NoLostUpdate`, `[]OwnTmp`, `ImplementsAtomicStore` |
| StoreProofs, ConsoleStore | `ConsoleTyping`, `ConsoleRefinesStore` | `[]TypeOK`, and `ImplementsAtomicStore` if `Quiet` |
| AgentLoopProofs | `StartedOnce`, `StartedUnderReuse`, `ConclusionsFollow`, `TypeCorrect`, `SingleFlowsAreGated`, `CalmRunsAreGated`, `LoopRefinesRun`, `LlmStaysWithinRules` | `[]RunsOnce`, `[]RunsUnderReuse`, `[]ConclusionAgrees`, `[]TypeOK`, `SingleFlowGated`, `GatedUnlessIncident` for `~Racing`, `ImplementsAgentRun`; about `Decide` for any state |
| ConsoleRunsProofs | `TypeCorrect`, `AcceptsOnce`, `ConclusionsAreEarned`, `BridgedIsFinal` | `[]TypeOK`, `[]StartsOnce`, `[]ShownIsEarned`, `BridgedRunsOnce` |
| AgentResumeProofs | `TypeCorrect`, `OverlaysAreApproved`, `StartsAreBounded`, `TokensApplyOnce`, `RepetitionsAgree`, `SettledRunsStay`, `ResumesAreOneRun` | `[]TypeOK`, `[]OverlayWasApproved`, `[]StartsBounded`, `[]AppliedOnce`, `[]ReplayAgrees`, `SettledStays`; AgentRun while `Undisturbed` |
| LiveRunProofs | `TypeCorrect`, `ContextsAreOwn`, `BrowserLinesArrive` | `[]TypeOK`, `[]OwnContext`, `[]WorkerLinesSeen` |
| ApprovalsProofs | `RejectionStands`, `DecisionsAreTakenOnce`, `GatesGiveOneAnswer` | `[]RejectedStays`, `DecidedOnce`, `[]GatesAgree` |
| TestGenerationProofs | `OffersAreChecked`, `SoundDraftsAreOffered` | `[]PendingIsChecked`, `[]SoundIsOffered` |
| GroundTruthProofs | `EveryPassIsEarned`, `JudgementsStay` | `[]PassIsEarned`, `JudgedStays` |

Hardly one of these is inductive as it stands. The strengthenings, and why they are needed:

**FileLock.** `IInv` adds `HolderOwnsLock` (who is in the critical section created the lock file
that exists: at most one such thread, since `lock` is one value; a lock file that was left keeps everybody out), that the document is whole, which threads have a
pending request, and then the two data invariants, which hold since nobody but the holder writes `doc` or the
temporary file of its process. A kill keeps them, as it removes threads from the critical section and leaves files, and
so do failing operations on the lock file.

**ConsoleStore.** `ConsoleTyping` has no premise. The refinement has one, `Quiet`: no live holder is waited for 30 s
(`LongWaits`), nothing is killed (`Crashes`), no operation on the lock file fails (`FileErrors`), and `state.json` exists from
the start (`FirstBoot`). They are needed: TLC shows the lost update when a task expires behind a live holder, and when two expire behind the lock
file of a killed server, or one that could not be removed; without a `state.json` the promise about its contents has no beginning. `QuietLock` says that there is no lock file without a task in the body, that every task in
the body created the one there is, so that `Release` removes its own, and that what a writer read is still the document.

**AgentLoop.** `Remembers` adds that a start leaves an execution in the state, that no operation of the loop or of
a resume takes one away (lemmas `PhasePlanKeeps`, `FailedHasRun`, `ReappliedKeeps`), and that between decision and
policy a test is about to run only if nothing was executed (`RunIsOffered`: neither the rules nor the set offered to the
LLM contains it otherwise). `UnderReuse` adds that a first invocation comes into its loop only under REUSE_EXISTING:
a contract that is neither that nor BLOCK asks for approval (`PlansAreSound`), and `_phase_plan` then pauses
(`PhasePlanReuses`). `Agreeing` adds that a first invocation that is still to be finalized has no conclusion yet or the one
its status stands for, whichever of the ways out of the loop it takes.

The gating needs to know what is kept of a list. `Kept` is a recursive function, and the function it is recursive by is
shown to exist (`FilterExists`) and to return what it should (`KeptFacts`) by taking the smallest length for which it does
not, with the well-founded order of the numbers: an induction over the list for this one definition. `TypeInv` is the
domain of the whole state, together with the stage at which a contract or a draft is there. For `SingleFlowGated`,
`GateInv` adds that what is executable now was seen so (`Seen`), and that a first invocation for one flow enters its
loop with commands that were: one wanted flow is executable or not, and if not `select` clears the commands
(`WantedFacts`, `CommandFacts`). For `GatedUnlessIncident`, `CalmInv` has to carry a run over its pauses, between which people
do change the gate. It says that the flows of a contract are all or none of them executable (`Selects`: the planner
filters its candidates, or keeps all of them where none passes), and that a run which can be resumed without a draft is
about one of its candidates (`Homed`), so that `_resume_execution_gate`, which asks the gate for the candidates again,
finds at least the flow the resume was validated for and never leaves the old commands in place. In
incident_multi_flow related flows are merged in, and `Homed` is false.

`LoopRefinesRun` needs `LifeInv`: without an execution nothing is completed or failed, nor said to have passed or failed
(`Honest`: a resume may keep an older conclusion, so status and conclusion both count); what was executed, or
verified for a request that skips the execution, is past the loop; and a resume that raises leaves a run that waits. A
failed test ends in a review (`FailedIsReviewed`), since the engine never answers OBSERVING with a recovery
(`ObservingRecoversNothing`). With that, `Finalize` is the abstract run's wait or settlement, `RunTest` its start,
`Resume` its being taken up, and every other step is not seen.

**ConsoleRuns.** `Concluded` and `Registered` tie the registry together: a payload, a result file and a spawned process's
report hold what an agent concluded, and a run the registry does not know has not been started in this life of the
server; this is `StartsOnce`. `Behind` says of every copy a handler holds, and of a hydrated view, that it does
not claim a call of the agent that `state.json` does not know of, and that the record does not claim one before the
call: writes overwrite the whole run, so what matters is what the copies contain. `HonestInv` says that
a record, a copy, a view or an operator's answer shows a conclusion only if it is in `earned`, which never shrinks.

**AgentResume.** `Approvals` follows a locator from the proposal over the SME's approval (read and write are two
steps, and another run's proposal may take the id between them) to the overlay store. `Held` says for each place of a
request what its copy of the snapshot still has to do with the saved one. `OneAtATime` holds the promises about
repetitions: while no two requests were at work together, nothing is saved between a handler's load and its three writes, a
token that was applied is in the snapshot or in the hands of the one handler, and the starts of Playwright are counted by
faults and by what that handler may still start. `together` records the premise; without it the promises are
false, which the run agent_resume_once shows of the first. `ResumesAreOneRun` maps journal, snapshot and token to AgentRun as
long as the run is `Undisturbed`: requests come one at a time, nothing died, nothing was healed. The run is worked
on from the load of a waiting snapshot to the save of the next, and every step of a request is a step of AgentRun or is
not seen. A death would let it be started again, and a healing pauses a run that was executed. The
initial condition and the steps were also checked by TLC on the instance of agent_resume.

**LiveRun.** `Placed` relates the stages of invocation, worker and keeper; `Owned` says that an invocation past
`set_run_context` finds its own run in the shared runner, unless it is in `contested`. `Numbered` bounds the numbers in an
event file by its length, and the server's counter by the lines the server wrote; `Ordered` says that a worker's line has a
greater number than all before it, unless the server wrote between the worker's read and its write. The maximum in
`readMaxSequence` exists by lemma `GreatestExists`, proved with the well-founded order of the numbers.

**Approvals.** While nobody goes without the lock at a flow (`unlocked`), a busy request has the lock file and is the only
one (`Held`), whatever lock files were left; what an SME decided is not pending (`DecidedNotPending`), hence what
such a request found pending is undecided up to its rename (`WritesUndecided`), which installs its own text, although the
temporary file is shared (`TempOwn`). A rejection is in the file unless `crossed` (`RejectionWritten`): the script, which takes no
lock, writes only where it had looked before (`ScriptCrosses`), and a request that went without the lock crosses what it
decides.

**TestGeneration.** Between writing and journal the draft is the agent's own unless `crossed`; the verdict of the compiler
over all drafts is a verdict over this one, and a sound one was compiled and listed unless a tool failed or another draft
was in the way. Only then can one speak of the journals, whose drafts may have been replaced.

**GroundTruth.** `Copied` says what the lock gives: while nobody has gone without it (`unlocked`), there is one request
inside, the lock file is there, and the copy of the state it works on is what is stored, so that storing it changes the
run it judges and no other. The copies of requests without the lock may be old, and are stored as they are; a PASS they bring back
must have been earned, so `Sound` is said of stored runs (`AllSound`) and of every run in every copy (`DraftSound`).
`OwnReport` says that the report file is the one a run left until another run leaves its own (`crossed`). `PassIsEarned`
also needs that the validator says PASS only on the grounds of an approved truth (`ValidationsAreSound`), that a sign-off is in
the audit before the run is judged again, and that an approval which is withdrawn later is remembered (`Remembered`).

Only model-checked: liveness (`WaitEnds`, `LockReturned`, `CallsEnd`, `StaleLockGoes`, `InvocationsEnd`, `LockReleased`,
`CloseHonoured`), which is out of the prover's reach.

No module declares a RECURSIVE operator.

## 7. Abstractions and what is not modelled

- Texts, journals, diagnostics, metrics and reports; the planner's numeric confidence (it changes a decision only when
  nothing is executable, and then approval is required anyway).
- In the agent modules: the gate's computation (a predicate there), Ground Truth matching (any verdict that can come out).
  Exploration of a page: whether it happened.
- A run's kind of pause and its metadata key of the same name are one field. The contract's flow ids and the intent
  are forgotten after the selector, which is their last reader.
- The ENOENT of a temporary file is not told apart from a torn one. The Windows branches of `fs-atomic.ts` are left out.
- ConsoleRuns: a mutation of the state is one step (ConsoleStore looks inside); an agent is what it concludes. The run's
  instance has no agent that concludes BLOCKED, which `StatusFor` translates like the others.
- Healing: an overlay store is a set with at most one overlay per target, which is a locator label here; versions, hashes,
  revocation and the migration of old stores are left out, as are the texts from which a failure's kind is told.
- AgentResume: reads and writes of the snapshot are single steps (FileLock looks inside); the resumed loop is its starts
  and its conclusion (AgentLoop looks inside).
- LiveRun: one command per invocation; changes of session.json are single steps; a worker's LAUNCH line and the session
  becoming ACTIVE are one step, as are the reads of `_prepare_live_subprocess_env`; EA_BASE_URL is set; headless mode,
  channel and delays are left out; LIVE also stands for LIVE_DEMO; a keeper that cannot be spawned is left out; a stream is the lines one read delivers.
- ConsoleStore: a temporary file has the process and the millisecond in its name, so writing it and renaming it is one step.
- Approvals: one artifact of one flow; status and text of a file are read in one step; the script's read and write of the
  YAML are one step, and so are the two reads of the status and the gate's in `_validate_bootstrap_candidate`
  (`Q/bootstrap_approval.py:125`, `:131`) and, in `append_approval_record`, dating, waiting for the log's lock and
  reading; the status the caller reads again (`:174`) is `BootLooksAgain`. The 30 s of a wait are not put on the clock; the
  locks of the log are not modelled, since each may be gone without or is of another name: any two appends may
  overlap. Time is in seconds; the cap of the log drops the record of any flow at any append.
- TestGeneration: texts are what the checks tell of them; strong and moderate assertions are one kind; the files written
  beside a spec are left out. The shipped loop generates without an exploration's evidence; the requests here have it or not.
- GroundTruth: a mutation of the state by an agent's result or a GET is one step, at once with the lock or without;
  only the last GET that found a run running is kept. Of `finishRun` and reconciliation only that the result is stored
  (ConsoleRuns has the rest). The repository's three files, with the words that occur in its goals; any file may be found first; one
  command per run; a file read while it is being written counts as not approved; `validator.py`'s messages and the
  diagnosis of a failed match are left out, and so are errors of executions that are not verified.
- Retrieval, reporting, benchmarks, the user interface and the Playwright suites: I/O, ranking or
  rendering, without control that a property could tell apart.
