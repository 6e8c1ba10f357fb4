----------------------------- MODULE ConsoleRuns -----------------------------
(***************************************************************************)
(* Runs as the console sees them (api/runs/route.ts, active-run-lock.ts,   *)
(* agent-runner.ts, the resume route, run-get.ts) and the agents that      *)
(* execute them: threads of the warm server behind WarmRunRegistry, and    *)
(* processes the console spawns when the server does not know the run.     *)
(* mutateState is one step here (module ConsoleStore looks inside it); the *)
(* agents themselves are module AgentLoop, here only what they answer.     *)
(***************************************************************************)
EXTENDS Naturals, FiniteSets

CONSTANTS Runs,      \* ids of the runs people submit
          Operators, \* people who approve a waiting run, once each
          Results,   \* conclusions an agent may reach
          MaxTries,  \* length of backoffMs in finishRun
          MaxFaults  \* bound: failed writes, kills and restarts together

ASSUME ResultsAssumption ==
  Results \subseteq {"PASS", "FAIL", "BLOCKED", "NEEDS_REVIEW", "WAITING_FOR_APPROVAL"}
ASSUME BoundsAssumption == MaxTries \in Nat \ {0} /\ MaxFaults \in Nat

VARIABLES store,   \* store[r]: the run in state.json
          age,     \* age[r]: 0, past the grace of a missing agent, past 30 s
          idle,    \* idle[r]: not updated for ACTIVE_EXECUTION_STALE_MS
          w,       \* w[r]: the POST /api/runs handler, then its finishRun
          up,      \* is the warm server up?
          job,     \* job[r]: the registry's status of r
          thr,     \* thr[r]: the registry's thread for r
          out,     \* out[r]: conclusion of the payload of job r
          disk,    \* disk[r]: conclusion in orchestrator_result.json
          snap,    \* snap[r]: final_result in state.json of the agent
          applied, \* applied[r]: has the snapshot's resume token been used?
          spawned, \* spawned[r]: the spawned process for r
          op,      \* op[o]: a POST /api/runs/[id]/resume handler
          view,    \* the GET /api/runs/[id] handler
          starts,  \* starts[r]: _start_counts of the registry
          earned,  \* earned[r]: conclusions agents reached for r
          faults   \* faults so far

server == <<up, job, thr, out, disk, starts>>
agents == <<server, snap, applied, spawned, earned>>
times  == <<age, idle>>
vars   == <<store, times, w, agents, op, view, faults>>

Waiting     == "WAITING_FOR_APPROVAL"
Conclusions == {"none", "PASS", "FAIL", "BLOCKED", "NEEDS_REVIEW", "UNKNOWN",
                Waiting}
Active      == {"queued", "running", "resuming"}
Statuses    == Active \cup {"none", "waiting_approval", "completed", "failed",
                            "blocked", "needs_review"}
Records == [status : Statuses, conc : Conclusions, bridged : BOOLEAN,
            agent : BOOLEAN]
NoRun   == [status |-> "none", conc |-> "none", bridged |-> FALSE,
            agent |-> FALSE]

Idle == [pc |-> "idle"]
WorkerLabels == {"new", "gated", "refused", "load", "start", "plan", "post",
                 "poll", "probe", "repoll", "spawn", "bridge", "report",
                 "abort", "persist", "fallback", "done", "lost"}

\* Every variable stays in its domain, and what is on disk or in a payload is
\* something an agent concluded.
TypeOK ==
  /\ store \in [Runs -> Records]
  /\ age \in [Runs -> 0 .. 2] /\ idle \in [Runs -> BOOLEAN]
  /\ \A r \in Runs : /\ w[r].pc \in WorkerLabels
                     /\ w[r].tries \in 0 .. MaxTries
                     /\ w[r].copy \in Records
                     /\ w[r].out \in Results \cup {"none", "error"}
                     /\ {out[r], disk[r]} \subseteq earned[r] \cup {"none"}
                     /\ job[r] = "running" => thr[r] \in {"run", "saved"}
  /\ up \in BOOLEAN
  /\ job \in [Runs -> {"none", "running", "completed", "failed"}]
  /\ thr \in [Runs -> {"none", "run", "saved", "finished"}]
  /\ snap \in [Runs -> Results \cup {"none", "NEEDS_REVIEW"}]
  /\ spawned \in [Runs -> {"none", "run"} \cup Results]
  /\ starts \in [Runs -> Nat]
  /\ faults \in 0 .. MaxFaults

Init == /\ store = [r \in Runs |-> NoRun]
        /\ age = [r \in Runs |-> 0] /\ idle = [r \in Runs |-> FALSE]
        /\ w = [r \in Runs |-> [pc |-> "new", tries |-> 0, copy |-> NoRun,
                                out |-> "none"]]
        /\ up = TRUE
        /\ job = [r \in Runs |-> "none"] /\ thr = [r \in Runs |-> "none"]
        /\ out = [r \in Runs |-> "none"] /\ disk = [r \in Runs |-> "none"]
        /\ snap = [r \in Runs |-> "none"]
        /\ applied = [r \in Runs |-> FALSE]
        /\ spawned = [r \in Runs |-> "none"]
        /\ op = [o \in Operators |-> Idle] /\ view = Idle
        /\ starts = [r \in Runs |-> 0] /\ earned = [r \in Runs |-> {}]
        /\ faults = 0

-----------------------------------------------------------------------------
IsActive(rec) == rec.status \in Active
HasActiveRun(s) == \E r \in Runs : IsActive(s[r])

\* mapConclusionToRunStatus
StatusFor(conc) == CASE conc = Waiting        -> "waiting_approval"
                     [] conc = "FAIL"         -> "failed"
                     [] conc = "BLOCKED"      -> "blocked"
                     [] conc = "NEEDS_REVIEW" -> "needs_review"
                     [] OTHER                 -> "completed"

\* applyOrchestratorResultToRun
Apply(rec, conc) == [rec EXCEPT !.conc = conc, !.status = StatusFor(conc),
                                !.agent = TRUE]

\* failActiveRun: a conclusion the run already has stays.
FailRun(rec) == [rec EXCEPT !.status = "failed",
                            !.conc = IF @ = "none" THEN "FAIL" ELSE @]

\* GET /agent/{id}: there is no snapshot while the first invocation executes,
\* and a saved one is terminal or waiting.
StateOf(r) == IF snap[r] = "none" THEN "missing" ELSE "terminal"

\* As reconciliation asks it: answered if the server is up and quick, and
\* never "active".
ProbeOf(r, quick) == IF ~up \/ r \notin quick THEN "unreachable"
                     ELSE StateOf(r)

\* Bug: a run the agent does not know is left alone.
ReconciledNotMissing(r, quick) ==
  LET rec == store[r]
  IN  IF ~IsActive(rec) THEN rec
      ELSE IF rec.status = "queued" /\ age[r] = 2 THEN FailRun(rec)
      ELSE IF ProbeOf(r, quick) = "terminal"
      THEN [rec EXCEPT !.conc = snap[r], !.status = StatusFor(snap[r])]
      ELSE rec

\* reconcileActiveRuns, for one run.
Reconciled(r, quick) ==
  LET rec   == store[r]
      probe == ProbeOf(r, quick)
      lost  == \/ rec.status = "queued" /\ age[r] = 2
               \/ probe = "missing" /\ age[r] >= 1
               \/ probe = "unreachable" /\ idle[r]
  IN  IF ~IsActive(rec) THEN rec
      ELSE IF lost THEN FailRun(rec)
      ELSE IF probe = "terminal"
      THEN [rec EXCEPT !.conc = snap[r], !.status = StatusFor(snap[r])]
      ELSE rec

Reconcile(quick) ==
  /\ store' = [r \in Runs |-> Reconciled(r, quick)]
  /\ idle' = [r \in Runs |-> idle[r] /\ store'[r] = store[r]]
  /\ UNCHANGED age

-----------------------------------------------------------------------------
\* Writes to state.json: what runs[i] becomes, and that it is fresh.
Write(r, rec) == /\ store' = [store EXCEPT ![r] = rec]
                 /\ idle' = [idle EXCEPT ![r] = FALSE]
                 /\ UNCHANGED <<age, faults>>
WriteFails == /\ faults < MaxFaults
              /\ faults' = faults + 1
              /\ UNCHANGED <<store, times>>

Step(r, label) == w' = [w EXCEPT ![r].pc = label]
Hold(r, label, rec) == w' = [w EXCEPT ![r].pc = label, ![r].copy = rec]
Got(r, label, what) == w' = [w EXCEPT ![r].pc = label, ![r].out = what]
Others == UNCHANGED <<agents, op, view>>

\* GET /api/runs: any page that lists the runs.
List == /\ \E quick \in SUBSET Runs : Reconcile(quick)
        /\ UNCHANGED <<w, agents, op, view, faults>>

\* POST /api/runs, up to its check.
Gate(r) == /\ w[r].pc = "new"
           /\ \E quick \in SUBSET Runs : Reconcile(quick)
           /\ Step(r, IF HasActiveRun(store') THEN "refused" ELSE "gated")
           /\ Others /\ UNCHANGED faults

Queued == [NoRun EXCEPT !.status = "queued"]

\* The mutation checks again; an id is only given when it passes.
Create(r) == /\ w[r].pc = "gated"
             /\ IF HasActiveRun(store)
                THEN Step(r, "refused") /\ UNCHANGED <<store, times, faults>>
                ELSE Step(r, "load") /\ Write(r, Queued)
             /\ Others

-----------------------------------------------------------------------------
\* finishRun.  shouldSkipDuplicateOrchestration
SkipDuplicateNever(rec) == FALSE
SkipDuplicate(rec) == rec.bridged

\* The catch of finishRun's loop: wait and try again, or give up.
Retry(r) == /\ WriteFails
            /\ w' = [w EXCEPT ![r].tries = @ + 1,
                              ![r].pc = IF w[r].tries + 1 < MaxTries
                                        THEN "load" ELSE "fallback"]

Load(r) ==
  /\ w[r].pc = "load"
  /\ \/ /\ Hold(r, IF SkipDuplicate(store[r]) THEN "persist" ELSE "start",
                store[r])
        /\ UNCHANGED <<store, times, faults>>
     \/ Retry(r)
  /\ Others

\* One onUpdate of executeRun: the whole run is overwritten; when the write
\* fails, executeRun's catch takes over.
Update(r, rec, next) == /\ \/ Write(r, rec) /\ Hold(r, next, rec)
                           \/ WriteFails /\ Hold(r, "abort", rec)
                        /\ Others

Start(r) == /\ w[r].pc = "start"
            /\ Update(r, [w[r].copy EXCEPT !.status = "running"], "plan")

\* The progress messages up to the call of the agent.
Plan(r) == w[r].pc = "plan" /\ Update(r, w[r].copy, "post")

Bridge(r) == /\ w[r].pc = "bridge"
             /\ Update(r, [w[r].copy EXCEPT !.bridged = TRUE], "report")

\* Bug: the fallback leaves the status to the conclusion.
OutcomeMapped(rec, what) == Apply(rec, IF what = "error" THEN "UNKNOWN" ELSE what)

\* What executeRun makes of the agent's answer.
Outcome(rec, what) ==
  IF what = "error" THEN [rec EXCEPT !.conc = "UNKNOWN", !.status = "failed"]
  ELSE Apply(rec, what)

\* The report and its updates: the run is settled, so a failed write only
\* means that nobody sees it yet.
Report(r) == /\ w[r].pc = "report"
             /\ LET rec == Outcome(w[r].copy, w[r].out)
                IN  /\ Write(r, rec) \/ WriteFails
                    /\ Hold(r, "persist", rec)
             /\ Others

\* executeRun's catch.
Abort(r) == /\ w[r].pc = "abort"
            /\ LET rec == IF IsActive(w[r].copy) THEN FailRun(w[r].copy)
                          ELSE w[r].copy
               IN  /\ Write(r, rec) \/ WriteFails
                   /\ Hold(r, "persist", rec)
            /\ Others

Persist(r) == /\ w[r].pc = "persist"
              /\ \/ Write(r, w[r].copy) /\ Step(r, "done")
                 \/ Retry(r)
              /\ Others

\* After the last retry: fail the run if it still looks active.
Fallback(r) ==
  /\ w[r].pc = "fallback"
  /\ Step(r, "done")
  /\ \/ Write(r, IF store[r].status \in {"running", "queued"}
                 THEN [store[r] EXCEPT !.status = "failed", !.conc = "FAIL"]
                 ELSE store[r])
     \/ WriteFails
  /\ Others
-----------------------------------------------------------------------------
\* What GET /agent/{id}/result answers: a job, or the payload on disk.
Answer(r) == IF job[r] # "none" THEN job[r]
             ELSE IF disk[r] # "none" THEN "completed" ELSE "missing"
Payload(r) == IF job[r] = "completed" THEN out[r] ELSE disk[r]

\* do_GET: the server, asked for the result, gives one of these answers.
Says(r, answers) == up /\ Answer(r) \in answers

\* WarmRunRegistry.accept: start a thread unless the run is known.
AcceptAgain(r) == /\ job' = [job EXCEPT ![r] = "running"]
                  /\ thr' = [thr EXCEPT ![r] = "run"]
                  /\ starts' = [starts EXCEPT ![r] = @ + 1]
                  /\ UNCHANGED <<up, out, disk>>
Accept(r) == /\ Answer(r) = "missing"
             /\ job' = [job EXCEPT ![r] = "running"]
             /\ thr' = [thr EXCEPT ![r] = "run"]
             /\ starts' = [starts EXCEPT ![r] = @ + 1]
             /\ UNCHANGED <<up, out, disk>>

Client == UNCHANGED <<store, times, faults, op, view>>
Calm == UNCHANGED <<snap, applied, spawned, earned>>

\* accept_run_async: the server starts the run or knows it.
Accepted(r) == Accept(r) \/ (Answer(r) # "missing" /\ UNCHANGED server)

\* postWarmAgentRun.  A run that is completed or failed is answered as such; of
\* any other, and when the answer is lost, the console polls the result.
PostTaken(r) == /\ w[r].pc = "post" /\ up
                /\ Accepted(r)
                /\ \/ Step(r, "poll")
                   \/ /\ Answer(r) = "completed"
                      /\ Got(r, "bridge", Payload(r))
                   \/ Answer(r) = "failed" /\ Step(r, "probe")
                /\ Client /\ Calm

\* The connection fails: poll, as if the request had arrived.
PostLost(r) == /\ w[r].pc = "post" /\ ~up
               /\ Step(r, "poll")
               /\ Client /\ UNCHANGED agents

\* Too many requests (429), or any other answer but 2xx.
PostRejected(r) == /\ w[r].pc = "post" /\ up
                   /\ Step(r, "probe")
                   /\ Client /\ UNCHANGED agents

\* pollWarmAgentRunResult: answered, or 120 s passed.
Poll(r) == /\ w[r].pc = "poll"
           /\ \/ /\ Says(r, {"completed"})
                 /\ Got(r, "bridge", Payload(r))
              \/ /\ Says(r, {"failed", "missing"})
                 /\ Step(r, "probe")
              \/ Step(r, "probe")
           /\ Client /\ UNCHANGED agents

\* probeWarmAgentRun: only a server that says it does not know the run lets
\* the console spawn one.
Probe(r) == /\ w[r].pc = "probe"
            /\ \/ /\ Says(r, {"missing"})
                  /\ Step(r, "spawn")
                  /\ spawned' = [spawned EXCEPT ![r] = "run"]
               \/ /\ Says(r, {"running", "completed", "failed"})
                  /\ Step(r, "repoll") /\ UNCHANGED spawned
               \/ /\ Got(r, "bridge", "error") /\ UNCHANGED spawned
            /\ Client /\ UNCHANGED <<server, snap, applied, earned>>

\* recoverWarmAgentResult
Repoll(r) == /\ w[r].pc = "repoll"
             /\ \/ /\ Says(r, {"completed"})
                   /\ Got(r, "bridge", Payload(r))
                \/ Got(r, "bridge", "error")
             /\ Client /\ UNCHANGED agents

-----------------------------------------------------------------------------
\* The agents.  The loop saves its snapshot when it finalizes ...
Conclude(r, res) == /\ snap' = [snap EXCEPT ![r] = res]
                    /\ applied' = [applied EXCEPT ![r] = FALSE]
                    /\ earned' = [earned EXCEPT ![r] = @ \cup {res}]
Console == UNCHANGED <<store, times, w, op, view, faults>>

\* QaOrchestrator.run, to_agent_payload: the payload of a run carries the
\* conclusion of the loop, which overwrites the validator's.
PayloadOf(conc) == conc

ThreadSaves(r) ==
  /\ thr[r] = "run"
  /\ \E res \in Results : /\ Conclude(r, res)
                          /\ out' = [out EXCEPT ![r] = PayloadOf(res)]
  /\ thr' = [thr EXCEPT ![r] = "saved"]
  /\ Console /\ UNCHANGED <<up, job, disk, starts, spawned>>

\* ... _finish publishes the payload in memory, then on disk.
ThreadFinishes(r) == /\ thr[r] = "saved"
                     /\ job' = [job EXCEPT ![r] = "completed"]
                     /\ thr' = [thr EXCEPT ![r] = "finished"]
                     /\ Console /\ Calm /\ UNCHANGED <<up, out, disk, starts>>
ThreadStores(r) == /\ thr[r] = "finished"
                   /\ disk' = [disk EXCEPT ![r] = out[r]]
                   /\ thr' = [thr EXCEPT ![r] = "none"]
                   /\ Console /\ Calm /\ UNCHANGED <<up, job, out, starts>>

\* Bug: an exception ends the thread without _finish.
ThreadFailsSilently(r) == /\ thr[r] \in {"run", "saved"}
                          /\ thr' = [thr EXCEPT ![r] = "none"]
                          /\ Console /\ Calm
                          /\ UNCHANGED <<up, job, out, disk, starts>>

\* The worker raises: before the snapshot, or on the report after it, or _finish
\* does, which cannot write the payload to disk.
ThreadFails(r) == /\ thr[r] \in {"run", "saved", "finished"}
                  /\ job' = [job EXCEPT ![r] = "failed"]
                  /\ thr' = [thr EXCEPT ![r] = "none"]
                  /\ Console /\ Calm /\ UNCHANGED <<up, out, disk, starts>>

SpawnSaves(r) == /\ spawned[r] = "run"
                 /\ \E res \in Results :
                      /\ Conclude(r, res)
                      /\ spawned' = [spawned EXCEPT ![r] = PayloadOf(res)]
                 /\ Console /\ UNCHANGED server

\* The process ends: its report reaches the console if that still waits.
\* It may also fail, and the console kills it after 120 s.
SpawnEnds(r) ==
  /\ spawned[r] # "none"
  /\ spawned' = [spawned EXCEPT ![r] = "none"]
  /\ \E what \in (IF spawned[r] = "run" THEN {} ELSE {spawned[r]})
                   \cup {"error"} :
       IF w[r].pc = "spawn" THEN Got(r, "bridge", what) ELSE UNCHANGED w
  /\ UNCHANGED <<store, times, op, view, faults, server, snap, applied, earned>>

-----------------------------------------------------------------------------
\* POST /api/runs/[id]/resume.  The check reads state.json without the lock.
Resumable(rec) == rec.status = "waiting_approval" \/ rec.conc = Waiting

Operate(o, rec) == op' = [op EXCEPT ![o] = rec]

ResumeChecks(o) ==
  /\ op[o] = Idle
  /\ \E r \in Runs : Resumable(store[r]) /\ Operate(o, [pc |-> "seen", run |-> r])
  /\ UNCHANGED <<store, times, w, agents, view, faults>>

ResumeBegins(o) ==
  /\ op[o].pc = "seen"
  /\ LET r == op[o].run
     IN  Write(r, [store[r] EXCEPT !.status = "resuming"])
  /\ Operate(o, [op[o] EXCEPT !.pc = "sent"])
  /\ UNCHANGED <<w, agents, view>>

\* AgentResumeService.resume, one request at a time: an applied token gets
\* the saved state again, a waiting run is taken up, another is refused.
\* What a paused run reports is the validator's word on an execution that
\* did not happen, never that it waits (to_orchestrator_result).
Reported(conc) == IF conc = Waiting THEN {"NEEDS_REVIEW", "FAIL"} ELSE {conc}

Answered(o, what) ==
  Operate(o, [pc |-> "answered", run |-> op[o].run, reply |-> what])

ResumeServed(o) ==
  /\ op[o].pc = "sent" /\ up
  /\ LET r == op[o].run
     IN  IF snap[r] # "none" /\ applied[r]
         THEN \E c \in Reported(snap[r]) : Answered(o, c)
         ELSE IF snap[r] # Waiting
         THEN Answered(o, "rejected")
         ELSE Operate(o, [op[o] EXCEPT !.pc = "applying"])
  /\ UNCHANGED <<store, times, w, agents, view, faults>>

\* The validation fails, the resumed loop ends or raises, or the server dies.
ResumeEnds(o) ==
  /\ op[o].pc = "applying"
  /\ LET r == op[o].run
     IN  \/ /\ snap' = [snap EXCEPT ![r] = "NEEDS_REVIEW"]
            /\ earned' = [earned EXCEPT ![r] = @ \cup {"NEEDS_REVIEW"}]
            /\ \E c \in Reported(Waiting) : Answered(o, c)
            /\ UNCHANGED applied
         \/ \E res \in Results :
              /\ snap' = [snap EXCEPT ![r] = res]
              /\ applied' = [applied EXCEPT ![r] = TRUE]
              /\ earned' = [earned EXCEPT ![r] = @ \cup {res}]
              /\ \E c \in Reported(res) : Answered(o, c)
         \/ Answered(o, "rejected") /\ UNCHANGED <<snap, applied, earned>>
  /\ UNCHANGED <<store, times, w, server, spawned, view, faults>>

\* No answer within 300 s or at all: the run waits again, whatever the agent
\* goes on to do.
ResumeLost(o) ==
  /\ op[o].pc \in {"sent", "applying"}
  /\ store' = [store EXCEPT ![op[o].run].status = "waiting_approval"]
  /\ Operate(o, [pc |-> "done"])
  /\ UNCHANGED <<times, w, agents, view, faults>>

\* The route's last mutation; a refusal leaves the conclusion as it is.
ResumeReplies(o) ==
  /\ op[o].pc = "answered"
  /\ LET r == op[o].run
     IN  IF op[o].reply = "rejected"
         THEN /\ store' = [store EXCEPT ![r].status = "waiting_approval"]
              /\ UNCHANGED <<times, faults>>
         ELSE Write(r, Apply(store[r], op[o].reply))
  /\ Operate(o, [pc |-> "done"])
  /\ UNCHANGED <<w, agents, view>>

-----------------------------------------------------------------------------
\* GET /api/runs/[id]: a run without the agent's answer is completed from
\* the registry, and the copy is written over whatever is there by then.
NeedsHydration(rec) == ~rec.agent /\ rec.status \in {"running", "failed"}

ViewReads == /\ view = Idle
             /\ \E r \in Runs :
                  /\ NeedsHydration(store[r])
                  /\ Says(r, {"completed"})
                  /\ view' = [pc |-> "read", run |-> r,
                              copy |-> Apply(store[r], Payload(r))]
             /\ UNCHANGED <<store, times, w, agents, op, faults>>
ViewPersists == /\ view.pc = "read"
                /\ Write(view.run, view.copy)
                /\ view' = Idle
                /\ UNCHANGED <<w, agents, op>>

-----------------------------------------------------------------------------
\* Time passes for a run that is active.
Tick(r) == /\ IsActive(store[r])
           /\ \/ age[r] < 2 /\ age' = [age EXCEPT ![r] = @ + 1]
                 /\ UNCHANGED idle
              \/ age[r] = 2 /\ ~idle[r] /\ idle' = [idle EXCEPT ![r] = TRUE]
                 /\ UNCHANGED age
           /\ UNCHANGED <<store, w, agents, op, view, faults>>

Fault == faults < MaxFaults /\ faults' = faults + 1

\* The console is restarted: its handlers are gone, spawned processes not.
ConsoleDies ==
  /\ Fault
  /\ w' = [r \in Runs |-> IF w[r].pc \in {"refused", "done"} THEN w[r]
                          ELSE [w[r] EXCEPT !.pc = "lost"]]
  /\ op' = [o \in Operators |-> IF op[o] = Idle THEN Idle ELSE [pc |-> "done"]]
  /\ view' = Idle
  /\ UNCHANGED <<store, times, agents>>

\* The warm server dies, and comes back with what is on disk.
ServerDies ==
  /\ Fault /\ up
  /\ up' = FALSE
  /\ job' = [r \in Runs |-> "none"] /\ thr' = [r \in Runs |-> "none"]
  /\ out' = [r \in Runs |-> "none"] /\ starts' = [r \in Runs |-> 0]
  /\ op' = [o \in Operators |-> IF op[o].pc # "applying" THEN op[o]
                               ELSE [pc |-> "answered", run |-> op[o].run,
                                     reply |-> "rejected"]]
  /\ UNCHANGED <<store, times, w, disk, snap, applied, spawned, earned, view>>
ServerBoots == /\ ~up
               /\ up' = TRUE
               /\ Console /\ Calm /\ UNCHANGED <<job, thr, out, disk, starts>>

-----------------------------------------------------------------------------
Worker(r) == \/ Load(r) \/ Start(r) \/ Plan(r) \/ Bridge(r) \/ Report(r)
             \/ Abort(r) \/ Persist(r) \/ Fallback(r)
             \/ PostTaken(r) \/ PostLost(r) \/ PostRejected(r)
             \/ Poll(r) \/ Probe(r) \/ Repoll(r)
Submit(r) == Gate(r) \/ Create(r)
Agent(r)  == \/ ThreadSaves(r) \/ ThreadFinishes(r) \/ ThreadStores(r)
             \/ ThreadFails(r) \/ SpawnSaves(r) \/ SpawnEnds(r)
Resume(o) == \/ ResumeChecks(o) \/ ResumeBegins(o) \/ ResumeServed(o)
             \/ ResumeEnds(o) \/ ResumeLost(o) \/ ResumeReplies(o)

Next == \/ List \/ ViewReads \/ ViewPersists
        \/ \E r \in Runs : Submit(r) \/ Worker(r) \/ Agent(r) \/ Tick(r)
        \/ \E o \in Operators : Resume(o)
        \/ ConsoleDies \/ ServerDies \/ ServerBoots

\* Somebody looks at the list of runs now and then, the console's handlers
\* and the agents run on (each wait has a timeout), and time passes.
Fairness == /\ WF_vars(List)
            /\ \A r \in Runs : WF_vars(Worker(r)) /\ WF_vars(Agent(r))
                                 /\ WF_vars(Tick(r))
            /\ WF_vars(ViewPersists)

Spec == Init /\ [][Next]_vars /\ Fairness

-----------------------------------------------------------------------------
\* The server starts a run at most once while it is up, whatever finishRun
\* retries, recovers or loses.
StartsOnce == \A r \in Runs : starts[r] <= 1

\* Once state.json records that the orchestrator was called for a run, no
\* retry calls it again: no thread and no process starts for that run.
BridgedRunsOnce ==
  [][\A r \in Runs : store[r].bridged =>
       /\ starts'[r] <= starts[r]
       /\ spawned'[r] = "run" => spawned[r] = "run"]_vars

\* What the console shows as passed an agent passed, and what it shows as
\* waiting an agent has waited with: no retry, reconciliation, hydration or
\* resume makes a conclusion up.
ShownIsEarned ==
  \A r \in Runs : /\ store[r].status = "completed" => "PASS" \in earned[r]
                  /\ store[r].status = "waiting_approval" =>
                       Waiting \in earned[r]

\* Every run leaves the active statuses, also when the console that executed
\* it was killed: the lock on commands is always released.
LockReleased == \A r \in Runs : IsActive(store[r]) ~> ~IsActive(store[r])
=============================================================================
