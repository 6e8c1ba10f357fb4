-------------------------- MODULE ConsoleRunsProofs --------------------------
(***************************************************************************)
(* ConsoleRuns for any number of runs, operators, retries and faults: what *)
(* the console shows was earned, and no run is started twice.              *)
(***************************************************************************)
EXTENDS ConsoleRuns, TLAPS

Earnable == Results \cup {"NEEDS_REVIEW"}
Workers  == [pc : WorkerLabels, tries : 0 .. MaxTries, copy : Records,
             out : Results \cup {"none", "error"}]
Ended    == [pc : {"done"}]
AtRun    == [pc : {"seen", "sent", "applying"}, run : Runs]
Answers  == [pc : {"answered"}, run : Runs, reply : Earnable \cup {"FAIL", "rejected"}]
Views    == [pc : {"read"}, run : Runs, copy : Records]

\* The console's variables; a retry is counted before it is taken.
ConsoleTyped ==
  /\ store \in [Runs -> Records]
  /\ age \in [Runs -> 0 .. 2] /\ idle \in [Runs -> BOOLEAN]
  /\ w \in [Runs -> Workers]
  /\ \A r \in Runs : w[r].pc \notin {"fallback", "done", "lost"} => w[r].tries < MaxTries
  /\ op \in [Operators -> {Idle} \cup Ended \cup AtRun \cup Answers]
  /\ view \in {Idle} \cup Views
  /\ faults \in 0 .. MaxFaults

\* The agents' variables; only what an agent concluded is on disk or in a payload.
AgentsTyped ==
  /\ up \in BOOLEAN
  /\ job \in [Runs -> {"none", "running", "completed", "failed"}]
  /\ thr \in [Runs -> {"none", "run", "saved", "finished"}]
  /\ out \in [Runs -> Results \cup {"none"}]
  /\ disk \in [Runs -> Results \cup {"none"}]
  /\ snap \in [Runs -> Earnable \cup {"none"}]
  /\ applied \in [Runs -> BOOLEAN]
  /\ spawned \in [Runs -> {"none", "run"} \cup Results]
  /\ starts \in [Runs -> Nat]
  /\ earned \in [Runs -> SUBSET Earnable]

\* What is found anywhere of an agent's conclusion is one.
Concluded(r) ==
  /\ {out[r], disk[r], snap[r]} \subseteq earned[r] \cup {"none"}
  /\ spawned[r] \in Results => spawned[r] \in earned[r]

\* The registry knows what it has started, and was told what has ended.
Registered(r) ==
  /\ starts[r] = IF job[r] = "none" THEN 0 ELSE 1
  /\ job[r] = "running" <=> thr[r] \in {"run", "saved"}
  /\ thr[r] = "finished" => job[r] = "completed"
  /\ thr[r] \in {"saved", "finished"} \/ job[r] = "completed" => out[r] # "none"

\* Before the orchestrator is called the record does not say that it was, and
\* no copy unsays it later, nor says it too early.
Uncalled == {"start", "plan", "post", "poll", "probe", "repoll", "spawn", "bridge"}
Behind(r) ==
  /\ w[r].pc \in Uncalled => ~w[r].copy.bridged
  /\ w[r].pc \in {"new", "gated"} => ~store[r].bridged
  /\ w[r].pc \in Uncalled \cup {"report", "abort", "persist"} /\ ~w[r].copy.bridged
       => ~store[r].bridged
ViewBehind == view.pc = "read" /\ view.copy.bridged => store[view.run].bridged

\* A record shows nothing that is not among the conclusions E.
Honest(E, rec) == /\ rec.status = "completed" => "PASS" \in E
                  /\ rec.status = "waiting_approval" \/ rec.conc = Waiting
                       => Waiting \in E
HonestRun(r) ==
  /\ Honest(earned[r], store[r]) /\ Honest(earned[r], w[r].copy)
  /\ w[r].pc \in {"bridge", "report"} => w[r].out \in earned[r] \cup {"error"}
HonestView == view.pc = "read" => Honest(earned[view.run], view.copy)
HonestReply(o) ==
  /\ op[o].pc \in {"seen", "sent", "applying", "answered"} => Waiting \in earned[op[o].run]
  /\ op[o].pc = "answered" =>
       op[o].reply \in earned[op[o].run] \cup {"NEEDS_REVIEW", "FAIL", "rejected"}

Typed     == ConsoleTyped /\ AgentsTyped
AgentsInv == \A r \in Runs : Concluded(r) /\ Registered(r)
BridgeInv == (\A r \in Runs : Behind(r)) /\ ViewBehind
HonestInv == /\ \A r \in Runs : HonestRun(r)
             /\ HonestView /\ \A o \in Operators : HonestReply(o)

IInv == Typed /\ AgentsInv /\ BridgeInv /\ HonestInv

-----------------------------------------------------------------------------
\* The helpers on records.
LEMMA ResultsAreConclusions ==
  /\ Earnable \cup {"UNKNOWN", "none", "FAIL"} \subseteq Conclusions
  /\ Waiting \notin {"PASS", "FAIL", "NEEDS_REVIEW", "UNKNOWN", "none", "error"}
BY ResultsAssumption DEF Earnable, Conclusions, Waiting

\* What a conclusion makes of a run: only PASS is "completed" among those an
\* agent may reach.
LEMMA StatusForIsHonest ==
  ASSUME NEW conc
  PROVE  /\ StatusFor(conc) \in Statuses \ Active
         /\ StatusFor(conc) = "waiting_approval" <=> conc = Waiting
         /\ StatusFor(conc) = "completed" /\ conc \in Earnable \cup {"FAIL"} => conc = "PASS"
BY ResultsAssumption DEF StatusFor, Statuses, Active, Waiting, Earnable

LEMMA ApplyFacts ==
  ASSUME NEW rec \in Records, NEW conc \in Conclusions
  PROVE  /\ Apply(rec, conc) \in Records
         /\ Apply(rec, conc).bridged = rec.bridged
         /\ Apply(rec, conc).conc = conc
         /\ Apply(rec, conc).status = StatusFor(conc)
BY StatusForIsHonest DEF Apply, Records

LEMMA FailRunFacts ==
  ASSUME NEW rec \in Records
  PROVE  /\ FailRun(rec) \in Records
         /\ FailRun(rec).bridged = rec.bridged
         /\ FailRun(rec).status = "failed"
         /\ FailRun(rec).conc = Waiting => rec.conc = Waiting
BY DEF FailRun, Records, Statuses, Conclusions, Waiting

LEMMA OutcomeFacts ==
  ASSUME NEW rec \in Records, NEW what \in Results \cup {"none", "error"}
  PROVE  /\ Outcome(rec, what) \in Records
         /\ Outcome(rec, what).bridged = rec.bridged
         /\ what # "error" => Outcome(rec, what) = Apply(rec, what)
         /\ what = "error" => /\ Outcome(rec, what).status = "failed"
                              /\ Outcome(rec, what).conc = "UNKNOWN"
<1>1. CASE what = "error"
  BY <1>1 DEF Outcome, Records, Statuses, Conclusions
<1>2. CASE what # "error"
  BY <1>2, ApplyFacts, ResultsAreConclusions DEF Outcome, Earnable
<1>3. QED
  BY <1>1, <1>2

LEMMA NoRunIsRecord ==
  /\ NoRun \in Records /\ ~NoRun.bridged /\ NoRun.status = "none" /\ NoRun.conc = "none"
  /\ Queued \in Records /\ ~Queued.bridged /\ Queued.status = "queued"
  /\ Queued.conc = "none"
BY DEF NoRun, Queued, Records, Statuses, Active, Conclusions

\* What reconciliation makes of a run.
LEMMA ReconciledFacts ==
  ASSUME Typed, NEW r \in Runs, NEW quick
  PROVE  /\ Reconciled(r, quick) \in Records
         /\ Reconciled(r, quick).bridged = store[r].bridged
         /\ \/ Reconciled(r, quick) = store[r]
            \/ Reconciled(r, quick) = FailRun(store[r])
            \/ /\ Reconciled(r, quick).conc = snap[r] /\ snap[r] # "none"
               /\ Reconciled(r, quick).status = StatusFor(snap[r])
<1>1. store[r] \in Records /\ snap[r] \in Conclusions
  BY ResultsAreConclusions DEF Typed, ConsoleTyped, AgentsTyped
<1>2. CASE Reconciled(r, quick) = store[r]
  BY <1>1, <1>2
<1>3. CASE Reconciled(r, quick) = FailRun(store[r])
  BY <1>1, <1>3, FailRunFacts
<1>4. CASE /\ Reconciled(r, quick) # store[r]
           /\ Reconciled(r, quick) # FailRun(store[r])
  <2>1. /\ Reconciled(r, quick) = [store[r] EXCEPT !.conc = snap[r],
                                                   !.status = StatusFor(snap[r])]
        /\ ProbeOf(r, quick) = "terminal"
    BY <1>4 DEF Reconciled
  <2>2. snap[r] # "none"
    BY <2>1 DEF ProbeOf, StateOf
  <2>3. QED
    BY <1>1, <2>1, <2>2, StatusForIsHonest DEF Records
<1>5. QED
  BY <1>2, <1>3, <1>4

\* What the moves of a handler, and a write of state.json, change.
LEMMA HandlerMoves ==
  ASSUME w \in [Runs -> Workers], NEW r \in Runs, NEW label \in WorkerLabels,
         NEW rec \in Records, NEW what \in Results \cup {"none", "error"}
  PROVE  /\ Step(r, label) =>
              /\ w' \in [Runs -> Workers]
              /\ w'[r] = [w[r] EXCEPT !.pc = label]
              /\ \A q \in Runs \ {r} : w'[q] = w[q]
         /\ Hold(r, label, rec) =>
              /\ w' \in [Runs -> Workers]
              /\ w'[r] = [w[r] EXCEPT !.pc = label, !.copy = rec]
              /\ \A q \in Runs \ {r} : w'[q] = w[q]
         /\ Got(r, label, what) =>
              /\ w' \in [Runs -> Workers]
              /\ w'[r] = [w[r] EXCEPT !.pc = label, !.out = what]
              /\ \A q \in Runs \ {r} : w'[q] = w[q]
<1>1. w[r] \in Workers
  OBVIOUS
<1>2. /\ [w[r] EXCEPT !.pc = label] \in Workers
      /\ [w[r] EXCEPT !.pc = label, !.copy = rec] \in Workers
      /\ [w[r] EXCEPT !.pc = label, !.out = what] \in Workers
  BY <1>1 DEF Workers
<1>3. ASSUME Step(r, label)
      PROVE  /\ w' \in [Runs -> Workers]
             /\ w'[r] = [w[r] EXCEPT !.pc = label]
             /\ \A q \in Runs \ {r} : w'[q] = w[q]
  <2>1. w' = [w EXCEPT ![r] = [w[r] EXCEPT !.pc = label]]
    BY <1>3 DEF Step
  <2>2. QED
    BY <1>2, <2>1
<1>4. ASSUME Hold(r, label, rec)
      PROVE  /\ w' \in [Runs -> Workers]
             /\ w'[r] = [w[r] EXCEPT !.pc = label, !.copy = rec]
             /\ \A q \in Runs \ {r} : w'[q] = w[q]
  <2>1. w' = [w EXCEPT ![r] = [w[r] EXCEPT !.pc = label, !.copy = rec]]
    BY <1>4 DEF Hold
  <2>2. QED
    BY <1>2, <2>1
<1>5. ASSUME Got(r, label, what)
      PROVE  /\ w' \in [Runs -> Workers]
             /\ w'[r] = [w[r] EXCEPT !.pc = label, !.out = what]
             /\ \A q \in Runs \ {r} : w'[q] = w[q]
  <2>1. w' = [w EXCEPT ![r] = [w[r] EXCEPT !.pc = label, !.out = what]]
    BY <1>5 DEF Got
  <2>2. QED
    BY <1>2, <2>1
<1>6. QED
  BY <1>3, <1>4, <1>5

LEMMA WriteFacts ==
  ASSUME ConsoleTyped, NEW r \in Runs, NEW rec \in Records, Write(r, rec)
  PROVE  /\ store' \in [Runs -> Records] /\ store'[r] = rec
         /\ \A q \in Runs \ {r} : store'[q] = store[q]
         /\ age' \in [Runs -> 0 .. 2] /\ idle' \in [Runs -> BOOLEAN]
         /\ faults' \in 0 .. MaxFaults
BY DEF Write, ConsoleTyped

LEMMA WriteFailsFacts ==
  ASSUME ConsoleTyped, WriteFails
  PROVE  /\ UNCHANGED <<store, age, idle>>
         /\ faults' \in 0 .. MaxFaults
BY BoundsAssumption DEF WriteFails, times, ConsoleTyped

LEMMA RetryFacts ==
  ASSUME ConsoleTyped, NEW r \in Runs, w[r].pc \in {"load", "persist"}, Retry(r)
  PROVE  /\ UNCHANGED <<store, age, idle>> /\ faults' \in 0 .. MaxFaults
         /\ w' \in [Runs -> Workers]
         /\ w'[r].pc \in {"load", "fallback"} /\ w'[r].copy = w[r].copy
         /\ w'[r].pc = "load" => w'[r].tries < MaxTries
         /\ \A q \in Runs \ {r} : w'[q] = w[q]
<1> DEFINE label == IF w[r].tries + 1 < MaxTries THEN "load" ELSE "fallback"
<1>1. w[r] \in Workers /\ w[r].tries < MaxTries
  BY DEF ConsoleTyped
<1>2. label \in WorkerLabels /\ w[r].tries + 1 \in 0 .. MaxTries
  BY <1>1, BoundsAssumption DEF WorkerLabels, Workers
<1>3. w' = [w EXCEPT ![r] = [w[r] EXCEPT !.tries = w[r].tries + 1, !.pc = label]]
  BY <1>1 DEF Retry, ConsoleTyped, Workers
<1>4. [w[r] EXCEPT !.tries = w[r].tries + 1, !.pc = label] \in Workers
  BY <1>1, <1>2 DEF Workers
<1>5. /\ w' \in [Runs -> Workers]
      /\ w'[r] = [w[r] EXCEPT !.tries = w[r].tries + 1, !.pc = label]
      /\ \A q \in Runs \ {r} : w'[q] = w[q]
  BY <1>3, <1>4 DEF ConsoleTyped
<1>6. /\ w'[r].pc = label /\ w'[r].copy = w[r].copy
      /\ w'[r].tries = w[r].tries + 1
  BY <1>1, <1>5 DEF Workers
<1>7. QED
  BY <1>5, <1>6, WriteFailsFacts DEF Retry

\* Reconciliation replaces the records, one for one.
LEMMA ReconcileFacts ==
  ASSUME Typed, NEW quick, Reconcile(quick)
  PROVE  /\ store' \in [Runs -> Records]
         /\ \A r \in Runs : store'[r] = Reconciled(r, quick)
         /\ age' \in [Runs -> 0 .. 2] /\ idle' \in [Runs -> BOOLEAN]
BY ReconciledFacts DEF Reconcile, Typed, ConsoleTyped

-----------------------------------------------------------------------------
LEMMA InitIInv == Init => IInv
<1> SUFFICES ASSUME Init PROVE IInv
  OBVIOUS
<1>1. Typed
  <2>1. w \in [Runs -> Workers]
    BY NoRunIsRecord, BoundsAssumption DEF Init, Workers, WorkerLabels
  <2>2. \A r \in Runs : w[r].tries < MaxTries
    BY BoundsAssumption DEF Init
  <2>3. ConsoleTyped
    BY <2>1, <2>2, NoRunIsRecord, BoundsAssumption DEF Init, ConsoleTyped
  <2>4. AgentsTyped
    BY DEF Init, AgentsTyped
  <2>5. QED
    BY <2>3, <2>4 DEF Typed
<1>2. AgentsInv
  BY ResultsAssumption DEF Init, AgentsInv, Concluded, Registered
<1>3. BridgeInv
  BY NoRunIsRecord DEF Init, BridgeInv, Behind, ViewBehind, Uncalled, Idle
<1>4. HonestInv
  BY NoRunIsRecord DEF Init, HonestInv, HonestRun, HonestView, HonestReply, Honest, Waiting,
                       Idle
<1>5. QED
  BY <1>1, <1>2, <1>3, <1>4 DEF IInv

\* Only these steps are the agents'.
LEMMA AgentsChange ==
  ASSUME [Next]_vars
  PROVE  \/ UNCHANGED agents
         \/ \E r \in Runs : PostTaken(r) \/ Probe(r) \/ Agent(r)
         \/ \E o \in Operators : ResumeEnds(o)
         \/ ServerDies \/ ServerBoots
<1>1. CASE List \/ ViewReads \/ ViewPersists \/ ConsoleDies \/ UNCHANGED vars
  BY <1>1 DEF List, ViewReads, ViewPersists, ConsoleDies, vars
<1>2. ASSUME NEW r \in Runs, Submit(r) \/ Tick(r) PROVE UNCHANGED agents
  BY <1>2 DEF Submit, Gate, Create, Tick, Others
<1>3. ASSUME NEW r \in Runs, Worker(r), ~PostTaken(r), ~Probe(r) PROVE UNCHANGED agents
  BY <1>3 DEF Worker, Load, Start, Plan, Bridge, Update, Report, Abort, Persist, Fallback,
              Others, PostLost, PostRejected, Poll, Repoll
<1>4. ASSUME NEW o \in Operators, Resume(o), ~ResumeEnds(o) PROVE UNCHANGED agents
  BY <1>4 DEF Resume, ResumeChecks, ResumeBegins, ResumeServed, ResumeLost, ResumeReplies
<1>5. QED
  BY <1>1, <1>2, <1>3, <1>4 DEF Next

\* Nothing an agent has concluded is forgotten.
EarnedGrows == \A r \in Runs : earned[r] \subseteq earned'[r]

LEMMA ConcludeFacts ==
  ASSUME AgentsTyped, NEW r \in Runs, NEW res \in Results, Conclude(r, res)
  PROVE  /\ snap' \in [Runs -> Earnable \cup {"none"}]
         /\ applied' \in [Runs -> BOOLEAN]
         /\ earned' \in [Runs -> SUBSET Earnable]
         /\ snap'[r] = res /\ earned'[r] = earned[r] \cup {res}
         /\ \A q \in Runs \ {r} : snap'[q] = snap[q] /\ earned'[q] = earned[q]
BY DEF Conclude, AgentsTyped, Earnable

LEMMA StepAgents ==
  ASSUME Typed, AgentsInv, [Next]_vars
  PROVE  AgentsTyped' /\ AgentsInv' /\ EarnedGrows
<1> USE DEF Typed
<1>1. CASE UNCHANGED agents
  BY <1>1 DEF agents, server, AgentsTyped, AgentsInv, Concluded, Registered, EarnedGrows
<1>2. ASSUME NEW r \in Runs, PostTaken(r)
      PROVE  AgentsTyped' /\ AgentsInv' /\ EarnedGrows
  <2>1. CASE Accept(r)
    <3>1. UNCHANGED <<up, out, disk, snap, applied, spawned, earned>>
      BY <1>2, <2>1 DEF PostTaken, Accepted, Accept, Calm
    <3>2. job[r] = "none" /\ starts[r] = 0
      BY <2>1 DEF Accept, Answer, AgentsTyped, AgentsInv, Registered
    <3>3. /\ job' = [job EXCEPT ![r] = "running"]
          /\ thr' = [thr EXCEPT ![r] = "run"]
          /\ starts' = [starts EXCEPT ![r] = @ + 1]
      BY <2>1 DEF Accept
    <3>4. AgentsTyped' /\ EarnedGrows
      BY <3>1, <3>3 DEF AgentsTyped, EarnedGrows
    <3>5. \A q \in Runs : Concluded(q)' /\ Registered(q)'
      BY <3>1, <3>2, <3>3 DEF AgentsTyped, AgentsInv, Concluded, Registered
    <3>6. QED
      BY <3>4, <3>5 DEF AgentsInv
  <2>2. CASE UNCHANGED server
    BY <1>1, <1>2, <2>2 DEF PostTaken, Accepted, Calm, agents
  <2>3. QED
    BY <1>2, <2>1, <2>2 DEF PostTaken, Accepted
<1>3. ASSUME NEW r \in Runs, Probe(r)
      PROVE  AgentsTyped' /\ AgentsInv' /\ EarnedGrows
  <2>1. UNCHANGED <<up, job, thr, out, disk, starts, snap, applied, earned>>
    BY <1>3 DEF Probe, Says, server
  <2>2. spawned' = spawned \/ spawned' = [spawned EXCEPT ![r] = "run"]
    BY <1>3 DEF Probe, Says
  <2>3. "run" \notin Results
    BY ResultsAssumption
  <2>4. QED
    BY <2>1, <2>2, <2>3 DEF AgentsTyped, AgentsInv, Concluded, Registered, EarnedGrows
<1>4. ASSUME NEW r \in Runs, ThreadSaves(r)
      PROVE  AgentsTyped' /\ AgentsInv' /\ EarnedGrows
  <2>1. PICK res \in Results : Conclude(r, res) /\ out' = [out EXCEPT ![r] = res]
    BY <1>4 DEF ThreadSaves, PayloadOf
  <2>2. /\ thr[r] = "run" /\ thr' = [thr EXCEPT ![r] = "saved"]
        /\ UNCHANGED <<up, job, disk, starts, spawned>>
    BY <1>4 DEF ThreadSaves, PayloadOf
  <2>3. res # "none"
    BY ResultsAssumption
  <2>4. AgentsTyped'
    BY <2>1, <2>2, ConcludeFacts DEF AgentsTyped
  <2>5. EarnedGrows
    BY <2>1, ConcludeFacts DEF EarnedGrows
  <2>6. ASSUME NEW q \in Runs PROVE Concluded(q)' /\ Registered(q)'
    BY <2>1, <2>2, <2>3, ConcludeFacts DEF AgentsTyped, AgentsInv, Concluded, Registered
  <2>7. QED
    BY <2>4, <2>5, <2>6 DEF AgentsInv
<1>5. ASSUME NEW r \in Runs, ThreadFinishes(r) \/ ThreadStores(r) \/ ThreadFails(r)
      PROVE  AgentsTyped' /\ AgentsInv' /\ EarnedGrows
  <2>1. UNCHANGED <<up, out, starts, snap, applied, spawned, earned>>
    BY <1>5 DEF ThreadFinishes, ThreadStores, ThreadFails, Calm
  <2>2. AgentsTyped' /\ EarnedGrows
    BY <1>5, <2>1 DEF ThreadFinishes, ThreadStores, ThreadFails, AgentsTyped, EarnedGrows
  <2>3. ASSUME NEW q \in Runs PROVE Concluded(q)'
    BY <1>5, <2>1 DEF ThreadFinishes, ThreadStores, ThreadFails, AgentsTyped, AgentsInv,
                      Concluded
  <2>4. ASSUME NEW q \in Runs PROVE Registered(q)'
    <3>1. CASE ThreadFinishes(r)
      BY <2>1, <3>1 DEF ThreadFinishes, AgentsTyped, AgentsInv, Registered
    <3>2. CASE ThreadStores(r)
      BY <2>1, <3>2 DEF ThreadStores, AgentsTyped, AgentsInv, Registered
    <3>3. CASE ThreadFails(r)
      BY <2>1, <3>3 DEF ThreadFails, AgentsTyped, AgentsInv, Registered
    <3>4. QED
      BY <1>5, <3>1, <3>2, <3>3
  <2>5. QED
    BY <2>2, <2>3, <2>4 DEF AgentsInv
<1>6. ASSUME NEW r \in Runs, SpawnSaves(r)
      PROVE  AgentsTyped' /\ AgentsInv' /\ EarnedGrows
  <2>1. PICK res \in Results :
          Conclude(r, res) /\ spawned' = [spawned EXCEPT ![r] = res]
    BY <1>6 DEF SpawnSaves, PayloadOf
  <2>2. UNCHANGED <<up, job, thr, out, disk, starts>>
    BY <1>6 DEF SpawnSaves, PayloadOf, server
  <2>3. AgentsTyped'
    BY <2>1, <2>2, ConcludeFacts DEF AgentsTyped
  <2>4. EarnedGrows
    BY <2>1, ConcludeFacts DEF EarnedGrows
  <2>5. ASSUME NEW q \in Runs PROVE Concluded(q)' /\ Registered(q)'
    BY <2>1, <2>2, ConcludeFacts DEF AgentsTyped, AgentsInv, Concluded, Registered
  <2>6. QED
    BY <2>3, <2>4, <2>5 DEF AgentsInv
<1>7. ASSUME NEW r \in Runs, SpawnEnds(r)
      PROVE  AgentsTyped' /\ AgentsInv' /\ EarnedGrows
  <2>1. /\ UNCHANGED <<up, job, thr, out, disk, starts, snap, applied, earned>>
        /\ spawned' = [spawned EXCEPT ![r] = "none"]
    BY <1>7 DEF SpawnEnds, server
  <2>2. "none" \notin Results
    BY ResultsAssumption
  <2>3. QED
    BY <2>1, <2>2 DEF AgentsTyped, AgentsInv, Concluded, Registered, EarnedGrows
<1>8. ASSUME NEW o \in Operators, ResumeEnds(o)
      PROVE  AgentsTyped' /\ AgentsInv' /\ EarnedGrows
  <2>1. UNCHANGED <<up, job, thr, out, disk, starts, spawned>>
    BY <1>8 DEF ResumeEnds, server
  <2>2. CASE UNCHANGED <<snap, applied, earned>>
    BY <1>1, <2>1, <2>2 DEF agents, server
  <2>3. ASSUME NEW res \in Earnable,
               snap' = [snap EXCEPT ![op[o].run] = res],
               applied' = applied \/ applied' = [applied EXCEPT ![op[o].run] = TRUE],
               earned' = [earned EXCEPT ![op[o].run] = @ \cup {res}]
        PROVE  AgentsTyped' /\ AgentsInv' /\ EarnedGrows
    <3>1. AgentsTyped' /\ EarnedGrows
      BY <2>1, <2>3 DEF AgentsTyped, EarnedGrows
    <3>2. ASSUME NEW q \in Runs PROVE Concluded(q)' /\ Registered(q)'
      BY <2>1, <2>3 DEF AgentsTyped, AgentsInv, Concluded, Registered
    <3>3. QED
      BY <3>1, <3>2 DEF AgentsInv
  <2>4. QED
    BY <1>8, <2>2, <2>3 DEF ResumeEnds, Earnable
<1>9. CASE ServerDies
  <2>1. AgentsTyped' /\ EarnedGrows
    BY <1>9 DEF ServerDies, AgentsTyped, EarnedGrows
  <2>2. ASSUME NEW q \in Runs PROVE Concluded(q)' /\ Registered(q)'
    BY <1>9, <2>1 DEF ServerDies, AgentsInv, Concluded, Registered
  <2>3. QED
    BY <2>1, <2>2 DEF AgentsInv
<1>10. CASE ServerBoots
  BY <1>10 DEF ServerBoots, Calm, AgentsTyped, AgentsInv, Concluded, Registered, EarnedGrows
<1>11. QED
  BY <1>1, <1>2, <1>3, <1>4, <1>5, <1>6, <1>7, <1>8, <1>9, <1>10, AgentsChange DEF Agent

\* A payload that is served is an agent's conclusion.
LEMMA PayloadIsEarned ==
  ASSUME Typed, AgentsInv, NEW r \in Runs, Answer(r) = "completed"
  PROVE  Payload(r) \in Results /\ Payload(r) \in earned[r]
BY DEF Typed, AgentsTyped, AgentsInv, Concluded, Registered, Answer, Payload

-----------------------------------------------------------------------------
\* What a step of one handler of POST /api/runs has to keep.
Tidy == /\ w' \in [Runs -> Workers] /\ store' \in [Runs -> Records]
        /\ age' \in [Runs -> 0 .. 2] /\ idle' \in [Runs -> BOOLEAN]
        /\ faults' \in 0 .. MaxFaults /\ UNCHANGED <<op, view>>
OnlyRun(r) == \A q \in Runs \ {r} : w'[q] = w[q] /\ store'[q] = store[q]
Keeps(r) ==
  /\ Tidy /\ OnlyRun(r)
  /\ w'[r].pc \notin {"fallback", "done", "lost"} => w'[r].tries < MaxTries
  /\ Behind(r)' /\ (store[r].bridged => store'[r].bridged)
  /\ Honest(earned[r], store'[r]) /\ Honest(earned[r], w'[r].copy)
  /\ w'[r].pc \in {"bridge", "report"} => w'[r].out \in earned[r] \cup {"error"}

LEMMA ReplyKept ==
  ASSUME IInv, EarnedGrows, NEW o \in Operators, op'[o] = op[o] PROVE HonestReply(o)'
<1>1. HonestReply(o) /\ op[o] \in {Idle} \cup Ended \cup AtRun \cup Answers
  BY DEF IInv, HonestInv, Typed, ConsoleTyped
<1>2. op[o].pc \in {"seen", "sent", "applying", "answered"} => op[o].run \in Runs
  BY <1>1 DEF Idle, Ended, AtRun, Answers
<1>3. QED
  BY <1>1, <1>2 DEF HonestReply, EarnedGrows

LEMMA RunKept ==
  ASSUME IInv, EarnedGrows, NEW r \in Runs, w'[r] = w[r], store'[r] = store[r]
  PROVE  HonestRun(r)' /\ Behind(r)'
BY DEF IInv, HonestInv, HonestRun, Honest, BridgeInv, Behind, EarnedGrows

LEMMA ViewIsTyped ==
  ASSUME ConsoleTyped, view.pc = "read" PROVE view \in Views /\ view.run \in Runs
BY DEF ConsoleTyped, Idle, Views

LEMMA KeepingIsEnough ==
  ASSUME IInv, EarnedGrows, NEW r \in Runs, Keeps(r)
  PROVE  ConsoleTyped' /\ BridgeInv' /\ HonestInv'
<1>1. ConsoleTyped
  BY DEF IInv, Typed
<1>2. ConsoleTyped'
  BY <1>1 DEF Keeps, Tidy, OnlyRun, ConsoleTyped
<1>3. \A q \in Runs : Behind(q)' /\ HonestRun(q)'
  <2>1. HonestRun(r)'
    BY DEF Keeps, HonestRun, Honest, EarnedGrows
  <2>2. ASSUME NEW q \in Runs \ {r} PROVE Behind(q)' /\ HonestRun(q)'
    BY <2>2, RunKept DEF Keeps, OnlyRun
  <2>3. QED
    BY <2>1, <2>2 DEF Keeps
<1>4. ViewBehind'
  BY <1>1, ViewIsTyped DEF IInv, BridgeInv, ViewBehind, Keeps, Tidy, OnlyRun
<1>5. HonestView'
  BY <1>1, ViewIsTyped DEF IInv, HonestInv, HonestView, Honest, EarnedGrows, Keeps, Tidy
<1>6. \A o \in Operators : HonestReply(o)'
  BY ReplyKept DEF Keeps, Tidy
<1>7. QED
  BY <1>2, <1>3, <1>4, <1>5, <1>6 DEF BridgeInv, HonestInv

\* The record of a run, and the copy its handler holds.
LEMMA RunFacts ==
  ASSUME IInv, NEW r \in Runs
  PROVE  /\ ConsoleTyped /\ Typed /\ AgentsInv
         /\ w \in [Runs -> Workers] /\ w[r] \in Workers /\ store[r] \in Records
         /\ w[r].copy \in Records /\ w[r].out \in Results \cup {"none", "error"}
         /\ w[r].pc \notin {"fallback", "done", "lost"} => w[r].tries < MaxTries
         /\ Behind(r) /\ HonestRun(r)
         /\ Honest(earned[r], store[r]) /\ Honest(earned[r], w[r].copy)
BY DEF IInv, Typed, ConsoleTyped, Workers, BridgeInv, HonestInv, HonestRun

\* A handler that moves on, with what it got, and leaves the store alone.
LEMMA MovesKeep ==
  ASSUME IInv, NEW r \in Runs, NEW label \in Uncalled \cup {"report"},
         w[r].pc \in Uncalled, w' \in [Runs -> Workers],
         \A q \in Runs \ {r} : w'[q] = w[q],
         w'[r].pc = label, w'[r].copy = w[r].copy, w'[r].tries = w[r].tries,
         label \in {"bridge", "report"} => w'[r].out \in earned[r] \cup {"error"},
         UNCHANGED <<store, age, idle, faults, op, view>>
  PROVE  Keeps(r)
<1>1. w[r].pc \notin {"fallback", "done", "lost"} /\ label # "new" /\ label # "gated"
  BY DEF Uncalled
<1>2. Tidy /\ OnlyRun(r)
  BY RunFacts DEF Tidy, OnlyRun, ConsoleTyped
<1>3. Behind(r)'
  BY <1>1, RunFacts DEF Behind
<1>4. QED
  BY <1>1, <1>2, <1>3, RunFacts DEF Keeps

LEMMA GotKeeps ==
  ASSUME IInv, NEW r \in Runs, NEW what \in Results \cup {"error"},
         w[r].pc \in Uncalled, Got(r, "bridge", what), what \in earned[r] \cup {"error"},
         UNCHANGED <<store, age, idle, faults, op, view>>
  PROVE  Keeps(r)
<1>1. "bridge" \in Uncalled /\ "bridge" \in WorkerLabels
  BY DEF Uncalled, WorkerLabels
<1>2. /\ w' \in [Runs -> Workers]
      /\ w'[r] = [w[r] EXCEPT !.pc = "bridge", !.out = what]
      /\ \A q \in Runs \ {r} : w'[q] = w[q]
  BY <1>1, RunFacts, HandlerMoves
<1>3. /\ w'[r].pc = "bridge" /\ w'[r].copy = w[r].copy /\ w'[r].tries = w[r].tries
      /\ w'[r].out = what
  BY <1>2, RunFacts DEF Workers
<1>4. QED
  BY <1>1, <1>2, <1>3, MovesKeep

LEMMA ServerStepsKeep ==
  ASSUME IInv, NEW r \in Runs,
         PostTaken(r) \/ PostLost(r) \/ PostRejected(r) \/ Poll(r) \/ Probe(r) \/ Repoll(r)
  PROVE  Keeps(r)
<1>1. /\ UNCHANGED <<store, age, idle, faults, op, view>>
      /\ w[r].pc \in Uncalled
  BY DEF PostTaken, PostLost, PostRejected, Poll, Probe, Says, Repoll, Client, times, Uncalled
<1>2. \/ \E label \in Uncalled \ {"bridge"} : Step(r, label)
      \/ Got(r, "bridge", "error")
      \/ Answer(r) = "completed" /\ Got(r, "bridge", Payload(r))
  BY DEF PostTaken, PostLost, PostRejected, Poll, Probe, Says, Repoll, Uncalled
<1>3. Uncalled \subseteq WorkerLabels
  BY DEF Uncalled, WorkerLabels
<1>4. ASSUME NEW label \in Uncalled \ {"bridge"}, Step(r, label) PROVE Keeps(r)
  <2>1. /\ w' \in [Runs -> Workers] /\ w'[r] = [w[r] EXCEPT !.pc = label]
        /\ \A q \in Runs \ {r} : w'[q] = w[q]
    BY <1>3, <1>4, RunFacts, HandlerMoves
  <2>2. /\ w'[r].pc = label /\ w'[r].copy = w[r].copy /\ w'[r].tries = w[r].tries
        /\ label \notin {"bridge", "report"}
    BY <2>1, RunFacts DEF Workers, Uncalled
  <2>3. QED
    BY <1>1, <1>4, <2>1, <2>2, MovesKeep
<1>5. QED
  BY <1>1, <1>2, <1>4, GotKeeps, PayloadIsEarned, RunFacts

\* What becomes of the record of r in state.json: it is rec, or the write fails.
Stores(r, rec) == \/ Write(r, rec)
                  \/ WriteFails
                  \/ store[r] = rec /\ UNCHANGED <<store, times, faults>>

LEMMA StoresFacts ==
  ASSUME ConsoleTyped, NEW r \in Runs, NEW rec \in Records, Stores(r, rec)
  PROVE  /\ store' \in [Runs -> Records] /\ store'[r] \in {rec, store[r]}
         /\ \A q \in Runs \ {r} : store'[q] = store[q]
         /\ age' \in [Runs -> 0 .. 2] /\ idle' \in [Runs -> BOOLEAN]
         /\ faults' \in 0 .. MaxFaults
<1>1. CASE Write(r, rec)
  BY <1>1, WriteFacts
<1>2. CASE WriteFails
  BY <1>2, WriteFailsFacts DEF ConsoleTyped
<1>3. CASE UNCHANGED <<store, times, faults>>
  BY <1>3 DEF ConsoleTyped, times
<1>4. QED
  BY <1>1, <1>2, <1>3 DEF Stores

\* A handler that takes rec for its copy and writes it.
LEMMA HoldKeeps ==
  ASSUME IInv, NEW r \in Runs, NEW rec \in Records,
         NEW label \in {"start", "plan", "post", "report", "abort", "persist"},
         Hold(r, label, rec), Stores(r, rec), UNCHANGED <<op, view>>,
         Honest(earned[r], rec), store[r].bridged => rec.bridged,
         label \in {"start", "plan", "post"} => ~rec.bridged,
         label = "report" => w[r].pc = "bridge",
         w[r].pc \notin {"fallback", "done", "lost"}
  PROVE  Keeps(r)
<1>1. label \in WorkerLabels
  BY DEF WorkerLabels
<1>2. /\ w' \in [Runs -> Workers]
      /\ w'[r] = [w[r] EXCEPT !.pc = label, !.copy = rec]
      /\ \A q \in Runs \ {r} : w'[q] = w[q]
  BY <1>1, RunFacts, HandlerMoves
<1>3. /\ w'[r].pc = label /\ w'[r].copy = rec /\ w'[r].tries = w[r].tries
      /\ w'[r].out = w[r].out
  BY <1>2, RunFacts DEF Workers
<1>4. /\ store' \in [Runs -> Records] /\ store'[r] \in {rec, store[r]}
      /\ \A q \in Runs \ {r} : store'[q] = store[q]
      /\ age' \in [Runs -> 0 .. 2] /\ idle' \in [Runs -> BOOLEAN]
      /\ faults' \in 0 .. MaxFaults
  BY RunFacts, StoresFacts
<1>5. Tidy /\ OnlyRun(r)
  BY <1>2, <1>4 DEF Tidy, OnlyRun
<1>6. Behind(r)'
  BY <1>3, <1>4 DEF Behind, Uncalled
<1>7. Honest(earned[r], store'[r])
  BY <1>4, RunFacts
<1>8. w'[r].pc \in {"bridge", "report"} => w'[r].out \in earned[r] \cup {"error"}
  BY <1>3, RunFacts DEF HonestRun
<1>9. QED
  BY <1>3, <1>4, <1>5, <1>6, <1>7, <1>8, RunFacts DEF Keeps

\* A handler that keeps its copy, and writes rec.
LEMMA StepKeeps ==
  ASSUME IInv, NEW r \in Runs, NEW rec \in Records,
         NEW label \in {"load", "refused", "done"},
         Step(r, label), Stores(r, rec), UNCHANGED <<op, view>>,
         Honest(earned[r], rec), store[r].bridged => rec.bridged,
         w[r].pc \in {"fallback", "done", "lost"} => label = "done"
  PROVE  Keeps(r)
<1>1. label \in WorkerLabels
  BY DEF WorkerLabels
<1>2. /\ w' \in [Runs -> Workers] /\ w'[r] = [w[r] EXCEPT !.pc = label]
      /\ \A q \in Runs \ {r} : w'[q] = w[q]
  BY <1>1, RunFacts, HandlerMoves
<1>3. w'[r].pc = label /\ w'[r].copy = w[r].copy /\ w'[r].tries = w[r].tries
  BY <1>2, RunFacts DEF Workers
<1>4. /\ store' \in [Runs -> Records] /\ store'[r] \in {rec, store[r]}
      /\ \A q \in Runs \ {r} : store'[q] = store[q]
      /\ age' \in [Runs -> 0 .. 2] /\ idle' \in [Runs -> BOOLEAN]
      /\ faults' \in 0 .. MaxFaults
  BY RunFacts, StoresFacts
<1>5. Tidy /\ OnlyRun(r)
  BY <1>2, <1>4 DEF Tidy, OnlyRun
<1>6. Behind(r)'
  BY <1>3 DEF Behind, Uncalled
<1>7. QED
  BY <1>3, <1>4, <1>5, <1>6, RunFacts DEF Keeps

LEMMA RetryKeeps ==
  ASSUME IInv, NEW r \in Runs, w[r].pc \in {"load", "persist"}, Retry(r), UNCHANGED <<op, view>>
  PROVE  Keeps(r)
<1>1. /\ UNCHANGED <<store, age, idle>> /\ faults' \in 0 .. MaxFaults
      /\ w' \in [Runs -> Workers]
      /\ w'[r].pc \in {"load", "fallback"} /\ w'[r].copy = w[r].copy
      /\ w'[r].pc = "load" => w'[r].tries < MaxTries
      /\ \A q \in Runs \ {r} : w'[q] = w[q]
  BY RunFacts, RetryFacts
<1>2. Tidy /\ OnlyRun(r)
  BY <1>1, RunFacts DEF Tidy, OnlyRun, ConsoleTyped
<1>3. Behind(r)'
  BY <1>1 DEF Behind, Uncalled
<1>4. QED
  BY <1>1, <1>2, <1>3, RunFacts DEF Keeps

\* Records that show less than an honest one.
LEMMA HonestRecords ==
  ASSUME NEW E, NEW rec \in Records, Honest(E, rec)
  PROVE  /\ Honest(E, NoRun) /\ Honest(E, Queued) /\ Honest(E, FailRun(rec))
         /\ Honest(E, [rec EXCEPT !.status = "running"])
         /\ Honest(E, [rec EXCEPT !.status = "resuming"])
         /\ Honest(E, [rec EXCEPT !.status = "failed", !.conc = "FAIL"])
         /\ Honest(E, [rec EXCEPT !.bridged = TRUE])
BY NoRunIsRecord, FailRunFacts DEF Honest, Records, Waiting

\* What an agent's conclusion, or its absence, makes of a run.
LEMMA HonestApply ==
  ASSUME NEW E, NEW rec \in Records, NEW conc \in Earnable \cup {"FAIL"},
         conc \in E \/ conc \in {"NEEDS_REVIEW", "FAIL"}
  PROVE  Honest(E, Apply(rec, conc))
<1>1. conc \in Conclusions
  BY ResultsAreConclusions
<1>2. QED
  BY <1>1, ApplyFacts, StatusForIsHonest DEF Honest, Waiting

LEMMA WorkerSavesKeep ==
  ASSUME IInv, NEW r \in Runs,
         Create(r) \/ Load(r) \/ Start(r) \/ Plan(r) \/ Bridge(r) \/ Report(r)
           \/ Abort(r) \/ Persist(r) \/ Fallback(r)
  PROVE  Keeps(r)
<1>1. UNCHANGED <<op, view>>
  BY DEF Create, Load, Start, Plan, Bridge, Update, Report, Abort, Persist, Fallback, Others
<1> DEFINE copy == w[r].copy
<1>2. /\ copy \in Records /\ store[r] \in Records /\ Behind(r)
      /\ Honest(earned[r], store[r]) /\ Honest(earned[r], copy)
  BY RunFacts
<1>3. CASE Create(r)
  <2>1. CASE Step(r, "refused") /\ UNCHANGED <<store, times, faults>>
    BY <1>1, <1>2, <1>3, <2>1, StepKeeps DEF Create, Stores
  <2>2. CASE Step(r, "load") /\ Write(r, Queued)
    <3>1. Queued \in Records /\ ~store[r].bridged /\ Honest(earned[r], Queued)
      BY <1>2, <1>3, NoRunIsRecord, HonestRecords DEF Behind, Create
    <3>2. QED
      BY <1>1, <1>3, <2>2, <3>1, StepKeeps DEF Create, Stores
  <2>3. QED
    BY <1>3, <2>1, <2>2 DEF Create
<1>4. CASE Load(r)
  <2>1. CASE Retry(r)
    BY <1>1, <1>4, <2>1, RetryKeeps DEF Load
  <2>2. CASE /\ Hold(r, IF SkipDuplicate(store[r]) THEN "persist" ELSE "start", store[r])
             /\ UNCHANGED <<store, times, faults>>
    BY <1>1, <1>2, <1>4, <2>2, HoldKeeps DEF Load, Stores, SkipDuplicate
  <2>3. QED
    BY <1>4, <2>1, <2>2 DEF Load
<1>5. CASE Start(r)
  <2> DEFINE rec == [copy EXCEPT !.status = "running"]
  <2>1. rec \in Records /\ rec.bridged = copy.bridged /\ Honest(earned[r], rec)
    BY <1>2, HonestRecords DEF Records, Statuses, Active
  <2>2. ~copy.bridged /\ ~store[r].bridged /\ w[r].pc = "start"
    BY <1>2, <1>5 DEF Start, Behind, Uncalled
  <2>3. /\ Hold(r, "plan", rec) \/ Hold(r, "abort", rec)
        /\ Stores(r, rec)
    BY <1>5 DEF Start, Update, Stores
  <2>4. QED
    BY <1>1, <2>1, <2>2, <2>3, HoldKeeps
<1>6. CASE Plan(r)
  <2>1. ~copy.bridged /\ ~store[r].bridged /\ w[r].pc = "plan"
    BY <1>2, <1>6 DEF Plan, Behind, Uncalled
  <2>2. /\ Hold(r, "post", copy) \/ Hold(r, "abort", copy)
        /\ Stores(r, copy)
    BY <1>6 DEF Plan, Update, Stores
  <2>3. QED
    BY <1>1, <1>2, <2>1, <2>2, HoldKeeps
<1>7. CASE Bridge(r)
  <2> DEFINE rec == [copy EXCEPT !.bridged = TRUE]
  <2>1. rec \in Records /\ rec.bridged /\ Honest(earned[r], rec)
    BY <1>2, HonestRecords DEF Records
  <2>2. /\ Hold(r, "report", rec) \/ Hold(r, "abort", rec)
        /\ Stores(r, rec) /\ w[r].pc = "bridge"
    BY <1>7 DEF Bridge, Update, Stores
  <2>3. QED
    BY <1>1, <2>1, <2>2, HoldKeeps
<1>8. CASE Report(r)
  <2> DEFINE rec == Outcome(copy, w[r].out)
  <2>1. /\ w[r].pc = "report" /\ w[r].out \in Results \cup {"none", "error"}
        /\ w[r].out \in earned[r] \cup {"error"} /\ earned[r] \subseteq Earnable
    BY <1>8, RunFacts DEF Report, HonestRun, Typed, AgentsTyped
  <2>2. rec \in Records /\ rec.bridged = copy.bridged
    BY <1>2, <2>1, OutcomeFacts
  <2>3. Honest(earned[r], rec)
    <3>1. CASE w[r].out = "error"
      BY <1>2, <2>1, <3>1, OutcomeFacts DEF Honest, Waiting
    <3>2. CASE w[r].out # "error"
      BY <1>2, <2>1, <3>2, OutcomeFacts, HonestApply
    <3>3. QED
      BY <3>1, <3>2
  <2>4. store[r].bridged => copy.bridged
    BY <1>2, <2>1 DEF Behind
  <2>5. Hold(r, "persist", rec) /\ Stores(r, rec)
    BY <1>8 DEF Report, Stores
  <2>6. QED
    BY <1>1, <2>1, <2>2, <2>3, <2>4, <2>5, HoldKeeps
<1>9. CASE Abort(r)
  <2> DEFINE rec == IF IsActive(copy) THEN FailRun(copy) ELSE copy
  <2>1. rec \in Records /\ rec.bridged = copy.bridged /\ Honest(earned[r], rec)
    BY <1>2, FailRunFacts, HonestRecords
  <2>2. w[r].pc = "abort" /\ (store[r].bridged => copy.bridged)
    BY <1>2, <1>9 DEF Abort, Behind
  <2>3. Hold(r, "persist", rec) /\ Stores(r, rec)
    BY <1>9 DEF Abort, Stores
  <2>4. QED
    BY <1>1, <2>1, <2>2, <2>3, HoldKeeps
<1>10. CASE Persist(r)
  <2>1. w[r].pc = "persist" /\ (store[r].bridged => copy.bridged)
    BY <1>2, <1>10 DEF Persist, Behind
  <2>2. CASE Retry(r)
    BY <1>1, <2>1, <2>2, RetryKeeps
  <2>3. CASE Write(r, copy) /\ Step(r, "done")
    BY <1>1, <1>2, <2>1, <2>3, StepKeeps DEF Stores
  <2>4. QED
    BY <1>10, <2>2, <2>3 DEF Persist
<1>11. CASE Fallback(r)
  <2> DEFINE rec == IF store[r].status \in {"running", "queued"}
                    THEN [store[r] EXCEPT !.status = "failed", !.conc = "FAIL"]
                    ELSE store[r]
  <2>1. rec \in Records /\ rec.bridged = store[r].bridged /\ Honest(earned[r], rec)
    BY <1>2, HonestRecords DEF Records, Statuses, Conclusions
  <2>2. w[r].pc = "fallback" /\ Step(r, "done") /\ Stores(r, rec)
    BY <1>11 DEF Fallback, Stores
  <2>3. QED
    BY <1>1, <2>1, <2>2, StepKeeps
<1>12. QED
  BY <1>3, <1>4, <1>5, <1>6, <1>7, <1>8, <1>9, <1>10, <1>11

-----------------------------------------------------------------------------
\* Steps of the others: no handler takes a new copy, and what they make of the
\* records is honest.
SameCopies ==
  \A r \in Runs :
    /\ w'[r].copy = w[r].copy
    /\ \/ w'[r] = w[r]
       \/ w'[r].pc \in {"lost", "refused"}
       \/ w[r].pc = "new" /\ w'[r].pc = "gated"
HonestStore == \A r \in Runs : Honest(earned'[r], store'[r])
SameBridged == \A r \in Runs : store'[r].bridged = store[r].bridged

LEMMA CopiesKept ==
  ASSUME IInv, EarnedGrows, SameCopies, HonestStore,
         \A r \in Runs : store'[r].bridged => store[r].bridged
  PROVE  \A r \in Runs : Behind(r)' /\ HonestRun(r)'
<1> SUFFICES ASSUME NEW r \in Runs PROVE Behind(r)' /\ HonestRun(r)'
  OBVIOUS
<1>1. Behind(r) /\ HonestRun(r)
  BY RunFacts
<1>2. Behind(r)'
  BY <1>1 DEF SameCopies, Behind, Uncalled
<1>3. HonestRun(r)'
  BY <1>1 DEF SameCopies, HonestStore, HonestRun, Honest, EarnedGrows
<1>4. QED
  BY <1>2, <1>3

LEMMA ViewKept ==
  ASSUME IInv, EarnedGrows, SameBridged, view' \in {view, Idle}
  PROVE  ViewBehind' /\ HonestView'
<1>1. CASE view' = Idle
  BY <1>1 DEF ViewBehind, HonestView, Idle
<1>2. CASE view' = view
  BY <1>2, ViewIsTyped DEF IInv, Typed, BridgeInv, HonestInv, ViewBehind, HonestView,
                           Honest, EarnedGrows, SameBridged
<1>3. QED
  BY <1>1, <1>2

\* A page lists the runs, perhaps for a new one.
LEMMA ReconcileKeeps ==
  ASSUME IInv, EarnedGrows, NEW quick, Reconcile(quick), SameCopies,
         w' \in [Runs -> Workers],
         \A r \in Runs : w'[r] = w[r] \/ (w'[r].tries = w[r].tries /\ w[r].pc = "new"),
         UNCHANGED <<op, view, earned, faults>>
  PROVE  ConsoleTyped' /\ BridgeInv' /\ HonestInv'
<1>1. Typed /\ AgentsInv /\ ConsoleTyped
  BY DEF IInv, Typed
<1>2. /\ store' \in [Runs -> Records]
      /\ \A r \in Runs : store'[r] = Reconciled(r, quick)
      /\ age' \in [Runs -> 0 .. 2] /\ idle' \in [Runs -> BOOLEAN]
  BY <1>1, ReconcileFacts
<1>3. ConsoleTyped'
  BY <1>1, <1>2 DEF ConsoleTyped
<1>4. SameBridged
  BY <1>1, <1>2, ReconciledFacts DEF SameBridged
<1>5. HonestStore
  <2> SUFFICES ASSUME NEW r \in Runs PROVE Honest(earned[r], Reconciled(r, quick))
    BY <1>2 DEF HonestStore
  <2>1. store[r] \in Records /\ Honest(earned[r], store[r])
    BY RunFacts
  <2>2. CASE Reconciled(r, quick) = store[r] \/ Reconciled(r, quick) = FailRun(store[r])
    BY <2>1, <2>2, HonestRecords
  <2>3. CASE /\ Reconciled(r, quick).conc = snap[r] /\ snap[r] # "none"
             /\ Reconciled(r, quick).status = StatusFor(snap[r])
    <3>1. snap[r] \in earned[r] /\ snap[r] \in Earnable
      BY <1>1, <2>3 DEF AgentsInv, Concluded, Typed, AgentsTyped
    <3>2. QED
      BY <2>3, <3>1, StatusForIsHonest DEF Honest
  <2>4. QED
    BY <1>1, <2>2, <2>3, ReconciledFacts
<1>6. \A r \in Runs : Behind(r)' /\ HonestRun(r)'
  BY <1>4, <1>5, CopiesKept DEF SameBridged
<1>7. ViewBehind' /\ HonestView'
  BY <1>4, ViewKept
<1>8. \A o \in Operators : HonestReply(o)'
  BY ReplyKept
<1>9. QED
  BY <1>3, <1>6, <1>7, <1>8 DEF BridgeInv, HonestInv

LEMMA GateKeeps ==
  ASSUME IInv, EarnedGrows, NEW r \in Runs, Gate(r)
  PROVE  ConsoleTyped' /\ BridgeInv' /\ HonestInv'
<1>1. PICK quick \in SUBSET Runs : Reconcile(quick)
  BY DEF Gate
<1>2. PICK label \in {"refused", "gated"} : Step(r, label)
  BY DEF Gate
<1>3. UNCHANGED <<op, view, earned, faults>> /\ w[r].pc = "new"
  BY DEF Gate, Others, agents
<1>4. label \in WorkerLabels
  BY DEF WorkerLabels
<1>5. /\ w' \in [Runs -> Workers] /\ w'[r] = [w[r] EXCEPT !.pc = label]
      /\ \A q \in Runs \ {r} : w'[q] = w[q]
  BY <1>2, <1>4, RunFacts, HandlerMoves
<1>6. w'[r].pc = label /\ w'[r].copy = w[r].copy /\ w'[r].tries = w[r].tries
  BY <1>5, RunFacts DEF Workers
<1>7. SameCopies
  BY <1>3, <1>5, <1>6 DEF SameCopies
<1>8. \A q \in Runs : w'[q] = w[q] \/ (w'[q].tries = w[q].tries /\ w[q].pc = "new")
  BY <1>3, <1>5, <1>6
<1>9. QED
  BY <1>1, <1>3, <1>5, <1>7, <1>8, ReconcileKeeps

\* The steps that leave the runs and their handlers alone.
LEMMA QuietKeeps ==
  ASSUME IInv, EarnedGrows, UNCHANGED <<store, w>>, ConsoleTyped',
         ViewBehind', HonestView', \A o \in Operators : HonestReply(o)'
  PROVE  BridgeInv' /\ HonestInv'
<1>1. SameCopies
  BY DEF SameCopies
<1>2. HonestStore
  BY RunFacts DEF HonestStore, Honest, EarnedGrows
<1>3. QED
  BY <1>1, <1>2, CopiesKept DEF BridgeInv, HonestInv

LEMMA SpawnEndsKeeps ==
  ASSUME IInv, EarnedGrows, NEW r \in Runs, SpawnEnds(r)
  PROVE  ConsoleTyped' /\ BridgeInv' /\ HonestInv'
<1>1. UNCHANGED <<store, age, idle, op, view, faults>>
  BY DEF SpawnEnds, times
<1>2. CASE UNCHANGED w
  <2>1. ConsoleTyped'
    BY <1>1, <1>2 DEF IInv, Typed, ConsoleTyped
  <2>2. ViewBehind' /\ HonestView'
    BY <1>1, ViewKept DEF SameBridged
  <2>3. QED
    BY <1>1, <1>2, <2>1, <2>2, ReplyKept, QuietKeeps
<1>3. CASE w[r].pc = "spawn" /\ ~UNCHANGED w
  <2>1. PICK what \in (IF spawned[r] = "run" THEN {} ELSE {spawned[r]}) \cup {"error"} :
          Got(r, "bridge", what)
    BY <1>3 DEF SpawnEnds
  <2>2. what = "error" \/ (what \in Results /\ what \in earned[r])
    <3>1. spawned[r] \in {"run"} \cup Results /\ Concluded(r)
      BY DEF SpawnEnds, IInv, Typed, AgentsTyped, AgentsInv
    <3>2. QED
      BY <2>1, <3>1 DEF Concluded
  <2>3. w[r].pc \in Uncalled
    BY <1>3 DEF Uncalled
  <2>4. Keeps(r)
    BY <1>1, <2>1, <2>2, <2>3, GotKeeps
  <2>5. QED
    BY <2>4, KeepingIsEnough
<1>4. QED
  BY <1>2, <1>3 DEF SpawnEnds

\* Time, and the agents.
LEMMA ElsewhereKeeps ==
  ASSUME IInv, EarnedGrows, UNCHANGED <<store, w, op, view, faults>>,
         age' \in [Runs -> 0 .. 2], idle' \in [Runs -> BOOLEAN]
  PROVE  ConsoleTyped' /\ BridgeInv' /\ HonestInv'
<1>1. ConsoleTyped'
  BY DEF IInv, Typed, ConsoleTyped
<1>2. ViewBehind' /\ HonestView'
  BY ViewKept DEF SameBridged
<1>3. QED
  BY <1>1, <1>2, ReplyKept, QuietKeeps

LEMMA TickKeeps ==
  ASSUME IInv, EarnedGrows, NEW r \in Runs, Tick(r)
  PROVE  ConsoleTyped' /\ BridgeInv' /\ HonestInv'
<1>1. age \in [Runs -> 0 .. 2] /\ idle \in [Runs -> BOOLEAN]
  BY DEF IInv, Typed, ConsoleTyped
<1>2. age' \in [Runs -> 0 .. 2] /\ idle' \in [Runs -> BOOLEAN]
  <2>1. CASE age[r] < 2 /\ age' = [age EXCEPT ![r] = @ + 1] /\ UNCHANGED idle
    BY <1>1, <2>1
  <2>2. CASE idle' = [idle EXCEPT ![r] = TRUE] /\ UNCHANGED age
    BY <1>1, <2>2
  <2>3. QED
    BY <2>1, <2>2 DEF Tick
<1>3. QED
  BY <1>2, ElsewhereKeeps DEF Tick

LEMMA AgentKeeps ==
  ASSUME IInv, EarnedGrows, NEW r \in Runs, Agent(r), ~SpawnEnds(r)
  PROVE  ConsoleTyped' /\ BridgeInv' /\ HonestInv'
<1>1. Console
  BY DEF Agent, ThreadSaves, ThreadFinishes, ThreadStores, ThreadFails, SpawnSaves
<1>2. age' \in [Runs -> 0 .. 2] /\ idle' \in [Runs -> BOOLEAN]
  BY <1>1 DEF Console, times, IInv, Typed, ConsoleTyped
<1>3. QED
  BY <1>1, <1>2, ElsewhereKeeps DEF Console

-----------------------------------------------------------------------------
\* POST /api/runs/[id]/resume.
LEMMA OperatorFacts ==
  ASSUME IInv, NEW o \in Operators
  PROVE  /\ HonestReply(o) /\ op \in [Operators -> {Idle} \cup Ended \cup AtRun \cup Answers]
         /\ op[o].pc \in {"seen", "sent", "applying"} => op[o] \in AtRun
         /\ op[o].pc = "answered" => op[o] \in Answers
         /\ op[o].pc \in {"seen", "sent", "applying", "answered"} => op[o].run \in Runs
BY DEF IInv, HonestInv, Typed, ConsoleTyped, Idle, Ended, AtRun, Answers

\* What an operator's request does to the record of run r.
LEMMA OperatorKeeps ==
  ASSUME IInv, EarnedGrows, NEW o \in Operators,
         NEW rec \in {Idle} \cup Ended \cup AtRun \cup Answers, Operate(o, rec),
         HonestReply(o)', UNCHANGED <<w, view>>,
         store' \in [Runs -> Records], age' \in [Runs -> 0 .. 2],
         idle' \in [Runs -> BOOLEAN], faults' \in 0 .. MaxFaults,
         SameBridged, HonestStore
  PROVE  ConsoleTyped' /\ BridgeInv' /\ HonestInv'
<1>1. op' = [op EXCEPT ![o] = rec] /\ op \in [Operators -> {Idle} \cup Ended \cup AtRun \cup Answers]
  BY DEF Operate, IInv, Typed, ConsoleTyped
<1>2. ConsoleTyped'
  BY <1>1 DEF IInv, Typed, ConsoleTyped
<1>3. \A p \in Operators : HonestReply(p)'
  BY <1>1, ReplyKept
<1>4. ViewBehind' /\ HonestView'
  BY ViewKept
<1>5. \A r \in Runs : Behind(r)' /\ HonestRun(r)'
  BY CopiesKept DEF SameCopies, SameBridged
<1>6. QED
  BY <1>2, <1>3, <1>4, <1>5 DEF BridgeInv, HonestInv

\* One record changes.
LEMMA RecordKept ==
  ASSUME IInv, EarnedGrows, NEW r \in Runs, NEW rec \in Records,
         store' = [store EXCEPT ![r] = rec], rec.bridged = store[r].bridged,
         Honest(earned'[r], rec)
  PROVE  store' \in [Runs -> Records] /\ SameBridged /\ HonestStore
<1>1. store \in [Runs -> Records]
  BY DEF IInv, Typed, ConsoleTyped
<1>2. HonestStore
  BY <1>1, RunFacts DEF HonestStore, Honest, EarnedGrows
<1>3. QED
  BY <1>1, <1>2 DEF SameBridged

LEMMA StoreUntouched ==
  ASSUME IInv, EarnedGrows, UNCHANGED store
  PROVE  store' \in [Runs -> Records] /\ SameBridged /\ HonestStore
BY RunFacts DEF IInv, Typed, ConsoleTyped, SameBridged, HonestStore, Honest, EarnedGrows

LEMMA TimesTyped ==
  ASSUME IInv
  PROVE  /\ UNCHANGED times => age' \in [Runs -> 0 .. 2] /\ idle' \in [Runs -> BOOLEAN]
         /\ UNCHANGED faults => faults' \in 0 .. MaxFaults
BY DEF IInv, Typed, ConsoleTyped, times

\* The reply that a conclusion gives is earned, or a verdict on what did not run.
LEMMA ReplyIsTyped ==
  ASSUME NEW r \in Runs, NEW reply \in Earnable \cup {"FAIL", "rejected"}
  PROVE  [pc |-> "answered", run |-> r, reply |-> reply] \in Answers
BY DEF Answers

LEMMA AnswerKeeps ==
  ASSUME IInv, EarnedGrows, NEW o \in Operators, op[o].pc \in {"sent", "applying"},
         NEW reply \in Earnable \cup {"FAIL", "rejected"}, Answered(o, reply),
         reply \in earned'[op[o].run] \cup {"NEEDS_REVIEW", "FAIL", "rejected"},
         UNCHANGED <<store, times, w, view, faults>>
  PROVE  ConsoleTyped' /\ BridgeInv' /\ HonestInv'
<1> DEFINE rec == [pc |-> "answered", run |-> op[o].run, reply |-> reply]
<1>1. HonestReply(o) /\ op[o].run \in Runs /\ op \in [Operators -> {Idle} \cup Ended \cup AtRun \cup Answers]
  BY OperatorFacts
<1>2. rec \in Answers /\ Operate(o, rec)
  BY <1>1, ReplyIsTyped DEF Answered
<1>3. op'[o] = rec
  BY <1>1, <1>2 DEF Operate
<1>4. HonestReply(o)'
  BY <1>1, <1>3 DEF HonestReply, EarnedGrows
<1>5. store' \in [Runs -> Records] /\ SameBridged /\ HonestStore
  BY StoreUntouched
<1>6. QED
  BY <1>2, <1>4, <1>5, TimesTyped, OperatorKeeps

LEMMA ResumeKeeps ==
  ASSUME IInv, AgentsTyped', EarnedGrows, NEW o \in Operators, Resume(o)
  PROVE  ConsoleTyped' /\ BridgeInv' /\ HonestInv'
<1>1. HonestReply(o) /\ op \in [Operators -> {Idle} \cup Ended \cup AtRun \cup Answers]
  BY OperatorFacts
<1>2. CASE ResumeChecks(o)
  <2>1. PICK r \in Runs : Resumable(store[r]) /\ Operate(o, [pc |-> "seen", run |-> r])
    BY <1>2 DEF ResumeChecks
  <2>2. UNCHANGED <<store, times, w, earned, view, faults>>
    BY <1>2 DEF ResumeChecks, agents
  <2>3. Waiting \in earned[r]
    BY <2>1, RunFacts DEF Resumable, Honest
  <2>4. [pc |-> "seen", run |-> r] \in AtRun
    BY DEF AtRun
  <2>5. op'[o] = [pc |-> "seen", run |-> r]
    BY <1>1, <2>1 DEF Operate
  <2>6. HonestReply(o)'
    BY <2>2, <2>3, <2>5 DEF HonestReply
  <2>7. QED
    BY <2>1, <2>2, <2>4, <2>6, StoreUntouched, TimesTyped, OperatorKeeps
<1>3. CASE ResumeBegins(o)
  <2> DEFINE r == op[o].run
             rec == [store[r] EXCEPT !.status = "resuming"]
             request == [op[o] EXCEPT !.pc = "sent"]
  <2>1. /\ op[o].pc = "seen" /\ Write(r, rec) /\ Operate(o, request)
        /\ UNCHANGED <<w, earned, view>>
    BY <1>3 DEF ResumeBegins, agents
  <2>2. op[o] \in AtRun /\ r \in Runs
    BY <2>1, OperatorFacts
  <2>3. request \in AtRun /\ request.run = r /\ request.pc = "sent"
    BY <2>2 DEF AtRun
  <2>4. rec \in Records /\ rec.bridged = store[r].bridged /\ Honest(earned[r], rec)
    BY <2>2, RunFacts, HonestRecords DEF Records, Statuses, Active
  <2>5. store' = [store EXCEPT ![r] = rec]
    BY <2>1 DEF Write
  <2>6. store' \in [Runs -> Records] /\ SameBridged /\ HonestStore
    BY <2>1, <2>2, <2>4, <2>5, RecordKept
  <2>7. /\ age' \in [Runs -> 0 .. 2] /\ idle' \in [Runs -> BOOLEAN]
        /\ faults' \in 0 .. MaxFaults
    BY <2>1, <2>2, <2>4, WriteFacts, RunFacts
  <2>8. op'[o] = request
    BY <1>1, <2>1 DEF Operate
  <2>9. HonestReply(o)'
    BY <1>1, <2>1, <2>3, <2>8 DEF HonestReply
  <2>10. QED
    BY <2>1, <2>3, <2>6, <2>7, <2>9, OperatorKeeps
<1>4. CASE ResumeServed(o)
  <2> DEFINE r == op[o].run
  <2>1. op[o].pc = "sent" /\ UNCHANGED <<store, times, w, earned, view, faults>>
    BY <1>4 DEF ResumeServed, agents
  <2>2. op[o] \in AtRun /\ r \in Runs
    BY <2>1, OperatorFacts
  <2>3. snap[r] \in Earnable \cup {"none"} /\ (snap[r] # "none" => snap[r] \in earned[r])
    BY <2>2 DEF IInv, Typed, AgentsTyped, AgentsInv, Concluded
  <2>4. CASE snap[r] # "none" /\ applied[r]
    <3>1. PICK c \in Reported(snap[r]) : Answered(o, c)
      BY <1>4, <2>4 DEF ResumeServed
    <3>2. c \in Earnable \cup {"FAIL"} /\ c \in earned[r] \cup {"NEEDS_REVIEW", "FAIL"}
      BY <2>3, <2>4 DEF Reported, Earnable
    <3>3. QED
      BY <2>1, <3>1, <3>2, AnswerKeeps
  <2>5. CASE Answered(o, "rejected")
    BY <2>1, <2>5, AnswerKeeps
  <2>6. CASE Operate(o, [op[o] EXCEPT !.pc = "applying"])
    <3> DEFINE request == [op[o] EXCEPT !.pc = "applying"]
    <3>1. request \in AtRun /\ request.run = r /\ request.pc = "applying"
      BY <2>2 DEF AtRun
    <3>2. op'[o] = request
      BY <1>1, <2>6 DEF Operate
    <3>3. HonestReply(o)'
      BY <1>1, <2>1, <3>1, <3>2 DEF HonestReply
    <3>4. QED
      BY <2>1, <2>6, <3>1, <3>3, StoreUntouched, TimesTyped, OperatorKeeps
  <2>7. QED
    BY <1>4, <2>4, <2>5, <2>6 DEF ResumeServed
<1>5. CASE ResumeEnds(o)
  <2> DEFINE r == op[o].run
  <2>1. op[o].pc = "applying" /\ UNCHANGED <<store, times, w, view, faults>>
    BY <1>5 DEF ResumeEnds
  <2>2. op[o] \in AtRun /\ r \in Runs /\ earned \in [Runs -> SUBSET Earnable]
    BY <2>1, OperatorFacts DEF IInv, Typed, AgentsTyped
  <2>3. CASE \E c \in Reported(Waiting) : Answered(o, c)
    BY <2>1, <2>3, AnswerKeeps DEF Reported, Earnable
  <2>4. ASSUME NEW res \in Results, earned' = [earned EXCEPT ![r] = @ \cup {res}],
               NEW c \in Reported(res), Answered(o, c)
        PROVE  ConsoleTyped' /\ BridgeInv' /\ HonestInv'
    <3>1. res \in earned'[r]
      BY <2>2, <2>4
    <3>2. c \in Earnable \cup {"FAIL"} /\ c \in earned'[r] \cup {"NEEDS_REVIEW", "FAIL"}
      BY <3>1 DEF Reported, Earnable
    <3>3. QED
      BY <2>1, <2>4, <3>2, AnswerKeeps
  <2>5. CASE Answered(o, "rejected")
    BY <2>1, <2>5, AnswerKeeps
  <2>6. QED
    BY <1>5, <2>3, <2>4, <2>5 DEF ResumeEnds
<1>6. CASE ResumeLost(o)
  <2> DEFINE r == op[o].run
             rec == [store[r] EXCEPT !.status = "waiting_approval"]
  <2>1. /\ op[o].pc \in {"sent", "applying"} /\ Operate(o, [pc |-> "done"])
        /\ store' = [store EXCEPT ![r] = rec]
        /\ UNCHANGED <<times, w, earned, view, faults>>
    BY <1>6 DEF ResumeLost, agents
  <2>2. r \in Runs /\ Waiting \in earned[r] /\ store[r] \in Records
    BY <1>1, <2>1, OperatorFacts, RunFacts DEF HonestReply
  <2>3. rec \in Records /\ rec.bridged = store[r].bridged /\ Honest(earned[r], rec)
    BY <2>2 DEF Honest, Records, Statuses
  <2>4. store' \in [Runs -> Records] /\ SameBridged /\ HonestStore
    BY <2>1, <2>2, <2>3, RecordKept
  <2>5. [pc |-> "done"] \in Ended /\ op'[o] = [pc |-> "done"]
    BY <1>1, <2>1 DEF Operate, Ended
  <2>6. HonestReply(o)'
    BY <2>5 DEF HonestReply
  <2>7. QED
    BY <2>1, <2>4, <2>5, <2>6, TimesTyped, OperatorKeeps
<1>7. CASE ResumeReplies(o)
  <2> DEFINE r == op[o].run
  <2>1. /\ op[o].pc = "answered" /\ Operate(o, [pc |-> "done"])
        /\ UNCHANGED <<w, earned, view>>
    BY <1>7 DEF ResumeReplies, agents
  <2>2. /\ r \in Runs /\ Waiting \in earned[r] /\ store[r] \in Records
        /\ op[o].reply \in Earnable \cup {"FAIL", "rejected"}
        /\ op[o].reply \in earned[r] \cup {"NEEDS_REVIEW", "FAIL", "rejected"}
    BY <1>1, <2>1, OperatorFacts, RunFacts DEF HonestReply, Answers
  <2>3. [pc |-> "done"] \in Ended /\ op'[o] = [pc |-> "done"]
    BY <1>1, <2>1 DEF Operate, Ended
  <2>4. HonestReply(o)'
    BY <2>3 DEF HonestReply
  <2>5. CASE op[o].reply = "rejected"
    <3> DEFINE rec == [store[r] EXCEPT !.status = "waiting_approval"]
    <3>1. store' = [store EXCEPT ![r] = rec] /\ UNCHANGED <<times, faults>>
      BY <1>7, <2>5 DEF ResumeReplies
    <3>2. rec \in Records /\ rec.bridged = store[r].bridged /\ Honest(earned[r], rec)
      BY <2>2 DEF Honest, Records, Statuses
    <3>3. store' \in [Runs -> Records] /\ SameBridged /\ HonestStore
      BY <2>1, <2>2, <3>1, <3>2, RecordKept
    <3>4. QED
      BY <2>1, <2>3, <2>4, <3>1, <3>3, TimesTyped, OperatorKeeps
  <2>6. CASE op[o].reply # "rejected"
    <3> DEFINE rec == Apply(store[r], op[o].reply)
    <3>1. Write(r, rec) /\ op[o].reply \in Earnable \cup {"FAIL"}
      BY <1>7, <2>2, <2>6 DEF ResumeReplies
    <3>2. op[o].reply \in Conclusions
      BY <3>1, ResultsAreConclusions
    <3>3. rec \in Records /\ rec.bridged = store[r].bridged /\ Honest(earned[r], rec)
      BY <2>2, <2>6, <3>1, <3>2, ApplyFacts, HonestApply
    <3>4. store' = [store EXCEPT ![r] = rec]
      BY <3>1 DEF Write
    <3>5. store' \in [Runs -> Records] /\ SameBridged /\ HonestStore
      BY <2>1, <2>2, <3>3, <3>4, RecordKept
    <3>6. /\ age' \in [Runs -> 0 .. 2] /\ idle' \in [Runs -> BOOLEAN]
          /\ faults' \in 0 .. MaxFaults
      BY <2>2, <3>1, <3>3, WriteFacts, RunFacts
    <3>7. QED
      BY <2>1, <2>3, <2>4, <3>5, <3>6, OperatorKeeps
  <2>7. QED
    BY <2>5, <2>6
<1>8. QED
  BY <1>2, <1>3, <1>4, <1>5, <1>6, <1>7 DEF Resume

-----------------------------------------------------------------------------
\* GET /api/runs/[id].
LEMMA ViewReadsKeeps ==
  ASSUME IInv, EarnedGrows, ViewReads
  PROVE  ConsoleTyped' /\ BridgeInv' /\ HonestInv'
<1>1. PICK r \in Runs : /\ Answer(r) = "completed"
                        /\ view' = [pc |-> "read", run |-> r,
                                    copy |-> Apply(store[r], Payload(r))]
  BY DEF ViewReads, Says
<1>2. UNCHANGED <<store, age, idle, w, op, earned, faults>>
  BY DEF ViewReads, times, agents
<1>3. Payload(r) \in Earnable /\ Payload(r) \in Conclusions /\ Payload(r) \in earned[r]
  BY <1>1, PayloadIsEarned, ResultsAreConclusions DEF IInv, Earnable
<1>4. /\ Apply(store[r], Payload(r)) \in Records
      /\ Apply(store[r], Payload(r)).bridged = store[r].bridged
      /\ Honest(earned[r], Apply(store[r], Payload(r)))
  BY <1>3, RunFacts, ApplyFacts, HonestApply
<1>5. view' \in Views
  BY <1>1, <1>4 DEF Views
<1>6. ConsoleTyped'
  BY <1>2, <1>5 DEF IInv, Typed, ConsoleTyped
<1>7. ViewBehind' /\ HonestView'
  BY <1>1, <1>2, <1>4 DEF ViewBehind, HonestView
<1>8. QED
  BY <1>2, <1>6, <1>7, ReplyKept, QuietKeeps

LEMMA ViewPersistsKeeps ==
  ASSUME IInv, EarnedGrows, ViewPersists
  PROVE  ConsoleTyped' /\ BridgeInv' /\ HonestInv'
<1> DEFINE r == view.run
           rec == view.copy
<1>1. view.pc = "read" /\ Write(r, rec) /\ view' = Idle /\ UNCHANGED <<w, op, earned>>
  BY DEF ViewPersists, agents
<1>2. /\ r \in Runs /\ rec \in Records /\ Honest(earned[r], rec)
      /\ rec.bridged => store[r].bridged
  BY <1>1, ViewIsTyped DEF IInv, Typed, BridgeInv, HonestInv, ViewBehind, HonestView, Views
<1>3. /\ store' \in [Runs -> Records] /\ store'[r] = rec
      /\ \A q \in Runs \ {r} : store'[q] = store[q]
      /\ age' \in [Runs -> 0 .. 2] /\ idle' \in [Runs -> BOOLEAN]
      /\ faults' \in 0 .. MaxFaults
  BY <1>1, <1>2, WriteFacts, RunFacts
<1>4. ConsoleTyped'
  BY <1>1, <1>3 DEF IInv, Typed, ConsoleTyped
<1>5. SameCopies
  BY <1>1 DEF SameCopies
<1>6. HonestStore
  BY <1>2, <1>3, RunFacts DEF HonestStore, Honest, EarnedGrows
<1>7. \A q \in Runs : store'[q].bridged => store[q].bridged
  BY <1>2, <1>3
<1>8. \A q \in Runs : Behind(q)' /\ HonestRun(q)'
  BY <1>5, <1>6, <1>7, CopiesKept
<1>9. ViewBehind' /\ HonestView'
  BY <1>1 DEF ViewBehind, HonestView, Idle
<1>10. QED
  BY <1>1, <1>4, <1>8, <1>9, ReplyKept DEF BridgeInv, HonestInv

\* The console is restarted, the server dies or boots.
LEMMA ConsoleDiesKeeps ==
  ASSUME IInv, EarnedGrows, ConsoleDies
  PROVE  ConsoleTyped' /\ BridgeInv' /\ HonestInv'
<1>1. /\ w' = [r \in Runs |-> IF w[r].pc \in {"refused", "done"} THEN w[r]
                              ELSE [w[r] EXCEPT !.pc = "lost"]]
      /\ op' = [o \in Operators |-> IF op[o] = Idle THEN Idle ELSE [pc |-> "done"]]
      /\ view' = Idle /\ UNCHANGED <<store, age, idle, earned>>
      /\ faults' = faults + 1 /\ faults < MaxFaults
  BY DEF ConsoleDies, Fault, times, agents
<1>2. \A r \in Runs : w[r] \in Workers /\ (w[r].pc = "refused" => w[r].tries < MaxTries)
  BY RunFacts
<1>3. ASSUME NEW r \in Runs
      PROVE  /\ w'[r] \in Workers /\ w'[r].copy = w[r].copy
             /\ w'[r] = w[r] \/ w'[r].pc = "lost"
             /\ w'[r].pc \notin {"fallback", "done", "lost"} => w'[r].tries < MaxTries
  BY <1>1, <1>2 DEF Workers, WorkerLabels
<1>4. ASSUME NEW o \in Operators PROVE op'[o] \in {Idle} \cup Ended
  BY <1>1 DEF Ended
<1>5. w' \in [Runs -> Workers] /\ op' \in [Operators -> {Idle} \cup Ended \cup AtRun \cup Answers]
  BY <1>1, <1>3, <1>4
<1>6. faults' \in 0 .. MaxFaults
  BY <1>1, BoundsAssumption DEF IInv, Typed, ConsoleTyped
<1>7. ConsoleTyped'
  BY <1>1, <1>3, <1>5, <1>6 DEF IInv, Typed, ConsoleTyped
<1>8. \A r \in Runs : Behind(r)' /\ HonestRun(r)'
  <2>1. SameCopies
    BY <1>3 DEF SameCopies
  <2>2. HonestStore
    BY <1>1, RunFacts DEF HonestStore
  <2>3. QED
    BY <1>1, <2>1, <2>2, CopiesKept
<1>9. ViewBehind' /\ HonestView'
  BY <1>1 DEF ViewBehind, HonestView, Idle
<1>10. \A o \in Operators : HonestReply(o)'
  BY <1>4 DEF HonestReply, Idle, Ended
<1>11. QED
  BY <1>7, <1>8, <1>9, <1>10 DEF BridgeInv, HonestInv

LEMMA ServerDiesKeeps ==
  ASSUME IInv, EarnedGrows, ServerDies
  PROVE  ConsoleTyped' /\ BridgeInv' /\ HonestInv'
<1>1. /\ op' = [o \in Operators |-> IF op[o].pc # "applying" THEN op[o]
                  ELSE [pc |-> "answered", run |-> op[o].run, reply |-> "rejected"]]
      /\ UNCHANGED <<store, age, idle, w, earned, view>>
      /\ faults' = faults + 1 /\ faults < MaxFaults
  BY DEF ServerDies, Fault, times
<1>2. faults' \in 0 .. MaxFaults
  BY <1>1, BoundsAssumption DEF IInv, Typed, ConsoleTyped
<1>3. ASSUME NEW o \in Operators
      PROVE  /\ op'[o] \in {Idle} \cup Ended \cup AtRun \cup Answers
             /\ HonestReply(o)'
  <2>1. CASE op[o].pc # "applying"
    BY <1>1, <2>1, OperatorFacts, ReplyKept
  <2>2. CASE op[o].pc = "applying"
    <3>1. op[o].run \in Runs /\ HonestReply(o)
      BY <2>2, OperatorFacts
    <3>2. op'[o] = [pc |-> "answered", run |-> op[o].run, reply |-> "rejected"]
      BY <1>1, <2>2
    <3>3. QED
      BY <1>1, <2>2, <3>1, <3>2, ReplyIsTyped DEF HonestReply
  <2>3. QED
    BY <2>1, <2>2
<1>4. op' \in [Operators -> {Idle} \cup Ended \cup AtRun \cup Answers]
  BY <1>1, <1>3
<1>5. ConsoleTyped'
  BY <1>1, <1>2, <1>4 DEF IInv, Typed, ConsoleTyped
<1>6. ViewBehind' /\ HonestView'
  BY <1>1, ViewKept DEF SameBridged
<1>7. QED
  BY <1>1, <1>3, <1>5, <1>6, QuietKeeps

LEMMA StepIInv == IInv /\ [Next]_vars => IInv'
<1> SUFFICES ASSUME IInv, [Next]_vars PROVE ConsoleTyped' /\ BridgeInv' /\ HonestInv'
  BY StepAgents DEF IInv, Typed
<1>1. EarnedGrows /\ AgentsTyped'
  BY StepAgents DEF IInv
<1>2. CASE List
  <2>1. PICK quick \in SUBSET Runs : Reconcile(quick)
    BY <1>2 DEF List
  <2>2. UNCHANGED <<w, op, view, earned, faults>> /\ SameCopies
    BY <1>2 DEF List, agents, SameCopies
  <2>3. w' \in [Runs -> Workers]
    BY <2>2 DEF IInv, Typed, ConsoleTyped
  <2>4. QED
    BY <1>1, <2>1, <2>2, <2>3, ReconcileKeeps
<1>3. ASSUME NEW r \in Runs, Submit(r)
      PROVE  ConsoleTyped' /\ BridgeInv' /\ HonestInv'
  BY <1>1, <1>3, GateKeeps, WorkerSavesKeep, KeepingIsEnough DEF Submit
<1>4. ASSUME NEW r \in Runs, Worker(r)
      PROVE  ConsoleTyped' /\ BridgeInv' /\ HonestInv'
  BY <1>1, <1>4, WorkerSavesKeep, ServerStepsKeep, KeepingIsEnough DEF Worker
<1>5. ASSUME NEW r \in Runs, Agent(r) \/ Tick(r)
      PROVE  ConsoleTyped' /\ BridgeInv' /\ HonestInv'
  BY <1>1, <1>5, AgentKeeps, SpawnEndsKeeps, TickKeeps
<1>6. ASSUME NEW o \in Operators, Resume(o)
      PROVE  ConsoleTyped' /\ BridgeInv' /\ HonestInv'
  BY <1>1, <1>6, ResumeKeeps
<1>7. CASE ServerBoots \/ UNCHANGED vars
  <2>1. UNCHANGED <<store, w, op, view, faults, age, idle>>
    BY <1>7 DEF ServerBoots, Console, times, vars
  <2>2. age' \in [Runs -> 0 .. 2] /\ idle' \in [Runs -> BOOLEAN]
    BY <2>1 DEF IInv, Typed, ConsoleTyped
  <2>3. QED
    BY <1>1, <2>1, <2>2, ElsewhereKeeps
<1>8. QED
  BY <1>1, <1>2, <1>3, <1>4, <1>5, <1>6, <1>7, ViewReadsKeeps, ViewPersistsKeeps,
     ConsoleDiesKeeps, ServerDiesKeeps DEF Next

\* IInv holds in every state of every behaviour.
LEMMA Invariance == Spec => []IInv
BY InitIInv, StepIInv, PTL DEF Spec

-----------------------------------------------------------------------------
\* Every variable stays in its domain, and what is on disk or in a payload is
\* something an agent concluded.
THEOREM TypeCorrect == Spec => []TypeOK
<1>1. IInv => TypeOK
  BY DEF IInv, Typed, ConsoleTyped, AgentsTyped, AgentsInv, Concluded, Registered, TypeOK,
         Workers, Earnable
<1>2. QED
  BY <1>1, Invariance, PTL

\* WarmRunRegistry.accept starts a run at most once while the server is up,
\* whatever finishRun retries, recovers or loses.
THEOREM AcceptsOnce == Spec => []StartsOnce
<1>1. IInv => StartsOnce
  BY DEF IInv, AgentsInv, Registered, StartsOnce
<1>2. QED
  BY <1>1, Invariance, PTL

\* No retry, reconciliation, hydration or resume makes a conclusion up: a run
\* that state.json shows as completed was passed by an agent, one that it shows
\* as waiting has waited.
THEOREM ConclusionsAreEarned == Spec => []ShownIsEarned
<1>1. IInv => ShownIsEarned
  BY RunFacts DEF ShownIsEarned, Honest
<1>2. QED
  BY <1>1, Invariance, PTL

\* shouldSkipDuplicateOrchestration: once state.json records that the agent was
\* called, no retry of finishRun starts a thread or a process for the run.
THEOREM BridgedIsFinal == Spec => BridgedRunsOnce
<1> DEFINE StartsNothing(r) == starts'[r] <= starts[r] /\ (spawned'[r] = "run" => spawned[r] = "run")
<1>1. ASSUME IInv, [Next]_vars, NEW r \in Runs, store[r].bridged PROVE StartsNothing(r)
  <2>1. /\ starts \in [Runs -> Nat] /\ Behind(r) /\ w[r].pc \notin Uncalled
        /\ spawned \in [Runs -> {"none", "run"} \cup Results] /\ "run" \notin Results
    BY <1>1, RunFacts, ResultsAssumption DEF Typed, AgentsTyped, Behind
  <2>2. ~PostTaken(r) /\ ~Probe(r)
    BY <2>1 DEF PostTaken, Probe, Says, Uncalled
  <2>3. CASE UNCHANGED agents \/ ServerBoots
    BY <2>1, <2>3 DEF agents, server, ServerBoots, Calm
  <2>4. ASSUME NEW q \in Runs, PostTaken(q) PROVE StartsNothing(r)
    <3>1. /\ UNCHANGED spawned
          /\ starts' = starts \/ starts' = [starts EXCEPT ![q] = @ + 1]
      BY <2>4 DEF PostTaken, Accepted, Accept, Calm, server
    <3>2. QED
      BY <2>1, <2>2, <2>4, <3>1
  <2>5. ASSUME NEW q \in Runs, Probe(q) PROVE StartsNothing(r)
    <3>1. /\ UNCHANGED starts
          /\ spawned' = spawned \/ spawned' = [spawned EXCEPT ![q] = "run"]
      BY <2>5 DEF Probe, Says, server
    <3>2. QED
      BY <2>1, <2>2, <2>5, <3>1
  <2>6. ASSUME NEW q \in Runs, Agent(q) PROVE StartsNothing(r)
    <3>1. /\ UNCHANGED starts
          /\ \/ spawned' = spawned
             \/ \E x \in Results \cup {"none"} : spawned' = [spawned EXCEPT ![q] = x]
      BY <2>6 DEF Agent, ThreadSaves, ThreadFinishes, ThreadStores, ThreadFails, SpawnSaves,
                  SpawnEnds, PayloadOf, server, Calm
    <3>2. QED
      BY <2>1, <3>1
  <2>7. ASSUME NEW o \in Operators, ResumeEnds(o) PROVE StartsNothing(r)
    BY <2>1, <2>7 DEF ResumeEnds, server
  <2>8. CASE ServerDies
    BY <2>1, <2>8 DEF ServerDies
  <2>9. QED
    BY <1>1, <2>3, <2>4, <2>5, <2>6, <2>7, <2>8, AgentsChange
<1>2. IInv /\ [Next]_vars
        => [\A r \in Runs : store[r].bridged =>
              /\ starts'[r] <= starts[r]
              /\ spawned'[r] = "run" => spawned[r] = "run"]_vars
  BY <1>1
<1>3. QED
  BY <1>2, Invariance, PTL DEF Spec, BridgedRunsOnce
=============================================================================
