------------------------------ MODULE LiveRun ------------------------------
(***************************************************************************)
(* Playwright executions of the warm agent server: invocations (threads)   *)
(* that share os.environ and one PlaywrightRunner, the Playwright workers  *)
(* they start, the Chrome profile of a run with session.json and           *)
(* close.signal, the detached keeper of a browser left open, the operator  *)
(* who asks to close it, the event file two programs number, and what the  *)
(* SSE stream of the console delivers of it.                               *)
(***************************************************************************)
EXTENDS Integers, Sequences, FiniteSets, FiniteSetsExt

CONSTANTS
  Invocations, \* at most so many
  Runs,       \* run ids
  Watched,    \* those somebody may ask to close the browser of
  None,
  Keep,       \* QA_KEEP_BROWSER_OPEN in the environment the server was booted with
  MaxLines,   \* events a worker writes at most
  MaxFaults   \* reboots, timeouts and unreachable browsers at most

ASSUME LiveRunAssumption ==
  /\ Invocations \in Nat /\ MaxLines \in Nat /\ MaxFaults \in Nat
  /\ Watched \subseteq Runs /\ None \notin Runs /\ Keep \in BOOLEAN

Threads == 1..Invocations   \* one thread each, in the order they are accepted

Modes == {"CI", "LIVE", "DRY_RUN"}   \* LIVE also stands for LIVE_DEMO
Statuses == {"STARTING", "ACTIVE", "UNAVAILABLE", "CLOSED"}

VARIABLES
  environ,    \* os.environ of the server process
  context,    \* runner._run_id
  counter,    \* LiveEventStore._sequence of each run, in the process
  inv,        \* invocations
  worker,     \* the Playwright worker of each invocation
  keeper,     \* live-browser-keeper.mjs spawned by that worker
  session,    \* session.json of each profile: status, None if missing
  signal,     \* profiles with a close.signal
  browser,    \* profiles with a live Chrome
  events,     \* the lines of each run's event file
  closing,    \* runs whose close route has read the session and will write the signal
  contested,  \* invocations whose context another one overwrote before its use (history)
  odd,        \* what went wrong with a run's files and browser (history)
  faults

vars == <<environ, context, counter, inv, worker, keeper, session, signal, browser,
          events, closing, contested, odd, faults>>

-----------------------------------------------------------------------------
(* live_browser_config: the mode is kept in os.environ, and read back from it. *)

Boot == [mode |-> "CI", live |-> FALSE, keep |-> Keep, dry |-> FALSE]

Config(env) ==
  [live |-> env.live \/ env.mode = "LIVE",
   keep |-> env.mode = "LIVE" /\ env.keep]

Applied(env, mode) ==
  LET cfg == Config([env EXCEPT !.mode = mode])
  IN  [mode |-> mode, live |-> cfg.live, keep |-> cfg.keep,
       dry |-> mode = "DRY_RUN" \/ (env.dry /\ ~cfg.live)]

-----------------------------------------------------------------------------
(* The event file. *)

MaxSequence(file) == Max({0} \union {file[i].seq : i \in 1..Len(file)})

\* The worker takes the sequence from the file (the server from a counter of
\* its own). The first two are what a slip would make of it.
NextOfWorkerBySize(file) == Len(file) + 2
NextOfWorkerOwn(file) == 1 + Cardinality({i \in 1..Len(file) : file[i].by = "worker"})
NextOfWorker(file) == MaxSequence(file) + 1

\* What one read of the file by the stream route sends to the panel, as line
\* numbers, when the last sequence sent was cursor.
Delivered(file, cursor) ==
  {i \in 1..Len(file) : file[i].seq > cursor /\ \A j \in 1..(i - 1) : file[j].seq < file[i].seq}

Line(seq, by) == [seq |-> seq, by |-> by]

Between(r) == \E t \in Threads : worker[t].at = "reading" /\ worker[t].run = r

\* LiveEventStore.emit of the server.
Emit(r) ==
  /\ counter' = [counter EXCEPT ![r] = @ + 1]
  /\ events' = [events EXCEPT ![r] = Append(@, Line(counter[r] + 1, "server"))]

EmitIf(yes, r) == IF yes THEN Emit(r) ELSE UNCHANGED <<counter, events>>

Crossed(yes, r) == IF yes /\ Between(r) THEN {"crossed"} ELSE {}

-----------------------------------------------------------------------------
Idle == [at |-> "idle", run |-> None, skip |-> FALSE, live |-> FALSE, keep |-> FALSE]
NoWorker == [at |-> "none", run |-> None, live |-> FALSE, keep |-> FALSE, lines |-> 0, seq |-> 0]

\* What is left of an invocation or a worker that is over.
Over(i, at) == [Idle EXCEPT !.at = at, !.run = i.run]
Gone(w) == [NoWorker EXCEPT !.at = "gone", !.run = w.run]

Init ==
  /\ environ = Boot
  /\ context = None
  /\ counter = [r \in Runs |-> 0]
  /\ inv = [t \in Threads |-> Idle]
  /\ worker = [t \in Threads |-> NoWorker]
  /\ keeper = [t \in Threads |-> "none"]
  /\ session = [r \in Runs |-> None]
  /\ signal = {} /\ browser = {} /\ closing = {}
  /\ events = [r \in Runs |-> <<>>]
  /\ contested = {}
  /\ odd = [r \in Runs |-> {}]
  /\ faults = 0

Free(t) == inv[t] = Idle /\ \A u \in 1..(t - 1) : inv[u] # Idle

Started(r) == \E t \in Threads : inv[t].run = r
Paused(r) == \E t \in Threads : inv[t].run = r /\ inv[t].at = "done"

\* POST /run: the mode goes to os.environ; DRY_RUN never executes.
Accept(t, r, mode) ==
  /\ Free(t)
  /\ ~Started(r)
  /\ environ' = Applied(environ, mode)
  /\ inv' = [inv EXCEPT ![t] = [Idle EXCEPT !.at = "planned", !.run = r,
                                            !.skip = (mode = "DRY_RUN")]]
  /\ UNCHANGED <<context, counter, worker, keeper, session, signal, browser, events,
                 closing, contested, odd, faults>>

\* POST /agent/<id>/resume: whatever the environment says by now.
Resume(t, r) ==
  /\ Free(t)
  /\ Paused(r)
  /\ inv' = [inv EXCEPT ![t] = [Idle EXCEPT !.at = "planned", !.run = r]]
  /\ UNCHANGED <<environ, context, counter, worker, keeper, session, signal, browser,
                 events, closing, contested, odd, faults>>

\* The loop ends or pauses without an execution.
NoExecution(t) ==
  /\ inv[t].at = "planned"
  /\ inv' = [inv EXCEPT ![t] = Over(@, "final")]
  /\ UNCHANGED <<environ, context, counter, worker, keeper, session, signal, browser,
                 events, closing, contested, odd, faults>>

\* A slip: the first context stays.
SetContextOnce(t) ==
  /\ inv[t].at = "planned" /\ ~inv[t].skip
  /\ context' = IF context = None THEN inv[t].run ELSE context
  /\ contested' = contested \union
       {u \in Threads \ {t} : inv[u].at \in {"selected", "command"} /\ inv[u].run # inv[t].run}
  /\ inv' = [inv EXCEPT ![t].at = "selected"]
  /\ UNCHANGED <<environ, counter, worker, keeper, session, signal, browser, events,
                 closing, odd, faults>>

\* AgentExecutor.run_existing_test: the runner is shared by all invocations.
SetContext(t) ==
  /\ inv[t].at = "planned" /\ ~inv[t].skip
  /\ context' = inv[t].run
  /\ contested' = contested \union
       {u \in Threads \ {t} : inv[u].at \in {"selected", "command"} /\ inv[u].run # inv[t].run}
  /\ inv' = [inv EXCEPT ![t].at = "selected"]
  /\ UNCHANGED <<environ, counter, worker, keeper, session, signal, browser, events,
                 closing, odd, faults>>

\* run_selection: a live configuration under QA_RUNNER=dry_run is refused.
RunSelection(t) ==
  LET cfg == Config(environ)
      refused == cfg.live /\ environ.dry
  IN
  /\ inv[t].at = "selected"
  /\ inv' = [inv EXCEPT ![t] = IF refused THEN Over(@, "final")
                               ELSE [@ EXCEPT !.at = "command", !.live = cfg.live, !.keep = cfg.keep]]
  /\ EmitIf(cfg.live /\ ~refused, context)
  /\ odd' = [odd EXCEPT ![context] = @ \union Crossed(cfg.live /\ ~refused, context)]
  /\ UNCHANGED <<environ, context, worker, keeper, session, signal, browser,
                 closing, contested, faults>>

\* _prepare_live_subprocess_env: the profile and the event file are those of
\* the runner's run.  Several flow commands of a live run
\* collapse to one process, prepared alike (_run_live_collapsed).
Prepared(live) ==
  /\ session' = IF live THEN [session EXCEPT ![context] = "STARTING"] ELSE session
  /\ EmitIf(live, context)
  /\ odd' = [odd EXCEPT ![context] = @ \union Crossed(live, context)]

\* _run_command up to subprocess.run.
RunCommand(t) ==
  /\ inv[t].at = "command"
  /\ worker' = [worker EXCEPT ![t] = [NoWorker EXCEPT !.at = "starting", !.run = context,
                                        !.live = inv[t].live, !.keep = inv[t].keep]]
  /\ Prepared(inv[t].live)
  /\ inv' = [inv EXCEPT ![t].at = "running"]
  /\ UNCHANGED <<environ, context, keeper, signal, browser, closing,
                 contested, faults>>

\* mark_session_closed, and what the keeper does in its place. The server
\* never talks to the browser.
MarkClosed(r) ==
  /\ session' = [session EXCEPT ![r] = "CLOSED"]
  /\ signal' = signal \ {r}

\* CLOSED is written while Chrome lives.
Misstated(yes, r) == IF yes /\ r \in browser THEN {"misstated"} ELSE {}

\* After subprocess.run has returned. After a timeout nothing is written, and
\* the browser and the worker below npx go on.
AfterCommand(t, expired) ==
  LET live == inv[t].live /\ ~expired
  IN
  /\ inv[t].at = "running"
  /\ IF expired THEN faults < MaxFaults ELSE worker[t].at = "gone"
  /\ faults' = IF expired THEN faults + 1 ELSE faults
  /\ EmitIf(live, context)
  /\ IF live /\ ~inv[t].keep THEN MarkClosed(worker[t].run) ELSE UNCHANGED <<session, signal>>
  /\ odd' = [r \in Runs |-> odd[r] \union
               (IF r = context THEN Crossed(live, r) ELSE {}) \union
               Misstated(live /\ ~inv[t].keep /\ r = worker[t].run, r)]
  /\ inv' = [inv EXCEPT ![t] = Over(@, "final")]
  /\ UNCHANGED <<environ, context, worker, keeper, browser, closing, contested>>

\* finalize_live_browser_after_agent_run, with the configuration of the moment.
Finalize(t) ==
  LET cfg == Config(environ)
      close == cfg.live /\ ~cfg.keep
      r == inv[t].run
  IN
  /\ inv[t].at = "final"
  /\ EmitIf(close, r)
  /\ IF close THEN MarkClosed(r) ELSE UNCHANGED <<session, signal>>
  /\ odd' = [odd EXCEPT ![r] = @ \union Crossed(close, r) \union
               Misstated(close, r)]
  /\ inv' = [inv EXCEPT ![t] = Over(@, "done")]
  /\ UNCHANGED <<environ, context, worker, keeper, browser, closing,
                 contested, faults>>

\* The server is killed and started again; workers and keepers outlive it.
Reboot ==
  /\ faults < MaxFaults
  /\ faults' = faults + 1
  /\ environ' = Boot
  /\ context' = None
  /\ counter' = [r \in Runs |-> 0]
  /\ inv' = [t \in Threads |-> IF inv[t] = Idle THEN Idle ELSE Over(inv[t], "done")]
  /\ UNCHANGED <<worker, keeper, session, signal, browser, events, closing,
                 contested, odd>>

-----------------------------------------------------------------------------
(* The Playwright worker (scout-live.fixture.ts, live-launch-context.ts).     *)

\* Without the live fixture a worker touches none of the files.
WorkQuietly(t) ==
  /\ worker[t].at = "starting" /\ ~worker[t].live
  /\ worker' = [worker EXCEPT ![t] = Gone(@)]
  /\ UNCHANGED <<environ, context, counter, inv, keeper, session, signal, browser, events,
                 closing, contested, odd, faults>>

\* launchLiveContext: attach to the Chrome of the profile, or launch one.
Launch(t) ==
  LET r == worker[t].run IN
  /\ worker[t].at = "starting" /\ worker[t].live
  /\ r \in browser => session[r] \in {"STARTING", "ACTIVE"}
  /\ browser' = browser \union {r}
  /\ worker' = [worker EXCEPT ![t].at = "acting"]
  /\ UNCHANGED <<environ, context, counter, inv, keeper, session, signal, events,
                 closing, contested, odd, faults>>

\* BROWSER_UNAVAILABLE.
LaunchFails(t) ==
  LET r == worker[t].run IN
  /\ worker[t].at = "starting" /\ worker[t].live
  /\ r \in browser => session[r] \notin {"STARTING", "ACTIVE"}
  /\ session' = [session EXCEPT ![r] = "UNAVAILABLE"]
  /\ worker' = [worker EXCEPT ![t] = Gone(@)]
  /\ UNCHANGED <<environ, context, counter, inv, keeper, signal, browser, events,
                 closing, contested, odd, faults>>

\* LIVE_BROWSER_STALE: the Chrome of the profile does not answer over CDP.
AttachFails(t) ==
  LET r == worker[t].run IN
  /\ worker[t].at = "starting" /\ worker[t].live
  /\ r \in browser /\ session[r] \in {"STARTING", "ACTIVE"}
  /\ faults < MaxFaults
  /\ faults' = faults + 1
  /\ worker' = [worker EXCEPT ![t] = Gone(@)]
  /\ UNCHANGED <<environ, context, counter, inv, keeper, session, signal, browser, events,
                 closing, contested, odd>>

\* appendSequencedEvent under the lock file of the workers: readMaxSequence ...
ReadSequence(t) ==
  /\ worker[t].at = "acting" /\ worker[t].lines < MaxLines
  /\ ~Between(worker[t].run)
  /\ worker' = [worker EXCEPT ![t].at = "reading", ![t].seq = NextOfWorker(events[worker[t].run])]
  /\ UNCHANGED <<environ, context, counter, inv, keeper, session, signal, browser, events,
                 closing, contested, odd, faults>>

\* ... and appendFileSync. After the first event, LAUNCH, the session is ACTIVE.
WriteEvent(t) ==
  LET r == worker[t].run IN
  /\ worker[t].at = "reading"
  /\ events' = [events EXCEPT ![r] = Append(@, Line(worker[t].seq, "worker"))]
  /\ session' = IF worker[t].lines = 0 THEN [session EXCEPT ![r] = "ACTIVE"] ELSE session
  /\ worker' = [worker EXCEPT ![t].at = "acting", ![t].lines = @ + 1, ![t].seq = 0]
  /\ UNCHANGED <<environ, context, counter, inv, keeper, signal, browser, closing,
                 contested, odd, faults>>

\* Teardown without keep-open: the context is closed, then the session.
CloseContext(t) ==
  /\ worker[t].at = "acting" /\ worker[t].lines > 0 /\ ~worker[t].keep
  /\ browser' = browser \ {worker[t].run}
  /\ worker' = [worker EXCEPT ![t].at = "leaving"]
  /\ UNCHANGED <<environ, context, counter, inv, keeper, session, signal, events,
                 closing, contested, odd, faults>>

WriteClosed(t) ==
  LET r == worker[t].run IN
  /\ worker[t].at = "leaving"
  /\ session' = [session EXCEPT ![r] = "CLOSED"]
  /\ odd' = [odd EXCEPT ![r] = @ \union Misstated(TRUE, r)]
  /\ worker' = [worker EXCEPT ![t] = Gone(@)]
  /\ UNCHANGED <<environ, context, counter, inv, keeper, signal, browser, events, closing,
                 contested, faults>>

\* A slip: no keeper.
LeaveOpenAlone(t) ==
  LET r == worker[t].run IN
  /\ worker[t].at = "acting" /\ worker[t].lines > 0 /\ worker[t].keep
  /\ ~Between(r)
  /\ session' = [session EXCEPT ![r] = "ACTIVE"]
  /\ events' = [events EXCEPT ![r] = Append(@, Line(NextOfWorker(@), "worker"))]
  /\ worker' = [worker EXCEPT ![t] = Gone(@)]
  /\ UNCHANGED <<environ, context, counter, inv, keeper, signal, browser, closing,
                 contested, odd, faults>>

\* Teardown with keep-open: noteKeepOpenBrowserLeftRunning, spawnKeepOpenKeeper.
LeaveOpen(t) ==
  LET r == worker[t].run IN
  /\ worker[t].at = "acting" /\ worker[t].lines > 0 /\ worker[t].keep
  /\ ~Between(r)
  /\ session' = [session EXCEPT ![r] = "ACTIVE"]
  /\ events' = [events EXCEPT ![r] = Append(@, Line(NextOfWorker(@), "worker"))]
  /\ keeper' = [keeper EXCEPT ![t] = "watching"]
  /\ worker' = [worker EXCEPT ![t] = Gone(@)]
  /\ UNCHANGED <<environ, context, counter, inv, signal, browser, closing,
                 contested, odd, faults>>

-----------------------------------------------------------------------------
(* The keeper and the close route.                                           *)

KeeperSees(t) ==
  LET r == worker[t].run IN
  /\ keeper[t] = "watching"
  /\ \/ /\ r \in signal /\ session[r] = "CLOSED"
        /\ signal' = signal \ {r}
        /\ keeper' = [keeper EXCEPT ![t] = "gone"]
     \/ /\ r \in signal /\ session[r] # "CLOSED"
        /\ keeper' = [keeper EXCEPT ![t] = "closing"]
        /\ UNCHANGED signal
     \/ /\ r \notin signal /\ session[r] = "CLOSED"
        /\ keeper' = [keeper EXCEPT ![t] = "gone"]
        /\ UNCHANGED signal
  /\ UNCHANGED <<environ, context, counter, inv, worker, session, browser, events,
                 closing, contested, odd, faults>>

\* closeBrowserViaCdp; a Chrome that does not answer stays.
KeeperCloses(t, deaf) ==
  LET r == worker[t].run IN
  /\ keeper[t] = "closing"
  /\ deaf => faults < MaxFaults /\ r \in browser
  /\ faults' = IF deaf THEN faults + 1 ELSE faults
  /\ browser' = IF deaf THEN browser ELSE browser \ {r}
  /\ keeper' = [keeper EXCEPT ![t] = "marking"]
  /\ UNCHANGED <<environ, context, counter, inv, worker, session, signal, events,
                 closing, contested, odd>>

KeeperMarks(t) ==
  /\ keeper[t] = "marking"
  /\ MarkClosed(worker[t].run)
  /\ odd' = [odd EXCEPT ![worker[t].run] = @ \union Misstated(TRUE, worker[t].run)]
  /\ keeper' = [keeper EXCEPT ![t] = "gone"]
  /\ UNCHANGED <<environ, context, counter, inv, worker, browser, events, closing,
                 contested, faults>>

\* POST /api/runs/<id>/browser/close reads the session, then writes the signal.
CloseReads(r) ==
  /\ session[r] # "CLOSED"
  /\ closing' = closing \union {r}
  /\ UNCHANGED <<environ, context, counter, inv, worker, keeper, session, signal, browser,
                 events, contested, odd, faults>>

CloseSignals(r) ==
  /\ r \in closing
  /\ closing' = closing \ {r}
  /\ signal' = signal \union {r}
  /\ UNCHANGED <<environ, context, counter, inv, worker, keeper, session, browser, events,
                 contested, odd, faults>>

-----------------------------------------------------------------------------
ThreadNext(t) ==
  \/ NoExecution(t) \/ SetContext(t) \/ RunSelection(t) \/ RunCommand(t)
  \/ AfterCommand(t, FALSE) \/ Finalize(t)

WorkerNext(t) ==
  \/ WorkQuietly(t) \/ Launch(t) \/ LaunchFails(t) \/ AttachFails(t)
  \/ ReadSequence(t) \/ WriteEvent(t)
  \/ CloseContext(t) \/ WriteClosed(t) \/ LeaveOpen(t)

KeeperNext(t) == KeeperSees(t) \/ KeeperCloses(t, FALSE) \/ KeeperMarks(t)

Next ==
  \/ \E t \in Threads :
       \/ \E r \in Runs : Resume(t, r) \/ \E mode \in Modes : Accept(t, r, mode)
       \/ ThreadNext(t) \/ AfterCommand(t, TRUE)
       \/ WorkerNext(t)
       \/ KeeperNext(t) \/ KeeperCloses(t, TRUE)
  \/ \E r \in Watched : CloseReads(r) \/ CloseSignals(r)
  \/ Reboot

\* Workers and keepers are processes the operating system schedules.  Nothing
\* is asked of the server's threads, and nobody has to ask for a run, a close or
\* a stream.
Fairness == \A t \in Threads : WF_vars(WorkerNext(t)) /\ WF_vars(KeeperNext(t))

Spec == Init /\ [][Next]_vars /\ Fairness
-----------------------------------------------------------------------------
TypeOK ==
  /\ environ \in [mode : Modes, live : BOOLEAN, keep : BOOLEAN, dry : BOOLEAN]
  /\ context \in Runs \union {None}
  /\ counter \in [Runs -> Nat]
  /\ \A t \in Threads :
       /\ inv[t].at \in {"idle", "planned", "selected", "command", "running", "final", "done"}
       /\ inv[t].run \in Runs \union {None} /\ inv[t].skip \in BOOLEAN
       /\ inv[t].live \in BOOLEAN /\ inv[t].keep \in BOOLEAN
       /\ worker[t].at \in {"none", "starting", "acting", "reading", "leaving", "gone"}
       /\ worker[t].run \in Runs \union {None} /\ worker[t].lines \in 0..MaxLines
       /\ keeper[t] \in {"none", "watching", "closing", "marking", "gone"}
  /\ session \in [Runs -> Statuses \union {None}]
  /\ signal \union closing \subseteq Watched /\ browser \subseteq Runs
  /\ \A r \in Runs :
       /\ \A i \in 1..Len(events[r]) : events[r][i].seq \in 1..Len(events[r])
       /\ odd[r] \subseteq {"crossed", "misstated"}
  /\ contested \subseteq Threads /\ faults \in 0..MaxFaults

\* An execution runs under the id of its own run (evidence folder, profile,
\* event file), unless another run executed at the same time in this server.
OwnContext ==
  \A t \in Threads :
    worker[t].at # "none" /\ worker[t].run # inv[t].run => t \in contested

\* However the two numberings collide, the stream never drops an event of the
\* browser that it has read, unless the server wrote while a worker was
\* between reading the last sequence and appending its own.
WorkerLinesSeen ==
  \A r \in Runs : "crossed" \notin odd[r] =>
    \A size \in 0..Len(events[r]) :
      LET cursor == MaxSequence(SubSeq(events[r], 1, size)) IN
      \A i \in (size + 1)..Len(events[r]) :
        events[r][i].by = "worker" => i \in Delivered(events[r], cursor)

\* A request to close a browser ends with the browser gone, also when it was
\* left open for inspection, unless somebody declares the session closed while
\* the browser lives.
CloseHonoured ==
  \A r \in Watched :
    r \in signal /\ r \in browser ~> r \notin browser \/ "misstated" \in odd[r]
=============================================================================
