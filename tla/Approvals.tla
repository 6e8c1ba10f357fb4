------------------------------ MODULE Approvals ------------------------------
(***************************************************************************)
(* The sign-off of a flow's test-cases.yaml, and the two programs that     *)
(* read it: the orchestrator's ExecutionGate and the console's             *)
(* evaluateFlowExecution.  The status is a line of the YAML file; when it  *)
(* was decided is a record of approval-log.json; whether the decision      *)
(* still stands is the file's modification time against that record.       *)
(* SMEs decide in the console, the bootstrap script decides for them, and  *)
(* people edit the file, the knowledge base and nothing else.  The console *)
(* guards a file with a lock file, which it leaves behind when it is       *)
(* killed and without which it goes on after 30 s; the script has none.    *)
(* Both lock the log, by files of different names.                         *)
(***************************************************************************)
EXTENDS Naturals, TLC

CONSTANTS Flows,    \* flows with an entry in the index
          Entered,  \* bound: the entries a flow may have at first
          Handlers, \* POST /api/approval requests the console can work on
          MaxClock, \* bound: seconds
          MaxEdits, \* bound: edits of a file or of the index
          MaxBoots  \* bound: runs of the bootstrap script

Entries == [ready : BOOLEAN, described : BOOLEAN, primary : BOOLEAN,
            catalogued : BOOLEAN]

ASSUME ApprovalsAssumption ==
  {MaxClock, MaxEdits, MaxBoots} \subseteq Nat /\ Entered \subseteq Entries

VARIABLES clock,  \* the time, in seconds
          file,   \* file[f]: test-cases.yaml
          log,    \* log[f]: the latest approval in approval-log.json, 0 without one
          index,  \* index[f]: what discovery-kb and catalog say of the flow
          known,  \* the index as the agent server has loaded it
          rq,     \* rq[h]: the request handler h works on
          locked, \* flows whose test-cases.yaml has a lock file
          temp,   \* temp[f]: the console's temporary file beside it
          boot,   \* the bootstrap script
          edits, boots,
          verdict,  \* verdict[f]: what an SME last said of the file as it is
          unlocked, \* flows at which a request that is busy has no lock
          crossed   \* flows an SME decided on while the script, or somebody
                    \* without the lock, was at them

people  == <<edits, verdict, crossed>>
readers == <<index, known>>
console == <<rq, locked, temp, unlocked>>
vars    == <<clock, file, log, readers, console, boot, boots, people>>

-----------------------------------------------------------------------------
\* The two gates.

Pending  == "PENDING_SME_APPROVAL"
Statuses == {Pending, "APPROVED", "REJECTED"}

\* isValidTransition, is_valid_transition.
ValidTransition(from, to) ==
  \/ from = Pending /\ to \in {"APPROVED", "REJECTED"}
  \/ from = "REJECTED" /\ to = Pending

\* _approval_is_stale, approvalIsStale: the file was written more than a second
\* after the latest approval on record, or none is.
Stale(f) == log[f] = 0 \/ file[f].mtime > log[f] + 1

\* What both evaluate first; "" if the artifact does not stand in the way.
ArtifactReason(f) ==
  CASE file[f].status = "none"     -> "approval.missing"
    [] file[f].status = Pending    -> "approval.pending"
    [] file[f].status = "REJECTED" -> "approval.rejected"
    [] OTHER -> IF Stale(f) THEN "approval.stale" ELSE ""

\* _kb_readiness, on the index the server loaded when it started.
KbReason(entry) ==
  IF ~entry.described THEN "kb.missing_flow"
  ELSE IF ~entry.ready THEN "kb.not_sme_ready"
  ELSE IF entry.primary /\ ~entry.catalogued THEN "kb.not_in_catalog"
  ELSE "gate.executable"

\* ExecutionGate.evaluate: the list is asked before the rest of the index.
AgentGate(entry, f) ==
  IF ArtifactReason(f) # "" THEN ArtifactReason(f)
  ELSE IF ~entry[f].ready THEN "kb.not_sme_ready"
  ELSE KbReason(entry[f])

\* Bug: the console asks the status and not whether it is stale.
ConsoleGateFresh(f) ==
  IF file[f].status # "APPROVED" THEN ArtifactReason(f)
  ELSE IF ~index[f].ready THEN "kb.not_sme_ready"
  ELSE IF ~index[f].catalogued THEN "kb.not_in_catalog"
  ELSE "gate.executable"

\* evaluateFlowExecution, on the files as they are: every flow has to be in
\* the catalog, and none needs a description.
ConsoleGate(f) ==
  IF ArtifactReason(f) # "" THEN ArtifactReason(f)
  ELSE IF ~index[f].ready THEN "kb.not_sme_ready"
  ELSE IF ~index[f].catalogued THEN "kb.not_in_catalog"
  ELSE "gate.executable"

Executable(f) == AgentGate(known, f) = "gate.executable"

-----------------------------------------------------------------------------
Idle == [pc |-> "idle"]

\* A handler is in the body of withFileLock from its check to its answer.
Busy == {"check", "write", "rename", "stamp", "log", "append"}
BusyOn(f) == {h \in Handlers : rq[h].pc \in Busy /\ rq[h].flow = f}

\* The status line of a text and when it was written.
Text(status) == [status |-> status, mtime |-> clock]
NoText == [status |-> "none", mtime |-> 0]
Put(f, text) == file' = [file EXCEPT ![f] = text]

\* The log with a decision in front of what was read, and without the approvals
\* of some flows: those that are not among the 500 latest records any more.
Latest(a, b) == IF a > b THEN a ELSE b
Logged(seen, f, status, at) ==
  {[g \in Flows |-> LET old == IF g \in cut THEN 0 ELSE seen[g]
                    IN  IF g = f /\ status = "APPROVED" THEN Latest(old, at) ELSE old] :
     cut \in SUBSET Flows}

Init == /\ clock = 1
        /\ file = [f \in Flows |-> Text(Pending)]
        /\ log = [f \in Flows |-> 0]
        /\ index \in [Flows -> Entered] /\ known = index
        /\ rq = [h \in Handlers |-> Idle] /\ boot = Idle
        /\ locked \in SUBSET Flows /\ unlocked = {}
        /\ temp = [f \in Flows |-> NoText]
        /\ edits = 0 /\ boots = 0
        /\ crossed = {}
        /\ verdict = [f \in Flows |-> "none"]

Moved(h, rec) == rq' = [rq EXCEPT ![h] = rec]
Goes(h, label) == Moved(h, [rq[h] EXCEPT !.pc = label])
Lock   == <<locked, unlocked>>
Others == UNCHANGED <<readers, boot, boots, edits>>

-----------------------------------------------------------------------------
\* The console.

\* POST /api/approval: approve and reject are all it takes.
Post(h, f, status) ==
  /\ rq[h] = Idle
  /\ Moved(h, [pc |-> "post", flow |-> f, status |-> status, at |-> 0, seen |-> <<>>])
  /\ UNCHANGED <<clock, file, log, Lock, temp, verdict, crossed>> /\ Others

\* Bug: writeFile without the "wx" flag.
EntersShared(h) ==
  /\ rq[h].pc = "post" /\ Goes(h, "check")
  /\ locked' = locked \cup {rq[h].flow} /\ UNCHANGED unlocked
  /\ UNCHANGED <<clock, file, log, temp, verdict, crossed>> /\ Others

\* withFileLock creates the artifact's lock file, or goes on without: 30 s have
\* passed, which are not put on the clock.
Enters(h) ==
  /\ rq[h].pc = "post" /\ Goes(h, "check")
  /\ LET f == rq[h].flow
     IN  \/ f \notin locked /\ locked' = locked \cup {f} /\ UNCHANGED unlocked
         \/ unlocked' = unlocked \cup {f} /\ UNCHANGED locked
  /\ UNCHANGED <<clock, file, log, temp, verdict, crossed>> /\ Others

\* Its `finally`: unlink of whoever's lock file is there, or a failure that is
\* ignored.  (A text that nobody is going to rename is forgotten.)
Leaves(h) ==
  LET f == rq[h].flow
  IN  /\ Moved(h, Idle)
      /\ locked' \in {locked, locked \ {f}}
      /\ IF BusyOn(f) = {h}
         THEN unlocked' = unlocked \ {f} /\ temp' = [temp EXCEPT ![f] = NoText]
         ELSE UNCHANGED <<unlocked, temp>>

\* transitionArtifact reads and checks the status (if it refuses it Throws).
Check(h) ==
  /\ rq[h].pc = "check" /\ ValidTransition(file[rq[h].flow].status, rq[h].status)
  /\ Goes(h, "write")
  /\ UNCHANGED <<clock, file, log, Lock, temp, verdict, crossed>> /\ Others

\* writeYamlStatus reads the file and writes the new text beside it, under a name
\* that holds the process id only ...
Write(h) ==
  /\ rq[h].pc = "write" /\ Goes(h, "rename")
  /\ temp' = [temp EXCEPT ![rq[h].flow] = Text(rq[h].status)]
  /\ UNCHANGED <<clock, file, log, Lock, verdict, crossed>> /\ Others

\* ... and renames what is there now into place, over any edit since.
Rename(h) ==
  /\ rq[h].pc = "rename" /\ Goes(h, "stamp")
  /\ LET f == rq[h].flow
     IN  /\ temp[f] # NoText
         /\ Put(f, temp[f]) /\ temp' = [temp EXCEPT ![f] = NoText]
         /\ verdict' = [verdict EXCEPT ![f] = rq[h].status]
         /\ crossed' = IF f \in unlocked \/ (boot.pc \in {"again", "write"} /\ boot.flow = f)
                       THEN crossed \cup {f} ELSE crossed \ {f}
  /\ UNCHANGED <<clock, log, Lock>> /\ Others

\* The decision is dated when the file has been written.
Stamp(h) ==
  /\ rq[h].pc = "stamp"
  /\ Moved(h, [rq[h] EXCEPT !.pc = "log", !.at = clock])
  /\ UNCHANGED <<clock, file, log, Lock, temp, verdict, crossed>> /\ Others

\* appendLog reads the records.  It has the console's lock of the log or, after
\* 30 s, has not: which of them is not told apart.
ReadLog(h) ==
  /\ rq[h].pc = "log"
  /\ Moved(h, [rq[h] EXCEPT !.pc = "append", !.seen = log])
  /\ UNCHANGED <<clock, file, log, Lock, temp, verdict, crossed>> /\ Others

\* It writes them back with its own in front.
Append(h) ==
  /\ rq[h].pc = "append" /\ Leaves(h)
  /\ log' \in Logged(rq[h].seen, rq[h].flow, rq[h].status, rq[h].at)
  /\ UNCHANGED <<clock, file, verdict, crossed>> /\ Others

\* A check refuses, or a file cannot be read, written or renamed.
Throws(h) ==
  /\ rq[h].pc \in Busy /\ Leaves(h)
  /\ UNCHANGED <<clock, file, log, verdict, crossed>> /\ Others

\* The console is killed.  Its lock files stay; its next process does not use
\* the names of its temporary files.
ConsoleDies ==
  /\ \E h \in Handlers : rq[h] # Idle
  /\ rq' = [h \in Handlers |-> Idle] /\ unlocked' = {}
  /\ temp' = [f \in Flows |-> NoText]
  /\ UNCHANGED <<clock, file, log, readers, locked, boot, boots, people>>

-----------------------------------------------------------------------------
\* The bootstrap script: no lock of the artifact, its own lock of the log.

\* It loads the index as it is, and goes over the flows of the list in order.
BootStarts ==
  /\ boot = Idle /\ boots < MaxBoots /\ boots' = boots + 1
  /\ boot' = [pc |-> "next", left |-> {f \in Flows : index[f].ready},
              index |-> index]
  /\ UNCHANGED <<clock, file, log, readers, console, people>>

\* Bug: a rejected artifact is a candidate like a pending one.
CandidateRejected(i, f) ==
  IF ~i[f].catalogued \/ file[f].status = "none" THEN "blocked"
  ELSE IF file[f].status = "APPROVED"
  THEN CASE AgentGate(i, f) = "approval.stale"  -> "record"
         [] AgentGate(i, f) = "gate.executable" -> "again"
         [] OTHER -> "blocked"
  ELSE IF i[f].described THEN "again" ELSE "blocked"

\* _validate_bootstrap_candidate: what is left for the script to do, if
\* anything.  A stale approval is only recorded again.
Candidate(i, f) ==
  IF ~i[f].catalogued \/ file[f].status \in {"none", "REJECTED"} THEN "blocked"
  ELSE IF file[f].status = "APPROVED"
  THEN CASE AgentGate(i, f) = "approval.stale"  -> "record"
         [] AgentGate(i, f) = "gate.executable" -> "again"
         [] OTHER -> "blocked"
  ELSE IF i[f].described THEN "again" ELSE "blocked"

BootLooks ==
  /\ boot.pc = "next"
  /\ \/ boot.left = {} /\ boot' = Idle
     \/ \E f \in boot.left :
          LET todo == Candidate(boot.index, f)
              rest == boot.left \ {f}
          IN  boot' = IF todo = "blocked" THEN [boot EXCEPT !.left = rest]
                      ELSE [pc |-> todo, left |-> rest, index |-> boot.index, flow |-> f]
  /\ UNCHANGED <<clock, file, log, readers, console, boots, people>>

BootNext(rec) == [pc |-> "next", left |-> rec.left, index |-> rec.index]

\* The status is read once more: what may run by now is left alone, and anything
\* else, whatever it has become, is approved.
BootLooksAgain ==
  /\ boot.pc = "again"
  /\ boot' = IF AgentGate(boot.index, boot.flow) = "gate.executable"
             THEN BootNext(boot) ELSE [boot EXCEPT !.pc = "write"]
  /\ UNCHANGED <<clock, file, log, readers, console, boots, people>>

\* _write_artifact_status reads the file again and replaces whatever status it
\* has by now (without one it raises).
BootWrites ==
  /\ boot.pc = "write" /\ file[boot.flow].status # "none"
  /\ Put(boot.flow, Text("APPROVED"))
  /\ boot' = [boot EXCEPT !.pc = "record"]
  /\ UNCHANGED <<clock, log, readers, console, boots, people>>

\* append_approval_record: dated, then read and written under its own lock.
BootReads ==
  /\ boot.pc = "record"
  /\ boot' = [pc |-> "append", left |-> boot.left, index |-> boot.index,
              flow |-> boot.flow, at |-> clock, seen |-> log]
  /\ UNCHANGED <<clock, file, log, readers, console, boots, people>>
BootAppends ==
  /\ boot.pc = "append"
  /\ log' \in Logged(boot.seen, boot.flow, "APPROVED", boot.at)
  /\ boot' = BootNext(boot)
  /\ UNCHANGED <<clock, file, readers, console, boots, people>>

\* It raises, also when it cannot have its lock of the log, or is stopped.
BootEnds ==
  /\ boot # Idle /\ boot' = Idle
  /\ UNCHANGED <<clock, file, log, readers, console, boots, people>>

-----------------------------------------------------------------------------
\* People and time.

\* Somebody saves the file: new text, any status or none.
EditFile(f) ==
  /\ edits < MaxEdits /\ edits' = edits + 1
  /\ \E status \in Statuses \cup {"none"} : Put(f, Text(status))
  /\ verdict' = [verdict EXCEPT ![f] = "none"]
  /\ UNCHANGED <<clock, log, readers, console, boot, boots, crossed>>

\* Somebody changes the list of the index.
EditIndex(f) ==
  /\ edits < MaxEdits /\ edits' = edits + 1
  /\ index' = [index EXCEPT ![f].ready = ~@]
  /\ UNCHANGED <<clock, file, log, known, console, boot, boots, verdict, crossed>>

\* FlowKnowledgeGraph reads the index once, when the agent server starts.
AgentBoots ==
  /\ known # index /\ known' = index
  /\ UNCHANGED <<clock, file, log, index, console, boot, boots, people>>

Tick == /\ clock < MaxClock /\ clock' = clock + 1
        /\ UNCHANGED <<file, log, readers, console, boot, boots, people>>

Handle(h) == \/ \E f \in Flows, status \in {"APPROVED", "REJECTED"} : Post(h, f, status)
             \/ Enters(h) \/ Check(h) \/ Write(h) \/ Rename(h) \/ Stamp(h)
             \/ ReadLog(h) \/ Append(h) \/ Throws(h)
Script == \/ BootStarts \/ BootLooks \/ BootLooksAgain \/ BootWrites
          \/ BootReads \/ BootAppends \/ BootEnds
Person == \E f \in Flows : EditFile(f) \/ EditIndex(f)

Next == \/ \E h \in Handlers : Handle(h)
        \/ ConsoleDies \/ Script \/ Person \/ AgentBoots \/ Tick

Spec == Init /\ [][Next]_vars

-----------------------------------------------------------------------------
\* Handlers, and flows, can be told apart by name only.
Symmetry == Permutations(Handlers) \cup Permutations(Flows)

-----------------------------------------------------------------------------
\* What an SME rejected does not run until somebody edits the file or an SME
\* decides again, whatever the bootstrap script does later - unless the script
\* had looked at the file before it was rejected, which may approve it, or
\* another request was at it without the lock.
RejectedStays ==
  \A f \in Flows : verdict[f] = "REJECTED" /\ f \notin crossed => ~Executable(f)

\* Of two decisions on one file only the first is taken: the other is refused
\* until somebody edits the file, also when both were asked for while it was
\* pending - as long as nobody has gone without the lock, after 30 s behind a
\* lock file that was left or a request that takes its time, at the requests
\* that are busy with the file.
DecidedOnce ==
  [][\A f \in Flows \ unlocked :
       verdict[f] # "none" => verdict'[f] \in {verdict[f], "none"}]_verdict

\* approval-store.ts:159 "mirrors Python ExecutionGate.evaluate()": both gates
\* give the same answer with the same reason about a flow that is described
\* and in the catalog, while the index is the one the agent server loaded.
GatesAgree ==
  \A f \in Flows :
    index[f].described /\ index[f].catalogued /\ known[f] = index[f]
      => ConsoleGate(f) = AgentGate(known, f)
=============================================================================
