----------------------------- MODULE AgentResume -----------------------------
(***************************************************************************)
(* AgentResumeService.resume seen from inside: requests to resume one      *)
(* paused run arrive at the warm server at any time, each in a thread of   *)
(* its own, with the token of an earlier request or a new one, and the     *)
(* server may die between any two steps.  People decide meanwhile on the   *)
(* flow's artifact and on the healing proposal.  What the resumed loop     *)
(* does is module AgentLoop; the lock of one read or write of the          *)
(* snapshot is module FileLock; here each read or write is one step.       *)
(***************************************************************************)
EXTENDS Healing

CONSTANTS Handlers,  \* threads that handle POST /agent/{id}/resume
          MaxRequests, \* bound: requests
          Tokens,    \* resume tokens
          MaxEdits,  \* bound: decisions, reviews and colliding proposals
          MaxFaults  \* bound: deaths of the server and late exceptions

ASSUME ResumeAssumption == MaxEdits \in Nat /\ MaxFaults \in Nat
                        /\ MaxRequests \in Nat
ASSUME TokensAssumption == "none" \notin Tokens \* a token is given or made up

VARIABLES kind,    \* what the run pauses for
          art,     \* the flow's artifact
          prop,    \* the healing proposal's file
          edits,   \* decisions, reviews and collisions so far
          review,  \* an SME's update_proposal_status, between read and write
          store,   \* locator-overlays.json
          journal, \* status in the run's journal file
          disk,    \* the snapshot in state.json
          rq,      \* rq[q]: the request handler q works on
          arrived, \* requests so far
          starts,  \* Playwright starts of resumed invocations
          faults,  \* deaths and late exceptions so far
          together, \* have two requests ever worked at the same time?
          told,    \* told[t]: what token t was answered, until another token works
          agreed   \* locators an SME approved

people == <<art, prop, edits, review, agreed>>
saved  == <<journal, disk>>
vars   == <<kind, people, store, saved, rq, arrived, starts, faults, together,
            told>>

\* COMPLETED stands for FAILED and BLOCKED as well: nothing here tells them
\* apart.
Terminal == {"COMPLETED", "NEEDS_REVIEW"}
Waiting  == "WAITING_FOR_APPROVAL"
Statuses == Terminal \cup {Waiting}
PauseKinds == {"execution_gate", "generation", "healing"}

NoToken == "none"
NoSnapshot == [status |-> "none", applied |-> NoToken, kind |-> "none",
               print |-> 0, gated |-> FALSE, heal |-> NoProposal,
               retried |-> FALSE]

Handling == {"captured", "replay", "loaded", "apply", "retry",
             "loop", "running", "journal", "snapshot", "token", "reply"}

Free == [pc |-> "idle", token |-> NoToken, valid |-> TRUE, copy |-> NoSnapshot]

\* Every variable stays in its domain; a target has one overlay, and what is
\* replayed was once applied.
TypeOK ==
  /\ edits \in 0 .. MaxEdits /\ art.rev \in 0 .. edits /\ (art.gate => art.approved)
  /\ prop.status \in {"none", "DRAFT", "PENDING_SME_APPROVAL", "APPROVED",
                      "REJECTED"}
  /\ \A e, f \in store : e.loc \in Locators /\ (e.label = f.label => e = f)
  /\ journal \in Statuses \cup {"none"}
  /\ disk.status \in Statuses \cup {"none"}
  /\ \A q \in Handlers :
       /\ rq[q].pc \in Handling \cup {"idle"}
       /\ rq[q].pc = "replay" => rq[q].copy.applied = rq[q].token
  /\ starts \in Nat /\ faults \in 0 .. MaxFaults
  /\ arrived \in 0 .. MaxRequests
  /\ agreed \subseteq Locators \cup {"timing-wait"}

Init == /\ kind \in {"running", "execution_gate", "generation"}
        /\ art \in {[rev |-> 0, approved |-> a, gate |-> g] :
                      a \in BOOLEAN, g \in BOOLEAN}
        /\ art.gate => art.approved
        /\ prop = NoProposal /\ review = NoProposal /\ edits = 0 /\ store = EmptyStore
        /\ journal = "none" /\ disk = NoSnapshot
        /\ rq = [q \in Handlers |-> Free] /\ arrived = 0
        /\ starts = 0 /\ faults = 0 /\ together = FALSE
        /\ told = [t \in Tokens |-> "none"]
        /\ agreed = {}

-----------------------------------------------------------------------------
\* The first invocation.  A failed test is healed if it can be, and the
\* proposal is on disk from then on ...
Heal == /\ kind = "running"
        /\ \E res \in Healings :
             /\ prop' = res.prop
             /\ kind' = IF res.status = "HEALED_PENDING_APPROVAL"
                        THEN "healing" ELSE "recovery.exhausted"
        /\ UNCHANGED <<art, edits, review, agreed, store, saved, rq, arrived,
                       starts, faults, together, told>>

\* build_snapshot_from_state: fingerprints are taken of the files as they are.
Snapshot(status) ==
  [status |-> status, applied |-> NoToken,
   kind |-> IF status = "NEEDS_REVIEW" THEN "after_validation" ELSE kind,
   print |-> art.rev, gated |-> art.approved,
   heal |-> IF kind = "healing" THEN prop ELSE NoProposal,
   retried |-> FALSE]

\* ... and then finalized: _finalize writes journal and snapshot.
Pause == /\ disk = NoSnapshot
         /\ kind \in PauseKinds \cup {"recovery.exhausted"}
         /\ LET status == IF kind \in PauseKinds THEN Waiting
                          ELSE "NEEDS_REVIEW"
            IN  journal' = status /\ disk' = Snapshot(status)
         /\ UNCHANGED <<kind, people, store, rq, arrived, starts, faults,
                        together, told>>

-----------------------------------------------------------------------------
\* People.  An SME's decision and an edit both change the artifact's bytes.
Edit == edits < MaxEdits /\ edits' = edits + 1
Apart == UNCHANGED <<kind, store, saved, rq, arrived, starts, faults,
                     together, told>>

Decide == /\ Edit
          /\ \E a \in BOOLEAN, g \in BOOLEAN :
               /\ g => a
               /\ art' = [rev |-> edits', approved |-> a, gate |-> g]
          /\ Apart /\ UNCHANGED <<prop, review, agreed>>

\* update_proposal_status reads the proposal, whatever its status is, then
\* writes it back whole.
ReviewReads == /\ review = NoProposal /\ Edit
               /\ prop # NoProposal
               /\ review' = prop
               /\ Apart /\ UNCHANGED <<art, prop, agreed>>
ReviewWrites ==
  /\ review # NoProposal
  /\ \E status \in {"APPROVED", "REJECTED"} :
       /\ prop' = [review EXCEPT !.status = status]
       /\ agreed' = IF status = "APPROVED" THEN agreed \cup {review.loc}
                    ELSE agreed
  /\ review' = NoProposal
  /\ Apart /\ UNCHANGED <<art, edits>>

\* Another run's healing in the same second has the same id (new_healing_id),
\* and its proposal replaces this one.
Collide == /\ prop # NoProposal /\ Edit
           /\ \E loc \in Locators \ {prop.loc} :
                prop' = [prop EXCEPT !.loc = loc,
                                     !.status = "PENDING_SME_APPROVAL"]
           /\ Apart /\ UNCHANGED <<art, review, agreed>>

-----------------------------------------------------------------------------
At(q, label) == rq[q].pc = label
Moved(q, rec) == rq' = [rq EXCEPT ![q] = rec]
Goes(q, label) == Moved(q, [rq[q] EXCEPT !.pc = label])

\* A request is answered, refused or lost; its handler is free again.
Over(q) == Moved(q, Free)

Outside == UNCHANGED <<kind, people, arrived, faults>>
Quiet == Outside /\ UNCHANGED <<store, starts>>

Working == {q \in Handlers : rq[q].pc \in Handling}

\* resume, first lines: a run without a snapshot cannot be resumed.
Arrive(q, t) ==
  /\ At(q, "idle") /\ arrived < MaxRequests
  /\ arrived' = arrived + 1
  /\ IF disk = NoSnapshot
     THEN Over(q)
     ELSE Moved(q, [rq[q] EXCEPT !.pc = "captured", !.token = t])
  /\ together' = (together \/ Working # {})
  /\ UNCHANGED <<kind, people, faults, store, starts, saved, told>>

\* Bug: a snapshot any token was applied to counts as the answer.
IsReplayOfAny(snapshot, token) == snapshot.applied # NoToken
IsReplay(snapshot, token) == snapshot.applied = token

\* mutate_snapshot with _capture, under the lock.
Capture(q) == /\ At(q, "captured")
              /\ IF IsReplay(disk, rq[q].token)
                 THEN Moved(q, [rq[q] EXCEPT !.pc = "replay", !.copy = disk])
                 ELSE Goes(q, "loaded")
              /\ Quiet /\ UNCHANGED <<saved, together, told>>

\* _result_from_snapshot: the journal's status wins over the snapshot's.
Replay(q) == /\ At(q, "replay")
             /\ Over(q)
             /\ Quiet /\ UNCHANGED <<saved, together, told>>

\* Bug: any status is taken up.
ResumableAlways(snapshot) == TRUE
Resumable(snapshot) == snapshot.status = Waiting

\* The snapshot is read again, without the lock: it is what counts from here.
Load(q) ==
  /\ At(q, "loaded")
  /\ IF IsReplay(disk, rq[q].token)
     THEN /\ Moved(q, [rq[q] EXCEPT !.pc = "replay", !.copy = disk])
          /\ UNCHANGED told
     ELSE IF Resumable(disk)
     THEN /\ Moved(q, [rq[q] EXCEPT !.pc = "apply", !.copy = disk])
          /\ told' = [t \in Tokens |-> IF t = rq[q].token THEN told[t]
                                       ELSE "none"]
     ELSE Over(q) /\ UNCHANGED told
  /\ Quiet /\ UNCHANGED <<saved, together>>

\* _validate_resume, with _validate_generation_resume and
\* _validate_healing_resume.  The path of a generated spec is relative to the
\* automation directory and is looked for in the server's: it is never found,
\* its fingerprint is never taken, and only the gate is asked.
Valid(snapshot) ==
  CASE snapshot.kind = "execution_gate" ->
         art.gate /\ (snapshot.gated => snapshot.print = art.rev)
    [] snapshot.kind = "generation" -> art.gate
    [] OTHER -> prop.status = "APPROVED" /\ prop = snapshot.heal

Invalid(q) ==
  /\ At(q, "apply") /\ ~Valid(rq[q].copy)
  /\ disk' = [rq[q].copy EXCEPT !.status = "NEEDS_REVIEW"]
  /\ Moved(q, [rq[q] EXCEPT !.pc = "journal", !.valid = FALSE,
                            !.copy.status = "NEEDS_REVIEW"])
  /\ Quiet /\ UNCHANGED <<journal, together, told>>

\* Validated; _resume_execution_gate and _resume_generation ask the gate again
\* when they come to it, which here is the step that starts Playwright.
Validated(q) ==
  /\ At(q, "apply") /\ Valid(rq[q].copy)
  /\ Goes(q, IF rq[q].copy.kind = "healing" THEN "retry" ELSE "loop")
  /\ Quiet /\ UNCHANGED <<saved, together, told>>

Concludes(q, label, status) ==
  Moved(q, [rq[q] EXCEPT !.pc = label, !.copy.status = status])

\* Bug: the proposal's status is not looked at again.
AppliesAny(p) == p # NoProposal
Applies(p) == p.status = "APPROVED"

\* _resume_healing: the proposal is read again and becomes an overlay; without
\* a match for it the run goes to review, else the test is retried (unless an
\* earlier resume did, and only in a deployment that does not simulate).  Then
\* the run has an execution that is ok and starts no other.  It raises for a
\* proposal that is not approved any more, or makes no CSS selector.
Retry(q) ==
  /\ At(q, "retry")
  /\ \/ Over(q) /\ UNCHANGED <<store, starts>>
     \/ /\ Applies(prop)
        /\ store' = WithOverlay(store, prop)
        /\ IF Resolved(store', prop.label) = {}
           THEN Concludes(q, "journal", "NEEDS_REVIEW") /\ UNCHANGED starts
           ELSE \E status \in Statuses :
                  IF rq[q].copy.retried /\ rq[q].copy.applied # NoToken
                  THEN Concludes(q, "journal", status) /\ UNCHANGED starts
                  ELSE /\ Moved(q, [rq[q] EXCEPT !.pc = "journal",
                                      !.copy.status = status,
                                      !.copy.retried = TRUE])
                       /\ starts' \in {starts, starts + 1}
  /\ Outside /\ UNCHANGED <<saved, together, told>>

\* _continue_from_state, when it starts nothing: it waits again, gives up or
\* is refused.
Idle(q) == /\ At(q, "loop")
           /\ \E status \in Statuses :
                Concludes(q, "journal", status)
           /\ Quiet /\ UNCHANGED <<saved, together, told>>

\* ... and when it does.  Its verdict is terminal (module AgentLoop).
Start(q) == /\ At(q, "loop")
            /\ rq[q].copy.kind = "generation" => art.gate
            /\ Goes(q, "running")
            /\ starts' = starts + 1
            /\ Outside /\ UNCHANGED <<store, saved, together, told>>

\* Bug: a verdict for review leaves the run waiting.
VerdictWaiting(q) == /\ At(q, "running")
                     /\ \E status \in {"COMPLETED", Waiting} :
                          Concludes(q, "journal", status)
                     /\ Quiet /\ UNCHANGED <<saved, together, told>>

Verdict(q) == /\ At(q, "running")
              /\ \E status \in Terminal :
                   Concludes(q, "journal", status)
              /\ Quiet /\ UNCHANGED <<saved, together, told>>

\* build_flow_command raises for a polarity it does not know, or the rest of
\* an execution does: nothing is saved.
Raise(q) == /\ At(q, "loop")
            /\ Over(q)
            /\ Quiet /\ UNCHANGED <<saved, together, told>>
RaiseLate(q) == /\ At(q, "running") /\ faults < MaxFaults
                /\ faults' = faults + 1
                /\ Over(q)
                /\ UNCHANGED <<kind, people, arrived, store, starts, saved,
                               together, told>>

\* Bug: the journal of a resumed invocation is not written.
JournalNever(q) == /\ At(q, "journal")
                   /\ Goes(q, "snapshot")
                   /\ Quiet /\ UNCHANGED <<saved, together, told>>

\* _finalize: the journal, then a new snapshot, with no token applied yet.
Journal(q) == /\ At(q, "journal")
              /\ journal' = rq[q].copy.status
              /\ Goes(q, "snapshot")
              /\ Quiet /\ UNCHANGED <<disk, together, told>>
SaveSnapshot(q) == /\ At(q, "snapshot")
                   /\ disk' = Snapshot(rq[q].copy.status)
                   /\ Goes(q, IF rq[q].valid THEN "token" ELSE "reply")
                   /\ Quiet /\ UNCHANGED <<journal, together, told>>

\* Bug: the new snapshot is kept and the token forgotten.
SaveTokenNever(q) == /\ At(q, "token")
                     /\ Goes(q, "reply")
                     /\ Quiet /\ UNCHANGED <<saved, together, told>>

\* The snapshot the request began with is saved once more, with the result
\* and the token.
SaveToken(q) ==
  /\ At(q, "token")
  /\ disk' = [rq[q].copy EXCEPT !.applied = rq[q].token]
  /\ Moved(q, [rq[q] EXCEPT !.pc = "reply", !.copy.applied = rq[q].token])
  /\ Quiet /\ UNCHANGED <<journal, together, told>>

Reply(q) ==
  /\ At(q, "reply")
  /\ Over(q)
  /\ told' = IF rq[q].valid
             THEN [told EXCEPT ![rq[q].token] = rq[q].copy.status] ELSE told
  /\ Quiet /\ UNCHANGED <<saved, together>>

\* The server dies; its clients get no answer.
Die == /\ faults < MaxFaults /\ Working # {}
       /\ faults' = faults + 1
       /\ rq' = [q \in Handlers |->
                   IF q \in Working THEN Free ELSE rq[q]]
       /\ UNCHANGED <<kind, people, arrived, store, saved, starts, together,
                      told>>

-----------------------------------------------------------------------------
Handle(q) == \/ Capture(q) \/ Replay(q) \/ Load(q) \/ Invalid(q)
             \/ Validated(q) \/ Retry(q) \/ Idle(q) \/ Start(q) \/ Verdict(q)
             \/ Raise(q) \/ RaiseLate(q) \/ Journal(q) \/ SaveSnapshot(q) \/ SaveToken(q)
             \/ Reply(q)

Next == \/ Heal \/ Pause \/ Decide \/ ReviewReads \/ ReviewWrites \/ Collide
        \/ \E q \in Handlers : Handle(q) \/ \E t \in Tokens : Arrive(q, t)
        \/ Die

Spec == Init /\ [][Next]_vars

-----------------------------------------------------------------------------
\* While requests come one at a time, a token that was answered is never
\* worked on again before another was, whatever deaths come in between: the
\* token is saved before the answer.
AppliedOnce ==
  ~together => \A q \in Handlers : At(q, "apply") => told[rq[q].token] = "none"

\* And what a repetition is answered is what the first answer said, although
\* it is put together from two files written at different times.
ReplayAgrees ==
  ~together => \A q \in Handlers :
    At(q, "replay") /\ told[rq[q].token] # "none" =>
      journal = told[rq[q].token]

\* One at a time, the resumes of a run start Playwright at most once, and once
\* more for each death or late exception.
StartsBounded == ~together => starts <= 1 + faults

\* One at a time, no resume changes the status of a run that is settled.
SettledStays ==
  [][~together' /\ disk.status \in Terminal => disk'.status = disk.status]_disk

\* Whoever races with whom, an overlay only ever holds a locator that an SME
\* approved, also when another run's proposal takes the same id.
OverlayWasApproved == \A e \in store : e.loc \in agreed

\* "Idempotent resume token check inside mutate_snapshot lock."
\* (docs/P10_2_RUNTIME_RELIABILITY_REPORT.md:41): a token resumes a run once.
\* The check is inside the lock, the work and the saving of the token are not.
ResumedOnce == faults = 0 => starts <= 1
=============================================================================
