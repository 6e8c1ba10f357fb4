-------------------------- MODULE AgentResumeProofs --------------------------
(***************************************************************************)
(* AgentResume for any handlers, tokens, locators and bounds: while the    *)
(* requests to resume a run come one at a time, a token is worked on once, *)
(* its repetition is answered alike, Playwright starts once more for each  *)
(* fault at most, and what is settled stays; and whoever races, an overlay *)
(* holds a locator that an SME approved.  Undisturbed, the resumes of a    *)
(* run are one run of module AgentRun.                                     *)
(***************************************************************************)
EXTENDS AgentResume, TLAPS

Proposals == [loc : Locators \cup {"none", "timing-wait"}, label : Labels,
              status : {"none", "DRAFT", "PENDING_SME_APPROVAL", "APPROVED", "REJECTED"},
              type : {"none", "LOCATOR", "TIMING"}]
Snapshots == [status : Statuses \cup {"none"}, applied : Tokens \cup {NoToken},
              kind : {"none", "after_validation", "running", "recovery.exhausted"}
                        \cup PauseKinds, print : Nat,
              gated : BOOLEAN, heal : Proposals, retried : BOOLEAN]
Requests  == [pc : Handling \cup {"idle"}, token : Tokens \cup {NoToken},
              valid : BOOLEAN, copy : Snapshots]
Overlays  == [loc : Locators, label : {Filed(label) : label \in Labels}]
Artifacts == [rev : Nat, approved : BOOLEAN, gate : BOOLEAN]

Typed ==
  /\ kind \in {"running", "recovery.exhausted"} \cup PauseKinds
  /\ edits \in 0 .. MaxEdits /\ faults \in 0 .. MaxFaults
  /\ arrived \in 0 .. MaxRequests /\ starts \in Nat
  /\ art \in Artifacts /\ art.rev <= edits /\ (art.gate => art.approved)
  /\ prop \in Proposals /\ review \in Proposals
  /\ store \in SUBSET Overlays
  /\ journal \in Statuses \cup {"none"} /\ disk \in Snapshots
  /\ rq \in [Handlers -> Requests]
  /\ together \in BOOLEAN /\ told \in [Tokens -> Statuses \cup {"none"}]
  /\ agreed \in SUBSET (Locators \cup {"timing-wait"})

\* Locators get into the overlay store through an approval only.
Approvals ==
  /\ kind = "running" => prop = NoProposal /\ review = NoProposal
  /\ kind = "healing" => /\ prop.loc \in Locators
                         /\ review # NoProposal => review.loc \in Locators
  /\ \A p \in {prop, review} \ {NoProposal} : p.loc \in Locators \cup {"timing-wait"}
  /\ prop.status = "APPROVED" => prop.loc \in agreed
  /\ \A e \in store : e.loc \in agreed
  /\ \A e, f \in store : e.label = f.label => e = f

\* Where a handler is and what it holds, whoever else works.
Holding == {"apply", "retry", "loop", "running", "journal", "snapshot", "token", "reply"}
Held(q) ==
  /\ rq[q].pc # "idle" => rq[q].token \in Tokens /\ disk.status \in Statuses
  /\ rq[q].pc \in Holding => rq[q].copy.status \in Statuses
  /\ rq[q].pc \in {"apply", "retry", "loop"} => rq[q].copy.status = Waiting
  /\ rq[q].pc = "retry" => rq[q].copy.kind = "healing"
  /\ rq[q].pc \in {"loop", "running"} => rq[q].copy.kind # "healing"
  /\ rq[q].pc = "replay" => rq[q].copy.applied = rq[q].token
  /\ ~rq[q].valid => /\ rq[q].pc \in {"journal", "snapshot", "reply"}
                     /\ rq[q].copy.status = "NEEDS_REVIEW"
  /\ rq[q].copy.kind = "healing" => kind = "healing"
HeldInv == /\ \A q \in Handlers : Held(q)
           /\ disk.kind = "healing" => kind = "healing"
           /\ disk.status \in Statuses \/ disk = NoSnapshot

\* What is still to be started may be, without a fault: c has not retried.
Open(c)     == /\ c.status \in {Waiting, "none"}
               /\ ~(c.kind = "healing" /\ c.retried /\ c.applied # NoToken)
WillOpen(c) == c.status = Waiting /\ ~(c.kind = "healing" /\ c.retried)

\* With one handler at work: it holds what is on disk, no token stands answered ...
InHand(q) ==
  /\ \A t \in Tokens : told[t] = "none"
  /\ rq[q].pc \in {"apply", "retry", "loop"} =>
       disk = rq[q].copy /\ (Open(rq[q].copy) => starts <= faults)
  /\ rq[q].pc \in {"running", "journal", "snapshot"} =>
       disk.status = IF rq[q].valid THEN Waiting ELSE "NEEDS_REVIEW"
  /\ rq[q].pc \in {"snapshot", "token", "reply"} => journal = rq[q].copy.status
  /\ rq[q].pc \in {"token", "reply"} => disk.status = rq[q].copy.status
  /\ rq[q].pc = "reply" /\ rq[q].valid =>
       disk = rq[q].copy /\ disk.applied = rq[q].token
  /\ rq[q].pc \in {"journal", "snapshot", "token", "reply"} /\ WillOpen(rq[q].copy)
       => starts <= faults

\* ... and with none, the token that stands answered is the one on disk.
Settled ==
  /\ \A t \in Tokens : told[t] # "none" => disk.applied = t /\ journal = told[t]
  /\ Open(disk) => starts <= faults

InTurn ==
  /\ \A p, q \in Handlers : rq[p].pc # "idle" /\ rq[q].pc # "idle" => p = q
  /\ starts <= 1 + faults
  /\ \A q \in Handlers : rq[q].pc \in Holding => InHand(q)
  /\ (\A q \in Handlers : rq[q].pc \notin Holding) => Settled
OneAtATime == ~together => InTurn

IInv == Typed /\ Approvals /\ HeldInv /\ OneAtATime

-----------------------------------------------------------------------------
LEMMA NothingIsTyped == NoProposal \in Proposals /\ NoSnapshot \in Snapshots /\ Free \in Requests
<1>1. NoProposal \in Proposals
  BY HealingAssumption DEF NoProposal, Proposals
<1>2. NoSnapshot \in Snapshots
  BY <1>1 DEF NoSnapshot, Snapshots
<1>3. QED
  BY <1>1, <1>2 DEF Free, Requests

\* What the healing service proposes awaits an SME, and what it healed names one
\* of the candidates' locators.
LEMMA HealingsPropose ==
  ASSUME NEW res \in Healings
  PROVE  /\ res.prop \in Proposals /\ res.prop.status # "APPROVED"
         /\ res.prop = NoProposal \/ res.prop.loc \in Locators \cup {"timing-wait"}
         /\ res.status = "HEALED_PENDING_APPROVAL" => res.prop.loc \in Locators
<1>1. PICK found \in SUBSET (ToSet(Kinds) \cup {"UNAVAILABLE"}), cands \in CandidateLists,
           ok \in [1 .. MaxAttempts -> BOOLEAN], label \in Labels :
             res = Healing(Detected(found), cands, ok, label)
  BY DEF Healings
<1> DEFINE type == Detected(found)
<1> HIDE DEF type
<1>2. cands = <<>> \/ cands[1].loc \in Locators
  BY DEF CandidateLists, Candidates
<1>3. CASE ~Eligible(type)
  BY <1>1, <1>3, NothingIsTyped DEF type, Healing, NotHealable, Result, NoProposal
<1>4. CASE type = "TIMING"
  BY <1>1, <1>4 DEF type, Healing, HealTiming, Result, Proposed, Proposals, Eligible
<1>5. CASE type = "LOCATOR" /\ cands = <<>>
  BY <1>1, <1>5, NothingIsTyped DEF type, Healing, Result, NoProposal, Eligible
<1>6. CASE type = "LOCATOR" /\ cands # <<>>
  <2> DEFINE propose(status) == Proposed(cands[1].loc, label, type, status)
  <2>1. \E status \in {"DRAFT", "PENDING_SME_APPROVAL"} :
          res.prop = Proposed(cands[1].loc, label, type, status)
    BY <1>1, <1>6 DEF type, Healing, Result, Eligible
  <2>2. QED
    BY <1>2, <1>6, <2>1 DEF Proposed, Proposals
<1>7. QED
  BY <1>3, <1>4, <1>5, <1>6 DEF Eligible

\* A proposal with a locator replaces what is filed for its label.
LEMMA WithOverlayFacts ==
  ASSUME NEW old \in SUBSET Overlays, NEW p \in Proposals, p.loc \in Locators,
         \A e \in old : e.loc \in agreed, p.loc \in agreed,
         \A e, f \in old : e.label = f.label => e = f
  PROVE  /\ WithOverlay(old, p) \in SUBSET Overlays
         /\ \A e \in WithOverlay(old, p) : e.loc \in agreed
         /\ \A e, f \in WithOverlay(old, p) : e.label = f.label => e = f
BY DEF WithOverlay, SameTarget, Overlay, Overlays, Proposals

-----------------------------------------------------------------------------
LEMMA InitIInv == Init => IInv
<1> SUFFICES ASSUME Init PROVE IInv
  OBVIOUS
<1>1. Typed
  <2>1. art \in Artifacts /\ art.rev = 0 /\ (art.gate => art.approved)
    BY DEF Init, Artifacts
  <2>2. /\ edits = 0 /\ faults = 0 /\ arrived = 0 /\ starts = 0
        /\ kind \in {"running", "execution_gate", "generation"}
        /\ agreed = {} /\ store = {} /\ journal = "none"
    BY DEF Init, EmptyStore
  <2>a. together \in BOOLEAN
    BY Zenon DEF Init
  <2>3. prop = NoProposal /\ review = NoProposal /\ disk = NoSnapshot
    BY DEF Init
  <2>4. /\ rq \in [Handlers -> Requests]
        /\ told \in [Tokens -> Statuses \cup {"none"}]
    BY NothingIsTyped DEF Init
  <2>5. QED
    BY <2>1, <2>2, <2>a, <2>3, <2>4, NothingIsTyped, ResumeAssumption DEF Typed, PauseKinds
<1>2. Approvals
  <2>1. prop = NoProposal /\ review = NoProposal /\ store = {} /\ kind # "healing"
    BY DEF Init, EmptyStore
  <2>2. NoProposal.status # "APPROVED"
    BY DEF NoProposal
  <2>3. QED
    BY <2>1, <2>2 DEF Approvals
<1>3. HeldInv
  <2>1. NoSnapshot.kind = "none" /\ disk = NoSnapshot
    BY DEF Init, NoSnapshot
  <2>2. \A q \in Handlers : rq[q] = Free /\ Free.pc = "idle" /\ Free.valid /\ Free.copy = NoSnapshot
    BY DEF Init, Free
  <2>3. \A q \in Handlers : Held(q)
    BY <2>1, <2>2 DEF Held, Holding
  <2>4. QED
    BY <2>1, <2>3 DEF HeldInv
<1>4. OneAtATime
  BY DEF Init, OneAtATime, InTurn, Settled, Open, Free, Holding
<1>5. QED
  BY <1>1, <1>2, <1>3, <1>4 DEF IInv

\* A step that leaves the requests and what they read and write alone.
LEMMA ElsewhereKeeps ==
  ASSUME IInv, Typed', Approvals',
         kind = "healing" => kind' = "healing",
         UNCHANGED <<disk, journal, rq, starts, faults, together, told>>
  PROVE  IInv'
<1>1. HeldInv'
  BY DEF IInv, HeldInv, Held
<1>2. OneAtATime'
  BY DEF IInv, OneAtATime, InTurn, InHand, Settled
<1>3. QED
  BY <1>1, <1>2 DEF IInv

LEMMA HealKeeps == ASSUME IInv, Heal PROVE IInv'
<1>1. PICK res \in Healings :
        /\ prop' = res.prop
        /\ kind' = IF res.status = "HEALED_PENDING_APPROVAL"
                   THEN "healing" ELSE "recovery.exhausted"
  BY DEF Heal
<1>2. kind = "running" /\ UNCHANGED <<art, edits, review, agreed, store, journal, disk, rq,
                                     arrived, starts, faults, together, told>>
  BY DEF Heal, saved
<1>3. Typed'
  BY <1>1, <1>2, HealingsPropose DEF IInv, Typed, PauseKinds
<1>4. Approvals'
  BY <1>1, <1>2, HealingsPropose DEF IInv, Approvals
<1>5. QED
  BY <1>2, <1>3, <1>4, ElsewhereKeeps

LEMMA PeopleKeep ==
  ASSUME IInv, Decide \/ ReviewReads \/ ReviewWrites \/ Collide
  PROVE  IInv'
<1>1. UNCHANGED <<kind, store, journal, disk, rq, arrived, starts, faults, together, told>>
  BY DEF Decide, ReviewReads, ReviewWrites, Collide, Apart, saved
<1>2. Typed /\ Approvals
  BY DEF IInv
<1>3. Typed' /\ Approvals'
  <2>1. CASE Decide
    <3>1. PICK a \in BOOLEAN, g \in BOOLEAN :
            (g => a) /\ art' = [rev |-> edits', approved |-> a, gate |-> g]
      BY <2>1 DEF Decide
    <3>2. edits' \in 0 .. MaxEdits
      BY <1>2, <2>1, ResumeAssumption DEF Decide, Edit, Typed
    <3>3. UNCHANGED <<prop, review, agreed>>
      BY <2>1 DEF Decide
    <3>4. Typed'
      BY <1>1, <1>2, <3>1, <3>2, <3>3 DEF Typed, Artifacts
    <3>5. QED
      BY <1>1, <1>2, <3>3, <3>4 DEF Approvals
  <2>2. CASE ReviewReads
    <3>1. edits' \in 0 .. MaxEdits /\ edits <= edits'
      BY <1>2, <2>2, ResumeAssumption DEF ReviewReads, Edit, Typed
    <3>2. review' = prop /\ UNCHANGED <<art, prop, agreed>>
          /\ prop # NoProposal
      BY <2>2 DEF ReviewReads
    <3>3. Typed'
      BY <1>1, <1>2, <3>1, <3>2 DEF Typed, Artifacts
    <3>4. QED
      BY <1>1, <1>2, <3>2, <3>3 DEF Approvals, NoProposal
  <2>3. CASE ReviewWrites
    <3>1. PICK status \in {"APPROVED", "REJECTED"} :
            /\ prop' = [review EXCEPT !.status = status]
            /\ agreed' = IF status = "APPROVED" THEN agreed \cup {review.loc} ELSE agreed
      BY <2>3 DEF ReviewWrites
    <3>2. review # NoProposal /\ review' = NoProposal /\ UNCHANGED <<art, edits>>
      BY <2>3 DEF ReviewWrites
    <3>3. prop' \in Proposals /\ prop'.loc = review.loc /\ prop'.status = status
      BY <1>2, <3>1 DEF Typed, Proposals
    <3>4. agreed' \in SUBSET (Locators \cup {"timing-wait"})
      BY <1>2, <3>1, <3>2 DEF Typed, Approvals
    <3>5. Typed'
      BY <1>1, <1>2, <3>2, <3>3, <3>4, NothingIsTyped DEF Typed
    <3>6. /\ review.loc \in Locators \cup {"timing-wait"}
          /\ kind = "healing" => review.loc \in Locators
          /\ prop'.status = "APPROVED" => prop'.loc \in agreed'
          /\ agreed \subseteq agreed'
      BY <1>2, <3>1, <3>2, <3>3 DEF Approvals
    <3>7. kind # "running"
      BY <1>2, <3>2 DEF Approvals
    <3>8. Approvals'
      BY <1>1, <1>2, <3>2, <3>3, <3>6, <3>7 DEF Approvals
    <3>9. QED
      BY <3>5, <3>8
  <2>4. CASE Collide
    <3>a. Edit
      BY <2>4 DEF Collide
    <3>1. edits' \in 0 .. MaxEdits /\ edits <= edits'
      BY <1>2, <3>a, ResumeAssumption DEF Edit, Typed
    <3>2. PICK loc \in Locators :
            prop' = [prop EXCEPT !.loc = loc, !.status = "PENDING_SME_APPROVAL"]
      BY <2>4 DEF Collide
    <3>3. prop' \in Proposals /\ prop'.loc = loc /\ prop'.status = "PENDING_SME_APPROVAL"
      BY <1>2, <3>2 DEF Typed, Proposals
    <3>4. UNCHANGED <<art, review, agreed>> /\ prop # NoProposal
      BY <2>4 DEF Collide
    <3>5. Typed'
      BY <1>1, <1>2, <3>1, <3>3, <3>4 DEF Typed, Artifacts
    <3>6. QED
      BY <1>1, <1>2, <3>2, <3>3, <3>4, <3>5 DEF Approvals
  <2>5. QED
    BY <2>1, <2>2, <2>3, <2>4
<1>4. QED
  BY <1>1, <1>3, ElsewhereKeeps

-----------------------------------------------------------------------------
\* The first invocation pauses: nobody has been answered, and nothing started.
LEMMA PauseKeeps == ASSUME IInv, Pause PROVE IInv'
<1> DEFINE status == IF kind \in PauseKinds THEN Waiting ELSE "NEEDS_REVIEW"
<1>1. /\ disk = NoSnapshot /\ kind \in PauseKinds \cup {"recovery.exhausted"}
      /\ journal' = status /\ disk' = Snapshot(status)
      /\ UNCHANGED <<kind, art, prop, edits, review, agreed, store, rq, arrived, starts,
                     faults, together, told>>
  BY DEF Pause, people
<1>2. /\ status \in Statuses /\ disk' \in Snapshots /\ disk'.status = status
      /\ disk'.kind \in {kind, "after_validation"} /\ disk'.applied = NoToken
  BY <1>1, NothingIsTyped, ResumeAssumption
     DEF Snapshot, Snapshots, Statuses, Terminal, Waiting, IInv, Typed, Artifacts, PauseKinds
<1>3. Typed'
  BY <1>1, <1>2 DEF IInv, Typed
<1>4. Approvals'
  BY <1>1 DEF IInv, Approvals
<1>5. HeldInv'
  <2>1. \A q \in Handlers : Held(q)'
    BY <1>1, <1>2 DEF IInv, HeldInv, Held
  <2>2. "after_validation" # "healing"
    OBVIOUS
  <2>3. QED
    BY <1>1, <1>2, <2>1, <2>2 DEF HeldInv
<1>6. OneAtATime'
  <2> SUFFICES ASSUME ~together PROVE InTurn'
    BY <1>1 DEF OneAtATime
  <2>1. InTurn
    BY DEF IInv, OneAtATime
  <2>2. NoSnapshot.status = "none" /\ NoSnapshot.kind = "none" /\ NoSnapshot.applied = NoToken
        /\ "none" \notin Statuses /\ NoToken \notin Tokens
    BY TokensAssumption DEF NoSnapshot, Statuses, Terminal, Waiting, NoToken
  <2>3. \A q \in Handlers : rq[q].pc = "idle"
    BY <1>1, <2>2 DEF IInv, HeldInv, Held
  <2>4. Settled /\ (\A t \in Tokens : told[t] = "none") /\ starts <= faults
    BY <1>1, <2>1, <2>2, <2>3 DEF InTurn, Settled, Open, Holding
  <2>5. Settled'
    BY <1>1, <2>4 DEF Settled
  <2>6. QED
    BY <1>1, <2>1, <2>3, <2>5 DEF InTurn, Holding
<1>7. QED
  BY <1>3, <1>4, <1>5, <1>6 DEF IInv

-----------------------------------------------------------------------------
\* One step of a handler that works: what it has to establish.
Turn(q) == /\ starts <= 1 + faults
           /\ rq[q].pc \in Holding => InHand(q)
           /\ rq[q].pc \notin Holding => Settled

LEMMA HandlerKeeps ==
  ASSUME IInv, NEW q \in Handlers, rq[q].pc # "idle", NEW rec \in Requests, Moved(q, rec),
         UNCHANGED <<kind, people, arrived, together>>,
         store' \in SUBSET Overlays, \A e \in store' : e.loc \in agreed,
         \A e, f \in store' : e.label = f.label => e = f,
         starts' \in Nat, faults' \in 0 .. MaxFaults,
         journal' \in Statuses \cup {"none"},
         disk' \in Snapshots, disk'.status \in Statuses,
         disk'.kind = "healing" => kind = "healing",
         told' \in [Tokens -> Statuses \cup {"none"}],
         Held(q)', ~together => Turn(q)'
  PROVE  IInv'
<1>1. Typed /\ Approvals /\ HeldInv
  BY DEF IInv
<1>2. /\ rq' \in [Handlers -> Requests] /\ rq'[q] = rec
      /\ \A p \in Handlers \ {q} : rq'[p] = rq[p]
  BY <1>1 DEF Typed, Moved
<1>3. Typed'
  BY <1>1, <1>2 DEF Typed, people
<1>4. Approvals'
  BY <1>1 DEF Approvals, people
<1>5. HeldInv'
  <2>1. ASSUME NEW p \in Handlers PROVE Held(p)'
    <3>1. CASE p = q
      BY <3>1
    <3>2. CASE p # q
      BY <1>1, <1>2, <3>2 DEF HeldInv, Held
    <3>3. QED
      BY <3>1, <3>2
  <2>2. QED
    BY <2>1 DEF HeldInv
<1>6. OneAtATime'
  <2> SUFFICES ASSUME ~together PROVE InTurn'
    BY DEF OneAtATime
  <2>1. InTurn /\ Turn(q)'
    BY DEF IInv, OneAtATime
  <2>2. \A p \in Handlers \ {q} : rq'[p].pc = "idle"
    BY <1>2, <2>1 DEF InTurn
  <2>3. \A p \in Handlers : rq'[p].pc \in Holding => p = q
    BY <2>2 DEF Holding
  <2>4. QED
    BY <2>1, <2>2, <2>3 DEF InTurn, Turn
<1>7. QED
  BY <1>3, <1>4, <1>5, <1>6 DEF IInv

\* What is known of the handler that works.
LEMMA HandlerFacts ==
  ASSUME IInv, NEW q \in Handlers, rq[q].pc # "idle"
  PROVE  /\ Typed /\ Approvals /\ Held(q) /\ rq \in [Handlers -> Requests]
         /\ rq[q] \in Requests /\ rq[q].copy \in Snapshots
         /\ rq[q].token \in Tokens /\ rq[q].token # NoToken
         /\ disk \in Snapshots /\ disk.status \in Statuses
         /\ disk.kind = "healing" => kind = "healing"
         /\ store \in SUBSET Overlays /\ \A e \in store : e.loc \in agreed
         /\ \A e, f \in store : e.label = f.label => e = f
         /\ starts \in Nat /\ faults \in 0 .. MaxFaults
         /\ journal \in Statuses \cup {"none"}
         /\ told \in [Tokens -> Statuses \cup {"none"}]
<1>1. Typed /\ Approvals /\ HeldInv
  BY DEF IInv
<1>2. Held(q) /\ rq[q] \in Requests
  BY <1>1 DEF HeldInv, Typed
<1>3. NoToken \notin Tokens
  BY TokensAssumption DEF NoToken
<1>4. QED
  BY <1>1, <1>2, <1>3 DEF HeldInv, Held, Typed, Approvals, Requests

LEMMA TurnFacts ==
  ASSUME IInv, NEW q \in Handlers, rq[q].pc # "idle", ~together
  PROVE  /\ Turn(q) /\ InTurn
<1>1. InTurn
  BY DEF IInv, OneAtATime
<1>2. QED
  BY <1>1 DEF InTurn, Turn, Holding

\* The moves of a handler.
LEMMA RequestFacts ==
  ASSUME NEW r \in Requests, NEW label \in Handling, NEW c \in Snapshots
  PROVE  /\ [r EXCEPT !.pc = label] \in Requests
         /\ [r EXCEPT !.pc = label, !.copy = c] \in Requests
BY DEF Requests

LEMMA ConcludesFacts ==
  ASSUME NEW q \in Handlers, rq \in [Handlers -> Requests], NEW label \in Handling,
         NEW status \in Statuses, Concludes(q, label, status)
  PROVE  /\ rq'[q] \in Requests /\ Moved(q, rq'[q])
         /\ rq'[q].pc = label /\ rq'[q].copy = [rq[q].copy EXCEPT !.status = status]
         /\ rq'[q].token = rq[q].token /\ rq'[q].valid = rq[q].valid
<1> DEFINE rec == [rq[q] EXCEPT !.pc = label, !.copy.status = status]
<1>1. rq' = [rq EXCEPT ![q] = rec] /\ rq[q] \in Requests
  BY DEF Concludes, Moved
<1>2. /\ rec \in Requests /\ rec.pc = label
      /\ rec.copy = [rq[q].copy EXCEPT !.status = status]
      /\ rec.token = rq[q].token /\ rec.valid = rq[q].valid
  BY <1>1 DEF Requests, Snapshots
<1>3. rq'[q] = rec
  BY <1>1
<1>4. QED
  BY <1>1, <1>2, <1>3 DEF Moved

LEMMA Unheld == Free.pc = "idle" /\ Free.valid /\ Free.copy.kind # "healing"
BY DEF Free, NoSnapshot

\* A handler that is free again after a request that changed nothing.
LEMMA OverKeeps ==
  ASSUME IInv, NEW q \in Handlers, rq[q].pc # "idle", Over(q),
         UNCHANGED <<kind, people, store, saved, arrived, starts, together>>,
         faults' \in 0 .. MaxFaults,
         told' \in [Tokens -> Statuses \cup {"none"}],
         ~together => starts <= 1 + faults' /\ Settled'
  PROVE  IInv'
<1>1. Free \in Requests /\ Moved(q, Free)
  BY NothingIsTyped DEF Over
<1>2. rq'[q] = Free /\ rq \in [Handlers -> Requests]
  BY <1>1, HandlerFacts DEF Moved
<1>3. Held(q)'
  BY <1>2, Unheld DEF Held, Holding
<1>4. ~together => Turn(q)'
  BY <1>2, Unheld DEF Turn, Holding
<1>5. UNCHANGED <<journal, disk>>
  BY DEF saved
<1>6. QED
  BY <1>1, <1>3, <1>4, <1>5, HandlerFacts, HandlerKeeps

LEMMA CaptureKeeps == ASSUME IInv, NEW q \in Handlers, Capture(q) PROVE IInv'
<1>1. /\ rq[q].pc = "captured"
      /\ UNCHANGED <<kind, people, arrived, faults, store, starts, journal, disk, together, told>>
  BY DEF Capture, At, Quiet, Outside, saved
<1>2. PICK label \in {"replay", "loaded"}, c \in {disk, rq[q].copy} :
        /\ Moved(q, [rq[q] EXCEPT !.pc = label, !.copy = c])
        /\ label = "replay" => c = disk /\ disk.applied = rq[q].token
  <2>1. CASE IsReplay(disk, rq[q].token)
    BY <2>1 DEF Capture, IsReplay
  <2>2. CASE ~IsReplay(disk, rq[q].token)
    <3>1. [rq[q] EXCEPT !.pc = "loaded"] = [rq[q] EXCEPT !.pc = "loaded", !.copy = rq[q].copy]
      BY <1>1, HandlerFacts DEF Requests
    <3>2. QED
      BY <2>2, <3>1 DEF Capture, Goes
  <2>3. QED
    BY <2>1, <2>2
<1> DEFINE rec == [rq[q] EXCEPT !.pc = label, !.copy = c]
<1>3. rec \in Requests
  <2>1. c \in Snapshots /\ rq[q] \in Requests /\ label \in Handling
    BY <1>1, HandlerFacts DEF Handling
  <2>2. QED
    BY <2>1, RequestFacts
<1>4. rq'[q] = rec /\ rec.pc = label /\ rec.copy = c /\ rec.token = rq[q].token
      /\ rec.valid = rq[q].valid
  BY <1>1, <1>2, HandlerFacts DEF Moved, Requests
<1>5. Held(q)'
  BY <1>1, <1>2, <1>4, HandlerFacts DEF Held, Holding
<1>6. ~together => Turn(q)'
  BY <1>1, <1>4, TurnFacts DEF Turn, Settled, Holding
<1>7. QED
  BY <1>1, <1>2, <1>3, <1>5, <1>6, HandlerFacts, HandlerKeeps

LEMMA ReplayKeeps == ASSUME IInv, NEW q \in Handlers, Replay(q) PROVE IInv'
<1>1. /\ rq[q].pc = "replay" /\ Over(q)
      /\ UNCHANGED <<kind, people, arrived, faults, store, starts, saved, together, told>>
  BY DEF Replay, At, Quiet, Outside
<1>2. ~together => starts <= 1 + faults' /\ Settled'
  BY <1>1, TurnFacts DEF Turn, Settled, Holding, saved
<1>3. QED
  BY <1>1, <1>2, HandlerFacts, OverKeeps

\* The request is taken up: what it holds is what is on disk, and the answers
\* that stood are forgotten, its own token's was none.
LEMMA LoadKeeps == ASSUME IInv, NEW q \in Handlers, Load(q) PROVE IInv'
<1>1. /\ rq[q].pc = "loaded"
      /\ UNCHANGED <<kind, people, arrived, faults, store, starts, saved, journal, disk, together>>
  BY DEF Load, At, Quiet, Outside, saved
<1>2. CASE IsReplay(disk, rq[q].token)
  <2> DEFINE rec == [rq[q] EXCEPT !.pc = "replay", !.copy = disk]
  <2>1. Moved(q, rec) /\ UNCHANGED told /\ disk.applied = rq[q].token
    BY <1>2 DEF Load, IsReplay
  <2>2. rec \in Requests
    BY <1>1, HandlerFacts, RequestFacts DEF Handling
  <2>3. rq'[q] = rec /\ rec.pc = "replay" /\ rec.copy = disk /\ rec.token = rq[q].token
        /\ rec.valid = rq[q].valid
    BY <1>1, <2>1, HandlerFacts DEF Moved, Requests
  <2>4. Held(q)'
    BY <1>1, <2>1, <2>3, HandlerFacts DEF Held, Holding
  <2>5. ~together => Turn(q)'
    BY <1>1, <2>1, <2>3, TurnFacts DEF Turn, Settled, Holding
  <2>6. QED
    BY <1>1, <2>1, <2>2, <2>4, <2>5, HandlerFacts, HandlerKeeps
<1>3. CASE ~IsReplay(disk, rq[q].token) /\ Resumable(disk)
  <2> DEFINE rec == [rq[q] EXCEPT !.pc = "apply", !.copy = disk]
  <2>1. /\ Moved(q, rec) /\ disk.applied # rq[q].token /\ disk.status = Waiting
        /\ told' = [t \in Tokens |-> IF t = rq[q].token THEN told[t] ELSE "none"]
    BY <1>3 DEF Load, IsReplay, Resumable
  <2>2. rec \in Requests
    BY <1>1, HandlerFacts, RequestFacts DEF Handling
  <2>3. rq'[q] = rec /\ rec.pc = "apply" /\ rec.copy = disk /\ rec.token = rq[q].token
        /\ rec.valid = rq[q].valid
    BY <1>1, <2>1, HandlerFacts DEF Moved, Requests
  <2>4. told' \in [Tokens -> Statuses \cup {"none"}]
    BY <1>1, <2>1, HandlerFacts
  <2>5. Held(q)'
    BY <1>1, <2>1, <2>3, HandlerFacts DEF Held, Holding
  <2>6. ASSUME ~together PROVE Turn(q)'
    <3>1. Settled /\ starts <= 1 + faults
      BY <1>1, <2>6, TurnFacts DEF Turn, Holding
    <3>2. told[rq[q].token] = "none"
      BY <1>1, <2>1, <3>1, HandlerFacts DEF Settled
    <3>3. \A t \in Tokens : told'[t] = "none"
      BY <2>1, <3>2
    <3>4. InHand(q)'
      BY <1>1, <2>1, <2>3, <3>1, <3>3 DEF InHand, Settled
    <3>5. QED
      BY <1>1, <2>3, <3>1, <3>4 DEF Turn, Holding
  <2>7. QED
    BY <1>1, <2>1, <2>2, <2>4, <2>5, <2>6, HandlerFacts, HandlerKeeps
<1>4. CASE ~IsReplay(disk, rq[q].token) /\ ~Resumable(disk)
  <2>1. Over(q) /\ UNCHANGED told
    BY <1>4 DEF Load
  <2>2. ~together => starts <= 1 + faults' /\ Settled'
    BY <1>1, <2>1, TurnFacts DEF Turn, Settled, Holding
  <2>3. QED
    BY <1>1, <2>1, <2>2, HandlerFacts, OverKeeps
<1>5. QED
  BY <1>2, <1>3, <1>4

\* _validate_resume refuses: the snapshot says so before the journal does.
LEMMA InvalidKeeps == ASSUME IInv, NEW q \in Handlers, Invalid(q) PROVE IInv'
<1> DEFINE c   == [rq[q].copy EXCEPT !.status = "NEEDS_REVIEW"]
           rec == [rq[q] EXCEPT !.pc = "journal", !.valid = FALSE,
                                !.copy.status = "NEEDS_REVIEW"]
<1>1. /\ rq[q].pc = "apply" /\ disk' = c /\ Moved(q, rec)
      /\ UNCHANGED <<kind, people, arrived, faults, store, starts, journal, together, told>>
  BY DEF Invalid, At, Quiet, Outside
<1>2. /\ rq[q] \in Requests /\ rq[q].copy \in Snapshots /\ "NEEDS_REVIEW" \in Statuses
      /\ rq \in [Handlers -> Requests]
  BY <1>1, HandlerFacts DEF Statuses, Terminal
<1>3. /\ c \in Snapshots /\ c.status = "NEEDS_REVIEW" /\ c.kind = rq[q].copy.kind
  BY <1>2 DEF Snapshots
<1>4. rec \in Requests /\ rec.pc = "journal" /\ rec.copy = c /\ rec.token = rq[q].token
      /\ ~rec.valid
  BY <1>2, <1>3 DEF Requests, Handling, Snapshots
<1>5. rq'[q] = rec
  BY <1>1, <1>2 DEF Moved
<1> HIDE DEF c, rec
<1>6. Held(q)'
  <2>1. Held(q) /\ rq[q].token \in Tokens /\ kind' = kind
    BY <1>1, HandlerFacts
  <2>2. QED
    BY <1>1, <1>2, <1>3, <1>4, <1>5, <2>1 DEF Held
<1>7. ~together => Turn(q)'
  BY <1>1, <1>3, <1>4, <1>5, TurnFacts DEF Turn, InHand, Holding, WillOpen, Waiting
<1>8. QED
  BY <1>1, <1>2, <1>3, <1>4, <1>6, <1>7, HandlerFacts, HandlerKeeps DEF Held

\* Steps from one label to the next that save nothing.
LEMMA GoesKeeps ==
  ASSUME IInv, NEW q \in Handlers, rq[q].pc # "idle", NEW label \in Handling, Goes(q, label),
         UNCHANGED <<kind, people, arrived, faults, store, journal, disk, together, told>>,
         starts' \in Nat, Held(q)', ~together => Turn(q)'
  PROVE  IInv'
<1>1. [rq[q] EXCEPT !.pc = label] \in Requests
  BY HandlerFacts, RequestFacts
<1>2. QED
  BY <1>1, HandlerFacts, HandlerKeeps DEF Goes

LEMMA ValidatedKeeps == ASSUME IInv, NEW q \in Handlers, Validated(q) PROVE IInv'
<1>1. PICK label \in {"retry", "loop"} :
        /\ Goes(q, label)
        /\ label = "retry" => rq[q].copy.kind = "healing"
        /\ label = "loop" => rq[q].copy.kind # "healing"
  BY DEF Validated
<1>2. /\ rq[q].pc = "apply"
      /\ UNCHANGED <<kind, people, arrived, faults, store, starts, journal, disk, together, told>>
  BY DEF Validated, At, Quiet, Outside, saved
<1>3. rq'[q] = [rq[q] EXCEPT !.pc = label] /\ rq[q] \in Requests
  BY <1>1, <1>2, HandlerFacts DEF Goes, Moved
<1>4. rq'[q].pc = label /\ rq'[q].copy = rq[q].copy /\ rq'[q].token = rq[q].token
      /\ rq'[q].valid = rq[q].valid
  BY <1>3 DEF Requests
<1>5. Held(q)'
  BY <1>1, <1>2, <1>4, HandlerFacts DEF Held, Holding
<1>6. ~together => Turn(q)'
  BY <1>2, <1>4, TurnFacts DEF Turn, InHand, Holding
<1>7. label \in Handling
  BY DEF Handling
<1>8. QED
  BY <1>1, <1>2, <1>5, <1>6, <1>7, HandlerFacts, GoesKeeps

LEMMA StartKeeps == ASSUME IInv, NEW q \in Handlers, Start(q) PROVE IInv'
<1>1. /\ rq[q].pc = "loop" /\ Goes(q, "running") /\ starts' = starts + 1
      /\ UNCHANGED <<kind, people, arrived, faults, store, journal, disk, together, told>>
  BY DEF Start, At, Outside, saved
<1>2. rq'[q] = [rq[q] EXCEPT !.pc = "running"] /\ rq[q] \in Requests
  BY <1>1, HandlerFacts DEF Goes, Moved
<1>3. rq'[q].pc = "running" /\ rq'[q].copy = rq[q].copy /\ rq'[q].token = rq[q].token
      /\ rq'[q].valid = rq[q].valid
  BY <1>2 DEF Requests
<1>4. Held(q)'
  BY <1>1, <1>3, HandlerFacts DEF Held, Holding
<1>5. ASSUME ~together PROVE Turn(q)'
  <2>1. InHand(q) /\ Held(q) /\ starts \in Nat /\ faults \in Nat
    BY <1>1, <1>5, TurnFacts, HandlerFacts DEF Turn, Holding
  <2>2. starts <= faults /\ disk.status = Waiting /\ rq[q].valid
    BY <1>1, <2>1 DEF InHand, Held, Open
  <2>3. QED
    BY <1>1, <1>3, <2>1, <2>2 DEF Turn, InHand, Holding
<1>6. "running" \in Handling
  BY DEF Handling
<1>7. starts' \in Nat
  BY <1>1, HandlerFacts
<1>8. QED
  BY <1>1, <1>4, <1>5, <1>6, <1>7, GoesKeeps

\* The loop or the retry of a handler comes to a conclusion.
LEMMA ConcludesKeeps ==
  ASSUME IInv, NEW q \in Handlers, rq[q].pc \in {"retry", "loop", "running"},
         NEW status \in Statuses, Concludes(q, "journal", status),
         UNCHANGED <<kind, people, arrived, faults, starts, journal, disk, together, told>>,
         store' \in SUBSET Overlays, \A e \in store' : e.loc \in agreed,
         \A e, f \in store' : e.label = f.label => e = f,
         rq[q].pc = "running" => status # Waiting,
         rq[q].pc = "retry" => status # Waiting \/ (rq[q].copy.retried /\ rq[q].copy.applied # NoToken)
  PROVE  IInv'
<1>1. "journal" \in Handling /\ rq[q].pc # "idle" /\ rq[q].pc \in Holding
  BY DEF Handling, Holding
<1>2. Held(q) /\ rq[q] \in Requests /\ rq[q].copy \in Snapshots /\ rq \in [Handlers -> Requests]
  BY <1>1, HandlerFacts
<1>3. /\ rq'[q] \in Requests /\ Moved(q, rq'[q])
      /\ rq'[q].pc = "journal" /\ rq'[q].copy = [rq[q].copy EXCEPT !.status = status]
      /\ rq'[q].token = rq[q].token /\ rq'[q].valid = rq[q].valid
  BY <1>1, <1>2, ConcludesFacts
<1>4. /\ rq'[q].copy.status = status /\ rq'[q].copy.kind = rq[q].copy.kind
      /\ rq'[q].copy.retried = rq[q].copy.retried
  BY <1>2, <1>3 DEF Snapshots
<1>5. Held(q)'
  BY <1>1, <1>2, <1>3, <1>4, HandlerFacts DEF Held, Holding
<1>6. ASSUME ~together PROVE Turn(q)'
  <2>1. InHand(q) /\ starts <= 1 + faults /\ rq[q].valid
    BY <1>1, <1>2, <1>6, TurnFacts DEF Turn, Held
  <2>2. disk.status = Waiting
    BY <1>2, <2>1 DEF InHand, Held
  <2>3. WillOpen(rq'[q].copy) => starts <= faults
    BY <1>2, <1>4, <2>1 DEF InHand, Held, WillOpen, Open
  <2>4. InHand(q)'
    BY <1>3, <2>1, <2>2, <2>3 DEF InHand
  <2>5. QED
    BY <1>1, <1>3, <2>1, <2>4 DEF Turn, Holding
<1>7. QED
  BY <1>1, <1>3, <1>5, <1>6, HandlerFacts, HandlerKeeps

LEMMA LoopEndsKeeps ==
  ASSUME IInv, NEW q \in Handlers, Idle(q) \/ Verdict(q) PROVE IInv'
<1>1. UNCHANGED <<kind, people, arrived, faults, store, starts, journal, disk, together, told>>
  BY DEF Idle, Verdict, Quiet, Outside, saved
<1>2. /\ rq[q].pc \in {"loop", "running"}
      /\ \E status \in Statuses : /\ Concludes(q, "journal", status)
                                  /\ rq[q].pc = "running" => status # Waiting
  BY DEF Idle, Verdict, At, Statuses, Terminal, Waiting
<1>3. QED
  BY <1>1, <1>2, HandlerFacts, ConcludesKeeps

\* _resume_healing: the approved proposal becomes an overlay, the test is
\* retried once.
LEMMA RetryKeeps == ASSUME IInv, NEW q \in Handlers, Retry(q) PROVE IInv'
<1>1. /\ rq[q].pc = "retry" /\ rq[q].pc # "idle"
      /\ UNCHANGED <<kind, people, arrived, faults, saved, journal, disk, together, told>>
  BY DEF Retry, At, Outside, saved
<1>2. /\ Typed /\ Approvals /\ Held(q) /\ rq[q] \in Requests /\ rq[q].copy \in Snapshots
      /\ rq \in [Handlers -> Requests] /\ kind = "healing" /\ starts \in Nat
      /\ store \in SUBSET Overlays /\ faults \in Nat
  BY <1>1, HandlerFacts DEF Held
<1>3. CASE Over(q) /\ UNCHANGED <<store, starts>>
  <2>1. Over(q) /\ UNCHANGED <<store, starts>>
    BY <1>3
  <2>2. ASSUME ~together PROVE starts <= 1 + faults' /\ Settled'
    <3>1. InHand(q) /\ starts <= 1 + faults
      BY <1>1, <2>2, TurnFacts DEF Turn, Holding
    <3>2. QED
      BY <1>1, <2>1, <3>1 DEF InHand, Settled
  <2>3. QED
    BY <1>1, <2>1, <2>2, HandlerFacts, OverKeeps
<1>4. CASE ~(Over(q) /\ UNCHANGED <<store, starts>>)
  <2>0. Applies(prop)
    BY <1>4 DEF Retry
  <2>1. store' = WithOverlay(store, prop)
    BY <1>4 DEF Retry
  <2>2. /\ prop \in Proposals /\ prop.loc \in Locators /\ prop.loc \in agreed
        /\ \A e \in store : e.loc \in agreed
        /\ \A e, f \in store : e.label = f.label => e = f
    BY <1>2, <2>0 DEF Applies, Typed, Approvals
  <2>3. /\ store' \in SUBSET Overlays /\ \A e \in store' : e.loc \in agreed
        /\ \A e, f \in store' : e.label = f.label => e = f
    BY <1>2, <2>1, <2>2, WithOverlayFacts
  <2>4. \/ Concludes(q, "journal", "NEEDS_REVIEW") /\ UNCHANGED starts
        \/ \E status \in Statuses :
             \/ /\ rq[q].copy.retried /\ rq[q].copy.applied # NoToken
                /\ Concludes(q, "journal", status) /\ UNCHANGED starts
             \/ /\ Moved(q, [rq[q] EXCEPT !.pc = "journal", !.copy.status = status,
                                          !.copy.retried = TRUE])
                /\ ~(rq[q].copy.retried /\ rq[q].copy.applied # NoToken)
                /\ starts' \in {starts, starts + 1}
    BY <1>4 DEF Retry
  <2>5. CASE Concludes(q, "journal", "NEEDS_REVIEW") /\ UNCHANGED starts
    BY <1>1, <2>3, <2>5, ConcludesKeeps DEF Statuses, Terminal, Waiting
  <2>6. ASSUME NEW status \in Statuses, rq[q].copy.retried, rq[q].copy.applied # NoToken,
               Concludes(q, "journal", status), UNCHANGED starts
        PROVE  IInv'
    BY <1>1, <2>3, <2>6, ConcludesKeeps
  <2>7. ASSUME NEW status \in Statuses, starts' \in {starts, starts + 1},
               ~(rq[q].copy.retried /\ rq[q].copy.applied # NoToken),
               Moved(q, [rq[q] EXCEPT !.pc = "journal", !.copy.status = status,
                                      !.copy.retried = TRUE])
        PROVE  IInv'
    <3> DEFINE c   == [rq[q].copy EXCEPT !.status = status, !.retried = TRUE]
               rec == [rq[q] EXCEPT !.pc = "journal", !.copy.status = status,
                                    !.copy.retried = TRUE]
    <3>1. /\ c \in Snapshots /\ c.status = status /\ c.kind = rq[q].copy.kind /\ c.retried
      BY <1>2 DEF Snapshots
    <3>2. /\ rec \in Requests /\ rec.pc = "journal" /\ rec.copy = c
          /\ rec.token = rq[q].token /\ rec.valid = rq[q].valid
      BY <1>2, <3>1 DEF Requests, Handling, Snapshots
    <3>3. Moved(q, rec)
      BY <2>7
    <3> HIDE DEF c, rec
    <3>4. rq'[q] = rec
      BY <1>2, <3>3 DEF Moved
    <3>5. Held(q)'
      BY <1>1, <1>2, <3>1, <3>2, <3>4, HandlerFacts DEF Held, Holding
    <3>6. ASSUME ~together PROVE Turn(q)'
      <4>1. InHand(q)
        BY <1>1, <3>6, TurnFacts DEF Turn, Holding
      <4>a. rq[q].copy.status = Waiting /\ rq[q].valid
        BY <1>1, <1>2 DEF Held
      <4>b. Open(rq[q].copy)
        BY <2>7, <4>a DEF Open
      <4>2. disk.status = Waiting /\ starts <= faults /\ rq[q].valid
        BY <1>1, <4>1, <4>a, <4>b DEF InHand
      <4>3. ~WillOpen(rq'[q].copy)
        BY <1>1, <1>2, <3>1, <3>2, <3>4 DEF WillOpen, Held
      <4>4. InHand(q)'
        BY <1>1, <3>2, <3>4, <4>1, <4>2, <4>3 DEF InHand
      <4>c. starts' <= 1 + faults'
        BY <1>1, <1>2, <2>7, <4>2
      <4>5. QED
        BY <1>1, <3>2, <3>4, <4>4, <4>c DEF Turn, Holding
    <3>7. starts' \in Nat
      BY <1>2, <2>7
    <3>8. QED
      BY <1>1, <2>3, <3>2, <3>3, <3>5, <3>6, <3>7, HandlerFacts, HandlerKeeps
  <2>8. QED
    BY <2>4, <2>5, <2>6, <2>7
<1>5. QED
  BY <1>3, <1>4

LEMMA RaisesKeep ==
  ASSUME IInv, NEW q \in Handlers, Raise(q) \/ RaiseLate(q) PROVE IInv'
<1>1. /\ rq[q].pc \in {"loop", "running"} /\ rq[q].pc # "idle" /\ Over(q)
      /\ UNCHANGED <<kind, people, store, saved, arrived, starts, together, told>>
      /\ \/ rq[q].pc = "loop" /\ faults' = faults
         \/ rq[q].pc = "running" /\ faults' = faults + 1 /\ faults < MaxFaults
  BY DEF Raise, RaiseLate, At, Quiet, Outside
<1>2. faults \in 0 .. MaxFaults /\ faults' \in 0 .. MaxFaults
  BY <1>1, ResumeAssumption, HandlerFacts
<1>3. starts \in Nat /\ told \in [Tokens -> Statuses \cup {"none"}]
  BY <1>1, HandlerFacts
<1>4. ASSUME ~together PROVE starts <= 1 + faults' /\ Settled'
  <2>1. InHand(q) /\ starts <= 1 + faults
    BY <1>1, <1>4, TurnFacts DEF Turn, Holding
  <2>2. Open(disk) => starts <= faults'
    <3>1. CASE rq[q].pc = "loop"
      BY <1>1, <2>1, <3>1 DEF InHand
    <3>2. CASE rq[q].pc = "running"
      BY <1>1, <1>2, <1>3, <2>1, <3>2
    <3>3. QED
      BY <1>1, <3>1, <3>2
  <2>3. starts <= 1 + faults'
    <3>1. faults \in Nat /\ (faults' = faults \/ faults' = faults + 1)
      BY <1>1, <1>2, ResumeAssumption
    <3>2. QED
      BY <1>3, <2>1, <3>1
  <2>4. \A t \in Tokens : told[t] = "none"
    BY <2>1 DEF InHand
  <2>5. Settled'
    BY <1>1, <2>2, <2>4 DEF Settled, saved
  <2>6. QED
    BY <2>3, <2>5
<1>5. QED
  BY <1>1, <1>2, <1>3, <1>4, OverKeeps

\* _finalize: the journal, then a snapshot, then the token.
LEMMA JournalKeeps == ASSUME IInv, NEW q \in Handlers, Journal(q) PROVE IInv'
<1>1. /\ rq[q].pc = "journal" /\ Goes(q, "snapshot") /\ journal' = rq[q].copy.status
      /\ UNCHANGED <<kind, people, arrived, faults, store, starts, disk, together, told>>
  BY DEF Journal, At, Quiet, Outside
<1>2. Held(q) /\ rq[q] \in Requests /\ rq \in [Handlers -> Requests]
  BY <1>1, HandlerFacts
<1>3. [rq[q] EXCEPT !.pc = "snapshot"] \in Requests
  BY <1>2 DEF Requests, Handling
<1>4. rq'[q] = [rq[q] EXCEPT !.pc = "snapshot"]
  BY <1>1, <1>2 DEF Goes, Moved
<1>5. rq'[q].pc = "snapshot" /\ rq'[q].copy = rq[q].copy /\ rq'[q].token = rq[q].token
      /\ rq'[q].valid = rq[q].valid
  BY <1>2, <1>4 DEF Requests
<1>6. Held(q)'
  BY <1>1, <1>2, <1>5 DEF Held, Holding
<1>7. ~together => Turn(q)'
  BY <1>1, <1>5, TurnFacts DEF Turn, InHand, Holding
<1>8. journal' \in Statuses
  BY <1>1, <1>2 DEF Held, Holding
<1>9. Moved(q, [rq[q] EXCEPT !.pc = "snapshot"])
  BY <1>1 DEF Goes
<1>10. QED
  BY <1>1, <1>3, <1>6, <1>7, <1>8, <1>9, HandlerFacts, HandlerKeeps

LEMMA SaveSnapshotKeeps == ASSUME IInv, NEW q \in Handlers, SaveSnapshot(q) PROVE IInv'
<1> DEFINE label  == IF rq[q].valid THEN "token" ELSE "reply"
           status == rq[q].copy.status
<1>1. /\ rq[q].pc = "snapshot" /\ Goes(q, label) /\ disk' = Snapshot(status)
      /\ UNCHANGED <<kind, people, arrived, faults, store, starts, journal, together, told>>
  BY DEF SaveSnapshot, At, Quiet, Outside
<1>2. /\ Typed /\ Held(q) /\ rq[q] \in Requests /\ rq \in [Handlers -> Requests]
      /\ disk.status \in Statuses /\ status \in Statuses
  BY <1>1, HandlerFacts DEF Held, Holding
<1>3. kind \in PauseKinds \cup {"running", "recovery.exhausted"}
  BY <1>2 DEF Typed
<1>4. /\ rq'[q] = [rq[q] EXCEPT !.pc = label] /\ label \in Handling
      /\ Moved(q, [rq[q] EXCEPT !.pc = label]) /\ [rq[q] EXCEPT !.pc = label] \in Requests
  BY <1>1, <1>2 DEF Goes, Moved, Requests, Handling
<1>5. rq'[q].pc = label /\ rq'[q].copy = rq[q].copy /\ rq'[q].token = rq[q].token
      /\ rq'[q].valid = rq[q].valid
  BY <1>2, <1>4 DEF Requests
<1> HIDE DEF label
<1>6. disk'.status = status /\ (disk'.kind = "healing" => kind = "healing")
  BY <1>1 DEF Snapshot
<1>7. disk' \in Snapshots
  <2>1. prop \in Proposals /\ art.rev \in Nat /\ art.approved \in BOOLEAN
    BY <1>2 DEF Typed, Artifacts
  <2>2. QED
    BY <1>1, <1>2, <1>3, <2>1, NothingIsTyped DEF Snapshot, Snapshots
<1>8. label \in {"token", "reply"} /\ (label = "reply" <=> ~rq[q].valid)
  BY DEF label
<1>9. Held(q)'
  BY <1>1, <1>2, <1>5, <1>6, <1>8 DEF Held, Holding
<1>10. ~together => Turn(q)'
  BY <1>1, <1>5, <1>6, <1>8, TurnFacts DEF Turn, InHand, Holding
<1>11. QED
  BY <1>1, <1>2, <1>4, <1>6, <1>7, <1>9, <1>10, HandlerFacts, HandlerKeeps

LEMMA SaveTokenKeeps == ASSUME IInv, NEW q \in Handlers, SaveToken(q) PROVE IInv'
<1> DEFINE c   == [rq[q].copy EXCEPT !.applied = rq[q].token]
           rec == [rq[q] EXCEPT !.pc = "reply", !.copy.applied = rq[q].token]
<1>1. /\ rq[q].pc = "token" /\ Moved(q, rec) /\ disk' = c
      /\ UNCHANGED <<kind, people, arrived, faults, store, starts, journal, together, told>>
  BY DEF SaveToken, At, Quiet, Outside
<1>2. /\ Held(q) /\ rq[q] \in Requests /\ rq \in [Handlers -> Requests]
      /\ rq[q].copy \in Snapshots /\ rq[q].token \in Tokens
      /\ rq[q].copy.status \in Statuses /\ rq[q].valid
  BY <1>1, HandlerFacts DEF Held, Holding
<1>3. /\ c \in Snapshots /\ c.applied = rq[q].token /\ c.status = rq[q].copy.status
      /\ c.kind = rq[q].copy.kind /\ c.retried = rq[q].copy.retried
  BY <1>2 DEF Snapshots
<1>4. /\ rec \in Requests /\ rec.pc = "reply" /\ rec.copy = c /\ rec.token = rq[q].token
      /\ rec.valid
  BY <1>2, <1>3 DEF Requests, Handling, Snapshots
<1>5. rq'[q] = rec
  BY <1>1, <1>2 DEF Moved
<1> HIDE DEF c, rec
<1>6. Held(q)'
  BY <1>1, <1>2, <1>3, <1>4, <1>5 DEF Held, Holding
<1>7. ~together => Turn(q)'
  BY <1>1, <1>3, <1>4, <1>5, TurnFacts DEF Turn, InHand, Holding, WillOpen
<1>8. disk'.status \in Statuses /\ (disk'.kind = "healing" => kind = "healing")
  BY <1>1, <1>2, <1>3 DEF Held
<1>9. QED
  BY <1>1, <1>3, <1>4, <1>6, <1>7, <1>8, HandlerFacts, HandlerKeeps

\* The answer stands until another token is worked on.
LEMMA ReplyKeeps == ASSUME IInv, NEW q \in Handlers, Reply(q) PROVE IInv'
<1>1. /\ rq[q].pc = "reply" /\ rq[q].pc # "idle" /\ Over(q)
      /\ told' = IF rq[q].valid THEN [told EXCEPT ![rq[q].token] = rq[q].copy.status] ELSE told
      /\ UNCHANGED <<kind, people, arrived, faults, store, starts, saved, journal, disk, together>>
  BY DEF Reply, At, Quiet, Outside, saved
<1>2. /\ Held(q) /\ rq[q].token \in Tokens /\ rq[q].token # NoToken
      /\ rq[q].copy.status \in Statuses
      /\ told \in [Tokens -> Statuses \cup {"none"}] /\ faults' \in 0 .. MaxFaults
      /\ rq[q].copy \in Snapshots
  BY <1>1, HandlerFacts DEF Held, Holding
<1>3. told' \in [Tokens -> Statuses \cup {"none"}]
  BY <1>1, <1>2
<1>4. ASSUME ~together PROVE starts <= 1 + faults' /\ Settled'
  <2>1. InHand(q) /\ starts <= 1 + faults
    BY <1>1, <1>4, TurnFacts DEF Turn, Holding
  <2>2. \A t \in Tokens : told'[t] # "none" => disk.applied = t /\ journal = told'[t]
    BY <1>1, <1>2, <2>1 DEF InHand
  <2>3. Open(disk) => starts <= faults
    <3>1. CASE rq[q].valid
      BY <1>1, <1>2, <2>1, <3>1 DEF InHand, Open, WillOpen, Statuses, Terminal, Waiting
    <3>2. CASE ~rq[q].valid
      BY <1>1, <1>2, <2>1, <3>2 DEF InHand, Held, Open, Waiting
    <3>3. QED
      BY <3>1, <3>2
  <2>4. QED
    BY <1>1, <2>1, <2>2, <2>3 DEF Settled
<1>5. QED
  BY <1>1, <1>2, <1>3, <1>4, OverKeeps

-----------------------------------------------------------------------------
\* A request arrives while nobody works, or together with another.
LEMMA ArriveKeeps == ASSUME IInv, NEW q \in Handlers, NEW t \in Tokens, Arrive(q, t) PROVE IInv'
<1>1. /\ rq[q].pc = "idle" /\ arrived < MaxRequests /\ arrived' = arrived + 1
      /\ UNCHANGED <<kind, people, faults, store, starts, journal, disk, told>>
  BY DEF Arrive, At, saved
<1>2. Typed /\ Approvals /\ HeldInv /\ rq[q] \in Requests /\ rq \in [Handlers -> Requests]
  BY DEF IInv, Typed
<1>3. PICK rec \in Requests :
        /\ rq' = [rq EXCEPT ![q] = rec]
        /\ rec.pc \in {"idle", "captured"} /\ (rec.pc # "idle" => rec.token \in Tokens)
        /\ rec.pc # "idle" => disk # NoSnapshot /\ rec.copy = rq[q].copy /\ rec.valid = rq[q].valid
        /\ rec.pc = "idle" => rec = Free
  <2>1. CASE disk = NoSnapshot
    BY <2>1, NothingIsTyped, Unheld DEF Arrive, Over, Moved
  <2>2. CASE disk # NoSnapshot
    <3> DEFINE r == [rq[q] EXCEPT !.pc = "captured", !.token = t]
    <3>1. /\ r \in Requests /\ r.pc = "captured" /\ r.token = t /\ r.copy = rq[q].copy
          /\ r.valid = rq[q].valid
      BY <1>2 DEF Requests, Handling
    <3>2. rq' = [rq EXCEPT ![q] = r]
      BY <2>2 DEF Arrive, Moved
    <3> HIDE DEF r
    <3>3. QED
      BY <2>2, <3>1, <3>2
  <2>3. QED
    BY <2>1, <2>2
<1>4. /\ rq' \in [Handlers -> Requests] /\ rq'[q] = rec
      /\ \A p \in Handlers \ {q} : rq'[p] = rq[p]
  BY <1>2, <1>3
<1>5. together' \in BOOLEAN
  BY <1>2 DEF Arrive, Typed
<1>6. Typed'
  BY <1>1, <1>2, <1>4, <1>5, ResumeAssumption DEF Typed, people
<1>7. Approvals'
  BY <1>1, <1>2 DEF Approvals, people
<1>8. HeldInv'
  <2>1. Held(q)'
    BY <1>1, <1>2, <1>3, <1>4, Unheld DEF HeldInv, Held, Holding
  <2>2. ASSUME NEW p \in Handlers, p # q PROVE Held(p)'
    BY <1>1, <1>2, <1>4, <2>2 DEF HeldInv, Held
  <2>3. QED
    BY <1>1, <1>2, <2>1, <2>2 DEF HeldInv
<1>9. OneAtATime'
  <2> SUFFICES ASSUME ~together' PROVE InTurn'
    BY DEF OneAtATime
  <2>1. InTurn /\ Working = {}
    BY DEF Arrive, IInv, OneAtATime
  <2>2. \A p \in Handlers : rq[p].pc = "idle"
    BY <1>2, <2>1 DEF Working, Requests
  <2>3. Settled /\ starts <= 1 + faults
    BY <2>1, <2>2 DEF InTurn, Holding
  <2>4. Settled'
    BY <1>1, <2>3 DEF Settled
  <2>5. \A p \in Handlers : /\ rq'[p].pc \notin Holding
                            /\ rq'[p].pc # "idle" => p = q
    BY <1>3, <1>4, <2>2 DEF Holding
  <2>6. QED
    BY <1>1, <2>3, <2>4, <2>5 DEF InTurn
<1>10. QED
  BY <1>6, <1>7, <1>8, <1>9 DEF IInv

\* The server dies: a start that was not saved is one more than the faults.
LEMMA DieKeeps == ASSUME IInv, Die PROVE IInv'
<1>1. /\ faults < MaxFaults /\ faults' = faults + 1
      /\ rq' = [q \in Handlers |-> IF q \in Working THEN Free ELSE rq[q]]
      /\ UNCHANGED <<kind, people, arrived, store, journal, disk, starts, together, told>>
  BY DEF Die, saved
<1>2. Typed /\ Approvals /\ HeldInv /\ rq \in [Handlers -> Requests]
  BY DEF IInv, Typed
<1>3. rq' \in [Handlers -> Requests]
  BY <1>1, <1>2, NothingIsTyped
<1>4. \A q \in Handlers : rq'[q].pc = "idle" /\ (rq'[q] = Free \/ rq'[q] = rq[q])
  BY <1>1, <1>2, Unheld DEF Working, Requests
<1>5. faults \in Nat /\ faults' \in 0 .. MaxFaults /\ starts \in Nat
  BY <1>1, <1>2, ResumeAssumption DEF Typed
<1>6. Typed'
  BY <1>1, <1>2, <1>3, <1>5 DEF Typed, people
<1>7. Approvals'
  BY <1>1, <1>2 DEF Approvals, people
<1>8. HeldInv'
  <2>1. ASSUME NEW q \in Handlers PROVE Held(q)'
    BY <1>1, <1>2, <1>4, Unheld DEF HeldInv, Held, Holding
  <2>2. QED
    BY <1>1, <1>2, <2>1 DEF HeldInv
<1>9. OneAtATime'
  <2> SUFFICES ASSUME ~together PROVE InTurn'
    BY <1>1 DEF OneAtATime
  <2>1. InTurn
    BY DEF IInv, OneAtATime
  <2>2. starts <= faults' /\ starts <= 1 + faults'
    BY <1>1, <1>5, <2>1 DEF InTurn
  <2>3. \A t \in Tokens : told[t] # "none" => disk.applied = t /\ journal = told[t]
    BY <2>1 DEF InTurn, Settled, InHand
  <2>4. Settled'
    BY <1>1, <2>2, <2>3 DEF Settled
  <2>5. \A q \in Handlers : rq'[q].pc = "idle" /\ rq'[q].pc \notin Holding
    BY <1>4 DEF Holding
  <2>6. (starts <= 1 + faults)'
    BY <1>1, <2>2
  <2>7. QED
    BY <2>4, <2>5, <2>6 DEF InTurn
<1>10. QED
  BY <1>6, <1>7, <1>8, <1>9 DEF IInv

LEMMA StepIInv == IInv /\ [Next]_vars => IInv'
<1> SUFFICES ASSUME IInv, [Next]_vars PROVE IInv'
  OBVIOUS
<1>1. ASSUME NEW q \in Handlers, Handle(q) PROVE IInv'
  BY <1>1, CaptureKeeps, ReplayKeeps, LoadKeeps, InvalidKeeps, ValidatedKeeps, RetryKeeps,
     LoopEndsKeeps, StartKeeps, RaisesKeep, JournalKeeps, SaveSnapshotKeeps, SaveTokenKeeps,
     ReplyKeeps DEF Handle
<1>2. CASE UNCHANGED vars
  <2>1. UNCHANGED <<disk, journal, rq, starts, faults, together, told>> /\ kind' = kind
    BY <1>2 DEF vars, saved
  <2>2. Typed' /\ Approvals'
    BY <1>2 DEF vars, people, saved, IInv, Typed, Approvals
  <2>3. QED
    BY <2>1, <2>2, ElsewhereKeeps
<1>3. QED
  BY <1>1, <1>2, HealKeeps, PauseKeeps, PeopleKeep, ArriveKeeps, DieKeeps DEF Next

\* IInv holds in every state of every behaviour.
LEMMA Invariance == Spec => []IInv
BY InitIInv, StepIInv, PTL DEF Spec

-----------------------------------------------------------------------------
\* Every variable stays in its domain, a target has one overlay at most, and a
\* request is answered as a repetition only with a snapshot its token applied.
THEOREM TypeCorrect == Spec => []TypeOK
<1>1. IInv => TypeOK
  <2> SUFFICES ASSUME IInv PROVE TypeOK
    OBVIOUS
  <2>1. Typed /\ Approvals /\ HeldInv
    BY DEF IInv
  <2>2. /\ art.rev \in 0 .. edits /\ (art.gate => art.approved)
        /\ prop.status \in {"none", "DRAFT", "PENDING_SME_APPROVAL", "APPROVED", "REJECTED"}
        /\ edits \in 0 .. MaxEdits /\ faults \in 0 .. MaxFaults
        /\ arrived \in 0 .. MaxRequests /\ starts \in Nat
        /\ journal \in Statuses \cup {"none"} /\ disk.status \in Statuses \cup {"none"}
        /\ agreed \subseteq Locators \cup {"timing-wait"}
    BY <2>1, ResumeAssumption DEF Typed, Artifacts, Proposals, Snapshots
  <2>3. \A e, f \in store : e.loc \in Locators /\ (e.label = f.label => e = f)
    BY <2>1 DEF Typed, Approvals, Overlays
  <2>4. \A q \in Handlers : /\ rq[q].pc \in Handling \cup {"idle"}
                            /\ rq[q].pc = "replay" => rq[q].copy.applied = rq[q].token
    BY <2>1 DEF Typed, HeldInv, Held, Requests
  <2>5. QED
    BY <2>2, <2>3, <2>4 DEF TypeOK
<1>2. QED
  BY <1>1, Invariance, PTL

\* However requests, reviews and colliding proposals interleave, an overlay
\* only ever holds a locator that an SME approved.
THEOREM OverlaysAreApproved == Spec => []OverlayWasApproved
<1>1. IInv => OverlayWasApproved
  BY DEF IInv, Approvals, OverlayWasApproved
<1>2. QED
  BY <1>1, Invariance, PTL

\* While requests come one at a time, the resumes of a run start Playwright
\* once, and once more for each death or late exception at most.
THEOREM StartsAreBounded == Spec => []StartsBounded
<1>1. IInv => StartsBounded
  BY DEF IInv, OneAtATime, InTurn, StartsBounded
<1>2. QED
  BY <1>1, Invariance, PTL

\* While requests come one at a time, a token that was answered is not worked
\* on again: the token is on disk before the answer goes out.
THEOREM TokensApplyOnce == Spec => []AppliedOnce
<1>1. IInv => AppliedOnce
  <2> SUFFICES ASSUME IInv, ~together, NEW q \in Handlers, At(q, "apply")
               PROVE  told[rq[q].token] = "none"
    BY DEF AppliedOnce
  <2>1. rq[q].pc = "apply" /\ rq[q].pc # "idle" /\ rq[q].pc \in Holding
    BY DEF At, Holding
  <2>2. rq[q].token \in Tokens /\ InHand(q)
    BY <2>1, HandlerFacts, TurnFacts DEF Turn
  <2>3. QED
    BY <2>2 DEF InHand
<1>2. QED
  BY <1>1, Invariance, PTL

\* While requests come one at a time, a repetition is answered as the token was
\* answered first.
THEOREM RepetitionsAgree == Spec => []ReplayAgrees
<1>1. IInv => ReplayAgrees
  <2> SUFFICES ASSUME IInv, ~together, NEW q \in Handlers, At(q, "replay"),
                      told[rq[q].token] # "none"
               PROVE  journal = told[rq[q].token]
    BY DEF ReplayAgrees
  <2>1. rq[q].pc = "replay" /\ rq[q].pc # "idle" /\ rq[q].pc \notin Holding
    BY DEF At, Holding
  <2>2. rq[q].token \in Tokens /\ Settled
    BY <2>1, HandlerFacts, TurnFacts DEF Turn
  <2>3. QED
    BY <2>2 DEF Settled
<1>2. QED
  BY <1>1, Invariance, PTL

\* Where the snapshot is written, a resume in its turn writes it for a run that
\* waits, or writes the status that is there.
LEMMA SavesSettle ==
  ASSUME IInv, NEW q \in Handlers, ~together,
         Invalid(q) \/ SaveSnapshot(q) \/ SaveToken(q), disk.status \in Terminal
  PROVE  disk'.status = disk.status
<1>1. rq[q].pc \in {"apply", "snapshot", "token"} /\ rq[q].pc # "idle" /\ rq[q].pc \in Holding
  BY DEF Invalid, SaveSnapshot, SaveToken, At, Holding
<1>2. Held(q) /\ InHand(q) /\ rq[q].copy \in Snapshots /\ disk.status # Waiting
  BY <1>1, HandlerFacts, TurnFacts DEF Turn, Terminal, Waiting
<1>3. CASE Invalid(q)
  BY <1>2, <1>3 DEF Invalid, At, InHand, Held
<1>4. CASE SaveSnapshot(q)
  BY <1>2, <1>4 DEF SaveSnapshot, At, InHand, Held, Snapshot
<1>5. CASE SaveToken(q)
  <2>1. disk' = [rq[q].copy EXCEPT !.applied = rq[q].token] /\ rq[q].pc = "token"
    BY <1>5 DEF SaveToken, At
  <2>2. disk'.status = rq[q].copy.status
    BY <1>2, <2>1 DEF Snapshots
  <2>3. QED
    BY <1>2, <2>1, <2>2 DEF InHand
<1>6. QED
  BY <1>3, <1>4, <1>5

\* While requests come one at a time, no resume changes the status of a run that
\* is settled.
THEOREM SettledRunsStay == Spec => SettledStays
<1>1. IInv /\ [Next]_vars =>
        [~together' /\ disk.status \in Terminal => disk'.status = disk.status]_disk
  <2> SUFFICES ASSUME IInv, [Next]_vars, ~together', disk.status \in Terminal, disk' # disk
               PROVE  disk'.status = disk.status
    OBVIOUS
  <2>1. disk # NoSnapshot
    BY DEF NoSnapshot, Terminal
  <2>2. PICK q \in Handlers : Invalid(q) \/ SaveSnapshot(q) \/ SaveToken(q)
    <3>1. CASE UNCHANGED vars
      BY <3>1 DEF vars, saved
    <3>2. CASE Heal \/ Pause \/ Decide \/ ReviewReads \/ ReviewWrites \/ Collide \/ Die
      BY <2>1, <3>2 DEF Heal, Pause, Decide, ReviewReads, ReviewWrites, Collide, Die, Apart, saved
    <3>3. ASSUME NEW q \in Handlers, NEW t \in Tokens, Arrive(q, t) PROVE FALSE
      BY <3>3 DEF Arrive, saved
    <3>4. ASSUME NEW q \in Handlers, Handle(q)
          PROVE  Invalid(q) \/ SaveSnapshot(q) \/ SaveToken(q)
      BY <3>4 DEF Handle, Capture, Replay, Load, Validated, Retry, Idle, Start, Verdict, Raise,
                  RaiseLate, Journal, Reply, saved
    <3>5. QED
      BY <3>1, <3>2, <3>3, <3>4 DEF Next
  <2>3. ~together
    BY <2>2 DEF Invalid, SaveSnapshot, SaveToken
  <2>4. QED
    BY <2>2, <2>3, SavesSettle
<1>2. QED
  BY <1>1, Invariance, PTL DEF Spec, SettledStays

-----------------------------------------------------------------------------
(* Undisturbed, the resumes of a run make one run of module AgentRun.      *)

\* Requests come one at a time, nothing died, and nothing was healed.
Undisturbed == ~together /\ faults = 0 /\ kind # "healing"

\* The run is worked on until its first snapshot, and again while a request that
\* took it up has not written the next.  A run said to be COMPLETED without an
\* execution is one that was blocked: AgentResume has one status for both.
Resuming == {"apply", "loop", "running", "journal", "snapshot"}
LifeOf(snapshot, requests, n) ==
  IF snapshot = NoSnapshot \/ \E q \in Handlers : requests[q].pc \in Resuming
  THEN "working"
  ELSE IF snapshot.status = "COMPLETED" /\ n = 0 THEN "BLOCKED" ELSE snapshot.status
Life == LifeOf(disk, rq, starts)

Run == INSTANCE AgentRun WITH life <- Life, skip <- FALSE

\* With one request at a time its label says whether the run is worked on.
LEMMA LifeOfOne ==
  ASSUME NEW c, c # NoSnapshot, NEW r, NEW n, NEW q \in Handlers,
         \A p \in Handlers \ {q} : r[p].pc = "idle"
  PROVE  /\ r[q].pc \in Resuming => LifeOf(c, r, n) = "working"
         /\ r[q].pc \notin Resuming /\ ~(c.status = "COMPLETED" /\ n = 0)
              => LifeOf(c, r, n) = c.status
         /\ r[q].pc \notin Resuming /\ c.status = "COMPLETED" /\ n = 0
              => LifeOf(c, r, n) = "BLOCKED"
BY DEF LifeOf, Resuming

LEMMA NothingSaved == "none" \notin Statuses /\ NoSnapshot.status = "none" /\ NoSnapshot.kind = "none"
BY DEF NoSnapshot, Statuses, Terminal, Waiting

\* What an undisturbed request holds: it does not retry, and what is still to
\* be started was not.
LEMMA UndisturbedFacts ==
  ASSUME IInv, ~together, faults = 0, kind # "healing", NEW q \in Handlers, rq[q].pc # "idle"
  PROVE  /\ starts \in {0, 1} /\ rq[q].pc # "retry"
         /\ disk \in Snapshots /\ disk.status \in Statuses
         /\ rq[q] \in Requests /\ rq[q].copy \in Snapshots /\ rq \in [Handlers -> Requests]
         /\ rq[q].pc \in {"apply", "loop"} => starts = 0
         /\ rq[q].pc \in {"journal", "snapshot", "token", "reply"} =>
              /\ rq[q].copy.status \in Statuses
              /\ rq[q].copy.status = Waiting => starts = 0
         /\ rq[q].pc = "token" => disk.status = rq[q].copy.status
         /\ \A p \in Handlers \ {q} : rq[p].pc = "idle"
<1>1. /\ Held(q) /\ starts \in Nat /\ disk \in Snapshots /\ disk.status \in Statuses
      /\ rq[q] \in Requests /\ rq[q].copy \in Snapshots /\ rq \in [Handlers -> Requests]
  BY HandlerFacts
<1>2. Turn(q) /\ InTurn
  BY TurnFacts
<1>3. rq[q].copy.kind # "healing" /\ rq[q].pc # "retry"
  BY <1>1 DEF Held
<1>4. starts \in {0, 1}
  BY <1>1, <1>2 DEF Turn
<1>5. ASSUME rq[q].pc \in {"apply", "loop"} PROVE starts = 0
  <2>1. Open(rq[q].copy)
    BY <1>1, <1>3, <1>5 DEF Held, Open
  <2>2. starts <= 0
    BY <1>2, <1>5, <2>1 DEF Turn, InHand, Holding
  <2> QED
    BY <1>4, <2>2
<1>6. ASSUME rq[q].pc \in {"journal", "snapshot", "token", "reply"}
      PROVE  /\ rq[q].copy.status \in Statuses
             /\ rq[q].copy.status = Waiting => starts = 0
             /\ rq[q].pc = "token" => disk.status = rq[q].copy.status
  <2>1. rq[q].pc \in Holding
    BY <1>6 DEF Holding
  <2>2. InHand(q) /\ rq[q].copy.status \in Statuses
    BY <1>1, <1>2, <2>1 DEF Turn, Held
  <2>3. rq[q].copy.status = Waiting => starts <= 0
    BY <1>3, <1>6, <2>2 DEF InHand, WillOpen
  <2> QED
    BY <1>4, <1>6, <2>2, <2>3 DEF InHand
<1>7. \A p \in Handlers \ {q} : rq[p].pc = "idle"
  BY <1>2 DEF InTurn
<1> QED
  BY <1>1, <1>3, <1>4, <1>5, <1>6, <1>7

\* What no handler touches.
LEMMA HandleFrame ==
  ASSUME NEW q \in Handlers, Handle(q)
  PROVE  /\ rq[q].pc # "idle" /\ together' = together /\ kind' = kind
         /\ RaiseLate(q) \/ faults' = faults
<1>1. CASE Capture(q) \/ Replay(q) \/ Load(q) \/ Reply(q)
  BY <1>1 DEF Capture, Replay, Load, Reply, At, Quiet, Outside
<1>2. CASE Invalid(q) \/ Validated(q) \/ Journal(q) \/ SaveSnapshot(q) \/ SaveToken(q)
  BY <1>2 DEF Invalid, Validated, Journal, SaveSnapshot, SaveToken, At, Quiet, Outside
<1>3. CASE Idle(q) \/ Start(q) \/ Verdict(q) \/ Raise(q)
  BY <1>3 DEF Idle, Start, Verdict, Raise, At, Quiet, Outside
<1>4. CASE RaiseLate(q)
  BY <1>4 DEF RaiseLate, At
<1>5. CASE Retry(q)
  <2>1. rq[q].pc = "retry" /\ Outside /\ together' = together
    BY <1>5 DEF Retry, At
  <2> QED
    BY <2>1 DEF Outside
<1> QED
  BY <1>1, <1>2, <1>3, <1>4, <1>5 DEF Handle

\* A handler's step, of a request that works alone.
LEMMA HandlerRuns ==
  ASSUME IInv, NEW q \in Handlers, Handle(q), Undisturbed'
  PROVE  [Run!Next]_<<Life, starts>>
<1> DEFINE Unseen == UNCHANGED <<Life, starts>>
<1>1. rq[q].pc # "idle" /\ ~together /\ kind = kind' /\ faults' = 0
  BY HandleFrame DEF Undisturbed
<1>2. ~RaiseLate(q) /\ faults = 0
  <2>1. faults \in Nat
    BY <1>1, HandlerFacts, ResumeAssumption
  <2>2. ~RaiseLate(q)
    BY <1>1, <2>1 DEF RaiseLate
  <2>3. faults' = faults
    BY <2>2, HandleFrame
  <2> QED
    BY <1>1, <2>2, <2>3
<1>3. kind # "healing"
  BY <1>1 DEF Undisturbed
<1>4. /\ starts \in {0, 1} /\ rq[q].pc # "retry"
      /\ disk \in Snapshots /\ disk.status \in Statuses
      /\ rq[q] \in Requests /\ rq[q].copy \in Snapshots /\ rq \in [Handlers -> Requests]
      /\ rq[q].pc \in {"apply", "loop"} => starts = 0
      /\ rq[q].pc \in {"journal", "snapshot", "token", "reply"} =>
           /\ rq[q].copy.status \in Statuses
           /\ rq[q].copy.status = Waiting => starts = 0
      /\ rq[q].pc = "token" => disk.status = rq[q].copy.status
      /\ \A p \in Handlers \ {q} : rq[p].pc = "idle"
  BY <1>1, <1>2, <1>3, UndisturbedFacts
<1>5. disk # NoSnapshot
  BY <1>4, NothingSaved
<1>6. /\ Life = LifeOf(disk, rq, starts)
      /\ Life' = LifeOf(disk', rq', starts')
  BY DEF Life
<1>7. /\ rq[q].pc \in Resuming => Life = "working"
      /\ rq[q].pc \notin Resuming /\ ~(disk.status = "COMPLETED" /\ starts = 0)
           => Life = disk.status
      /\ rq[q].pc \notin Resuming /\ disk.status = "COMPLETED" /\ starts = 0
           => Life = "BLOCKED"
  BY <1>4, <1>5, <1>6, LifeOfOne
<1>8. ASSUME NEW rec, rq' = [rq EXCEPT ![q] = rec], disk' # NoSnapshot
      PROVE  /\ rq'[q] = rec
             /\ rec.pc \in Resuming => Life' = "working"
             /\ rec.pc \notin Resuming /\ ~(disk'.status = "COMPLETED" /\ starts' = 0)
                  => Life' = disk'.status
             /\ rec.pc \notin Resuming /\ disk'.status = "COMPLETED" /\ starts' = 0
                  => Life' = "BLOCKED"
  <2>1. rq'[q] = rec /\ \A p \in Handlers \ {q} : rq'[p].pc = "idle"
    BY <1>4, <1>8
  <2> QED
    BY <1>6, <1>8, <2>1, LifeOfOne
<1>9. ASSUME NEW label, Goes(q, label), disk' = disk, starts' = starts,
             rq[q].pc \in Resuming <=> label \in Resuming
      PROVE  Unseen
  <2>1. [rq[q] EXCEPT !.pc = label].pc = label
    BY <1>4 DEF Requests
  <2> QED
    BY <1>5, <1>7, <1>8, <1>9, <2>1 DEF Goes, Moved
<1>10. ASSUME Over(q), disk' = disk, starts' = starts, rq[q].pc \notin Resuming PROVE Unseen
  <2>1. rq' = [rq EXCEPT ![q] = Free] /\ Free.pc \notin Resuming
    BY <1>10, Unheld DEF Over, Moved, Resuming
  <2> QED
    BY <1>5, <1>7, <1>8, <1>10, <2>1
<1>11. CASE Capture(q)
  <2>1. rq[q].pc = "captured" /\ disk' = disk /\ starts' = starts
    BY <1>11 DEF Capture, At, Quiet, saved
  <2>2. CASE Goes(q, "loaded")
    BY <1>9, <2>1, <2>2 DEF Resuming
  <2>3. CASE Moved(q, [rq[q] EXCEPT !.pc = "replay", !.copy = disk])
    <3>1. [rq[q] EXCEPT !.pc = "replay", !.copy = disk].pc = "replay"
      BY <1>4 DEF Requests
    <3> QED
      BY <1>5, <1>7, <1>8, <2>1, <2>3, <3>1 DEF Moved, Resuming
  <2> QED
    BY <1>11, <2>2, <2>3 DEF Capture
<1>12. CASE Replay(q)
  BY <1>10, <1>12 DEF Replay, At, Quiet, saved, Resuming
<1>13. CASE Load(q)
  <2>1. rq[q].pc = "loaded" /\ disk' = disk /\ starts' = starts
    BY <1>13 DEF Load, At, Quiet, saved
  <2>2. CASE Over(q)
    BY <1>10, <2>1, <2>2 DEF Resuming
  <2>3. CASE Moved(q, [rq[q] EXCEPT !.pc = "replay", !.copy = disk])
    <3>1. [rq[q] EXCEPT !.pc = "replay", !.copy = disk].pc = "replay"
      BY <1>4 DEF Requests
    <3> QED
      BY <1>5, <1>7, <1>8, <2>1, <2>3, <3>1 DEF Moved, Resuming
  <2>4. CASE Resumable(disk) /\ Moved(q, [rq[q] EXCEPT !.pc = "apply", !.copy = disk])
    <3>1. [rq[q] EXCEPT !.pc = "apply", !.copy = disk].pc = "apply"
      BY <1>4 DEF Requests
    <3>2. Life = Waiting
      BY <1>7, <2>1, <2>4 DEF Resumable, Resuming, Waiting
    <3>3. Life' = "working"
      BY <1>5, <1>8, <2>1, <2>4, <3>1 DEF Moved, Resuming
    <3>4. Run!TakeUp
      BY <2>1, <3>2, <3>3 DEF Run!TakeUp, Run!Waiting, Waiting
    <3> QED
      BY <3>4 DEF Run!Next
  <2> QED
    BY <1>13, <2>2, <2>3, <2>4 DEF Load
<1>14. CASE Invalid(q)
  <2>1. /\ rq[q].pc = "apply" /\ starts' = starts
        /\ disk' = [rq[q].copy EXCEPT !.status = "NEEDS_REVIEW"]
        /\ rq' = [rq EXCEPT ![q] = [rq[q] EXCEPT !.pc = "journal", !.valid = FALSE,
                                                 !.copy.status = "NEEDS_REVIEW"]]
    BY <1>14 DEF Invalid, At, Quiet, Moved
  <2>2. disk'.status = "NEEDS_REVIEW"
    BY <1>4, <2>1 DEF Snapshots
  <2>3. disk' # NoSnapshot
    BY <2>2, NothingSaved
  <2>4. [rq[q] EXCEPT !.pc = "journal", !.valid = FALSE,
                      !.copy.status = "NEEDS_REVIEW"].pc = "journal"
    BY <1>4 DEF Requests
  <2> QED
    BY <1>7, <1>8, <2>1, <2>3, <2>4 DEF Resuming
<1>15. CASE Validated(q)
  <2>1. rq[q].pc = "apply" /\ disk' = disk /\ starts' = starts
    BY <1>15 DEF Validated, At, Quiet, saved
  <2>2. rq[q].copy.kind # "healing"
    BY <1>1, <1>3, HandlerFacts DEF Held
  <2>3. Goes(q, "loop")
    BY <1>15, <2>2 DEF Validated
  <2> QED
    BY <1>9, <2>1, <2>3 DEF Resuming
<1>16. ASSUME Idle(q) \/ Verdict(q) PROVE Unseen
  <2>1. rq[q].pc \in {"loop", "running"} /\ disk' = disk /\ starts' = starts
    BY <1>16 DEF Idle, Verdict, At, Quiet, saved
  <2>2. PICK status : Concludes(q, "journal", status)
    BY <1>16 DEF Idle, Verdict
  <2>3. [rq[q] EXCEPT !.pc = "journal", !.copy.status = status].pc = "journal"
    BY <1>4 DEF Requests
  <2> QED
    BY <1>5, <1>7, <1>8, <2>1, <2>2, <2>3 DEF Concludes, Moved, Resuming
<1>17. CASE Start(q)
  <2>1. /\ rq[q].pc = "loop" /\ disk' = disk /\ starts' = starts + 1 /\ Goes(q, "running")
    BY <1>17 DEF Start, At, saved
  <2>2. [rq[q] EXCEPT !.pc = "running"].pc = "running"
    BY <1>4 DEF Requests
  <2>3. Life = "working" /\ Life' = "working"
    BY <1>5, <1>7, <1>8, <2>1, <2>2 DEF Goes, Moved, Resuming
  <2>4. Run!Start
    BY <1>4, <2>1, <2>3 DEF Run!Start
  <2> QED
    BY <2>4 DEF Run!Next
<1>18. CASE Raise(q)
  <2>1. rq[q].pc = "loop" /\ disk' = disk /\ starts' = starts /\ Over(q)
    BY <1>18 DEF Raise, At, Quiet, saved
  <2>2. disk.status = Waiting
    <3>1. rq[q].pc \in Holding /\ Turn(q) /\ Held(q)
      BY <1>1, <2>1, HandlerFacts, TurnFacts DEF Holding
    <3> QED
      BY <2>1, <3>1 DEF Turn, InHand, Held
  <2>3. Life = "working" /\ Life' = Waiting
    <3>1. rq' = [rq EXCEPT ![q] = Free] /\ Free.pc \notin Resuming
      BY <2>1, Unheld DEF Over, Moved, Resuming
    <3> QED
      BY <1>5, <1>7, <1>8, <2>1, <2>2, <3>1 DEF Resuming, Waiting
  <2>4. Run!Wait
    BY <1>4, <2>1, <2>3 DEF Run!Wait, Run!Waiting, Waiting
  <2> QED
    BY <2>4 DEF Run!Next
<1>19. CASE Journal(q)
  BY <1>9, <1>19 DEF Journal, At, Quiet, Resuming
<1>20. CASE SaveSnapshot(q)
  <2> DEFINE label == IF rq[q].valid THEN "token" ELSE "reply"
             status == rq[q].copy.status
             rec == [rq[q] EXCEPT !.pc = label]
  <2>1. /\ rq[q].pc = "snapshot" /\ starts' = starts
        /\ disk' = Snapshot(status) /\ rq' = [rq EXCEPT ![q] = rec]
    BY <1>20 DEF SaveSnapshot, At, Quiet, Goes, Moved
  <2>2. rec.pc \in {"token", "reply"}
    BY <1>4 DEF Requests
  <2>3. /\ disk'.status = status /\ status \in Statuses
        /\ status = Waiting => starts = 0
    BY <1>4, <2>1 DEF Snapshot
  <2>4. disk' # NoSnapshot
    BY <2>3, NothingSaved
  <2> HIDE DEF rec, status
  <2>5. Life = "working"
    BY <1>7, <2>1 DEF Resuming
  <2>6. /\ ~(status = "COMPLETED" /\ starts = 0) => Life' = status
        /\ status = "COMPLETED" /\ starts = 0 => Life' = "BLOCKED"
    BY <1>8, <2>1, <2>2, <2>3, <2>4 DEF Resuming
  <2>7. CASE status = Waiting
    <3>1. Run!Wait
      BY <2>1, <2>3, <2>5, <2>6, <2>7 DEF Run!Wait, Run!Waiting, Waiting
    <3> QED
      BY <3>1 DEF Run!Next
  <2>8. CASE status # Waiting
    <3>1. Run!Settle
      BY <1>4, <2>1, <2>3, <2>5, <2>6, <2>8
         DEF Run!Settle, Run!Open, Run!Decided, Statuses, Terminal
    <3> QED
      BY <3>1 DEF Run!Next
  <2> QED
    BY <2>7, <2>8
<1>21. CASE SaveToken(q)
  <2> DEFINE rec == [rq[q] EXCEPT !.pc = "reply", !.copy.applied = rq[q].token]
  <2>1. /\ rq[q].pc = "token" /\ starts' = starts
        /\ disk' = [rq[q].copy EXCEPT !.applied = rq[q].token]
        /\ rq' = [rq EXCEPT ![q] = rec]
    BY <1>21 DEF SaveToken, At, Quiet, Moved
  <2>2. rec.pc = "reply"
    BY <1>4 DEF Requests
  <2>3. disk'.status = disk.status
    BY <1>4, <2>1 DEF Snapshots
  <2>4. disk' # NoSnapshot
    BY <1>4, <2>3, NothingSaved
  <2> HIDE DEF rec
  <2> QED
    BY <1>7, <1>8, <2>1, <2>2, <2>3, <2>4 DEF Resuming
<1>22. CASE Reply(q)
  BY <1>10, <1>22 DEF Reply, At, Quiet, saved, Resuming
<1>23. ~Retry(q)
  <2>1. rq[q].pc # "retry"
    BY <1>4
  <2> QED
    BY <2>1 DEF Retry, At
<1> QED
  BY <1>2, <1>11, <1>12, <1>13, <1>14, <1>15, <1>16, <1>17, <1>18, <1>19, <1>20, <1>21, <1>22,
     <1>23 DEF Handle

LEMMA ResumeRuns ==
  ASSUME IInv, [Next]_vars, Undisturbed'
  PROVE  [Run!Next]_<<Life, starts>>
<1> DEFINE Unseen == UNCHANGED <<Life, starts>>
<1>1. UNCHANGED <<disk, rq, starts>> => Unseen
  BY DEF Life
<1>2. CASE UNCHANGED vars
  BY <1>1, <1>2 DEF vars, saved
<1>3. CASE Heal \/ Decide \/ ReviewReads \/ ReviewWrites \/ Collide
  <2>1. CASE Heal
    BY <1>1, <2>1 DEF Heal, saved
  <2>2. CASE Decide \/ ReviewReads \/ ReviewWrites \/ Collide
    <3>1. Apart
      BY <2>2 DEF Decide, ReviewReads, ReviewWrites, Collide
    <3> QED
      BY <1>1, <3>1 DEF Apart, saved
  <2> QED
    BY <1>3, <2>1, <2>2
<1>4. CASE Pause
  <2>1. /\ disk = NoSnapshot /\ UNCHANGED <<rq, starts, together, faults>>
        /\ \E status \in {Waiting, "NEEDS_REVIEW"} : disk' = Snapshot(status)
    BY <1>4 DEF Pause
  <2>2. \A q \in Handlers : rq[q].pc = "idle"
    BY <2>1, NothingSaved DEF IInv, HeldInv, Held
  <2>3. InTurn /\ starts \in Nat /\ faults = 0
    BY <2>1 DEF Undisturbed, IInv, OneAtATime, Typed
  <2>4. starts <= 0
    <3>1. Settled
      BY <2>2, <2>3 DEF InTurn, Holding
    <3>2. Open(disk)
      BY <2>1, NothingSaved DEF Open
    <3> QED
      BY <2>3, <3>1, <3>2 DEF Settled
  <2>5. starts = 0
    BY <2>3, <2>4
  <2>6. disk'.status \in {Waiting, "NEEDS_REVIEW"}
    BY <2>1 DEF Snapshot
  <2>7. disk' # NoSnapshot
    BY <2>6, NothingSaved DEF Statuses, Terminal
  <2>8. Life = "working" /\ Life' = disk'.status
    BY <2>1, <2>2, <2>6, <2>7 DEF Life, LifeOf, Resuming, Waiting
  <2>9. Run!Wait \/ Run!Settle
    BY <2>1, <2>5, <2>6, <2>8 DEF Run!Wait, Run!Settle, Run!Waiting, Run!Open, Waiting
  <2> QED
    BY <2>9 DEF Run!Next
<1>5. ASSUME NEW q \in Handlers, NEW t \in Tokens, Arrive(q, t) PROVE Unseen
  <2>1. /\ disk' = disk /\ starts' = starts /\ Working = {}
        /\ \E rec : rq' = [rq EXCEPT ![q] = rec] /\ rec.pc \in {"idle", "captured"}
    <3>1. Typed /\ rq \in [Handlers -> Requests]
      BY DEF IInv, Typed
    <3>2. [rq[q] EXCEPT !.pc = "captured", !.token = t].pc = "captured"
      BY <3>1 DEF Requests
    <3>3. disk' = disk /\ starts' = starts /\ Working = {}
      BY <1>5 DEF Arrive, saved, Undisturbed
    <3>4. \/ rq' = [rq EXCEPT ![q] = Free]
          \/ rq' = [rq EXCEPT ![q] = [rq[q] EXCEPT !.pc = "captured", !.token = t]]
      BY <1>5 DEF Arrive, Over, Moved
    <3> QED
      BY <3>2, <3>3, <3>4, Unheld
  <2>2. \A p \in Handlers : rq[p].pc \notin Resuming
    BY <2>1 DEF Working, Handling, Resuming
  <2>3. \A p \in Handlers : rq'[p].pc \notin Resuming
    <3>1. rq \in [Handlers -> Requests]
      BY DEF IInv, Typed
    <3> QED
      BY <2>1, <2>2, <3>1 DEF Resuming
  <2> QED
    BY <2>1, <2>2, <2>3 DEF Life, LifeOf
<1>6. ~Die
  <2>1. faults \in Nat
    BY ResumeAssumption DEF IInv, Typed
  <2> QED
    BY <2>1 DEF Die, Undisturbed
<1> QED
  BY <1>2, <1>3, <1>4, <1>5, <1>6, HandlerRuns DEF Next

\* As long as requests come one at a time and nothing dies or is healed, the
\* first invocation and its resumes together are one run: taken up only while
\* it waits, started at most once, and settled for good
\* (agent_resume.py resume, _finalize_resume; AgentRun says what is relied on).
THEOREM ResumesAreOneRun ==
  Spec => Run!Init /\ [][Undisturbed' => [Run!Next]_<<Life, starts>>]_vars
<1>1. Init => Run!Init
  BY DEF Init, Run!Init, Life, LifeOf
<1>2. IInv /\ [Next]_vars => [Undisturbed' => [Run!Next]_<<Life, starts>>]_vars
  BY ResumeRuns
<1> QED
  BY <1>1, <1>2, Invariance, PTL DEF Spec
=============================================================================
