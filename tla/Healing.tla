------------------------------- MODULE Healing -------------------------------
(***************************************************************************)
(* Healing of a failed test: the kind of a failure, the candidates for a   *)
(* new locator and the proposal they become (healing_service.py), and the  *)
(* overlays that approved proposals become (healing_overlay.py, read by    *)
(* the Playwright tests through healing-overlays.ts).                      *)
(*                                                                         *)
(* A candidate is [loc, conf, valid]: conf is 0 below the threshold of     *)
(* review (0.70), 1 up to that of automatic healing (0.90), 2 above.       *)
(* A proposal is [loc, label, status, type], an overlay [loc, label].      *)
(***************************************************************************)
EXTENDS Naturals, Sequences, FiniteSets, SequencesExt

CONSTANTS Locators,   \* locators a candidate may have
          Labels,     \* locator labels a failure may name; "" if none is found
          MaxAttempts \* MAX_HEALING_ATTEMPTS

ASSUME HealingAssumption == MaxAttempts \in Nat \ {0} /\ "" \in Labels

\* The kinds of failure, in the order _detect_type looks for their patterns.
Kinds == <<"INFRASTRUCTURE", "AUTHENTICATION", "APPLICATION", "DATA",
           "LOCATOR", "NAVIGATION", "TIMING">>

\* _detect_type: found is the set of kinds with a pattern in the text.  A
\* business assertion does not count next to a locator's failure, except that a
\* product is unavailable.
Detected(found) ==
  LET counted == IF "UNAVAILABLE" \in found THEN found \cup {"APPLICATION"}
                 ELSE IF "LOCATOR" \in found THEN found \ {"APPLICATION"}
                 ELSE found
      i == SelectInSeq(Kinds, LAMBDA k : k \in counted)
  IN  IF i = 0 THEN "UNKNOWN" ELSE Kinds[i]

Eligible(type) == type \in {"LOCATOR", "TIMING"}

\* healing_policy.py
IsAuto(c)    == c.valid /\ c.conf = 2
IsReview(c)  == c.valid /\ c.conf = 1
IsReject(c)  == ~c.valid \/ c.conf = 0

\* generate_candidates, best first and without duplicates; at most two of them
\* are ever tried.
Candidates == [loc : Locators, conf : 0 .. 2, valid : BOOLEAN]
CandidateLists ==
  {<<>>} \cup {<<c>> : c \in Candidates}
         \cup {<<p[1], p[2]>> : p \in {p \in Candidates \X Candidates :
                 p[1].loc # p[2].loc /\ p[1].conf >= p[2].conf}}

NoProposal == [loc |-> "none", label |-> "", status |-> "none", type |-> "none"]
Proposed(loc, label, type, status) ==
  [loc |-> loc, label |-> label, status |-> status, type |-> type]

\* The candidate of the n-th attempt.
Attempted(cands, n) == cands[IF n <= Len(cands) THEN n ELSE Len(cands)]

\* The attempts of one call: each needs a candidate fit for automatic healing,
\* and the first whose isolated retry passes ends them.
Heals(cands, ok) ==
  \E n \in 1 .. MaxAttempts :
    ok[n] /\ \A k \in 1 .. n : IsAuto(Attempted(cands, k))

\* What a call of attempt_healing returns: its status, and the proposal it
\* saved.  The proposal is that of the first candidate in every case.
Result(status, prop) == [status |-> status, prop |-> prop]

NotHealable == Result("NOT_HEALABLE", NoProposal)

\* _heal_timing: one retry with a longer wait.
HealTiming(passed, label) ==
  LET propose(status) == Proposed("timing-wait", label, "TIMING", status)
  IN  IF passed THEN Result("NEEDS_REVIEW", propose("PENDING_SME_APPROVAL"))
                ELSE Result("HEALING_FAILED", propose("DRAFT"))

Healing(type, cands, ok, label) ==
  LET best == cands[1]
      propose(status) == Proposed(best.loc, label, type, status)
  IN  IF ~Eligible(type) THEN NotHealable
      ELSE IF type = "TIMING" THEN HealTiming(ok[1], label)
      ELSE IF cands = <<>> THEN Result("NO_CANDIDATE", NoProposal)
      ELSE IF IsReject(best) THEN Result("NO_CANDIDATE", propose("DRAFT"))
      ELSE IF IsReview(best)
      THEN Result("NEEDS_REVIEW", propose("PENDING_SME_APPROVAL"))
      ELSE IF Heals(cands, ok)
      THEN Result("HEALED_PENDING_APPROVAL", propose("PENDING_SME_APPROVAL"))
      ELSE Result("HEALING_FAILED", propose("DRAFT"))

\* Everything attempt_healing may come to for a failed execution.
Healings ==
  {Healing(Detected(found), cands, ok, label) :
     found \in SUBSET (ToSet(Kinds) \cup {"UNAVAILABLE"}), cands \in CandidateLists,
     ok \in [1 .. MaxAttempts -> BOOLEAN], label \in Labels}

-----------------------------------------------------------------------------
\* The overlay store: a set, since a target has one entry at most and the order
\* of the others tells nothing.  An entry without a label is filed under
\* "default".
Filed(label) == IF label = "" THEN "default" ELSE label
Overlay(prop) == [loc |-> prop.loc, label |-> Filed(prop.label)]

\* A store that is not there yet, or that cannot be read.
EmptyStore == {}

\* _same_target: the flow, test and step are the same throughout.
SameTarget(e, prop) == e.label = Filed(prop.label)

\* apply_approved_proposal replaces the entry of the same target.
WithOverlay(store, prop) ==
  {e \in store : ~SameTarget(e, prop)} \cup {Overlay(prop)}

\* resolve_overlay_selectors and findApprovedOverlay: what matches a failure;
\* one without a label never finds the overlay that was made for it.
Resolved(store, label) == {e \in store : e.label = label}
=============================================================================
