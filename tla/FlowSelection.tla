---------------------------- MODULE FlowSelection ----------------------------
(***************************************************************************)
(* How a goal becomes commands: the classifier's intent, the planner's     *)
(* strategy and the selector's suite, as functions of the execution gate   *)
(* (gate[f]: flow f is approved, fresh, automated and SME-ready).  What    *)
(* depends on the wording of the goal, on the knowledge base or on the LLM *)
(* is an argument, and the module says which answers they can give.        *)
(***************************************************************************)
EXTENDS Sequences, Naturals, FiniteSets, SequencesExt

CONSTANTS Flows,        \* flow ids of the knowledge base
          ProductFlow,  \* BF-PRODUCT-003, which parameterized runs default to
          NoFlow,       \* "no primary flow"
          Suite         \* an aggregate npm command: sanity, regression, negative

ASSUME FlowsAssumption == /\ IsFiniteSet(Flows)
                          /\ ProductFlow \in Flows
                          /\ NoFlow \notin Flows
                          /\ Suite \notin Flows

Aggregate == {"morning_sanity", "regression_suite"}
Modes == Aggregate \cup {"negative_suite", "incident_multi_flow", "discover",
                         "adhoc_parameterized", "adhoc_existing"}
Strategies == {"REUSE_EXISTING", "EXPLORE", "ASK_USER", "BLOCK"}

Executable(gate) == {f \in Flows : gate[f]}

\* The elements of a list that are in S, in their order.  (SelectSeq's test is
\* an operator, which no proof can instantiate.)
Kept(ids, S) ==
  LET kept[n \in 0 .. Len(ids)] ==
        IF n = 0 THEN <<>>
        ELSE IF ids[n] \in S THEN Append(kept[n - 1], ids[n]) ELSE kept[n - 1]
  IN  kept[Len(ids)]

Gated(gate, ids) == Kept(ids, Executable(gate))
Merge(a, b)      == a \o Kept(b, Flows \ ToSet(a))
Primary(ids)     == IF ids = <<>> THEN {} ELSE {Head(ids)}
Lists(S)         == SetToAllKPermutations(S)

-----------------------------------------------------------------------------
\* Searching is about ProductFlow, viewing about another one.
ProductKinds == {"search_product", "view_product"}
PrimaryFor(kind) == IF kind = "search_product" THEN {ProductFlow}
                    ELSE Flows \ {ProductFlow}

Intent(mode, ids) == [mode |-> mode, ids |-> ids]
Sharpened(mode)   == IF mode = "adhoc_existing" THEN "adhoc_parameterized"
                     ELSE mode

\* The LLM's answer counts if executable flows are left of it.
FromLlm(gate) ==
  {i \in [mode : Modes, ids : Lists(Executable(gate))] :
     i.ids # <<>> \/ i.mode = "morning_sanity"}

\* The keywords of the goal lead to executable flows, too, but where none of
\* the flows a keyword stands for is: then the first of them is kept.
FromWords(gate) ==
  [mode : Modes, ids : Lists(Executable(gate))]
    \cup {Intent(mode, <<f>>) :
            mode \in {"negative_suite", "adhoc_existing", "adhoc_parameterized"},
            f \in Flows}

\* A flow that the goal names is taken if it is executable.
Named(gate, i) ==
  {i} \cup {Intent(mode, <<f>>) : mode \in {i.mode, Sharpened(i.mode)},
                                  f \in Executable(gate)}

\* Otherwise a product question goes to its flow, executable or not.
Routed(i) ==
  {i} \cup {Intent(Sharpened(i.mode), <<f>>) :
              f \in UNION {PrimaryFor(kind) : kind \in ProductKinds}}

\* IntentClassifier.classify
Classified(gate) ==
  UNION {Routed(i) : i \in UNION {Named(gate, j) :
                                    j \in FromLlm(gate) \cup FromWords(gate)}}

-----------------------------------------------------------------------------
\* The resolver's primary flow: an executable one, or the one of a product
\* question; mismatch: the audit forbids it, or the classifier contradicts it.
Picked(gate) ==
  [primary : Executable(gate) \cup UNION {PrimaryFor(k) : k \in ProductKinds},
   mismatch : BOOLEAN]
    \cup {[primary |-> NoFlow, mismatch |-> FALSE]}

\* Only an executable primary can be trusted, and not even every one of them.
Trusted(gate) == Executable(gate)

Decided(gate, pick) ==
  IF pick.mismatch THEN {"FLOW_MISMATCH"}
  ELSE {"DISCOVERY_REQUIRED"}
         \cup (IF pick.primary \in Trusted(gate) THEN {"EXECUTE"} ELSE {})

\* FlowResolver.resolve; suites are not resolved.
Resolutions(gate, intent) ==
  IF intent.mode \in Aggregate
  THEN {[decision |-> "none", primary |-> NoFlow]}
  ELSE UNION {{[decision |-> d, primary |-> pick.primary] :
                 d \in Decided(gate, pick)} : pick \in Picked(gate)}

-----------------------------------------------------------------------------
\* The goal's flows, after the LLM's, the search's and the retriever's.
Candidates(intent) ==
  {c \in Lists(Flows) : /\ ToSet(intent.ids) \subseteq ToSet(c)
                        /\ intent.mode \in Aggregate => ToSet(c) = Flows}

\* PlannerPolicy: a destructive goal is blocked; a flow or a word of the goal
\* may make the request risky without blocking it.
Blocked(goal)       == goal = "destructive"
Risky(goal, traits) == Blocked(goal) \/ traits.risky

\* CoverageAssessor.assess_flow
Sufficient(gate, traits, f) == gate[f] /\ traits.covered

\* The branch that would take the LLM's strategy needs candidates that are
\* neither selected nor blocked, and there are none.
Strategy(goal, mode, traits, candidates, selected) ==
  IF Blocked(goal) THEN "BLOCK"
  ELSE IF traits.badParams THEN "ASK_USER"
  ELSE IF mode \in Aggregate THEN "REUSE_EXISTING"
  ELSE IF traits.newFeature \/ mode = "discover" THEN "EXPLORE"
  ELSE IF candidates = <<>> \/ (traits.vague /\ selected = <<>>) THEN "ASK_USER"
  ELSE "REUSE_EXISTING"

\* _requires_human_approval; candidates that are executable and covered need
\* none.
Approval(gate, goal, strategy, traits, candidates) ==
  \/ strategy \in {"EXPLORE", "GENERATE", "ASK_USER"}
  \/ \E f \in ToSet(candidates) : ~Sufficient(gate, traits, f)
  \/ Risky(goal, traits)

\* Whether tests are parameterized matters; their sign does not.
Polarities == {"plain", "parameterized"}

\* What the planner decides on, beside the gate: properties of the wording of
\* the goal, of the LLM's proposal and of the tests' coverage.
Traits == [badParams : BOOLEAN, newFeature : BOOLEAN, vague : BOOLEAN,
           generate : BOOLEAN, covered : BOOLEAN, risky : BOOLEAN,
           ambiguous : BOOLEAN, polarity : Polarities]

Contract(mode, ids, strategy, traits, candidates, selected, approval) ==
  [mode |-> mode, ids |-> ids, strategy |-> strategy,
   candidates |-> candidates, selected |-> selected,
   explore |-> strategy = "EXPLORE",
   generate |-> strategy = "EXPLORE" /\ traits.generate,
   needsApproval |-> approval,
   allowed |-> strategy = "REUSE_EXISTING" /\ selected # <<>>,
   ambiguous |-> traits.ambiguous,
   polarity |-> traits.polarity]

Mismatch(intent) ==
  Contract(intent.mode, <<>>, "BLOCK",
           [generate |-> FALSE, ambiguous |-> FALSE, polarity |-> "plain"],
           <<>>, <<>>, TRUE)

Discovery(intent, candidates) ==
  Contract(IF intent.mode = "adhoc_existing" THEN "discover" ELSE intent.mode,
           <<>>, "EXPLORE",
           [generate |-> TRUE, ambiguous |-> FALSE, polarity |-> "plain"],
           candidates, <<>>, TRUE)

Refined(gate, goal, intent, traits, candidates) ==
  LET selected == Gated(gate, candidates)
      strategy == Strategy(goal, intent.mode, traits, candidates, selected)
  IN  Contract(intent.mode,
               IF selected # <<>> THEN selected ELSE candidates,
               strategy, traits, candidates, selected,
               Approval(gate, goal, strategy, traits, candidates))

\* QaPlanner.plan: the resolver's early answers come before the policy's.
Resolved(gate, goal, intent, r) ==
  IF r.decision = "FLOW_MISMATCH" THEN {Mismatch(intent)}
  ELSE IF r.decision = "DISCOVERY_REQUIRED" /\ intent.ids = <<>>
  THEN {Discovery(intent, c) : c \in Lists(Flows)}
  ELSE LET to == [intent EXCEPT !.ids = IF r.primary = NoFlow THEN @
                                        ELSE <<r.primary>>]
       IN  {Refined(gate, goal, to, t, c) : t \in Traits, c \in Candidates(to)}

Plans(gate, goal, intent) ==
  UNION {Resolved(gate, goal, intent, r) : r \in Resolutions(gate, intent)}

-----------------------------------------------------------------------------
\* What the knowledge graph can add for the goal: executable flows, but for
\* the single hit of a discovery search.
Related(gate, mode) ==
  Lists(Executable(gate))
    \cup (IF mode = "discover" THEN {<<f>> : f \in Flows} ELSE {})

Wanted(mode, ids, related) ==
  CASE mode \in Aggregate -> SetToSeq(Flows)
    [] mode = "incident_multi_flow" -> Merge(ids, related)
    [] mode = "adhoc_parameterized" ->
         IF ids = <<>> THEN <<ProductFlow>> ELSE <<Head(ids)>>
    [] mode = "adhoc_existing" ->
         LET found == IF ids = <<>> THEN related ELSE ids
         IN  IF found = <<>> THEN <<>> ELSE <<Head(found)>>
    [] OTHER -> IF ids = <<>> THEN related ELSE ids

Commands(mode, wanted) ==
  CASE mode \in Aggregate -> {Suite}
    [] mode \in {"negative_suite", "adhoc_existing"} /\ wanted = <<>> -> {Suite}
    [] mode = "negative_suite" /\ wanted # <<>> -> ToSet(wanted)
    [] mode = "incident_multi_flow" -> ToSet(wanted)
    [] OTHER -> Primary(wanted)

\* Bug: the commands of a fully blocked request are kept.
SelectUncleared(gate, mode, ids, related) ==
  LET wanted == Wanted(mode, ids, related)
      flows  == Gated(gate, wanted)
  IN  [flows |-> flows, blocked |-> flows # wanted,
       cmds |-> Commands(mode, wanted)]

\* SuiteSelector.select: commands are built first and cleared only when the
\* gate blocks every flow.
Select(gate, mode, ids, related) ==
  LET wanted == Wanted(mode, ids, related)
      flows  == Gated(gate, wanted)
      none   == wanted # <<>> /\ flows = <<>> /\ mode \notin Aggregate
  IN  [flows |-> flows, blocked |-> flows # wanted,
       cmds |-> IF none THEN {} ELSE Commands(mode, wanted)]
=============================================================================
