---------------------------- MODULE TestGeneration ----------------------------
(***************************************************************************)
(* GenerationService: a request becomes a list of actions, the actions     *)
(* become the text of a Playwright spec, the text is written to the drafts *)
(* and then checked there, and a journal says whether an SME may approve   *)
(* it.  Agents of one server share the directory of drafts, and the        *)
(* compiler looks at all of it.  A text is what the checks can tell of it. *)
(***************************************************************************)
EXTENDS Naturals, FiniteSets

CONSTANTS Agents,         \* runs that generate at the same time
          Flows,          \* flows tests are generated for
          MaxGenerations, \* bound: generations
          MaxFaults       \* bound: deaths and tools that do not answer

ASSUME GenerationAssumption ==
  /\ Flows \subseteq {"product", "alike", "home", "login", "other"}
  /\ MaxGenerations \in Nat /\ MaxFaults \in Nat

-----------------------------------------------------------------------------
\* Requests.  What an exploration found on the page; whoever found a search
\* control found it as the input of a SKU too.
Elements == {"sku", "search", "result", "filter"}
Finds == {found \in SUBSET Elements : "search" \in found => "sku" \in found}

Requests ==
  [flow     : Flows,
   polarity : {"positive", "negative", "parameterized"},
   sku      : BOOLEAN,  \* is a SKU among the validated parameters?
   named    : BOOLEAN,  \* does the goal say "sku", and a literal beside it?
   login    : BOOLEAN,  \* does the goal say "login"?
   filter   : BOOLEAN,  \* does the goal say "filter"?
   result   : BOOLEAN,  \* does the expected outcome speak of a result?
   weak     : BOOLEAN,  \* does what it expects, or a locator, only speak of an
                        \* input, a button or what is visible?
   found    : Finds,
   verified : BOOLEAN,  \* were all elements found by the exploration itself?
   oneline  : BOOLEAN,  \* is the goal one line?
   plain    : BOOLEAN,  \* do its braces balance, does it quote no test data?
   node     : BOOLEAN,  \* does the serializer in node work?
   covered  : BOOLEAN]  \* is there the suite with a parameter already?

\* generate_from_planning: a test for a SKU is not generated again.
Declined(r) == r.covered /\ (r.named \/ r.polarity = "parameterized")

\* build_test_case
Case(r) == CASE r.polarity = "parameterized" /\ r.sku -> "TC-PARAM-SKU"
             [] r.polarity = "negative" -> "N01"
             [] OTHER -> "P01"
Path(r) == [flow |-> r.flow, case |-> Case(r)]
WithSku(r) == r.sku \/ r.polarity = "parameterized"

\* build_scenario, _requires_auth
Authenticates(r) == r.flow # "login" /\ ~r.login

Steps(r) ==
  (IF Authenticates(r) THEN {"authenticate"} ELSE {})
    \cup (CASE WithSku(r) -> {"fill", "click", "assert"}
            [] ~WithSku(r) /\ r.filter -> {"click", "assert"}
            [] OTHER -> {"assert"})

\* resolve_page_object: "alike" shares the prefix of a product flow.
OnProductPage(r) == r.flow \in {"product", "alike"}
Bound(r) == r.flow \in {"product", "home"}

\* Of what the expectation speaks.
SaysResult(r) == WithSku(r) \/ r.filter \/ r.result

\* build_action_model, in page objects ("openItemSearch", "expectLoaded",
\* "searchItemCode", "expectResultRegion") and plain actions.
Asserted(r) ==
  IF OnProductPage(r) /\ (SaysResult(r) \/ "result" \in r.found)
  THEN "expectResultRegion"
  ELSE IF r.found \cap {"result", "filter"} # {} THEN "assert located" ELSE "assert"

Clicked(r) == r.found \cap {"search", "filter"} # {}

Opening(r) ==
  IF Bound(r) /\ Authenticates(r)
  THEN {IF r.flow = "home" THEN "openItemSearch" ELSE "expectLoaded"} ELSE {}

Stepwise(r) ==
  {Asserted(r)}
    \cup (IF "authenticate" \in Steps(r) THEN {"openItemSearch"} ELSE {})
    \cup (IF "fill" \in Steps(r) /\ "sku" \in r.found THEN {"fill"} ELSE {})
    \cup (IF "click" \in Steps(r) /\ Clicked(r) THEN {"click"} ELSE {})

Actions(r) ==
  Opening(r) \cup (IF Bound(r) /\ WithSku(r)
                   THEN {"searchItemCode", "expectResultRegion"}
                   ELSE Stepwise(r))

Located == {"fill", "click", "assert located"}

-----------------------------------------------------------------------------
\* Texts.  generate_spec declares fixtures ...
Declared(r) ==
  LET auth    == "openItemSearch" \in Actions(r)
      product == Actions(r) \cap {"expectLoaded", "searchItemCode",
                                  "expectResultRegion"} # {}
  IN  (IF auth \/ product THEN {"productSearchPage"} ELSE {})
        \cup (IF "assert located" \in Actions(r) \/ ~auth THEN {"page"} ELSE {})

\* ... and the body uses them.  generate-spec-bridge.mjs makes a comment of an
\* assertion that is no page object's; Python's serializer, for when node
\* fails, adds a call if the comment speaks of a result.
UsedByNode(r) ==
  (IF Actions(r) \cap {"fill", "click"} # {} THEN {"page"} ELSE {})
    \cup (IF Actions(r) \cap {"expectLoaded", "searchItemCode",
                              "expectResultRegion"} # {}
          THEN {"productSearchPage"} ELSE {})
UsedByPython(r) ==
  UsedByNode(r) \cup (IF SaysResult(r) THEN {"productSearchPage"} ELSE {})
Used(r) == IF r.node THEN UsedByNode(r) ELSE UsedByPython(r)

\* classify_actions: what is expected of a SKU or a filter is said in words that
\* are not weak, and the page object's assertion never is.
Weak(r) == /\ r.weak /\ ~WithSku(r) /\ ~r.filter
           /\ Actions(r) \cap {"assert", "assert located"} # {}

\* verify_action_locators
LocatorQuality(r) == Actions(r) \cap Located = {} \/ r.verified

\* validate_parameter_trace: a literal needs a QA_PARAM read beside it.
ParameterValid(r) == r.named => Actions(r) \cap {"fill", "searchItemCode"} # {}

\* What is known of the text before it is written; "static" are the checks of
\* its wording.
Text(r) == [path |-> Path(r), parses |-> r.oneline,
            binds |-> Used(r) \subseteq Declared(r),
            static |-> r.plain,
            literal |-> ~ParameterValid(r),
            quality |-> IF Weak(r) THEN "weak"
                        ELSE IF LocatorQuality(r) THEN "sound" ELSE "unlocated"]

Texts == {Text(r) : r \in {x \in Requests : ~Declined(x)}}
Paths == {text.path : text \in Texts}
NoText == [path |-> "none"]

\* validate-generated-spec.mjs; tags and ids are always in the text.
Listed(text) == text.parses
Compiles(text) == text = NoText \/ (text.parses /\ text.binds)

-----------------------------------------------------------------------------
VARIABLES drafts,   \* drafts[p]: the spec file p
          g,        \* g[a]: the generation agent a is at
          journals, \* generated/journals
          crossed,  \* files written while another generation checked them
          done, faults

vars == <<drafts, g, journals, crossed, done, faults>>

Idle == [pc |-> "idle"]

Init == /\ drafts = [p \in Paths |-> NoText]
        /\ g = [a \in Agents |-> Idle]
        /\ journals = {} /\ crossed = {}
        /\ done = 0 /\ faults = 0

\* generate, up to write_text: whatever is in the file is replaced, and stays
\* there whatever the checks say.
WriteSpec(a) ==
  /\ g[a] = Idle /\ done < MaxGenerations /\ done' = done + 1
  /\ \E text \in Texts :
       /\ drafts' = [drafts EXCEPT ![text.path] = text]
       /\ g' = [g EXCEPT ![a] = [pc |-> "compile", text |-> text, tsc |-> FALSE,
                               listed |-> FALSE, clean |-> FALSE]]
       /\ crossed' =
            IF \E b \in Agents \ {a} : g[b] # Idle /\ g[b].text.path = text.path
            THEN crossed \cup {text.path} ELSE crossed
  /\ UNCHANGED <<journals, faults>>

Others(a) == {p \in Paths : p # g[a].text.path}
Sound == \A p \in Paths : Compiles(drafts[p])
OthersSound(a) == \A p \in Others(a) : Compiles(drafts[p])

\* A tool does not answer in time.
Timeout == faults < MaxFaults /\ faults' = faults + 1

\* validate_typescript_compile compiles all drafts there are; "clean" is true
\* if only this text could make it fail.
Compile(a) ==
  /\ g[a].pc = "compile"
  /\ \/ /\ g' = [g EXCEPT ![a].pc = "discover", ![a].tsc = Sound,
                          ![a].clean = OthersSound(a)]
        /\ UNCHANGED faults
     \/ /\ Timeout
        /\ g' = [g EXCEPT ![a].pc = "discover", ![a].tsc = FALSE,
                          ![a].clean = FALSE]
  /\ UNCHANGED <<drafts, journals, crossed, done>>

\* Bug: all drafts are listed.
DiscoverAll(a) ==
  /\ g[a].pc = "discover"
  /\ g' = [g EXCEPT ![a].pc = "journal",
                    ![a].listed = \A p \in Paths : drafts[p] = NoText \/ Listed(drafts[p])]
  /\ UNCHANGED <<drafts, journals, crossed, done, faults>>

\* validate_playwright_discovery lists the one file, which needs no types.
Discover(a) ==
  /\ g[a].pc = "discover"
  /\ \/ /\ g' = [g EXCEPT ![a].pc = "journal",
                          ![a].listed = Listed(drafts[g[a].text.path])]
        /\ UNCHANGED faults
     \/ /\ Timeout
        /\ g' = [g EXCEPT ![a].pc = "journal", ![a].listed = FALSE,
                          ![a].clean = FALSE]
  /\ UNCHANGED <<drafts, journals, crossed, done>>

\* What the report asks of a text besides the tools.
Passes(text) == text.quality = "sound" /\ ~text.literal

\* Bug: the report forgets the compiler.
ReadyUncompiled(gen) == gen.listed /\ Passes(gen.text)

\* build_quality_report, resolve_outcome_status.  A check of the wording that
\* fails has a code that code_valid does not look for: it stops nothing.
Ready(gen) == gen.tsc /\ gen.listed /\ Passes(gen.text)

\* _merge_checks: the first check that fails makes the draft invalid; that of
\* the parameter is one of them, those of locators and assertions are not.
Valid(gen) == /\ gen.tsc /\ gen.listed /\ gen.text.static
              /\ ~gen.text.literal

\* The journal is saved last, with the hash of the text that was generated.
SaveJournal(a) ==
  /\ g[a].pc = "journal"
  /\ journals' = journals \cup
       {[text |-> g[a].text, clean |-> g[a].clean,
         status |-> IF Ready(g[a]) THEN "PENDING_SME_APPROVAL" ELSE "DRAFT",
         valid |-> Valid(g[a])]}
  /\ g' = [g EXCEPT ![a] = Idle]
  /\ UNCHANGED <<drafts, crossed, done, faults>>

\* The server dies: files stay, journals that are not written never will be.
Die == /\ faults < MaxFaults /\ faults' = faults + 1
       /\ \E a \in Agents : g[a] # Idle
       /\ g' = [a \in Agents |-> Idle]
       /\ UNCHANGED <<drafts, journals, crossed, done>>

Next == \/ \E a \in Agents : WriteSpec(a) \/ Compile(a) \/ Discover(a) \/ SaveJournal(a)
        \/ Die

Spec == Init /\ [][Next]_vars

-----------------------------------------------------------------------------
\* What a journal offers to an SME, and is the file it was written for, does
\* compile, can be listed, asserts something and was found on the page - as
\* long as no other generation wrote that file while it was being checked.
PendingIsChecked ==
  \A j \in journals :
    /\ j.status = "PENDING_SME_APPROVAL" /\ drafts[j.text.path] = j.text
    /\ j.text.path \notin crossed
    => Compiles(j.text) /\ Passes(j.text)

\* A draft that is sound is offered with a journal that calls it valid, unless
\* a tool did not answer, or a draft of another test did not compile when this
\* one was compiled, whoever left it there.
SoundIsOffered ==
  \A j \in journals :
    /\ j.clean /\ j.text.path \notin crossed
    /\ Compiles(j.text) /\ j.text.static /\ Passes(j.text)
    => j.status = "PENDING_SME_APPROVAL" /\ j.valid
=============================================================================
