------------------------- MODULE TestGenerationProofs -------------------------
(***************************************************************************)
(* TestGeneration for any number of agents, generations and faults: a      *)
(* journal that offers a draft to an SME was right about it, and a draft   *)
(* that is sound is not held back.                                         *)
(***************************************************************************)
EXTENDS TestGeneration, TLAPS

Labels == {"compile", "discover", "journal"}
Generations == [pc : Labels, text : Texts, tsc : BOOLEAN, listed : BOOLEAN,
                clean : BOOLEAN]

GTypeOK ==
  /\ drafts \in [Paths -> Texts \cup {NoText}]
  /\ g \in [Agents -> Generations \cup {Idle}]
  /\ journals \subseteq [text : Texts, clean : BOOLEAN, valid : BOOLEAN,
                         status : {"PENDING_SME_APPROVAL", "DRAFT"}]

At(a, labels) == g[a].pc \in labels
Uncrossed(a) == g[a].text.path \notin crossed

\* A generation finds a text where it wrote its own, ...
Written == \A a \in Agents : At(a, Labels) => drafts[g[a].text.path] \in Texts

\* ... which is its own, until another one writes there.
OwnDraft ==
  \A a \in Agents : At(a, Labels) /\ Uncrossed(a)
    => drafts[g[a].text.path] = g[a].text

\* What the compiler said of all drafts it said of this one ...
CompilerWasRight ==
  \A a \in Agents : At(a, {"discover", "journal"}) /\ Uncrossed(a) /\ g[a].tsc
    => Compiles(g[a].text)

\* ... and it said so if nothing else was in the way,
SoundWasCompiled ==
  \A a \in Agents :
    /\ At(a, {"discover", "journal"}) /\ Uncrossed(a)
    /\ g[a].clean /\ Compiles(g[a].text)
    => g[a].tsc

\* as Playwright did when it listed the file.
SoundWasListed ==
  \A a \in Agents :
    /\ At(a, {"journal"}) /\ Uncrossed(a)
    /\ g[a].clean /\ Compiles(g[a].text)
    => g[a].listed

\* What a journal offers was checked, whatever became of the draft since.
OfferWasChecked ==
  \A j \in journals :
    j.status = "PENDING_SME_APPROVAL" /\ j.text.path \notin crossed
      => Compiles(j.text) /\ Passes(j.text)

IInv == /\ GTypeOK /\ Written /\ OwnDraft
        /\ CompilerWasRight /\ SoundWasCompiled /\ SoundWasListed
        /\ OfferWasChecked /\ SoundIsOffered

-----------------------------------------------------------------------------
\* A text goes to one of the paths, and is not the absence of a file.
LEMMA TextsHavePaths ==
  ASSUME NEW text \in Texts
  PROVE  text.path \in Paths /\ text # NoText /\ Listed(text) \in BOOLEAN
<1>1. PICK r \in Requests : text = Text(r)
  BY DEF Texts
<1>2. DOMAIN text = {"path", "parses", "binds", "static", "literal", "quality"}
  BY <1>1 DEF Text
<1>3. DOMAIN NoText = {"path"}
  BY DEF NoText
<1>4. "parses" \notin {"path"} /\ "parses" \in DOMAIN text
  BY <1>2
<1>5. text # NoText
  BY <1>3, <1>4
<1>6. text.parses \in BOOLEAN
  BY <1>1 DEF Text, Requests
<1>7. QED
  BY <1>5, <1>6 DEF Paths, Listed

\* A text that compiles can be listed.
LEMMA CompiledIsListed ==
  ASSUME NEW text \in Texts, Compiles(text) PROVE Listed(text)
BY TextsHavePaths DEF Compiles, Listed

\* An agent at one of the labels has a generation, and one that is idle not.
LEMMA AtIsGeneration ==
  ASSUME GTypeOK, NEW a \in Agents
  PROVE  /\ At(a, Labels) => g[a] \in Generations /\ g[a].text.path \in Paths
         /\ g[a] = Idle <=> ~At(a, Labels)
<1>1. g[a] \in Generations \/ g[a] = Idle
  BY DEF GTypeOK
<1>2. CASE g[a] \in Generations
  <2>1. g[a].pc \in Labels /\ g[a].text \in Texts
    BY <1>2 DEF Generations
  <2>2. Idle.pc \notin Labels
    BY DEF Idle, Labels
  <2>3. QED
    BY <1>2, <2>1, <2>2, TextsHavePaths DEF At
<1>3. CASE g[a] = Idle
  BY <1>3 DEF At, Idle, Labels
<1>4. QED
  BY <1>1, <1>2, <1>3

LEMMA InitIInv == Init => IInv
<1> SUFFICES ASSUME Init PROVE IInv
  OBVIOUS
<1>1. GTypeOK
  BY DEF Init, GTypeOK
<1>2. \A a \in Agents : ~At(a, Labels)
  BY DEF Init, At, Idle, Labels
<1>3. OwnDraft /\ CompilerWasRight /\ SoundWasCompiled /\ SoundWasListed
  BY <1>2 DEF OwnDraft, CompilerWasRight, SoundWasCompiled, SoundWasListed, At, Labels
<1>4. Written
  BY <1>2 DEF Written
<1>5. OfferWasChecked /\ SoundIsOffered
  BY DEF Init, OfferWasChecked, SoundIsOffered
<1>6. QED
  BY <1>1, <1>3, <1>4, <1>5 DEF IInv

\* A new draft: generations that wanted the same file are crossed from now on.
LEMMA WriteSpecKeeps ==
  ASSUME IInv, NEW a \in Agents, WriteSpec(a) PROVE IInv'
<1>1. PICK text \in Texts :
        /\ drafts' = [drafts EXCEPT ![text.path] = text]
        /\ g' = [g EXCEPT ![a] = [pc |-> "compile", text |-> text, tsc |-> FALSE,
                                 listed |-> FALSE, clean |-> FALSE]]
        /\ crossed' =
             IF \E b \in Agents \ {a} : g[b] # Idle /\ g[b].text.path = text.path
             THEN crossed \cup {text.path} ELSE crossed
  BY DEF WriteSpec
<1> DEFINE new == [pc |-> "compile", text |-> text, tsc |-> FALSE,
                   listed |-> FALSE, clean |-> FALSE]
<1>2. new \in Generations /\ text.path \in Paths
  BY TextsHavePaths DEF Generations, Labels
<1>3. journals' = journals /\ crossed \subseteq crossed'
  BY <1>1 DEF WriteSpec
<1>4. GTypeOK
  BY DEF IInv
<1>5. GTypeOK'
  BY <1>1, <1>2, <1>3, <1>4 DEF GTypeOK
<1>6. g'[a] = new /\ \A b \in Agents \ {a} : g'[b] = g[b]
  BY <1>1, <1>4 DEF GTypeOK
<1>7. OwnDraft'
  <2> SUFFICES ASSUME NEW b \in Agents, At(b, Labels)', Uncrossed(b)'
               PROVE  (drafts[g[b].text.path] = g[b].text)'
    BY DEF OwnDraft
  <2>1. CASE b = a
    BY <2>1, <1>1, <1>2, <1>4, <1>6 DEF GTypeOK
  <2>2. CASE b # a
    <3>1. g'[b] = g[b] /\ At(b, Labels) /\ Uncrossed(b)
      BY <2>2, <1>3, <1>6 DEF At, Uncrossed
    <3>2. g[b] # Idle /\ g[b].text.path \in Paths
      BY <3>1, <1>4, AtIsGeneration
    <3>3. g[b].text.path # text.path
      BY <2>2, <3>1, <3>2, <1>1 DEF Uncrossed
    <3>4. drafts'[g[b].text.path] = drafts[g[b].text.path]
      BY <3>2, <3>3, <1>1, <1>4 DEF GTypeOK
    <3>5. QED
      BY <3>1, <3>4 DEF IInv, OwnDraft
  <2>3. QED
    BY <2>1, <2>2
<1>8. Written'
  <2> SUFFICES ASSUME NEW b \in Agents, At(b, Labels)'
               PROVE  drafts'[g'[b].text.path] \in Texts
    BY DEF Written
  <2>1. CASE b = a
    BY <2>1, <1>1, <1>2, <1>4, <1>6 DEF GTypeOK
  <2>2. CASE b # a
    BY <2>2, <1>1, <1>4, <1>6, AtIsGeneration DEF IInv, Written, At, GTypeOK
  <2>3. QED
    BY <2>1, <2>2
<1>9. CompilerWasRight' /\ SoundWasCompiled' /\ SoundWasListed'
  BY <1>3, <1>6 DEF IInv, CompilerWasRight, SoundWasCompiled, SoundWasListed,
                    At, Uncrossed
<1>10. OfferWasChecked' /\ SoundIsOffered'
  BY <1>3 DEF IInv, OfferWasChecked, SoundIsOffered
<1>11. QED
  BY <1>5, <1>7, <1>8, <1>9, <1>10 DEF IInv

\* The compiler looks at all drafts, this agent's among them.
LEMMA CompileKeeps ==
  ASSUME IInv, NEW a \in Agents, Compile(a) PROVE IInv'
<1>1. /\ UNCHANGED <<drafts, journals, crossed>>
      /\ g[a].pc = "compile"
  BY DEF Compile
<1>2. GTypeOK /\ At(a, Labels)
  BY <1>1 DEF IInv, At, Labels
<1>3. g[a] \in Generations /\ g[a].text \in Texts
  BY <1>2, AtIsGeneration DEF Generations
<1>4. PICK ok \in BOOLEAN, alone \in BOOLEAN :
        /\ g' = [g EXCEPT ![a].pc = "discover", ![a].tsc = ok, ![a].clean = alone]
        /\ (ok = Sound /\ alone = OthersSound(a)) \/ (~ok /\ ~alone)
  <2>1. Sound \in BOOLEAN /\ OthersSound(a) \in BOOLEAN
    BY DEF Sound, OthersSound
  <2>2. QED
    BY <2>1 DEF Compile
<1>5. /\ g'[a] = [g[a] EXCEPT !.pc = "discover", !.tsc = ok, !.clean = alone]
      /\ \A b \in Agents \ {a} : g'[b] = g[b]
  BY <1>2, <1>4 DEF GTypeOK
<1>6. g'[a] \in Generations /\ g'[a].text = g[a].text /\ g'[a].pc = "discover"
      /\ g'[a].tsc = ok /\ g'[a].clean = alone
  BY <1>3, <1>5 DEF Generations, Labels
<1>7. GTypeOK'
  BY <1>1, <1>2, <1>4, <1>6 DEF GTypeOK
<1>8. Written' /\ OwnDraft'
  <2>1. \A b \in Agents : At(b, Labels)' => At(b, Labels) /\ g'[b].text = g[b].text
    BY <1>2, <1>5, <1>6 DEF At
  <2>2. QED
    BY <1>1, <2>1 DEF IInv, Written, OwnDraft, Uncrossed
<1>9. ASSUME Uncrossed(a)
      PROVE  /\ ok => Compiles(g[a].text)
             /\ alone /\ Compiles(g[a].text) => ok
  <2>1. drafts[g[a].text.path] = g[a].text
    BY <1>2, <1>9 DEF IInv, OwnDraft
  <2>2. g[a].text.path \in Paths
    BY <1>3, TextsHavePaths
  <2>3. Sound => Compiles(g[a].text)
    BY <2>1, <2>2 DEF Sound
  <2>4. OthersSound(a) /\ Compiles(g[a].text) => Sound
    BY <2>1 DEF Sound, OthersSound, Others
  <2>5. QED
    BY <1>4, <2>3, <2>4
<1>10. CompilerWasRight' /\ SoundWasCompiled'
  BY <1>1, <1>5, <1>6, <1>9
     DEF IInv, CompilerWasRight, SoundWasCompiled, At, Uncrossed
<1>11. SoundWasListed'
  BY <1>1, <1>5, <1>6 DEF IInv, SoundWasListed, At, Uncrossed
<1>12. OfferWasChecked' /\ SoundIsOffered'
  BY <1>1 DEF IInv, OfferWasChecked, SoundIsOffered
<1>13. QED
  BY <1>7, <1>8, <1>10, <1>11, <1>12 DEF IInv

\* Playwright lists the one file, which is the agent's own.
LEMMA DiscoverKeeps ==
  ASSUME IInv, NEW a \in Agents, Discover(a) PROVE IInv'
<1>1. /\ UNCHANGED <<drafts, journals, crossed>>
      /\ g[a].pc = "discover"
  BY DEF Discover
<1>2. GTypeOK /\ At(a, Labels)
  BY <1>1 DEF IInv, At, Labels
<1>3. g[a] \in Generations /\ g[a].text \in Texts
  BY <1>2, AtIsGeneration DEF Generations
<1>4. /\ \A b \in Agents \ {a} : g'[b] = g[b]
      /\ g'[a].pc = "journal" /\ g'[a].text = g[a].text /\ g'[a].tsc = g[a].tsc
      /\ g'[a] \in Generations
      /\ g'[a].clean =>
           g[a].clean /\ (Listed(drafts[g[a].text.path]) => g'[a].listed)
  <2>1. CASE g' = [g EXCEPT ![a].pc = "journal",
                            ![a].listed = Listed(drafts[g[a].text.path])]
    <3>1. Listed(drafts[g[a].text.path]) \in BOOLEAN
      BY <1>2, TextsHavePaths DEF IInv, Written
    <3>2. QED
      BY <1>2, <1>3, <2>1, <3>1 DEF GTypeOK, Generations, Labels
  <2>2. CASE g' = [g EXCEPT ![a].pc = "journal", ![a].listed = FALSE,
                            ![a].clean = FALSE]
    BY <1>2, <1>3, <2>2 DEF GTypeOK, Generations, Labels
  <2>3. QED
    BY <2>1, <2>2 DEF Discover
<1>5. GTypeOK'
  <2>1. DOMAIN g' = Agents /\ g' = [b \in Agents |-> g'[b]]
    BY <1>2 DEF Discover, GTypeOK
  <2>2. g' \in [Agents -> Generations \cup {Idle}]
    BY <1>2, <1>4, <2>1 DEF GTypeOK
  <2>3. QED
    BY <1>1, <1>2, <2>2 DEF GTypeOK
<1>6. Written' /\ OwnDraft'
  <2>1. \A b \in Agents : At(b, Labels)' => At(b, Labels) /\ g'[b].text = g[b].text
    BY <1>2, <1>4 DEF At
  <2>2. QED
    BY <1>1, <2>1 DEF IInv, Written, OwnDraft, Uncrossed
<1>7. CompilerWasRight' /\ SoundWasCompiled'
  BY <1>1, <1>4 DEF IInv, CompilerWasRight, SoundWasCompiled, At, Uncrossed
<1>8. SoundWasListed'
  <2> SUFFICES ASSUME NEW b \in Agents, At(b, {"journal"})', Uncrossed(b)',
                      g'[b].clean, Compiles(g[b].text)', Compiles(g'[b].text)
               PROVE  g'[b].listed
    BY DEF SoundWasListed, Compiles
  <2>1. CASE b = a
    <3>1. Uncrossed(a) /\ Compiles(g[a].text)
      BY <1>1, <1>4, <2>1 DEF Uncrossed
    <3>2. drafts[g[a].text.path] = g[a].text
      BY <1>2, <3>1 DEF IInv, OwnDraft
    <3>3. Listed(g[a].text)
      BY <1>3, <3>1, CompiledIsListed
    <3>4. QED
      BY <1>4, <2>1, <3>2, <3>3
  <2>2. CASE b # a
    BY <1>1, <1>4, <2>2 DEF IInv, SoundWasListed, At, Uncrossed
  <2>3. QED
    BY <2>1, <2>2
<1>9. OfferWasChecked' /\ SoundIsOffered'
  BY <1>1 DEF IInv, OfferWasChecked, SoundIsOffered
<1>10. QED
  BY <1>5, <1>6, <1>7, <1>8, <1>9 DEF IInv

\* The journal says what the checks of this agent said.
LEMMA SaveJournalKeeps ==
  ASSUME IInv, NEW a \in Agents, SaveJournal(a) PROVE IInv'
<1> DEFINE new == [text |-> g[a].text, clean |-> g[a].clean,
                   status |-> IF Ready(g[a]) THEN "PENDING_SME_APPROVAL" ELSE "DRAFT",
                   valid |-> Valid(g[a])]
<1>1. /\ UNCHANGED <<drafts, crossed>>
      /\ g[a].pc = "journal"
      /\ journals' = journals \cup {new}
      /\ g' = [g EXCEPT ![a] = Idle]
  BY DEF SaveJournal
<1>2. GTypeOK /\ At(a, Labels) /\ At(a, {"journal"})
  BY <1>1 DEF IInv, At, Labels
<1>3. g[a] \in Generations /\ g[a].text \in Texts
  BY <1>2, AtIsGeneration DEF Generations
<1>4. new \in [text : Texts, clean : BOOLEAN, valid : BOOLEAN,
               status : {"PENDING_SME_APPROVAL", "DRAFT"}]
  BY <1>3 DEF Generations, Valid
<1>5. GTypeOK'
  BY <1>1, <1>2, <1>4 DEF GTypeOK
<1>6. \A b \in Agents : At(b, Labels)' => g'[b] = g[b] /\ b # a
  BY <1>1, <1>2 DEF GTypeOK, At, Idle, Labels
<1>7. /\ Written' /\ OwnDraft'
      /\ CompilerWasRight' /\ SoundWasCompiled' /\ SoundWasListed'
  BY <1>1, <1>6 DEF IInv, Written, OwnDraft, CompilerWasRight, SoundWasCompiled,
                    SoundWasListed, At, Uncrossed, Labels
<1>8. OfferWasChecked'
  <2>1. new.status = "PENDING_SME_APPROVAL" =>
          g[a].tsc /\ Passes(new.text)
    BY DEF Ready
  <2>2. new.text.path \notin crossed /\ g[a].tsc => Compiles(new.text)
    BY <1>2 DEF IInv, CompilerWasRight, At, Uncrossed
  <2>3. QED
    BY <1>1, <2>1, <2>2 DEF IInv, OfferWasChecked
<1>9. SoundIsOffered'
  <2>1. ASSUME new.clean, new.text.path \notin crossed, Compiles(new.text),
               new.text.static, Passes(new.text)
        PROVE  new.status = "PENDING_SME_APPROVAL" /\ new.valid
    <3>1. g[a].tsc /\ g[a].listed
      BY <1>2, <2>1 DEF IInv, SoundWasCompiled, SoundWasListed, At, Uncrossed
    <3>2. QED
      BY <2>1, <3>1 DEF Ready, Valid, Passes
  <2>2. QED
    BY <1>1, <2>1 DEF IInv, SoundIsOffered
<1>10. QED
  BY <1>5, <1>7, <1>8, <1>9 DEF IInv

LEMMA StepIInv == IInv /\ [Next]_vars => IInv'
<1> SUFFICES ASSUME IInv, [Next]_vars PROVE IInv'
  OBVIOUS
<1>1. CASE Die
  <2>1. \A a \in Agents : ~At(a, Labels)'
    BY <1>1 DEF Die, At, Idle, Labels
  <2>2. GTypeOK'
    BY <1>1 DEF Die, IInv, GTypeOK
  <2>3. /\ Written' /\ OwnDraft'
        /\ CompilerWasRight' /\ SoundWasCompiled' /\ SoundWasListed'
    BY <2>1 DEF Written, OwnDraft, CompilerWasRight, SoundWasCompiled, SoundWasListed,
                At, Labels
  <2>4. OfferWasChecked' /\ SoundIsOffered'
    BY <1>1 DEF Die, IInv, OfferWasChecked, SoundIsOffered
  <2>5. QED
    BY <2>2, <2>3, <2>4 DEF IInv
<1>2. CASE UNCHANGED vars
  <2>1. UNCHANGED <<drafts, g, journals, crossed>>
    BY <1>2 DEF vars
  <2>2. QED
    BY <2>1 DEF IInv, GTypeOK, Written, OwnDraft, CompilerWasRight, SoundWasCompiled,
                SoundWasListed, OfferWasChecked, SoundIsOffered, At, Uncrossed
<1>3. QED
  BY <1>1, <1>2, WriteSpecKeeps, CompileKeeps, DiscoverKeeps, SaveJournalKeeps
     DEF Next

-----------------------------------------------------------------------------
\* A journal that offers a draft to an SME was right about it: the text that
\* is in the file compiles, asserts something and was found on the page, as
\* long as no other generation of the server wrote that file meanwhile.
THEOREM OffersAreChecked == Spec => []PendingIsChecked
<1>1. IInv => PendingIsChecked
  BY DEF IInv, OfferWasChecked, PendingIsChecked
<1>2. QED
  BY <1>1, InitIInv, StepIInv, PTL DEF Spec

\* A draft that is sound is offered: neither the compiler, which looks at all
\* drafts, nor Playwright holds it back, unless a tool does not answer or
\* another draft does not compile.
THEOREM SoundDraftsAreOffered == Spec => []SoundIsOffered
<1>1. IInv => SoundIsOffered
  BY DEF IInv
<1>2. QED
  BY <1>1, InitIInv, StepIInv, PTL DEF Spec
=============================================================================
