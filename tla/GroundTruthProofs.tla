-------------------------- MODULE GroundTruthProofs --------------------------
(***************************************************************************)
(* GroundTruth for any number of runs and requests, any goals that are     *)
(* asked for, any number of edits and of deaths of the console: a PASS is  *)
(* earned, and, under the lock, a judgement stays.                         *)
(***************************************************************************)
EXTENDS GroundTruth, TLAPS

Verdicts == {"NEEDS_REVIEW", "PASS", "FAIL"}
Ended == [pc : {"played", "stored"}, goal : {Goals[g] : g \in Asked}, own : Outcomes,
          seen : Reports, signed : Truths \cup {"none"}, by : Truths \cup {"none"},
          shown : Verdicts \cup {"none"}, review : BOOLEAN]
Drafts == UNION {[D -> Ended] : D \in SUBSET Runs}
Asking == [pc : {"ask"}, run : Runs, truth : Truths, draft : {<<>>}]
Working == [pc : Locked, run : Runs, truth : Truths, draft : Drafts]

GTypeOK ==
  /\ truth \in [Truths -> {"approved", "pending_sme_approval"}]
  /\ audit \subseteq Truths
  /\ report \in Reports
  /\ run \in [Runs -> Ended \cup {[pc |-> "new", shown |-> "none"]}]
  /\ rq \in [Handlers -> Asking \cup Working \cup {Idle}]
  /\ ever \subseteq Truths /\ viewed \subseteq Runs

\* Who has approved a Ground Truth is not forgotten when it is withdrawn.
Remembered == Approved \subseteq ever

\* What the record of a run that has ended says, be it in state.json or in the
\* copy a request works on: it is judged when it is validated, by the report it
\* left itself unless that was crossed, and a PASS is earned.
Sound(rec, r) ==
  /\ rec \in Ended
  /\ rec.pc = "played" => rec.shown = "none" /\ rec.signed = "none"
  /\ rec.pc = "stored" => rec.shown # "none"
  /\ rec.pc = "stored" /\ r \notin crossed => rec.seen = rec.own.tests
  /\ rec.shown = "PASS" => Earned(rec, r)

AllSound == \A r \in Runs : run[r].pc # "new" => Sound(run[r], r)

\* The report is the one a run left, until another run leaves its own.
OwnReport ==
  \A r \in Runs : run[r].pc = "played" /\ run[r].own.played /\ r \notin crossed
    => report = run[r].own.tests

\* The copy a request works on holds stored runs, its own among them; that one
\* needed a review when it was asked again, and the sign-off is on record before
\* the run is validated again.
DraftSound(h) ==
  /\ rq[h].run \in DOMAIN rq[h].draft
  /\ \A q \in DOMAIN rq[h].draft :
       /\ run[q].pc = "stored" /\ rq[h].draft[q].pc = "stored"
       /\ Sound(rq[h].draft[q], q)
HandlerOK(h) ==
  /\ rq[h].pc = "ask" => run[rq[h].run].pc = "stored"
  /\ rq[h].pc \in Locked => DraftSound(h)
  /\ rq[h].pc \in Locked \ {"check"} => Draft(h).shown = "NEEDS_REVIEW"
  /\ rq[h].pc = "revalidate" => rq[h].truth \in audit
HandlersOK == \A h \in Handlers : HandlerOK(h)

\* The lock: as long as nobody has gone without it at the requests inside, there
\* is one request inside, the lock file is there, and its copy is what is stored.
Copied ==
  ~unlocked => \A h \in Handlers : rq[h].pc \in Locked =>
     /\ lockFile
     /\ \A i \in Handlers : rq[i].pc \in Locked => i = h
     /\ \A q \in DOMAIN rq[h].draft : rq[h].draft[q] = run[q]

\* A GET stores what it holds over a run that is stored.
Held == \A r \in viewed : run[r].pc = "stored"

IInv == GTypeOK /\ Remembered /\ AllSound /\ OwnReport /\ HandlersOK /\ Copied /\ Held

-----------------------------------------------------------------------------
\* What the validator may say, and on which grounds it says PASS.
LEMMA ValidationsAreSound ==
  ASSUME NEW goal, NEW own, NEW seen, NEW ids,
         NEW v \in Validations(goal, own, seen, ids)
  PROVE  /\ v.shown \in Verdicts
         /\ v.review \in BOOLEAN /\ v.by \in Truths \cup {"none"}
         /\ v.shown = "PASS" =>
              /\ v.by \in Approved
              /\ Expects(v.by) \subseteq Facts(own, seen)
              /\ Flow(v.by) # "none" => ids \subseteq {Flow(v.by)}
<1> DEFINE matching == {t \in Approved : GoalMatches(goal, t, ids)}
<1>1. CASE v = PhaseA(own)
  BY <1>1 DEF PhaseA, ToReview, Verdict, Verdicts
<1>2. CASE v # PhaseA(own)
  <2>1. PICK t \in matching : v = PhaseB(t, Facts(own, seen), ids)
    BY <1>2 DEF Validations
  <2>2. t \in Approved /\ t \in Truths
    BY <2>1 DEF Approved
  <2> HIDE DEF matching
  <2>3. QED
    BY <2>1, <2>2 DEF PhaseB, Verdict, Verdicts
<1>3. QED
  BY <1>1, <1>2

\* An execution that was skipped has no report.
LEMMA SkippedHasNoReport ==
  \A own \in Outcomes : /\ own.tests \in Reports /\ own.played \in BOOLEAN
                        /\ ~own.played => own.tests = NoReport
BY DEF Outcomes, Outcome, Reports

LEMMA ReportsAreReports == NoReport \in Reports
BY DEF Reports

\* Of a run, its goal and its own execution never change once it has ended.
LEMMA JudgedIsEnded ==
  ASSUME NEW rec \in Ended, NEW v, v.shown \in Verdicts,
         v.review \in BOOLEAN, v.by \in Truths \cup {"none"}
  PROVE  /\ Judged(rec, v) \in Ended
         /\ Judged(rec, v).shown = v.shown /\ Judged(rec, v).review = v.review
         /\ Judged(rec, v).by = v.by /\ Judged(rec, v).own = rec.own
         /\ Judged(rec, v).seen = rec.seen /\ Judged(rec, v).pc = rec.pc
         /\ Judged(rec, v).signed = rec.signed
BY DEF Judged, Ended

LEMMA InitIInv == Init => IInv
<1> SUFFICES ASSUME Init PROVE IInv
  OBVIOUS
<1>1. GTypeOK
  BY ReportsAreReports DEF Init, GTypeOK, Truths
<1>2. Remembered
  BY DEF Init, Remembered, Approved, Truths
<1>3. HandlersOK /\ Copied /\ Held
  BY DEF Init, HandlersOK, HandlerOK, Copied, Held, Idle, Locked
<1>4. AllSound /\ OwnReport
  BY DEF Init, AllSound, OwnReport
<1>5. QED
  BY <1>1, <1>2, <1>3, <1>4 DEF IInv

-----------------------------------------------------------------------------
\* What others do keeps a record sound: nothing is forgotten.
LEMMA SoundStays ==
  ASSUME ever \subseteq ever', crossed \subseteq crossed', audit \subseteq audit',
         NEW rec, NEW r, Sound(rec, r)
  PROVE  /\ rec \in Ended
         /\ rec.pc = "played" => rec.shown = "none" /\ rec.signed = "none"
         /\ rec.pc = "stored" => rec.shown # "none"
         /\ rec.pc = "stored" /\ r \notin crossed' => rec.seen = rec.own.tests
         /\ rec.shown = "PASS" =>
              /\ rec.by \in ever'
              /\ Expects(rec.by) \subseteq Facts(rec.own, rec.seen)
              /\ r \notin crossed' => rec.seen = rec.own.tests
              /\ IF rec.signed # "none" THEN rec.signed \in audit'
                 ELSE Flow(rec.by) # "none" => rec.seen.ids \subseteq {Flow(rec.by)}
BY DEF Sound, Earned

LEMMA RunStays ==
  ASSUME ever \subseteq ever', crossed \subseteq crossed', audit \subseteq audit',
         NEW r, Sound(run[r], r), run'[r] = run[r]
  PROVE  Sound(run[r], r)'
BY SoundStays DEF Sound, Earned

\* A request that does not move stays as it is; runs that are stored stay stored.
LEMMA HandlerStays ==
  ASSUME GTypeOK, ever \subseteq ever', crossed \subseteq crossed', audit \subseteq audit',
         \A q \in Runs : run[q].pc = "stored" => run'[q].pc = "stored",
         NEW h \in Handlers, HandlerOK(h), rq'[h] = rq[h]
  PROVE  HandlerOK(h)'
<1>1. rq[h].pc = "ask" => rq[h].run \in Runs
  BY DEF GTypeOK, Asking, Working, Idle, Locked
<1>2. rq[h].pc \in Locked => DOMAIN rq[h].draft \subseteq Runs
  BY DEF GTypeOK, Asking, Working, Idle, Locked, Drafts
<1>3. rq[h].pc \in Locked => DraftSound(h)'
  <2> SUFFICES ASSUME rq[h].pc \in Locked PROVE DraftSound(h)'
    OBVIOUS
  <2>1. DraftSound(h)
    BY DEF HandlerOK
  <2>2. ASSUME NEW q \in DOMAIN rq[h].draft
        PROVE  /\ run'[q].pc = "stored" /\ rq'[h].draft[q].pc = "stored"
               /\ Sound(rq[h].draft[q], q)'
    BY <1>2, <2>1, <2>2, SoundStays DEF DraftSound, Sound, Earned
  <2>3. QED
    BY <2>1, <2>2 DEF DraftSound
<1>4. QED
  BY <1>1, <1>3 DEF HandlerOK, Draft

\* The runs are as they were, and the requests that do not move, too.
LEMMA RunsAlone ==
  ASSUME IInv, UNCHANGED <<report, run, crossed>>, ever \subseteq ever', audit \subseteq audit'
  PROVE  /\ AllSound' /\ OwnReport'
         /\ \A i \in Handlers : rq'[i] = rq[i] => HandlerOK(i)'
<1>1. AllSound'
  BY RunStays DEF IInv, AllSound
<1>2. OwnReport'
  BY DEF IInv, OwnReport
<1>3. \A i \in Handlers : rq'[i] = rq[i] => HandlerOK(i)'
  BY HandlerStays DEF IInv, HandlersOK
<1>4. QED
  BY <1>1, <1>2, <1>3

-----------------------------------------------------------------------------
\* Playwright ends: the report is this run's, and who had not read his is crossed.
LEMMA PlaysKeeps ==
  ASSUME IInv, NEW r \in Runs, Plays(r) PROVE IInv'
<1> DEFINE new(g, own) ==
      [pc |-> "played", goal |-> Goals[g], own |-> own, seen |-> NoReport,
       signed |-> "none", shown |-> "none", review |-> FALSE, by |-> "none"]
<1>1. PICK g \in Asked, own \in Outcomes :
        /\ run' = [run EXCEPT ![r] = new(g, own)]
        /\ IF own.played
           THEN /\ report' = own.tests
                /\ crossed' = crossed \cup {q \in Runs : run[q].pc = "played" /\ run[q].own.played}
           ELSE UNCHANGED <<report, crossed>>
  BY DEF Plays
<1>2. /\ UNCHANGED <<truth, audit, rq, lockFile, unlocked, ever, viewed>>
      /\ run[r].pc = "new"
  BY DEF Plays, lock
<1>3. GTypeOK
  BY DEF IInv
<1>4. /\ new(g, own) \in Ended /\ new(g, own).pc = "played" /\ new(g, own).shown = "none"
      /\ new(g, own).signed = "none" /\ new(g, own).own = own
  BY ReportsAreReports DEF Ended
<1> HIDE DEF new
<1>5. own.tests \in Reports /\ own.played \in BOOLEAN
  BY SkippedHasNoReport
<1>6. GTypeOK'
  BY <1>1, <1>2, <1>3, <1>4, <1>5 DEF GTypeOK
<1>7. run'[r] = new(g, own) /\ \A q \in Runs \ {r} : run'[q] = run[q]
  BY <1>1, <1>3 DEF GTypeOK
<1>8. crossed \subseteq crossed'
  BY <1>1, <1>5
<1>9. Remembered'
  BY <1>2 DEF IInv, Remembered, Approved
<1>10. AllSound'
  <2> SUFFICES ASSUME NEW q \in Runs, run'[q].pc # "new" PROVE Sound(run[q], q)'
    BY DEF AllSound
  <2>1. CASE q = r
    BY <1>4, <1>7, <2>1 DEF Sound
  <2>2. CASE q # r
    BY <1>2, <1>7, <1>8, <2>2, RunStays DEF IInv, AllSound
  <2>3. QED
    BY <2>1, <2>2
<1>11. OwnReport'
  <2> SUFFICES ASSUME NEW q \in Runs, run'[q].pc = "played", run'[q].own.played,
                      q \notin crossed'
               PROVE  report' = run'[q].own.tests
    BY DEF OwnReport
  <2>1. CASE q = r
    BY <2>1, <1>1, <1>4, <1>7
  <2>2. CASE q # r
    <3>1. run'[q] = run[q]
      BY <2>2, <1>7
    <3>2. ~own.played
      BY <1>1, <3>1
    <3>3. UNCHANGED <<report, crossed>>
      BY <1>1, <3>2
    <3>4. QED
      BY <3>1, <3>3 DEF IInv, OwnReport
  <2>3. QED
    BY <2>1, <2>2
<1>12. \A q \in Runs : run[q].pc = "stored" => run'[q] = run[q]
  BY <1>2, <1>7
<1>13. HandlersOK'
  BY <1>2, <1>3, <1>8, <1>12, HandlerStays DEF IInv, HandlersOK
<1>14. Copied'
  BY <1>2, <1>12 DEF IInv, Copied, HandlersOK, HandlerOK, DraftSound, GTypeOK, Working,
                     Drafts, Asking, Idle, Locked
<1>15. Held'
  BY <1>2, <1>3, <1>12 DEF IInv, Held, GTypeOK
<1>16. QED
  BY <1>6, <1>9, <1>10, <1>11, <1>13, <1>14, <1>15 DEF IInv

\* Somebody stores a run between two requests, or without the lock.
LEMMA BrieflyCopied ==
  ASSUME Copied, Briefly, UNCHANGED rq PROVE Copied'
<1>1. CASE Inside = {}
  BY <1>1 DEF Inside, Copied
<1>2. CASE Inside # {}
  <2>1. unlocked' = (unlocked \/ lockFile)
    BY <1>2 DEF Briefly
  <2>2. CASE unlocked
    BY <2>1, <2>2 DEF Copied
  <2>3. CASE ~unlocked
    <3>1. lockFile
      BY <1>2, <2>3 DEF Copied, Inside
    <3>2. QED
      BY <2>1, <3>1 DEF Copied
  <2>4. QED
    BY <2>2, <2>3
<1>3. QED
  BY <1>1, <1>2

\* One run is stored, by the console itself.
LEMMA StoresOne ==
  ASSUME IInv, NEW r \in Runs, NEW rec \in Ended, rec.pc = "stored",
         run[r].pc # "new", Briefly, run' = [run EXCEPT ![r] = rec],
         UNCHANGED <<truth, audit, report, rq, ever, crossed>>,
         viewed' \subseteq viewed \cup {r}, Sound(rec, r)
  PROVE  IInv'
<1>1. GTypeOK
  BY DEF IInv
<1>2. run'[r] = rec /\ \A q \in Runs \ {r} : run'[q] = run[q]
  BY <1>1 DEF GTypeOK
<1>3. GTypeOK' /\ Remembered'
  BY <1>1, <1>2 DEF IInv, GTypeOK, Remembered, Approved
<1>4. AllSound'
  <2> SUFFICES ASSUME NEW q \in Runs, run'[q].pc # "new" PROVE Sound(run[q], q)'
    BY DEF AllSound
  <2>1. CASE q = r
    BY <1>2, <2>1 DEF Sound, Earned
  <2>2. CASE q # r
    BY <1>2, <2>2, RunStays DEF IInv, AllSound
  <2>3. QED
    BY <2>1, <2>2
<1>5. OwnReport'
  BY <1>2 DEF IInv, OwnReport
<1>6. \A q \in Runs : run[q].pc = "stored" => run'[q].pc = "stored"
  BY <1>2
<1>7. HandlersOK'
  BY <1>1, <1>6, HandlerStays DEF IInv, HandlersOK
<1>8. Copied'
  BY BrieflyCopied DEF IInv
<1>9. Held'
  BY <1>1, <1>2, <1>6 DEF IInv, Held, GTypeOK
<1>10. QED
  BY <1>3, <1>4, <1>5, <1>7, <1>8, <1>9 DEF IInv

\* The report is read and judged: it is the run's own unless it was crossed.
LEMMA VerifiesKeeps ==
  ASSUME IInv, NEW r \in Runs, Verifies(r) PROVE IInv'
<1> DEFINE seen == IF run[r].own.played THEN report ELSE NoReport
<1>1. PICK v \in IF "ok" \in run[r].own.facts
                 THEN Validations(run[r].goal, run[r].own, seen, seen.ids)
                 ELSE {Verdict("NEEDS_REVIEW", FALSE, "none")} :
        run' = [run EXCEPT ![r] =
                 [Judged(run[r], v) EXCEPT !.pc = "stored", !.seen = seen]]
  BY DEF Verifies
<1>2. /\ UNCHANGED <<truth, audit, report, rq, ever, crossed>>
      /\ run[r].pc = "played" /\ Briefly /\ viewed' \subseteq viewed \cup {r}
  BY DEF Verifies
<1>3. GTypeOK
  BY DEF IInv
<1>4. /\ run[r] \in Ended /\ run[r].signed = "none"
      /\ run[r].own \in Outcomes
  BY <1>2 DEF IInv, AllSound, Sound, Ended
<1>5. /\ v.shown \in Verdicts
      /\ v.review \in BOOLEAN /\ v.by \in Truths \cup {"none"}
      /\ v.shown = "PASS" =>
           /\ v.by \in Approved
           /\ Expects(v.by) \subseteq Facts(run[r].own, seen)
           /\ Flow(v.by) # "none" => seen.ids \subseteq {Flow(v.by)}
  <2>1. CASE "ok" \in run[r].own.facts
    BY <1>1, <2>1, ValidationsAreSound
  <2>2. CASE "ok" \notin run[r].own.facts
    <3>1. v = Verdict("NEEDS_REVIEW", FALSE, "none")
      BY <1>1, <2>2
    <3> HIDE DEF seen
    <3>2. QED
      BY <3>1 DEF Verdict, Verdicts
  <2>3. QED
    BY <2>1, <2>2
<1>6. seen \in Reports
  BY <1>3, ReportsAreReports DEF GTypeOK
<1>7. r \notin crossed => seen = run[r].own.tests
  BY <1>2, <1>4, SkippedHasNoReport DEF IInv, OwnReport
<1> HIDE DEF seen
<1> DEFINE j == Judged(run[r], v)
           rec == [j EXCEPT !.pc = "stored", !.seen = seen]
<1>8. /\ j \in Ended /\ j.shown = v.shown /\ j.by = v.by
      /\ j.own = run[r].own /\ j.signed = run[r].signed
  BY <1>4, <1>5, JudgedIsEnded
<1>9. run' = [run EXCEPT ![r] = rec]
  BY <1>1
<1> HIDE DEF j
<1>10. /\ rec \in Ended /\ rec.pc = "stored" /\ rec.seen = seen
       /\ rec.shown = v.shown /\ rec.by = v.by /\ rec.own = run[r].own
       /\ rec.signed = run[r].signed
  BY <1>6, <1>8 DEF Ended
<1> HIDE DEF rec
<1>11. Sound(rec, r)
  <2>1. rec.shown = "PASS" => Earned(rec, r)
    BY <1>4, <1>5, <1>7, <1>10 DEF Earned, IInv, Remembered
  <2>2. rec.shown # "none"
    BY <1>5, <1>10 DEF Verdicts
  <2>3. QED
    BY <1>7, <1>10, <2>1, <2>2 DEF Sound
<1>12. QED
  BY <1>2, <1>9, <1>10, <1>11, StoresOne

\* What a GET stores is what the agent said, or the need of a review.
LEMMA PersistsKeeps ==
  ASSUME IInv, NEW r \in Runs, Persists(r) PROVE IInv'
<1> DEFINE v == AgentVerdict(run[r])
           j == Judged(run[r], v)
           rec == [j EXCEPT !.signed = "none"]
<1>1. /\ UNCHANGED <<truth, audit, report, rq, ever, crossed>>
      /\ run' = [run EXCEPT ![r] = rec] /\ Briefly /\ run[r].pc = "stored"
      /\ viewed' \subseteq viewed \cup {r}
  BY DEF Persists, IInv, Held
<1>2. run[r] \in Ended /\ Sound(run[r], r)
  BY <1>1 DEF IInv, AllSound, Sound
<1>3. /\ v.shown \in Verdicts /\ v.review \in BOOLEAN /\ v.by \in Truths \cup {"none"}
      /\ v.shown = "PASS" => run[r].signed = "none" /\ run[r].shown = "PASS" /\ v.by = run[r].by
  <2>1. CASE run[r].signed = "none"
    BY <1>1, <1>2, <2>1 DEF AgentVerdict, Verdict, Sound, Ended, Verdicts
  <2>2. CASE run[r].signed # "none"
    BY <2>2 DEF AgentVerdict, ToReview, Verdict, Verdicts
  <2>3. QED
    BY <2>1, <2>2
<1> HIDE DEF v
<1>4. /\ j \in Ended /\ j.shown = v.shown /\ j.by = v.by /\ j.pc = "stored"
      /\ j.own = run[r].own /\ j.seen = run[r].seen
  BY <1>1, <1>2, <1>3, JudgedIsEnded
<1> HIDE DEF j
<1>5. /\ rec \in Ended /\ rec.pc = "stored" /\ rec.seen = run[r].seen
      /\ rec.shown = v.shown /\ rec.by = v.by /\ rec.own = run[r].own
      /\ rec.signed = "none"
  BY <1>4 DEF Ended
<1> HIDE DEF rec
<1>6. Sound(rec, r)
  <2>1. rec.shown = "PASS" => Earned(rec, r)
    BY <1>2, <1>3, <1>5 DEF Sound, Earned
  <2>2. rec.shown # "none"
    BY <1>3, <1>5 DEF Verdicts
  <2>3. QED
    BY <1>1, <1>2, <1>5, <2>1, <2>2 DEF Sound
<1>7. QED
  BY <1>1, <1>5, <1>6, StoresOne

-----------------------------------------------------------------------------
\* Steps of the requests.  One that asks, or moves on inside, takes nothing from
\* the others and leaves the runs alone.
LEMMA MovesOn ==
  ASSUME IInv, UNCHANGED <<report, run, lockFile, unlocked, viewed, crossed>>,
         ever \subseteq ever', audit \subseteq audit', GTypeOK', Remembered',
         NEW h \in Handlers, \A i \in Handlers \ {h} : rq'[i] = rq[i],
         rq'[h].pc \in Locked => rq[h].pc \in Locked /\ rq'[h].draft = rq[h].draft,
         HandlerOK(h)'
  PROVE  IInv'
<1>1. AllSound' /\ OwnReport' /\ \A i \in Handlers : rq'[i] = rq[i] => HandlerOK(i)'
  BY RunsAlone
<1>2. HandlersOK'
  BY <1>1 DEF HandlersOK
<1>3. \A i \in Handlers : rq'[i].pc \in Locked => rq[i].pc \in Locked /\ rq'[i].draft = rq[i].draft
  OBVIOUS
<1>4. Copied'
  BY <1>3 DEF IInv, Copied
<1>5. Held'
  BY DEF IInv, Held
<1>6. QED
  BY <1>1, <1>2, <1>4, <1>5 DEF IInv

LEMMA AsksKeeps ==
  ASSUME IInv, NEW h \in Handlers, NEW r \in Runs, NEW t \in Truths, Asks(h, r, t)
  PROVE  IInv'
<1>1. /\ UNCHANGED <<truth, audit, report, run, lockFile, unlocked, viewed, ever, crossed>>
      /\ rq' = [rq EXCEPT ![h] = Request("ask", r, t, <<>>)]
      /\ run[r].pc = "stored"
  BY DEF Asks, Moved, lock, Eligible
<1>2. GTypeOK' /\ Remembered'
  BY <1>1 DEF IInv, GTypeOK, Remembered, Approved, Asking, Request
<1>3. /\ rq'[h] = Request("ask", r, t, <<>>)
      /\ \A i \in Handlers \ {h} : rq'[i] = rq[i]
  BY <1>1 DEF IInv, GTypeOK
<1>4. rq'[h].pc = "ask" /\ rq'[h].run = r
  BY <1>3 DEF Request
<1>5. HandlerOK(h)'
  BY <1>1, <1>4 DEF HandlerOK, Locked
<1>6. QED
  BY <1>1, <1>2, <1>3, <1>4, <1>5, MovesOn DEF Locked

\* The copy is what is stored now; who comes in with the lock finds nobody inside.
LEMMA ReadsKeeps ==
  ASSUME IInv, NEW h \in Handlers, Reads(h) PROVE IInv'
<1> DEFINE stored == {r \in Runs : run[r].pc = "stored"}
           draft == [r \in stored |-> run[r]]
<1>1. /\ UNCHANGED <<truth, audit, report, run, viewed, ever, crossed>>
      /\ rq[h].pc = "ask" /\ Enters(h)
      /\ rq' = [rq EXCEPT ![h] = Request("check", rq[h].run, rq[h].truth, draft)]
  BY DEF Reads, Moved
<1>2. rq[h] \in Asking
  BY <1>1 DEF IInv, GTypeOK, Idle, Working, Locked
<1>3. /\ DOMAIN draft = stored /\ \A q \in stored : draft[q] = run[q]
      /\ draft \in Drafts
  <2>1. draft \in [stored -> Ended]
    BY DEF IInv, AllSound, Sound
  <2>2. QED
    BY <2>1 DEF Drafts
<1>4. rq[h].run \in stored /\ rq[h].run \in Runs /\ rq[h].truth \in Truths
  BY <1>1, <1>2 DEF IInv, HandlersOK, HandlerOK, Asking
<1> DEFINE rec == Request("check", rq[h].run, rq[h].truth, draft)
<1>5. /\ rec \in Working /\ rec.pc = "check" /\ rec.run = rq[h].run /\ rec.draft = draft
  BY <1>3, <1>4 DEF Request, Working, Locked
<1>6. \A q \in stored : q \in Runs /\ run[q].pc = "stored" /\ Sound(run[q], q)
  BY DEF IInv, AllSound
<1>7. rq' = [rq EXCEPT ![h] = rec]
  BY <1>1
<1> HIDE DEF draft, rec
<1>8. /\ rq'[h] = rec /\ \A i \in Handlers \ {h} : rq'[i] = rq[i]
  BY <1>7 DEF IInv, GTypeOK
<1>9. GTypeOK' /\ Remembered'
  BY <1>1, <1>5, <1>7 DEF IInv, GTypeOK, Remembered, Approved
<1>10. AllSound' /\ OwnReport' /\ \A i \in Handlers : rq'[i] = rq[i] => HandlerOK(i)'
  BY <1>1, RunsAlone
<1>11. HandlerOK(h)'
  <2> HIDE DEF stored
  <2>1. DOMAIN rq'[h].draft = stored /\ \A q \in stored : rq'[h].draft[q] = run[q]
    BY <1>3, <1>5, <1>8
  <2>2. ASSUME NEW q \in stored
        PROVE  /\ run'[q].pc = "stored" /\ rq'[h].draft[q].pc = "stored"
               /\ Sound(rq[h].draft[q], q)'
    BY <1>1, <1>6, <2>1, SoundStays DEF Sound, Earned
  <2>3. rq'[h].run \in stored
    BY <1>4, <1>5, <1>8
  <2>4. DraftSound(h)'
    BY <2>1, <2>2, <2>3 DEF DraftSound
  <2>5. QED
    BY <1>5, <1>8, <2>4 DEF HandlerOK
<1>12. HandlersOK'
  BY <1>8, <1>10, <1>11 DEF HandlersOK
<1>13. Copied'
  <2> SUFFICES ASSUME ~unlocked' PROVE Copied'
    BY DEF Copied
  <2>1. ~lockFile /\ lockFile' /\ ~unlocked
    BY <1>1 DEF Enters
  <2>2. \A i \in Handlers : rq[i].pc \notin Locked
    BY <2>1 DEF IInv, Copied
  <2>3. \A i \in Handlers : rq'[i].pc \in Locked => i = h
    BY <1>8, <2>2
  <2> HIDE DEF stored
  <2>4. QED
    BY <1>1, <1>3, <1>5, <1>8, <2>1, <2>3 DEF Copied
<1>14. Held'
  BY <1>1 DEF IInv, Held
<1>15. QED
  BY <1>9, <1>10, <1>12, <1>13, <1>14 DEF IInv

\* A request that is inside goes on to its next label.
LEMMA Labels ==
  ASSUME IInv, NEW h \in Handlers, rq[h].pc \in Locked, NEW label \in Locked, Goes(h, label)
  PROVE  /\ rq[h] \in Working /\ rq'[h] \in Working /\ rq' \in [Handlers -> Asking \cup Working \cup {Idle}]
         /\ rq'[h].pc = label /\ rq'[h].run = rq[h].run
         /\ rq'[h].truth = rq[h].truth /\ rq'[h].draft = rq[h].draft
         /\ \A i \in Handlers \ {h} : rq'[i] = rq[i]
<1>1. rq[h] \in Working
  BY DEF IInv, GTypeOK, Idle, Asking, Locked
<1>2. rq' = [rq EXCEPT ![h] = [rq[h] EXCEPT !.pc = label]]
  BY DEF Goes, Moved
<1> DEFINE rec == [rq[h] EXCEPT !.pc = label]
<1>3. /\ rec \in Working /\ rec.pc = label /\ rec.run = rq[h].run
      /\ rec.truth = rq[h].truth /\ rec.draft = rq[h].draft
  BY <1>1 DEF Working
<1> HIDE DEF rec
<1>4. rq' = [rq EXCEPT ![h] = rec]
  BY <1>2 DEF rec
<1>5. QED
  BY <1>1, <1>3, <1>4 DEF IInv, GTypeOK

LEMMA LabelKeeps ==
  ASSUME IInv, UNCHANGED <<report, run, lockFile, unlocked, viewed, crossed>>,
         ever \subseteq ever', audit \subseteq audit', ever' \subseteq Truths,
         audit' \subseteq Truths,
         truth' \in [Truths -> {"approved", "pending_sme_approval"}], Remembered',
         NEW h \in Handlers, rq[h].pc \in Locked, NEW label \in Locked \ {"check"},
         Goes(h, label), Draft(h).shown = "NEEDS_REVIEW",
         label = "revalidate" => rq[h].truth \in audit'
  PROVE  IInv'
<1>1. /\ rq[h] \in Working /\ rq'[h] \in Working /\ rq' \in [Handlers -> Asking \cup Working \cup {Idle}]
      /\ rq'[h].pc = label /\ rq'[h].run = rq[h].run
      /\ rq'[h].truth = rq[h].truth /\ rq'[h].draft = rq[h].draft
      /\ \A i \in Handlers \ {h} : rq'[i] = rq[i]
  BY Labels
<1>2. GTypeOK'
  BY <1>1 DEF IInv, GTypeOK
<1>3. DraftSound(h)'
  <2>1. DraftSound(h)
    BY DEF IInv, HandlersOK, HandlerOK
  <2>2. \A q \in DOMAIN rq[h].draft :
          /\ run'[q].pc = "stored" /\ rq'[h].draft[q].pc = "stored"
          /\ Sound(rq[h].draft[q], q)'
    BY <1>1, <2>1, SoundStays DEF DraftSound, Sound, Earned
  <2>3. QED
    BY <1>1, <2>1, <2>2 DEF DraftSound
<1>4. HandlerOK(h)'
  BY <1>1, <1>3 DEF HandlerOK, Draft, Locked
<1>5. QED
  BY <1>1, <1>2, <1>4, MovesOn

LEMMA InsideKeeps ==
  ASSUME IInv, NEW h \in Handlers, AsksAgain(h) \/ Writes(h) \/ Audits(h) PROVE IInv'
<1>1. CASE AsksAgain(h)
  <2>1. /\ UNCHANGED <<truth, audit, report, run, lockFile, unlocked, viewed, ever, crossed>>
        /\ rq[h].pc = "check" /\ Goes(h, "write") /\ Draft(h).shown = "NEEDS_REVIEW"
    BY <1>1 DEF AsksAgain, lock, Eligible
  <2>2. QED
    BY <2>1, LabelKeeps DEF Locked, IInv, GTypeOK, Remembered, Approved
<1>2. CASE Writes(h)
  <2>1. /\ UNCHANGED <<audit, report, run, lockFile, unlocked, viewed, crossed>>
        /\ rq[h].pc = "write" /\ Goes(h, "audit")
        /\ truth' = [truth EXCEPT ![rq[h].truth] = "approved"]
        /\ ever' = ever \cup {rq[h].truth}
    BY <1>2 DEF Writes, lock
  <2>2. rq[h].pc \in Locked /\ Draft(h).shown = "NEEDS_REVIEW"
    BY <2>1 DEF IInv, HandlersOK, HandlerOK, Locked
  <2>3. rq[h].truth \in Truths
    BY <2>1 DEF IInv, GTypeOK, Working, Asking, Idle
  <2>4. Remembered'
    BY <2>1, <2>3 DEF IInv, GTypeOK, Remembered, Approved
  <2>5. QED
    BY <2>1, <2>2, <2>3, <2>4, LabelKeeps DEF Locked, IInv, GTypeOK
<1>3. CASE Audits(h)
  <2>1. /\ UNCHANGED <<truth, report, run, lockFile, unlocked, viewed, ever, crossed>>
        /\ rq[h].pc = "audit" /\ Goes(h, "revalidate")
        /\ audit' = audit \cup {rq[h].truth}
    BY <1>3 DEF Audits, lock
  <2>2. rq[h].pc \in Locked /\ Draft(h).shown = "NEEDS_REVIEW"
    BY <2>1 DEF IInv, HandlersOK, HandlerOK, Locked
  <2>3. rq[h].truth \in Truths
    BY <2>1 DEF IInv, GTypeOK, Working, Asking, Idle
  <2>4. Remembered'
    BY <2>1 DEF IInv, Remembered, Approved
  <2>5. QED
    BY <2>1, <2>2, <2>3, <2>4, LabelKeeps DEF Locked, IInv, GTypeOK
<1>4. QED
  BY <1>1, <1>2, <1>3

\* Who leaves takes the lock file away, whoever's it is; with the lock he was
\* alone.
LEMMA LeavesCopied ==
  ASSUME IInv, NEW h \in Handlers, rq[h].pc \in Locked, Leaves(h) PROVE Copied'
<1>1. /\ rq'[h] = Idle /\ \A i \in Handlers \ {h} : rq'[i] = rq[i]
      /\ unlocked' = (unlocked /\ Inside # {h})
  BY DEF IInv, GTypeOK, Leaves, Moved
<1>2. CASE Inside = {h}
  BY <1>1, <1>2 DEF Inside, Copied, Idle, Locked
<1>3. CASE Inside # {h}
  <2>1. unlocked
    BY <1>3 DEF IInv, Copied, Inside
  <2>2. QED
    BY <1>1, <1>3, <2>1 DEF Copied
<1>4. QED
  BY <1>2, <1>3

LEMMA ThrowsKeeps ==
  ASSUME IInv, NEW h \in Handlers, Throws(h) PROVE IInv'
<1>1. /\ UNCHANGED <<truth, audit, report, run, viewed, ever, crossed>>
      /\ rq[h].pc \in Locked /\ Leaves(h) /\ rq' = [rq EXCEPT ![h] = Idle]
  BY DEF Throws, Leaves, Moved
<1>2. GTypeOK' /\ Remembered' /\ Held'
  BY <1>1 DEF IInv, GTypeOK, Remembered, Approved, Held
<1>3. rq'[h] = Idle /\ \A i \in Handlers \ {h} : rq'[i] = rq[i]
  BY <1>1 DEF IInv, GTypeOK
<1>4. HandlerOK(h)'
  BY <1>3 DEF HandlerOK, Idle, Locked
<1>5. AllSound' /\ OwnReport' /\ HandlersOK'
  BY <1>1, <1>3, <1>4, RunsAlone DEF HandlersOK
<1>6. QED
  BY <1>1, <1>2, <1>5, LeavesCopied DEF IInv

\* The run is validated again, by whatever is approved now, and the sign-off
\* that is on record goes with it; the other runs are what the copy says.
LEMMA RevalidatesKeeps ==
  ASSUME IInv, NEW h \in Handlers, Revalidates(h) PROVE IInv'
<1> DEFINE d == Draft(h)
           t == rq[h].truth
<1>1. /\ UNCHANGED <<truth, audit, report, viewed, ever, crossed>>
      /\ rq[h].pc = "revalidate" /\ Leaves(h) /\ rq' = [rq EXCEPT ![h] = Idle]
  BY DEF Revalidates, Leaves, Moved
<1>2. PICK v \in Revalidations(d) :
        run' = [r \in Runs |->
                 IF r = rq[h].run THEN Applied(d, v, t)
                 ELSE IF r \in DOMAIN rq[h].draft THEN rq[h].draft[r] ELSE run[r]]
  BY DEF Revalidates
<1>3. /\ rq[h].pc \in Locked /\ DraftSound(h) /\ t \in audit /\ t \in Truths
      /\ DOMAIN rq[h].draft \subseteq Runs /\ rq[h].run \in Runs
  BY <1>1 DEF IInv, HandlersOK, HandlerOK, GTypeOK, Locked, Working, Asking, Idle, Drafts
<1>4. /\ d \in Ended /\ d.pc = "stored" /\ Sound(d, rq[h].run)
  BY <1>3 DEF DraftSound, Draft, Sound
<1>5. /\ v.shown \in Verdicts
      /\ v.review \in BOOLEAN /\ v.by \in Truths \cup {"none"}
      /\ v.shown = "PASS" => v.by \in Approved /\ Expects(v.by) \subseteq Facts(d.own, d.seen)
  BY <1>2, ValidationsAreSound DEF Revalidations
<1> HIDE DEF d, t
<1> DEFINE j == Judged(d, v)
           rec == [j EXCEPT !.signed = t]
<1>6. /\ j \in Ended /\ j.shown = v.shown /\ j.by = v.by /\ j.pc = "stored"
      /\ j.own = d.own /\ j.seen = d.seen
  BY <1>4, <1>5, JudgedIsEnded
<1>7. Applied(d, v, t) = rec
  BY DEF Applied
<1> HIDE DEF j
<1>8. /\ rec \in Ended /\ rec.pc = "stored" /\ rec.shown = v.shown
      /\ rec.by = v.by /\ rec.own = d.own /\ rec.seen = d.seen /\ rec.signed = t
  BY <1>3, <1>6 DEF Ended
<1> HIDE DEF rec
<1>9. Sound(rec, rq[h].run)
  <2>1. t # "none"
    BY <1>3 DEF Truths
  <2>2. rec.shown = "PASS" => Earned(rec, rq[h].run)
    BY <1>3, <1>4, <1>5, <1>8, <2>1 DEF Sound, Earned, IInv, Remembered
  <2>3. rec.shown # "none"
    BY <1>5, <1>8 DEF Verdicts
  <2>4. QED
    BY <1>4, <1>8, <2>2, <2>3 DEF Sound
<1>10. \A r \in Runs : run'[r] = IF r = rq[h].run THEN rec
                         ELSE IF r \in DOMAIN rq[h].draft THEN rq[h].draft[r] ELSE run[r]
  BY <1>2, <1>7
<1>11. \A r \in Runs : run'[r] = run[r] \/ (run'[r].pc = "stored" /\ Sound(run'[r], r))
  BY <1>3, <1>8, <1>9, <1>10 DEF DraftSound
<1>12. \A r \in Runs : run[r].pc = "stored" => run'[r].pc = "stored"
  BY <1>11
<1>13. run' \in [Runs -> Ended \cup {[pc |-> "new", shown |-> "none"]}]
  <2>1. DOMAIN run' = Runs /\ run' = [r \in Runs |-> run'[r]]
    BY <1>2
  <2>2. \A r \in Runs : run'[r] \in Ended \cup {[pc |-> "new", shown |-> "none"]}
    BY <1>11 DEF Sound, IInv, GTypeOK
  <2>3. QED
    BY <2>1, <2>2
<1>14. GTypeOK' /\ Remembered' /\ Held'
  BY <1>1, <1>12, <1>13 DEF IInv, GTypeOK, Remembered, Approved, Held
<1>15. AllSound'
  <2> SUFFICES ASSUME NEW q \in Runs, run'[q].pc # "new" PROVE Sound(run[q], q)'
    BY DEF AllSound
  <2>1. CASE run'[q] = run[q]
    BY <1>1, <2>1, RunStays DEF IInv, AllSound
  <2>2. CASE Sound(run'[q], q)
    BY <1>1, <2>2 DEF Sound, Earned
  <2>3. QED
    BY <1>11, <2>1, <2>2
<1>16. OwnReport'
  BY <1>1, <1>11 DEF IInv, OwnReport
<1>17. rq'[h] = Idle /\ \A i \in Handlers \ {h} : rq'[i] = rq[i]
  BY <1>1 DEF IInv, GTypeOK
<1>18. HandlerOK(h)'
  BY <1>17 DEF HandlerOK, Idle, Locked
<1>19. \A i \in Handlers \ {h} : HandlerOK(i)'
  BY <1>1, <1>12, <1>17, HandlerStays DEF IInv, HandlersOK
<1>20. HandlersOK'
  BY <1>18, <1>19 DEF HandlersOK
<1>21. Copied'
  BY <1>1, <1>3, LeavesCopied
<1>22. QED
  BY <1>14, <1>15, <1>16, <1>20, <1>21 DEF IInv

LEMMA StepIInv == IInv /\ [Next]_vars => IInv'
<1> SUFFICES ASSUME IInv, [Next]_vars PROVE IInv'
  OBVIOUS
<1>1. CASE ConsoleDies
  <2>1. /\ UNCHANGED <<truth, audit, report, run, ever, crossed>>
        /\ rq' = [i \in Handlers |-> Idle] /\ viewed' = {}
    BY <1>1 DEF ConsoleDies
  <2>2. GTypeOK' /\ Remembered' /\ HandlersOK' /\ Copied' /\ Held'
    BY <2>1 DEF IInv, GTypeOK, Remembered, Approved, HandlersOK, HandlerOK, Copied, Held,
                Idle, Locked
  <2>3. QED
    BY <2>1, <2>2, RunsAlone DEF IInv
<1>2. ASSUME ever \subseteq ever', GTypeOK', Remembered',
             UNCHANGED <<audit, report, run, rq, lockFile, unlocked, viewed, crossed>>
      PROVE  IInv'
  <2>1. AllSound' /\ OwnReport' /\ HandlersOK'
    BY <1>2, RunsAlone DEF HandlersOK
  <2>2. Copied' /\ Held'
    BY <1>2 DEF IInv, Copied, Held
  <2>3. QED
    BY <1>2, <2>1, <2>2 DEF IInv
<1>3. ASSUME NEW t \in Truths, Script(t) \/ Withdraw(t) PROVE IInv'
  <2>1. /\ UNCHANGED <<audit, report, run, rq, lockFile, unlocked, viewed, crossed>>
        /\ ever \subseteq ever'
    BY <1>3 DEF Script, Withdraw, lock
  <2>2. GTypeOK' /\ Remembered'
    BY <1>3, <2>1 DEF Script, Withdraw, IInv, GTypeOK, Remembered, Approved
  <2>3. QED
    BY <1>2, <2>1, <2>2
<1>4. CASE UNCHANGED vars
  <2>1. UNCHANGED <<truth, audit, report, run, rq, lockFile, unlocked, viewed, ever, crossed>>
    BY <1>4 DEF vars, lock
  <2>2. GTypeOK' /\ Remembered'
    BY <2>1 DEF IInv, GTypeOK, Remembered, Approved
  <2>3. QED
    BY <1>2, <2>1, <2>2
<1>5. ASSUME NEW h \in Handlers, Handle(h) PROVE IInv'
  BY <1>5, AsksKeeps, ReadsKeeps, InsideKeeps, RevalidatesKeeps, ThrowsKeeps DEF Handle
<1>6. QED
  BY <1>1, <1>3, <1>4, <1>5, PlaysKeeps, VerifiesKeeps, PersistsKeeps DEF Next

-----------------------------------------------------------------------------
\* Every PASS is by a Ground Truth that somebody approved, by the run's own
\* execution and the report it READ - its own report unless another run's
\* replaced it first, which the code does not prevent: whoever approves,
\* withdraws or edits Ground Truth while runs are validated, with or without the
\* lock of the state, in whatever order.
THEOREM EveryPassIsEarned == Spec => []PassIsEarned
<1>1. IInv => PassIsEarned
  <2> SUFFICES ASSUME IInv, NEW r \in Runs, run[r].shown = "PASS"
               PROVE  Earned(run[r], r)
    BY DEF PassIsEarned
  <2>1. run[r].pc # "new"
    BY DEF IInv, GTypeOK, Ended
  <2>2. QED
    BY <2>1 DEF IInv, AllSound, Sound
<1>2. QED
  BY <1>1, InitIInv, StepIInv, PTL DEF Spec

\* What two reviewers found in need of a review is asked again on the copy, which
\* under the lock is what is stored until the run is validated.
LEMMA StepJudged ==
  ASSUME IInv, [Next]_vars, NEW r \in Runs \ viewed, run[r].shown \in {"PASS", "FAIL"},
         ~unlocked
  PROVE  run'[r] = run[r]
<1>1. run[r].pc = "stored"
  BY DEF IInv, GTypeOK, AllSound, Sound, Ended
<1>2. ASSUME NEW q \in Runs, Plays(q) \/ Verifies(q) \/ Persists(q) PROVE run'[r] = run[r]
  <2>1. q # r
    BY <1>1, <1>2 DEF Plays, Verifies, Persists
  <2>2. QED
    BY <1>2, <2>1 DEF Plays, Verifies, Persists, IInv, GTypeOK
<1>3. ASSUME NEW h \in Handlers, Revalidates(h) PROVE run'[r] = run[r]
  <2>1. /\ rq[h].pc \in Locked /\ rq[h].pc # "check" /\ r \in Runs
        /\ DraftSound(h) /\ Draft(h).shown = "NEEDS_REVIEW"
    BY <1>3 DEF Revalidates, IInv, HandlersOK, HandlerOK, Locked
  <2>2. \A q \in DOMAIN rq[h].draft : rq[h].draft[q] = run[q]
    BY <2>1 DEF IInv, Copied
  <2>3. rq[h].run # r
    BY <2>1, <2>2 DEF DraftSound, Draft
  <2>4. QED
    BY <1>3, <2>1, <2>2, <2>3 DEF Revalidates
<1>4. ASSUME NEW h \in Handlers, Handle(h) PROVE run'[r] = run[r]
  BY <1>3, <1>4 DEF Handle, Asks, Reads, AsksAgain, Writes, Audits, Throws
<1>5. QED
  BY <1>2, <1>4 DEF Next, Script, Withdraw, ConsoleDies, vars

\* A run that Ground Truth has judged stays as it is as long as the lock of the
\* state holds: nobody has gone without it, after 30 s, at the requests that are
\* inside, and no GET is still to store an older result.
THEOREM JudgementsStay == Spec => JudgedStays
<1>1. IInv /\ [Next]_vars =>
        [\A r \in Runs \ viewed :
           run[r].shown \in {"PASS", "FAIL"} /\ ~unlocked => run'[r] = run[r]]_run
  BY StepJudged
<1>2. QED
  BY <1>1, InitIInv, StepIInv, PTL DEF Spec, JudgedStays
=============================================================================
