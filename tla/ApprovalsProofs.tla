--------------------------- MODULE ApprovalsProofs ---------------------------
(***************************************************************************)
(* Approvals for any number of flows, requests, edits and runs of the      *)
(* bootstrap script: a rejection stands and only the first of two          *)
(* decisions is taken, where the lock of the file is kept and the script   *)
(* had not looked before; and the two gates agree.                         *)
(***************************************************************************)
EXTENDS Approvals, TLAPS

Decisions == {"APPROVED", "REJECTED"}
Texts == [status : Statuses \cup {"none"}, mtime : Nat]
Logs  == [Flows -> Nat]

\* A request before and after it has read the log.
Early == [pc : {"post"} \cup (Busy \ {"append"}), flow : Flows, status : Decisions,
          at : Nat, seen : {<<>>}]
Late  == [pc : {"append"}, flow : Flows, status : Decisions, at : Nat, seen : Logs]
Requests == Early \cup Late

\* The script between two flows, at one, and about to write the log.
Between == [pc : {"next"}, left : SUBSET Flows, index : [Flows -> Entries]]
AtFlow  == [pc : {"again", "write", "record"}, left : SUBSET Flows,
            index : [Flows -> Entries], flow : Flows]
AtLog   == [pc : {"append"}, left : SUBSET Flows, index : [Flows -> Entries],
            flow : Flows, at : Nat, seen : Logs]

ATypeOK ==
  /\ clock \in Nat /\ edits \in Nat
  /\ file \in [Flows -> Texts] /\ log \in Logs
  /\ index \in [Flows -> Entries] /\ known \in [Flows -> Entries]
  /\ rq \in [Handlers -> Requests \cup {Idle}]
  /\ locked \subseteq Flows /\ unlocked \subseteq Flows
  /\ temp \in [Flows -> [status : Decisions \cup {"none"}, mtime : Nat]]
  /\ boot \in {Idle} \cup Between \cup AtFlow \cup AtLog
  /\ verdict \in [Flows -> Decisions \cup {"none"}]
  /\ crossed \subseteq Flows

\* Where nobody goes without the lock, the request that is busy with the file
\* has it, and is the only one.
Held ==
  \A h, i \in Handlers :
    rq[h].pc \in Busy /\ rq[h].flow \notin unlocked =>
      /\ rq[h].flow \in locked
      /\ rq[i].pc \in Busy /\ rq[i].flow = rq[h].flow => i = h

\* What it found pending nobody has decided, up to its rename, ...
WritesUndecided ==
  \A h \in Handlers :
    rq[h].pc \in {"write", "rename"} /\ rq[h].flow \notin unlocked
      => verdict[rq[h].flow] = "none"

\* ... which installs the text that it wrote itself.
TempOwn ==
  \A h \in Handlers :
    rq[h].pc = "rename" /\ rq[h].flow \notin unlocked
      => temp[rq[h].flow].status = rq[h].status

\* What an SME decided is not pending, whatever has been made of it since.
DecidedNotPending ==
  \A f \in Flows : verdict[f] # "none" => file[f].status # Pending

\* A rejection is in the file, unless somebody crossed it, ...
RejectionWritten ==
  \A f \in Flows : verdict[f] = "REJECTED" /\ f \notin crossed
    => file[f].status = "REJECTED"

\* ... which the script does only where it looked at the file before.
ScriptCrosses ==
  boot.pc \in {"again", "write"} /\ verdict[boot.flow] = "REJECTED"
    => boot.flow \in crossed

Requested == Held /\ WritesUndecided /\ TempOwn
Standing  == DecidedNotPending /\ RejectionWritten /\ ScriptCrosses
IInv == ATypeOK /\ Requested /\ Standing

-----------------------------------------------------------------------------
LEMMA InitIInv == Init => IInv
<1> SUFFICES ASSUME Init PROVE IInv
  OBVIOUS
<1>1. ATypeOK
  BY ApprovalsAssumption DEF Init, ATypeOK, Statuses, Texts, Text, NoText, Logs
<1>2. Requested
  BY DEF Init, Requested, Held, WritesUndecided, TempOwn, Idle, Busy
<1>3. Standing
  BY DEF Init, Standing, DecidedNotPending, RejectionWritten, ScriptCrosses, Idle
<1>4. QED
  BY <1>1, <1>2, <1>3 DEF IInv

\* What a request or the script is at tells what is known of it.
LEMMA RequestIsTyped ==
  ASSUME ATypeOK, NEW h \in Handlers, rq[h].pc # "idle"
  PROVE  /\ rq[h] \in Requests
         /\ rq[h].pc # "append" => rq[h] \in Early
         /\ rq[h].pc = "append" => rq[h] \in Late
         /\ rq[h].flow \in Flows /\ rq[h].status \in Decisions /\ rq[h].at \in Nat
BY DEF ATypeOK, Idle, Requests, Early, Late

LEMMA ScriptIsTyped ==
  ASSUME ATypeOK
  PROVE  /\ boot.pc = "next" => boot \in Between
         /\ boot.pc \in {"again", "write", "record"} => boot \in AtFlow
         /\ boot.pc = "append" => boot \in AtLog
BY DEF ATypeOK, Idle, Between, AtFlow, AtLog

\* A step of one request leaves the others alone.
LEMMA MovedTo ==
  ASSUME ATypeOK, NEW h \in Handlers, NEW rec, Moved(h, rec)
  PROVE  rq'[h] = rec /\ \A i \in Handlers \ {h} : rq'[i] = rq[i]
BY DEF ATypeOK, Moved

LEMMA GoesTo ==
  ASSUME ATypeOK, NEW h \in Handlers, NEW label, rq[h].pc # "idle", Goes(h, label)
  PROVE  /\ rq'[h].pc = label /\ rq'[h].flow = rq[h].flow /\ rq'[h].status = rq[h].status
         /\ \A i \in Handlers \ {h} : rq'[i] = rq[i]
<1> DEFINE rec == [rq[h] EXCEPT !.pc = label]
<1>1. rq[h] \in Requests
  BY RequestIsTyped
<1>2. rec.pc = label /\ rec.flow = rq[h].flow /\ rec.status = rq[h].status
  BY <1>1 DEF Requests, Early, Late
<1>3. Moved(h, rec)
  BY DEF Goes
<1> HIDE DEF rec
<1>4. QED
  BY <1>2, <1>3, MovedTo

LEMMA RequestsStayTyped ==
  ASSUME ATypeOK, NEW h \in Handlers, NEW rec \in Requests \cup {Idle}, Moved(h, rec)
  PROVE  rq' \in [Handlers -> Requests \cup {Idle}]
BY DEF ATypeOK, Moved

LEMMA GoesTyped ==
  ASSUME ATypeOK, NEW h \in Handlers, rq[h].pc \in {"post"} \cup (Busy \ {"append"}),
         NEW label \in Busy \ {"append"}, Goes(h, label)
  PROVE  rq' \in [Handlers -> Requests \cup {Idle}]
<1> DEFINE rec == [rq[h] EXCEPT !.pc = label]
<1>1. rq[h] \in Early
  BY RequestIsTyped DEF Busy
<1>2. rec \in Requests
  BY <1>1 DEF Early, Requests
<1>3. Moved(h, rec)
  BY DEF Goes
<1> HIDE DEF rec
<1>4. QED
  BY <1>2, <1>3, RequestsStayTyped

LEMMA LoggedIsTyped ==
  ASSUME NEW seen \in Logs, NEW f \in Flows, NEW status, NEW at \in Nat
  PROVE  Logged(seen, f, status, at) \subseteq Logs
BY DEF Logged, Logs, Latest

LEMMA LeavesTyped ==
  ASSUME ATypeOK, NEW h \in Handlers, rq[h].pc \in Busy, Leaves(h)
  PROVE  /\ rq' \in [Handlers -> Requests \cup {Idle}]
         /\ locked' \subseteq Flows /\ unlocked' \subseteq Flows
         /\ temp' \in [Flows -> [status : Decisions \cup {"none"}, mtime : Nat]]
<1>1. rq[h].flow \in Flows
  BY RequestIsTyped DEF Busy
<1>2. rq' \in [Handlers -> Requests \cup {Idle}]
  BY RequestsStayTyped DEF Leaves
<1>3. temp' \in [Flows -> [status : Decisions \cup {"none"}, mtime : Nat]]
  BY <1>1 DEF Leaves, ATypeOK, NoText
<1>4. QED
  BY <1>1, <1>2, <1>3 DEF Leaves, ATypeOK

LEMMA StepTypeOK == ATypeOK /\ [Next]_vars => ATypeOK'
<1> SUFFICES ASSUME ATypeOK, [Next]_vars PROVE ATypeOK'
  OBVIOUS
<1>1. ASSUME NEW h \in Handlers, NEW f \in Flows, NEW status \in {"APPROVED", "REJECTED"},
             Post(h, f, status)
      PROVE  ATypeOK'
  <2>1. [pc |-> "post", flow |-> f, status |-> status, at |-> 0, seen |-> <<>>] \in Requests
    BY DEF Requests, Early, Decisions
  <2>2. rq' \in [Handlers -> Requests \cup {Idle}]
    BY <1>1, <2>1, RequestsStayTyped DEF Post
  <2>3. QED
    BY <1>1, <2>2 DEF Post, Others, readers, Lock, ATypeOK
<1>2. ASSUME NEW h \in Handlers, Enters(h) PROVE ATypeOK'
  <2>1. rq' \in [Handlers -> Requests \cup {Idle}]
    BY <1>2, GoesTyped DEF Enters, Busy
  <2>2. rq[h].flow \in Flows
    BY <1>2, RequestIsTyped DEF Enters
  <2>3. QED
    BY <1>2, <2>1, <2>2 DEF Enters, Others, readers, ATypeOK
<1>3. ASSUME NEW h \in Handlers, Check(h) PROVE ATypeOK'
  <2>1. rq' \in [Handlers -> Requests \cup {Idle}]
    BY <1>3, GoesTyped DEF Check, Busy
  <2>2. QED
    BY <1>3, <2>1 DEF Check, Others, readers, Lock, ATypeOK
<1>4. ASSUME NEW h \in Handlers, Write(h) PROVE ATypeOK'
  <2>1. rq' \in [Handlers -> Requests \cup {Idle}]
    BY <1>4, GoesTyped DEF Write, Busy
  <2>2. rq[h].flow \in Flows /\ rq[h].status \in Decisions
    BY <1>4, RequestIsTyped DEF Write
  <2>3. temp' \in [Flows -> [status : Decisions \cup {"none"}, mtime : Nat]]
    BY <1>4, <2>2 DEF Write, Text, ATypeOK
  <2>4. QED
    BY <1>4, <2>1, <2>3 DEF Write, Others, readers, Lock, ATypeOK
<1>5. ASSUME NEW h \in Handlers, Rename(h) PROVE ATypeOK'
  <2>1. rq' \in [Handlers -> Requests \cup {Idle}]
    BY <1>5, GoesTyped DEF Rename, Busy
  <2>2. rq[h].flow \in Flows /\ rq[h].status \in Decisions
    BY <1>5, RequestIsTyped DEF Rename
  <2>3. temp[rq[h].flow] \in Texts
    BY <2>2 DEF ATypeOK, Texts, Statuses, Decisions
  <2>4. file' \in [Flows -> Texts]
    BY <1>5, <2>2, <2>3 DEF Rename, Put, ATypeOK
  <2>5. temp' \in [Flows -> [status : Decisions \cup {"none"}, mtime : Nat]]
    BY <1>5, <2>2 DEF Rename, NoText, ATypeOK
  <2>6. verdict' \in [Flows -> Decisions \cup {"none"}] /\ crossed' \subseteq Flows
    BY <1>5, <2>2 DEF Rename, ATypeOK
  <2>7. QED
    BY <1>5, <2>1, <2>4, <2>5, <2>6 DEF Rename, Others, readers, Lock, ATypeOK
<1>6. ASSUME NEW h \in Handlers, Stamp(h) PROVE ATypeOK'
  <2>1. rq[h] \in Early
    BY <1>6, RequestIsTyped DEF Stamp
  <2>2. [rq[h] EXCEPT !.pc = "log", !.at = clock] \in Requests
    BY <2>1 DEF Early, Requests, Busy, ATypeOK
  <2>3. rq' \in [Handlers -> Requests \cup {Idle}]
    BY <1>6, <2>2, RequestsStayTyped DEF Stamp
  <2>4. QED
    BY <1>6, <2>3 DEF Stamp, Others, readers, Lock, ATypeOK
<1>7. ASSUME NEW h \in Handlers, ReadLog(h) PROVE ATypeOK'
  <2>1. rq[h] \in Early
    BY <1>7, RequestIsTyped DEF ReadLog
  <2>2. [rq[h] EXCEPT !.pc = "append", !.seen = log] \in Requests
    BY <2>1 DEF Early, Late, Requests, ATypeOK
  <2>3. rq' \in [Handlers -> Requests \cup {Idle}]
    BY <1>7, <2>2, RequestsStayTyped DEF ReadLog
  <2>4. QED
    BY <1>7, <2>3 DEF ReadLog, Others, readers, Lock, ATypeOK
<1>8. ASSUME NEW h \in Handlers, Append(h) PROVE ATypeOK'
  <2>1. rq[h] \in Late /\ rq[h].pc \in Busy
    BY <1>8, RequestIsTyped DEF Append, Busy
  <2>2. log' \in Logs
    BY <1>8, <2>1, LoggedIsTyped DEF Append, Late
  <2>3. QED
    BY <1>8, <2>1, <2>2, LeavesTyped DEF Append, Others, readers, ATypeOK
<1>9. ASSUME NEW h \in Handlers, Throws(h) PROVE ATypeOK'
  BY <1>9, LeavesTyped DEF Throws, Others, readers, ATypeOK
<1>10. CASE ConsoleDies
  BY <1>10 DEF ConsoleDies, readers, people, NoText, ATypeOK
<1>11. CASE BootStarts
  BY <1>11 DEF BootStarts, readers, people, console, ATypeOK, Between
<1>12. CASE BootLooks
  <2>1. boot \in Between
    BY <1>12, ScriptIsTyped DEF BootLooks
  <2>2. boot' \in {Idle} \cup Between \cup AtFlow
    BY <1>12, <2>1 DEF BootLooks, Candidate, Between, AtFlow
  <2>3. QED
    BY <1>12, <2>2 DEF BootLooks, readers, people, console, ATypeOK
<1>13. CASE BootLooksAgain
  <2>1. boot \in AtFlow
    BY <1>13, ScriptIsTyped DEF BootLooksAgain
  <2>2. boot' \in Between \cup AtFlow
    BY <1>13, <2>1 DEF BootLooksAgain, BootNext, Between, AtFlow
  <2>3. QED
    BY <1>13, <2>2 DEF BootLooksAgain, readers, people, console, ATypeOK
<1>14. CASE BootWrites
  <2>1. boot \in AtFlow
    BY <1>14, ScriptIsTyped DEF BootWrites
  <2>2. boot' \in AtFlow
    BY <1>14, <2>1 DEF BootWrites, AtFlow
  <2>3. file' \in [Flows -> Texts]
    BY <1>14, <2>1 DEF BootWrites, Put, Text, Texts, ATypeOK, AtFlow, Statuses
  <2>4. QED
    BY <1>14, <2>2, <2>3 DEF BootWrites, readers, people, console, ATypeOK
<1>15. CASE BootReads
  <2>1. boot \in AtFlow
    BY <1>15, ScriptIsTyped DEF BootReads
  <2>2. boot' \in AtLog
    BY <1>15, <2>1 DEF BootReads, AtFlow, AtLog, ATypeOK
  <2>3. QED
    BY <1>15, <2>2 DEF BootReads, readers, people, console, ATypeOK
<1>16. CASE BootAppends
  <2>1. boot \in AtLog
    BY <1>16, ScriptIsTyped DEF BootAppends
  <2>2. boot' \in Between
    BY <1>16, <2>1 DEF BootAppends, BootNext, AtLog, Between
  <2>3. log' \in Logs
    BY <1>16, <2>1, LoggedIsTyped DEF BootAppends, AtLog
  <2>4. QED
    BY <1>16, <2>2, <2>3 DEF BootAppends, readers, people, console, ATypeOK
<1>17. CASE BootEnds
  BY <1>17 DEF BootEnds, readers, people, console, ATypeOK
<1>18. ASSUME NEW f \in Flows, EditFile(f) PROVE ATypeOK'
  BY <1>18 DEF EditFile, Put, Text, Texts, readers, console, ATypeOK
<1>19. ASSUME NEW f \in Flows, EditIndex(f) PROVE ATypeOK'
  <2>1. index' \in [Flows -> Entries]
    <3>1. [index[f] EXCEPT !.ready = ~@] \in Entries
      BY DEF ATypeOK, Entries
    <3>2. QED
      BY <1>19, <3>1 DEF EditIndex, ATypeOK
  <2>2. QED
    BY <1>19, <2>1 DEF EditIndex, console, ATypeOK
<1>20. CASE AgentBoots
  BY <1>20 DEF AgentBoots, people, console, ATypeOK
<1>21. CASE Tick
  BY <1>21 DEF Tick, readers, people, console, ATypeOK
<1>22. CASE UNCHANGED vars
  BY <1>22 DEF vars, readers, people, console, ATypeOK
<1>23. QED
  BY <1>1, <1>2, <1>3, <1>4, <1>5, <1>6, <1>7, <1>8, <1>9, <1>10, <1>11, <1>12, <1>13,
     <1>14, <1>15, <1>16, <1>17, <1>18, <1>19, <1>20, <1>21, <1>22
     DEF Next, Handle, Script, Person

-----------------------------------------------------------------------------
\* Files, verdicts and crossings stay as they are, and the script comes no
\* nearer to a file.
LEMMA SameStanding ==
  ASSUME ATypeOK, Standing, UNCHANGED <<file, verdict, crossed>>,
         boot'.pc \in {"again", "write"} =>
           boot.pc \in {"again", "write"} /\ boot'.flow = boot.flow
  PROVE  Standing'
BY DEF Standing, DecidedNotPending, RejectionWritten, ScriptCrosses

\* No request enters or comes to its write, and the locks are left alone.
LEMMA SameRequested ==
  ASSUME ATypeOK, Requested, UNCHANGED <<verdict, locked, unlocked, temp>>,
         \A h \in Handlers : rq'[h].pc \in Busy =>
           rq[h].pc \in Busy /\ rq'[h].flow = rq[h].flow,
         \A h \in Handlers : rq'[h].pc \in {"write", "rename"} => rq'[h] = rq[h]
  PROVE  Requested'
<1>1. Held'
  BY DEF Requested, Held
<1>2. WritesUndecided' /\ TempOwn'
  BY DEF Requested, WritesUndecided, TempOwn
<1>3. QED
  BY <1>1, <1>2 DEF Requested

\* A request gets the lock if nobody has the lock file, or goes on without.
LEMMA EntersRequested ==
  ASSUME ATypeOK, Requested, NEW h \in Handlers, Enters(h) PROVE Requested'
<1>1. /\ rq'[h].pc = "check" /\ rq'[h].flow = rq[h].flow /\ rq[h].pc = "post"
      /\ \A i \in Handlers \ {h} : rq'[i] = rq[i]
  BY GoesTo DEF Enters
<1>2. UNCHANGED <<verdict, temp>> /\ unlocked \subseteq unlocked' /\ locked \subseteq locked'
  BY DEF Enters
<1>3. Held'
  <2>1. CASE rq[h].flow \notin locked /\ locked' = locked \cup {rq[h].flow}
                                      /\ unlocked' = unlocked
    <3>1. \A i \in Handlers : rq[i].pc \in Busy /\ rq[i].flow = rq[h].flow
                                => rq[h].flow \in unlocked
      BY <2>1 DEF Requested, Held
    <3>2. QED
      BY <1>1, <2>1, <3>1 DEF Requested, Held
  <2>2. CASE unlocked' = unlocked \cup {rq[h].flow} /\ locked' = locked
    BY <1>1, <2>2 DEF Requested, Held
  <2>3. QED
    BY <2>1, <2>2 DEF Enters
<1>4. WritesUndecided' /\ TempOwn'
  BY <1>1, <1>2 DEF Requested, WritesUndecided, TempOwn
<1>5. QED
  BY <1>3, <1>4 DEF Requested

\* Under the lock, what is pending nobody has decided.
LEMMA CheckRequested ==
  ASSUME ATypeOK, Requested, Standing, NEW h \in Handlers, Check(h) PROVE Requested'
<1>1. /\ rq'[h].pc = "write" /\ rq'[h].flow = rq[h].flow /\ rq[h].pc = "check"
      /\ \A i \in Handlers \ {h} : rq'[i] = rq[i]
      /\ rq[h].flow \in Flows /\ rq[h].status \in Decisions
  BY GoesTo, RequestIsTyped DEF Check
<1>2. UNCHANGED <<verdict, temp, locked, unlocked>>
  BY DEF Check, Lock
<1>3. file[rq[h].flow].status = Pending
  BY <1>1 DEF Check, ValidTransition, Decisions, Pending
<1>4. verdict[rq[h].flow] = "none"
  BY <1>1, <1>3 DEF Standing, DecidedNotPending
<1>5. Held'
  BY <1>1, <1>2 DEF Requested, Held, Busy
<1>6. WritesUndecided' /\ TempOwn'
  BY <1>1, <1>2, <1>4 DEF Requested, WritesUndecided, TempOwn
<1>7. QED
  BY <1>5, <1>6 DEF Requested

\* The text beside the file is its own.
LEMMA WriteRequested ==
  ASSUME ATypeOK, Requested, NEW h \in Handlers, Write(h) PROVE Requested'
<1>1. /\ rq'[h].pc = "rename" /\ rq'[h].flow = rq[h].flow /\ rq'[h].status = rq[h].status
      /\ rq[h].pc = "write" /\ rq[h].flow \in Flows
      /\ \A i \in Handlers \ {h} : rq'[i] = rq[i]
  BY GoesTo, RequestIsTyped DEF Write
<1>2. UNCHANGED <<verdict, locked, unlocked>>
  BY DEF Write, Lock
<1>3. /\ temp'[rq[h].flow].status = rq[h].status
      /\ \A f \in Flows \ {rq[h].flow} : temp'[f] = temp[f]
  BY <1>1 DEF Write, Text, ATypeOK
<1>4. Held' /\ WritesUndecided'
  BY <1>1, <1>2 DEF Requested, Held, WritesUndecided, Busy
<1>5. TempOwn'
  <2> SUFFICES ASSUME NEW i \in Handlers, rq'[i].pc = "rename", rq'[i].flow \notin unlocked
               PROVE  temp'[rq'[i].flow].status = rq'[i].status
    BY <1>2 DEF TempOwn
  <2>1. CASE i = h
    BY <1>1, <1>3, <2>1
  <2>2. CASE i # h
    <3>1. rq'[i] = rq[i] /\ rq[i].flow \in Flows
      BY <1>1, <2>2, RequestIsTyped
    <3>2. rq[i].flow # rq[h].flow
      BY <1>1, <2>2, <3>1 DEF Requested, Held, Busy
    <3>3. QED
      BY <1>3, <3>1, <3>2 DEF Requested, TempOwn
  <2>3. QED
    BY <2>1, <2>2
<1>6. QED
  BY <1>4, <1>5 DEF Requested

\* The decision is in place: nobody else has this lock, so nobody else is
\* about to decide on the file.
LEMMA RenameDecided ==
  ASSUME ATypeOK, Requested, Standing, NEW h \in Handlers, Rename(h)
  PROVE  Requested' /\ Standing'
<1> DEFINE f == rq[h].flow
<1>1. /\ rq'[h].pc = "stamp" /\ rq'[h].flow = f /\ rq[h].pc = "rename"
      /\ \A i \in Handlers \ {h} : rq'[i] = rq[i]
      /\ f \in Flows /\ rq[h].status \in Decisions
  BY GoesTo, RequestIsTyped DEF Rename
<1>2. /\ file' = [file EXCEPT ![f] = temp[f]] /\ temp[f] # NoText
      /\ temp' = [temp EXCEPT ![f] = NoText]
      /\ verdict' = [verdict EXCEPT ![f] = rq[h].status]
      /\ crossed' = IF f \in unlocked \/ (boot.pc \in {"again", "write"} /\ boot.flow = f)
                    THEN crossed \cup {f} ELSE crossed \ {f}
      /\ UNCHANGED <<boot, locked, unlocked>>
  BY DEF Rename, Put, Others, Lock
<1>3. /\ file'[f] = temp[f] /\ verdict'[f] = rq[h].status
      /\ \A e \in Flows \ {f} :
           /\ file'[e] = file[e] /\ verdict'[e] = verdict[e] /\ temp'[e] = temp[e]
           /\ e \in crossed' <=> e \in crossed
  BY <1>1, <1>2 DEF ATypeOK
<1>4. \A i \in Handlers : rq'[i].pc \in {"write", "rename"} /\ rq'[i].flow \notin unlocked
                            => i # h /\ rq'[i] = rq[i] /\ rq[i].flow \in Flows \ {f}
  <2> SUFFICES ASSUME NEW i \in Handlers, rq'[i].pc \in {"write", "rename"},
                      rq'[i].flow \notin unlocked
               PROVE  i # h /\ rq'[i] = rq[i] /\ rq[i].flow \in Flows \ {f}
    OBVIOUS
  <2>1. i # h /\ rq'[i] = rq[i] /\ rq[i].flow \in Flows
    BY <1>1, RequestIsTyped
  <2>2. QED
    BY <1>1, <2>1 DEF Requested, Held, Busy
<1>5. Held'
  BY <1>1, <1>2 DEF Requested, Held, Busy
<1>6. WritesUndecided' /\ TempOwn'
  BY <1>2, <1>3, <1>4 DEF Requested, WritesUndecided, TempOwn
<1>7. DecidedNotPending'
  <2>1. temp[f].status # Pending
    BY <1>1 DEF ATypeOK, Decisions, Pending
  <2>2. QED
    BY <1>3, <2>1 DEF Standing, DecidedNotPending
<1>8. RejectionWritten'
  <2>1. f \notin crossed' => file'[f].status = rq[h].status
    BY <1>1, <1>2, <1>3 DEF Requested, TempOwn
  <2>2. QED
    BY <1>3, <2>1 DEF Standing, RejectionWritten
<1>9. ScriptCrosses'
  <2> SUFFICES ASSUME boot.pc \in {"again", "write"}, verdict'[boot.flow] = "REJECTED"
               PROVE  boot.flow \in crossed'
    BY <1>2 DEF ScriptCrosses
  <2>1. boot.flow \in Flows
    BY ScriptIsTyped DEF AtFlow
  <2>2. QED
    BY <1>2, <1>3, <2>1 DEF Standing, ScriptCrosses
<1>10. QED
  BY <1>5, <1>6, <1>7, <1>8, <1>9 DEF Requested, Standing

\* A request leaves: its lock file may go, and if it was the last one there
\* without the lock, the next has it again.
LEMMA LeavesRequested ==
  ASSUME ATypeOK, Requested, NEW h \in Handlers, rq[h].pc \in Busy, Leaves(h),
         UNCHANGED verdict
  PROVE  Requested'
<1> DEFINE f == rq[h].flow
<1>1. /\ rq'[h].pc = "idle" /\ \A i \in Handlers \ {h} : rq'[i] = rq[i]
      /\ f \in Flows
  BY MovedTo, RequestIsTyped DEF Leaves, Idle, Busy
<1>2. \A i \in Handlers : rq'[i].pc \in Busy /\ rq'[i].flow \notin unlocked' =>
        /\ i # h /\ rq'[i] = rq[i]
        /\ rq[i].flow \in Flows \ {f} /\ rq[i].flow \notin unlocked
  <2> SUFFICES ASSUME NEW i \in Handlers, rq'[i].pc \in Busy, rq'[i].flow \notin unlocked'
               PROVE  /\ i # h /\ rq'[i] = rq[i]
                      /\ rq[i].flow \in Flows \ {f} /\ rq[i].flow \notin unlocked
    OBVIOUS
  <2>1. i # h /\ rq'[i] = rq[i] /\ rq[i].flow \in Flows
    BY <1>1, RequestIsTyped DEF Busy
  <2>2. CASE rq[i].flow = f
    <3>1. BusyOn(f) # {h}
      BY <2>1, <2>2 DEF BusyOn
    <3>2. f \notin unlocked
      BY <2>1, <2>2, <3>1 DEF Leaves
    <3>3. QED
      BY <2>1, <2>2, <3>2 DEF Requested, Held
  <2>3. CASE rq[i].flow # f
    BY <2>1, <2>3 DEF Leaves
  <2>4. QED
    BY <2>2, <2>3
<1>3. \A e \in Flows \ {f} : temp'[e] = temp[e] /\ (e \in locked => e \in locked')
  BY <1>1 DEF Leaves, ATypeOK
<1>4. Held'
  <2> SUFFICES ASSUME NEW i \in Handlers, NEW j \in Handlers,
                      rq'[i].pc \in Busy, rq'[i].flow \notin unlocked'
               PROVE  /\ rq'[i].flow \in locked'
                      /\ rq'[j].pc \in Busy /\ rq'[j].flow = rq'[i].flow => j = i
    BY DEF Held
  <2>1. rq'[i] = rq[i] /\ rq[i].flow \in Flows \ {f} /\ rq[i].flow \notin unlocked
    BY <1>2
  <2>2. rq'[j].pc \in Busy => rq'[j] = rq[j]
    BY <1>1 DEF Busy
  <2>3. QED
    BY <1>3, <2>1, <2>2 DEF Requested, Held
<1>5. WritesUndecided' /\ TempOwn'
  <2> SUFFICES ASSUME NEW i \in Handlers, rq'[i].pc \in {"write", "rename"},
                      rq'[i].flow \notin unlocked'
               PROVE  /\ verdict'[rq'[i].flow] = "none"
                      /\ rq'[i].pc = "rename" => temp'[rq'[i].flow].status = rq'[i].status
    BY DEF WritesUndecided, TempOwn
  <2>1. rq'[i] = rq[i] /\ rq[i].flow \in Flows \ {f} /\ rq[i].flow \notin unlocked
    BY <1>2 DEF Busy
  <2>2. QED
    BY <1>3, <2>1 DEF Requested, WritesUndecided, TempOwn
<1>6. QED
  BY <1>4, <1>5 DEF Requested

\* A step of a request keeps both.
LEMMA HandleDecided ==
  ASSUME ATypeOK, Requested, Standing, NEW h \in Handlers, Handle(h)
  PROVE  Requested' /\ Standing'
<1>1. CASE Rename(h)
  BY <1>1, RenameDecided
<1>2. CASE ~Rename(h)
  <2>1. UNCHANGED <<file, verdict, crossed, boot>>
    BY <1>2 DEF Handle, Post, Enters, Check, Write, Stamp, ReadLog, Append, Throws, Others
  <2>2. Standing'
    BY <2>1, SameStanding
  <2>3. CASE \E f \in Flows, status \in {"APPROVED", "REJECTED"} : Post(h, f, status)
    <3>1. rq'[h].pc = "post" /\ \A i \in Handlers \ {h} : rq'[i] = rq[i]
      BY <2>3, MovedTo DEF Post
    <3>2. QED
      BY <2>2, <2>3, <3>1, SameRequested DEF Post, Lock, Busy
  <2>4. CASE Stamp(h)
    <3> DEFINE rec == [rq[h] EXCEPT !.pc = "log", !.at = clock]
    <3>1. rec.pc = "log" /\ rec.flow = rq[h].flow /\ rq[h].pc = "stamp"
      BY <2>4, RequestIsTyped DEF Stamp, Early
    <3>2. Moved(h, rec)
      BY <2>4 DEF Stamp
    <3> HIDE DEF rec
    <3>3. rq'[h] = rec /\ \A i \in Handlers \ {h} : rq'[i] = rq[i]
      BY <3>2, MovedTo
    <3>4. QED
      BY <2>2, <2>4, <3>1, <3>3, SameRequested DEF Stamp, Lock, Busy
  <2>5. CASE ReadLog(h)
    <3> DEFINE rec == [rq[h] EXCEPT !.pc = "append", !.seen = log]
    <3>1. rec.pc = "append" /\ rec.flow = rq[h].flow /\ rq[h].pc = "log"
      BY <2>5, RequestIsTyped DEF ReadLog, Early
    <3>2. Moved(h, rec)
      BY <2>5 DEF ReadLog
    <3> HIDE DEF rec
    <3>3. rq'[h] = rec /\ \A i \in Handlers \ {h} : rq'[i] = rq[i]
      BY <3>2, MovedTo
    <3>4. QED
      BY <2>2, <2>5, <3>1, <3>3, SameRequested DEF ReadLog, Lock, Busy
  <2>6. CASE Append(h) \/ Throws(h)
    BY <2>1, <2>2, <2>6, LeavesRequested DEF Append, Throws, Busy
  <2>7. QED
    BY <1>2, <2>2, <2>3, <2>4, <2>5, <2>6, EntersRequested, CheckRequested, WriteRequested
       DEF Handle
<1>3. QED
  BY <1>1, <1>2

\* The script leaves alone what it finds decided, unless it is not what it
\* looked at any more.
LEMMA ScriptDecided ==
  ASSUME ATypeOK, Requested, Standing, Script PROVE Requested' /\ Standing'
<1>1. UNCHANGED <<rq, locked, unlocked, temp, verdict, crossed>>
  BY DEF Script, BootStarts, BootLooks, BootLooksAgain, BootWrites, BootReads, BootAppends,
         BootEnds, people, console
<1>2. Requested'
  BY <1>1, SameRequested
<1>3. CASE BootStarts \/ BootReads \/ BootAppends \/ BootEnds
  BY <1>1, <1>2, <1>3, SameStanding
     DEF BootStarts, BootReads, BootAppends, BootEnds, BootNext, Idle
<1>4. CASE BootLooksAgain
  <2>1. boot \in AtFlow /\ boot.pc = "again" /\ UNCHANGED file
    BY <1>4, ScriptIsTyped DEF BootLooksAgain
  <2>2. boot'.pc = "write" => boot'.flow = boot.flow
    BY <1>4, <2>1 DEF BootLooksAgain, BootNext, AtFlow
  <2>3. boot'.pc \in {"next", "write"}
    BY <1>4, <2>1 DEF BootLooksAgain, BootNext, AtFlow
  <2>4. QED
    BY <1>1, <1>2, <2>1, <2>2, <2>3, SameStanding
<1>5. CASE BootLooks
  <2>1. boot \in Between /\ UNCHANGED file
    BY <1>5, ScriptIsTyped DEF BootLooks
  <2>2. CASE boot'.pc \notin {"again", "write"}
    BY <1>1, <1>2, <2>1, <2>2, SameStanding
  <2>3. CASE boot'.pc \in {"again", "write"}
    <3>1. PICK e \in boot.left :
            /\ Candidate(boot.index, e) \in {"again", "write"}
            /\ boot'.flow = e
      BY <1>5, <2>1, <2>3 DEF BootLooks, Between, Idle
    <3>2. e \in Flows
      BY <2>1 DEF Between
    <3>3. file[e].status # "REJECTED"
      BY <3>1 DEF Candidate
    <3>4. verdict[e] = "REJECTED" => e \in crossed
      BY <3>2, <3>3 DEF Standing, RejectionWritten
    <3>5. ScriptCrosses'
      BY <1>1, <3>1, <3>4 DEF ScriptCrosses
    <3>6. QED
      BY <1>1, <1>2, <2>1, <3>5 DEF Standing, DecidedNotPending, RejectionWritten
  <2>4. QED
    BY <1>2, <2>2, <2>3
<1>6. CASE BootWrites
  <2>1. boot \in AtFlow /\ boot.pc = "write" /\ boot.flow \in Flows
    BY <1>6, ScriptIsTyped DEF BootWrites, AtFlow
  <2>2. /\ file' = [file EXCEPT ![boot.flow] = Text("APPROVED")] /\ boot'.pc = "record"
    BY <1>6, <2>1 DEF BootWrites, Put, AtFlow
  <2>3. /\ file'[boot.flow].status = "APPROVED"
        /\ \A e \in Flows \ {boot.flow} : file'[e] = file[e]
    BY <2>1, <2>2 DEF ATypeOK, Text
  <2>4. DecidedNotPending'
    BY <1>1, <2>3 DEF Standing, DecidedNotPending, Pending
  <2>5. RejectionWritten'
    BY <1>1, <2>1, <2>3 DEF Standing, RejectionWritten, ScriptCrosses
  <2>6. QED
    BY <1>2, <2>2, <2>4, <2>5 DEF Standing, ScriptCrosses
<1>7. QED
  BY <1>2, <1>3, <1>4, <1>5, <1>6 DEF Script

\* Somebody saves the file: nobody has decided on what it is now.
LEMMA EditDecided ==
  ASSUME ATypeOK, Requested, Standing, NEW f \in Flows, EditFile(f)
  PROVE  Requested' /\ Standing'
<1>1. /\ UNCHANGED <<rq, boot, crossed, locked, unlocked, temp>>
      /\ verdict'[f] = "none"
      /\ \A e \in Flows \ {f} : file'[e] = file[e] /\ verdict'[e] = verdict[e]
  BY DEF EditFile, Put, console, ATypeOK
<1>2. Held' /\ TempOwn' /\ DecidedNotPending' /\ RejectionWritten'
  BY <1>1 DEF Requested, Standing, Held, TempOwn, DecidedNotPending, RejectionWritten
<1>3. WritesUndecided'
  <2> SUFFICES ASSUME NEW h \in Handlers, rq[h].pc \in {"write", "rename"},
                      rq[h].flow \notin unlocked
               PROVE  verdict'[rq[h].flow] = "none"
    BY <1>1 DEF WritesUndecided
  <2>1. rq[h].flow \in Flows
    BY RequestIsTyped
  <2>2. QED
    BY <1>1, <2>1 DEF Requested, WritesUndecided
<1>4. ScriptCrosses'
  <2> SUFFICES ASSUME boot.pc \in {"again", "write"}, verdict'[boot.flow] = "REJECTED"
               PROVE  boot.flow \in crossed
    BY <1>1 DEF ScriptCrosses
  <2>1. boot.flow \in Flows
    BY ScriptIsTyped DEF AtFlow
  <2>2. QED
    BY <1>1, <2>1 DEF Standing, ScriptCrosses
<1>5. QED
  BY <1>2, <1>3, <1>4 DEF Requested, Standing

LEMMA StepDecided ==
  ATypeOK /\ Requested /\ Standing /\ [Next]_vars => Requested' /\ Standing'
<1> SUFFICES ASSUME ATypeOK, Requested, Standing, [Next]_vars PROVE Requested' /\ Standing'
  OBVIOUS
<1>1. CASE ConsoleDies
  <2>1. \A h \in Handlers : rq'[h].pc = "idle"
    BY <1>1 DEF ConsoleDies, Idle
  <2>2. Requested'
    BY <2>1 DEF Requested, Held, WritesUndecided, TempOwn, Busy
  <2>3. Standing'
    BY <1>1, SameStanding DEF ConsoleDies, people
  <2>4. QED
    BY <2>2, <2>3
<1>2. CASE (\E f \in Flows : EditIndex(f)) \/ AgentBoots \/ Tick \/ UNCHANGED vars
  <2>1. UNCHANGED <<file, verdict, crossed, boot, rq, locked, unlocked, temp>>
    BY <1>2 DEF EditIndex, AgentBoots, Tick, vars, console, people
  <2>2. QED
    BY <2>1, SameRequested, SameStanding
<1>3. QED
  BY <1>1, <1>2, HandleDecided, ScriptDecided, EditDecided DEF Next, Person

LEMMA InvariantHolds == Spec => []IInv
<1>1. IInv /\ [Next]_vars => IInv'
  BY StepTypeOK, StepDecided DEF IInv
<1>2. QED
  BY <1>1, InitIInv, PTL DEF Spec

-----------------------------------------------------------------------------
\* What an SME rejected does not run, as the agent's gate has it, until somebody
\* edits the file or an SME decides again: the script does not approve it.  This
\* is said of the files the script had not looked at before they were rejected,
\* and that no other request was at without the lock.
THEOREM RejectionStands == Spec => []RejectedStays
<1>1. IInv => RejectedStays
  <2> SUFFICES ASSUME IInv, NEW f \in Flows, verdict[f] = "REJECTED", f \notin crossed
               PROVE  ~Executable(f)
    BY DEF RejectedStays
  <2>1. file[f].status = "REJECTED"
    BY DEF IInv, Standing, RejectionWritten
  <2>2. ArtifactReason(f) = "approval.rejected"
    BY <2>1 DEF ArtifactReason, Pending
  <2>3. AgentGate(known, f) = "approval.rejected"
    BY <2>2 DEF AgentGate
  <2>4. QED
    BY <2>3 DEF Executable
<1>2. QED
  BY <1>1, InvariantHolds, PTL

\* Of two decisions on one file only the first is taken, while no request that is
\* busy with it has gone without the lock: the second is checked under the lock,
\* and finds it decided.  Kills and the lock files they leave are among the steps.
THEOREM DecisionsAreTakenOnce == Spec => DecidedOnce
<1>1. IInv /\ [Next]_vars =>
        [\A f \in Flows \ unlocked :
           verdict[f] # "none" => verdict'[f] \in {verdict[f], "none"}]_verdict
  <2> SUFFICES ASSUME IInv, [Next]_vars, NEW f \in Flows \ unlocked, verdict[f] # "none"
               PROVE  verdict'[f] \in {verdict[f], "none"}
    OBVIOUS
  <2>1. ATypeOK /\ WritesUndecided
    BY DEF IInv, Requested
  <2>2. ASSUME NEW h \in Handlers, Rename(h) PROVE verdict'[f] = verdict[f]
    <3>1. rq[h].flow # f
      BY <2>1, <2>2 DEF Rename, WritesUndecided
    <3>2. QED
      BY <2>1, <2>2, <3>1 DEF Rename, ATypeOK
  <2>3. ASSUME NEW e \in Flows, EditFile(e) PROVE verdict'[f] \in {verdict[f], "none"}
    BY <2>1, <2>3 DEF EditFile, ATypeOK
  <2>4. CASE Script
    BY <2>4 DEF Script, BootStarts, BootLooks, BootLooksAgain, BootWrites, BootReads,
                BootAppends, BootEnds, people
  <2>5. QED
    BY <2>2, <2>3, <2>4
       DEF Next, Handle, Person, Post, Enters, Check, Write, Stamp, ReadLog, Append, Throws,
           ConsoleDies, people, EditIndex, AgentBoots, Tick, vars
<1>2. QED
  BY <1>1, InvariantHolds, PTL DEF DecidedOnce, Spec

\* The console's gate and the agent's answer alike about a flow that is described
\* and in the catalog, as long as the agent server knows the index as it is.
THEOREM GatesGiveOneAnswer == Spec => []GatesAgree
<1>1. IInv => GatesAgree
  <2> SUFFICES ASSUME IInv, NEW f \in Flows, index[f].described,
                      index[f].catalogued, known[f] = index[f]
               PROVE  ConsoleGate(f) = AgentGate(known, f)
    BY DEF GatesAgree
  <2>1. index[f].ready \in BOOLEAN
    BY DEF IInv, ATypeOK, Entries
  <2>2. CASE ArtifactReason(f) # ""
    BY <2>2 DEF ConsoleGate, AgentGate
  <2>3. CASE ArtifactReason(f) = "" /\ ~index[f].ready
    BY <2>3 DEF ConsoleGate, AgentGate
  <2>4. CASE ArtifactReason(f) = "" /\ index[f].ready
    <3>1. ConsoleGate(f) = "gate.executable"
      BY <2>4 DEF ConsoleGate
    <3>2. KbReason(known[f]) = "gate.executable"
      BY <2>4 DEF KbReason
    <3>3. AgentGate(known, f) = KbReason(known[f])
      BY <2>4 DEF AgentGate
    <3>4. QED
      BY <3>1, <3>2, <3>3
  <2>5. QED
    BY <2>1, <2>2, <2>3, <2>4
<1>2. QED
  BY <1>1, InvariantHolds, PTL
=============================================================================
