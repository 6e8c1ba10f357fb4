----------------------------- MODULE LiveRunProofs -----------------------------
(***************************************************************************)
(* LiveRun for any runs and number of invocations, and any bounds: an      *)
(* execution has the context of its own run unless another took it, and    *)
(* the stream of a run delivers what the browser wrote, unless the server  *)
(* wrote while a worker was between its read and its write.                *)
(***************************************************************************)
EXTENDS LiveRun, SequenceTheorems, WellFoundedInduction, TLAPS

InvStages    == {"idle", "planned", "selected", "command", "running", "final", "done"}
WorkerStages == {"none", "starting", "acting", "reading", "leaving", "gone"}
KeeperStages == {"none", "watching", "closing", "marking", "gone"}
Invs    == [at : InvStages, run : Runs \union {None}, skip : BOOLEAN, live : BOOLEAN,
            keep : BOOLEAN]
Workers == [at : WorkerStages, run : Runs \union {None}, live : BOOLEAN, keep : BOOLEAN,
            lines : 0..MaxLines, seq : Nat]
Environs == [mode : Modes, live : BOOLEAN, keep : BOOLEAN, dry : BOOLEAN]
Lines   == [seq : Nat, by : {"server", "worker"}]
Files   == Seq(Lines)

FilesTyped == counter \in [Runs -> Nat] /\ events \in [Runs -> Files]
RestTyped ==
  /\ environ \in Environs /\ context \in Runs \union {None}
  /\ inv \in [Threads -> Invs] /\ worker \in [Threads -> Workers]
  /\ keeper \in [Threads -> KeeperStages]
  /\ session \in [Runs -> Statuses \union {None}]
  /\ signal \subseteq Watched /\ closing \subseteq Watched /\ browser \subseteq Runs
  /\ odd \in [Runs -> SUBSET {"crossed", "misstated"}]
  /\ contested \subseteq Threads /\ faults \in 0..MaxFaults
Typed == FilesTyped /\ RestTyped

\* A worker is that of an invocation that came to its command, a keeper that of
\* a worker.
PlacedAt(t) ==
  /\ inv[t].at = "idle" => inv[t] = Idle
  /\ inv[t].at # "idle" => inv[t].run \in Runs
  /\ inv[t].at \in {"idle", "planned", "selected", "command"} => worker[t].at = "none"
  /\ inv[t].at = "running" => worker[t].at # "none"
  /\ inv[t].at \in {"selected", "command", "running"} => context \in Runs
  /\ worker[t].at # "none" => worker[t].run \in Runs
  /\ worker[t].at = "reading" => worker[t].lines < MaxLines
  /\ keeper[t] # "none" => worker[t].at # "none"
Placed == \A t \in Threads : PlacedAt(t)

\* Where the context is another run's, it was taken.
OwnedAt(t) ==
  /\ inv[t].at \in {"selected", "command"} /\ context # inv[t].run => t \in contested
  /\ worker[t].at # "none" /\ worker[t].run # inv[t].run => t \in contested
Owned == \A t \in Threads : OwnedAt(t)

\* A number is at most the length of its file.
NumberedIn(r) == /\ counter[r] <= Len(events[r])
                 /\ \A i \in 1..Len(events[r]) : events[r][i].seq \in 1..Len(events[r])
Reading(t) == worker[t].at = "reading"
Numbered ==
  /\ \A r \in Runs : NumberedIn(r)
  /\ \A t \in Threads : Reading(t) =>
       worker[t].seq >= 1 /\ worker[t].seq <= Len(events[worker[t].run]) + 1

\* One worker is between read and write; unless the server came in between,
\* what workers wrote, and this one is about to, is above all before it.
OrderedIn(r) ==
  /\ \A i \in 1..Len(events[r]) : events[r][i].by = "worker" =>
       \A j \in 1..(i - 1) : events[r][j].seq < events[r][i].seq
  /\ \A t \in Threads : Reading(t) /\ worker[t].run = r =>
       \A i \in 1..Len(events[r]) : events[r][i].seq < worker[t].seq
Alone   == \A t, u \in Threads : Reading(t) /\ Reading(u) /\ worker[t].run = worker[u].run
                                   => t = u
Ordered == Alone /\ \A r \in Runs : "crossed" \notin odd[r] => OrderedIn(r)

IInv == Typed /\ Placed /\ Owned /\ Numbered /\ Ordered

-----------------------------------------------------------------------------
\* A set of numbers with an upper bound has a greatest.
LEMMA GreatestExists ==
  ASSUME NEW n \in Nat, NEW S, S \subseteq 0..n, S # {}
  PROVE  \E x \in S : \A y \in S : x >= y
<1> DEFINE R == OpToRel(<, Nat)
           T == {n - x : x \in S}
<1>1. IsWellFoundedOn(R, Nat)
  BY NatLessThanWellFounded
<1>2. T \subseteq Nat /\ T # {}
  <2>1. \A x \in S : n - x \in Nat
    OBVIOUS
  <2>2. PICK x \in S : TRUE
    OBVIOUS
  <2>3. n - x \in T
    OBVIOUS
  <2>4. QED
    BY <2>1, <2>3
<1>3. PICK d \in T : \A e \in T : ~(<<e, d>> \in R)
  <2> HIDE DEF R, T
  <2>1. QED
    BY <1>1, <1>2, WFMin
<1>4. \A e \in T : ~(e < d)
  <2>1. ASSUME NEW e \in T, e < d PROVE FALSE
    <3>1. e \in Nat /\ d \in Nat
      BY <1>2, <1>3
    <3>2. <<e, d>> \in R
      BY <2>1, <3>1 DEF OpToRel
    <3>3. QED
      BY <1>3, <3>2
  <2>2. QED
    BY <2>1
<1>5. PICK x \in S : d = n - x
  OBVIOUS
<1>6. ASSUME NEW y \in S PROVE x >= y
  <2>1. n - y \in T /\ ~(n - y < n - x)
    BY <1>4, <1>5
  <2>2. QED
    BY <1>5, <2>1
<1>7. QED
  BY <1>5, <1>6

\* What the lines of a file are.
LEMMA LineFacts ==
  ASSUME NEW file \in Files
  PROVE  /\ Len(file) \in Nat
         /\ \A i \in 1..Len(file) : file[i] \in Lines /\ file[i].seq \in Nat
<1>1. file \in Seq(Lines)
  BY DEF Files
<1>2. \A i \in 1..Len(file) : file[i] \in Lines
  BY <1>1, ElementOfSeq
<1>3. Len(file) \in Nat
  BY <1>1
<1>4. QED
  BY <1>2, <1>3 DEF Lines

\* The greatest number of a file whose numbers are bounded.
LEMMA MaxSequenceFacts ==
  ASSUME NEW file \in Files, NEW n \in Nat, \A i \in 1..Len(file) : file[i].seq <= n
  PROVE  /\ MaxSequence(file) \in 0..n
         /\ \A i \in 1..Len(file) : file[i].seq <= MaxSequence(file)
         /\ MaxSequence(file) = 0 \/ \E i \in 1..Len(file) : file[i].seq = MaxSequence(file)
<1> DEFINE S == {0} \union {file[i].seq : i \in 1..Len(file)}
<1>1. \A i \in 1..Len(file) : file[i].seq \in Nat
  BY LineFacts
<1>2. S \subseteq 0..n /\ S # {}
  BY <1>1
<1>3. \E x \in S : \A y \in S : x >= y
  <2> HIDE DEF S
  <2>1. QED
    BY <1>2, GreatestExists
<1>4. Max(S) \in S /\ \A y \in S : Max(S) >= y
  BY <1>3 DEF Max
<1>5. MaxSequence(file) = Max(S)
  BY DEF MaxSequence
<1>6. QED
  BY <1>1, <1>2, <1>4, <1>5

-----------------------------------------------------------------------------
LEMMA InitIInv == Init => IInv
<1> SUFFICES ASSUME Init PROVE IInv
  OBVIOUS
<1>1. Idle \in Invs /\ Idle.at = "idle"
  BY DEF Idle, Invs, InvStages
<1>2. NoWorker \in Workers /\ NoWorker.at = "none"
  BY LiveRunAssumption DEF NoWorker, Workers, WorkerStages
<1>3. <<>> \in Files /\ Len(<<>>) = 0
  BY DEF Files
<1>4. Boot \in Environs
  BY LiveRunAssumption DEF Boot, Environs, Modes
<1>5. Typed
  BY <1>1, <1>2, <1>3, <1>4, LiveRunAssumption DEF Init, Typed, FilesTyped, RestTyped, KeeperStages
<1>6. Placed /\ Owned
  BY <1>1, <1>2 DEF Init, Placed, PlacedAt, Owned, OwnedAt
<1>7. Numbered /\ Ordered
  BY <1>2, <1>3 DEF Init, Numbered, NumberedIn, Ordered, OrderedIn, Alone, Reading
<1>8. QED
  BY <1>5, <1>6, <1>7 DEF IInv

\* A line more at the end of a file.
LEMMA AppendFacts ==
  ASSUME NEW file \in Files, NEW line \in Lines
  PROVE  /\ Append(file, line) \in Files /\ Len(Append(file, line)) = Len(file) + 1
         /\ \A i \in 1..Len(file) : Append(file, line)[i] = file[i]
         /\ Append(file, line)[Len(file) + 1] = line
BY AppendProperties DEF Files


-----------------------------------------------------------------------------
(* The event files. *)

\* What a step must do to keep them in order: no worker begins to read, and a
\* file grows by one line at most ...
Calm    == \A t \in Threads : Reading(t)' => Reading(t) /\ worker'[t] = worker[t]
Growing == \A r \in Runs : odd[r] \subseteq odd'[r]

LEMMA FilesUntouched ==
  ASSUME IInv, Calm, Growing, UNCHANGED events, \A r \in Runs : counter'[r] <= counter[r],
         counter' \in [Runs -> Nat]
  PROVE  Numbered' /\ Ordered'
<1>1. Numbered'
  <2>1. ASSUME NEW r \in Runs PROVE NumberedIn(r)'
    <3>1. NumberedIn(r) /\ counter'[r] <= counter[r] /\ counter[r] \in Nat /\ counter'[r] \in Nat
          /\ Len(events[r]) \in Nat
      BY LineFacts DEF IInv, Numbered, Typed, FilesTyped
    <3>2. QED
      BY <3>1 DEF NumberedIn
  <2>2. QED
    BY <2>1 DEF IInv, Numbered, Calm, Reading
<1>2. Ordered'
  BY DEF IInv, Ordered, OrderedIn, Alone, Calm, Growing, Reading
<1>3. QED
  BY <1>1, <1>2

\* ... which is the server's, if the file is not crossed by it, ...
LEMMA EmitKeeps ==
  ASSUME IInv, Calm, Growing, NEW r \in Runs, Emit(r), Crossed(TRUE, r) \subseteq odd'[r]
  PROVE  FilesTyped' /\ Numbered' /\ Ordered'
<1> DEFINE line == Line(counter[r] + 1, "server")
<1>1. /\ counter \in [Runs -> Nat] /\ events \in [Runs -> Files] /\ events[r] \in Files
      /\ worker \in [Threads -> Workers]
  BY DEF IInv, Typed, FilesTyped, RestTyped
<1>2. counter' = [counter EXCEPT ![r] = @ + 1] /\ events' = [events EXCEPT ![r] = Append(@, line)]
  BY DEF Emit
<1>3. line \in Lines /\ line.seq = counter[r] + 1 /\ line.by = "server"
  BY <1>1 DEF Line, Lines
<1> HIDE DEF line
<1>4. /\ counter' \in [Runs -> Nat] /\ counter'[r] = counter[r] + 1
      /\ \A x \in Runs \ {r} : counter'[x] = counter[x] /\ events'[x] = events[x]
      /\ events'[r] = Append(events[r], line)
  BY <1>1, <1>2
<1>5. /\ Append(events[r], line) \in Files /\ Len(events'[r]) = Len(events[r]) + 1
      /\ \A i \in 1..Len(events[r]) : events'[r][i] = events[r][i]
      /\ events'[r][Len(events[r]) + 1] = line
      /\ Len(events[r]) \in Nat
  BY <1>1, <1>3, <1>4, AppendFacts, LineFacts
<1>6. events' \in [Runs -> Files]
  BY <1>1, <1>2, <1>5
<1>7. Numbered'
  <2>1. ASSUME NEW x \in Runs PROVE NumberedIn(x)'
    <3>1. NumberedIn(x) /\ NumberedIn(r) /\ Len(events[x]) \in Nat
      BY <1>1, LineFacts DEF IInv, Numbered
    <3>2. CASE x = r
      <4>1. ASSUME NEW i \in 1..Len(events'[r]) PROVE events'[r][i].seq \in 1..Len(events'[r])
        <5>1. CASE i = Len(events[r]) + 1
          BY <1>1, <1>3, <1>5, <3>1, <5>1 DEF NumberedIn
        <5>2. CASE i # Len(events[r]) + 1
          <6>1. i \in 1..Len(events[r])
            BY <1>5, <5>2
          <6>2. events'[r][i].seq \in 1..Len(events[r])
            BY <1>5, <3>1, <6>1 DEF NumberedIn
          <6>3. QED
            BY <1>5, <6>2
        <5>3. QED
          BY <5>1, <5>2
      <4>2. counter'[r] <= Len(events'[r])
        BY <1>1, <1>4, <1>5, <3>1 DEF NumberedIn
      <4>3. QED
        BY <3>2, <4>1, <4>2 DEF NumberedIn
    <3>3. CASE x # r
      BY <1>4, <3>1, <3>3 DEF NumberedIn
    <3>4. QED
      BY <3>2, <3>3
  <2>2. ASSUME NEW t \in Threads, Reading(t)'
        PROVE  worker'[t].seq >= 1 /\ worker'[t].seq <= Len(events'[worker'[t].run]) + 1
    <3>1. Reading(t) /\ worker'[t] = worker[t] /\ worker[t].run \in Runs
      BY <2>2 DEF Calm, IInv, Placed, PlacedAt, Reading
    <3>2. worker[t].seq >= 1 /\ worker[t].seq <= Len(events[worker[t].run]) + 1
          /\ worker[t].seq \in Nat
      BY <1>1, <3>1 DEF IInv, Numbered, Workers
    <3>3. Len(events[worker[t].run]) \in Nat
      BY <1>1, <3>1, LineFacts
    <3>4. Len(events[worker[t].run]) <= Len(events'[worker[t].run])
      BY <1>4, <1>5, <3>1, <3>3
    <3>5. Len(events'[worker[t].run]) \in Nat
      BY <1>6, <3>1, LineFacts
    <3>6. QED
      BY <3>1, <3>2, <3>3, <3>4, <3>5
  <2>3. QED
    BY <2>1, <2>2 DEF Numbered
<1>8. Ordered'
  <2>1. Alone'
    BY DEF IInv, Ordered, Alone, Calm, Reading
  <2>2. ASSUME NEW x \in Runs, "crossed" \notin odd'[x] PROVE OrderedIn(x)'
    <3>1. OrderedIn(x)
      BY <2>2 DEF IInv, Ordered, Growing
    <3>2. CASE x # r
      BY <1>4, <3>1, <3>2 DEF OrderedIn, Calm, Reading
    <3>3. CASE x = r
      <4>1. ~Between(r)
        BY <2>2, <3>3 DEF Crossed
      <4>2. \A t \in Threads : ~(Reading(t) /\ worker[t].run = r)'
        BY <4>1 DEF Between, Calm, Reading
      <4>3. ASSUME NEW i \in 1..Len(events'[r]), events'[r][i].by = "worker",
                   NEW j \in 1..(i - 1)
            PROVE  events'[r][j].seq < events'[r][i].seq
        <5>1. i # Len(events[r]) + 1
          BY <1>3, <1>5, <4>3
        <5>2. i \in 1..Len(events[r]) /\ j \in 1..Len(events[r])
          BY <1>5, <5>1
        <5>3. events'[r][i] = events[r][i] /\ events'[r][j] = events[r][j]
          BY <1>5, <5>2
        <5>4. QED
          BY <3>1, <3>3, <4>3, <5>2, <5>3 DEF OrderedIn
      <4>4. \A i \in 1..Len(events'[r]) : events'[r][i].by = "worker" =>
              \A j \in 1..(i - 1) : events'[r][j].seq < events'[r][i].seq
        BY <4>3
      <4>5. QED
        BY <3>3, <4>2, <4>4 DEF OrderedIn
    <3>4. QED
      BY <3>2, <3>3
  <2>3. QED
    BY <2>1, <2>2 DEF Ordered
<1>9. QED
  BY <1>4, <1>6, <1>7, <1>8 DEF FilesTyped

LEMMA EmitIfKeeps ==
  ASSUME IInv, Calm, Growing, NEW r \in Runs, NEW yes \in BOOLEAN, EmitIf(yes, r),
         Crossed(yes, r) \subseteq odd'[r]
  PROVE  FilesTyped' /\ Numbered' /\ Ordered'
<1>1. CASE yes
  BY <1>1, EmitKeeps DEF EmitIf
<1>2. CASE ~yes
  <2>1. UNCHANGED <<counter, events>>
    BY <1>2 DEF EmitIf
  <2>2. FilesTyped' /\ \A x \in Runs : counter'[x] <= counter[x]
    BY <2>1 DEF IInv, Typed, FilesTyped, RestTyped
  <2>3. QED
    BY <2>1, <2>2, FilesUntouched DEF FilesTyped
<1>3. QED
  BY <1>1, <1>2

\* ... or a worker's, if it is above all that is there.
LEMMA WriteKeeps ==
  ASSUME IInv, NEW r \in Runs, NEW n \in Nat, n >= 1, n <= Len(events[r]) + 1,
         events' = [events EXCEPT ![r] = Append(@, Line(n, "worker"))],
         UNCHANGED <<counter, odd>>,
         "crossed" \notin odd[r] => \A i \in 1..Len(events[r]) : events[r][i].seq < n,
         \A t \in Threads : Reading(t)' =>
           Reading(t) /\ worker'[t] = worker[t] /\ worker[t].run # r
  PROVE  FilesTyped' /\ Numbered' /\ Ordered'
<1> DEFINE line == Line(n, "worker")
<1>1. /\ counter \in [Runs -> Nat] /\ events \in [Runs -> Files] /\ events[r] \in Files
      /\ worker \in [Threads -> Workers]
  BY DEF IInv, Typed, FilesTyped, RestTyped
<1>2. line \in Lines /\ line.seq = n
  BY DEF Line, Lines
<1>3. events' = [events EXCEPT ![r] = Append(@, line)]
  OBVIOUS
<1> HIDE DEF line
<1>4. events'[r] = Append(events[r], line) /\ \A x \in Runs \ {r} : events'[x] = events[x]
  BY <1>1, <1>3
<1>5. /\ Append(events[r], line) \in Files /\ Len(events'[r]) = Len(events[r]) + 1
      /\ \A i \in 1..Len(events[r]) : events'[r][i] = events[r][i]
      /\ events'[r][Len(events[r]) + 1] = line
      /\ Len(events[r]) \in Nat
  BY <1>1, <1>2, <1>4, AppendFacts, LineFacts
<1>6. FilesTyped'
  BY <1>1, <1>3, <1>5 DEF FilesTyped
<1>7. Numbered'
  <2>1. ASSUME NEW x \in Runs PROVE NumberedIn(x)'
    <3>1. NumberedIn(x) /\ counter'[x] = counter[x] /\ counter[x] \in Nat
      BY <1>1 DEF IInv, Numbered
    <3>2. CASE x = r
      <4>1. ASSUME NEW i \in 1..Len(events'[r]) PROVE events'[r][i].seq \in 1..Len(events'[r])
        <5>1. CASE i = Len(events[r]) + 1
          BY <1>2, <1>5, <5>1
        <5>2. CASE i # Len(events[r]) + 1
          <6>1. i \in 1..Len(events[r])
            BY <1>5, <5>2
          <6>2. events'[r][i].seq \in 1..Len(events[r])
            BY <1>5, <3>1, <3>2, <6>1 DEF NumberedIn
          <6>3. QED
            BY <1>5, <6>2
        <5>3. QED
          BY <5>1, <5>2
      <4>2. counter'[r] <= Len(events'[r])
        BY <1>5, <3>1, <3>2 DEF NumberedIn
      <4>3. QED
        BY <3>2, <4>1, <4>2 DEF NumberedIn
    <3>3. CASE x # r
      BY <1>4, <3>1, <3>3 DEF NumberedIn
    <3>4. QED
      BY <3>2, <3>3
  <2>2. ASSUME NEW t \in Threads, Reading(t)'
        PROVE  worker'[t].seq >= 1 /\ worker'[t].seq <= Len(events'[worker'[t].run]) + 1
    <3>1. Reading(t) /\ worker'[t] = worker[t] /\ worker[t].run \in Runs \ {r}
      BY <2>2 DEF IInv, Placed, PlacedAt, Reading
    <3>2. QED
      BY <1>4, <3>1 DEF IInv, Numbered
  <2>3. QED
    BY <2>1, <2>2 DEF Numbered
<1>8. Ordered'
  <2>1. Alone'
    BY DEF IInv, Ordered, Alone, Reading
  <2>2. ASSUME NEW x \in Runs, "crossed" \notin odd'[x] PROVE OrderedIn(x)'
    <3>1. OrderedIn(x)
      BY <2>2 DEF IInv, Ordered
    <3>2. CASE x # r
      BY <1>4, <3>1, <3>2 DEF OrderedIn, Reading
    <3>3. CASE x = r
      <4>1. \A t \in Threads : ~(Reading(t)' /\ worker'[t].run = r)
        OBVIOUS
      <4>2. ASSUME NEW i \in 1..Len(events'[r]), events'[r][i].by = "worker",
                   NEW j \in 1..(i - 1)
            PROVE  events'[r][j].seq < events'[r][i].seq
        <5>1. j \in 1..Len(events[r]) /\ events'[r][j] = events[r][j]
          BY <1>5
        <5>2. CASE i = Len(events[r]) + 1
          BY <1>2, <1>5, <2>2, <3>3, <5>1, <5>2
        <5>3. CASE i # Len(events[r]) + 1
          <6>1. i \in 1..Len(events[r])
            BY <1>5, <5>3
          <6>2. events'[r][i] = events[r][i]
            BY <1>5, <6>1
          <6>3. QED
            BY <3>1, <3>3, <4>2, <5>1, <6>1, <6>2 DEF OrderedIn
        <5>4. QED
          BY <5>2, <5>3
      <4>3. QED
        BY <3>3, <4>1, <4>2 DEF OrderedIn
    <3>4. QED
      BY <3>2, <3>3
  <2>3. QED
    BY <2>1, <2>2 DEF Ordered
<1>9. QED
  BY <1>6, <1>7, <1>8

\* The number a worker takes is above all that the file has.
LEMMA NextFacts ==
  ASSUME IInv, NEW r \in Runs
  PROVE  LET n == NextOfWorker(events[r])
         IN  /\ n \in Nat /\ n >= 1 /\ n <= Len(events[r]) + 1
             /\ \A i \in 1..Len(events[r]) : events[r][i].seq < n
<1>1. events[r] \in Files /\ Len(events[r]) \in Nat
      /\ \A i \in 1..Len(events[r]) : events[r][i].seq <= Len(events[r])
  BY LineFacts DEF IInv, Typed, FilesTyped, Numbered, NumberedIn
<1>2. /\ MaxSequence(events[r]) \in 0..Len(events[r])
      /\ \A i \in 1..Len(events[r]) : events[r][i].seq <= MaxSequence(events[r])
  BY <1>1, MaxSequenceFacts
<1>3. QED
  BY <1>1, <1>2, LineFacts DEF NextOfWorker

-----------------------------------------------------------------------------
(* Everything but the event files. *)

Control == RestTyped /\ Placed /\ Owned

\* Invocation t goes on to i; nothing changes for the others.
LEMMA InvMoves ==
  ASSUME IInv, NEW t \in Threads, NEW i \in Invs, inv' = [inv EXCEPT ![t] = i],
         context' \in Runs \union {None}, context # None => context' # None,
         contested \subseteq contested', contested' \subseteq Threads,
         UNCHANGED <<worker, keeper>>,
         \A u \in Threads \ {t} : inv[u].at \in {"selected", "command"}
            /\ context' # inv[u].run /\ context' # context => u \in contested',
         i.at # "idle", i.run \in Runs, inv[t].at # "idle" => i.run = inv[t].run,
         i.at \in {"planned", "selected", "command"} => worker[t].at = "none",
         i.at = "running" => worker[t].at # "none",
         i.at \in {"selected", "command", "running"} => context' \in Runs,
         i.at \in {"selected", "command"} /\ context' # i.run => t \in contested'
  PROVE  Placed' /\ Owned'
<1>1. inv \in [Threads -> Invs] /\ Placed /\ Owned
  BY DEF IInv, Typed, RestTyped
<1>2. inv'[t] = i /\ \A u \in Threads \ {t} : inv'[u] = inv[u]
  BY <1>1
<1>3. Placed'
  BY <1>1, <1>2, LiveRunAssumption DEF Placed, PlacedAt
<1>4. ASSUME NEW u \in Threads PROVE OwnedAt(u)'
  <2>1. CASE u = t
    <3>1. inv[t].at = "idle" => worker[t].at = "none"
      BY <1>1 DEF Placed, PlacedAt
    <3>2. QED
      BY <1>1, <1>2, <2>1, <3>1 DEF Owned, OwnedAt
  <2>2. CASE u # t
    BY <1>1, <1>2, <2>2 DEF Owned, OwnedAt
  <2>3. QED
    BY <2>1, <2>2
<1>5. QED
  BY <1>3, <1>4 DEF Owned

\* Worker t or its keeper goes on.
LEMMA WorkerMoves ==
  ASSUME IInv, NEW t \in Threads, NEW w \in Workers, worker' = [worker EXCEPT ![t] = w],
         NEW k \in KeeperStages, keeper' = [keeper EXCEPT ![t] = k],
         UNCHANGED <<inv, context, contested>>,
         worker[t].at # "none", w.at # "none", w.run = worker[t].run,
         w.at = "reading" => w.lines < MaxLines
  PROVE  Placed' /\ Owned'
<1>1. worker \in [Threads -> Workers] /\ keeper \in [Threads -> KeeperStages] /\ Placed /\ Owned
  BY DEF IInv, Typed, RestTyped
<1>2. /\ worker'[t] = w /\ \A u \in Threads \ {t} : worker'[u] = worker[u]
      /\ keeper'[t] = k /\ \A u \in Threads \ {t} : keeper'[u] = keeper[u]
  BY <1>1
<1>3. Placed'
  BY <1>1, <1>2 DEF Placed, PlacedAt
<1>4. Owned'
  BY <1>1, <1>2 DEF Owned, OwnedAt
<1>5. QED
  BY <1>3, <1>4

LEMMA CallerFacts ==
  ASSUME IInv, NEW t \in Threads
  PROVE  /\ RestTyped /\ PlacedAt(t) /\ OwnedAt(t) /\ inv[t] \in Invs /\ worker[t] \in Workers
         /\ inv \in [Threads -> Invs] /\ worker \in [Threads -> Workers]
         /\ keeper \in [Threads -> KeeperStages] /\ keeper[t] \in KeeperStages
BY DEF IInv, Typed, RestTyped, Placed, Owned

\* A step that writes no event, and one of the server that may.
LEMMA SilentKeeps ==
  ASSUME IInv, Control', Calm, Growing, UNCHANGED <<counter, events>>
  PROVE  IInv'
<1>1. FilesTyped' /\ \A x \in Runs : counter'[x] <= counter[x]
  BY DEF IInv, Typed, FilesTyped
<1>2. Numbered' /\ Ordered'
  BY <1>1, FilesUntouched DEF FilesTyped
<1>3. QED
  BY <1>1, <1>2 DEF IInv, Typed, Control

LEMMA SpeakKeeps ==
  ASSUME IInv, Control', Calm, Growing, NEW r \in Runs, NEW yes \in BOOLEAN, EmitIf(yes, r),
         Crossed(yes, r) \subseteq odd'[r]
  PROVE  IInv'
BY EmitIfKeeps DEF IInv, Typed, Control

\* POST /run and POST resume.
LEMMA AcceptKeeps ==
  ASSUME IInv, NEW t \in Threads, NEW r \in Runs, NEW mode \in Modes, Accept(t, r, mode)
  PROVE  IInv'
<1> DEFINE i == [Idle EXCEPT !.at = "planned", !.run = r, !.skip = (mode = "DRY_RUN")]
<1>1. /\ inv[t] = Idle /\ environ' = Applied(environ, mode) /\ inv' = [inv EXCEPT ![t] = i]
      /\ UNCHANGED <<context, counter, worker, keeper, session, signal, browser, events, closing,
                     contested, odd, faults>>
  BY DEF Accept, Free
<1>2. i \in Invs /\ i.at = "planned" /\ i.run = r
  BY DEF Idle, Invs, InvStages
<1> HIDE DEF i
<1>3. environ' \in Environs
  BY <1>1, CallerFacts DEF RestTyped, Environs, Applied, Config, Modes
<1>4. RestTyped'
  BY <1>1, <1>2, <1>3, CallerFacts DEF RestTyped
<1>5. worker[t].at = "none" /\ inv[t].at = "idle"
  BY <1>1, CallerFacts DEF PlacedAt, Idle
<1>6. Placed' /\ Owned'
  BY <1>1, <1>2, <1>4, <1>5, CallerFacts, InvMoves DEF RestTyped
<1>7. QED
  BY <1>1, <1>4, <1>6, SilentKeeps DEF Control, Calm, Growing, Reading

LEMMA ResumeKeeps ==
  ASSUME IInv, NEW t \in Threads, NEW r \in Runs, Resume(t, r) PROVE IInv'
<1> DEFINE i == [Idle EXCEPT !.at = "planned", !.run = r]
<1>1. /\ inv[t] = Idle /\ inv' = [inv EXCEPT ![t] = i]
      /\ UNCHANGED <<environ, context, counter, worker, keeper, session, signal, browser, events,
                     closing, contested, odd, faults>>
  BY DEF Resume, Free
<1>2. i \in Invs /\ i.at = "planned" /\ i.run = r
  BY DEF Idle, Invs, InvStages
<1> HIDE DEF i
<1>3. RestTyped'
  BY <1>1, <1>2, CallerFacts DEF RestTyped
<1>4. worker[t].at = "none" /\ inv[t].at = "idle"
  BY <1>1, CallerFacts DEF PlacedAt, Idle
<1>5. Placed' /\ Owned'
  BY <1>1, <1>2, <1>3, <1>4, CallerFacts, InvMoves DEF RestTyped
<1>6. QED
  BY <1>1, <1>3, <1>5, SilentKeeps DEF Control, Calm, Growing, Reading

\* What is left of an invocation keeps its run.
LEMMA OverFacts ==
  ASSUME NEW i \in Invs, NEW at \in InvStages
  PROVE  Over(i, at) \in Invs /\ Over(i, at).at = at /\ Over(i, at).run = i.run
BY DEF Over, Idle, Invs, InvStages

LEMMA NoExecutionKeeps == ASSUME IInv, NEW t \in Threads, NoExecution(t) PROVE IInv'
<1> DEFINE i == Over(inv[t], "final")
<1>1. /\ inv[t].at = "planned" /\ inv' = [inv EXCEPT ![t] = i]
      /\ UNCHANGED <<environ, context, counter, worker, keeper, session, signal, browser, events,
                     closing, contested, odd, faults>>
  BY DEF NoExecution
<1>2. i \in Invs /\ i.at = "final" /\ i.run = inv[t].run /\ inv[t].run \in Runs
  BY <1>1, OverFacts, CallerFacts DEF PlacedAt, InvStages
<1> HIDE DEF i
<1>3. RestTyped'
  BY <1>1, <1>2, CallerFacts DEF RestTyped
<1>4. Placed' /\ Owned'
  BY <1>1, <1>2, <1>3, CallerFacts, InvMoves DEF RestTyped
<1>5. QED
  BY <1>1, <1>3, <1>4, SilentKeeps DEF Control, Calm, Growing, Reading

\* run_existing_test takes the runner's context from those who still need it.
LEMMA SetContextKeeps == ASSUME IInv, NEW t \in Threads, SetContext(t) PROVE IInv'
<1> DEFINE i == [inv[t] EXCEPT !.at = "selected"]
<1>1. /\ inv[t].at = "planned" /\ context' = inv[t].run /\ inv' = [inv EXCEPT ![t] = i]
      /\ contested' = contested \union
           {u \in Threads \ {t} : inv[u].at \in {"selected", "command"} /\ inv[u].run # inv[t].run}
      /\ UNCHANGED <<environ, counter, worker, keeper, session, signal, browser, events,
                     closing, odd, faults>>
  BY DEF SetContext
<1>2. i \in Invs /\ i.at = "selected" /\ i.run = inv[t].run /\ inv[t].run \in Runs
  BY <1>1, CallerFacts DEF PlacedAt, Invs, InvStages
<1>3. worker[t].at = "none"
  BY <1>1, CallerFacts DEF PlacedAt
<1> HIDE DEF i
<1>4. contested' \subseteq Threads /\ contested \subseteq contested'
  BY <1>1, CallerFacts DEF RestTyped
<1>5. RestTyped'
  BY <1>1, <1>2, <1>4, CallerFacts DEF RestTyped
<1>6. Placed' /\ Owned'
  BY <1>1, <1>2, <1>3, <1>4, LiveRunAssumption, CallerFacts, InvMoves DEF RestTyped
<1>7. QED
  BY <1>1, <1>5, <1>6, SilentKeeps DEF Control, Calm, Growing, Reading

LEMMA RunSelectionKeeps == ASSUME IInv, NEW t \in Threads, RunSelection(t) PROVE IInv'
<1> DEFINE cfg == Config(environ)
           yes == cfg.live /\ ~(cfg.live /\ environ.dry)
           i   == IF cfg.live /\ environ.dry THEN Over(inv[t], "final")
                  ELSE [inv[t] EXCEPT !.at = "command", !.live = cfg.live, !.keep = cfg.keep]
<1>1. /\ inv[t].at = "selected" /\ inv' = [inv EXCEPT ![t] = i]
      /\ EmitIf(yes, context)
      /\ odd' = [odd EXCEPT ![context] = @ \union Crossed(yes, context)]
      /\ UNCHANGED <<environ, context, worker, keeper, session, signal, browser, closing,
                     contested, faults>>
  BY DEF RunSelection
<1>2. cfg.live \in BOOLEAN /\ cfg.keep \in BOOLEAN /\ yes \in BOOLEAN
  BY CallerFacts DEF Config, RestTyped, Environs
<1>3. i \in Invs /\ i.at \in {"final", "command"} /\ i.run = inv[t].run
  <2> DEFINE on == [inv[t] EXCEPT !.at = "command", !.live = cfg.live, !.keep = cfg.keep]
  <2>1. inv[t] \in Invs /\ {"final", "command"} \subseteq InvStages
    BY CallerFacts DEF InvStages
  <2>2. LET o == Over(inv[t], "final") IN o \in Invs /\ o.at = "final" /\ o.run = inv[t].run
    BY <2>1, OverFacts
  <2> HIDE DEF cfg
  <2>3. on \in Invs /\ on.at = "command" /\ on.run = inv[t].run
    BY <1>2, <2>1 DEF Invs
  <2> QED
    BY <2>2, <2>3
<1>4. worker[t].at = "none" /\ context \in Runs /\ inv[t].run \in Runs
  BY <1>1, CallerFacts DEF PlacedAt
<1> HIDE DEF cfg, i, yes
<1>5. odd' \in [Runs -> SUBSET {"crossed", "misstated"}] /\ Growing
      /\ Crossed(yes, context) \subseteq odd'[context]
  BY <1>1, <1>4, CallerFacts DEF RestTyped, Crossed, Growing
<1>6. RestTyped'
  BY <1>1, <1>3, <1>5, CallerFacts DEF RestTyped
<1>7. Placed' /\ Owned'
  BY <1>1, <1>3, <1>4, <1>6, CallerFacts, InvMoves DEF RestTyped, OwnedAt
<1>8. QED
  BY <1>1, <1>2, <1>4, <1>5, <1>6, <1>7, SpeakKeeps DEF Control, Calm, Reading

\* The worker takes over the context as it is.
LEMMA RunCommandKeeps == ASSUME IInv, NEW t \in Threads, RunCommand(t) PROVE IInv'
<1> DEFINE w == [NoWorker EXCEPT !.at = "starting", !.run = context, !.live = inv[t].live,
                                 !.keep = inv[t].keep]
           i == [inv[t] EXCEPT !.at = "running"]
<1>1. /\ inv[t].at = "command" /\ worker' = [worker EXCEPT ![t] = w]
      /\ inv' = [inv EXCEPT ![t] = i] /\ Prepared(inv[t].live)
      /\ UNCHANGED <<environ, context, keeper, signal, browser, closing, contested, faults>>
  BY DEF RunCommand
<1>2. /\ worker[t].at = "none" /\ context \in Runs /\ inv[t].run \in Runs /\ inv[t].live \in BOOLEAN
      /\ keeper[t] = "none"
      /\ context # inv[t].run => t \in contested
  BY <1>1, CallerFacts DEF PlacedAt, OwnedAt, Invs
<1>3. /\ w \in Workers /\ w.at = "starting" /\ w.run = context
      /\ i \in Invs /\ i.at = "running" /\ i.run = inv[t].run
  <2>1. inv[t] \in Invs /\ inv[t].keep \in BOOLEAN /\ 0 \in 0..MaxLines
    BY LiveRunAssumption, CallerFacts DEF Invs
  <2>2. i \in Invs /\ i.at = "running" /\ i.run = inv[t].run
    BY <2>1 DEF Invs, InvStages
  <2>3. w \in Workers /\ w.at = "starting" /\ w.run = context
    BY <1>2, <2>1 DEF NoWorker, Workers, WorkerStages
  <2>4. QED
    BY <2>2, <2>3
<1> HIDE DEF w, i
<1>4. /\ worker'[t] = w /\ \A u \in Threads \ {t} : worker'[u] = worker[u]
      /\ inv'[t] = i /\ \A u \in Threads \ {t} : inv'[u] = inv[u]
  BY <1>1, CallerFacts
<1>5. /\ odd' \in [Runs -> SUBSET {"crossed", "misstated"}] /\ Growing
      /\ Crossed(inv[t].live, context) \subseteq odd'[context]
      /\ session' \in [Runs -> Statuses \union {None}]
  BY <1>1, <1>2, CallerFacts DEF Prepared, RestTyped, Crossed, Growing, Statuses
<1>6. RestTyped'
  BY <1>1, <1>3, <1>5, CallerFacts DEF RestTyped
<1>7. Placed' /\ Owned'
  <2>1. ASSUME NEW u \in Threads PROVE PlacedAt(u)' /\ OwnedAt(u)'
    <3>1. CASE u = t
      BY <1>1, <1>2, <1>3, <1>4, <3>1 DEF PlacedAt, OwnedAt
    <3>2. CASE u # t
      BY <1>1, <1>4, <3>2, CallerFacts DEF PlacedAt, OwnedAt
    <3>3. QED
      BY <3>1, <3>2
  <2>2. QED
    BY <2>1 DEF Placed, Owned
<1>8. Calm
  BY <1>3, <1>4 DEF Calm, Reading
<1>9. QED
  BY <1>1, <1>2, <1>5, <1>6, <1>7, <1>8, SpeakKeeps DEF Control, Prepared

\* After the command, and at the end of the invocation: what is declared closed.
LEMMA AfterCommandKeeps ==
  ASSUME IInv, NEW t \in Threads, NEW expired \in BOOLEAN, AfterCommand(t, expired) PROVE IInv'
<1> DEFINE live == inv[t].live /\ ~expired
           i    == Over(inv[t], "final")
<1>1. /\ inv[t].at = "running" /\ inv' = [inv EXCEPT ![t] = i]
      /\ faults' = (IF expired THEN faults + 1 ELSE faults) /\ (expired => faults < MaxFaults)
      /\ EmitIf(live, context)
      /\ IF live /\ ~inv[t].keep THEN MarkClosed(worker[t].run) ELSE UNCHANGED <<session, signal>>
      /\ odd' = [r \in Runs |-> odd[r] \union
                   (IF r = context THEN Crossed(live, r) ELSE {}) \union
                   Misstated(live /\ ~inv[t].keep /\ r = worker[t].run, r)]
      /\ UNCHANGED <<environ, context, worker, keeper, browser, closing, contested>>
  BY DEF AfterCommand
<1>2. /\ i \in Invs /\ i.at = "final" /\ i.run = inv[t].run /\ inv[t].run \in Runs
      /\ context \in Runs /\ worker[t].run \in Runs /\ live \in BOOLEAN
  BY <1>1, OverFacts, CallerFacts DEF PlacedAt, InvStages, Invs
<1> HIDE DEF live, i
<1>3. /\ odd' \in [Runs -> SUBSET {"crossed", "misstated"}] /\ Growing
      /\ Crossed(live, context) \subseteq odd'[context]
  BY <1>1, <1>2, CallerFacts DEF RestTyped, Crossed, Misstated, Growing
<1>4. session' \in [Runs -> Statuses \union {None}] /\ signal' \subseteq Watched
  BY <1>1, <1>2, CallerFacts DEF MarkClosed, RestTyped, Statuses
<1>5. faults' \in 0..MaxFaults
  BY <1>1, LiveRunAssumption, CallerFacts DEF RestTyped
<1>6. RestTyped'
  BY <1>1, <1>2, <1>3, <1>4, <1>5, CallerFacts DEF RestTyped
<1>7. Placed' /\ Owned'
  BY <1>1, <1>2, <1>6, CallerFacts, InvMoves DEF RestTyped
<1>8. QED
  BY <1>1, <1>2, <1>3, <1>6, <1>7, SpeakKeeps DEF Control, Calm, Reading

LEMMA FinalizeKeeps == ASSUME IInv, NEW t \in Threads, Finalize(t) PROVE IInv'
<1> DEFINE cfg   == Config(environ)
           close == cfg.live /\ ~cfg.keep
           r     == inv[t].run
           i     == Over(inv[t], "done")
<1>1. /\ inv[t].at = "final" /\ inv' = [inv EXCEPT ![t] = i] /\ EmitIf(close, r)
      /\ IF close THEN MarkClosed(r) ELSE UNCHANGED <<session, signal>>
      /\ odd' = [odd EXCEPT ![r] = @ \union Crossed(close, r) \union Misstated(close, r)]
      /\ UNCHANGED <<environ, context, worker, keeper, browser, closing, contested, faults>>
  BY DEF Finalize
<1>2. /\ i \in Invs /\ i.at = "done" /\ i.run = r /\ r \in Runs /\ close \in BOOLEAN
  BY <1>1, OverFacts, CallerFacts DEF PlacedAt, InvStages, Invs, Config, RestTyped, Environs
<1> HIDE DEF cfg, close, i
<1>3. /\ odd' \in [Runs -> SUBSET {"crossed", "misstated"}] /\ Growing
      /\ Crossed(close, r) \subseteq odd'[r]
  BY <1>1, <1>2, CallerFacts DEF RestTyped, Crossed, Misstated, Growing
<1>4. session' \in [Runs -> Statuses \union {None}] /\ signal' \subseteq Watched
  BY <1>1, <1>2, CallerFacts DEF MarkClosed, RestTyped, Statuses
<1>5. RestTyped'
  BY <1>1, <1>2, <1>3, <1>4, CallerFacts DEF RestTyped
<1>6. Placed' /\ Owned'
  BY <1>1, <1>2, <1>5, CallerFacts, InvMoves DEF RestTyped
<1>7. QED
  BY <1>1, <1>2, <1>3, <1>5, <1>6, SpeakKeeps DEF Control, Calm, Reading

\* The server is started again; nobody is left between context and command.
LEMMA RebootKeeps == ASSUME IInv, Reboot PROVE IInv'
<1>1. /\ environ' = Boot /\ context' = None /\ counter' = [r \in Runs |-> 0]
      /\ faults < MaxFaults /\ faults' = faults + 1
      /\ inv' = [t \in Threads |-> IF inv[t] = Idle THEN Idle ELSE Over(inv[t], "done")]
      /\ UNCHANGED <<worker, keeper, session, signal, browser, events, closing, contested, odd>>
  BY DEF Reboot
<1>2. /\ Typed /\ RestTyped /\ inv \in [Threads -> Invs] /\ Boot \in Environs
      /\ Idle \in Invs /\ Idle.at = "idle"
  BY LiveRunAssumption DEF IInv, Typed, RestTyped, Boot, Environs, Modes, Idle, Invs, InvStages
<1>3. ASSUME NEW t \in Threads
      PROVE  /\ inv'[t] \in Invs /\ (inv[t].at = "idle" <=> inv'[t].at = "idle")
             /\ inv'[t].at \in {"idle", "done"} /\ (inv[t].at = "idle" => inv'[t] = Idle)
             /\ inv[t].at # "idle" => inv'[t].run = inv[t].run
             /\ inv'[t].at = "idle" => inv[t] = Idle
  <2>1. CASE inv[t] = Idle
    BY <1>1, <1>2, <2>1
  <2>2. CASE inv[t] # Idle
    <3>1. inv[t].at # "idle" /\ inv[t] \in Invs
      BY <2>2, CallerFacts DEF PlacedAt
    <3>2. inv'[t] = Over(inv[t], "done")
      BY <1>1, <2>2
    <3>3. QED
      BY <3>1, <3>2, OverFacts DEF InvStages
  <2>3. QED
    BY <2>1, <2>2
<1>4. inv' \in [Threads -> Invs]
  <2>1. inv' = [t \in Threads |-> inv'[t]]
    BY <1>1
  <2>2. \A t \in Threads : inv'[t] \in Invs
    BY <1>3
  <2>3. QED
    BY <2>1, <2>2
<1>5. faults' \in 0..MaxFaults
  BY <1>1, <1>2, LiveRunAssumption DEF RestTyped
<1>6. RestTyped'
  BY <1>1, <1>2, <1>4, <1>5 DEF RestTyped
<1>7. ASSUME NEW t \in Threads PROVE PlacedAt(t)' /\ OwnedAt(t)'
  <2>1. PlacedAt(t) /\ OwnedAt(t)
    BY CallerFacts
  <2>2. PlacedAt(t)'
    BY <1>1, <1>3, <2>1 DEF PlacedAt
  <2>3. OwnedAt(t)'
    BY <1>1, <1>3, <2>1 DEF PlacedAt, OwnedAt
  <2>4. QED
    BY <2>2, <2>3
<1>8. Placed' /\ Owned'
  BY <1>7 DEF Placed, Owned
<1>9. FilesTyped' /\ counter' \in [Runs -> Nat] /\ \A r \in Runs : counter'[r] <= counter[r]
  BY <1>1, <1>2 DEF Typed, FilesTyped
<1>10. Calm /\ Growing
  BY <1>1 DEF Calm, Growing, Reading
<1>11. Numbered' /\ Ordered'
  BY <1>1, <1>9, <1>10, FilesUntouched
<1>12. QED
  BY <1>6, <1>8, <1>9, <1>11 DEF IInv, Typed

-----------------------------------------------------------------------------
LEMMA GoneFacts ==
  ASSUME NEW w \in Workers
  PROVE  Gone(w) \in Workers /\ Gone(w).at = "gone" /\ Gone(w).run = w.run
<1>1. 0 \in 0..MaxLines
  BY LiveRunAssumption
<1>2. QED
  BY <1>1 DEF Gone, NoWorker, Workers, WorkerStages

\* A worker that goes on without the event file.
LEMMA WorkerStepKeeps ==
  ASSUME IInv, NEW t \in Threads, NEW w \in Workers, worker' = [worker EXCEPT ![t] = w],
         UNCHANGED <<environ, inv, context, counter, contested, keeper, events, closing>>,
         worker[t].at # "none", w.at \notin {"none", "reading"}, w.run = worker[t].run,
         session' \in [Runs -> Statuses \union {None}], browser' \subseteq Runs,
         signal' = signal, faults' \in 0..MaxFaults,
         odd' \in [Runs -> SUBSET {"crossed", "misstated"}], Growing
  PROVE  IInv'
<1>1. keeper' = [keeper EXCEPT ![t] = keeper[t]] /\ keeper[t] \in KeeperStages
  BY CallerFacts
<1>2. Placed' /\ Owned'
  BY <1>1, WorkerMoves
<1>3. RestTyped'
  BY CallerFacts DEF RestTyped
<1>4. Calm
  BY CallerFacts DEF Calm, Reading
<1>5. QED
  BY <1>2, <1>3, <1>4, SilentKeeps DEF Control

LEMMA WorkersKeep ==
  ASSUME IInv, NEW t \in Threads,
         \/ WorkQuietly(t) \/ Launch(t) \/ LaunchFails(t) \/ AttachFails(t)
         \/ CloseContext(t) \/ WriteClosed(t)
  PROVE  IInv'
<1>1. UNCHANGED <<environ, inv, context, counter, contested, keeper, events, closing>> /\ signal' = signal
  BY DEF WorkQuietly, Launch, LaunchFails, AttachFails, CloseContext, WriteClosed
<1>2. worker[t].at # "none" /\ worker[t] \in Workers /\ worker[t].run \in Runs
  BY CallerFacts DEF WorkQuietly, Launch, LaunchFails, AttachFails, CloseContext, WriteClosed, PlacedAt
<1>3. PICK w \in {Gone(worker[t]), [worker[t] EXCEPT !.at = "acting"],
                  [worker[t] EXCEPT !.at = "leaving"]} : worker' = [worker EXCEPT ![t] = w]
  BY DEF WorkQuietly, Launch, LaunchFails, AttachFails, CloseContext, WriteClosed
<1>4. w \in Workers /\ w.at \notin {"none", "reading"} /\ w.run = worker[t].run
  <2>1. CASE w = Gone(worker[t])
    BY <1>2, <2>1, GoneFacts
  <2>2. CASE w # Gone(worker[t])
    BY <1>2, <1>3, <2>2 DEF Workers, WorkerStages
  <2>3. QED
    BY <2>1, <2>2
<1>5. session' \in [Runs -> Statuses \union {None}]
  BY <1>2, CallerFacts DEF RestTyped, Statuses, WorkQuietly, Launch, LaunchFails, AttachFails,
                          CloseContext, WriteClosed
<1>6. browser' \subseteq Runs
  BY <1>2, CallerFacts DEF RestTyped, WorkQuietly, Launch, LaunchFails, AttachFails,
                          CloseContext, WriteClosed
<1>7. faults' \in 0..MaxFaults
  <2>1. faults' = faults \/ (faults < MaxFaults /\ faults' = faults + 1)
    BY DEF WorkQuietly, Launch, LaunchFails, AttachFails,
                          CloseContext, WriteClosed
  <2>2. faults \in 0..MaxFaults
    BY CallerFacts DEF RestTyped
  <2>3. QED
    BY <2>1, <2>2, LiveRunAssumption
<1>8. odd' \in [Runs -> SUBSET {"crossed", "misstated"}] /\ Growing
  BY <1>2, CallerFacts DEF RestTyped, Misstated, Growing, WorkQuietly, Launch, LaunchFails,
                          AttachFails, CloseContext, WriteClosed
<1>9. QED
  BY <1>1, <1>2, <1>3, <1>4, <1>5, <1>6, <1>7, <1>8, WorkerStepKeeps

\* A worker reads the greatest number of its file: no other is between.
LEMMA ReadSequenceKeeps == ASSUME IInv, NEW t \in Threads, ReadSequence(t) PROVE IInv'
<1> DEFINE r == worker[t].run
           n == NextOfWorker(events[r])
           w == [worker[t] EXCEPT !.at = "reading", !.seq = n]
<1>1. /\ worker[t].at = "acting" /\ worker[t].lines < MaxLines /\ ~Between(r)
      /\ worker' = [worker EXCEPT ![t] = w]
      /\ UNCHANGED <<environ, context, counter, inv, keeper, session, signal, browser, events,
                     closing, contested, odd, faults>>
  BY DEF ReadSequence
<1>2. worker[t] \in Workers /\ r \in Runs /\ worker \in [Threads -> Workers]
  BY <1>1, CallerFacts DEF PlacedAt
<1>3. /\ n \in Nat /\ n >= 1 /\ n <= Len(events[r]) + 1
      /\ \A i \in 1..Len(events[r]) : events[r][i].seq < n
  BY <1>2, NextFacts
<1> HIDE DEF n
<1>4. w \in Workers /\ w.at = "reading" /\ w.run = r /\ w.seq = n /\ w.lines < MaxLines
  BY <1>1, <1>2, <1>3 DEF Workers, WorkerStages
<1> HIDE DEF w
<1>5. worker'[t] = w /\ \A u \in Threads \ {t} : worker'[u] = worker[u]
  BY <1>1, <1>2
<1>6. RestTyped'
  BY <1>1, <1>4, CallerFacts DEF RestTyped
<1>7. Placed' /\ Owned'
  <2>1. keeper' = [keeper EXCEPT ![t] = keeper[t]] /\ keeper[t] \in KeeperStages
    BY <1>1, CallerFacts
  <2>2. QED
    BY <1>1, <1>4, <2>1, WorkerMoves
<1>8. \A u \in Threads \ {t} : ~(Reading(u) /\ worker[u].run = r)
  BY <1>1 DEF Between, Reading
<1>9. Numbered'
  <2>1. \A x \in Runs : NumberedIn(x)'
    BY <1>1 DEF IInv, Numbered, NumberedIn
  <2>2. ASSUME NEW u \in Threads, Reading(u)'
        PROVE  worker'[u].seq >= 1 /\ worker'[u].seq <= Len(events'[worker'[u].run]) + 1
    <3>1. CASE u = t
      BY <1>1, <1>3, <1>4, <1>5, <3>1
    <3>2. CASE u # t
      BY <1>1, <1>5, <2>2, <3>2 DEF IInv, Numbered, Reading
    <3>3. QED
      BY <3>1, <3>2
  <2>3. QED
    BY <2>1, <2>2 DEF Numbered
<1>10. Ordered'
  <2>1. Alone'
    BY <1>4, <1>5, <1>8 DEF IInv, Ordered, Alone, Reading
  <2>2. ASSUME NEW x \in Runs, "crossed" \notin odd'[x] PROVE OrderedIn(x)'
    <3>1. OrderedIn(x)
      BY <1>1, <2>2 DEF IInv, Ordered
    <3>2. ASSUME NEW u \in Threads, Reading(u)', worker'[u].run = x,
                 NEW i \in 1..Len(events[x])
          PROVE  events[x][i].seq < worker'[u].seq
      <4>1. CASE u = t
        BY <1>3, <1>4, <1>5, <3>2, <4>1
      <4>2. CASE u # t
        BY <1>5, <3>1, <3>2, <4>2 DEF OrderedIn, Reading
      <4>3. QED
        BY <4>1, <4>2
    <3>3. QED
      BY <1>1, <3>1, <3>2 DEF OrderedIn
  <2>3. QED
    BY <2>1, <2>2 DEF Ordered
<1>11. FilesTyped'
  BY <1>1 DEF IInv, Typed, FilesTyped
<1>12. QED
  BY <1>6, <1>7, <1>9, <1>10, <1>11 DEF IInv, Typed

\* ... and appends its line after all of them.
LEMMA WriteEventKeeps == ASSUME IInv, NEW t \in Threads, WriteEvent(t) PROVE IInv'
<1> DEFINE r == worker[t].run
           w == [worker[t] EXCEPT !.at = "acting", !.lines = @ + 1, !.seq = 0]
<1>1. /\ worker[t].at = "reading" /\ worker' = [worker EXCEPT ![t] = w]
      /\ events' = [events EXCEPT ![r] = Append(@, Line(worker[t].seq, "worker"))]
      /\ session' = IF worker[t].lines = 0 THEN [session EXCEPT ![r] = "ACTIVE"] ELSE session
      /\ UNCHANGED <<environ, context, counter, inv, keeper, signal, browser, closing, contested,
                     odd, faults>>
  BY DEF WriteEvent
<1>2. /\ worker[t] \in Workers /\ r \in Runs /\ worker \in [Threads -> Workers]
      /\ worker[t].lines < MaxLines /\ worker[t].lines \in 0..MaxLines /\ worker[t].seq \in Nat
  BY <1>1, CallerFacts DEF PlacedAt, Workers
<1>3. w \in Workers /\ w.at = "acting" /\ w.run = r
  <2>1. worker[t].lines + 1 \in 0..MaxLines
    BY <1>2, LiveRunAssumption
  <2>2. QED
    BY <1>2, <2>1 DEF Workers, WorkerStages
<1> HIDE DEF w
<1>4. worker'[t] = w /\ \A u \in Threads \ {t} : worker'[u] = worker[u]
  BY <1>1, <1>2
<1>5. /\ worker[t].seq >= 1 /\ worker[t].seq <= Len(events[r]) + 1
      /\ "crossed" \notin odd[r] => \A i \in 1..Len(events[r]) : events[r][i].seq < worker[t].seq
  BY <1>1, <1>2 DEF IInv, Numbered, Ordered, OrderedIn, Reading
<1>6. \A u \in Threads : Reading(u)' => Reading(u) /\ worker'[u] = worker[u] /\ worker[u].run # r
  BY <1>1, <1>3, <1>4 DEF IInv, Ordered, Alone, Reading
<1>7. FilesTyped' /\ Numbered' /\ Ordered'
  BY <1>1, <1>2, <1>5, <1>6, WriteKeeps
<1>8. RestTyped'
  BY <1>1, <1>2, <1>3, CallerFacts DEF RestTyped, Statuses
<1>9. Placed' /\ Owned'
  <2>1. keeper' = [keeper EXCEPT ![t] = keeper[t]] /\ keeper[t] \in KeeperStages
    BY <1>1, CallerFacts
  <2>2. QED
    BY <1>1, <1>3, <2>1, WorkerMoves
<1>10. QED
  BY <1>7, <1>8, <1>9 DEF IInv, Typed

\* noteKeepOpenBrowserLeftRunning reads and appends while no other is between.
LEMMA LeaveOpenKeeps == ASSUME IInv, NEW t \in Threads, LeaveOpen(t) PROVE IInv'
<1> DEFINE r == worker[t].run
           n == NextOfWorker(events[r])
           w == Gone(worker[t])
<1>1. /\ worker[t].at = "acting" /\ ~Between(r) /\ worker' = [worker EXCEPT ![t] = w]
      /\ keeper' = [keeper EXCEPT ![t] = "watching"]
      /\ events' = [events EXCEPT ![r] = Append(@, Line(NextOfWorker(@), "worker"))]
      /\ session' = [session EXCEPT ![r] = "ACTIVE"]
      /\ UNCHANGED <<environ, context, counter, inv, signal, browser, closing, contested, odd, faults>>
  BY DEF LeaveOpen
<1>2. /\ worker[t] \in Workers /\ r \in Runs /\ worker \in [Threads -> Workers]
      /\ events \in [Runs -> Files]
  BY <1>1, CallerFacts DEF PlacedAt, IInv, Typed, FilesTyped
<1>3. w \in Workers /\ w.at = "gone" /\ w.run = r
  BY <1>2, GoneFacts
<1>4. /\ n \in Nat /\ n >= 1 /\ n <= Len(events[r]) + 1
      /\ \A i \in 1..Len(events[r]) : events[r][i].seq < n
  BY <1>2, NextFacts
<1>5. events' = [events EXCEPT ![r] = Append(@, Line(n, "worker"))]
  BY <1>1, <1>2
<1> HIDE DEF w, n
<1>6. worker'[t] = w /\ \A u \in Threads \ {t} : worker'[u] = worker[u]
  BY <1>1, <1>2
<1>7. \A u \in Threads : Reading(u)' => Reading(u) /\ worker'[u] = worker[u] /\ worker[u].run # r
  BY <1>1, <1>3, <1>6 DEF Between, Reading
<1>8. FilesTyped' /\ Numbered' /\ Ordered'
  BY <1>1, <1>2, <1>4, <1>5, <1>7, WriteKeeps
<1>9. RestTyped'
  BY <1>1, <1>2, <1>3, CallerFacts DEF RestTyped, Statuses, KeeperStages
<1>10. Placed' /\ Owned'
  BY <1>1, <1>3, WorkerMoves DEF KeeperStages
<1>11. QED
  BY <1>8, <1>9, <1>10 DEF IInv, Typed

-----------------------------------------------------------------------------
\* The keeper and the close route write no event.
LEMMA KeepersKeep ==
  ASSUME IInv, NEW t \in Threads,
         KeeperSees(t) \/ KeeperMarks(t) \/ \E deaf \in BOOLEAN : KeeperCloses(t, deaf)
  PROVE  IInv'
<1>1. UNCHANGED <<environ, context, counter, inv, worker, events, closing, contested>>
  BY DEF KeeperSees, KeeperMarks, KeeperCloses
<1>2. keeper[t] # "none"
  BY DEF KeeperSees, KeeperMarks, KeeperCloses
<1>3. worker[t].at # "none" /\ worker[t].run \in Runs /\ worker[t] \in Workers
  BY <1>2, CallerFacts DEF PlacedAt
<1>4. PICK k \in KeeperStages : keeper' = [keeper EXCEPT ![t] = k]
  BY DEF KeeperSees, KeeperMarks, KeeperCloses, KeeperStages
<1>5. session' \in [Runs -> Statuses \union {None}] /\ signal' \subseteq Watched
  BY <1>3, CallerFacts DEF RestTyped, Statuses, KeeperSees, KeeperMarks, KeeperCloses, MarkClosed
<1>6. browser' \subseteq Runs
  BY CallerFacts DEF RestTyped, KeeperSees, KeeperMarks, KeeperCloses
<1>7. faults' \in 0..MaxFaults
  <2>1. faults' = faults \/ (faults < MaxFaults /\ faults' = faults + 1)
    BY DEF KeeperSees, KeeperMarks, KeeperCloses
  <2>2. faults \in 0..MaxFaults
    BY CallerFacts DEF RestTyped
  <2>3. QED
    BY <2>1, <2>2, LiveRunAssumption
<1>8. odd' \in [Runs -> SUBSET {"crossed", "misstated"}] /\ Growing
  BY <1>3, CallerFacts DEF RestTyped, Growing, Misstated, KeeperSees, KeeperMarks, KeeperCloses
<1>9. RestTyped'
  BY <1>1, <1>4, <1>5, <1>6, <1>7, <1>8, CallerFacts DEF RestTyped
<1>10. Placed' /\ Owned'
  <2>1. worker' = [worker EXCEPT ![t] = worker[t]]
    BY <1>1, CallerFacts
  <2>2. worker[t].at = "reading" => worker[t].lines < MaxLines
    BY CallerFacts DEF PlacedAt
  <2>3. QED
    BY <1>1, <1>3, <1>4, <2>1, <2>2, WorkerMoves
<1>11. QED
  BY <1>1, <1>8, <1>9, <1>10, SilentKeeps DEF Control, Calm, Reading

LEMMA ClosingKeeps ==
  ASSUME IInv, NEW r \in Watched, CloseReads(r) \/ CloseSignals(r) PROVE IInv'
<1>1. UNCHANGED <<environ, context, counter, inv, worker, keeper, session, browser, events,
                  contested, odd, faults>>
  BY DEF CloseReads, CloseSignals
<1>2. closing' \subseteq Watched /\ signal' \subseteq Watched
  BY DEF CloseReads, CloseSignals, IInv, Typed, RestTyped
<1>3. Control'
  BY <1>1, <1>2 DEF Control, IInv, Typed, RestTyped, Placed, PlacedAt, Owned, OwnedAt
<1>4. QED
  BY <1>1, <1>3, SilentKeeps DEF Calm, Growing, Reading

LEMMA StepIInv == IInv /\ [Next]_vars => IInv'
<1> SUFFICES ASSUME IInv, [Next]_vars PROVE IInv'
  OBVIOUS
<1>1. CASE UNCHANGED vars
  <2>1. Control'
    BY <1>1 DEF vars, Control, IInv, Typed, RestTyped, Placed, PlacedAt, Owned, OwnedAt
  <2>2. QED
    BY <1>1, <2>1, SilentKeeps DEF vars, Calm, Growing, Reading
<1>2. ASSUME NEW t \in Threads, ThreadNext(t) \/ AfterCommand(t, TRUE) PROVE IInv'
  BY <1>2, NoExecutionKeeps, SetContextKeeps, RunSelectionKeeps, RunCommandKeeps,
     AfterCommandKeeps, FinalizeKeeps DEF ThreadNext
<1>3. ASSUME NEW t \in Threads, WorkerNext(t) PROVE IInv'
  BY <1>3, WorkersKeep, ReadSequenceKeeps, WriteEventKeeps, LeaveOpenKeeps DEF WorkerNext
<1>4. ASSUME NEW t \in Threads, KeeperNext(t) \/ KeeperCloses(t, TRUE) PROVE IInv'
  BY <1>4, KeepersKeep DEF KeeperNext
<1>5. QED
  BY <1>1, <1>2, <1>3, <1>4, AcceptKeeps, ResumeKeeps, ClosingKeeps, RebootKeeps DEF Next

LEMMA Invariance == Spec => []IInv
BY InitIInv, StepIInv, PTL DEF Spec

-----------------------------------------------------------------------------
\* Every variable stays in its domain, and a number in an event file is at most
\* the file's length, whichever of the two programs took it.
THEOREM TypeCorrect == Spec => []TypeOK
<1>1. IInv => TypeOK
  <2> SUFFICES ASSUME IInv PROVE TypeOK
    OBVIOUS
  <2>1. RestTyped /\ FilesTyped /\ Numbered
    BY DEF IInv, Typed
  <2>2. \A t \in Threads :
          /\ inv[t].at \in InvStages /\ inv[t].run \in Runs \union {None} /\ inv[t].skip \in BOOLEAN
          /\ inv[t].live \in BOOLEAN /\ inv[t].keep \in BOOLEAN
          /\ worker[t].at \in WorkerStages /\ worker[t].run \in Runs \union {None}
          /\ worker[t].lines \in 0..MaxLines /\ keeper[t] \in KeeperStages
    BY CallerFacts DEF Invs, Workers
  <2>3. \A r \in Runs :
          /\ \A i \in 1..Len(events[r]) : events[r][i].seq \in 1..Len(events[r])
          /\ odd[r] \subseteq {"crossed", "misstated"}
    BY <2>1 DEF Numbered, NumberedIn, RestTyped
  <2>4. QED
    BY <2>1, <2>2, <2>3
       DEF TypeOK, RestTyped, FilesTyped, Environs, InvStages, WorkerStages, KeeperStages
<1>2. QED
  BY <1>1, Invariance, PTL

\* An execution runs under the id of its own run, unless another invocation set
\* the shared runner's context before it was used.
THEOREM ContextsAreOwn == Spec => []OwnContext
<1>1. IInv => OwnContext
  BY DEF IInv, Owned, OwnedAt, OwnContext
<1>2. QED
  BY <1>1, Invariance, PTL

\* The stream delivers every line of the browser that it has read, unless the
\* server wrote between a worker's read and its write.
THEOREM BrowserLinesArrive == Spec => []WorkerLinesSeen
<1>1. IInv => WorkerLinesSeen
  <2> SUFFICES ASSUME IInv, NEW r \in Runs, "crossed" \notin odd[r],
                      NEW size \in 0..Len(events[r]), NEW i \in (size + 1)..Len(events[r]),
                      events[r][i].by = "worker"
               PROVE  i \in Delivered(events[r], MaxSequence(SubSeq(events[r], 1, size)))
    BY DEF WorkerLinesSeen
  <2> DEFINE file == events[r]
             read == SubSeq(file, 1, size)
  <2>1. file \in Files /\ Len(file) \in Nat
        /\ \A j \in 1..Len(file) : file[j] \in Lines /\ file[j].seq \in Nat
    BY LineFacts DEF IInv, Typed, FilesTyped
  <2>2. \A j \in 1..Len(file) : file[j].seq \in 1..Len(file)
    BY DEF IInv, Numbered, NumberedIn
  <2>3. \A j \in 1..(i - 1) : file[j].seq < file[i].seq
    BY DEF IInv, Ordered, OrderedIn
  <2> HIDE DEF file
  <2>4. size \in Int /\ size >= 0 /\ size <= Len(file) /\ i \in 1..Len(file) /\ size < i
    BY <2>1 DEF file
  <2>5. /\ read \in Seq(Lines) /\ Len(read) = size
        /\ \A j \in 1..size : read[j] = file[j]
    <3>1. \A j \in 1..size : file[j] \in Lines
      BY <2>1, <2>4
    <3>2. /\ read \in Seq(Lines) /\ Len(read) = (IF 1 <= size THEN size - 1 + 1 ELSE 0)
          /\ \A j \in 1..(size - 1 + 1) : read[j] = file[1 + j - 1]
      BY <2>4, <3>1, SubSeqProperties
    <3>3. QED
      BY <2>4, <3>2
  <2> HIDE DEF read
  <2>6. read \in Files /\ \A j \in 1..Len(read) : read[j].seq <= Len(file)
    BY <2>1, <2>2, <2>4, <2>5 DEF Files
  <2>7. /\ MaxSequence(read) \in Nat
        /\ MaxSequence(read) = 0 \/ \E j \in 1..Len(read) : read[j].seq = MaxSequence(read)
    BY <2>1, <2>6, MaxSequenceFacts
  <2>8. file[i].seq > MaxSequence(read)
    BY <2>1, <2>2, <2>3, <2>4, <2>5, <2>7
  <2>9. i \in Delivered(file, MaxSequence(read))
    BY <2>3, <2>4, <2>8 DEF Delivered
  <2>10. QED
    BY <2>9 DEF file, read
<1>2. QED
  BY <1>1, Invariance, PTL
=============================================================================
