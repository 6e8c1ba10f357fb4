----------------------------- MODULE StoreProofs -----------------------------
(***************************************************************************)
(* The two stores for any number of threads, processes and tasks.          *)
(* FileLock, the orchestrator's: the inductive invariant, mutual           *)
(* exclusion, no lost update, and the refinement of AtomicStore.           *)
(* ConsoleStore, the console's, in the second half: types, and the         *)
(* refinement of AtomicStore while nothing goes wrong.  Both have a lock   *)
(* file, labels, what was read and a document: the instance Console reads  *)
(* FileLock's variables of these names as the console's.                   *)
(***************************************************************************)
EXTENDS FileLock, TLAPS

CONSTANTS LongWaits, Crashes, FileErrors, FirstBoot  \* the switches of ConsoleStore

Console == INSTANCE ConsoleStore WITH
             Tasks <- Threads, NoTask <- NoThread, Missing <- Torn

\* What a thread writes is a whole document, never a partial one.
LEMMA UpdatedIsWhole ==
  ASSUME TypeOK, NEW t \in Threads
  PROVE  Updated(t) \in SUBSET Threads
BY DEF TypeOK, Updated, Ops

LEMMA WholeIsNotUnfinished ==
  \A S \in SUBSET Threads : S # Unfinished
BY ContentAssumption DEF Unfinished

LEMMA InitIInv == Init => IInv
<1> SUFFICES ASSUME Init PROVE IInv
  OBVIOUS
<1>1. TypeOK
  BY ThreadsAssumption DEF Init, TypeOK, Content, Unfinished
<1>2. HolderOwnsLock /\ PendingOp /\ LoadsMutate /\ NoLostUpdate /\ OwnTmp
  BY DEF Init, HolderOwnsLock, PendingOp, LoadsMutate, NoLostUpdate, OwnTmp,
         InCritical, Critical, Waiting
<1>3. WholeDoc
  BY WholeIsNotUnfinished DEF Init, WholeDoc
<1>4. QED
  BY <1>1, <1>2, <1>3 DEF IInv

\* Types are kept by every step.
LEMMA StepTypeOK == TypeOK /\ [Next]_vars => TypeOK'
<1> SUFFICES ASSUME TypeOK, [Next]_vars PROVE TypeOK'
  OBVIOUS
<1> USE ThreadsAssumption DEF TypeOK
<1>1. ASSUME NEW t \in Threads, NEW o \in Ops, Begin(t, o) PROVE TypeOK'
  BY <1>1 DEF Begin, Goto, Waiting
<1>2. ASSUME NEW t \in Threads, Step(t) PROVE TypeOK'
  <2>1. CASE Acquire(t)
    BY <2>1 DEF Acquire, Goto, Critical
  <2>2. CASE Busy(t)
    BY <2>2 DEF Busy, Goto, Waiting
  <2>3. CASE Timeout(t)
    BY <2>3 DEF Timeout, Goto, EndOps
  <2>4. CASE Load(t)
    BY <2>4 DEF Load, Goto, Critical, Content
  <2>5. CASE OpenTmp(t)
    BY <2>5 DEF OpenTmp, Goto, Critical, Content
  <2>6. CASE WriteTmp(t)
    BY <2>6, UpdatedIsWhole DEF WriteTmp, Goto, Critical, Content
  <2>7. CASE Replace(t)
    BY <2>7 DEF Replace, Goto, EndOps, Critical, Content
  <2>8. CASE Fail(t)
    BY <2>8 DEF Fail, Goto, EndOps, Critical
  <2>9. CASE Release(t)
    BY <2>9 DEF Release, Goto
  <2> QED
    BY <1>2, <2>1, <2>2, <2>3, <2>4, <2>5, <2>6, <2>7, <2>8, <2>9 DEF Step
<1>6. ASSUME NEW t \in Threads, CreateRaises(t) PROVE TypeOK'
  BY <1>6 DEF CreateRaises, Goto, EndOps
<1>3. ASSUME NEW p \in Pids, Crash(p) PROVE TypeOK'
  BY <1>3 DEF Crash, EndOps
<1>4. ASSUME NEW p \in Pids, Restart(p) PROVE TypeOK'
  BY <1>4 DEF Restart
<1>5. CASE UNCHANGED vars
  BY <1>5 DEF vars
<1> QED
  BY <1>1, <1>2, <1>3, <1>4, <1>5, <1>6 DEF Next

\* The other conjuncts are kept by every step.  Mutual exclusion does the
\* work: nobody else can replace the document or touch the shared temporary
\* file between a thread's read and its os.replace.
LEMMA StepIInv == IInv /\ [Next]_vars => IInv'
<1> SUFFICES ASSUME IInv, [Next]_vars PROVE IInv'
  OBVIOUS
<1>0. TypeOK'
  BY StepTypeOK DEF IInv
<1> DEFINE Rest == HolderOwnsLock /\ WholeDoc /\ PendingOp /\ LoadsMutate
                   /\ NoLostUpdate /\ OwnTmp
<1> USE DEF TypeOK, HolderOwnsLock, WholeDoc, PendingOp, LoadsMutate, NoLostUpdate,
            OwnTmp, InCritical, Critical, Waiting, IInv
<1>1. ASSUME NEW t \in Threads, NEW o \in Ops, Begin(t, o) PROVE Rest'
  BY <1>1 DEF Begin, Goto, Ops, Updated
<1>2. ASSUME NEW t \in Threads, Step(t) PROVE Rest'
  <2> USE ThreadsAssumption
  <2>1. CASE Acquire(t)
    BY <2>1 DEF Acquire, Goto, Ops, Updated
  <2>2. CASE Busy(t)
    BY <2>2 DEF Busy, Goto, Updated
  <2>3. CASE Timeout(t)
    BY <2>3 DEF Timeout, Goto, EndOps, Updated
  <2>4. CASE Load(t)
    BY <2>4 DEF Load, Goto, Updated
  <2>5. CASE OpenTmp(t)
    BY <2>5 DEF OpenTmp, Goto, Updated
  <2>6. CASE WriteTmp(t)
    BY <2>6 DEF WriteTmp, Goto, Updated
  <2>7. CASE Replace(t)
    <3>1. tmp[PidOf[t]] # Unfinished
      BY <2>7, UpdatedIsWhole, WholeIsNotUnfinished DEF Replace
    <3>2. QED
      BY <2>7, <3>1 DEF Replace, Goto, EndOps, Updated
  <2>8. CASE Fail(t)
    BY <2>8 DEF Fail, Goto, EndOps, Updated
  <2>9. CASE Release(t)
    BY <2>9 DEF Release, Goto, Updated
  <2> QED
    BY <1>2, <2>1, <2>2, <2>3, <2>4, <2>5, <2>6, <2>7, <2>8, <2>9 DEF Step
<1>6. ASSUME NEW t \in Threads, CreateRaises(t) PROVE Rest'
  BY <1>6, ThreadsAssumption DEF CreateRaises, Goto, EndOps, Updated
<1>3. ASSUME NEW p \in Pids, Crash(p) PROVE Rest'
  BY <1>3 DEF Crash, EndOps, Updated
<1>4. ASSUME NEW p \in Pids, Restart(p) PROVE Rest'
  BY <1>4 DEF Restart, Updated, ThreadsOf
<1>5. CASE UNCHANGED vars
  BY <1>5 DEF vars, Updated
<1> QED
  BY <1>0, <1>1, <1>2, <1>3, <1>4, <1>5, <1>6 DEF Next

\* The inductive invariant holds in every reachable state.
THEOREM Inductive == Spec => []IInv
BY InitIInv, StepIInv, PTL DEF Spec

\* Every variable keeps its type (fs_atomic.py file_lock, atomic_write_text).
THEOREM Typing == Spec => []TypeOK
BY Inductive, PTL DEF IInv

\* At most one thread is between creating and unlinking the lock file.
THEOREM LockIsExclusive == Spec => []MutualExclusion
<1>1. IInv => MutualExclusion
  BY DEF IInv, HolderOwnsLock, MutualExclusion
<1> QED
  BY <1>1, Inductive, PTL

\* A mutation never overwrites a document it has not read.
THEOREM UpdatesAreKept == Spec => []NoLostUpdate
BY Inductive, PTL DEF IInv

\* os.replace publishes the thread's own text.
THEOREM TmpIsOwn == Spec => []OwnTmp
BY Inductive, PTL DEF IInv

-----------------------------------------------------------------------------
\* A step of the lock protocol is a step of the store it promises, or none.
LEMMA StepRefines == IInv /\ [Next]_vars => [Store!Next]_<<doc, op>>
<1> SUFFICES ASSUME IInv, [Next]_vars PROVE [Store!Next]_<<doc, op>>
  OBVIOUS
<1> USE DEF IInv, TypeOK, PendingOp, Critical, Waiting
<1>1. ASSUME NEW t \in Threads, NEW o \in Ops, Begin(t, o) PROVE Store!Next
  <2>1. o \in Store!Ops
    BY DEF Ops, Store!Ops
  <2>2. Store!Request(t, o)
    BY <1>1 DEF Begin, Store!Request
  <2> QED
    BY <2>1, <2>2 DEF Store!Next
<1>2. ASSUME NEW t \in Threads, Step(t) PROVE [Store!Next]_<<doc, op>>
  <2>1. ASSUME Timeout(t) \/ Fail(t) PROVE Store!Next
    <3>1. Store!Drop({t})
      BY <2>1 DEF Timeout, Fail, EndOps, Store!Drop
    <3> QED
      BY <3>1 DEF Store!Next
  <2>2. ASSUME Replace(t) PROVE Store!Next
    <3>1. op[t] # "none" /\ doc' = Updated(t)
      BY <2>2 DEF Replace, OwnTmp
    <3>2. doc' = IF op[t] = "mutate" THEN doc \cup {t} ELSE {t}
      BY <2>2, <3>1 DEF Replace, NoLostUpdate, Updated
    <3>3. op' = [op EXCEPT ![t] = "none"]
      BY <2>2 DEF Replace, EndOps
    <3>4. Store!Apply(t)
      BY <3>1, <3>2, <3>3 DEF Store!Apply
    <3> QED
      BY <3>4 DEF Store!Next
  <2>3. ASSUME Acquire(t) \/ Busy(t) \/ Load(t) \/ OpenTmp(t) \/ WriteTmp(t) \/ Release(t)
        PROVE  UNCHANGED <<doc, op>>
    BY <2>3 DEF Acquire, Busy, Load, OpenTmp, WriteTmp, Release
  <2> QED
    BY <1>2, <2>1, <2>2, <2>3 DEF Step
<1>6. ASSUME NEW t \in Threads, CreateRaises(t) PROVE Store!Next
  <2>1. Store!Drop({t})
    BY <1>6 DEF CreateRaises, EndOps, Store!Drop
  <2> QED
    BY <2>1 DEF Store!Next
<1>3. ASSUME NEW p \in Pids, Crash(p) PROVE Store!Next
  <2>1. Store!Drop(ThreadsOf(p))
    BY <1>3 DEF Crash, EndOps, Store!Drop
  <2>2. ThreadsOf(p) \in SUBSET Threads
    BY DEF ThreadsOf
  <2> QED
    BY <2>1, <2>2 DEF Store!Next
<1>4. ASSUME NEW p \in Pids, Restart(p) PROVE UNCHANGED <<doc, op>>
  BY <1>4 DEF Restart
<1>5. CASE UNCHANGED vars
  BY <1>5 DEF vars
<1> QED
  BY <1>1, <1>2, <1>3, <1>4, <1>5, <1>6 DEF Next

\* Readers and writers see an atomic store: the lock, the temporary file and
\* os.replace together make every request one indivisible change or none.
THEOREM LockRefinesStore == Spec => ImplementsAtomicStore
<1>1. Init => Store!Init
  BY DEF Init, Store!Init
<1> QED
  BY <1>1, Inductive, StepRefines, PTL DEF Spec, Store!Spec, ImplementsAtomicStore
-----------------------------------------------------------------------------
(* The console's store. *)

LEMMA ConsoleInitTypeOK == Console!Init => Console!TypeOK
BY DEF Console!Init, Console!TypeOK, Console!Unreadable

LEMMA ConsoleStepTypeOK == Console!TypeOK /\ [Console!Next]_(Console!vars) => Console!TypeOK'
<1> SUFFICES ASSUME Console!TypeOK, [Console!Next]_(Console!vars) PROVE Console!TypeOK'
  OBVIOUS
<1> USE DEF Console!TypeOK, Console!Body, Console!Viewer, Console!Goto, Console!See
<1>1. ASSUME NEW t \in Threads, Console!Step(t) PROVE Console!TypeOK'
  <2>1. CASE Console!Acquire(t)
    BY <2>1 DEF Console!Acquire
  <2>2. CASE Console!Expire(t)
    BY <2>2 DEF Console!Expire
  <2>3. CASE Console!Read(t)
    BY <2>3 DEF Console!Read
  <2>4. CASE Console!WriteDefault(t)
    BY <2>4 DEF Console!WriteDefault
  <2>5. CASE Console!Write(t)
    BY <2>5 DEF Console!Write
  <2>6. CASE Console!Fail(t)
    BY <2>6 DEF Console!Fail
  <2>7. CASE Console!Release(t)
    BY <2>7 DEF Console!Release
  <2>8. CASE Console!ViewDefault(t)
    BY <2>8 DEF Console!ViewDefault
  <2> QED
    BY <1>1, <2>1, <2>2, <2>3, <2>4, <2>5, <2>6, <2>7, <2>8 DEF Console!Step
<1>2. ASSUME NEW t \in Threads, Console!Call(t) PROVE Console!TypeOK'
  BY <1>2 DEF Console!Call
<1>3. ASSUME NEW t \in Threads, Console!View(t) PROVE Console!TypeOK'
  BY <1>3 DEF Console!View
<1>4. CASE Console!Crash
  BY <1>4 DEF Console!Crash
<1>5. CASE Console!Restart
  BY <1>5 DEF Console!Restart
<1>6. CASE UNCHANGED Console!vars
  BY <1>6 DEF Console!vars
<1>7. ASSUME NEW t \in Threads, Console!CreateFails(t) PROVE Console!TypeOK'
  BY <1>7 DEF Console!CreateFails
<1> QED
  BY <1>1, <1>2, <1>3, <1>4, <1>5, <1>6, <1>7 DEF Console!Next

\* Whatever goes wrong, lock, labels, what was read and state.json stay in
\* their domains (apps/console/lib/fs-atomic.ts, store.ts).
THEOREM ConsoleTyping == Console!Spec => []Console!TypeOK
BY ConsoleInitTypeOK, ConsoleStepTypeOK, PTL DEF Console!Spec

\* Nobody has to wait for 30 s behind a live task, nothing is killed, no lock
\* file fails to be written or removed, and there is a state.json from the start.
Quiet == /\ LongWaits = FALSE /\ Crashes = FALSE
         /\ FileErrors = FALSE /\ FirstBoot = FALSE

\* Then the lock works: the one task in the body of mutateState is the creator
\* of the lock file, and what it read is still what is there.
QuietLock ==
  /\ Console!TypeOK
  /\ doc \in SUBSET Threads
  /\ \A t \in Threads : pc[t] \notin {"default", "down"} \cup Console!Viewer
  /\ lock # NoThread => pc[lock] \in Console!Body
  /\ \A t \in Threads : pc[t] \in Console!Body => lock = t
  /\ \A t \in Threads : pc[t] = "write" => seen[t] = doc

LEMMA QuietInit == Quiet /\ Console!Init => QuietLock
BY ConsoleInitTypeOK DEF Quiet, QuietLock, Console!Init, Console!Body, Console!Viewer

LEMMA ConsoleWholeIsReadable == \A S \in SUBSET Threads : S # Console!Unreadable
BY ContentAssumption DEF Console!Unreadable

\* A step of the console's store in quiet times keeps the lock working, and is
\* a step of the store it promises, or none.
LEMMA QuietStep ==
  ASSUME Quiet, QuietLock, [Console!Next]_(Console!vars)
  PROVE  QuietLock' /\ [Console!Store!Next]_<<doc, Console!Op>>
<1>0. Console!TypeOK /\ Console!TypeOK'
  BY ConsoleStepTypeOK DEF QuietLock
<1> DEFINE Rest == /\ doc \in SUBSET Threads
                   /\ \A t \in Threads : pc[t] \notin {"default", "down"} \cup Console!Viewer
                   /\ lock # NoThread => pc[lock] \in Console!Body
                   /\ \A t \in Threads : pc[t] \in Console!Body => lock = t
                   /\ \A t \in Threads : pc[t] = "write" => seen[t] = doc
           Same == UNCHANGED <<doc, Console!Op>>
           Mutating == {"trying", "read", "default", "write"}
<1>1. Rest
  BY DEF QuietLock
<1>2. QuietLock' <=> Rest'
  BY <1>0 DEF QuietLock
<1>3. /\ pc \in [Threads -> {"idle", "trying", "down"} \cup Console!Body \cup Console!Viewer]
      /\ pc' \in [Threads -> {"idle", "trying", "down"} \cup Console!Body \cup Console!Viewer]
      /\ seen \in [Threads -> SUBSET Threads]
      /\ lock \in Threads \cup {NoThread}
  BY <1>0 DEF Console!TypeOK
<1>4. NoThread \notin Threads
  BY ThreadsAssumption
<1>5. /\ Console!Op = [t \in Threads |-> IF pc[t] \in Mutating THEN "mutate" ELSE "none"]
      /\ Console!Op' = [t \in Threads |-> IF pc'[t] \in Mutating THEN "mutate" ELSE "none"]
  BY DEF Console!Op
<1> USE <1>1, <1>3, <1>4, <1>5 DEF Console!Body, Console!Viewer, Console!Goto, Console!See
<1>6. ASSUME NEW t \in Threads, Console!Call(t) PROVE Rest' /\ Console!Store!Next
  <2>1. Rest'
    BY <1>6 DEF Console!Call
  <2>2. Console!Store!Request(t, "mutate")
    BY <1>6 DEF Console!Call, Console!Store!Request
  <2>3. "mutate" \in Console!Store!Ops
    BY DEF Console!Store!Ops
  <2> QED
    BY <2>1, <2>2, <2>3 DEF Console!Store!Next
<1>7. ASSUME NEW t \in Threads, Console!View(t) PROVE FALSE
  BY <1>7, ConsoleWholeIsReadable DEF Console!View
<1>8. ASSUME NEW t \in Threads, Console!Step(t)
      PROVE  Rest' /\ [Console!Store!Next]_<<doc, Console!Op>>
  <2>1. CASE Console!Acquire(t)
    <3>1. Rest'
      BY <2>1 DEF Console!Acquire
    <3>2. Same
      BY <2>1 DEF Console!Acquire
    <3> QED
      BY <3>1, <3>2
  <2>2. ~Console!Expire(t)
    BY DEF Console!Expire, Console!HeldLive, Quiet
  <2>3. CASE Console!Read(t)
    <3>1. doc # Console!Unreadable
      BY ConsoleWholeIsReadable
    <3>2. Rest'
      BY <2>3, <3>1 DEF Console!Read
    <3>3. Same
      BY <2>3, <3>1 DEF Console!Read
    <3> QED
      BY <3>2, <3>3
  <2>4. ~Console!WriteDefault(t) /\ ~Console!ViewDefault(t)
    BY DEF Console!WriteDefault, Console!ViewDefault
  <2>5. CASE Console!Write(t)
    <3>1. Rest'
      BY <2>5 DEF Console!Write
    <3>2. Console!Op[t] = "mutate" /\ doc' = doc \cup {t}
      BY <2>5 DEF Console!Write
    <3>3. Console!Op' = [Console!Op EXCEPT ![t] = "none"]
      BY <2>5 DEF Console!Write
    <3>4. Console!Store!Apply(t)
      BY <3>2, <3>3 DEF Console!Store!Apply
    <3> QED
      BY <3>1, <3>4 DEF Console!Store!Next
  <2>6. CASE Console!Fail(t)
    <3>1. Rest'
      BY <2>6 DEF Console!Fail
    <3>2. Console!Store!Drop({t})
      BY <2>6 DEF Console!Fail, Console!Store!Drop
    <3> QED
      BY <3>1, <3>2 DEF Console!Store!Next
  <2>7. CASE Console!Release(t)
    <3>1. Rest'
      BY <2>7 DEF Console!Release, Quiet
    <3>2. Same
      BY <2>7 DEF Console!Release
    <3> QED
      BY <3>1, <3>2
  <2> QED
    BY <1>8, <2>1, <2>2, <2>3, <2>4, <2>5, <2>6, <2>7 DEF Console!Step
<1>9. ~Console!Crash /\ \A t \in Threads : ~Console!CreateFails(t)
  BY DEF Console!Crash, Console!CreateFails, Quiet
<1>10. ASSUME Console!Restart PROVE Rest' /\ Same
  <2>1. Threads = {}
    BY <1>10 DEF Console!Restart
  <2>2. Rest'
    BY <1>10, <2>1 DEF Console!Restart
  <2>3. Console!Op' = Console!Op
    BY <2>1
  <2> QED
    BY <1>10, <2>2, <2>3 DEF Console!Restart
<1>11. ASSUME UNCHANGED Console!vars PROVE Rest' /\ Same
  BY <1>11 DEF Console!vars
<1> HIDE <1>1, <1>3, <1>5 DEF Rest, Same
<1>12. Same => [Console!Store!Next]_<<doc, Console!Op>>
  BY DEF Same
<1> QED
  BY <1>2, <1>6, <1>7, <1>8, <1>9, <1>10, <1>11, <1>12 DEF Console!Next

\* While nothing goes wrong mutateState is one indivisible change of state.json
\* or none, although the lock has a deadline and its release removes any lock
\* file (apps/console/lib/fs-atomic.ts withFileLock, store.ts mutateState).
THEOREM ConsoleRefinesStore == Quiet => (Console!Spec => Console!ImplementsAtomicStore)
<1> SUFFICES ASSUME Quiet PROVE Console!Spec => Console!ImplementsAtomicStore
  OBVIOUS
<1>1. Console!Init => Console!Store!Init /\ QuietLock
  <2>1. Console!Init => QuietLock
    BY QuietInit
  <2>2. Console!Init => Console!Store!Init
    BY DEF Console!Init, Console!Store!Init, Console!Op, Quiet
  <2> QED
    BY <2>1, <2>2
<1>2. QuietLock /\ [Console!Next]_(Console!vars) => QuietLock' /\ [Console!Store!Next]_<<doc, Console!Op>>
  BY QuietStep
<1> QED
  BY <1>1, <1>2, PTL DEF Console!Spec, Console!Store!Spec, Console!ImplementsAtomicStore
=============================================================================
