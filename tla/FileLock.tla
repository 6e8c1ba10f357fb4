------------------------------ MODULE FileLock ------------------------------
(***************************************************************************)
(* One JSON document guarded by one lock file, as fs_atomic.py and         *)
(* agent_state_store.py of the orchestrator do it.  Threads of several     *)
(* processes take the lock by creating the lock file exclusively, give up  *)
(* after a deadline, write the document through a temporary file whose     *)
(* name holds the process id (so the threads of a process share it), and   *)
(* remove the lock file in a `finally`.  A process may be killed at any    *)
(* point; what it left in the file system stays there.                     *)
(***************************************************************************)
EXTENDS Naturals

CONSTANTS Threads,   \* threads that call save_snapshot or mutate_*
          Pids,      \* processes
          PidOf,     \* the process of each thread
          NoThread,  \* "no lock file"
          Torn       \* marks a file somebody is still writing

ASSUME ThreadsAssumption == /\ PidOf \in [Threads -> Pids]
                            /\ NoThread \notin Threads
ASSUME ContentAssumption == Torn \notin Threads

VARIABLES lock,  \* the thread that created the lock file, or NoThread
          pc,    \* pc[t]: where t is
          op,    \* op[t]: t's request, until it is applied or dropped
          seen,  \* seen[t]: what t read under the lock
          tmp,   \* tmp[p]: content of process p's temporary file
          doc,   \* content of the document: the changes made to it
          left   \* has a failing write or unlink left the lock file there?

vars == <<lock, pc, op, seen, tmp, doc, left>>

Waiting  == {"trying", "polling"}
Critical == {"load", "open", "write", "replace", "release"}
Ops      == {"mutate", "save"}

Unfinished == {Torn}
Content    == (SUBSET Threads) \cup {Unfinished}

TypeOK == /\ lock \in Threads \cup {NoThread}
          /\ pc \in [Threads -> {"idle", "dead"} \cup Waiting \cup Critical]
          /\ op \in [Threads -> Ops \cup {"none"}]
          /\ seen \in [Threads -> SUBSET Threads]
          /\ tmp \in [Pids -> Content]
          /\ doc \in Content
          /\ left \in BOOLEAN

Init == /\ lock = NoThread
        /\ pc = [t \in Threads |-> "idle"]
        /\ op = [t \in Threads |-> "none"]
        /\ seen = [t \in Threads |-> {}]
        /\ tmp = [p \in Pids |-> Unfinished]
        /\ doc = {}
        /\ left = FALSE

-----------------------------------------------------------------------------
Goto(t, label) == pc' = [pc EXCEPT ![t] = label]
EndOps(S) ==
  /\ op' = [t \in Threads |-> IF t \in S THEN "none" ELSE op[t]]
  /\ seen' = [t \in Threads |-> IF t \in S THEN {} ELSE seen[t]]

ThreadsOf(p) == {t \in Threads : PidOf[t] = p}

\* Bug: list.append where list.extend is meant.
UpdatedNested(t) == IF op[t] = "mutate" THEN {seen[t], t} ELSE {t}

\* The text t writes: its change on top of what it read, or a whole snapshot.
Updated(t) == IF op[t] = "mutate" THEN seen[t] \cup {t} ELSE {t}

Begin(t, o) == /\ pc[t] = "idle"
               /\ op' = [op EXCEPT ![t] = o]
               /\ Goto(t, "trying")
               /\ UNCHANGED <<lock, seen, tmp, doc, left>>

\* Bug: os.open without O_EXCL.
AcquireShared(t) == /\ pc[t] \in Waiting
                    /\ lock' = t
                    /\ Goto(t, IF op[t] = "mutate" THEN "load" ELSE "open")
                    /\ UNCHANGED <<op, seen, tmp, doc, left>>

\* os.open(O_CREAT | O_EXCL) succeeds.
Acquire(t) == /\ pc[t] \in Waiting
              /\ lock = NoThread
              /\ lock' = t
              /\ Goto(t, IF op[t] = "mutate" THEN "load" ELSE "open")
              /\ UNCHANGED <<op, seen, tmp, doc, left>>

\* os.open raises another OSError, or os.write or os.close does when the lock
\* file has been created: the call ends before the `try`, and the file stays.
CreateRaises(t) == /\ pc[t] \in Waiting
                   /\ \/ UNCHANGED <<lock, left>>
                      \/ lock = NoThread /\ lock' = t /\ left' = TRUE
                   /\ Goto(t, "idle")
                   /\ EndOps({t})
                   /\ UNCHANGED <<tmp, doc>>

\* FileExistsError: sleep and poll again.
Busy(t) == /\ pc[t] = "trying"
           /\ lock # NoThread
           /\ Goto(t, "polling")
           /\ UNCHANGED <<lock, op, seen, tmp, doc, left>>

\* Bug: the `finally` that unlinks also encloses the acquisition.
TimeoutUnlinks(t) == /\ pc[t] = "polling"
                     /\ lock' = NoThread
                     /\ Goto(t, "idle")
                     /\ EndOps({t})
                     /\ UNCHANGED <<tmp, doc, left>>

\* Bug: the deadline is computed anew at every poll.
TimeoutNever(t) == /\ pc[t] = "polling"
                   /\ Goto(t, "trying")
                   /\ UNCHANGED <<lock, op, seen, tmp, doc, left>>

\* The deadline passes between two polls: TimeoutError, nothing is unlinked.
Timeout(t) == /\ pc[t] = "polling"
              /\ Goto(t, "idle")
              /\ EndOps({t})
              /\ UNCHANGED <<lock, tmp, doc, left>>

\* Text that is no JSON is replaced by the default document.
Load(t) == /\ pc[t] = "load"
           /\ seen' = [seen EXCEPT ![t] = IF doc = Unfinished THEN {} ELSE doc]
           /\ Goto(t, "open")
           /\ UNCHANGED <<lock, op, tmp, doc, left>>

\* Bug: the document itself is opened for writing.
OpenInPlace(t) == /\ pc[t] = "open"
                  /\ doc' = Unfinished
                  /\ Goto(t, "write")
                  /\ UNCHANGED <<lock, op, seen, tmp, left>>

\* write_text truncates the temporary file before it fills it.
OpenTmp(t) == /\ pc[t] = "open"
              /\ tmp' = [tmp EXCEPT ![PidOf[t]] = Unfinished]
              /\ Goto(t, "write")
              /\ UNCHANGED <<lock, op, seen, doc, left>>

WriteTmp(t) == /\ pc[t] = "write"
               /\ tmp' = [tmp EXCEPT ![PidOf[t]] = Updated(t)]
               /\ Goto(t, "replace")
               /\ UNCHANGED <<lock, op, seen, doc, left>>

\* os.replace: the temporary file becomes the document.  (A name that is
\* gone is not told apart from one that holds no whole text.)
Replace(t) == /\ pc[t] = "replace"
              /\ doc' = tmp[PidOf[t]]
              /\ tmp' = [tmp EXCEPT ![PidOf[t]] = Unfinished]
              /\ EndOps({t})
              /\ Goto(t, "release")
              /\ UNCHANGED <<lock, left>>

\* Bug: the unlink follows the body instead of standing in a `finally`.
FailKeepsLock(t) == /\ pc[t] \in Critical \ {"release"}
                    /\ Goto(t, "idle")
                    /\ EndOps({t})
                    /\ UNCHANGED <<lock, tmp, doc, left>>

\* The load, the mutator or a write raises: the `finally` still runs.
Fail(t) == /\ pc[t] \in Critical \ {"release"}
           /\ Goto(t, "release")
           /\ EndOps({t})
           /\ UNCHANGED <<lock, tmp, doc, left>>

\* unlink(missing_ok=True): whoever's lock file is there goes, or an OSError is
\* passed over and it stays.
Release(t) == /\ pc[t] = "release"
              /\ \/ lock' = NoThread /\ UNCHANGED left
                 \/ left' = TRUE /\ UNCHANGED lock
              /\ Goto(t, "idle")
              /\ UNCHANGED <<op, seen, tmp, doc>>

\* The process is killed; lock file and temporary file stay.
Crash(p) == /\ \E t \in ThreadsOf(p) : pc[t] # "dead"
            /\ pc' = [t \in Threads |-> IF t \in ThreadsOf(p) THEN "dead" ELSE pc[t]]
            /\ EndOps(ThreadsOf(p))
            /\ UNCHANGED <<lock, tmp, doc, left>>

Restart(p) == /\ ThreadsOf(p) # {}
              /\ \A t \in ThreadsOf(p) : pc[t] = "dead"
              /\ pc' = [t \in Threads |-> IF t \in ThreadsOf(p) THEN "idle" ELSE pc[t]]
              /\ UNCHANGED <<lock, op, seen, tmp, doc, left>>

Step(t) == \/ Acquire(t) \/ Busy(t) \/ Timeout(t)
           \/ Load(t) \/ OpenTmp(t) \/ WriteTmp(t) \/ Replace(t)
           \/ Fail(t) \/ Release(t)

Next == \/ \E t \in Threads : Step(t) \/ CreateRaises(t) \/ \E o \in Ops : Begin(t, o)
        \/ \E p \in Pids : Crash(p) \/ Restart(p)

\* A running thread keeps running and the clock reaches its deadline; nothing
\* makes a caller call, a lock file fail, a process die or anyone restart it.
Fairness == \A t \in Threads : WF_vars(Step(t))

Spec == Init /\ [][Next]_vars /\ Fairness

-----------------------------------------------------------------------------
InCritical(t) == pc[t] \in Critical

\* No two threads are between the creation and the removal of the lock file,
\* whatever times out, raises or is killed (file_lock).
MutualExclusion ==
  \A t, u \in Threads : InCritical(t) /\ InCritical(u) => t = u

\* A mutation is computed from the document it is about to replace, so it
\* cannot undo a change another thread made in between (mutate_json_file,
\* mutate_snapshot).
NoLostUpdate ==
  \A t \in Threads :
    op[t] = "mutate" /\ pc[t] \in {"open", "write", "replace"} => seen[t] = doc

\* The text that os.replace publishes is the text the thread itself wrote,
\* although the threads of a process share the temporary file's name.
OwnTmp ==
  \A t \in Threads : pc[t] = "replace" => tmp[PidOf[t]] = Updated(t)

\* The thread in the critical section is the one whose lock file exists.
HolderOwnsLock == \A t \in Threads : InCritical(t) => lock = t

WholeDoc == doc # Unfinished

PendingOp ==
  \A t \in Threads : pc[t] \in Waiting \cup (Critical \ {"release"}) <=> op[t] # "none"

LoadsMutate == \A t \in Threads : pc[t] = "load" => op[t] = "mutate"

\* The inductive invariant.
IInv == /\ TypeOK /\ HolderOwnsLock /\ WholeDoc /\ PendingOp /\ LoadsMutate
        /\ NoLostUpdate /\ OwnTmp

\* Lock-free readers (load_snapshot) and other writers see every request as
\* one indivisible change, or not at all.
Store == INSTANCE AtomicStore
ImplementsAtomicStore == Store!Spec

\* A caller waits a bounded time even behind a lock file nobody removes.
WaitEnds == \A t \in Threads : pc[t] \in Waiting ~> pc[t] \notin Waiting

\* A thread that took the lock removes it, however its body ends, if its process
\* is not killed first and the file system has never refused to write to a new
\* lock file or to unlink one: such a file stays until somebody removes it.
LockReturned ==
  \A t \in Threads : InCritical(t) ~> (lock = NoThread \/ pc[t] = "dead" \/ left)

=============================================================================
